---------------------------- MODULE HistoryProofs ----------------------------
(***************************************************************************)
(* Proofs about History, for any number of late comers, observer slots,     *)
(* duels, refused answers and requests for the field.                       *)
(*                                                                          *)
(* What a list of messages makes of a screen, of the record or of what      *)
(* reconnect notes is a fold.  The first part shows that each of these      *)
(* folds takes the empty list to what it starts from and a message behind a *)
(* list to one step more (AfterOn, ReachedOn, RecordedOn, ReplayOn,         *)
(* NotedOn, ToldOn); everything after it uses no more of them than that.    *)
(*                                                                          *)
(* The inductive invariant, Inv, has three parts.  Duel: at any time one of *)
(* the engine, a player and the next duel is waited for, what reconnect has *)
(* noted is what the engine told, and a player's screen shows that or he    *)
(* has asked for it late enough to be answered.  Viewers: the record,       *)
(* replayed on any screen, gives the screen of the observer who was there   *)
(* from the beginning, and so has everybody's who watches and for whom no   *)
(* replay is on its way.  Types: the types of the variables and of the      *)
(* mailbox.                                                                 *)
(***************************************************************************)
EXTENDS History, FoldFacts

-----------------------------------------------------------------------------
(* Messages, screens and the folds over them.                               *)

Silent == {"HsPlayerEnter", "DuelStart", "JoinGame", "ChangeSide", "WaitingSide", "ReloadField",
           "TimeLimit", "FieldFinish"}
Plain == Silent \cup {"ReverseDeck", "Waiting", "Win"}
Messages ==
  [kind : Plain, arg : {Nobody}]
    \cup [kind : {"TypeChange"}, arg : Keys \cup {Degraded}]
    \cup [kind : {"Start"}, arg : Seats \cup {Observer}]
    \cup [kind : {"NewTurn"}, arg : Seats]
    \cup [kind : {"NewPhase"}, arg : Phases]
    \cup [kind : {"Select"}, arg : Nat]
    \cup [kind : {"Retry"}, arg : Nat \cup {Nobody}]
Sends == [message : Messages, to : SUBSET Clients, recorded : BOOLEAN]
ViewTypes ==
  [role : Seats \cup {Observer, Nobody}, pos : Keys \cup {Degraded, Nobody}, turn : Places,
   phase : Phases \cup {"None"}, reversed : BOOLEAN, prompt : Nat \cup {Nobody}]

\* What each kind of message does.
LEMMA ShownIs ==
  ASSUME NEW v, NEW m
  PROVE  /\ m.kind \in Silent => Shown(v, m) = v
         /\ m.kind = "TypeChange" => Shown(v, m) = [v EXCEPT !.pos = m.arg]
         /\ m.kind = "Start" => Shown(v, m) = [Blank EXCEPT !.role = m.arg, !.pos = v.pos]
         /\ m.kind = "NewTurn" => Shown(v, m) = [v EXCEPT !.turn = m.arg]
         /\ m.kind = "NewPhase" => Shown(v, m) = [v EXCEPT !.phase = m.arg]
         /\ m.kind = "ReverseDeck" => Shown(v, m) = [v EXCEPT !.reversed = ~@]
         /\ m.kind = "Select" => Shown(v, m) = [v EXCEPT !.prompt = m.arg]
         /\ m.kind \in {"Waiting", "Win"} => Shown(v, m) = [v EXCEPT !.prompt = Nobody]
         /\ m.kind = "Retry" =>
              Shown(v, m) = IF v.role \in Seats THEN [v EXCEPT !.prompt = m.arg] ELSE v
BY DEF Shown, Silent

\* A screen stays one when a field of it changes.
LEMMA ViewUpdates ==
  ASSUME NEW v \in ViewTypes
  PROVE  /\ \A p \in Keys \cup {Degraded, Nobody} : [v EXCEPT !.pos = p] \in ViewTypes
         /\ \A r \in Seats \cup {Observer, Nobody} :
              [Blank EXCEPT !.role = r, !.pos = v.pos] \in ViewTypes
         /\ \A t \in Seats : [v EXCEPT !.turn = t] \in ViewTypes
         /\ \A p \in Phases : [v EXCEPT !.phase = p] \in ViewTypes
         /\ [v EXCEPT !.reversed = ~@] \in ViewTypes
         /\ \A p \in Nat \cup {Nobody} : [v EXCEPT !.prompt = p] \in ViewTypes
<1>1. \A p \in Keys \cup {Degraded, Nobody} : [v EXCEPT !.pos = p] \in ViewTypes
  BY DEF ViewTypes
<1>2. \A r \in Seats \cup {Observer, Nobody} :
        [Blank EXCEPT !.role = r, !.pos = v.pos] \in ViewTypes
  BY DEF ViewTypes, Blank, Places
<1>3. \A t \in Seats : [v EXCEPT !.turn = t] \in ViewTypes
  BY DEF ViewTypes, Places
<1>4. \A p \in Phases : [v EXCEPT !.phase = p] \in ViewTypes
  BY DEF ViewTypes
<1>5. [v EXCEPT !.reversed = ~@] \in ViewTypes
  BY DEF ViewTypes
<1>6. \A p \in Nat \cup {Nobody} : [v EXCEPT !.prompt = p] \in ViewTypes
  BY DEF ViewTypes
<1> QED BY <1>1, <1>2, <1>3, <1>4, <1>5, <1>6

\* What a message carries.
LEMMA MessageArgs ==
  ASSUME NEW m \in Messages
  PROVE  /\ m.kind \in Plain \cup {"TypeChange", "Start", "NewTurn", "NewPhase", "Select", "Retry"}
         /\ m.kind = "TypeChange" => m.arg \in Keys \cup {Degraded}
         /\ m.kind = "Start" => m.arg \in Seats \cup {Observer}
         /\ m.kind = "NewTurn" => m.arg \in Seats
         /\ m.kind = "NewPhase" => m.arg \in Phases
         /\ m.kind = "Select" => m.arg \in Nat
         /\ m.kind = "Retry" => m.arg \in Nat \cup {Nobody}
BY DEF Messages, Plain, Silent

\* A message makes of a screen another one.
LEMMA ShownTyped == \A v \in ViewTypes, m \in Messages : Shown(v, m) \in ViewTypes
<1> SUFFICES ASSUME NEW v \in ViewTypes, NEW m \in Messages PROVE Shown(v, m) \in ViewTypes
  OBVIOUS
<1>1. CASE m.kind \in Silent
  BY ONLY <1>1, ShownIs
<1>2. CASE m.kind = "ReverseDeck"
  <2>1. Shown(v, m) = [v EXCEPT !.reversed = ~@]
    BY ONLY <1>2, ShownIs
  <2> QED BY <2>1, ViewUpdates
<1>3. CASE m.kind \in {"Waiting", "Win"}
  <2>1. Shown(v, m) = [v EXCEPT !.prompt = Nobody]
    BY ONLY <1>3, ShownIs
  <2> QED BY <2>1, ViewUpdates
<1>4. CASE m.kind = "TypeChange"
  <2>1. Shown(v, m) = [v EXCEPT !.pos = m.arg]
    BY ONLY <1>4, ShownIs
  <2>2. m.arg \in Keys \cup {Degraded, Nobody}
    BY <1>4, MessageArgs
  <2> QED BY <2>1, <2>2, ViewUpdates
<1>5. CASE m.kind = "Start"
  <2>1. Shown(v, m) = [Blank EXCEPT !.role = m.arg, !.pos = v.pos]
    BY ONLY <1>5, ShownIs
  <2>2. m.arg \in Seats \cup {Observer, Nobody}
    BY <1>5, MessageArgs
  <2> QED BY <2>1, <2>2, ViewUpdates
<1>6. CASE m.kind = "NewTurn"
  <2>1. Shown(v, m) = [v EXCEPT !.turn = m.arg]
    BY ONLY <1>6, ShownIs
  <2>2. m.arg \in Seats
    BY <1>6, MessageArgs
  <2> QED BY <2>1, <2>2, ViewUpdates
<1>7. CASE m.kind = "NewPhase"
  <2>1. Shown(v, m) = [v EXCEPT !.phase = m.arg]
    BY ONLY <1>7, ShownIs
  <2>2. m.arg \in Phases
    BY <1>7, MessageArgs
  <2> QED BY <2>1, <2>2, ViewUpdates
<1>8. CASE m.kind = "Select"
  <2>1. Shown(v, m) = [v EXCEPT !.prompt = m.arg]
    BY ONLY <1>8, ShownIs
  <2>2. m.arg \in Nat \cup {Nobody}
    BY <1>8, MessageArgs
  <2> QED BY <2>1, <2>2, ViewUpdates
<1>9. CASE m.kind = "Retry"
  <2>1. Shown(v, m) = IF v.role \in Seats THEN [v EXCEPT !.prompt = m.arg] ELSE v
    BY ONLY <1>9, ShownIs
  <2>2. m.arg \in Nat \cup {Nobody}
    BY <1>9, MessageArgs
  <2> QED BY <2>1, <2>2, ViewUpdates
<1> QED BY <1>1, <1>2, <1>3, <1>4, <1>5, <1>6, <1>7, <1>8, <1>9, MessageArgs DEF Plain

\* What is sent.
LEMMA SendFields ==
  \A x \in Sends : x.message \in Messages /\ x.to \in SUBSET Clients /\ x.recorded \in BOOLEAN
BY DEF Sends

\* The copy of a message is one.
LEMMA CopyTyped == \A m \in Messages : Copy(m) \in Messages
<1> SUFFICES ASSUME NEW m \in Messages PROVE Copy(m) \in Messages
  OBVIOUS
<1>1. CASE m.kind = "TypeChange"
  <2>1. m \in [kind : {"TypeChange"}, arg : Keys \cup {Degraded}]
    BY <1>1 DEF Messages, Plain, Silent
  <2>2. [m EXCEPT !.arg = Degraded] \in [kind : {"TypeChange"}, arg : Keys \cup {Degraded}]
    BY <2>1
  <2> QED BY <1>1, <2>2 DEF Copy, Messages
<1>2. CASE m.kind # "TypeChange"
  BY <1>2 DEF Copy
<1> QED BY <1>1, <1>2

Attachments == [known : BOOLEAN, turn : Places, phase : Phases, reversed : BOOLEAN]
Engines == [duel : Nat, turn : Places, phase : Phases \cup {"None"}, reversed : BOOLEAN,
            events : Nat, retries : Nat, ended : BOOLEAN]

\* What reconnect notes stays an attachment.
LEMMA NotedTyped == \A a \in Attachments, e \in Messages : Noted(a, e) \in Attachments
<1> SUFFICES ASSUME NEW a \in Attachments, NEW e \in Messages PROVE Noted(a, e) \in Attachments
  OBVIOUS
<1>1. /\ \A t \in Seats : [a EXCEPT !.known = TRUE, !.turn = t] \in Attachments
      /\ \A p \in Phases : [a EXCEPT !.known = TRUE, !.phase = p] \in Attachments
      /\ [a EXCEPT !.known = TRUE, !.reversed = ~@] \in Attachments
  BY DEF Attachments, Places
<1>2. /\ e.kind = "NewTurn" => Noted(a, e) = [a EXCEPT !.known = TRUE, !.turn = e.arg]
      /\ e.kind = "NewPhase" => Noted(a, e) = [a EXCEPT !.known = TRUE, !.phase = e.arg]
      /\ e.kind = "ReverseDeck" => Noted(a, e) = [a EXCEPT !.known = TRUE, !.reversed = ~@]
      /\ e.kind \notin {"NewTurn", "NewPhase", "ReverseDeck"} => Noted(a, e) = a
  BY DEF Noted
<1>3. (e.kind = "NewTurn" => e.arg \in Seats) /\ (e.kind = "NewPhase" => e.arg \in Phases)
  BY MessageArgs
<1> QED BY <1>1, <1>2, <1>3

\* What the engine tells leaves a duel in it.
LEMMA ToldTyped == \A d \in Engines, e \in Messages : Told(d, e) \in Engines
<1> SUFFICES ASSUME NEW d \in Engines, NEW e \in Messages PROVE Told(d, e) \in Engines
  OBVIOUS
<1>1. /\ \A t \in Seats : [d EXCEPT !.turn = t] \in Engines
      /\ \A p \in Phases : [d EXCEPT !.phase = p] \in Engines
      /\ [d EXCEPT !.reversed = ~@] \in Engines
  BY DEF Engines, Places
<1>2. /\ e.kind = "NewTurn" => Told(d, e) = [d EXCEPT !.turn = e.arg]
      /\ e.kind = "NewPhase" => Told(d, e) = [d EXCEPT !.phase = e.arg]
      /\ e.kind = "ReverseDeck" => Told(d, e) = [d EXCEPT !.reversed = ~@]
      /\ e.kind \notin {"NewTurn", "NewPhase", "ReverseDeck"} => Told(d, e) = d
  BY DEF Told
<1>3. (e.kind = "NewTurn" => e.arg \in Seats) /\ (e.kind = "NewPhase" => e.arg \in Phases)
  BY MessageArgs
<1> QED BY <1>1, <1>2, <1>3

\* After goes message by message.
LEMMA AfterOn ==
  ASSUME NEW v \in ViewTypes
  PROVE  /\ After(v, <<>>) = v
         /\ \A s \in Seq(Messages) : After(v, s) \in ViewTypes
         /\ \A s \in Seq(Messages), x \in Messages :
              After(v, Append(s, x)) = Shown(After(v, s), x)
<1> DEFINE f == [y \in ViewTypes \X Messages |-> Shown(y[1], y[2])]
<1>1. f \in [ViewTypes \X Messages -> ViewTypes] /\ \A y \in ViewTypes, x \in Messages : f[<<y, x>>] = Shown(y, x)
  BY ShownTyped
<1>2. ASSUME NEW s \in Seq(Messages) PROVE After(v, s) = Led(ViewTypes, f, v, s)
  <2> DEFINE Up(h) == h = [t \in SUBSET DOMAIN s |->
                             IF t = {} THEN v ELSE Shown(h[t \ {Max(t)}], s[Max(t)])]
             way == CHOOSE h : Up(h)
  <2>1. After(v, s) = way[DOMAIN s]
    BY DEF After, FoldLeft, MapThenFoldSet
  <2>2. DOMAIN s = 1..Len(s) /\ Len(s) \in Nat /\ \A i \in DOMAIN s : s[i] \in Messages
    OBVIOUS
  <2>3. PICK g \in [SUBSET DOMAIN s -> ViewTypes] : Climbs(g, f, v, s)
    BY <1>1, Climbing
  <2>4. \A t \in SUBSET DOMAIN s : t # {} => Max(t) \in DOMAIN s /\ t \ {Max(t)} \in SUBSET DOMAIN s
    BY <2>2, Highest
  <2>5. \A t \in SUBSET DOMAIN s :
          g[t] = IF t = {} THEN v ELSE Shown(g[t \ {Max(t)}], s[Max(t)])
    <3> HIDE DEF f
    <3> QED BY <1>1, <2>2, <2>3, <2>4 DEF Climbs
  <2>6. Up(g)
    BY <2>3, <2>5
  <2>7. Up(way)
    <3> HIDE DEF Up
    <3> QED BY <2>6
  <2> HIDE DEF way, f
  <2>8. Starts(way, ViewTypes, f, v, s, Len(s))
    BY <1>1, <2>2, <2>4, <2>7 DEF Starts
  <2>9. Ground(ViewTypes, Messages, f, v, s)
    BY <1>1 DEF Ground, FoldSteps
  <2> QED BY <2>1, <2>8, <2>9, FoundWay
<1> HIDE DEF f
<1>3. /\ Led(ViewTypes, f, v, <<>>) = v
      /\ \A s \in Seq(Messages) : Led(ViewTypes, f, v, s) \in ViewTypes
      /\ \A s \in Seq(Messages), x \in Messages : Led(ViewTypes, f, v, Append(s, x)) = f[<<Led(ViewTypes, f, v, s), x>>]
  <2>1. FoldSteps(ViewTypes, Messages, f, v)
    BY <1>1 DEF FoldSteps
  <2> QED BY <2>1, LedOn
<1>4. <<>> \in Seq(Messages) /\ \A s \in Seq(Messages), x \in Messages : Append(s, x) \in Seq(Messages)
  OBVIOUS
<1>5. After(v, <<>>) = v
  BY <1>2, <1>3, <1>4
<1>6. \A s \in Seq(Messages) : After(v, s) \in ViewTypes
  BY <1>2, <1>3
<1>7. ASSUME NEW s \in Seq(Messages), NEW x \in Messages
      PROVE  After(v, Append(s, x)) = Shown(After(v, s), x)
  <2>1. After(v, Append(s, x)) = f[<<After(v, s), x>>]
    BY <1>2, <1>3, <1>4
  <2> QED BY <1>1, <1>6, <2>1
<1> QED BY <1>5, <1>6, <1>7

\* Reached goes from one thing sent to the next.
LEMMA ReachedOn ==
  ASSUME NEW c, NEW v \in ViewTypes
  PROVE  /\ Reached(c, v, <<>>) = v
         /\ \A s \in Seq(Sends) : Reached(c, v, s) \in ViewTypes
         /\ \A s \in Seq(Sends), x \in Sends :
              Reached(c, v, Append(s, x)) = (IF c \in x.to THEN Shown(Reached(c, v, s), x.message) ELSE Reached(c, v, s))
<1> DEFINE f == [y \in ViewTypes \X Sends |-> (IF c \in y[2].to THEN Shown(y[1], y[2].message) ELSE y[1])]
<1>1. f \in [ViewTypes \X Sends -> ViewTypes] /\ \A y \in ViewTypes, x \in Sends : f[<<y, x>>] = (IF c \in x.to THEN Shown(y, x.message) ELSE y)
  BY ShownTyped, SendFields
<1>2. ASSUME NEW s \in Seq(Sends) PROVE Reached(c, v, s) = Led(ViewTypes, f, v, s)
  <2> DEFINE Up(h) == h = [t \in SUBSET DOMAIN s |->
                             IF t = {} THEN v ELSE (IF c \in s[Max(t)].to THEN Shown(h[t \ {Max(t)}], s[Max(t)].message) ELSE h[t \ {Max(t)}])]
             way == CHOOSE h : Up(h)
  <2>1. Reached(c, v, s) = way[DOMAIN s]
    BY DEF Reached, FoldLeft, MapThenFoldSet
  <2>2. DOMAIN s = 1..Len(s) /\ Len(s) \in Nat /\ \A i \in DOMAIN s : s[i] \in Sends
    OBVIOUS
  <2>3. PICK g \in [SUBSET DOMAIN s -> ViewTypes] : Climbs(g, f, v, s)
    BY <1>1, Climbing
  <2>4. \A t \in SUBSET DOMAIN s : t # {} => Max(t) \in DOMAIN s /\ t \ {Max(t)} \in SUBSET DOMAIN s
    BY <2>2, Highest
  <2>5. \A t \in SUBSET DOMAIN s :
          g[t] = IF t = {} THEN v ELSE (IF c \in s[Max(t)].to THEN Shown(g[t \ {Max(t)}], s[Max(t)].message) ELSE g[t \ {Max(t)}])
    <3> HIDE DEF f
    <3>1. \A t \in SUBSET DOMAIN s : g[t] = IF t = {} THEN v ELSE f[<<g[t \ {Max(t)}], s[Max(t)]>>]
      BY <2>3 DEF Climbs
    <3>2. ASSUME NEW t \in SUBSET DOMAIN s, t # {} PROVE f[<<g[t \ {Max(t)}], s[Max(t)]>>] = (IF c \in s[Max(t)].to THEN Shown(g[t \ {Max(t)}], s[Max(t)].message) ELSE g[t \ {Max(t)}])
      <4>1. g[t \ {Max(t)}] \in ViewTypes /\ s[Max(t)] \in Sends
        BY <2>2, <2>3, <2>4, <3>2
      <4> QED BY <1>1, <4>1
    <3> QED BY <3>1, <3>2
  <2>6. Up(g)
    BY <2>3, <2>5
  <2>7. Up(way)
    <3> HIDE DEF Up
    <3> QED BY <2>6
  <2> HIDE DEF way, f
  <2>8. Starts(way, ViewTypes, f, v, s, Len(s))
    <3>1. DOMAIN s = 1..Len(s) /\ {} \in SUBSET DOMAIN s
      BY <2>2
    <3>2. way[{}] = v
      BY <2>7, <3>1
    <3>3. ASSUME NEW t \in SUBSET (1..Len(s)), t # {}, way[t \ {Max(t)}] \in ViewTypes
          PROVE  way[t] = f[<<way[t \ {Max(t)}], s[Max(t)]>>]
      <4>1. t \in SUBSET DOMAIN s /\ s[Max(t)] \in Sends
        BY <2>2, <2>4, <3>1, <3>3
      <4>2. way[t] = (IF c \in s[Max(t)].to THEN Shown(way[t \ {Max(t)}], s[Max(t)].message) ELSE way[t \ {Max(t)}])
        BY <2>7, <3>3, <4>1
      <4> QED BY <1>1, <3>3, <4>1, <4>2
    <3> QED BY <3>2, <3>3 DEF Starts
  <2>9. Ground(ViewTypes, Sends, f, v, s)
    BY <1>1 DEF Ground, FoldSteps
  <2> QED BY <2>1, <2>8, <2>9, FoundWay
<1> HIDE DEF f
<1>3. /\ Led(ViewTypes, f, v, <<>>) = v
      /\ \A s \in Seq(Sends) : Led(ViewTypes, f, v, s) \in ViewTypes
      /\ \A s \in Seq(Sends), x \in Sends : Led(ViewTypes, f, v, Append(s, x)) = f[<<Led(ViewTypes, f, v, s), x>>]
  <2>1. FoldSteps(ViewTypes, Sends, f, v)
    BY <1>1 DEF FoldSteps
  <2> QED BY <2>1, LedOn
<1>4. <<>> \in Seq(Sends) /\ \A s \in Seq(Sends), x \in Sends : Append(s, x) \in Seq(Sends)
  OBVIOUS
<1>5. Reached(c, v, <<>>) = v
  BY <1>2, <1>3, <1>4
<1>6. \A s \in Seq(Sends) : Reached(c, v, s) \in ViewTypes
  BY <1>2, <1>3
<1>7. ASSUME NEW s \in Seq(Sends), NEW x \in Sends
      PROVE  Reached(c, v, Append(s, x)) = (IF c \in x.to THEN Shown(Reached(c, v, s), x.message) ELSE Reached(c, v, s))
  <2>1. Reached(c, v, Append(s, x)) = f[<<Reached(c, v, s), x>>]
    BY <1>2, <1>3, <1>4
  <2> QED BY <1>1, <1>6, <2>1
<1> QED BY <1>5, <1>6, <1>7

\* Replay goes message by message.
LEMMA ReplayOn ==
  ASSUME NEW v \in ViewTypes
  PROVE  /\ Replay(v, <<>>) = v
         /\ \A s \in Seq(Messages) : Replay(v, s) \in ViewTypes
         /\ \A s \in Seq(Messages), x \in Messages :
              Replay(v, Append(s, x)) = (IF Replayed(x) THEN Shown(Replay(v, s), x) ELSE Replay(v, s))
<1> DEFINE f == [y \in ViewTypes \X Messages |-> (IF Replayed(y[2]) THEN Shown(y[1], y[2]) ELSE y[1])]
<1>1. f \in [ViewTypes \X Messages -> ViewTypes] /\ \A y \in ViewTypes, x \in Messages : f[<<y, x>>] = (IF Replayed(x) THEN Shown(y, x) ELSE y)
  BY ShownTyped
<1>2. ASSUME NEW s \in Seq(Messages) PROVE Replay(v, s) = Led(ViewTypes, f, v, s)
  <2> DEFINE Up(h) == h = [t \in SUBSET DOMAIN s |->
                             IF t = {} THEN v ELSE (IF Replayed(s[Max(t)]) THEN Shown(h[t \ {Max(t)}], s[Max(t)]) ELSE h[t \ {Max(t)}])]
             way == CHOOSE h : Up(h)
  <2>1. Replay(v, s) = way[DOMAIN s]
    BY DEF Replay, FoldLeft, MapThenFoldSet
  <2>2. DOMAIN s = 1..Len(s) /\ Len(s) \in Nat /\ \A i \in DOMAIN s : s[i] \in Messages
    OBVIOUS
  <2>3. PICK g \in [SUBSET DOMAIN s -> ViewTypes] : Climbs(g, f, v, s)
    BY <1>1, Climbing
  <2>4. \A t \in SUBSET DOMAIN s : t # {} => Max(t) \in DOMAIN s /\ t \ {Max(t)} \in SUBSET DOMAIN s
    BY <2>2, Highest
  <2>5. \A t \in SUBSET DOMAIN s :
          g[t] = IF t = {} THEN v ELSE (IF Replayed(s[Max(t)]) THEN Shown(g[t \ {Max(t)}], s[Max(t)]) ELSE g[t \ {Max(t)}])
    <3> HIDE DEF f
    <3> QED BY <1>1, <2>2, <2>3, <2>4 DEF Climbs
  <2>6. Up(g)
    BY <2>3, <2>5
  <2>7. Up(way)
    <3> HIDE DEF Up
    <3> QED BY <2>6
  <2> HIDE DEF way, f
  <2>8. Starts(way, ViewTypes, f, v, s, Len(s))
    BY <1>1, <2>2, <2>4, <2>7 DEF Starts
  <2>9. Ground(ViewTypes, Messages, f, v, s)
    BY <1>1 DEF Ground, FoldSteps
  <2> QED BY <2>1, <2>8, <2>9, FoundWay
<1> HIDE DEF f
<1>3. /\ Led(ViewTypes, f, v, <<>>) = v
      /\ \A s \in Seq(Messages) : Led(ViewTypes, f, v, s) \in ViewTypes
      /\ \A s \in Seq(Messages), x \in Messages : Led(ViewTypes, f, v, Append(s, x)) = f[<<Led(ViewTypes, f, v, s), x>>]
  <2>1. FoldSteps(ViewTypes, Messages, f, v)
    BY <1>1 DEF FoldSteps
  <2> QED BY <2>1, LedOn
<1>4. <<>> \in Seq(Messages) /\ \A s \in Seq(Messages), x \in Messages : Append(s, x) \in Seq(Messages)
  OBVIOUS
<1>5. Replay(v, <<>>) = v
  BY <1>2, <1>3, <1>4
<1>6. \A s \in Seq(Messages) : Replay(v, s) \in ViewTypes
  BY <1>2, <1>3
<1>7. ASSUME NEW s \in Seq(Messages), NEW x \in Messages
      PROVE  Replay(v, Append(s, x)) = (IF Replayed(x) THEN Shown(Replay(v, s), x) ELSE Replay(v, s))
  <2>1. Replay(v, Append(s, x)) = f[<<Replay(v, s), x>>]
    BY <1>2, <1>3, <1>4
  <2> QED BY <1>1, <1>6, <2>1
<1> QED BY <1>5, <1>6, <1>7

\* So does Recorded.
LEMMA RecordedOn ==
  ASSUME NEW v \in Seq(Messages)
  PROVE  /\ Recorded(v, <<>>) = v
         /\ \A s \in Seq(Sends) : Recorded(v, s) \in Seq(Messages)
         /\ \A s \in Seq(Sends), x \in Sends :
              Recorded(v, Append(s, x)) = (IF x.recorded THEN Append(Recorded(v, s), Copy(x.message)) ELSE Recorded(v, s))
<1> DEFINE f == [y \in Seq(Messages) \X Sends |-> (IF y[2].recorded THEN Append(y[1], Copy(y[2].message)) ELSE y[1])]
<1>1. f \in [Seq(Messages) \X Sends -> Seq(Messages)] /\ \A y \in Seq(Messages), x \in Sends : f[<<y, x>>] = (IF x.recorded THEN Append(y, Copy(x.message)) ELSE y)
  BY CopyTyped, SendFields
<1>2. ASSUME NEW s \in Seq(Sends) PROVE Recorded(v, s) = Led(Seq(Messages), f, v, s)
  <2> DEFINE Up(h) == h = [t \in SUBSET DOMAIN s |->
                             IF t = {} THEN v ELSE (IF s[Max(t)].recorded THEN Append(h[t \ {Max(t)}], Copy(s[Max(t)].message)) ELSE h[t \ {Max(t)}])]
             way == CHOOSE h : Up(h)
  <2>1. Recorded(v, s) = way[DOMAIN s]
    BY DEF Recorded, FoldLeft, MapThenFoldSet
  <2>2. DOMAIN s = 1..Len(s) /\ Len(s) \in Nat /\ \A i \in DOMAIN s : s[i] \in Sends
    OBVIOUS
  <2>3. PICK g \in [SUBSET DOMAIN s -> Seq(Messages)] : Climbs(g, f, v, s)
    BY <1>1, Climbing
  <2>4. \A t \in SUBSET DOMAIN s : t # {} => Max(t) \in DOMAIN s /\ t \ {Max(t)} \in SUBSET DOMAIN s
    BY <2>2, Highest
  <2>5. \A t \in SUBSET DOMAIN s :
          g[t] = IF t = {} THEN v ELSE (IF s[Max(t)].recorded THEN Append(g[t \ {Max(t)}], Copy(s[Max(t)].message)) ELSE g[t \ {Max(t)}])
    <3> HIDE DEF f
    <3>1. \A t \in SUBSET DOMAIN s : g[t] = IF t = {} THEN v ELSE f[<<g[t \ {Max(t)}], s[Max(t)]>>]
      BY <2>3 DEF Climbs
    <3>2. ASSUME NEW t \in SUBSET DOMAIN s, t # {} PROVE f[<<g[t \ {Max(t)}], s[Max(t)]>>] = (IF s[Max(t)].recorded THEN Append(g[t \ {Max(t)}], Copy(s[Max(t)].message)) ELSE g[t \ {Max(t)}])
      <4>1. g[t \ {Max(t)}] \in Seq(Messages) /\ s[Max(t)] \in Sends
        BY <2>2, <2>3, <2>4, <3>2
      <4> QED BY <1>1, <4>1
    <3> QED BY <3>1, <3>2
  <2>6. Up(g)
    BY <2>3, <2>5
  <2>7. Up(way)
    <3> HIDE DEF Up
    <3> QED BY <2>6
  <2> HIDE DEF way, f
  <2>8. Starts(way, Seq(Messages), f, v, s, Len(s))
    <3>1. DOMAIN s = 1..Len(s) /\ {} \in SUBSET DOMAIN s
      BY <2>2
    <3>2. way[{}] = v
      BY <2>7, <3>1
    <3>3. ASSUME NEW t \in SUBSET (1..Len(s)), t # {}, way[t \ {Max(t)}] \in Seq(Messages)
          PROVE  way[t] = f[<<way[t \ {Max(t)}], s[Max(t)]>>]
      <4>1. t \in SUBSET DOMAIN s /\ s[Max(t)] \in Sends
        BY <2>2, <2>4, <3>1, <3>3
      <4>2. way[t] = (IF s[Max(t)].recorded THEN Append(way[t \ {Max(t)}], Copy(s[Max(t)].message)) ELSE way[t \ {Max(t)}])
        BY <2>7, <3>3, <4>1
      <4> QED BY <1>1, <3>3, <4>1, <4>2
    <3> QED BY <3>2, <3>3 DEF Starts
  <2>9. Ground(Seq(Messages), Sends, f, v, s)
    BY <1>1 DEF Ground, FoldSteps
  <2> QED BY <2>1, <2>8, <2>9, FoundWay
<1> HIDE DEF f
<1>3. /\ Led(Seq(Messages), f, v, <<>>) = v
      /\ \A s \in Seq(Sends) : Led(Seq(Messages), f, v, s) \in Seq(Messages)
      /\ \A s \in Seq(Sends), x \in Sends : Led(Seq(Messages), f, v, Append(s, x)) = f[<<Led(Seq(Messages), f, v, s), x>>]
  <2>1. FoldSteps(Seq(Messages), Sends, f, v)
    BY <1>1 DEF FoldSteps
  <2> QED BY <2>1, LedOn
<1>4. <<>> \in Seq(Sends) /\ \A s \in Seq(Sends), x \in Sends : Append(s, x) \in Seq(Sends)
  OBVIOUS
<1>5. Recorded(v, <<>>) = v
  BY <1>2, <1>3, <1>4
<1>6. \A s \in Seq(Sends) : Recorded(v, s) \in Seq(Messages)
  BY <1>2, <1>3
<1>7. ASSUME NEW s \in Seq(Sends), NEW x \in Sends
      PROVE  Recorded(v, Append(s, x)) = (IF x.recorded THEN Append(Recorded(v, s), Copy(x.message)) ELSE Recorded(v, s))
  <2>1. Recorded(v, Append(s, x)) = f[<<Recorded(v, s), x>>]
    BY <1>2, <1>3, <1>4
  <2> QED BY <1>1, <1>6, <2>1
<1> QED BY <1>5, <1>6, <1>7

\* What a list of events makes of what reconnect notes, and of the engine's duel.
Noting(a, events) == FoldLeft(Noted, a, events)
Telling(d, events) == FoldLeft(Told, d, events)

\* What reconnect notes of the events of a run, event by event.
LEMMA NotedOn ==
  ASSUME NEW v \in Attachments
  PROVE  /\ Noting(v, <<>>) = v
         /\ \A s \in Seq(Messages) : Noting(v, s) \in Attachments
         /\ \A s \in Seq(Messages), x \in Messages :
              Noting(v, Append(s, x)) = Noted(Noting(v, s), x)
<1> DEFINE f == [y \in Attachments \X Messages |-> Noted(y[1], y[2])]
<1>1. f \in [Attachments \X Messages -> Attachments] /\ \A y \in Attachments, x \in Messages : f[<<y, x>>] = Noted(y, x)
  BY NotedTyped
<1>2. ASSUME NEW s \in Seq(Messages) PROVE Noting(v, s) = Led(Attachments, f, v, s)
  <2> DEFINE Up(h) == h = [t \in SUBSET DOMAIN s |->
                             IF t = {} THEN v ELSE Noted(h[t \ {Max(t)}], s[Max(t)])]
             way == CHOOSE h : Up(h)
  <2>1. Noting(v, s) = way[DOMAIN s]
    BY DEF Noting, FoldLeft, MapThenFoldSet
  <2>2. DOMAIN s = 1..Len(s) /\ Len(s) \in Nat /\ \A i \in DOMAIN s : s[i] \in Messages
    OBVIOUS
  <2>3. PICK g \in [SUBSET DOMAIN s -> Attachments] : Climbs(g, f, v, s)
    BY <1>1, Climbing
  <2>4. \A t \in SUBSET DOMAIN s : t # {} => Max(t) \in DOMAIN s /\ t \ {Max(t)} \in SUBSET DOMAIN s
    BY <2>2, Highest
  <2>5. \A t \in SUBSET DOMAIN s :
          g[t] = IF t = {} THEN v ELSE Noted(g[t \ {Max(t)}], s[Max(t)])
    <3> HIDE DEF f
    <3> QED BY <1>1, <2>2, <2>3, <2>4 DEF Climbs
  <2>6. Up(g)
    BY <2>3, <2>5
  <2>7. Up(way)
    <3> HIDE DEF Up
    <3> QED BY <2>6
  <2> HIDE DEF way, f
  <2>8. Starts(way, Attachments, f, v, s, Len(s))
    BY <1>1, <2>2, <2>4, <2>7 DEF Starts
  <2>9. Ground(Attachments, Messages, f, v, s)
    BY <1>1 DEF Ground, FoldSteps
  <2> QED BY <2>1, <2>8, <2>9, FoundWay
<1> HIDE DEF f
<1>3. /\ Led(Attachments, f, v, <<>>) = v
      /\ \A s \in Seq(Messages) : Led(Attachments, f, v, s) \in Attachments
      /\ \A s \in Seq(Messages), x \in Messages : Led(Attachments, f, v, Append(s, x)) = f[<<Led(Attachments, f, v, s), x>>]
  <2>1. FoldSteps(Attachments, Messages, f, v)
    BY <1>1 DEF FoldSteps
  <2> QED BY <2>1, LedOn
<1>4. <<>> \in Seq(Messages) /\ \A s \in Seq(Messages), x \in Messages : Append(s, x) \in Seq(Messages)
  OBVIOUS
<1>5. Noting(v, <<>>) = v
  BY <1>2, <1>3, <1>4
<1>6. \A s \in Seq(Messages) : Noting(v, s) \in Attachments
  BY <1>2, <1>3
<1>7. ASSUME NEW s \in Seq(Messages), NEW x \in Messages
      PROVE  Noting(v, Append(s, x)) = Noted(Noting(v, s), x)
  <2>1. Noting(v, Append(s, x)) = f[<<Noting(v, s), x>>]
    BY <1>2, <1>3, <1>4
  <2> QED BY <1>1, <1>6, <2>1
<1> QED BY <1>5, <1>6, <1>7

\* What they do to the engine's duel.
LEMMA ToldOn ==
  ASSUME NEW v \in Engines
  PROVE  /\ Telling(v, <<>>) = v
         /\ \A s \in Seq(Messages) : Telling(v, s) \in Engines
         /\ \A s \in Seq(Messages), x \in Messages :
              Telling(v, Append(s, x)) = Told(Telling(v, s), x)
<1> DEFINE f == [y \in Engines \X Messages |-> Told(y[1], y[2])]
<1>1. f \in [Engines \X Messages -> Engines] /\ \A y \in Engines, x \in Messages : f[<<y, x>>] = Told(y, x)
  BY ToldTyped
<1>2. ASSUME NEW s \in Seq(Messages) PROVE Telling(v, s) = Led(Engines, f, v, s)
  <2> DEFINE Up(h) == h = [t \in SUBSET DOMAIN s |->
                             IF t = {} THEN v ELSE Told(h[t \ {Max(t)}], s[Max(t)])]
             way == CHOOSE h : Up(h)
  <2>1. Telling(v, s) = way[DOMAIN s]
    BY DEF Telling, FoldLeft, MapThenFoldSet
  <2>2. DOMAIN s = 1..Len(s) /\ Len(s) \in Nat /\ \A i \in DOMAIN s : s[i] \in Messages
    OBVIOUS
  <2>3. PICK g \in [SUBSET DOMAIN s -> Engines] : Climbs(g, f, v, s)
    BY <1>1, Climbing
  <2>4. \A t \in SUBSET DOMAIN s : t # {} => Max(t) \in DOMAIN s /\ t \ {Max(t)} \in SUBSET DOMAIN s
    BY <2>2, Highest
  <2>5. \A t \in SUBSET DOMAIN s :
          g[t] = IF t = {} THEN v ELSE Told(g[t \ {Max(t)}], s[Max(t)])
    <3> HIDE DEF f
    <3> QED BY <1>1, <2>2, <2>3, <2>4 DEF Climbs
  <2>6. Up(g)
    BY <2>3, <2>5
  <2>7. Up(way)
    <3> HIDE DEF Up
    <3> QED BY <2>6
  <2> HIDE DEF way, f
  <2>8. Starts(way, Engines, f, v, s, Len(s))
    BY <1>1, <2>2, <2>4, <2>7 DEF Starts
  <2>9. Ground(Engines, Messages, f, v, s)
    BY <1>1 DEF Ground, FoldSteps
  <2> QED BY <2>1, <2>8, <2>9, FoundWay
<1> HIDE DEF f
<1>3. /\ Led(Engines, f, v, <<>>) = v
      /\ \A s \in Seq(Messages) : Led(Engines, f, v, s) \in Engines
      /\ \A s \in Seq(Messages), x \in Messages : Led(Engines, f, v, Append(s, x)) = f[<<Led(Engines, f, v, s), x>>]
  <2>1. FoldSteps(Engines, Messages, f, v)
    BY <1>1 DEF FoldSteps
  <2> QED BY <2>1, LedOn
<1>4. <<>> \in Seq(Messages) /\ \A s \in Seq(Messages), x \in Messages : Append(s, x) \in Seq(Messages)
  OBVIOUS
<1>5. Telling(v, <<>>) = v
  BY <1>2, <1>3, <1>4
<1>6. \A s \in Seq(Messages) : Telling(v, s) \in Engines
  BY <1>2, <1>3
<1>7. ASSUME NEW s \in Seq(Messages), NEW x \in Messages
      PROVE  Telling(v, Append(s, x)) = Told(Telling(v, s), x)
  <2>1. Telling(v, Append(s, x)) = f[<<Telling(v, s), x>>]
    BY <1>2, <1>3, <1>4
  <2> QED BY <1>1, <1>6, <2>1
<1> QED BY <1>5, <1>6, <1>7

-----------------------------------------------------------------------------
(* Lists of messages and of things sent.                                    *)

\* The events of a run of the engine, as they are sent.
News(events, to) == [i \in DOMAIN events |-> Sent(events[i].kind, events[i].arg, to)]

\* Everybody they are sent to sees them, nobody else does.
LEMMA NewsSeen ==
  ASSUME NEW to \in SUBSET Clients, NEW events \in Seq(Messages), NEW c, NEW v \in ViewTypes
  PROVE  /\ News(events, to) \in Seq(Sends)
         /\ Reached(c, v, News(events, to)) = IF c \in to THEN After(v, events) ELSE v
<1> DEFINE Seen(e) == /\ News(e, to) \in Seq(Sends)
                      /\ Reached(c, v, News(e, to)) = IF c \in to THEN After(v, e) ELSE v
           Good == {e \in Seq(Messages) : Seen(e)}
<1>1. Seen(<<>>)
  <2>1. News(<<>>, to) = <<>>
    BY DEF News
  <2>2. <<>> \in Seq(Sends)
    OBVIOUS
  <2>3. Reached(c, v, <<>>) = v /\ After(v, <<>>) = v
    BY AfterOn, ReachedOn
  <2> QED BY <2>1, <2>2, <2>3
<1>2. ASSUME NEW e \in Seq(Messages), NEW m \in Messages, Seen(e) PROVE Seen(Append(e, m))
  <2> DEFINE x == Sent(m.kind, m.arg, to)
  <2>1. x \in Sends /\ x.message = m /\ x.to = to
    <3>1. Message(m.kind, m.arg) = m
      BY DEF Message, Messages
    <3> QED BY <3>1 DEF Sent, Sends
  <2>2. News(Append(e, m), to) = Append(News(e, to), x)
    BY DEF News
  <2> HIDE DEF x
  <2>3. Reached(c, v, Append(News(e, to), x))
          = IF c \in to THEN Shown(Reached(c, v, News(e, to)), m) ELSE Reached(c, v, News(e, to))
    <3> DEFINE n == News(e, to)
    <3>1. n \in Seq(Sends)
      BY <1>2
    <3> HIDE DEF n
    <3>2. Reached(c, v, Append(n, x)) = IF c \in x.to THEN Shown(Reached(c, v, n), x.message) ELSE Reached(c, v, n)
      BY <2>1, <3>1, ReachedOn
    <3> QED BY <2>1, <3>2 DEF n
  <2>4. After(v, Append(e, m)) = Shown(After(v, e), m)
    BY AfterOn
  <2>5. Append(News(e, to), x) \in Seq(Sends)
    BY <1>2, <2>1
  <2> QED BY <1>2, <2>2, <2>3, <2>4, <2>5
<1>3. Good = Seq(Messages)
  <2>1. Good \in SUBSET Seq(Messages) /\ <<>> \in Good /\ \A e \in Good, m \in Messages : Append(e, m) \in Good
    <3> HIDE DEF Seen
    <3>1. <<>> \in Seq(Messages) /\ \A e \in Seq(Messages), m \in Messages : Append(e, m) \in Seq(Messages)
      OBVIOUS
    <3> QED BY <1>1, <1>2, <3>1
  <2> HIDE DEF Good
  <2> QED BY <2>1, Appending
<1> QED BY <1>3

\* A record as the Sender of a match keeps it.
Records == {r \in Seq(Messages) : Len(r) > 1 /\ r[1].kind = "HsPlayerEnter" /\ r[2].kind = "DuelStart"}

\* The screen v after the history that soumatou sends of a record.
Retold(v, record) == Replay(v, FromDuelStart(record))

\* The history begins behind the first message of the record.
LEMMA FromStart ==
  ASSUME NEW r \in Records
  PROVE  FromDuelStart(r) = SubSeq(r, 2, Len(r)) /\ FromDuelStart(r) \in Seq(Messages)
<1> DEFINE starts == {i \in DOMAIN r : r[i].kind = "DuelStart"}
           i0 == CHOOSE i \in starts : \A j \in starts : i <= j
<1>1. r \in Seq(Messages) /\ Len(r) \in Nat /\ Len(r) > 1 /\ DOMAIN r = 1..Len(r)
  BY DEF Records
<1>2. 2 \in starts /\ 1 \notin starts /\ \A j \in starts : 2 <= j
  BY <1>1 DEF Records
<1>3. i0 = 2
  <2>1. i0 \in starts /\ \A j \in starts : i0 <= j
    <3> HIDE DEF starts
    <3> QED BY <1>2
  <2>2. i0 \in Nat
    BY <1>1, <2>1
  <2> HIDE DEF i0, starts
  <2> QED BY <1>2, <2>1, <2>2
<1>4. FromDuelStart(r) = SubSeq(r, i0, Len(r))
  BY <1>2 DEF FromDuelStart
<1>5. SubSeq(r, 2, Len(r)) \in Seq(Messages)
  BY <1>1, SubSeqProperties
<1> QED BY <1>3, <1>4, <1>5

\* One more message on record is one more message of the history.
LEMMA RetoldOn ==
  ASSUME NEW r \in Records, NEW m \in Messages, NEW v \in ViewTypes
  PROVE  /\ Append(r, m) \in Records
         /\ Retold(v, r) \in ViewTypes
         /\ Retold(v, Append(r, m)) = IF Replayed(m) THEN Shown(Retold(v, r), m) ELSE Retold(v, r)
<1>1. r \in Seq(Messages) /\ Len(r) \in Nat /\ Len(r) > 1
  BY DEF Records
<1>2. Append(r, m) \in Records
  <2>1. /\ Append(r, m) \in Seq(Messages) /\ Len(Append(r, m)) = Len(r) + 1
        /\ Append(r, m)[1] = r[1] /\ Append(r, m)[2] = r[2]
    BY <1>1
  <2>2. r[1].kind = "HsPlayerEnter" /\ r[2].kind = "DuelStart"
    BY DEF Records
  <2> DEFINE q == Append(r, m)
  <2>3. q \in Seq(Messages) /\ Len(q) > 1 /\ q[1].kind = "HsPlayerEnter" /\ q[2].kind = "DuelStart"
    BY <1>1, <2>1, <2>2
  <2> HIDE DEF q
  <2>4. q \in Records
    BY <2>3 DEF Records
  <2> QED BY <2>4 DEF q
<1>3. SubSeq(Append(r, m), 2, Len(Append(r, m))) = Append(SubSeq(r, 2, Len(r)), m)
  BY <1>1
<1>4. FromDuelStart(Append(r, m)) = Append(FromDuelStart(r), m) /\ FromDuelStart(r) \in Seq(Messages)
  BY <1>2, <1>3, FromStart
<1> QED BY <1>2, <1>4, ReplayOn DEF Retold

-----------------------------------------------------------------------------
(* What whoever watches sees.                                               *)

PosSet == Keys \cup {Degraded, Nobody}

\* The screen of one who watches a duel.
Onlooker(w) == w \in ViewTypes /\ w.role = Observer /\ w.prompt = Nobody
At(w, p) == [w EXCEPT !.pos = p]

\* Everybody who watches gets it, now or later; nobody who watches does.
Public(x, who) ==
  /\ x.recorded
  /\ x.message.kind \in {"NewTurn", "NewPhase", "ReverseDeck", "Win", "WaitingSide"}
  /\ who \subseteq x.to
Private(x, who) ==
  /\ x.to \cap who = {}
  /\ x.recorded => x.message.kind \in Directed \cup {"Waiting", "Retry", "DuelStart"}

\* The place of a screen is changed without changing anything else.
LEMMA AtFields ==
  ASSUME NEW w \in ViewTypes, NEW p \in PosSet, NEW q \in PosSet
  PROVE  /\ At(w, p) \in ViewTypes
         /\ At(w, p).pos = p
         /\ At(At(w, p), q) = At(w, q)
         /\ At(w, w.pos) = w
         /\ w.pos \in PosSet
         /\ Onlooker(w) => Onlooker(At(w, p))
BY DEF At, PosSet, ViewTypes, Onlooker

\* A public message is replayed as it is, and does the same wherever one sits.
LEMMA PublicShown ==
  ASSUME NEW w, Onlooker(w), NEW m \in Messages,
         m.kind \in {"NewTurn", "NewPhase", "ReverseDeck", "Win", "WaitingSide"}
  PROVE  /\ Replayed(m) /\ Copy(m) = m
         /\ Onlooker(Shown(w, m)) /\ Shown(w, m).pos = w.pos
         /\ \A p \in PosSet : Shown(At(w, p), m) = At(Shown(w, m), p)
<1>1. Replayed(m) /\ Copy(m) = m
  BY DEF Replayed, Copy, Directed
<1>2. w \in ViewTypes /\ w.role = Observer /\ w.prompt = Nobody /\ Shown(w, m) \in ViewTypes
  BY ShownTyped DEF Onlooker
<1>3. CASE m.kind = "NewTurn"
  <2>1. \A v : Shown(v, m) = [v EXCEPT !.turn = m.arg]
    BY ONLY <1>3, ShownIs
  <2> QED BY <1>1, <1>2, <2>1 DEF ViewTypes, At, Onlooker
<1>4. CASE m.kind = "NewPhase"
  <2>1. \A v : Shown(v, m) = [v EXCEPT !.phase = m.arg]
    BY ONLY <1>4, ShownIs
  <2> QED BY <1>1, <1>2, <2>1 DEF ViewTypes, At, Onlooker
<1>5. CASE m.kind = "ReverseDeck"
  <2>1. \A v : Shown(v, m) = [v EXCEPT !.reversed = ~@]
    BY ONLY <1>5, ShownIs
  <2> QED BY <1>1, <1>2, <2>1 DEF ViewTypes, At, Onlooker
<1>6. CASE m.kind = "Win"
  <2>1. \A v : Shown(v, m) = [v EXCEPT !.prompt = Nobody]
    BY ONLY <1>6, ShownIs
  <2> QED BY <1>1, <1>2, <2>1 DEF ViewTypes, At, Onlooker
<1>7. CASE m.kind = "WaitingSide"
  <2>1. \A v : Shown(v, m) = v
    BY <1>7, ShownIs DEF Silent
  <2> QED BY <1>1, <1>2, <2>1 DEF ViewTypes, At, Onlooker
<1> QED BY <1>3, <1>4, <1>5, <1>6, <1>7

\* A private message that is replayed shows nothing.
LEMMA PrivateShown ==
  ASSUME NEW w, Onlooker(w), NEW m \in Messages,
         m.kind \in Directed \cup {"Waiting", "Retry", "DuelStart"}
  PROVE  Replayed(Copy(m)) => Shown(w, Copy(m)) = w
<1>1. CASE m.kind \in Directed
  <2>1. Copy(m).kind = m.kind
    BY DEF Copy, Messages
  <2> QED BY <1>1, <2>1 DEF Replayed
<1>2. CASE m.kind \in {"Waiting", "Retry", "DuelStart"}
  <2>1. Copy(m) = m /\ w \in ViewTypes /\ w.role = Observer /\ w.prompt = Nobody
    BY <1>2 DEF Copy, Onlooker
  <2>2. m.kind = "Waiting" => Shown(w, m) = [w EXCEPT !.prompt = Nobody]
    BY ShownIs
  <2>3. m.kind = "Retry" => Shown(w, m) = w
    <3>1. w.role \notin Seats
      BY <2>1 DEF Observer, Seats
    <3> QED BY ONLY <3>1, ShownIs
  <2>4. m.kind = "DuelStart" => Shown(w, m) = w
    BY ShownIs DEF Silent
  <2>5. [w EXCEPT !.prompt = Nobody] = w
    BY <2>1 DEF ViewTypes
  <2> QED BY <1>2, <2>1, <2>2, <2>3, <2>4, <2>5
<1> QED BY <1>1, <1>2

\* Those who sit see w2 where they saw w, and the history tells w2.
Agree(who, w, r, w2, s) ==
  /\ s \in Seq(Sends)
  /\ Onlooker(w2) /\ w2.pos = w.pos
  /\ Recorded(r, s) \in Records
  /\ \A v \in ViewTypes : Retold(v, Recorded(r, s)) = At(w2, v.pos)
  /\ \A c \in who, p \in PosSet : Reached(c, At(w, p), s) = At(w2, p)

\* Of what is either public or private, the history tells what those who sit have seen.
LEMMA Watched ==
  ASSUME NEW who, NEW w, Onlooker(w), NEW r \in Records,
         \A v \in ViewTypes : Retold(v, r) = At(w, v.pos)
  PROVE  \A s \in Seq(Sends) :
           (\A i \in DOMAIN s : Public(s[i], who) \/ Private(s[i], who)) =>
             \E w2 : Agree(who, w, r, w2, s)
<1> DEFINE Fair(s) == \A i \in DOMAIN s : Public(s[i], who) \/ Private(s[i], who)
           Good == {s \in Seq(Sends) : Fair(s) => \E w2 : Agree(who, w, r, w2, s)}
<1>0. r \in Seq(Messages) /\ w \in ViewTypes
  BY DEF Records, Onlooker
<1>1. Agree(who, w, r, w, <<>>)
  <2>1. Recorded(r, <<>>) = r
    BY <1>0, RecordedOn
  <2>2. \A c \in who, p \in PosSet : Reached(c, At(w, p), <<>>) = At(w, p)
    BY <1>0, AtFields, ReachedOn
  <2>3. <<>> \in Seq(Sends)
    OBVIOUS
  <2> QED BY <2>1, <2>2, <2>3 DEF Agree
<1>2. ASSUME NEW s \in Seq(Sends), NEW x \in Sends, NEW w2, Agree(who, w, r, w2, s),
             Public(x, who) \/ Private(x, who)
      PROVE  \E w3 : Agree(who, w, r, w3, Append(s, x))
  <2>1. x.message \in Messages /\ Copy(x.message) \in Messages
    BY SendFields, CopyTyped
  <2>2. /\ Onlooker(w2) /\ w2 \in ViewTypes /\ w2.pos = w.pos /\ Recorded(r, s) \in Records
        /\ \A v \in ViewTypes : Retold(v, Recorded(r, s)) = At(w2, v.pos)
        /\ \A c \in who, p \in PosSet : Reached(c, At(w, p), s) = At(w2, p)
    BY <1>2 DEF Agree, Onlooker
  <2>3. Recorded(r, Append(s, x)) = IF x.recorded THEN Append(Recorded(r, s), Copy(x.message)) ELSE Recorded(r, s)
    BY <1>0, RecordedOn
  <2>4. ASSUME NEW c \in who, NEW p \in PosSet
        PROVE  Reached(c, At(w, p), Append(s, x))
                 = IF c \in x.to THEN Shown(At(w2, p), x.message) ELSE At(w2, p)
    <3>1. At(w, p) \in ViewTypes
      BY <1>0, AtFields
    <3>2. Reached(c, At(w, p), Append(s, x))
            = IF c \in x.to THEN Shown(Reached(c, At(w, p), s), x.message) ELSE Reached(c, At(w, p), s)
      BY <3>1, ReachedOn
    <3> QED BY <2>2, <3>2
  <2>5. Append(s, x) \in Seq(Sends)
    OBVIOUS
  <2>6. CASE Public(x, who)
    <3> DEFINE w3 == Shown(w2, x.message)
    <3>1. /\ Replayed(x.message) /\ Copy(x.message) = x.message /\ x.recorded
          /\ Onlooker(w3) /\ w3.pos = w2.pos
          /\ \A p \in PosSet : Shown(At(w2, p), x.message) = At(w3, p)
          /\ \A c \in who : c \in x.to
      BY <2>1, <2>2, <2>6, PublicShown DEF Public
    <3> HIDE DEF w3
    <3>2. Recorded(r, Append(s, x)) = Append(Recorded(r, s), x.message)
      BY <2>3, <3>1
    <3>3. /\ Append(Recorded(r, s), x.message) \in Records
          /\ \A v \in ViewTypes :
               Retold(v, Append(Recorded(r, s), x.message)) = Shown(Retold(v, Recorded(r, s)), x.message)
      BY <2>1, <2>2, <3>1, RetoldOn, <1>0
    <3>4. \A v \in ViewTypes : v.pos \in PosSet
      BY DEF ViewTypes, PosSet
    <3>5. \A v \in ViewTypes : Retold(v, Recorded(r, Append(s, x))) = At(w3, v.pos)
      BY <2>2, <3>1, <3>2, <3>3, <3>4
    <3>6. \A c \in who, p \in PosSet : Reached(c, At(w, p), Append(s, x)) = At(w3, p)
      BY <2>4, <3>1
    <3>7. Agree(who, w, r, w3, Append(s, x))
      BY <2>2, <2>5, <3>1, <3>2, <3>3, <3>5, <3>6 DEF Agree
    <3> QED BY <3>7
  <2>7. CASE Private(x, who)
    <3>1. \A c \in who : c \notin x.to
      BY <2>7 DEF Private
    <3>2. /\ Recorded(r, Append(s, x)) \in Records
          /\ \A v \in ViewTypes : Retold(v, Recorded(r, Append(s, x))) = At(w2, v.pos)
      <4>1. CASE ~x.recorded
        BY <2>2, <2>3, <4>1
      <4>2. CASE x.recorded
        <5> DEFINE m == Copy(x.message)
        <5>1. x.message.kind \in Directed \cup {"Waiting", "Retry", "DuelStart"}
          BY <2>7, <4>2 DEF Private
        <5>2. ASSUME NEW v \in ViewTypes PROVE Replayed(m) => Shown(At(w2, v.pos), m) = At(w2, v.pos)
          <6>1. v.pos \in PosSet
            BY DEF ViewTypes, PosSet
          <6>2. Onlooker(At(w2, v.pos))
            BY <2>2, <6>1, AtFields
          <6> QED BY <2>1, <5>1, <6>2, PrivateShown
        <5>3. Recorded(r, Append(s, x)) = Append(Recorded(r, s), m) /\ m \in Messages
          BY <2>1, <2>3, <4>2
        <5> HIDE DEF m
        <5>4. ASSUME NEW v \in ViewTypes
              PROVE  /\ Append(Recorded(r, s), m) \in Records
                     /\ Retold(v, Append(Recorded(r, s), m))
                          = IF Replayed(m) THEN Shown(At(w2, v.pos), m) ELSE At(w2, v.pos)
          BY <2>2, <5>3, RetoldOn
        <5> QED BY <1>0, <5>2, <5>3, <5>4
      <4> QED BY <4>1, <4>2
    <3>3. \A c \in who, p \in PosSet : Reached(c, At(w, p), Append(s, x)) = At(w2, p)
      BY <2>4, <3>1
    <3>4. Agree(who, w, r, w2, Append(s, x))
      BY <2>2, <2>5, <3>2, <3>3 DEF Agree
    <3> QED BY <3>4
  <2> QED BY <1>2, <2>6, <2>7
<1>3. <<>> \in Good
  <2>1. <<>> \in Seq(Sends)
    OBVIOUS
  <2> QED BY <1>1, <2>1
<1>4. ASSUME NEW s \in Good, NEW x \in Sends PROVE Append(s, x) \in Good
  <2>1. s \in Seq(Sends) /\ Append(s, x) \in Seq(Sends)
    OBVIOUS
  <2> SUFFICES ASSUME Fair(Append(s, x)) PROVE \E w3 : Agree(who, w, r, w3, Append(s, x))
    BY <2>1
  <2>2. Fair(s) /\ (Public(x, who) \/ Private(x, who))
    <3>1. /\ DOMAIN s = 1..Len(s) /\ Len(s) \in Nat /\ DOMAIN Append(s, x) = 1..(Len(s) + 1)
          /\ Append(s, x)[Len(s) + 1] = x /\ \A i \in 1..Len(s) : Append(s, x)[i] = s[i]
      BY <2>1
    <3> QED BY <3>1
  <2> HIDE DEF Fair
  <2>3. \E w2 : Agree(who, w, r, w2, s)
    BY <2>2
  <2> QED BY <1>2, <2>1, <2>2, <2>3
<1>5. Good = Seq(Sends)
  <2>1. Good \in SUBSET Seq(Sends)
    OBVIOUS
  <2> HIDE DEF Good
  <2> QED BY <1>3, <1>4, <2>1, Appending
<1> QED BY <1>5

-----------------------------------------------------------------------------
(* Short lists.                                                             *)

\* What is put behind a list.
LEMMA Behind ==
  ASSUME NEW B, NEW s \in Seq(B), NEW a \in B, NEW b \in B
  PROVE  /\ s \o <<>> = s /\ s \o <<a>> = Append(s, a) /\ s \o <<a, b>> = Append(Append(s, a), b)
         /\ Append(s, a) \in Seq(B) /\ Append(Append(s, a), b) \in Seq(B)
<1>1. s \o <<>> = s
  OBVIOUS
<1>2. s \o <<a>> = Append(s, a)
  OBVIOUS
<1>3. s \o <<a, b>> = Append(Append(s, a), b)
  <2> DEFINE u == s \o <<a, b>>
             w == Append(Append(s, a), b)
  <2>1. u \in Seq(B) /\ w \in Seq(B) /\ Len(u) = Len(s) + 2 /\ Len(w) = Len(s) + 2 /\ Len(s) \in Nat
    OBVIOUS
  <2>2. \A i \in 1..(Len(s) + 2) : u[i] = w[i]
    OBVIOUS
  <2> HIDE DEF u, w
  <2>3. u = w
    BY <2>1, <2>2
  <2> QED BY <2>3 DEF u, w
<1> QED BY <1>1, <1>2, <1>3

\* After, on short lists.
LEMMA AfterLists ==
  ASSUME NEW v \in ViewTypes
  PROVE  /\ After(v, <<>>) = v
         /\ \A a \in Messages : After(v, <<a>>) = Shown(v, a)
         /\ \A a, b \in Messages : After(v, <<a, b>>) = Shown(Shown(v, a), b)
         /\ \A a, b, c \in Messages : After(v, <<a, b, c>>) = Shown(Shown(Shown(v, a), b), c)
         /\ \A a, b, c, d \in Messages : After(v, <<a, b, c, d>>) = Shown(Shown(Shown(Shown(v, a), b), c), d)
<1>1. After(v, <<>>) = v /\ \A s \in Seq(Messages), x \in Messages : After(v, Append(s, x)) = Shown(After(v, s), x)
  BY AfterOn
<1>2. ASSUME NEW a \in Messages
      PROVE  After(v, <<a>>) = Shown(v, a)
  <2>1. <<>> \in Seq(Messages) /\ <<a>> = Append(<<>>, a)
    OBVIOUS
  <2> QED BY <1>1, <2>1
<1>3. ASSUME NEW a \in Messages, NEW b \in Messages
      PROVE  After(v, <<a, b>>) = Shown(Shown(v, a), b)
  <2>1. <<a>> \in Seq(Messages) /\ <<a, b>> = Append(<<a>>, b)
    OBVIOUS
  <2> QED BY <1>2, <2>1, <1>1
<1>4. ASSUME NEW a \in Messages, NEW b \in Messages, NEW c \in Messages
      PROVE  After(v, <<a, b, c>>) = Shown(Shown(Shown(v, a), b), c)
  <2>1. <<a, b>> \in Seq(Messages) /\ <<a, b, c>> = Append(<<a, b>>, c)
    OBVIOUS
  <2> QED BY <1>3, <2>1, <1>1
<1>5. ASSUME NEW a \in Messages, NEW b \in Messages, NEW c \in Messages, NEW d \in Messages
      PROVE  After(v, <<a, b, c, d>>) = Shown(Shown(Shown(Shown(v, a), b), c), d)
  <2>1. <<a, b, c>> \in Seq(Messages) /\ <<a, b, c, d>> = Append(<<a, b, c>>, d)
    OBVIOUS
  <2> QED BY <1>4, <2>1, <1>1
<1> QED BY <1>1, <1>2, <1>3, <1>4, <1>5

\* After, on one list behind another.
LEMMA AfterBehind ==
  ASSUME NEW v \in ViewTypes, NEW s \in Seq(Messages), NEW t \in Seq(Messages)
  PROVE  After(v, s \o t) = After(After(v, s), t)
<1> DEFINE Ok(u) == After(v, s \o u) = After(After(v, s), u)
           Good == {u \in Seq(Messages) : Ok(u)}
<1>0. After(v, s) \in ViewTypes
  BY AfterOn
<1>1. Ok(<<>>)
  <2>1. s \o <<>> = s
    OBVIOUS
  <2> QED BY <1>0, <2>1, AfterOn
<1>2. ASSUME NEW u \in Seq(Messages), NEW m \in Messages, Ok(u) PROVE Ok(Append(u, m))
  <2>1. s \o Append(u, m) = Append(s \o u, m) /\ s \o u \in Seq(Messages)
    OBVIOUS
  <2>2. After(v, Append(s \o u, m)) = Shown(After(v, s \o u), m)
    BY <2>1, AfterOn
  <2>3. After(After(v, s), Append(u, m)) = Shown(After(After(v, s), u), m)
    BY <1>0, AfterOn
  <2> QED BY <1>2, <2>1, <2>2, <2>3
<1>3. Good = Seq(Messages)
  <2>1. Good \in SUBSET Seq(Messages) /\ <<>> \in Good /\ \A u \in Good, m \in Messages : Append(u, m) \in Good
    <3> HIDE DEF Ok
    <3>1. <<>> \in Seq(Messages) /\ \A u \in Seq(Messages), m \in Messages : Append(u, m) \in Seq(Messages)
      OBVIOUS
    <3> QED BY <1>1, <1>2, <3>1
  <2> HIDE DEF Good
  <2> QED BY <2>1, Appending
<1> QED BY <1>3

\* What the engine makes of lists.
LEMMA ToldLists ==
  ASSUME NEW v \in Engines
  PROVE  /\ Telling(v, <<>>) = v
         /\ \A a \in Messages : Telling(v, <<a>>) = Told(v, a)
         /\ \A a, b \in Messages : Telling(v, <<a, b>>) = Told(Told(v, a), b)
         /\ \A a, b, c \in Messages : Telling(v, <<a, b, c>>) = Told(Told(Told(v, a), b), c)
         /\ \A a, b, c, d \in Messages : Telling(v, <<a, b, c, d>>) = Told(Told(Told(Told(v, a), b), c), d)
<1>1. Telling(v, <<>>) = v /\ \A s \in Seq(Messages), x \in Messages : Telling(v, Append(s, x)) = Told(Telling(v, s), x)
  BY ToldOn
<1>2. ASSUME NEW a \in Messages
      PROVE  Telling(v, <<a>>) = Told(v, a)
  <2>1. <<>> \in Seq(Messages) /\ <<a>> = Append(<<>>, a)
    OBVIOUS
  <2> QED BY <1>1, <2>1
<1>3. ASSUME NEW a \in Messages, NEW b \in Messages
      PROVE  Telling(v, <<a, b>>) = Told(Told(v, a), b)
  <2>1. <<a>> \in Seq(Messages) /\ <<a, b>> = Append(<<a>>, b)
    OBVIOUS
  <2> QED BY <1>2, <2>1, <1>1
<1>4. ASSUME NEW a \in Messages, NEW b \in Messages, NEW c \in Messages
      PROVE  Telling(v, <<a, b, c>>) = Told(Told(Told(v, a), b), c)
  <2>1. <<a, b>> \in Seq(Messages) /\ <<a, b, c>> = Append(<<a, b>>, c)
    OBVIOUS
  <2> QED BY <1>3, <2>1, <1>1
<1>5. ASSUME NEW a \in Messages, NEW b \in Messages, NEW c \in Messages, NEW d \in Messages
      PROVE  Telling(v, <<a, b, c, d>>) = Told(Told(Told(Told(v, a), b), c), d)
  <2>1. <<a, b, c>> \in Seq(Messages) /\ <<a, b, c, d>> = Append(<<a, b, c>>, d)
    OBVIOUS
  <2> QED BY <1>4, <2>1, <1>1
<1> QED BY <1>1, <1>2, <1>3, <1>4, <1>5

\* What reconnect makes of them.
LEMMA NotedLists ==
  ASSUME NEW v \in Attachments
  PROVE  /\ Noting(v, <<>>) = v
         /\ \A a \in Messages : Noting(v, <<a>>) = Noted(v, a)
         /\ \A a, b \in Messages : Noting(v, <<a, b>>) = Noted(Noted(v, a), b)
         /\ \A a, b, c \in Messages : Noting(v, <<a, b, c>>) = Noted(Noted(Noted(v, a), b), c)
         /\ \A a, b, c, d \in Messages : Noting(v, <<a, b, c, d>>) = Noted(Noted(Noted(Noted(v, a), b), c), d)
<1>1. Noting(v, <<>>) = v /\ \A s \in Seq(Messages), x \in Messages : Noting(v, Append(s, x)) = Noted(Noting(v, s), x)
  BY NotedOn
<1>2. ASSUME NEW a \in Messages
      PROVE  Noting(v, <<a>>) = Noted(v, a)
  <2>1. <<>> \in Seq(Messages) /\ <<a>> = Append(<<>>, a)
    OBVIOUS
  <2> QED BY <1>1, <2>1
<1>3. ASSUME NEW a \in Messages, NEW b \in Messages
      PROVE  Noting(v, <<a, b>>) = Noted(Noted(v, a), b)
  <2>1. <<a>> \in Seq(Messages) /\ <<a, b>> = Append(<<a>>, b)
    OBVIOUS
  <2> QED BY <1>2, <2>1, <1>1
<1>4. ASSUME NEW a \in Messages, NEW b \in Messages, NEW c \in Messages
      PROVE  Noting(v, <<a, b, c>>) = Noted(Noted(Noted(v, a), b), c)
  <2>1. <<a, b>> \in Seq(Messages) /\ <<a, b, c>> = Append(<<a, b>>, c)
    OBVIOUS
  <2> QED BY <1>3, <2>1, <1>1
<1>5. ASSUME NEW a \in Messages, NEW b \in Messages, NEW c \in Messages, NEW d \in Messages
      PROVE  Noting(v, <<a, b, c, d>>) = Noted(Noted(Noted(Noted(v, a), b), c), d)
  <2>1. <<a, b, c>> \in Seq(Messages) /\ <<a, b, c, d>> = Append(<<a, b, c>>, d)
    OBVIOUS
  <2> QED BY <1>4, <2>1, <1>1
<1> QED BY <1>1, <1>2, <1>3, <1>4, <1>5

\* What a thing sent does to the screen w of k.
OnScreen(k, w, x) == IF k \in x.to THEN Shown(w, x.message) ELSE w

\* What reaches k of a list that is put behind another.
LEMMA ReachedBehind ==
  ASSUME NEW k, NEW v \in ViewTypes, NEW s \in Seq(Sends), NEW a \in Sends, NEW b \in Sends
  PROVE  /\ Reached(k, v, s \o <<a>>) = OnScreen(k, Reached(k, v, s), a)
         /\ Reached(k, v, s \o <<a, b>>) = OnScreen(k, OnScreen(k, Reached(k, v, s), a), b)
<1>1. /\ s \o <<a>> = Append(s, a) /\ s \o <<a, b>> = Append(Append(s, a), b)
      /\ Append(s, a) \in Seq(Sends)
  BY Behind
<1>a. \A u \in Seq(Sends), x \in Sends : Reached(k, v, Append(u, x)) = OnScreen(k, Reached(k, v, u), x)
  BY ReachedOn DEF OnScreen
<1>2. Reached(k, v, Append(s, a)) = OnScreen(k, Reached(k, v, s), a)
  BY <1>a
<1>3. Reached(k, v, Append(Append(s, a), b)) = OnScreen(k, Reached(k, v, Append(s, a)), b)
  BY <1>1, <1>a
<1> QED BY <1>1, <1>2, <1>3

\* Short lists.
LEMMA ReachedLists ==
  ASSUME NEW k, NEW v \in ViewTypes
  PROVE  /\ \A a, b \in Sends : Reached(k, v, <<a, b>>) = OnScreen(k, OnScreen(k, v, a), b)
         /\ \A a, b, c \in Sends :
              Reached(k, v, <<a, b, c>>) = OnScreen(k, OnScreen(k, OnScreen(k, v, a), b), c)
         /\ \A a, b, c, d \in Sends :
              Reached(k, v, <<a, b, c, d>>)
                = OnScreen(k, OnScreen(k, OnScreen(k, OnScreen(k, v, a), b), c), d)
<1>0. \A s \in Seq(Sends), x \in Sends : Reached(k, v, Append(s, x)) = OnScreen(k, Reached(k, v, s), x)
  BY ReachedOn DEF OnScreen
<1>1. Reached(k, v, <<>>) = v
  BY ReachedOn
<1>2. ASSUME NEW a \in Sends PROVE Reached(k, v, <<a>>) = OnScreen(k, v, a)
  <2>1. <<>> \in Seq(Sends) /\ <<a>> = Append(<<>>, a)
    OBVIOUS
  <2> QED BY <1>0, <1>1, <2>1
<1>3. ASSUME NEW a \in Sends, NEW b \in Sends
      PROVE  Reached(k, v, <<a, b>>) = OnScreen(k, OnScreen(k, v, a), b)
  <2>1. <<a>> \in Seq(Sends) /\ <<a, b>> = Append(<<a>>, b)
    OBVIOUS
  <2> QED BY <1>0, <1>2, <2>1
<1>4. ASSUME NEW a \in Sends, NEW b \in Sends, NEW c \in Sends
      PROVE  Reached(k, v, <<a, b, c>>) = OnScreen(k, OnScreen(k, OnScreen(k, v, a), b), c)
  <2>1. <<a, b>> \in Seq(Sends) /\ <<a, b, c>> = Append(<<a, b>>, c)
    OBVIOUS
  <2> QED BY <1>0, <1>3, <2>1
<1>5. ASSUME NEW a \in Sends, NEW b \in Sends, NEW c \in Sends, NEW d \in Sends
      PROVE  Reached(k, v, <<a, b, c, d>>)
               = OnScreen(k, OnScreen(k, OnScreen(k, OnScreen(k, v, a), b), c), d)
  <2>1. <<a, b, c>> \in Seq(Sends) /\ <<a, b, c, d>> = Append(<<a, b, c>>, d)
    OBVIOUS
  <2> QED BY <1>0, <1>4, <2>1
<1> QED BY <1>3, <1>4, <1>5

-----------------------------------------------------------------------------
(* The events of a run of the engine.                                       *)

\* One list behind another.
LEMMA Joined ==
  ASSUME NEW a, NEW b, NEW c, NEW d
  PROVE  <<a, b>> \o <<c>> = <<a, b, c>> /\ <<a, b>> \o <<c, d>> = <<a, b, c, d>>
<1> DEFINE S == {a, b, c, d}
           u == <<a, b>> \o <<c>>
           w == <<a, b>> \o <<c, d>>
<1>1. u \in Seq(S) /\ Len(u) = 3 /\ u[1] = a /\ u[2] = b /\ u[3] = c
  <2>1. <<a, b>> \in Seq(S) /\ <<c>> \in Seq(S) /\ Len(<<a, b>>) = 2 /\ Len(<<c>>) = 1
    OBVIOUS
  <2> QED BY <2>1
<1>2. w \in Seq(S) /\ Len(w) = 4 /\ w[1] = a /\ w[2] = b /\ w[3] = c /\ w[4] = d
  <2>1. <<a, b>> \in Seq(S) /\ <<c, d>> \in Seq(S) /\ Len(<<a, b>>) = 2 /\ Len(<<c, d>>) = 2
    OBVIOUS
  <2> QED BY <2>1
<1> HIDE DEF u, w
<1>3. u = <<a, b, c>> /\ w = <<a, b, c, d>>
  BY <1>1, <1>2
<1> QED BY <1>3 DEF u, w

\* What they do to anything that has a turn, a phase and a deck.
Opens(r) == [[r EXCEPT !.turn = 0] EXCEPT !.phase = "Draw"]
Goes(r, turns) ==
  IF turns THEN [[r EXCEPT !.turn = 1] EXCEPT !.phase = "Main"] ELSE [r EXCEPT !.reversed = ~@]
Moves(r, opens, turns) == Goes(IF opens THEN Opens(r) ELSE r, turns)

\* The turn, the phase and the deck that come of it.
TurnOf(old, opens, turns) == IF turns THEN 1 ELSE IF opens THEN 0 ELSE old
PhaseOf(old, opens, turns) == IF turns THEN "Main" ELSE IF opens THEN "Draw" ELSE old
DeckOf(old, turns) == IF turns THEN old ELSE ~old
Run(opens, e) == (IF opens THEN Opening ELSE <<>>) \o e

\* Of a screen.
LEMMA MovesView ==
  ASSUME NEW v \in ViewTypes, NEW opens \in BOOLEAN, NEW turns \in BOOLEAN
  PROVE  LET w == Moves(v, opens, turns) IN
         /\ w.role = v.role /\ w.pos = v.pos /\ w.prompt = v.prompt
         /\ w.turn = TurnOf(v.turn, opens, turns)
         /\ w.phase = PhaseOf(v.phase, opens, turns)
         /\ w.reversed = DeckOf(v.reversed, turns)
BY DEF Moves, Goes, Opens, TurnOf, PhaseOf, DeckOf, ViewTypes

\* Of the engine's duel.
LEMMA MovesEngine ==
  ASSUME NEW d \in Engines, NEW opens \in BOOLEAN, NEW turns \in BOOLEAN
  PROVE  LET w == Moves(d, opens, turns) IN
         /\ w.duel = d.duel /\ w.events = d.events /\ w.retries = d.retries /\ w.ended = d.ended
         /\ w.turn = TurnOf(d.turn, opens, turns)
         /\ w.phase = PhaseOf(d.phase, opens, turns)
         /\ w.reversed = DeckOf(d.reversed, turns)
BY DEF Moves, Goes, Opens, TurnOf, PhaseOf, DeckOf, Engines

\* A message that the engine tells, and what it does.
LEMMA EventKinds ==
  LET t(s) == Message("NewTurn", s)
      p(x) == Message("NewPhase", x)
      r == Message("ReverseDeck", Nobody)
  IN
  /\ \A s \in Seats : /\ t(s) \in Messages /\ t(s).kind = "NewTurn"
                      /\ \A v : Shown(v, t(s)) = [v EXCEPT !.turn = s]
                      /\ \A v : Told(v, t(s)) = [v EXCEPT !.turn = s]
                      /\ \A v : Noted(v, t(s)) = [v EXCEPT !.known = TRUE, !.turn = s]
  /\ \A x \in Phases : /\ p(x) \in Messages /\ p(x).kind = "NewPhase"
                       /\ \A v : Shown(v, p(x)) = [v EXCEPT !.phase = x]
                       /\ \A v : Told(v, p(x)) = [v EXCEPT !.phase = x]
                       /\ \A v : Noted(v, p(x)) = [v EXCEPT !.known = TRUE, !.phase = x]
  /\ r \in Messages /\ r.kind = "ReverseDeck"
  /\ \A v : Shown(v, r) = [v EXCEPT !.reversed = ~@]
  /\ \A v : Told(v, r) = [v EXCEPT !.reversed = ~@]
  /\ \A v : Noted(v, r) = [v EXCEPT !.known = TRUE, !.reversed = ~@]
BY DEF Message, Messages, Plain, Shown, Told, Noted

\* What reconnect has noted after a run of the engine.
IsNoted(a, old, opens, turns) ==
  /\ a \in Attachments /\ a.known
  /\ a.turn = TurnOf(old.turn, opens, turns)
  /\ a.phase = PhaseOf(old.phase, opens, turns)
  /\ a.reversed = DeckOf(old.reversed, turns)

\* Screens, engine and reconnect take the same from the events of a run.
LEMMA EventsRun ==
  ASSUME NEW opens \in BOOLEAN, NEW e \in Events
  PROVE  /\ Run(opens, e) \in Seq(Messages)
         /\ \A i \in DOMAIN Run(opens, e) : Run(opens, e)[i].kind \in {"NewTurn", "NewPhase", "ReverseDeck"}
         /\ \E turns \in BOOLEAN :
              /\ \A v \in ViewTypes : After(v, Run(opens, e)) = Moves(v, opens, turns)
              /\ \A d \in Engines : Telling(d, Run(opens, e)) = Moves(d, opens, turns)
              /\ \A a \in Attachments : IsNoted(Noting(a, Run(opens, e)), a, opens, turns)
<1> DEFINE t0 == Message("NewTurn", 0)
           p0 == Message("NewPhase", "Draw")
           t1 == Message("NewTurn", 1)
           p1 == Message("NewPhase", "Main")
           r == Message("ReverseDeck", Nobody)
           Kinds == {"NewTurn", "NewPhase", "ReverseDeck"}
<1>0. 0 \in Seats /\ 1 \in Seats /\ "Draw" \in Phases /\ "Main" \in Phases
  BY DEF Seats, Phases
<1>1. t0 \in Messages /\ p0 \in Messages /\ t1 \in Messages /\ p1 \in Messages /\ r \in Messages
  BY <1>0, EventKinds
<1>2. ASSUME NEW v
      PROVE  /\ Shown(Shown(v, t0), p0) = Opens(v)
             /\ Shown(Shown(v, t1), p1) = Goes(v, TRUE)
             /\ Shown(v, r) = Goes(v, FALSE)
  <2>1. /\ \A w : Shown(w, t0) = [w EXCEPT !.turn = 0]
        /\ \A w : Shown(w, p0) = [w EXCEPT !.phase = "Draw"]
        /\ \A w : Shown(w, t1) = [w EXCEPT !.turn = 1]
        /\ \A w : Shown(w, p1) = [w EXCEPT !.phase = "Main"]
        /\ \A w : Shown(w, r) = [w EXCEPT !.reversed = ~@]
    BY <1>0, EventKinds
  <2> HIDE DEF t0, p0, t1, p1, r
  <2> QED BY <2>1 DEF Opens, Goes
<1>3. ASSUME NEW v
      PROVE  /\ Told(Told(v, t0), p0) = Opens(v)
             /\ Told(Told(v, t1), p1) = Goes(v, TRUE)
             /\ Told(v, r) = Goes(v, FALSE)
  <2>1. /\ \A w : Told(w, t0) = [w EXCEPT !.turn = 0]
        /\ \A w : Told(w, p0) = [w EXCEPT !.phase = "Draw"]
        /\ \A w : Told(w, t1) = [w EXCEPT !.turn = 1]
        /\ \A w : Told(w, p1) = [w EXCEPT !.phase = "Main"]
        /\ \A w : Told(w, r) = [w EXCEPT !.reversed = ~@]
    BY <1>0, EventKinds
  <2> HIDE DEF t0, p0, t1, p1, r
  <2> QED BY <2>1 DEF Opens, Goes
<1>4. ASSUME NEW a \in Attachments
      PROVE  /\ LET b == Noted(Noted(a, t0), p0) IN
                b \in Attachments /\ b.known /\ b.turn = 0 /\ b.phase = "Draw" /\ b.reversed = a.reversed
             /\ LET b == Noted(Noted(a, t1), p1) IN
                b \in Attachments /\ b.known /\ b.turn = 1 /\ b.phase = "Main" /\ b.reversed = a.reversed
             /\ LET b == Noted(a, r) IN
                b \in Attachments /\ b.known /\ b.turn = a.turn /\ b.phase = a.phase /\ b.reversed = ~a.reversed
  <2>1. /\ \A w : Noted(w, t0) = [w EXCEPT !.known = TRUE, !.turn = 0]
        /\ \A w : Noted(w, p0) = [w EXCEPT !.known = TRUE, !.phase = "Draw"]
        /\ \A w : Noted(w, t1) = [w EXCEPT !.known = TRUE, !.turn = 1]
        /\ \A w : Noted(w, p1) = [w EXCEPT !.known = TRUE, !.phase = "Main"]
        /\ \A w : Noted(w, r) = [w EXCEPT !.known = TRUE, !.reversed = ~@]
    BY <1>0, EventKinds
  <2> HIDE DEF t0, p0, t1, p1, r
  <2>2. /\ Noted(Noted(a, t0), p0) = [[a EXCEPT !.known = TRUE, !.turn = 0] EXCEPT !.known = TRUE, !.phase = "Draw"]
        /\ Noted(Noted(a, t1), p1) = [[a EXCEPT !.known = TRUE, !.turn = 1] EXCEPT !.known = TRUE, !.phase = "Main"]
        /\ Noted(a, r) = [a EXCEPT !.known = TRUE, !.reversed = ~@]
    BY <2>1
  <2> QED BY <1>0, <2>2 DEF Attachments, Places
<1>5. t0.kind \in Kinds /\ p0.kind \in Kinds /\ t1.kind \in Kinds /\ p1.kind \in Kinds /\ r.kind \in Kinds
  BY <1>0, EventKinds
<1>6. e = <<t1, p1>> \/ e = <<r>>
  BY DEF Events
<1>7. Opening = <<t0, p0>>
  BY DEF Opening
<1> HIDE DEF t0, p0, t1, p1, r, Kinds
<1>8. CASE ~opens /\ e = <<t1, p1>>
  <2>1. Run(opens, e) = <<t1, p1>>
    <3>1. <<>> \o <<t1, p1>> = <<t1, p1>>
      BY <1>1
    <3> QED BY <1>8, <3>1 DEF Run
  <2>2. ASSUME NEW v \in ViewTypes PROVE After(v, <<t1, p1>>) = Moves(v, opens, TRUE)
    <3>1. After(v, <<t1, p1>>) = Shown(Shown(v, t1), p1)
      BY <1>1, AfterLists
    <3> QED BY <1>2, <1>8, <3>1 DEF Moves
  <2>3. ASSUME NEW d \in Engines PROVE Telling(d, <<t1, p1>>) = Moves(d, opens, TRUE)
    <3>1. Telling(d, <<t1, p1>>) = Told(Told(d, t1), p1)
      BY <1>1, ToldLists
    <3> QED BY <1>3, <1>8, <3>1 DEF Moves
  <2>4. ASSUME NEW a \in Attachments PROVE IsNoted(Noting(a, <<t1, p1>>), a, opens, TRUE)
    <3>1. Noting(a, <<t1, p1>>) = Noted(Noted(a, t1), p1)
      BY <1>1, NotedLists
    <3> QED BY <1>4, <3>1, <1>8 DEF IsNoted, TurnOf, PhaseOf, DeckOf
  <2>5. <<t1, p1>> \in Seq(Messages) /\ \A i \in DOMAIN <<t1, p1>> : <<t1, p1>>[i].kind \in Kinds
    BY <1>1, <1>5
  <2> QED BY <2>1, <2>2, <2>3, <2>4, <2>5 DEF Kinds
<1>9. CASE ~opens /\ e = <<r>>
  <2>1. Run(opens, e) = <<r>>
    <3>1. <<>> \o <<r>> = <<r>>
      BY <1>1
    <3> QED BY <1>9, <3>1 DEF Run
  <2>2. ASSUME NEW v \in ViewTypes PROVE After(v, <<r>>) = Moves(v, opens, FALSE)
    <3>1. After(v, <<r>>) = Shown(v, r)
      BY <1>1, AfterLists
    <3> QED BY <1>2, <1>9, <3>1 DEF Moves
  <2>3. ASSUME NEW d \in Engines PROVE Telling(d, <<r>>) = Moves(d, opens, FALSE)
    <3>1. Telling(d, <<r>>) = Told(d, r)
      BY <1>1, ToldLists
    <3> QED BY <1>3, <1>9, <3>1 DEF Moves
  <2>4. ASSUME NEW a \in Attachments PROVE IsNoted(Noting(a, <<r>>), a, opens, FALSE)
    <3>1. Noting(a, <<r>>) = Noted(a, r)
      BY <1>1, NotedLists
    <3> QED BY <1>4, <3>1, <1>9 DEF IsNoted, TurnOf, PhaseOf, DeckOf
  <2>5. <<r>> \in Seq(Messages) /\ \A i \in DOMAIN <<r>> : <<r>>[i].kind \in Kinds
    BY <1>1, <1>5
  <2> QED BY <2>1, <2>2, <2>3, <2>4, <2>5 DEF Kinds
<1>10. CASE opens /\ e = <<t1, p1>>
  <2>1. Run(opens, e) = <<t0, p0, t1, p1>>
    <3>1. <<t0, p0>> \o <<t1, p1>> = <<t0, p0, t1, p1>>
      BY Joined
    <3> QED BY <1>7, <1>10, <3>1 DEF Run
  <2>2. ASSUME NEW v \in ViewTypes PROVE After(v, <<t0, p0, t1, p1>>) = Moves(v, opens, TRUE)
    <3>1. After(v, <<t0, p0, t1, p1>>) = Shown(Shown(Shown(Shown(v, t0), p0), t1), p1)
      BY <1>1, AfterLists
    <3> QED BY <1>2, <1>10, <3>1 DEF Moves
  <2>3. ASSUME NEW d \in Engines PROVE Telling(d, <<t0, p0, t1, p1>>) = Moves(d, opens, TRUE)
    <3>1. Telling(d, <<t0, p0, t1, p1>>) = Told(Told(Told(Told(d, t0), p0), t1), p1)
      BY <1>1, ToldLists
    <3> QED BY <1>3, <1>10, <3>1 DEF Moves
  <2>4. ASSUME NEW a \in Attachments PROVE IsNoted(Noting(a, <<t0, p0, t1, p1>>), a, opens, TRUE)
    <3>1. Noting(a, <<t0, p0, t1, p1>>) = Noted(Noted(Noted(Noted(a, t0), p0), t1), p1)
      BY <1>1, NotedLists
    <3>2. Noted(Noted(a, t0), p0) \in Attachments
      BY <1>4
    <3> QED BY <1>4, <3>1, <3>2, <1>10 DEF IsNoted, TurnOf, PhaseOf, DeckOf
  <2>5. <<t0, p0, t1, p1>> \in Seq(Messages) /\ \A i \in DOMAIN <<t0, p0, t1, p1>> : <<t0, p0, t1, p1>>[i].kind \in Kinds
    BY <1>1, <1>5
  <2> QED BY <2>1, <2>2, <2>3, <2>4, <2>5 DEF Kinds
<1>11. CASE opens /\ e = <<r>>
  <2>1. Run(opens, e) = <<t0, p0, r>>
    <3>1. <<t0, p0>> \o <<r>> = <<t0, p0, r>>
      BY Joined
    <3> QED BY <1>7, <1>11, <3>1 DEF Run
  <2>2. ASSUME NEW v \in ViewTypes PROVE After(v, <<t0, p0, r>>) = Moves(v, opens, FALSE)
    <3>1. After(v, <<t0, p0, r>>) = Shown(Shown(Shown(v, t0), p0), r)
      BY <1>1, AfterLists
    <3> QED BY <1>2, <1>11, <3>1 DEF Moves
  <2>3. ASSUME NEW d \in Engines PROVE Telling(d, <<t0, p0, r>>) = Moves(d, opens, FALSE)
    <3>1. Telling(d, <<t0, p0, r>>) = Told(Told(Told(d, t0), p0), r)
      BY <1>1, ToldLists
    <3> QED BY <1>3, <1>11, <3>1 DEF Moves
  <2>4. ASSUME NEW a \in Attachments PROVE IsNoted(Noting(a, <<t0, p0, r>>), a, opens, FALSE)
    <3>1. Noting(a, <<t0, p0, r>>) = Noted(Noted(Noted(a, t0), p0), r)
      BY <1>1, NotedLists
    <3>2. Noted(Noted(a, t0), p0) \in Attachments
      BY <1>4
    <3> QED BY <1>4, <3>1, <3>2, <1>11 DEF IsNoted, TurnOf, PhaseOf, DeckOf
  <2>5. <<t0, p0, r>> \in Seq(Messages) /\ \A i \in DOMAIN <<t0, p0, r>> : <<t0, p0, r>>[i].kind \in Kinds
    BY <1>1, <1>5
  <2> QED BY <2>1, <2>2, <2>3, <2>4, <2>5 DEF Kinds
<1> QED BY <1>6, <1>8, <1>9, <1>10, <1>11

-----------------------------------------------------------------------------
(* The inductive invariant, in parts.                                       *)

Requests ==
  [type : {"DuelStart", "RecreateDuel"}, duel : Nat \ {0}]
    \cup [type : {"Evolve"}]
    \cup [type : {"Response", "RequestField"}, from : Seats]
    \cup [type : {"JoinGame"}, client : Late]
    \cup [type : {"LeaveGame", "soumatou"}, key : Keys]

Types ==
  /\ TypeOK
  /\ queue \in Seq(Requests)
  /\ \A i \in DOMAIN queue : queue[i].type = "DuelStart" => queue[i].duel <= MaxDuels

\* A request has the fields of its type.
LEMMA RequestFields ==
  ASSUME NEW r \in Requests
  PROVE  /\ r.type \in {"DuelStart", "RecreateDuel"} => r.duel \in Nat \ {0}
         /\ r.type \in {"Response", "RequestField"} => r.from \in Seats
         /\ r.type = "JoinGame" => r.client \in Late
         /\ r.type \in {"LeaveGame", "soumatou"} => r.key \in Keys
BY DEF Requests

\* What may be put into the mailbox.
LEMMA RequestsMade ==
  /\ [type |-> "Evolve"] \in Requests
  /\ \A d \in Nat \ {0} :
       [type |-> "DuelStart", duel |-> d] \in Requests /\ [type |-> "RecreateDuel", duel |-> d] \in Requests
  /\ \A s \in Seats :
       [type |-> "Response", from |-> s] \in Requests /\ [type |-> "RequestField", from |-> s] \in Requests
  /\ \A c \in Late : [type |-> "JoinGame", client |-> c] \in Requests
  /\ \A k \in Keys :
       [type |-> "LeaveGame", key |-> k] \in Requests /\ [type |-> "soumatou", key |-> k] \in Requests
BY DEF Requests

\* r is q, with its first k elements dropped and those of `new`, one at most, behind.
Shift(q, r, k, new) ==
  /\ k \in {0, 1} /\ DOMAIN q = 1..Len(q) /\ Len(q) \in Nat /\ DOMAIN r \subseteq Nat \ {0}
  /\ \A i \in DOMAIN q : i > k => i - k \in DOMAIN r /\ r[i - k] = q[i]
  /\ \A i \in DOMAIN r : \/ i + k \in DOMAIN q /\ r[i] = q[i + k]
                         \/ i + k = Len(q) + 1 /\ r[i] \in new
  /\ \A x \in new : Len(q) + 1 - k \in DOMAIN r /\ r[Len(q) + 1 - k] = x

\* What Done and Post make of the mailbox.
LEMMA Boxes ==
  ASSUME NEW B, NEW q \in Seq(B)
  PROVE  /\ DOMAIN q = 1..Len(q) /\ Len(q) \in Nat /\ \A i \in DOMAIN q : q[i] \in B
         /\ \A x \in B : Shift(q, Append(q, x), 0, {x}) /\ Append(q, x) \in Seq(B)
         /\ q # <<>> => /\ Len(q) > 0 /\ 1 \in DOMAIN q /\ Head(q) = q[1] /\ Head(q) \in B
                        /\ Shift(q, Tail(q) \o <<>>, 1, {}) /\ Tail(q) \o <<>> \in Seq(B)
                        /\ \A x \in B : /\ Shift(q, Tail(q) \o <<x>>, 1, {x})
                                         /\ Tail(q) \o <<x>> \in Seq(B)
<1>1. DOMAIN q = 1..Len(q) /\ Len(q) \in Nat /\ \A i \in DOMAIN q : q[i] \in B
  OBVIOUS
<1>2. ASSUME NEW x \in B PROVE Shift(q, Append(q, x), 0, {x}) /\ Append(q, x) \in Seq(B)
  <2> DEFINE r == Append(q, x)
  <2>1. /\ r \in Seq(B) /\ DOMAIN r = 1..(Len(q) + 1)
        /\ r[Len(q) + 1] = x /\ \A i \in 1..Len(q) : r[i] = q[i]
    BY <1>1
  <2> HIDE DEF r
  <2>2. Shift(q, r, 0, {x})
    BY <1>1, <2>1 DEF Shift
  <2> QED BY <2>1, <2>2 DEF r
<1>3. ASSUME q # <<>>
      PROVE  /\ Len(q) > 0 /\ 1 \in DOMAIN q /\ Head(q) = q[1] /\ Head(q) \in B
             /\ Shift(q, Tail(q) \o <<>>, 1, {}) /\ Tail(q) \o <<>> \in Seq(B)
             /\ \A x \in B : Shift(q, Tail(q) \o <<x>>, 1, {x}) /\ Tail(q) \o <<x>> \in Seq(B)
  <2> DEFINE t == Tail(q)
  <2>1. Len(q) > 0 /\ 1 \in DOMAIN q /\ Head(q) = q[1] /\ Head(q) \in B
    BY <1>3
  <2>2. /\ t \in Seq(B) /\ Len(t) = Len(q) - 1 /\ DOMAIN t = 1..(Len(q) - 1)
        /\ \A i \in 1..(Len(q) - 1) : t[i] = q[i + 1]
    BY <1>3, <2>1
  <2> HIDE DEF t
  <2>3. t \o <<>> = t
    BY <2>2
  <2>4. Shift(q, t, 1, {})
    BY <1>1, <2>1, <2>2 DEF Shift
  <2>5. ASSUME NEW x \in B PROVE Shift(q, t \o <<x>>, 1, {x}) /\ t \o <<x>> \in Seq(B)
    <3> DEFINE r == Append(t, x)
    <3>1. t \o <<x>> = r
      BY <2>2
    <3>2. /\ r \in Seq(B) /\ DOMAIN r = 1..(Len(t) + 1)
          /\ r[Len(t) + 1] = x /\ \A i \in 1..Len(t) : r[i] = t[i]
      BY <2>2
    <3> HIDE DEF r
    <3>3. Len(t) + 1 = Len(q)
      BY <1>1, <2>2
    <3>4. Shift(q, r, 1, {x})
      BY <1>1, <2>1, <2>2, <3>2, <3>3 DEF Shift
    <3> QED BY <3>1, <3>2, <3>4
  <2> QED BY <2>1, <2>2, <2>3, <2>4, <2>5 DEF t
<1> QED BY <1>1, <1>2, <1>3

\* A message that is sent.
LEMMA SentIs ==
  ASSUME NEW k, NEW a, Message(k, a) \in Messages, NEW to \in SUBSET Clients
  PROVE  /\ Sent(k, a, to) \in Sends
         /\ Sent(k, a, to).message = Message(k, a)
         /\ Sent(k, a, to).message.kind = k /\ Sent(k, a, to).message.arg = a
         /\ Sent(k, a, to).to = to /\ Sent(k, a, to).recorded
BY DEF Sent, Sends, Message

\* The messages that are made are messages.
LEMMA MessagesMade ==
  /\ \A k \in Plain : Message(k, Nobody) \in Messages
  /\ \A p \in Keys : Message("TypeChange", p) \in Messages
  /\ \A r \in Seats \cup {Observer} : Message("Start", r) \in Messages
  /\ \A t \in Seats : Message("NewTurn", t) \in Messages
  /\ \A p \in Phases : Message("NewPhase", p) \in Messages
  /\ \A n \in Nat : Message("Select", n) \in Messages
  /\ \A n \in Nat \cup {Nobody} : Message("Retry", n) \in Messages
BY DEF Message, Messages

\* The question itself.
LEMMA AsksIs ==
  ASSUME NEW n \in Nat, NEW s \in Seats
  PROVE  /\ Asks(n, s) \in Sends
         /\ Asks(n, s).message = Message("Select", n)
         /\ Asks(n, s).message.kind = "Select" /\ Asks(n, s).message.arg = n
         /\ Asks(n, s).to = {s} /\ ~Asks(n, s).recorded
<1>1. Message("Select", n) \in Messages /\ {s} \in SUBSET Clients
  BY MessagesMade DEF Clients
<1> QED BY <1>1 DEF Asks, Sent, Sends, Message

\* Who is who.
LEMMA WhoIsWho ==
  ASSUME TypeOK
  PROVE  /\ Observers \in SUBSET Clients /\ All \in SUBSET Clients /\ Seats \in SUBSET Clients
         /\ Observers \cap Seats = {} /\ Observers \subseteq Watchers
         /\ \A s \in Seats : {s} \in SUBSET Clients /\ Other(s) \in Seats /\ {Other(s)} \in SUBSET Clients
         /\ \A c \in Late : {c} \in SUBSET Clients /\ c \notin Seats /\ c # OnTime /\ c # Nobody
         /\ OnTime \notin Seats /\ OnTime # Nobody /\ Nobody \notin Seats /\ Nobody \notin Nat
         /\ 0 \in Keys /\ \A p \in Seats : ToSeat(p) \in Seats /\ ToCore(p) \in Seats
<1>1. observers \in [Keys -> Watchers \cup {Nobody}] /\ first \in Seats
  BY DEF TypeOK
<1> QED BY <1>1, HistoryAssumption
    DEF Observers, All, Seats, Clients, Watchers, Other, ToSeat, ToCore, Keys

\* What is sent leaves screens behind.
LEMMA SendTyped ==
  ASSUME TypeOK, NEW sends \in Seq(Sends), Send(sends)
  PROVE  /\ views' \in [Clients -> ViewTypes]
         /\ \A c \in Clients : views'[c] = Reached(c, views[c], sends)
<1>1. \A c \in Clients : views[c] \in ViewTypes
  BY DEF TypeOK, ViewTypes
<1>2. \A c \in Clients : Reached(c, views[c], sends) \in ViewTypes
  BY <1>1, ReachedOn
<1> QED BY <1>2 DEF Send

-----------------------------------------------------------------------------
(* What each action that sends does to the screens.                         *)

\* Who plays as which player when the seat f attacks first.
CoreOf(f, s) == IF f = 0 THEN s ELSE Other(s)

\* The lists of things sent.
JoinSends(c, k) == <<Sent("JoinGame", Nobody, {c}), Sent("TypeChange", k, {c})>>
StartSends(f) == <<Sent("Start", 0, {CoreOf(f, 0)}), Sent("Start", 1, {CoreOf(f, 1)}),
                   Sent("Start", Observer, Observers)>>
WinSends(events) == News(events, All) \o <<Sent("Win", Nobody, All)>>
AskSends(events, s, id) == News(events, All) \o Waits(s, id)
RetrySends(s, id) == <<Sent("Waiting", Nobody, {Other(s)}), Sent("Retry", id, {s})>>
NextSends == <<Sent("ChangeSide", Nobody, AllPlayer), Sent("WaitingSide", Nobody, Observers),
               Sent("DuelStart", Nobody, {0}), Sent("DuelStart", Nobody, {1})>>

\* An observer that joins is told its place, nobody else sees anything.
LEMMA JoinSeen ==
  ASSUME TypeOK, NEW c \in Late, NEW k \in Keys, Send(JoinSends(c, k))
  PROVE  /\ JoinSends(c, k) \in Seq(Sends)
         /\ views' \in [Clients -> ViewTypes]
         /\ views'[c] = At(views[c], k)
         /\ \A x \in Clients \ {c} : views'[x] = views[x]
<1> DEFINE a == Sent("JoinGame", Nobody, {c})
           b == Sent("TypeChange", k, {c})
<1>1. Message("JoinGame", Nobody) \in Messages /\ Message("TypeChange", k) \in Messages
  BY MessagesMade DEF Plain, Silent
<1>2. /\ a \in Sends /\ a.to = {c} /\ a.message.kind = "JoinGame"
      /\ b \in Sends /\ b.to = {c} /\ b.message.kind = "TypeChange" /\ b.message.arg = k
  BY <1>1, SentIs, WhoIsWho
<1> HIDE DEF a, b
<1>3. <<a, b>> \in Seq(Sends) /\ JoinSends(c, k) = <<a, b>>
  BY <1>2 DEF JoinSends, a, b
<1>4. \A x \in Clients : views[x] \in ViewTypes
  BY DEF TypeOK, ViewTypes
<1>5. \A x \in Clients : Reached(x, views[x], <<a, b>>) = OnScreen(x, OnScreen(x, views[x], a), b)
  BY <1>2, <1>4, ReachedLists
<1>6. ASSUME NEW v PROVE OnScreen(c, OnScreen(c, v, a), b) = At(v, k)
  <2>0. a.message.kind \in Silent /\ b.message.kind = "TypeChange"
    BY <1>2 DEF Silent
  <2>1. Shown(v, a.message) = v
    BY ONLY <2>0, ShownIs
  <2>2. Shown(v, b.message) = [v EXCEPT !.pos = b.message.arg]
    BY ONLY <2>0, ShownIs
  <2>3. Shown(v, b.message) = At(v, k)
    BY <1>2, <2>2 DEF At
  <2>4. c \in a.to /\ c \in b.to
    BY <1>2
  <2>5. OnScreen(c, v, a) = v
    BY <2>1, <2>4 DEF OnScreen
  <2>6. OnScreen(c, v, b) = At(v, k)
    BY <2>3, <2>4 DEF OnScreen
  <2> QED BY <2>5, <2>6
<1>7. \A x \in Clients \ {c} : OnScreen(x, OnScreen(x, views[x], a), b) = views[x]
  BY <1>2 DEF OnScreen
<1>8. c \in Clients
  BY DEF Clients, Watchers
<1> QED BY <1>3, <1>5, <1>6, <1>7, <1>8, SendTyped

\* Everybody gets his Start.
LEMMA StartSeen ==
  ASSUME TypeOK, NEW f \in Seats, Send(StartSends(f))
  PROVE  /\ StartSends(f) \in Seq(Sends)
         /\ views' \in [Clients -> ViewTypes]
         /\ \A s \in Seats : views'[s] = [Blank EXCEPT !.role = CoreOf(f, s), !.pos = views[s].pos]
         /\ \A c \in Observers : views'[c] = [Blank EXCEPT !.role = Observer, !.pos = views[c].pos]
         /\ \A c \in Clients \ All : views'[c] = views[c]
<1> DEFINE x0 == CoreOf(f, 0)
           x1 == CoreOf(f, 1)
           a == Sent("Start", 0, {x0})
           b == Sent("Start", 1, {x1})
           d == Sent("Start", Observer, Observers)
<1>1. /\ Message("Start", 0) \in Messages /\ Message("Start", 1) \in Messages
      /\ Message("Start", Observer) \in Messages
  BY MessagesMade DEF Seats
<1>2. x0 \in Seats /\ x1 \in Seats /\ x0 # x1 /\ Seats = {x0, x1} /\ CoreOf(f, x0) = 0 /\ CoreOf(f, x1) = 1
  BY DEF Seats, Other, CoreOf
<1> HIDE DEF x0, x1
<1>3. {x0} \in SUBSET Clients /\ {x1} \in SUBSET Clients /\ Observers \in SUBSET Clients
  BY <1>2, WhoIsWho
<1>4. /\ a \in Sends /\ a.to = {x0} /\ a.message.kind = "Start" /\ a.message.arg = 0
      /\ b \in Sends /\ b.to = {x1} /\ b.message.kind = "Start" /\ b.message.arg = 1
      /\ d \in Sends /\ d.to = Observers /\ d.message.kind = "Start" /\ d.message.arg = Observer
  BY <1>1, <1>3, SentIs
<1>5. StartSends(f) = <<a, b, d>>
  BY DEF StartSends, x0, x1
<1> HIDE DEF a, b, d
<1>6. <<a, b, d>> \in Seq(Sends)
  BY <1>4
<1>7. \A x \in Clients : views[x] \in ViewTypes
  BY DEF TypeOK, ViewTypes
<1>8. \A x \in Clients :
        Reached(x, views[x], <<a, b, d>>) = OnScreen(x, OnScreen(x, OnScreen(x, views[x], a), b), d)
  BY <1>4, <1>7, ReachedLists
<1>9. views' \in [Clients -> ViewTypes] /\ \A x \in Clients : views'[x] = Reached(x, views[x], <<a, b, d>>)
  BY <1>5, <1>6, SendTyped
<1>10. ASSUME NEW v
       PROVE  /\ Shown(v, a.message) = [Blank EXCEPT !.role = 0, !.pos = v.pos]
              /\ Shown(v, b.message) = [Blank EXCEPT !.role = 1, !.pos = v.pos]
              /\ Shown(v, d.message) = [Blank EXCEPT !.role = Observer, !.pos = v.pos]
  <2>1. /\ Shown(v, a.message) = [Blank EXCEPT !.role = a.message.arg, !.pos = v.pos]
        /\ Shown(v, b.message) = [Blank EXCEPT !.role = b.message.arg, !.pos = v.pos]
        /\ Shown(v, d.message) = [Blank EXCEPT !.role = d.message.arg, !.pos = v.pos]
    BY ONLY <1>4, ShownIs
  <2> QED BY <1>4, <2>1
<1>11. x0 \in Clients /\ x1 \in Clients /\ x0 \notin Observers /\ x1 \notin Observers
  BY <1>2, WhoIsWho
<1>12. views'[x0] = [Blank EXCEPT !.role = CoreOf(f, x0), !.pos = views[x0].pos]
  <2> DEFINE v == views[x0]
  <2>1. views'[x0] = OnScreen(x0, OnScreen(x0, OnScreen(x0, v, a), b), d)
    BY <1>8, <1>9, <1>11
  <2> HIDE DEF v
  <2>2. x0 \in a.to /\ x0 \notin b.to /\ x0 \notin d.to
    BY <1>2, <1>4, <1>11
  <2>3. OnScreen(x0, OnScreen(x0, OnScreen(x0, v, a), b), d) = Shown(v, a.message)
    BY <2>2 DEF OnScreen
  <2>4. Shown(v, a.message) = [Blank EXCEPT !.role = CoreOf(f, x0), !.pos = v.pos]
    BY <1>2, <1>10
  <2> QED BY <2>1, <2>3, <2>4 DEF v
<1>13. views'[x1] = [Blank EXCEPT !.role = CoreOf(f, x1), !.pos = views[x1].pos]
  <2> DEFINE v == views[x1]
  <2>1. views'[x1] = OnScreen(x1, OnScreen(x1, OnScreen(x1, v, a), b), d)
    BY <1>8, <1>9, <1>11
  <2> HIDE DEF v
  <2>2. x1 \notin a.to /\ x1 \in b.to /\ x1 \notin d.to
    BY <1>2, <1>4, <1>11
  <2>3. OnScreen(x1, OnScreen(x1, OnScreen(x1, v, a), b), d) = Shown(v, b.message)
    BY <2>2 DEF OnScreen
  <2>4. Shown(v, b.message) = [Blank EXCEPT !.role = CoreOf(f, x1), !.pos = v.pos]
    BY <1>2, <1>10
  <2> QED BY <2>1, <2>3, <2>4 DEF v
<1>14. ASSUME NEW x \in Observers
       PROVE  views'[x] = [Blank EXCEPT !.role = Observer, !.pos = views[x].pos]
  <2>1. x \in Clients /\ x \notin {x0} /\ x \notin {x1}
    BY <1>11, WhoIsWho
  <2>2. views'[x] = OnScreen(x, OnScreen(x, OnScreen(x, views[x], a), b), d)
    BY <1>8, <1>9, <2>1
  <2>3. OnScreen(x, views[x], a) = views[x] /\ OnScreen(x, views[x], b) = views[x]
    BY <1>4, <2>1 DEF OnScreen
  <2>4. OnScreen(x, views[x], d) = Shown(views[x], d.message)
    BY <1>4 DEF OnScreen
  <2> QED BY <1>10, <2>2, <2>3, <2>4
<1>15. ASSUME NEW x \in Clients \ All PROVE views'[x] = views[x]
  <2>1. x \notin {x0} /\ x \notin {x1} /\ x \notin Observers
    BY <1>2 DEF All
  <2> QED BY <1>4, <1>8, <1>9, <2>1 DEF OnScreen
<1>16. \A s \in Seats : s = x0 \/ s = x1
  BY <1>2
<1> QED BY <1>5, <1>6, <1>9, <1>12, <1>13, <1>14, <1>15, <1>16

\* What the news do.
LEMMA NewsReached ==
  ASSUME All \in SUBSET Clients, \A x \in Clients : views[x] \in ViewTypes,
         NEW events \in Seq(Messages)
  PROVE  /\ News(events, All) \in Seq(Sends)
         /\ \A x \in Clients : Reached(x, views[x], News(events, All))
                                = IF x \in All THEN After(views[x], events) ELSE views[x]
<1>1. ASSUME NEW x \in Clients
      PROVE  /\ News(events, All) \in Seq(Sends)
             /\ Reached(x, views[x], News(events, All))
                  = IF x \in All THEN After(views[x], events) ELSE views[x]
  <2> DEFINE v == views[x]
             to == All
  <2>1. v \in ViewTypes /\ to \in SUBSET Clients
    OBVIOUS
  <2> HIDE DEF v, to
  <2>2. News(events, to) \in Seq(Sends) /\ Reached(x, v, News(events, to)) = IF x \in to THEN After(v, events) ELSE v
    BY <2>1, NewsSeen
  <2> QED BY <2>2 DEF v, to
<1>2. 0 \in Clients
  BY DEF Clients, Seats
<1> QED BY <1>1, <1>2

\* The duel ends: everybody sees the news, and that it is over.
LEMMA WinSeen ==
  ASSUME TypeOK, NEW events \in Seq(Messages), Send(WinSends(events))
  PROVE  /\ WinSends(events) \in Seq(Sends)
         /\ views' \in [Clients -> ViewTypes]
         /\ \A c \in All : views'[c] = [After(views[c], events) EXCEPT !.prompt = Nobody]
         /\ \A c \in Clients \ All : views'[c] = views[c]
<1> DEFINE n == News(events, All)
           w == Sent("Win", Nobody, All)
<1>1. Message("Win", Nobody) \in Messages /\ All \in SUBSET Clients
  BY MessagesMade, WhoIsWho DEF Plain
<1>2. w \in Sends /\ w.to = All /\ w.message.kind = "Win"
  BY <1>1, SentIs
<1>3. \A x \in Clients : views[x] \in ViewTypes
  BY DEF TypeOK, ViewTypes
<1>4. n \in Seq(Sends) /\ \A x \in Clients : Reached(x, views[x], n) = IF x \in All THEN After(views[x], events) ELSE views[x]
  BY <1>1, <1>3, NewsReached
<1> HIDE DEF n, w
<1>5. n \o <<w>> \in Seq(Sends) /\ WinSends(events) = n \o <<w>>
  BY <1>2, <1>4, Behind DEF WinSends, n, w
<1>6. \A x \in Clients : Reached(x, views[x], n \o <<w>>) = OnScreen(x, Reached(x, views[x], n), w)
  BY <1>2, <1>3, <1>4, ReachedBehind
<1>7. \A v : Shown(v, w.message) = [v EXCEPT !.prompt = Nobody]
  BY ONLY <1>2, ShownIs
<1>8. views' \in [Clients -> ViewTypes] /\ \A x \in Clients : views'[x] = Reached(x, views[x], n \o <<w>>)
  BY <1>5, SendTyped
<1> QED BY <1>1, <1>2, <1>4, <1>5, <1>6, <1>7, <1>8 DEF OnScreen

\* A question: everybody sees the news, the player the question, the other that he waits.
LEMMA AskSeen ==
  ASSUME TypeOK, NEW events \in Seq(Messages), NEW s \in Seats, NEW id \in Nat,
         Send(AskSends(events, s, id))
  PROVE  /\ AskSends(events, s, id) \in Seq(Sends)
         /\ views' \in [Clients -> ViewTypes]
         /\ views'[s] = [After(views[s], events) EXCEPT !.prompt = id]
         /\ views'[Other(s)] = [After(views[Other(s)], events) EXCEPT !.prompt = Nobody]
         /\ \A c \in Observers : views'[c] = After(views[c], events)
         /\ \A c \in Clients \ All : views'[c] = views[c]
<1> DEFINE n == News(events, All)
           a == Sent("Waiting", Nobody, {Other(s)})
           b == Asks(id, s)
<1>1. /\ Message("Waiting", Nobody) \in Messages /\ All \in SUBSET Clients
      /\ {Other(s)} \in SUBSET Clients /\ Other(s) \in Seats /\ Other(s) # s
  BY MessagesMade, WhoIsWho DEF Plain, Other, Seats
<1>2. /\ a \in Sends /\ a.to = {Other(s)} /\ a.message.kind = "Waiting"
      /\ b \in Sends /\ b.to = {s} /\ b.message.kind = "Select" /\ b.message.arg = id
  BY <1>1, SentIs, AsksIs
<1>3. \A x \in Clients : views[x] \in ViewTypes
  BY DEF TypeOK, ViewTypes
<1>4. n \in Seq(Sends) /\ \A x \in Clients : Reached(x, views[x], n) = IF x \in All THEN After(views[x], events) ELSE views[x]
  BY <1>1, <1>3, NewsReached
<1>5. AskSends(events, s, id) = n \o <<a, b>>
  BY DEF AskSends, Waits
<1> HIDE DEF n, a, b
<1>6. n \o <<a, b>> \in Seq(Sends)
  BY <1>2, <1>4, Behind
<1>7. ASSUME NEW x \in Clients
      PROVE  Reached(x, views[x], n \o <<a, b>>) = OnScreen(x, OnScreen(x, Reached(x, views[x], n), a), b)
  <2> DEFINE v == views[x]
  <2>1. v \in ViewTypes
    BY <1>3
  <2> HIDE DEF v
  <2>a. n \in Seq(Sends) /\ a \in Sends /\ b \in Sends
    BY <1>2, <1>4
  <2>2. Reached(x, v, n \o <<a, b>>) = OnScreen(x, OnScreen(x, Reached(x, v, n), a), b)
    BY ONLY <2>1, <2>a, ReachedBehind, Zenon
  <2> QED BY <2>2 DEF v
<1>8. ASSUME NEW v
      PROVE  /\ Shown(v, a.message) = [v EXCEPT !.prompt = Nobody]
             /\ Shown(v, b.message) = [v EXCEPT !.prompt = id]
  <2>1. Shown(v, b.message) = [v EXCEPT !.prompt = b.message.arg]
    BY ONLY <1>2, ShownIs
  <2>2. Shown(v, a.message) = [v EXCEPT !.prompt = Nobody]
    BY ONLY <1>2, ShownIs
  <2> QED BY <1>2, <2>1, <2>2
<1>9. views' \in [Clients -> ViewTypes] /\ \A x \in Clients : views'[x] = Reached(x, views[x], n \o <<a, b>>)
  BY <1>5, <1>6, SendTyped
<1>10. s \in Clients /\ Other(s) \in Clients /\ s \in All /\ Other(s) \in All /\ \A c \in Observers : c \in Clients /\ c \in All
  BY <1>1, WhoIsWho DEF All, Clients
<1>11. views'[s] = [After(views[s], events) EXCEPT !.prompt = id]
  BY <1>1, <1>2, <1>4, <1>7, <1>8, <1>9, <1>10 DEF OnScreen
<1>12. views'[Other(s)] = [After(views[Other(s)], events) EXCEPT !.prompt = Nobody]
  BY <1>1, <1>2, <1>4, <1>7, <1>8, <1>9, <1>10 DEF OnScreen
<1>13. ASSUME NEW c \in Observers PROVE views'[c] = After(views[c], events)
  <2>1. c \notin {s} /\ c \notin {Other(s)}
    BY <1>1, WhoIsWho
  <2> QED BY <1>2, <1>4, <1>7, <1>9, <1>10, <2>1 DEF OnScreen
<1>14. ASSUME NEW c \in Clients \ All PROVE views'[c] = views[c]
  <2>1. c \notin {s} /\ c \notin {Other(s)}
    BY <1>10
  <2> QED BY <1>2, <1>4, <1>7, <1>9, <2>1 DEF OnScreen
<1> QED BY <1>5, <1>6, <1>9, <1>11, <1>12, <1>13, <1>14

\* The question again: nothing for a screen with no duel on it.
LEMMA RetrySeen ==
  ASSUME TypeOK, NEW s \in Seats, NEW id \in Nat \cup {Nobody}, Send(RetrySends(s, id))
  PROVE  /\ RetrySends(s, id) \in Seq(Sends)
         /\ views' \in [Clients -> ViewTypes]
         /\ views'[s] = IF views[s].role \in Seats THEN [views[s] EXCEPT !.prompt = id] ELSE views[s]
         /\ views'[Other(s)] = [views[Other(s)] EXCEPT !.prompt = Nobody]
         /\ \A c \in Clients \ Seats : views'[c] = views[c]
<1> DEFINE a == Sent("Waiting", Nobody, {Other(s)})
           b == Sent("Retry", id, {s})
<1>1. /\ Message("Waiting", Nobody) \in Messages /\ Message("Retry", id) \in Messages
      /\ {Other(s)} \in SUBSET Clients /\ {s} \in SUBSET Clients /\ Other(s) \in Seats /\ Other(s) # s
  BY MessagesMade, WhoIsWho DEF Plain, Other, Seats
<1>2. /\ a \in Sends /\ a.to = {Other(s)} /\ a.message.kind = "Waiting"
      /\ b \in Sends /\ b.to = {s} /\ b.message.kind = "Retry" /\ b.message.arg = id
  BY <1>1, SentIs
<1>3. \A x \in Clients : views[x] \in ViewTypes
  BY DEF TypeOK, ViewTypes
<1>4. RetrySends(s, id) = <<a, b>>
  BY DEF RetrySends
<1> HIDE DEF a, b
<1>5. <<a, b>> \in Seq(Sends)
  BY <1>2
<1>6. \A x \in Clients : Reached(x, views[x], <<a, b>>) = OnScreen(x, OnScreen(x, views[x], a), b)
  BY <1>2, <1>3, ReachedLists
<1>7. ASSUME NEW v
      PROVE  /\ Shown(v, a.message) = [v EXCEPT !.prompt = Nobody]
             /\ Shown(v, b.message) = IF v.role \in Seats THEN [v EXCEPT !.prompt = id] ELSE v
  <2>1. Shown(v, b.message) = IF v.role \in Seats THEN [v EXCEPT !.prompt = b.message.arg] ELSE v
    BY ONLY <1>2, ShownIs
  <2>2. Shown(v, a.message) = [v EXCEPT !.prompt = Nobody]
    BY ONLY <1>2, ShownIs
  <2> QED BY <1>2, <2>1, <2>2
<1>8. views' \in [Clients -> ViewTypes] /\ \A x \in Clients : views'[x] = Reached(x, views[x], <<a, b>>)
  BY <1>4, <1>5, SendTyped
<1>9. s \in Clients /\ Other(s) \in Clients /\ s \notin {Other(s)} /\ Other(s) \notin {s}
  BY <1>1
<1>10. views'[s] = IF views[s].role \in Seats THEN [views[s] EXCEPT !.prompt = id] ELSE views[s]
  <2>1. views'[s] = OnScreen(s, OnScreen(s, views[s], a), b)
    BY <1>6, <1>8, <1>9
  <2>2. OnScreen(s, views[s], a) = views[s] /\ OnScreen(s, views[s], b) = Shown(views[s], b.message)
    BY <1>2, <1>9 DEF OnScreen
  <2> QED BY <1>7, <2>1, <2>2
<1>11. views'[Other(s)] = [views[Other(s)] EXCEPT !.prompt = Nobody]
  BY <1>2, <1>6, <1>7, <1>8, <1>9 DEF OnScreen
<1>12. ASSUME NEW c \in Clients \ Seats PROVE views'[c] = views[c]
  BY <1>1, <1>2, <1>6, <1>8 DEF OnScreen
<1> QED BY <1>4, <1>5, <1>8, <1>10, <1>11, <1>12

\* Between two duels nobody's field changes.
LEMMA NextSeen ==
  ASSUME TypeOK, Send(NextSends)
  PROVE  /\ NextSends \in Seq(Sends)
         /\ views' \in [Clients -> ViewTypes]
         /\ \A c \in Clients : views'[c] = views[c]
<1> DEFINE a == Sent("ChangeSide", Nobody, AllPlayer)
           b == Sent("WaitingSide", Nobody, Observers)
           c0 == Sent("DuelStart", Nobody, {0})
           c1 == Sent("DuelStart", Nobody, {1})
<1>1. /\ Message("ChangeSide", Nobody) \in Messages /\ Message("WaitingSide", Nobody) \in Messages
      /\ Message("DuelStart", Nobody) \in Messages
      /\ AllPlayer \in SUBSET Clients /\ Observers \in SUBSET Clients
      /\ {0} \in SUBSET Clients /\ {1} \in SUBSET Clients
  BY MessagesMade, WhoIsWho DEF Plain, Silent, AllPlayer, Seats
<1>2. /\ a \in Sends /\ a.message.kind = "ChangeSide" /\ b \in Sends /\ b.message.kind = "WaitingSide"
      /\ c0 \in Sends /\ c0.message.kind = "DuelStart" /\ c1 \in Sends /\ c1.message.kind = "DuelStart"
  BY <1>1, SentIs
<1>3. NextSends = <<a, b, c0, c1>>
  BY DEF NextSends
<1> HIDE DEF a, b, c0, c1
<1>4. <<a, b, c0, c1>> \in Seq(Sends)
  BY <1>2
<1>5. \A x \in Clients : views[x] \in ViewTypes
  BY DEF TypeOK, ViewTypes
<1>6. \A x \in Clients : Reached(x, views[x], <<a, b, c0, c1>>)
        = OnScreen(x, OnScreen(x, OnScreen(x, OnScreen(x, views[x], a), b), c0), c1)
  BY <1>2, <1>5, ReachedLists
<1>7. ASSUME NEW v
      PROVE  /\ Shown(v, a.message) = v /\ Shown(v, b.message) = v
             /\ Shown(v, c0.message) = v /\ Shown(v, c1.message) = v
  BY <1>2, ShownIs DEF Silent
<1> QED BY <1>3, <1>4, <1>6, <1>7, SendTyped DEF OnScreen

-----------------------------------------------------------------------------
(* What each action of the actor does, in these terms.                      *)

\* The engine tells something and ends, or asks.
Evolves(e, p) ==
  LET events == Run(engine.turn = Nobody, e) IN
  /\ attachment' = Noting(attachment, events)
  /\ engine' = [Telling(engine, events) EXCEPT !.events = @ + 1, !.ended = (engine.events + 1 = MaxEvents)]
  /\ IF engine.events + 1 = MaxEvents
     THEN /\ Send(WinSends(events))
          /\ queue' = Tail(queue) \o <<[type |-> "RecreateDuel", duel |-> engine.duel + 1]>>
          /\ UNCHANGED <<gate, last_response, last_select, questions>>
     ELSE /\ Send(AskSends(events, ToSeat(p), questions + 1))
          /\ questions' = questions + 1
          /\ last_response' = ToSeat(p)
          /\ last_select' = questions + 1
          /\ gate' = [gate EXCEPT ![ToSeat(p)] = TRUE]
          /\ queue' = Tail(queue) \o <<>>
  /\ UNCHANGED <<observers, first, joined, requests>>

\* OnEvolve, in these terms.
LEMMA EvolveIs ==
  ASSUME OnEvolve
  PROVE  /\ queue # <<>> /\ Head(queue).type = "Evolve" /\ ~engine.ended
         /\ \E e \in Events, p \in Seats : Evolves(e, p)
BY DEF OnEvolve, Evolves, Run, Noting, Telling, WinSends, AskSends, News, Done, Receive, Request

\* The mailbox, when the actor takes a request, and when a client posts one.
LEMMA Receives ==
  ASSUME Types, NEW type, Receive(type)
  PROVE  /\ 1 \in DOMAIN queue /\ Len(queue) > 0
         /\ Request = queue[1] /\ queue[1].type = type /\ Request \in Requests
         /\ Done(<<>>) => Shift(queue, queue', 1, {}) /\ queue' \in Seq(Requests)
         /\ \A x \in Requests : Done(<<x>>) => Shift(queue, queue', 1, {x}) /\ queue' \in Seq(Requests)
<1>1. queue \in Seq(Requests) /\ queue # <<>> /\ Request.type = type
  BY DEF Types, Receive
<1>2. /\ Len(queue) > 0 /\ 1 \in DOMAIN queue /\ Head(queue) = queue[1] /\ Head(queue) \in Requests
      /\ Shift(queue, Tail(queue) \o <<>>, 1, {}) /\ Tail(queue) \o <<>> \in Seq(Requests)
      /\ \A x \in Requests : /\ Shift(queue, Tail(queue) \o <<x>>, 1, {x})
                             /\ Tail(queue) \o <<x>> \in Seq(Requests)
  BY <1>1, Boxes
<1> QED BY <1>1, <1>2 DEF Request, Done

\* A client puts a request behind the others.
LEMMA Posts ==
  ASSUME Types, NEW x \in Requests, Post(x)
  PROVE  Shift(queue, queue', 0, {x}) /\ queue' \in Seq(Requests)
<1>1. queue \in Seq(Requests) /\ queue' = Append(queue, x)
  BY DEF Types, Post
<1>2. Shift(queue, Append(queue, x), 0, {x}) /\ Append(queue, x) \in Seq(Requests)
  BY <1>1, Boxes
<1> QED BY <1>1, <1>2

\* The mailbox keeps its type.
LEMMA BoxTyped ==
  ASSUME Types, NEW k, NEW new, Shift(queue, queue', k, new), queue' \in Seq(Requests),
         \A x \in new : x.type = "DuelStart" => x.duel <= MaxDuels, TypeOK'
  PROVE  Types'
<1>1. \A i \in DOMAIN queue' :
        \/ i + k \in DOMAIN queue /\ queue'[i] = queue[i + k]
        \/ queue'[i] \in new
  BY DEF Shift
<1>2. \A i \in DOMAIN queue : queue[i].type = "DuelStart" => queue[i].duel <= MaxDuels
  BY DEF Types
<1>3. \A i \in DOMAIN queue' : queue'[i].type = "DuelStart" => queue'[i].duel <= MaxDuels
  BY <1>1, <1>2
<1> QED BY <1>3 DEF Types

\* The types, one by one.
LEMMA TypeIs ==
  TypeOK <=>
    /\ observers \in [Keys -> Watchers \cup {Nobody}]
    /\ first \in Seats
    /\ last_response \in Places
    /\ last_select \in Nat \cup {Nobody}
    /\ gate \in [Seats -> BOOLEAN]
    /\ attachment \in Attachments
    /\ engine \in Engines
    /\ questions \in Nat
    /\ views \in [Clients -> ViewTypes]
    /\ joined \subseteq Late
    /\ requests \in Nat
BY DEF TypeOK, Attachments, Engines, ViewTypes

\* What a field of an engine's duel may become.
LEMMA EngineUpdates ==
  ASSUME NEW d \in Engines
  PROVE  /\ \A n \in Nat : [NewEngine EXCEPT !.duel = n] \in Engines
         /\ \A b \in BOOLEAN : [d EXCEPT !.events = @ + 1, !.ended = b] \in Engines
         /\ [d EXCEPT !.retries = @ + 1] \in Engines
         /\ d.duel \in Nat /\ d.turn \in Places /\ d.ended \in BOOLEAN /\ d.reversed \in BOOLEAN
         /\ d.events \in Nat
<1>1. \A n \in Nat : [NewEngine EXCEPT !.duel = n] \in Engines
  BY DEF Engines, NewEngine, Places
<1>2. ASSUME NEW b \in BOOLEAN PROVE [d EXCEPT !.events = @ + 1, !.ended = b] \in Engines
  <2>1. [d EXCEPT !.events = @ + 1] \in Engines
    BY DEF Engines
  <2>2. \A e \in Engines : [e EXCEPT !.ended = b] \in Engines
    BY DEF Engines
  <2> QED BY <2>1, <2>2
<1>3. [d EXCEPT !.retries = @ + 1] \in Engines
  BY DEF Engines
<1>4. d.duel \in Nat /\ d.turn \in Places /\ d.ended \in BOOLEAN /\ d.reversed \in BOOLEAN /\ d.events \in Nat
  BY DEF Engines
<1> QED BY <1>1, <1>2, <1>3, <1>4

\* A screen of a client.
LEMMA ScreenTyped ==
  ASSUME views \in [Clients -> ViewTypes], NEW c \in Clients, NEW w \in ViewTypes
  PROVE  /\ [views EXCEPT ![c] = w] \in [Clients -> ViewTypes]
         /\ views[c] \in ViewTypes
BY DEF ViewTypes

\* What the screen of a player who asks for the field is made of.
Turn1 == IF attachment.turn = 1 THEN <<Message("NewTurn", 1)>> ELSE <<>>
Deck == IF attachment.reversed THEN <<Message("ReverseDeck", Nobody)>> ELSE <<>>
Repeat(s) == IF last_select # Nobody /\ AskedLast(s) THEN <<Message("Select", last_select)>> ELSE <<>>
Field(s) ==
  <<Message("DuelStart", Nobody), Message("Start", ToCore(s)), Message("NewTurn", 0)>>
    \o Turn1 \o <<Message("NewPhase", attachment.phase), Message("ReloadField", Nobody)>>
    \o Deck \o <<Message("TimeLimit", Nobody), Message("FieldFinish", Nobody)>> \o Repeat(s)

\* What he sees then.
Restored(s, w) ==
  /\ w \in ViewTypes
  /\ w.role = ToCore(s) /\ w.reversed = attachment.reversed
  /\ w.turn = IF attachment.turn = 1 THEN 1 ELSE 0
  /\ w.phase = attachment.phase
  /\ w.prompt = IF AskedLast(s) THEN last_select ELSE Nobody

\* The answer to RequestField makes of any screen the one that reconnect has noted.
LEMMA FieldShown ==
  ASSUME TypeOK, NEW s \in Seats, NEW v \in ViewTypes
  PROVE  Restored(s, After(v, Field(s)))
<1> DEFINE m1 == Message("DuelStart", Nobody)
           m2 == Message("Start", ToCore(s))
           m3 == Message("NewTurn", 0)
           m4 == Message("NewTurn", 1)
           m5 == Message("NewPhase", attachment.phase)
           m6 == Message("ReloadField", Nobody)
           m7 == Message("ReverseDeck", Nobody)
           m8 == Message("TimeLimit", Nobody)
           m9 == Message("FieldFinish", Nobody)
           m0 == Message("Select", last_select)
           s1 == <<m1, m2, m3>>
           s3 == <<m5, m6>>
           s5 == <<m8, m9>>
           v1 == After(v, s1)
           v2 == After(v1, Turn1)
           v3 == After(v2, s3)
           v4 == After(v3, Deck)
           v5 == After(v4, s5)
           v6 == After(v5, Repeat(s))
<1>1. /\ attachment \in Attachments /\ attachment.phase \in Phases /\ attachment.turn \in Places
      /\ attachment.reversed \in BOOLEAN /\ last_select \in Nat \cup {Nobody}
      /\ ToCore(s) \in Seats /\ 0 \in Seats /\ 1 \in Seats
  BY WhoIsWho DEF TypeOK, Attachments, Seats
<1>2. /\ m1 \in Messages /\ m2 \in Messages /\ m3 \in Messages /\ m4 \in Messages /\ m5 \in Messages
      /\ m6 \in Messages /\ m7 \in Messages /\ m8 \in Messages /\ m9 \in Messages
      /\ last_select # Nobody => m0 \in Messages
  BY <1>1, MessagesMade DEF Plain, Silent
<1>3. /\ m1.kind = "DuelStart" /\ m2.kind = "Start" /\ m2.arg = ToCore(s)
      /\ m3.kind = "NewTurn" /\ m3.arg = 0 /\ m4.kind = "NewTurn" /\ m4.arg = 1
      /\ m5.kind = "NewPhase" /\ m5.arg = attachment.phase /\ m6.kind = "ReloadField"
      /\ m7.kind = "ReverseDeck" /\ m8.kind = "TimeLimit" /\ m9.kind = "FieldFinish"
      /\ m0.kind = "Select" /\ m0.arg = last_select
  BY DEF Message
<1> HIDE DEF m1, m2, m3, m4, m5, m6, m7, m8, m9, m0
<1>4. ASSUME NEW w
      PROVE  /\ Shown(w, m1) = w /\ Shown(w, m6) = w /\ Shown(w, m8) = w /\ Shown(w, m9) = w
             /\ Shown(w, m7) = [w EXCEPT !.reversed = ~@]
  <2>1. m1.kind \in Silent /\ m6.kind \in Silent /\ m8.kind \in Silent /\ m9.kind \in Silent
    BY <1>3 DEF Silent
  <2>2. Shown(w, m1) = w /\ Shown(w, m6) = w
    BY ONLY <2>1, ShownIs
  <2>3. Shown(w, m8) = w /\ Shown(w, m9) = w
    BY ONLY <2>1, ShownIs
  <2>4. m7.kind = "ReverseDeck"
    BY <1>3
  <2>5. Shown(w, m7) = [w EXCEPT !.reversed = ~@]
    BY ONLY <2>4, ShownIs
  <2> QED BY <2>2, <2>3, <2>5
<1>5. ASSUME NEW w
      PROVE  /\ Shown(w, m2) = [Blank EXCEPT !.role = ToCore(s), !.pos = w.pos]
             /\ Shown(w, m3) = [w EXCEPT !.turn = 0]
             /\ Shown(w, m4) = [w EXCEPT !.turn = 1]
             /\ Shown(w, m5) = [w EXCEPT !.phase = attachment.phase]
             /\ Shown(w, m0) = [w EXCEPT !.prompt = last_select]
  <2>0. /\ m2.kind = "Start" /\ m3.kind = "NewTurn" /\ m4.kind = "NewTurn" /\ m5.kind = "NewPhase"
        /\ m0.kind = "Select"
    BY <1>3
  <2>1. Shown(w, m2) = [Blank EXCEPT !.role = m2.arg, !.pos = w.pos]
    BY ONLY <2>0, ShownIs
  <2>2. Shown(w, m3) = [w EXCEPT !.turn = m3.arg]
    BY ONLY <2>0, ShownIs
  <2>3. Shown(w, m4) = [w EXCEPT !.turn = m4.arg]
    BY ONLY <2>0, ShownIs
  <2>4. Shown(w, m5) = [w EXCEPT !.phase = m5.arg]
    BY ONLY <2>0, ShownIs
  <2>5. Shown(w, m0) = [w EXCEPT !.prompt = m0.arg]
    BY ONLY <2>0, ShownIs
  <2> QED BY <1>3, <2>1, <2>2, <2>3, <2>4, <2>5
<1>6. /\ s1 \in Seq(Messages) /\ Turn1 \in Seq(Messages) /\ s3 \in Seq(Messages)
      /\ Deck \in Seq(Messages) /\ s5 \in Seq(Messages) /\ Repeat(s) \in Seq(Messages)
  <2>1. Turn1 = <<m4>> \/ Turn1 = <<>>
    BY DEF Turn1, m4
  <2>2. Deck = <<m7>> \/ Deck = <<>>
    BY DEF Deck, m7
  <2>3. (last_select # Nobody /\ Repeat(s) = <<m0>>) \/ Repeat(s) = <<>>
    BY DEF Repeat, m0
  <2>4. s1 \in Seq(Messages) /\ s3 \in Seq(Messages) /\ s5 \in Seq(Messages)
    BY <1>2
  <2>a. <<>> \in Seq(Messages) /\ \A m \in Messages : <<m>> \in Seq(Messages)
    OBVIOUS
  <2>5. Turn1 \in Seq(Messages)
    BY <1>2, <2>1, <2>a
  <2>6. Deck \in Seq(Messages)
    BY <1>2, <2>2, <2>a
  <2>7. Repeat(s) \in Seq(Messages)
    BY <1>2, <2>3, <2>a
  <2> QED BY <2>4, <2>5, <2>6, <2>7
<1>7. Field(s) = s1 \o Turn1 \o s3 \o Deck \o s5 \o Repeat(s)
  BY DEF Field, m1, m2, m3, m5, m6, m8, m9
<1> HIDE DEF s1, s3, s5
<1>8. After(v, Field(s)) = v6 /\ v1 \in ViewTypes /\ v2 \in ViewTypes /\ v3 \in ViewTypes
      /\ v4 \in ViewTypes /\ v5 \in ViewTypes /\ v6 \in ViewTypes
  <2> DEFINE t == Turn1
             d == Deck
             l == Repeat(s)
  <2>0. t \in Seq(Messages) /\ d \in Seq(Messages) /\ l \in Seq(Messages)
    BY <1>6
  <2> HIDE DEF t, d, l
  <2>1. /\ s1 \o t \in Seq(Messages) /\ (s1 \o t) \o s3 \in Seq(Messages)
        /\ ((s1 \o t) \o s3) \o d \in Seq(Messages) /\ (((s1 \o t) \o s3) \o d) \o s5 \in Seq(Messages)
    BY <1>6, <2>0
  <2>2. After(v, s1 \o t) = After(After(v, s1), t)
    BY <1>6, <2>0, AfterBehind
  <2>3. After(v, (s1 \o t) \o s3) = After(After(v, s1 \o t), s3)
    BY <1>6, <2>1, AfterBehind
  <2>4. After(v, ((s1 \o t) \o s3) \o d) = After(After(v, (s1 \o t) \o s3), d)
    BY <2>0, <2>1, AfterBehind
  <2>5. After(v, (((s1 \o t) \o s3) \o d) \o s5) = After(After(v, ((s1 \o t) \o s3) \o d), s5)
    BY <1>6, <2>1, AfterBehind
  <2>6. After(v, ((((s1 \o t) \o s3) \o d) \o s5) \o l) = After(After(v, (((s1 \o t) \o s3) \o d) \o s5), l)
    BY <2>0, <2>1, AfterBehind
  <2>7. After(v, ((((s1 \o t) \o s3) \o d) \o s5) \o l) = After(After(After(After(After(After(v, s1), t), s3), d), s5), l)
    BY <2>2, <2>3, <2>4, <2>5, <2>6
  <2>8. \A w \in ViewTypes, u \in Seq(Messages) : After(w, u) \in ViewTypes
    BY AfterOn
  <2> QED BY <1>6, <1>7, <2>7, <2>8 DEF t, d, l
<1>9. v1 = [[Blank EXCEPT !.role = ToCore(s), !.pos = v.pos] EXCEPT !.turn = 0]
  <2>1. v1 = Shown(Shown(Shown(v, m1), m2), m3)
    BY <1>2, AfterLists DEF s1
  <2>2. Shown(v, m1) = v
    BY <1>4
  <2> DEFINE u == [Blank EXCEPT !.role = ToCore(s), !.pos = v.pos]
  <2>3. Shown(v, m2) = u
    BY <1>5
  <2> HIDE DEF u
  <2>4. Shown(u, m3) = [u EXCEPT !.turn = 0]
    BY <1>5
  <2> QED BY <2>1, <2>2, <2>3, <2>4 DEF u
<1>10. v2 = IF attachment.turn = 1 THEN [v1 EXCEPT !.turn = 1] ELSE v1
  <2> HIDE DEF v1
  <2>1. CASE attachment.turn = 1
    <3>1. Turn1 = <<m4>> /\ m4 \in Messages /\ v1 \in ViewTypes
      BY <1>2, <1>8, <2>1 DEF Turn1, m4
    <3>2. v2 = Shown(v1, m4)
      BY <3>1, AfterLists
    <3> QED BY <1>5, <2>1, <3>2
  <2>2. CASE attachment.turn # 1
    BY <1>8, <2>2, AfterLists DEF Turn1
  <2> QED BY <2>1, <2>2
<1>11. v3 = [v2 EXCEPT !.phase = attachment.phase]
  <2> HIDE DEF v2
  <2>1. v3 = Shown(Shown(v2, m5), m6)
    BY <1>2, <1>8, AfterLists DEF s3
  <2> QED BY <1>4, <1>5, <2>1
<1>12. v4 = IF attachment.reversed THEN [v3 EXCEPT !.reversed = ~@] ELSE v3
  <2> HIDE DEF v3
  <2>1. CASE attachment.reversed
    <3>1. Deck = <<m7>> /\ m7 \in Messages /\ v3 \in ViewTypes
      BY <1>2, <1>8, <2>1 DEF Deck, m7
    <3>2. v4 = Shown(v3, m7)
      BY <3>1, AfterLists
    <3> QED BY <1>4, <2>1, <3>2
  <2>2. CASE ~attachment.reversed
    BY <1>8, <2>2, AfterLists DEF Deck
  <2> QED BY <2>1, <2>2
<1>13. v5 = v4
  <2> HIDE DEF v4
  <2>1. v5 = Shown(Shown(v4, m8), m9)
    BY <1>2, <1>8, AfterLists DEF s5
  <2> QED BY <1>4, <2>1
<1>14. v6 = IF last_select # Nobody /\ AskedLast(s) THEN [v5 EXCEPT !.prompt = last_select] ELSE v5
  <2> HIDE DEF v5
  <2>1. CASE last_select # Nobody /\ AskedLast(s)
    <3>1. Repeat(s) = <<m0>> /\ m0 \in Messages /\ v5 \in ViewTypes
      BY <1>2, <1>8, <2>1 DEF Repeat, m0
    <3>2. v6 = Shown(v5, m0)
      BY <3>1, AfterLists
    <3> QED BY <1>5, <2>1, <3>2
  <2>2. CASE ~(last_select # Nobody /\ AskedLast(s))
    BY <1>8, <2>2, AfterLists DEF Repeat
  <2> QED BY <2>1, <2>2
<1> HIDE DEF v1, v2, v3, v4, v5, v6
<1>15. v1.role = ToCore(s) /\ v1.turn = 0 /\ v1.reversed = FALSE /\ v1.prompt = Nobody
  BY <1>9 DEF Blank
<1>16. /\ v2.role = ToCore(s) /\ v2.turn = (IF attachment.turn = 1 THEN 1 ELSE 0)
       /\ v2.reversed = FALSE /\ v2.prompt = Nobody
  BY <1>8, <1>10, <1>15 DEF ViewTypes
<1>17. /\ v3.role = ToCore(s) /\ v3.turn = (IF attachment.turn = 1 THEN 1 ELSE 0)
       /\ v3.reversed = FALSE /\ v3.prompt = Nobody /\ v3.phase = attachment.phase
  BY <1>8, <1>11, <1>16 DEF ViewTypes
<1>18. /\ v4.role = ToCore(s) /\ v4.turn = (IF attachment.turn = 1 THEN 1 ELSE 0)
       /\ v4.reversed = attachment.reversed /\ v4.prompt = Nobody /\ v4.phase = attachment.phase
  BY <1>1, <1>8, <1>12, <1>17 DEF ViewTypes
<1>19. v6.prompt = IF AskedLast(s) THEN last_select ELSE Nobody
  BY <1>8, <1>13, <1>14, <1>18 DEF ViewTypes
<1>20. v6.role = v5.role /\ v6.turn = v5.turn /\ v6.reversed = v5.reversed /\ v6.phase = v5.phase
  BY <1>8, <1>14 DEF ViewTypes
<1> QED BY <1>8, <1>13, <1>18, <1>19, <1>20 DEF Restored

-----------------------------------------------------------------------------
(* Every step keeps the types.                                              *)

\* The history that is sent leaves screens behind.
LEMMA RetoldTyped ==
  ASSUME TypeOK, masked_messages \in Records, NEW v \in ViewTypes
  PROVE  Replay(v, FromDuelStart(masked_messages)) \in ViewTypes
<1>1. FromDuelStart(masked_messages) \in Seq(Messages)
  BY FromStart
<1> QED BY <1>1, ReplayOn

\* What the clients do keeps the types.
LEMMA TypesClients ==
  ASSUME Types, \/ \E s \in Seats : PlayerAnswers(s) \/ PlayerReconnects(s)
                \/ \E c \in Late : LateJoins(c)
                \/ \E k \in Keys : LateLeaves(k)
  PROVE  Types'
<1>0. TypeOK /\ views \in [Clients -> ViewTypes]
  BY TypeIs DEF Types
<1>1. ASSUME NEW s \in Seats, PlayerAnswers(s) PROVE Types'
  <2> DEFINE x == [type |-> "Response", from |-> s]
  <2>1. x \in Requests /\ x.type # "DuelStart"
    BY RequestsMade
  <2>2. Post(x) /\ views' = [views EXCEPT ![s].prompt = Nobody] /\ UNCHANGED <<Server, joined, requests>>
    BY <1>1 DEF PlayerAnswers
  <2> HIDE DEF x
  <2>3. Shift(queue, queue', 0, {x}) /\ queue' \in Seq(Requests)
    BY <2>1, <2>2, Posts
  <2>4. views' \in [Clients -> ViewTypes]
    <3>1. s \in Clients
      BY DEF Clients
    <3>2. [views[s] EXCEPT !.prompt = Nobody] \in ViewTypes
      BY <1>0, <3>1, ViewUpdates
    <3>3. views' = [views EXCEPT ![s] = [views[s] EXCEPT !.prompt = Nobody]]
      BY <2>2
    <3> QED BY <1>0, <3>1, <3>2, <3>3, ScreenTyped
  <2>5. TypeOK'
    BY <1>0, <2>2, <2>4, TypeIs DEF Server, TypeOK, ViewTypes
  <2> QED BY <2>1, <2>3, <2>5, BoxTyped
<1>2. ASSUME NEW s \in Seats, PlayerReconnects(s) PROVE Types'
  <2> DEFINE x == [type |-> "RequestField", from |-> s]
  <2>1. x \in Requests /\ x.type # "DuelStart"
    BY RequestsMade
  <2>2. /\ Post(x) /\ views' = [views EXCEPT ![s] = Blank] /\ requests' = requests + 1
        /\ UNCHANGED <<Server, joined>>
    BY <1>2 DEF PlayerReconnects
  <2> HIDE DEF x
  <2>3. Shift(queue, queue', 0, {x}) /\ queue' \in Seq(Requests)
    BY <2>1, <2>2, Posts
  <2>4. views' \in [Clients -> ViewTypes]
    <3>1. s \in Clients
      BY DEF Clients
    <3>2. Blank \in ViewTypes
      BY DEF Blank, ViewTypes, Places
    <3> QED BY <1>0, <2>2, <3>1, <3>2, ScreenTyped
  <2>5. TypeOK'
    BY <1>0, <2>2, <2>4 DEF Server, TypeOK, ViewTypes
  <2> QED BY <2>1, <2>3, <2>5, BoxTyped
<1>3. ASSUME NEW c \in Late, LateJoins(c) PROVE Types'
  <2> DEFINE x == [type |-> "JoinGame", client |-> c]
  <2>1. x \in Requests /\ x.type # "DuelStart"
    BY RequestsMade
  <2>2. Post(x) /\ joined' = joined \cup {c} /\ UNCHANGED <<Server, views, requests>>
    BY <1>3 DEF LateJoins
  <2> HIDE DEF x
  <2>3. Shift(queue, queue', 0, {x}) /\ queue' \in Seq(Requests)
    BY <2>1, <2>2, Posts
  <2>5. TypeOK'
    BY <1>0, <2>2 DEF Server, TypeOK
  <2> QED BY <2>1, <2>3, <2>5, BoxTyped
<1>4. ASSUME NEW k \in Keys, LateLeaves(k) PROVE Types'
  <2> DEFINE x == [type |-> "LeaveGame", key |-> k]
  <2>1. x \in Requests /\ x.type # "DuelStart"
    BY RequestsMade
  <2>2. Post(x) /\ UNCHANGED <<Server, views, joined, requests>>
    BY <1>4 DEF LateLeaves
  <2> HIDE DEF x
  <2>3. Shift(queue, queue', 0, {x}) /\ queue' \in Seq(Requests)
    BY <2>1, <2>2, Posts
  <2>5. TypeOK'
    BY <1>0, <2>2 DEF Server, TypeOK
  <2> QED BY <2>1, <2>3, <2>5, BoxTyped
<1> QED BY <1>1, <1>2, <1>3, <1>4

\* What the actor does keeps the types; the history is sent from a record with a DuelStart in it.
LEMMA TypesActor ==
  ASSUME Types, masked_messages \in Records, Actor
  PROVE  Types'
<1>0. TypeOK /\ views \in [Clients -> ViewTypes] /\ observers \in [Keys -> Watchers \cup {Nobody}]
  BY TypeIs DEF Types
<1>1. CASE OnJoinGame
  <2>1. Receive("JoinGame") /\ UNCHANGED <<first, last_response, last_select, gate, attachment, engine, questions,
                                          joined, requests>>
    BY <1>1 DEF OnJoinGame
  <2>2. Request \in Requests /\ Request.type = "JoinGame"
    BY <2>1, Receives DEF Receive
  <2>3. Request.client \in Late
    BY <2>2, RequestFields
  <2>4. PICK k \in Keys :
          /\ observers' = [observers EXCEPT ![k] = Request.client]
          /\ Send(JoinSends(Request.client, k))
          /\ Done(<<[type |-> "soumatou", key |-> k]>>)
    BY <1>1 DEF OnJoinGame, JoinSends
  <2> DEFINE x == [type |-> "soumatou", key |-> k]
  <2>5. x \in Requests /\ x.type # "DuelStart"
    BY RequestsMade
  <2>6. Done(<<x>>)
    BY <2>4
  <2> HIDE DEF x
  <2>7. Shift(queue, queue', 1, {x}) /\ queue' \in Seq(Requests)
    BY <2>1, <2>5, <2>6, Receives
  <2>8. views' \in [Clients -> ViewTypes]
    BY <1>0, <2>3, <2>4, JoinSeen
  <2>9. observers' \in [Keys -> Watchers \cup {Nobody}]
    BY <1>0, <2>3, <2>4 DEF Watchers
  <2>10. TypeOK'
    BY <1>0, <2>1, <2>8, <2>9 DEF TypeOK, ViewTypes
  <2> QED BY <2>5, <2>7, <2>10, BoxTyped
<1>2. CASE OnLeaveGame
  <2>1. /\ Receive("LeaveGame") /\ Done(<<>>) /\ observers' = [observers EXCEPT ![Request.key] = Nobody]
        /\ UNCHANGED <<masked_messages, first, last_response, last_select, gate, attachment, engine,
                       questions, views, joined, requests>>
    BY <1>2 DEF OnLeaveGame
  <2>2. Shift(queue, queue', 1, {}) /\ queue' \in Seq(Requests)
    BY <2>1, Receives
  <2>3. observers' \in [Keys -> Watchers \cup {Nobody}]
    BY <1>0, <2>1
  <2>4. TypeOK'
    BY <1>0, <2>1, <2>3 DEF TypeOK
  <2> QED BY <2>2, <2>4, BoxTyped
<1>3. CASE OnSoumatou
  <2> DEFINE c == observers[Request.key]
  <2>1. /\ Receive("soumatou") /\ Done(<<>>)
        /\ views' = IF c = Nobody THEN views
                    ELSE [views EXCEPT ![c] = Replay(@, FromDuelStart(masked_messages))]
        /\ UNCHANGED <<masked_messages, observers, first, last_response, last_select, gate, attachment,
                       engine, questions, joined, requests>>
    BY <1>3 DEF OnSoumatou
  <2>2. Shift(queue, queue', 1, {}) /\ queue' \in Seq(Requests) /\ Request \in Requests /\ Request.type = "soumatou"
    BY <2>1, Receives DEF Receive
  <2>3. c \in Clients \cup {Nobody}
    BY <1>0, <2>2, RequestFields DEF Clients
  <2> HIDE DEF c
  <2>4. views' \in [Clients -> ViewTypes]
    <3>1. CASE c = Nobody
      BY <1>0, <2>1, <3>1
    <3>2. CASE c # Nobody
      <4>1. c \in Clients /\ views[c] \in ViewTypes
        BY <1>0, <2>3, <3>2
      <4>2. Replay(views[c], FromDuelStart(masked_messages)) \in ViewTypes
        BY <1>0, <4>1, RetoldTyped
      <4>3. views' = [views EXCEPT ![c] = Replay(views[c], FromDuelStart(masked_messages))]
        BY <2>1, <3>2
      <4> QED BY <1>0, <4>1, <4>2, <4>3, ScreenTyped
    <3> QED BY <3>1, <3>2
  <2>5. TypeOK'
    BY <1>0, <2>1, <2>4 DEF TypeOK, ViewTypes
  <2> QED BY <2>2, <2>5, BoxTyped
<1>4. CASE OnDuelStart
  <2>1. /\ Receive("DuelStart") /\ Done(<<[type |-> "Evolve"]>>)
        /\ first' = FirstAttacker[Request.duel]
        /\ engine' = [NewEngine EXCEPT !.duel = Request.duel]
        /\ Send(StartSends(first'))
        /\ UNCHANGED <<observers, last_response, last_select, gate, attachment, questions, joined,
                       requests>>
    BY <1>4 DEF OnDuelStart, StartSends, CoreOf
  <2> DEFINE x == [type |-> "Evolve"]
  <2>2. x \in Requests /\ x.type # "DuelStart" /\ Done(<<x>>)
    BY <2>1, RequestsMade
  <2> HIDE DEF x
  <2>3. Shift(queue, queue', 1, {x}) /\ queue' \in Seq(Requests)
    BY <2>1, <2>2, Receives
  <2>4. Request.duel \in 1..MaxDuels
    <3>1. /\ 1 \in DOMAIN queue /\ Request = queue[1] /\ Request.type = "DuelStart" /\ Request \in Requests
      BY <2>1, Receives DEF Receive
    <3>2. Request.duel \in Nat \ {0} /\ Request.duel <= MaxDuels
      BY <3>1, RequestFields DEF Types
    <3> QED BY <3>2, HistoryAssumption
  <2>5. first' \in Seats /\ engine' \in Engines
    <3>1. first' \in Seats
      BY <2>1, <2>4, HistoryAssumption DEF Seats
    <3>2. Request.duel \in Nat /\ engine \in Engines
      BY <1>0, <2>4, HistoryAssumption, TypeIs
    <3>3. engine' \in Engines
      BY <2>1, <3>2, EngineUpdates
    <3> QED BY <3>1, <3>3
  <2>6. views' \in [Clients -> ViewTypes]
    BY <1>0, <2>1, <2>5, StartSeen
  <2>7. TypeOK'
    BY <1>0, <2>1, <2>5, <2>6 DEF TypeOK, ViewTypes, Engines
  <2> QED BY <2>2, <2>3, <2>7, BoxTyped
<1>5. CASE OnEvolve
  <2>1. Receive("Evolve")
    BY <1>5 DEF OnEvolve
  <2>2. PICK e \in Events, p \in Seats : Evolves(e, p)
    BY <1>5, EvolveIs
  <2> DEFINE events == Run(engine.turn = Nobody, e)
  <2>3. /\ events \in Seq(Messages)
        /\ attachment' \in Attachments
    <3>1. (engine.turn = Nobody) \in BOOLEAN
      OBVIOUS
    <3>2. events \in Seq(Messages)
      BY <3>1, EventsRun
    <3>3. attachment \in Attachments /\ attachment' = Noting(attachment, events)
      BY <1>0, <2>2, TypeIs DEF Evolves
    <3> HIDE DEF events
    <3> QED BY <3>2, <3>3, NotedOn
  <2>4. engine \in Engines /\ questions \in Nat /\ ToSeat(p) \in Seats /\ gate \in [Seats -> BOOLEAN]
    BY <1>0, TypeIs, WhoIsWho
  <2>5. engine' \in Engines
    <3>1. Telling(engine, events) \in Engines
      <4> HIDE DEF events
      <4> QED BY <2>3, <2>4, ToldOn
    <3>2. engine' = [Telling(engine, events) EXCEPT !.events = @ + 1, !.ended = (engine.events + 1 = MaxEvents)]
      BY <2>2 DEF Evolves
    <3> DEFINE t == Telling(engine, events)
               b == engine.events + 1 = MaxEvents
    <3>3. b \in BOOLEAN /\ t \in Engines /\ engine' = [t EXCEPT !.events = @ + 1, !.ended = b]
      BY <3>1, <3>2
    <3> HIDE DEF t, b
    <3> QED BY <3>3, EngineUpdates
  <2>6. UNCHANGED <<observers, first, joined, requests>>
    BY <2>2 DEF Evolves
  <2>7. CASE engine.events + 1 = MaxEvents
    <3> DEFINE x == [type |-> "RecreateDuel", duel |-> engine.duel + 1]
    <3>1. /\ Send(WinSends(events)) /\ Done(<<x>>)
          /\ UNCHANGED <<gate, last_response, last_select, questions>>
      BY <2>2, <2>7 DEF Evolves, Done
    <3>2. x \in Requests /\ x.type # "DuelStart"
      <4>1. engine.duel + 1 \in Nat \ {0}
        <5>1. engine.duel \in Nat
          BY <2>4, EngineUpdates
        <5> QED BY <5>1
      <4> QED BY <4>1, RequestsMade
    <3> HIDE DEF x, events
    <3>3. Shift(queue, queue', 1, {x}) /\ queue' \in Seq(Requests)
      BY <2>1, <3>1, <3>2, Receives
    <3>4. views' \in [Clients -> ViewTypes]
      BY <1>0, <2>3, <3>1, WinSeen
    <3>5. TypeOK'
      BY <1>0, <2>3, <2>5, <2>6, <3>1, <3>4 DEF TypeOK, ViewTypes, Engines, Attachments
    <3> QED BY <3>2, <3>3, <3>5, BoxTyped
  <2>8. CASE engine.events + 1 # MaxEvents
    <3>1. /\ Send(AskSends(events, ToSeat(p), questions + 1)) /\ Done(<<>>)
          /\ questions' = questions + 1 /\ last_response' = ToSeat(p) /\ last_select' = questions + 1
          /\ gate' = [gate EXCEPT ![ToSeat(p)] = TRUE]
      BY <2>2, <2>8 DEF Evolves, Done
    <3> HIDE DEF events
    <3>3. Shift(queue, queue', 1, {}) /\ queue' \in Seq(Requests)
      BY <2>1, <3>1, Receives
    <3>4. views' \in [Clients -> ViewTypes]
      <4>1. questions + 1 \in Nat
        BY <2>4
      <4> QED BY <1>0, <2>3, <2>4, <3>1, <4>1, AskSeen
    <3>5. /\ gate' \in [Seats -> BOOLEAN] /\ questions' \in Nat /\ last_response' \in Places
          /\ last_select' \in Nat \cup {Nobody}
      BY <2>4, <3>1 DEF Places
    <3>6. TypeOK'
      BY <1>0, <2>3, <2>5, <2>6, <3>4, <3>5 DEF TypeOK, ViewTypes, Engines, Attachments
    <3> QED BY <3>3, <3>6, BoxTyped
  <2> QED BY <2>7, <2>8
<1>6. CASE OnRetry
  <2>1. /\ Receive("Evolve") /\ Done(<<>>) /\ last_response # Nobody
        /\ engine' = [engine EXCEPT !.retries = @ + 1]
        /\ gate' = [gate EXCEPT ![last_response] = TRUE]
        /\ Send(RetrySends(last_response, last_select))
        /\ UNCHANGED <<observers, first, last_response, last_select, attachment, questions, joined,
                       requests>>
    BY <1>6 DEF OnRetry, RetrySends
  <2>2. Shift(queue, queue', 1, {}) /\ queue' \in Seq(Requests)
    BY <2>1, Receives
  <2>3. last_response \in Seats /\ last_select \in Nat \cup {Nobody} /\ engine \in Engines
    BY <1>0, <2>1, TypeIs DEF Places
  <2>4. engine' \in Engines /\ gate' \in [Seats -> BOOLEAN]
    BY <1>0, <2>1, <2>3, EngineUpdates, TypeIs
  <2>5. views' \in [Clients -> ViewTypes]
    BY <1>0, <2>1, <2>3, RetrySeen
  <2>6. TypeOK'
    BY <1>0, <2>1, <2>4, <2>5 DEF TypeOK, ViewTypes, Engines
  <2> QED BY <2>2, <2>6, BoxTyped
<1>7. CASE OnResponse
  <2>1. /\ Receive("Response")
        /\ UNCHANGED <<masked_messages, observers, first, last_response, last_select, attachment, engine,
                       questions, views, joined, requests>>
    BY <1>7 DEF OnResponse
  <2>2. CASE gate[Request.from] /\ ~engine.ended
    <3> DEFINE x == [type |-> "Evolve"]
    <3>1. x \in Requests /\ x.type # "DuelStart" /\ Done(<<x>>) /\ gate' = [gate EXCEPT ![Request.from] = FALSE]
      BY <1>7, <2>2, RequestsMade DEF OnResponse
    <3> HIDE DEF x
    <3>2. Shift(queue, queue', 1, {x}) /\ queue' \in Seq(Requests)
      BY <2>1, <3>1, Receives
    <3>3. TypeOK'
      BY <1>0, <2>1, <3>1 DEF TypeOK
    <3> QED BY <3>1, <3>2, <3>3, BoxTyped
  <2>3. CASE ~(gate[Request.from] /\ ~engine.ended)
    <3>1. Done(<<>>) /\ UNCHANGED gate
      BY <1>7, <2>3 DEF OnResponse
    <3>2. Shift(queue, queue', 1, {}) /\ queue' \in Seq(Requests)
      BY <2>1, <3>1, Receives
    <3>3. TypeOK'
      BY <1>0, <2>1, <3>1 DEF TypeOK
    <3> QED BY <3>2, <3>3, BoxTyped
  <2> QED BY <2>2, <2>3
<1>8. CASE OnRecreateDuel
  <2>1. /\ Receive("RecreateDuel") /\ Request.duel <= MaxDuels
        /\ attachment' = Reset /\ gate' = [s \in Seats |-> FALSE]
        /\ Send(NextSends)
        /\ Done(<<[type |-> "DuelStart", duel |-> Request.duel]>>)
        /\ UNCHANGED <<observers, first, last_response, last_select, engine, questions, joined, requests>>
    BY <1>8 DEF OnRecreateDuel, NextSends
  <2> DEFINE x == [type |-> "DuelStart", duel |-> Request.duel]
  <2>2. x \in Requests /\ (x.type = "DuelStart" => x.duel <= MaxDuels) /\ Done(<<x>>)
    <3>1. Request.duel \in Nat \ {0}
      BY <2>1, Receives, RequestFields DEF Receive
    <3> QED BY <2>1, <3>1, RequestsMade
  <2> HIDE DEF x
  <2>3. Shift(queue, queue', 1, {x}) /\ queue' \in Seq(Requests)
    BY <2>1, <2>2, Receives
  <2>4. views' \in [Clients -> ViewTypes]
    BY <1>0, <2>1, NextSeen
  <2>5. attachment' \in Attachments /\ gate' \in [Seats -> BOOLEAN]
    BY <2>1 DEF Reset, Attachments, Places, Seats, Phases
  <2>6. TypeOK'
    BY <1>0, <2>1, <2>4, <2>5 DEF TypeOK, ViewTypes, Attachments
  <2> QED BY <2>2, <2>3, <2>6, BoxTyped
<1>9. CASE OnRequestField
  <2>1. /\ Receive("RequestField") /\ Done(<<>>)
        /\ views' = IF attachment.known THEN [views EXCEPT ![Request.from] = After(@, Field(Request.from))] ELSE views
        /\ UNCHANGED <<masked_messages, observers, first, last_response, last_select, gate, attachment,
                       engine, questions, joined, requests>>
    BY <1>9 DEF OnRequestField, Field, Turn1, Deck, Repeat
  <2>2. Shift(queue, queue', 1, {}) /\ queue' \in Seq(Requests) /\ Request \in Requests /\ Request.type = "RequestField"
    BY <2>1, Receives DEF Receive
  <2>3. Request.from \in Seats
    BY <2>2, RequestFields
  <2>4. views' \in [Clients -> ViewTypes]
    <3> DEFINE s == Request.from
    <3>1. s \in Seats /\ s \in Clients
      BY <2>3 DEF Clients
    <3>2. views' = IF attachment.known THEN [views EXCEPT ![s] = After(views[s], Field(s))] ELSE views
      BY <2>1
    <3> HIDE DEF s
    <3>3. views[s] \in ViewTypes /\ Restored(s, After(views[s], Field(s)))
      BY <1>0, <3>1, FieldShown
    <3>4. After(views[s], Field(s)) \in ViewTypes
      BY <3>3 DEF Restored
    <3> QED BY <1>0, <3>1, <3>2, <3>4, ScreenTyped
  <2>5. TypeOK'
    BY <1>0, <2>1, <2>4 DEF TypeOK, ViewTypes
  <2> QED BY <2>2, <2>5, BoxTyped
<1> QED BY <1>1, <1>2, <1>3, <1>4, <1>5, <1>6, <1>7, <1>8, <1>9 DEF Actor
-----------------------------------------------------------------------------
(* The duel, and the seats.                                                 *)

\* Something that makes the duel go on.
Work(r) == r.type \in {"DuelStart", "RecreateDuel", "Evolve"}
Queued(r) == \E i \in DOMAIN queue : queue[i] = r
Evolving == \E i \in DOMAIN queue : queue[i].type = "Evolve"
Begun == engine.duel # 0

\* One thing at a time: the engine is to run, or somebody is to answer, or the next duel
\* is to begin.
OneAtATime ==
  /\ \A i, j \in DOMAIN queue : Work(queue[i]) /\ Work(queue[j]) => i = j
  /\ \A i \in DOMAIN queue :
       /\ queue[i].type \in {"DuelStart", "RecreateDuel"} => engine.ended
       /\ queue[i].type = "Evolve" => ~engine.ended
  /\ \A s \in Seats : gate[s] =>
       /\ ~engine.ended
       /\ last_response = s
       /\ engine.turn # Nobody
       /\ \A i \in DOMAIN queue : ~Work(queue[i])
  /\ last_response # Nobody => last_select = questions

\* What reconnect has noted is what the engine told.
WellNoted ==
  /\ ~engine.ended /\ engine.turn # Nobody =>
       /\ attachment.known
       /\ <<attachment.turn, attachment.phase, attachment.reversed>>
            = <<engine.turn, engine.phase, engine.reversed>>
  /\ ~engine.ended /\ engine.turn = Nobody => ~engine.reversed /\ ~attachment.reversed
  /\ \A i \in DOMAIN queue : queue[i].type = "DuelStart" => ~attachment.reversed
  /\ Begun /\ ~attachment.known => Evolving

\* A player's screen shows the duel, or he has asked for it late enough to be answered.
Seen(s) ==
  ~engine.ended /\ views[s].role # Nobody =>
    /\ views[s].role = ToCore(s)
    /\ views[s].reversed = engine.reversed
    /\ engine.turn # Nobody => <<views[s].turn, views[s].phase>> = <<engine.turn, engine.phase>>
Heard(i) == attachment.known \/ \E j \in DOMAIN queue : j < i /\ queue[j].type = "Evolve"
Asked(s) ==
  Begun /\ views[s].role = Nobody =>
    \E i \in DOMAIN queue : queue[i] = [type |-> "RequestField", from |-> s] /\ Heard(i)
Put(s) ==
  gate[s] => \/ views[s].prompt = questions
             \/ Queued([type |-> "Response", from |-> s])
             \/ Queued([type |-> "RequestField", from |-> s])
Screens == \A s \in Seats : Seen(s) /\ Asked(s) /\ Put(s)

\* A step that has nothing to do with the duel: the mailbox loses k elements and gains those
\* of `new`, none of which makes the duel go on.
Quiet(k, new) ==
  /\ Shift(queue, queue', k, new)
  /\ k = 1 => ~Work(queue[1])
  /\ \A x \in new : ~Work(x)
  /\ UNCHANGED <<engine, gate, last_response, last_select, questions, attachment, first>>

\* Such a step leaves the order of things and what is noted as they were.
LEMMA QuietKeeps ==
  ASSUME OneAtATime, WellNoted, NEW k, NEW new, Quiet(k, new)
  PROVE  OneAtATime' /\ WellNoted' /\ (Evolving => Evolving')
<1>1. /\ k \in {0, 1} /\ DOMAIN queue = 1..Len(queue) /\ Len(queue) \in Nat
      /\ DOMAIN queue' \subseteq Nat \ {0}
      /\ \A i \in DOMAIN queue : i > k => i - k \in DOMAIN queue' /\ queue'[i - k] = queue[i]
      /\ \A i \in DOMAIN queue' : \/ i + k \in DOMAIN queue /\ queue'[i] = queue[i + k]
                                  \/ i + k = Len(queue) + 1 /\ queue'[i] \in new
      /\ k = 1 => ~Work(queue[1])
      /\ \A x \in new : ~Work(x)
      /\ UNCHANGED <<engine, gate, last_response, last_select, questions, attachment>>
  BY DEF Quiet, Shift
<1>2. \A i \in DOMAIN queue' : Work(queue'[i]) => i + k \in DOMAIN queue /\ queue'[i] = queue[i + k]
  BY <1>1
<1>3. \A i, j \in DOMAIN queue' : Work(queue'[i]) /\ Work(queue'[j]) => i = j
  <2>1. SUFFICES ASSUME NEW i \in DOMAIN queue', NEW j \in DOMAIN queue', Work(queue'[i]), Work(queue'[j])
                 PROVE  i = j
    OBVIOUS
  <2>2. i + k \in DOMAIN queue /\ j + k \in DOMAIN queue /\ Work(queue[i + k]) /\ Work(queue[j + k])
    BY <1>2, <2>1
  <2>3. i + k = j + k
    BY <2>2 DEF OneAtATime
  <2>4. i \in Nat /\ j \in Nat /\ k \in Nat
    BY <1>1
  <2> QED BY <2>3, <2>4
<1>4. ASSUME NEW i \in DOMAIN queue'
      PROVE  /\ queue'[i].type \in {"DuelStart", "RecreateDuel"} => engine'.ended
             /\ queue'[i].type = "Evolve" => ~engine'.ended
             /\ queue'[i].type = "DuelStart" => ~attachment'.reversed
  <2>1. queue'[i].type \in {"DuelStart", "RecreateDuel", "Evolve"} => i + k \in DOMAIN queue /\ queue'[i] = queue[i + k]
    BY <1>2 DEF Work
  <2> QED BY <1>1, <2>1 DEF OneAtATime, WellNoted
<1>5. ASSUME NEW s \in Seats, gate'[s]
      PROVE  /\ ~engine'.ended /\ last_response' = s /\ engine'.turn # Nobody
             /\ \A i \in DOMAIN queue' : ~Work(queue'[i])
  <2>1. /\ ~engine.ended /\ last_response = s /\ engine.turn # Nobody
        /\ \A i \in DOMAIN queue : ~Work(queue[i])
    BY <1>1, <1>5 DEF OneAtATime
  <2> QED BY <1>1, <1>2, <2>1
<1>6. last_response' # Nobody => last_select' = questions'
  BY <1>1 DEF OneAtATime
<1>7. OneAtATime'
  BY <1>3, <1>4, <1>5, <1>6 DEF OneAtATime, Work
<1>8. Evolving => Evolving'
  <2>1. SUFFICES ASSUME NEW i \in DOMAIN queue, queue[i].type = "Evolve" PROVE Evolving'
    BY DEF Evolving
  <2>2. i > k
    BY <1>1, <2>1 DEF Work
  <2>3. i - k \in DOMAIN queue' /\ queue'[i - k] = queue[i]
    BY <1>1, <2>2
  <2> QED BY <2>1, <2>3 DEF Evolving
<1>9. WellNoted'
  BY <1>1, <1>4, <1>8 DEF WellNoted, Begun
<1> QED BY <1>7, <1>8, <1>9

\* What a quiet step does to somebody's screen and requests, unless it is about them.
LEMMA StaysOnScreen ==
  ASSUME NEW k, NEW new, Quiet(k, new), NEW s \in Seats, Seen(s), Asked(s), Put(s),
         views'[s] = views[s],
         k = 1 /\ queue[1] = [type |-> "RequestField", from |-> s] => ~gate[s] /\ ~attachment.known,
         k = 1 /\ queue[1] = [type |-> "Response", from |-> s] => ~gate[s]
  PROVE  (Seen(s) /\ Asked(s) /\ Put(s))'
<1>1. /\ k \in {0, 1} /\ DOMAIN queue = 1..Len(queue) /\ Len(queue) \in Nat
      /\ DOMAIN queue' \subseteq Nat \ {0}
      /\ \A i \in DOMAIN queue : i > k => i - k \in DOMAIN queue' /\ queue'[i - k] = queue[i]
      /\ k = 1 => ~Work(queue[1])
      /\ UNCHANGED <<engine, gate, last_response, last_select, questions, attachment, first>>
  BY DEF Quiet, Shift
<1>2. Seen(s)'
  BY <1>1 DEF Seen, ToCore
<1>3. Asked(s)'
  <2>1. SUFFICES ASSUME engine.duel # 0, views[s].role = Nobody
                 PROVE  \E i \in DOMAIN queue' :
                          queue'[i] = [type |-> "RequestField", from |-> s] /\ Heard(i)'
    BY <1>1 DEF Asked, Begun
  <2>2. PICK i \in DOMAIN queue : queue[i] = [type |-> "RequestField", from |-> s] /\ Heard(i)
    BY <2>1 DEF Asked, Begun
  <2>3. i > k
    BY <1>1, <2>2 DEF Heard
  <2>4. i - k \in DOMAIN queue' /\ queue'[i - k] = [type |-> "RequestField", from |-> s]
    BY <1>1, <2>2, <2>3
  <2>5. Heard(i - k)'
    <3>1. CASE attachment.known
      BY <1>1, <3>1 DEF Heard
    <3>2. CASE ~attachment.known
      <4>1. PICK j \in DOMAIN queue : j < i /\ queue[j].type = "Evolve"
        BY <2>2, <3>2 DEF Heard
      <4>2. j > k
        BY <1>1, <4>1 DEF Work
      <4>3. j - k \in DOMAIN queue' /\ queue'[j - k].type = "Evolve" /\ j - k < i - k
        BY <1>1, <4>1, <4>2
      <4> QED BY <4>3 DEF Heard
    <3> QED BY <3>1, <3>2
  <2> QED BY <2>4, <2>5
<1>4. Put(s)'
  <2>1. SUFFICES ASSUME gate[s], views[s].prompt # questions
                 PROVE  \/ Queued([type |-> "Response", from |-> s])'
                        \/ Queued([type |-> "RequestField", from |-> s])'
    BY <1>1 DEF Put
  <2>2. PICK i \in DOMAIN queue : \/ queue[i] = [type |-> "Response", from |-> s]
                                  \/ queue[i] = [type |-> "RequestField", from |-> s]
    BY <2>1 DEF Put, Queued
  <2>3. i > k
    BY <1>1, <2>1, <2>2
  <2>4. i - k \in DOMAIN queue' /\ queue'[i - k] = queue[i]
    BY <1>1, <2>3
  <2> QED BY <2>2, <2>4 DEF Queued
<1> QED BY <1>2, <1>3, <1>4

\* What a run of the engine does to the duel of which w is what there was of it before.
Follows(w2, w, opens, turns) ==
  /\ w2.turn = TurnOf(w.turn, opens, turns)
  /\ w2.phase = PhaseOf(w.phase, opens, turns)
  /\ w2.reversed = DeckOf(w.reversed, turns)

\* Screens, the engine and reconnect take the same from it, and one of two things comes after.
Evolved(turns, s) ==
  LET opens == engine.turn = Nobody IN
  /\ attachment' \in Attachments /\ attachment'.known /\ Follows(attachment', attachment, opens, turns)
  /\ engine'.duel = engine.duel /\ Follows(engine', engine, opens, turns)
  /\ \A c \in All : /\ views'[c].role = views[c].role /\ views'[c].pos = views[c].pos
                    /\ Follows(views'[c], views[c], opens, turns)
  /\ \A c \in Clients \ All : views'[c] = views[c]
  /\ UNCHANGED <<observers, first, joined, requests>>
  /\ \/ /\ engine'.ended
        /\ Shift(queue, queue', 1, {[type |-> "RecreateDuel", duel |-> engine.duel + 1]})
        /\ UNCHANGED <<gate, last_response, last_select, questions>>
     \/ /\ ~engine'.ended
        /\ Shift(queue, queue', 1, {})
        /\ views'[s].prompt = questions + 1
        /\ questions' = questions + 1 /\ last_response' = s /\ last_select' = questions + 1
        /\ gate' = [gate EXCEPT ![s] = TRUE]

\* A run of the engine is one or the other.
LEMMA EvolveDoes ==
  ASSUME Types, OnEvolve
  PROVE  /\ 1 \in DOMAIN queue /\ queue[1].type = "Evolve" /\ ~engine.ended
         /\ \E turns \in BOOLEAN, s \in Seats : Evolved(turns, s)
<1>0. /\ TypeOK /\ views \in [Clients -> ViewTypes] /\ engine \in Engines /\ attachment \in Attachments
      /\ questions \in Nat /\ queue \in Seq(Requests)
  BY TypeIs DEF Types
<1>1. Receive("Evolve") /\ ~engine.ended
  BY DEF OnEvolve
<1>2. 1 \in DOMAIN queue /\ queue[1].type = "Evolve"
  BY <1>1, Receives
<1>3. PICK e \in Events, p \in Seats : Evolves(e, p)
  BY EvolveIs
<1> DEFINE opens == engine.turn = Nobody
           events == Run(opens, e)
           s == ToSeat(p)
           ends == engine.events + 1 = MaxEvents
<1>4. s \in Seats /\ All \in SUBSET Clients /\ opens \in BOOLEAN /\ ends \in BOOLEAN
  BY <1>0, WhoIsWho
<1> HIDE DEF opens
<1>5. /\ events \in Seq(Messages)
      /\ \E turns \in BOOLEAN :
           /\ \A v \in ViewTypes : After(v, events) = Moves(v, opens, turns)
           /\ \A d \in Engines : Telling(d, events) = Moves(d, opens, turns)
           /\ \A a \in Attachments : IsNoted(Noting(a, events), a, opens, turns)
  BY <1>4, EventsRun
<1>6. PICK turns \in BOOLEAN :
        /\ \A v \in ViewTypes : After(v, events) = Moves(v, opens, turns)
        /\ \A d \in Engines : Telling(d, events) = Moves(d, opens, turns)
        /\ \A a \in Attachments : IsNoted(Noting(a, events), a, opens, turns)
  BY <1>5
<1>7. /\ attachment' = Noting(attachment, events)
      /\ engine' = [Telling(engine, events) EXCEPT !.events = @ + 1, !.ended = ends]
      /\ IF ends
         THEN /\ Send(WinSends(events))
              /\ Done(<<[type |-> "RecreateDuel", duel |-> engine.duel + 1]>>)
              /\ UNCHANGED <<gate, last_response, last_select, questions>>
         ELSE /\ Send(AskSends(events, s, questions + 1))
              /\ questions' = questions + 1
              /\ last_response' = s
              /\ last_select' = questions + 1
              /\ gate' = [gate EXCEPT ![s] = TRUE]
              /\ Done(<<>>)
      /\ UNCHANGED <<observers, first, joined, requests>>
  BY <1>3 DEF Evolves, Done, opens
<1> HIDE DEF events, s, ends
<1>8. attachment' \in Attachments /\ attachment'.known /\ Follows(attachment', attachment, opens, turns)
  BY <1>0, <1>6, <1>7 DEF IsNoted, Follows
<1>9. engine'.duel = engine.duel /\ Follows(engine', engine, opens, turns) /\ engine'.ended = ends
  <2> DEFINE t == Telling(engine, events)
  <2>1. t \in Engines
    BY <1>0, <1>5, ToldOn
  <2>2. t = Moves(engine, opens, turns)
    BY <1>0, <1>6
  <2>3. t.duel = engine.duel /\ Follows(t, engine, opens, turns)
    BY <1>0, <1>4, <2>2, MovesEngine DEF Follows
  <2>4. engine' = [t EXCEPT !.events = @ + 1, !.ended = ends]
    BY <1>7
  <2> HIDE DEF t
  <2> QED BY <2>1, <2>3, <2>4 DEF Engines, Follows
<1>10. ASSUME NEW c \in Clients
       PROVE  /\ views[c] \in ViewTypes /\ After(views[c], events) \in ViewTypes
              /\ After(views[c], events).role = views[c].role
              /\ After(views[c], events).pos = views[c].pos
              /\ Follows(After(views[c], events), views[c], opens, turns)
  <2>1. views[c] \in ViewTypes
    BY <1>0
  <2>2. After(views[c], events) \in ViewTypes
    BY <1>5, <2>1, AfterOn
  <2>3. After(views[c], events) = Moves(views[c], opens, turns)
    BY <1>6, <2>1
  <2> QED BY <1>4, <2>1, <2>2, <2>3, MovesView DEF Follows
<1>11. ASSUME NEW v \in ViewTypes, NEW n
       PROVE  /\ [v EXCEPT !.prompt = n].role = v.role /\ [v EXCEPT !.prompt = n].pos = v.pos
              /\ [v EXCEPT !.prompt = n].turn = v.turn /\ [v EXCEPT !.prompt = n].phase = v.phase
              /\ [v EXCEPT !.prompt = n].reversed = v.reversed /\ [v EXCEPT !.prompt = n].prompt = n
  BY DEF ViewTypes
<1>12. CASE ends
  <2> DEFINE x == [type |-> "RecreateDuel", duel |-> engine.duel + 1]
  <2>1. x \in Requests
    <3>1. engine.duel \in Nat
      BY <1>0, EngineUpdates
    <3>2. engine.duel + 1 \in Nat \ {0}
      BY <3>1
    <3> QED BY <3>2, RequestsMade
  <2>2. Send(WinSends(events)) /\ Done(<<x>>) /\ UNCHANGED <<gate, last_response, last_select, questions>>
    BY <1>7, <1>12
  <2> HIDE DEF x
  <2>3. Shift(queue, queue', 1, {x})
    BY <1>1, <2>1, <2>2, Receives
  <2>4. /\ \A c \in All : views'[c] = [After(views[c], events) EXCEPT !.prompt = Nobody]
        /\ \A c \in Clients \ All : views'[c] = views[c]
    BY <1>0, <1>5, <2>2, WinSeen
  <2>5. ASSUME NEW c \in All
        PROVE  /\ views'[c].role = views[c].role /\ views'[c].pos = views[c].pos
               /\ Follows(views'[c], views[c], opens, turns)
    <3>1. c \in Clients
      BY <1>4
    <3>2. views'[c] = [After(views[c], events) EXCEPT !.prompt = Nobody]
      BY <2>4
    <3> QED BY <1>10, <1>11, <3>1, <3>2 DEF Follows
  <2>6. Evolved(turns, s)
    BY <1>7, <1>8, <1>9, <1>12, <2>2, <2>3, <2>4, <2>5 DEF Evolved, opens, x
  <2> QED BY <1>1, <1>2, <1>4, <2>6
<1>13. CASE ~ends
  <2>1. /\ Send(AskSends(events, s, questions + 1)) /\ Done(<<>>)
        /\ questions' = questions + 1 /\ last_response' = s /\ last_select' = questions + 1
        /\ gate' = [gate EXCEPT ![s] = TRUE]
    BY <1>7, <1>13
  <2>2. Shift(queue, queue', 1, {})
    BY <1>1, <2>1, Receives
  <2>3. questions + 1 \in Nat
    BY <1>0
  <2>4. /\ views'[s] = [After(views[s], events) EXCEPT !.prompt = questions + 1]
        /\ views'[Other(s)] = [After(views[Other(s)], events) EXCEPT !.prompt = Nobody]
        /\ \A c \in Observers : views'[c] = After(views[c], events)
        /\ \A c \in Clients \ All : views'[c] = views[c]
    BY <1>0, <1>4, <1>5, <2>1, <2>3, AskSeen
  <2>5. ASSUME NEW c \in All
        PROVE  /\ views'[c].role = views[c].role /\ views'[c].pos = views[c].pos
               /\ Follows(views'[c], views[c], opens, turns)
    <3>1. c \in Clients
      BY <1>4
    <3>2. c = s \/ c = Other(s) \/ c \in Observers
      BY <1>4 DEF All, Seats, Other
    <3>3. CASE c \in Observers
      BY <1>10, <2>4, <3>1, <3>3
    <3>4. CASE c = s
      <4>1. views'[c] = [After(views[c], events) EXCEPT !.prompt = questions + 1]
        BY <2>4, <3>4
      <4> QED BY <1>10, <1>11, <3>1, <4>1 DEF Follows
    <3>5. CASE c = Other(s)
      <4>1. views'[c] = [After(views[c], events) EXCEPT !.prompt = Nobody]
        BY <2>4, <3>5
      <4> QED BY <1>10, <1>11, <3>1, <4>1 DEF Follows
    <3> QED BY <3>2, <3>3, <3>4, <3>5
  <2>6. views'[s].prompt = questions + 1
    <3>1. s \in Clients
      BY <1>4 DEF Clients
    <3> QED BY <1>10, <1>11, <2>4, <3>1
  <2>7. Evolved(turns, s)
    BY <1>7, <1>8, <1>9, <1>13, <2>1, <2>2, <2>4, <2>5, <2>6 DEF Evolved, opens
  <2> QED BY <1>1, <1>2, <1>4, <2>7
<1> QED BY <1>4, <1>12, <1>13

\* Nobody has a question while something is under way.
LEMMA NobodyAsked ==
  ASSUME OneAtATime, NEW i \in DOMAIN queue, Work(queue[i])
  PROVE  \A s \in Seats : ~gate[s]
BY DEF OneAtATime

\* Without the work that was first in the mailbox there is none left.
LEMMA WorkDone ==
  ASSUME OneAtATime, NEW new, Shift(queue, queue', 1, new), 1 \in DOMAIN queue, Work(queue[1])
  PROVE  \A i \in DOMAIN queue' : Work(queue'[i]) => i = Len(queue) /\ queue'[i] \in new
<1>1. /\ DOMAIN queue = 1..Len(queue) /\ Len(queue) \in Nat /\ DOMAIN queue' \subseteq Nat \ {0}
      /\ \A i \in DOMAIN queue' : \/ i + 1 \in DOMAIN queue /\ queue'[i] = queue[i + 1]
                                  \/ i + 1 = Len(queue) + 1 /\ queue'[i] \in new
  BY DEF Shift
<1>2. SUFFICES ASSUME NEW i \in DOMAIN queue', Work(queue'[i]) PROVE i = Len(queue) /\ queue'[i] \in new
  OBVIOUS
<1>3. i \in Nat /\ i + 1 # 1
  BY <1>1
<1>4. ~(i + 1 \in DOMAIN queue /\ queue'[i] = queue[i + 1])
  BY <1>2, <1>3 DEF OneAtATime
<1> QED BY <1>1, <1>3, <1>4

\* Somebody who has asked for the field is not answered by a request of another kind.
LEMMA StillAsked ==
  ASSUME NEW s \in Seats, Begun, views[s].role = Nobody, Asked(s), NEW new,
         Shift(queue, queue', 1, new), queue[1].type # "RequestField"
  PROVE  /\ Queued([type |-> "RequestField", from |-> s])'
         /\ attachment'.known => \E i \in DOMAIN queue' :
              queue'[i] = [type |-> "RequestField", from |-> s] /\ Heard(i)'
<1>1. /\ DOMAIN queue = 1..Len(queue) /\ Len(queue) \in Nat
      /\ \A i \in DOMAIN queue : i > 1 => i - 1 \in DOMAIN queue' /\ queue'[i - 1] = queue[i]
  BY DEF Shift
<1>2. PICK i \in DOMAIN queue : queue[i] = [type |-> "RequestField", from |-> s]
  BY DEF Asked
<1>3. i > 1
  BY <1>1, <1>2
<1>4. i - 1 \in DOMAIN queue' /\ queue'[i - 1] = [type |-> "RequestField", from |-> s]
  BY <1>1, <1>2, <1>3
<1> QED BY <1>4 DEF Queued, Heard

\* Who watches: a client that has not got in yet is nowhere, the first duel begins with
\* nobody but the one who is there from the beginning.
Watching ==
  /\ observers[0] = OnTime
  /\ \A i, j \in DOMAIN queue :
       queue[i].type = "JoinGame" /\ queue[j].type = "JoinGame" /\ queue[i].client = queue[j].client
         => i = j
  /\ \A i \in DOMAIN queue :
       /\ queue[i].type = "JoinGame" => queue[i].client \in joined /\ queue[i].client \notin Observers
       /\ queue[i].type = "LeaveGame" => queue[i].key # 0
  /\ \A k \in Keys : observers[k] \in joined \cup {OnTime, Nobody}
  /\ ~Begun =>
       /\ queue # <<>> /\ queue[1].type = "DuelStart"
       /\ Observers = {OnTime}
       /\ masked_messages = <<Message("HsPlayerEnter", Nobody), Message("DuelStart", Nobody)>>

Duel == OneAtATime /\ WellNoted /\ Screens

\* What the clients do, and what the actor does without the engine.
LEMMA DuelQuiet ==
  ASSUME Types, Duel, NEW k, NEW new, Quiet(k, new), \A s \in Seats : views'[s] = views[s],
         k = 1 => queue[1].type \notin {"RequestField", "Response"}
  PROVE  Duel'
<1>1. OneAtATime' /\ WellNoted'
  BY QuietKeeps DEF Duel
<1>2. ASSUME NEW s \in Seats PROVE (Seen(s) /\ Asked(s) /\ Put(s))'
  <2>1. Seen(s) /\ Asked(s) /\ Put(s) /\ views'[s] = views[s]
    BY DEF Duel, Screens
  <2>2. /\ ~(k = 1 /\ queue[1] = [type |-> "RequestField", from |-> s])
        /\ ~(k = 1 /\ queue[1] = [type |-> "Response", from |-> s])
    OBVIOUS
  <2> QED BY <2>1, <2>2, StaysOnScreen
<1> QED BY <1>1, <1>2 DEF Duel, Screens

\* Answers, requests for the field and the comings and goings of those who watch.
LEMMA DuelClients ==
  ASSUME Types, Duel, \/ \E s \in Seats : PlayerAnswers(s) \/ PlayerReconnects(s)
                      \/ \E c \in Late : LateJoins(c)
                      \/ \E k \in Keys : LateLeaves(k)
  PROVE  Duel'
<1>0. TypeOK /\ views \in [Clients -> ViewTypes] /\ questions \in Nat /\ Nobody \notin Nat
  BY TypeIs, HistoryAssumption DEF Types
<1>1. ASSUME NEW x \in Requests, Post(x), ~Work(x),
             UNCHANGED <<engine, gate, last_response, last_select, questions, attachment, first>>
      PROVE  Quiet(0, {x}) /\ OneAtATime' /\ WellNoted' /\ (Evolving => Evolving') /\ Queued(x)'
             /\ \A i \in DOMAIN queue : i \in DOMAIN queue' /\ queue'[i] = queue[i]
  <2>1. Shift(queue, queue', 0, {x})
    BY <1>1, Posts
  <2>2. Quiet(0, {x})
    BY <1>1, <2>1 DEF Quiet
  <2>3. Queued(x)'
    BY <2>1 DEF Shift, Queued
  <2>4. \A i \in DOMAIN queue : i \in DOMAIN queue' /\ queue'[i] = queue[i]
    BY <2>1 DEF Shift
  <2> QED BY <2>2, <2>3, <2>4, QuietKeeps DEF Duel
<1>2. ASSUME NEW s \in Seats, PlayerAnswers(s) PROVE Duel'
  <2> DEFINE x == [type |-> "Response", from |-> s]
  <2>1. x \in Requests /\ ~Work(x)
    BY RequestsMade DEF Work
  <2>2. Post(x) /\ views' = [views EXCEPT ![s].prompt = Nobody] /\ UNCHANGED <<Server, joined, requests>>
    BY <1>2 DEF PlayerAnswers
  <2> HIDE DEF x
  <2>3. /\ Quiet(0, {x}) /\ OneAtATime' /\ WellNoted' /\ Queued(x)'
        /\ \A i \in DOMAIN queue : i \in DOMAIN queue' /\ queue'[i] = queue[i]
    BY <1>1, <2>1, <2>2 DEF Server
  <2>4. ASSUME NEW t \in Seats, t # s PROVE (Seen(t) /\ Asked(t) /\ Put(t))'
    <3>1. views'[t] = views[t]
      BY <1>0, <2>2, <2>4 DEF Clients
    <3>2. Seen(t) /\ Asked(t) /\ Put(t)
      BY DEF Duel, Screens
    <3>3. Quiet(0, {x}) /\ 0 # 1
      BY <2>3
    <3> QED BY ONLY <3>1, <3>2, <3>3, StaysOnScreen
  <2>5. (Seen(s) /\ Asked(s) /\ Put(s))'
    <3>1. /\ views'[s].role = views[s].role /\ views'[s].turn = views[s].turn
          /\ views'[s].phase = views[s].phase /\ views'[s].reversed = views[s].reversed
      BY <1>0, <2>2 DEF Clients, ViewTypes
    <3>2. Put(s)'
      BY <2>3 DEF Put, x
    <3>3. Seen(s)'
      BY <2>2, <3>1 DEF Duel, Screens, Seen, ToCore, Server
    <3>4. Asked(s)'
      <4>1. SUFFICES ASSUME Begun, views[s].role = Nobody
                     PROVE  \E i \in DOMAIN queue' :
                              queue'[i] = [type |-> "RequestField", from |-> s] /\ Heard(i)'
        BY <2>2, <3>1 DEF Asked, Begun, Server
      <4>2. PICK i \in DOMAIN queue : queue[i] = [type |-> "RequestField", from |-> s] /\ Heard(i)
        BY <4>1 DEF Duel, Screens, Asked
      <4>3. Heard(i)'
        BY <2>2, <2>3, <4>2 DEF Heard, Server
      <4> QED BY <2>3, <4>2, <4>3
    <3> QED BY <3>2, <3>3, <3>4
  <2> QED BY <2>3, <2>4, <2>5 DEF Duel, Screens
<1>3. ASSUME NEW s \in Seats, PlayerReconnects(s) PROVE Duel'
  <2> DEFINE x == [type |-> "RequestField", from |-> s]
  <2>1. x \in Requests /\ ~Work(x)
    BY RequestsMade DEF Work
  <2>2. Post(x) /\ views' = [views EXCEPT ![s] = Blank] /\ UNCHANGED <<Server, joined>>
    BY <1>3 DEF PlayerReconnects
  <2> HIDE DEF x
  <2>3. Quiet(0, {x}) /\ OneAtATime' /\ WellNoted' /\ Queued(x)'
    BY <1>1, <2>1, <2>2 DEF Server
  <2>4. ASSUME NEW t \in Seats, t # s PROVE (Seen(t) /\ Asked(t) /\ Put(t))'
    <3>1. views'[t] = views[t]
      BY <1>0, <2>2, <2>4 DEF Clients
    <3>2. Seen(t) /\ Asked(t) /\ Put(t)
      BY DEF Duel, Screens
    <3>3. Quiet(0, {x}) /\ 0 # 1
      BY <2>3
    <3> QED BY ONLY <3>1, <3>2, <3>3, StaysOnScreen
  <2>5. (Seen(s) /\ Asked(s) /\ Put(s))'
    <3>1. views'[s].role = Nobody
      BY <1>0, <2>2 DEF Clients, Blank
    <3>2. Put(s)'
      BY <2>3 DEF Put, x
    <3>3. Seen(s)'
      BY <3>1 DEF Seen
    <3>4. Asked(s)'
      <4>1. PICK n \in Nat :
              /\ DOMAIN queue = 1..Len(queue) /\ n = Len(queue) + 1
              /\ n \in DOMAIN queue' /\ queue'[n] = x
              /\ \A i \in DOMAIN queue : i \in DOMAIN queue' /\ queue'[i] = queue[i]
        BY <2>3 DEF Quiet, Shift
      <4>2. SUFFICES ASSUME Begun PROVE Heard(n)'
        BY <2>2, <4>1 DEF Asked, Begun, Server, x
      <4>3. CASE attachment.known
        BY <2>2, <4>3 DEF Heard, Server
      <4>4. CASE ~attachment.known
        <5>1. PICK j \in DOMAIN queue : queue[j].type = "Evolve"
          BY <4>2, <4>4 DEF Duel, WellNoted, Evolving
        <5>2. j < n
          BY <4>1
        <5> QED BY <4>1, <5>1, <5>2 DEF Heard
      <4> QED BY <4>3, <4>4
    <3> QED BY <3>2, <3>3, <3>4
  <2> QED BY <2>3, <2>4, <2>5 DEF Duel, Screens
<1>4. ASSUME NEW c \in Late, LateJoins(c) PROVE Duel'
  <2> DEFINE x == [type |-> "JoinGame", client |-> c]
  <2>1. x \in Requests /\ ~Work(x)
    BY RequestsMade DEF Work
  <2>2. Post(x) /\ UNCHANGED <<Server, views, requests>>
    BY <1>4 DEF LateJoins
  <2> HIDE DEF x
  <2>3. Quiet(0, {x})
    BY <1>1, <2>1, <2>2 DEF Server
  <2> QED BY <2>2, <2>3, DuelQuiet
<1>5. ASSUME NEW k \in Keys, LateLeaves(k) PROVE Duel'
  <2> DEFINE x == [type |-> "LeaveGame", key |-> k]
  <2>1. x \in Requests /\ ~Work(x)
    BY RequestsMade DEF Work
  <2>2. Post(x) /\ UNCHANGED <<Server, views, joined, requests>>
    BY <1>5 DEF LateLeaves
  <2> HIDE DEF x
  <2>3. Quiet(0, {x})
    BY <1>1, <2>1, <2>2 DEF Server
  <2> QED BY <2>2, <2>3, DuelQuiet
<1> QED BY <1>2, <1>3, <1>4, <1>5

\* The actor with the engine, with an answer, between two duels, and with a player who asks
\* for the field.
LEMMA DuelActor ==
  ASSUME Types, Duel, Watching, Actor, masked_messages \in Records
  PROVE  Duel'
<1>0. /\ TypeOK /\ views \in [Clients -> ViewTypes] /\ questions \in Nat /\ Nobody \notin Nat
      /\ Nobody \notin Seats /\ gate \in [Seats -> BOOLEAN] /\ Seats \subseteq Clients
      /\ engine \in Engines /\ attachment \in Attachments /\ first \in Seats
  BY TypeIs, HistoryAssumption, WhoIsWho DEF Types
<1>a. OneAtATime /\ WellNoted /\ \A s \in Seats : Seen(s) /\ Asked(s) /\ Put(s)
  BY DEF Duel, Screens
<1>b. queue # <<>> /\ queue[1].type # "DuelStart" => Begun
  BY DEF Watching
<1>1. CASE OnJoinGame
  <2>1. Receive("JoinGame") /\ UNCHANGED <<first, last_response, last_select, gate, attachment, engine, questions,
                                          joined, requests>>
    BY <1>1 DEF OnJoinGame
  <2>2. Request \in Requests /\ Request = queue[1] /\ queue[1].type = "JoinGame" /\ Request.client \in Late
    BY <2>1, Receives, RequestFields DEF Receive
  <2>3. PICK k \in Keys :
          /\ observers' = [observers EXCEPT ![k] = Request.client]
          /\ Send(JoinSends(Request.client, k))
          /\ Done(<<[type |-> "soumatou", key |-> k]>>)
    BY <1>1 DEF OnJoinGame, JoinSends
  <2> DEFINE x == [type |-> "soumatou", key |-> k]
  <2>4. x \in Requests /\ ~Work(x) /\ Done(<<x>>)
    BY <2>3, RequestsMade DEF Work
  <2> HIDE DEF x
  <2>5. Shift(queue, queue', 1, {x})
    BY <2>1, <2>4, Receives
  <2>6. Quiet(1, {x})
    BY <2>1, <2>2, <2>4, <2>5 DEF Quiet, Work
  <2>7. \A s \in Seats : views'[s] = views[s]
    <3>1. \A y \in Clients \ {Request.client} : views'[y] = views[y]
      BY <1>0, <2>2, <2>3, JoinSeen
    <3>2. Request.client \notin Seats
      BY <1>0, <2>2, WhoIsWho
    <3> QED BY <1>0, <3>1, <3>2
  <2> QED BY <2>2, <2>6, <2>7, DuelQuiet
<1>2. CASE OnLeaveGame
  <2>1. /\ Receive("LeaveGame") /\ Done(<<>>)
        /\ UNCHANGED <<masked_messages, first, last_response, last_select, gate, attachment, engine,
                       questions, views, joined, requests>>
    BY <1>2 DEF OnLeaveGame
  <2>2. Shift(queue, queue', 1, {}) /\ queue[1].type = "LeaveGame"
    BY <2>1, Receives
  <2>3. Quiet(1, {})
    BY <2>1, <2>2 DEF Quiet, Work
  <2> QED BY <2>1, <2>2, <2>3, DuelQuiet
<1>3. CASE OnSoumatou
  <2> DEFINE c == observers[Request.key]
  <2>1. /\ Receive("soumatou") /\ Done(<<>>)
        /\ views' = IF c = Nobody THEN views
                    ELSE [views EXCEPT ![c] = Replay(@, FromDuelStart(masked_messages))]
        /\ UNCHANGED <<masked_messages, observers, first, last_response, last_select, gate, attachment,
                       engine, questions, joined, requests>>
    BY <1>3 DEF OnSoumatou
  <2>2. Shift(queue, queue', 1, {}) /\ Request \in Requests /\ Request = queue[1] /\ queue[1].type = "soumatou"
    BY <2>1, Receives
  <2>3. c \notin Seats
    <3>1. Request.key \in Keys
      BY <2>2, RequestFields
    <3>2. observers \in [Keys -> Watchers \cup {Nobody}]
      BY <1>0 DEF TypeOK
    <3> QED BY <1>0, <3>1, <3>2, WhoIsWho DEF Watchers
  <2>4. Quiet(1, {})
    BY <2>1, <2>2 DEF Quiet, Work
  <2> HIDE DEF c
  <2>5. \A s \in Seats : views'[s] = views[s]
    BY <1>0, <2>1, <2>3
  <2> QED BY <2>2, <2>4, <2>5, DuelQuiet
<1>4. CASE OnDuelStart
  <2>1. /\ Receive("DuelStart") /\ Done(<<[type |-> "Evolve"]>>)
        /\ first' = FirstAttacker[Request.duel]
        /\ engine' = [NewEngine EXCEPT !.duel = Request.duel]
        /\ Send(StartSends(first'))
        /\ UNCHANGED <<observers, last_response, last_select, gate, attachment, questions, joined,
                       requests>>
    BY <1>4 DEF OnDuelStart, StartSends, CoreOf
  <2> DEFINE x == [type |-> "Evolve"]
  <2>2. x \in Requests /\ x.type = "Evolve" /\ Done(<<x>>)
    BY <2>1, RequestsMade
  <2> HIDE DEF x
  <2>3. /\ Shift(queue, queue', 1, {x}) /\ 1 \in DOMAIN queue /\ queue[1].type = "DuelStart" /\ Request = queue[1]
        /\ Request \in Requests
    BY <2>1, <2>2, Receives
  <2>4. Work(queue[1]) /\ \A s \in Seats : ~gate[s]
    BY <1>a, <2>3, NobodyAsked DEF Work
  <2>5. \A i \in DOMAIN queue' : Work(queue'[i]) => i = Len(queue) /\ queue'[i] \in {x}
    BY <1>a, <2>3, <2>4, WorkDone
  <2>6. engine'.turn = Nobody /\ engine'.reversed = FALSE /\ ~engine'.ended
    BY <2>1 DEF NewEngine
  <2>7. first' \in Seats
    <3>1. Types'
      BY <1>4, TypesActor DEF Actor
    <3> QED BY <3>1 DEF Types, TypeOK
  <2>8. \A s \in Seats : views'[s] = [Blank EXCEPT !.role = CoreOf(first', s), !.pos = views[s].pos]
    BY <1>0, <2>1, <2>7, StartSeen
  <2>9. OneAtATime'
    <3>1. \A i, j \in DOMAIN queue' : Work(queue'[i]) /\ Work(queue'[j]) => i = j
      BY <2>5
    <3>2. \A i \in DOMAIN queue' : Work(queue'[i]) => queue'[i].type = "Evolve"
      BY <2>2, <2>5
    <3>3. \A s \in Seats : ~gate'[s]
      BY <2>1, <2>4
    <3> QED BY <1>a, <2>1, <2>6, <3>1, <3>2, <3>3 DEF OneAtATime, Work
  <2>10. WellNoted'
    <3>1. ~attachment.reversed
      BY <1>a, <2>3 DEF WellNoted
    <3>2. Evolving'
      BY <2>2, <2>3 DEF Evolving, Shift
    <3>3. \A i \in DOMAIN queue' : queue'[i].type # "DuelStart"
      BY <2>2, <2>5 DEF Work
    <3> QED BY <2>1, <2>6, <3>1, <3>2, <3>3 DEF WellNoted
  <2>11. ASSUME NEW s \in Seats PROVE (Seen(s) /\ Asked(s) /\ Put(s))'
    <3>1. views'[s].role = CoreOf(first', s) /\ views'[s].reversed = FALSE
      BY <2>8 DEF Blank
    <3>2. CoreOf(first', s) = ToCore(s)' /\ CoreOf(first', s) # Nobody
      BY <1>0, <2>7 DEF CoreOf, ToCore, Seats, Other
    <3>3. Seen(s)'
      BY <2>6, <3>1, <3>2 DEF Seen
    <3>4. Asked(s)'
      BY <3>1, <3>2 DEF Asked
    <3>5. Put(s)'
      BY <2>1, <2>4 DEF Put
    <3> QED BY <3>3, <3>4, <3>5
  <2> QED BY <2>9, <2>10, <2>11 DEF Duel, Screens
<1>5. CASE OnEvolve
  <2>1. 1 \in DOMAIN queue /\ queue[1].type = "Evolve" /\ ~engine.ended
    BY <1>5, EvolveDoes
  <2>2. PICK turns \in BOOLEAN, s \in Seats : Evolved(turns, s)
    BY <1>5, EvolveDoes
  <2> DEFINE opens == engine.turn = Nobody
  <2>3. Work(queue[1]) /\ \A t \in Seats : ~gate[t]
    BY <1>a, <2>1, NobodyAsked DEF Work
  <2>4. /\ attachment'.known /\ Follows(attachment', attachment, opens, turns)
        /\ engine'.duel = engine.duel /\ Follows(engine', engine, opens, turns)
        /\ \A t \in Seats : views'[t].role = views[t].role /\ Follows(views'[t], views[t], opens, turns)
        /\ first' = first
    BY <2>2 DEF Evolved, All
  <2>5. \/ /\ engine'.ended
           /\ Shift(queue, queue', 1, {[type |-> "RecreateDuel", duel |-> engine.duel + 1]})
           /\ UNCHANGED <<gate, last_response, last_select, questions>>
        \/ /\ ~engine'.ended
           /\ Shift(queue, queue', 1, {})
           /\ views'[s].prompt = questions + 1
           /\ questions' = questions + 1 /\ last_response' = s /\ last_select' = questions + 1
           /\ gate' = [gate EXCEPT ![s] = TRUE]
    BY <2>2 DEF Evolved
  <2>6. PICK new : /\ Shift(queue, queue', 1, new)
                   /\ \A x \in new : x.type = "RecreateDuel" /\ engine'.ended
    BY <2>5
  <2>7. \A i \in DOMAIN queue' : Work(queue'[i]) => i = Len(queue) /\ queue'[i] \in new
    BY <1>a, <2>1, <2>3, <2>6, WorkDone
  <2>8. engine'.turn # Nobody
    BY <1>0, <2>4 DEF Follows, TurnOf, Seats
  <2>9. \A t \in Seats : gate'[t] => /\ t = s /\ ~engine'.ended /\ last_response' = s
                                     /\ views'[s].prompt = questions'
    BY <1>0, <2>3, <2>5
  <2>10. OneAtATime'
    <3>1. \A i, j \in DOMAIN queue' : Work(queue'[i]) /\ Work(queue'[j]) => i = j
      BY <2>7
    <3>2. \A i \in DOMAIN queue' : Work(queue'[i]) => queue'[i].type = "RecreateDuel" /\ engine'.ended
      BY <2>6, <2>7
    <3>3. last_response' # Nobody => last_select' = questions'
      BY <1>a, <2>5 DEF OneAtATime
    <3>4. \A i \in DOMAIN queue' : /\ queue'[i].type \in {"DuelStart", "RecreateDuel"} => engine'.ended
                                   /\ queue'[i].type # "Evolve"
      BY <3>2 DEF Work
    <3>5. \A t \in Seats : gate'[t] => \A i \in DOMAIN queue' : ~Work(queue'[i])
      BY <2>9, <3>2
    <3> QED BY <2>8, <2>9, <3>1, <3>3, <3>4, <3>5 DEF OneAtATime
  <2>11. WellNoted'
    <3>1. \A i \in DOMAIN queue' : queue'[i].type # "DuelStart"
      BY <2>6, <2>7 DEF Work
    <3>2. <<attachment'.turn, attachment'.phase, attachment'.reversed>>
            = <<engine'.turn, engine'.phase, engine'.reversed>>
      <4>1. CASE opens
        <5>1. ~engine.reversed /\ ~attachment.reversed
          BY <1>a, <2>1, <4>1 DEF WellNoted
        <5>2. engine.reversed = attachment.reversed
          BY <1>0, <5>1 DEF Engines, Attachments
        <5> QED BY <2>4, <4>1, <5>2 DEF Follows, TurnOf, PhaseOf, DeckOf
      <4>2. CASE ~opens
        <5>1. attachment.turn = engine.turn /\ attachment.phase = engine.phase /\ attachment.reversed = engine.reversed
          BY <1>a, <2>1, <4>2 DEF WellNoted
        <5> QED BY <2>4, <5>1 DEF Follows, TurnOf, PhaseOf, DeckOf
      <4> QED BY <4>1, <4>2
    <3> QED BY <2>4, <2>8, <3>1, <3>2 DEF WellNoted
  <2>12. ASSUME NEW t \in Seats PROVE (Seen(t) /\ Asked(t) /\ Put(t))'
    <3>1. Seen(t)'
      <4>1. SUFFICES ASSUME views[t].role # Nobody
                     PROVE  /\ views'[t].role = ToCore(t)
                            /\ views'[t].reversed = engine'.reversed
                            /\ <<views'[t].turn, views'[t].phase>> = <<engine'.turn, engine'.phase>>
        BY <2>4 DEF Seen, ToCore
      <4>2. /\ views[t].role = ToCore(t) /\ views[t].reversed = engine.reversed
            /\ engine.turn # Nobody => views[t].turn = engine.turn /\ views[t].phase = engine.phase
        BY <1>a, <2>1, <4>1 DEF Seen
      <4>3. CASE opens
        BY <2>4, <4>2, <4>3 DEF Follows, TurnOf, PhaseOf, DeckOf
      <4>4. CASE ~opens
        BY <2>4, <4>2, <4>4 DEF Follows, TurnOf, PhaseOf, DeckOf
      <4> QED BY <4>3, <4>4
    <3>2. Asked(t)'
      <4>1. SUFFICES ASSUME Begun, views[t].role = Nobody
                     PROVE  \E i \in DOMAIN queue' :
                              queue'[i] = [type |-> "RequestField", from |-> t] /\ Heard(i)'
        BY <2>4 DEF Asked, Begun
      <4> QED BY <1>a, <2>1, <2>4, <2>6, <4>1, StillAsked
    <3>3. Put(t)'
      BY <2>9 DEF Put
    <3> QED BY <3>1, <3>2, <3>3
  <2> QED BY <2>10, <2>11, <2>12 DEF Duel, Screens
<1>6. CASE OnRetry
  <2>1. /\ Receive("Evolve") /\ Done(<<>>) /\ ~engine.ended /\ last_response # Nobody /\ engine.turn # Nobody
        /\ engine' = [engine EXCEPT !.retries = @ + 1]
        /\ gate' = [gate EXCEPT ![last_response] = TRUE]
        /\ Send(RetrySends(last_response, last_select))
        /\ UNCHANGED <<observers, first, last_response, last_select, attachment, questions, joined,
                       requests>>
    BY <1>6 DEF OnRetry, RetrySends
  <2>2. /\ Shift(queue, queue', 1, {}) /\ 1 \in DOMAIN queue /\ queue[1].type = "Evolve" /\ queue # <<>>
    BY <2>1, Receives DEF Receive
  <2>3. Work(queue[1]) /\ Begun /\ \A t \in Seats : ~gate[t]
    BY <1>a, <1>b, <2>2, NobodyAsked DEF Work
  <2>4. \A i \in DOMAIN queue' : ~Work(queue'[i])
    BY <1>a, <2>2, <2>3, WorkDone
  <2>5. /\ last_response \in Seats /\ last_select \in Nat \cup {Nobody} /\ last_select = questions
        /\ Other(last_response) \in Seats /\ Other(last_response) # last_response
    BY <1>0, <1>a, <2>1, TypeIs DEF Places, OneAtATime, Other, Seats
  <2>6. /\ engine'.duel = engine.duel /\ engine'.turn = engine.turn /\ engine'.phase = engine.phase
        /\ engine'.reversed = engine.reversed /\ engine'.ended = engine.ended
    BY <1>0, <2>1 DEF Engines
  <2>7. /\ views'[last_response] = IF views[last_response].role \in Seats
                                   THEN [views[last_response] EXCEPT !.prompt = last_select]
                                   ELSE views[last_response]
        /\ views'[Other(last_response)] = [views[Other(last_response)] EXCEPT !.prompt = Nobody]
    BY <1>0, <2>1, <2>5, RetrySeen
  <2>8. \A t \in Seats : gate'[t] => t = last_response
    BY <1>0, <2>1, <2>3, <2>5
  <2>9. attachment.known
    BY <1>a, <2>1 DEF WellNoted
  <2>10. OneAtATime'
    <3>1. \A i \in DOMAIN queue' : queue'[i].type \notin {"DuelStart", "RecreateDuel", "Evolve"}
      BY <2>4 DEF Work
    <3> QED BY <2>1, <2>4, <2>5, <2>6, <2>8, <3>1 DEF OneAtATime
  <2>11. WellNoted'
    <3>1. \A i \in DOMAIN queue' : queue'[i].type # "DuelStart"
      BY <2>4 DEF Work
    <3> QED BY <1>a, <2>1, <2>6, <2>9, <3>1 DEF WellNoted
  <2>12. ASSUME NEW t \in Seats PROVE (Seen(t) /\ Asked(t) /\ Put(t))'
    <3>1. /\ views'[t].role = views[t].role /\ views'[t].turn = views[t].turn
          /\ views'[t].phase = views[t].phase /\ views'[t].reversed = views[t].reversed
      <4> DEFINE v == views[t]
      <4>1. v \in ViewTypes
        BY <1>0
      <4>2. views'[t] = v \/ views'[t] = [v EXCEPT !.prompt = last_select] \/ views'[t] = [v EXCEPT !.prompt = Nobody]
        <5>1. t = last_response \/ t = Other(last_response)
          BY <2>5 DEF Seats, Other
        <5> QED BY <2>7, <5>1
      <4> HIDE DEF v
      <4>3. views'[t].role = v.role /\ views'[t].turn = v.turn /\ views'[t].phase = v.phase /\ views'[t].reversed = v.reversed
        BY <4>1, <4>2 DEF ViewTypes
      <4> QED BY <4>3 DEF v
    <3>2. Seen(t)'
      BY <1>a, <2>1, <2>6, <3>1 DEF Seen, ToCore
    <3>3. Asked(t)'
      <4>1. SUFFICES ASSUME Begun, views[t].role = Nobody
                     PROVE  \E i \in DOMAIN queue' :
                              queue'[i] = [type |-> "RequestField", from |-> t] /\ Heard(i)'
        BY <2>6, <3>1 DEF Asked, Begun
      <4> QED BY <1>a, <2>1, <2>2, <2>9, <4>1, StillAsked
    <3>4. Put(t)'
      <4>1. SUFFICES ASSUME t = last_response
                     PROVE  \/ views'[t].prompt = questions'
                            \/ Queued([type |-> "RequestField", from |-> t])'
        BY <2>8 DEF Put
      <4>2. CASE views[t].role = Nobody
        BY <1>a, <2>2, <2>3, <4>2, StillAsked
      <4>3. CASE views[t].role # Nobody
        <5>1. views[t].role \in Seats
          <6>1. views[t].role = ToCore(t)
            BY <1>a, <2>1, <4>3 DEF Seen
          <6> QED BY <1>0, <6>1, WhoIsWho
        <5>2. views'[t] = [views[t] EXCEPT !.prompt = last_select]
          BY <2>7, <4>1, <5>1
        <5>3. views[t] \in ViewTypes
          BY <1>0
        <5> QED BY <2>1, <2>5, <5>2, <5>3 DEF ViewTypes
      <4> QED BY <4>2, <4>3
    <3> QED BY <3>2, <3>3, <3>4
  <2> QED BY <2>10, <2>11, <2>12 DEF Duel, Screens
<1>7. CASE OnResponse
  <2>1. /\ Receive("Response")
        /\ UNCHANGED <<masked_messages, observers, first, last_response, last_select, attachment, engine,
                       questions, views, joined, requests>>
    BY <1>7 DEF OnResponse
  <2>2. /\ 1 \in DOMAIN queue /\ queue[1].type = "Response" /\ Request = queue[1] /\ Request.from \in Seats
    BY <2>1, Receives, RequestFields
  <2>3. CASE gate[Request.from] /\ ~engine.ended
    <3> DEFINE x == [type |-> "Evolve"]
    <3>1. x \in Requests /\ x.type = "Evolve" /\ Done(<<x>>) /\ gate' = [gate EXCEPT ![Request.from] = FALSE]
      BY <1>7, <2>3, RequestsMade DEF OnResponse
    <3> HIDE DEF x
    <3>2. Shift(queue, queue', 1, {x})
      BY <2>1, <3>1, Receives
    <3>3. \A i \in DOMAIN queue : ~Work(queue[i])
      BY <1>a, <2>2, <2>3 DEF OneAtATime
    <3>4. \A t \in Seats : ~gate'[t]
      <4>1. last_response = Request.from
        BY <1>a, <2>2, <2>3 DEF OneAtATime
      <4>2. \A t \in Seats : gate[t] => t = Request.from
        BY <1>a, <4>1 DEF OneAtATime
      <4> QED BY <1>0, <2>2, <3>1, <4>2
    <3>5. \A i \in DOMAIN queue' : Work(queue'[i]) => i = Len(queue) /\ queue'[i] = x
      <4>1. /\ DOMAIN queue = 1..Len(queue) /\ Len(queue) \in Nat /\ DOMAIN queue' \subseteq Nat \ {0}
            /\ \A i \in DOMAIN queue' : \/ i + 1 \in DOMAIN queue /\ queue'[i] = queue[i + 1]
                                        \/ i + 1 = Len(queue) + 1 /\ queue'[i] \in {x}
        BY <3>2 DEF Shift
      <4>2. ASSUME NEW i \in DOMAIN queue', Work(queue'[i]) PROVE i + 1 = Len(queue) + 1 /\ queue'[i] = x
        BY <3>3, <4>1, <4>2
      <4>3. \A i \in DOMAIN queue' : i \in Nat
        BY <4>1
      <4> QED BY <4>1, <4>2, <4>3
    <3>6. OneAtATime'
      <4>1. \A i \in DOMAIN queue' : /\ queue'[i].type \notin {"DuelStart", "RecreateDuel"}
        BY <3>1, <3>5 DEF Work
      <4> QED BY <1>a, <2>1, <2>3, <3>4, <3>5, <4>1 DEF OneAtATime
    <3>7. WellNoted'
      <4>1. \A i \in DOMAIN queue' : queue'[i].type # "DuelStart"
        BY <3>1, <3>5 DEF Work
      <4>2. Evolving'
        BY <3>1, <3>2 DEF Shift, Evolving
      <4> QED BY <1>a, <2>1, <2>3, <4>1, <4>2 DEF WellNoted
    <3>8. ASSUME NEW t \in Seats PROVE (Seen(t) /\ Asked(t) /\ Put(t))'
      <4>1. Seen(t)'
        BY <1>a, <2>1 DEF Seen, ToCore
      <4>2. Put(t)'
        BY <3>4 DEF Put
      <4>3. Asked(t)'
        <5>1. SUFFICES ASSUME Begun, views[t].role = Nobody
                       PROVE  \E i \in DOMAIN queue' :
                                queue'[i] = [type |-> "RequestField", from |-> t] /\ Heard(i)'
          BY <2>1 DEF Asked, Begun
        <5>2. ~Evolving
          BY <3>3 DEF Evolving, Work
        <5>3. attachment.known
          BY <1>a, <5>1, <5>2 DEF WellNoted
        <5> QED BY <1>a, <2>1, <2>2, <3>2, <5>1, <5>3, StillAsked
      <4> QED BY <4>1, <4>2, <4>3
    <3> QED BY <3>6, <3>7, <3>8 DEF Duel, Screens
  <2>4. CASE ~(gate[Request.from] /\ ~engine.ended)
    <3>1. Done(<<>>) /\ UNCHANGED gate
      BY <1>7, <2>4 DEF OnResponse
    <3>2. Shift(queue, queue', 1, {})
      BY <2>1, <3>1, Receives
    <3>3. Quiet(1, {})
      BY <2>1, <2>2, <3>1, <3>2 DEF Quiet, Work
    <3>4. ~gate[Request.from]
      BY <1>a, <2>2, <2>4 DEF OneAtATime
    <3>5. ASSUME NEW s \in Seats PROVE (Seen(s) /\ Asked(s) /\ Put(s))'
      <4>1. Seen(s) /\ Asked(s) /\ Put(s) /\ views'[s] = views[s]
        BY <1>a, <2>1
      <4>2. queue[1] # [type |-> "RequestField", from |-> s]
        BY <2>2
      <4>3. queue[1] = [type |-> "Response", from |-> s] => ~gate[s]
        BY <2>2, <3>4
      <4> QED BY <3>3, <4>1, <4>2, <4>3, StaysOnScreen
    <3>6. OneAtATime' /\ WellNoted'
      BY <1>a, <3>3, QuietKeeps
    <3> QED BY <3>5, <3>6 DEF Duel, Screens
  <2> QED BY <2>3, <2>4
<1>8. CASE OnRecreateDuel
  <2>1. /\ Receive("RecreateDuel") /\ Request.duel <= MaxDuels
        /\ attachment' = Reset /\ gate' = [s \in Seats |-> FALSE]
        /\ Send(NextSends)
        /\ Done(<<[type |-> "DuelStart", duel |-> Request.duel]>>)
        /\ UNCHANGED <<observers, first, last_response, last_select, engine, questions, joined, requests>>
    BY <1>8 DEF OnRecreateDuel, NextSends
  <2>2. /\ 1 \in DOMAIN queue /\ queue[1].type = "RecreateDuel" /\ Request = queue[1] /\ Request.duel \in Nat \ {0}
    BY <2>1, Receives, RequestFields
  <2> DEFINE x == [type |-> "DuelStart", duel |-> Request.duel]
  <2>3. x \in Requests /\ x.type = "DuelStart" /\ Done(<<x>>)
    BY <2>1, <2>2, RequestsMade
  <2> HIDE DEF x
  <2>4. Shift(queue, queue', 1, {x})
    BY <2>1, <2>3, Receives
  <2>5. Work(queue[1]) /\ engine.ended
    BY <1>a, <2>2 DEF Work, OneAtATime
  <2>6. \A i \in DOMAIN queue' : Work(queue'[i]) => i = Len(queue) /\ queue'[i] \in {x}
    BY <1>a, <2>2, <2>4, <2>5, WorkDone
  <2>7. attachment'.known /\ ~attachment'.reversed
    BY <2>1 DEF Reset
  <2>8. \A s \in Seats : ~gate'[s]
    BY <2>1
  <2>9. \A c \in Clients : views'[c] = views[c]
    BY <1>0, <2>1, NextSeen
  <2>10. OneAtATime'
    <3>1. \A i, j \in DOMAIN queue' : Work(queue'[i]) /\ Work(queue'[j]) => i = j
      BY <2>6
    <3>2. \A i \in DOMAIN queue' : queue'[i].type # "Evolve"
      BY <2>3, <2>6 DEF Work
    <3> QED BY <1>a, <2>1, <2>5, <2>8, <3>1, <3>2 DEF OneAtATime
  <2>11. WellNoted'
    BY <2>1, <2>5, <2>7 DEF WellNoted
  <2>12. ASSUME NEW t \in Seats PROVE (Seen(t) /\ Asked(t) /\ Put(t))'
    <3>1. Seen(t)'
      BY <2>1, <2>5 DEF Seen
    <3>2. Put(t)'
      BY <2>8 DEF Put
    <3>3. Asked(t)'
      <4>1. views'[t] = views[t]
        BY <1>0, <2>9
      <4>2. SUFFICES ASSUME Begun, views[t].role = Nobody
                     PROVE  \E i \in DOMAIN queue' :
                              queue'[i] = [type |-> "RequestField", from |-> t] /\ Heard(i)'
        BY <2>1, <4>1 DEF Asked, Begun
      <4> QED BY <1>a, <2>2, <2>4, <2>7, <4>2, StillAsked
    <3> QED BY <3>1, <3>2, <3>3
  <2> QED BY <2>10, <2>11, <2>12 DEF Duel, Screens
<1>9. CASE OnRequestField
  <2>1. /\ Receive("RequestField") /\ Done(<<>>)
        /\ views' = IF attachment.known THEN [views EXCEPT ![Request.from] = After(@, Field(Request.from))] ELSE views
        /\ UNCHANGED <<masked_messages, observers, first, last_response, last_select, gate, attachment,
                       engine, questions, joined, requests>>
    BY <1>9 DEF OnRequestField, Field, Turn1, Deck, Repeat
  <2>a. PICK s \in Seats : s = Request.from
    BY <2>1, Receives, RequestFields
  <2>2. /\ Shift(queue, queue', 1, {}) /\ Request = queue[1] /\ queue[1].type = "RequestField"
        /\ queue[1].from = s
    BY <2>1, <2>a, Receives, RequestFields
  <2>3. Quiet(1, {})
    BY <2>1, <2>2 DEF Quiet, Work
  <2>4. OneAtATime' /\ WellNoted'
    BY <1>a, <2>3, QuietKeeps
  <2>5. views' = IF attachment.known THEN [views EXCEPT ![s] = After(views[s], Field(s))] ELSE views
    BY <2>1, <2>a
  <2>6. ASSUME NEW t \in Seats, t # s PROVE (Seen(t) /\ Asked(t) /\ Put(t))'
    <3>1. Seen(t) /\ Asked(t) /\ Put(t) /\ views'[t] = views[t]
      BY <1>0, <1>a, <2>5, <2>6
    <3>2. queue[1] # [type |-> "RequestField", from |-> t] /\ queue[1] # [type |-> "Response", from |-> t]
      BY <2>2, <2>6
    <3> QED BY <2>3, <3>1, <3>2, StaysOnScreen
  <2>7. (Seen(s) /\ Asked(s) /\ Put(s))'
    <3>2. CASE ~attachment.known
      <4>1. ~gate[s]
        BY <1>a, <3>2 DEF OneAtATime, WellNoted
      <4>2. Seen(s) /\ Asked(s) /\ Put(s) /\ views'[s] = views[s]
        BY <1>a, <2>5, <3>2
      <4>3. (Seen(s) /\ Asked(s) /\ Put(s))'
        BY <2>3, <3>2, <4>1, <4>2, StaysOnScreen
      <4> QED BY <4>3
    <3>3. CASE attachment.known
      <4>1. s \in Clients /\ views[s] \in ViewTypes
        BY <1>0
      <4>2. Restored(s, views'[s])
        <5>1. views'[s] = After(views[s], Field(s))
          BY <1>0, <2>5, <3>3, <4>1
        <5>2. Restored(s, After(views[s], Field(s)))
          BY <1>0, <4>1, FieldShown
        <5> QED BY <5>1, <5>2
      <4>3. ToCore(s) \in Seats
        BY <1>0, WhoIsWho
      <4>4. Seen(s)'
        <5>1. SUFFICES ASSUME ~engine.ended
                       PROVE  /\ views'[s].role = ToCore(s) /\ views'[s].reversed = engine.reversed
                              /\ engine.turn # Nobody => /\ views'[s].turn = engine.turn
                                                         /\ views'[s].phase = engine.phase
          BY <2>1 DEF Seen, ToCore
        <5>2. CASE engine.turn # Nobody
          <6>1. /\ attachment.turn = engine.turn /\ attachment.phase = engine.phase
                /\ attachment.reversed = engine.reversed
            BY <1>a, <5>1, <5>2 DEF WellNoted
          <6>2. engine.turn \in {0, 1}
            BY <1>0, <5>2 DEF Engines, Places, Seats
          <6> QED BY <4>2, <6>1, <6>2 DEF Restored
        <5>3. CASE engine.turn = Nobody
          <6>1. ~engine.reversed /\ ~attachment.reversed
            BY <1>a, <5>1, <5>3 DEF WellNoted
          <6>2. engine.reversed = attachment.reversed
            BY <1>0, <6>1 DEF Engines, Attachments
          <6> QED BY <4>2, <5>3, <6>2 DEF Restored
        <5> QED BY <5>2, <5>3
      <4>5. Asked(s)'
        BY <1>0, <4>2, <4>3 DEF Asked, Restored
      <4>6. Put(s)'
        <5>1. SUFFICES ASSUME gate[s] PROVE views'[s].prompt = questions
          BY <2>1 DEF Put
        <5>2. last_response = s /\ last_select = questions
          BY <1>0, <1>a, <5>1 DEF OneAtATime
        <5>3. AskedLast(s)
          BY <1>0, <5>2 DEF AskedLast
        <5> QED BY <4>2, <5>2, <5>3 DEF Restored
      <4>7. (Seen(s) /\ Asked(s) /\ Put(s))'
        BY <4>4, <4>5, <4>6
      <4> QED BY <4>7
    <3> QED BY <3>2, <3>3
  <2>8. \A t \in Seats : (Seen(t) /\ Asked(t) /\ Put(t))'
    BY <2>6, <2>7
  <2> QED BY <2>4, <2>8 DEF Duel, Screens
<1> QED BY <1>1, <1>2, <1>3, <1>4, <1>5, <1>6, <1>7, <1>8, <1>9 DEF Actor

-----------------------------------------------------------------------------
(* Those who watch.                                                         *)

\* The history tells what the one who was there from the beginning sees.
OnRecord ==
  /\ masked_messages \in Records
  /\ Begun => /\ Onlooker(views[OnTime])
              /\ \A v \in ViewTypes : Retold(v, masked_messages) = At(views[OnTime], v.pos)

\* c sees what he sees.
SameAs(c) == views[c] = At(views[OnTime], views[c].pos)
CaughtUp == \A k \in Keys : observers[k] \in Late /\ ~Replaying(k) => SameAs(observers[k])
Viewers == OnRecord /\ CaughtUp /\ PlaceKept /\ Watching

\* That is what CatchesUp says.
LEMMA CatchingUp ==
  ASSUME TypeOK
  PROVE  CaughtUp <=> CatchesUp
<1>1. views \in [Clients -> ViewTypes] /\ OnTime \in Clients /\ Late \subseteq Clients
  BY TypeIs DEF Clients, Watchers
<1>2. ASSUME NEW c \in Late
      PROVE  SameAs(c) <=> At(views[c], Nobody) = At(views[OnTime], Nobody)
  <2> DEFINE v == views[c]
             w == views[OnTime]
  <2>1. v \in ViewTypes /\ w \in ViewTypes
    BY <1>1
  <2> HIDE DEF v, w
  <2>2. Nobody \in PosSet /\ v.pos \in PosSet
    BY <2>1, AtFields DEF PosSet
  <2>3. /\ At(At(v, Nobody), v.pos) = v /\ At(At(w, Nobody), v.pos) = At(w, v.pos)
        /\ At(At(w, v.pos), Nobody) = At(w, Nobody)
    BY <2>1, <2>2, AtFields
  <2>4. v = At(w, v.pos) <=> At(v, Nobody) = At(w, Nobody)
    BY <2>3
  <2> QED BY <2>4 DEF SameAs, v, w
<1> QED BY <1>2 DEF CaughtUp, CatchesUp, At

\* Nothing that is put into the mailbox takes out of it a replay that is not its turn.
LEMMA ReplaysKept ==
  ASSUME NEW k, NEW new, Shift(queue, queue', k, new), k = 1 => queue[1].type # "soumatou"
  PROVE  \A key \in Keys : Replaying(key) => Replaying(key)'
<1>1. SUFFICES ASSUME NEW key \in Keys, NEW i \in DOMAIN queue, queue[i] = [type |-> "soumatou", key |-> key]
               PROVE  Replaying(key)'
  BY DEF Replaying
<1>2. i > k
  <2>1. k \in {0, 1} /\ i \in Nat \ {0} /\ (k = 1 => i # 1)
    BY <1>1 DEF Shift
  <2> QED BY <2>1
<1>3. i - k \in DOMAIN queue' /\ queue'[i - k] = queue[i]
  BY <1>2 DEF Shift
<1> QED BY <1>1, <1>3 DEF Replaying

\* Who has asked to watch, and is not seated yet.
Joining ==
  /\ \A i, j \in DOMAIN queue :
       queue[i].type = "JoinGame" /\ queue[j].type = "JoinGame" /\ queue[i].client = queue[j].client
         => i = j
  /\ \A i \in DOMAIN queue :
       /\ queue[i].type = "JoinGame" => queue[i].client \in joined /\ queue[i].client \notin Observers
       /\ queue[i].type = "LeaveGame" => queue[i].key # 0

\* It stays so, whatever is put into the mailbox or taken out of it.
LEMMA JoinsKept ==
  ASSUME Watching, NEW k, NEW new, Shift(queue, queue', k, new), joined \subseteq joined',
         \A i \in DOMAIN queue : i > k /\ queue[i].type = "JoinGame" => queue[i].client \notin Observers',
         \A x \in new : /\ x.type = "JoinGame" => /\ x.client \in joined' \ joined
                                                  /\ x.client \notin Observers'
                        /\ x.type = "LeaveGame" => x.key # 0
  PROVE  Joining'
<1>1. /\ k \in {0, 1} /\ DOMAIN queue = 1..Len(queue) /\ Len(queue) \in Nat /\ DOMAIN queue' \subseteq Nat \ {0}
      /\ \A i \in DOMAIN queue' : \/ i + k \in DOMAIN queue /\ queue'[i] = queue[i + k]
                                  \/ i + k = Len(queue) + 1 /\ queue'[i] \in new
  BY DEF Shift
<1>2. \A i, j \in DOMAIN queue' : i + k = j + k => i = j
  <2>1. k \in Nat /\ \A i \in DOMAIN queue' : i \in Nat
    BY <1>1
  <2> QED BY <2>1
<1>3. \A i \in DOMAIN queue' : i + k > k
  <2>1. k \in Nat /\ \A i \in DOMAIN queue' : i \in Nat \ {0}
    BY <1>1
  <2> QED BY <2>1
<1>4. \A i \in DOMAIN queue' :
        /\ queue'[i].type = "JoinGame" => queue'[i].client \in joined' /\ queue'[i].client \notin Observers'
        /\ queue'[i].type = "LeaveGame" => queue'[i].key # 0
  <2>1. SUFFICES ASSUME NEW i \in DOMAIN queue'
                 PROVE  /\ queue'[i].type = "JoinGame" => /\ queue'[i].client \in joined'
                                                          /\ queue'[i].client \notin Observers'
                        /\ queue'[i].type = "LeaveGame" => queue'[i].key # 0
    OBVIOUS
  <2>2. CASE i + k \in DOMAIN queue /\ queue'[i] = queue[i + k]
    BY <1>3, <2>2 DEF Watching
  <2>3. CASE queue'[i] \in new
    BY <2>3
  <2> QED BY <1>1, <2>2, <2>3
<1>5. \A i, j \in DOMAIN queue' :
        queue'[i].type = "JoinGame" /\ queue'[j].type = "JoinGame" /\ queue'[i].client = queue'[j].client
          => i = j
  <2>1. SUFFICES ASSUME NEW i \in DOMAIN queue', NEW j \in DOMAIN queue', queue'[i].type = "JoinGame",
                        queue'[j].type = "JoinGame", queue'[i].client = queue'[j].client
                 PROVE  i + k = j + k
    BY <1>2
  <2>2. CASE /\ i + k \in DOMAIN queue /\ queue'[i] = queue[i + k]
             /\ j + k \in DOMAIN queue /\ queue'[j] = queue[j + k]
    BY <2>1, <2>2 DEF Watching
  <2>3. CASE i + k \in DOMAIN queue /\ queue'[i] = queue[i + k] /\ queue'[j] \in new
    BY <2>1, <2>3 DEF Watching
  <2>4. CASE queue'[i] \in new /\ j + k \in DOMAIN queue /\ queue'[j] = queue[j + k]
    BY <2>1, <2>4 DEF Watching
  <2>5. CASE i + k = Len(queue) + 1 /\ j + k = Len(queue) + 1
    BY <2>5
  <2> QED BY <1>1, <2>2, <2>3, <2>4, <2>5
<1> QED BY <1>4, <1>5 DEF Joining

\* A step that nobody who watches notices.
LEMMA ViewersQuiet ==
  ASSUME Types, Viewers, NEW k, NEW new, Shift(queue, queue', k, new),
         k = 1 => queue[1].type \notin {"soumatou", "DuelStart"},
         UNCHANGED <<masked_messages, observers, engine>>, joined \subseteq joined',
         \A c \in Watchers : views'[c] = views[c],
         \A x \in new : /\ x.type = "JoinGame" => x.client \in joined' \ joined /\ x.client # OnTime
                        /\ x.type = "LeaveGame" => x.key # 0
  PROVE  Viewers'
<1>1. /\ observers \in [Keys -> Watchers \cup {Nobody}] /\ OnTime \in Watchers /\ Late \subseteq Watchers
      /\ queue \in Seq(Requests) /\ 0 \in Keys
  BY TypeIs, WhoIsWho DEF Types, Watchers
<1>2. OnRecord'
  BY <1>1 DEF Viewers, OnRecord, Begun
<1>3. CaughtUp'
  <2>1. \A key \in Keys : Replaying(key) => Replaying(key)'
    BY ReplaysKept
  <2>2. \A c \in Watchers : SameAs(c) => SameAs(c)'
    BY <1>1 DEF SameAs
  <2> QED BY <1>1, <2>1, <2>2 DEF Viewers, CaughtUp
<1>4. PlaceKept'
  BY <1>1 DEF Viewers, PlaceKept
<1>5. Observers' = Observers
  BY DEF Observers
<1>6. \A x \in new : x.type = "JoinGame" => x.client \notin Observers'
  BY <1>5 DEF Viewers, Watching, Observers
<1>7. Joining'
  <2>1. \A i \in DOMAIN queue : i > k /\ queue[i].type = "JoinGame" => queue[i].client \notin Observers'
    BY <1>5 DEF Viewers, Watching
  <2> QED BY <1>6, <2>1, JoinsKept DEF Viewers
<1>8. ~Begun' => /\ queue' # <<>> /\ queue'[1].type = "DuelStart"
                 /\ Observers' = {OnTime}
                 /\ masked_messages' = <<Message("HsPlayerEnter", Nobody), Message("DuelStart", Nobody)>>
  <2>1. SUFFICES ASSUME ~Begun PROVE queue' # <<>> /\ queue'[1].type = "DuelStart"
    BY <1>5 DEF Viewers, Watching, Begun
  <2>2. queue # <<>> /\ queue[1].type = "DuelStart"
    BY <2>1 DEF Viewers, Watching
  <2>3. 1 \in DOMAIN queue
    BY <1>1, <2>2, Boxes
  <2>4. k = 0
    BY <2>2 DEF Shift
  <2>5. 1 - k = 1 /\ 1 > k
    BY <2>4
  <2>6. 1 \in DOMAIN queue' /\ queue'[1] = queue[1]
    BY <2>3, <2>5 DEF Shift
  <2> QED BY <2>2, <2>6
<1>9. observers'[0] = OnTime /\ \A key \in Keys : observers'[key] \in joined' \cup {OnTime, Nobody}
  BY <1>1 DEF Viewers, Watching
<1>10. Watching'
  BY <1>7, <1>8, <1>9 DEF Watching, Joining
<1> QED BY <1>2, <1>3, <1>4, <1>10 DEF Viewers

\* Nothing that the clients do is noticed by those who watch.
LEMMA ViewersClients ==
  ASSUME Types, Viewers, \/ \E s \in Seats : PlayerAnswers(s) \/ PlayerReconnects(s)
                         \/ \E c \in Late : LateJoins(c)
                         \/ \E k \in Keys : LateLeaves(k)
  PROVE  Viewers'
<1>0. /\ TypeOK /\ views \in [Clients -> ViewTypes] /\ Watchers \subseteq Clients
      /\ \A s \in Seats : s \notin Watchers
  BY TypeIs, WhoIsWho DEF Types, Clients, Watchers
<1>1. ASSUME NEW s \in Seats, PlayerAnswers(s) PROVE Viewers'
  <2> DEFINE x == [type |-> "Response", from |-> s]
  <2>1. x \in Requests /\ x.type \notin {"JoinGame", "LeaveGame"}
    BY RequestsMade
  <2>2. Post(x) /\ views' = [views EXCEPT ![s].prompt = Nobody] /\ UNCHANGED <<Server, joined, requests>>
    BY <1>1 DEF PlayerAnswers
  <2> HIDE DEF x
  <2>3. Shift(queue, queue', 0, {x})
    BY <2>1, <2>2, Posts
  <2>4. \A c \in Watchers : views'[c] = views[c]
    BY <1>0, <2>2
  <2>5. UNCHANGED <<masked_messages, observers, engine>> /\ joined \subseteq joined'
    BY <2>2 DEF Server
  <2> QED BY <2>1, <2>3, <2>4, <2>5, ViewersQuiet
<1>2. ASSUME NEW s \in Seats, PlayerReconnects(s) PROVE Viewers'
  <2> DEFINE x == [type |-> "RequestField", from |-> s]
  <2>1. x \in Requests /\ x.type \notin {"JoinGame", "LeaveGame"}
    BY RequestsMade
  <2>2. Post(x) /\ views' = [views EXCEPT ![s] = Blank] /\ UNCHANGED <<Server, joined>>
    BY <1>2 DEF PlayerReconnects
  <2> HIDE DEF x
  <2>3. Shift(queue, queue', 0, {x})
    BY <2>1, <2>2, Posts
  <2>4. \A c \in Watchers : views'[c] = views[c]
    BY <1>0, <2>2
  <2>5. UNCHANGED <<masked_messages, observers, engine>> /\ joined \subseteq joined'
    BY <2>2 DEF Server
  <2> QED BY <2>1, <2>3, <2>4, <2>5, ViewersQuiet
<1>3. ASSUME NEW c \in Late, LateJoins(c) PROVE Viewers'
  <2> DEFINE x == [type |-> "JoinGame", client |-> c]
  <2>1. x \in Requests /\ x.type = "JoinGame" /\ x.client = c /\ c # OnTime
    BY RequestsMade, HistoryAssumption
  <2>2. /\ Post(x) /\ c \notin joined /\ joined' = joined \cup {c} /\ UNCHANGED <<Server, views, requests>>
    BY <1>3 DEF LateJoins
  <2> HIDE DEF x
  <2>3. Shift(queue, queue', 0, {x})
    BY <2>1, <2>2, Posts
  <2>4. \A z \in Watchers : views'[z] = views[z]
    BY <2>2
  <2>5. UNCHANGED <<masked_messages, observers, engine>> /\ joined \subseteq joined' /\ c \in joined' \ joined
    BY <2>2 DEF Server
  <2> QED BY <2>1, <2>3, <2>4, <2>5, ViewersQuiet
<1>4. ASSUME NEW k \in Keys, LateLeaves(k) PROVE Viewers'
  <2> DEFINE x == [type |-> "LeaveGame", key |-> k]
  <2>1. x \in Requests /\ x.type = "LeaveGame" /\ x.key = k
    BY RequestsMade
  <2>2. Post(x) /\ observers[k] \in Late /\ UNCHANGED <<Server, views, joined, requests>>
    BY <1>4 DEF LateLeaves
  <2> HIDE DEF x
  <2>3. Shift(queue, queue', 0, {x})
    BY <2>1, <2>2, Posts
  <2>4. k # 0
    BY <2>2, HistoryAssumption DEF Viewers, Watching
  <2>5. UNCHANGED <<masked_messages, observers, engine>> /\ joined \subseteq joined'
        /\ \A z \in Watchers : views'[z] = views[z]
    BY <2>2 DEF Server
  <2> QED BY <2>1, <2>3, <2>4, <2>5, ViewersQuiet
<1> QED BY <1>1, <1>2, <1>3, <1>4

\* Two lists, element by element.
LEMMA Elements ==
  ASSUME NEW B, NEW s \in Seq(B), NEW a \in B, NEW b \in B
  PROVE  /\ \A i \in DOMAIN (s \o <<a>>) :
              (i \in DOMAIN s /\ (s \o <<a>>)[i] = s[i]) \/ (s \o <<a>>)[i] = a
         /\ \A i \in DOMAIN (s \o <<a, b>>) :
              \/ i \in DOMAIN s /\ (s \o <<a, b>>)[i] = s[i]
              \/ (s \o <<a, b>>)[i] = a \/ (s \o <<a, b>>)[i] = b
<1>1. /\ s \o <<a>> = Append(s, a) /\ s \o <<a, b>> = Append(Append(s, a), b)
      /\ Append(s, a) \in Seq(B)
  BY Behind
<1>2. \A t \in Seq(B), x \in B : \A i \in DOMAIN Append(t, x) :
        (i \in DOMAIN t /\ Append(t, x)[i] = t[i]) \/ Append(t, x)[i] = x
  OBVIOUS
<1> DEFINE u == Append(s, a)
<1>3. u \in Seq(B) /\ \A i \in DOMAIN u : (i \in DOMAIN s /\ u[i] = s[i]) \/ u[i] = a
  BY <1>1, <1>2
<1> HIDE DEF u
<1>4. \A i \in DOMAIN Append(u, b) : (i \in DOMAIN u /\ Append(u, b)[i] = u[i]) \/ Append(u, b)[i] = b
  BY <1>2, <1>3
<1>5. \A i \in DOMAIN Append(u, b) :
        \/ i \in DOMAIN s /\ Append(u, b)[i] = s[i]
        \/ Append(u, b)[i] = a \/ Append(u, b)[i] = b
  BY <1>3, <1>4
<1> QED BY <1>1, <1>3, <1>5 DEF u

\* The news of the engine are for everybody.
LEMMA NewsPublic ==
  ASSUME NEW events \in Seq(Messages), NEW to \in SUBSET Clients, NEW who, who \subseteq to,
         \A i \in DOMAIN events : events[i].kind \in {"NewTurn", "NewPhase", "ReverseDeck"}
  PROVE  \A i \in DOMAIN News(events, to) : Public(News(events, to)[i], who)
<1>1. DOMAIN News(events, to) = DOMAIN events
  BY DEF News
<1>2. SUFFICES ASSUME NEW i \in DOMAIN events PROVE Public(News(events, to)[i], who)
  BY <1>1
<1>3. News(events, to)[i] = Sent(events[i].kind, events[i].arg, to)
  BY DEF News
<1>4. /\ Sent(events[i].kind, events[i].arg, to).recorded
      /\ Sent(events[i].kind, events[i].arg, to).message.kind = events[i].kind
      /\ Sent(events[i].kind, events[i].arg, to).to = to
  BY DEF Sent, Message
<1> QED BY <1>3, <1>4 DEF Public

\* What is sent is either for everybody who watches or for none of them.
Sorted(sends, who) ==
  sends \in Seq(Sends) /\ \A i \in DOMAIN sends : Public(sends[i], who) \/ Private(sends[i], who)

\* What is sent to late comers, after a refused answer and between two duels is sorted.
LEMMA SentSorted ==
  ASSUME TypeOK
  PROVE  /\ \A c \in Late, k \in Keys : c \notin Observers => Sorted(JoinSends(c, k), Observers)
         /\ \A s \in Seats, id \in Nat \cup {Nobody} : Sorted(RetrySends(s, id), Observers)
         /\ Sorted(NextSends, Observers)
<1>0. Observers \in SUBSET Clients /\ Observers \cap Seats = {} /\ AllPlayer \in SUBSET Clients
  BY WhoIsWho DEF AllPlayer
<1>1. ASSUME NEW c \in Late, NEW k \in Keys, c \notin Observers PROVE Sorted(JoinSends(c, k), Observers)
  <2> DEFINE a == Sent("JoinGame", Nobody, {c})
             b == Sent("TypeChange", k, {c})
  <2>1. Message("JoinGame", Nobody) \in Messages /\ Message("TypeChange", k) \in Messages
    BY MessagesMade DEF Plain, Silent
  <2>2. /\ a \in Sends /\ a.to = {c} /\ a.message.kind = "JoinGame"
        /\ b \in Sends /\ b.to = {c} /\ b.message.kind = "TypeChange"
    BY <2>1, SentIs, WhoIsWho
  <2> HIDE DEF a, b
  <2>3. Private(a, Observers) /\ Private(b, Observers)
    BY <1>1, <2>2 DEF Private, Directed
  <2>4. JoinSends(c, k) = <<a, b>>
    BY DEF JoinSends, a, b
  <2>5. <<a, b>> \in Seq(Sends) /\ \A i \in DOMAIN <<a, b>> : Private(<<a, b>>[i], Observers)
    BY <2>2, <2>3
  <2> QED BY <2>4, <2>5 DEF Sorted
<1>2. ASSUME NEW s \in Seats, NEW id \in Nat \cup {Nobody} PROVE Sorted(RetrySends(s, id), Observers)
  <2> DEFINE a == Sent("Waiting", Nobody, {Other(s)})
             b == Sent("Retry", id, {s})
  <2>1. /\ Message("Waiting", Nobody) \in Messages /\ Message("Retry", id) \in Messages
        /\ {Other(s)} \in SUBSET Clients /\ {s} \in SUBSET Clients /\ Other(s) \in Seats
    BY MessagesMade, WhoIsWho DEF Plain
  <2>2. /\ a \in Sends /\ a.to = {Other(s)} /\ a.message.kind = "Waiting"
        /\ b \in Sends /\ b.to = {s} /\ b.message.kind = "Retry"
    BY <2>1, SentIs
  <2> HIDE DEF a, b
  <2>3. Private(a, Observers) /\ Private(b, Observers)
    BY <1>0, <2>1, <2>2 DEF Private
  <2>4. RetrySends(s, id) = <<a, b>>
    BY DEF RetrySends, a, b
  <2>5. <<a, b>> \in Seq(Sends) /\ \A i \in DOMAIN <<a, b>> : Private(<<a, b>>[i], Observers)
    BY <2>2, <2>3
  <2> QED BY <2>4, <2>5 DEF Sorted
<1>3. Sorted(NextSends, Observers)
  <2> DEFINE a == Sent("ChangeSide", Nobody, AllPlayer)
             b == Sent("WaitingSide", Nobody, Observers)
             c0 == Sent("DuelStart", Nobody, {0})
             c1 == Sent("DuelStart", Nobody, {1})
  <2>1. /\ Message("ChangeSide", Nobody) \in Messages /\ Message("WaitingSide", Nobody) \in Messages
        /\ Message("DuelStart", Nobody) \in Messages
        /\ {0} \in SUBSET Clients /\ {1} \in SUBSET Clients /\ 0 \in Seats /\ 1 \in Seats
    BY MessagesMade, WhoIsWho DEF Plain, Silent, Seats
  <2>2. /\ a \in Sends /\ a.to = AllPlayer /\ a.message.kind = "ChangeSide"
        /\ b \in Sends /\ b.to = Observers /\ b.message.kind = "WaitingSide" /\ b.recorded
    BY <1>0, <2>1, SentIs
  <2>3. /\ c0 \in Sends /\ c0.to = {0} /\ c0.message.kind = "DuelStart"
        /\ c1 \in Sends /\ c1.to = {1} /\ c1.message.kind = "DuelStart"
    BY <2>1, SentIs
  <2> HIDE DEF a, b, c0, c1
  <2>4. /\ Private(a, Observers) /\ Public(b, Observers)
        /\ Private(c0, Observers) /\ Private(c1, Observers)
    BY <1>0, <2>1, <2>2, <2>3 DEF Private, Public, Directed, AllPlayer
  <2>5. NextSends = <<a, b, c0, c1>>
    BY DEF NextSends, a, b, c0, c1
  <2> DEFINE u == <<a, b, c0, c1>>
  <2>6. /\ u \in Seq(Sends) /\ DOMAIN u = 1..4
        /\ u[1] = a /\ u[2] = b /\ u[3] = c0 /\ u[4] = c1
    BY <2>2, <2>3
  <2> HIDE DEF u
  <2>7. \A i \in DOMAIN u : Public(u[i], Observers) \/ Private(u[i], Observers)
    BY <2>4, <2>6
  <2> QED BY <2>5, <2>6, <2>7 DEF Sorted, u
<1> QED BY <1>1, <1>2, <1>3

\* So is what is sent when the engine has run.
LEMMA EventsSorted ==
  ASSUME TypeOK, NEW events \in Seq(Messages),
         \A i \in DOMAIN events : events[i].kind \in {"NewTurn", "NewPhase", "ReverseDeck"}
  PROVE  /\ Sorted(WinSends(events), Observers)
         /\ \A s \in Seats, id \in Nat : Sorted(AskSends(events, s, id), Observers)
<1> DEFINE n == News(events, All)
<1>0. /\ Observers \in SUBSET Clients /\ Observers \cap Seats = {} /\ All \in SUBSET Clients
      /\ Observers \subseteq All
  BY WhoIsWho DEF All
<1>1. n \in Seq(Sends) /\ \A i \in DOMAIN n : Public(n[i], Observers)
  <2>1. views \in [Clients -> ViewTypes]
    BY TypeIs
  <2>2. n \in Seq(Sends)
    BY <1>0, <2>1, NewsReached
  <2>3. \A i \in DOMAIN n : Public(n[i], Observers)
    BY <1>0, NewsPublic
  <2> QED BY <2>2, <2>3
<1> HIDE DEF n
<1>2. Sorted(WinSends(events), Observers)
  <2> DEFINE w == Sent("Win", Nobody, All)
  <2>1. Message("Win", Nobody) \in Messages
    BY MessagesMade DEF Plain
  <2>2. w \in Sends /\ w.to = All /\ w.message.kind = "Win" /\ w.recorded
    BY <1>0, <2>1, SentIs
  <2> HIDE DEF w
  <2>3. Public(w, Observers)
    BY <1>0, <2>2 DEF Public
  <2>4. WinSends(events) = n \o <<w>>
    BY DEF WinSends, n, w
  <2>5. n \o <<w>> \in Seq(Sends)
    BY <1>1, <2>2, Behind
  <2>6. \A i \in DOMAIN (n \o <<w>>) : (i \in DOMAIN n /\ (n \o <<w>>)[i] = n[i]) \/ (n \o <<w>>)[i] = w
    BY <1>1, <2>2, Elements
  <2>7. \A i \in DOMAIN (n \o <<w>>) : Public((n \o <<w>>)[i], Observers)
    BY <1>1, <2>3, <2>6
  <2> QED BY <2>4, <2>5, <2>7 DEF Sorted
<1>3. ASSUME NEW s \in Seats, NEW id \in Nat PROVE Sorted(AskSends(events, s, id), Observers)
  <2> DEFINE a == Sent("Waiting", Nobody, {Other(s)})
             b == Asks(id, s)
             l == n \o <<a, b>>
  <2>1. /\ Message("Waiting", Nobody) \in Messages /\ {Other(s)} \in SUBSET Clients /\ Other(s) \in Seats
    BY MessagesMade, WhoIsWho DEF Plain
  <2>2. /\ a \in Sends /\ a.to = {Other(s)} /\ a.message.kind = "Waiting"
        /\ b \in Sends /\ b.to = {s} /\ ~b.recorded
    BY <2>1, SentIs, AsksIs
  <2>3. AskSends(events, s, id) = l
    BY DEF AskSends, Waits, n
  <2> HIDE DEF a, b
  <2>4. Private(a, Observers) /\ Private(b, Observers)
    BY <1>0, <2>1, <2>2 DEF Private
  <2>5. l \in Seq(Sends)
    BY <1>1, <2>2, Behind
  <2>6. \A i \in DOMAIN l : (i \in DOMAIN n /\ l[i] = n[i]) \/ l[i] = a \/ l[i] = b
    BY <1>1, <2>2, Elements
  <2> HIDE DEF l
  <2>7. \A i \in DOMAIN l : Public(l[i], Observers) \/ Private(l[i], Observers)
    BY <1>1, <2>4, <2>6
  <2> QED BY <2>3, <2>5, <2>7 DEF Sorted
<1> QED BY <1>2, <1>3

\* Whoever sees what the one who was there from the beginning sees, goes on seeing it; and
\* the history tells it.
LEMMA SendsWatched ==
  ASSUME TypeOK, OnRecord, Begun, OnTime \in Observers, NEW sends, Sorted(sends, Observers), Send(sends)
  PROVE  /\ masked_messages' \in Records
         /\ Onlooker(views'[OnTime]) /\ views'[OnTime].pos = views[OnTime].pos
         /\ \A v \in ViewTypes : Retold(v, masked_messages') = At(views'[OnTime], v.pos)
         /\ \A c \in Observers : SameAs(c) =>
              views'[c] = At(views'[OnTime], views[c].pos) /\ views'[c].pos = views[c].pos
<1> DEFINE w == views[OnTime]
           r == masked_messages
<1>0. /\ views \in [Clients -> ViewTypes] /\ OnTime \in Clients /\ Observers \subseteq Clients
  BY TypeIs, WhoIsWho
<1>1. Onlooker(w) /\ r \in Records /\ \A v \in ViewTypes : Retold(v, r) = At(w, v.pos)
  BY DEF OnRecord
<1>2. sends \in Seq(Sends) /\ \A i \in DOMAIN sends : Public(sends[i], Observers) \/ Private(sends[i], Observers)
  BY DEF Sorted
<1> HIDE DEF w, r
<1>3. PICK w2 : Agree(Observers, w, r, w2, sends)
  BY <1>1, <1>2, Watched
<1>4. /\ Onlooker(w2) /\ w2.pos = w.pos /\ Recorded(r, sends) \in Records
      /\ \A v \in ViewTypes : Retold(v, Recorded(r, sends)) = At(w2, v.pos)
      /\ \A c \in Observers, p \in PosSet : Reached(c, At(w, p), sends) = At(w2, p)
  BY <1>3 DEF Agree
<1>5. masked_messages' = Recorded(r, sends)
  BY DEF Send, r
<1>6. \A c \in Clients : views'[c] = Reached(c, views[c], sends)
  BY <1>2, SendTyped
<1>7. w \in ViewTypes /\ w2 \in ViewTypes
  BY <1>1, <1>4 DEF Onlooker
<1>8. views'[OnTime] = w2
  <2>1. w.pos \in PosSet /\ At(w, w.pos) = w /\ At(w2, w2.pos) = w2
    BY <1>7, AtFields DEF PosSet
  <2>2. Reached(OnTime, At(w, w.pos), sends) = At(w2, w.pos)
    BY <1>4, <2>1
  <2>3. views'[OnTime] = Reached(OnTime, w, sends)
    BY <1>0, <1>6 DEF w
  <2> QED BY <1>4, <2>1, <2>2, <2>3
<1>9. ASSUME NEW c \in Observers, SameAs(c)
      PROVE  views'[c] = At(w2, views[c].pos) /\ views'[c].pos = views[c].pos
  <2> DEFINE p == views[c].pos
  <2>1. p \in PosSet
    BY <1>0 DEF ViewTypes, PosSet
  <2>2. views[c] = At(w, p)
    BY <1>9 DEF SameAs, w
  <2> HIDE DEF p
  <2>3. views'[c] = Reached(c, At(w, p), sends)
    BY <1>0, <1>6, <2>2
  <2>4. views'[c] = At(w2, p)
    BY <1>4, <2>1, <2>3
  <2>5. At(w2, p).pos = p
    BY <1>7, <2>1, AtFields
  <2> QED BY <2>4, <2>5 DEF p
<1> QED BY <1>4, <1>5, <1>8, <1>9 DEF w

\* A step of the actor that sends to those who sit where they sat.
LEMMA ViewersSend ==
  ASSUME Types, Viewers, Begun, NEW sends, Sorted(sends, Observers), Send(sends),
         NEW new, Shift(queue, queue', 1, new), queue[1].type # "soumatou",
         \A x \in new : x.type \notin {"JoinGame", "LeaveGame"},
         UNCHANGED <<observers, joined>>, Begun',
         \A c \in Observers : views'[c].pos = views[c].pos
  PROVE  Viewers'
<1>0. /\ TypeOK /\ views \in [Clients -> ViewTypes]
      /\ observers \in [Keys -> Watchers \cup {Nobody}] /\ 0 \in Keys /\ observers[0] = OnTime
      /\ OnTime # Nobody /\ \A c \in Late : c # Nobody
  BY TypeIs, WhoIsWho DEF Types, Viewers, Watching
<1>1. OnTime \in Observers /\ Observers' = Observers
  BY <1>0 DEF Observers
<1>2. /\ masked_messages' \in Records
      /\ Onlooker(views'[OnTime])
      /\ \A v \in ViewTypes : Retold(v, masked_messages') = At(views'[OnTime], v.pos)
      /\ \A c \in Observers : SameAs(c) =>
           views'[c] = At(views'[OnTime], views[c].pos) /\ views'[c].pos = views[c].pos
  BY <1>0, <1>1, SendsWatched DEF Viewers
<1>3. OnRecord'
  BY <1>2 DEF OnRecord
<1>4. CaughtUp'
  <2>1. SUFFICES ASSUME NEW k \in Keys, observers'[k] \in Late, ~Replaying(k)'
                 PROVE  (SameAs(observers[k]))'
    BY DEF CaughtUp
  <2>2. observers'[k] = observers[k]
    OBVIOUS
  <2>3. observers[k] \in Observers
    BY <1>0, <2>1, <2>2 DEF Observers
  <2>4. ~Replaying(k)
    BY <2>1, ReplaysKept
  <2>5. SameAs(observers[k])
    BY <2>1, <2>2, <2>4 DEF Viewers, CaughtUp
  <2> DEFINE c == observers[k]
  <2>6. views'[c] = At(views'[OnTime], views'[c].pos)
    BY <1>2, <2>3, <2>5
  <2> QED BY <2>2, <2>6 DEF SameAs
<1>5. PlaceKept'
  <2>1. SUFFICES ASSUME NEW k \in Keys, observers[k] # Nobody PROVE views'[observers[k]].pos = k
    BY DEF PlaceKept
  <2>2. observers[k] \in Observers
    BY <2>1 DEF Observers
  <2>3. views[observers[k]].pos = k
    BY <2>1 DEF Viewers, PlaceKept
  <2> QED BY <2>2, <2>3
<1>6. Joining'
  <2>1. \A i \in DOMAIN queue : i > 1 /\ queue[i].type = "JoinGame" => queue[i].client \notin Observers'
    BY <1>1 DEF Viewers, Watching
  <2> QED BY <2>1, JoinsKept DEF Viewers
<1>7. Watching'
  BY <1>6 DEF Joining, Viewers, Watching
<1> QED BY <1>3, <1>4, <1>5, <1>7 DEF Viewers

\* There is a screen.
LEMMA ViewExists == Blank \in ViewTypes
BY DEF Blank, ViewTypes, Places

\* The Start of a duel, in the history.
LEMMA StartRetold ==
  ASSUME TypeOK, NEW f \in Seats, NEW r \in Records,
         \A v \in ViewTypes : Retold(v, r).pos = v.pos
  PROVE  LET r2 == Recorded(r, StartSends(f)) IN
         /\ r2 \in Records
         /\ \A v \in ViewTypes : Retold(v, r2) = [Blank EXCEPT !.role = Observer, !.pos = v.pos]
<1> DEFINE x0 == CoreOf(f, 0)
           x1 == CoreOf(f, 1)
           a == Sent("Start", 0, {x0})
           b == Sent("Start", 1, {x1})
           d == Sent("Start", Observer, Observers)
           m0 == Message("Start", 0)
           m1 == Message("Start", 1)
           m2 == Message("Start", Observer)
<1>1. m0 \in Messages /\ m1 \in Messages /\ m2 \in Messages
  BY MessagesMade DEF Seats
<1>2. x0 \in Seats /\ x1 \in Seats
  BY DEF Seats, Other, CoreOf
<1>3. {x0} \in SUBSET Clients /\ {x1} \in SUBSET Clients /\ Observers \in SUBSET Clients
  BY <1>2, WhoIsWho
<1>4. /\ a \in Sends /\ a.message = m0 /\ a.recorded
      /\ b \in Sends /\ b.message = m1 /\ b.recorded
      /\ d \in Sends /\ d.message = m2 /\ d.recorded
  BY <1>1, <1>3, SentIs
<1>5. StartSends(f) = <<a, b, d>>
  BY DEF StartSends
<1>6. /\ Copy(m0) = m0 /\ Copy(m1) = m1 /\ Copy(m2) = m2
      /\ ~Replayed(m0) /\ ~Replayed(m1) /\ Replayed(m2)
      /\ m2.kind = "Start" /\ m2.arg = Observer
  BY DEF Copy, Replayed, Message, Directed, Observer
<1> HIDE DEF a, b, d, m0, m1, m2
<1>7. r \in Seq(Messages)
  BY DEF Records
<1>8. Recorded(r, <<a, b, d>>) = Append(Append(Append(r, m0), m1), m2)
  <2>1. /\ <<>> \in Seq(Sends) /\ <<a>> \in Seq(Sends) /\ <<a, b>> \in Seq(Sends)
        /\ <<a>> = Append(<<>>, a) /\ <<a, b>> = Append(<<a>>, b) /\ <<a, b, d>> = Append(<<a, b>>, d)
    BY <1>4
  <2>2. /\ Recorded(r, <<>>) = r
        /\ \A s \in Seq(Sends), x \in Sends :
             Recorded(r, Append(s, x)) = IF x.recorded THEN Append(Recorded(r, s), Copy(x.message))
                                         ELSE Recorded(r, s)
    BY <1>7, RecordedOn
  <2>3. \A s \in Seq(Sends) : /\ Recorded(r, Append(s, a)) = Append(Recorded(r, s), m0)
                              /\ Recorded(r, Append(s, b)) = Append(Recorded(r, s), m1)
                              /\ Recorded(r, Append(s, d)) = Append(Recorded(r, s), m2)
    BY ONLY <1>4, <1>6, <2>2
  <2>4. Recorded(r, Append(<<>>, a)) = Append(r, m0)
    BY ONLY <2>1, <2>2, <2>3
  <2>5. Recorded(r, Append(<<a>>, b)) = Append(Append(r, m0), m1)
    BY ONLY <2>1, <2>3, <2>4
  <2>6. Recorded(r, Append(<<a, b>>, d)) = Append(Append(Append(r, m0), m1), m2)
    BY ONLY <2>1, <2>3, <2>5
  <2> QED BY ONLY <2>1, <2>6
<1>9. /\ Append(r, m0) \in Records
      /\ \A v \in ViewTypes : Retold(v, Append(r, m0)) = Retold(v, r)
  BY <1>1, <1>6, RetoldOn, ViewExists
<1>10. /\ Append(Append(r, m0), m1) \in Records
       /\ \A v \in ViewTypes : Retold(v, Append(Append(r, m0), m1)) = Retold(v, r)
  <2> DEFINE r1 == Append(r, m0)
  <2>1. r1 \in Records /\ \A v \in ViewTypes : Retold(v, r1) = Retold(v, r)
    BY <1>9
  <2> HIDE DEF r1
  <2>2. /\ Append(r1, m1) \in Records
        /\ \A v \in ViewTypes : Retold(v, Append(r1, m1)) = Retold(v, r1)
    BY <1>1, <1>6, <2>1, RetoldOn, ViewExists
  <2> QED BY <2>1, <2>2 DEF r1
<1>11. /\ Append(Append(Append(r, m0), m1), m2) \in Records
       /\ \A v \in ViewTypes :
            Retold(v, Append(Append(Append(r, m0), m1), m2)) = [Blank EXCEPT !.role = Observer, !.pos = v.pos]
  <2> DEFINE r1 == Append(Append(r, m0), m1)
  <2>1. r1 \in Records /\ \A v \in ViewTypes : Retold(v, r1) = Retold(v, r)
    BY <1>10
  <2> HIDE DEF r1
  <2>2. /\ Append(r1, m2) \in Records
        /\ \A v \in ViewTypes : Retold(v, Append(r1, m2)) = Shown(Retold(v, r1), m2)
    BY <1>1, <1>6, <2>1, RetoldOn, ViewExists
  <2>3. \A v : Shown(v, m2) = [Blank EXCEPT !.role = Observer, !.pos = v.pos]
    <3>1. \A v : Shown(v, m2) = [Blank EXCEPT !.role = m2.arg, !.pos = v.pos]
      BY ONLY <1>6, ShownIs
    <3> QED BY <1>6, <3>1
  <2>4. ASSUME NEW v \in ViewTypes
        PROVE  Retold(v, Append(r1, m2)) = [Blank EXCEPT !.role = Observer, !.pos = v.pos]
    <3>1. Retold(v, Append(r1, m2)) = Shown(Retold(v, r), m2)
      BY <2>1, <2>2
    <3>2. Retold(v, r).pos = v.pos
      OBVIOUS
    <3> QED BY <2>3, <3>1, <3>2
  <2> QED BY <2>2, <2>4 DEF r1
<1> QED BY <1>5, <1>8, <1>11

\* The record that a room leaves the lobby with tells nothing.
LEMMA FreshRecord ==
  LET r == <<Message("HsPlayerEnter", Nobody), Message("DuelStart", Nobody)>>
  IN  r \in Records /\ \A v \in ViewTypes : Retold(v, r) = v
<1> DEFINE m1 == Message("HsPlayerEnter", Nobody)
           m2 == Message("DuelStart", Nobody)
           r == <<m1, m2>>
<1>1. m1 \in Messages /\ m2 \in Messages /\ m1.kind = "HsPlayerEnter" /\ m2.kind = "DuelStart"
  BY MessagesMade DEF Plain, Silent, Message
<1> HIDE DEF m1, m2
<1>2. r \in Records
  BY <1>1 DEF Records
<1>3. FromDuelStart(r) = <<m2>>
  <2>1. FromDuelStart(r) = SubSeq(r, 2, Len(r))
    BY <1>2, FromStart
  <2>2. SubSeq(r, 2, Len(r)) = <<m2>>
    <3>1. Len(r) = 2 /\ r[2] = m2
      OBVIOUS
    <3>2. SubSeq(r, 2, Len(r)) = [i \in 1..((Len(r) + 1) - 2) |-> r[i + (2 - 1)]]
      <4> HIDE DEF r
      <4> QED BY <3>1
    <3>3. SubSeq(r, 2, Len(r)) = [i \in 1..1 |-> r[i + 1]]
      <4>1. (Len(r) + 1) - 2 = 1 /\ 2 - 1 = 1
        BY <3>1
      <4> QED BY <3>2, <4>1
    <3>4. <<m2>> = [i \in 1..1 |-> m2]
      OBVIOUS
    <3>5. [i \in 1..1 |-> r[i + 1]] = [i \in 1..1 |-> m2]
      <4>1. \A i \in 1..1 : r[i + 1] = m2
        BY <3>1
      <4> HIDE DEF r
      <4> QED BY <4>1
    <3> QED BY <3>3, <3>4, <3>5
  <2> QED BY <2>1, <2>2
<1>4. ASSUME NEW v \in ViewTypes PROVE Retold(v, r) = v
  <2>1. <<>> \in Seq(Messages) /\ <<m2>> = Append(<<>>, m2)
    OBVIOUS
  <2>a. \A s \in Seq(Messages), x \in Messages :
          Replay(v, Append(s, x)) = IF Replayed(x) THEN Shown(Replay(v, s), x) ELSE Replay(v, s)
    BY ReplayOn
  <2>b. Replay(v, Append(<<>>, m2)) = IF Replayed(m2) THEN Shown(Replay(v, <<>>), m2) ELSE Replay(v, <<>>)
    BY ONLY <1>1, <2>1, <2>a
  <2>2. Replay(v, <<m2>>) = IF Replayed(m2) THEN Shown(Replay(v, <<>>), m2) ELSE Replay(v, <<>>)
    BY ONLY <2>1, <2>b
  <2>3. Replay(v, <<>>) = v
    BY ReplayOn
  <2>4. Shown(v, m2) = v
    BY <1>1, ShownIs DEF Silent
  <2>5. Replay(v, <<m2>>) = v
    BY <2>2, <2>3, <2>4
  <2> QED BY <1>3, <2>5 DEF Retold
<1> QED BY <1>2, <1>4 DEF m1, m2


\* Somebody starts to watch: he gets his place, and the history is on its way.
LEMMA ViewersJoin ==
  ASSUME Types, Viewers, OnJoinGame
  PROVE  Viewers'
<1>0. /\ TypeOK /\ views \in [Clients -> ViewTypes]
      /\ observers \in [Keys -> Watchers \cup {Nobody}] /\ 0 \in Keys /\ observers[0] = OnTime
      /\ OnTime # Nobody /\ \A c \in Late : c # Nobody /\ c # OnTime
      /\ Late \subseteq Clients /\ OnTime \in Clients /\ Observers \subseteq Clients
  BY TypeIs, WhoIsWho DEF Types, Viewers, Watching, Clients, Watchers
<1>1. Receive("JoinGame") /\ UNCHANGED <<engine, joined>>
  BY DEF OnJoinGame
<1>2. /\ 1 \in DOMAIN queue /\ queue # <<>> /\ queue[1].type = "JoinGame"
      /\ Request = queue[1] /\ Request \in Requests /\ Request.client \in Late
  BY <1>1, Receives, RequestFields DEF Receive
<1>3. PICK c \in Late : c = Request.client
  BY <1>2
<1>4. PICK k \in Keys :
        /\ observers[k] = Nobody
        /\ observers' = [observers EXCEPT ![k] = c]
        /\ Send(JoinSends(c, k))
        /\ Done(<<[type |-> "soumatou", key |-> k]>>)
  BY <1>3 DEF OnJoinGame, JoinSends
<1> DEFINE x == [type |-> "soumatou", key |-> k]
<1>5. x \in Requests /\ x.type = "soumatou" /\ Done(<<x>>)
  BY <1>4, RequestsMade
<1>6. x = [type |-> "soumatou", key |-> k]
  OBVIOUS
<1> HIDE DEF x
<1>7. Shift(queue, queue', 1, {x})
  BY <1>1, <1>5, Receives
<1>8. Begun /\ Begun' /\ OnTime \in Observers /\ c \notin Observers /\ c \in joined
  BY <1>0, <1>1, <1>2, <1>3 DEF Viewers, Watching, Begun, Observers
<1>9. Sorted(JoinSends(c, k), Observers)
  BY <1>0, <1>8, SentSorted
<1>10. /\ masked_messages' \in Records
       /\ Onlooker(views'[OnTime])
       /\ \A v \in ViewTypes : Retold(v, masked_messages') = At(views'[OnTime], v.pos)
  BY <1>0, <1>4, <1>8, <1>9, SendsWatched DEF Viewers
<1>11. views'[c] = At(views[c], k) /\ \A z \in Clients \ {c} : views'[z] = views[z]
  BY <1>0, <1>4, JoinSeen
<1>12. observers'[k] = c /\ \A j \in Keys : j # k => observers'[j] = observers[j]
  BY <1>0, <1>4
<1>13. OnRecord'
  BY <1>10 DEF OnRecord
<1>14. ASSUME NEW j \in Keys, j # k, observers[j] # Nobody
       PROVE  observers[j] \in Observers /\ views'[observers[j]] = views[observers[j]]
  <2>1. observers[j] \in Observers
    BY <1>14 DEF Observers
  <2> QED BY <1>0, <1>8, <1>11, <2>1
<1>15. CaughtUp'
  <2>1. SUFFICES ASSUME NEW j \in Keys, observers'[j] \in Late, ~Replaying(j)' PROVE (SameAs(observers[j]))'
    BY DEF CaughtUp
  <2>2. j # k
    BY <1>6, <1>7, <2>1 DEF Replaying, Shift
  <2>3. observers'[j] = observers[j] /\ observers[j] \in Late /\ observers[j] # Nobody
    BY <1>0, <1>12, <2>1, <2>2
  <2>4. ~Replaying(j)
    BY <1>2, <1>7, <2>1, ReplaysKept
  <2>5. SameAs(observers[j])
    BY <2>3, <2>4 DEF Viewers, CaughtUp
  <2>6. views'[observers[j]] = views[observers[j]] /\ views'[OnTime] = views[OnTime]
    BY <1>0, <1>11, <1>14, <2>2, <2>3
  <2> QED BY <2>3, <2>5, <2>6 DEF SameAs
<1>16. PlaceKept'
  <2>1. SUFFICES ASSUME NEW j \in Keys, observers'[j] # Nobody PROVE views'[observers'[j]].pos = j
    BY DEF PlaceKept
  <2>2. CASE j = k
    <3>1. views[c] \in ViewTypes /\ k \in PosSet
      BY <1>0 DEF PosSet
    <3>2. At(views[c], k).pos = k
      BY <3>1, AtFields
    <3> QED BY <1>11, <1>12, <2>2, <3>2
  <2>3. CASE j # k
    BY <1>12, <1>14, <2>1, <2>3 DEF Viewers, PlaceKept
  <2> QED BY <2>2, <2>3
<1>17. Joining'
  <2>1. \A y : y \in Observers' => y \in Observers \/ y = c
    BY <1>12 DEF Observers
  <2>2. \A i \in DOMAIN queue : i > 1 /\ queue[i].type = "JoinGame" => queue[i].client \notin Observers'
    <3>1. SUFFICES ASSUME NEW i \in DOMAIN queue, i > 1, queue[i].type = "JoinGame", queue[i].client = c
                   PROVE  FALSE
      BY <2>1 DEF Viewers, Watching
    <3>2. queue[1].client = c
      BY <1>2, <1>3
    <3>3. i = 1
      BY <1>2, <3>1, <3>2 DEF Viewers, Watching
    <3> QED BY <3>1, <3>3
  <2> QED BY <1>1, <1>5, <1>7, <2>2, JoinsKept DEF Viewers
<1>18. Watching'
  <2>1. k # 0
    BY <1>0, <1>4
  <2>2. observers'[0] = OnTime /\ \A j \in Keys : observers'[j] \in joined' \cup {OnTime, Nobody}
    BY <1>0, <1>1, <1>8, <1>12, <2>1 DEF Viewers, Watching
  <2> QED BY <1>8, <1>17, <2>2 DEF Joining, Watching
<1> QED BY <1>13, <1>15, <1>16, <1>18 DEF Viewers

\* Somebody stops watching.
LEMMA ViewersLeave ==
  ASSUME Types, Viewers, OnLeaveGame
  PROVE  Viewers'
<1>0. observers \in [Keys -> Watchers \cup {Nobody}] /\ 0 \in Keys /\ observers[0] = OnTime
  BY TypeIs, WhoIsWho DEF Types, Viewers, Watching
<1>1. /\ Receive("LeaveGame") /\ Done(<<>>) /\ UNCHANGED <<masked_messages, engine, views, joined>>
      /\ observers' = [observers EXCEPT ![Request.key] = Nobody]
  BY DEF OnLeaveGame
<1>2. /\ 1 \in DOMAIN queue /\ queue # <<>> /\ queue[1].type = "LeaveGame"
      /\ Request = queue[1] /\ Request \in Requests /\ Request.key \in Keys /\ Request.key # 0
  BY <1>1, Receives, RequestFields DEF Receive, Viewers, Watching
<1>3. PICK k \in Keys : k = Request.key /\ k # 0
  BY <1>2
<1>4. Shift(queue, queue', 1, {}) /\ Begun /\ Begun'
  BY <1>1, <1>2, Receives DEF Viewers, Watching, Begun
<1>5. observers'[k] = Nobody /\ \A j \in Keys : j # k => observers'[j] = observers[j]
  BY <1>0, <1>1, <1>3
<1>6. \A y : y \in Observers' => y \in Observers
  BY <1>5 DEF Observers
<1>7. OnRecord'
  BY <1>1, <1>4 DEF Viewers, OnRecord
<1>8. CaughtUp'
  <2>1. SUFFICES ASSUME NEW j \in Keys, observers'[j] \in Late, ~Replaying(j)' PROVE (SameAs(observers[j]))'
    BY DEF CaughtUp
  <2>2. observers'[j] = observers[j]
    BY <1>5, <2>1, HistoryAssumption
  <2>3. ~Replaying(j)
    BY <1>2, <1>4, <2>1, ReplaysKept
  <2> QED BY <1>1, <2>1, <2>2, <2>3 DEF Viewers, CaughtUp, SameAs
<1>9. PlaceKept'
  BY <1>1, <1>5 DEF Viewers, PlaceKept
<1>10. Joining'
  <2>1. \A i \in DOMAIN queue : i > 1 /\ queue[i].type = "JoinGame" => queue[i].client \notin Observers'
    BY <1>6 DEF Viewers, Watching
  <2> QED BY <1>1, <1>4, <2>1, JoinsKept DEF Viewers
<1>11. Watching'
  <2>1. observers'[0] = OnTime /\ \A j \in Keys : observers'[j] \in joined' \cup {OnTime, Nobody}
    BY <1>0, <1>1, <1>3, <1>5 DEF Viewers, Watching
  <2> QED BY <1>4, <1>10, <2>1 DEF Joining, Watching
<1> QED BY <1>7, <1>8, <1>9, <1>11 DEF Viewers

\* The history is sent to whoever sits where it was asked for.
LEMMA ViewersSoumatou ==
  ASSUME Types, Viewers, OnSoumatou
  PROVE  Viewers'
<1>0. /\ TypeOK /\ views \in [Clients -> ViewTypes]
      /\ observers \in [Keys -> Watchers \cup {Nobody}] /\ OnTime \in Clients /\ Watchers \subseteq Clients
      /\ Nobody \notin Late
  BY TypeIs, WhoIsWho, HistoryAssumption DEF Types, Clients, Watchers
<1>1. /\ Receive("soumatou") /\ Done(<<>>)
      /\ views' = IF observers[Request.key] = Nobody THEN views
                  ELSE [views EXCEPT ![observers[Request.key]] = Replay(@, FromDuelStart(masked_messages))]
      /\ UNCHANGED <<masked_messages, observers, engine, joined>>
  BY DEF OnSoumatou
<1>2. /\ 1 \in DOMAIN queue /\ queue # <<>> /\ queue[1].type = "soumatou"
      /\ Request = queue[1] /\ Request \in Requests /\ Request.key \in Keys
  BY <1>1, Receives, RequestFields DEF Receive
<1>3. PICK k \in Keys : k = Request.key
  BY <1>2
<1>4. Shift(queue, queue', 1, {}) /\ Begun /\ Begun'
  BY <1>1, <1>2, Receives DEF Viewers, Watching, Begun
<1> DEFINE c == observers[k]
           w == views[OnTime]
<1>5. w \in ViewTypes /\ \A v \in ViewTypes : Retold(v, masked_messages) = At(w, v.pos)
  BY <1>0, <1>4 DEF Viewers, OnRecord
<1>6. c \in Watchers \cup {Nobody}
  BY <1>0
<1>7. ASSUME NEW z \in Clients
      PROVE  views'[z] = IF c # Nobody /\ z = c THEN At(w, views[z].pos) ELSE views[z]
  <2>1. CASE c = Nobody
    BY <1>1, <1>3, <2>1
  <2>2. CASE c # Nobody
    <3>1. views' = [views EXCEPT ![c] = Retold(views[c], masked_messages)] /\ c \in Clients
      BY <1>0, <1>1, <1>3, <1>6, <2>2 DEF Retold
    <3>2. Retold(views[c], masked_messages) = At(w, views[c].pos)
      BY <1>0, <1>5, <3>1
    <3> QED BY <1>0, <2>2, <3>1, <3>2
  <2> QED BY <2>1, <2>2
<1>8. ASSUME NEW v \in ViewTypes PROVE At(w, v.pos).pos = v.pos /\ At(v, v.pos) = v
  <2>1. v.pos \in PosSet /\ At(v, v.pos) = v
    BY AtFields DEF PosSet, ViewTypes
  <2> QED BY <1>5, <2>1, AtFields
<1>9. views'[OnTime] = w
  BY <1>0, <1>5, <1>7, <1>8
<1> HIDE DEF w
<1>10. OnRecord'
  BY <1>1, <1>4, <1>9 DEF Viewers, OnRecord, w
<1>11. CaughtUp'
  <2>1. SUFFICES ASSUME NEW j \in Keys, observers'[j] \in Late, ~Replaying(j)' PROVE (SameAs(observers[j]))'
    BY DEF CaughtUp
  <2> DEFINE z == observers[j]
  <2>2. observers'[j] = z /\ z \in Late /\ z \in Clients
    BY <1>0, <1>1, <2>1 DEF Watchers
  <2>3. CASE z = c
    <3>1. views'[z] = At(w, views[z].pos)
      BY <1>0, <1>7, <2>2, <2>3
    <3>2. views'[z].pos = views[z].pos
      BY <1>0, <1>8, <2>2, <3>1
    <3> QED BY <1>9, <2>2, <3>1, <3>2 DEF SameAs
  <2>4. CASE z # c
    <3>1. j # k
      BY <2>4
    <3>2. ~Replaying(j)
      <4>1. SUFFICES ASSUME NEW i \in DOMAIN queue, queue[i] = [type |-> "soumatou", key |-> j]
                     PROVE  FALSE
        BY DEF Replaying
      <4>2. queue[1].key = k
        BY <1>2, <1>3
      <4>3. i # 1
        BY <3>1, <4>1, <4>2
      <4>4. i > 1
        BY <1>4, <4>1, <4>3 DEF Shift
      <4> QED BY <1>4, <2>1, <4>1, <4>4 DEF Shift, Replaying
    <3>3. SameAs(z)
      BY <2>2, <3>2 DEF Viewers, CaughtUp
    <3>4. views'[z] = views[z]
      BY <1>7, <2>2, <2>4
    <3> QED BY <1>9, <2>2, <3>3, <3>4 DEF SameAs, w
  <2> QED BY <2>3, <2>4
<1>12. PlaceKept'
  <2>1. SUFFICES ASSUME NEW j \in Keys, observers[j] # Nobody PROVE views'[observers[j]].pos = j
    BY <1>1 DEF PlaceKept
  <2>2. observers[j] \in Clients /\ views[observers[j]].pos = j
    BY <1>0, <2>1 DEF Viewers, PlaceKept
  <2>3. views'[observers[j]].pos = views[observers[j]].pos
    BY <1>0, <1>7, <1>8, <2>2
  <2> QED BY <2>2, <2>3
<1>13. Observers' = Observers
  BY <1>1 DEF Observers
<1>14. Joining'
  <2>1. \A i \in DOMAIN queue : i > 1 /\ queue[i].type = "JoinGame" => queue[i].client \notin Observers'
    BY <1>13 DEF Viewers, Watching
  <2> QED BY <1>1, <1>4, <2>1, JoinsKept DEF Viewers
<1>15. Watching'
  BY <1>1, <1>4, <1>14 DEF Joining, Viewers, Watching
<1> QED BY <1>10, <1>11, <1>12, <1>15 DEF Viewers

\* A duel starts: every screen is as if no duel had been.
LEMMA ViewersStart ==
  ASSUME Types, Viewers, OnDuelStart, Types'
  PROVE  Viewers'
<1>0. /\ TypeOK /\ views \in [Clients -> ViewTypes] /\ masked_messages \in Records
      /\ observers \in [Keys -> Watchers \cup {Nobody}] /\ 0 \in Keys /\ observers[0] = OnTime
      /\ OnTime # Nobody /\ Nobody \notin Late
  BY TypeIs, WhoIsWho, HistoryAssumption DEF Types, Viewers, Watching, OnRecord
<1>1. /\ Receive("DuelStart") /\ Done(<<[type |-> "Evolve"]>>)
      /\ engine' = [NewEngine EXCEPT !.duel = Request.duel]
      /\ Send(StartSends(first'))
      /\ UNCHANGED <<observers, joined>>
  BY DEF OnDuelStart, StartSends, CoreOf
<1> DEFINE x == [type |-> "Evolve"]
<1>2. x \in Requests /\ x.type = "Evolve" /\ Done(<<x>>)
  BY <1>1, RequestsMade
<1> HIDE DEF x
<1>3. /\ Shift(queue, queue', 1, {x}) /\ queue[1].type = "DuelStart"
      /\ Request = queue[1] /\ Request \in Requests /\ Request.duel \in Nat \ {0}
  BY <1>1, <1>2, Receives, RequestFields
<1>4. PICK f \in Seats : f = first'
  BY DEF Types, TypeOK
<1>5. Begun'
  BY <1>1, <1>3 DEF Begun, NewEngine
<1>6. \A v \in ViewTypes : Retold(v, masked_messages).pos = v.pos
  <2>1. CASE Begun
    <3>1. views[OnTime] \in ViewTypes /\ \A v \in ViewTypes : Retold(v, masked_messages) = At(views[OnTime], v.pos)
      BY <2>1 DEF Viewers, OnRecord, Onlooker
    <3>2. \A v \in ViewTypes : v.pos \in PosSet
      BY DEF PosSet, ViewTypes
    <3> QED BY <3>1, <3>2, AtFields
  <2>2. CASE ~Begun
    BY <2>2, FreshRecord DEF Viewers, Watching
  <2> QED BY <2>1, <2>2
<1>7. masked_messages' = Recorded(masked_messages, StartSends(f)) /\ Send(StartSends(f))
  BY <1>1, <1>4 DEF Send
<1>8. /\ masked_messages' \in Records
      /\ \A v \in ViewTypes : Retold(v, masked_messages') = [Blank EXCEPT !.role = Observer, !.pos = v.pos]
  <2>1. PICK r \in Records : r = masked_messages
    BY <1>0
  <2>2. TypeOK /\ \A v \in ViewTypes : Retold(v, r).pos = v.pos
    BY <1>0, <1>6, <2>1
  <2>3. LET r2 == Recorded(r, StartSends(f)) IN
        /\ r2 \in Records
        /\ \A v \in ViewTypes : Retold(v, r2) = [Blank EXCEPT !.role = Observer, !.pos = v.pos]
    <3> HIDE DEF Records, Retold
    <3> QED BY ONLY <2>1, <2>2, StartRetold, f \in Seats
  <2> QED BY <1>7, <2>1, <2>3
<1>9. /\ views' \in [Clients -> ViewTypes]
      /\ \A c \in Observers : views'[c] = [Blank EXCEPT !.role = Observer, !.pos = views[c].pos]
  BY <1>0, <1>7, StartSeen
<1> DEFINE Screen(p) == [Blank EXCEPT !.role = Observer, !.pos = p]
<1>10. \A p, q : At(Screen(p), q) = Screen(q) /\ Screen(p).pos = p /\ Screen(p).role = Observer
                 /\ Screen(p).prompt = Nobody
  BY DEF At, Blank
<1>11. OnTime \in Observers /\ Observers' = Observers
  BY <1>0, <1>1 DEF Observers
<1>12. \A c \in Observers : views'[c] = Screen(views[c].pos)
  BY <1>9
<1>13. \A v \in ViewTypes : Retold(v, masked_messages') = Screen(v.pos)
  BY <1>8
<1>14. OnTime \in Clients
  BY DEF Clients, Watchers
<1> HIDE DEF Screen
<1>15. OnRecord'
  <2>1. Onlooker(views'[OnTime])
    <3>1. views'[OnTime] = Screen(views[OnTime].pos)
      BY <1>11, <1>12
    <3>2. views'[OnTime] \in ViewTypes
      BY <1>9, <1>14
    <3>3. views'[OnTime].role = Observer /\ views'[OnTime].prompt = Nobody
      BY <1>10, <3>1
    <3> QED BY <3>2, <3>3 DEF Onlooker
  <2>2. \A v \in ViewTypes : Retold(v, masked_messages') = At(views'[OnTime], v.pos)
    BY <1>10, <1>11, <1>12, <1>13
  <2> QED BY <1>8, <2>1, <2>2 DEF OnRecord
<1>16. \A c \in Observers : views'[c] = At(views'[OnTime], views'[c].pos) /\ views'[c].pos = views[c].pos
  BY <1>10, <1>11, <1>12
<1>17. CaughtUp'
  <2>1. SUFFICES ASSUME NEW j \in Keys, observers'[j] \in Late PROVE (SameAs(observers[j]))'
    BY DEF CaughtUp
  <2>2. observers'[j] = observers[j] /\ observers[j] \in Observers
    BY <1>0, <1>1, <2>1 DEF Observers
  <2> QED BY <1>16, <2>2 DEF SameAs
<1>18. PlaceKept'
  <2>1. SUFFICES ASSUME NEW j \in Keys, observers[j] # Nobody PROVE views'[observers[j]].pos = j
    BY <1>1 DEF PlaceKept
  <2>2. observers[j] \in Observers /\ views[observers[j]].pos = j
    BY <2>1 DEF Viewers, PlaceKept, Observers
  <2> QED BY <1>16, <2>2
<1>19. Joining'
  <2>1. \A i \in DOMAIN queue : i > 1 /\ queue[i].type = "JoinGame" => queue[i].client \notin Observers'
    BY <1>11 DEF Viewers, Watching
  <2> QED BY <1>1, <1>2, <1>3, <2>1, JoinsKept DEF Viewers
<1>20. Watching'
  BY <1>1, <1>5, <1>19 DEF Joining, Viewers, Watching
<1> QED BY <1>15, <1>17, <1>18, <1>20 DEF Viewers

\* The steps of the actor.
LEMMA ViewersActor ==
  ASSUME Types, Viewers, Actor, Types'
  PROVE  Viewers'
<1>0. /\ TypeOK /\ views \in [Clients -> ViewTypes] /\ engine \in Engines /\ questions \in Nat
      /\ last_response \in Places /\ last_select \in Nat \cup {Nobody}
      /\ Watchers \cap Seats = {} /\ Observers \subseteq Clients \ Seats /\ Observers \subseteq All
      /\ Watchers \subseteq Clients
  BY TypeIs, WhoIsWho DEF Types, Watchers, Clients, All
<1>1. ASSUME NEW type, Receive(type), type # "DuelStart"
      PROVE  Begun /\ queue[1].type = type
  BY <1>1, Receives DEF Viewers, Watching, Receive
<1>2. CASE OnJoinGame
  BY <1>2, ViewersJoin
<1>3. CASE OnLeaveGame
  BY <1>3, ViewersLeave
<1>4. CASE OnSoumatou
  BY <1>4, ViewersSoumatou
<1>5. CASE OnDuelStart
  BY <1>5, ViewersStart
<1>6. CASE OnEvolve
  <2>1. Receive("Evolve")
    BY <1>6 DEF OnEvolve
  <2>2. Begun /\ queue[1].type = "Evolve"
    BY <1>1, <2>1
  <2>3. PICK e \in Events, p \in Seats : Evolves(e, p)
    BY <1>6, EvolveIs
  <2> DEFINE opens == engine.turn = Nobody
             events == Run(opens, e)
  <2>4. /\ events \in Seq(Messages)
        /\ \A i \in DOMAIN events : events[i].kind \in {"NewTurn", "NewPhase", "ReverseDeck"}
    <3>1. opens \in BOOLEAN
      OBVIOUS
    <3> HIDE DEF opens
    <3> QED BY <3>1, EventsRun
  <2>5. PICK turns \in BOOLEAN, t \in Seats : Evolved(turns, t)
    BY <1>6, EvolveDoes
  <2>6. /\ Begun' /\ UNCHANGED <<observers, joined>>
        /\ \A c \in Observers : views'[c].pos = views[c].pos
    BY <1>0, <2>2, <2>5 DEF Evolved, Begun
  <2>7. PICK new : Shift(queue, queue', 1, new) /\ \A x \in new : x.type = "RecreateDuel"
    BY <2>5 DEF Evolved
  <2>8. \A x \in new : x.type \notin {"JoinGame", "LeaveGame"}
    BY <2>7
  <2>9. PICK s \in Seats : s = ToSeat(p)
    BY <1>0, WhoIsWho
  <2>10. PICK id \in Nat : id = questions + 1
    BY <1>0
  <2>11. Send(WinSends(events)) \/ Send(AskSends(events, s, id))
    BY <2>3, <2>9, <2>10 DEF Evolves
  <2> HIDE DEF events
  <2>12. Sorted(WinSends(events), Observers) /\ Sorted(AskSends(events, s, id), Observers)
    BY <1>0, <2>4, EventsSorted
  <2>13. PICK sends : Sorted(sends, Observers) /\ Send(sends)
    BY <2>11, <2>12
  <2> QED BY <2>2, <2>6, <2>7, <2>8, <2>13, ViewersSend
<1>7. CASE OnRetry
  <2>1. /\ Receive("Evolve") /\ Done(<<>>) /\ last_response # Nobody
        /\ engine' = [engine EXCEPT !.retries = @ + 1]
        /\ Send(RetrySends(last_response, last_select))
        /\ UNCHANGED <<observers, joined>>
    BY <1>7 DEF OnRetry, RetrySends
  <2>2. Begun /\ queue[1].type = "Evolve" /\ Shift(queue, queue', 1, {})
    BY <1>1, <2>1, Receives
  <2>3. PICK s \in Seats, id \in Nat \cup {Nobody} : s = last_response /\ id = last_select
    BY <1>0, <2>1 DEF Places
  <2>4. Begun'
    BY <1>0, <2>1, <2>2 DEF Begun, Engines
  <2>5. Send(RetrySends(s, id)) /\ Sorted(RetrySends(s, id), Observers)
    BY <1>0, <2>1, <2>3, SentSorted
  <2>6. \A c \in Observers : views'[c].pos = views[c].pos
    BY <1>0, <2>5, RetrySeen
  <2> DEFINE sends == RetrySends(s, id)
             new == {}
  <2>7. Sorted(sends, Observers) /\ Send(sends)
    BY <2>5
  <2>8. Shift(queue, queue', 1, new) /\ \A x \in new : x.type \notin {"JoinGame", "LeaveGame"}
    BY <2>2
  <2> HIDE DEF sends, new
  <2> QED BY <2>1, <2>2, <2>4, <2>6, <2>7, <2>8, ViewersSend
<1>8. CASE OnResponse
  <2>1. /\ Receive("Response")
        /\ UNCHANGED <<masked_messages, observers, engine, views, joined>>
        /\ Done(<<>>) \/ Done(<<[type |-> "Evolve"]>>)
    BY <1>8 DEF OnResponse
  <2>2. queue[1].type = "Response"
    BY <1>1, <2>1
  <2>3. PICK new : Shift(queue, queue', 1, new) /\ \A x \in new : x.type = "Evolve"
    <3> DEFINE y == [type |-> "Evolve"]
    <3>1. y \in Requests /\ y.type = "Evolve"
      BY RequestsMade
    <3>2. Shift(queue, queue', 1, {}) \/ Shift(queue, queue', 1, {y})
      BY <2>1, <3>1, Receives
    <3> HIDE DEF y
    <3> QED BY <3>1, <3>2
  <2> QED BY <2>1, <2>2, <2>3, ViewersQuiet
<1>9. CASE OnRecreateDuel
  <2>1. /\ Receive("RecreateDuel") /\ UNCHANGED <<observers, engine, joined>>
        /\ Send(NextSends)
        /\ Done(<<[type |-> "DuelStart", duel |-> Request.duel]>>)
    BY <1>9 DEF OnRecreateDuel, NextSends
  <2>2. Begun /\ Begun' /\ queue[1].type = "RecreateDuel"
    BY <1>1, <2>1 DEF Begun
  <2>3. Request.duel \in Nat \ {0}
    BY <2>1, Receives, RequestFields DEF Receive
  <2> DEFINE x == [type |-> "DuelStart", duel |-> Request.duel]
  <2>4. x \in Requests /\ x.type = "DuelStart" /\ Done(<<x>>)
    BY <2>1, <2>3, RequestsMade
  <2> HIDE DEF x
  <2>5. Shift(queue, queue', 1, {x})
    BY <2>1, <2>4, Receives
  <2>6. Sorted(NextSends, Observers) /\ \A c \in Observers : views'[c].pos = views[c].pos
    BY <1>0, <2>1, SentSorted, NextSeen
  <2> DEFINE sends == NextSends
             new == {x}
  <2>7. Sorted(sends, Observers) /\ Send(sends)
    BY <2>1, <2>6
  <2>8. Shift(queue, queue', 1, new) /\ \A y \in new : y.type \notin {"JoinGame", "LeaveGame"}
    BY <2>4, <2>5
  <2> HIDE DEF sends, new
  <2> QED BY <2>1, <2>2, <2>6, <2>7, <2>8, ViewersSend
<1>10. CASE OnRequestField
  <2>1. /\ Receive("RequestField") /\ Done(<<>>)
        /\ UNCHANGED <<masked_messages, observers, engine, joined>>
        /\ \E w : views' = [views EXCEPT ![Request.from] = w] \/ views' = views
    BY <1>10 DEF OnRequestField
  <2>2. /\ queue[1].type = "RequestField" /\ Shift(queue, queue', 1, {}) /\ Request.from \in Seats
    BY <1>1, <2>1, Receives, RequestFields DEF Receive
  <2>3. \A c \in Watchers : views'[c] = views[c]
    BY <1>0, <2>1, <2>2
  <2> DEFINE new == {}
  <2>4. Shift(queue, queue', 1, new) /\ \A x \in new : FALSE
    BY <2>2
  <2> HIDE DEF new
  <2> QED BY <2>1, <2>2, <2>3, <2>4, ViewersQuiet
<1> QED BY <1>2, <1>3, <1>4, <1>5, <1>6, <1>7, <1>8, <1>9, <1>10 DEF Actor

-----------------------------------------------------------------------------
(* The invariant holds, and what follows.                                   *)

Inv == Types /\ Duel /\ Viewers

\* It is inductive.
LEMMA InvHolds == Spec => []Inv
<1>1. Init => Inv
  <2> SUFFICES ASSUME Init PROVE Inv
    OBVIOUS
  <2>0. /\ 0 \in Keys /\ 0 \in Seats /\ OnTime \in Watchers /\ Nobody \notin Nat /\ Nobody # OnTime
        /\ Nobody \notin Seats /\ OnTime \notin Late /\ MaxDuels \in Nat /\ MaxDuels > 0
    BY HistoryAssumption DEF Keys, Seats, Watchers
  <2> DEFINE x == [type |-> "DuelStart", duel |-> 1]
  <2>1. x \in Requests /\ x.type = "DuelStart" /\ x.duel = 1
    <3>1. 1 \in Nat \ {0}
      OBVIOUS
    <3> QED BY <3>1, RequestsMade
  <2>2. queue = <<x>>
    BY DEF Init
  <2> HIDE DEF x
  <2>3. queue \in Seq(Requests) /\ DOMAIN queue = {1} /\ queue[1] = x /\ queue # <<>>
    BY <2>1, <2>2
  <2>4. Types
    <3>1. Blank \in ViewTypes /\ [Blank EXCEPT !.pos = 0] \in ViewTypes
      BY <2>0 DEF Blank, ViewTypes, Places
    <3>2. views \in [Clients -> ViewTypes]
      BY <3>1 DEF Init
    <3>3. engine \in Engines /\ attachment \in Attachments
      BY DEF Init, NewEngine, NoAttachment, Engines, Attachments, Places, Phases
    <3>4. observers \in [Keys -> Watchers \cup {Nobody}] /\ gate \in [Seats -> BOOLEAN]
      BY <2>0 DEF Init
    <3>5. TypeOK
      BY <2>0, <3>2, <3>3, <3>4, TypeIs DEF Init, Places
    <3>6. 1 <= MaxDuels
      BY <2>0
    <3> QED BY <2>1, <2>3, <3>5, <3>6 DEF Types
  <2>5. /\ engine.ended /\ engine.duel = 0 /\ attachment.reversed = FALSE /\ last_response = Nobody
        /\ \A s \in Seats : ~gate[s]
    BY DEF Init, NewEngine, NoAttachment
  <2>6. Duel
    <3>1. OneAtATime
      BY <2>1, <2>3, <2>5 DEF OneAtATime, Work
    <3>2. WellNoted
      BY <2>3, <2>5 DEF WellNoted, Begun
    <3>3. Screens
      BY <2>5 DEF Screens, Seen, Asked, Put, Begun
    <3> QED BY <3>1, <3>2, <3>3 DEF Duel
  <2>7. Viewers
    <3>1. ~Begun
      BY <2>5 DEF Begun
    <3>2. masked_messages \in Records
      BY FreshRecord DEF Init
    <3>3. observers[0] = OnTime /\ \A k \in Keys : k # 0 => observers[k] = Nobody
      BY <2>0 DEF Init
    <3>4. CaughtUp
      BY <2>0, <3>3, HistoryAssumption DEF CaughtUp
    <3>5. PlaceKept
      <4>1. views[OnTime].pos = 0
        BY <2>0 DEF Init, Blank, Clients
      <4> QED BY <3>3, <4>1 DEF PlaceKept
    <3>6. Observers = {OnTime}
      BY <2>0, <3>3 DEF Observers
    <3>7. masked_messages = <<Message("HsPlayerEnter", Nobody), Message("DuelStart", Nobody)>>
      BY DEF Init
    <3>8. Watching
      BY <2>1, <2>3, <3>3, <3>6, <3>7 DEF Watching
    <3> QED BY <3>1, <3>2, <3>4, <3>5, <3>8 DEF Viewers, OnRecord
  <2> QED BY <2>4, <2>6, <2>7 DEF Inv
<1>2. Inv /\ [Next]_vars => Inv'
  <2>1. ASSUME Inv, Actor PROVE Inv'
    <3>1. Types /\ Duel /\ Viewers /\ Watching /\ masked_messages \in Records
      BY <2>1 DEF Inv, Viewers, OnRecord
    <3>2. Types'
      BY <2>1, <3>1, TypesActor
    <3>3. Duel'
      BY <2>1, <3>1, DuelActor
    <3>4. Viewers'
      BY <2>1, <3>1, <3>2, ViewersActor
    <3> QED BY <3>2, <3>3, <3>4 DEF Inv
  <2>2. ASSUME Inv, \/ \E s \in Seats : PlayerAnswers(s) \/ PlayerReconnects(s)
                    \/ \E c \in Late : LateJoins(c)
                    \/ \E k \in Keys : LateLeaves(k)
        PROVE  Inv'
    <3>1. Types' /\ Duel' /\ Viewers'
      BY <2>2, TypesClients, DuelClients, ViewersClients DEF Inv
    <3> QED BY <3>1 DEF Inv
  <2>3. ASSUME Inv, UNCHANGED vars PROVE Inv'
    <3>1. /\ UNCHANGED <<masked_messages, observers, first, last_response, last_select, gate, attachment>>
          /\ UNCHANGED <<engine, questions, queue, views, joined, requests>>
      BY <2>3 DEF vars
    <3>2. Types'
      BY <2>3, <3>1 DEF Inv, Types, TypeOK
    <3>3. Duel'
      <4>1. OneAtATime' /\ WellNoted'
        BY <2>3, <3>1 DEF Inv, Duel, OneAtATime, WellNoted, Work, Begun, Evolving
      <4>2. Screens'
        BY <2>3, <3>1 DEF Inv, Duel, Screens, Seen, Asked, Put, Begun, Heard, Queued, ToCore
      <4> QED BY <4>1, <4>2 DEF Duel
    <3>4. Viewers'
      <4>1. OnRecord' /\ CaughtUp' /\ PlaceKept'
        BY <2>3, <3>1 DEF Inv, Viewers, OnRecord, CaughtUp, PlaceKept, Begun, SameAs, Replaying
      <4>2. Watching'
        BY <2>3, <3>1 DEF Inv, Viewers, Watching, Begun, Observers
      <4> QED BY <4>1, <4>2 DEF Viewers
    <3> QED BY <3>2, <3>3, <3>4 DEF Inv
  <2> QED BY <2>1, <2>2, <2>3 DEF Next
<1> QED BY <1>1, <1>2, PTL DEF Spec

\* Whoever watches sees the same duel from the place he was given, however late he came and
\* however often a place changed hands on the way: what soumatou replays of the Sender's
\* record, on whatever screen, is the screen of one who was there from the beginning.
THEOREM ScreensAlwaysSame == Spec => []SameScreen
<1>1. Inv => SameScreen
  <2> SUFFICES ASSUME Inv PROVE SameScreen
    OBVIOUS
  <2>1. TypeOK /\ CaughtUp /\ PlaceKept
    BY DEF Inv, Types, Viewers
  <2> QED BY <2>1, CatchingUp DEF SameScreen
<1> QED BY <1>1, InvHolds, PTL

\* The screen of a player who has a duel on it shows the duel the engine plays, also when
\* reconnect rebuilt it from what it noted.
THEOREM PlayersAlwaysSeeTheDuel == Spec => []PlayersSeeTheDuel
<1>1. Inv => PlayersSeeTheDuel
  <2> SUFFICES ASSUME Inv, NEW s \in Seats, views[s].role # Nobody, engine.turn # Nobody, ~engine.ended
               PROVE  /\ views[s].role = ToCore(s)
                      /\ <<views[s].turn, views[s].phase, views[s].reversed>>
                           = <<engine.turn, engine.phase, engine.reversed>>
    BY DEF PlayersSeeTheDuel
  <2>1. Seen(s)
    BY DEF Inv, Duel, Screens
  <2> QED BY <2>1 DEF Seen
<1> QED BY <1>1, InvHolds, PTL

\* At rest the player whose gate is open has the engine's question before him, also after he
\* has asked for the field.
THEOREM QuestionAlwaysOnScreen == Spec => []QuestionOnScreen
<1>1. Inv => QuestionOnScreen
  <2> SUFFICES ASSUME Inv, queue = <<>>, NEW s \in Seats, gate[s], ~engine.ended
               PROVE  views[s].prompt = questions
    BY DEF QuestionOnScreen
  <2>1. Put(s)
    BY DEF Inv, Duel, Screens
  <2> QED BY <2>1 DEF Put, Queued
<1> QED BY <1>1, InvHolds, PTL
=============================================================================

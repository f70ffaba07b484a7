----------------------------- MODULE TimeBudget -----------------------------
(***************************************************************************)
(* The seconds of a timed duel: the plugins time_limit, time_backed and     *)
(* time_compensator, which share the fields of a player and the count of    *)
(* seconds elapsed.  SingleDuel lets any tick be the last; here they are    *)
(* counted.                                                                 *)
(*                                                                          *)
(* A timer task puts one tick a second into the mailbox.  Between a prompt  *)
(* and the client's TimeConfirm the seconds are latency, which the          *)
(* compensator may pay from a wallet; from there to the Response they are   *)
(* charged to the clock.  A meaningful answer puts seconds back, from a     *)
(* budget per turn, and into the wallet.  The three handlers of Response    *)
(* have the same priority, so the order in which they run is the linker's.  *)
(***************************************************************************)
EXTENDS Integers, Sequences, FiniteSets, Functions

CONSTANTS
  Players,     \* the seats that play
  Nobody,      \* Option::None
  Configs,     \* configurations of the plugins, see ConfigRecords
  U16,         \* the largest u16
  MaxAsks,     \* bound: prompts of the engine
  MaxTurns,    \* bound: turns
  MaxQueue     \* bound: clients send only while the mailbox is shorter

\* host_info.time_limit, time_backed's add_time_after_operation and
\* max_add_time_each_turn, time_compensator's add_small_time_deposit_after_operation,
\* ignore_small_time_under_this_duration and initial_time_balance.
ConfigRecords == [limit : 1..U16, add : 0..U16, max : 0..U16,
                  deposit : 0..U16, under : 0..U16, balance : -1..U16]

Plugins == {"limit", "backed", "compensator"}
Orders == {o \in [1..3 -> Plugins] : {o[i] : i \in 1..3} = Plugins}

ASSUME TimeBudgetAssumption ==
  /\ Nobody \notin Players
  /\ IsFiniteSet(Players)
  /\ U16 \in Nat /\ U16 > 1
  /\ MaxAsks \in Nat /\ MaxTurns \in Nat \ {0} /\ MaxQueue \in Nat
  /\ Configs \subseteq ConfigRecords

VARIABLES
  config,        \* the configuration of this duel
  order,         \* the order of the handlers of Response
  time,          \* per player: time_limit, time_backed, time_compensator
  time_elapsed,  \* TimeLimit::time_elapsed
  last_response, \* duel.last_response
  gate,          \* per player: the message AllowMessage admits
  owes,          \* per player: what the client sends next
  queue,         \* the mailbox
  over,          \* Timeout has been handled
  asks, turns,   \* prompts and turns so far
  seconds,       \* ticks counted since the turn began
  returned,      \* seconds put back on clocks since the turn began
  deposited,     \* seconds put into wallets since the turn began
  forgiven       \* seconds that were due on a clock and not on it, since the turn began

vars == <<config, order, time, time_elapsed, last_response, gate, owes, queue, over, asks, turns,
          seconds, returned, deposited, forgiven>>
history == <<seconds, returned, deposited, forgiven>>

Capped(n) == IF n > U16 THEN U16 ELSE n     \* saturating_add

Floored(n) == IF n < 0 THEN 0 ELSE n        \* saturating_sub
AsU16(n) == n % (U16 + 1)                   \* as u16

\* reset_time_backed: 0 stands for the whole limit, unless nothing is added at all.
Budget(c) == IF c.max # 0 THEN c.max ELSE IF c.add > 0 THEN c.limit ELSE 0
\* on_new_turn of time_compensator: -1 stands for the limit.
Wallet(c) == IF c.balance < 0 THEN c.limit ELSE c.balance

Fresh(c) == [limit |-> c.limit, backed |-> Budget(c), compensator |-> Wallet(c)]

\* A duel's first turn has begun and nobody has been asked yet.
Init ==
  /\ config \in Configs
  /\ order \in Orders
  /\ time = [p \in Players |-> Fresh(config)]
  /\ time_elapsed = 0
  /\ last_response = Nobody
  /\ gate = [p \in Players |-> "None"]
  /\ owes = [p \in Players |-> "None"]
  /\ queue = <<[type |-> "Evolve"]>>
  /\ over = FALSE
  /\ asks = 0
  /\ turns = 1
  /\ seconds = 0 /\ returned = 0 /\ deposited = 0 /\ forgiven = 0

-----------------------------------------------------------------------------
(* The timer task and the clients.                                          *)
Post(request) == ~over /\ Len(queue) < MaxQueue /\ queue' = Append(queue, request)

Ticks == {i \in DOMAIN queue : queue[i].type = "timer_tick"}

\* At most one tick waits in the mailbox: the actor empties it many times a second.
TimerTicks ==
  /\ ~over
  /\ Ticks = {}
  /\ queue' = Append(queue, [type |-> "timer_tick"])
  /\ UNCHANGED <<config, order, time, time_elapsed, last_response, gate, owes, over, asks, turns,
                 history>>

\* A client confirms a TimeLimit when it sees it and answers when its user has chosen.
ClientSends(p) ==
  /\ owes[p] # "None"
  /\ Post([type |-> owes[p], from |-> p])
  /\ owes' = [owes EXCEPT ![p] = IF @ = "TimeConfirm" THEN "Response" ELSE "None"]
  /\ UNCHANGED <<config, order, time, time_elapsed, last_response, gate, over, asks, turns,
                 history>>

\* The question is answered before its TimeLimit is confirmed: the gate drops it.
ClientAnswersEarly(p) ==
  /\ owes[p] = "TimeConfirm"
  /\ Post([type |-> "Response", from |-> p])
  /\ UNCHANGED <<config, order, time, time_elapsed, last_response, gate, owes, over, asks, turns,
                 history>>

-----------------------------------------------------------------------------
(* The actor.                                                               *)
Request == Head(queue)
Receive(type) == ~over /\ queue # <<>> /\ Request.type = type
Done(more) == queue' = Tail(queue) \o more

\* Mutant of OnTimerTick: the seconds count from the client's TimeConfirm on.
TicksOnceConfirmed ==
  /\ Receive("timer_tick")
  /\ IF last_response = Nobody
     THEN Done(<<>>) /\ UNCHANGED <<time_elapsed, seconds>>
     ELSE IF gate[last_response] # "Response"
     THEN Done(<<>>) /\ UNCHANGED <<time_elapsed, seconds>>
     ELSE /\ time_elapsed' = time_elapsed + 1
          /\ seconds' = seconds + 1
          /\ Done(IF time_elapsed' >= time[last_response].limit
                  THEN <<[type |-> "Timeout", player |-> last_response]>> ELSE <<>>)
  /\ UNCHANGED <<config, order, time, last_response, gate, owes, over, asks, turns, returned,
                 deposited, forgiven>>

\* timer_tick: another second for whoever was asked last.
OnTimerTick ==
  /\ Receive("timer_tick")
  /\ IF last_response = Nobody
     THEN Done(<<>>) /\ UNCHANGED <<time_elapsed, seconds>>
     ELSE /\ time_elapsed' = time_elapsed + 1
          /\ seconds' = seconds + 1
          /\ Done(IF time_elapsed' >= time[last_response].limit
                  THEN <<[type |-> "Timeout", player |-> last_response]>> ELSE <<>>)
  /\ UNCHANGED <<config, order, time, last_response, gate, owes, over, asks, turns, returned,
                 deposited, forgiven>>

\* The gate drops what it does not admit.
Refused ==
  /\ Receive("TimeConfirm") \/ Receive("Response")
  /\ gate[Request.from] # Request.type
  /\ Done(<<>>)
  /\ UNCHANGED <<config, order, time, time_elapsed, last_response, gate, owes, over, asks, turns,
                 history>>

\* The wallet pays for a short latency.
Compensates(t, elapsed) ==
  AsU16(elapsed) < config.under /\ AsU16(elapsed) <= t.compensator

\* What saturating_sub forgives of the seconds it takes off a clock.
Beyond(t, elapsed) == Floored(AsU16(elapsed) - t.limit)

\* Mutant of Confirmed: what is charged stays in the count.
ConfirmedKept(t, elapsed) ==
  IF Compensates(t, elapsed)
  THEN [time |-> [t EXCEPT !.compensator = @ - AsU16(elapsed)], elapsed |-> 0, forgiven |-> 0]
  ELSE [time |-> [t EXCEPT !.limit = Floored(@ - AsU16(elapsed))], elapsed |-> elapsed,
        forgiven |-> Beyond(t, elapsed)]

\* on_time_confirm of time_compensator (priority 2, first), then of time_limit.
Confirmed(t, elapsed) ==
  IF Compensates(t, elapsed)
  THEN [time |-> [t EXCEPT !.compensator = @ - AsU16(elapsed)], elapsed |-> 0, forgiven |-> 0]
  ELSE [time |-> [t EXCEPT !.limit = Floored(@ - AsU16(elapsed))], elapsed |-> 0,
        forgiven |-> Beyond(t, elapsed)]

OnTimeConfirm ==
  /\ Receive("TimeConfirm")
  /\ LET p == Request.from IN
     /\ gate[p] = "TimeConfirm"
     /\ IF last_response # p THEN UNCHANGED <<time, time_elapsed, gate, forgiven>>
        ELSE /\ gate' = [gate EXCEPT ![p] = "Response"]
             /\ time' = [time EXCEPT ![p] = Confirmed(@, time_elapsed).time]
             /\ time_elapsed' = Confirmed(time[p], time_elapsed).elapsed
             /\ forgiven' = forgiven + Confirmed(time[p], time_elapsed).forgiven
  /\ Done(<<>>)
  /\ UNCHANGED <<config, order, last_response, owes, over, asks, turns, seconds, returned,
                 deposited>>

\* The handlers of Response, each on the record
\* a |-> [time, elapsed, returned, deposited, forgiven].
Charge(a) == [a EXCEPT !.time.limit = Floored(@ - AsU16(a.elapsed)), !.elapsed = 0,
                       !.forgiven = @ + Beyond(a.time, a.elapsed)]

\* The condition time_backed and time_compensator have in common.
MayRecover(t) == t.backed > 0 /\ t.limit < config.limit

\* What saturating_add lets into a clock or a wallet.
PutIn(purse, add) == Capped(purse + add) - purse

\* Mutant of GiveBack: the budget of the turn is not charged.
GiveAway(a) ==
  IF ~MayRecover(a.time) THEN a
  ELSE [a EXCEPT !.time.limit = Capped(@ + config.add),
                 !.returned = @ + PutIn(a.time.limit, config.add)]

GiveBack(a) ==
  IF ~MayRecover(a.time) THEN a
  ELSE [a EXCEPT !.time.limit = Capped(@ + config.add), !.time.backed = Floored(@ - config.add),
                 !.returned = @ + PutIn(a.time.limit, config.add)]
Deposit(a) ==
  IF ~MayRecover(a.time) THEN a
  ELSE [a EXCEPT !.time.compensator = Capped(@ + config.deposit),
                 !.deposited = @ + PutIn(a.time.compensator, config.deposit)]

\* time_limit charges every answer, the other two reward a meaningful one.
Handle(plugin, a, meaningful) ==
  IF plugin = "limit" THEN Charge(a)
  ELSE IF ~meaningful THEN a
  ELSE IF plugin = "backed" THEN GiveBack(a) ELSE Deposit(a)

Answered(a, meaningful) ==
  Handle(order[3], Handle(order[2], Handle(order[1], a, meaningful), meaningful), meaningful)

\* on_response: the gate closes, the engine is to go on; then the plugins.
OnResponse ==
  /\ Receive("Response")
  /\ LET p == Request.from IN
     /\ gate[p] = "Response"
     /\ gate' = [gate EXCEPT ![p] = "None"]
     /\ \E meaningful \in BOOLEAN :
          LET a == Answered([time |-> time[p], elapsed |-> time_elapsed,
                             returned |-> returned, deposited |-> deposited,
                             forgiven |-> forgiven], meaningful) IN
          /\ time' = [time EXCEPT ![p] = a.time]
          /\ time_elapsed' = a.elapsed
          /\ returned' = a.returned
          /\ deposited' = a.deposited
          /\ forgiven' = a.forgiven
  /\ Done(<<[type |-> "Evolve"]>>)
  /\ UNCHANGED <<config, order, last_response, owes, over, asks, turns, seconds>>

\* gm::NewTurn: clocks, budgets and wallets are filled up, the count starts anew.
NewTurn ==
  /\ turns < MaxTurns
  /\ turns' = turns + 1
  /\ time' = [p \in Players |-> Fresh(config)]
  /\ time_elapsed' = 0
  /\ seconds' = 0 /\ returned' = 0 /\ deposited' = 0 /\ forgiven' = 0

\* The engine asks p, perhaps in a new turn; set_waiting does not touch the count.
\* Retry asks the same player again.
OnEvolve ==
  /\ Receive("Evolve")
  /\ asks < MaxAsks
  /\ asks' = asks + 1
  /\ NewTurn \/ UNCHANGED <<time, time_elapsed, turns, history>>
  /\ \E p \in Players :
       /\ last_response' = p
       /\ gate' = [gate EXCEPT ![p] = "TimeConfirm"]
       /\ owes' = [owes EXCEPT ![p] = "TimeConfirm"]
  /\ Done(<<>>)
  /\ UNCHANGED <<config, order, over>>

\* on_timeout: the duel is lost, whoever has answered meanwhile.
OnTimeout ==
  /\ Receive("Timeout")
  /\ last_response' = Nobody
  /\ over' = TRUE
  /\ queue' = <<>>
  /\ UNCHANGED <<config, order, time, time_elapsed, gate, owes, asks, turns, history>>

Actor == OnTimerTick \/ Refused \/ OnTimeConfirm \/ OnResponse \/ OnEvolve \/ OnTimeout

Next == TimerTicks \/ Actor \/ \E p \in Players : ClientSends(p) \/ ClientAnswersEarly(p)

Spec == Init /\ [][Next]_vars

\* The actor and the timer are tasks of a fair scheduler; nothing is assumed of clients.
FairSpec == Spec /\ WF_vars(Actor) /\ WF_vars(TimerTicks)

-----------------------------------------------------------------------------
(* Properties.                                                              *)

Times == [limit : 0..U16, backed : 0..U16, compensator : 0..U16]

\* Every variable has its type.
TypeOK ==
  /\ config \in Configs
  /\ order \in Orders
  /\ time \in [Players -> Times]
  /\ time_elapsed \in Nat
  /\ last_response \in Players \cup {Nobody}
  /\ gate \in [Players -> {"None", "TimeConfirm", "Response"}]
  /\ owes \in [Players -> {"None", "TimeConfirm", "Response"}]
  /\ queue \in Seq([type : {"TimeConfirm", "Response"}, from : Players]
                     \cup [type : {"Timeout"}, player : Players]
                     \cup [type : {"Evolve", "timer_tick"}])
  /\ over \in BOOLEAN
  /\ asks \in 0..MaxAsks
  /\ turns \in 1..MaxTurns
  /\ seconds \in Nat /\ returned \in Nat /\ deposited \in Nat /\ forgiven \in Nat

Clocks  == SumFunction([p \in Players |-> time[p].limit])
Wallets == SumFunction([p \in Players |-> time[p].compensator])
Seats   == Cardinality(Players)

\* Every second of a turn is counted once: it is still in the count, was paid by a
\* wallet, has been taken off a clock or was forgiven, whatever the order of the handlers
\* and whichever of two messages of the client it fell between.
SecondsCountOnce ==
  seconds = time_elapsed + forgiven
            + (Seats * Wallet(config) + deposited - Wallets)
            + (Seats * config.limit + returned - Clocks)

\* A question forgives one second at most until somebody is timed out: the second that ends
\* between an answer and the next question is held against the clock of the one who has
\* answered, and charged to the clock of the one who is asked, which may be used up.
TimingOut == over \/ \E i \in DOMAIN queue : queue[i].type = "Timeout"

OneSecondForgiven == ~TimingOut => forgiven <= asks

\* Putting seconds back does not fill a clock beyond the limit of the duel, up to the
\* step in which they are put back (time_backed checks the clock before it adds).
ClockWithinLimit ==
  \A p \in Players : time[p].limit < config.limit + (IF config.add = 0 THEN 1 ELSE config.add)

\* "without letting a single turn extend forever" (time_backed): what a turn puts back on
\* the clocks stays within the budgets rounded up to whole steps, and the wallets get at
\* most twice as many deposits and one, whatever the order of the handlers; by
\* SecondsCountOnce a turn then ends after a number of seconds known beforehand.
Steps == (Budget(config) + config.add - 1) \div config.add

TurnIsBounded ==
  config.add > 0 => /\ returned <= Seats * Steps * config.add
                    /\ deposited <= Seats * (2 * Steps + 1) * config.deposit

\* A client that does not answer loses: the engine's question is answered or the time of
\* the player runs out.
QuestionIsSettled ==
  \A p \in Players : (gate[p] # "None") ~> (gate[p] = "None" \/ over)

\* The account of seconds: none charged twice, one a question forgiven, no clock above its
\* limit, and every number within the width the code stores it in.
SecondsAccounted == TypeOK /\ SecondsCountOnce /\ OneSecondForgiven /\ ClockWithinLimit
=============================================================================

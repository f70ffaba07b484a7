-------------------------- MODULE TimeBudgetProofs --------------------------
(***************************************************************************)
(* Proofs about TimeBudget, for every number of players, configuration,     *)
(* order of the handlers and width of the counters.                         *)
(*                                                                          *)
(* The account of seconds is a sum over the players, so the proofs start    *)
(* from what a sum is: SumFunction of the library is a fold, a recursive    *)
(* function over the subsets of its domain taken with CHOOSE.  That there   *)
(* is one is shown in FoldFacts, and SumChanges what happens to it when one *)
(* player's clock changes.  Answering then follows the three handlers of    *)
(* Response in each of their six orders, and the lemmas named Pace follow   *)
(* the mailbox: a second is held against the clock of whoever was asked, or *)
(* is the one second between an answer and the next question.               *)
(***************************************************************************)
EXTENDS TimeBudget, FoldFacts

-----------------------------------------------------------------------------
(* Sums over the players.                                                   *)

\* A sum is at most the number of its terms times what each is at most.
LEMMA SumAtMost ==
  ASSUME NEW T, IsFiniteSet(T), NEW f \in [T -> Int], NEW c \in Int, \A x \in T : f[x] <= c
  PROVE  SumFunction(f) \in Int /\ SumFunction(f) <= Cardinality(T) * c
<1> DEFINE a == Adder(f, T)
           Good == {s \in SUBSET T : a[s] <= Cardinality(s) * c}
<1>1. /\ SumFunction(f) = a[T]
      /\ \A s \in SUBSET T : a[s] \in Int
      /\ a[{}] = 0
      /\ \A s \in SUBSET T : \A x \in s : a[s] = f[x] + a[s \ {x}]
  BY SumSplits
<1> HIDE DEF a
<1>2. \A s \in SUBSET T : IsFiniteSet(s) /\ Cardinality(s) \in Nat
  BY FS_Subset, FS_CardinalityType
<1>3. {} \in Good
  BY <1>1, FS_EmptySet
<1>4. ASSUME NEW s \in SUBSET T, NEW x \in s, s \ {x} \in Good PROVE s \in Good
  <2>1. PICK n \in Nat : n = Cardinality(s \ {x})
    BY <1>2
  <2>2. Cardinality(s) = n + 1
    BY <1>2, <2>1, FS_RemoveElement
  <2>3. PICK r \in Int : r = a[s \ {x}]
    BY <1>1
  <2>4. r <= n * c
    BY <1>4, <2>1, <2>3
  <2>5. f[x] \in Int /\ f[x] <= c
    OBVIOUS
  <2>6. (n + 1) * c = n * c + c /\ n * c \in Int
    OBVIOUS
  <2>7. a[s] = f[x] + r
    BY <1>1, <2>3
  <2> QED BY <2>2, <2>4, <2>5, <2>6, <2>7
<1>5. T \in Good
  <2> HIDE DEF Good
  <2>1. Good \in SUBSET SUBSET T
    BY DEF Good
  <2> QED BY <2>1, <1>3, <1>4, Growing
<1> QED BY <1>1, <1>5

\* The sum of a function, taken at one place of its domain.
LEMMA SumAt ==
  ASSUME NEW T, IsFiniteSet(T), NEW f \in [T -> Int], NEW p \in T
  PROVE  /\ SumFunction(f) = Adder(f, T)[T]
         /\ Adder(f, T)[T \ {p}] \in Int
         /\ Adder(f, T)[T] = f[p] + Adder(f, T)[T \ {p}]
<1> DEFINE a == Adder(f, T)
<1>1. /\ SumFunction(f) = a[T]
      /\ \A s \in SUBSET T : a[s] \in Int
      /\ \A s \in SUBSET T : \A x \in s : a[s] = f[x] + a[s \ {x}]
  BY SumSplits
<1> HIDE DEF a
<1>2. T \in SUBSET T /\ T \ {p} \in SUBSET T
  OBVIOUS
<1>3. SumFunction(f) = a[T] /\ a[T \ {p}] \in Int /\ a[T] = f[p] + a[T \ {p}]
  BY <1>1, <1>2
<1> QED BY <1>3 DEF a

\* What changes at one place changes the sum by as much.
LEMMA SumChanges ==
  ASSUME NEW T, IsFiniteSet(T), NEW f \in [T -> Int], NEW g \in [T -> Int],
         NEW p \in T, \A x \in T \ {p} : g[x] = f[x]
  PROVE  /\ SumFunction(f) \in Int /\ SumFunction(g) \in Int
         /\ SumFunction(g) = SumFunction(f) + (g[p] - f[p])
<1>1. /\ SumFunction(f) = Adder(f, T)[T]
      /\ Adder(f, T)[T \ {p}] \in Int
      /\ Adder(f, T)[T] = f[p] + Adder(f, T)[T \ {p}]
  BY SumAt, Zenon
<1>2. /\ SumFunction(g) = Adder(g, T)[T]
      /\ Adder(g, T)[T \ {p}] \in Int
      /\ Adder(g, T)[T] = g[p] + Adder(g, T)[T \ {p}]
  BY SumAt, Zenon
<1>3. Adder(f, T)[T \ {p}] = Adder(g, T)[T \ {p}]
  BY SameSum
<1>4. PICK r \in Int : r = Adder(f, T)[T \ {p}]
  BY <1>1
<1>5. PICK u \in Int, v \in Int : u = f[p] /\ v = g[p]
  OBVIOUS
<1>6. SumFunction(f) = u + r /\ SumFunction(g) = v + r
  BY <1>1, <1>2, <1>3, <1>4, <1>5
<1>7. SumFunction(f) \in Int /\ SumFunction(g) \in Int
  BY <1>6
<1>8. v + r = (u + r) + (v - u)
  OBVIOUS
<1> QED BY <1>5, <1>6, <1>7, <1>8

-----------------------------------------------------------------------------
(* The invariant.                                                           *)
Requests == [type : {"TimeConfirm", "Response"}, from : Players]
              \cup [type : {"Timeout"}, player : Players]
              \cup [type : {"Evolve", "timer_tick"}]

At(type) == {i \in DOMAIN queue : queue[i].type = type}

\* One tick waits at most, and behind a Timeout: no second is counted after the last.
Mailbox ==
  /\ \A i, j \in At("timer_tick") : i = j
  /\ \A i \in At("Timeout"), j \in At("timer_tick") : i < j

\* Either the engine is to go on or one player, the last one asked, is to send something.
OneQuestion ==
  ~over => /\ \A i, j \in At("Evolve") : i = j
           /\ At("Evolve") = {} <=> \E p \in Players : gate[p] # "None"
           /\ \A p \in Players : gate[p] # "None" => p = last_response

\* What has elapsed while nobody is timed out.  It is on the clock of the one who was asked,
\* but for the second that may have ended before the question.
InTime ==
  ~TimingOut =>
    /\ \A i \in At("Evolve") :
         time_elapsed \in 0..1 /\ (time_elapsed = 1 => \A j \in At("timer_tick") : i < j)
    /\ \A p \in Players :
         /\ gate[p] = "TimeConfirm" => /\ time_elapsed <= 1 \/ time_elapsed < time[p].limit
                                       /\ forgiven < asks
         /\ gate[p] = "Response" => time_elapsed = 0 \/ time_elapsed < time[p].limit
    /\ forgiven <= asks

\* as u16 changes nothing.
ElapsedFits == time_elapsed <= U16

\* The steps a budget b still has, those used up, and whether the clock has been charged
\* below the limit: what a deposit needs, and a step not used up may bring about once.
Rest(b) == (b + config.add - 1) \div config.add
Used(t) == Steps - Rest(t.backed)
Below(t) == IF t.limit < config.limit THEN 1 ELSE 0

Returns == SumFunction([p \in Players |-> Used(time[p])])
Deposits == SumFunction([p \in Players |-> 2 * Used(time[p]) + Below(time[p])])

PutInByStep ==
  config.add > 0 => /\ returned <= Returns * config.add
                    /\ deposited <= Deposits * config.deposit

Pace == Mailbox /\ OneQuestion /\ InTime /\ ElapsedFits
Account == SecondsCountOnce /\ ClockWithinLimit /\ PutInByStep

-----------------------------------------------------------------------------
(* Lemmas.                                                                  *)

\* What the actor leaves in the mailbox when it takes the first message.
LEMMA Taken ==
  ASSUME NEW R, NEW q \in Seq(R), q # <<>>
  PROVE  /\ Tail(q) \o <<>> \in Seq(R)
         /\ Len(Tail(q) \o <<>>) = Len(q) - 1
         /\ \A i \in 1..(Len(q) - 1) : (Tail(q) \o <<>>)[i] = q[i + 1]
<1>1. Tail(q) \in Seq(R) /\ Len(Tail(q)) = Len(q) - 1
  OBVIOUS
<1>2. \A i \in 1..(Len(q) - 1) : Tail(q)[i] = q[i + 1]
  OBVIOUS
<1>3. Tail(q) \o <<>> = Tail(q)
  BY <1>1
<1> QED BY <1>1, <1>2, <1>3

\* What it leaves when it puts one in.
LEMMA TakenAndSent ==
  ASSUME NEW R, NEW q \in Seq(R), q # <<>>, NEW r \in R
  PROVE  /\ Tail(q) \o <<r>> \in Seq(R)
         /\ Len(Tail(q) \o <<r>>) = Len(q)
         /\ \A i \in 1..(Len(q) - 1) : (Tail(q) \o <<r>>)[i] = q[i + 1]
         /\ (Tail(q) \o <<r>>)[Len(q)] = r
<1>1. PICK t \in Seq(R) : t = Tail(q) /\ Len(t) = Len(q) - 1
  <2>1. Tail(q) \in Seq(R) /\ Len(Tail(q)) = Len(q) - 1
    OBVIOUS
  <2> QED BY <2>1
<1>2. \A i \in 1..(Len(q) - 1) : t[i] = q[i + 1]
  BY <1>1
<1>3. Len(q) \in Nat /\ Len(q) = Len(t) + 1
  BY <1>1
<1>4. (t \o <<r>>)[Len(t) + 1] = r
  OBVIOUS
<1>5. \A i \in 1..Len(t) : (t \o <<r>>)[i] = t[i]
  OBVIOUS
<1>6. t \o <<r>> \in Seq(R) /\ Len(t \o <<r>>) = Len(t) + 1
  OBVIOUS
<1> QED BY <1>1, <1>2, <1>3, <1>4, <1>5, <1>6

\* A message put in goes last.
LEMMA Appended ==
  ASSUME NEW R, NEW q \in Seq(R), NEW r \in R
  PROVE  /\ Append(q, r) \in Seq(R)
         /\ Len(Append(q, r)) = Len(q) + 1
         /\ \A i \in 1..Len(q) : Append(q, r)[i] = q[i]
         /\ Append(q, r)[Len(q) + 1] = r
OBVIOUS

\* A step of a budget is used up.
LEMMA StepUsed ==
  ASSUME NEW add \in Nat \ {0}, NEW b \in Nat \ {0}
  PROVE  /\ (b + add - 1) \div add \in Nat
         /\ (Floored(b - add) + add - 1) \div add = ((b + add - 1) \div add) - 1
<1>1. (b + add - 1) \div add \in Nat
  OBVIOUS
<1>2. CASE b <= add
  <2>1. Floored(b - add) = 0
    BY <1>2 DEF Floored
  <2>2. (0 + add - 1) \div add = 0
    OBVIOUS
  <2>3. (b + add - 1) \div add = 1
    BY <1>2
  <2> QED BY <2>1, <2>2, <2>3, <1>1
<1>3. CASE b > add
  <2>1. Floored(b - add) = b - add
    BY <1>3 DEF Floored
  <2>2. (b - add + add - 1) \div add = ((b + add - 1) \div add) - 1
    BY <1>3
  <2> QED BY <2>1, <2>2, <1>1
<1> QED BY <1>2, <1>3

\* Products of the bounds.
LEMMA StepPaidFor ==
  ASSUME NEW c \in Nat, NEW m \in Int, NEW n \in Int, NEW k \in 0..1, m + k <= n,
         NEW x \in Int, NEW y \in Int, x <= m * c, y <= x + (IF k = 1 THEN c ELSE 0)
  PROVE  y <= n * c
<1>1. y <= (m + k) * c
  <2>1. CASE k = 0
    BY <2>1
  <2>2. CASE k = 1
    <3>1. (m + 1) * c = m * c + c /\ m * c \in Int
      OBVIOUS
    <3> QED BY <2>2, <3>1
  <2> QED BY <2>1, <2>2
<1>2. (m + k) * c <= n * c
  OBVIOUS
<1>3. (m + k) * c \in Int /\ n * c \in Int
  OBVIOUS
<1> QED BY <1>1, <1>2, <1>3

-----------------------------------------------------------------------------
(* The records of the handlers of Response.                                 *)
Accounts == [time : Times, elapsed : Nat, returned : Nat, deposited : Nat, forgiven : Nat]

\* What the account of seconds balances.
Balance(a) == a.elapsed + a.forgiven + (a.deposited - a.time.compensator)
              + (a.returned - a.time.limit)

\* The configuration's numbers.
LEMMA ConfigTyped ==
  ASSUME config \in Configs
  PROVE  /\ config.limit \in 1..U16 /\ config.add \in 0..U16 /\ config.deposit \in 0..U16
         /\ config.under \in 0..U16
         /\ Budget(config) \in 0..U16 /\ Wallet(config) \in 0..U16
         /\ U16 \in Nat /\ U16 > 1
         /\ Fresh(config) \in Times
<1>1. config \in ConfigRecords
  BY TimeBudgetAssumption
<1>2. U16 \in Nat /\ U16 > 1
  BY TimeBudgetAssumption
<1>3. /\ config.limit \in 1..U16 /\ config.add \in 0..U16 /\ config.max \in 0..U16
      /\ config.deposit \in 0..U16 /\ config.under \in 0..U16 /\ config.balance \in -1..U16
  BY <1>1 DEF ConfigRecords
<1>4. Budget(config) \in 0..U16 /\ Wallet(config) \in 0..U16
  BY <1>2, <1>3 DEF Budget, Wallet
<1> QED BY <1>2, <1>3, <1>4 DEF Fresh, Times

\* Within the width of a u16 the conversion changes nothing.
LEMMA Narrow ==
  ASSUME U16 \in Nat, NEW n \in Nat, n <= U16
  PROVE  AsU16(n) = n
BY DEF AsU16

\* time_limit charges what has elapsed; what the clock does not have is forgiven.
LEMMA Charging ==
  ASSUME config \in Configs, NEW a \in Accounts, a.elapsed <= U16
  PROVE  /\ Charge(a) \in Accounts
         /\ Charge(a).elapsed = 0
         /\ Charge(a).time.limit = Floored(a.time.limit - a.elapsed)
         /\ Charge(a).time.backed = a.time.backed
         /\ Charge(a).time.compensator = a.time.compensator
         /\ Charge(a).returned = a.returned /\ Charge(a).deposited = a.deposited
         /\ Charge(a).forgiven = a.forgiven + Floored(a.elapsed - a.time.limit)
<1>1. U16 \in Nat /\ AsU16(a.elapsed) = a.elapsed
  <2>1. U16 \in Nat /\ a.elapsed \in Nat
    BY ConfigTyped DEF Accounts
  <2> QED BY <2>1, Narrow
<1>2. /\ a.time \in Times /\ a.elapsed \in Nat /\ a.forgiven \in Nat
      /\ a.time.limit \in 0..U16
  BY DEF Accounts, Times
<1>3. Charge(a) = [a EXCEPT !.time.limit = Floored(@ - a.elapsed), !.elapsed = 0,
                            !.forgiven = @ + Floored(a.elapsed - a.time.limit)]
  BY <1>1 DEF Charge, Beyond
<1>4. Floored(a.time.limit - a.elapsed) \in 0..U16 /\ Floored(a.elapsed - a.time.limit) \in Nat
  BY <1>1, <1>2 DEF Floored
<1> DEFINE l == Floored(a.time.limit - a.elapsed)
           f == a.forgiven + Floored(a.elapsed - a.time.limit)
<1>5. Charge(a) = [time |-> [limit |-> l, backed |-> a.time.backed,
                             compensator |-> a.time.compensator],
                   elapsed |-> 0, returned |-> a.returned, deposited |-> a.deposited,
                   forgiven |-> f]
  <2> HIDE DEF l, f
  <2>1. Charge(a) = [a EXCEPT !.time.limit = l, !.elapsed = 0, !.forgiven = f]
    BY <1>3 DEF l, f
  <2> QED BY <2>1, <1>2 DEF Accounts, Times
<1>6. l \in 0..U16 /\ f \in Nat
  BY <1>2, <1>4
<1> HIDE DEF l, f
<1>7. /\ Charge(a) \in Accounts
      /\ Charge(a).elapsed = 0 /\ Charge(a).time.limit = l
      /\ Charge(a).time.backed = a.time.backed
      /\ Charge(a).time.compensator = a.time.compensator
      /\ Charge(a).returned = a.returned /\ Charge(a).deposited = a.deposited
      /\ Charge(a).forgiven = f
  BY <1>2, <1>5, <1>6 DEF Accounts, Times
<1> QED BY <1>7 DEF l, f

\* time_backed puts a step of the budget back on the clock.
LEMMA GivingBack ==
  ASSUME config \in Configs, NEW a \in Accounts
  PROVE  /\ GiveBack(a) \in Accounts
         /\ GiveBack(a).elapsed = a.elapsed
         /\ GiveBack(a).time.compensator = a.time.compensator
         /\ GiveBack(a).deposited = a.deposited /\ GiveBack(a).forgiven = a.forgiven
         /\ GiveBack(a).returned
              = a.returned + (GiveBack(a).time.limit - a.time.limit)
         /\ GiveBack(a).time.limit >= a.time.limit
         /\ ~MayRecover(a.time) => GiveBack(a) = a
         /\ MayRecover(a.time) =>
              /\ GiveBack(a).time.limit <= a.time.limit + config.add
              /\ GiveBack(a).time.backed = Floored(a.time.backed - config.add)
<1>1. U16 \in Nat /\ config.add \in 0..U16
  BY ConfigTyped
<1>2. /\ a.time \in Times /\ a.elapsed \in Nat /\ a.returned \in Nat
      /\ a.time.limit \in 0..U16 /\ a.time.backed \in 0..U16
  BY DEF Accounts, Times
<1>3. CASE ~MayRecover(a.time)
  <2>1. GiveBack(a) = a
    BY <1>3 DEF GiveBack
  <2> QED BY <2>1, <1>2, <1>3
<1>4. CASE MayRecover(a.time)
  <2>1. GiveBack(a) = [a EXCEPT !.time.limit = Capped(@ + config.add),
                                !.time.backed = Floored(@ - config.add),
                                !.returned = @ + PutIn(a.time.limit, config.add)]
    BY <1>4 DEF GiveBack
  <2>2. /\ Capped(a.time.limit + config.add) \in 0..U16
        /\ Capped(a.time.limit + config.add) >= a.time.limit
        /\ Capped(a.time.limit + config.add) <= a.time.limit + config.add
        /\ Floored(a.time.backed - config.add) \in 0..U16
        /\ PutIn(a.time.limit, config.add) = Capped(a.time.limit + config.add) - a.time.limit
    BY <1>1, <1>2 DEF Floored, Capped, PutIn
  <2> DEFINE l == Capped(a.time.limit + config.add)
             b == Floored(a.time.backed - config.add)
             r == a.returned + PutIn(a.time.limit, config.add)
  <2>3. GiveBack(a) = [time |-> [limit |-> l, backed |-> b, compensator |-> a.time.compensator],
                       elapsed |-> a.elapsed, returned |-> r, deposited |-> a.deposited,
                       forgiven |-> a.forgiven]
    <3> HIDE DEF l, b, r
    <3>1. GiveBack(a) = [a EXCEPT !.time.limit = l, !.time.backed = b, !.returned = r]
      BY <2>1 DEF l, b, r
    <3> QED BY <3>1, <1>2 DEF Accounts, Times
  <2>4. /\ l \in 0..U16 /\ b \in 0..U16 /\ r \in Nat
        /\ l >= a.time.limit /\ l <= a.time.limit + config.add
        /\ r = a.returned + (l - a.time.limit)
    <3> HIDE DEF GiveBack
    <3> QED BY <1>1, <1>2, <2>2
  <2> HIDE DEF l, b, r
  <2>5. /\ GiveBack(a) \in Accounts
        /\ GiveBack(a).time.limit = l /\ GiveBack(a).time.backed = b
        /\ GiveBack(a).elapsed = a.elapsed /\ GiveBack(a).returned = r
        /\ GiveBack(a).time.compensator = a.time.compensator
        /\ GiveBack(a).deposited = a.deposited /\ GiveBack(a).forgiven = a.forgiven
    BY <1>2, <2>3, <2>4 DEF Accounts, Times
  <2> QED BY <1>4, <2>4, <2>5 DEF b
<1> QED BY <1>3, <1>4

\* time_compensator puts seconds into the wallet.
LEMMA Depositing ==
  ASSUME config \in Configs, NEW a \in Accounts
  PROVE  /\ Deposit(a) \in Accounts
         /\ Deposit(a).elapsed = a.elapsed
         /\ Deposit(a).time.limit = a.time.limit /\ Deposit(a).time.backed = a.time.backed
         /\ Deposit(a).returned = a.returned /\ Deposit(a).forgiven = a.forgiven
         /\ Deposit(a).deposited
              = a.deposited + (Deposit(a).time.compensator - a.time.compensator)
         /\ ~MayRecover(a.time) => Deposit(a) = a
         /\ Deposit(a).deposited <= a.deposited + config.deposit
<1>1. U16 \in Nat /\ config.deposit \in 0..U16
  BY ConfigTyped
<1>2. /\ a.time \in Times /\ a.elapsed \in Nat /\ a.deposited \in Nat
      /\ a.time.compensator \in 0..U16
  BY DEF Accounts, Times
<1>3. CASE ~MayRecover(a.time)
  <2>1. Deposit(a) = a
    BY <1>3 DEF Deposit
  <2> QED BY <2>1, <1>1, <1>2, <1>3
<1>4. CASE MayRecover(a.time)
  <2>1. Deposit(a) = [a EXCEPT !.time.compensator = Capped(@ + config.deposit),
                               !.deposited = @ + PutIn(a.time.compensator, config.deposit)]
    BY <1>4 DEF Deposit
  <2>2. /\ Capped(a.time.compensator + config.deposit) \in 0..U16
        /\ Capped(a.time.compensator + config.deposit) >= a.time.compensator
        /\ Capped(a.time.compensator + config.deposit) <= a.time.compensator + config.deposit
        /\ PutIn(a.time.compensator, config.deposit)
             = Capped(a.time.compensator + config.deposit) - a.time.compensator
    BY <1>1, <1>2 DEF Capped, PutIn
  <2> DEFINE w == Capped(a.time.compensator + config.deposit)
             d == a.deposited + PutIn(a.time.compensator, config.deposit)
  <2>3. Deposit(a) = [time |-> [limit |-> a.time.limit, backed |-> a.time.backed,
                                compensator |-> w],
                      elapsed |-> a.elapsed, returned |-> a.returned, deposited |-> d,
                      forgiven |-> a.forgiven]
    <3> HIDE DEF w, d
    <3>1. Deposit(a) = [a EXCEPT !.time.compensator = w, !.deposited = d]
      BY <2>1 DEF w, d
    <3> QED BY <3>1, <1>2 DEF Accounts, Times
  <2>4. /\ w \in 0..U16 /\ d \in Nat /\ d <= a.deposited + config.deposit
        /\ d = a.deposited + (w - a.time.compensator)
    BY <1>1, <1>2, <2>2
  <2> HIDE DEF w, d
  <2>5. /\ Deposit(a) \in Accounts
        /\ Deposit(a).time.limit = a.time.limit /\ Deposit(a).time.backed = a.time.backed
        /\ Deposit(a).elapsed = a.elapsed /\ Deposit(a).returned = a.returned
        /\ Deposit(a).time.compensator = w
        /\ Deposit(a).deposited = d /\ Deposit(a).forgiven = a.forgiven
    BY <1>2, <2>3, <2>4 DEF Accounts, Times
  <2> QED BY <1>4, <2>4, <2>5
<1> QED BY <1>3, <1>4

\* An answer, whatever the order of the three handlers: all that has elapsed is accounted for,
\* and each step of the budget pays for what goes on the clock and, with the first time the
\* clock falls below the limit, for what goes into the wallet.
LEMMA Answering ==
  ASSUME config \in Configs, order \in Orders,
         NEW a \in Accounts, a.elapsed <= U16, NEW meaningful \in BOOLEAN
  PROVE  LET b == Answered(a, meaningful) IN
         /\ b \in Accounts
         /\ b.elapsed = 0
         /\ Balance(b) = Balance(a)
         /\ a.elapsed <= a.time.limit => b.forgiven = a.forgiven
         /\ a.time.limit < config.limit + (IF config.add = 0 THEN 1 ELSE config.add)
              => b.time.limit < config.limit + (IF config.add = 0 THEN 1 ELSE config.add)
         /\ config.add > 0 =>
              \E k, d \in 0..1 :
                /\ Rest(b.time.backed) = Rest(a.time.backed) - k
                /\ Rest(a.time.backed) \in Int
                /\ b.returned <= a.returned + (IF k = 1 THEN config.add ELSE 0)
                /\ b.deposited <= a.deposited + (IF d = 1 THEN config.deposit ELSE 0)
                /\ Below(a.time) + d <= 2 * k + Below(b.time)
<1> DEFINE Limit == config.limit + (IF config.add = 0 THEN 1 ELSE config.add)
\* What a handler other than time_limit does.
<1> DEFINE Rewards(x, y) ==
      /\ y \in Accounts /\ y.elapsed = x.elapsed /\ Balance(y) = Balance(x)
      /\ y.forgiven = x.forgiven /\ y.time.limit >= x.time.limit
      /\ x.time.limit < Limit => y.time.limit < Limit
<1> DEFINE Backs(x, y, k) ==
      /\ Rewards(x, y) /\ y.deposited = x.deposited
      /\ config.add > 0 =>
           /\ Rest(y.time.backed) = Rest(x.time.backed) - k
           /\ y.returned <= x.returned + (IF k = 1 THEN config.add ELSE 0)
           /\ k = 0 => y.time = x.time
           /\ meaningful /\ MayRecover(x.time) => k = 1
<1> DEFINE Saves(x, y, d) ==
      /\ Rewards(x, y) /\ y.returned = x.returned
      /\ y.time.backed = x.time.backed /\ y.time.limit = x.time.limit
      /\ y.deposited <= x.deposited + (IF d = 1 THEN config.deposit ELSE 0)
      /\ d = 1 => meaningful /\ MayRecover(x.time)
<1> DEFINE Charges(x, y) ==
      /\ y \in Accounts /\ y.elapsed = 0 /\ Balance(y) = Balance(x)
      /\ x.elapsed <= x.time.limit => y.forgiven = x.forgiven
      /\ y.time.limit <= x.time.limit
      /\ y.time.backed = x.time.backed
      /\ y.returned = x.returned /\ y.deposited = x.deposited
<1>1. /\ config.limit \in 1..U16 /\ config.add \in 0..U16 /\ config.deposit \in 0..U16
      /\ U16 \in Nat
  BY ConfigTyped
<1>2. ASSUME NEW x \in Accounts
      PROVE  /\ x.time.limit \in 0..U16 /\ x.time.backed \in 0..U16
             /\ x.time.compensator \in 0..U16
             /\ x.elapsed \in Nat /\ x.forgiven \in Nat /\ x.returned \in Nat
             /\ x.deposited \in Nat
  BY DEF Accounts, Times
<1>3. ASSUME NEW x \in Accounts, x.elapsed <= U16
      PROVE  Charges(x, Handle("limit", x, meaningful))
  <2>1. Handle("limit", x, meaningful) = Charge(x)
    BY DEF Handle
  <2>2. PICK y : y = Charge(x)
    OBVIOUS
  <2>3. /\ y \in Accounts /\ y.elapsed = 0
        /\ y.time.limit = Floored(x.time.limit - x.elapsed)
        /\ y.time.backed = x.time.backed /\ y.time.compensator = x.time.compensator
        /\ y.returned = x.returned /\ y.deposited = x.deposited
        /\ y.forgiven = x.forgiven + Floored(x.elapsed - x.time.limit)
    BY <1>3, <2>2, Charging
  <2>4. /\ x.elapsed <= x.time.limit => y.forgiven = x.forgiven
        /\ y.time.limit <= x.time.limit
        /\ Balance(y) = Balance(x)
    BY <1>2, <2>3 DEF Floored, Balance
  <2> QED BY <2>1, <2>2, <2>3, <2>4
<1>4. ASSUME NEW x \in Accounts
      PROVE  \E k \in 0..1 : Backs(x, Handle("backed", x, meaningful), k)
  <2>1. CASE meaningful /\ MayRecover(x.time)
    <3>1. Handle("backed", x, meaningful) = GiveBack(x)
      BY <2>1 DEF Handle
    <3>2. PICK y : y = GiveBack(x)
      OBVIOUS
    <3>3. /\ y \in Accounts /\ y.elapsed = x.elapsed
          /\ y.time.compensator = x.time.compensator
          /\ y.deposited = x.deposited /\ y.forgiven = x.forgiven
          /\ y.returned = x.returned + (y.time.limit - x.time.limit)
          /\ y.time.limit >= x.time.limit
          /\ y.time.limit <= x.time.limit + config.add
          /\ y.time.backed = Floored(x.time.backed - config.add)
      BY <2>1, <3>2, GivingBack
    <3>4. x.time.limit < config.limit /\ x.time.backed > 0
      BY <2>1 DEF MayRecover
    <3>5. Rewards(x, y)
      BY <1>1, <1>2, <3>3, <3>4 DEF Balance
    <3>6. y.returned <= x.returned + config.add
      BY <1>1, <1>2, <3>3
    <3>7. config.add > 0 => Rest(y.time.backed) = Rest(x.time.backed) - 1
      <4> SUFFICES ASSUME config.add > 0 PROVE Rest(y.time.backed) = Rest(x.time.backed) - 1
        OBVIOUS
      <4>1. config.add \in Nat \ {0} /\ x.time.backed \in Nat \ {0}
        BY <1>1, <1>2, <3>4
      <4> QED BY <4>1, <3>3, StepUsed DEF Rest
    <3>8. Backs(x, y, 1)
      <4> HIDE DEF Rewards
      <4> QED BY <3>3, <3>5, <3>6, <3>7
    <3> HIDE DEF Backs
    <3> QED BY <3>1, <3>2, <3>8
  <2>2. CASE ~(meaningful /\ MayRecover(x.time))
    <3>1. Handle("backed", x, meaningful) = x
      BY <2>2 DEF Handle, GiveBack
    <3>2. config.add > 0 => Rest(x.time.backed) \in Int
      BY <1>1, <1>2 DEF Rest
    <3>3. Backs(x, x, 0)
      BY <1>2, <2>2, <3>2
    <3> HIDE DEF Backs
    <3> QED BY <3>1, <3>3
  <2> QED BY <2>1, <2>2
<1>5. ASSUME NEW x \in Accounts
      PROVE  \E d \in 0..1 : Saves(x, Handle("compensator", x, meaningful), d)
  <2>1. CASE meaningful /\ MayRecover(x.time)
    <3>1. Handle("compensator", x, meaningful) = Deposit(x)
      BY <2>1 DEF Handle
    <3>2. PICK y : y = Deposit(x)
      OBVIOUS
    <3>3. /\ y \in Accounts /\ y.elapsed = x.elapsed
          /\ y.time.limit = x.time.limit /\ y.time.backed = x.time.backed
          /\ y.returned = x.returned /\ y.forgiven = x.forgiven
          /\ y.deposited = x.deposited + (y.time.compensator - x.time.compensator)
          /\ y.deposited <= x.deposited + config.deposit
      BY <3>2, Depositing
    <3>4. Rewards(x, y)
      BY <1>1, <1>2, <3>3 DEF Balance
    <3>5. Saves(x, y, 1)
      <4> HIDE DEF Rewards
      <4> QED BY <2>1, <3>3, <3>4
    <3> HIDE DEF Saves
    <3> QED BY <3>1, <3>2, <3>5
  <2>2. CASE ~(meaningful /\ MayRecover(x.time))
    <3>1. Handle("compensator", x, meaningful) = x
      BY <2>2 DEF Handle, Deposit
    <3>2. Saves(x, x, 0)
      BY <1>2
    <3> HIDE DEF Saves
    <3> QED BY <3>1, <3>2
  <2> QED BY <2>1, <2>2
<1> DEFINE b == Answered(a, meaningful)
           Settled(e) ==
             /\ e \in Accounts /\ e.elapsed = 0 /\ Balance(e) = Balance(a)
             /\ a.elapsed <= a.time.limit => e.forgiven = a.forgiven
             /\ a.time.limit < Limit => e.time.limit < Limit
             /\ config.add > 0 =>
                  \E k, d \in 0..1 :
                    /\ Rest(e.time.backed) = Rest(a.time.backed) - k
                    /\ e.returned <= a.returned + (IF k = 1 THEN config.add ELSE 0)
                    /\ e.deposited <= a.deposited + (IF d = 1 THEN config.deposit ELSE 0)
                    /\ Below(a.time) + d <= 2 * k + Below(e.time)
<1>6. ASSUME order[1] = "limit" /\ order[2] = "backed" /\ order[3] = "compensator"
      PROVE  Settled(b)
  <2>1. PICK x : x = Handle("limit", a, meaningful)
    OBVIOUS
  <2>2. Charges(a, x)
    <3>1. a \in Accounts /\ a.elapsed <= U16
      OBVIOUS
    <3> HIDE DEF Charges
    <3> QED BY <3>1, <1>3, <2>1
  <2>3. PICK y : y = Handle("backed", x, meaningful)
    OBVIOUS
  <2>4. PICK k \in 0..1 : Backs(x, y, k)
    <3>1. x \in Accounts
      BY <2>2
    <3> HIDE DEF Backs
    <3> QED BY <3>1, <1>4, <2>3
  <2>5. PICK z : z = Handle("compensator", y, meaningful)
    OBVIOUS
  <2>6. PICK d \in 0..1 : Saves(y, z, d)
    <3>1. y \in Accounts
      BY <2>2, <2>4
    <3> HIDE DEF Saves
    <3> QED BY <3>1, <1>5, <2>5
  <2>7. b = z
    BY <1>6, <2>1, <2>3, <2>5 DEF Answered
  <2>8. x \in Accounts /\ y \in Accounts /\ z \in Accounts
    BY <2>2, <2>4, <2>6
  <2>9. /\ z.elapsed = 0 /\ Balance(z) = Balance(a)
        /\ a.elapsed <= a.time.limit => z.forgiven = a.forgiven
        /\ a.time.limit < Limit => z.time.limit < Limit
    <3>1. Balance(x) = Balance(a) /\ Balance(y) = Balance(x) /\ Balance(z) = Balance(y)
      BY <2>2, <2>4, <2>6
    <3> QED BY <3>1, <1>1, <1>2, <2>8, <2>2, <2>4, <2>6
  <2>10. ASSUME config.add > 0
        PROVE  /\ Rest(z.time.backed) = Rest(a.time.backed) - k
               /\ z.returned <= a.returned + (IF k = 1 THEN config.add ELSE 0)
               /\ z.deposited <= a.deposited + (IF d = 1 THEN config.deposit ELSE 0)
               /\ Below(a.time) + d <= 2 * k + Below(z.time)
    <3>1. /\ a.time.limit \in 0..U16 /\ x.time.limit \in 0..U16 /\ y.time.limit \in 0..U16
          /\ z.time.limit \in 0..U16
      BY <1>2, <2>8
    <3>2. d = 1 => k = 1 \/ Below(a.time) < Below(z.time)
      BY <3>1, <1>1, <1>2, <2>10, <2>2, <2>4, <2>6 DEF MayRecover, Below
    <3>3. k = 0 => Below(a.time) <= Below(z.time)
      BY <3>1, <1>1, <1>2, <2>10, <2>2, <2>4, <2>6 DEF Below
    <3>4. Below(a.time) + d <= 2 * k + Below(z.time)
      BY <3>2, <3>3 DEF Below
    <3> QED BY <3>4, <1>1, <1>2, <2>10, <2>8, <2>2, <2>4, <2>6
  <2>11. Settled(b)
    <3> HIDE DEF Charges, Backs, Saves
    <3>1. config.add > 0 =>
            \E i, j \in 0..1 :
              /\ Rest(z.time.backed) = Rest(a.time.backed) - i
              /\ z.returned <= a.returned + (IF i = 1 THEN config.add ELSE 0)
              /\ z.deposited <= a.deposited + (IF j = 1 THEN config.deposit ELSE 0)
              /\ Below(a.time) + j <= 2 * i + Below(z.time)
      BY <2>10
    <3>2. Settled(z)
      BY <3>1, <2>8, <2>9
    <3> HIDE DEF b, Settled
    <3> QED BY <3>2, <2>7
  <2> QED BY <2>11
<1>7. ASSUME order[1] = "limit" /\ order[2] = "compensator" /\ order[3] = "backed"
      PROVE  Settled(b)
  <2>1. PICK x : x = Handle("limit", a, meaningful)
    OBVIOUS
  <2>2. Charges(a, x)
    <3>1. a \in Accounts /\ a.elapsed <= U16
      OBVIOUS
    <3> HIDE DEF Charges
    <3> QED BY <3>1, <1>3, <2>1
  <2>3. PICK y : y = Handle("compensator", x, meaningful)
    OBVIOUS
  <2>4. PICK d \in 0..1 : Saves(x, y, d)
    <3>1. x \in Accounts
      BY <2>2
    <3> HIDE DEF Saves
    <3> QED BY <3>1, <1>5, <2>3
  <2>5. PICK z : z = Handle("backed", y, meaningful)
    OBVIOUS
  <2>6. PICK k \in 0..1 : Backs(y, z, k)
    <3>1. y \in Accounts
      BY <2>2, <2>4
    <3> HIDE DEF Backs
    <3> QED BY <3>1, <1>4, <2>5
  <2>7. b = z
    BY <1>7, <2>1, <2>3, <2>5 DEF Answered
  <2>8. x \in Accounts /\ y \in Accounts /\ z \in Accounts
    BY <2>2, <2>4, <2>6
  <2>9. /\ z.elapsed = 0 /\ Balance(z) = Balance(a)
        /\ a.elapsed <= a.time.limit => z.forgiven = a.forgiven
        /\ a.time.limit < Limit => z.time.limit < Limit
    <3>1. Balance(x) = Balance(a) /\ Balance(y) = Balance(x) /\ Balance(z) = Balance(y)
      BY <2>2, <2>4, <2>6
    <3> QED BY <3>1, <1>1, <1>2, <2>8, <2>2, <2>4, <2>6
  <2>10. ASSUME config.add > 0
        PROVE  /\ Rest(z.time.backed) = Rest(a.time.backed) - k
               /\ z.returned <= a.returned + (IF k = 1 THEN config.add ELSE 0)
               /\ z.deposited <= a.deposited + (IF d = 1 THEN config.deposit ELSE 0)
               /\ Below(a.time) + d <= 2 * k + Below(z.time)
    <3>1. /\ a.time.limit \in 0..U16 /\ x.time.limit \in 0..U16 /\ y.time.limit \in 0..U16
          /\ z.time.limit \in 0..U16
      BY <1>2, <2>8
    <3>2. d = 1 => k = 1 \/ Below(a.time) < Below(z.time)
      BY <3>1, <1>1, <1>2, <2>10, <2>2, <2>4, <2>6 DEF MayRecover, Below
    <3>3. k = 0 => Below(a.time) <= Below(z.time)
      BY <3>1, <1>1, <1>2, <2>10, <2>2, <2>4, <2>6 DEF Below
    <3>4. Below(a.time) + d <= 2 * k + Below(z.time)
      BY <3>2, <3>3 DEF Below
    <3> QED BY <3>4, <1>1, <1>2, <2>10, <2>8, <2>2, <2>4, <2>6
  <2>11. Settled(b)
    <3> HIDE DEF Charges, Backs, Saves
    <3>1. config.add > 0 =>
            \E i, j \in 0..1 :
              /\ Rest(z.time.backed) = Rest(a.time.backed) - i
              /\ z.returned <= a.returned + (IF i = 1 THEN config.add ELSE 0)
              /\ z.deposited <= a.deposited + (IF j = 1 THEN config.deposit ELSE 0)
              /\ Below(a.time) + j <= 2 * i + Below(z.time)
      BY <2>10
    <3>2. Settled(z)
      BY <3>1, <2>8, <2>9
    <3> HIDE DEF b, Settled
    <3> QED BY <3>2, <2>7
  <2> QED BY <2>11
<1>8. ASSUME order[1] = "backed" /\ order[2] = "limit" /\ order[3] = "compensator"
      PROVE  Settled(b)
  <2>1. PICK x : x = Handle("backed", a, meaningful)
    OBVIOUS
  <2>2. PICK k \in 0..1 : Backs(a, x, k)
    <3>1. a \in Accounts
      OBVIOUS
    <3> HIDE DEF Backs
    <3> QED BY <3>1, <1>4, <2>1
  <2>3. PICK y : y = Handle("limit", x, meaningful)
    OBVIOUS
  <2>4. Charges(x, y)
    <3>1. x \in Accounts /\ x.elapsed <= U16
      BY <2>2
    <3> HIDE DEF Charges
    <3> QED BY <3>1, <1>3, <2>3
  <2>5. PICK z : z = Handle("compensator", y, meaningful)
    OBVIOUS
  <2>6. PICK d \in 0..1 : Saves(y, z, d)
    <3>1. y \in Accounts
      BY <2>2, <2>4
    <3> HIDE DEF Saves
    <3> QED BY <3>1, <1>5, <2>5
  <2>7. b = z
    BY <1>8, <2>1, <2>3, <2>5 DEF Answered
  <2>8. x \in Accounts /\ y \in Accounts /\ z \in Accounts
    BY <2>2, <2>4, <2>6
  <2>9. /\ z.elapsed = 0 /\ Balance(z) = Balance(a)
        /\ a.elapsed <= a.time.limit => z.forgiven = a.forgiven
        /\ a.time.limit < Limit => z.time.limit < Limit
    <3>1. Balance(x) = Balance(a) /\ Balance(y) = Balance(x) /\ Balance(z) = Balance(y)
      BY <2>2, <2>4, <2>6
    <3> QED BY <3>1, <1>1, <1>2, <2>8, <2>2, <2>4, <2>6
  <2>10. ASSUME config.add > 0
        PROVE  /\ Rest(z.time.backed) = Rest(a.time.backed) - k
               /\ z.returned <= a.returned + (IF k = 1 THEN config.add ELSE 0)
               /\ z.deposited <= a.deposited + (IF d = 1 THEN config.deposit ELSE 0)
               /\ Below(a.time) + d <= 2 * k + Below(z.time)
    <3>1. /\ a.time.limit \in 0..U16 /\ x.time.limit \in 0..U16 /\ y.time.limit \in 0..U16
          /\ z.time.limit \in 0..U16
      BY <1>2, <2>8
    <3>2. d = 1 => k = 1 \/ Below(a.time) < Below(z.time)
      BY <3>1, <1>1, <1>2, <2>10, <2>2, <2>4, <2>6 DEF MayRecover, Below
    <3>3. k = 0 => Below(a.time) <= Below(z.time)
      BY <3>1, <1>1, <1>2, <2>10, <2>2, <2>4, <2>6 DEF Below
    <3>4. Below(a.time) + d <= 2 * k + Below(z.time)
      BY <3>2, <3>3 DEF Below
    <3> QED BY <3>4, <1>1, <1>2, <2>10, <2>8, <2>2, <2>4, <2>6
  <2>11. Settled(b)
    <3> HIDE DEF Charges, Backs, Saves
    <3>1. config.add > 0 =>
            \E i, j \in 0..1 :
              /\ Rest(z.time.backed) = Rest(a.time.backed) - i
              /\ z.returned <= a.returned + (IF i = 1 THEN config.add ELSE 0)
              /\ z.deposited <= a.deposited + (IF j = 1 THEN config.deposit ELSE 0)
              /\ Below(a.time) + j <= 2 * i + Below(z.time)
      BY <2>10
    <3>2. Settled(z)
      BY <3>1, <2>8, <2>9
    <3> HIDE DEF b, Settled
    <3> QED BY <3>2, <2>7
  <2> QED BY <2>11
<1>9. ASSUME order[1] = "backed" /\ order[2] = "compensator" /\ order[3] = "limit"
      PROVE  Settled(b)
  <2>1. PICK x : x = Handle("backed", a, meaningful)
    OBVIOUS
  <2>2. PICK k \in 0..1 : Backs(a, x, k)
    <3>1. a \in Accounts
      OBVIOUS
    <3> HIDE DEF Backs
    <3> QED BY <3>1, <1>4, <2>1
  <2>3. PICK y : y = Handle("compensator", x, meaningful)
    OBVIOUS
  <2>4. PICK d \in 0..1 : Saves(x, y, d)
    <3>1. x \in Accounts
      BY <2>2
    <3> HIDE DEF Saves
    <3> QED BY <3>1, <1>5, <2>3
  <2>5. PICK z : z = Handle("limit", y, meaningful)
    OBVIOUS
  <2>6. Charges(y, z)
    <3>1. y \in Accounts /\ y.elapsed <= U16
      BY <2>2, <2>4
    <3> HIDE DEF Charges
    <3> QED BY <3>1, <1>3, <2>5
  <2>7. b = z
    BY <1>9, <2>1, <2>3, <2>5 DEF Answered
  <2>8. x \in Accounts /\ y \in Accounts /\ z \in Accounts
    BY <2>2, <2>4, <2>6
  <2>9. /\ z.elapsed = 0 /\ Balance(z) = Balance(a)
        /\ a.elapsed <= a.time.limit => z.forgiven = a.forgiven
        /\ a.time.limit < Limit => z.time.limit < Limit
    <3>1. Balance(x) = Balance(a) /\ Balance(y) = Balance(x) /\ Balance(z) = Balance(y)
      BY <2>2, <2>4, <2>6
    <3> QED BY <3>1, <1>1, <1>2, <2>8, <2>2, <2>4, <2>6
  <2>10. ASSUME config.add > 0
        PROVE  /\ Rest(z.time.backed) = Rest(a.time.backed) - k
               /\ z.returned <= a.returned + (IF k = 1 THEN config.add ELSE 0)
               /\ z.deposited <= a.deposited + (IF d = 1 THEN config.deposit ELSE 0)
               /\ Below(a.time) + d <= 2 * k + Below(z.time)
    <3>1. /\ a.time.limit \in 0..U16 /\ x.time.limit \in 0..U16 /\ y.time.limit \in 0..U16
          /\ z.time.limit \in 0..U16
      BY <1>2, <2>8
    <3>2. d = 1 => k = 1 \/ Below(a.time) < Below(z.time)
      BY <3>1, <1>1, <1>2, <2>10, <2>2, <2>4, <2>6 DEF MayRecover, Below
    <3>3. k = 0 => Below(a.time) <= Below(z.time)
      BY <3>1, <1>1, <1>2, <2>10, <2>2, <2>4, <2>6 DEF Below
    <3>4. Below(a.time) + d <= 2 * k + Below(z.time)
      BY <3>2, <3>3 DEF Below
    <3> QED BY <3>4, <1>1, <1>2, <2>10, <2>8, <2>2, <2>4, <2>6
  <2>11. Settled(b)
    <3> HIDE DEF Charges, Backs, Saves
    <3>1. config.add > 0 =>
            \E i, j \in 0..1 :
              /\ Rest(z.time.backed) = Rest(a.time.backed) - i
              /\ z.returned <= a.returned + (IF i = 1 THEN config.add ELSE 0)
              /\ z.deposited <= a.deposited + (IF j = 1 THEN config.deposit ELSE 0)
              /\ Below(a.time) + j <= 2 * i + Below(z.time)
      BY <2>10
    <3>2. Settled(z)
      BY <3>1, <2>8, <2>9
    <3> HIDE DEF b, Settled
    <3> QED BY <3>2, <2>7
  <2> QED BY <2>11
<1>10. ASSUME order[1] = "compensator" /\ order[2] = "limit" /\ order[3] = "backed"
      PROVE  Settled(b)
  <2>1. PICK x : x = Handle("compensator", a, meaningful)
    OBVIOUS
  <2>2. PICK d \in 0..1 : Saves(a, x, d)
    <3>1. a \in Accounts
      OBVIOUS
    <3> HIDE DEF Saves
    <3> QED BY <3>1, <1>5, <2>1
  <2>3. PICK y : y = Handle("limit", x, meaningful)
    OBVIOUS
  <2>4. Charges(x, y)
    <3>1. x \in Accounts /\ x.elapsed <= U16
      BY <2>2
    <3> HIDE DEF Charges
    <3> QED BY <3>1, <1>3, <2>3
  <2>5. PICK z : z = Handle("backed", y, meaningful)
    OBVIOUS
  <2>6. PICK k \in 0..1 : Backs(y, z, k)
    <3>1. y \in Accounts
      BY <2>2, <2>4
    <3> HIDE DEF Backs
    <3> QED BY <3>1, <1>4, <2>5
  <2>7. b = z
    BY <1>10, <2>1, <2>3, <2>5 DEF Answered
  <2>8. x \in Accounts /\ y \in Accounts /\ z \in Accounts
    BY <2>2, <2>4, <2>6
  <2>9. /\ z.elapsed = 0 /\ Balance(z) = Balance(a)
        /\ a.elapsed <= a.time.limit => z.forgiven = a.forgiven
        /\ a.time.limit < Limit => z.time.limit < Limit
    <3>1. Balance(x) = Balance(a) /\ Balance(y) = Balance(x) /\ Balance(z) = Balance(y)
      BY <2>2, <2>4, <2>6
    <3> QED BY <3>1, <1>1, <1>2, <2>8, <2>2, <2>4, <2>6
  <2>10. ASSUME config.add > 0
        PROVE  /\ Rest(z.time.backed) = Rest(a.time.backed) - k
               /\ z.returned <= a.returned + (IF k = 1 THEN config.add ELSE 0)
               /\ z.deposited <= a.deposited + (IF d = 1 THEN config.deposit ELSE 0)
               /\ Below(a.time) + d <= 2 * k + Below(z.time)
    <3>1. /\ a.time.limit \in 0..U16 /\ x.time.limit \in 0..U16 /\ y.time.limit \in 0..U16
          /\ z.time.limit \in 0..U16
      BY <1>2, <2>8
    <3>2. d = 1 => k = 1 \/ Below(a.time) < Below(z.time)
      BY <3>1, <1>1, <1>2, <2>10, <2>2, <2>4, <2>6 DEF MayRecover, Below
    <3>3. k = 0 => Below(a.time) <= Below(z.time)
      BY <3>1, <1>1, <1>2, <2>10, <2>2, <2>4, <2>6 DEF Below
    <3>4. Below(a.time) + d <= 2 * k + Below(z.time)
      BY <3>2, <3>3 DEF Below
    <3> QED BY <3>4, <1>1, <1>2, <2>10, <2>8, <2>2, <2>4, <2>6
  <2>11. Settled(b)
    <3> HIDE DEF Charges, Backs, Saves
    <3>1. config.add > 0 =>
            \E i, j \in 0..1 :
              /\ Rest(z.time.backed) = Rest(a.time.backed) - i
              /\ z.returned <= a.returned + (IF i = 1 THEN config.add ELSE 0)
              /\ z.deposited <= a.deposited + (IF j = 1 THEN config.deposit ELSE 0)
              /\ Below(a.time) + j <= 2 * i + Below(z.time)
      BY <2>10
    <3>2. Settled(z)
      BY <3>1, <2>8, <2>9
    <3> HIDE DEF b, Settled
    <3> QED BY <3>2, <2>7
  <2> QED BY <2>11
<1>11. ASSUME order[1] = "compensator" /\ order[2] = "backed" /\ order[3] = "limit"
      PROVE  Settled(b)
  <2>1. PICK x : x = Handle("compensator", a, meaningful)
    OBVIOUS
  <2>2. PICK d \in 0..1 : Saves(a, x, d)
    <3>1. a \in Accounts
      OBVIOUS
    <3> HIDE DEF Saves
    <3> QED BY <3>1, <1>5, <2>1
  <2>3. PICK y : y = Handle("backed", x, meaningful)
    OBVIOUS
  <2>4. PICK k \in 0..1 : Backs(x, y, k)
    <3>1. x \in Accounts
      BY <2>2
    <3> HIDE DEF Backs
    <3> QED BY <3>1, <1>4, <2>3
  <2>5. PICK z : z = Handle("limit", y, meaningful)
    OBVIOUS
  <2>6. Charges(y, z)
    <3>1. y \in Accounts /\ y.elapsed <= U16
      BY <2>2, <2>4
    <3> HIDE DEF Charges
    <3> QED BY <3>1, <1>3, <2>5
  <2>7. b = z
    BY <1>11, <2>1, <2>3, <2>5 DEF Answered
  <2>8. x \in Accounts /\ y \in Accounts /\ z \in Accounts
    BY <2>2, <2>4, <2>6
  <2>9. /\ z.elapsed = 0 /\ Balance(z) = Balance(a)
        /\ a.elapsed <= a.time.limit => z.forgiven = a.forgiven
        /\ a.time.limit < Limit => z.time.limit < Limit
    <3>1. Balance(x) = Balance(a) /\ Balance(y) = Balance(x) /\ Balance(z) = Balance(y)
      BY <2>2, <2>4, <2>6
    <3> QED BY <3>1, <1>1, <1>2, <2>8, <2>2, <2>4, <2>6
  <2>10. ASSUME config.add > 0
        PROVE  /\ Rest(z.time.backed) = Rest(a.time.backed) - k
               /\ z.returned <= a.returned + (IF k = 1 THEN config.add ELSE 0)
               /\ z.deposited <= a.deposited + (IF d = 1 THEN config.deposit ELSE 0)
               /\ Below(a.time) + d <= 2 * k + Below(z.time)
    <3>1. /\ a.time.limit \in 0..U16 /\ x.time.limit \in 0..U16 /\ y.time.limit \in 0..U16
          /\ z.time.limit \in 0..U16
      BY <1>2, <2>8
    <3>2. d = 1 => k = 1 \/ Below(a.time) < Below(z.time)
      BY <3>1, <1>1, <1>2, <2>10, <2>2, <2>4, <2>6 DEF MayRecover, Below
    <3>3. k = 0 => Below(a.time) <= Below(z.time)
      BY <3>1, <1>1, <1>2, <2>10, <2>2, <2>4, <2>6 DEF Below
    <3>4. Below(a.time) + d <= 2 * k + Below(z.time)
      BY <3>2, <3>3 DEF Below
    <3> QED BY <3>4, <1>1, <1>2, <2>10, <2>8, <2>2, <2>4, <2>6
  <2>11. Settled(b)
    <3> HIDE DEF Charges, Backs, Saves
    <3>1. config.add > 0 =>
            \E i, j \in 0..1 :
              /\ Rest(z.time.backed) = Rest(a.time.backed) - i
              /\ z.returned <= a.returned + (IF i = 1 THEN config.add ELSE 0)
              /\ z.deposited <= a.deposited + (IF j = 1 THEN config.deposit ELSE 0)
              /\ Below(a.time) + j <= 2 * i + Below(z.time)
      BY <2>10
    <3>2. Settled(z)
      BY <3>1, <2>8, <2>9
    <3> HIDE DEF b, Settled
    <3> QED BY <3>2, <2>7
  <2> QED BY <2>11
<1>12. \/ order[1] = "limit" /\ order[2] = "backed" /\ order[3] = "compensator"
       \/ order[1] = "limit" /\ order[2] = "compensator" /\ order[3] = "backed"
       \/ order[1] = "backed" /\ order[2] = "limit" /\ order[3] = "compensator"
       \/ order[1] = "backed" /\ order[2] = "compensator" /\ order[3] = "limit"
       \/ order[1] = "compensator" /\ order[2] = "limit" /\ order[3] = "backed"
       \/ order[1] = "compensator" /\ order[2] = "backed" /\ order[3] = "limit"
  <2>1. order \in [1..3 -> Plugins] /\ {order[i] : i \in 1..3} = Plugins
    BY DEF Orders
  <2>2. \A u \in Plugins : order[1] = u \/ order[2] = u \/ order[3] = u
    BY <2>1
  <2>3. /\ order[1] = "limit" \/ order[2] = "limit" \/ order[3] = "limit"
        /\ order[1] = "backed" \/ order[2] = "backed" \/ order[3] = "backed"
        /\ order[1] = "compensator" \/ order[2] = "compensator" \/ order[3] = "compensator"
    BY <2>2 DEF Plugins
  <2>4. CASE order[1] = "limit"
    BY <2>3, <2>4
  <2>5. CASE order[1] = "backed"
    BY <2>3, <2>5
  <2>6. CASE order[1] = "compensator"
    BY <2>3, <2>6
  <2>7. order[1] \in Plugins
    BY <2>1
  <2> QED BY <2>4, <2>5, <2>6, <2>7 DEF Plugins
<1>13. Settled(b)
  <2> HIDE DEF Settled, Charges, Backs, Saves, Rewards
  <2> QED BY <1>6, <1>7, <1>8, <1>9, <1>10, <1>11, <1>12
<1>14. config.add > 0 => Rest(a.time.backed) \in Int
  BY <1>1, <1>2 DEF Rest
<1> QED
  <2> HIDE DEF b
  <2>1. \A e : e = b => Answered(a, meaningful) = e
    BY DEF b
  <2> QED BY <1>13, <1>14 DEF b

-----------------------------------------------------------------------------
(* The sums of a state.                                                     *)

\* Sums over the players are integers.
LEMMA SumsTyped ==
  ASSUME TypeOK
  PROVE  /\ Clocks \in Int /\ Wallets \in Int /\ Seats \in Nat
         /\ config.add > 0 => Steps \in Nat /\ Returns \in Int /\ Deposits \in Int
<1>1. IsFiniteSet(Players)
  BY TimeBudgetAssumption
<1>2. Seats \in Nat
  BY <1>1, FS_CardinalityType DEF Seats
<1>3. config \in Configs /\ time \in [Players -> Times]
  BY DEF TypeOK
<1>4. /\ config.add \in 0..U16 /\ Budget(config) \in 0..U16 /\ U16 \in Nat
  BY <1>3, ConfigTyped
<1>5. \A f \in [Players -> Int] : SumFunction(f) \in Int
  <2> TAKE f \in [Players -> Int]
  <2>1. Adder(f, Players)[Players] \in Int /\ SumFunction(f) = Adder(f, Players)[Players]
    BY <1>1, SumSplits
  <2> QED BY <2>1
<1>6. \A p \in Players : /\ time[p].limit \in 0..U16 /\ time[p].backed \in 0..U16
                         /\ time[p].compensator \in 0..U16
  BY <1>3 DEF Times
<1>7. Clocks \in Int
  <2>1. [p \in Players |-> time[p].limit] \in [Players -> Int]
    BY <1>4, <1>6
  <2> QED BY <2>1, <1>5 DEF Clocks
<1>8. Wallets \in Int
  <2>1. [p \in Players |-> time[p].compensator] \in [Players -> Int]
    BY <1>4, <1>6
  <2> QED BY <2>1, <1>5 DEF Wallets
<1>9. ASSUME config.add > 0
      PROVE  Steps \in Nat /\ Returns \in Int /\ Deposits \in Int
  <2>1. Steps \in Nat
    BY <1>4, <1>9 DEF Steps
  <2>2. \A p \in Players : Used(time[p]) \in Int
    <3> TAKE p \in Players
    <3>1. Rest(time[p].backed) \in Int
      BY <1>4, <1>6, <1>9 DEF Rest
    <3> QED BY <2>1, <3>1 DEF Used
  <2>3. \A p \in Players : Below(time[p]) \in 0..1
    BY DEF Below
  <2>4. [p \in Players |-> Used(time[p])] \in [Players -> Int]
    BY <2>2
  <2>5. [p \in Players |-> 2 * Used(time[p]) + Below(time[p])] \in [Players -> Int]
    BY <2>2, <2>3
  <2> QED BY <2>1, <2>4, <2>5, <1>5 DEF Returns, Deposits
<1> QED BY <1>2, <1>7, <1>8, <1>9

\* When the record of one player changes the sums change with it.
LEMMA OneSettles ==
  ASSUME TypeOK, config' = config, NEW p \in Players, NEW t \in Times,
         time' = [time EXCEPT ![p] = t]
  PROVE  /\ Clocks' = Clocks + (t.limit - time[p].limit)
         /\ Wallets' = Wallets + (t.compensator - time[p].compensator)
         /\ config.add > 0 =>
              /\ Returns' = Returns + (Used(t) - Used(time[p]))
              /\ Deposits' = Deposits + ((2 * Used(t) + Below(t))
                                         - (2 * Used(time[p]) + Below(time[p])))
<1>1. IsFiniteSet(Players)
  BY TimeBudgetAssumption
<1>2. config \in Configs /\ time \in [Players -> Times]
  BY DEF TypeOK
<1>3. /\ config.add \in 0..U16 /\ Budget(config) \in 0..U16 /\ U16 \in Nat
  BY <1>2, ConfigTyped
<1>4. /\ time' \in [Players -> Times] /\ time'[p] = t
      /\ \A q \in Players \ {p} : time'[q] = time[q]
  BY <1>2
<1>5. \A u \in Times : u.limit \in 0..U16 /\ u.backed \in 0..U16 /\ u.compensator \in 0..U16
  BY DEF Times
<1>6. Clocks' = Clocks + (t.limit - time[p].limit)
  <2> DEFINE f == [q \in Players |-> time[q].limit]
             g == [q \in Players |-> time'[q].limit]
  <2>1. f \in [Players -> Int] /\ g \in [Players -> Int]
    BY <1>2, <1>3, <1>4, <1>5
  <2>2. \A q \in Players \ {p} : g[q] = f[q]
    BY <1>4
  <2>3. g[p] = t.limit /\ f[p] = time[p].limit
    BY <1>4
  <2>4. Clocks = SumFunction(f) /\ Clocks' = SumFunction(g)
    BY DEF Clocks
  <2> HIDE DEF f, g
  <2>5. SumFunction(g) = SumFunction(f) + (g[p] - f[p])
    BY <1>1, <2>1, <2>2, SumChanges
  <2> QED BY <2>3, <2>4, <2>5
<1>7. Wallets' = Wallets + (t.compensator - time[p].compensator)
  <2> DEFINE f == [q \in Players |-> time[q].compensator]
             g == [q \in Players |-> time'[q].compensator]
  <2>1. f \in [Players -> Int] /\ g \in [Players -> Int]
    BY <1>2, <1>3, <1>4, <1>5
  <2>2. \A q \in Players \ {p} : g[q] = f[q]
    BY <1>4
  <2>3. g[p] = t.compensator /\ f[p] = time[p].compensator
    BY <1>4
  <2>4. Wallets = SumFunction(f) /\ Wallets' = SumFunction(g)
    BY DEF Wallets
  <2> HIDE DEF f, g
  <2>5. SumFunction(g) = SumFunction(f) + (g[p] - f[p])
    BY <1>1, <2>1, <2>2, SumChanges
  <2> QED BY <2>3, <2>4, <2>5
<1>8. \A u : Used(u)' = Used(u') /\ Below(u)' = Below(u')
  BY DEF Used, Below, Rest, Steps
<1>9. ASSUME config.add > 0
      PROVE  \A u \in Times : Used(u) \in Int /\ Below(u) \in 0..1
  <2> TAKE u \in Times
  <2>1. Steps \in Nat
    BY <1>3, <1>9 DEF Steps
  <2>2. Rest(u.backed) \in Int
    BY <1>3, <1>5, <1>9 DEF Rest
  <2> QED BY <2>1, <2>2 DEF Used, Below
<1>10. ASSUME config.add > 0
       PROVE  Returns' = Returns + (Used(t) - Used(time[p]))
  <2> DEFINE f == [q \in Players |-> Used(time[q])]
             g == [q \in Players |-> Used(time'[q])]
  <2>1. f \in [Players -> Int] /\ g \in [Players -> Int]
    BY <1>2, <1>4, <1>9, <1>10
  <2>2. \A q \in Players \ {p} : g[q] = f[q]
    BY <1>4
  <2>3. g[p] = Used(t) /\ f[p] = Used(time[p])
    BY <1>4
  <2>4. Returns = SumFunction(f) /\ Returns' = SumFunction(g)
    BY DEF Returns, Used, Rest, Steps
  <2> HIDE DEF f, g
  <2>5. SumFunction(g) = SumFunction(f) + (g[p] - f[p])
    BY <1>1, <2>1, <2>2, SumChanges
  <2> QED BY <2>3, <2>4, <2>5
<1>11. ASSUME config.add > 0
       PROVE  Deposits' = Deposits + ((2 * Used(t) + Below(t))
                                      - (2 * Used(time[p]) + Below(time[p])))
  <2> DEFINE f == [q \in Players |-> 2 * Used(time[q]) + Below(time[q])]
             g == [q \in Players |-> 2 * Used(time'[q]) + Below(time'[q])]
  <2>1. f \in [Players -> Int] /\ g \in [Players -> Int]
    BY <1>2, <1>4, <1>9, <1>11
  <2>2. \A q \in Players \ {p} : g[q] = f[q]
    BY <1>4
  <2>3. g[p] = 2 * Used(t) + Below(t) /\ f[p] = 2 * Used(time[p]) + Below(time[p])
    BY <1>4
  <2>4. Deposits = SumFunction(f) /\ Deposits' = SumFunction(g)
    BY DEF Deposits, Used, Rest, Steps, Below
  <2> HIDE DEF f, g
  <2>5. SumFunction(g) = SumFunction(f) + (g[p] - f[p])
    BY <1>1, <2>1, <2>2, SumChanges
  <2> QED BY <2>3, <2>4, <2>5
<1> QED BY <1>6, <1>7, <1>10, <1>11

\* Everybody's time is fresh: nothing has been put in and nothing has been counted.
LEMMA AllFresh ==
  ASSUME config \in Configs, time = [p \in Players |-> Fresh(config)],
         time_elapsed = 0, seconds = 0, returned = 0, deposited = 0, forgiven = 0
  PROVE  Account
<1>1. IsFiniteSet(Players)
  BY TimeBudgetAssumption
<1>2. /\ config.limit \in 1..U16 /\ config.add \in 0..U16 /\ config.deposit \in 0..U16
      /\ Budget(config) \in 0..U16 /\ Wallet(config) \in 0..U16 /\ U16 \in Nat
  BY ConfigTyped
<1>3. \A p \in Players : time[p] = Fresh(config)
  OBVIOUS
<1>4. Clocks = Seats * config.limit
  <2> DEFINE f == [p \in Players |-> time[p].limit]
  <2>1. \A p \in Players : time[p].limit = config.limit
    BY <1>3 DEF Fresh
  <2>2. f \in [Players -> Int] /\ \A p \in Players : f[p] = config.limit
    BY <1>2, <2>1
  <2>3. config.limit \in Int
    BY <1>2
  <2> HIDE DEF f
  <2>4. SumFunction(f) = Cardinality(Players) * config.limit
    BY <1>1, <2>2, <2>3, SumOfConstant
  <2> QED BY <2>4 DEF Clocks, Seats, f
<1>5. Wallets = Seats * Wallet(config)
  <2> DEFINE f == [p \in Players |-> time[p].compensator]
  <2>1. \A p \in Players : time[p].compensator = Wallet(config)
    BY <1>3 DEF Fresh
  <2>2. f \in [Players -> Int] /\ \A p \in Players : f[p] = Wallet(config)
    BY <1>2, <2>1
  <2>3. Wallet(config) \in Int
    BY <1>2
  <2> HIDE DEF f
  <2>4. SumFunction(f) = Cardinality(Players) * Wallet(config)
    BY <1>1, <2>2, <2>3, SumOfConstant
  <2> QED BY <2>4 DEF Wallets, Seats, f
<1>6. Seats \in Nat
  BY <1>1, FS_CardinalityType DEF Seats
<1>7. SecondsCountOnce
  <2>1. Seats * config.limit \in Int /\ Seats * Wallet(config) \in Int
    BY <1>2, <1>6
  <2> QED BY <2>1, <1>4, <1>5 DEF SecondsCountOnce
<1>8. ClockWithinLimit
  BY <1>2, <1>3 DEF ClockWithinLimit, Fresh
<1>9. PutInByStep
  <2> SUFFICES ASSUME config.add > 0
               PROVE  returned <= Returns * config.add /\ deposited <= Deposits * config.deposit
    BY DEF PutInByStep
  <2>1. Steps \in Nat
    BY <1>2 DEF Steps
  <2>2. \A p \in Players : Used(time[p]) = 0 /\ Below(time[p]) = 0
    <3> TAKE p \in Players
    <3>1. time[p].backed = Budget(config) /\ time[p].limit = config.limit
      BY <1>3 DEF Fresh
    <3>2. Rest(time[p].backed) = Steps
      BY <3>1 DEF Rest, Steps
    <3> QED BY <1>2, <2>1, <3>1, <3>2 DEF Used, Below
  <2>3. Returns = Cardinality(Players) * 0
    <3> DEFINE f == [p \in Players |-> Used(time[p])]
    <3>1. f \in [Players -> Int] /\ \A p \in Players : f[p] = 0
      BY <2>2
    <3> HIDE DEF f
    <3>2. SumFunction(f) = Cardinality(Players) * 0
      BY <1>1, <3>1, SumOfConstant
    <3> QED BY <3>2 DEF Returns, f
  <2>4. Deposits = Cardinality(Players) * 0
    <3> DEFINE f == [p \in Players |-> 2 * Used(time[p]) + Below(time[p])]
    <3>1. f \in [Players -> Int] /\ \A p \in Players : f[p] = 0
      BY <2>2
    <3> HIDE DEF f
    <3>2. SumFunction(f) = Cardinality(Players) * 0
      BY <1>1, <3>1, SumOfConstant
    <3> QED BY <3>2 DEF Deposits, f
  <2>5. Returns = 0 /\ Deposits = 0
    BY <2>3, <2>4, <1>6 DEF Seats
  <2>6. 0 * config.add = 0 /\ 0 * config.deposit = 0
    BY <1>2
  <2> QED BY <2>5, <2>6
<1> QED BY <1>7, <1>8, <1>9 DEF Account

\* Nothing is counted.
LEMMA AccountKept ==
  ASSUME Account, UNCHANGED <<config, time, time_elapsed, history>>
  PROVE  Account'
<1>1. /\ config' = config /\ time' = time /\ time_elapsed' = time_elapsed
      /\ seconds' = seconds /\ returned' = returned /\ deposited' = deposited
      /\ forgiven' = forgiven
  BY DEF history
<1>2. SecondsCountOnce'
  BY <1>1 DEF Account, SecondsCountOnce, Clocks, Wallets, Seats, Wallet
<1>3. ClockWithinLimit'
  BY <1>1 DEF Account, ClockWithinLimit
<1>4. PutInByStep'
  BY <1>1 DEF Account, PutInByStep, Returns, Deposits, Used, Below, Rest, Steps, Budget
<1> QED BY <1>2, <1>3, <1>4 DEF Account

\* The account a handler of player p's message starts from.
Current(p) == [time |-> time[p], elapsed |-> time_elapsed, returned |-> returned,
               deposited |-> deposited, forgiven |-> forgiven]

\* Whoever settles an account balanced leaves the seconds accounted for.
LEMMA Settling ==
  ASSUME TypeOK, Account, NEW p \in Players, NEW b \in Accounts,
         config' = config, seconds' = seconds,
         time' = [time EXCEPT ![p] = b.time], time_elapsed' = b.elapsed,
         returned' = b.returned, deposited' = b.deposited, forgiven' = b.forgiven,
         Balance(b) = Balance(Current(p)),
         time[p].limit < config.limit + (IF config.add = 0 THEN 1 ELSE config.add)
           => b.time.limit < config.limit + (IF config.add = 0 THEN 1 ELSE config.add),
         config.add > 0 =>
           \E k, d \in 0..1 :
             /\ Rest(b.time.backed) = Rest(time[p].backed) - k
             /\ b.returned <= returned + (IF k = 1 THEN config.add ELSE 0)
             /\ b.deposited <= deposited + (IF d = 1 THEN config.deposit ELSE 0)
             /\ Below(time[p]) + d <= 2 * k + Below(b.time)
  PROVE  Account'
<1>1. /\ time \in [Players -> Times] /\ time_elapsed \in Nat /\ returned \in Nat
      /\ deposited \in Nat /\ forgiven \in Nat /\ seconds \in Nat /\ config \in Configs
  BY DEF TypeOK
<1>2. /\ b.time \in Times /\ b.elapsed \in Nat /\ b.returned \in Nat /\ b.deposited \in Nat
      /\ b.forgiven \in Nat
  BY DEF Accounts
<1>3. /\ config.limit \in 1..U16 /\ config.add \in 0..U16 /\ config.deposit \in 0..U16
      /\ Budget(config) \in 0..U16 /\ Wallet(config) \in 0..U16 /\ U16 \in Nat
  BY <1>1, ConfigTyped
<1>4. \A u \in Times : u.limit \in 0..U16 /\ u.backed \in 0..U16 /\ u.compensator \in 0..U16
  BY DEF Times
<1>5. /\ Clocks' = Clocks + (b.time.limit - time[p].limit)
      /\ Wallets' = Wallets + (b.time.compensator - time[p].compensator)
      /\ config.add > 0 =>
           /\ Returns' = Returns + (Used(b.time) - Used(time[p]))
           /\ Deposits' = Deposits + ((2 * Used(b.time) + Below(b.time))
                                      - (2 * Used(time[p]) + Below(time[p])))
  BY <1>2, OneSettles
<1>6. /\ Clocks \in Int /\ Wallets \in Int /\ Seats \in Nat
      /\ config.add > 0 => Steps \in Nat /\ Returns \in Int /\ Deposits \in Int
  BY SumsTyped
<1>7. SecondsCountOnce'
  <2>1. b.elapsed + b.forgiven + (b.deposited - b.time.compensator)
          + (b.returned - b.time.limit)
        = time_elapsed + forgiven + (deposited - time[p].compensator)
          + (returned - time[p].limit)
    BY DEF Balance, Current
  <2>2. PICK m \in Int, n \in Int : m = Seats * Wallet(config) /\ n = Seats * config.limit
    BY <1>3, <1>6
  <2>3. seconds = time_elapsed + forgiven + (m + deposited - Wallets) + (n + returned - Clocks)
    BY <2>2 DEF Account, SecondsCountOnce
  <2>4. /\ b.time.limit \in Int /\ b.time.compensator \in Int
        /\ time[p].limit \in Int /\ time[p].compensator \in Int
    BY <1>1, <1>2, <1>3, <1>4
  <2>5. seconds' = b.elapsed + b.forgiven + (m + b.deposited - Wallets')
                   + (n + b.returned - Clocks')
    <3>1. PICK l0 \in Int, l1 \in Int, w0 \in Int, w1 \in Int, cs \in Int, ws \in Int :
            /\ l0 = time[p].limit /\ l1 = b.time.limit /\ cs = Clocks
            /\ w0 = time[p].compensator /\ w1 = b.time.compensator /\ ws = Wallets
      BY <2>4, <1>6
    <3>2. Clocks' = cs + (l1 - l0) /\ Wallets' = ws + (w1 - w0)
      BY <3>1, <1>5
    <3>3. seconds = time_elapsed + forgiven + (m + deposited - ws) + (n + returned - cs)
      BY <3>1, <2>3
    <3>4. b.elapsed + b.forgiven + (b.deposited - w1) + (b.returned - l1)
          = time_elapsed + forgiven + (deposited - w0) + (returned - l0)
      BY <3>1, <2>1
    <3>5. seconds = b.elapsed + b.forgiven + (m + b.deposited - (ws + (w1 - w0)))
                    + (n + b.returned - (cs + (l1 - l0)))
      BY <3>3, <3>4, <1>1, <1>2
    <3> QED BY <3>2, <3>5
  <2>6. (Seats * Wallet(config))' = m /\ (Seats * config.limit)' = n
    BY <2>2 DEF Seats, Wallet
  <2> QED BY <2>5, <2>6 DEF SecondsCountOnce
<1>8. ClockWithinLimit'
  BY <1>1, <1>3 DEF Account, ClockWithinLimit
<1>9. PutInByStep'
  <2> SUFFICES ASSUME config.add > 0
               PROVE  /\ b.returned <= Returns' * config.add
                      /\ b.deposited <= Deposits' * config.deposit
    BY DEF PutInByStep
  <2>1. PICK k \in 0..1, d \in 0..1 :
          /\ Rest(b.time.backed) = Rest(time[p].backed) - k
          /\ b.returned <= returned + (IF k = 1 THEN config.add ELSE 0)
          /\ b.deposited <= deposited + (IF d = 1 THEN config.deposit ELSE 0)
          /\ Below(time[p]) + d <= 2 * k + Below(b.time)
    OBVIOUS
  <2>2. Rest(b.time.backed) \in Int /\ Rest(time[p].backed) \in Int
    BY <1>1, <1>2, <1>3, <1>4 DEF Rest
  <2>3. Used(b.time) = Used(time[p]) + k /\ Used(time[p]) \in Int
    BY <1>6, <2>1, <2>2 DEF Used
  <2>4. Below(time[p]) \in 0..1 /\ Below(b.time) \in 0..1
    BY DEF Below
  <2>5. Returns' \in Int /\ Returns + k <= Returns'
    BY <1>5, <1>6, <2>3
  <2>6. Deposits' \in Int /\ Deposits + d <= Deposits'
    BY <1>5, <1>6, <2>1, <2>3, <2>4
  <2>7. returned <= Returns * config.add /\ deposited <= Deposits * config.deposit
    BY DEF Account, PutInByStep
  <2>8. config.add \in Nat /\ config.deposit \in Nat
    BY <1>3
  <2>9. b.returned <= Returns' * config.add
    <3>1. PICK m \in Int, n \in Int : m = Returns /\ n = Returns'
      BY <1>6, <2>5
    <3>2. m + k <= n /\ returned <= m * config.add
      BY <2>5, <2>7, <3>1
    <3>3. b.returned <= n * config.add
      BY <1>1, <1>2, <2>1, <2>8, <3>2, StepPaidFor
    <3> QED BY <3>1, <3>3
  <2>10. b.deposited <= Deposits' * config.deposit
    <3>1. PICK m \in Int, n \in Int : m = Deposits /\ n = Deposits'
      BY <1>6, <2>6
    <3>2. m + d <= n /\ deposited <= m * config.deposit
      BY <2>6, <2>7, <3>1
    <3>3. b.deposited <= n * config.deposit
      BY <1>1, <1>2, <2>1, <2>8, <3>2, StepPaidFor
    <3> QED BY <3>1, <3>3
  <2> QED BY <2>9, <2>10
<1> QED BY <1>7, <1>8, <1>9 DEF Account

-----------------------------------------------------------------------------
(* The mailbox.                                                             *)

\* The actor takes the first message and puts in none.
LEMMA MailTaken ==
  ASSUME TypeOK, queue # <<>>, Done(<<>>)
  PROVE  /\ queue' \in Seq(Requests)
         /\ \A i \in DOMAIN queue' : i + 1 \in DOMAIN queue /\ queue'[i] = queue[i + 1]
         /\ \A i \in DOMAIN queue : i = 1 \/ (i - 1 \in DOMAIN queue' /\ queue'[i - 1] = queue[i])
         /\ 1 \in DOMAIN queue /\ queue[1] = Request
         /\ \A i \in DOMAIN queue : i \in Nat /\ i >= 1
         /\ \A i \in DOMAIN queue' : i \in Nat /\ i >= 1
<1>1. queue \in Seq(Requests)
  BY DEF TypeOK, Requests
<1>2. queue' = Tail(queue) \o <<>>
  BY DEF Done
<1>3. /\ Tail(queue) \o <<>> \in Seq(Requests)
      /\ Len(Tail(queue) \o <<>>) = Len(queue) - 1
      /\ \A i \in 1..(Len(queue) - 1) : (Tail(queue) \o <<>>)[i] = queue[i + 1]
  BY <1>1, Taken
<1>4. /\ queue' \in Seq(Requests) /\ Len(queue') = Len(queue) - 1
      /\ \A i \in 1..(Len(queue) - 1) : queue'[i] = queue[i + 1]
  BY <1>2, <1>3
<1>5. PICK n \in Nat : n = Len(queue) /\ DOMAIN queue = 1..n /\ n >= 1
  BY <1>1
<1>6. DOMAIN queue' = 1..(n - 1)
  BY <1>4, <1>5
<1>7. queue[1] = Request
  BY <1>1 DEF Request
<1>8. \A i \in 1..n : i = 1 \/ (i - 1 \in 1..(n - 1) /\ (i - 1) + 1 = i)
  BY <1>5
<1>9. \A i \in 1..n : i = 1 \/ (i - 1 \in DOMAIN queue' /\ queue'[i - 1] = queue[i])
  BY <1>4, <1>5, <1>6, <1>8
<1> QED BY <1>4, <1>5, <1>6, <1>7, <1>9

\* It puts one in.
LEMMA MailTakenAndSent ==
  ASSUME TypeOK, queue # <<>>, NEW r \in Requests, Done(<<r>>)
  PROVE  /\ queue' \in Seq(Requests)
         /\ \A i \in DOMAIN queue' : \/ i + 1 \in DOMAIN queue /\ queue'[i] = queue[i + 1]
                                     \/ queue'[i] = r /\ \A j \in DOMAIN queue' : j <= i
         /\ \A i \in DOMAIN queue : i = 1 \/ (i - 1 \in DOMAIN queue' /\ queue'[i - 1] = queue[i])
         /\ \E i \in DOMAIN queue' : queue'[i] = r
         /\ 1 \in DOMAIN queue /\ queue[1] = Request
         /\ \A i \in DOMAIN queue : i \in Nat /\ i >= 1
         /\ \A i \in DOMAIN queue' : i \in Nat /\ i >= 1
<1>1. queue \in Seq(Requests)
  BY DEF TypeOK, Requests
<1>2. queue' = Tail(queue) \o <<r>>
  BY DEF Done
<1>3. /\ Tail(queue) \o <<r>> \in Seq(Requests)
      /\ Len(Tail(queue) \o <<r>>) = Len(queue)
      /\ \A i \in 1..(Len(queue) - 1) : (Tail(queue) \o <<r>>)[i] = queue[i + 1]
      /\ (Tail(queue) \o <<r>>)[Len(queue)] = r
  BY <1>1, TakenAndSent
<1>4. /\ queue' \in Seq(Requests) /\ Len(queue') = Len(queue)
      /\ \A i \in 1..(Len(queue) - 1) : queue'[i] = queue[i + 1]
      /\ queue'[Len(queue)] = r
  BY <1>2, <1>3
<1>5. PICK n \in Nat : n = Len(queue) /\ DOMAIN queue = 1..n /\ n >= 1
  BY <1>1
<1>6. DOMAIN queue' = 1..n
  BY <1>4, <1>5
<1>7. queue[1] = Request
  BY <1>1 DEF Request
<1>8. \A i \in 1..n : i = 1 \/ (i - 1 \in 1..(n - 1) /\ (i - 1) + 1 = i)
  BY <1>5
<1>9. \A i \in 1..n : i = 1 \/ (i - 1 \in DOMAIN queue' /\ queue'[i - 1] = queue[i])
  BY <1>4, <1>5, <1>6, <1>8
<1>10. \A i \in DOMAIN queue' : \/ i + 1 \in DOMAIN queue /\ queue'[i] = queue[i + 1]
                                \/ queue'[i] = r /\ \A j \in DOMAIN queue' : j <= i
  <2>1. \A i \in 1..n : i = n \/ (i \in 1..(n - 1) /\ i + 1 \in 1..n)
    BY <1>5
  <2>2. \A j \in 1..n : j <= n
    OBVIOUS
  <2> QED BY <1>4, <1>5, <1>6, <2>1, <2>2
<1>11. n \in DOMAIN queue' /\ queue'[n] = r
  BY <1>4, <1>5, <1>6
<1> QED BY <1>4, <1>5, <1>6, <1>7, <1>9, <1>10, <1>11

\* Somebody else puts one in.
LEMMA MailPosted ==
  ASSUME TypeOK, NEW r \in Requests, queue' = Append(queue, r)
  PROVE  /\ queue' \in Seq(Requests)
         /\ \A i \in DOMAIN queue' : \/ i \in DOMAIN queue /\ queue'[i] = queue[i]
                                     \/ queue'[i] = r /\ \A j \in DOMAIN queue : j < i
         /\ \A i \in DOMAIN queue : i \in DOMAIN queue' /\ queue'[i] = queue[i]
         /\ \A i, j \in DOMAIN queue' : i \notin DOMAIN queue /\ j \notin DOMAIN queue => i = j
         /\ \A i \in DOMAIN queue : i \in Nat /\ i >= 1
         /\ \A i \in DOMAIN queue' : i \in Nat /\ i >= 1
<1>1. queue \in Seq(Requests)
  BY DEF TypeOK, Requests
<1>2. /\ queue' \in Seq(Requests) /\ Len(queue') = Len(queue) + 1
      /\ \A i \in 1..Len(queue) : queue'[i] = queue[i]
      /\ queue'[Len(queue) + 1] = r
  BY <1>1, Appended
<1>3. PICK n \in Nat : n = Len(queue) /\ DOMAIN queue = 1..n
  BY <1>1
<1>4. DOMAIN queue' = 1..(n + 1)
  BY <1>2, <1>3
<1>5. \A i \in 1..(n + 1) : i \in 1..n \/ (i = n + 1 /\ \A j \in 1..n : j < i)
  BY <1>3
<1>6. \A i \in 1..n : i \in 1..(n + 1)
  BY <1>3
<1> QED BY <1>2, <1>3, <1>4, <1>5, <1>6

\* A client's message changes nothing the mailbox is waited for.
LEMMA PaceOfClients ==
  ASSUME TypeOK, Pace, NEW r \in Requests, r.type \in {"TimeConfirm", "Response"},
         queue' = Append(queue, r),
         UNCHANGED <<config, time, time_elapsed, last_response, gate, over, asks, forgiven>>
  PROVE  Pace'
<1>1. /\ \A i \in DOMAIN queue' : \/ i \in DOMAIN queue /\ queue'[i] = queue[i]
                                  \/ queue'[i] = r /\ \A j \in DOMAIN queue : j < i
      /\ \A i \in DOMAIN queue : i \in DOMAIN queue' /\ queue'[i] = queue[i]
  BY MailPosted
<1>2. \A t \in {"Evolve", "timer_tick", "Timeout"} : At(t)' = At(t)
  BY <1>1 DEF At
<1>3. At("Evolve")' = At("Evolve") /\ At("timer_tick")' = At("timer_tick")
      /\ At("Timeout")' = At("Timeout")
  BY <1>2
<1>4. Mailbox'
  BY <1>3 DEF Pace, Mailbox
<1>5. OneQuestion'
  BY <1>3 DEF Pace, OneQuestion
<1>6. TimingOut' = TimingOut
  BY <1>3 DEF TimingOut, At
<1>7. InTime'
  BY <1>3, <1>6 DEF Pace, InTime
<1>8. ElapsedFits'
  BY DEF Pace, ElapsedFits
<1> QED BY <1>4, <1>5, <1>7, <1>8 DEF Pace

\* A tick is put in when none waits, behind whatever waits.
LEMMA PaceOfTimer ==
  ASSUME TypeOK, Pace, TimerTicks
  PROVE  Pace'
<1>1. PICK r \in Requests : r = [type |-> "timer_tick"]
  BY DEF Requests
<1>2. /\ queue' = Append(queue, r) /\ Ticks = {} /\ r.type = "timer_tick"
      /\ UNCHANGED <<config, time, time_elapsed, last_response, gate, over, asks, forgiven>>
  BY <1>1 DEF TimerTicks, history
<1>3. /\ \A i \in DOMAIN queue' : \/ i \in DOMAIN queue /\ queue'[i] = queue[i]
                                  \/ queue'[i] = r /\ \A j \in DOMAIN queue : j < i
      /\ \A i \in DOMAIN queue : i \in DOMAIN queue' /\ queue'[i] = queue[i]
      /\ \A i, j \in DOMAIN queue' : i \notin DOMAIN queue /\ j \notin DOMAIN queue => i = j
  BY <1>2, MailPosted
<1>4. \A t \in {"Evolve", "Timeout"} : At(t)' = At(t)
  BY <1>2, <1>3 DEF At
<1>5. At("Evolve")' = At("Evolve") /\ At("Timeout")' = At("Timeout")
  BY <1>4
<1>6. \A i \in At("timer_tick")' : i \notin DOMAIN queue /\ \A j \in DOMAIN queue : j < i
  BY <1>2, <1>3 DEF At, Ticks
<1>7. Mailbox'
  <2>1. \A i, j \in At("timer_tick")' : i = j
    BY <1>3, <1>6 DEF At
  <2>2. \A i \in At("Timeout"), j \in At("timer_tick")' : i < j
    BY <1>6 DEF At
  <2> QED BY <1>5, <2>1, <2>2 DEF Mailbox
<1>8. OneQuestion'
  BY <1>2, <1>5 DEF Pace, OneQuestion
<1>9. TimingOut' = TimingOut
  BY <1>2, <1>5 DEF TimingOut, At
<1>10. InTime'
  <2>1. \A i \in At("Evolve"), j \in At("timer_tick")' : i < j
    BY <1>6 DEF At
  <2> QED BY <1>2, <1>5, <1>9, <2>1 DEF Pace, InTime
<1>11. ElapsedFits'
  BY <1>2 DEF Pace, ElapsedFits
<1> QED BY <1>7, <1>8, <1>10, <1>11 DEF Pace

\* Who waits behind the first message moves up.
LEMMA MovedUp ==
  ASSUME TypeOK, queue # <<>>, Done(<<>>), Mailbox
  PROVE  /\ Mailbox'
         /\ \A t : \A i \in At(t)' : i + 1 \in At(t) /\ i \in Nat
         /\ \A t : \A i \in At(t) : i = 1 \/ (i - 1 \in At(t)' /\ i \in Nat)
         /\ \A t : Request.type # t => (At(t)' = {} <=> At(t) = {})
         /\ 1 \in At(Request.type)
<1>1. /\ \A i \in DOMAIN queue' : i + 1 \in DOMAIN queue /\ queue'[i] = queue[i + 1]
      /\ \A i \in DOMAIN queue : i = 1 \/ (i - 1 \in DOMAIN queue' /\ queue'[i - 1] = queue[i])
      /\ 1 \in DOMAIN queue /\ queue[1] = Request
      /\ \A i \in DOMAIN queue : i \in Nat /\ i >= 1
      /\ \A i \in DOMAIN queue' : i \in Nat /\ i >= 1
  BY MailTaken
<1>2. \A t : \A i \in At(t)' : i + 1 \in At(t) /\ i \in Nat
  BY <1>1 DEF At
<1>3. \A t : \A i \in At(t) : i = 1 \/ (i - 1 \in At(t)' /\ i \in Nat)
  BY <1>1 DEF At
<1>4. \A t : Request.type # t => 1 \notin At(t)
  BY <1>1 DEF At
<1>5. \A t : Request.type # t => (At(t)' = {} <=> At(t) = {})
  BY <1>2, <1>3, <1>4
<1>6. Mailbox'
  <2>1. ASSUME NEW i \in At("timer_tick")', NEW j \in At("timer_tick")' PROVE i = j
    <3>1. i + 1 \in At("timer_tick") /\ j + 1 \in At("timer_tick") /\ i \in Nat /\ j \in Nat
      BY <1>2
    <3>2. i + 1 = j + 1
      BY <3>1 DEF Mailbox
    <3> QED BY <3>1, <3>2
  <2>2. ASSUME NEW i \in At("Timeout")', NEW j \in At("timer_tick")' PROVE i < j
    <3>1. i + 1 \in At("Timeout") /\ j + 1 \in At("timer_tick") /\ i \in Nat /\ j \in Nat
      BY <1>2
    <3>2. i + 1 < j + 1
      BY <3>1 DEF Mailbox
    <3> QED BY <3>1, <3>2
  <2> QED BY <2>1, <2>2 DEF Mailbox
<1>7. 1 \in At(Request.type)
  BY <1>1 DEF At
<1> QED BY <1>2, <1>3, <1>5, <1>6, <1>7

\* Who waits behind the first message moves up, and one more comes last.
LEMMA MovedUpAndSent ==
  ASSUME TypeOK, queue # <<>>, NEW r \in Requests, Done(<<r>>)
  PROVE  /\ \A t : \A i \in At(t)' : \/ i + 1 \in At(t) /\ i \in Nat
                                     \/ t = r.type /\ \A u : \A j \in At(u)' : j <= i
         /\ \A t : t # r.type => \A i \in At(t)' : i + 1 \in At(t) /\ i \in Nat
         /\ \A t : \A i \in At(t) : i = 1 \/ (i - 1 \in At(t)' /\ i \in Nat)
         /\ At(r.type)' # {}
         /\ 1 \in At(Request.type)
         /\ \A t : \A i \in At(t)' : i \in Nat
         /\ \A t, u : t # u => \A i \in At(t)', j \in At(u)' : i # j
<1>1. /\ \A i \in DOMAIN queue' : \/ i + 1 \in DOMAIN queue /\ queue'[i] = queue[i + 1]
                                  \/ queue'[i] = r /\ \A j \in DOMAIN queue' : j <= i
      /\ \A i \in DOMAIN queue : i = 1 \/ (i - 1 \in DOMAIN queue' /\ queue'[i - 1] = queue[i])
      /\ \E i \in DOMAIN queue' : queue'[i] = r
      /\ 1 \in DOMAIN queue /\ queue[1] = Request
      /\ \A i \in DOMAIN queue : i \in Nat /\ i >= 1
      /\ \A i \in DOMAIN queue' : i \in Nat /\ i >= 1
  BY MailTakenAndSent
<1> QED BY <1>1 DEF At

\* The gate refuses a message.
LEMMA PaceOfRefused ==
  ASSUME TypeOK, Pace, Refused
  PROVE  Pace'
<1>1. /\ queue # <<>> /\ Done(<<>>) /\ Request.type \in {"TimeConfirm", "Response"} /\ ~over
      /\ UNCHANGED <<config, time, time_elapsed, last_response, gate, over, asks, forgiven>>
  BY DEF Refused, Receive, history
<1>2. /\ Mailbox'
      /\ \A t : \A i \in At(t)' : i + 1 \in At(t) /\ i \in Nat
      /\ \A t : Request.type # t => (At(t)' = {} <=> At(t) = {})
  BY <1>1, MovedUp DEF Pace
<1>3. (At("Evolve")' = {} <=> At("Evolve") = {}) /\ (At("Timeout")' = {} <=> At("Timeout") = {})
  BY <1>1, <1>2
<1>4. OneQuestion'
  <2>1. ASSUME NEW i \in At("Evolve")', NEW j \in At("Evolve")' PROVE i = j
    <3>1. i + 1 \in At("Evolve") /\ j + 1 \in At("Evolve") /\ i \in Nat /\ j \in Nat
      BY <1>2
    <3>2. i + 1 = j + 1
      BY <1>1, <3>1 DEF Pace, OneQuestion
    <3> QED BY <3>1, <3>2
  <2> QED BY <1>1, <1>3, <2>1 DEF Pace, OneQuestion
<1>5. TimingOut' => TimingOut
  BY <1>1, <1>3 DEF TimingOut, At
<1>6. TimingOut => TimingOut'
  BY <1>1, <1>3 DEF TimingOut, At
<1>7. InTime'
  <2> SUFFICES ASSUME ~TimingOut' PROVE InTime'
    BY DEF InTime
  <2>1. ~TimingOut
    BY <1>6
  <2>2. ASSUME NEW i \in At("Evolve")'
        PROVE  /\ time_elapsed \in 0..1
               /\ time_elapsed = 1 => \A j \in At("timer_tick")' : i < j
    <3>1. i + 1 \in At("Evolve") /\ i \in Nat
      BY <1>2
    <3>2. ASSUME time_elapsed = 1, NEW j \in At("timer_tick")' PROVE i < j
      <4>1. j + 1 \in At("timer_tick") /\ j \in Nat
        BY <1>2
      <4>2. i + 1 < j + 1
        BY <2>1, <3>1, <3>2, <4>1 DEF Pace, InTime
      <4> QED BY <3>1, <4>1, <4>2
    <3> QED BY <2>1, <3>1, <3>2 DEF Pace, InTime
  <2> QED BY <1>1, <2>1, <2>2 DEF Pace, InTime
<1>8. ElapsedFits'
  BY <1>1 DEF Pace, ElapsedFits
<1> QED BY <1>2, <1>4, <1>7, <1>8 DEF Pace

\* A confirmation: the question has been put, so nothing of the one before it is left.
LEMMA PaceOfTimeConfirm ==
  ASSUME TypeOK, Pace, OnTimeConfirm
  PROVE  Pace'
<1>1. /\ queue # <<>> /\ Done(<<>>) /\ Request.type = "TimeConfirm" /\ ~over
      /\ UNCHANGED <<config, last_response, over, asks>>
  BY DEF OnTimeConfirm, Receive
<1>2. PICK p : p = Request.from /\ gate[p] = "TimeConfirm"
  BY DEF OnTimeConfirm
<1>3. p \in Players
  <2>1. queue \in Seq(Requests) /\ Request \in Requests
    <3>1. queue \in Seq(Requests)
      BY DEF TypeOK, Requests
    <3> QED BY <1>1, <3>1 DEF Request
  <2> QED BY <1>1, <1>2, <2>1 DEF Requests
<1>4. /\ Mailbox'
      /\ \A t : \A i \in At(t)' : i + 1 \in At(t) /\ i \in Nat
      /\ \A t : Request.type # t => (At(t)' = {} <=> At(t) = {})
  BY <1>1, MovedUp DEF Pace
<1>5. (At("Evolve")' = {} <=> At("Evolve") = {}) /\ (At("Timeout")' = {} <=> At("Timeout") = {})
  BY <1>1, <1>4
<1>6. At("Evolve") = {} /\ p = last_response /\ \A q \in Players : q # p => gate[q] = "None"
  BY <1>1, <1>2, <1>3 DEF Pace, OneQuestion
<1>7. /\ gate' = [gate EXCEPT ![p] = "Response"]
      /\ time' = [time EXCEPT ![p] = Confirmed(@, time_elapsed).time]
      /\ time_elapsed' = Confirmed(time[p], time_elapsed).elapsed
      /\ forgiven' = forgiven + Confirmed(time[p], time_elapsed).forgiven
  BY <1>2, <1>6 DEF OnTimeConfirm
<1>8. /\ gate \in [Players -> {"None", "TimeConfirm", "Response"}] /\ time \in [Players -> Times]
      /\ time_elapsed \in Nat /\ forgiven \in Nat /\ asks \in Nat /\ config \in Configs
  BY DEF TypeOK
<1>9. gate'[p] = "Response" /\ \A q \in Players : q # p => gate'[q] = "None"
  BY <1>3, <1>6, <1>7, <1>8
<1>10. time_elapsed' = 0
  BY <1>7 DEF Confirmed
<1>11. OneQuestion'
  BY <1>1, <1>3, <1>5, <1>6, <1>9 DEF OneQuestion
<1>12. TimingOut => TimingOut'
  BY <1>1, <1>5 DEF TimingOut, At
<1>13. ElapsedFits'
  BY <1>10, <1>8, ConfigTyped DEF ElapsedFits
<1>14. AsU16(time_elapsed) = time_elapsed /\ U16 \in Nat
  BY <1>8, ConfigTyped, Narrow DEF Pace, ElapsedFits
<1>15. InTime'
  <2> SUFFICES ASSUME ~TimingOut' PROVE InTime'
    BY DEF InTime
  <2>1. ~TimingOut
    BY <1>12
  <2>2. (time_elapsed <= 1 \/ time_elapsed < time[p].limit) /\ forgiven < asks
    BY <1>2, <1>3, <2>1 DEF Pace, InTime
  <2>3. time[p].limit \in 0..U16
    BY <1>3, <1>8 DEF Times
  <2>4. Beyond(time[p], time_elapsed) \in 0..1
    BY <1>8, <1>14, <2>2, <2>3 DEF Beyond, Floored
  <2>5. Confirmed(time[p], time_elapsed).forgiven \in 0..1
    BY <2>4 DEF Confirmed
  <2>6. forgiven' <= asks'
    BY <1>1, <1>7, <1>8, <2>2, <2>5
  <2> QED BY <1>5, <1>6, <1>9, <1>10, <2>6 DEF InTime
<1> QED BY <1>4, <1>11, <1>13, <1>15 DEF Pace

\* Timeout: the duel is over and nothing is in the mailbox.
LEMMA PaceOfTimeout ==
  ASSUME TypeOK, Pace, OnTimeout
  PROVE  Pace'
<1>1. over' = TRUE /\ queue' = <<>> /\ time_elapsed' = time_elapsed
  BY DEF OnTimeout
<1>2. \A t : At(t)' = {}
  BY <1>1 DEF At
<1>3. Mailbox'
  BY <1>2 DEF Mailbox
<1>4. OneQuestion' /\ InTime' /\ ElapsedFits'
  BY <1>1 DEF OneQuestion, InTime, TimingOut, Pace, ElapsedFits
<1> QED BY <1>3, <1>4 DEF Pace

\* The engine asks: one second of the question before it may have been counted.
LEMMA PaceOfEvolve ==
  ASSUME TypeOK, Pace, OnEvolve
  PROVE  Pace'
<1>1. /\ queue # <<>> /\ Done(<<>>) /\ Request.type = "Evolve" /\ ~over /\ over' = over
      /\ asks' = asks + 1
  BY DEF OnEvolve, Receive
<1>2. PICK p \in Players : last_response' = p /\ gate' = [gate EXCEPT ![p] = "TimeConfirm"]
  BY DEF OnEvolve
<1>3. /\ Mailbox'
      /\ \A t : \A i \in At(t)' : i + 1 \in At(t) /\ i \in Nat
      /\ \A t : Request.type # t => (At(t)' = {} <=> At(t) = {})
      /\ 1 \in At("Evolve")
  BY <1>1, MovedUp DEF Pace
<1>4. At("Evolve")' = {}
  <2> SUFFICES ASSUME NEW i \in At("Evolve")' PROVE FALSE
    OBVIOUS
  <2>1. i + 1 \in At("Evolve") /\ i \in Nat
    BY <1>3
  <2>2. i + 1 = 1
    BY <1>1, <1>3, <2>1 DEF Pace, OneQuestion
  <2>3. i = 0 /\ i \in DOMAIN queue'
    BY <2>1, <2>2 DEF At
  <2> QED BY <1>1, <2>3, MailTaken
<1>5. \A q \in Players : gate[q] = "None"
  BY <1>1, <1>3 DEF Pace, OneQuestion
<1>6. /\ gate \in [Players -> {"None", "TimeConfirm", "Response"}] /\ asks \in Nat
      /\ forgiven \in Nat /\ time_elapsed \in Nat /\ config \in Configs
  BY DEF TypeOK
<1>7. gate'[p] = "TimeConfirm" /\ \A q \in Players : q # p => gate'[q] = "None"
  BY <1>2, <1>5, <1>6
<1>8. OneQuestion'
  BY <1>2, <1>4, <1>7 DEF OneQuestion
<1>9. /\ time_elapsed' = time_elapsed \/ time_elapsed' = 0
      /\ forgiven' = forgiven \/ forgiven' = 0
  BY DEF OnEvolve, NewTurn, history
<1>10. ElapsedFits'
  BY <1>6, <1>9, ConfigTyped DEF Pace, ElapsedFits
<1>11. TimingOut => TimingOut'
  <2>1. At("Timeout")' = {} <=> At("Timeout") = {}
    BY <1>1, <1>3
  <2> QED BY <1>1, <2>1 DEF TimingOut, At
<1>12. InTime'
  <2> SUFFICES ASSUME ~TimingOut' PROVE InTime'
    BY DEF InTime
  <2>1. ~TimingOut
    BY <1>11
  <2>2. time_elapsed \in 0..1 /\ forgiven <= asks
    BY <1>3, <2>1 DEF Pace, InTime
  <2>3. time_elapsed' <= 1 /\ forgiven' < asks'
    BY <1>1, <1>6, <1>9, <2>2
  <2>4. forgiven' <= asks'
    BY <1>1, <1>6, <1>9, <2>2
  <2> QED BY <1>4, <1>7, <2>3, <2>4 DEF InTime
<1> QED BY <1>3, <1>8, <1>10, <1>12 DEF Pace

\* A second: somebody is asked and has it on the clock, or it is the one after an answer, or
\* whoever was asked is timed out.
LEMMA PaceOfTick ==
  ASSUME TypeOK, Pace, OnTimerTick
  PROVE  Pace'
<1>1. /\ queue # <<>> /\ Request.type = "timer_tick" /\ ~over
      /\ UNCHANGED <<config, time, last_response, gate, over, asks, forgiven>>
  BY DEF OnTimerTick, Receive
<1>2. /\ gate \in [Players -> {"None", "TimeConfirm", "Response"}] /\ time \in [Players -> Times]
      /\ time_elapsed \in Nat /\ config \in Configs
      /\ last_response \in Players \cup {Nobody} /\ Nobody \notin Players
  BY TimeBudgetAssumption DEF TypeOK
<1>3. 1 \in At("timer_tick") /\ \A j \in At("timer_tick") : j = 1
  <2>1. 1 \in DOMAIN queue /\ queue[1] = Request
    <3>1. queue \in Seq(Requests)
      BY DEF TypeOK, Requests
    <3> QED BY <1>1, <3>1 DEF Request
  <2>2. 1 \in At("timer_tick")
    BY <1>1, <2>1 DEF At
  <2> QED BY <2>2 DEF Pace, Mailbox
<1>4. \A t : \A i \in At(t) : i \in Nat /\ i >= 1
  <2>1. queue \in Seq(Requests)
    BY DEF TypeOK, Requests
  <2> QED BY <2>1 DEF At
<1>5. At("Timeout") = {} /\ ~TimingOut
  <2>1. \A i \in At("Timeout") : i < 1
    BY <1>3 DEF Pace, Mailbox
  <2>2. At("Timeout") = {}
    BY <1>4, <2>1
  <2> QED BY <1>1, <2>2 DEF TimingOut, At
<1>6. \A i \in At("Evolve") : time_elapsed = 0
  <2> SUFFICES ASSUME NEW i \in At("Evolve"), time_elapsed # 0 PROVE FALSE
    OBVIOUS
  <2>1. time_elapsed = 1 /\ i < 1
    BY <1>3, <1>5 DEF Pace, InTime
  <2> QED BY <1>4, <2>1
<1>7. U16 \in Nat /\ U16 > 1
  BY <1>2, ConfigTyped
<1>8. CASE last_response = Nobody
  <2>1. Done(<<>>) /\ time_elapsed' = time_elapsed
    BY <1>8 DEF OnTimerTick
  <2>2. /\ Mailbox'
        /\ \A t : \A i \in At(t)' : i + 1 \in At(t) /\ i \in Nat
        /\ \A t : Request.type # t => (At(t)' = {} <=> At(t) = {})
    BY <1>1, <2>1, MovedUp DEF Pace
  <2>3. At("Evolve")' = {} <=> At("Evolve") = {}
    BY <1>1, <2>2
  <2>4. OneQuestion'
    <3>1. ASSUME NEW i \in At("Evolve")', NEW j \in At("Evolve")' PROVE i = j
      <4>1. i + 1 \in At("Evolve") /\ j + 1 \in At("Evolve") /\ i \in Nat /\ j \in Nat
        BY <2>2
      <4>2. i + 1 = j + 1
        BY <1>1, <4>1 DEF Pace, OneQuestion
      <4> QED BY <4>1, <4>2
    <3> QED BY <1>1, <2>3, <3>1 DEF Pace, OneQuestion
  <2>5. InTime'
    <3>1. \A i \in At("Evolve")' : time_elapsed' = 0
      BY <1>6, <2>1, <2>2
    <3> QED BY <1>1, <1>5, <2>1, <3>1 DEF Pace, InTime
  <2>6. ElapsedFits'
    BY <2>1 DEF Pace, ElapsedFits
  <2> QED BY <2>2, <2>4, <2>5, <2>6 DEF Pace
<1>9. CASE last_response # Nobody
  <2>1. PICK p \in Players : p = last_response
    BY <1>2, <1>9
  <2>2. /\ time_elapsed' = time_elapsed + 1
        /\ Done(IF time_elapsed' >= time[p].limit
                THEN <<[type |-> "Timeout", player |-> p]>> ELSE <<>>)
    BY <1>9, <2>1 DEF OnTimerTick
  <2>3. ElapsedFits'
    <3>1. CASE At("Evolve") # {}
      BY <1>6, <1>7, <2>2, <3>1 DEF ElapsedFits
    <3>2. CASE At("Evolve") = {}
      <4>1. gate[p] # "None"
        BY <1>1, <2>1, <3>2 DEF Pace, OneQuestion
      <4>2. time_elapsed <= 1 \/ time_elapsed < time[p].limit
        BY <1>2, <1>5, <4>1 DEF Pace, InTime
      <4>3. time[p].limit \in 0..U16
        BY <1>2 DEF Times
      <4> QED BY <1>2, <1>7, <2>2, <4>2, <4>3 DEF ElapsedFits
    <3> QED BY <3>1, <3>2
  <2>4. CASE time_elapsed' >= time[p].limit
    <3>1. PICK r \in Requests : r = [type |-> "Timeout", player |-> p]
      BY DEF Requests
    <3>2. Done(<<r>>) /\ r.type = "Timeout"
      BY <2>2, <2>4, <3>1
    <3>3. /\ \A t : t # "Timeout" => \A i \in At(t)' : i + 1 \in At(t) /\ i \in Nat
          /\ \A t : \A i \in At(t) : i = 1 \/ (i - 1 \in At(t)' /\ i \in Nat)
          /\ At("Timeout")' # {}
          /\ \A t : \A i \in At(t)' : i \in Nat
          /\ 1 \in At(Request.type)
      BY <1>1, <3>2, MovedUpAndSent
    <3>4. At("timer_tick")' = {}
      <4> SUFFICES ASSUME NEW j \in At("timer_tick")' PROVE FALSE
        OBVIOUS
      <4>1. j + 1 \in At("timer_tick") /\ j \in Nat
        BY <3>3
      <4>2. j = 0 /\ j \in DOMAIN queue'
        BY <1>3, <4>1 DEF At
      <4> QED BY <1>1, <3>2, <4>2, MailTakenAndSent
    <3>5. Mailbox'
      BY <3>4 DEF Mailbox
    <3>6. At("Evolve")' = {} <=> At("Evolve") = {}
      <4>1. 1 \notin At("Evolve")
        BY <1>3 DEF At
      <4>2. \A i \in At("Evolve")' : i + 1 \in At("Evolve")
        BY <3>3
      <4>3. \A i \in At("Evolve") : i - 1 \in At("Evolve")'
        BY <3>3, <4>1
      <4> QED BY <4>2, <4>3
    <3>7. OneQuestion'
      <4>1. ASSUME NEW i \in At("Evolve")', NEW j \in At("Evolve")' PROVE i = j
        <5>1. i + 1 \in At("Evolve") /\ j + 1 \in At("Evolve") /\ i \in Nat /\ j \in Nat
          BY <3>3
        <5>2. i + 1 = j + 1
          BY <1>1, <5>1 DEF Pace, OneQuestion
        <5> QED BY <5>1, <5>2
      <4> QED BY <1>1, <3>6, <4>1 DEF Pace, OneQuestion
    <3>8. TimingOut'
      BY <3>3 DEF TimingOut, At
    <3> QED BY <2>3, <3>5, <3>7, <3>8 DEF Pace, InTime
  <2>5. CASE ~(time_elapsed' >= time[p].limit)
    <3>1. Done(<<>>) /\ time_elapsed' < time[p].limit
      <4>1. time[p].limit \in Int /\ time_elapsed' \in Int
        BY <1>2, <1>7, <2>2 DEF Times
      <4> QED BY <2>2, <2>5, <4>1
    <3>2. /\ Mailbox'
          /\ \A t : \A i \in At(t)' : i + 1 \in At(t) /\ i \in Nat
          /\ \A t : Request.type # t => (At(t)' = {} <=> At(t) = {})
      BY <1>1, <3>1, MovedUp DEF Pace
    <3>3. At("Evolve")' = {} <=> At("Evolve") = {}
      BY <1>1, <3>2
    <3>4. OneQuestion'
      <4>1. ASSUME NEW i \in At("Evolve")', NEW j \in At("Evolve")' PROVE i = j
        <5>1. i + 1 \in At("Evolve") /\ j + 1 \in At("Evolve") /\ i \in Nat /\ j \in Nat
          BY <3>2
        <5>2. i + 1 = j + 1
          BY <1>1, <5>1 DEF Pace, OneQuestion
        <5> QED BY <5>1, <5>2
      <4> QED BY <1>1, <3>3, <4>1 DEF Pace, OneQuestion
    <3>5. At("timer_tick")' = {}
      <4> SUFFICES ASSUME NEW j \in At("timer_tick")' PROVE FALSE
        OBVIOUS
      <4>1. j + 1 \in At("timer_tick") /\ j \in Nat
        BY <3>2
      <4>2. j = 0 /\ j \in DOMAIN queue'
        BY <1>3, <4>1 DEF At
      <4> QED BY <1>1, <3>1, <4>2, MailTaken
    <3>6. InTime'
      <4>1. \A i \in At("Evolve")' : time_elapsed' = 1
        BY <1>6, <2>2, <3>2
      <4>2. \A q \in Players : gate'[q] # "None" => q = p
        BY <1>1, <2>1 DEF Pace, OneQuestion
      <4>3. \A q \in Players : gate'[q] = "TimeConfirm" => forgiven' < asks'
        BY <1>1, <1>5 DEF Pace, InTime
      <4>4. forgiven' <= asks'
        BY <1>1, <1>5 DEF Pace, InTime
      <4> QED BY <1>1, <3>1, <3>5, <4>1, <4>2, <4>3, <4>4 DEF InTime
    <3> QED BY <2>3, <3>2, <3>4, <3>6 DEF Pace
  <2> QED BY <2>4, <2>5
<1> QED BY <1>8, <1>9

\* What an answer leaves, as the handlers of Response see it.
LEMMA Answer ==
  ASSUME TypeOK, Pace, OnResponse
  PROVE  \E p \in Players, meaningful \in BOOLEAN :
           /\ gate[p] = "Response" /\ gate' = [gate EXCEPT ![p] = "None"]
           /\ Current(p) \in Accounts /\ time_elapsed <= U16
           /\ LET b == Answered(Current(p), meaningful) IN
              /\ time' = [time EXCEPT ![p] = b.time] /\ time_elapsed' = b.elapsed
              /\ returned' = b.returned /\ deposited' = b.deposited
              /\ forgiven' = b.forgiven
<1>1. queue # <<>> /\ Request.type = "Response"
  BY DEF OnResponse, Receive
<1>2. PICK p : p = Request.from
  OBVIOUS
<1>3. p \in Players
  <2>1. queue \in Seq(Requests)
    BY DEF TypeOK, Requests
  <2>2. Request \in Requests
    BY <1>1, <2>1 DEF Request
  <2> QED BY <1>1, <1>2, <2>2 DEF Requests
<1>4. /\ time[p] \in Times /\ time_elapsed \in Nat /\ returned \in Nat /\ deposited \in Nat
      /\ forgiven \in Nat
  BY <1>3 DEF TypeOK
<1>5. Current(p) \in Accounts
  BY <1>4 DEF Accounts, Current
<1>6. time_elapsed <= U16
  BY DEF Pace, ElapsedFits
<1>7. PICK meaningful \in BOOLEAN :
        LET b == Answered(Current(p), meaningful) IN
        /\ time' = [time EXCEPT ![p] = b.time] /\ time_elapsed' = b.elapsed
        /\ returned' = b.returned /\ deposited' = b.deposited
        /\ forgiven' = b.forgiven
  BY <1>2 DEF OnResponse, Current
<1>8. gate[p] = "Response" /\ gate' = [gate EXCEPT ![p] = "None"]
  BY <1>2 DEF OnResponse
<1> QED BY <1>3, <1>5, <1>6, <1>7, <1>8

\* An answer: the count starts anew and the engine is to go on.
LEMMA PaceOfResponse ==
  ASSUME TypeOK, Pace, OnResponse
  PROVE  Pace'
<1>1. PICK r \in Requests : r = [type |-> "Evolve"]
  BY DEF Requests
<1>2. /\ queue # <<>> /\ Done(<<r>>) /\ r.type = "Evolve" /\ Request.type = "Response" /\ ~over
      /\ UNCHANGED <<config, last_response, over, asks>>
  BY <1>1 DEF OnResponse, Receive
<1>3. PICK p \in Players, meaningful \in BOOLEAN :
        /\ gate[p] = "Response" /\ gate' = [gate EXCEPT ![p] = "None"]
        /\ Current(p) \in Accounts /\ time_elapsed <= U16
        /\ time_elapsed' = Answered(Current(p), meaningful).elapsed
        /\ forgiven' = Answered(Current(p), meaningful).forgiven
  BY Answer
<1>4. /\ config \in Configs /\ order \in Orders /\ time \in [Players -> Times]
      /\ gate \in [Players -> {"None", "TimeConfirm", "Response"}]
      /\ time_elapsed \in Nat /\ forgiven \in Nat /\ asks \in Nat
  BY DEF TypeOK
<1>5. /\ Current(p).elapsed = time_elapsed /\ Current(p).time = time[p]
      /\ Current(p).forgiven = forgiven
  BY DEF Current
<1>6. /\ time_elapsed' = 0
      /\ time_elapsed <= time[p].limit => forgiven' = forgiven
  BY <1>3, <1>4, <1>5, Answering
<1>7. /\ \A t : t # "Evolve" => \A i \in At(t)' : i + 1 \in At(t) /\ i \in Nat
      /\ \A t : \A i \in At(t)' : \/ i + 1 \in At(t) /\ i \in Nat
                                  \/ t = r.type /\ \A u : \A j \in At(u)' : j <= i
      /\ \A t : \A i \in At(t) : i = 1 \/ (i - 1 \in At(t)' /\ i \in Nat)
      /\ At("Evolve")' # {}
      /\ \A t : \A i \in At(t)' : i \in Nat
      /\ 1 \in At("Response")
  BY <1>2, MovedUpAndSent
<1>8. At("Evolve") = {} /\ p = last_response /\ \A q \in Players : q # p => gate[q] = "None"
  BY <1>2, <1>3 DEF Pace, OneQuestion
<1>9. \A q \in Players : gate'[q] = "None"
  BY <1>3, <1>4, <1>8
<1>10. \A i, j \in At("Evolve")' : i = j
  <2> SUFFICES ASSUME NEW i \in At("Evolve")', NEW j \in At("Evolve")' PROVE i = j
    OBVIOUS
  <2>1. i \in Nat /\ j \in Nat
    BY <1>7
  <2>2. j <= i /\ i <= j
    BY <1>7, <1>8
  <2> QED BY <2>1, <2>2
<1>11. OneQuestion'
  BY <1>7, <1>9, <1>10 DEF OneQuestion
<1>12. Mailbox'
  <2>1. ASSUME NEW i \in At("timer_tick")', NEW j \in At("timer_tick")' PROVE i = j
    <3>1. i + 1 \in At("timer_tick") /\ j + 1 \in At("timer_tick") /\ i \in Nat /\ j \in Nat
      BY <1>7
    <3>2. i + 1 = j + 1
      BY <3>1 DEF Pace, Mailbox
    <3> QED BY <3>1, <3>2
  <2>2. ASSUME NEW i \in At("Timeout")', NEW j \in At("timer_tick")' PROVE i < j
    <3>1. i + 1 \in At("Timeout") /\ j + 1 \in At("timer_tick") /\ i \in Nat /\ j \in Nat
      BY <1>7
    <3>2. i + 1 < j + 1
      BY <3>1 DEF Pace, Mailbox
    <3> QED BY <3>1, <3>2
  <2> QED BY <2>1, <2>2 DEF Mailbox
<1>13. TimingOut => TimingOut'
  <2>1. 1 \notin At("Timeout")
    BY <1>7 DEF At
  <2>2. At("Timeout") # {} => At("Timeout")' # {}
    BY <1>7, <2>1
  <2> QED BY <1>2, <2>2 DEF TimingOut, At
<1>14. InTime'
  <2> SUFFICES ASSUME ~TimingOut' PROVE InTime'
    BY DEF InTime
  <2>1. ~TimingOut
    BY <1>13
  <2>2. (time_elapsed = 0 \/ time_elapsed < time[p].limit) /\ forgiven <= asks
    BY <1>3, <2>1 DEF Pace, InTime
  <2>3. time[p].limit \in 0..U16
    BY <1>4 DEF Times
  <2>4. U16 \in Nat
    BY <1>4, ConfigTyped
  <2>5. time_elapsed <= time[p].limit
    BY <1>4, <2>2, <2>3, <2>4
  <2>6. forgiven' <= asks'
    BY <1>2, <1>6, <2>2, <2>5
  <2> QED BY <1>6, <1>9, <2>6 DEF InTime
<1>15. ElapsedFits'
  BY <1>2, <1>4, <1>6, ConfigTyped DEF ElapsedFits
<1> QED BY <1>11, <1>12, <1>14, <1>15 DEF Pace

-----------------------------------------------------------------------------
(* Types and accounts, action by action.                                    *)

\* An answer keeps the account of seconds.
LEMMA AccountOfResponse ==
  ASSUME TypeOK, Pace, Account, OnResponse
  PROVE  Account'
<1>1. PICK p \in Players, meaningful \in BOOLEAN :
        /\ Current(p) \in Accounts /\ time_elapsed <= U16
        /\ LET b == Answered(Current(p), meaningful) IN
           /\ time' = [time EXCEPT ![p] = b.time] /\ time_elapsed' = b.elapsed
           /\ returned' = b.returned /\ deposited' = b.deposited
           /\ forgiven' = b.forgiven
  BY Answer
<1>2. config' = config /\ seconds' = seconds
  BY DEF OnResponse
<1>3. config \in Configs /\ order \in Orders
  BY DEF TypeOK
<1>4. /\ Current(p).elapsed = time_elapsed /\ Current(p).time = time[p]
      /\ Current(p).returned = returned /\ Current(p).deposited = deposited
  BY DEF Current
<1>5. PICK a \in Accounts : a = Current(p)
  BY <1>1
<1>6. PICK b : b = Answered(a, meaningful)
  OBVIOUS
<1>7. /\ b \in Accounts
      /\ Balance(b) = Balance(a)
      /\ a.time.limit < config.limit + (IF config.add = 0 THEN 1 ELSE config.add)
           => b.time.limit < config.limit + (IF config.add = 0 THEN 1 ELSE config.add)
      /\ config.add > 0 =>
           \E k, d \in 0..1 :
             /\ Rest(b.time.backed) = Rest(a.time.backed) - k
             /\ b.returned <= a.returned + (IF k = 1 THEN config.add ELSE 0)
             /\ b.deposited <= a.deposited + (IF d = 1 THEN config.deposit ELSE 0)
             /\ Below(a.time) + d <= 2 * k + Below(b.time)
  <2>1. a.elapsed <= U16
    BY <1>1, <1>4, <1>5
  <2> QED BY <1>3, <1>6, <2>1, Answering
<1>8. a.time = time[p] /\ a.returned = returned /\ a.deposited = deposited
  BY <1>4, <1>5
<1>9. /\ time' = [time EXCEPT ![p] = b.time] /\ time_elapsed' = b.elapsed
      /\ returned' = b.returned /\ deposited' = b.deposited
      /\ forgiven' = b.forgiven
  BY <1>1, <1>5, <1>6
<1>10. config.add > 0 =>
         \E k, d \in 0..1 :
           /\ Rest(b.time.backed) = Rest(time[p].backed) - k
           /\ b.returned <= returned + (IF k = 1 THEN config.add ELSE 0)
           /\ b.deposited <= deposited + (IF d = 1 THEN config.deposit ELSE 0)
           /\ Below(time[p]) + d <= 2 * k + Below(b.time)
  BY <1>7, <1>8
<1>11. /\ b \in Accounts /\ Balance(b) = Balance(Current(p))
       /\ time[p].limit < config.limit + (IF config.add = 0 THEN 1 ELSE config.add)
            => b.time.limit < config.limit + (IF config.add = 0 THEN 1 ELSE config.add)
  BY <1>5, <1>7, <1>8
<1> QED BY <1>2, <1>9, <1>10, <1>11, Settling

\* A confirmation settles the latency, from the wallet or on the clock.
LEMMA Confirming ==
  ASSUME TypeOK, Pace, NEW p \in Players
  PROVE  LET c == Confirmed(time[p], time_elapsed)
             b == [time |-> c.time, elapsed |-> c.elapsed, returned |-> returned,
                   deposited |-> deposited, forgiven |-> forgiven + c.forgiven] IN
         /\ b \in Accounts /\ Balance(b) = Balance(Current(p))
         /\ c.time.limit <= time[p].limit /\ c.time.backed = time[p].backed
<1>1. /\ time[p] \in Times /\ time_elapsed \in Nat /\ returned \in Nat /\ deposited \in Nat
      /\ forgiven \in Nat /\ config \in Configs
  BY DEF TypeOK
<1>2. AsU16(time_elapsed) = time_elapsed /\ U16 \in Nat
  BY <1>1, ConfigTyped, Narrow DEF Pace, ElapsedFits
<1>3. /\ time[p].limit \in 0..U16 /\ time[p].backed \in 0..U16 /\ time[p].compensator \in 0..U16
  BY <1>1 DEF Times
<1> DEFINE c == Confirmed(time[p], time_elapsed)
           b == [time |-> c.time, elapsed |-> c.elapsed, returned |-> returned,
                 deposited |-> deposited, forgiven |-> forgiven + c.forgiven]
<1>4. CASE Compensates(time[p], time_elapsed)
  <2> DEFINE w == time[p].compensator - time_elapsed
             t == [limit |-> time[p].limit, backed |-> time[p].backed, compensator |-> w]
  <2>1. w \in 0..U16
    BY <1>1, <1>2, <1>3, <1>4 DEF Compensates
  <2>2. c = [time |-> [time[p] EXCEPT !.compensator = w], elapsed |-> 0, forgiven |-> 0]
    BY <1>2, <1>4 DEF Confirmed
  <2>3. [time[p] EXCEPT !.compensator = w] = t
    BY <1>1 DEF Times
  <2>4. c.time = t /\ c.elapsed = 0 /\ c.forgiven = 0
    BY <2>2, <2>3
  <2>5. /\ t \in Times /\ t.limit = time[p].limit /\ t.backed = time[p].backed
        /\ t.compensator = w
    BY <1>3, <2>1 DEF Times
  <2> HIDE DEF c, t
  <2>6. b \in Accounts
    BY <1>1, <2>4, <2>5 DEF Accounts
  <2>7. Balance(b) = Balance(Current(p))
    BY <1>1, <1>2, <1>3, <2>4, <2>5 DEF Balance, Current
  <2>8. c.time.limit <= time[p].limit /\ c.time.backed = time[p].backed
    BY <1>2, <1>3, <2>4, <2>5
  <2> QED BY <2>6, <2>7, <2>8 DEF c
<1>5. CASE ~Compensates(time[p], time_elapsed)
  <2> DEFINE l == Floored(time[p].limit - time_elapsed)
             f == Floored(time_elapsed - time[p].limit)
             t == [limit |-> l, backed |-> time[p].backed,
                   compensator |-> time[p].compensator]
  <2>1. /\ l \in 0..U16 /\ f \in Nat /\ l <= time[p].limit
        /\ l - f = time[p].limit - time_elapsed
    BY <1>1, <1>2, <1>3 DEF Floored
  <2>2. c = [time |-> [time[p] EXCEPT !.limit = l], elapsed |-> 0, forgiven |-> f]
    BY <1>2, <1>5 DEF Confirmed, Beyond
  <2> HIDE DEF l, f
  <2>3. [time[p] EXCEPT !.limit = l] = t
    BY <1>1 DEF Times
  <2>4. c.time = t /\ c.elapsed = 0 /\ c.forgiven = f
    BY <2>2, <2>3
  <2>5. /\ t \in Times /\ t.limit = l /\ t.backed = time[p].backed
        /\ t.compensator = time[p].compensator
    BY <1>3, <2>1 DEF Times
  <2> HIDE DEF c, t
  <2>6. b \in Accounts
    BY <1>1, <2>1, <2>4, <2>5 DEF Accounts
  <2>7. Balance(b) = Balance(Current(p))
    BY <1>1, <1>2, <1>3, <2>1, <2>4, <2>5 DEF Balance, Current
  <2>8. c.time.limit <= time[p].limit /\ c.time.backed = time[p].backed
    BY <2>1, <2>4, <2>5
  <2> QED BY <2>6, <2>7, <2>8 DEF c
<1> QED BY <1>4, <1>5

\* A confirmation keeps the account of seconds.
LEMMA AccountOfTimeConfirm ==
  ASSUME TypeOK, Pace, Account, OnTimeConfirm
  PROVE  Account'
<1>1. config' = config /\ seconds' = seconds /\ returned' = returned /\ deposited' = deposited
  BY DEF OnTimeConfirm
<1>2. queue # <<>> /\ Request.type = "TimeConfirm"
  BY DEF OnTimeConfirm, Receive
<1>3. PICK p : p = Request.from
  OBVIOUS
<1>4. p \in Players
  <2>1. queue \in Seq(Requests)
    BY DEF TypeOK, Requests
  <2>2. Request \in Requests
    BY <1>2, <2>1 DEF Request
  <2> QED BY <1>2, <1>3, <2>2 DEF Requests
<1>5. CASE last_response # p
  <2>1. UNCHANGED <<config, time, time_elapsed, history>>
    BY <1>1, <1>3, <1>5 DEF OnTimeConfirm, history
  <2> QED BY <2>1, AccountKept
<1>6. CASE last_response = p
  <2> DEFINE c == Confirmed(time[p], time_elapsed)
  <2>1. /\ time' = [time EXCEPT ![p] = c.time] /\ time_elapsed' = c.elapsed
        /\ forgiven' = forgiven + c.forgiven
    BY <1>3, <1>6 DEF OnTimeConfirm
  <2>2. PICK b : b = [time |-> c.time, elapsed |-> c.elapsed, returned |-> returned,
                      deposited |-> deposited, forgiven |-> forgiven + c.forgiven]
    OBVIOUS
  <2>3. /\ b.time = c.time /\ b.elapsed = c.elapsed /\ b.returned = returned
        /\ b.deposited = deposited /\ b.forgiven = forgiven + c.forgiven
    BY <2>2
  <2>4. /\ b \in Accounts /\ Balance(b) = Balance(Current(p))
        /\ c.time.limit <= time[p].limit /\ c.time.backed = time[p].backed
    BY <1>4, <2>2, Confirming
  <2> HIDE DEF c
  <2>5. /\ config \in Configs /\ time[p] \in Times /\ returned \in Nat /\ deposited \in Nat
    BY <1>4 DEF TypeOK
  <2>6. /\ config.limit \in 1..U16 /\ config.add \in 0..U16 /\ config.deposit \in 0..U16
        /\ U16 \in Nat
    BY <2>5, ConfigTyped
  <2>7. /\ time[p].limit \in 0..U16 /\ b.time.limit \in 0..U16 /\ time[p].backed \in 0..U16
    BY <2>4, <2>5 DEF Times, Accounts
  <2>8. time[p].limit < config.limit + (IF config.add = 0 THEN 1 ELSE config.add)
          => b.time.limit < config.limit + (IF config.add = 0 THEN 1 ELSE config.add)
    BY <2>3, <2>4, <2>6, <2>7
  <2>9. config.add > 0 =>
          /\ Rest(b.time.backed) = Rest(time[p].backed) - 0
          /\ b.returned <= returned + (IF 0 = 1 THEN config.add ELSE 0)
          /\ b.deposited <= deposited + (IF 0 = 1 THEN config.deposit ELSE 0)
          /\ Below(time[p]) + 0 <= 2 * 0 + Below(b.time)
    <3>1. b.time.limit <= time[p].limit /\ b.time.backed = time[p].backed
      BY <2>3, <2>4
    <3>2. Below(time[p]) <= Below(b.time)
      BY <3>1, <2>6, <2>7 DEF Below
    <3>3. Below(time[p]) \in 0..1 /\ Below(b.time) \in 0..1
      BY DEF Below
    <3>4. config.add > 0 => Rest(time[p].backed) \in Int
      BY <2>6, <2>7 DEF Rest
    <3> QED BY <2>3, <2>5, <3>1, <3>2, <3>3, <3>4
  <2>10. config.add > 0 =>
           \E k, d \in 0..1 :
             /\ Rest(b.time.backed) = Rest(time[p].backed) - k
             /\ b.returned <= returned + (IF k = 1 THEN config.add ELSE 0)
             /\ b.deposited <= deposited + (IF d = 1 THEN config.deposit ELSE 0)
             /\ Below(time[p]) + d <= 2 * k + Below(b.time)
    <3>1. 0 \in 0..1
      OBVIOUS
    <3> QED BY <2>9, <3>1
  <2>11. /\ time' = [time EXCEPT ![p] = b.time] /\ time_elapsed' = b.elapsed
         /\ returned' = b.returned /\ deposited' = b.deposited /\ forgiven' = b.forgiven
    BY <1>1, <2>1, <2>3 DEF c
  <2> QED BY <1>1, <1>4, <2>4, <2>8, <2>10, <2>11, Settling
<1> QED BY <1>5, <1>6

\* Every step keeps the account of seconds.
LEMMA AccountStep ==
  ASSUME TypeOK, Pace, Account, TypeOK', [Next]_vars
  PROVE  Account'
<1>1. CASE OnTimerTick
  <2>1. /\ config' = config /\ time' = time /\ returned' = returned /\ deposited' = deposited
        /\ forgiven' = forgiven
        /\ \/ time_elapsed' = time_elapsed /\ seconds' = seconds
           \/ time_elapsed' = time_elapsed + 1 /\ seconds' = seconds + 1
    BY <1>1 DEF OnTimerTick
  <2>2. CASE time_elapsed' = time_elapsed /\ seconds' = seconds
    BY <2>1, <2>2, AccountKept DEF history
  <2>3. CASE time_elapsed' = time_elapsed + 1 /\ seconds' = seconds + 1
    <3>1. PICK n \in Int :
            n = forgiven + (Seats * Wallet(config) + deposited - Wallets)
                + (Seats * config.limit + returned - Clocks)
      <4>1. /\ forgiven \in Nat /\ deposited \in Nat /\ returned \in Nat /\ config \in Configs
        BY DEF TypeOK
      <4>2. Wallet(config) \in Int /\ config.limit \in Int
        BY <4>1, ConfigTyped
      <4>3. Seats * Wallet(config) \in Int /\ Seats * config.limit \in Int
        BY <4>2, SumsTyped
      <4> QED BY <4>1, <4>3, SumsTyped
    <3>2. seconds = time_elapsed + n /\ seconds \in Nat /\ time_elapsed \in Nat
      <4>1. /\ forgiven \in Nat /\ deposited \in Nat /\ returned \in Nat /\ config \in Configs
            /\ seconds \in Nat /\ time_elapsed \in Nat
        BY DEF TypeOK
      <4>2. Wallet(config) \in Int /\ config.limit \in Int
        BY <4>1, ConfigTyped
      <4>3. PICK u \in Int, v \in Int :
              /\ u = Seats * Wallet(config) + deposited - Wallets
              /\ v = Seats * config.limit + returned - Clocks
        <5>1. Seats * Wallet(config) \in Int /\ Seats * config.limit \in Int
          BY <4>2, SumsTyped
        <5> QED BY <4>1, <5>1, SumsTyped
      <4>4. seconds = time_elapsed + forgiven + u + v /\ n = forgiven + u + v
        BY <3>1, <4>3 DEF Account, SecondsCountOnce
      <4> QED BY <4>1, <4>3, <4>4
    <3>3. SecondsCountOnce'
      <4>1. n = (forgiven + (Seats * Wallet(config) + deposited - Wallets)
                 + (Seats * config.limit + returned - Clocks))'
        BY <2>1, <3>1 DEF Seats, Wallet, Wallets, Clocks
      <4>2. PICK f \in Int, u \in Int, v \in Int :
              /\ f = forgiven'
              /\ u = (Seats * Wallet(config) + deposited - Wallets)'
              /\ v = (Seats * config.limit + returned - Clocks)'
        <5>1. /\ forgiven' \in Nat /\ deposited' \in Nat /\ returned' \in Nat /\ config \in Configs
          BY DEF TypeOK
        <5>2. Wallet(config) \in Int /\ config.limit \in Int
          BY <5>1, ConfigTyped
        <5>3. Seats * Wallet(config) \in Int /\ Seats * config.limit \in Int
          BY <5>2, SumsTyped
        <5>4. /\ (Seats * Wallet(config))' = Seats * Wallet(config) /\ Wallets' = Wallets
              /\ (Seats * config.limit)' = Seats * config.limit /\ Clocks' = Clocks
          BY <2>1 DEF Seats, Wallet, Wallets, Clocks
        <5> QED BY <5>1, <5>3, <5>4, SumsTyped
      <4>3. n = f + u + v
        BY <4>1, <4>2
      <4>4. seconds' = time_elapsed' + f + u + v
        BY <2>3, <3>2, <4>2, <4>3
      <4> QED BY <4>2, <4>4 DEF SecondsCountOnce
    <3>4. ClockWithinLimit'
      BY <2>1 DEF Account, ClockWithinLimit
    <3>5. PutInByStep'
      BY <2>1 DEF Account, PutInByStep, Returns, Deposits, Used, Below, Rest, Steps, Budget
    <3> QED BY <3>3, <3>4, <3>5 DEF Account
  <2> QED BY <2>1, <2>2, <2>3
<1>2. CASE OnEvolve
  <2>1. CASE NewTurn
    <3>1. /\ config \in Configs /\ config' = config
          /\ time' = [p \in Players |-> Fresh(config)] /\ time_elapsed' = 0
          /\ seconds' = 0 /\ returned' = 0 /\ deposited' = 0 /\ forgiven' = 0
      BY <1>2, <2>1 DEF OnEvolve, NewTurn, TypeOK
    <3>2. (/\ config \in Configs /\ time = [p \in Players |-> Fresh(config)]
           /\ time_elapsed = 0 /\ seconds = 0 /\ returned = 0 /\ deposited = 0
           /\ forgiven = 0)'
      BY <3>1 DEF Fresh, Budget, Wallet
    <3>3. (config \in Configs /\ time = [p \in Players |-> Fresh(config)]
           /\ time_elapsed = 0 /\ seconds = 0 /\ returned = 0 /\ deposited = 0
           /\ forgiven = 0 => Account)'
      BY AllFresh, PTL
    <3> QED BY <3>2, <3>3
  <2>2. CASE UNCHANGED <<time, time_elapsed, turns, history>>
    <3>1. UNCHANGED <<config, time, time_elapsed, history>>
      BY <1>2, <2>2 DEF OnEvolve
    <3> QED BY <3>1, AccountKept
  <2> QED BY <1>2, <2>1, <2>2 DEF OnEvolve
<1>3. CASE OnResponse
  BY <1>3, AccountOfResponse
<1>4. CASE OnTimeConfirm
  BY <1>4, AccountOfTimeConfirm
<1>5. CASE Refused \/ OnTimeout \/ TimerTicks \/ UNCHANGED vars
  <2>1. UNCHANGED <<config, time, time_elapsed, history>>
    BY <1>5 DEF Refused, OnTimeout, TimerTicks, vars, history
  <2> QED BY <2>1, AccountKept
<1>6. CASE \E p \in Players : ClientSends(p) \/ ClientAnswersEarly(p)
  <2>1. UNCHANGED <<config, time, time_elapsed, history>>
    BY <1>6 DEF ClientSends, ClientAnswersEarly
  <2> QED BY <2>1, AccountKept
<1> QED BY <1>1, <1>2, <1>3, <1>4, <1>5, <1>6 DEF Next, Actor

\* Every step keeps the types.
LEMMA TypeStep ==
  ASSUME TypeOK, Pace, [Next]_vars
  PROVE  TypeOK'
<1>1. /\ config \in Configs /\ order \in Orders /\ time \in [Players -> Times]
      /\ time_elapsed \in Nat /\ last_response \in Players \cup {Nobody}
      /\ gate \in [Players -> {"None", "TimeConfirm", "Response"}]
      /\ owes \in [Players -> {"None", "TimeConfirm", "Response"}]
      /\ queue \in Seq(Requests)
      /\ over \in BOOLEAN /\ asks \in 0..MaxAsks /\ turns \in 1..MaxTurns
      /\ seconds \in Nat /\ returned \in Nat /\ deposited \in Nat /\ forgiven \in Nat
  BY DEF TypeOK, Requests
<1>2. MaxAsks \in Nat /\ MaxTurns \in Nat /\ Fresh(config) \in Times
  BY <1>1, TimeBudgetAssumption, ConfigTyped
<1>3. CASE OnTimerTick
  <2>1. /\ UNCHANGED <<config, order, time, last_response, gate, owes, over, asks, turns,
                       returned, deposited, forgiven>>
        /\ time_elapsed' \in Nat /\ seconds' \in Nat
    BY <1>1, <1>3 DEF OnTimerTick
  <2>2. queue' \in Seq(Requests)
    <3>1. queue # <<>>
      BY <1>3 DEF OnTimerTick, Receive
    <3>2. CASE Done(<<>>)
      BY <3>1, <3>2, MailTaken
    <3>3. CASE ~Done(<<>>)
      <4>1. /\ last_response # Nobody
            /\ Done(<<[type |-> "Timeout", player |-> last_response]>>)
        BY <1>3, <3>3 DEF OnTimerTick
      <4>2. PICK r \in Requests : r = [type |-> "Timeout", player |-> last_response]
        BY <1>1, <4>1 DEF Requests
      <4> QED BY <3>1, <4>1, <4>2, MailTakenAndSent
    <3> QED BY <3>2, <3>3
  <2> QED BY <1>1, <2>1, <2>2 DEF TypeOK, Requests
<1>4. CASE Refused
  <2>1. UNCHANGED <<config, order, time, time_elapsed, last_response, gate, owes, over, asks,
                    turns, seconds, returned, deposited, forgiven>>
    BY <1>4 DEF Refused, history
  <2>2. queue' \in Seq(Requests)
    BY <1>4, MailTaken DEF Refused, Receive
  <2> QED BY <1>1, <2>1, <2>2 DEF TypeOK, Requests
<1>5. CASE OnTimeConfirm
  <2>1. UNCHANGED <<config, order, last_response, owes, over, asks, turns, seconds, returned,
                    deposited>>
    BY <1>5 DEF OnTimeConfirm
  <2>2. queue' \in Seq(Requests)
    BY <1>5, MailTaken DEF OnTimeConfirm, Receive
  <2>3. PICK p : p = Request.from
    OBVIOUS
  <2>4. CASE last_response # p
    <3>1. UNCHANGED <<time, time_elapsed, gate, forgiven>>
      BY <1>5, <2>3, <2>4 DEF OnTimeConfirm
    <3> QED BY <1>1, <2>1, <2>2, <3>1 DEF TypeOK, Requests
  <2>5. CASE last_response = p
    <3> DEFINE c == Confirmed(time[p], time_elapsed)
               b == [time |-> c.time, elapsed |-> c.elapsed, returned |-> returned,
                     deposited |-> deposited, forgiven |-> forgiven + c.forgiven]
    <3>1. /\ gate' = [gate EXCEPT ![p] = "Response"] /\ time' = [time EXCEPT ![p] = c.time]
          /\ time_elapsed' = c.elapsed /\ forgiven' = forgiven + c.forgiven
      BY <1>5, <2>3, <2>5 DEF OnTimeConfirm
    <3>2. p \in Players
      <4>1. queue # <<>> /\ Request.type = "TimeConfirm"
        BY <1>5 DEF OnTimeConfirm, Receive
      <4>2. Request \in Requests
        BY <1>1, <4>1 DEF Request
      <4> QED BY <2>3, <4>1, <4>2 DEF Requests
    <3>3. b \in Accounts
      BY <3>2, Confirming
    <3>4. c.time \in Times /\ c.elapsed \in Nat /\ forgiven + c.forgiven \in Nat
      <4> HIDE DEF c
      <4> QED BY <3>3 DEF Accounts
    <3> HIDE DEF c, b
    <3>5. /\ time' \in [Players -> Times] /\ time_elapsed' \in Nat /\ forgiven' \in Nat
          /\ gate' \in [Players -> {"None", "TimeConfirm", "Response"}]
      BY <1>1, <3>1, <3>4
    <3> QED BY <1>1, <2>1, <2>2, <3>5 DEF TypeOK, Requests
  <2> QED BY <2>4, <2>5
<1>6. CASE OnResponse
  <2>1. UNCHANGED <<config, order, last_response, owes, over, asks, turns, seconds>>
    BY <1>6 DEF OnResponse
  <2>2. queue' \in Seq(Requests)
    <3>1. PICK r \in Requests : r = [type |-> "Evolve"]
      BY DEF Requests
    <3>2. queue # <<>> /\ Done(<<r>>)
      BY <1>6, <3>1 DEF OnResponse, Receive
    <3> QED BY <3>2, MailTakenAndSent
  <2>3. PICK p \in Players, meaningful \in BOOLEAN :
          /\ gate' = [gate EXCEPT ![p] = "None"]
          /\ Current(p) \in Accounts /\ time_elapsed <= U16
          /\ LET b == Answered(Current(p), meaningful) IN
             /\ time' = [time EXCEPT ![p] = b.time] /\ time_elapsed' = b.elapsed
             /\ returned' = b.returned /\ deposited' = b.deposited
             /\ forgiven' = b.forgiven
    BY <1>6, Answer
  <2>4. Answered(Current(p), meaningful) \in Accounts
    <3>1. Current(p).elapsed = time_elapsed
      BY DEF Current
    <3> QED BY <1>1, <2>3, <3>1, Answering
  <2>5. PICK b \in Accounts : b = Answered(Current(p), meaningful)
    BY <2>4
  <2>6. /\ time' = [time EXCEPT ![p] = b.time] /\ time_elapsed' = b.elapsed
        /\ returned' = b.returned /\ deposited' = b.deposited /\ forgiven' = b.forgiven
    BY <2>3, <2>5
  <2>7. /\ time' \in [Players -> Times] /\ time_elapsed' \in Nat /\ returned' \in Nat
        /\ deposited' \in Nat /\ forgiven' \in Nat
        /\ gate' \in [Players -> {"None", "TimeConfirm", "Response"}]
    BY <1>1, <2>3, <2>6 DEF Accounts
  <2> QED BY <1>1, <2>1, <2>2, <2>7 DEF TypeOK, Requests
<1>7. CASE OnEvolve
  <2>1. UNCHANGED <<config, order, over>> /\ asks' \in 0..MaxAsks
    BY <1>1, <1>2, <1>7 DEF OnEvolve
  <2>2. queue' \in Seq(Requests)
    BY <1>7, MailTaken DEF OnEvolve, Receive
  <2>3. /\ last_response' \in Players
        /\ gate' \in [Players -> {"None", "TimeConfirm", "Response"}]
        /\ owes' \in [Players -> {"None", "TimeConfirm", "Response"}]
    BY <1>1, <1>7 DEF OnEvolve
  <2>4. /\ time' \in [Players -> Times] /\ time_elapsed' \in Nat /\ turns' \in 1..MaxTurns
        /\ seconds' \in Nat /\ returned' \in Nat /\ deposited' \in Nat /\ forgiven' \in Nat
    <3>1. CASE NewTurn
      BY <1>1, <1>2, <3>1 DEF NewTurn
    <3>2. CASE UNCHANGED <<time, time_elapsed, turns, history>>
      BY <1>1, <3>2 DEF history
    <3> QED BY <1>7, <3>1, <3>2 DEF OnEvolve
  <2> QED BY <1>1, <2>1, <2>2, <2>3, <2>4 DEF TypeOK, Requests
<1>8. CASE OnTimeout
  BY <1>1, <1>8 DEF OnTimeout, TypeOK, history
<1>9. CASE TimerTicks
  <2>1. PICK r \in Requests : r = [type |-> "timer_tick"]
    BY DEF Requests
  <2>2. queue' \in Seq(Requests)
    BY <1>9, <2>1, MailPosted DEF TimerTicks
  <2> QED BY <1>1, <1>9, <2>2 DEF TimerTicks, TypeOK, Requests, history
<1>10. ASSUME NEW p \in Players, ClientSends(p) \/ ClientAnswersEarly(p)
       PROVE  TypeOK'
  <2>1. UNCHANGED <<config, order, time, time_elapsed, last_response, gate, over, asks, turns,
                    seconds, returned, deposited, forgiven>>
    BY <1>10 DEF ClientSends, ClientAnswersEarly, history
  <2>2. owes' \in [Players -> {"None", "TimeConfirm", "Response"}]
    BY <1>1, <1>10 DEF ClientSends, ClientAnswersEarly
  <2>3. PICK r \in Requests : queue' = Append(queue, r)
    <3>1. CASE ClientSends(p)
      <4>1. owes[p] \in {"TimeConfirm", "Response"}
        BY <1>1, <3>1 DEF ClientSends
      <4>2. [type |-> owes[p], from |-> p] \in Requests
        BY <4>1 DEF Requests
      <4> QED BY <3>1, <4>2 DEF ClientSends, Post
    <3>2. CASE ClientAnswersEarly(p)
      <4>1. [type |-> "Response", from |-> p] \in Requests
        BY DEF Requests
      <4> QED BY <3>2, <4>1 DEF ClientAnswersEarly, Post
    <3> QED BY <1>10, <3>1, <3>2
  <2>4. queue' \in Seq(Requests)
    BY <2>3, MailPosted
  <2> QED BY <1>1, <2>1, <2>2, <2>4 DEF TypeOK, Requests
<1>11. CASE UNCHANGED vars
  BY <1>1, <1>11 DEF vars, TypeOK, Requests
<1> QED BY <1>3, <1>4, <1>5, <1>6, <1>7, <1>8, <1>9, <1>10, <1>11 DEF Next, Actor

\* Every step keeps the pace of questions and seconds.
LEMMA PaceStep ==
  ASSUME TypeOK, Pace, [Next]_vars
  PROVE  Pace'
<1>1. ASSUME NEW p \in Players, ClientSends(p) \/ ClientAnswersEarly(p)
      PROVE  Pace'
  <2>1. UNCHANGED <<config, time, time_elapsed, last_response, gate, over, asks, forgiven>>
    BY <1>1 DEF ClientSends, ClientAnswersEarly, history
  <2>2. PICK r \in Requests : /\ queue' = Append(queue, r)
                              /\ r.type \in {"TimeConfirm", "Response"}
    <3>1. CASE ClientSends(p)
      <4>1. owes[p] \in {"TimeConfirm", "Response"}
        BY <3>1 DEF ClientSends, TypeOK
      <4>2. [type |-> owes[p], from |-> p] \in Requests
        BY <4>1 DEF Requests
      <4> QED BY <3>1, <4>1, <4>2 DEF ClientSends, Post
    <3>2. CASE ClientAnswersEarly(p)
      <4>1. [type |-> "Response", from |-> p] \in Requests
        BY DEF Requests
      <4> QED BY <3>2, <4>1 DEF ClientAnswersEarly, Post
    <3> QED BY <1>1, <3>1, <3>2
  <2> QED BY <2>1, <2>2, PaceOfClients
<1>2. CASE UNCHANGED vars
  BY <1>2 DEF vars, Pace, Mailbox, OneQuestion, InTime, ElapsedFits, TimingOut, At
<1> QED BY <1>1, <1>2, PaceOfTick, PaceOfRefused, PaceOfTimeConfirm, PaceOfResponse,
           PaceOfEvolve, PaceOfTimeout, PaceOfTimer DEF Next, Actor

-----------------------------------------------------------------------------
(* The theorems.                                                            *)
IInv == TypeOK /\ Pace /\ Account

\* A duel begins with the first question due and every clock full.
LEMMA Initially == Init => IInv
<1> SUFFICES ASSUME Init PROVE IInv
  OBVIOUS
<1>1. config \in Configs
  BY DEF Init
<1>2. Fresh(config) \in Times
  BY <1>1, ConfigTyped
<1>3. queue = <<[type |-> "Evolve"]>> /\ queue \in Seq(Requests)
  BY DEF Init, Requests
<1>4. TypeOK
  <2>1. 0 \in 0..MaxAsks /\ 1 \in 1..MaxTurns
    BY TimeBudgetAssumption
  <2>2. asks \in 0..MaxAsks /\ turns \in 1..MaxTurns
    BY <2>1 DEF Init
  <2>3. /\ time \in [Players -> Times]
        /\ gate \in [Players -> {"None", "TimeConfirm", "Response"}]
        /\ owes \in [Players -> {"None", "TimeConfirm", "Response"}]
    BY <1>2 DEF Init
  <2>4. /\ config \in Configs /\ order \in Orders /\ time_elapsed \in Nat
        /\ last_response \in Players \cup {Nobody} /\ over \in BOOLEAN
        /\ seconds \in Nat /\ returned \in Nat /\ deposited \in Nat /\ forgiven \in Nat
    BY DEF Init
  <2> QED BY <1>3, <2>2, <2>3, <2>4 DEF TypeOK, Requests
<1>5. DOMAIN queue = {1} /\ queue[1].type = "Evolve"
  BY <1>3
<1>6. At("Evolve") = {1} /\ At("timer_tick") = {} /\ At("Timeout") = {}
  BY <1>5 DEF At
<1>7. Pace
  BY <1>1, <1>6, ConfigTyped DEF Init, Pace, Mailbox, OneQuestion, InTime, ElapsedFits
<1>8. Account
  BY <1>1, AllFresh DEF Init
<1> QED BY <1>4, <1>7, <1>8 DEF IInv

\* The invariant is inductive.
LEMMA Inductive == IInv /\ [Next]_vars => IInv'
BY TypeStep, PaceStep, AccountStep DEF IInv

\* The invariant holds in every reachable state.
LEMMA Invariant == Spec => []IInv
BY Initially, Inductive, PTL DEF Spec

\* The seconds of a turn (time_limit, time_backed, time_compensator): whatever the order of
\* the handlers of Response, each is counted once, a question forgives one at most, and
\* saturating_sub and saturating_add never hide more than that.
THEOREM EverySecondAccounted == Spec => []SecondsAccounted
<1>1. IInv => SecondsAccounted
  <2> SUFFICES ASSUME IInv PROVE SecondsAccounted
    OBVIOUS
  <2>1. TypeOK /\ SecondsCountOnce /\ ClockWithinLimit
    BY DEF IInv, Account
  <2>2. OneSecondForgiven
    BY DEF IInv, Pace, InTime, OneSecondForgiven
  <2> QED BY <2>1, <2>2 DEF SecondsAccounted
<1> QED BY <1>1, Invariant, PTL

\* What is put in is paid for by the budgets, so it stays within them.
LEMMA BoundedByBudgets == IInv => TurnIsBounded
<1> SUFFICES ASSUME IInv, config.add > 0
             PROVE  /\ returned <= Seats * Steps * config.add
                    /\ deposited <= Seats * (2 * Steps + 1) * config.deposit
  BY DEF TurnIsBounded
<1>1. TypeOK /\ PutInByStep
  BY DEF IInv, Account
<1>2. /\ config \in Configs /\ time \in [Players -> Times] /\ returned \in Nat
      /\ deposited \in Nat
  BY <1>1 DEF TypeOK
<1>3. /\ config.add \in 0..U16 /\ config.deposit \in 0..U16 /\ Budget(config) \in 0..U16
      /\ U16 \in Nat
  BY <1>2, ConfigTyped
<1>4. IsFiniteSet(Players)
  BY TimeBudgetAssumption
<1>5. Steps \in Nat /\ Seats \in Nat /\ Returns \in Int /\ Deposits \in Int
  BY <1>1, SumsTyped
<1>6. \A p \in Players : Used(time[p]) \in Int /\ Used(time[p]) <= Steps /\ Below(time[p]) \in 0..1
  <2> TAKE p \in Players
  <2>1. time[p].backed \in 0..U16
    BY <1>2 DEF Times
  <2>2. Rest(time[p].backed) \in Nat
    BY <1>3, <2>1 DEF Rest
  <2> QED BY <1>5, <2>2 DEF Used, Below
<1>7. Returns <= Seats * Steps
  <2> DEFINE f == [p \in Players |-> Used(time[p])]
  <2>1. f \in [Players -> Int] /\ \A p \in Players : f[p] <= Steps
    BY <1>6
  <2>2. Steps \in Int
    BY <1>5
  <2> HIDE DEF f
  <2>3. SumFunction(f) <= Cardinality(Players) * Steps
    BY <1>4, <2>1, <2>2, SumAtMost
  <2> QED BY <2>3 DEF Returns, Seats, f
<1>8. Deposits <= Seats * (2 * Steps + 1)
  <2> DEFINE f == [p \in Players |-> 2 * Used(time[p]) + Below(time[p])]
  <2>1. f \in [Players -> Int] /\ \A p \in Players : f[p] <= 2 * Steps + 1
    BY <1>5, <1>6
  <2>2. 2 * Steps + 1 \in Int
    BY <1>5
  <2> HIDE DEF f
  <2>3. SumFunction(f) <= Cardinality(Players) * (2 * Steps + 1)
    BY <1>4, <2>1, <2>2, SumAtMost
  <2> QED BY <2>3 DEF Deposits, Seats, f
<1>9. /\ Seats * Steps \in Int /\ Seats * (2 * Steps + 1) \in Int
      /\ config.add \in Nat /\ config.deposit \in Nat
  BY <1>3, <1>5
<1>10. returned <= Returns * config.add /\ deposited <= Deposits * config.deposit
  BY <1>1 DEF PutInByStep
<1>11. ASSUME NEW m \in Int, NEW n \in Int, NEW c \in Nat, NEW x \in Int, m <= n, x <= m * c
       PROVE  x <= n * c
  <2>1. m + 0 <= n /\ x <= x + (IF 0 = 1 THEN c ELSE 0)
    BY <1>11
  <2> QED BY <1>11, <2>1, StepPaidFor
<1>12. returned <= (Seats * Steps) * config.add
  BY <1>2, <1>5, <1>7, <1>9, <1>10, <1>11
<1>13. deposited <= (Seats * (2 * Steps + 1)) * config.deposit
  BY <1>2, <1>5, <1>8, <1>9, <1>10, <1>11
<1> QED BY <1>12, <1>13

\* "without letting a single turn extend forever" (time_backed): for every configuration that
\* adds seconds, what a turn puts back and what it puts into the wallets is bounded.
THEOREM EveryTurnBounded == Spec => []TurnIsBounded
BY BoundedByBudgets, Invariant, PTL
============================================================================

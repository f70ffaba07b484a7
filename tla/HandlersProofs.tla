--------------------------- MODULE HandlersProofs ---------------------------
(***************************************************************************)
(* Theorems about Handlers, for every set of handlers, keys, modules and    *)
(* priorities and any number of requests: the graver answer prevails, every *)
(* handler of a key runs once, in the order of priorities, what they say is *)
(* sent in that order, and the statistics count each of them once.          *)
(***************************************************************************)
EXTENDS Handlers, FoldFacts

-----------------------------------------------------------------------------
(* Responses.                                                               *)

Kinds == {"Continue", "Swallow", "Terminate", "Kick"}

\* The responses and what a handler may answer.
LEMMA ResponseKinds ==
  /\ \A kind \in Kinds : Flag(kind) \in Responses /\ Flag(kind).kind = kind
  /\ \A r \in Responses : \/ r.kind \in {"Replace", "ReplaceMultiple"} /\ r.messages \in Seq(Names)
                          \/ r.kind \in Kinds /\ r = Flag(r.kind)
  /\ \A ms \in Seq(Names) : ReplaceMultiple(ms) \in Responses /\ ReplaceMultiple(ms).kind = "ReplaceMultiple"
  BY DEF Responses, Flag, Continue, Swallow, Terminate, Kick, Kinds, ReplaceMultiple

\* A handler answers a response.
LEMMA AnswersTyped ==
  ASSUME NEW h \in Names
  PROVE  Answers(h) \subseteq Responses
<1>1. Replace(h) \in Responses
  BY DEF Replace, Responses
<1>2. ReplaceMultiple(<<h, h>>) \in Responses
  BY DEF ReplaceMultiple, Responses
<1>3. {Continue, Swallow, Terminate, Kick} \subseteq Responses
  BY DEF Responses
<1> QED
  BY <1>1, <1>2, <1>3 DEF Answers

\* Two responses combine to one, and the graver of them decides of which kind.
LEMMA CombineKinds ==
  ASSUME NEW a \in Responses, NEW b \in Responses
  PROVE  /\ Combine(a, b) \in Responses
         /\ a.kind = "Kick" \/ b.kind = "Kick" => Combine(a, b) = Kick
         /\ a.kind # "Kick" /\ b.kind # "Kick" =>
              /\ a.kind = "Terminate" \/ b.kind = "Terminate" => Combine(a, b) = Terminate
              /\ a.kind # "Terminate" /\ b.kind # "Terminate" =>
                   /\ a.kind = "Swallow" \/ b.kind = "Swallow" => Combine(a, b) = Swallow
                   /\ a.kind # "Swallow" /\ b.kind # "Swallow" =>
                        Combine(a, b).kind \in {"Continue", "Replace", "ReplaceMultiple"}
<1>1. /\ a = Kick <=> a.kind = "Kick"
      /\ a = Terminate <=> a.kind = "Terminate"
      /\ a = Swallow <=> a.kind = "Swallow"
      /\ a = Continue <=> a.kind = "Continue"
  BY ResponseKinds DEF Kick, Terminate, Swallow, Continue, Kinds
<1>2. /\ b = Kick <=> b.kind = "Kick"
      /\ b = Terminate <=> b.kind = "Terminate"
      /\ b = Swallow <=> b.kind = "Swallow"
      /\ b = Continue <=> b.kind = "Continue"
  BY ResponseKinds DEF Kick, Terminate, Swallow, Continue, Kinds
<1>3. /\ Kick \in Responses /\ Terminate \in Responses /\ Swallow \in Responses
      /\ Continue \in Responses
  BY DEF Responses
<1>4. CASE a = Continue
  BY <1>1, <1>2, <1>4, ResponseKinds DEF Combine, Kinds
<1>5. CASE a # Continue /\ b = Continue
  BY <1>1, <1>2, <1>5, ResponseKinds DEF Combine, Kinds
<1>6. CASE a # Continue /\ b # Continue /\ Kick \in {a, b}
  BY <1>1, <1>2, <1>3, <1>6 DEF Combine
<1>7. CASE a # Continue /\ b # Continue /\ Kick \notin {a, b} /\ Terminate \in {a, b}
  BY <1>1, <1>2, <1>3, <1>7 DEF Combine
<1>8. CASE /\ a # Continue /\ b # Continue /\ Kick \notin {a, b} /\ Terminate \notin {a, b}
           /\ Swallow \in {a, b}
  BY <1>1, <1>2, <1>3, <1>8 DEF Combine
<1>9. CASE /\ a # Continue /\ b # Continue /\ Kick \notin {a, b} /\ Terminate \notin {a, b}
           /\ Swallow \notin {a, b}
  <2>1. a.messages \in Seq(Names) /\ b.messages \in Seq(Names)
    BY <1>1, <1>2, <1>9, ResponseKinds DEF Kinds
  <2>2. a.messages \o b.messages \in Seq(Names)
    BY <2>1, ConcatProperties
  <2>3. Combine(a, b) = ReplaceMultiple(a.messages \o b.messages)
    BY <1>9 DEF Combine
  <2> QED
    BY <1>1, <1>2, <1>9, <2>2, <2>3, ResponseKinds
<1> QED
  BY <1>4, <1>5, <1>6, <1>7, <1>8, <1>9

-----------------------------------------------------------------------------
(* Type correctness.                                                        *)

\* A sorted list is a list of handlers.
LEMMA SortingsTyped ==
  ASSUME NEW s \in Seq(Names)
  PROVE  Sortings(s) \subseteq Seq(Names)
<1> SUFFICES ASSUME NEW t \in Sortings(s) PROVE t \in Seq(Names)
  OBVIOUS
<1>1. Members(s) \subseteq Names /\ DOMAIN s = 1..Len(s) /\ Len(s) \in Nat
  BY DEF Members
<1>2. t \in [1..Len(s) -> Names]
  BY <1>1 DEF Sortings
<1> QED
  BY <1>1, <1>2

\* So is what a key has after resolve_globals.
LEMMA ListedTyped ==
  ASSUME TypeOK, NEW k \in Keys
  PROVE  Listed(k) \subseteq Seq(Names)
<1>1. handlers[k] \in Seq(Names) /\ global_handlers \in Seq(Names)
  BY DEF TypeOK
<1>2. handlers[k] \o global_handlers \in Seq(Names)
  BY <1>1, ConcatProperties
<1>3. <<>> \in Seq(Names)
  OBVIOUS
<1> QED
  BY <1>2, <1>3, SortingsTyped DEF Listed

\* Types hold at the start.
LEMMA TypeInit == Init => TypeOK
<1> SUFFICES ASSUME Init PROVE TypeOK
  OBVIOUS
<1>1. Continue \in Responses
  BY DEF Responses
<1>2. handlers \in [Keys -> Seq(Names)] /\ global_handlers \in Seq(Names)
  BY DEF Init
<1>3. answers \in Seq(Responses) /\ called \in Seq(Names)
  BY DEF Init
<1>4. requests \in 0..MaxRequests
  BY HandlersAssumption DEF Init
<1>5. bundle \in {<<>>} \cup [key : Keys \cup {Unknown}, rest : Seq(Names)]
  BY DEF Init
<1>6. response \in Responses /\ seen \subseteq Names /\ resolved \in BOOLEAN /\ stop_flag \in BOOLEAN
  BY <1>1 DEF Init
<1>7. keys \in [Names -> Keys \cup {All}] /\ priority \in [Names -> Priorities] /\ groups \subseteq Modules
  BY DEF Init
<1> QED
  BY <1>2, <1>3, <1>4, <1>5, <1>6, <1>7 DEF TypeOK

\* Every step keeps them.
LEMMA TypeKept == TypeOK /\ [Next]_vars => TypeOK'
<1> SUFFICES ASSUME TypeOK, [Next]_vars PROVE TypeOK'
  OBVIOUS
<1>1. ASSUME NEW h \in Names, Register(h) PROVE TypeOK'
  <2>1. global_handlers' \in Seq(Names)
    <3>1. global_handlers \in Seq(Names) /\ Append(global_handlers, h) \in Seq(Names)
      BY AppendProperties DEF TypeOK
    <3>2. global_handlers' \in {global_handlers, Append(global_handlers, h)}
      BY <1>1 DEF Register
    <3> QED
      BY <3>1, <3>2
  <2>2. handlers' \in [Keys -> Seq(Names)]
    <3>1. CASE Enabled(h) /\ keys[h] # All
      <4>1. keys[h] \in Keys /\ handlers' = [handlers EXCEPT ![keys[h]] = Append(@, h)]
        BY <1>1, <3>1 DEF Register, TypeOK
      <4>2. Append(handlers[keys[h]], h) \in Seq(Names)
        BY <4>1, AppendProperties DEF TypeOK
      <4> QED
        BY <4>1, <4>2 DEF TypeOK
    <3>2. CASE ~(Enabled(h) /\ keys[h] # All)
      BY <1>1, <3>2 DEF Register, TypeOK
    <3> QED
      BY <3>1, <3>2
  <2> QED
    BY <1>1, <2>1, <2>2 DEF Register, TypeOK, slices
<1>2. CASE Resolve
  <2>1. PICK f \in [Keys -> UNION {Listed(k) : k \in Keys}] :
          (\A k \in Keys : f[k] \in Listed(k)) /\ handlers' = f
    BY <1>2 DEF Resolve
  <2>2. handlers' \in [Keys -> Seq(Names)]
    BY <2>1, ListedTyped
  <2> QED
    BY <1>2, <2>2 DEF Resolve, TypeOK, slices
<1>3. ASSUME NEW k \in Keys \cup {Unknown}, Take(k) PROVE TypeOK'
  <2>1. Chain(k) \in Seq(Names)
    BY DEF Chain, TypeOK
  <2>2. bundle' \in [key : Keys \cup {Unknown}, rest : Seq(Names)]
    BY <1>3, <2>1 DEF Take
  <2>3. response' \in Responses
    BY <1>3 DEF Take, Responses
  <2>4. answers' \in Seq(Responses) /\ called' \in Seq(Names)
    BY <1>3 DEF Take
  <2>5. requests' \in 0..MaxRequests
    BY <1>3, HandlersAssumption DEF Take, TypeOK
  <2> QED
    BY <1>3, <2>2, <2>3, <2>4, <2>5 DEF Take, TypeOK, slices
<1>4. CASE Call
  <2> DEFINE h == Head(bundle.rest)
  <2>1. /\ bundle \in [key : Keys \cup {Unknown}, rest : Seq(Names)]
        /\ bundle.rest \in Seq(Names) /\ bundle.rest # <<>>
    BY <1>4 DEF Call, Idle, Halted, TypeOK
  <2>2. h \in Names /\ Tail(bundle.rest) \in Seq(Names)
    BY <2>1, HeadTailProperties
  <2>3. Answers(h) \subseteq Responses
    BY <2>2, AnswersTyped
  <2>4. bundle' \in [key : Keys \cup {Unknown}, rest : Seq(Names)]
    BY <1>4, <2>1, <2>2 DEF Call
  <2>5. called' \in Seq(Names)
    BY <1>4, <2>2, AppendProperties DEF Call, TypeOK
  <2>6. response' \in Responses /\ answers' \in Seq(Responses)
    <3>1. CASE \E answer \in Answers(h) : /\ response' = Combine(response, answer)
                                          /\ answers' = Append(answers, answer)
      BY <2>3, <3>1, CombineKinds, AppendProperties DEF TypeOK
    <3>2. CASE UNCHANGED <<response, answers>>
      BY <3>2 DEF TypeOK
    <3>3. CASE \E written \in Answers(h) : response' = written /\ answers' = <<written>>
      BY <2>3, <3>3
    <3> QED
      BY <1>4, <3>1, <3>2, <3>3 DEF Call
  <2> QED
    BY <1>4, <2>4, <2>5, <2>6 DEF Call, TypeOK, slices
<1>5. CASE Finish
  BY <1>5 DEF Finish, TypeOK, slices
<1>6. CASE UNCHANGED vars
  BY <1>6 DEF TypeOK, vars, slices
<1> QED
  BY <1>1, <1>2, <1>3, <1>4, <1>5, <1>6 DEF Next

\* Every variable always has its type.
THEOREM TypeCorrect == Spec => []TypeOK
  BY TypeInit, TypeKept, PTL DEF Spec

-----------------------------------------------------------------------------
(* The verdict.                                                             *)

\* One more answer adds its kind.
LEMMA GaveAppend ==
  ASSUME TypeOK, NEW answer \in Responses, answers' = Append(answers, answer), NEW kind
  PROVE  Gave(kind)' <=> Gave(kind) \/ answer.kind = kind
<1>1. /\ answers \in Seq(Responses) /\ Len(answers) \in Nat
      /\ DOMAIN answers = 1..Len(answers) /\ DOMAIN answers' = 1..(Len(answers) + 1)
      /\ answers'[Len(answers) + 1] = answer
      /\ \A i \in 1..Len(answers) : answers'[i] = answers[i]
  BY AppendProperties DEF TypeOK
<1>2. ASSUME Gave(kind)' PROVE Gave(kind) \/ answer.kind = kind
  <2>1. PICK i \in 1..(Len(answers) + 1) : answers'[i].kind = kind
    BY <1>1, <1>2 DEF Gave
  <2>2. i \in 1..Len(answers) \/ i = Len(answers) + 1
    BY <1>1
  <2> QED
    BY <1>1, <2>1, <2>2 DEF Gave
<1>3. ASSUME Gave(kind) PROVE Gave(kind)'
  BY <1>1, <1>3 DEF Gave
<1>4. ASSUME answer.kind = kind PROVE Gave(kind)'
  <2>1. Len(answers) + 1 \in DOMAIN answers'
    BY <1>1
  <2> QED
    BY <1>1, <1>4, <2>1 DEF Gave
<1> QED
  BY <1>2, <1>3, <1>4

\* The verdict said in cases.
LEMMA VerdictCases ==
  VerdictPrevails <=>
    /\ Gave("Kick") => response = Kick
    /\ ~Gave("Kick") /\ Gave("Terminate") => response = Terminate
    /\ ~Gave("Kick") /\ ~Gave("Terminate") /\ Gave("Swallow") => response = Swallow
    /\ ~Gave("Kick") /\ ~Gave("Terminate") /\ ~Gave("Swallow") =>
         response.kind \in {"Continue", "Replace", "ReplaceMultiple"}
<1>1. CASE Gave("Kick")
  BY <1>1 DEF VerdictPrevails, Verdict, Kick
<1>2. CASE ~Gave("Kick") /\ Gave("Terminate")
  BY <1>2 DEF VerdictPrevails, Verdict, Terminate
<1>3. CASE ~Gave("Kick") /\ ~Gave("Terminate") /\ Gave("Swallow")
  BY <1>3 DEF VerdictPrevails, Verdict, Swallow
<1>4. CASE ~Gave("Kick") /\ ~Gave("Terminate") /\ ~Gave("Swallow")
  BY <1>4 DEF VerdictPrevails, Verdict
<1> QED
  BY <1>1, <1>2, <1>3, <1>4

\* Another answer is combined with the verdict so far.
LEMMA VerdictKept ==
  ASSUME TypeOK, VerdictPrevails, NEW answer \in Responses,
         response' = Combine(response, answer), answers' = Append(answers, answer)
  PROVE  VerdictPrevails'
<1>1. \A kind \in Kinds : Gave(kind)' <=> Gave(kind) \/ answer.kind = kind
  BY GaveAppend
<1>2. response \in Responses
  BY DEF TypeOK
<1>3. /\ Gave("Kick") => response.kind = "Kick"
      /\ ~Gave("Kick") /\ Gave("Terminate") => response.kind = "Terminate"
      /\ ~Gave("Kick") /\ ~Gave("Terminate") /\ Gave("Swallow") => response.kind = "Swallow"
      /\ ~Gave("Kick") /\ ~Gave("Terminate") /\ ~Gave("Swallow") =>
           response.kind \in {"Continue", "Replace", "ReplaceMultiple"}
  BY VerdictCases, ResponseKinds DEF Kick, Terminate, Swallow, Kinds
<1>4. /\ response.kind = "Kick" \/ answer.kind = "Kick" => response' = Kick
      /\ response.kind # "Kick" /\ answer.kind # "Kick" =>
           /\ response.kind = "Terminate" \/ answer.kind = "Terminate" => response' = Terminate
           /\ response.kind # "Terminate" /\ answer.kind # "Terminate" =>
                /\ response.kind = "Swallow" \/ answer.kind = "Swallow" => response' = Swallow
                /\ response.kind # "Swallow" /\ answer.kind # "Swallow" =>
                     response'.kind \in {"Continue", "Replace", "ReplaceMultiple"}
  BY <1>2, CombineKinds
<1>5. /\ Gave("Kick")' <=> Gave("Kick") \/ answer.kind = "Kick"
      /\ Gave("Terminate")' <=> Gave("Terminate") \/ answer.kind = "Terminate"
      /\ Gave("Swallow")' <=> Gave("Swallow") \/ answer.kind = "Swallow"
  BY <1>1 DEF Kinds
<1>6. /\ Gave("Kick")' => response' = Kick
      /\ ~Gave("Kick")' /\ Gave("Terminate")' => response' = Terminate
      /\ ~Gave("Kick")' /\ ~Gave("Terminate")' /\ Gave("Swallow")' => response' = Swallow
      /\ ~Gave("Kick")' /\ ~Gave("Terminate")' /\ ~Gave("Swallow")' =>
           response'.kind \in {"Continue", "Replace", "ReplaceMultiple"}
  BY <1>3, <1>4, <1>5
<1>7. CASE Gave("Kick")'
  BY <1>6, <1>7 DEF VerdictPrevails, Verdict, Kick
<1>8. CASE ~Gave("Kick")' /\ Gave("Terminate")'
  BY <1>6, <1>8 DEF VerdictPrevails, Verdict, Terminate
<1>9. CASE ~Gave("Kick")' /\ ~Gave("Terminate")' /\ Gave("Swallow")'
  BY <1>6, <1>9 DEF VerdictPrevails, Verdict, Swallow
<1>10. CASE ~Gave("Kick")' /\ ~Gave("Terminate")' /\ ~Gave("Swallow")'
  BY <1>6, <1>10 DEF VerdictPrevails, Verdict
<1> QED
  BY <1>7, <1>8, <1>9, <1>10

\* A response written over the others is the only one that counts.
LEMMA VerdictWritten ==
  ASSUME NEW written \in Responses, response' = written, answers' = <<written>>
  PROVE  VerdictPrevails'
<1>1. \A kind : Gave(kind)' <=> written.kind = kind
  BY DEF Gave
<1>2. \/ written.kind = "Kick" /\ written = Flag("Kick")
      \/ written.kind = "Terminate" /\ written = Flag("Terminate")
      \/ written.kind = "Swallow" /\ written = Flag("Swallow")
      \/ written.kind \in {"Continue", "Replace", "ReplaceMultiple"}
  BY ResponseKinds DEF Kinds
<1> QED
  BY <1>1, <1>2 DEF VerdictPrevails, Verdict

\* Every step keeps the verdict.
LEMMA VerdictInductive == TypeOK /\ VerdictPrevails /\ [Next]_vars => VerdictPrevails'
<1> SUFFICES ASSUME TypeOK, VerdictPrevails, [Next]_vars PROVE VerdictPrevails'
  OBVIOUS
<1>7. UNCHANGED <<response, answers>> => VerdictPrevails'
  BY DEF VerdictPrevails, Verdict, Gave
<1>1. ASSUME NEW h \in Names, Register(h) PROVE VerdictPrevails'
  BY <1>1, <1>7 DEF Register
<1>2. CASE Resolve
  BY <1>2, <1>7 DEF Resolve
<1>3. ASSUME NEW k \in Keys \cup {Unknown}, Take(k) PROVE VerdictPrevails'
  BY <1>3 DEF Take, VerdictPrevails, Verdict, Gave, Continue, Flag
<1>4. CASE Call
  <2> DEFINE h == Head(bundle.rest)
  <2>1. bundle.rest \in Seq(Names) /\ bundle.rest # <<>>
    BY <1>4 DEF Call, Idle, Halted, TypeOK
  <2>2. Answers(h) \subseteq Responses
    BY <2>1, HeadTailProperties, AnswersTyped
  <2>3. \/ \E answer \in Answers(h) : /\ response' = Combine(response, answer)
                                      /\ answers' = Append(answers, answer)
        \/ UNCHANGED <<response, answers>>
        \/ \E written \in Answers(h) : response' = written /\ answers' = <<written>>
    BY <1>4 DEF Call
  <2> QED
    BY <1>7, <2>2, <2>3, VerdictKept, VerdictWritten
<1>5. CASE Finish
  BY <1>5, <1>7 DEF Finish
<1>6. CASE UNCHANGED vars
  BY <1>6, <1>7 DEF vars
<1> QED
  BY <1>1, <1>2, <1>3, <1>4, <1>5, <1>6 DEF Next

\* No handler is ever overruled: whatever the order and the number of the handlers, the
\* gravest answer since the last overwriting is the one the actor acts on.
THEOREM VerdictPrevailsAlways == Spec => []VerdictPrevails
<1>1. Init => VerdictPrevails
  BY DEF Init, VerdictPrevails, Verdict, Gave, Continue, Flag
<1> QED
  BY <1>1, TypeCorrect, VerdictInductive, PTL DEF Spec

-----------------------------------------------------------------------------
(* The lists.                                                               *)

\* `s` names each of S once.
Lists(s, S) == Members(s) = S /\ IsInjective(s)

\* Nobody is in the empty list only.
LEMMA ListsEmpty ==
  ASSUME NEW s \in Seq(Names), NEW S, Lists(s, S)
  PROVE  s = <<>> <=> S = {}
<1>1. s = <<>> => S = {}
  BY DEF Lists, Members
<1>2. ASSUME s # <<>> PROVE S # {}
  <2>1. 1 \in DOMAIN s
    BY <1>2
  <2> QED
    BY <2>1 DEF Lists, Members
<1> QED
  BY <1>1, <1>2

\* A list with another list of others behind it.
LEMMA ListsConcat ==
  ASSUME NEW s \in Seq(Names), NEW t \in Seq(Names), NEW S, NEW T,
         Lists(s, S), Lists(t, T), S \cap T = {}
  PROVE  Lists(s \o t, S \cup T)
<1> DEFINE u == s \o t
<1>1. /\ u \in Seq(Names) /\ Len(u) = Len(s) + Len(t) /\ Len(s) \in Nat /\ Len(t) \in Nat
      /\ \A i \in 1..(Len(s) + Len(t)) : u[i] = IF i <= Len(s) THEN s[i] ELSE t[i - Len(s)]
  BY ConcatProperties
<1> HIDE DEF u
<1>2. DOMAIN u = 1..(Len(s) + Len(t)) /\ DOMAIN s = 1..Len(s) /\ DOMAIN t = 1..Len(t)
  BY <1>1
<1>3. ASSUME NEW i \in DOMAIN u
      PROVE  \/ i <= Len(s) /\ i \in DOMAIN s /\ u[i] = s[i] /\ u[i] \in S
             \/ i > Len(s) /\ i - Len(s) \in DOMAIN t /\ u[i] = t[i - Len(s)] /\ u[i] \in T
  <2>1. CASE i <= Len(s)
    BY <1>1, <1>2, <2>1 DEF Lists, Members
  <2>2. CASE i > Len(s)
    <3>1. i - Len(s) \in DOMAIN t /\ u[i] = t[i - Len(s)]
      BY <1>1, <1>2, <2>2
    <3> QED
      BY <2>2, <3>1 DEF Lists, Members
  <2> QED
    BY <1>1, <1>2, <2>1, <2>2
<1>4. Members(u) = S \cup T
  <2>1. Members(u) \subseteq S \cup T
    BY <1>3 DEF Members
  <2>2. S \subseteq Members(u)
    <3> SUFFICES ASSUME NEW i \in DOMAIN s PROVE s[i] \in Members(u)
      BY DEF Lists, Members
    <3>1. i \in DOMAIN u /\ u[i] = s[i]
      BY <1>1, <1>2
    <3> QED
      BY <3>1 DEF Members
  <2>3. T \subseteq Members(u)
    <3> SUFFICES ASSUME NEW i \in DOMAIN t PROVE t[i] \in Members(u)
      BY DEF Lists, Members
    <3>1. i + Len(s) \in DOMAIN u /\ ~(i + Len(s) <= Len(s)) /\ (i + Len(s)) - Len(s) = i
      BY <1>1, <1>2
    <3>2. u[i + Len(s)] = t[i]
      BY <1>1, <1>2, <3>1
    <3> QED
      BY <3>1, <3>2 DEF Members
  <2> QED
    BY <2>1, <2>2, <2>3
<1>5. ASSUME NEW i \in DOMAIN u, NEW j \in DOMAIN u, u[i] = u[j] PROVE i = j
  <2>0. i \in Nat /\ j \in Nat
    BY <1>2
  <2>1. CASE i <= Len(s) /\ j <= Len(s)
    BY <1>1, <1>3, <1>5, <2>0, <2>1 DEF Lists, IsInjective
  <2>2. CASE i > Len(s) /\ j > Len(s)
    <3>1. i - Len(s) = j - Len(s)
      BY <1>1, <1>3, <1>5, <2>0, <2>2 DEF Lists, IsInjective
    <3> QED
      BY <1>1, <2>0, <3>1
  <2>3. CASE (i <= Len(s) /\ j > Len(s)) \/ (i > Len(s) /\ j <= Len(s))
    BY <1>1, <1>3, <1>5, <2>0, <2>3
  <2> QED
    BY <1>1, <2>0, <2>1, <2>2, <2>3
<1> QED
  BY <1>4, <1>5 DEF u, Lists, IsInjective

\* One more at the end.
LEMMA ListsAppend ==
  ASSUME NEW s \in Seq(Names), NEW h \in Names, NEW S, Lists(s, S), h \notin S
  PROVE  Lists(Append(s, h), S \cup {h})
<1>1. <<h>> \in Seq(Names) /\ Lists(<<h>>, {h})
  BY DEF Lists, Members, IsInjective
<1>2. Lists(s \o <<h>>, S \cup {h})
  BY <1>1, ListsConcat
<1>3. Append(s, h) = s \o <<h>>
  OBVIOUS
<1> QED
  BY <1>2, <1>3

\* A list cut in two.
LEMMA ListsSplit ==
  ASSUME NEW s \in Seq(Names), NEW t \in Seq(Names), NEW S, Lists(s \o t, S)
  PROVE  /\ IsInjective(s)
         /\ Members(s) \cap Members(t) = {}
         /\ Members(s) \cup Members(t) = S
<1> DEFINE u == s \o t
<1>1. /\ u \in Seq(Names) /\ Len(u) = Len(s) + Len(t) /\ Len(s) \in Nat /\ Len(t) \in Nat
      /\ \A i \in 1..(Len(s) + Len(t)) : u[i] = IF i <= Len(s) THEN s[i] ELSE t[i - Len(s)]
  BY ConcatProperties
<1>0. Members(u) = S /\ IsInjective(u)
  BY DEF Lists
<1> HIDE DEF u
<1>2. DOMAIN u = 1..(Len(s) + Len(t)) /\ DOMAIN s = 1..Len(s) /\ DOMAIN t = 1..Len(t)
  BY <1>1
<1>3. \A i \in DOMAIN s : i \in DOMAIN u /\ u[i] = s[i]
  BY <1>1, <1>2
<1>4. ASSUME NEW i \in DOMAIN t
      PROVE  i + Len(s) \in DOMAIN u /\ i + Len(s) > Len(s) /\ u[i + Len(s)] = t[i]
  <2>1. i + Len(s) \in DOMAIN u /\ i + Len(s) > Len(s) /\ (i + Len(s)) - Len(s) = i
    BY <1>1, <1>2
  <2> QED
    BY <1>1, <1>2, <2>1
<1>5. IsInjective(s)
  BY <1>0, <1>3 DEF IsInjective
<1>6. ASSUME NEW i \in DOMAIN s, NEW j \in DOMAIN t, s[i] = t[j] PROVE FALSE
  <2>1. i = j + Len(s)
    BY <1>0, <1>3, <1>4, <1>6 DEF IsInjective
  <2> QED
    BY <1>1, <1>2, <1>4, <2>1
<1>7. Members(s) \cap Members(t) = {}
  BY <1>6 DEF Members
<1>8. S \subseteq Members(s) \cup Members(t)
  <2> SUFFICES ASSUME NEW i \in DOMAIN u PROVE u[i] \in Members(s) \cup Members(t)
    BY <1>0 DEF Members
  <2>1. CASE i <= Len(s)
    BY <1>1, <1>2, <2>1 DEF Members
  <2>2. CASE i > Len(s)
    <3>1. i - Len(s) \in DOMAIN t /\ u[i] = t[i - Len(s)]
      BY <1>1, <1>2, <2>2
    <3> QED
      BY <3>1 DEF Members
  <2> QED
    BY <1>1, <1>2, <2>1, <2>2
<1>9. Members(s) \cup Members(t) \subseteq S
  BY <1>0, <1>3, <1>4 DEF Members
<1> QED
  BY <1>5, <1>7, <1>8, <1>9

\* The sort loses nobody and repeats nobody.
LEMMA ListsSorted ==
  ASSUME NEW s \in Seq(Names), NEW S, Lists(s, S), NEW t \in Sortings(s)
  PROVE  Lists(t, S) /\ Sorted(t)
<1>1. DOMAIN s = 1..Len(s) /\ Len(s) \in Nat /\ Members(s) = S
  BY DEF Lists
<1>2. t \in [1..Len(s) -> S] /\ Members(t) = S /\ Sorted(t) /\ DOMAIN t = 1..Len(s)
  BY <1>1 DEF Sortings
<1>3. IsFiniteSet(1..Len(s))
  BY <1>1, FS_Interval
<1>4. s \in Surjection(1..Len(s), S) /\ s \in Injection(1..Len(s), S)
  <2>1. s \in [1..Len(s) -> S]
    BY <1>1 DEF Members
  <2> QED
    BY <1>1, <2>1 DEF Surjection, Injection, Lists, Members
<1>5. Cardinality(1..Len(s)) = Cardinality(S)
  BY <1>3, <1>4, FS_Surjection
<1>6. t \in Surjection(1..Len(s), S)
  BY <1>2 DEF Surjection, Members
<1>7. t \in Injection(1..Len(s), S)
  BY <1>3, <1>5, <1>6, FS_SurjSameCardinalityImpliesInj
<1> QED
  BY <1>2, <1>7 DEF Lists, Injection

-----------------------------------------------------------------------------
(* Every handler once, in order.                                            *)

\* The enabled handlers of a key that have been looked at.
Of(k) == {h \in seen : Enabled(h) /\ keys[h] = k}

\* While the processor is filled the lists name who was looked at; afterwards the list of
\* a registered key names all of its own and all globals, in order; a request in process
\* is somewhere in its list.
Filled ==
  /\ Lists(global_handlers, Of(All))
  /\ ~resolved => Idle /\ \A k \in Keys : Lists(handlers[k], Of(k))
  /\ resolved =>
       /\ seen = Names
       /\ \A k \in Keys :
            \/ handlers[k] = <<>> /\ Of(k) = {}
            \/ Of(k) # {} /\ Lists(handlers[k], Of(k) \cup Of(All)) /\ Sorted(handlers[k])
  /\ ~Idle => called \o bundle.rest = Chain(bundle.key)

\* It holds at the start.
LEMMA FilledInit == Init => Filled
  BY DEF Init, Filled, Lists, Members, IsInjective, Of, Idle

\* A step that leaves the lists alone.
LEMMA FilledSame ==
  ASSUME Filled, UNCHANGED <<slices, handlers, global_handlers, seen, resolved>>,
         bundle' # <<>> => resolved /\ called' \o bundle'.rest = Chain(bundle'.key)
  PROVE  Filled'
<1>1. /\ \A k : Of(k)' = Of(k)
      /\ \A s : Sorted(s)' = Sorted(s)
  BY DEF Of, Enabled, Sorted, slices
<1>3. bundle' # <<>> => (called \o bundle.rest = Chain(bundle.key))'
  BY DEF Chain, Registered
<1>4. Lists(global_handlers, Of(All))'
  BY <1>1 DEF Filled, Lists, Members, IsInjective
<1>5. ~resolved' => bundle' = <<>> /\ \A k \in Keys : Lists(handlers[k], Of(k))'
  BY <1>1 DEF Filled, Lists, Members, IsInjective
<1>6. resolved' =>
        /\ seen' = Names
        /\ \A k \in Keys :
             \/ handlers'[k] = <<>> /\ Of(k)' = {}
             \/ Of(k)' # {} /\ Lists(handlers[k], Of(k) \cup Of(All))' /\ Sorted(handlers[k])'
  BY <1>1 DEF Filled, Lists, Members, IsInjective, Sorted, slices
<1> QED
  BY <1>3, <1>4, <1>5, <1>6 DEF Filled, Idle

\* A builder is looked at.
LEMMA FilledRegister ==
  ASSUME TypeOK, Filled, NEW h \in Names, Register(h)
  PROVE  Filled'
<1>1. /\ ~resolved /\ h \notin seen /\ seen' = seen \cup {h}
      /\ UNCHANGED <<keys, priority, groups, resolved, bundle, called>>
      /\ Idle
  BY DEF Register, Filled, slices
<1>2. \A g : Enabled(g)' = Enabled(g)
  BY <1>1 DEF Enabled
<1>3. \A k : /\ h \notin Of(k)
             /\ Enabled(h) /\ keys[h] = k => Of(k)' = Of(k) \cup {h}
             /\ ~(Enabled(h) /\ keys[h] = k) => Of(k)' = Of(k)
  BY <1>1, <1>2 DEF Of
<1>4. Lists(global_handlers', Of(All)')
  <2>0. global_handlers \in Seq(Names) /\ Lists(global_handlers, Of(All)) /\ h \notin Of(All)
    BY <1>3 DEF TypeOK, Filled
  <2>1. CASE Enabled(h) /\ keys[h] = All
    <3>1. Lists(Append(global_handlers, h), Of(All) \cup {h})
      BY <2>0, ListsAppend
    <3>2. global_handlers' = Append(global_handlers, h)
      BY <2>1 DEF Register
    <3> QED
      BY <1>3, <2>1, <3>1, <3>2
  <2>2. CASE ~(Enabled(h) /\ keys[h] = All)
    BY <1>3, <2>0, <2>2 DEF Register
  <2> QED
    BY <2>1, <2>2
<1>5. ASSUME NEW k \in Keys PROVE Lists(handlers'[k], Of(k)')
  <2>0. handlers[k] \in Seq(Names) /\ Lists(handlers[k], Of(k)) /\ h \notin Of(k)
    BY <1>1, <1>3 DEF TypeOK, Filled
  <2>1. CASE Enabled(h) /\ keys[h] = k
    <3>1. Lists(Append(handlers[k], h), Of(k) \cup {h})
      BY <2>0, ListsAppend
    <3>2. handlers'[k] = Append(handlers[k], h)
      BY <2>1, HandlersAssumption DEF Register, TypeOK
    <3> QED
      BY <1>3, <2>1, <3>1, <3>2
  <2>2. CASE ~(Enabled(h) /\ keys[h] = k)
    <3>1. handlers'[k] = handlers[k]
      BY <2>2 DEF Register, TypeOK
    <3> QED
      BY <1>3, <2>0, <2>2, <3>1
  <2> QED
    BY <2>1, <2>2
<1>6. ~resolved' /\ bundle' = <<>>
  BY <1>1 DEF Idle
<1> QED
  BY <1>4, <1>5, <1>6 DEF Filled, Idle, Lists, Members, IsInjective

\* The globals are copied and the lists are sorted.
LEMMA FilledResolve ==
  ASSUME TypeOK, Filled, Resolve
  PROVE  Filled'
<1>1. /\ ~resolved /\ resolved' /\ seen = Names /\ Idle
      /\ UNCHANGED <<keys, priority, groups, global_handlers, seen, bundle, called>>
      /\ \A k \in Keys : handlers'[k] \in Listed(k)
  BY DEF Resolve, Filled, slices
<1>2. /\ \A k : Of(k)' = Of(k)
      /\ \A s : Sorted(s)' = Sorted(s)
  BY <1>1 DEF Of, Enabled, Sorted
<1>3. Lists(global_handlers, Of(All)) /\ global_handlers \in Seq(Names)
  BY DEF Filled, TypeOK
<1>4. ASSUME NEW k \in Keys
      PROVE  \/ handlers'[k] = <<>> /\ Of(k) = {}
             \/ /\ Of(k) # {} /\ Lists(handlers'[k], Of(k) \cup Of(All))
                /\ Sorted(handlers'[k])
  <2>1. handlers[k] \in Seq(Names) /\ Lists(handlers[k], Of(k))
    BY <1>1 DEF TypeOK, Filled
  <2>2. handlers[k] = <<>> <=> Of(k) = {}
    BY <2>1, ListsEmpty
  <2>3. CASE handlers[k] = <<>>
    BY <1>1, <2>2, <2>3 DEF Listed, Registered
  <2>4. CASE handlers[k] # <<>>
    <3>1. Of(k) \cap Of(All) = {}
      BY HandlersAssumption DEF Of
    <3>2. /\ handlers[k] \o global_handlers \in Seq(Names)
          /\ Lists(handlers[k] \o global_handlers, Of(k) \cup Of(All))
      BY <1>3, <2>1, <3>1, ListsConcat, ConcatProperties
    <3>3. handlers'[k] \in Sortings(handlers[k] \o global_handlers)
      BY <1>1, <2>4 DEF Listed, Registered
    <3>4. Lists(handlers'[k], Of(k) \cup Of(All)) /\ Sorted(handlers'[k])
      BY <3>2, <3>3, ListsSorted
    <3> QED
      BY <2>2, <2>4, <3>4
  <2> QED
    BY <2>3, <2>4
<1>5. \A k \in Keys :
        \/ handlers'[k] = <<>> /\ Of(k)' = {}
        \/ Of(k)' # {} /\ Lists(handlers[k], Of(k) \cup Of(All))' /\ Sorted(handlers[k])'
  BY <1>1, <1>2, <1>4 DEF Lists, Members, IsInjective, Sorted
<1>6. Lists(global_handlers, Of(All))'
  BY <1>1, <1>2, <1>3 DEF Lists, Members, IsInjective
<1> QED
  BY <1>1, <1>5, <1>6 DEF Filled, Idle

\* Every step keeps it.
LEMMA FilledKept == TypeOK /\ Filled /\ [Next]_vars => Filled'
<1> SUFFICES ASSUME TypeOK, Filled, [Next]_vars PROVE Filled'
  OBVIOUS
<1>1. ASSUME NEW h \in Names, Register(h) PROVE Filled'
  BY <1>1, FilledRegister
<1>2. CASE Resolve
  BY <1>2, FilledResolve
<1>3. ASSUME NEW k \in Keys \cup {Unknown}, Take(k) PROVE Filled'
  <2>1. Chain(k) \in Seq(Names)
    BY DEF Chain, TypeOK
  <2>2. /\ bundle'.rest = Chain(k) /\ bundle'.key = k /\ called' = <<>> /\ resolved
        /\ UNCHANGED <<slices, handlers, global_handlers, seen, resolved>>
    BY <1>3 DEF Take
  <2>3. called' \o bundle'.rest = Chain(bundle'.key)
    BY <2>1, <2>2, ConcatEmptySeq
  <2> QED
    BY <2>2, <2>3, FilledSame
<1>4. CASE Call
  <2> DEFINE rest == bundle.rest
  <2>1. /\ bundle \in [key : Keys \cup {Unknown}, rest : Seq(Names)]
        /\ rest \in Seq(Names) /\ rest # <<>> /\ called \in Seq(Names)
    BY <1>4 DEF Call, Idle, Halted, TypeOK
  <2>2. /\ called' = Append(called, Head(rest)) /\ bundle'.rest = Tail(rest)
        /\ bundle'.key = bundle.key /\ resolved
        /\ UNCHANGED <<slices, handlers, global_handlers, seen, resolved>>
    BY <1>4, <2>1 DEF Call, Filled
  <2>3. called \o rest = Chain(bundle.key)
    BY <1>4 DEF Call, Filled
  <2> HIDE DEF rest
  <2>4. Head(rest) \in Names /\ Tail(rest) \in Seq(Names) /\ <<Head(rest)>> \in Seq(Names)
    BY <2>1, HeadTailProperties
  <2>5. Append(called, Head(rest)) = called \o <<Head(rest)>>
    BY <2>1, <2>4
  <2>6. <<Head(rest)>> \o Tail(rest) = rest
    BY <2>1, <2>4
  <2>7. (called \o <<Head(rest)>>) \o Tail(rest) = called \o (<<Head(rest)>> \o Tail(rest))
    BY <2>1, <2>4, ConcatAssociative, SMTT(30)
  <2>8. called' \o bundle'.rest = Chain(bundle'.key)
    BY <2>2, <2>3, <2>5, <2>6, <2>7
  <2> QED
    BY <2>2, <2>8, FilledSame
<1>5. CASE Finish
  BY <1>5, FilledSame DEF Finish
<1>6. CASE UNCHANGED vars
  <2>1. bundle' # <<>> => resolved /\ called' \o bundle'.rest = Chain(bundle'.key)
    BY <1>6 DEF vars, Filled, Idle
  <2> QED
    BY <1>6, <2>1, FilledSame DEF vars
<1> QED
  BY <1>1, <1>2, <1>3, <1>4, <1>5, <1>6 DEF Next

\* What a request runs through is the list of its key, or that of the globals.
LEMMA ChainLists ==
  ASSUME TypeOK, Filled, ~Idle
  PROVE  /\ called \in Seq(Names) /\ bundle.rest \in Seq(Names)
         /\ Lists(called \o bundle.rest, {h \in Names : Applies(h, bundle.key)})
         /\ bundle.key \in KeyLists => Sorted(called \o bundle.rest)
<1> DEFINE k == bundle.key
<1>1. /\ called \in Seq(Names) /\ bundle.rest \in Seq(Names) /\ k \in Keys \cup {Unknown}
  BY DEF TypeOK, Idle
<1>2. resolved /\ seen = Names /\ called \o bundle.rest = Chain(k)
  BY DEF Filled
<1>3. {h \in Names : Applies(h, k)} = IF k \in Keys THEN Of(k) \cup Of(All) ELSE Of(All)
  <2>1. \A h \in Names : keys[h] \in Keys \cup {All}
    BY DEF TypeOK
  <2>2. CASE k \in Keys
    BY <1>2, <2>2 DEF Applies, Of
  <2>3. CASE k \notin Keys
    <3>1. k = Unknown /\ \A h \in Names : keys[h] = Unknown => keys[h] = All
      BY <1>1, <2>1, <2>3, HandlersAssumption
    <3> QED
      BY <1>2, <2>3, <3>1 DEF Applies, Of
  <2> QED
    BY <2>2, <2>3
<1> HIDE DEF k
<1>4. CASE k \in Keys /\ Registered(k)
  <2>1. Lists(handlers[k], Of(k) \cup Of(All)) /\ Sorted(handlers[k])
    BY <1>2, <1>4 DEF Filled, Registered
  <2> QED
    BY <1>1, <1>2, <1>3, <1>4, <2>1 DEF Chain, k
<1>5. CASE ~(k \in Keys /\ Registered(k))
  <2>1. k \in Keys => Of(k) = {}
    <3> SUFFICES ASSUME k \in Keys, Of(k) # {} PROVE FALSE
      OBVIOUS
    <3>1. handlers[k] = <<>> /\ Lists(handlers[k], Of(k) \cup Of(All))
      BY <1>2, <1>5 DEF Filled, Registered
    <3>2. handlers[k] \in Seq(Names)
      BY DEF TypeOK
    <3> QED
      BY <3>1, <3>2, ListsEmpty
  <2>2. {h \in Names : Applies(h, k)} = Of(All)
    BY <1>3, <2>1
  <2>3. Lists(global_handlers, Of(All)) /\ Chain(k) = global_handlers
    BY <1>5 DEF Filled, Chain
  <2>4. k \notin KeyLists
    BY <1>5 DEF KeyLists
  <2> QED
    BY <1>1, <1>2, <2>2, <2>3, <2>4 DEF k
<1> QED
  BY <1>4, <1>5

\* Nobody who applies is forgotten or run twice: whatever the order of the builders and
\* however the unstable sort lets equal priorities fall, the handlers a request has been
\* through and those before it are the enabled ones of its key and the globals, each once
\* (process_bundle).
THEOREM EveryHandlerOnceAlways == Spec => []EveryHandlerOnce
<1>1. TypeOK /\ Filled => EveryHandlerOnce
  <2> SUFFICES ASSUME TypeOK, Filled, ~Idle
               PROVE  /\ \A i, j \in DOMAIN called : called[i] = called[j] => i = j
                      /\ Members(called) \cap Members(bundle.rest) = {}
                      /\ Members(called) \cup Members(bundle.rest)
                           = {h \in Names : Applies(h, bundle.key)}
    BY DEF EveryHandlerOnce
  <2> QED
    BY ChainLists, ListsSplit DEF IsInjective
<1>2. Spec => []Filled
  BY TypeCorrect, FilledInit, FilledKept, PTL DEF Spec
<1> QED
  BY <1>1, <1>2, TypeCorrect, PTL

\* For a key somebody registered for they run in the order of priorities, the globals
\* among them (resolve_globals).
THEOREM InPriorityOrderAlways == Spec => []InPriorityOrder
<1>1. TypeOK /\ Filled => InPriorityOrder
  BY ChainLists DEF InPriorityOrder
<1>2. Spec => []Filled
  BY TypeCorrect, FilledInit, FilledKept, PTL DEF Spec
<1> QED
  BY <1>1, <1>2, TypeCorrect, PTL

-----------------------------------------------------------------------------
(* The messages of all answers, in a row.                                   *)

\* Every response has a list of messages, the plain ones an empty one.
LEMMA ResponseMessages ==
  /\ \A r \in Responses : r.messages \in Seq(Names)
  /\ Continue.messages = <<>>
  /\ \A ms : ReplaceMultiple(ms).messages = ms
<1>1. \A kind : Flag(kind).messages = <<>>
  BY DEF Flag
<1>2. <<>> \in Seq(Names)
  OBVIOUS
<1>3. ASSUME NEW r \in Responses PROVE r.messages \in Seq(Names)
  <2>1. \/ r.messages \in Seq(Names)
        \/ r = Flag(r.kind)
    BY ResponseKinds
  <2> QED
    BY <1>1, <1>2, <2>1
<1>4. \A ms : ReplaceMultiple(ms).messages = ms
  BY DEF ReplaceMultiple
<1> QED
  BY <1>1, <1>3, <1>4 DEF Continue

\* What the answers have to send.
Sayings(given) == [i \in DOMAIN given |-> given[i].messages]

\* One more answer, one more list.
LEMMA SayingsAppend ==
  ASSUME NEW given \in Seq(Responses), NEW answer \in Responses
  PROVE  /\ Sayings(given) \in Seq(Seq(Names)) /\ answer.messages \in Seq(Names)
         /\ Sayings(Append(given, answer)) = Append(Sayings(given), answer.messages)
<1>1. \A r \in Responses : r.messages \in Seq(Names)
  BY ResponseMessages
<1>2. Len(given) \in Nat /\ DOMAIN given = 1..Len(given) /\ \A i \in 1..Len(given) : given[i] \in Responses
  OBVIOUS
<1>3. Sayings(given) \in [1..Len(given) -> Seq(Names)]
  BY <1>1, <1>2 DEF Sayings
<1>4. Sayings(given) \in Seq(Seq(Names)) /\ Len(Sayings(given)) = Len(given)
  BY <1>2, <1>3
<1> DEFINE more == Append(given, answer)
           n == Len(given)
<1>5. /\ DOMAIN more = 1..(n + 1) /\ more[n + 1] = answer
      /\ \A i \in 1..n : more[i] = given[i]
  BY <1>2, AppendProperties
<1> HIDE DEF more
<1>6. /\ Sayings(more) = [i \in 1..(n + 1) |-> more[i].messages]
      /\ \A i \in 1..n : Sayings(given)[i] = given[i].messages
  BY <1>2, <1>5 DEF Sayings
<1> DEFINE longer == Append(Sayings(given), answer.messages)
<1>7. /\ longer = [i \in 1..(n + 1) |-> longer[i]] /\ longer[n + 1] = answer.messages
      /\ \A i \in 1..n : longer[i] = Sayings(given)[i]
  <2>1. answer.messages \in Seq(Names)
    BY <1>1
  <2> DEFINE all == Sayings(given)
             last == answer.messages
  <2>2. all \in Seq(Seq(Names)) /\ Len(all) = n /\ last \in Seq(Names)
    BY <1>4, <2>1
  <2> HIDE DEF all, last
  <2>3. /\ Append(all, last) \in Seq(Seq(Names)) /\ Len(Append(all, last)) = n + 1
        /\ Append(all, last)[n + 1] = last /\ \A i \in 1..n : Append(all, last)[i] = all[i]
    BY <2>2, AppendProperties
  <2> QED
    BY <2>3 DEF all, last
<1> HIDE DEF longer
<1>8. \A i \in 1..(n + 1) : longer[i] = more[i].messages
  <2>1. \A i \in 1..(n + 1) : i = n + 1 \/ i \in 1..n
    BY <1>2
  <2> QED
    BY <1>5, <1>6, <1>7, <2>1
<1>9. longer = Sayings(more)
  BY <1>6, <1>7, <1>8
<1> QED
  BY <1>1, <1>4, <1>9 DEF longer, more

\* Nobody objected.
Unopposed == ~Gave("Kick") /\ ~Gave("Terminate") /\ ~Gave("Swallow")

\* That is the verdict "Messages", and then the response is one with messages.
LEMMA VerdictMessages ==
  /\ Verdict = "Messages" <=> Unopposed
  /\ VerdictPrevails /\ Unopposed => response.kind \in {"Continue", "Replace", "ReplaceMultiple"}
<1>1. CASE Gave("Kick")
  BY <1>1 DEF Verdict, Unopposed
<1>2. CASE ~Gave("Kick") /\ Gave("Terminate")
  BY <1>2 DEF Verdict, Unopposed
<1>3. CASE ~Gave("Kick") /\ ~Gave("Terminate") /\ Gave("Swallow")
  BY <1>3 DEF Verdict, Unopposed
<1>4. CASE ~Gave("Kick") /\ ~Gave("Terminate") /\ ~Gave("Swallow")
  BY <1>4, VerdictCases DEF Verdict, Unopposed
<1> QED
  BY <1>1, <1>2, <1>3, <1>4

\* Responses with messages combine to one with those of both, in that order.
LEMMA CombineMessages ==
  ASSUME NEW a \in Responses, NEW b \in Responses,
         a.kind \in {"Continue", "Replace", "ReplaceMultiple"},
         b.kind \in {"Continue", "Replace", "ReplaceMultiple"}
  PROVE  Combine(a, b).messages = a.messages \o b.messages
<1>1. a.messages \in Seq(Names) /\ b.messages \in Seq(Names)
  BY ResponseMessages
<1>2. a # Kick /\ a # Terminate /\ a # Swallow /\ b # Kick /\ b # Terminate /\ b # Swallow
  BY DEF Kick, Terminate, Swallow, Flag
<1>3. CASE a = Continue
  <2>1. a.messages = <<>>
    BY <1>3, ResponseMessages
  <2>2. Combine(a, b) = b
    BY <1>2, <1>3 DEF Combine
  <2> QED
    BY <1>1, <2>1, <2>2, ConcatEmptySeq
<1>4. CASE a # Continue /\ b = Continue
  <2>1. b.messages = <<>>
    BY <1>4, ResponseMessages
  <2>2. Combine(a, b) = a
    BY <1>2, <1>4 DEF Combine
  <2> QED
    BY <1>1, <2>1, <2>2, ConcatEmptySeq
<1>5. CASE a # Continue /\ b # Continue
  <2>1. Combine(a, b) = ReplaceMultiple(a.messages \o b.messages)
    BY <1>2, <1>5 DEF Combine
  <2> QED
    BY <2>1, ResponseMessages
<1> QED
  BY <1>3, <1>4, <1>5

\* What is sent, over the answers as a list of lists.
Said == Unopposed => response.messages = FlattenSeq(Sayings(answers))

LEMMA MessagesSaid == Said <=> MessagesInOrder
  BY VerdictMessages DEF Said, MessagesInOrder, Sayings

\* Another answer is combined with what is to be sent so far.
LEMMA MessagesKept ==
  ASSUME TypeOK, VerdictPrevails, Said, NEW answer \in Responses,
         response' = Combine(response, answer), answers' = Append(answers, answer)
  PROVE  Said'
<1> SUFFICES ASSUME Unopposed' PROVE response'.messages = FlattenSeq(Sayings(answers'))
  BY DEF Said
<1>1. /\ Gave("Kick")' <=> Gave("Kick") \/ answer.kind = "Kick"
      /\ Gave("Terminate")' <=> Gave("Terminate") \/ answer.kind = "Terminate"
      /\ Gave("Swallow")' <=> Gave("Swallow") \/ answer.kind = "Swallow"
  <2>1. \A kind : Gave(kind)' <=> Gave(kind) \/ answer.kind = kind
    BY GaveAppend
  <2> QED
    BY <2>1
<1>2. Unopposed /\ answer.kind \notin {"Kick", "Terminate", "Swallow"}
  BY <1>1 DEF Unopposed
<1>3. /\ response \in Responses /\ answers \in Seq(Responses)
      /\ response.kind \in {"Continue", "Replace", "ReplaceMultiple"}
  BY <1>2, VerdictMessages DEF TypeOK
<1>4. answer.kind \in {"Continue", "Replace", "ReplaceMultiple"}
  BY <1>2, ResponseKinds DEF Kinds
<1>5. response'.messages = response.messages \o answer.messages
  BY <1>3, <1>4, CombineMessages
<1>6. response.messages = FlattenSeq(Sayings(answers))
  BY <1>2 DEF Said
<1>7. /\ Sayings(answers) \in Seq(Seq(Names)) /\ answer.messages \in Seq(Names)
      /\ Sayings(answers') = Append(Sayings(answers), answer.messages)
  BY <1>3, SayingsAppend
<1>8. FlattenSeq(Append(Sayings(answers), answer.messages))
        = FlattenSeq(Sayings(answers)) \o answer.messages
  BY <1>7, Flattened
<1> QED
  BY <1>5, <1>6, <1>7, <1>8

\* A response written over the others is all that is sent.
LEMMA MessagesWritten ==
  ASSUME NEW written \in Responses
  PROVE  written.messages = FlattenSeq(Sayings(<<written>>))
<1>1. <<>> \in Seq(Responses) /\ Append(<<>>, written) = <<written>>
  OBVIOUS
<1>2. Sayings(<<>>) = <<>>
  BY DEF Sayings
<1>3. written.messages \in Seq(Names) /\ Sayings(<<written>>) = Append(<<>>, written.messages)
  BY <1>1, <1>2, SayingsAppend
<1>4. <<>> \in Seq(Seq(Names)) /\ FlattenSeq(<<>>) = <<>>
  BY Flattened
<1>5. FlattenSeq(Append(<<>>, written.messages)) = <<>> \o written.messages
  BY <1>3, <1>4, Flattened
<1>6. <<>> \o written.messages = written.messages
  BY <1>3, ConcatEmptySeq
<1> QED
  BY <1>3, <1>5, <1>6

\* At the start and with a request just taken nothing is to be sent.
LEMMA MessagesNone == Continue.messages = FlattenSeq(Sayings(<<>>))
<1>1. Sayings(<<>>) = <<>> /\ Continue.messages = <<>>
  BY ResponseMessages DEF Sayings
<1> QED
  BY <1>1, Flattened

\* Every step keeps what is to be sent.
LEMMA MessagesInductive == TypeOK /\ VerdictPrevails /\ Said /\ [Next]_vars => Said'
<1> SUFFICES ASSUME TypeOK, VerdictPrevails, Said, [Next]_vars PROVE Said'
  OBVIOUS
<1>2. ASSUME UNCHANGED <<response, answers>> PROVE Said'
  BY <1>2 DEF Said, Unopposed, Gave
<1>3. ASSUME NEW h \in Names, Register(h) PROVE UNCHANGED <<response, answers>>
  BY <1>3 DEF Register
<1>4. ASSUME Resolve PROVE UNCHANGED <<response, answers>>
  BY <1>4 DEF Resolve
<1>5. ASSUME NEW k \in Keys \cup {Unknown}, Take(k)
      PROVE  Said'
  <2>1. response' = Continue /\ answers' = <<>>
    BY <1>5 DEF Take
  <2>2. response'.messages = FlattenSeq(Sayings(answers'))
    BY <2>1, MessagesNone
  <2> QED
    BY <2>2 DEF Said
<1>6. ASSUME Call PROVE Said'
  <2> DEFINE h == Head(bundle.rest)
  <2>1. h \in Names
    <3>1. bundle.rest \in Seq(Names) /\ bundle.rest # <<>>
      BY <1>6 DEF Call, Idle, Halted, TypeOK
    <3> QED
      BY <3>1, HeadTailProperties
  <2>2. Answers(h) \subseteq Responses
    BY <2>1, AnswersTyped
  <2>3. \/ \E answer \in Answers(h) : response' = Combine(response, answer)
                                      /\ answers' = Append(answers, answer)
        \/ UNCHANGED <<response, answers>>
        \/ \E written \in Answers(h) : response' = written /\ answers' = <<written>>
    BY <1>6 DEF Call
  <2> HIDE DEF h
  <2>4. CASE \E answer \in Answers(h) : response' = Combine(response, answer)
                                        /\ answers' = Append(answers, answer)
    <3>1. PICK answer \in Answers(h) : response' = Combine(response, answer)
                                       /\ answers' = Append(answers, answer)
      BY <2>4
    <3>2. answer \in Responses
      BY <2>2, <3>1
    <3> QED
      BY <3>1, <3>2, MessagesKept
  <2>5. CASE \E written \in Answers(h) : response' = written /\ answers' = <<written>>
    <3>1. PICK written \in Answers(h) : response' = written /\ answers' = <<written>>
      BY <2>5
    <3>2. written.messages = FlattenSeq(Sayings(<<written>>))
      BY <2>2, <3>1, MessagesWritten
    <3>3. response'.messages = FlattenSeq(Sayings(answers'))
      BY <3>1, <3>2
    <3> QED
      BY <3>3 DEF Said
  <2> QED
    BY <1>2, <2>3, <2>4, <2>5
<1>7. ASSUME Finish PROVE UNCHANGED <<response, answers>>
  BY <1>7 DEF Finish
<1>8. ASSUME UNCHANGED vars PROVE UNCHANGED <<response, answers>>
  BY <1>8 DEF vars
<1> QED
  BY <1>2, <1>3, <1>4, <1>5, <1>6, <1>7, <1>8 DEF Next

\* What is sent is what the handlers gave, in the order in which they ran, unless one of
\* them objects or writes over it (Mul for Response, process_bundle).
THEOREM MessagesInOrderAlways == Spec => []MessagesInOrder
<1>1. Init => Said
  <2> SUFFICES ASSUME Init PROVE Said
    OBVIOUS
  <2>1. response = Continue /\ answers = <<>>
    BY DEF Init
  <2> QED
    BY <2>1, MessagesNone DEF Said
<1> QED
  BY <1>1, TypeCorrect, VerdictPrevailsAlways, MessagesInductive, MessagesSaid, PTL DEF Spec

-----------------------------------------------------------------------------
(* Statistics.                                                              *)

\* Those of S that are of a module.
Places(S, m) == {h \in S : ModuleOf[h] = m}

\* A list that names each of S once has one place for each of S of a module.
LEMMA OccurrencesCounted ==
  ASSUME NEW s \in Seq(Names), NEW S, Lists(s, S), NEW m
  PROVE  Occurrences(s, m) = Cardinality(Places(S, m))
<1> DEFINE D == {i \in DOMAIN s : ModuleOf[s[i]] = m}
           T == Places(S, m)
           f == [i \in D |-> s[i]]
<1>1. IsFiniteSet(D)
  <2>1. DOMAIN s = 1..Len(s) /\ Len(s) \in Nat
    OBVIOUS
  <2>2. IsFiniteSet(DOMAIN s)
    BY <2>1, FS_Interval
  <2>3. D \in SUBSET (DOMAIN s)
    OBVIOUS
  <2> HIDE DEF D
  <2> QED
    BY <2>2, <2>3, FS_Subset
<1>2. f \in Surjection(D, T)
  <2>1. \A i \in D : f[i] = s[i] /\ s[i] \in T
    BY DEF Lists, Members, Places
  <2>2. \A h \in T : \E i \in D : s[i] = h
    BY DEF Lists, Members, Places
  <2> QED
    BY <2>1, <2>2 DEF Surjection
<1>3. f \in Injection(D, T)
  <2>1. f \in [D -> T] /\ \A i \in D : f[i] = s[i] /\ i \in DOMAIN s
    BY <1>2 DEF Surjection
  <2>2. \A i, j \in DOMAIN s : s[i] = s[j] => i = j
    BY DEF Lists, IsInjective
  <2> HIDE DEF f, D, T
  <2> QED
    BY <2>1, <2>2 DEF Injection, IsInjective
<1> HIDE DEF f, D, T
<1>4. IsFiniteSet(T) /\ Cardinality(T) = Cardinality(D)
  BY <1>1, <1>2, <1>3, FS_Surjection
<1> QED
  BY <1>4 DEF D, T, Occurrences

\* What n lists count beside their own, and what is taken away again.
LEMMA Copies ==
  ASSUME NEW n \in Nat, NEW g \in Nat, n # 0
  PROVE  /\ (n - 1) * g + g = n * g
         /\ n * g - g * (n - 1) = g
         /\ n * g \in Nat /\ (n - 1) * g \in Nat
         /\ n * g >= g
<1>1. n - 1 \in Nat /\ n = (n - 1) + 1
  OBVIOUS
<1>2. PICK p \in Nat : p = n - 1
  BY <1>1
<1>3. p * g \in Nat /\ (p + 1) * g = p * g + g /\ g * p = p * g
  BY <1>2
<1> QED
  BY <1>1, <1>2, <1>3

\* The enabled handlers of a module, of some keys.
Ours(m, ks) == {h \in Names : Enabled(h) /\ keys[h] \in ks /\ ModuleOf[h] = m}

\* What the lists of the keys s count, as iterated by MapThenSumSet.
Sums(it, m, S) ==
  it = [s \in SUBSET S |->
          IF s = {} THEN 0
          ELSE LET x == CHOOSE x \in s : TRUE
               IN  Occurrences(handlers[x], m) + it[s \ {x}]]

\* What they come to.
Total(m, s) == Cardinality(s) * Cardinality(Ours(m, {All})) + Cardinality(Ours(m, s))

\* A list of a registered key counts its own handlers of a module and the globals.
LEMMA OneList ==
  ASSUME TypeOK, Filled, resolved, IsFiniteSet(Names), NEW m, NEW x \in KeyLists,
         NEW s \in SUBSET KeyLists, IsFiniteSet(s), x \in s
  PROVE  /\ Total(m, s) = Occurrences(handlers[x], m) + Total(m, s \ {x})
         /\ Total(m, s) \in Nat
<1> DEFINE G == Ours(m, {All})
           X == Ours(m, {x})
           R == Ours(m, s \ {x})
<1>1. /\ handlers[x] \in Seq(Names) /\ Lists(handlers[x], Of(x) \cup Of(All)) /\ seen = Names
      /\ x \in Keys
  BY DEF TypeOK, Filled, KeyLists, Registered
<1>2. \A ks : IsFiniteSet(Ours(m, ks)) /\ Cardinality(Ours(m, ks)) \in Nat
  <2>1. \A ks : Ours(m, ks) \in SUBSET Names
    BY DEF Ours
  <2> QED
    BY <2>1, FS_Subset, FS_CardinalityType
<1>3. Occurrences(handlers[x], m) = Cardinality(X) + Cardinality(G)
  <2>1. Places(Of(x) \cup Of(All), m) = X \cup G
    BY <1>1 DEF Of, Ours, Places
  <2>2. X \cap G = {}
    BY <1>1, HandlersAssumption DEF Ours
  <2>3. Occurrences(handlers[x], m) = Cardinality(Places(Of(x) \cup Of(All), m))
    BY <1>1, OccurrencesCounted
  <2>4. /\ IsFiniteSet(X) /\ IsFiniteSet(G)
        /\ Cardinality(X) \in Nat /\ Cardinality(G) \in Nat
    BY <1>2
  <2> HIDE DEF X, G
  <2>5. Cardinality(X \cup G) = Cardinality(X) + Cardinality(G) - Cardinality({})
    BY <2>2, <2>4, FS_Union
  <2>6. Cardinality(X \cup G) = Cardinality(X) + Cardinality(G)
    BY <2>4, <2>5, FS_EmptySet
  <2> QED
    BY <2>1, <2>3, <2>6
<1>4. Cardinality(Ours(m, s)) = Cardinality(X) + Cardinality(R)
  <2>1. Ours(m, s) = X \cup R /\ X \cap R = {}
    BY DEF Ours
  <2>2. /\ IsFiniteSet(X) /\ IsFiniteSet(R)
        /\ Cardinality(X) \in Nat /\ Cardinality(R) \in Nat
    BY <1>2
  <2> HIDE DEF X, R
  <2>3. Cardinality(X \cup R) = Cardinality(X) + Cardinality(R) - Cardinality({})
    BY <2>1, <2>2, FS_Union
  <2> QED
    BY <2>1, <2>2, <2>3, FS_EmptySet
<1>5. Cardinality(s \ {x}) = Cardinality(s) - 1 /\ Cardinality(s) \in Nat /\ Cardinality(s) # 0
  BY FS_RemoveElement, FS_CardinalityType, FS_EmptySet
<1> DEFINE n == Cardinality(s)
           g == Cardinality(G)
           a == Cardinality(X)
           r == Cardinality(R)
<1>6. /\ n \in Nat /\ n # 0 /\ g \in Nat /\ a \in Nat /\ r \in Nat
      /\ Total(m, s) = n * g + (a + r)
      /\ Occurrences(handlers[x], m) = a + g
      /\ Total(m, s \ {x}) = (n - 1) * g + r
  BY <1>2, <1>3, <1>4, <1>5 DEF Total
<1> HIDE DEF n, g, a, r
<1>7. (n - 1) * g + g = n * g /\ n * g \in Nat /\ (n - 1) * g \in Nat
  BY <1>6, Copies
<1> DEFINE ng == n * g
           pg == (n - 1) * g
<1>8. pg + g = ng /\ ng \in Nat /\ pg \in Nat
  BY <1>7
<1>9. /\ Total(m, s) = ng + (a + r)
      /\ Occurrences(handlers[x], m) = a + g
      /\ Total(m, s \ {x}) = pg + r
  BY <1>6
<1> HIDE DEF ng, pg
<1>10. ng + (a + r) = (a + g) + (pg + r) /\ ng + (a + r) \in Nat
  BY <1>6, <1>8
<1> QED
  BY <1>9, <1>10

\* All lists together, whichever order MapThenSumSet takes them in.
LEMMA AllLists ==
  ASSUME TypeOK, Filled, resolved, IsFiniteSet(Names), IsFiniteSet(KeyLists), NEW m
  PROVE  MapThenSumSet(LAMBDA k : Occurrences(handlers[k], m), KeyLists) = Total(m, KeyLists)
<1> DEFINE S == KeyLists
           it == CHOOSE f : Sums(f, m, S)
           total == [s \in SUBSET S |-> Total(m, s)]
<1>1. MapThenSumSet(LAMBDA k : Occurrences(handlers[k], m), S) = it[S]
  BY DEF MapThenSumSet, MapThenFoldSet, Sums
<1>2. Total(m, {}) = 0
  <2>1. Ours(m, {}) = {}
    BY DEF Ours
  <2>2. Cardinality(Ours(m, {All})) \in Nat
    <3>1. Ours(m, {All}) \in SUBSET Names
      BY DEF Ours
    <3> QED
      BY <3>1, FS_Subset, FS_CardinalityType
  <2>3. 0 * Cardinality(Ours(m, {All})) = 0
    BY <2>2
  <2> QED
    BY <2>1, <2>3, FS_EmptySet DEF Total
<1>3. ASSUME NEW s \in SUBSET S, s # {}
      PROVE  LET x == CHOOSE x \in s : TRUE
             IN  /\ x \in s /\ s \ {x} \in SUBSET S
                 /\ Total(m, s) = Occurrences(handlers[x], m) + Total(m, s \ {x})
  <2> DEFINE x == CHOOSE x \in s : TRUE
  <2>1. x \in s /\ x \in S /\ s \ {x} \in SUBSET S
    BY <1>3
  <2>2. IsFiniteSet(s)
    BY FS_Subset
  <2> HIDE DEF x
  <2>3. Total(m, s) = Occurrences(handlers[x], m) + Total(m, s \ {x})
    BY <2>1, <2>2, OneList
  <2> QED
    BY <2>1, <2>3 DEF x
<1>4. Sums(total, m, S)
  <2>1. ASSUME NEW s \in SUBSET S
        PROVE  total[s] = IF s = {} THEN 0
                          ELSE LET x == CHOOSE x \in s : TRUE
                               IN  Occurrences(handlers[x], m) + total[s \ {x}]
    <3>1. CASE s = {}
      BY <1>2, <3>1
    <3>2. CASE s # {}
      <4> DEFINE x == CHOOSE x \in s : TRUE
      <4>1. s \ {x} \in SUBSET S /\ Total(m, s) = Occurrences(handlers[x], m) + Total(m, s \ {x})
        BY <1>3, <3>2
      <4> HIDE DEF x
      <4>2. total[s] = Total(m, s) /\ total[s \ {x}] = Total(m, s \ {x})
        BY <4>1
      <4>3. total[s] = Occurrences(handlers[x], m) + total[s \ {x}]
        BY <4>1, <4>2
      <4> QED
        BY <3>2, <4>3 DEF x
    <3> QED
      BY <3>1, <3>2
  <2>2. total = [s \in SUBSET S |-> total[s]]
    OBVIOUS
  <2> HIDE DEF total
  <2>3. total = [s \in SUBSET S |->
                   IF s = {} THEN 0
                   ELSE LET x == CHOOSE x \in s : TRUE
                        IN  Occurrences(handlers[x], m) + total[s \ {x}]]
    BY <2>1, <2>2, Zenon
  <2> QED
    BY <2>3 DEF Sums
<1>5. Sums(it, m, S)
  BY <1>4
<1> HIDE DEF it
<1>6. ASSUME NEW s \in SUBSET S
      PROVE  it[s] = IF s = {} THEN 0
                     ELSE LET x == CHOOSE x \in s : TRUE
                          IN  Occurrences(handlers[x], m) + it[s \ {x}]
  BY <1>5, <1>6, Zenon DEF Sums
<1> DEFINE Agrees(n) == \A s \in SUBSET S : Cardinality(s) = n => it[s] = Total(m, s)
           Good == {n \in Nat : Agrees(n)}
<1>7. Agrees(0)
  <2> SUFFICES ASSUME NEW s \in SUBSET S, Cardinality(s) = 0 PROVE it[s] = Total(m, s)
    OBVIOUS
  <2>1. s = {}
    BY FS_Subset, FS_EmptySet
  <2>2. it[s] = 0
    BY <1>6, <2>1
  <2> QED
    BY <1>2, <2>1, <2>2
<1>8. ASSUME NEW n \in Nat, Agrees(n) PROVE Agrees(n + 1)
  <2> SUFFICES ASSUME NEW s \in SUBSET S, Cardinality(s) = n + 1 PROVE it[s] = Total(m, s)
    OBVIOUS
  <2> DEFINE x == CHOOSE x \in s : TRUE
             rest == s \ {x}
  <2>1. IsFiniteSet(s)
    BY FS_Subset
  <2>2. s # {}
    <3>1. n + 1 # 0
      OBVIOUS
    <3> QED
      BY <3>1, FS_EmptySet
  <2>3. /\ x \in s /\ rest \in SUBSET S
        /\ Total(m, s) = Occurrences(handlers[x], m) + Total(m, rest)
    BY <1>3, <2>2
  <2>4. it[s] = Occurrences(handlers[x], m) + it[rest]
    BY <1>6, <2>2
  <2> HIDE DEF x
  <2>5. Cardinality(rest) = n
    <3>1. Cardinality(s \ {x}) = Cardinality(s) - 1
      BY <2>1, <2>3, FS_RemoveElement
    <3>2. (n + 1) - 1 = n
      OBVIOUS
    <3> QED
      BY <3>1, <3>2
  <2> HIDE DEF rest
  <2>6. it[rest] = Total(m, rest)
    BY <1>8, <2>3, <2>5
  <2> QED
    BY <2>3, <2>4, <2>6
<1>9. Good \in SUBSET Nat /\ 0 \in Good /\ \A n \in Good : n + 1 \in Good
  <2> HIDE DEF Agrees
  <2> QED
    BY <1>7, <1>8
<1>10. \A n \in Nat : Agrees(n)
  <2> HIDE DEF Agrees
  <2>1. Good = Nat
    <3> HIDE DEF Good
    <3> QED
      BY <1>9, Counting
  <2> QED
    BY <2>1
<1>11. it[S] = Total(m, S)
  <2>1. Cardinality(S) \in Nat /\ S \in SUBSET S
    BY FS_CardinalityType
  <2> QED
    BY <1>10, <2>1
<1> QED
  BY <1>1, <1>11

\* Only finitely many builders have been looked at.
FewSeen == IsFiniteSet(seen)

\* Only so many keys have a list as there are handlers.
LEMMA KeyListsFinite ==
  ASSUME TypeOK, Filled, resolved, IsFiniteSet(Names)
  PROVE  IsFiniteSet(KeyLists)
<1> DEFINE Named == {keys[h] : h \in Names}
<1>1. IsFiniteSet(Named)
  <2>1. keys \in Surjection(Names, Named)
    BY DEF TypeOK, Surjection
  <2> HIDE DEF Named
  <2> QED
    BY <2>1, FS_Surjection
<1>2. KeyLists \in SUBSET Named
  <2> SUFFICES ASSUME NEW k \in KeyLists PROVE k \in Named
    OBVIOUS
  <2>1. Of(k) # {} /\ seen = Names
    BY DEF Filled, KeyLists, Registered
  <2> QED
    BY <2>1 DEF Of
<1> HIDE DEF Named
<1> QED
  BY <1>1, <1>2, FS_Subset

\* The statistics count every enabled handler of a module once.
LEMMA StatisticsCount ==
  ASSUME TypeOK, Filled, FewSeen
  PROVE  StatisticsExact
<1> SUFFICES ASSUME resolved, KeyLists # {}, NEW m \in Modules
             PROVE  Statistics(m) = Cardinality({h \in Names : Enabled(h) /\ ModuleOf[h] = m})
  BY DEF StatisticsExact
<1>1. seen = Names /\ IsFiniteSet(Names) /\ IsFiniteSet(KeyLists)
  BY KeyListsFinite DEF Filled, FewSeen
<1> DEFINE counted == MapThenSumSet(LAMBDA k : Occurrences(handlers[k], m), KeyLists)
           n == Cardinality(KeyLists)
           g == Cardinality(Ours(m, {All}))
           own == Cardinality(Ours(m, KeyLists))
<1>2. counted = n * g + own
  BY <1>1, AllLists DEF Total
<1>3. n \in Nat /\ n # 0
  BY <1>1, FS_CardinalityType, FS_EmptySet
<1>4. \A ks : IsFiniteSet(Ours(m, ks)) /\ Cardinality(Ours(m, ks)) \in Nat
  <2>1. \A ks : Ours(m, ks) \in SUBSET Names
    BY DEF Ours
  <2> QED
    BY <1>1, <2>1, FS_Subset, FS_CardinalityType
<1>5. Occurrences(global_handlers, m) = g
  <2>1. global_handlers \in Seq(Names) /\ Lists(global_handlers, Of(All))
    BY DEF TypeOK, Filled
  <2>2. Places(Of(All), m) = Ours(m, {All})
    BY <1>1 DEF Of, Ours, Places
  <2> QED
    BY <2>1, <2>2, OccurrencesCounted
<1>6. Cardinality({h \in Names : Enabled(h) /\ ModuleOf[h] = m}) = own + g
  <2> DEFINE A == Ours(m, KeyLists)
             B == Ours(m, {All})
  <2>1. {h \in Names : Enabled(h) /\ ModuleOf[h] = m} = A \cup B
    <3>1. ASSUME NEW h \in Names, Enabled(h), keys[h] # All PROVE keys[h] \in KeyLists
      <4>1. keys[h] \in Keys /\ h \in Of(keys[h])
        BY <1>1, <3>1 DEF TypeOK, Of
      <4>2. handlers[keys[h]] # <<>>
        <5>1. Lists(handlers[keys[h]], Of(keys[h]) \cup Of(All)) /\ handlers[keys[h]] \in Seq(Names)
          BY <4>1 DEF Filled, TypeOK
        <5> QED
          BY <4>1, <5>1, ListsEmpty
      <4> QED
        BY <4>1, <4>2 DEF KeyLists, Registered
    <3> QED
      BY <3>1 DEF Ours
  <2>2. A \cap B = {}
    BY HandlersAssumption DEF Ours, KeyLists
  <2>3. /\ IsFiniteSet(A) /\ IsFiniteSet(B)
        /\ Cardinality(A) \in Nat /\ Cardinality(B) \in Nat
    BY <1>4
  <2> HIDE DEF A, B
  <2>4. Cardinality(A \cup B) = Cardinality(A) + Cardinality(B) - Cardinality({})
    BY <2>2, <2>3, FS_Union
  <2>5. Cardinality(A \cup B) = Cardinality(A) + Cardinality(B)
    BY <2>3, <2>4, FS_EmptySet
  <2> QED
    BY <2>1, <2>5 DEF A, B
<1>7. Statistics(m) = IF counted = 0 THEN 0 ELSE counted - g * (n - 1)
  BY <1>5 DEF Statistics
<1>8. g \in Nat /\ own \in Nat
  BY <1>4
<1> HIDE DEF counted, n, g, own
<1>9. /\ n * g - g * (n - 1) = g /\ n * g \in Nat /\ g * (n - 1) \in Nat
      /\ n * g >= g
  <2>1. g * (n - 1) = (n - 1) * g
    BY <1>3, <1>8
  <2> QED
    BY <1>3, <1>8, <2>1, Copies
<1> DEFINE ng == n * g
           gn == g * (n - 1)
<1>10. /\ ng - gn = g /\ ng \in Nat /\ gn \in Nat /\ ng >= g
       /\ counted = ng + own
       /\ Statistics(m) = IF counted = 0 THEN 0 ELSE counted - gn
  BY <1>2, <1>7, <1>9
<1> HIDE DEF ng, gn
<1>11. Statistics(m) = own + g
  <2>1. CASE counted = 0
    <3>1. own = 0 /\ g = 0
      BY <1>8, <1>10, <2>1
    <3>2. Statistics(m) = 0
      BY <1>10, <2>1
    <3> QED
      BY <3>1, <3>2
  <2>2. CASE counted # 0
    <3>1. Statistics(m) = (ng + own) - gn
      BY <1>10, <2>2
    <3>2. (ng + own) - gn = own + g
      BY <1>8, <1>10
    <3> QED
      BY <3>1, <3>2
  <2> QED
    BY <2>1, <2>2
<1> QED
  BY <1>6, <1>11

\* One builder a step.
LEMMA SeenKept == FewSeen /\ [Next]_vars => FewSeen'
<1> SUFFICES ASSUME FewSeen, [Next]_vars PROVE FewSeen'
  OBVIOUS
<1>1. ASSUME NEW h \in Names, Register(h) PROVE FewSeen'
  <2>1. seen' = seen \cup {h}
    BY <1>1 DEF Register
  <2> QED
    BY <2>1, FS_AddElement DEF FewSeen
<1>2. (Resolve \/ (\E k \in Keys \cup {Unknown} : Take(k)) \/ Call \/ Finish \/ UNCHANGED vars)
        => seen' = seen
  BY DEF Resolve, Take, Call, Finish, vars
<1> QED
  BY <1>1, <1>2 DEF Next, FewSeen

\* handler_statistics tells how many handlers each module has, though it finds the globals
\* in every list: for every number of keys, handlers and modules.
THEOREM StatisticsExactAlways == Spec => []StatisticsExact
<1>1. Init => FewSeen
  BY FS_EmptySet DEF Init, FewSeen
<1>2. Spec => []FewSeen
  BY <1>1, SeenKept, PTL DEF Spec
<1>3. Spec => []Filled
  BY TypeCorrect, FilledInit, FilledKept, PTL DEF Spec
<1> QED
  BY <1>2, <1>3, TypeCorrect, StatisticsCount, PTL

\* Every handler that applies to a message is heard: each runs once and in order, is
\* counted once, and what they have to send is sent in that order.
THEOREM EveryHandlerHeardAlways == Spec => []EveryHandlerHeard
<1>1. TypeOK /\ EveryHandlerOnce /\ InPriorityOrder /\ MessagesInOrder /\ StatisticsExact
        => EveryHandlerHeard
  BY DEF EveryHandlerHeard
<1> QED
  BY <1>1, TypeCorrect, EveryHandlerOnceAlways, InPriorityOrderAlways, MessagesInOrderAlways,
     StatisticsExactAlways, PTL
=============================================================================

------------------------------ MODULE Handlers ------------------------------
(***************************************************************************)
(* The dispatcher of ygopro-handler: a Processor is filled from two slices  *)
(* of builders, those of the room's own kind (target) and those every kind  *)
(* shares (source); it copies the global handlers into the list of every    *)
(* key, sorts the lists, and then runs each request through one of them.    *)
(*                                                                          *)
(* The linker decides the order of a slice, and the sort is unstable.  What *)
(* a handler answers is its own affair: any response, nothing (one of its   *)
(* parameters could not be extracted), or a response written over the one   *)
(* built so far (&mut Response).  Any handler may raise the stop flag.      *)
(***************************************************************************)
EXTENDS Naturals, Sequences, SequencesExt, FiniteSets, FiniteSetsExt

CONSTANTS
  Names,          \* the handlers of both slices
  Keys,           \* message keys a handler may be registered for
  All,            \* the key of a global handler
  Unknown,        \* the key of a message nobody registered for
  Modules,        \* plugin modules
  Priorities,     \* priorities in use
  ModuleOf,       \* [Names -> Modules]
  Target,         \* the handlers of the target slice, the others are of the source's
  MaxRequests     \* bound: requests processed

ASSUME HandlersAssumption ==
  /\ Priorities \subseteq Nat
  /\ All \notin Keys /\ Unknown \notin Keys
  /\ ModuleOf \in [Names -> Modules]
  /\ Target \subseteq Names
  /\ MaxRequests \in Nat

VARIABLES
  keys,            \* [Names -> Keys \cup {All}], what the builders say
  priority,        \* [Names -> Priorities], likewise
  groups,          \* configuration.enable_plugins; empty enables everything
  handlers,        \* Processor::handlers; <<>> for a key without an entry
  global_handlers, \* Processor::global_handlers
  seen,            \* builders looked at so far
  resolved,        \* resolve() has run
  bundle,          \* the request in process: its key and handlers, and what is left of them
  response,        \* Bundle::response
  stop_flag,       \* Bundle::stop_flag
  answers,         \* since the last overwriting: what the handlers called answered
  called,          \* the handlers called for this request
  requests         \* requests taken so far

slices == <<keys, priority, groups>>
vars == <<slices, handlers, global_handlers, seen, resolved, bundle, response, stop_flag,
          answers, called, requests>>

-----------------------------------------------------------------------------
(* Responses.  Message data is the name of the handler that made it.        *)

Flag(kind) == [kind |-> kind, messages |-> <<>>]
Continue  == Flag("Continue")
Swallow   == Flag("Swallow")
Terminate == Flag("Terminate")
Kick      == Flag("Kick")
Replace(m) == [kind |-> "Replace", messages |-> <<m>>]
ReplaceMultiple(ms) == [kind |-> "ReplaceMultiple", messages |-> ms]

Responses ==
  [kind : {"Replace", "ReplaceMultiple"}, messages : Seq(Names)]
    \cup {Continue, Swallow, Terminate, Kick}

\* What handler h may answer.
Answers(h) == {Continue, Swallow, Terminate, Kick, Replace(h), ReplaceMultiple(<<h, h>>)}

\* Mutant of Combine: the later answer wins.
LaterWins(a, b) == IF b = Continue THEN a ELSE b

\* Mul for Response.
Combine(a, b) ==
  CASE a = Continue -> b
    [] b = Continue -> a
    [] Kick \in {a, b} -> Kick
    [] Terminate \in {a, b} /\ Kick \notin {a, b} -> Terminate
    [] Swallow \in {a, b} /\ {Kick, Terminate} \cap {a, b} = {} -> Swallow
    [] OTHER -> ReplaceMultiple(a.messages \o b.messages)

-----------------------------------------------------------------------------
(* Filling the processor.                                                   *)

Members(s) == {s[i] : i \in DOMAIN s}
Sorted(s) == \A i, j \in DOMAIN s : i < j => priority[s[i]] <= priority[s[j]]

\* sort_unstable_by_key: the same handlers in an order by priority; ties fall anyhow.
Sortings(s) == {t \in [DOMAIN s -> Members(s)] : Members(t) = Members(s) /\ Sorted(t)}

Enabled(h) == groups = {} \/ ModuleOf[h] \in groups

Init ==
  /\ keys \in [Names -> Keys \cup {All}]
  /\ priority \in [Names -> Priorities]
  /\ groups \in SUBSET Modules
  /\ handlers = [k \in Keys |-> <<>>]
  /\ global_handlers = <<>>
  /\ seen = {}
  /\ resolved = FALSE
  /\ bundle = <<>>
  /\ response = Continue
  /\ stop_flag = FALSE
  /\ answers = <<>>
  /\ called = <<>>
  /\ requests = 0

\* One builder of new_with_dual_group: all of the target slice come first.
Register(h) ==
  /\ ~resolved
  /\ h \notin seen
  /\ h \in Target \/ Target \subseteq seen
  /\ seen' = seen \cup {h}
  /\ IF Enabled(h) /\ keys[h] = All THEN global_handlers' = Append(global_handlers, h)
                                    ELSE UNCHANGED global_handlers
  /\ IF Enabled(h) /\ keys[h] # All THEN handlers' = [handlers EXCEPT ![keys[h]] = Append(@, h)]
                                    ELSE UNCHANGED handlers
  /\ UNCHANGED <<slices, resolved, bundle, response, stop_flag, answers, called, requests>>

Registered(k) == handlers[k] # <<>>

\* Mutant of Listed: the lists are left in the order of registration.
Unsorted(k) == {IF Registered(k) THEN handlers[k] \o global_handlers ELSE <<>>}

\* What resolve_globals may make of the list of key k.
Listed(k) == IF Registered(k) THEN Sortings(handlers[k] \o global_handlers) ELSE {<<>>}

\* resolve(): every list gets the globals and is sorted; global_handlers is not.
Resolve ==
  /\ ~resolved
  /\ seen = Names
  /\ resolved' = TRUE
  /\ handlers' \in {f \in [Keys -> UNION {Listed(k) : k \in Keys}] :
                      \A k \in Keys : f[k] \in Listed(k)}
  /\ UNCHANGED <<slices, global_handlers, seen, bundle, response, stop_flag, answers, called,
                 requests>>

-----------------------------------------------------------------------------
(* Running a request through it.                                            *)

Idle == bundle = <<>>

\* The handlers process_bundle looks up.
Chain(k) == IF k \in Keys /\ Registered(k) THEN handlers[k] ELSE global_handlers

\* The actor takes a request; the bundle starts with Continue and no stop flag.
Take(k) ==
  /\ resolved
  /\ Idle
  /\ requests < MaxRequests
  /\ requests' = requests + 1
  /\ bundle' = [key |-> k, rest |-> Chain(k)]
  /\ response' = Continue
  /\ stop_flag' = FALSE
  /\ answers' = <<>>
  /\ called' = <<>>
  /\ UNCHANGED <<slices, handlers, global_handlers, seen, resolved>>

\* The loop is over.
Halted == bundle.rest = <<>> \/ stop_flag

\* The next handler runs and its answer, if it gives one, is combined.
Call ==
  /\ ~Idle /\ ~Halted
  /\ LET h == Head(bundle.rest) IN
     /\ \/ \E answer \in Answers(h) :
             /\ response' = Combine(response, answer)
             /\ answers' = Append(answers, answer)
        \/ UNCHANGED <<response, answers>>
        \/ \E written \in Answers(h) :
             /\ response' = written
             /\ answers' = <<written>>
     /\ called' = Append(called, h)
  /\ stop_flag' \in BOOLEAN
  /\ bundle' = [bundle EXCEPT !.rest = Tail(@)]
  /\ UNCHANGED <<slices, handlers, global_handlers, seen, resolved, requests>>

\* process_bundle returns; the actor acts on the response.
Finish ==
  /\ ~Idle /\ Halted
  /\ bundle' = <<>>
  /\ UNCHANGED <<slices, handlers, global_handlers, seen, resolved, response, stop_flag,
                 answers, called, requests>>

Next ==
  \/ \E h \in Names : Register(h)
  \/ Resolve
  \/ \E k \in Keys \cup {Unknown} : Take(k)
  \/ Call
  \/ Finish

Spec == Init /\ [][Next]_vars

-----------------------------------------------------------------------------
(* Statistics.                                                              *)

Occurrences(s, m) == Cardinality({i \in DOMAIN s : ModuleOf[s[i]] = m})
KeyLists == {k \in Keys : Registered(k)}

\* handler_statistics: all lists, less the copies of the globals beyond the first.
Statistics(m) ==
  LET counted == MapThenSumSet(LAMBDA k : Occurrences(handlers[k], m), KeyLists)
      copies  == IF KeyLists = {} THEN 0 ELSE Cardinality(KeyLists) - 1
  IN  IF counted = 0 THEN 0 ELSE counted - Occurrences(global_handlers, m) * copies

-----------------------------------------------------------------------------
(* Properties.                                                              *)

\* Every variable has its type.
TypeOK ==
  /\ keys \in [Names -> Keys \cup {All}]
  /\ priority \in [Names -> Priorities]
  /\ groups \subseteq Modules
  /\ handlers \in [Keys -> Seq(Names)]
  /\ global_handlers \in Seq(Names)
  /\ seen \subseteq Names
  /\ resolved \in BOOLEAN
  /\ bundle \in {<<>>} \cup [key : Keys \cup {Unknown}, rest : Seq(Names)]
  /\ response \in Responses
  /\ stop_flag \in BOOLEAN
  /\ answers \in Seq(Responses)
  /\ called \in Seq(Names)
  /\ requests \in 0..MaxRequests

\* The verdict of several answers, said without an order of combination: whoever
\* kicks prevails over whoever terminates, and that over swallowing; only when none
\* does are messages sent.
Gave(kind) == \E i \in DOMAIN answers : answers[i].kind = kind
Verdict ==
  CASE Gave("Kick") -> "Kick"
    [] Gave("Terminate") /\ ~Gave("Kick") -> "Terminate"
    [] Gave("Swallow") /\ ~Gave("Terminate") /\ ~Gave("Kick") -> "Swallow"
    [] OTHER -> "Messages"

\* A plugin that kicks, ends the room or swallows the message is not overruled by what
\* other handlers answer before or after it (Mul for Response); messages are sent only
\* when no handler objects.
VerdictPrevails ==
  IF Verdict = "Messages" THEN response.kind \in {"Continue", "Replace", "ReplaceMultiple"}
                          ELSE response = Flag(Verdict)

\* The messages that are sent are those of all handlers that gave some, in the order in
\* which the handlers ran.
MessagesInOrder ==
  Verdict = "Messages" =>
    response.messages = FlattenSeq([i \in DOMAIN answers |-> answers[i].messages])

\* Handlers that apply to key k, with the configuration's plugins.
Applies(h, k) == Enabled(h) /\ keys[h] \in {k, All}

\* A request that comes to the end of its list has been through every enabled handler of
\* its key and every enabled global one, each once; at any moment, and when a handler stops
\* it, those it has been through and those before it are all of them (process_bundle).
EveryHandlerOnce ==
  ~Idle =>
    /\ \A i, j \in DOMAIN called : called[i] = called[j] => i = j
    /\ Members(called) \cap Members(bundle.rest) = {}
    /\ Members(called) \cup Members(bundle.rest) = {h \in Names : Applies(h, bundle.key)}

\* For a key somebody registered for, handlers run in order of priority, whatever the
\* order of the slices and whichever of them a handler comes from: `before` runs before
\* `after` (resolve_globals, process_bundle).
InPriorityOrder == ~Idle /\ bundle.key \in KeyLists => Sorted(called \o bundle.rest)

\* handler_statistics counts every enabled handler of a module once, though the globals
\* have been copied into every list, unless nobody registered for any key.
StatisticsExact ==
  resolved /\ KeyLists # {} =>
    \A m \in Modules :
      Statistics(m) = Cardinality({h \in Names : Enabled(h) /\ ModuleOf[h] = m})

\* Every handler that applies to a message is heard: each runs once and in order, as
\* counted, and what they have to send is sent in that order.
EveryHandlerHeard ==
  TypeOK /\ EveryHandlerOnce /\ InPriorityOrder /\ MessagesInOrder /\ StatisticsExact
=============================================================================

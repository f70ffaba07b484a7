----------------------------- MODULE Responses -----------------------------
(***************************************************************************)
(* Answers to the engine's questions as bytes.  A client sends bytes whose   *)
(* meaning depends on the question (Response::Unknown); they are stored in   *)
(* the replay, and read (Response::resolve) only to judge whether an answer  *)
(* earns its player time (response_is_meaningful).                           *)
(*                                                                           *)
(* An answer is a kind with its numbers; `args` has none, one or a list.     *)
(***************************************************************************)
EXTENDS Integers, Sequences, SequencesExt

Byte == 256
U16(n) == <<n % Byte, n \div Byte>>
U32(n) == U16(n % (Byte * Byte)) \o U16(n \div (Byte * Byte))
Minus1 == <<255, 255, 255, 255>>              \* -1i32

Words(ns) == FlattenSeq([i \in DOMAIN ns |-> U16(ns[i])])

Phrases   == {"SelectIdleCommand", "SelectBattleCommand"}              \* two words
Letters   == {"SelectYesNo", "SelectOption", "SelectChain", "SelectPosition"}
Counted   == {"SelectCards", "SelectTribute", "SelectSum"}             \* a length and words
Uncounted == {"SelectCounter", "SortCards"}                            \* words to the end
Wide      == {"AnnounceRace", "AnnounceAttribute", "AnnounceCard"}
Declines  == {"Cancel", "DeclineChain"}

\* write_options.
Bytes(r) ==
  CASE r.kind \in Declines              -> Minus1
    [] r.kind \in Phrases \cup Uncounted -> Words(r.args)
    [] r.kind \in Letters               -> <<r.args[1]>>
    [] r.kind \in Counted               -> <<Len(r.args) % Byte>> \o Words(r.args)
    [] r.kind = "SelectUnselectCards"   -> <<1>> \o U16(r.args[1])
    [] r.kind = "SelectPlace"           -> r.args
    [] r.kind = "DeclinePlace"          -> <<0, 0, 0>>
    [] r.kind = "KeepCardOrder"         -> <<255>>
    [] r.kind \in Wide                  -> U32(r.args[1])

\* Response::len, kept by hand beside write_options.
Width(r) ==
  CASE r.kind \in Declines \cup Phrases \cup Wide -> 4
    [] r.kind \in Letters \cup {"KeepCardOrder"}  -> 1
    [] r.kind \in Counted                         -> 1 + 2 * Len(r.args)
    [] r.kind \in Uncounted                       -> 2 * Len(r.args)
    [] OTHER                                      -> 3

-----------------------------------------------------------------------------
(* Response::parse, given the type of the question.                         *)
Answer(kind, args) == [kind |-> kind, args |-> args]
Unread == Answer("Unknown", <<>>)             \* the error of the reader

ReadWords(bytes) == [i \in 1..(Len(bytes) \div 2) |-> bytes[2 * i - 1] + Byte * bytes[2 * i]]
Rest(bytes, n) == SubSeq(bytes, n + 1, Len(bytes))

\* Vec<u16> of the length in the first byte.
ReadCounted(kind, bytes) ==
  IF bytes = <<>> \/ Len(bytes) < 1 + 2 * bytes[1] THEN Unread
  ELSE Answer(kind, SubSeq(ReadWords(Rest(bytes, 1)), 1, bytes[1]))

\* Mutant of Decline: the four bytes are read like any other answer.
NeverDeclined(bytes, kind, otherwise) == otherwise

\* Where -1i32 is looked for before anything is read.
Decline(bytes, kind, otherwise) == IF bytes = Minus1 THEN Answer(kind, <<>>) ELSE otherwise

OneByte(kind, bytes) == IF bytes = <<>> THEN Unread ELSE Answer(kind, <<bytes[1]>>)
OneDword(kind, bytes) ==
  IF Len(bytes) < 4 THEN Unread
  ELSE LET w == ReadWords(bytes) IN Answer(kind, <<w[1] + Byte * Byte * w[2]>>)

ReadUnselect(bytes) ==
  IF Len(bytes) < 3 \/ bytes[1] # 1 THEN Unread
  ELSE Answer("SelectUnselectCards", <<ReadWords(Rest(bytes, 1))[1]>>)

ReadPlace(bytes) ==
  IF Len(bytes) < 3 THEN Unread
  ELSE IF SubSeq(bytes, 1, 3) = <<0, 0, 0>> THEN Answer("DeclinePlace", <<>>)
  ELSE Answer("SelectPlace", SubSeq(bytes, 1, 3))

ReadSort(bytes) ==
  IF bytes = <<255>> THEN Answer("KeepCardOrder", <<>>) ELSE Answer("SortCards", ReadWords(bytes))

\* IdleCommand::ShuffleDeck, BattleCommand::EnterEndPhase.
LastCommand == [question \in Phrases |-> IF question = "SelectIdleCommand" THEN 8 ELSE 3]

Parse(question, bytes) ==
  CASE question \in Phrases ->
         IF Len(bytes) < 4 \/ ReadWords(bytes)[1] > LastCommand[question] THEN Unread
         ELSE Answer(question, SubSeq(ReadWords(bytes), 1, 2))
    [] question \in {"SelectEffectYesNo", "SelectYesNo"} ->
         LET r == OneByte("SelectYesNo", bytes) IN
         IF r = Unread THEN r ELSE Answer("SelectYesNo", <<IF r.args[1] = 0 THEN 0 ELSE 1>>)
    [] question \in {"SelectOption", "AnnounceNumber"} -> OneByte("SelectOption", bytes)
    [] question = "SelectPosition"  -> OneByte("SelectPosition", bytes)
    [] question = "SelectChain"     -> Decline(bytes, "DeclineChain", OneByte("SelectChain", bytes))
    [] question = "SelectCard"      -> Decline(bytes, "Cancel", ReadCounted("SelectCards", bytes))
    [] question = "SelectUnselectCard" -> Decline(bytes, "Cancel", ReadUnselect(bytes))
    [] question = "SelectTribute"   -> Decline(bytes, "Cancel", ReadCounted("SelectTribute", bytes))
    [] question = "SelectSum"       -> ReadCounted("SelectSum", bytes)
    [] question = "SelectCounter"   -> Answer("SelectCounter", ReadWords(bytes))
    [] question \in {"SelectPlace", "SelectDisableField"} -> ReadPlace(bytes)
    [] question = "SortCard"        -> ReadSort(bytes)
    [] question \in Wide            -> OneDword(question, bytes)
    [] OTHER                        -> Unread

-----------------------------------------------------------------------------

\* response_is_meaningful: an answer that only lets things go on is not; one that
\* cannot be read is.
Meaningful(bytes, question) ==
  /\ question # "Retry"
  /\ LET r == Parse(question, bytes) IN
     CASE r.kind = "Cancel" -> question # "SelectUnselectCard"
       [] r.kind \in {"DeclineChain", "SelectUnselectCards"} -> FALSE
       [] r.kind = "SelectIdleCommand"   -> r.args[1] <= 5      \* up to Activate
       [] r.kind = "SelectBattleCommand" -> r.args[1] <= 1      \* up to Attack
       [] OTHER -> TRUE
=============================================================================

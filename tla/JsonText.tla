------------------------------- MODULE JsonText -------------------------------
(***************************************************************************)
(* JSON as it is read and written (core/Json.cpp): a writer is told of     *)
(* objects, arrays, keys and values and makes a text of them, dense or     *)
(* indented; the parser reads a text, decoding its strings in place; a     *)
(* value that was read can be made a text again. Every file and message    *)
(* goes through it.                                                        *)
(*                                                                         *)
(* A text is a sequence of bytes. A value is [kind, text, items]: `text`   *)
(* of a string, or the digits of a number, `items` of an array or object.  *)
(***************************************************************************)
EXTENDS Integers, FiniteSets, Sequences, SequencesExt, FiniteSetsExt

CONSTANTS
  JsonStrings,  \* strings that are written
  JsonNumbers,  \* numbers that are written, as to_chars() makes them; <<>> is not finite
  Pieces,       \* what a text is typed of: sets of texts
  MaxDepth,     \* max_depth of the parser
  MaxParts,     \* bound: what a writer is told
  MaxTyped      \* bound: the bytes typed

VARIABLES
  writer,  \* [out, hasItems, afterKey, pretty]
  open,    \* the values begun and not ended, the outermost first, with the key that waits
  root,    \* what was written when all is ended, as a sequence of none or one
  typed,   \* a text from elsewhere
  parts

jsonvars == <<writer, open, root, typed, parts>>

Quote == 34
Comma == 44
Colon == 58
Backslash == 92
Zero == 48
Space == {32, 10, 13, 9}
IsDigit(c) == c \in 48 .. 57
HexValue(c) ==
  IF c \in 48 .. 57 THEN c - 48 ELSE IF c \in 97 .. 102 THEN c - 87
  ELSE IF c \in 65 .. 70 THEN c - 55 ELSE -1

Null       == <<110, 117, 108, 108>>
TrueText   == <<116, 114, 117, 101>>
FalseText  == <<102, 97, 108, 115, 101>>
Brackets   == [array |-> [open |-> 91, close |-> 93], object |-> [open |-> 123, close |-> 125]]

Value(kind, text, items) == [kind |-> kind, text |-> text, items |-> items]
Member(key, value)       == [key |-> key, value |-> value]

-----------------------------------------------------------------------------
(* Writing.                                                                *)

\* escape(): \b and \f go as \u00xx.
Hex(n) == IF n < 10 THEN n + 48 ELSE n + 87
Escaped(c) ==
  CASE c = Quote -> <<Backslash, Quote>>
    [] c = Backslash -> <<Backslash, Backslash>>
    [] c = 10 -> <<Backslash, 110>>
    [] c = 13 -> <<Backslash, 114>>
    [] c = 9 -> <<Backslash, 116>>
    [] c < 32 /\ c \notin {9, 10, 13} -> <<Backslash, 117, 48, 48, Hex(c \div 16), Hex(c % 16)>>
    [] OTHER -> <<c>>
\* Mutant: a backslash is left as it is.
EscapedButBackslash(text) ==
  <<Quote>> \o FlattenSeq([i \in DOMAIN text |->
                 IF text[i] = Backslash THEN <<Backslash>> ELSE Escaped(text[i])]) \o <<Quote>>
Escape(text) == <<Quote>> \o FlattenSeq([i \in DOMAIN text |-> Escaped(text[i])]) \o <<Quote>>

AppendNumber(digits) == IF digits = <<>> THEN Null ELSE digits

Indent(w, depth) == IF w.pretty THEN <<10>> \o [i \in 1 .. 4 * depth |-> 32] ELSE <<>>

Prefix(w) ==
  LET depth == Len(w.hasItems)
  IN IF w.afterKey THEN [w EXCEPT !.afterKey = FALSE]
     ELSE IF depth = 0 THEN w
     ELSE [w EXCEPT !.out = @ \o (IF w.hasItems[depth] THEN <<Comma>> ELSE <<>>)
                              \o Indent(w, depth),
                    !.hasItems[depth] = TRUE]

Wrote(w, text)  == [Prefix(w) EXCEPT !.out = @ \o text]
Begun(w, kind)  == [Wrote(w, <<Brackets[kind].open>>) EXCEPT !.hasItems = Append(@, FALSE)]
Keyed(w, name)  ==
  [Wrote(w, Escape(name) \o (IF w.pretty THEN <<Colon, 32>> ELSE <<Colon>>))
     EXCEPT !.afterKey = TRUE]
Ended(w, kind)  ==
  LET depth == Len(w.hasItems)
  IN [w EXCEPT !.hasItems = Front(@),
               !.out = @ \o (IF w.hasItems[depth] THEN Indent(w, depth - 1) ELSE <<>>)
                         \o <<Brackets[kind].close>>]

\* serialize() of a value.
RECURSIVE Serialize(_)
Serialize(v) ==
  CASE v.kind = "string" -> Escape(v.text)
    [] v.kind \in DOMAIN Brackets ->
         <<Brackets[v.kind].open>> \o
         FlattenSeq([i \in DOMAIN v.items |->
           (IF i > 1 THEN <<Comma>> ELSE <<>>)
           \o (IF v.kind = "object" THEN Escape(v.items[i].key) \o <<Colon>> ELSE <<>>)
           \o Serialize(v.items[i].value)])
         \o <<Brackets[v.kind].close>>
    [] OTHER -> AppendNumber(v.text)

-----------------------------------------------------------------------------
(* Reading. The byte after the last is 0. What is read is [ok, at, value]: *)
(* where it ends, or where it is wrong.                                    *)

At(t, i) == IF i <= Len(t) THEN t[i] ELSE 0
Nothing  == Value("null", Null, <<>>)
Read(at, value) == [ok |-> TRUE, at |-> at, value |-> value]
Wrong(at)       == [ok |-> FALSE, at |-> at, value |-> Nothing]

\* The first place from i on where something else is.
Past(t, i, bytes) == Min({j \in i .. Len(t) + 1 : At(t, j) \notin bytes})
SkipWhitespace(t, i) == Past(t, i, Space)
Digits(t, i)         == Past(t, i, 48 .. 57)

Literal(t, i, word, value) ==
  IF IsPrefix(word, SubSeq(t, i, Len(t))) THEN Read(i + Len(word), value) ELSE Wrong(i)

\* A part of a number that must have a digit, where there is one at all.
Exponent(t, i, after) ==
  LET sign == IF At(t, after + 1) \in {43, 45} THEN after + 2 ELSE after + 1
      end  == Digits(t, sign)
      Number(j) == Read(j, Value("number", SubSeq(t, i, j - 1), <<>>))
  IN IF At(t, after) \notin {69, 101} THEN Number(after)
     ELSE IF end = sign THEN Wrong(sign) ELSE Number(end)
Fraction(t, i, whole) ==
  LET end == Digits(t, whole + 1)
  IN IF At(t, whole) # 46 THEN Exponent(t, i, whole)
     ELSE IF end = whole + 1 THEN Wrong(end) ELSE Exponent(t, i, end)
\* Mutant: a number may begin with a zero and go on.
WholeOfDigits(t, i, start) ==
  IF IsDigit(At(t, start)) THEN Fraction(t, i, Digits(t, start)) ELSE Wrong(start)
Whole(t, i, start) ==
  IF At(t, start) = Zero THEN Fraction(t, i, start + 1)
  ELSE IF IsDigit(At(t, start)) THEN Fraction(t, i, Digits(t, start)) ELSE Wrong(start)
ParseNumber(t, i) == Whole(t, i, IF At(t, i) = 45 THEN i + 1 ELSE i)

\* utf8::encode()
Encode(cp) ==
  IF cp < 128 THEN <<cp>>
  ELSE IF cp < 2048 THEN <<192 + cp \div 64, 128 + (cp % 64)>>
  ELSE IF cp \in 55296 .. 57343 THEN <<239, 191, 189>>
  ELSE IF cp < 65536 THEN <<224 + cp \div 4096, 128 + ((cp \div 64) % 64), 128 + (cp % 64)>>
  ELSE <<240 + cp \div 262144, 128 + ((cp \div 4096) % 64), 128 + ((cp \div 64) % 64),
         128 + (cp % 64)>>

\* parseHex4(): the number, or where there is no digit.
Hex4(t, i) ==
  LET bad == {j \in i .. i + 3 : HexValue(At(t, j)) < 0}
  IN IF bad # {} THEN [ok |-> FALSE, at |-> Min(bad), cp |-> 0]
     ELSE [ok |-> TRUE, at |-> i + 4,
           cp |-> 4096 * HexValue(t[i]) + 256 * HexValue(t[i + 1]) + 16 * HexValue(t[i + 2])
                  + HexValue(t[i + 3])]

\* A \uXXXX, or a pair of them for a character beyond 16 bits; a half without the other stands
\* for itself.
Paired(high, low) ==
  IF high.cp \in 55296 .. 56319 /\ low.ok /\ low.cp \in 56320 .. 57343
  THEN [low EXCEPT !.cp = 65536 + (high.cp - 55296) * 1024 + (@ - 56320)]
  ELSE high
SecondHalf(t, high) ==
  IF high.ok /\ At(t, high.at) = Backslash /\ At(t, high.at + 1) = 117
  THEN Paired(high, Hex4(t, high.at + 2)) ELSE high
Unicode(t, i) == SecondHalf(t, Hex4(t, i))

Short ==
  [c \in {Quote, Backslash, 47, 98, 102, 110, 114, 116} |->
    CASE c = 98 -> 8 [] c = 102 -> 12 [] c = 110 -> 10 [] c = 114 -> 13 [] c = 116 -> 9
      [] OTHER -> c]

\* parseString(), its escapes decoded where they are: `text` is what was written over them.
RECURSIVE StringFrom(_, _, _, _), Decoded(_, _, _, _)
StringFrom(t, i, start, text) ==
  LET c == At(t, i)
      escaped == At(t, i + 1)
  IN CASE Len(text) > i - start -> Wrong(0)  \* what is still to be read was written over
       [] c = Quote -> Read(i + 1, Value("string", text, <<>>))
       [] c < 32 -> Wrong(i)
       [] c >= 32 /\ c \notin {Quote, Backslash} -> StringFrom(t, i + 1, start, Append(text, c))
       [] c = Backslash /\ escaped \in DOMAIN Short ->
            StringFrom(t, i + 2, start, Append(text, Short[escaped]))
       [] c = Backslash /\ escaped = 117 -> Decoded(t, start, text, Unicode(t, i + 2))
       [] c = Backslash /\ escaped \notin DOMAIN Short \cup {117} -> Wrong(i)
Decoded(t, start, text, unicode) ==
  IF unicode.ok THEN StringFrom(t, unicode.at, start, text \o Encode(unicode.cp))
  ELSE Wrong(unicode.at)

ParseString(t, i) == StringFrom(t, i + 1, i + 1, <<>>)

\* The key of a member: where its value begins.
BeforeColon(t, key, colon) ==
  IF At(t, colon) = Colon THEN [key EXCEPT !.at = SkipWhitespace(t, colon + 1)] ELSE Wrong(colon)
AfterKey(t, key) == IF key.ok THEN BeforeColon(t, key, SkipWhitespace(t, key.at)) ELSE key
ParseKey(t, i) == IF At(t, i) = Quote THEN AfterKey(t, ParseString(t, i)) ELSE Wrong(i)

RECURSIVE ParseValue(_, _, _), ParseItems(_, _, _, _, _), WithKey(_, _, _, _, _),
          WithItem(_, _, _, _, _), Further(_, _, _, _, _)

\* An item, or a member, and those that follow.
NoKey == Value("string", <<>>, <<>>)
ParseItems(t, i, depth, kind, items) ==
  WithKey(t, depth, kind, items, IF kind = "object" THEN ParseKey(t, i) ELSE Read(i, NoKey))
WithKey(t, depth, kind, items, key) ==
  IF key.ok
  THEN WithItem(t, depth, kind, Append(items, key.value.text), ParseValue(t, key.at, depth + 1))
  ELSE key
WithItem(t, depth, kind, items, item) ==
  IF item.ok
  THEN Further(t, depth, kind, Append(Front(items), Member(Last(items), item.value)),
               SkipWhitespace(t, item.at))
  ELSE item
Further(t, depth, kind, items, next) ==
  IF At(t, next) = Comma THEN ParseItems(t, SkipWhitespace(t, next + 1), depth, kind, items)
  ELSE IF At(t, next) = Brackets[kind].close THEN Read(next + 1, Value(kind, <<>>, items))
  ELSE Wrong(next)

\* parseArray(), parseObject()
ParseContainer(t, i, depth, kind) ==
  LET first == SkipWhitespace(t, i + 1)
  IN IF depth >= MaxDepth THEN Wrong(i)
     ELSE IF At(t, first) = Brackets[kind].close THEN Read(first + 1, Value(kind, <<>>, <<>>))
     ELSE ParseItems(t, first, depth, kind, <<>>)

ParseValue(t, i, depth) ==
  LET c == At(t, i)
  IN CASE c \in {91, 123} -> ParseContainer(t, i, depth, IF c = 91 THEN "array" ELSE "object")
       [] c = Quote -> ParseString(t, i)
       [] c = 116 -> Literal(t, i, TrueText, Value("bool", TrueText, <<>>))
       [] c = 102 -> Literal(t, i, FalseText, Value("bool", FalseText, <<>>))
       [] c = 110 -> Literal(t, i, Null, Nothing)
       [] IsDigit(c) \/ c = 45 -> ParseNumber(t, i)
       [] OTHER -> Wrong(i)

\* Parser::run(): a mark of UTF-8, one value, and nothing after it.
Mark == <<239, 187, 191>>
Alone(t, read) ==
  LET end == SkipWhitespace(t, read.at)
  IN IF read.ok /\ end <= Len(t) THEN Wrong(end) ELSE read
Parse(t) ==
  Alone(t, ParseValue(t, SkipWhitespace(t, IF IsPrefix(Mark, t) THEN 4 ELSE 1), 0))

-----------------------------------------------------------------------------
(* What a writer is told, and what is typed.                               *)

JsonInit ==
  /\ writer \in [out : {<<>>}, hasItems : {<<>>}, afterKey : {FALSE}, pretty : BOOLEAN]
  /\ open = <<>> /\ root = <<>> /\ typed = <<>> /\ parts = 0

\* A value may come: the only one, an item of an array, or after a key.
ValueMayCome ==
  /\ parts < MaxParts /\ typed = <<>> /\ root = <<>>
  /\ open # <<>> => (Last(open).kind = "object" => writer.afterKey)

\* `v` is what the innermost object or array has next, or all there is.
Placed(levels, v) ==
  IF levels = <<>> THEN open' = <<>> /\ root' = <<v>>
  ELSE LET depth == Len(levels)
       IN /\ open' = [levels EXCEPT ![depth].items = Append(@, Member(levels[depth].key, v)),
                                    ![depth].key = <<>>]
          /\ UNCHANGED root

WriteValue ==
  /\ ValueMayCome
  /\ \E v \in {Value("string", s, <<>>) : s \in JsonStrings}
                \cup {Value(IF n = <<>> THEN "null" ELSE "number", AppendNumber(n), <<>>) :
                        n \in JsonNumbers}
                \cup {Nothing, Value("bool", TrueText, <<>>), Value("bool", FalseText, <<>>)} :
       /\ writer' = Wrote(writer, IF v.kind = "string" THEN Escape(v.text) ELSE v.text)
       /\ Placed(open, v)
  /\ parts' = parts + 1 /\ UNCHANGED typed

Begin ==
  /\ ValueMayCome /\ Len(open) < MaxDepth
  /\ \E kind \in DOMAIN Brackets :
       /\ writer' = Begun(writer, kind)
       /\ open' = Append(open, [kind |-> kind, key |-> <<>>, items |-> <<>>])
  /\ parts' = parts + 1 /\ UNCHANGED <<root, typed>>

WriteKey ==
  /\ open # <<>> /\ Last(open).kind = "object" /\ ~writer.afterKey
  /\ parts < MaxParts
  /\ \E name \in JsonStrings :
       /\ writer' = Keyed(writer, name)
       /\ open' = [open EXCEPT ![Len(open)].key = name]
  /\ parts' = parts + 1 /\ UNCHANGED <<root, typed>>

End ==
  /\ open # <<>> /\ ~writer.afterKey
  /\ writer' = Ended(writer, Last(open).kind)
  /\ Placed(Front(open), Value(Last(open).kind, <<>>, Last(open).items))
  /\ UNCHANGED <<typed, parts>>

\* A text from elsewhere, as long as it is not wrong before its end.
Type ==
  /\ writer.out = <<>> /\ ~writer.pretty
  /\ typed # <<>> => \E read \in {Parse(typed)} : read.ok \/ read.at > Len(typed)
  /\ \E pieces \in Pieces : \E piece \in pieces :
       /\ Range(typed) \subseteq UNION {Range(p) : p \in pieces}
       /\ Len(typed) + Len(piece) <= MaxTyped
       /\ typed' = typed \o piece
  /\ UNCHANGED <<writer, open, root, parts>>

JsonNext == WriteValue \/ Begin \/ WriteKey \/ End \/ Type
JsonSpec == JsonInit /\ [][JsonNext]_jsonvars

-----------------------------------------------------------------------------
(* What should hold.                                                       *)

\* What was written is read as it was, dense or indented and also when it is written again from
\* what was read; an object or array that was cut off anywhere (a file, a line of a
\* connection) is refused.
WrittenIsRead ==
  root # <<>> =>
    /\ \A text \in {writer.out, Mark \o writer.out, Serialize(root[1])} :
         \E read \in {Parse(text)} : read.ok /\ read.value = root[1]
    /\ root[1].kind \in DOMAIN Brackets =>
         \A n \in 0 .. Len(writer.out) - 1 : ~Parse(SubSeq(writer.out, 1, n)).ok

\* The grammar of JSON (RFC 8259), said by how a text can be divided.
Part(t, i, j) == SubSeq(t, i, j)
AllOf(t, bytes) == \A i \in DOMAIN t : t[i] \in bytes
SomeDigits(t) == t # <<>> /\ AllOf(t, 48 .. 57)
IsNumber(t) ==
  \E a \in 0 .. 1, b \in 1 .. Len(t) : \E c \in b .. Len(t) :
    /\ a <= b /\ Part(t, 1, a) \in {<<>>, <<45>>}
    /\ SomeDigits(Part(t, a + 1, b)) /\ (t[a + 1] = Zero => b = a + 1)
    /\ b = c \/ (t[b + 1] = 46 /\ SomeDigits(Part(t, b + 2, c)))
    /\ \/ c = Len(t)
       \/ /\ t[c + 1] \in {69, 101}
          /\ \E d \in c + 1 .. c + 2 : /\ d < Len(t) /\ SomeDigits(Part(t, d + 1, Len(t)))
                                       /\ Part(t, c + 2, d) \in {<<>>, <<43>>, <<45>>}
RECURSIVE AreCharacters(_)
AreCharacters(t) ==
  \/ t = <<>>
  \/ t[1] >= 32 /\ t[1] \notin {Quote, Backslash} /\ AreCharacters(Tail(t))
  \/ /\ Len(t) > 1 /\ t[1] = Backslash
     /\ \/ t[2] \in DOMAIN Short /\ AreCharacters(Part(t, 3, Len(t)))
        \/ /\ Len(t) > 5 /\ t[2] = 117 /\ \A i \in 3 .. 6 : HexValue(t[i]) >= 0
           /\ AreCharacters(Part(t, 7, Len(t)))
IsString(t) ==
  Len(t) > 1 /\ t[1] = Quote /\ t[Len(t)] = Quote /\ AreCharacters(Part(t, 2, Len(t) - 1))

Trimmed(t) ==
  LET solid == {i \in DOMAIN t : t[i] \notin Space}
  IN IF solid = {} THEN <<>> ELSE Part(t, Min(solid), Max(solid))

RECURSIVE IsValue(_, _), AreItems(_, _, _)
IsItem(t, kind, depth) ==
  IF kind = "array" THEN IsValue(Trimmed(t), depth)
  ELSE \E k \in DOMAIN t : /\ t[k] = Colon /\ IsString(Trimmed(Part(t, 1, k - 1)))
                           /\ IsValue(Trimmed(Part(t, k + 1, Len(t))), depth)
AreItems(t, kind, depth) ==
  \/ IsItem(t, kind, depth)
  \/ \E k \in DOMAIN t : /\ t[k] = Comma /\ IsItem(Part(t, 1, k - 1), kind, depth)
                         /\ AreItems(Part(t, k + 1, Len(t)), kind, depth)
IsValue(t, depth) ==
  \/ t \in {Null, TrueText, FalseText} \/ IsNumber(t) \/ IsString(t)
  \/ \E kind \in DOMAIN Brackets :
       /\ depth < MaxDepth /\ Len(t) > 1 /\ t[1] = Brackets[kind].open /\ t[Len(t)] = Brackets[kind].close
       /\ LET inner == Part(t, 2, Len(t) - 1)
          IN Trimmed(inner) = <<>> \/ AreItems(inner, kind, depth + 1)

\* A text is read exactly when it is JSON, no deeper than the parser goes.
JsonIsRead == typed # <<>> => (Parse(typed).ok <=> IsValue(Trimmed(typed), 0))
===============================================================================

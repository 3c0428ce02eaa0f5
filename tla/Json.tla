-------------------------------- MODULE Json --------------------------------
(***************************************************************************)
(* The JSON reader and writer (src/utils/json.c), as functions on texts.   *)
(* A text is a sequence of symbols: a character each, but for the words    *)
(* null, true and false.  Exponents and fractions are left out: a number   *)
(* is a sign and digits, and is kept as it is written.                     *)
(***************************************************************************)
EXTENDS JsonStrings

CONSTANTS
  Character,  \* what strings and numbers are made of
  DepthBound  \* bound: the levels of a document

ASSUME DepthAssumption == DepthBound \in Nat \ {0, 1}

Words  == {"null", "true", "false"}
Digits == {"0", "1"}
Space  == " "
White  == {Space, "\n"}

-----------------------------------------------------------------------------
(* Values.  Every value has the same fields, the ones it does not need are *)
(* empty: text of a number or string, keys of an object, items of an array *)
(* or object.                                                              *)

Value(type, text, keys, items) ==
  [type |-> type, text |-> text, keys |-> keys, items |-> items]

Word(w)        == Value(w, <<>>, <<>>, <<>>)
Number(s)      == Value("number", s, <<>>, <<>>)
Text(s)        == Value("string", s, <<>>, <<>>)
Array(items)   == Value("array", <<>>, <<>>, items)
Object(ks, vs) == Value("object", <<>>, ks, vs)

Types == Words \cup {"number", "string", "array", "object"}

\* How numbers are written: digits, with or without a sign before them.
IsNumber(s) ==
  /\ s # <<>>
  /\ LET first == IF s[1] = "-" THEN 2 ELSE 1
     IN  first <= Len(s) /\ \A i \in first..Len(s) : s[i] \in Digits

WellFormed(v) ==
  /\ v.type = "number" => IsNumber(v.text)
  /\ v.type \notin {"number", "string"} => v.text = <<>>
  /\ v.type = "object" => Len(v.keys) = Len(v.items)
  /\ v.type # "object" => v.keys = <<>>
  /\ v.type \notin {"array", "object"} => v.items = <<>>

\* The values of at most n levels for each n, their strings and keys taken from T.
DocumentsOf(T) ==
  LET docs[n \in 0..DepthBound] ==
        IF n = 0 THEN {}
        ELSE {v \in [type : Types, text : T, keys : Seq(T), items : Seq(docs[n - 1])] :
                WellFormed(v)}
  IN docs

Documents      == DocumentsOf(Seq(Character))
PlainDocuments == DocumentsOf({s \in Seq(Character) : Plain(s)})

\* json_array_append
Appended(array, v) == [array EXCEPT !.items = Append(@, v)]

Has(object, k) == \E i \in DOMAIN object.keys : object.keys[i] = k
At(object, k) ==
  CHOOSE i \in DOMAIN object.keys :
    object.keys[i] = k /\ \A j \in 1..(i - 1) : object.keys[j] # k

\* Mutant: a key that is there is added again.
WithKeyAppended(object, k, v) ==
  [object EXCEPT !.keys = Append(@, k), !.items = Append(@, v)]

\* json_object_set replaces the value of a key that is there; json_object_get finds the
\* first one.
WithKey(object, k, v) ==
  IF Has(object, k)
  THEN [object EXCEPT !.items[At(object, k)] = v]
  ELSE [object EXCEPT !.keys = Append(@, k), !.items = Append(@, v)]
Member(object, k) == object.items[At(object, k)]

-----------------------------------------------------------------------------
(* Writing.                                                                *)

NewLine(pretty, level) ==
  IF pretty THEN <<"\n">> \o [i \in 1..(2 * level) |-> Space] ELSE <<>>

\* The entries of an array or object, each on a line of its own when it is pretty.
Listed(open, entries, close, pretty, level) ==
  LET comma(i) == IF i > 1 THEN <<",">> ELSE <<>>
      line(i)  == comma(i) \o NewLine(pretty, level + 1) \o entries[i]
  IN  <<open>> \o FlattenSeq([i \in DOMAIN entries |-> line(i)])
      \o (IF entries = <<>> THEN <<>> ELSE NewLine(pretty, level)) \o <<close>>

Colon(pretty) == IF pretty THEN <<":", Space>> ELSE <<":">>

\* stringify_value, given what is written of each item on each level.
WrittenWith(written, pretty, v, level) ==
  LET item(i)   == written[<<v.items[i], level + 1>>]
      member(i) == Quoted(v.keys[i]) \o Colon(pretty) \o item(i)
      all       == DOMAIN v.items
  IN  CASE v.type \in Words    -> <<v.type>>
        [] v.type = "number"   -> v.text
        [] v.type = "string"   -> Quoted(v.text)
        [] v.type = "array"    -> Listed("[", [i \in all |-> item(i)], "]", pretty, level)
        [] v.type = "object"   -> Listed("{", [i \in all |-> member(i)], "}", pretty, level)

\* What is written of the values of at most n levels, for each n.
Written(pretty) ==
  LET written[n \in 0..DepthBound] ==
        [part \in Documents[n] \X Nat |->
           WrittenWith(written[n - 1], pretty, part[1], part[2])]
  IN written

Stringify(v)       == Written(FALSE)[DepthBound][<<v, 0>>]
StringifyPretty(v) == Written(TRUE)[DepthBound][<<v, 0>>]

-----------------------------------------------------------------------------
(* Reading.  A part that reads from position p gives the value and the     *)
(* position after it, or Failed.                                           *)

Read(v, p) == [value |-> v, next |-> p]
Failed     == Read(Word("null"), 0)
Ok(r)      == r.next # 0

\* The first position from p on that has none of these symbols.
Past(text, p, symbols) ==
  LET past[i \in 1..(Len(text) + 1)] ==
        IF i <= Len(text) /\ text[i] \in symbols THEN past[i + 1] ELSE i
  IN past[p]

\* Mutant: a line may not end between two symbols.
SkipSpaces(text, p) == Past(text, p, {Space})

\* skip_whitespace, peek_char, consume_char
Skip(text, p)  == Past(text, p, White)
Peek(text, p)  == IF Skip(text, p) <= Len(text) THEN text[Skip(text, p)] ELSE "end"
After(text, p) == Skip(text, p) + 1

ParseString(text, p) ==
  LET start == After(text, p)
      quote == Scan(text, start).quote
  IN  IF Peek(text, p) = Quote /\ quote <= Len(text)
      THEN Read(Text(Content(text, start)), quote + 1)
      ELSE Failed

\* Mutant: a sign alone is a number.
ParseNumberLoose(text, p) ==
  LET first == IF text[p] = "-" THEN p + 1 ELSE p
      end   == Past(text, first, Digits)
  IN  Read(Number(SubSeq(text, p, end - 1)), end)

ParseNumber(text, p) ==
  LET first == IF text[p] = "-" THEN p + 1 ELSE p
      end   == Past(text, first, Digits)
  IN  IF end > first THEN Read(Number(SubSeq(text, p, end - 1)), end) ELSE Failed

\* An array or object whose first entry is read, with what follows the comma behind it.
Joined(first, rest) ==
  IF Ok(rest)
  THEN Read([first EXCEPT !.keys = @ \o rest.value.keys, !.items = @ \o rest.value.items],
            rest.next)
  ELSE Failed

\* The parts of a text that call each other: a value, the loop of parse_array from an
\* item on, and the loop of parse_object from a key on.  Each is given what they read
\* from each position.
Kinds == {"value", "items", "members"}

\* What comes after an entry: the end of the array or object, or a comma and the others.
Continued(text, p, entry, close, kind, parse) ==
  CASE Peek(text, p) = close -> Read(entry, After(text, p))
    [] Peek(text, p) = ","   -> Joined(entry, parse[<<kind, After(text, p)>>])
    [] OTHER                 -> Failed

ParseItems(text, p, parse) ==
  LET item == parse[<<"value", p>>]
  IN  IF Ok(item)
      THEN Continued(text, item.next, Array(<<item.value>>), "]", "items", parse)
      ELSE Failed

\* A key that comes twice is kept twice.
ParseMembers(text, p, parse) ==
  LET key  == ParseString(text, p)
      item == parse[<<"value", After(text, key.next)>>]
  IN  IF Ok(key) /\ Peek(text, key.next) = ":" /\ Ok(item)
      THEN Continued(text, item.next, Object(<<key.value.text>>, <<item.value>>), "}",
                     "members", parse)
      ELSE Failed

ParseValue(text, p, parse) ==
  LET at     == Skip(text, p)
      symbol == Peek(text, p)
      inside == at + 1
  IN  CASE symbol \in Words  -> Read(Word(symbol), inside)
        [] symbol = Quote    -> ParseString(text, at)
        [] symbol = "["      -> IF Peek(text, inside) = "]"
                                THEN Read(Array(<<>>), After(text, inside))
                                ELSE parse[<<"items", inside>>]
        [] symbol = "{"      -> IF Peek(text, inside) = "}"
                                THEN Read(Object(<<>>, <<>>), After(text, inside))
                                ELSE parse[<<"members", inside>>]
        [] symbol \in Digits \cup {"-"} -> ParseNumber(text, at)
        [] OTHER -> Failed

ParsePart(text, part, parse) ==
  CASE part[1] = "value"   -> ParseValue(text, part[2], parse)
    [] part[1] = "items"   -> ParseItems(text, part[2], parse)
    [] part[1] = "members" -> ParseMembers(text, part[2], parse)

Parsed(text) ==
  LET parse[part \in Kinds \X (1..(Len(text) + 1))] == ParsePart(text, part, parse)
  IN parse

\* json_parse: what follows the value is not looked at.
Parse(text) == Parsed(text)[<<"value", 1>>]
=============================================================================

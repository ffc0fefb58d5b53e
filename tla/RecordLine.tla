----------------------------- MODULE RecordLine -----------------------------
(***************************************************************************)
(* How a value of the host becomes a line of the Run Record file: any type *)
(* that serializes is captured once, with its floats as they are, and      *)
(* refused if one of them is not finite; the capture is replayed into JSON *)
(* and written by hand as sorted, compact ASCII.                           *)
(*                                                                         *)
(* A value is a node [kind, text, keys, items] of Serde's data model, a    *)
(* captured one of FiniteValue, a JSON one of serde_json; text is the name *)
(* of a variant or the code points of a string or number.                  *)
(***************************************************************************)
EXTENDS Integers, Sequences, FiniteSets, FiniteSetsExt, SequencesExt

Node(kind, text, keys, items) == [kind |-> kind, text |-> text, keys |-> keys, items |-> items]

Scalar(kind, text)  == Node(kind, text, <<>>, <<>>)
Over(kind, items)   == Node(kind, <<>>, <<>>, items)
Text(text)          == Scalar("string", text)
Refusal             == Scalar("refused", <<>>)

AnyRefused(items) == Refusal \in ToSet(items)

\* The code points of texts compare like the texts.
Precedes(s, t) ==
    \/ Len(s) < Len(t) /\ SubSeq(t, 1, Len(s)) = s
    \/ \E i \in DOMAIN s \cap DOMAIN t :
         s[i] < t[i] /\ SubSeq(s, 1, i - 1) = SubSeq(t, 1, i - 1)

\* A JSON object: of two entries with one key the last one stays.
Object(keys, items) ==
    LET texts == SetToSortSeq(ToSet(keys), Precedes)
        last(text) == Max({i \in DOMAIN keys : keys[i] = text})
    IN  Node("object", <<>>, texts, [n \in DOMAIN texts |-> items[last(texts[n])]])

-----------------------------------------------------------------------------
(* FiniteSerializer *)

Tagged(variant, value) == Node("map", <<>>, <<Text(variant)>>, <<value>>)

\* What the serializer makes of a node whose children are captured.
Captured(v, keys, items) ==
    CASE v.kind = "not finite"                       -> Refusal
      [] AnyRefused(keys) \/ AnyRefused(items)       -> Refusal
      [] v.kind \in {"some", "newtype"}              -> Over(v.kind, items)
      [] v.kind = "unit variant"                     -> Text(v.text)
      [] v.kind = "newtype variant"                  -> Tagged(v.text, items[1])
      [] v.kind = "sequence"                         -> Over("sequence", items)
      [] v.kind = "tuple variant"                    -> Tagged(v.text, Over("sequence", items))
      [] v.kind \in {"map", "struct"}                -> Node("map", <<>>, keys, items)
      [] v.kind = "struct variant"                   -> Tagged(v.text, Node("map", <<>>, keys, items))
      [] OTHER                                       -> v

\* The caller's serializer is asked once, for every part of the value.
RECURSIVE Capture(_)
Capture(v) ==
    Captured(v, [i \in DOMAIN v.keys |-> Capture(v.keys[i])],
                [i \in DOMAIN v.items |-> Capture(v.items[i])])

\* What serde_json takes for a key: a scalar with a text, also wrapped;
\* of an integer, however wide, its digits.
RECURSIVE KeyText(_)
KeyText(c) ==
    CASE c.kind \in {"string", "integer", "wide", "float"} -> Text(c.text)
      [] c.kind = "newtype"                                -> KeyText(c.items[1])
      [] OTHER                                             -> Refusal

\* FiniteValue::serialize, into serde_json.  A wide integer may not fit.
RECURSIVE Replay(_)
Replay(c) ==
    LET items == [i \in DOMAIN c.items |-> Replay(c.items[i])]
        keys  == [i \in DOMAIN c.keys |-> KeyText(c.keys[i])]
        texts == [i \in DOMAIN keys |-> keys[i].text]
    IN  CASE AnyRefused(items) \/ AnyRefused(keys) \/ c = Refusal -> Refusal
          [] c.kind = "wide"                  -> Refusal
          [] c.kind \in {"none", "unit"}      -> Scalar("null", <<>>)
          [] c.kind \in {"integer", "float"}  -> Scalar("number", c.text)
          [] c.kind \in {"some", "newtype"}   -> items[1]
          [] c.kind = "sequence"              -> Over("array", items)
          [] c.kind = "map"                   -> Object(texts, items)
          [] OTHER                            -> c

ToJson(value) == Replay(Capture(value))

-----------------------------------------------------------------------------
(* The line *)

\* A character as it is, with a backslash, or as one \uXXXX of UTF-16.
Raw(code)  == [form |-> "raw", code |-> code]
Short(code) == [form |-> "short", code |-> code]
Unit(code) == [form |-> "unit", code |-> code]

Quote     == 34
Backslash == 92
Comma     == 44
Colon     == 58
LineFeed  == 10
Brackets == [array |-> <<91, 93>>, object |-> <<123, 125>>]

Surrogates(code) ==
    LET rest == code - 65536
    IN  <<Unit(55296 + rest \div 1024), Unit(56320 + (rest % 1024))>>

WrittenCharacter(code) ==
    CASE code \in {Quote, Backslash} \/ code < 32 -> <<Short(code)>>
      [] code \in 32..127                         -> <<Raw(code)>>
      [] code \in 128..65535                      -> <<Unit(code)>>
      [] OTHER                                    -> Surrogates(code)

WriteString(text) ==
    <<Raw(Quote)>> \o FlattenSeq([i \in DOMAIN text |-> WrittenCharacter(text[i])]) \o <<Raw(Quote)>>

Joined(parts) ==
    FlattenSeq([i \in DOMAIN parts |-> (IF i > 1 THEN <<Raw(Comma)>> ELSE <<>>) \o parts[i]])

Enclosed(kind, parts) == <<Raw(Brackets[kind][1])>> \o Joined(parts) \o <<Raw(Brackets[kind][2])>>

\* The order in which an object's members are written: by unescaped key.
\* (The variant compares the keys as UTF-16, as they are written.)
OrderAsWritten(keys) ==
    LET units(text) == LET w == WriteString(text) IN [i \in DOMAIN w |-> w[i].code]
    IN  SetToSortSeq(DOMAIN keys, LAMBDA i, j : Precedes(units(keys[i]), units(keys[j])))

KeyOrder(keys) == SetToSortSeq(DOMAIN keys, LAMBDA i, j : Precedes(keys[i], keys[j]))

RECURSIVE WriteValue(_)
WriteValue(json) ==
    CASE json.kind = "null"   -> <<Raw(110)>>
      [] json.kind = "number" -> [i \in DOMAIN json.text |-> Raw(json.text[i])]
      [] json.kind = "string" -> WriteString(json.text)
      [] json.kind = "array"  -> Enclosed("array", [i \in DOMAIN json.items |-> WriteValue(json.items[i])])
      [] json.kind = "object" ->
            LET order == KeyOrder(json.keys)
                member(i) == WriteString(json.keys[i]) \o <<Raw(Colon)>> \o WriteValue(json.items[i])
            IN  Enclosed("object", [n \in DOMAIN order |-> member(order[n])])

\* The envelope's keys are of one letter here; the run and the revision are
\* there when the correlation has them, as sequences of at most one.
EventKey   == <<101>>
PayloadKey == <<112>>
RunKey     == <<114>>

Envelope(event, payload, run) ==
    Object(<<EventKey, PayloadKey>> \o [i \in DOMAIN run |-> RunKey],
           <<Text(event), payload>> \o [i \in DOMAIN run |-> Text(run[i])])

Line(event, payload, run) == WriteValue(Envelope(event, payload, run)) \o <<Raw(LineFeed)>>
-----------------------------------------------------------------------------
(* Reference: what serde_json makes of the value, and a reader of the line *)

HasText(key) == key.kind \in {"string", "unit variant", "integer", "wide", "float"}

\* Every number is finite and in range, and every key has a text.
RECURSIVE Convertible(_)
Convertible(v) ==
    /\ v.kind \notin {"not finite", "wide"}
    /\ \A i \in DOMAIN v.items : Convertible(v.items[i])
    /\ \A i \in DOMAIN v.keys : HasText(v.keys[i])

\* The externally tagged JSON of a convertible value.
RECURSIVE JsonOf(_)
JsonOf(v) ==
    LET items == [i \in DOMAIN v.items |-> JsonOf(v.items[i])]
        body  ==
            CASE v.kind \in {"some", "newtype", "newtype variant"}  -> items[1]
              [] v.kind \in {"sequence", "tuple variant"}           -> Over("array", items)
              [] v.kind \in {"map", "struct", "struct variant"}     ->
                    Object([i \in DOMAIN v.keys |-> v.keys[i].text], items)
              [] v.kind \in {"none", "unit"}                        -> Scalar("null", <<>>)
              [] v.kind \in {"integer", "float"}                    -> Scalar("number", v.text)
              [] v.kind \in {"string", "unit variant"}              -> Text(v.text)
    IN  IF v.kind \in {"newtype variant", "tuple variant", "struct variant"}
        THEN Object(<<v.text>>, <<body>>)
        ELSE body

\* A reader of one value of canonical JSON: [json, next], with next the place
\* after it and 0 where the text is none.
Read(json, next) == [json |-> json, next |-> next]
Unreadable       == Read(Refusal, 0)

IsRaw(s, at, code) == at \in DOMAIN s /\ s[at] = Raw(code)

ReadNumber(s, at) ==
    LET ends == {n \in at..Len(s) : \A i \in at..n : s[i].form = "raw" /\ s[i].code \in 48..57}
    IN  IF ends = {} THEN Unreadable
        ELSE Read(Scalar("number", [i \in 1..(Max(ends) + 1 - at) |-> s[at + i - 1].code]), Max(ends) + 1)

\* Two surrogates are one code point.
ReadString(s, at) ==
    LET ends == {n \in (at + 1)..Len(s) : s[n] = Raw(Quote)}
        High(u) == u.form = "unit" /\ u.code \in 55296..56319
        body == SubSeq(s, at + 1, Min(ends) - 1)
        starts == SelectSeq([i \in DOMAIN body |-> i], LAMBDA i : i = 1 \/ ~High(body[i - 1]))
        code(i) == IF High(body[i]) THEN (body[i].code - 55296) * 1024 + body[i + 1].code - 56320 + 65536
                   ELSE body[i].code
    IN  IF ends = {} THEN Unreadable
        ELSE Read(Text([n \in DOMAIN starts |-> code(starts[n])]), Min(ends) + 1)

RECURSIVE ReadValue(_, _), ReadItems(_, _), ReadMembers(_, _)
ReadValue(s, at) ==
    CASE IsRaw(s, at, 110)   -> Read(Scalar("null", <<>>), at + 1)
      [] IsRaw(s, at, Quote) -> ReadString(s, at)
      [] IsRaw(s, at, 91)    ->
            IF IsRaw(s, at + 1, 93) THEN Read(Over("array", <<>>), at + 2) ELSE ReadItems(s, at + 1)
      [] IsRaw(s, at, 123)   ->
            IF IsRaw(s, at + 1, 125) THEN Read(Object(<<>>, <<>>), at + 2) ELSE ReadMembers(s, at + 1)
      [] OTHER               -> ReadNumber(s, at)

\* The elements of an array, from one of them to the bracket.
ReadItems(s, at) ==
    LET one  == ReadValue(s, at)
        rest == ReadItems(s, one.next + 1)
    IN  CASE one.next = 0              -> Unreadable
          [] IsRaw(s, one.next, 93)    -> Read(Over("array", <<one.json>>), one.next + 1)
          [] IsRaw(s, one.next, Comma) -> Read(Over("array", <<one.json>> \o rest.json.items), rest.next)
          [] OTHER                     -> Unreadable

\* The members of an object; their keys must ascend.
ReadMembers(s, at) ==
    LET key   == ReadString(s, at)
        value == ReadValue(s, key.next + 1)
        rest  == ReadMembers(s, value.next + 1)
        one   == Node("object", <<>>, <<key.json.text>>, <<value.json>>)
    IN  CASE ~IsRaw(s, at, Quote) \/ ~IsRaw(s, key.next, Colon) -> Unreadable
          [] IsRaw(s, value.next, 125)   -> Read(one, value.next + 1)
          [] IsRaw(s, value.next, Comma) ->
                IF rest.next # 0 /\ Precedes(one.keys[1], rest.json.keys[1])
                THEN Read(Node("object", <<>>, one.keys \o rest.json.keys, one.items \o rest.json.items),
                          rest.next)
                ELSE Unreadable
          [] OTHER                       -> Unreadable

\* What is read back from a line of the file: one value and its line feed.
ReadLine(s) ==
    LET read == ReadValue(s, 1)
    IN  IF read.next = Len(s) /\ IsRaw(s, Len(s), LineFeed) THEN read.json ELSE Refusal
=============================================================================

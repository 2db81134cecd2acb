--------------------------------- MODULE Bson ---------------------------------
(***************************************************************************)
(* The values that cross the border between the script and a native module *)
(* (native/sdk .. jqmisc.cpp, jqbson.cpp): a script value becomes a Bson,  *)
(* a Bson may become JSON text, and the text is read back.                 *)
(*                                                                         *)
(* A value is a function from places to nodes: a place is the steps that   *)
(* lead to it, the whole is at <<>>, and the node of an array or object    *)
(* tells how many items or which keys are below.  So what is done to every *)
(* node in turn needs no recursion.                                        *)
(*                                                                         *)
(* A text is a sequence of tokens without the white space.  A number is a  *)
(* count of halves, so that whole numbers and others are told apart.  A    *)
(* string is a sequence of kinds of characters; in a text each stands there*)
(* itself or as a \u escape, one outside the basic plane, "astral", as two.*)
(* Another writer may escape more than this one, and on its way a text may *)
(* lose, gain or change a token.                                           *)
(***************************************************************************)
EXTENDS Integers, Sequences, SequencesExt, FiniteSets

CONSTANTS
    ScriptValues,  \* the values that the script hands over
    MaxDepth,      \* max_depth
    MaxFaults      \* bound: changes to a text

ASSUME BsonAssumption == MaxDepth \in Nat /\ MaxFaults \in Nat

VARIABLES
    value,     \* the script's
    strategy,  \* how its text is read: "STANDARD" or "COMMENTS"
    text,      \* its text, <<>> before there is one
    faults     \* changes to the text

codec == <<value, strategy, text, faults>>

-----------------------------------------------------------------------------
\* Steps, and the ones below a node.
Item(i) == [item |-> i]
Field(k) == [field |-> k]

Steps(node) ==
    IF "size" \in DOMAIN node THEN {Item(i) : i \in 1..node.size}
    ELSE IF "keys" \in DOMAIN node THEN {Field(k) : k \in node.keys}
    ELSE {}

\* A value of a node, and of the values behind the steps below it.
Below(parts) == UNION {{<<s>> \o p : p \in DOMAIN parts[s]} : s \in DOMAIN parts}

Built(node, parts) ==
    [p \in {<<>>} \cup Below(parts) |-> IF p = <<>> THEN node ELSE parts[Head(p)][Tail(p)]]

Leaf(node) == [p \in {<<>>} |-> node]

Items(items) == [s \in {Item(i) : i \in DOMAIN items} |-> items[s.item]]
Fields(fields) == [s \in {Field(k) : k \in DOMAIN fields} |-> fields[s.field]]

\* The nodes of the script and of a Bson, and tokens.
Js(t) == [js |-> t]
JsNumber(h) == [js |-> "number", halves |-> h]
JsString(s) == [js |-> "string", str |-> s]
JsArray(n) == [js |-> "array", size |-> n]
JsObject(keys) == [js |-> "object", keys |-> keys]

Nul == [type |-> "NUL"]
Bool(b) == [type |-> "BOOL", bool |-> b]
Integer(h) == [type |-> "INT", halves |-> h]
Double(h) == [type |-> "DOUBLE", halves |-> h]
NotFinite == [type |-> "DOUBLE"]
String(s) == [type |-> "STRING", str |-> s]
Array(n) == [type |-> "ARRAY", size |-> n]
Object(keys) == [type |-> "OBJECT", keys |-> keys]
Binary == [type |-> "BINARY"]

Punct(p) == [punct |-> p]
Word(w) == [word |-> w]
Num(h) == [num |-> h]
Str(chars) == [str |-> chars]

Whole(h) == h % 2 = 0

\* The kinds of characters, "nul" is U+0000; a half of a pair is none.
Runes == STRING \ {"lead", "trail", "none"}

\* What the script may hand over.
IsNode(n) ==
    \/ n.js = "number" /\ n = JsNumber(n.halves) /\ n.halves \in Int
    \/ n.js = "string" /\ n = JsString(n.str)
    \/ n.js = "array" /\ n = JsArray(n.size) /\ n.size \in Nat
    \/ n.js = "object" /\ n = JsObject(n.keys) /\ IsFiniteSet(n.keys)
    \/ /\ n.js \in {"undefined", "null", "symbol", "NaN", "true", "false", "buffer",
                     "function"}
       /\ n = Js(n.js)

IsValue(v) ==
    /\ <<>> \in DOMAIN v
    /\ DOMAIN v \subseteq Seq([item : Nat] \cup [field : Seq(Runes)])
    /\ \E n \in {Len(p) : p \in DOMAIN v} : \A p \in DOMAIN v : Len(p) <= n
    /\ \A p \in DOMAIN v :
         /\ IsNode(v[p])
         /\ v[p].js = "string" => v[p].str \in Seq(Runes)
         /\ v[p].js = "object" => v[p].keys \subseteq Seq(Runes)
         /\ \A s \in Steps(v[p]) : Append(p, s) \in DOMAIN v
         /\ \A n \in 1..Len(p) : LET above == SubSeq(p, 1, n - 1)
                                IN above \in DOMAIN v /\ p[n] \in Steps(v[above])

ASSUME ValuesAssumption == \A v \in ScriptValues : IsValue(v)

-----------------------------------------------------------------------------
\* What c_str() and a const char* leave of a string: it ends before U+0000.
UpToNul(s) ==
    LET n == CHOOSE n \in 0..Len(s) :
                 /\ \A m \in 1..n : s[m] # "nul"
                 /\ n < Len(s) => s[n + 1] = "nul"
    IN SubSeq(s, 1, n)

CutStep(s) == IF "field" \in DOMAIN s THEN Field(UpToNul(s.field)) ELSE s
CutPlace(p) == [n \in DOMAIN p |-> CutStep(p[n])]

\* Of the keys that are the same up to U+0000 one overrides the others; the
\* model does not have their order, and any may be the one.
Overriding(keys, k) == CHOOSE x \in keys : UpToNul(x) = UpToNul(k)

Overrides(v, p) ==
    \A n \in DOMAIN p :
        LET above == v[SubSeq(p, 1, n - 1)]
        IN above.js = "object" => p[n].field = Overriding(above.keys, p[n].field)

\* A value of the script when every key on the way is a C string.
KeysCut(v) ==
    LET kept == {p \in DOMAIN v : Overrides(v, p)}
        Cut(n) == IF n.js = "object" THEN JsObject({UpToNul(k) : k \in n.keys}) ELSE n
    IN [q \in {CutPlace(p) : p \in kept} |-> Cut(v[CHOOSE p \in kept : CutPlace(p) = q])]

\* _serializeJson: a function has no enumerable properties, and an integer of
\* the engine is one that fits its tag.
BsonNode(n) ==
    CASE n.js = "number" -> IF Whole(n.halves) THEN Integer(n.halves) ELSE Double(n.halves)
      [] n.js = "NaN" -> NotFinite
      [] n.js \in {"undefined", "null", "symbol"} -> Nul
      [] n.js \in {"true", "false"} -> Bool(n.js = "true")
      [] n.js = "string" -> String(n.str)
      [] n.js = "buffer" -> Binary
      [] n.js = "array" -> Array(n.size)
      [] n.js = "object" -> Object(n.keys)
      [] n.js = "function" -> Object({})

ToBson(v) == LET c == KeysCut(v) IN [p \in DOMAIN c |-> BsonNode(c[p])]

\* _deserializeJson.
ScriptNode(n) ==
    CASE n.type = "NUL" -> Js("null")
      [] n = NotFinite -> Js("NaN")
      [] n.type \in {"INT", "DOUBLE"} /\ n # NotFinite -> JsNumber(n.halves)
      [] n.type = "BOOL" -> Js(IF n.bool THEN "true" ELSE "false")
      [] n.type = "STRING" -> JsString(UpToNul(n.str))
      [] n.type = "ARRAY" -> JsArray(n.size)
      [] n.type = "OBJECT" -> JsObject(n.keys)
      [] n.type = "BINARY" -> Js("buffer")

ToScript(b) == KeysCut([p \in DOMAIN b |-> ScriptNode(b[p])])

-----------------------------------------------------------------------------
\* dump.  A list of texts with commas between them.
Commas(texts) ==
    LET from[i \in DOMAIN texts] ==
            IF i = Len(texts) THEN texts[i]
            ELSE texts[i] \o <<Punct("comma")>> \o from[i + 1]
    IN IF texts = <<>> THEN <<>> ELSE from[1]

\* Control characters and the line separators are written as escapes.
Spelt(s) ==
    Str([i \in DOMAIN s |->
            [char |-> s[i], escaped |-> s[i] \in {"nul", "control", "separator"}]])

\* One token.
Plain(n) ==
    CASE n \in {Nul, NotFinite, Binary} -> Word("null")
      [] n.type = "BOOL" -> Word(IF n.bool THEN "true" ELSE "false")
      [] n.type \in {"INT", "DOUBLE"} /\ n # NotFinite -> Num(n.halves)
      [] n.type = "STRING" -> Spelt(n.str)

DumpNode(b, texts, p) ==
    LET Member(k) == <<Spelt(k), Punct("colon")>> \o texts[Append(p, Field(k))]
        keys == SetToSeq(b[p].keys)
    IN IF b[p].type = "ARRAY"
         THEN <<Punct("bracket")>> \o Commas([i \in 1..b[p].size |-> texts[Append(p, Item(i))]])
                \o <<Punct("endbracket")>>
       ELSE IF b[p].type = "OBJECT"
         THEN <<Punct("brace")>> \o Commas([i \in DOMAIN keys |-> Member(keys[i])])
                \o <<Punct("endbrace")>>
       ELSE <<Plain(b[p])>>

Dump(b) ==
    LET texts[p \in DOMAIN b] == DumpNode(b, texts, p)
    IN texts[<<>>]

-----------------------------------------------------------------------------
\* The parser: what has been read, and where the next token is.
Failed == [ok |-> FALSE]
Got(v, next) == [ok |-> TRUE, value |-> v, next |-> next]

At(i, p) == i <= Len(text) /\ text[i] = Punct(p)

\* consume_garbage: the first token from i that is no comment.
Garbage(i) == strategy = "COMMENTS" /\ text[i] = Word("comment")

Skip(i) ==
    CHOOSE j \in i..(Len(text) + 1) :
        /\ j <= Len(text) => ~Garbage(j)
        /\ \A k \in i..(j - 1) : Garbage(k)

\* parse_number: an int if it has no fraction and at most digits10 characters,
\* the sign among them.
Characters(n) ==
    LET size == IF n < 0 THEN -n ELSE n
    IN (IF n < 0 THEN 1 ELSE 0)
         + (IF size = 0 THEN 1 ELSE Cardinality({p \in 0..9 : 10^p <= size}))

ParseNumber(h) ==
    IF Whole(h) /\ Characters(h \div 2) <= 9 THEN Integer(h) ELSE Double(h)

\* parse_string: an escape waits for the next one, with which it may be a pair.
Waiting(c) == IF c = "none" THEN <<>> ELSE <<c>>

ReadRaw(r, c) == [out |-> r.out \o Waiting(r.last) \o <<c>>, last |-> "none"]

\* The fault: a first half of a pair does not wait.
ReadAtOnce(r, c) == [out |-> Append(r.out, c), last |-> "none"]

ReadEscape(r, c) ==
    IF r.last = "lead" /\ c = "trail" THEN [out |-> Append(r.out, "astral"), last |-> "none"]
    ELSE [out |-> r.out \o Waiting(r.last), last |-> c]

ReadChar(r, t) ==
    IF ~t.escaped THEN ReadRaw(r, t.char)
    ELSE IF t.char = "astral" THEN ReadEscape(ReadEscape(r, "lead"), "trail")
    ELSE ReadEscape(r, t.char)

ParseString(chars) ==
    LET after[i \in 0..Len(chars)] ==
            IF i = 0 THEN [out |-> <<>>, last |-> "none"] ELSE ReadChar(after[i - 1], chars[i])
        r == after[Len(chars)]
    IN r.out \o Waiting(r.last)

\* The values of a single token.
Scalar(t) ==
    IF "num" \in DOMAIN t THEN {Leaf(ParseNumber(t.num))}
    ELSE IF "str" \in DOMAIN t THEN {Leaf(String(ParseString(t.str)))}
    ELSE IF t = Word("null") THEN {Leaf(Nul)}
    ELSE IF t \in {Word("true"), Word("false")} THEN {Leaf(Bool(t = Word("true")))}
    ELSE {}

TooDeep(depth) == depth > MaxDepth

\* parse_json, with its loops over items and over members.  A call is for what
\* begins at a token and a depth, and `read' is what the calls behind it yield.
ParseJson(read, i0, depth) ==
    LET i == Skip(i0)
        inside == Skip(i + 1)
        items == read[<<"items", i + 1, depth>>]
        members == read[<<"members", i + 1, depth>>]
    IN IF TooDeep(depth) \/ i > Len(text) THEN Failed
       ELSE IF At(i, "bracket") THEN
              IF At(inside, "endbracket") THEN Got(Leaf(Array(0)), inside + 1)
              ELSE IF items.ok
                THEN Got(Built(Array(Len(items.value)), Items(items.value)), items.next)
              ELSE Failed
       ELSE IF At(i, "brace") THEN
              IF At(inside, "endbrace") THEN Got(Leaf(Object({})), inside + 1)
              ELSE IF members.ok
                THEN Got(Built(Object(DOMAIN members.value), Fields(members.value)),
                         members.next)
              ELSE Failed
       ELSE IF Scalar(text[i]) = {} THEN Failed
       ELSE Got(CHOOSE v \in Scalar(text[i]) : TRUE, i + 1)

ParseItems(read, i, depth) ==
    LET item == read[<<"value", i, depth + 1>>]
        after == Skip(item.next)
        rest == read[<<"items", after + 1, depth>>]
    IN IF ~item.ok THEN Failed
       ELSE IF At(after, "endbracket") THEN Got(<<item.value>>, after + 1)
       ELSE IF At(after, "comma") /\ rest.ok THEN Got(<<item.value>> \o rest.value, rest.next)
       ELSE Failed

\* data[key] = .. : the last of several members with the same key counts.
Sole(k, v) == [x \in {k} |-> v]

WithFirst(k, v, members) ==
    [x \in {k} \cup DOMAIN members |-> IF x \in DOMAIN members THEN members[x] ELSE v]

ParseMembers(read, i, depth) ==
    LET key == Skip(i)
        colon == Skip(key + 1)
        item == read[<<"value", colon + 1, depth + 1>>]
        name == ParseString(text[key].str)
        after == Skip(item.next)
        rest == read[<<"members", after + 1, depth>>]
    IN IF key > Len(text) \/ "str" \notin DOMAIN text[key] \/ ~At(colon, "colon") \/ ~item.ok
         THEN Failed
       ELSE IF At(after, "endbrace") THEN Got(Sole(name, item.value), after + 1)
       ELSE IF At(after, "comma") /\ rest.ok
         THEN Got(WithFirst(name, item.value, rest.value), rest.next)
       ELSE Failed

Calls == {"value", "items", "members"} \X (1..(Len(text) + 1)) \X Nat

Yields(read, x) ==
    CASE x[1] = "value" -> ParseJson(read, x[2], x[3])
      [] x[1] = "items" -> ParseItems(read, x[2], x[3])
      [] x[1] = "members" -> ParseMembers(read, x[2], x[3])

\* Bson::parse: nothing may follow the value.
Parse ==
    LET read[x \in Calls] == Yields(read, x)
        r == read[<<"value", 1, 0>>]
    IN IF r.ok /\ Skip(r.next) > Len(text) THEN {r.value} ELSE {}

-----------------------------------------------------------------------------
CodecInit ==
    /\ value \in ScriptValues
    /\ strategy \in {"STANDARD", "COMMENTS"}
    /\ text = <<>> /\ faults = 0

Write ==
    /\ text = <<>> /\ faults = 0
    /\ text' = Dump(ToBson(value))
    /\ UNCHANGED <<value, strategy, faults>>

Tokens ==
    {Punct(p) : p \in {"bracket", "endbracket", "brace", "endbrace", "comma", "colon"}}
        \cup {Word("comment"), Num(2), Str(<<>>)}

\* Another writer escapes a character that this one does not.
Respell ==
    \E i \in DOMAIN text :
        /\ "str" \in DOMAIN text[i]
        /\ \E j \in DOMAIN text[i].str :
             /\ ~text[i].str[j].escaped
             /\ text' = [text EXCEPT ![i] = Str([@.str EXCEPT ![j].escaped = TRUE])]
        /\ UNCHANGED <<value, strategy, faults>>

\* The text loses, gets or changes a token.
Spoil ==
    /\ text # <<>> /\ faults < MaxFaults
    /\ faults' = faults + 1
    /\ \/ \E i \in DOMAIN text : text' = RemoveAt(text, i)
       \/ \E i \in DOMAIN text, t \in Tokens : text' = ReplaceAt(text, i, t)
       \/ \E i \in 1..(Len(text) + 1), t \in Tokens : text' = InsertAt(text, i, t)
    /\ UNCHANGED <<value, strategy>>

CodecNext == Write \/ Respell \/ Spoil

-----------------------------------------------------------------------------
\* The grammar of JSON: what the tokens from i to j mean as a value, as the
\* items of an array and as the members of an object.
Blank(i, j) == \A k \in i..j : Garbage(k)

Spelling(chars) == [i \in DOMAIN chars |-> chars[i].char]

Meant(t) == IF "str" \in DOMAIN t THEN {Leaf(String(Spelling(t.str)))} ELSE Scalar(t)

\* Members with the same key are one, with the last value.
Merged(members) ==
    LET With(k) == {i \in DOMAIN members : members[i].key = k}
    IN [k \in {members[i].key : i \in DOMAIN members} |->
            members[CHOOSE i \in With(k) : \A j \in With(k) : j <= i].value]

ArraysOf(lists) == {Built(Array(Len(l)), Items(l)) : l \in lists}
ObjectsOf(lists) == {Built(Object(DOMAIN Merged(l)), Fields(Merged(l))) : l \in lists}
NoneIf(blank) == IF blank THEN {<<>>} ELSE {}

\* value: a token, or [ items ], or { members }.
Bare(means, i, j, depth) ==
    IF i = j THEN Meant(text[i])
    ELSE IF text[i] = Punct("bracket") /\ text[j] = Punct("endbracket")
      THEN ArraysOf(NoneIf(Blank(i + 1, j - 1)) \cup means[<<"items", i + 1, j - 1, depth>>])
    ELSE IF text[i] = Punct("brace") /\ text[j] = Punct("endbrace")
      THEN ObjectsOf(NoneIf(Blank(i + 1, j - 1)) \cup means[<<"members", i + 1, j - 1, depth>>])
    ELSE {}

Spaced(means, i, j, depth) ==
    UNION {Bare(means, a, b, depth) : a \in {a \in i..j : Blank(i, a - 1)},
                                      b \in {b \in i..j : Blank(b + 1, j)}}

\* items: value, and after a comma more items.
ItemLists(means, i, j, depth) ==
    {<<v>> : v \in means[<<"value", i, j, depth + 1>>]}
        \cup UNION {{<<v>> \o l : v \in means[<<"value", i, c - 1, depth + 1>>],
                                  l \in means[<<"items", c + 1, j, depth>>]} :
                       c \in {c \in i..j : text[c] = Punct("comma")}}

\* member: string : value.
Members(means, i, j, depth) ==
    UNION {{[key |-> Spelling(text[x[1]].str), value |-> v] :
               v \in means[<<"value", x[2] + 1, j, depth + 1>>]} :
             x \in {x \in (i..j) \X (i..j) :
                      /\ x[1] < x[2] /\ Blank(i, x[1] - 1) /\ Blank(x[1] + 1, x[2] - 1)
                      /\ "str" \in DOMAIN text[x[1]] /\ text[x[2]] = Punct("colon")}}

\* members: member, and after a comma more members.
MemberLists(means, i, j, depth) ==
    {<<m>> : m \in Members(means, i, j, depth)}
        \cup UNION {{<<m>> \o l : m \in Members(means, i, c - 1, depth),
                                  l \in means[<<"members", c + 1, j, depth>>]} :
                       c \in {c \in i..j : text[c] = Punct("comma")}}

Spans ==
    {"value", "items", "members"} \X (1..(Len(text) + 1)) \X (0..Len(text)) \X Nat

Derived(means, x) ==
    CASE x[1] = "value" ->
           IF TooDeep(x[4]) THEN {} ELSE Spaced(means, x[2], x[3], x[4])
      [] x[1] = "items" -> ItemLists(means, x[2], x[3], x[4])
      [] x[1] = "members" -> MemberLists(means, x[2], x[3], x[4])

Meaning ==
    LET means[x \in Spans] == Derived(means, x)
    IN means[<<"value", 1, Len(text), 0>>]

\* What the way there and back leaves of a script value: numbers that are none,
\* buffers, undefined and symbols are null in JSON, a function is an empty
\* object, and strings and keys end before U+0000.
RemainingNode(n) ==
    CASE n.js \in {"undefined", "null", "symbol", "NaN", "buffer"} -> Js("null")
      [] n.js = "function" -> JsObject({})
      [] n.js = "string" -> JsString(UpToNul(n.str))
      [] n.js \in {"number", "true", "false", "array", "object"} -> n

Remains(v) == LET c == KeysCut(v) IN [p \in DOMAIN c |-> RemainingNode(c[p])]

Shallow(v) == \A p \in DOMAIN v : Len(p) <= MaxDepth

\* A text is read as the value that it means and, if it means none, not at all;
\* and a value that has been written and read, unless it is nested too deep, is
\* the same one to the script as far as JSON can tell and, of its strings and
\* keys, up to U+0000: the text keeps that character, c_str() does not.
TextKeepsValue ==
    text # <<>> =>
        /\ Parse = Meaning
        /\ faults = 0 /\ Shallow(value) => {ToScript(b) : b \in Parse} = {Remains(value)}
=============================================================================

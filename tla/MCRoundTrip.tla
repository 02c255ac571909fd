---------------------------- MODULE MCRoundTrip -----------------------------
(***************************************************************************)
(* Tests for TLC: small states with ids at some keys, and the transformers *)
(* that a test may register for them.                                      *)
(***************************************************************************)
EXTENDS RoundTrip

CONSTANTS
    \* symbols: names of fields, ids, words, a timestamp
    k, a, b, meta, headers, type, status, id, other, word, stamp

\* In the order of their ranks.
Order == <<Blank, Quote, ",">> \o DigitOf \o <<":", "<", ">", "[", Backslash, "]", a, b, "false",
           headers, id, k, meta, "null", other, stamp, status, "true", type, word, "{", "}">>

MCSymbol == Range(Order)
MCRank == [s \in MCSymbol |-> CHOOSE n \in DOMAIN Order : Order[n] = s]

MCName == {<<s>> : s \in {k, a, b, id, other, meta, headers, type, status}} \cup {<<a, id>>}
MCAsIndex == [n \in Name |-> NotANumber]
MCMeta == <<meta>>
MCHeaders == <<headers>>
MCType == <<type>>
MCStatus == <<status>>

String(s) == Leaf(Str(<<s>>))
Map1(n, d) == MapOf([m \in {<<n>>} |-> d])
Map2(d, e) == MapOf([m \in {<<a>>, <<b>>} |-> IF m = <<a>> THEN d ELSE e])
State(d) == Map1(k, d)

\* JSON texts, also with a blank in front, and one in another one.
Field(n, text) == <<Quote, n, Quote, ":">> \o text
ObjectText == <<"{">> \o Field(a, <<Quote, id, Quote>>) \o <<"}">>
ListText == <<"[", Quote, id, Quote, ",", "{">> \o Field(a, <<Quote, other, Quote>>) \o <<"}", "]">>
NestedText ==
    <<"{">> \o Field(a, Token(Str(ListText))) \o <<",">> \o Field(b, Token(Str(ObjectText))) \o <<"}">>
Blanked(text) == <<Blank>> \o text

MCContent ==
    [t \in {ObjectText, Blanked(ObjectText), ListText, NestedText, Blanked(NestedText)} |->
        Decoded[t].doc]
MCFixed == [t \in {<<stamp>>} |-> <<"5", stamp>>]

\* The texts of the scalars of all states.
MCTexts ==
    {<<>>} \cup DOMAIN MCContent
    \cup {<<s>> : s \in {a, id, other, word, stamp, Quote, "1", "2", "5", ",", "null"}}
    \cup {<<word, id>>, <<Quote, id>>, <<Backslash, id>>, <<word, Backslash, id>>, <<id, other>>}
MCNode == {Str(t) : t \in MCTexts} \cup {Number(<<"5">>), Null, LiteralValue("true")}

\* Transformers.
Reference(key, scope) == KeyValue(MatchKey(<<key>>), <<>>, <<word>>, scope, TRUE)
InPlace(key) == KeyValue(MatchKey(<<key>>), <<>>, <<word>>, k, FALSE)
PartOf(key, s) ==
    KeyValue({<<<<key>>, Str(t)>> : t \in {u \in MCTexts : Occurs(<<s>>, u)}}, <<s>>, <<word>>, k, FALSE)
JSONPath(tokens, reference) ==
    [kind |-> "jsonpath", path |-> tokens, with |-> <<word>>, scope |-> a, reference |-> reference]
Pattern(patterns, with) ==
    [kind |-> "pattern", patterns |-> patterns, with |-> with, complete |-> TRUE]
Generic(pattern, scope) == [kind |-> "generic", pattern |-> pattern, scope |-> scope]
Sorting(key, by) == [kind |-> "sorting", key |-> <<key>>, by |-> by]
JSONString(key) == [kind |-> "jsonstring", key |-> <<key>>]
Timestamp == [kind |-> "timestamp"]
Metadata == [kind |-> "metadata"]

Registered(ts) == [i \in DOMAIN ts |-> [transformer |-> ts[i], priority |-> 0]]
Setup(first, second, ts, skip) ==
    [first |-> first, second |-> second, transformers |-> Registered(ts), skip |-> skip]

PathTo(s) == <<Root, Dots, Word(<<s>>)>>
FirstOf(s) == <<Root, Dots, Word(<<s>>), BracketIndex(0)>>

-----------------------------------------------------------------------------
(* Ids, in all places, the same or not. *)

IdStates ==
    LET v == {String(id), String(other), String(word)}
    IN  {State(Map2(x, ListOf(<<y, Map1(a, z)>>))) : x \in v, y \in v, z \in v}

IdSetups ==
    {Setup(x, y, <<Reference(a, a)>>, {}) : x \in IdStates, y \in IdStates}
    \cup {Setup(x, y, <<JSONPath(PathTo(a), TRUE), JSONPath(FirstOf(b), TRUE)>>, {FirstOf(b)}) :
             x \in IdStates, y \in IdStates}

\* Values that hold characters to escape, that are parts of others, or no strings.
AwkwardStates ==
    LET v == {Leaf(Str(<<Quote, id>>)), Leaf(Str(<<word, id>>)), String(Quote), Leaf(Null),
              Leaf(Number(<<"5">>)), String("5"), Leaf(Str(<<Backslash, id>>)), ListOf(<<>>)}
    IN  {State(Map2(x, MapOf([n \in {<<a>>, <<a, id>>} |-> IF n = <<a>> THEN y ELSE String(id)]))) :
            x \in v, y \in v}

AwkwardSetups ==
    {Setup(x, x, ts, {}) :
        x \in AwkwardStates,
        ts \in {<<Reference(a, a)>>, <<Reference(id, a), Reference(a, a)>>,
                <<Generic(<<id>>, a), Reference(a, a), Generic(<<word>>, a)>>,
                <<JSONPath(<<Root, Dots, Star>>, FALSE)>>,
                <<JSONPath(<<Root, Dots>>, FALSE)>>,
                <<PartOf(a, id), Pattern({<<"5">>, <<word, word>>}, <<word>>)>>,
                <<KeyValue(ReplaceValueMatch({<<word, id>>}), <<>>, <<id>>, k, FALSE),
                  KeyValue(SkipKeyMatch({<<b>>}), <<>>, <<id>>, k, FALSE)>>}}

\* Lists in any order.
SortStates ==
    LET items == {String(id), Leaf(Null), Map2(String(id), String(word)),
                  Map1(a, String(other)), Map1(b, ListOf(<<String(word), String(id)>>))}
    IN  {State(Map1(b, ListOf(<<x, y, z>>))) : x \in items, y \in items, z \in items}

Orders(state) ==
    LET q == <<KeyElem(<<k>>), KeyElem(<<b>>)>>
    IN  {Permuted(state, q, order) : order \in {<<2, 1, 3>>, <<3, 1, 2>>}}

SortSetups ==
    UNION {{Setup(x, y, ts, {}) : y \in Orders(x),
                ts \in {<<Sorting(b, {})>>, <<Sorting(b, {}), Reference(a, a)>>,
                        <<Sorting(b, {<<a>>})>>, <<Sorting(a, {})>>}} : x \in SortStates}

\* JSON texts, timestamps and metadata.
MetadataState(x, y) ==
    State(MapOf([n \in {<<meta>>, <<a>>} |->
            IF n = <<a>> THEN x
            ELSE MapOf([m \in {<<headers>>, <<status>>, <<id>>} |->
                    IF m = <<headers>> THEN MapOf([p \in {<<type>>, <<id>>} |-> y])
                    ELSE IF m = <<status>> THEN Leaf(Number(<<"5">>)) ELSE x])]))

ParseSetups ==
    LET v == {String(stamp), Leaf(Str(ObjectText)), Leaf(Str(ListText)),
              Leaf(Str(Blanked(ObjectText))), String(id), Leaf(Null), Leaf(Str(<<>>))}
        w == {Leaf(Str(ObjectText)), String(id), String(word), String(stamp)}
    IN  {Setup(MetadataState(x, y), MetadataState(z, y), ts, {}) :
            x \in v, y \in v, z \in w,
            ts \in {<<Metadata, Timestamp, Reference(a, a)>>,
                    <<JSONString(a), Timestamp, Reference(a, a)>>}}

\* Ids in the keys of a map.
KeySetups ==
    {Setup(s, s, <<JSONPath(<<Root, Dot, Word(<<k>>), Dot, Star>>, TRUE)>>, {}) :
        s \in {State(MapOf([n \in {<<id>>, <<other>>} |-> IF n = <<id>> THEN x ELSE y])) :
                 x \in {String(id), String(other)}, y \in {String(id), String(other)}}}

\* An id that is a part of another one.
OverlapSetups ==
    LET v == {String(id), Leaf(Str(<<id, other>>)), String(other)}
    IN  {Setup(s, s, <<Reference(a, a)>>, {}) :
            s \in {State(Map2(x, Map1(a, y))) : x \in v, y \in v}}

\* An id with a backslash.
BackslashSetups ==
    LET v == {String(id), Leaf(Str(<<word, Backslash, id>>))}
    IN  {Setup(s, s, <<Reference(a, a)>>, {}) :
            s \in {State(Map2(x, Map1(a, y))) : x \in v, y \in v}}

\* A key in a list of lists.
ListSetups ==
    LET v == {Map1(a, String(id)), ListOf(<<Map1(a, String(id))>>), Map1(b, String(id))}
    IN  {Setup(s, s, <<InPlace(a)>>, {}) :
            s \in {State(Map1(b, ListOf(<<x, y>>))) : x \in v, y \in v}}

\* A JSON text in a JSON text.
NestedSetups ==
    LET v == {String(id)} \cup {Leaf(Str(t)) : t \in DOMAIN MCContent \ {Blanked(ObjectText)}}
    IN  {Setup(s, s, <<JSONString(a)>>, {}) : s \in {State(Map2(x, y)) : x \in v, y \in v}}

\* The first of two ids is skipped.
SkipIdSetups ==
    {Setup(State(x), State(y), <<Reference(a, a)>>, {<<Word(<<k>>), Dot, Word(<<a>>)>>}) :
        x \in {Map2(String(id), Map1(a, String(u))) : u \in {word, other}},
        y \in {Map2(v, Map1(a, String(u))) : v \in {String(id), Leaf(Null)}, u \in {word, other}}}

\* Ids that occur in placeholders: in their numbers and in their scope, which is a.
DigitSetups ==
    LET v == {String(id), String("1"), String("2"), String(a)}
        states == {State(Map2(x, Map1(a, y))) : x \in v, y \in v}
    IN  {Setup(x, y, <<Reference(a, a)>>, {}) : x \in states, y \in states}

\* Ids that are marks of JSON, with a literal beside them.
MarkSetups ==
    LET v == {String(id), String(","), String("null"), Leaf(LiteralValue("true")), Leaf(Null)}
    IN  {Setup(s, s, <<Reference(a, a)>>, {}) :
            s \in {State(Map1(a, x)) : x \in v} \cup {State(Map2(x, Map1(a, y))) : x \in v, y \in v}}

\* A skip path that does not parse, beside one that does.
InvalidSetups ==
    {Setup(State(x), State(x), ts, skip) :
        x \in {Map1(a, String(id)), Map1(b, Leaf(Null))},
        ts \in {<<Reference(a, a)>>, <<Reference(b, a)>>, <<JSONPath(PathTo(b), TRUE)>>},
        skip \in {{<<Root, Dots>>}, {<<Root, Dots>>, PathTo(a)}, {PathTo(a)}}}

MCSetups ==
    IdSetups \cup KeySetups \cup AwkwardSetups \cup SortSetups \cup ParseSetups
    \cup OverlapSetups \cup BackslashSetups \cup ListSetups \cup NestedSetups \cup SkipIdSetups
    \cup DigitSetups \cup MarkSetups \cup InvalidSetups

-----------------------------------------------------------------------------
(* Skip paths through what is replaced. *)

\* The skipped field is the key of another one's value.
SkipSetups ==
    LET x(v) == State(MapOf([n \in {<<a>>, <<id>>} |-> IF n = <<a>> THEN String(id) ELSE String(v)]))
    IN  {Setup(x(v), x(v), <<Reference(a, a)>>, {PathTo(id)}) : v \in {word, other}}
=============================================================================

----------------------------- MODULE MCNormalize ----------------------------
(***************************************************************************)
(* Values for TLC: all the ways in which three values may refer to each    *)
(* other, and structs with the fields that encoding/json treats specially. *)
(* The interfaces between the items of a list of any and what they hold    *)
(* are left out, as following them changes nothing.                        *)
(***************************************************************************)
EXTENDS Normalize

CONSTANTS a, b, c, text, empty, body

MCName == {a, b, c}
MCAsIndex == [n \in MCName |-> NotANumber]
MCNode == {text, empty, body, Null, Recursion, MaxDepthExceeded, Drained}

Nothing == Leaf(Null)
Value(kind, address, elems) ==
    [kind |-> kind, isNil |-> FALSE, address |-> address, content |-> Nothing,
     isZero |-> FALSE, elems |-> elems]

LeafOf(node) == [Value("leaf", Null, <<>>) EXCEPT !.content = Leaf(node), !.isZero = node = empty]
Reader == [Value("reader", Null, <<>>) EXCEPT !.content = Leaf(body)]
Own == [Value("own", Null, <<>>) EXCEPT !.content = MapOf([n \in {a} |-> Leaf(text)])]
DeepOwn == [Own EXCEPT !.content = MapOf([n \in {a} |-> Own.content])]
Nil == [Value("pointer", Null, <<>>) EXCEPT !.isNil = TRUE]
Pointer(x) == Value("pointer", <<"value", x>>, <<x>>)
Interface(x) == Value("interface", Null, <<x>>)
Slice(v, items) == Value("slice", <<"items", v>>, items)
Array(items) == Value("array", Null, items)
Entry(n, x) == [name |-> n, value |-> x]
Map(v, entries) == Value("map", <<"entries", v>>, entries)
Struct(fields) == Value("struct", Null, fields)
Field(n, x) ==
    [name |-> n, tag |-> NoTag, omitempty |-> FALSE, exported |-> TRUE, embedded |-> FALSE,
     value |-> x]
Optional(n, x) == [Field(n, x) EXCEPT !.omitempty = TRUE]
Tagged(n, tag, x) == [Field(n, x) EXCEPT !.tag = tag]
Unexported(n, x) == [Field(n, x) EXCEPT !.exported = FALSE]
Embedded(n, x) == [Field(n, x) EXCEPT !.embedded = TRUE]

\* No struct, array or interface holds itself, and no interface an interface.
Possible(values) ==
    LET holders == {v \in DOMAIN values : values[v].kind \in {"struct", "array", "interface"}}
        held(v) == {IF values[v].kind = "struct" THEN values[v].elems[i].value
                    ELSE values[v].elems[i] : i \in DOMAIN values[v].elems} \cap holders
    IN  /\ \A v \in holders :
              /\ v \notin held(v)
              /\ \A w \in held(v) : v \notin held(w) /\ \A x \in held(w) : v \notin held(x)
        /\ \A v \in holders : values[v].kind = "interface" =>
              \A w \in held(v) : values[w].kind # "interface"

Test(root, values) == [root |-> root, values |-> values]

-----------------------------------------------------------------------------
(* Three values that refer to each other, in all ways. *)

Firsts ==
    UNION {{Slice(1, <<x, y>>), Map(1, <<Entry(a, x), Entry(b, y)>>),
            Struct(<<Field(a, x), Field(b, y)>>)} : x \in 2..3, y \in 1..4}
Seconds ==
    UNION {{Pointer(x), Interface(x), Array(<<x>>), Slice(2, <<4, x>>),
            Map(2, <<Entry(a, x), Entry(b, 3)>>)} : x \in 1..4}
Thirds ==
    {Nil, Reader, Own} \cup
    UNION {{Pointer(x), Slice(3, <<x>>), Struct(<<Optional(a, x)>>)} : x \in 1..4}

GraphHeaps ==
    {Test(1, values) : values \in
        {h \in {<<x, y, z, LeafOf(text)>> : x \in Firsts, y \in Seconds, z \in Thirds} : Possible(h)}}

\* Keys that are the same text.
KeyHeaps ==
    {Test(1, <<Map(1, <<Entry(x, 2), Entry(y, 3)>>), Struct(<<Field(a, 3)>>), LeafOf(text)>>) :
        x \in {a, b}, y \in {a, b}}

-----------------------------------------------------------------------------
(* Structs: 1 has a field, and embeds 3 directly, through a pointer, or not *)
(* at all.                                                                  *)

Embeddings(x) == {Embedded(c, 3), Embedded(c, 4), Tagged(c, c, 3), Unexported(c, 3)}
OuterFields ==
    UNION {{Field(n, x), Optional(n, x), Tagged(n, Dash, x), Unexported(n, x), Tagged(n, b, x)} :
              n \in {a, b}, x \in {2, 6}}

FieldHeap(fields) ==
    Test(1, <<Struct(fields), LeafOf(text), Struct(<<Field(a, 5), Optional(b, 6)>>),
              Pointer(3), LeafOf(body), LeafOf(empty)>>)
FieldHeaps ==
    UNION {{FieldHeap(<<f, e>>), FieldHeap(<<e, f>>)} : f \in OuterFields, e \in Embeddings(3)}

\* A list whose second item has a pointer to the first one, which is where the list is.
AliasHeaps ==
    {Test(1, <<Slice(1, <<2, 3>>), Struct(<<Field(a, 5)>>), Struct(<<Field(a, 4)>>),
               [Pointer(2) EXCEPT !.address = where], LeafOf(text)>>) :
        where \in {<<"value", 2>>, <<"items", 1>>}}

\* An embedded pointer, nil or not.
NilHeaps ==
    {Test(1, <<Struct(<<Embedded(c, 2), Field(b, 4)>>), pointer, Struct(<<Field(a, 4)>>),
               LeafOf(text)>>) : pointer \in {Nil, Pointer(3)}}

\* Four containers in each other, or three and what carries nested JSON.
DeepHeaps ==
    {Test(1, <<x, Slice(2, <<3>>), Struct(<<Field(a, 4)>>), y, LeafOf(text)>>) :
        x \in {Slice(1, <<2, 4>>), Map(1, <<Entry(a, 2), Entry(b, 4)>>),
               Struct(<<Field(a, 2), Embedded(c, 3)>>)},
        y \in {Slice(4, <<5>>), Map(4, <<Entry(b, 5)>>), Own, DeepOwn}}

MCHeaps ==
    GraphHeaps \cup KeyHeaps \cup FieldHeaps \cup AliasHeaps \cup NilHeaps \cup DeepHeaps

-----------------------------------------------------------------------------
(* Structs that refer to themselves. *)

\* A struct that embeds a pointer to itself, and one whose field refers to itself.
EmbeddedCycleHeaps ==
    {Test(1, <<Pointer(2), Struct(<<Field(a, 3), field>>), LeafOf(text)>>) :
        field \in {Embedded(c, 1), Field(c, 1)}}
=============================================================================

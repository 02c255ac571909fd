----------------------------- MODULE Normalize ------------------------------
(***************************************************************************)
(* Normalize (normalize.go): the walk over a Go value that turns it into a *)
(* document.  It is a call of the test, so nothing else happens meanwhile, *)
(* but the value may refer to itself, share its parts, hold readers that   *)
(* can be read only once, and maps, whose order changes from run to run.   *)
(*                                                                         *)
(* A heap is a function from values to records: kind; isNil; address, of   *)
(* what a reference refers to; content, the document of a value that is    *)
(* not walked; isZero, of such a value; and elems: what a pointer or an    *)
(* interface refers to, the items of a list, the [name, value] entries of  *)
(* a map with the names of mapKeyString, or the fields of a struct.        *)
(***************************************************************************)
EXTENDS JsonPath, Functions

CONSTANTS
    Heaps,          \* the values of tests: [root, values : a heap] records
    MaxDepth,       \* maxNormalizeDepth
    NoTag, Dash,    \* a json tag without a name, and the name "-"
    \* the scalars that Normalize writes itself
    Null, Recursion, MaxDepthExceeded, Drained,
    Unknown         \* no result yet

ASSUME NormalizeAssumption ==
    /\ MaxDepth \in Nat
    /\ {Null, Recursion, MaxDepthExceeded, Drained} \subseteq Node

\* A heap is finite, and everything a value refers to is in it.
ASSUME HeapAssumption ==
    \A test \in Heaps :
        /\ IsFiniteSet(DOMAIN test.values)
        /\ test.root \in DOMAIN test.values
        /\ \A v \in DOMAIN test.values :
              LET value == test.values[v]
              IN  /\ value.elems \in Seq(Range(value.elems))
                  /\ value.kind \in {"pointer", "interface"} /\ ~value.isNil =>
                        1 \in DOMAIN value.elems
                  /\ \A i \in DOMAIN value.elems :
                        IF value.kind \in {"map", "struct"}
                        THEN /\ value.elems[i].value \in DOMAIN test.values
                             /\ value.elems[i].name \in Name
                        ELSE value.elems[i] \in DOMAIN test.values
                  /\ value.kind = "struct" =>
                        \A i \in DOMAIN value.elems :
                           value.elems[i].tag \in Name \cup {NoTag, Dash}
                  \* What carries its own JSON, a json.RawMessage or a json.Marshaler, may be any
                  \* document; everything else that is not walked is a scalar.
                  /\ value.kind \in {"leaf", "reader"} => \E x \in Node : value.content = Leaf(x)
                  /\ value.kind = "own" => IsTree(value.content)

VARIABLES
    heap,           \* the value that is normalized
    todo,           \* the calls that are to come, the next one first
    document,       \* the result so far
    drained,        \* the readers that were read to the end
    earlier         \* the result of the same test in an earlier run

vars == <<heap, todo, document, drained, earlier>>

ValueOf(v) == heap.values[v]

ValueCall(v, depth, seen, at) ==
    [call |-> "value", value |-> v, depth |-> depth, seen |-> seen, at |-> at]
FieldCall(field, depth, seen, at) ==
    [call |-> "field", field |-> field, depth |-> depth, seen |-> seen, at |-> at]

Start == <<ValueCall(heap.root, 0, {}, <<>>)>>

Init ==
    /\ heap \in Heaps
    /\ todo = Start
    /\ document = Leaf(Null)
    /\ drained = {}
    /\ earlier = Unknown

-----------------------------------------------------------------------------

Current == Head(todo)

\* Mutant of Then: what was seen in a part of a value counts for its other parts, too.
ThenSharingSeen(calls, rest) ==
    calls \o [i \in DOMAIN rest |->
                [rest[i] EXCEPT !.seen = @ \cup UNION {calls[j].seen : j \in DOMAIN calls}]]

\* The calls that a call makes come before those of its callers.
Then(calls, rest) == calls \o rest

Continue(calls) == todo' = Then(calls, Tail(todo)) /\ UNCHANGED <<heap, earlier>>

\* Mutant of Put: what was below the value stays.
PutOver(content) ==
    document' = [q \in DOMAIN document \cup {Current.at} |->
                    IF q = Current.at THEN content[<<>>] ELSE document[q]]

\* A value replaces all that another one with the same name has left.
Put(content) == document' = Graft(document, [at \in {Current.at} |-> content])

References == {"pointer", "slice", "map"}

\* containsPtr
Cut(call) ==
    ValueOf(call.value).kind \in References /\ ValueOf(call.value).address \in call.seen

\* normalizeValue for a value that is not nil and not too deep.
Walked(kinds) ==
    /\ todo # <<>> /\ Current.call = "value" /\ Current.depth <= MaxDepth
    /\ ~ValueOf(Current.value).isNil
    /\ ValueOf(Current.value).kind \in kinds

\* The depth limit comes before anything else, then nil, and then what is no container.
Return ==
    /\ todo # <<>> /\ Current.call = "value"
    /\ LET value == ValueOf(Current.value)
       IN  \/ /\ Current.depth > MaxDepth
              /\ Put(Leaf(MaxDepthExceeded))
           \/ /\ Current.depth <= MaxDepth
              /\ value.isNil
              /\ Put(Leaf(Null))
           \/ /\ Walked({"leaf", "own"})
              /\ Put(value.content)
    /\ Continue(<<>>)
    /\ UNCHANGED drained

\* io.ReadAll
Drain ==
    /\ Walked({"reader"})
    /\ Put(IF Current.value \in drained THEN Leaf(Drained) ELSE ValueOf(Current.value).content)
    /\ drained' = drained \cup {Current.value}
    /\ Continue(<<>>)

CutOff ==
    /\ Walked(References)
    /\ Cut(Current)
    /\ Put(Leaf(Recursion))
    /\ Continue(<<>>)
    /\ UNCHANGED drained

\* Mutant of Seen: pointers are not remembered.
SeenContainers(call) ==
    call.seen \cup (IF ValueOf(call.value).kind \in {"slice", "map"}
                    THEN {ValueOf(call.value).address} ELSE {})

\* What the parts of a value know of it.
Seen(call) ==
    call.seen \cup (IF ValueOf(call.value).kind \in References
                    THEN {ValueOf(call.value).address} ELSE {})

\* Mutant of Part: lists and maps are as deep as what is in them.
SameDepth(v, elem) ==
    ValueCall(v, Current.depth, Seen(Current), Append(Current.at, elem))

\* The call for an item or an entry.
Part(v, elem) ==
    ValueCall(v, Current.depth + 1, Seen(Current), Append(Current.at, elem))

\* A pointer or an interface: no deeper than what it refers to.
Follow ==
    /\ Walked({"pointer", "interface"})
    /\ ~Cut(Current)
    /\ Continue(<<ValueCall(ValueOf(Current.value).elems[1], Current.depth, Seen(Current), Current.at)>>)
    /\ UNCHANGED <<document, drained>>

\* normalizeList
WalkList ==
    /\ Walked({"slice", "array"})
    /\ ~Cut(Current)
    /\ LET items == ValueOf(Current.value).elems
       IN  /\ Put(ListOf([i \in DOMAIN items |-> Leaf(Null)]))
           /\ Continue([i \in DOMAIN items |-> Part(items[i], IndexElem(i - 1))])
    /\ UNCHANGED drained

\* The entries of a map come in any order; of those with the same name the last one stays.
WalkMap ==
    /\ Walked({"map"})
    /\ ~Cut(Current)
    /\ LET entries == ValueOf(Current.value).elems
       IN  \E order \in Bijection(DOMAIN entries, DOMAIN entries) :
              Continue([i \in DOMAIN entries |->
                          Part(entries[order[i]].value, KeyElem(entries[order[i]].name))])
    /\ Put(Leaf(MapNode))
    /\ UNCHANGED drained

\* addStructFields, a call per field.
FieldCalls(v, depth, seen, at) ==
    [i \in DOMAIN ValueOf(v).elems |-> FieldCall(ValueOf(v).elems[i], depth, seen, at)]

WalkStruct ==
    /\ Walked({"struct"})
    /\ Put(Leaf(MapNode))
    /\ Continue(FieldCalls(Current.value, Current.depth, Current.seen, Current.at))
    /\ UNCHANGED drained

-----------------------------------------------------------------------------
(* One field of a struct. *)

\* What an embedded field inlines: the struct it is, or the one it points to.
Inlined(field) ==
    LET value == ValueOf(field.value)
        target == IF value.kind = "pointer" /\ ~value.isNil THEN value.elems[1] ELSE field.value
    IN  IF field.embedded /\ field.tag = NoTag /\ ValueOf(target).kind = "struct"
        THEN {target} ELSE {}

\* isEmptyValue
IsEmptyValue(v) ==
    LET value == ValueOf(v)
    IN  \/ value.isNil
        \/ value.kind \in {"slice", "array", "map"} /\ value.elems = <<>>
        \/ value.kind \in {"leaf", "own"} /\ value.isZero

\* Mutant of Omitted: only nil is empty.
OmittedIfNil(field) ==
    \/ ~field.exported \/ field.tag = Dash
    \/ field.omitempty /\ ValueOf(field.value).isNil

Omitted(field) ==
    \/ ~field.exported \/ field.tag = Dash
    \/ field.omitempty /\ IsEmptyValue(field.value)

FieldName(field) == IF field.tag = NoTag THEN field.name ELSE field.tag

\* The fields of an embedded struct are fields of the outer one: neither the pointer to
\* it nor the depth are looked at.
InlineField ==
    /\ todo # <<>> /\ Current.call = "field"
    /\ \E target \in Inlined(Current.field) :
          Continue(FieldCalls(target, Current.depth, Current.seen, Current.at))
    /\ UNCHANGED <<document, drained>>

AddField ==
    /\ todo # <<>> /\ Current.call = "field"
    /\ Inlined(Current.field) = {}
    /\ Continue(IF Omitted(Current.field) THEN <<>>
                ELSE <<ValueCall(Current.field.value, Current.depth + 1, Current.seen,
                                 Append(Current.at, KeyElem(FieldName(Current.field))))>>)
    /\ UNCHANGED <<document, drained>>

-----------------------------------------------------------------------------

\* The test runs again: it makes the same value, with fresh readers.
Rerun ==
    /\ todo = <<>> /\ earlier = Unknown
    /\ earlier' = document
    /\ todo' = Start
    /\ document' = Leaf(Null)
    /\ drained' = {}
    /\ UNCHANGED heap

Step ==
    \/ Return \/ Drain \/ CutOff \/ Follow \/ WalkList \/ WalkMap \/ WalkStruct
    \/ InlineField \/ AddField

Next == Step \/ Rerun

Spec == Init /\ [][Next]_vars

\* A call runs until it returns.
FairSpec == Spec /\ WF_vars(Next)

-----------------------------------------------------------------------------
(* What encoding/json makes of the value. *)

Values == DOMAIN heap.values
Fields(v) == Range(ValueOf(v).elems)

\* The structs whose fields are fields of struct v, by how deeply they are embedded.
InlinedStructs(v) ==
    LET level[n \in 0..Cardinality(Values)] ==
            IF n = 0 THEN {v}
            ELSE UNION {Inlined(f) : f \in UNION {Fields(s) : s \in level[n - 1]}}
    IN  level

\* The fields a struct may show; a nil pointer to an embedded struct shows nothing.
Visible(structs) ==
    {f \in UNION {Fields(s) : s \in structs} :
        /\ Inlined(f) = {} /\ f.exported /\ f.tag # Dash
        /\ ~(f.embedded /\ f.tag = NoTag
             /\ ValueOf(f.value).kind = "pointer" /\ ValueOf(f.value).isNil)}

\* Of the fields with the same name it is the least embedded that counts, and of
\* several of those the one that has its name from a tag; if none is left alone, none does.
Dominant(v, name) ==
    LET named(n) == {f \in Visible(InlinedStructs(v)[n]) : FieldName(f) = name}
        levels == {n \in 0..Cardinality(Values) : named(n) # {}}
        fields == named(CHOOSE n \in levels : \A m \in levels : n <= m)
        tagged == {f \in fields : f.tag # NoTag}
    IN  IF levels = {} THEN {}
        ELSE IF Cardinality(fields) = 1 THEN fields
        ELSE IF Cardinality(tagged) = 1 THEN tagged ELSE {}

AllFields(v) == UNION {Visible(InlinedStructs(v)[n]) : n \in 0..Cardinality(Values)}

\* The fields that encoding/json writes for a struct.
JSONFields(v) ==
    {f \in UNION {Dominant(v, FieldName(g)) : g \in AllFields(v)} :
        ~(f.omitempty /\ IsEmptyValue(f.value))}

\* The whole value, if nothing in it refers to itself.
Mirror ==
    LET json[v \in Values] ==
            LET value == ValueOf(v)
                byName(parts) ==
                    MapOf([n \in {part[1] : part \in parts} |->
                              json[(CHOOSE part \in parts : part[1] = n)[2]]])
            IN  CASE value.isNil -> Leaf(Null)
                  [] value.kind \in {"leaf", "own", "reader"} -> value.content
                  [] value.kind \in {"pointer", "interface"} /\ ~value.isNil -> json[value.elems[1]]
                  [] value.kind \in {"slice", "array"} /\ ~value.isNil ->
                        ListOf([i \in DOMAIN value.elems |-> json[value.elems[i]]])
                  [] value.kind = "map" /\ ~value.isNil ->
                        byName({<<e.name, e.value>> : e \in Range(value.elems)})
                  [] value.kind = "struct" ->
                        byName({<<FieldName(f), f.value>> : f \in JSONFields(v)})
    IN  json[heap.root]

-----------------------------------------------------------------------------
(* Properties. *)

Done == todo = <<>>

\* The values that a value holds or refers to.
Parts(v) ==
    CASE ValueOf(v).kind \in {"map", "struct"} -> {e.value : e \in Range(ValueOf(v).elems)}
      [] OTHER -> Range(ValueOf(v).elems)

Reachable(v) ==
    LET within[n \in 0..Cardinality(Values)] ==
            IF n = 0 THEN Parts(v)
            ELSE within[n - 1] \cup UNION {Parts(w) : w \in within[n - 1]}
    IN  within[Cardinality(Values)]

RefersToItself(v) == v \in Reachable(v)

\* References to the same address refer to the same: no pointer to the first field of a
\* struct or to the first item of a list, no two slices of one array.
NoAliases ==
    \A v, w \in Values :
        /\ ValueOf(v).kind \in References /\ ValueOf(w).kind \in References
        /\ ~ValueOf(v).isNil /\ ~ValueOf(w).isNil /\ ValueOf(v).address = ValueOf(w).address
        => ValueOf(v).kind = ValueOf(w).kind /\ ValueOf(v).elems = ValueOf(w).elems

DistinctKeys ==
    \A v \in Values : ValueOf(v).kind = "map" =>
        \A i, j \in DOMAIN ValueOf(v).elems :
            ValueOf(v).elems[i].name = ValueOf(v).elems[j].name => i = j

\* No field hides another one, and no embedded pointer is nil.
DistinctFields ==
    \A v \in Values : ValueOf(v).kind = "struct" =>
        /\ \A f, g \in AllFields(v) : FieldName(f) = FieldName(g) => f = g
        /\ \A f \in Fields(v) : f.embedded => ~ValueOf(f.value).isNil

NoEmbeddedCycle ==
    \A v \in Values : ValueOf(v).kind = "struct" =>
        \A n \in 1..Cardinality(Values) : v \notin InlinedStructs(v)[n]

\* The result is a document at every step, also where a field replaces what an earlier one
\* of the same name has left.
TypeOK ==
    /\ IsDocument(document)
    /\ earlier = Unknown \/ IsDocument(earlier)
    /\ drained \subseteq Values

\* However the value is made, the limit holds for the result: what is nested deeper than
\* the mark that says so is in the JSON that a value within the limit carries with it,
\* which Normalize takes as it is.
OwnContents == {ValueOf(v).content : v \in {w \in Values : ValueOf(w).kind = "own"}}

DepthBounded ==
    \A q \in DOMAIN document : Len(q) > MaxDepth + 1 =>
        \E p \in DOMAIN document :
            Len(p) <= MaxDepth /\ IsPrefix(p, q) /\ ValueAt(document, p) \in OwnContents

\* Only what refers to itself is cut off; what is merely used twice is not.
OnlyCyclesCut == [][CutOff /\ NoAliases => RefersToItself(Current.value)]_vars

\* A value in which nothing is cut off becomes what encoding/json makes of it. A second
\* use of a reader finds it drained.
MirrorsJSON ==
    Done /\ NoAliases /\ DistinctKeys /\ DistinctFields
        /\ (\A v \in Values : ~RefersToItself(v))
        /\ (\A q \in DOMAIN Mirror : Len(q) <= MaxDepth)
        /\ Drained \notin Range(document)
    => document = Mirror

\* Two runs of a test agree on the same value, cyclic or not, in whatever order maps are
\* visited. Readers used twice and keys that are the same text are the exceptions.
SameEachTime ==
    Done /\ earlier # Unknown /\ DistinctKeys
        /\ Drained \notin Range(document) \cup Range(earlier)
    => document = earlier

\* Cyclic values do not hang the test.
Terminates == NoEmbeddedCycle => <>(Done /\ earlier # Unknown)

\* "self-referencing values are cut off with <recursion> instead of hanging".
AlwaysTerminates == <>(Done /\ earlier # Unknown)
=============================================================================

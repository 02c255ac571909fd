---------------------------- MODULE Transformers ----------------------------
(***************************************************************************)
(* transform (session.go): the built-in transformers (transformer.go,      *)
(* transform_utility.go, legacy.go) at work on the state of a session, and *)
(* the replacements they register, which are applied to the serialized     *)
(* state at the end.                                                       *)
(*                                                                         *)
(* The state is a JsonPath document whose names are texts and whose        *)
(* scalars are strings, numbers and literals.  Transformers visit maps in  *)
(* the order of their sorted keys, unless the order cannot matter.         *)
(***************************************************************************)
EXTENDS TransformContext

CONSTANTS
    Content,        \* Content[t]: the object or list that the text t is, read as JSON
    Fixed,          \* Fixed[t]: what a Timestamp transformer makes of the timestamp t
    \* the names that ResponseMetadata looks for
    ResponseMetadata, HTTPHeaders, ContentType, HTTPStatusCode

IsJSON(value) == IsString(value) /\ value[2] \in DOMAIN Content

\* What a test observes, and what its transformers make of it.
IsState(doc) ==
    /\ IsTree(doc) /\ IsFiniteSet(DOMAIN doc)
    /\ \A q \in DOMAIN doc : doc[q] \in Containers \cup Scalar

ASSUME TransformerAssumption ==
    /\ {ResponseMetadata, HTTPHeaders, ContentType, HTTPStatusCode} \subseteq Name
    /\ Fixed \in [DOMAIN Fixed -> Text]

\* The texts are read as the decoder does.  A text that is JSON is longer than the strings
\* in it.
ASSUME ContentAssumption ==
    /\ IsFiniteSet(DOMAIN Content) /\ \A t \in DOMAIN Content : IsState(Content[t])
    /\ \A t \in DOMAIN Content : IsValid(Decoded[t]) /\ Content[t] = Decoded[t].doc
    /\ \E depth \in [DOMAIN Content -> 0..Cardinality(DOMAIN Content)-1] :
          \A t \in DOMAIN Content : \A q \in DOMAIN Content[t] :
             IsJSON(Content[t][q]) => depth[Content[t][q][2]] < depth[t]

-----------------------------------------------------------------------------
(* Positions and texts. *)

\* The matches of a path in the order in which find returns them: segment by segment,
\* so that the values of an outer map come before those of the maps in it.
FindInOrder(doc, segments) ==
    LET from(qs) == FlattenSeq([i \in DOMAIN qs |-> InOrder(Descendants(doc, qs[i]))])
        selected(qs, segment) ==
            FlattenSeq([i \in DOMAIN qs |-> InOrder(SelectFrom(doc, qs[i], segment))])
        found[n \in 0..Len(segments)] ==
            IF n = 0 THEN << <<>> >>
            ELSE LET qs == IF segments[n].recursive THEN from(found[n - 1]) ELSE found[n - 1]
                 IN  selected(qs, segments[n])
    IN  found[Len(segments)]

HasKey(q, n) == q # <<>> /\ Last(q) = KeyElem(n)

\* The prefixes of a position, the root left out.
Above(q) == {SubSeq(q, 1, n) : n \in 1..Len(q)-1}

\* strings.ReplaceAll and ReplaceAllString: the occurrences of the texts in the domain of
\* with, from left to right.  The empty text occurs before every symbol and at the end.
ReplaceTexts(text, with) ==
    LET at(i) == {p \in DOMAIN with : /\ p # <<>> /\ i + Len(p) <= Len(text) + 1
                                      /\ SubSeq(text, i, i + Len(p) - 1) = p}
        between == IF <<>> \in DOMAIN with THEN with[<<>>] ELSE <<>>
        rest[i \in 1..Len(text)+1] ==
            IF i > Len(text) THEN between
            ELSE IF at(i) = {} THEN between \o <<text[i]>> \o rest[i + 1]
            ELSE LET p == CHOOSE p \in at(i) : TRUE IN with[p] \o rest[i + Len(p)]
    IN  rest[1]

Occurs(pattern, text) ==
    \E i \in 0..Len(text) - Len(pattern) : SubSeq(text, i + 1, i + Len(pattern)) = pattern

-----------------------------------------------------------------------------
(* JSON in strings. *)

IsEmbedded(value) == IsJSON(value) /\ Head(value[2]) = "{"

\* parseEmbeddedJSON: objects without leading blanks, and not the strings in them.
EmbeddedParsed(doc) ==
    Graft(doc, [q \in {p \in DOMAIN doc : IsEmbedded(doc[p])} |-> Content[doc[q][2]]])

\* Mutant of FullyParsed: the strings in it stay strings.
ParsedOnce == Content

\* parseNestedJSONStrings
FullyParsed ==
    LET parsed[t \in DOMAIN Content] ==
            LET doc == Content[t]
            IN  Graft(doc, [q \in {p \in DOMAIN doc : IsJSON(doc[p])} |-> parsed[doc[q][2]]])
    IN  parsed

\* JSONStringTransformer: what is no string below the key is searched for the key again.
JSONStringParsed(doc, key) ==
    Graft(doc, [q \in {p \in DOMAIN doc : HasKey(p, key) /\ IsJSON(doc[p])} |->
                   FullyParsed[doc[q][2]]])

-----------------------------------------------------------------------------
(* Transformers are records of a kind and its fields. *)

\* The MatchFn of a KeyValue transformer is the set of the pairs <<name, node>> it
\* matches; it returns a part of a string, or the whole value if part is empty.
KeyValue(pairs, part, with, scope, reference) ==
    [kind |-> "keyvalue", pairs |-> pairs, part |-> part, with |-> with, scope |-> scope,
     reference |-> reference, complete |-> TRUE]

\* What a transformer looks for and what it puts in the place of a value are texts; the
\* scopes of placeholders are symbols.
IsTransformer(t) ==
    /\ t.kind \in {"keyvalue", "jsonpath"} => t.with \in Text /\ t.reference \in BOOLEAN
    /\ t.kind = "keyvalue" => t.part \in Text
    /\ t.kind = "jsonpath" => t.path \in Seq(PathToken)
    /\ t.kind = "generic" => t.pattern \in Text
    /\ t.kind = "pattern" => t.patterns \subseteq Text /\ t.with \in Text
    /\ t.kind \in {"keyvalue", "jsonpath", "generic"} => t.scope \in Symbol

Nodes == Node \cup Containers

\* matchKey
MatchKey(key) == {<<key, node>> : node \in Nodes \ {Null, Str(<<>>)}}
\* SkipKey
SkipKeyMatch(keys) == keys \X Nodes
\* ReplaceValue
ReplaceValueMatch(texts) == Name \X {Str(t) : t \in texts}

\* Mutant of KeyValueMatches: only maps in maps are searched.
MatchesInMaps(doc, t) ==
    LET matches(q) == ~IsIndex(Last(q)) /\ <<Last(q)[2], doc[q]>> \in t.pairs
    IN  InOrder({q \in DOMAIN doc \ {<<>>} :
                    /\ \A n \in DOMAIN q : ~IsIndex(q[n])
                    /\ matches(q) /\ \A p \in Above(q) : ~matches(p)})

\* The values that a KeyValue transformer matches, in order: it does not descend into
\* them, nor into lists that are items of a list.
KeyValueMatches(doc, t) ==
    LET matches(q) == ~IsIndex(Last(q)) /\ <<Last(q)[2], doc[q]>> \in t.pairs
        listInList(q) == \E n \in 1..Len(q)-1 : IsIndex(q[n]) /\ IsIndex(q[n + 1])
    IN  InOrder({q \in DOMAIN doc \ {<<>>} :
                    matches(q) /\ ~listInList(q) /\ \A p \in Above(q) : ~matches(p)})

\* The list at q with its items in another order; order[i] is the item that comes to i.
Permuted(doc, q, order) ==
    Graft(doc, [p \in {Append(q, IndexElem(i - 1)) : i \in DOMAIN order} |->
                   ValueAt(doc, Append(q, IndexElem(order[Last(p)[2] + 1] - 1)))])

\* What an item is sorted by: itself, or one of its fields (SortingByKey).
SortKey(item, by) ==
    IF by = {} \/ item[<<>>] # MapNode THEN CanonicalString(item)
    ELSE LET field == <<KeyElem(CHOOSE n \in by : TRUE)>>
         IN  CanonicalString(IF field \in DOMAIN item THEN ValueAt(item, field) ELSE Leaf(Null))

\* sort.SliceStable
SortedItems(doc, q, by) ==
    LET keys == [i \in 1..Cardinality(Children(doc, q)) |->
                    SortKey(ValueAt(doc, Append(q, IndexElem(i - 1))), by)]
        before == {ij \in (DOMAIN keys) \X (DOMAIN keys) :
                      \/ TextBefore(keys[ij[1]], keys[ij[2]])
                      \/ ~TextBefore(keys[ij[2]], keys[ij[1]]) /\ ij[1] < ij[2]}
    IN  Permuted(doc, q, Ordered(DOMAIN keys, before))

\* What is no list at the key of a Sorting transformer is an error, and left alone with
\* all that it holds.
NotSortable(doc, key) == {q \in DOMAIN doc : HasKey(q, key) /\ doc[q] # ListNode}

\* SortingTransformer: inner lists are sorted before the lists they are in.
Sorted(doc, key, by) ==
    LET lists == {q \in DOMAIN doc : /\ HasKey(q, key) /\ doc[q] = ListNode
                                     /\ Above(q) \cap NotSortable(doc, key) = {}}
        deepestFirst == Reverse(InOrder(lists))
        sorted[n \in 0..Cardinality(lists)] ==
            IF n = 0 THEN doc ELSE SortedItems(sorted[n - 1], deepestFirst[n], by)
    IN  sorted[Cardinality(lists)]

\* TimestampTransformer
TimestampsFixed(doc) ==
    [q \in DOMAIN doc |-> IF IsString(doc[q]) /\ doc[q][2] \in DOMAIN Fixed
                          THEN Str(Fixed[doc[q][2]]) ELSE doc[q]]

\* ResponseMetadataTransformer: found through maps only, and reduced if it has headers.
MetadataReduced(doc) ==
    LET child(q, n) == Append(q, KeyElem(n))
        isMap(q) == q \in DOMAIN doc /\ doc[q] = MapNode
        found == {q \in DOMAIN doc : /\ HasKey(q, ResponseMetadata)
                                     /\ \A n \in DOMAIN q : ~IsIndex(q[n])
                                     /\ \A p \in Above(q) : ~HasKey(p, ResponseMetadata)
                                     /\ isMap(q) /\ isMap(child(q, HTTPHeaders))}
        contentType(q) == child(child(q, HTTPHeaders), ContentType)
        kept(q) == {q, child(q, HTTPHeaders)}
                   \cup {r \in DOMAIN doc : IsPrefix(child(q, HTTPStatusCode), r)}
                   \cup {r \in DOMAIN doc : IsPrefix(contentType(q), r)
                                            /\ doc[contentType(q)] \notin {Null, Str(<<>>)}}
    IN  [r \in {r \in DOMAIN doc : \A q \in found : IsPrefix(q, r) => r \in kept(q)} |-> doc[r]]

-----------------------------------------------------------------------------
(* The replacements on the serialized state, per key of the state, so that *)
(* they do not affect the keys themselves.                                 *)

Replaced(text, reps) ==
    LET from[n \in 1..Len(reps)+1] ==
            [t \in Text |->
                IF n > Len(reps) THEN t
                ELSE from[n + 1][ReplaceTexts(t, [p \in reps[n].patterns |-> reps[n].with])]]
    IN  from[1][text]

\* The keys of a state.
TopKeys(doc) == {e \in {KeyElem(n) : n \in Name} : <<e>> \in DOMAIN doc}

\* What is decoded under each key.
Rewritten(doc, reps) ==
    [e \in TopKeys(doc) |->
        Decoded[Replaced(Marshalled(ValueAt(doc, <<e>>)), reps)]]

-----------------------------------------------------------------------------
(* transform, for the session of a context. *)

VARIABLES
    stage,          \* of a context: "matching", "transforming", "done" or "failed"
    document,       \* the state
    todo,           \* the transformers that have not run yet
    current,        \* the transformer that runs
    matches,        \* the values it has matched and not handled yet
    result          \* what transform returns

transforming == <<stage, document, todo, current, matches, result>>

NoTransformer == [kind |-> "none"]

TransformInit ==
    /\ ContextInit
    /\ stage = [c \in Context |-> "matching"]
    /\ document = [c \in Context |-> Leaf(MapNode)]
    /\ todo = [c \in Context |-> <<>>]
    /\ current = [c \in Context |-> NoTransformer]
    /\ matches = [c \in Context |-> <<>>]
    /\ result = [c \in Context |-> Leaf(MapNode)]

\* sortedTransformers: [transformer, priority] records in the order of registration.
SortedTransformers(registered) ==
    LET before == {ij \in (DOMAIN registered) \X (DOMAIN registered) :
                      LET here == registered[ij[1]].priority
                          there == registered[ij[2]].priority
                      IN  \/ here < there
                          \/ here = there /\ ij[1] < ij[2]}
        order == Ordered(DOMAIN registered, before)
    IN  [i \in DOMAIN order |-> registered[order[i]].transformer]

BeginTransform(c, observed, registered) ==
    /\ stage[c] = "matching"
    /\ stage' = [stage EXCEPT ![c] = "transforming"]
    /\ document' = [document EXCEPT ![c] = EmbeddedParsed(observed)]
    /\ todo' = [todo EXCEPT ![c] = SortedTransformers(registered)]
    /\ UNCHANGED <<context, current, matches, result>>

\* The next transformer is of the given kind.
NextIs(c, kind) ==
    /\ stage[c] = "transforming" /\ matches[c] = <<>> /\ todo[c] # <<>>
    /\ Head(todo[c]).kind = kind
    /\ todo' = [todo EXCEPT ![c] = Tail(@)]
    /\ current' = [current EXCEPT ![c] = Head(todo[c])]
    /\ UNCHANGED <<stage, result>>

\* KeyValueBasedTransformer, up to the first match.
MatchKeyValues(c) ==
    /\ NextIs(c, "keyvalue")
    /\ LET t == Head(todo[c])
       IN  IF t.complete
           THEN /\ matches' = [matches EXCEPT ![c] = KeyValueMatches(document[c], t)]
                /\ UNCHANGED <<context, document>>
           ELSE Errorf(c) /\ UNCHANGED <<document, matches>>

\* JSONPathTransformer, up to the first match.
MatchJSONPath(c) ==
    /\ NextIs(c, "jsonpath")
    /\ LET tokens == Rooted(Head(todo[c]).path)
       IN  IF Malformed(tokens)
           THEN Errorf(c) /\ UNCHANGED <<document, matches>>
           ELSE /\ matches' = [matches EXCEPT ![c] = FindInOrder(document[c], Parsed(tokens))]
                /\ UNCHANGED <<context, document>>

\* What a KeyValue transformer replaces of the value it has matched.
MatchedPart(t, value) ==
    IF t.kind = "keyvalue" /\ t.part # <<>> /\ IsString(value) THEN Str(t.part) ELSE value

\* One match of either: registered as a reference, or replaced in place.  A value whose
\* parent has been replaced is no longer part of the state.
HandleMatch(c) ==
    /\ matches[c] # <<>>
    /\ matches' = [matches EXCEPT ![c] = Tail(@)]
    /\ LET t == current[c]
           q == Head(matches[c])
           attached == q \in DOMAIN document[c]
           part == MatchedPart(t, document[c][q])
           new == IF attached /\ IsString(part) /\ part # document[c][q]
                  THEN Str(ReplaceTexts(document[c][q][2], [p \in {part[2]} |-> t.with]))
                  ELSE Str(t.with)
       IN  IF t.reference
           THEN RegisterReference(c, part, t.scope) /\ UNCHANGED document
           ELSE /\ document' = IF attached
                               THEN [document EXCEPT ![c] = SetValue(@, q, new)] ELSE document
                /\ UNCHANGED context
    /\ UNCHANGED <<stage, todo, current, result>>

\* RegexTransformer, TextTransformer
RegisterPattern(c) ==
    /\ NextIs(c, "pattern")
    /\ LET t == Head(todo[c])
       IN  IF t.complete THEN RegisterPatterns(c, t.patterns, t.with) ELSE Errorf(c)
    /\ UNCHANGED <<document, matches>>

\* A transformer of the test (Generic) that numbers a text on its own.
RunGeneric(c) ==
    /\ NextIs(c, "generic")
    /\ RegisterNumbered(c, Head(todo[c]).pattern, Head(todo[c]).scope)
    /\ UNCHANGED <<document, matches>>

SortLists(c) ==
    /\ NextIs(c, "sorting")
    /\ LET t == Head(todo[c])
       IN  /\ document' = [document EXCEPT ![c] = Sorted(@, t.key, t.by)]
           /\ IF \E q \in NotSortable(document[c], t.key) :
                     Above(q) \cap NotSortable(document[c], t.key) = {}
              THEN Errorf(c) ELSE UNCHANGED context
    /\ UNCHANGED matches

\* The transformers that rewrite the state and register nothing.
RewriteState(c) ==
    /\ \/ /\ NextIs(c, "timestamp")
          /\ document' = [document EXCEPT ![c] = TimestampsFixed(@)]
       \/ /\ NextIs(c, "jsonstring")
          /\ document' = [document EXCEPT ![c] = JSONStringParsed(@, Head(todo[c]).key)]
       \/ /\ NextIs(c, "metadata")
          /\ document' = [document EXCEPT ![c] = MetadataReduced(@)]
    /\ UNCHANGED <<context, matches>>

\* What is serialized: without the skipped values, unless the session records.
Compared(c, skip) == Skipped(document[c], skip)

WellFormed(skip) == \A path \in skip : ~Malformed(Rooted(path))

\* A skip path that does not parse is an error, if there is a state to remove values from.
SkipError(doc, skip) == doc # Leaf(MapNode) /\ ~WellFormed(skip)

\* The rest of transform: it fails if a transformer has reported an error, a skip path does
\* not parse, or what the replacements have made of the value of a key is not JSON.
Serialize(c, skip) ==
    /\ stage[c] = "transforming" /\ matches[c] = <<>> /\ todo[c] = <<>>
    /\ LET read == Rewritten(Compared(c, skip), replacements[c])
       IN  IF \/ errs[c] \/ SkipError(document[c], skip)
              \/ \E e \in DOMAIN read : ~IsValid(read[e])
           THEN stage' = [stage EXCEPT ![c] = "failed"] /\ UNCHANGED result
           ELSE /\ stage' = [stage EXCEPT ![c] = "done"]
                /\ result' = [result EXCEPT ![c] =
                       Container(MapNode, [e \in DOMAIN read |-> read[e].doc])]
    /\ UNCHANGED <<context, document, todo, current, matches>>

TransformStep(c) ==
    \/ MatchKeyValues(c) \/ MatchJSONPath(c) \/ HandleMatch(c)
    \/ RegisterPattern(c) \/ RunGeneric(c) \/ SortLists(c) \/ RewriteState(c)
=============================================================================

------------------------------ MODULE JsonPath ------------------------------
(***************************************************************************)
(* JSON documents, and the json paths that select values in them           *)
(* (jsonpath.go).                                                          *)
(*                                                                         *)
(* A document is a function from positions to nodes.  A position is the    *)
(* sequence of keys and indices that lead from the root to the value; its  *)
(* node is MapNode, ListNode or a scalar.  A json path is a sequence of    *)
(* tokens until it is parsed, and a sequence of segments afterwards.       *)
(***************************************************************************)
EXTENDS Integers, Sequences, FiniteSets, SequencesExt

CONSTANTS
    Name,           \* the keys that occur in maps
    AsIndex,        \* AsIndex[n]: the number that strconv.Atoi reads in key n, or NotANumber
    Decimals,       \* the keys that are numbers as strconv.Itoa writes them (1, not 01 or +1)
    NotANumber,
    Unquotable,     \* the keys that contain the quote they are wrapped in
    Node            \* the scalars

MapNode == <<"map">>
ListNode == <<"list">>
Containers == {MapNode, ListNode}

ASSUME NameAssumption ==
    /\ AsIndex \in [Name -> Int \cup {NotANumber}]
    /\ NotANumber \notin Int
    /\ Decimals \subseteq Name /\ \A n \in Decimals : AsIndex[n] # NotANumber
    /\ \A n, m \in Decimals : AsIndex[n] = AsIndex[m] => n = m
    /\ Unquotable \subseteq Name
    /\ Containers \cap Node = {}

\* The elements of positions.
Elem == ({"key"} \X Name) \cup ({"index"} \X Nat)

KeyElem(n) == <<"key", n>>
IndexElem(i) == <<"index", i>>
IsIndex(elem) == elem[1] = "index"

\* The position of a list item.
InList(q) == q # <<>> /\ IsIndex(Last(q))

-----------------------------------------------------------------------------
(* Building documents. *)

Leaf(x) == [q \in {<<>>} |-> x]

\* The document whose root is a container of the given kind, with one child per
\* element of the domain of children.
Container(kind, children) ==
    [q \in {<<>>} \cup UNION {{<<e>> \o r : r \in DOMAIN children[e]} : e \in DOMAIN children} |->
        IF q = <<>> THEN kind ELSE children[Head(q)][Tail(q)]]

MapOf(fields) ==
    Container(MapNode, [e \in {KeyElem(n) : n \in DOMAIN fields} |-> fields[e[2]]])

ListOf(items) ==
    Container(ListNode, [e \in {IndexElem(i - 1) : i \in DOMAIN items} |-> items[e[2] + 1]])

\* The value at position q, as a document of its own.
ValueAt(doc, q) ==
    [r \in {SubSeq(p, Len(q) + 1, Len(p)) : p \in {x \in DOMAIN doc : IsPrefix(q, x)}} |->
        doc[q \o r]]

\* The document with other documents, the values of contents, at some of its positions.
Graft(doc, contents) ==
    LET kept == {q \in DOMAIN doc : \A p \in DOMAIN contents : ~IsPrefix(p, q)}
        grafted == UNION {{p \o r : r \in DOMAIN contents[p]} : p \in DOMAIN contents}
        above(q) == CHOOSE p \in DOMAIN contents : IsPrefix(p, q)
    IN  [q \in kept \cup grafted |->
            IF q \in kept THEN doc[q]
            ELSE contents[above(q)][SubSeq(q, Len(above(q)) + 1, Len(q))]]

\* A document has a root, every other value is an item of a list or a field of a map,
\* and the items of a list are numbered from zero.
IsDocument(doc) ==
    /\ <<>> \in DOMAIN doc
    /\ \A q \in DOMAIN doc \ {<<>>} :
        /\ Front(q) \in DOMAIN doc
        /\ doc[Front(q)] = IF IsIndex(Last(q)) THEN ListNode ELSE MapNode
        /\ IsIndex(Last(q)) /\ Last(q)[2] # 0 =>
              Append(Front(q), IndexElem(Last(q)[2] - 1)) \in DOMAIN doc

\* ... and nothing else: it is a function, on sequences of keys and indices.
IsTree(doc) ==
    /\ IsDocument(doc)
    /\ doc = [q \in DOMAIN doc |-> doc[q]]
    /\ DOMAIN doc \subseteq Seq(Elem)

\* No value around q, nor q itself, is among those gone.
Spared(q, gone) == \A n \in 0..Len(q) : SubSeq(q, 1, n) \notin gone

Remaining(doc, gone) == {q \in DOMAIN doc : Spared(q, gone)}

\* How many items before item i of the list at p are gone.
GoneBefore(p, i, gone) == Cardinality({j \in 0..i-1 : Append(p, IndexElem(j)) \in gone})

\* Where the value at q is once the lists around it are closed up.
Moved(q, gone) ==
    [n \in DOMAIN q |->
        IF IsIndex(q[n])
        THEN IndexElem(q[n][2] - GoneBefore(SubSeq(q, 1, n - 1), q[n][2], gone))
        ELSE q[n]]

\* The document without the values at the positions gone, its lists closed up.
Without(doc, gone) ==
    LET kept == Remaining(doc, gone)
    IN  [r \in {Moved(q, gone) : q \in kept} |-> doc[CHOOSE q \in kept : Moved(q, gone) = r]]

-----------------------------------------------------------------------------
(* find *)

\* A segment of a path has the fields recursive (it follows ".."), kind ("name",
\* "index" or "wildcard"), name, index, and quoted (never taken for an index).

Children(doc, q) == {r \in DOMAIN doc : Len(r) = Len(q) + 1 /\ IsPrefix(q, r)}

\* listIndex: a negative index counts from the end of the list.
ItemAt(doc, q, i) ==
    LET size == Cardinality(Children(doc, q))
    IN  {Append(q, IndexElem(IF i < 0 THEN i + size ELSE i))} \cap DOMAIN doc

FieldAt(doc, q, n) == {Append(q, KeyElem(n))} \cap DOMAIN doc

\* selectFrom: a number also selects the key that spells it, and an unquoted key that
\* is read as a number also selects a list item.
SelectFrom(doc, q, segment) ==
    CASE doc[q] \notin Containers -> {}
      [] doc[q] \in Containers /\ segment.kind = "wildcard" -> Children(doc, q)
      [] doc[q] = MapNode /\ segment.kind = "name" -> FieldAt(doc, q, segment.name)
      [] doc[q] = MapNode /\ segment.kind = "index" ->
            UNION {FieldAt(doc, q, n) : n \in {m \in Decimals : AsIndex[m] = segment.index}}
      [] doc[q] = ListNode /\ segment.kind = "index" -> ItemAt(doc, q, segment.index)
      [] doc[q] = ListNode /\ segment.kind = "name" ->
            IF segment.quoted \/ AsIndex[segment.name] = NotANumber
            THEN {} ELSE ItemAt(doc, q, AsIndex[segment.name])

\* descendants: the node itself and everything below it.
Descendants(doc, q) == {r \in DOMAIN doc : IsPrefix(q, r)}

\* What one more segment of a path matches.
Followed(doc, current, segment) ==
    UNION {SelectFrom(doc, q, segment) :
             q \in IF segment.recursive
                   THEN UNION {Descendants(doc, p) : p \in current}
                   ELSE current}

\* find: the positions of the values a path matches.
Find(doc, segments) ==
    LET current[n \in 0..Len(segments)] ==
            IF n = 0 THEN {<<>>} ELSE Followed(doc, current[n - 1], segments[n])
    IN  current[Len(segments)]

-----------------------------------------------------------------------------
(* parseJSONPath *)

Root == [token |-> "$"]
Dot == [token |-> "."]
Dots == [token |-> ".."]
Star == [token |-> "*"]
BracketStar == [token |-> "[*]"]
Word(n) == [token |-> "word", name |-> n]
Quoted(n) == [token |-> "quoted", name |-> n]
BracketKey(n) == [token |-> "[key]", name |-> n]
BracketIndex(i) == [token |-> "[index]", index |-> i]

PathToken ==
    [token : {"$", ".", "..", "*", "[*]"}]
    \cup [token : {"word", "quoted", "[key]"}, name : Name]
    \cup [token : {"[index]"}, index : Int]

Connectors == {Dot, Dots}
IsBracket(t) == t.token \in {"[*]", "[key]", "[index]"}
HasName(t) == t.token \in {"word", "quoted", "[key]"}

\* A path may omit the root, and then the dot of its first key too ("a.b" is "$.a.b").
Rooted(tokens) ==
    IF tokens = <<>> THEN <<>>
    ELSE IF tokens[1] = Root THEN Tail(tokens)
    ELSE IF tokens[1] \in Connectors \/ IsBracket(tokens[1]) THEN tokens
    ELSE <<Dot>> \o tokens

\* The rooted tokens that are no path: nothing selected, a selector without its dot, a dot
\* without its selector, a quote that ends too early.
Malformed(tokens) ==
    \/ tokens = <<>>
    \/ \E i \in DOMAIN tokens :
         \/ /\ tokens[i] \in Connectors
            /\ i = Len(tokens) \/ tokens[i + 1] \in Connectors
         \/ /\ tokens[i] \notin Connectors /\ ~IsBracket(tokens[i])
            /\ i = 1 \/ tokens[i - 1] \notin Connectors
         \/ tokens[i].token = "quoted" /\ tokens[i].name \in Unquotable

SegmentAt(tokens, i) ==
    LET t == tokens[i]
    IN  [recursive |-> i > 1 /\ tokens[i - 1] = Dots,
         kind |-> IF HasName(t) THEN "name"
                  ELSE IF t.token = "[index]" THEN "index" ELSE "wildcard",
         name |-> IF HasName(t) THEN t.name ELSE NotANumber,
         index |-> IF t.token = "[index]" THEN t.index ELSE 0,
         quoted |-> t.token \in {"quoted", "[key]"}]

\* The segments of a well-formed path, one per selector.
Parsed(tokens) ==
    LET selectors == {i \in DOMAIN tokens : tokens[i] \notin Connectors}
        nth(j) == CHOOSE i \in selectors : Cardinality({k \in selectors : k <= i}) = j
    IN  [j \in 1..Cardinality(selectors) |-> SegmentAt(tokens, nth(j))]

-----------------------------------------------------------------------------
(* removeSkipVerificationPaths as a whole: modules SkipPaths and PastedRun   *)
(* show that the order of the paths does not matter.                         *)

Skipped(doc, expressions) ==
    Without(doc, UNION {Find(doc, Parsed(Rooted(e))) :
                          e \in {t \in expressions : ~Malformed(Rooted(t))}})
=============================================================================

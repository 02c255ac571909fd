----------------------------- MODULE RoundTrip ------------------------------
(***************************************************************************)
(* A test that records its state and, in a later run, compares: what the   *)
(* transformers are for.  Both runs transform what they observe, each with *)
(* a context of its own, and the second one compares the results           *)
(* (finish in session.go).                                                 *)
(***************************************************************************)
EXTENDS Transformers

CONSTANTS
    Recording, Verifying,   \* the sessions of the two runs
    Setups                  \* the tests: what they observe, register and skip

ASSUME RoundTripAssumption ==
    /\ Context = {Recording, Verifying} /\ Recording # Verifying
    /\ \A test \in Setups :
          /\ test.first # Leaf(MapNode) /\ test.second # Leaf(MapNode)
          /\ IsState(test.first) /\ IsState(test.second) /\ test.skip \subseteq Seq(PathToken)
          /\ test.transformers \in Seq(Range(test.transformers))
          /\ \A r \in Range(test.transformers) : r.priority \in Int /\ IsTransformer(r.transformer)

VARIABLES
    setup,          \* [first, second : states, transformers : sequence, skip : skip paths]
    verdict         \* of the second run

vars == <<context, transforming, setup, verdict>>

Init ==
    /\ TransformInit
    /\ setup \in Setups
    /\ verdict = "none"

Finished(c) == stage[c] \in {"done", "failed"}

Record ==
    /\ BeginTransform(Recording, setup.first, setup.transformers)
    /\ UNCHANGED <<setup, verdict>>

\* There is a recording, and some skip path does not parse.
Invalid == stage[Recording] = "done" /\ SkipError(result[Recording], setup.skip)

Verify ==
    /\ Finished(Recording) /\ ~Invalid
    /\ BeginTransform(Verifying, setup.second, setup.transformers)
    /\ UNCHANGED <<setup, verdict>>

\* finish does not get to transform.
RejectPaths ==
    /\ Finished(Recording) /\ Invalid /\ stage[Verifying] = "matching"
    /\ stage' = [stage EXCEPT ![Verifying] = "failed"]
    /\ UNCHANGED <<context, document, todo, current, matches, result, setup, verdict>>

Transform(c) == TransformStep(c) /\ UNCHANGED <<setup, verdict>>

\* A session that records skips nothing.
SkipOf(c) == IF c = Verifying THEN setup.skip ELSE {}

Return(c) == Serialize(c, SkipOf(c)) /\ UNCHANGED <<setup, verdict>>

\* Mutant of Expected: the skipped values stay in the recording.
AllRecorded == result[Recording]

\* removeSkipVerificationPaths on the recording.
Expected == Skipped(result[Recording], setup.skip)

\* The keys of the test must be recorded, with equal values.
Compare ==
    /\ Finished(Verifying) /\ verdict = "none"
    /\ verdict' =
         IF /\ stage[Recording] = "done" /\ stage[Verifying] = "done"
            /\ \A q \in Children(setup.second, <<>>) :
                  /\ q \in DOMAIN Expected /\ q \in DOMAIN result[Verifying]
                  /\ ValueAt(Expected, q) = ValueAt(result[Verifying], q)
         THEN "passed" ELSE "failed"
    /\ UNCHANGED <<context, transforming, setup>>

Next ==
    \/ Record \/ Verify \/ RejectPaths \/ Compare
    \/ \E c \in Context : Transform(c) \/ Return(c)

Spec == Init /\ [][Next]_vars

-----------------------------------------------------------------------------
(* Properties. *)

\* What the transformers make of a state is a document at every step: no list has holes,
\* and nothing is left below a value that was replaced.
TypeOK ==
    /\ stage \in [Context -> {"matching", "transforming", "done", "failed"}]
    /\ errs \in [Context -> BOOLEAN]
    /\ verdict \in {"none", "passed", "failed"}
    /\ \A c \in Context : IsDocument(document[c]) /\ IsDocument(result[c])

References(c) == {i \in DOMAIN replacements[c] : IsReference(replacements[c][i])}
Patterns(c) == UNION {replacements[c][i].patterns : i \in DOMAIN replacements[c]}

\* Scalars, and the texts of a state as marshalValue writes them.
Scalars(doc) == {q \in DOMAIN doc : doc[q] \notin Containers}
TextAt(doc, q) == IF IsString(doc[q]) THEN Escaped(doc[q][2]) ELSE doc[q][2]

\* The end of the first text is the beginning of the second one.
Overlap(p, r) == \E n \in 1..Len(p)-1 : IsPrefix(SubSeq(p, n + 1, Len(p)), r)

\* What is written under a key beside the contents of strings: names, numbers, literals
\* and the marks of JSON.
Outline(doc) == [q \in DOMAIN doc |-> IF IsString(doc[q]) THEN Str(<<>>) ELSE doc[q]]
Around(doc) == {Marshalled(ValueAt(Outline(doc), q)) : q \in Children(doc, <<>>)}

\* No string and no name has what could be taken for an escape or a placeholder.
Clean(doc) ==
    \A q \in DOMAIN doc :
        /\ IsString(doc[q]) => Range(doc[q][2]) \cap {Backslash, "<", ">"} = {}
        /\ q # <<>> /\ ~InList(q) => Range(Last(q)[2]) \cap {Backslash, "<", ">"} = {}

\* No error, and replacements that cannot get into each other's way, or into the syntax of
\* JSON: only reference values; none is empty, is a part of another one, of what is around
\* the strings, or of the placeholder of an earlier one, or ends as another one begins; and
\* all of them occur in what is compared.
Plain(c) ==
    LET doc == Compared(c, SkipOf(c))
        compared == Compared(c, setup.skip)
    IN  /\ ~errs[c] /\ WellFormed(SkipOf(c))
        /\ References(c) = DOMAIN replacements[c]
        /\ Clean(doc)
        /\ \A p, r \in Patterns(c) : ~Overlap(p, r) /\ (p # r => ~Occurs(p, r))
        /\ \A i, j \in References(c) : i < j =>
              \A p \in replacements[c][j].patterns : ~Occurs(p, replacements[c][i].with)
        /\ \A p \in Patterns(c) :
              /\ p # <<>> /\ \A text \in Around(doc) : ~Occurs(p, text)
              /\ \E q \in Scalars(compared) : Occurs(p, TextAt(compared, q))

Renamed(doc, names) ==
    [q \in DOMAIN doc |->
        IF doc[q] \in Containers THEN doc[q]
        ELSE <<doc[q][1], ReplaceTexts(TextAt(doc, q), names)>>]

Shown(doc) == Renamed(doc, [p \in {} |-> p])

\* The two states are the same but for a one-to-one renaming of the reference values.
SameButForNames ==
    LET first == Compared(Recording, setup.skip)
        second == Compared(Verifying, setup.skip)
    IN  \E names \in Bijection(Patterns(Recording), Patterns(Verifying)) :
            /\ Renamed(first, names) = Shown(second)
            /\ Renamed(second, AntiFunction(names)) = Shown(first)

\* What reference replacement promises: a later run of the test passes if its ids are
\* other ones and nothing else is different, and it fails if anything else is: an id
\* where another one was, one id in the place of two, an id where there was a constant.
PassIffRenamed ==
    verdict # "none" /\ Plain(Recording) /\ Plain(Verifying) =>
        (verdict = "passed" <=> SameButForNames)

\* "all occurrences of a queue url become <queue-url:1>": a session with plain references
\* does not fail (numbers and syntax stay intact), and turns every value that is a
\* reference, wherever it occurs, into its placeholder.
ReferencesReplaced ==
    \A c \in Context :
        Finished(c) /\ Plain(c) =>
            /\ stage[c] = "done"
            /\ \A q \in Scalars(Compared(c, SkipOf(c))), i \in References(c) :
                  LET value == Compared(c, SkipOf(c))[q]
                  IN  IsString(value) /\ TextAt(Compared(c, SkipOf(c)), q) \in replacements[c][i].patterns =>
                         result[c][q] = Str(replacements[c][i].with)

\* Distinct values stay distinct: placeholders alone never make two fields of a map the
\* same one, of which the decoder would drop all but the last, if nothing looks like a
\* placeholder or an escape before.
NothingMerges ==
    \A c \in Context :
        stage[c] = "done" /\ Clean(document[c]) /\ (\A i \in DOMAIN replacements[c] : HasNumber(replacements[c][i])) =>
            Cardinality(DOMAIN result[c]) = Cardinality(DOMAIN Compared(c, SkipOf(c)))

\* The second state is the first one with the items of the list at q in another order.
Reordered(q) ==
    LET n == Cardinality(Children(setup.first, q))
    IN  \E order \in Bijection(1..n, 1..n) : setup.second = Permuted(setup.first, q, order)

\* No string in a list is what another item of the list is written as, like 5 and "5".
ToldApart(doc) ==
    \A p, r \in DOMAIN doc :
        InList(p) /\ InList(r) /\ Front(p) = Front(r) /\ IsString(doc[p]) /\ ~IsString(doc[r])
            => doc[p][2] # Marshalled(ValueAt(doc, r))

\* "so that a non-deterministic order does not fail the snapshot": a test whose first
\* transformer sorts a list by its items, and that skips nothing, passes whatever order the
\* items come in, if it has something to compare with.
ReorderedPasses ==
    verdict # "none" /\ stage[Recording] = "done" /\ setup.skip = {} =>
        \A q \in DOMAIN setup.first :
            LET t == Head(SortedTransformers(setup.transformers))
            IN  /\ setup.transformers # <<>> /\ t.kind = "sorting" /\ t.by = {}
                /\ HasKey(q, t.key) /\ setup.first[q] = ListNode /\ Reordered(q)
                /\ ToldApart(Sorted(EmbeddedParsed(setup.first), t.key, {}))
                => verdict = "passed"

\* The matched values of the skip paths "are dropped from both sides before comparing":
\* if the states without them are the same, the test passes.
SkippedDoesNotMatter ==
    verdict # "none" /\ ~errs[Recording] /\ ~errs[Verifying] /\ WellFormed(setup.skip) =>
        (Skipped(setup.first, setup.skip) = Skipped(setup.second, setup.skip)
            => verdict = "passed")

Observed(c) == IF c = Recording THEN setup.first ELSE setup.second

\* The test registers t and nothing else.
Only(t) == setup.transformers = <<t>>

\* "KeyValue creates a transformer that replaces the value of every occurrence of key":
\* none is left anywhere in the state, but in lists that are items of a list.
EveryKeyReplaced ==
    \A c \in Context : stage[c] = "done" =>
        \A r \in Range(setup.transformers) :
            LET t == r.transformer
                inInnerList(q) == \E n \in 1..Len(q)-1 : IsIndex(q[n]) /\ IsIndex(q[n + 1])
            IN  Only(r) /\ t.kind = "keyvalue" /\ ~t.reference /\ t.part = <<>> =>
                   \A q \in DOMAIN result[c] \ {<<>>} :
                       /\ ~IsIndex(Last(q)) /\ ~inInnerList(q)
                       /\ <<Last(q)[2], result[c][q]>> \in t.pairs
                       => result[c][q] = Str(t.with)

\* "it also handles JSON lists and nested JSON strings": no string that is JSON is left
\* below the key of a JSONString transformer, unless there was a map or a list at the key
\* already when the transformer came.
NestedStringsParsed ==
    \A c \in Context : stage[c] = "done" =>
        \A r \in Range(setup.transformers) :
            LET t == r.transformer
                state == EmbeddedParsed(Observed(c))
            IN  Only(r) /\ t.kind = "jsonstring"
                /\ (\A q \in DOMAIN state : HasKey(q, t.key) => state[q] \notin Containers) =>
                   \A p, q \in DOMAIN result[c] :
                       HasKey(p, t.key) /\ IsPrefix(p, q) => ~IsJSON(result[c][q])
=============================================================================

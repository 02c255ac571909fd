----------------------------- MODULE SkipPaths -----------------------------
(***************************************************************************)
(* removeSkipVerificationPaths (session.go): the values that the skip      *)
(* paths match are removed from a state, one path after the other.  List   *)
(* items are replaced by a placeholder first and removed at the very end,  *)
(* "otherwise the indices of the remaining skip paths would shift".        *)
(***************************************************************************)
EXTENDS JsonPath

CONSTANTS
    Placeholder,    \* what marks a list item for removal
    States,         \* the states (documents whose root is the map of the keys)
    Expressions,    \* the skip paths, as token sequences
    MaxPaths        \* bound: how many paths a test skips

\* It is a string like any other: a state may hold it, too.
ASSUME SkipAssumption ==
    /\ Placeholder \notin Containers
    /\ \A d \in States : IsTree(d)
    /\ Expressions \subseteq Seq(PathToken)
    /\ MaxPaths \in Nat

\* The list items among the matches that are below no other match.
Items(matches) ==
    {q \in matches : InList(q) /\ \A n \in 0..Len(q)-1 : SubSeq(q, 1, n) \notin matches}

\* Of the matches, fields are deleted and list items replaced.
Marked(doc, matches) ==
    [q \in Remaining(doc, matches) \cup Items(matches) |->
        IF q \in Items(matches) THEN Placeholder ELSE doc[q]]

\* Mutants of Apply: list items are removed at once, and the list is closed up or not.
ApplyAtOnce(doc, segments) == Without(doc, Find(doc, segments))
ApplyHoles(doc, segments) ==
    [q \in Remaining(doc, Find(doc, segments)) |-> doc[q]]

\* One path.
Apply(doc, segments) == Marked(doc, Find(doc, segments))

\* removeSkipPlaceholders
RemovePlaceholders(doc) ==
    Without(doc, {q \in DOMAIN doc : InList(q) /\ doc[q] = Placeholder})

VARIABLES
    original,       \* the state as it was
    state,          \* the state as it is
    paths,          \* the skip paths of the test
    next,           \* the path that is handled next
    hasPlaceholder, \* some list item was replaced
    errs,           \* the paths that do not parse
    returned        \* removeSkipVerificationPaths has returned

removalVars == <<original, state, paths, next, hasPlaceholder, errs, returned>>

\* Before the first call.
RemovalInit ==
    /\ original = Leaf(MapNode)
    /\ state = Leaf(MapNode)
    /\ paths = <<>>
    /\ next = 1
    /\ hasPlaceholder = FALSE
    /\ errs = {}
    /\ returned = TRUE

\* removeSkipVerificationPaths is called; if the state has no keys, there is nothing
\* to remove.
Call(doc, list) ==
    /\ returned
    /\ original' = doc
    /\ state' = doc
    /\ paths' = IF DOMAIN doc = {<<>>} THEN <<>> ELSE list
    /\ next' = 1
    /\ hasPlaceholder' = FALSE
    /\ errs' = {}
    /\ returned' = FALSE

\* One round of the loop.  A path that does not parse is noted, and the others are
\* applied all the same.
ApplyNext ==
    /\ ~returned
    /\ next <= Len(paths)
    /\ LET tokens == Rooted(paths[next])
       IN  IF Malformed(tokens)
           THEN /\ errs' = errs \cup {paths[next]}
                /\ UNCHANGED <<state, hasPlaceholder>>
           ELSE /\ state' = Apply(state, Parsed(tokens))
                /\ hasPlaceholder' = (hasPlaceholder
                       \/ \E q \in Find(state, Parsed(tokens)) : InList(q))
                /\ UNCHANGED errs
    /\ next' = next + 1
    /\ UNCHANGED <<original, paths, returned>>

\* After the loop.
Return ==
    /\ ~returned
    /\ next > Len(paths)
    /\ returned' = TRUE
    /\ state' = IF hasPlaceholder THEN RemovePlaceholders(state) ELSE state
    /\ UNCHANGED <<original, paths, next, hasPlaceholder, errs>>

Lists == UNION {[1..n -> Expressions] : n \in 0..MaxPaths}

RemovalNext ==
    \/ \E doc \in States, list \in Lists : Call(doc, list)
    \/ ApplyNext
    \/ Return

RemovalSpec == RemovalInit /\ [][RemovalNext]_removalVars

-----------------------------------------------------------------------------
(* Properties. *)

\* At every moment of the removal the state is a document: in particular its lists
\* have no holes, so that the indices of the paths still to come mean the same.
StateIsDocument == IsDocument(state)

WellFormed == {p \in Range(paths) : ~Malformed(Rooted(p))}

\* What all the paths together select in the state as it was.
Selected == UNION {Find(original, Parsed(Rooted(p))) : p \in WellFormed}

\* List items that hold the text of the placeholder.
LooksRemoved == {q \in DOMAIN original : InList(q) /\ original[q] = Placeholder}

\* The paths are independent of one another: whatever their order and however they
\* overlap, what is removed is exactly what each of them selects in the untouched
\* state, indices that count from the end included; and the paths that do not parse
\* are all reported and keep no other from being applied.  A list item that happens to
\* be the placeholder itself goes if any list item was replaced, and is kept otherwise.
RemovesSelected ==
    returned =>
        /\ state = Without(original, Selected \cup IF hasPlaceholder THEN LooksRemoved ELSE {})
        /\ errs = Range(paths) \ WellFormed
=============================================================================

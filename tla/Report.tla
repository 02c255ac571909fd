------------------------------- MODULE Report -------------------------------
(***************************************************************************)
(* The comparison of a recorded with an observed value (diff.go) and the   *)
(* ignore list in the report of the differences (report.go), whose paths a *)
(* developer pastes into SkipVerifyPaths before the next run.              *)
(***************************************************************************)
EXTENDS JsonPath

CONSTANTS
    Pairs,          \* <<recorded, observed>>: the values under the snapshot key
    SnapshotKey,    \* the key they are matched under
    Special,        \* the keys that have to be quoted in a path
    TypeOf,         \* TypeOf[x]: the JSON type of scalar x
    Edits           \* the sets of skip paths a developer may write without the report

ASSUME ReportAssumption ==
    Unquotable \subseteq Special /\ Special \subseteq Name /\ SnapshotKey \in Name

\* What is compared are JSON values.
ASSUME PairsAssumption == \A p \in Pairs : IsTree(p[1]) /\ IsTree(p[2])

-----------------------------------------------------------------------------
(* Diff *)

IsContainer(node) == node \in Containers

\* The positions diffValue gets to: above them the two documents have the same
\* containers.
Reached(expected, actual) ==
    {q \in DOMAIN expected \cup DOMAIN actual :
        \A n \in 0..Len(q)-1 :
            LET above == SubSeq(q, 1, n)
            IN  /\ above \in DOMAIN expected \cap DOMAIN actual
                /\ IsContainer(expected[above]) /\ expected[above] = actual[above]}

ChangeType(expected, actual, q) ==
    CASE q \notin DOMAIN actual -> IF InList(q) THEN "ListItemRemoved" ELSE "MapItemRemoved"
      [] q \notin DOMAIN expected -> IF InList(q) THEN "ListItemAdded" ELSE "MapItemAdded"
      [] OTHER -> IF \/ IsContainer(expected[q]) \/ IsContainer(actual[q])
                     \/ TypeOf[expected[q]] # TypeOf[actual[q]]
                  THEN "TypeChanged" ELSE "ValuesChanged"

\* Mutant of Diff: what was added is not a difference.
DiffRecorded(expected, actual) ==
    {<<ChangeType(expected, actual, q), q>> :
        q \in {r \in Reached(expected, actual) \cap DOMAIN expected :
                 ~(r \in DOMAIN actual /\ expected[r] = actual[r])}}

\* A change is the type of a difference and the position where it is.
Diff(expected, actual) ==
    {<<ChangeType(expected, actual, q), q>> :
        q \in {r \in Reached(expected, actual) :
                 ~(/\ r \in DOMAIN expected \cap DOMAIN actual
                   /\ expected[r] = actual[r])}}

-----------------------------------------------------------------------------
(* The ignore list. *)

KeyToken(n) == IF n \in Special THEN Quoted(n) ELSE Word(n)

\* Mutant of AppendDot: an index leaves no trace.
AppendOneDot(tokens) == IF Last(tokens) \in Connectors THEN tokens ELSE Append(tokens, Dot)

\* Two dots in a row are a recursive descent.
AppendDot(tokens) ==
    CASE Last(tokens) = Dots -> tokens
      [] Last(tokens) = Dot -> Append(Front(tokens), Dots)
      [] OTHER -> Append(tokens, Dot)

TrimDots(tokens) == IF Last(tokens) \in Connectors THEN Front(tokens) ELSE tokens

\* One round of the loop: the name of an element, if it has one, and a dot before the next.
Extended(tokens, q, i) ==
    LET named == IF IsIndex(q[i]) THEN tokens ELSE Append(tokens, KeyToken(q[i][2]))
    IN  IF i < Len(q) THEN AppendDot(named) ELSE named

\* formatJSONPath: indices are left out, which makes a recursive descent of the dots
\* around them; after a trailing index there are no dots.
FormatJSONPath(q) ==
    LET tokens[i \in 0..Len(q)] ==
            IF i = 0 THEN <<Root, Dots>> ELSE Extended(tokens[i - 1], q, i)
    IN  IF InList(q) THEN TrimDots(tokens[Len(q)]) ELSE tokens[Len(q)]

\* renderReport: one path per change.
IgnoreList(changes) == {FormatJSONPath(c[2]) : c \in changes}

-----------------------------------------------------------------------------
(* The next run, with the ignore list pasted. *)

StateOf(value) == MapOf([n \in {SnapshotKey} |-> value])

VARIABLES
    pair,           \* the recorded and the observed value, in both runs
    changes,        \* what the first run reports
    ignored,        \* the ignore list in its report
    pasted,         \* the skip paths of the next run
    after           \* what has happened last: a run has ended with that verdict

reportVars == <<pair, changes, ignored, pasted, after>>

ReportInit ==
    /\ pair \in Pairs
    /\ changes = {}
    /\ ignored = {}
    /\ pasted = {}
    /\ after = "not compared"

\* finish compares and renders the report.
Compare ==
    /\ after = "not compared"
    /\ changes' = Diff(pair[1], pair[2])
    /\ ignored' = IgnoreList(changes')
    /\ after' = "reported"
    /\ UNCHANGED <<pair, pasted>>

\* The verdict of finish on two states without what is skipped.
Verdict(expected, actual) ==
    IF <<KeyElem(SnapshotKey)>> \notin DOMAIN expected THEN "missing"
    ELSE IF Diff(ValueAt(expected, <<KeyElem(SnapshotKey)>>),
                 ValueAt(actual, <<KeyElem(SnapshotKey)>>)) = {}
    THEN "passed" ELSE "failed"

\* The test runs again, with the same values and with skip paths.
CompareAgain(list) ==
    /\ after = "reported"
    /\ pasted' = list
    /\ after' = IF \E t \in list : Malformed(Rooted(t)) THEN "invalid path"
                ELSE Verdict(Skipped(StateOf(pair[1]), list), Skipped(StateOf(pair[2]), list))
    /\ UNCHANGED <<pair, changes, ignored>>

ReportNext == Compare \/ \E list \in {ignored} \cup Edits : CompareAgain(list)

\* Two runs of a test, with the skip paths of the second one removed at once, each from
\* the untouched states: that is what the paths promise, whatever their order, while
\* finish (session.go:331-333, 420-422) goes through them one by one and twice, in
\* lists that keep their length until the end.  Module PastedRun does it that way.
ReportSpec == ReportInit /\ [][ReportNext]_reportVars

-----------------------------------------------------------------------------
(* Properties. *)

\* The verdict of finish rests on it: there is a change exactly if the two values
\* differ, every change is a difference, and no change is reported twice, inside
\* another one.
ChangesAreDifferences ==
    after # "not compared" =>
        /\ changes = {} <=> pair[1] = pair[2]
        /\ \A c, d \in changes : c # d => ~IsPrefix(c[2], d[2])
        /\ \A c \in changes :
              LET q == c[2]
              IN  ~(/\ q \in DOMAIN pair[1] /\ q \in DOMAIN pair[2]
                    /\ ValueAt(pair[1], q) = ValueAt(pair[2], q))
        /\ \A q \in DOMAIN pair[1] \cup DOMAIN pair[2] :
              (q \in DOMAIN pair[1] /\ q \in DOMAIN pair[2] /\ pair[1][q] = pair[2][q])
              \/ \E c \in changes : IsPrefix(c[2], q)

\* A change that has a key on its way, and only keys that can be quoted.
Nameable(q) ==
    /\ \E n \in DOMAIN q : ~IsIndex(q[n])
    /\ \A n \in DOMAIN q : ~IsIndex(q[n]) => q[n][2] \notin Unquotable \cup {SnapshotKey}

\* Pasting the ignore list makes the failed test pass, in spite of the indices it
\* leaves out, as long as every change can be named.
PastedListPasses ==
    /\ after \notin {"not compared", "reported"}
    /\ pasted = ignored
    /\ \A c \in changes : Nameable(c[2])
    => after = "passed"

\* "The ignore list printed in a failure report is directly copy-pasteable": all its
\* paths are valid skip paths.
IgnoreListPasteable == pasted = ignored => after # "invalid path"
=============================================================================

# A TLA+ development of localstack-snapshot-go

Models, model-checking runs and proofs for the Go package in `src/snapshot`. The package lets a test
record the values it observes in a JSON file next to the test, and compares later runs with that
recording. Everything here is translated from the code; line numbers are in `PROJECT.json` (`map`).

## 1. The system

| Component | State | Operations | Talks to |
|---|---|---|---|
| Session (`session.go`) | `calledKeys`, `observed`, `recorded`, `transformers`, `skipVerificationPaths`, `verifyDisabled`, `results`, `done`, all under `mu` | `New`, `Match`, `AddTransformer(WithPriority)`, `SkipVerify`, `SkipVerifyPaths`, `AssertAll`, `Results`, and `finish` through `t.Cleanup` | the test (`t.Errorf`), snapshot files, transformers, paths, diff |
| Snapshot files (`session.go` 540-614, `jsonutil.go`) | the files on disk, one object with an entry per test; the global `fileLock` | `loadState`, `persist`, `persistRaw`, `writeSnapshotFile` | the file system; the other sessions of the package |
| JSON paths (`jsonpath.go`) | none | `parseJSONPath`, `find`, `pathMatch.set` | skip paths, JSONPath transformer |
| Skip paths (`session.go` 486-538) | none of its own; edits `recorded` and `observed` in place | `removeSkipVerificationPaths`, `removeSkipPlaceholders` | `finish`, `transform` |
| Diff and report (`diff.go`, `report.go`) | none | `Diff`, `RenderReport`, `formatJSONPath` | `finish`; the developer, who pastes the ignore list into the test |
| Transformers (`transformer.go`, `transform_utility.go`, `legacy.go`) | `TransformContext`: replacements, scope counters, seen references, errors | `Transform` of every transformer, `NewScope`, `registerReferenceReplacement` | `transform` |
| Normalize (`normalize.go`) | none | `Normalize` | `Match`; `MarshalJSON` and readers of the test |
| Encoding (`jsonutil.go`) | none | `marshal*`, `unmarshal*` | all |

Sessions interact through the snapshot files alone. Within a session the calls of the test's
goroutines are serialized by `mu`, which every call holds from its first line to its last. Go runs
the tests of a package in one process, those marked `t.Parallel` concurrently; the cleanup of a test
runs once, when it is over.

What is hard, and what makes each part correct:

- **Files.** The read-modify-write cycles of parallel tests, the load that runs without the lock,
  errors in the middle of a write, the crash between truncation and the last byte. Correct: no
  recording of another test is lost, nothing is loaded that was not recorded, what cannot be parsed
  is kept, every write returns.
- **Session.** The order of calls is the test's: transformers after `Match`, `AssertAll` and then the
  cleanup, `Match` after `AssertAll`. Correct: the verdict on each key is exactly the comparison of
  what was matched with what was recorded; a recording is complete; finishing takes effect once.
- **Skip paths.** Several overlapping paths with indices edit one document in turn. Correct: their
  order does not matter, and exactly what they select is gone.
- **Diff and report.** Correct: a change is reported exactly if there is a difference, and the
  ignore list can be pasted.
- **Transformers.** They all edit one state, number values in the order they find them, and register
  replacements that are applied to the serialized state later, one after the other. Correct: a later
  run passes exactly if it differs in the ids alone; every id has one placeholder; replacements do
  not break one another, nor the JSON they work on.
- **Normalize.** The value may be cyclic, share its parts, hold maps and readers. Correct: it ends, cuts
  off cycles and nothing else, and gives the same result each time.

`PROJECT.json` lists the hazards with their lines and the properties that cover them.

## 2. Modules

| Module | Models |
|---|---|
| `SnapshotStore` | the abstract specification of the files: a map from file and scope to a recording |
| `SnapshotFile` | the files and the sessions that load and write them, one action per system call |
| `SnapshotFile_proofs` | the theorems about it |
| `Session` | one session per test: every call, and `finish` as one action per part |
| `Session_proofs` | the theorems about it: one session's types, recording and verdict |
| `SnapshotRun` | the composition: sessions on files, a recording run and a verifying run |
| `SnapshotRun_proofs` | a run is a behaviour of `SnapshotFile`, and what a verdict says about the run that recorded |
| `JsonPath` | documents, path grammar, path evaluation, replacing parts of documents (operators only) |
| `JsonPath_proofs` | the lemmas on these operators that four of the other proofs share, and induction over the numbers |
| `SkipPaths` | a call of `removeSkipVerificationPaths`: the loop over the skip paths |
| `SkipPaths_proofs` | the theorems about it: the paths are independent, and lists stay closed |
| `Report` | `Diff`, the ignore list, and what the next run promises with skip paths |
| `Report_proofs` | the theorems about `Diff` and about the list, pasted |
| `PastedRun` | the composition: a run that reports, and a next one that removes its skip paths one by one from both states |
| `JsonText` | documents as JSON text: how they are ordered and written, and a decoder that reads symbol by symbol (operators only) |
| `TransformContext` | the replacements and numbers that the transformers of a session share |
| `Transformers` | `transform`: the built-in transformers on the state, and the replacements on its text |
| `RoundTrip` | a test that records and is run again: two sessions with one set of transformers |
| `RoundTrip_proofs` | the theorems about it: placeholders and their numbers, and that what transformers make and what is decoded are documents |
| `Normalize` | the walk over a Go value, twice |
| `Normalize_proofs` | the theorems about its result: its depth, that it is a document, and that only cycles are cut off |
| `MC...` | instances for TLC |

**SnapshotFile.** `Form` is what the bytes of a file are to `unmarshalMap`: absent, blank, torn (an
error), the literal `null` (a nil map), or an object. `disk` holds the object, with a recording
abstracted to the session that made it. `pc` follows `writeSnapshotFile`: `BeginWrite` (the call, and
the error without a path), `Lock`, `ReadExisting` / `RejectTorn` / `NilMapPanic`, `Truncate` and
`WritePart` (what `os.WriteFile` does before it is through) and `Complete`. The rest of the write, the
return and the deferred unlock are one step, as they can only be told apart by a failing close; the
file without its final newline counts as torn. With `raw`, a session goes through the cycle twice,
for the raw file first. `WriteError`, `LoadError` and `Crash` are the faults. `Loaded` and `Load` are
`loadState`, with `os.ReadFile` as one step: a file that fits into one read. A longer one may also be
rewritten between two reads, which the model leaves out; a load that meets a truncated or half-written
file, and fails, is there already. After a crash the sessions that were not there yet are those of a next run.

**Session.** The state is that of the struct, by the same names. `phase` says where `finish` stands;
it is split where it calls `writeSnapshotFile` and into the parts that return early (`Begin`,
`WriteRaw`, `Transform`, `Save`, `Compare`). No call of the test can come between these parts, as
`mu` is held. A value is a function from field names to scalars, a transformer a map on scalars that
is applied at once or, if it registers a replacement, after all the others; one that reports an error
ends `finish`. A skip path is `$..name`. `errors` is the set of the calls of `t.Errorf` by kind and
key. `final` is a history variable: the session as it was when `finish` first ran.

**SnapshotStore.** What the files promise: a write is announced (`Begin`), and then either takes effect
at once on its own scope of its own file (`Record`) or fails and may take that file with it (`Lose`). A
loss is only possible in the file that is being written, and only together with the failure of the
session that writes it. `StoreSpec` maps a file that is being rewritten to what its writer has read.

**SnapshotRun.** Steps that both modules describe are conjunctions of their actions (`Open` is `New`
and `Load`, `Written` is `Complete` and the return to `finish`, and so on). A test makes the calls of
its script and may end before the last one; scripts have `Match`, `AddTransformer` and `SkipVerifyPaths` calls, as
`AssertAll`, `SkipVerify` and priorities do nothing to files that `Session` alone would not show. The sessions of the second run start when the first run
is over.

**JsonPath, SkipPaths, Report, PastedRun.** A document is a function from positions to nodes, so that what a path
selects is a set of positions. A path is a sequence of tokens, which is where `formatJSONPath` and
`parseJSONPath` meet. A key is read as a number as `strconv.Atoi` does it (`AsIndex`), and a number
finds the key that `strconv.Itoa` writes (`Decimals`), so that `00` is an index of a list but no other name
of the key `0`. The maps of Go are edited in place while the code walks over the matches; in
the model one path is one step (`ApplyNext`), with the matches nested in other matches accounted for.
`Report` has the next run as its promise, with all paths removed at once from untouched states
(`CompareAgain`); `PastedRun` has it as `finish` does it: `removeSkipVerificationPaths` is called for the
recorded state and then for the observed one, goes through a list of paths in some order, and `EndRun`
compares what is left. `ReportSpec` is checked of it as a refinement. `finish` of a test without `Match` calls
returns early; every test of this model has matched one key.

**JsonText, TransformContext, Transformers, RoundTrip.** A text is a sequence of symbols: digits, the marks of
JSON and its three literals (one symbol each), the quote, the backslash, a blank, and symbols for an id or a word. `Marshalled` writes
a value with sorted keys, which is also what lists are sorted by; `Decoded` is a reader that takes a text symbol by symbol and
refuses what is no JSON, and of two fields of one name keeps the later one. `TransformContext` has the fields of the struct of
this name; a replacement is a set of texts and what they become. A placeholder is the text `<scope:n>`, with the
digits of the number, so that a replacement that comes later may find something in it. In `Transformers` every
transformer is an action, with `matches` for those that go through a list of matches, one `HandleMatch` each, as a
match may register a reference that the next one finds registered. A transformer that replaces a value in place may
cut off the matches below it, which the code goes on to edit, detached from the state. `Serialize` is the
rest of `transform`: an error of a transformer or a skip path that does not parse (`SkipError`) ends it; what is compared is
written as one text per key of the state, all replacements are applied to the whole text in the order of
registration (`Replaced`), to names, numbers, literals and punctuation as well, and the text is decoded again (`Rewritten`), which fails
if it is no JSON any more. What a string holds if it is read as JSON is given (`Content`, as the decoder reads
it). What Go sorts (keys, matches, items of a list, transformers) is `Ordered` by a relation on it. In `RoundTrip` the
`Recording` session does not skip; the `Verifying` one removes the skipped values before the replacements, and
`Compare` removes them from the recording, after its replacements. If a skip path does not parse, `finish` ends
before it transforms (`RejectPaths`).

**Normalize.** The recursion is a stack of calls, `todo`, which holds what is still to be done with the
depth, the addresses seen, and the place in the result (`at`). One action handles one value or one
field of a struct, in the order of the code: depth, nil, the cycle check, the kind. `WalkMap` chooses an
order of the map. Addresses are values of their own, so that two references may share one without
referring to the same thing. `Rerun` starts the test again, with fresh readers and other orders.
`Mirror` is what encoding/json makes of the value, with its rules for embedded fields.

Operators whose comment begins with "Mutant" are plausible bugs: each shows that a property notices
if the definition it stands before is replaced by it.

## 3. Runs

| Run | Shows | Bounds |
|---|---|---|
| `files` | `RecordingsSurvive`, `LoadIsGenuine`, `FilesUnderLock`, `UnreadableKept`, `WritesEnd`, types, and refinement of the store (`StoreSpec`) | 4 sessions: two of one scope, one of another scope and with a raw file, one without a path; 2 files, at first in any of the 5 forms; any number of faults. Where anything is wrong, two of the sessions (`Bounded`) |
| `files_torn_load` | *violated*: `LoadsAreWhole` | 4 sessions, no faults |
| `session` | `VerdictExact`, `RecordingComplete`, `FinishOnce`, types | 1 session, 2 keys, 2 fields, 3 scalars, every recording over 3 values, all configurations and orders of calls; 2 transformers of 4 with priorities 0 and 1 when it records, 1 when it verifies |
| `session_switched_off` | *violated*: `SwitchedOffNeverFails` | as `session` |
| `session_skipped_key` | *violated*: `SkippedKeysDropped` | as `session` |
| `runs` | `PassMeansSame`, `NothingRecordedFails`, `FilesMatchSessions`, `TestsEnd` | 2 recording tests, 1 verifying test with 3 scripts, 1 fault |
| `pasted_run` | `StateIsDocument`, `RemovesSelected`, `ChangesAreDifferences`, `PastedListPasses`, and refinement of the promise (`ReportSpec`) | 4994 pairs of nested values, with the paths of the ignore list in any order; for the smaller pairs, and for equal values, some with the text of the placeholder, also lists of up to 2 of 10 paths |
| `report_paste` | *violated*: `IgnoreListPasteable` | as `pasted_run` |
| `round_trip` | `PassIffRenamed`, `ReferencesReplaced`, `OnePlaceholder`, `PlaceholdersOrdered`, `NothingMerges`, `ReorderedPasses`, `EveryKeyReplaced`, `NestedStringsParsed`, types | 3558 tests: all pairs of 27 states with ids in 3 places, and of 16 with ids that occur in placeholders; values with quotes, backslashes, overlaps, marks of JSON and literals; lists of 3 items in 3 orders; JSON texts, timestamps, metadata; skip paths that do not parse; up to 3 transformers |
| `round_trip_skip` | *violated*: `SkippedDoesNotMatter` | 2 tests, each with one state for both runs |
| `normalize` | `Terminates`, `OnlyCyclesCut`, `MirrorsJSON`, `SameEachTime`, `DepthBounded`, types | 5480 values: all ways in which three containers refer to each other, structs with all kinds of fields; depth limit 2 |
| `normalize_embedded` | *violated*: `AlwaysTerminates` | 2 structs |

Why the bounds are enough. Two writers are what a lost update takes; two sessions of one scope and a
third one beside them are all the ways in which scopes can meet. Sessions share nothing but files, so
one session shows all that `Session` can do, and `SnapshotRun` what files add to it. The order of
transformers shows with two that do not commute (`promote` and `finalize` in `MCSession`), the
interplay of skip paths with two paths. Renaming takes two ids, swapping them three places; a cycle of
references, a shared part and both at once take three containers, and a depth limit of 2 is within
their reach, so that cycles are cut by either. The proofs lift the main results on the files, on `finish`, on what is recorded
and on the verdict to any number of sessions, files, scopes, keys, transformers and priorities, those on
`Diff` and on the pasted ignore list to any two JSON values, those on `Normalize` to any Go value, those on the skip paths to any
document and any list of paths, and those on placeholders and on documents that are written, replaced
and read to any test, any state and any list of transformers.

Named bounds: `MaxTransformers` (`Session`), `Bounded` (the constraint of `MCSession`; in `MCSnapshotFile`, that only two
of the sessions take part once something has gone wrong), `MaxFaults` and `NoRawFiles` (`SnapshotRun`), `MaxPaths`
(`SkipPaths`), `Written` and `Edits` (the lists a developer writes by hand, in `PastedRun` and `Report`; at most `MaxPaths`
paths, and for `HandPairs` of `MCPastedRun` only).

`CHECK_DEADLOCK FALSE` is in every configuration because all these systems stop: a test ends, a
removal returns.

Fairness. `WritesEnd` assumes weak fairness of `WriteStep`: a goroutine inside `writeSnapshotFile`
keeps running, and a mutex that stays free is eventually taken (each session takes it at most twice,
so weak fairness suffices). Nothing is assumed of the test: it may never end. `TestsEnd` assumes weak
fairness of the steps of a test that ends and of its `finish`. `Terminates` assumes that a call of
`Normalize` keeps running: it waits for nothing but the readers in the value.

### What the violated runs say

1. `files_torn_load`: `loadState` (session.go:593) reads the file without `fileLock`. While a parallel
   test is writing, another one can read a torn file and fail with "could not parse".
2. `report_paste`: a difference at the root of a matched value that is a scalar, or in an item of a list
   matched directly, yields the ignore paths `$..` or `$`, which are no valid paths.
3. `round_trip_skip`: if a skip path ends in a key that a reference replacement rewrites, the recorded
   value is looked for under its old name and stays, and the test fails although it observes once more what it
   has recorded.
4. `session_switched_off`: README.md:175 says that `SNAPSHOT_SKIP_ALL=1` disables verification entirely; `Match`
   reports a key without a recording all the same, and fails the test (session.go:276).
5. `session_skipped_key`: README.md:152 says that skipped values are dropped from both sides. A skip path
   that names a whole key drops it from the recording only, and the loop over the called keys reports it as
   missing (session.go:331, 372).
6. `normalize_embedded`: a struct that embeds a pointer to its own type is walked without end, as neither
   the cycle check nor the depth limit is on that path (normalize.go:199).

### Where the preconditions of properties come from

Properties of passing runs are stated for what the code does keep to. Their conditions name cases in
which it does not, and that a user of the package may want to know:

- `VerdictExact` speaks of keys matched before `finish`: a `Match` after `AssertAll` is accepted and never
  compared (session.go:260). It states the verdict of `finish`; where that, or an error of `Match`, contradicts
  the documentation, see `session_switched_off` and `session_skipped_key`.
- `PassMeansSame` leaves out tests that skip whole keys, or whose `finish` ended with an error of its own, and
  tests that use a key twice, which fail whatever they compare with.
- `RemovesSelected`: a list item that is the placeholder text itself goes with the marked ones
  (session.go:529).
- `Plain` in `PassIffRenamed` and `ReferencesReplaced`: an id that is a part of another one breaks the
  placeholder of the other one if it is found first (transformer.go:119), and of two ids in one text of which
  one ends as the other begins, the first to be replaced spoils the other. An id that occurs in the
  placeholder of an earlier one is replaced in there, too: the ids `abc` and `1` give `<id:<id:2>>` for the
  first, while `def` and `2` give `<id:1>`, so that a test in which nothing but the ids is different fails
  (transformer.go:116-119). An id that is a part of what is written around the strings (a number, a name, `null`, a comma)
  is replaced there as well and may leave no JSON (session.go:433-438). An id with a backslash is
  never found in the serialized state, and one that ends in a backslash may take that of an escaped
  quote and with it the syntax of the string (transformer.go:107). A reference value that is skipped takes a
  number, so that the placeholders of compared values depend on it (transformer.go:116). `Plain` looks at
  what a session serializes, which for a recording session includes what is skipped later. The tests of
  `MCRoundTrip` have ids of all these kinds (`DigitSetups`, `MarkSetups`, `OverlapSetups`, `BackslashSetups`,
  `SkipIdSetups`); what they come to is computed as in the code, and left open by these two properties.
- `Clean` in `NothingMerges`: a state that has `<`, `>` or a backslash in its texts may already hold what
  is taken for a placeholder.
- `ReorderedPasses` leaves out lists with a string that another item is written as (`ToldApart`): the number
  5 and the string "5" are the same to `canonicalString` (jsonutil.go:77), so that the stable sort leaves
  them in the order observed, and the test fails when they come the other way round. For what skip paths
  do after a replacement, see `round_trip_skip`.
- `EveryKeyReplaced`: lists that are items of a list are not searched (transformer.go:168).
- `NestedStringsParsed`: if there is a map or a list at the key when the transformer comes, observed or
  parsed from an embedded object, it is only searched for the key, and other JSON strings in it are left
  alone (transformer.go:399).
- `NoAliases` in `OnlyCyclesCut`: the cycle check compares bare addresses, and a pointer to the first item
  of a list, or to the first field of a struct, has the address of what it is in (normalize.go:95).
- `DistinctFields` in `MirrorsJSON`: of fields of the same name the one declared last stays, and a nil
  pointer to an embedded struct becomes a field with the value null, unlike in encoding/json
  (normalize.go:228, 202).
- `DistinctKeys` and `Drained` in `SameEachTime`: two keys with the same text overwrite one another in
  random order, and a reader used twice is empty the second time.

## 4. Proofs

All theorems are checked by TLAPS, from the assumptions of the modules (`FileAssumption`,
`SessionAssumption`, `RunAssumption`, `TextAssumption`,
`TransformerAssumption`, `ContentAssumption`, `RoundTripAssumption`, `NameAssumption`,
`ReportAssumption`, `PairsAssumption`, `SkipAssumption`, `NormalizeAssumption`, `HeapAssumption`), which say what kind of sets and functions
the constants are, that a raw file is never a snapshot file (it is for base paths `x` and `x.raw`, as the
suffixes are `.raw.snapshot.json` and `.snapshot.json`, session.go:49), that there is a key and a
field, that the snapshot key is a name, that what is compared or edited, or comes out of a `Marshaler`, is a JSON value (`IsTree`), and that a Go
value refers to finitely many others. Of transformers they say that what a test observes is a finite JSON
value, that what transformers are given are texts and symbols and their priorities integers, that
strings are ordered by a rank of their symbols, that the quote, the backslash and the blank are different symbols and
neither digits nor marks of JSON, and that a text which is JSON is longer than
the strings in it, so that parsing strings ends.

Much of the code is loops over lists: transformers in the order of priority, the keys that were
called, the levels of a document. Facts about them take induction over data. The library's induction
theorems, which take an operator, cannot be instantiated, but its least-element theorem for a
well-founded relation can, as it speaks of sets: it gives that a set of numbers
which has 0 and the successors of its elements has all numbers (`SetInduction`), the same up to a
bound (`UpTo`), and that a loop has a function of its values (`LoopFunction`). `JsonPath_proofs` and
`Session_proofs` start with these, as the two have nothing else in common.

`JsonPath_proofs` then has the facts about `JsonPath` that the proofs about paths, changes and results
share: positions, what is above and what is below; that a document stays one if a part of it is replaced
(`GraftFits`) or taken out (`WithoutTree`); what a well-formed path is parsed into (`ParsedSegments`),
and that `find` is a loop over its segments that goes from values to their children (`FindAt`,
`FindNext`, `SelectsChildren`).

`SnapshotFile_proofs` works with the invariant `IInv == TypeOK /\ FilesUnderLock` of `AnySpec`, which
has all steps, faults included, and which both `Spec` and `FaultySpec` refine. The parts of
`FilesUnderLock` are what makes it inductive: the lock is held exactly by the session in the critical
section (`LockInv`), which has a file (`PathInv`); what it has read is what is still on disk
(`ReadInv`), which is why writing back loses nothing; a file is unreadable from truncation to
completion (`FormInv`); every recording in sight was written to its end (`GenuineInv`), for loads; and
no session writes twice (`OnceInv`), for the refinement. From it follow

- `TypeCorrect`, `LockDiscipline`, `LoadsGenuine`, `UnreadableStays`;
- `ImplementsStore`: under the mapping `StoreOf` (a file that is being rewritten stands for what its
  writer has read) every step, a fault included, is a `Begin`, a `Record`, a `Lose`, a `Fail` or a stutter. A write that fails
  once the file is truncated is a `Lose`, of that file, by the session that has failed with it; a failure before that loses nothing;
- `NoRecordingLost`, for which the abstract store does the work: `Held` is kept by every step of it but a `Lose`
  in the same file.

`Session_proofs` shows in `EveryStep` that a step of a session leaves every other session and every
finished one alone; `FinishesOnce` and `OnlyUpdateSaves` follow.

It then proves what comes out of `finish`, from `OutcomeInv`, which says of every session: its variables
have their types, with the transformers in the order of `RunsBefore` (`TypeInv`); the called keys are the
observed ones, and `final` has what they were when `finish` began (`CallsInv`); in each part of
`finish`, what has been computed is the value that `final` determines, so that the order of the parts
does not matter to what comes next (`PhaseInv`); and the outcome, a recording (`RecordInv`) or an error
or a result for every key (`VerdictInv`, `KeyVerdict`). Beside it stand the lemmas on the loops: the
sorted list is the only one in that order (`PlacesAll`, `SortedPuts`), a pass over it does what the
promised chain of transformers does (`MakesPromised`, `RewrittenPromised`, `RewrittenExact`), and the
loop over the called keys compares each of them (`SelectedAt`, `ComparedKeys`). `Whole` is needed because
a variable is updated at one session at a time, which says nothing unless it is a function. From it
follow `SessionTypes`, `RecordsAll` and `VerdictPromised`; the last two state the outcome once more in the
words of the properties, which define it from the calls and not from the code (`RecordingCarried`,
`ComparisonCarried`).

`SnapshotRun_proofs` shows that a run only does to files what `SnapshotFile` describes
(`RunUsesFiles`), and then takes over its invariants (`RunKeepsFiles`). `SessionsMatchFiles` is about both
sides at once: `RunInv` says that a session whose write is under way waits in `finish` at the place for
its kind (`Waits`), that it has its raw file behind it when it comes to the snapshot file (`RawFirst`),
and has something to save (`HasState`); with that, a step that completes a write and a step that takes
it for done are the same one (`Matches`).

Its second part puts files and sessions together. `VerdictInv` says of a session that what it has
saved is what it had matched, transformed (`SavedInv`); of one that verifies, that what it compares with
is what the other has saved, and until it compares every error of it is about a value that the other
had not recorded (`Early`, `AgainstInv`); and of one without a recording, that every call has been
reported (`NobodyInv`). A test that starts finds such a recording (`OpenVerdict`), which takes all that
was proved of the files: a torn file holds nothing, a load is genuine, only snapshots are written where
snapshots are read (`Places`), and what is written was saved (`FilesMatchSessions`). `EqualWhereKept` is
why removing skipped fields on both sides leaves the comparison of the others. `VerdictIsTrue` and
`NoRecordingNoPass` follow.

`RoundTrip_proofs` shows `OneEach` and `NumbersTellApart` from `ContextInv`: every number was handed out by
its scope (`NumbersHandedOut`), and every reference pattern is among those seen (`PatternsSeen`), so
that the next ones are new. What the transformers do to the state does not matter to it.

`TransformersKeepDocuments` is about what they do to the state. `StateInv` says that it is a finite
document of strings, numbers and literals after every step, and there is one lemma for each way to change
it: a value is replaced by another one (`GraftFits`, as for results); a list is sorted, one list after
the other, deepest first, which permutes what is below its items; a string is parsed, and the strings
in it, which is an induction over the depth of texts in one another (`RankedInduction`); or a value becomes
the text that it is written as (`MarshalledAt`). At the end the state is written, replaced and read. Whatever the
replacements have made of the text, the decoder either refuses it or has read a document: `Readings` says of what it has read after
any number of symbols that it is a document, and that the place at which it reads is one where a value fits
(`InPlaceOf`); every kind of symbol keeps that (`ReadSymbolKeeps`), and a second field of the same name replaces
the first with everything below it (`PutDocument`). From the documents under the keys comes that of the state (`ContainerDocument`).
`SessionInv` adds that replacements are of texts by texts (`RegisteredTexts`), for which the matches that a transformer
still has to go through must be of values that are in the state (`MatchesThere`, with `FindInOrderType` and
`KeyValueMatchesType` for where matches come from), and that what was returned is what was read (`Returned`).

`Report_proofs` is about `ReportSpec`, in which the next run removes its paths at once. It shows `DiffIsExact`. `Diff` goes from the root down as long as both sides have the same
container; a difference is reported where the walk stops. Of a position at which the documents differ,
take the shortest beginning at which they do (`LeastNumber`): everything above it is the same on both
sides, hence a container on both (`Around`), hence the walk gets there (`DifferencesReached`); and what
the walk reports has nothing different above it (`OutermostOnly`).

`PastingPasses` follows a change to the next run. Its invariant, `PasteInv`, only says that the list is that
of the changes; the work is in what printing, parsing, finding and removing do with it. The loop of
`formatJSONPath` is taken round by round (`FormatAt`): the tokens are always selectors behind one or two dots
(`Spells`), and they match a value on the way to the change, which after a single dot is the one the loop
has come to (`Leads`); an index only makes a recursive descent of the dots (`IndexPassed`), and a key is
found below what the dots lead to (`KeyFound`). Read again, such tokens are a path with as many segments
(`SpelledParsed`), so that it selects the change, a value around it, or for an item its list or a
value around that (`PathNames`). A path without indices also selects other values. That does no
harm, as it selects the same ones on both sides: what it selects depends on the nodes above a value, and on
the number of items of the lists among them (`FindNear`), and where these differ, a path of the list
has taken the list away (`OneSide`). So both states lose the same values, their lists are closed up in the same way,
and no difference stays (`PastedSame`); nor is the matched value itself gone, as no path names its
key (`ValueStays`).

`Normalize_proofs` shows `DepthIsBounded`, which is about positions of the result: one that is deeper than the limit
(and the mark that stands there) is inside the JSON of a value that brought its own, a `json.RawMessage` or a `Marshaler` (normalize.go:62-82), which
`Normalize` takes as it is. `DeepInv` says that whatever is that deep is below such values within the limit (`OwnedBy`), and
that no pending call puts anything into them (`AllOutside`). Beside it, a call is as deep as its place in the result is
long: a call that is too deep makes no calls, any other one makes calls that are deeper by as much as their
place is longer, and embedded fields are as deep as the struct. A value that is placed over what another one
left takes the place of the whole (`Graft`).

`AlwaysDocument` is about the place in the result. `TreeInv` says that the result is a document at every
moment; that the container a pending call writes into is in it, of the kind that goes with the last
element of its place, with all the items of a list there from the start (`PlaceFor`); and that no pending
call writes over or above the container of a later one (`Spares`, in `Placed`). The last part is what
makes it inductive: a value replaces what is at its place with everything below (`GraftFits`), and the
calls a value makes are the parts of one container, none below another (`PartsPlaced`), in front of calls
that it spares (`Continued`). Fields of embedded structs write into the container of the outer one,
which is why `Spares` tells fields from values.

`OnlyCyclesAreCut` is about what `normalizeValue` hands down as `seen`. `SeenInv` says that every address in
it is that of a reference that leads to what the call is about (`Explained`); it is kept because the
parts of a value are called with what the value has seen, and with its own address only. That a value is
reached through a chain of parts however long is what `Reachable` must have: it takes as many steps as
there are values, and each of them adds a value or there is nothing to add (`ReachableFacts`). If then the
address of a value has been seen, the reference it belongs to has the same parts (`NoAliases`), and so
the value leads to itself.

`SkipPaths_proofs` is about `RemovalSpec`, any number of calls of `removeSkipVerificationPaths` with any states and lists, and rests on one
invariant. However many paths have been handled, the state is the original
with all that they select in it marked at once (`SkipInv`, `Handled`): fields are gone, items are the
placeholder. A path therefore selects, of what is left, what it would have selected at first
(`FindMarked`): an item that is marked keeps its place, so that lists keep their lengths, which is what
negative indices count from; what is marked is no container, so that nothing below it is selected;
and whatever is left has everything above it left (`MarkedAbove`). Marking again what is left is marking
together (`MarkedAgain`). That is why the paths are independent, and it fails if a path closes lists up at
once. The end is one step: closing lists up takes the marked items, and those that look like one,
out of the original (`RemovedTogether`), and what comes out is a document (`WithoutTree`), as the new
indices of the items that stay are again different from one another and without gaps (`ClosingUp`,
`NewIndices`, `MovedApart`). `AlwaysClosed` and `PathsIndependent` follow.

Model-checked only: the liveness properties `WritesEnd`, `TestsEnd` and `Terminates` (liveness under
fairness is beyond the prover); that finish, which removes paths one by one, does what `Report` promises of the next
run (`ReportSpec` of `PastedRun`); of `RoundTrip` everything about what replacements make of a text
(`PassIffRenamed`, `ReferencesReplaced`, `NothingMerges`), as an occurrence may begin in a string and end outside of it, which needs an
account of every text that can be written; what a transformer on its own achieves (`EveryKeyReplaced`, `NestedStringsParsed`), which needs that
reading undoes writing, and sorting (`ReorderedPasses`); of `Normalize` the
agreement with encoding/json and from run to run (`MirrorsJSON`, `SameEachTime`), which compare whole walks
with one another.

## 5. Not modelled

- Tests of several packages that share a file through `WithBaseFilePath`: two processes with a lock each,
  and so no lock between them; nothing would be left to state.
- Callbacks (a `MarshalJSON`, a `MatchFn`) that call their own session: they are code of the test, and wait
  for `mu` forever.
- The text, layout and colours of reports, the order of the changes in them (`sortChanges`),
  `DEBUG_SNAPSHOT`, the default wording of replacements (`camelToHyphen`): formatting.
- The regular expressions of timestamps and transformers: a pattern is the set of texts it matches. An expression
  that matches the empty text is only modelled alone (`ReplaceTexts`).
- `MatchFn` and `ReplacementFn` of a `KeyValue` transformer: the first is a set of names and values with one part of a
  string that it returns, the second is a constant text.
- The formats of numbers, times and map keys in `Normalize`, and what a `Marshaler` writes: given with the
  value. `normalizeMap` is the walk over a map once more. A `json:"-,"` tag counts as `-`, as in the code
  (normalize.go:218), and the option `,string` is not there; encoding/json takes both otherwise.
- `encoding/json`: `JsonText` has of it what the properties need. Numbers are natural numbers in decimal, and the quote and the
  backslash are the only characters that are escaped.
- The location of the test file (`callerBaseFilePath`): a session has a path or none.

## 6. Plan

The order of the development, all of it done:

1. `SnapshotStore`, `SnapshotFile` and their proofs.
2. `Session` and its proofs.
3. `SnapshotRun` and its proofs.
4. `JsonPath`, `SkipPaths`, `Report`, their proofs, and `PastedRun`.
5. `JsonText`, `TransformContext`, `Transformers`, `RoundTrip` and their proofs.
6. `Normalize` and its proofs.
7. The proofs that take induction: the outcome of a session, `Diff`, documents, skip paths, the pasted
   ignore list, and the documents that transformers make and the decoder reads.

What could follow: that reading undoes writing, and with it a proof of `EveryKeyReplaced` and `NestedStringsParsed`; a model of two
processes, should the files get a lock of their own.

------------------------------ MODULE Session ------------------------------
(***************************************************************************)
(* Sessions (session.go): what the calls of a test do to its session, and  *)
(* the verdict or the recording that finish makes of them.                 *)
(*                                                                         *)
(* A snapshot value is a function from the field names that occur in it to *)
(* scalars; a field that is not there is Gone.  A skip path is the name it *)
(* ends in, as in "$..name": it selects the fields and the snapshot keys   *)
(* of that name.  The files are behind the ok of WriteRaw and Save.        *)
(***************************************************************************)
EXTENDS Naturals, Sequences, SequencesExt

CONSTANTS
    Session,        \* the sessions
    Key,            \* the keys given to Match
    Field,          \* the names of the fields inside snapshot values
    Scalar,         \* the values of the fields
    Gone,           \* the value of a field that is not there
    BadPath,        \* a skip path that does not parse
    Transformer,    \* the transformers a test may add
    Rewrite,        \* Rewrite[t]: what transformer t makes of every scalar
    Late,           \* the transformers that register a serialized replacement
    Rejects,        \* the transformers that report an error on their input
    Configs,        \* the environments and options of New
    Recordings,     \* the recordings New may find
    Docs,           \* the values a test may pass to Match
    PathSets,       \* the arguments it may pass to SkipVerifyPaths
    Priorities,     \* the priorities of its transformers
    MaxTransformers \* bound: how many transformers it registers

\* The value of a key that is not there, which is no document.
NoDoc == [x \in {} |-> x]

Doc == [Field -> Scalar \cup {Gone}]
State == [Key -> Doc \cup {NoDoc}]
Empty == [k \in Key |-> NoDoc]
SkipPath == Key \cup Field \cup {BadPath}

\* What New decides from the environment and its options.
Config == [update : BOOLEAN, verify : BOOLEAN, raw : BOOLEAN]

ASSUME SessionAssumption ==
    /\ Gone \notin Scalar
    /\ Key # {} /\ Field # {}
    /\ BadPath \notin Key \cup Field
    /\ Rewrite \in [Transformer -> [Scalar -> Scalar]]
    /\ Late \subseteq Transformer
    /\ Rejects \subseteq Transformer
    /\ Configs \subseteq Config
    /\ Recordings \subseteq State
    /\ Docs \subseteq Doc
    /\ PathSets \subseteq SUBSET SkipPath
    /\ Priorities \subseteq Nat
    /\ MaxTransformers \in Nat

VARIABLES
    phase,          \* "new", "open", or the part of finish that holds mu
    config,         \* config[s]: a Config
    calledKeys,     \* the keys of the calls of Match, in order
    observed,       \* the values of these calls
    recorded,       \* the recording to compare with
    transformers,   \* the registered transformers
    skipPaths,      \* skipVerificationPaths
    verifyDisabled, \* SkipVerify was called
    results,        \* the comparison results
    done,           \* finish has run
    errors,         \* the <<kind, key>> pairs of the calls of t.Errorf
    rawSaved,       \* what was written to the raw file, or NoDoc
    saved,          \* what was written to the snapshot file, or NoDoc
    ended,          \* the cleanup of the test has run
    final           \* history: the session when finish first ran, or NoDoc

calls == <<calledKeys, observed, transformers, skipPaths, verifyDisabled>>
outcome == <<recorded, results, rawSaved, saved>>
vars == <<phase, config, calls, outcome, done, errors, ended, final>>

Init ==
    /\ phase = [s \in Session |-> "new"]
    /\ config = [s \in Session |-> [update |-> FALSE, verify |-> TRUE, raw |-> FALSE]]
    /\ calledKeys = [s \in Session |-> <<>>]
    /\ observed = [s \in Session |-> Empty]
    /\ recorded = [s \in Session |-> Empty]
    /\ transformers = [s \in Session |-> <<>>]
    /\ skipPaths = [s \in Session |-> {}]
    /\ verifyDisabled = [s \in Session |-> FALSE]
    /\ results = [s \in Session |-> <<>>]
    /\ done = [s \in Session |-> FALSE]
    /\ errors = [s \in Session |-> {}]
    /\ rawSaved = [s \in Session |-> NoDoc]
    /\ saved = [s \in Session |-> NoDoc]
    /\ ended = [s \in Session |-> FALSE]
    /\ final = [s \in Session |-> NoDoc]

Fail(s, kind, keys) ==
    errors' = [errors EXCEPT ![s] = @ \cup {<<kind, k>> : k \in keys}]

-----------------------------------------------------------------------------
(* The calls of the test.  Each holds mu from its first line to its last.  *)

\* New, with the recording that loadState has found or WithRecordedState presets;
\* a failed load has already failed the test.
New(s, cfg, recording, loadFailed) ==
    /\ phase[s] = "new"
    /\ phase' = [phase EXCEPT ![s] = "open"]
    /\ config' = [config EXCEPT ![s] = cfg]
    /\ recorded' = [recorded EXCEPT ![s] = recording]
    /\ Fail(s, "load", IF loadFailed THEN {NoDoc} ELSE {})
    /\ UNCHANGED <<calls, results, rawSaved, saved, done, ended, final>>

Called(s) == ToSet(calledKeys[s])

\* Mutant of Match: a key may be used twice.
MatchTwice(s, key, doc) ==
    /\ phase[s] = "open"
    /\ calledKeys' = [calledKeys EXCEPT ![s] = Append(@, key)]
    /\ observed' = [observed EXCEPT ![s][key] = doc]
    /\ Fail(s, "unrecorded",
            IF ~config[s].update /\ recorded[s][key] = NoDoc THEN {key} ELSE {})
    /\ UNCHANGED <<phase, config, transformers, skipPaths, verifyDisabled,
                   outcome, done, ended, final>>

Match(s, key, doc) ==
    /\ phase[s] = "open"
    /\ IF key \in Called(s)
       THEN /\ Fail(s, "duplicate", {key})
            /\ UNCHANGED <<calledKeys, observed>>
       ELSE /\ calledKeys' = [calledKeys EXCEPT ![s] = Append(@, key)]
            /\ observed' = [observed EXCEPT ![s][key] = doc]
            /\ Fail(s, "unrecorded",
                    IF ~config[s].update /\ recorded[s][key] = NoDoc THEN {key} ELSE {})
    /\ UNCHANGED <<phase, config, transformers, skipPaths, verifyDisabled,
                   outcome, done, ended, final>>

\* (A nil transformer is ignored: a call that changes nothing.)
AddTransformer(s, t, prio) ==
    /\ phase[s] = "open"
    /\ transformers' = [transformers EXCEPT ![s] =
           Append(@, [transformer |-> t, priority |-> prio, order |-> Len(@)])]
    /\ UNCHANGED <<phase, config, calledKeys, observed, skipPaths, verifyDisabled,
                   outcome, done, errors, ended, final>>

SkipVerify(s) ==
    /\ phase[s] = "open"
    /\ verifyDisabled' = [verifyDisabled EXCEPT ![s] = TRUE]
    /\ UNCHANGED <<phase, config, calledKeys, observed, transformers, skipPaths,
                   outcome, done, errors, ended, final>>

SkipVerifyPaths(s, paths) ==
    /\ phase[s] = "open"
    /\ skipPaths' = [skipPaths EXCEPT ![s] = @ \cup paths]
    /\ UNCHANGED <<phase, config, calledKeys, observed, transformers, verifyDisabled,
                   outcome, done, errors, ended, final>>

-----------------------------------------------------------------------------
(* What finish computes. *)

\* Mutant of RemoveSkipped: only whole keys disappear.
RemoveKeys(state, paths) == [k \in Key |-> IF k \in paths THEN NoDoc ELSE state[k]]

\* removeSkipVerificationPaths: the named values disappear, also where another
\* path does not parse.
RemoveSkipped(state, paths) ==
    [k \in Key |->
        IF k \in paths \/ state[k] = NoDoc
        THEN NoDoc
        ELSE [f \in Field |-> IF f \in paths THEN Gone ELSE state[k][f]]]

\* ... which is an error, unless there is nothing to remove from.
SkipError(state, paths) == BadPath \in paths /\ state # Empty

\* Mutant of Sorted: registration order alone.
Unsorted(registered) == registered

\* Whether transform runs registration x before registration y.
RunsBefore(x, y) ==
    \/ x.priority < y.priority
    \/ x.priority = y.priority /\ x.order < y.order

\* sortedTransformers: the registrations, rearranged.
Sorted(registered) ==
    LET n == Len(registered)
        place == CHOOSE q \in [1..n -> 1..n] :
                    \A i, j \in 1..n :
                       i < j => RunsBefore(registered[q[i]], registered[q[j]])
    IN  [i \in 1..n |-> registered[place[i]]]

\* One pass over a scalar, in the order of the sequence, of what the transformers in
\* active make of it.
Pass(v, registered, active) ==
    LET after[i \in 0..Len(registered)] ==
            IF i = 0 THEN v
            ELSE IF registered[i].transformer \in active
            THEN Rewrite[registered[i].transformer][after[i-1]]
            ELSE after[i-1]
    IN  after[Len(registered)]

\* First the state is rewritten, then its serialized form, by the replacements
\* that were registered meanwhile.
Rewritten(v, registered) ==
    IF v = Gone
    THEN Gone
    ELSE Pass(Pass(v, Sorted(registered), Transformer \ Late), Sorted(registered), Late)

\* transform, without the errors.
Transformed(state, registered) ==
    [k \in Key |->
        IF state[k] = NoDoc
        THEN NoDoc
        ELSE [f \in Field |-> Rewritten(state[k][f], registered)]]

-----------------------------------------------------------------------------
(* finish, one action per part that calls out or may return. *)

\* The head of finish, up to transform.  A session without a call of Match has nothing
\* to finish.
FinishHead(s) ==
    /\ done' = [done EXCEPT ![s] = TRUE]
    /\ final' = [final EXCEPT ![s] =
           [called |-> calledKeys[s], observed |-> observed[s],
            recorded |-> recorded[s], transformers |-> transformers[s],
            skipPaths |-> skipPaths[s], verifyDisabled |-> verifyDisabled[s]]]
    /\ IF observed[s] = Empty
       THEN UNCHANGED <<phase, recorded, errors>>
       ELSE LET broken == ~config[s].update /\ SkipError(recorded[s], skipPaths[s])
            IN  /\ recorded' = [recorded EXCEPT ![s] =
                       IF config[s].update THEN @ ELSE RemoveSkipped(@, skipPaths[s])]
                /\ Fail(s, "path", IF broken THEN {NoDoc} ELSE {})
                /\ phase' = [phase EXCEPT ![s] =
                       IF broken THEN "open"
                       ELSE IF config[s].raw THEN "raw" ELSE "transform"]
    /\ UNCHANGED <<config, calls, results, rawSaved, saved>>

\* Mutant of Begin: finish does not look at done.
BeginAgain(s) == FinishHead(s)

\* finish is a no-op the second time.
Begin(s) ==
    IF done[s]
    THEN UNCHANGED <<phase, config, calls, outcome, done, errors, final>>
    ELSE FinishHead(s)

\* finish is called by the test ...
AssertAll(s) ==
    /\ phase[s] = "open"
    /\ Begin(s)
    /\ UNCHANGED ended

\* ... and by t.Cleanup, once, when the test is over.
Cleanup(s) ==
    /\ phase[s] = "open"
    /\ ~ended[s]
    /\ ended' = [ended EXCEPT ![s] = TRUE]
    /\ Begin(s)

\* transform writes the raw file first; a failure ends finish.
WriteRaw(s, ok) ==
    /\ phase[s] = "raw"
    /\ phase' = [phase EXCEPT ![s] = IF ok THEN "transform" ELSE "open"]
    /\ rawSaved' = [rawSaved EXCEPT ![s] = IF ok THEN observed[s] ELSE @]
    /\ Fail(s, "raw", IF ok THEN {} ELSE {NoDoc})
    /\ UNCHANGED <<config, calls, recorded, results, saved, done, ended, final>>

\* The rest of transform: a transformer that has reported an error, or a skip path
\* that does not parse, ends finish.
Transform(s) ==
    /\ phase[s] = "transform"
    /\ LET rejected == \E i \in DOMAIN transformers[s] :
                          transformers[s][i].transformer \in Rejects
           broken == ~config[s].update /\ SkipError(observed[s], skipPaths[s])
           kept == IF config[s].update THEN observed[s]
                   ELSE RemoveSkipped(observed[s], skipPaths[s])
       IN  IF rejected \/ broken
           THEN /\ phase' = [phase EXCEPT ![s] = "open"]
                /\ Fail(s, "transform", {NoDoc})
                /\ UNCHANGED observed
           ELSE /\ phase' = [phase EXCEPT ![s] =
                       IF config[s].update THEN "save" ELSE "compare"]
                /\ observed' = [observed EXCEPT ![s] = Transformed(kept, transformers[s])]
                /\ UNCHANGED errors
    /\ UNCHANGED <<config, calledKeys, transformers, skipPaths, verifyDisabled,
                   outcome, done, ended, final>>

\* Mutant of Save: a failed write counts as a recording.
SaveAlways(s, ok) ==
    /\ phase[s] = "save"
    /\ phase' = [phase EXCEPT ![s] = "open"]
    /\ saved' = [saved EXCEPT ![s] = observed[s]]
    /\ Fail(s, "write", IF ok THEN {} ELSE {NoDoc})
    /\ UNCHANGED <<config, calls, recorded, results, rawSaved, done, ended, final>>

\* persist
Save(s, ok) ==
    /\ phase[s] = "save"
    /\ phase' = [phase EXCEPT ![s] = "open"]
    /\ saved' = [saved EXCEPT ![s] = IF ok THEN observed[s] ELSE @]
    /\ Fail(s, "write", IF ok THEN {} ELSE {NoDoc})
    /\ UNCHANGED <<config, calls, recorded, results, rawSaved, done, ended, final>>

\* Mutant of Off: SkipVerify is forgotten.
OffByConfig(s) == ~config[s].verify

\* Verification is switched off, by SNAPSHOT_SKIP_ALL, an option or SkipVerify.
Off(s) == ~config[s].verify \/ verifyDisabled[s]

\* The keys that are in known, in the order of the calls.
Selected(keys, known) ==
    LET taken[i \in 0..Len(keys)] ==
            IF i = 0 THEN <<>>
            ELSE IF keys[i] \in known THEN Append(taken[i-1], keys[i])
            ELSE taken[i-1]
    IN  taken[Len(keys)]

\* The comparison, key by key in the order of the calls.  Diff reports a change
\* exactly if the two values differ.
Compare(s) ==
    /\ phase[s] = "compare"
    /\ phase' = [phase EXCEPT ![s] = "open"]
    /\ LET known == {k \in Called(s) : recorded[s][k] # NoDoc}
           compared == Selected(calledKeys[s], known)
       IN  IF Off(s)
           THEN UNCHANGED <<results, errors>>
           ELSE IF recorded[s] = Empty
           THEN /\ Fail(s, "empty", {NoDoc})
                /\ UNCHANGED results
           ELSE /\ results' = [results EXCEPT ![s] =
                       [i \in DOMAIN compared |->
                           [key |-> compared[i],
                            expected |-> recorded[s][compared[i]],
                            actual |-> observed[s][compared[i]]]]]
                /\ errors' = [errors EXCEPT ![s] = @
                       \cup {<<"missing", k>> : k \in Called(s) \ known}
                       \cup {<<"parity", k>> :
                              k \in {x \in known : recorded[s][x] # observed[s][x]}}]
    /\ UNCHANGED <<config, calls, recorded, rawSaved, saved, done, ended, final>>

-----------------------------------------------------------------------------
\* The calls of a test, in any order and from any of its goroutines, until its
\* cleanup has run.  (Transformers, paths and SkipVerify that come after finish are
\* left out: nothing reads them any more.)
TestCall(s) ==
    /\ ~ended[s]
    /\ \/ \E key \in Key, doc \in Docs : Match(s, key, doc)
       \/ AssertAll(s)
       \/ /\ ~done[s]
          /\ \/ /\ Len(transformers[s]) < MaxTransformers
                /\ \E t \in Transformer, prio \in Priorities : AddTransformer(s, t, prio)
             \/ SkipVerify(s)
             \/ \E paths \in PathSets : SkipVerifyPaths(s, paths)

\* The files may fail at any time: New then finds no recording and has failed the
\* test, a write of finish returns an error.
Next ==
    \E s \in Session :
        \/ \E cfg \in Configs :
              \/ \E recording \in Recordings : New(s, cfg, recording, FALSE)
              \/ New(s, cfg, Empty, TRUE)
        \/ TestCall(s)
        \/ Cleanup(s)
        \/ \E ok \in BOOLEAN : WriteRaw(s, ok) \/ Save(s, ok)
        \/ Transform(s)
        \/ Compare(s)

Spec == Init /\ [][Next]_vars

-----------------------------------------------------------------------------
(* Properties. *)

Entry(state) == state \in State \cup {NoDoc}

Registration == [transformer : Transformer, priority : Priorities, order : Nat]

TypeOK ==
    /\ phase \in [Session -> {"new", "open", "raw", "transform", "save", "compare"}]
    /\ config \in [Session -> Config]
    /\ \A s \in Session :
        /\ ToSet(calledKeys[s]) \subseteq Key
        /\ IsInjective(calledKeys[s])
        /\ ToSet(transformers[s]) \subseteq Registration
        /\ \A i \in DOMAIN results[s] :
              results[s][i] \in [key : Key, expected : Doc, actual : Doc]
        /\ Entry(rawSaved[s]) /\ Entry(saved[s])
    /\ observed \in [Session -> State]
    /\ recorded \in [Session -> State]
    /\ skipPaths \in [Session -> SUBSET SkipPath]
    /\ verifyDisabled \in [Session -> BOOLEAN]
    /\ done \in [Session -> BOOLEAN]
    /\ ended \in [Session -> BOOLEAN]

Kinds(s) == {e[1] : e \in errors[s]}

\* finish has run, and returned.
Finished(s) == done[s] /\ phase[s] = "open"

IsLate(r) == r.transformer \in Late

\* The order the documentation promises: "transformers run in ascending priority
\* order (default 0), registration order breaks ties", replacements afterwards.
Precedes(x, y) ==
    \/ ~IsLate(x) /\ IsLate(y)
    \/ /\ IsLate(x) <=> IsLate(y)
       /\ \/ x.priority < y.priority
          \/ x.priority = y.priority /\ x.order < y.order

\* w is what the registered transformers make of v in the promised order: the
\* values in between form a chain from v to w.
Promised(v, w, registered) ==
    LET n == Len(registered)
    IN  \E q \in [1..n -> 1..n], chain \in [0..n -> Scalar] :
            /\ \A i \in 1..n-1 : Precedes(registered[q[i]], registered[q[i+1]])
            /\ chain[0] = v /\ chain[n] = w
            /\ \A i \in 1..n :
                  chain[i] = Rewrite[registered[q[i]].transformer][chain[i-1]]

\* The value old of a Match stands as new in the recording: the same fields, each
\* transformed as promised; fields in except are not looked at.
Carried(old, new, registered, except) ==
    \A f \in Field \ except :
        \/ old[f] = Gone /\ new[f] = Gone
        \/ /\ old[f] # Gone /\ new[f] # Gone
           /\ Promised(old[f], new[f], registered)

\* UPDATE_SNAPSHOT=y records everything that was matched before finish, and nothing
\* else: skipped paths "are still recorded", a path that does not parse is not even
\* looked at, and neither SkipVerify nor SNAPSHOT_SKIP_ALL keeps it from recording.
\* Only an error stops it, and then nothing is written to the snapshot file.
RecordingComplete ==
    \A s \in Session :
        Finished(s) /\ config[s].update =>
            IF Kinds(s) \cap {"raw", "transform", "write"} # {}
               \/ final[s].observed = Empty
            THEN saved[s] = NoDoc
            ELSE /\ saved[s] # NoDoc
                 /\ \A k \in Key :
                       \/ final[s].observed[k] = NoDoc /\ saved[s][k] = NoDoc
                       \/ /\ final[s].observed[k] # NoDoc /\ saved[s][k] # NoDoc
                          /\ Carried(final[s].observed[k], saved[s][k],
                                     final[s].transformers, {})

\* The verdict of finish on the keys that were matched before it.  It is exact: a key is
\* compared exactly if the recording has it and no skip path names it, and it is reported
\* as different exactly if a field that is not skipped is not what the transformers
\* make of it, in their promised order.  Every other key is reported as missing (of a key
\* that is recorded and skipped, the documentation says otherwise: SkippedKeysDropped).
\* If verification is off, finish compares nothing and reports none of this (what Match
\* has reported before: SwitchedOffNeverFails).  A test that verifies never writes.
VerdictExact ==
    \A s \in Session :
        Finished(s) /\ ~config[s].update =>
            /\ saved[s] = NoDoc
            /\ ~config[s].verify \/ final[s].verifyDisabled =>
                 /\ results[s] = <<>>
                 /\ Kinds(s) \cap {"parity", "missing", "empty"} = {}
            /\ config[s].verify /\ ~final[s].verifyDisabled
               /\ Kinds(s) \cap {"path", "raw", "transform"} = {} =>
                 \A k \in ToSet(final[s].called) :
                   LET old == final[s].recorded[k]
                       comparable == old # NoDoc /\ k \notin final[s].skipPaths
                       equal == Carried(final[s].observed[k], old, final[s].transformers,
                                        final[s].skipPaths)
                   IN  /\ comparable <=> \E i \in DOMAIN results[s] : results[s][i].key = k
                       /\ <<"parity", k>> \in errors[s] <=> comparable /\ ~equal
                       /\ ~comparable <=> \/ <<"missing", k>> \in errors[s]
                                          \/ "empty" \in Kinds(s)

\* README.md:175: SNAPSHOT_SKIP_ALL=1 is to "disable snapshot verification entirely", so
\* that nothing the recording holds or lacks fails a test; but Match (session.go:276)
\* reports a key that is not recorded before anything looks at verify.
SwitchedOffNeverFails ==
    \A s \in Session :
        ~config[s].verify /\ ~config[s].update =>
            Kinds(s) \cap {"unrecorded", "empty", "missing", "parity"} = {}

\* README.md:152: what a skip path matches is "dropped from both sides before comparing",
\* so that a recorded key it names is not missed; but finish drops it from the recording
\* (session.go:331) and goes through the keys of the calls of Match all the same
\* (session.go:372).
SkippedKeysDropped ==
    \A s \in Session :
        Finished(s) /\ ~config[s].update =>
            \A k \in ToSet(final[s].called) \cap final[s].skipPaths :
                final[s].recorded[k] # NoDoc =>
                    <<"missing", k>> \notin errors[s] /\ "empty" \notin Kinds(s)

\* "Calling it more than once, or after the test ended, is a no-op": once finish has
\* returned, neither AssertAll nor the cleanup changes the verdict, compares with a
\* recording from which skipped paths are already gone, or writes a file again.
FinishOnce ==
    [][\A s \in Session :
         Finished(s) =>
            /\ phase'[s] = "open"
            /\ recorded'[s] = recorded[s] /\ results'[s] = results[s]
            /\ rawSaved'[s] = rawSaved[s] /\ saved'[s] = saved[s]]_vars
=============================================================================

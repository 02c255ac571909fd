---------------------------- MODULE SnapshotRun ----------------------------
(***************************************************************************)
(* Runs of go test: the sessions of module Session, on the files of module *)
(* SnapshotFile.  The sessions of RecordRun belong to a first run with     *)
(* UPDATE_SNAPSHOT=y, all the others to a run that follows and verifies.   *)
(* Within a run the tests are parallel.  A test makes the calls of its     *)
(* script, and may end before the last of them (t.FailNow, a panic).  At   *)
(* most MaxFaults reads and writes fail and processes die.                 *)
(*                                                                         *)
(* A step that both modules describe is the conjunction of their actions.  *)
(***************************************************************************)
EXTENDS Session

CONSTANTS
    Path, NoPath, Scope, PathOf, RawPathOf, ScopeOf, RawSession, InitialForms,
    Earlier, Nobody,
    RecordRun,      \* the sessions of the run that records
    Scripts,        \* Scripts[s]: the possible calls of the test of session s
    EarlierState,   \* EarlierState[k]: the recording of scope k from earlier runs
    MaxFaults       \* bound: how many faults may happen

VARIABLES
    form, disk, fileLock, pc, target, existing, view, loadErrors, written,
    script,         \* script[s]: the calls of the test of session s
    pos,            \* pos[s]: the next of them
    faults          \* how many faults have happened

F == INSTANCE SnapshotFile

\* The calls a test may make.
Calls ==
    [op : {"match"}, key : Key, doc : Doc]
    \cup [op : {"transform"}, transformer : Transformer]
    \cup [op : {"skip"}, paths : SUBSET SkipPath]

\* (A raw file is another test's snapshot file only for base paths x and x.raw.)
ASSUME RunAssumption ==
    /\ F!FileAssumption
    /\ RecordRun \subseteq Session
    /\ \A r, s \in Session : PathOf[s] \in Path => RawPathOf[r] # PathOf[s]
    /\ \A s \in Session : Scripts[s] \subseteq Seq(Calls)

files == <<form, disk, fileLock, pc, target, existing, view, loadErrors, written>>
runVars == <<vars, files, script, pos, faults>>

\* The runs start without raw files (to bound the initial states).
NoRawFiles == \A s \in Session, p \in Path : p = RawPathOf[s] => form[p] = "absent"

RunInit ==
    /\ Init
    /\ F!Init
    /\ NoRawFiles
    /\ script \in [Session -> UNION {Scripts[s] : s \in Session}]
    /\ \A s \in Session : script[s] \in Scripts[s]
    /\ pos = [s \in Session |-> 1]
    /\ faults = 0

Dead(s) == pc[s] = "dead"
Over(s) == Dead(s) \/ (ended[s] /\ phase[s] = "open")

\* One more fault, of the bounded number.
Faulty == faults < MaxFaults /\ faults' = faults + 1

ConfigOf(s) == [update |-> s \in RecordRun, verify |-> TRUE, raw |-> s \in RawSession]

\* Mutant of LoadedState: without a recording, the one of an earlier run.
LoadedOrEarlier(s) ==
    LET x == view'[s] IN IF x \in Session THEN saved[x] ELSE EarlierState[ScopeOf[s]]

\* What the file content that s loads stands for.
LoadedState(s) ==
    LET x == view'[s]
    IN  IF x \in Session THEN saved[x]
        ELSE IF x = Earlier THEN EarlierState[ScopeOf[s]] ELSE Empty

\* A test of the second run starts when the first run is over.
Open(s) ==
    /\ s \notin RecordRun => \A r \in RecordRun : Over(r)
    /\ \/ F!Load(s) /\ UNCHANGED faults
       \/ F!LoadError(s) /\ Faulty
    /\ New(s, ConfigOf(s), LoadedState(s), loadErrors' # loadErrors)
    /\ UNCHANGED <<script, pos>>

\* The next call of the script.
Call(s) ==
    /\ ~Dead(s) /\ ~ended[s]
    /\ pos[s] <= Len(script[s])
    /\ LET c == script[s][pos[s]]
       IN  \/ c.op = "match" /\ Match(s, c.key, c.doc)
           \/ c.op = "transform" /\ AddTransformer(s, c.transformer, 0)
           \/ c.op = "skip" /\ SkipVerifyPaths(s, c.paths)
    /\ pos' = [pos EXCEPT ![s] = @ + 1]
    /\ UNCHANGED <<files, script, faults>>

\* A step of finish that touches no file.
Compute(s) ==
    /\ ~Dead(s)
    /\ Cleanup(s) \/ Transform(s) \/ Compare(s)
    /\ UNCHANGED <<files, script, pos, faults>>

\* finish calls persistRaw or persist, once each ...
StartWrite(s) ==
    /\ phase[s] = IF target[s] = "raw" THEN "raw" ELSE "save"
    /\ F!BeginWrite(s)
    /\ IF pc'[s] = "failed" THEN WriteRaw(s, FALSE) \/ Save(s, FALSE) ELSE UNCHANGED vars
    /\ UNCHANGED <<script, pos, faults>>

\* ... which runs while the session waits ...
WriteFile(s) ==
    /\ F!Lock(s) \/ F!ReadExisting(s) \/ F!Truncate(s) \/ F!WritePart(s)
    /\ UNCHANGED <<vars, script, pos, faults>>

\* ... and returns to it.
Written(s) ==
    /\ F!Complete(s)
    /\ WriteRaw(s, TRUE) \/ Save(s, TRUE)
    /\ UNCHANGED <<script, pos, faults>>

NotWritten(s) ==
    /\ \/ F!RejectTorn(s) /\ UNCHANGED faults
       \/ F!WriteError(s) /\ Faulty
    /\ WriteRaw(s, FALSE) \/ Save(s, FALSE)
    /\ UNCHANGED <<script, pos>>

\* The test binary is killed.  (A file that holds null is left to SnapshotFile.)
Crash == F!Crash /\ Faulty /\ UNCHANGED <<vars, script, pos>>

FinishStep(s) == Compute(s) \/ StartWrite(s) \/ WriteFile(s) \/ Written(s) \/ NotWritten(s)

RunNext == Crash \/ \E s \in Session : Open(s) \/ Call(s) \/ FinishStep(s)

\* A test that has started ends, and its finish keeps running.
RunSpec ==
    /\ RunInit /\ [][RunNext]_runVars
    /\ \A s \in Session : WF_runVars(FinishStep(s))

-----------------------------------------------------------------------------
(* Properties. *)

\* What session s has compared with was recorded by session r.
Against(s, r) == view[s] = r /\ r \in Session

\* What a call of Match becomes in a recording, with the transformers of s.
AsRecorded(s, r, k) == Transformed(final[s].observed, final[r].transformers)[k]

\* Everything together: a test that ran to its end passes exactly if some whole
\* recording of its own scope stood in the file and every value it has matched
\* was, but for the skipped fields, the same when that recording was made.
PassMeansSame ==
    \A s \in Session \ RecordRun : \A r \in Session :
        ended[s] /\ Finished(s) /\ ~Dead(s) /\ Against(s, r)
        /\ final[s].skipPaths \cap (Key \cup {BadPath}) = {}
        /\ Kinds(s) \cap {"raw", "transform", "duplicate"} = {} =>
            (errors[s] = {} <=>
                \A k \in ToSet(final[s].called) :
                    /\ final[r].observed[k] # NoDoc
                    /\ \A x \in Field \ final[s].skipPaths :
                         AsRecorded(s, s, k)[x] = AsRecorded(r, r, k)[x])

\* A test of which no recording could be read never passes silently.
NothingRecordedFails ==
    \A s \in Session \ RecordRun :
        ended[s] /\ Finished(s) /\ ~Dead(s) /\ view[s] = Nobody
        /\ final[s].called # <<>> => errors[s] # {}

\* What the snapshot file holds for a scope is what its session has saved; with raw,
\* the raw file was written before (never the one without the other).
FilesMatchSessions ==
    \A s \in Session :
        /\ <<s, PathOf[s]>> \in written <=> saved[s] # NoDoc
        /\ <<s, RawPathOf[s]>> \in written <=> rawSaved[s] # NoDoc
        /\ saved[s] # NoDoc /\ s \in RawSession => rawSaved[s] # NoDoc

\* The files of a run behave as module SnapshotFile describes them.
FilesSpec == F!Init /\ [][F!Next \/ F!Fault]_files

\* Every test that has begun to end does end, whoever holds the lock and whatever
\* write fails before it.
TestsEnd == \A s \in Session : phase[s] = "open" ~> Over(s)
=============================================================================

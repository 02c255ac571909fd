---------------------------- MODULE SnapshotFile ----------------------------
(***************************************************************************)
(* The snapshot files of a package and the sessions of its parallel tests  *)
(* that load them (Session.loadState) and write them                       *)
(* (Session.writeSnapshotFile), at the grain of the system calls: the      *)
(* read-modify-write cycle runs under the global fileLock, the load does   *)
(* not, and os.WriteFile truncates the file before it writes it.           *)
(*                                                                         *)
(* The content of a recording is abstracted to the session that made it.   *)
(***************************************************************************)
EXTENDS Naturals

CONSTANTS
    Session,        \* the sessions of the test binary
    Path,           \* the snapshot files and the raw snapshot files
    NoPath,         \* the path of a session whose test file is unknown
    Scope,          \* the scope keys (test names)
    PathOf,         \* filePath of every session
    RawPathOf,      \* rawFilePath of every session
    ScopeOf,        \* scopeKey of every session
    RawSession,     \* the sessions with SNAPSHOT_RAW or WithRaw
    InitialForms,   \* the forms a file may have before the tests start
    Earlier,        \* a recording made before the tests start
    Nobody          \* no recording, no lock holder

\* What the bytes of a file are to a reader: no file, nothing but blanks, bytes that
\* do not begin with a JSON object, the literal null, an object with one entry per
\* scope.
Form == {"absent", "blank", "torn", "null", "json"}

ASSUME FileAssumption ==
    /\ NoPath \notin Path
    /\ PathOf \in [Session -> Path \cup {NoPath}]
    /\ RawPathOf \in [Session -> Path \cup {NoPath}]
    /\ ScopeOf \in [Session -> Scope]
    /\ \A s \in Session : PathOf[s] \in Path => RawPathOf[s] # PathOf[s]
    /\ RawSession \subseteq Session
    /\ InitialForms \subseteq Form
    /\ {Earlier, Nobody} \cap Session = {}
    /\ Earlier # Nobody

VARIABLES
    form,       \* form[p]: what the bytes of file p are
    disk,       \* disk[p][k]: whose recording the readable file p holds under k
    fileLock,   \* the session inside the critical section
    pc,         \* where every session stands
    target,     \* the file kind the next write of a session goes to
    existing,   \* existing[s]: the file content session s has read to extend it
    view,       \* view[s]: whose recording session s has loaded
    loadErrors, \* the sessions whose load has failed their test
    written     \* the <<session, file>> pairs of the writes that succeeded

vars == <<form, disk, fileLock, pc, target, existing, view, loadErrors, written>>

Recording == Session \cup {Earlier, Nobody}
Content == [Scope -> Recording]
NoScopes == [k \in Scope |-> Nobody]

Critical == {"locked", "read", "truncated", "partial"}
Writing == {"truncated", "partial"}
Ended == {"closed", "recorded", "failed", "dead"}
Broken == {"failed", "dead"}
Live == {"ready", "waiting"} \cup Critical

\* The file session s writes next: persistRaw comes before persist.
At(s) == IF target[s] = "raw" THEN RawPathOf[s] ELSE PathOf[s]

TypeOK ==
    /\ form \in [Path -> Form]
    /\ disk \in [Path -> Content]
    /\ fileLock \in Session \cup {Nobody}
    /\ pc \in [Session -> {"new"} \cup Live \cup Ended]
    /\ target \in [Session -> {"raw", "snapshot"}]
    /\ existing \in [Session -> Content]
    /\ view \in [Session -> Recording]
    /\ loadErrors \subseteq Session
    /\ written \subseteq Session \X Path

Init ==
    /\ form \in [Path -> InitialForms]
    /\ disk \in [Path -> [Scope -> {Earlier, Nobody}]]
    /\ \A p \in Path : form[p] # "json" => disk[p] = NoScopes
    /\ fileLock = Nobody
    /\ pc = [s \in Session |-> "new"]
    /\ target = [s \in Session |-> IF s \in RawSession THEN "raw" ELSE "snapshot"]
    /\ existing = [s \in Session |-> NoScopes]
    /\ view = [s \in Session |-> Nobody]
    /\ loadErrors = {}
    /\ written = {}

Go(s, to) == pc' = [pc EXCEPT ![s] = to]

-----------------------------------------------------------------------------
(* New: loadState reads the file without the lock.  (os.ReadFile is one step: a file    *)
(* that fits into one read.  A longer one may also change between two reads of it.)     *)

\* What a load of file p finds under the scope of session s.
Loaded(s) ==
    IF PathOf[s] \in Path THEN disk[PathOf[s]][ScopeOf[s]] ELSE Nobody

Load(s) ==
    /\ pc[s] = "new"
    /\ Go(s, "ready")
    /\ view' = [view EXCEPT ![s] = Loaded(s)]
    /\ loadErrors' = IF PathOf[s] \in Path /\ form[PathOf[s]] = "torn"
                     THEN loadErrors \cup {s} ELSE loadErrors
    /\ UNCHANGED <<form, disk, fileLock, target, existing, written>>

-----------------------------------------------------------------------------
(* finish: either nothing is written, or writeSnapshotFile runs. *)

Close(s) ==
    /\ pc[s] = "ready"
    /\ Go(s, "closed")
    /\ UNCHANGED <<form, disk, fileLock, target, existing, view, loadErrors, written>>

\* writeSnapshotFile is called; a session without a path fails before the lock.
BeginWrite(s) ==
    /\ pc[s] = "ready"
    /\ Go(s, IF At(s) = NoPath THEN "failed" ELSE "waiting")
    /\ UNCHANGED <<form, disk, fileLock, target, existing, view, loadErrors, written>>

\* Mutant of Lock: writeSnapshotFile does not wait for the lock.
LockAtOnce(s) ==
    /\ pc[s] = "waiting"
    /\ fileLock' = s
    /\ Go(s, "locked")
    /\ UNCHANGED <<form, disk, target, existing, view, loadErrors, written>>

Lock(s) ==
    /\ pc[s] = "waiting"
    /\ fileLock = Nobody
    /\ fileLock' = s
    /\ Go(s, "locked")
    /\ UNCHANGED <<form, disk, target, existing, view, loadErrors, written>>

\* os.ReadFile and unmarshalMap: a missing or blank file is an empty object.
ReadExisting(s) ==
    /\ pc[s] = "locked"
    /\ form[At(s)] \in {"absent", "blank", "json"}
    /\ existing' = [existing EXCEPT ![s] = disk[At(s)]]
    /\ Go(s, "read")
    /\ UNCHANGED <<form, disk, fileLock, target, view, loadErrors, written>>

\* Mutant of RejectTorn: the write tries again until the file parses.
RetryTorn(s) ==
    /\ pc[s] = "locked"
    /\ form[At(s)] = "torn"
    /\ UNCHANGED vars

\* "existing snapshot file is not valid JSON": the write gives up and unlocks.
RejectTorn(s) ==
    /\ pc[s] = "locked"
    /\ form[At(s)] = "torn"
    /\ fileLock' = Nobody
    /\ Go(s, "failed")
    /\ UNCHANGED <<form, disk, target, existing, view, loadErrors, written>>

\* The process ends: every session under way is gone, the lock with it.
Die ==
    /\ pc' = [s \in Session |-> IF pc[s] \in Live THEN "dead" ELSE pc[s]]
    /\ fileLock' = Nobody
    /\ UNCHANGED <<form, disk, target, existing, view, loadErrors, written>>

\* A file that holds null decodes to a nil map, and the assignment to it panics.
NilMapPanic(s) ==
    /\ pc[s] = "locked"
    /\ form[At(s)] = "null"
    /\ Die

\* Mutant of Truncate: the lock is released before the file is written.
TruncateUnlocked(s) ==
    /\ pc[s] = "read"
    /\ form' = [form EXCEPT ![At(s)] = "blank"]
    /\ disk' = [disk EXCEPT ![At(s)] = NoScopes]
    /\ fileLock' = Nobody
    /\ Go(s, "truncated")
    /\ UNCHANGED <<target, existing, view, loadErrors, written>>

\* os.WriteFile opens the file with O_TRUNC ...
Truncate(s) ==
    /\ pc[s] = "read"
    /\ form' = [form EXCEPT ![At(s)] = "blank"]
    /\ disk' = [disk EXCEPT ![At(s)] = NoScopes]
    /\ Go(s, "truncated")
    /\ UNCHANGED <<fileLock, target, existing, view, loadErrors, written>>

\* Mutant of WritePart: the entries are written one by one, as readable files.
WriteOwnFirst(s) ==
    /\ pc[s] = "truncated"
    /\ form' = [form EXCEPT ![At(s)] = "json"]
    /\ disk' = [disk EXCEPT ![At(s)][ScopeOf[s]] = s]
    /\ Go(s, "partial")
    /\ UNCHANGED <<fileLock, target, existing, view, loadErrors, written>>

\* ... some bytes of it arrive ...
WritePart(s) ==
    /\ pc[s] = "truncated"
    /\ form' = [form EXCEPT ![At(s)] = "torn"]
    /\ Go(s, "partial")
    /\ UNCHANGED <<disk, fileLock, target, existing, view, loadErrors, written>>

\* Mutant of Full: the file is replaced by an object with the own scope.
OwnObject(s) == [k \in {ScopeOf[s]} |-> s]

\* The object that is written: what was read, with the own scope replaced.
Full(s) == [existing[s] EXCEPT ![ScopeOf[s]] = s]

\* ... and the rest; the write returns and unlocks.  After the raw file the
\* session goes on, and may write its snapshot file next.
Complete(s) ==
    /\ pc[s] \in Writing
    /\ form' = [form EXCEPT ![At(s)] = "json"]
    /\ disk' = [disk EXCEPT ![At(s)] = Full(s)]
    /\ written' = written \cup {<<s, At(s)>>}
    /\ fileLock' = Nobody
    /\ Go(s, IF target[s] = "raw" THEN "ready" ELSE "recorded")
    /\ target' = [target EXCEPT ![s] = "snapshot"]
    /\ UNCHANGED <<existing, view, loadErrors>>

-----------------------------------------------------------------------------
(* Faults. *)

\* Mutants of WriteError: a failed write removes the file, keeps the lock, or is not
\* reported.
RemoveOnError(s) ==
    /\ pc[s] \in Critical
    /\ form' = [form EXCEPT ![At(s)] = "absent"]
    /\ disk' = [disk EXCEPT ![At(s)] = NoScopes]
    /\ fileLock' = Nobody
    /\ Go(s, "failed")
    /\ UNCHANGED <<target, existing, view, loadErrors, written>>

KeepLock(s) ==
    /\ pc[s] \in Critical
    /\ Go(s, "failed")
    /\ UNCHANGED <<form, disk, fileLock, target, existing, view, loadErrors, written>>

IgnoreError(s) ==
    /\ pc[s] \in Critical
    /\ fileLock' = Nobody
    /\ Go(s, "recorded")
    /\ UNCHANGED <<form, disk, target, existing, view, loadErrors, written>>

\* A system call fails under the lock: ReadFile, MkdirAll, or WriteFile before,
\* while or after it has written something.  The file stays as it is.
WriteError(s) ==
    /\ pc[s] \in Critical
    /\ fileLock' = Nobody
    /\ Go(s, "failed")
    /\ UNCHANGED <<form, disk, target, existing, view, loadErrors, written>>

\* ReadFile of loadState fails; the session goes on with an empty recording.
LoadError(s) ==
    /\ pc[s] = "new"
    /\ PathOf[s] \in Path
    /\ Go(s, "ready")
    /\ loadErrors' = loadErrors \cup {s}
    /\ UNCHANGED <<form, disk, fileLock, target, existing, view, written>>

\* The test binary is killed.  The sessions still "new" are those of a next run.
Crash ==
    /\ \E s \in Session : pc[s] \in Live
    /\ Die

-----------------------------------------------------------------------------
\* One call of writeSnapshotFile, from the lock to its return.
WriteStep(s) ==
    \/ Lock(s)
    \/ ReadExisting(s)
    \/ RejectTorn(s)
    \/ NilMapPanic(s)
    \/ Truncate(s)
    \/ WritePart(s)
    \/ Complete(s)

Step(s) ==
    \/ Load(s)
    \/ Close(s)
    \/ BeginWrite(s)
    \/ WriteStep(s)

Next == \E s \in Session : Step(s)

Fault == Crash \/ \E s \in Session : WriteError(s) \/ LoadError(s)

\* A goroutine that has called writeSnapshotFile keeps running: whenever it can
\* take a step of its own it does.  Whether a session is opened or finished at
\* all is up to the test.
Fairness == \A s \in Session : WF_vars(WriteStep(s))

Spec == Init /\ [][Next]_vars /\ Fairness

FaultySpec == Init /\ [][Next \/ Fault]_vars /\ Fairness

-----------------------------------------------------------------------------
(* Properties. *)

\* A file that some session is between truncating and completing.
InFlight(p) == \E s \in Session : pc[s] \in Writing /\ At(s) = p

\* fileLock is held by the one session that is inside writeSnapshotFile ...
LockInv == \A s \in Session : pc[s] \in Critical <=> fileLock = s

\* ... which has a file to write ...
PathInv == \A s \in Session : pc[s] \in {"waiting"} \cup Critical => At(s) \in Path

\* ... whose content cannot change between the read and the write ...
ReadInv ==
    \A s \in Session :
        pc[s] = "read" =>
            /\ form[At(s)] \in {"absent", "blank", "json"}
            /\ existing[s] = disk[At(s)]

\* ... and which is unreadable from its truncation to its last byte.
FormInv ==
    /\ \A s \in Session : pc[s] \in Writing => form[At(s)] \in {"blank", "torn"}
    /\ \A p \in Path : form[p] # "json" => disk[p] = NoScopes

\* Every recording in sight was written to its end, for its own scope.
GenuineIn(content, p) ==
    \A k \in Scope :
        content[k] \in Session =>
            ScopeOf[content[k]] = k /\ <<content[k], p>> \in written

GenuineInv ==
    /\ \A p \in Path : GenuineIn(disk[p], p)
    /\ \A s \in Session : pc[s] \in {"read"} \cup Writing => GenuineIn(existing[s], At(s))

\* No session writes a file twice (finish runs once).
OnceInv ==
    \A s \in Session :
        pc[s] # "recorded" =>
            /\ <<s, PathOf[s]>> \notin written
            /\ target[s] = "raw" => <<s, RawPathOf[s]>> \notin written

\* The files under the lock: mutual exclusion of the read-modify-write cycles and
\* what each of their steps may rely on, even with write errors and crashes.
FilesUnderLock == LockInv /\ PathInv /\ ReadInv /\ FormInv /\ GenuineInv /\ OnceInv

\* A write to file p has failed, or the process of a session that was about to do so
\* has died.
Spoiled(p) == \E s \in Session : pc[s] \in Broken /\ At(s) = p

\* A recording made by a parallel test survives the writes of all the others:
\* in a file nobody is writing, and no write of which has failed, the scope of every
\* session that has recorded there holds a recording of that scope made by one of
\* these sessions (fileLock covers the whole read-modify-write cycle).
RecordingsSurvive ==
    \A s \in Session, p \in Path :
        <<s, p>> \in written /\ ~InFlight(p) /\ ~Spoiled(p) =>
            /\ form[p] = "json"
            /\ \E x \in Session : /\ ScopeOf[x] = ScopeOf[s]
                                  /\ <<x, p>> \in written
                                  /\ disk[p][ScopeOf[s]] = x

\* What a session compares with was recorded under its own scope of its own file,
\* by a write that ran to its end (loadState never takes over half a recording).
LoadIsGenuine ==
    \A s \in Session :
        view[s] \in Session =>
            /\ ScopeOf[view[s]] = ScopeOf[s]
            /\ <<view[s], PathOf[s]>> \in written

\* fileLock "serializes the read-modify-write cycles on snapshot files, which
\* parallel tests of the same package would otherwise race on": no session fails
\* its test because it found a snapshot file half-written.
LoadsAreWhole == loadErrors = {}

\* A file that cannot be parsed (a merge conflict, a write cut short) is never
\* overwritten: the recordings in it can still be rescued by hand.
UnreadableKept ==
    [][\A p \in Path : form[p] = "torn" /\ ~InFlight(p) => form'[p] = "torn"]_vars

\* Every call of writeSnapshotFile returns, whatever fails in it: no error path
\* keeps the lock and leaves the other tests of the package waiting for it.
WritesEnd ==
    \A s \in Session : pc[s] = "waiting" ~> pc[s] \in {"ready"} \cup Ended

\* The store the files implement: while a file is being rewritten it stands for
\* the content the writer has read from it.
StoreOf(p) ==
    IF fileLock \in Session /\ pc[fileLock] \in Writing /\ At(fileLock) = p
    THEN existing[fileLock]
    ELSE disk[p]

Store == INSTANCE SnapshotStore WITH
    store <- [p \in Path |-> StoreOf(p)],
    writing <- {<<s, At(s)>> : s \in {x \in Session : pc[x] \in Writing}},
    failed <- {s \in Session : pc[s] \in Broken}

\* Writes take effect one after the other, each once and on its own scope only; and a
\* write error or a crash loses nothing but the one file that was being written, and
\* only if the session that was writing it fails.
StoreSpec == Store!Spec
=============================================================================

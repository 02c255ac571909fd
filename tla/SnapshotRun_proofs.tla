------------------------- MODULE SnapshotRun_proofs -------------------------
(***************************************************************************)
(* The sessions of a run use the files only in the ways that module        *)
(* SnapshotFile describes, whatever their tests call, and what the verdict *)
(* of a verifying run says about the run that recorded.                    *)
(***************************************************************************)
EXTENDS SnapshotRun, TLAPS

\* The theorems on the files, for the files of a run.
P == INSTANCE SnapshotFile_proofs

FilesNext == F!Next \/ F!Fault

\* Every step of a run is a step of the files, or leaves them alone.
LEMMA FilesStep == [RunNext]_runVars => [FilesNext]_files
  <1> SUFFICES ASSUME [RunNext]_runVars PROVE [FilesNext]_files
    OBVIOUS
  <1> USE DEF FilesNext
  <1>1. CASE Crash
    BY <1>1 DEF Crash, F!Fault
  <1>2. ASSUME NEW s \in Session, Open(s) PROVE FilesNext
    BY <1>2 DEF Open, F!Next, F!Step, F!Fault
  <1>3. ASSUME NEW s \in Session, Call(s) \/ Compute(s) PROVE UNCHANGED files
    BY <1>3 DEF Call, Compute
  <1>4. ASSUME NEW s \in Session, StartWrite(s) PROVE FilesNext
    BY <1>4 DEF StartWrite, F!Next, F!Step
  <1>5. ASSUME NEW s \in Session, WriteFile(s) \/ Written(s) PROVE FilesNext
    BY <1>5 DEF WriteFile, Written, F!Next, F!Step, F!WriteStep
  <1>6. ASSUME NEW s \in Session, NotWritten(s) PROVE FilesNext
    BY <1>6 DEF NotWritten, F!Next, F!Step, F!WriteStep, F!Fault
  <1>7. CASE UNCHANGED runVars
    BY <1>7 DEF runVars
  <1> QED
    BY <1>1, <1>2, <1>3, <1>4, <1>5, <1>6, <1>7 DEF RunNext, FinishStep

\* A run refines the specification of the files, so that everything proved of all
\* behaviours of the files holds in every run.
THEOREM RunUsesFiles == RunSpec => FilesSpec
  <1>1. RunInit => F!Init
    BY DEF RunInit
  <1> QED
    BY <1>1, FilesStep, PTL DEF RunSpec, FilesSpec, FilesNext

\* In every run, tests that crash and writes that fail included, the files obey the
\* lock discipline, and no test compares with half a recording or with another test's.
THEOREM RunKeepsFiles == RunSpec => [](F!FilesUnderLock /\ F!LoadIsGenuine)
  <1>1. P!FileAssumption
    BY RunAssumption DEF F!FileAssumption, P!FileAssumption, F!Form, P!Form
  <1>2. F!Init => P!Init
    BY DEF F!Init, P!Init, F!NoScopes, P!NoScopes
  <1>3. [FilesNext]_files => [P!AnyStep]_(P!vars)
    BY DEF FilesNext, files, P!AnyStep, F!Next, P!Next, F!Fault, P!Fault,
        F!Step, P!Step, F!WriteStep, P!WriteStep, F!Load, P!Load,
        F!Loaded, P!Loaded, F!Close, P!Close, F!BeginWrite,
        P!BeginWrite, F!Lock, P!Lock, F!ReadExisting, P!ReadExisting,
        F!RejectTorn, P!RejectTorn, F!NilMapPanic, P!NilMapPanic,
        F!Truncate, P!Truncate, F!WritePart, P!WritePart, F!Full,
        P!Full, F!Complete, P!Complete, F!WriteError, P!WriteError,
        F!LoadError, P!LoadError, F!Crash, P!Crash, F!Die, P!Die,
        F!Go, P!Go, F!At, P!At, F!NoScopes, P!NoScopes, F!Live,
        P!Live, F!Critical, P!Critical, F!Writing, P!Writing, F!vars,
        P!vars
  <1>4. P!IInv /\ P!LoadIsGenuine => F!FilesUnderLock /\ F!LoadIsGenuine
    BY DEF P!IInv, F!FilesUnderLock, P!FilesUnderLock, F!LockInv,
        P!LockInv, F!PathInv, P!PathInv, F!ReadInv, P!ReadInv,
        F!FormInv, P!FormInv, F!GenuineIn, P!GenuineIn, F!GenuineInv,
        P!GenuineInv, F!OnceInv, P!OnceInv, F!LoadIsGenuine,
        P!LoadIsGenuine, F!At, P!At, F!Critical, P!Critical,
        F!Writing, P!Writing, F!NoScopes, P!NoScopes
  <1>5. P!AnySpec => []P!IInv
    BY <1>1, P!AnyInv, PTL
  <1>6. P!AnySpec => []P!LoadIsGenuine
    BY <1>1, P!LoadsGenuine, PTL
  <1> QED
    BY <1>2, <1>3, <1>4, <1>5, <1>6, RunUsesFiles, PTL
    DEF FilesSpec, FilesNext, P!AnySpec

-----------------------------------------------------------------------------
(* What a session has saved is what its files have been given.             *)

\* The variables that decide about a write have one value per session.
Shape ==
    /\ DOMAIN phase = Session
    /\ DOMAIN observed = Session
    /\ DOMAIN rawSaved = Session
    /\ DOMAIN saved = Session
    /\ DOMAIN pc = Session
    /\ DOMAIN target = Session

\* A session that writes a file waits for it in finish, at the place for its kind ...
Waits(s) ==
    pc[s] \in {"waiting"} \cup F!Critical =>
        /\ phase[s] = IF target[s] = "raw" THEN "raw" ELSE "save"
        /\ F!At(s) \in Path

\* ... has its raw file behind it when it comes to the snapshot file ...
RawFirst(s) == s \in RawSession /\ target[s] # "raw" => rawSaved[s] # NoDoc

\* ... has something to save ...
HasState(s) == DOMAIN observed[s] = Key

\* ... and takes a write for done exactly when it is.
Matches(s) ==
    /\ <<s, PathOf[s]>> \in written <=> saved[s] # NoDoc
    /\ <<s, RawPathOf[s]>> \in written <=> rawSaved[s] # NoDoc
    /\ saved[s] # NoDoc /\ s \in RawSession => rawSaved[s] # NoDoc

SessionInv(s) == Waits(s) /\ RawFirst(s) /\ HasState(s) /\ Matches(s)

RunInv == Shape /\ \A s \in Session : SessionInv(s)

\* A state is something.
LEMMA StateIsSomething == ASSUME NEW state, DOMAIN state = Key PROVE state # NoDoc
  BY SessionAssumption DEF NoDoc

\* No session writes its snapshot file as its raw file.
LEMMA FilesDiffer ==
    ASSUME NEW s \in Session, F!At(s) \in Path
    PROVE  PathOf[s] # RawPathOf[s]
  BY RunAssumption DEF F!FileAssumption, F!At

\* Before the tests start nothing is written and nothing saved.
LEMMA RunInitInv == RunInit => RunInv
  <1> SUFFICES ASSUME RunInit PROVE RunInv
    OBVIOUS
  <1> USE DEF RunInit, Init, F!Init
  <1>1. Shape
    BY DEF Shape
  <1>2. ASSUME NEW s \in Session PROVE SessionInv(s)
    BY DEF SessionInv, Waits, RawFirst, HasState, Matches, Empty, F!Critical
  <1> QED
    BY <1>1, <1>2 DEF RunInv

\* A step of one session.
Only(s) ==
    /\ \A x \in Session \ {s} :
          /\ phase'[x] = phase[x] /\ observed'[x] = observed[x]
          /\ rawSaved'[x] = rawSaved[x] /\ saved'[x] = saved[x]
          /\ pc'[x] = pc[x] /\ target'[x] = target[x]
    /\ \A x \in Session \ {s}, p \in Path \cup {NoPath} :
          <<x, p>> \in written' <=> <<x, p>> \in written

\* It is enough to look at that session.
LEMMA OneSession ==
    ASSUME RunInv, NEW s \in Session, Shape', Only(s), SessionInv(s)'
    PROVE  RunInv'
  <1>1. ASSUME NEW x \in Session \ {s} PROVE SessionInv(x)'
    <2>1. PathOf[x] \in Path \cup {NoPath} /\ RawPathOf[x] \in Path \cup {NoPath}
      BY RunAssumption DEF F!FileAssumption
    <2> QED
      BY <2>1 DEF Only, RunInv, SessionInv, Waits, RawFirst, HasState, Matches, F!At
  <1> QED
    BY <1>1 DEF RunInv

\* A test that starts has saved nothing.
LEMMA OpenStep == ASSUME RunInv, NEW s \in Session, Open(s) PROVE RunInv'
  <1> USE DEF RunInv, Shape, Open, New, calls, F!Load, F!LoadError, F!Go
  <1>1. Shape' /\ Only(s)
    BY DEF Only
  <1>2. SessionInv(s)'
    BY DEF SessionInv, Waits, RawFirst, HasState, Matches, F!Critical
  <1> QED
    BY <1>1, <1>2, OneSession

\* A call of the test comes when no write is under way, and keeps the state a state.
LEMMA CallStep == ASSUME RunInv, NEW s \in Session, Call(s) PROVE RunInv'
  <1> USE DEF RunInv, Shape, files
  <1>1. UNCHANGED <<phase, rawSaved, saved, pc, target, written>>
    BY DEF Call, Match, AddTransformer, SkipVerifyPaths, outcome
  <1>2. DOMAIN observed' = Session /\ DOMAIN observed'[s] = Key
        /\ \A x \in Session \ {s} : observed'[x] = observed[x]
    BY DEF Call, Match, AddTransformer, SkipVerifyPaths, SessionInv, HasState
  <1>3. Shape' /\ Only(s)
    BY <1>1, <1>2 DEF Only
  <1>4. SessionInv(s)'
    BY <1>1, <1>2 DEF SessionInv, Waits, RawFirst, HasState, Matches, F!At
  <1> QED
    BY <1>3, <1>4, OneSession

\* What finish computes it computes when no write is under way.
LEMMA ComputeStep == ASSUME RunInv, NEW s \in Session, Compute(s) PROVE RunInv'
  <1> USE DEF RunInv, Shape, files, calls, outcome
  <1>1. UNCHANGED <<rawSaved, saved, pc, target, written>>
    BY DEF Compute, Cleanup, Begin, FinishHead, Transform, Compare
  <1>2. phase[s] \notin {"raw", "save"}
    BY DEF Compute, Cleanup, Transform, Compare
  <1>3. DOMAIN observed' = Session /\ DOMAIN observed'[s] = Key
        /\ \A x \in Session \ {s} : observed'[x] = observed[x]
    BY DEF Compute, Cleanup, Begin, FinishHead, Transform, Transformed, Compare,
           SessionInv, HasState
  <1>4. DOMAIN phase' = Session /\ \A x \in Session \ {s} : phase'[x] = phase[x]
    BY DEF Compute, Cleanup, Begin, FinishHead, Transform, Compare
  <1>5. Shape' /\ Only(s)
    BY <1>1, <1>3, <1>4 DEF Only
  <1>6. SessionInv(s)'
    BY <1>1, <1>2, <1>3 DEF SessionInv, Waits, RawFirst, HasState, Matches
  <1> QED
    BY <1>5, <1>6, OneSession

\* A write that did not come to its end is none to its session.
Unsaved(s) ==
    /\ DOMAIN rawSaved' = Session /\ DOMAIN saved' = Session /\ DOMAIN phase' = Session
    /\ \A x \in Session : rawSaved'[x] = rawSaved[x] /\ saved'[x] = saved[x]
    /\ \A x \in Session \ {s} : phase'[x] = phase[x]
    /\ observed' = observed

LEMMA NotSaved ==
    ASSUME Shape, NEW s \in Session, WriteRaw(s, FALSE) \/ Save(s, FALSE)
    PROVE  Unsaved(s)
  <1>1. CASE WriteRaw(s, FALSE)
    BY <1>1 DEF Shape, WriteRaw, Unsaved, calls
  <1>2. CASE Save(s, FALSE)
    BY <1>2 DEF Shape, Save, Unsaved, calls
  <1> QED
    BY <1>1, <1>2

\* Then nothing changes but where the session stands.
LEMMA GiveUp ==
    ASSUME RunInv, NEW s \in Session, Unsaved(s), F!Go(s, "failed"),
           UNCHANGED <<target, written>>
    PROVE  RunInv'
  <1> USE DEF RunInv, Shape, Unsaved, F!Go
  <1>1. Shape' /\ Only(s)
    BY DEF Only
  <1>2. SessionInv(s)'
    BY DEF SessionInv, Waits, RawFirst, HasState, Matches, F!Critical
  <1> QED
    BY <1>1, <1>2, OneSession

\* A write that begins has its place in finish; one without a path returns at once.
LEMMA StartStep == ASSUME RunInv, NEW s \in Session, StartWrite(s) PROVE RunInv'
  <1> USE DEF StartWrite, F!BeginWrite
  <1>1. CASE F!At(s) = NoPath
    <2>1. pc'[s] = "failed"
      BY <1>1 DEF F!Go, RunInv, Shape
    <2>2. Unsaved(s)
      BY <2>1, NotSaved DEF RunInv
    <2> QED
      BY <1>1, <2>2, GiveUp
  <1>2. CASE F!At(s) # NoPath
    <2> USE <1>2 DEF RunInv, Shape, F!Go
    <2>1. F!At(s) \in Path
      BY RunAssumption DEF F!FileAssumption, F!At
    <2>2. UNCHANGED vars
      OBVIOUS
    <2>3. UNCHANGED <<phase, observed, rawSaved, saved>>
      BY <2>2 DEF vars, calls, outcome
    <2>4. Shape' /\ Only(s)
      BY <2>3 DEF Only
    <2>5. SessionInv(s)'
      BY <2>1, <2>3 DEF SessionInv, Waits, RawFirst, HasState, Matches, F!At
    <2> QED
      BY <2>4, <2>5, OneSession
  <1> QED
    BY <1>1, <1>2

\* While the write runs, its session waits.
LEMMA WriteStep == ASSUME RunInv, NEW s \in Session, WriteFile(s) PROVE RunInv'
  <1> USE DEF RunInv, Shape
  <1>1. UNCHANGED <<phase, observed, rawSaved, saved, target, written>>
    BY DEF WriteFile, vars, calls, outcome, F!Lock, F!ReadExisting, F!Truncate, F!WritePart
  <1>2. pc[s] \in {"waiting"} \cup F!Critical
    BY DEF WriteFile, F!Lock, F!ReadExisting, F!Truncate, F!WritePart, F!Critical
  <1>3. DOMAIN pc' = Session /\ \A x \in Session \ {s} : pc'[x] = pc[x]
    BY DEF WriteFile, F!Lock, F!ReadExisting, F!Truncate, F!WritePart, F!Go
  <1>4. Shape' /\ Only(s)
    BY <1>1, <1>3 DEF Only
  <1>5. SessionInv(s)'
    BY <1>1, <1>2 DEF SessionInv, Waits, RawFirst, HasState, Matches, F!At
  <1> QED
    BY <1>4, <1>5, OneSession

\* A write that came to its end is one to its session, of the kind it was meant to be.
LEMMA WrittenStep == ASSUME RunInv, NEW s \in Session, Written(s) PROVE RunInv'
  <1> USE DEF RunInv, Shape, Written, F!Complete, F!Go, calls
  <1>1. pc[s] \in F!Critical
    BY DEF F!Critical, F!Writing
  <1>2. PathOf[s] # RawPathOf[s]
    BY <1>1, FilesDiffer DEF SessionInv, Waits
  <1>3. observed[s] # NoDoc
    BY StateIsSomething DEF SessionInv, HasState
  <1>4. CASE target[s] = "raw"
    <2>1. WriteRaw(s, TRUE) /\ F!At(s) = RawPathOf[s]
      BY <1>1, <1>4 DEF SessionInv, Waits, Save, F!At
    <2>2. Shape' /\ Only(s)
      BY <2>1 DEF WriteRaw, Only
    <2>3. SessionInv(s)'
      BY <1>2, <1>3, <1>4, <2>1
      DEF WriteRaw, SessionInv, Waits, RawFirst, HasState, Matches, F!Critical
    <2> QED
      BY <2>2, <2>3, OneSession
  <1>5. CASE target[s] # "raw"
    <2>1. Save(s, TRUE) /\ F!At(s) = PathOf[s]
      BY <1>1, <1>5 DEF SessionInv, Waits, WriteRaw, F!At
    <2>2. Shape' /\ Only(s)
      BY <2>1 DEF Save, Only
    <2>3. SessionInv(s)'
      BY <1>2, <1>3, <1>5, <2>1
      DEF Save, SessionInv, Waits, RawFirst, HasState, Matches, F!Critical
    <2> QED
      BY <2>2, <2>3, OneSession
  <1> QED
    BY <1>4, <1>5

\* A write that fails is none.
LEMMA NotWrittenStep == ASSUME RunInv, NEW s \in Session, NotWritten(s) PROVE RunInv'
  <1>1. Unsaved(s)
    BY NotSaved DEF NotWritten, RunInv
  <1> QED
    BY <1>1, GiveUp DEF NotWritten, F!RejectTorn, F!WriteError

\* A process that dies writes nothing more.
LEMMA CrashStep == ASSUME RunInv, Crash PROVE RunInv'
  <1> USE DEF RunInv, Shape, Crash, F!Crash, F!Die
  <1>1. UNCHANGED <<phase, observed, rawSaved, saved, target, written>>
    BY DEF vars, calls, outcome
  <1>2. Shape'
    BY <1>1
  <1>3. ASSUME NEW s \in Session PROVE SessionInv(s)'
    BY <1>1 DEF SessionInv, Waits, RawFirst, HasState, Matches, F!At, F!Critical, F!Live
  <1> QED
    BY <1>2, <1>3

\* In every run, whatever fails in it: a session takes its recording for saved exactly if
\* its file was written to the end, and never has a recording without the raw file.
THEOREM SessionsMatchFiles == RunSpec => []FilesMatchSessions
  <1>1. RunInv /\ UNCHANGED runVars => RunInv'
    BY DEF runVars, vars, calls, outcome, files, RunInv, Shape, SessionInv, Waits,
        RawFirst, HasState, Matches, F!At
  <1>2. RunInv /\ [RunNext]_runVars => RunInv'
    BY <1>1, CrashStep, OpenStep, CallStep, ComputeStep, StartStep, WriteStep,
       WrittenStep, NotWrittenStep DEF RunNext, FinishStep
  <1>3. RunInv => FilesMatchSessions
    BY DEF RunInv, SessionInv, Matches, FilesMatchSessions
  <1> QED
    BY <1>2, <1>3, RunInitInv, PTL DEF RunSpec

-----------------------------------------------------------------------------
(* What the verdict of a verifying run says about the run that recorded,     *)
(* whatever the tests call and whatever fails in both runs.                  *)

\* A snapshot file or a raw file is only written by the sessions it belongs to.
Places ==
    \A r \in Session, p \in Path : <<r, p>> \in written => p \in {PathOf[r], RawPathOf[r]}

LEMMA WrittenPlaces == RunSpec => []Places
  <1>1. F!Init => Places
    BY DEF F!Init, Places
  <1>2. Places /\ [FilesNext]_files => Places'
    <2> SUFFICES ASSUME Places, [FilesNext]_files PROVE Places'
      OBVIOUS
    <2>1. ASSUME NEW s \in Session, F!Complete(s) PROVE Places'
      BY <2>1 DEF Places, F!Complete, F!At
    <2>2. CASE UNCHANGED written
      BY <2>2 DEF Places
    <2> QED
      BY <2>1, <2>2
      DEF FilesNext, files, F!Next, F!Step, F!WriteStep, F!Load, F!Close, F!BeginWrite,
          F!Lock, F!ReadExisting, F!RejectTorn, F!NilMapPanic, F!Truncate, F!WritePart,
          F!Fault, F!WriteError, F!LoadError, F!Crash, F!Die
  <1> QED
    BY <1>1, <1>2, RunUsesFiles, PTL DEF FilesSpec, FilesNext

-----------------------------------------------------------------------------
(* The invariant. *)

\* Every session has its variables.
Whole ==
    /\ DOMAIN phase = Session /\ DOMAIN config = Session
    /\ DOMAIN calledKeys = Session /\ DOMAIN observed = Session
    /\ DOMAIN recorded = Session /\ DOMAIN transformers = Session
    /\ DOMAIN skipPaths = Session /\ DOMAIN verifyDisabled = Session
    /\ DOMAIN done = Session /\ DOMAIN errors = Session
    /\ DOMAIN saved = Session /\ DOMAIN ended = Session
    /\ DOMAIN final = Session /\ DOMAIN view = Session
    /\ DOMAIN script = Session /\ DOMAIN pos = Session

\* What was matched before finish.
Matched(s) == IF done[s] THEN final[s].observed ELSE observed[s]

\* The called keys are those with a value.
CallsInv(s) ==
    /\ script[s] \in Seq(Calls) /\ pos[s] \in Nat \ {0}
    /\ calledKeys[s] \in Seq(Key)
    /\ Matched(s) = [k \in Key |-> Matched(s)[k]]
    /\ \A k \in Key : k \in Called(s) <=> Matched(s)[k] # NoDoc
    /\ ~verifyDisabled[s]

\* Where a session stands says what it holds.
PhaseInv(s) ==
    /\ phase[s] \in {"new", "open", "raw", "transform", "save", "compare"}
    /\ phase[s] = "new" => calledKeys[s] = <<>> /\ errors[s] = {} /\ view[s] = Nobody
    /\ phase[s] # "new" => config[s] = ConfigOf(s)
    /\ ~done[s] => phase[s] \in {"new", "open"}
    /\ done[s] => /\ phase[s] # "new" /\ ended[s]
                  /\ final[s].called = calledKeys[s]
                  /\ final[s].transformers = transformers[s]
                  /\ final[s].skipPaths = skipPaths[s]
    /\ phase[s] \in {"raw", "transform"} => observed[s] = final[s].observed
    /\ phase[s] = "save" =>
          /\ s \in RecordRun
          /\ observed[s] = Transformed(final[s].observed, final[s].transformers)
    /\ phase[s] = "compare" =>
          /\ s \notin RecordRun
          /\ observed[s] = Transformed(RemoveSkipped(final[s].observed, final[s].skipPaths),
                                       final[s].transformers)
    /\ phase[s] \in {"raw", "transform", "compare"} => final[s].observed # Empty

\* A recording is what its session had matched, and stays it.
SavedInv(s) ==
    saved[s] # NoDoc =>
        /\ done[s] /\ phase[s] = "open" /\ s \in RecordRun
        /\ saved[s] = Transformed(final[s].observed, final[s].transformers)

\* Before finish compares, only calls of Match have reported errors.
Early(s, r) ==
    \A e \in errors[s] :
        \/ e[1] = "duplicate"
        \/ \E k \in Called(s) : e = <<"unrecorded", k>> /\ saved[r][k] = NoDoc

\* The verdict of s against the recording of r.
Verdict(s, r) ==
    final[s].skipPaths \cap (Key \cup {BadPath}) = {}
    /\ Kinds(s) \cap {"raw", "transform", "duplicate"} = {} =>
        (errors[s] = {} <=>
            \A k \in ToSet(final[s].called) :
                /\ final[r].observed[k] # NoDoc
                /\ \A x \in Field \ final[s].skipPaths :
                     AsRecorded(s, s, k)[x] = AsRecorded(r, r, k)[x])

\* A session compares with what the other one has saved.
AgainstInv(s) ==
    \A r \in Session :
        view[s] = r /\ phase[s] # "new" =>
            /\ saved[r] # NoDoc
            /\ ~done[s] => recorded[s] = saved[r] /\ Early(s, r)
            /\ phase[s] \in {"raw", "transform", "compare"} =>
                  recorded[s] = RemoveSkipped(saved[r], final[s].skipPaths) /\ Early(s, r)
            /\ Finished(s) => Verdict(s, r)

\* A session without a recording has reported every call.
NobodyInv(s) ==
    view[s] = Nobody /\ phase[s] # "new" =>
        /\ ~done[s] => recorded[s] = Empty
        /\ calledKeys[s] # <<>> => errors[s] # {}

Local(s) ==
    /\ CallsInv(s) /\ PhaseInv(s) /\ SavedInv(s)
    /\ s \notin RecordRun => AgainstInv(s) /\ NobodyInv(s)

VerdictInv == Whole /\ \A s \in Session : Local(s)

-----------------------------------------------------------------------------
(* A step concerns one session. *)

\* A session that keeps everything ...
Same(x) ==
    /\ phase'[x] = phase[x] /\ config'[x] = config[x]
    /\ calledKeys'[x] = calledKeys[x] /\ observed'[x] = observed[x]
    /\ recorded'[x] = recorded[x] /\ transformers'[x] = transformers[x]
    /\ skipPaths'[x] = skipPaths[x] /\ verifyDisabled'[x] = verifyDisabled[x]
    /\ done'[x] = done[x] /\ errors'[x] = errors[x]
    /\ saved'[x] = saved[x] /\ ended'[x] = ended[x]
    /\ final'[x] = final[x] /\ view'[x] = view[x]
    /\ script'[x] = script[x] /\ pos'[x] = pos[x]

\* ... while the recordings stay as they are ...
Keeps(r) == saved[r] # NoDoc => saved'[r] = saved[r] /\ final'[r] = final[r]

\* ... keeps its part of the invariant.
LEMMA SameLocal ==
    ASSUME NEW x \in Session, Local(x), Same(x), \A r \in Session : Keeps(r)
    PROVE  Local(x)'
  <1> USE DEF Local, Same
  <1>1. CallsInv(x)' /\ PhaseInv(x)' /\ SavedInv(x)'
    BY DEF CallsInv, PhaseInv, SavedInv, Matched, Called, ConfigOf
  <1>2. ASSUME x \notin RecordRun PROVE NobodyInv(x)'
    BY <1>2 DEF NobodyInv
  <1>3. ASSUME x \notin RecordRun PROVE AgainstInv(x)'
    <2> SUFFICES ASSUME NEW r \in Session, view[x] = r, phase[x] # "new"
                 PROVE  /\ saved'[r] # NoDoc
                        /\ ~done[x] => recorded[x] = saved'[r] /\ Early(x, r)'
                        /\ phase[x] \in {"raw", "transform", "compare"} =>
                              /\ recorded[x] = RemoveSkipped(saved'[r], final[x].skipPaths)
                              /\ Early(x, r)'
                        /\ Finished(x) => Verdict(x, r)'
      BY DEF AgainstInv, Finished
    <2>1. saved[r] # NoDoc
      BY <1>3 DEF AgainstInv
    <2>2. saved'[r] = saved[r] /\ final'[r] = final[r]
      BY <2>1 DEF Keeps
    <2>3. Early(x, r)' <=> Early(x, r)
      BY <2>2 DEF Early, Called
    <2>4. Verdict(x, r)' <=> Verdict(x, r)
      <3>1. final'[x] = final[x] /\ errors'[x] = errors[x]
        OBVIOUS
      <3>2. \A k : AsRecorded(x, x, k)' = AsRecorded(x, x, k)
        BY <3>1 DEF AsRecorded
      <3>3. \A k : AsRecorded(r, r, k)' = AsRecorded(r, r, k)
        BY <2>2 DEF AsRecorded
      <3>4. Kinds(x)' = Kinds(x)
        BY <3>1 DEF Kinds
      <3> HIDE DEF Local, Same
      <3> QED
        BY <2>2, <3>1, <3>2, <3>3, <3>4 DEF Verdict
    <2> QED
      BY <1>3, <2>2, <2>3, <2>4 DEF AgainstInv
  <1> QED
    BY <1>1, <1>2, <1>3

\* So it is enough to look at the one that takes a step.
Others(s) == \A x \in Session \ {s} : Same(x)

LEMMA OneVerdict ==
    ASSUME VerdictInv, NEW s \in Session, Whole', Others(s), Keeps(s), Local(s)'
    PROVE  VerdictInv'
  <1>1. \A r \in Session : Keeps(r)
    BY DEF Others, Same, Keeps
  <1>2. \A x \in Session \ {s} : Local(x)'
    BY <1>1, SameLocal DEF Others, VerdictInv
  <1> QED
    BY <1>2 DEF VerdictInv

\* Before the tests start.
LEMMA VerdictInit == RunInit => VerdictInv
  <1> SUFFICES ASSUME RunInit PROVE VerdictInv
    OBVIOUS
  <1> USE DEF RunInit, Init, F!Init
  <1>1. Whole
    BY DEF Whole
  <1>2. ASSUME NEW s \in Session PROVE Local(s)
    <2>1. CallsInv(s)
      BY RunAssumption DEF CallsInv, Matched, Called, ToSet, Empty
    <2> QED
      BY <2>1 DEF Local, PhaseInv, SavedInv, AgainstInv, NobodyInv
  <1> QED
    BY <1>1, <1>2 DEF VerdictInv
-----------------------------------------------------------------------------
(* Its steps.                                                              *)

\* A step that leaves the sessions and what they have loaded alone.
LEMMA Nothing ==
    ASSUME VerdictInv, UNCHANGED <<vars, view, script, pos>>
    PROVE  VerdictInv'
  <1>1. Whole'
    BY DEF VerdictInv, Whole, vars, calls, outcome
  <1>2. \A x \in Session : Same(x) /\ Keeps(x)
    BY DEF Same, Keeps, vars, calls, outcome
  <1> QED
    BY <1>1, <1>2, SameLocal DEF VerdictInv

\* A test that starts has the recording that its file holds: not half a one, and not
\* a raw one.
LEMMA OpenVerdict ==
    ASSUME VerdictInv, Places, FilesMatchSessions, F!FilesUnderLock, F!LoadIsGenuine',
           NEW s \in Session, Open(s)
    PROVE  VerdictInv'
  <1> USE DEF Open, New, F!Go
  <1>1. UNCHANGED <<written, script, pos, calls, saved, done, ended, final>>
    BY DEF F!Load, F!LoadError
  <1>2. phase[s] = "new" /\ ~done[s]
    BY DEF VerdictInv, Local, PhaseInv
  <1>3. \A x \in Session \ {s} : view'[x] = view[x]
    BY DEF VerdictInv, Whole, F!Load, F!LoadError
  <1>4. Whole'
    BY <1>1 DEF VerdictInv, Whole, calls, Fail, F!Load, F!LoadError
  <1>5. Others(s) /\ Keeps(s)
    BY <1>1, <1>3 DEF VerdictInv, Whole, Others, Same, Keeps, calls, Fail
  <1>6. CallsInv(s)' /\ SavedInv(s)'
    BY <1>1, <1>2 DEF VerdictInv, Local, CallsInv, SavedInv, Matched, Called, calls
  <1>7. PhaseInv(s)'
    BY <1>1, <1>2 DEF VerdictInv, Whole, Local, PhaseInv, calls, ConfigOf
  <1>8. NobodyInv(s)'
    <2>1. Nobody \notin Session /\ Nobody # Earlier
      BY RunAssumption DEF F!FileAssumption
    <2> QED
      BY <1>1, <1>2, <2>1 DEF VerdictInv, Whole, Local, PhaseInv, NobodyInv, LoadedState, calls
  <1>9. ASSUME NEW r \in Session, view'[s] = r
        PROVE  saved'[r] # NoDoc /\ recorded'[s] = saved'[r] /\ Early(s, r)'
    <2>1. Nobody # r
      BY RunAssumption DEF F!FileAssumption
    <2>2. view[s] = Nobody
      BY <1>2 DEF VerdictInv, Local, PhaseInv
    <2>3. F!Load(s) /\ view'[s] = F!Loaded(s)
      BY <1>9, <2>1, <2>2 DEF F!Load, F!LoadError, VerdictInv, Whole
    <2>4. PathOf[s] \in Path /\ disk[PathOf[s]][ScopeOf[s]] = r
      BY <1>9, <2>1, <2>3 DEF F!Loaded
    <2>5. <<r, PathOf[s]>> \in written
      BY <1>1, <1>9 DEF F!LoadIsGenuine
    <2>6. RawPathOf[r] # PathOf[s]
      BY <2>4, RunAssumption
    <2>7. PathOf[s] = PathOf[r]
      BY <2>4, <2>5, <2>6 DEF Places
    <2>8. saved[r] # NoDoc
      BY <2>5, <2>7 DEF FilesMatchSessions
    <2>9. recorded'[s] = saved[r]
      BY <1>9 DEF LoadedState, VerdictInv, Whole
    <2>10. form[PathOf[s]] # "torn"
      <3>1. F!NoScopes[ScopeOf[s]] = Nobody
        BY RunAssumption DEF F!NoScopes, F!FileAssumption
      <3> QED
        BY <2>1, <2>4, <3>1 DEF F!FilesUnderLock, F!FormInv
    <2>11. errors'[s] = {}
      BY <1>2, <2>3, <2>10 DEF F!Load, Fail, VerdictInv, Whole, Local, PhaseInv
    <2> QED
      BY <1>1, <2>8, <2>9, <2>11 DEF Early
  <1>10. AgainstInv(s)'
    <2>1. ~done'[s]
      BY <1>1, <1>2
    <2>2. phase'[s] = "open"
      BY DEF VerdictInv, Whole
    <2> QED
      BY <1>9, <2>1, <2>2 DEF AgainstInv, Finished
  <1> QED
    BY <1>4, <1>5, <1>6, <1>7, <1>8, <1>10, OneVerdict DEF Local

\* The sessions of the first run, and only these, record.
LEMMA WhoRecords == ASSUME NEW s PROVE ConfigOf(s).update <=> s \in RecordRun
  BY Zenon DEF ConfigOf

\* A value of Match is something.
LEMMA DocIsSomething == ASSUME NEW doc \in Doc PROVE doc # NoDoc
  <1>1. PICK f \in Field : TRUE
    BY SessionAssumption
  <1>2. f \in DOMAIN doc /\ DOMAIN NoDoc = {}
    BY DEF Doc, NoDoc
  <1> QED
    BY <1>2

\* A key is called when it has been appended.
LEMMA AppendedIsCalled ==
    ASSUME NEW q \in Seq(Key), NEW k \in Key
    PROVE  Append(q, k) \in Seq(Key) /\ ToSet(Append(q, k)) = ToSet(q) \cup {k}
  <1>1. /\ Append(q, k) \in Seq(Key)
        /\ Len(q) \in Nat /\ DOMAIN q = 1..Len(q)
        /\ DOMAIN Append(q, k) = 1..Len(q) + 1
        /\ \A i \in 1..Len(q) : Append(q, k)[i] = q[i]
        /\ Append(q, k)[Len(q) + 1] = k
    OBVIOUS
  <1>2. ToSet(Append(q, k)) \subseteq ToSet(q) \cup {k}
    <2> SUFFICES ASSUME NEW i \in 1..Len(q) + 1 PROVE Append(q, k)[i] \in ToSet(q) \cup {k}
      BY <1>1 DEF ToSet
    <2> QED
      BY <1>1 DEF ToSet
  <1>3. ToSet(q) \cup {k} \subseteq ToSet(Append(q, k))
    <2>1. \A i \in 1..Len(q) + 1 : Append(q, k)[i] \in ToSet(Append(q, k))
      BY <1>1 DEF ToSet
    <2>2. ASSUME NEW i \in 1..Len(q) PROVE q[i] \in ToSet(Append(q, k))
      BY <1>1, <2>1
    <2> QED
      BY <1>1, <2>1, <2>2 DEF ToSet
  <1> QED
    BY <1>1, <1>2, <1>3

\* Match reports a key without a recording, and one that comes twice, at once.
LEMMA MatchVerdict ==
    ASSUME VerdictInv, NEW s \in Session, ~ended[s],
           NEW key \in Key, NEW doc \in Doc, Match(s, key, doc),
           UNCHANGED <<view, script>>, pos' = [pos EXCEPT ![s] = @ + 1]
    PROVE  VerdictInv'
  <1> USE DEF Match, outcome, Fail
  <1>1. Local(s) /\ ~done[s] /\ config[s] = ConfigOf(s) /\ saved[s] = NoDoc
    BY DEF VerdictInv, Local, PhaseInv, SavedInv
  <1>2. Whole' /\ Others(s) /\ Keeps(s)
    BY DEF VerdictInv, Whole, Others, Same, Keeps
  <1>3. PhaseInv(s)' /\ SavedInv(s)'
    BY <1>1 DEF Local, PhaseInv, SavedInv, ConfigOf
  <1>4. script'[s] \in Seq(Calls) /\ pos'[s] \in Nat \ {0} /\ ~verifyDisabled'[s]
    BY <1>1 DEF VerdictInv, Whole, Local, CallsInv
  <1>5. calledKeys[s] \in Seq(Key)
    BY <1>1 DEF Local, CallsInv
  <1>6. CASE key \in Called(s)
    <2> USE <1>6
    <2>1. CallsInv(s)'
      BY <1>1, <1>4 DEF Local, CallsInv, Matched, Called
    <2>2. errors'[s] = errors[s] \cup {<<"duplicate", key>>}
      BY DEF VerdictInv, Whole
    <2>3. ASSUME s \notin RecordRun PROVE AgainstInv(s)' /\ NobodyInv(s)'
      BY <1>1, <2>2, <2>3 DEF Local, AgainstInv, NobodyInv, Early, Called, Finished
    <2> QED
      BY <1>2, <1>3, <2>1, <2>3, OneVerdict DEF Local
  <1>7. CASE key \notin Called(s)
    <2> USE <1>7
    <2>1. calledKeys'[s] = Append(calledKeys[s], key)
          /\ observed'[s] = [observed[s] EXCEPT ![key] = doc]
      BY DEF VerdictInv, Whole
    <2>2. Called(s)' = Called(s) \cup {key}
      BY <1>5, <2>1, AppendedIsCalled DEF Called
    <2>3. observed[s] = [k \in Key |-> observed[s][k]]
          /\ \A k \in Key : k \in Called(s) <=> observed[s][k] # NoDoc
      BY <1>1 DEF Local, CallsInv, Matched
    <2>4. CallsInv(s)'
      <3>1. calledKeys'[s] \in Seq(Key)
        BY <1>5, <2>1, AppendedIsCalled
      <3>2. Matched(s)' = observed'[s]
        BY <1>1 DEF Matched
      <3>3. observed'[s] = [k \in Key |-> IF k = key THEN doc ELSE observed[s][k]]
        BY <2>1, <2>3
      <3>4. observed'[s] = [k \in Key |-> observed'[s][k]]
        BY <3>3
      <3>5. \A k \in Key : k \in Called(s)' <=> observed'[s][k] # NoDoc
        BY <2>2, <2>3, <3>3, DocIsSomething
      <3> QED
        BY <1>4, <3>1, <3>2, <3>4, <3>5 DEF CallsInv
    <2>5. ASSUME s \notin RecordRun
          PROVE  errors'[s] = errors[s]
                    \cup (IF recorded[s][key] = NoDoc THEN {<<"unrecorded", key>>} ELSE {})
      <3>1. ~config[s].update
        <4>1. config[s] = ConfigOf(s)
          BY <1>1
        <4> QED
          BY <2>5, <4>1, WhoRecords, Zenon
      <3>2. errors' = [errors EXCEPT ![s] = @ \cup
                {<<"unrecorded", k>> : k \in IF recorded[s][key] = NoDoc THEN {key} ELSE {}}]
        BY <3>1
      <3> QED
        BY <3>2 DEF VerdictInv, Whole
    <2>6. ASSUME s \notin RecordRun PROVE NobodyInv(s)'
      BY <1>1, <2>5, <2>6 DEF Local, NobodyInv, Empty
    <2>7. ASSUME s \notin RecordRun PROVE AgainstInv(s)'
      <3> SUFFICES ASSUME NEW r \in Session, view[s] = r
                   PROVE  saved[r] # NoDoc /\ recorded[s] = saved[r] /\ Early(s, r)'
        BY <1>1 DEF AgainstInv, Finished
      <3>1. saved[r] # NoDoc /\ recorded[s] = saved[r] /\ Early(s, r)
        BY <1>1, <2>7 DEF Local, AgainstInv
      <3> QED
        BY <2>2, <2>5, <2>7, <3>1 DEF Early
    <2> QED
      BY <1>2, <1>3, <2>4, <2>6, <2>7, OneVerdict DEF Local
  <1> QED
    BY <1>6, <1>7

\* The other calls change nothing of what is matched, recorded or reported.
LEMMA CallVerdict == ASSUME VerdictInv, NEW s \in Session, Call(s) PROVE VerdictInv'
  <1>1. Local(s)
    BY DEF VerdictInv
  <1>2. script[s][pos[s]] \in Calls
    BY <1>1 DEF Local, CallsInv, Call
  <1> DEFINE c == script[s][pos[s]]
  <1>3. CASE c.op = "match" /\ Match(s, c.key, c.doc)
    <2>1. c.key \in Key /\ c.doc \in Doc
      BY <1>2, <1>3 DEF Calls
    <2> QED
      BY <1>3, <2>1, MatchVerdict DEF Call, files
  <1>4. CASE \/ c.op = "transform" /\ AddTransformer(s, c.transformer, 0)
             \/ c.op = "skip" /\ SkipVerifyPaths(s, c.paths)
    <2>1. UNCHANGED <<phase, config, calledKeys, observed, verifyDisabled, recorded, saved,
                     done, errors, ended, final, view, script>>
          /\ pos' = [pos EXCEPT ![s] = @ + 1]
      BY <1>4 DEF Call, AddTransformer, SkipVerifyPaths, outcome, files
    <2>2. DOMAIN transformers' = Session /\ DOMAIN skipPaths' = Session
          /\ \A x \in Session \ {s} :
                transformers'[x] = transformers[x] /\ skipPaths'[x] = skipPaths[x]
      BY <1>4 DEF AddTransformer, SkipVerifyPaths, VerdictInv, Whole
    <2>3. Whole' /\ Others(s) /\ Keeps(s)
      BY <2>1, <2>2 DEF VerdictInv, Whole, Others, Same, Keeps
    <2>4. phase[s] = "open" /\ ~done[s]
      BY <1>1, <1>4 DEF Call, AddTransformer, SkipVerifyPaths, Local, PhaseInv
    <2>5. CallsInv(s)' /\ PhaseInv(s)' /\ SavedInv(s)'
      BY <1>1, <2>1, <2>4
      DEF VerdictInv, Whole, Local, CallsInv, PhaseInv, SavedInv, Matched, Called, ConfigOf
    <2>6. ASSUME s \notin RecordRun PROVE AgainstInv(s)' /\ NobodyInv(s)'
      BY <1>1, <2>1, <2>4, <2>6
      DEF Local, AgainstInv, NobodyInv, Early, Called, Finished
    <2> QED
      BY <2>3, <2>5, <2>6, OneVerdict DEF Local
  <1> QED
    BY <1>3, <1>4 DEF Call

-----------------------------------------------------------------------------
(* The steps of finish.                                                    *)

\* A test whose finish ends with an error of its own is outside of what is said of verdicts.
LEMMA NoVerdict ==
    ASSUME NEW s, NEW r, NEW kind \in {"raw", "transform"}, <<kind, NoDoc>> \in errors'[s]
    PROVE  Verdict(s, r)'
  <1>1. kind \in Kinds(s)'
    <2>1. <<kind, NoDoc>>[1] = kind
      OBVIOUS
    <2> QED
      BY <2>1 DEF Kinds
  <1> QED
    BY <1>1 DEF Verdict

\* finish begins once, with what was matched until then.
LEMMA CleanupVerdict ==
    ASSUME VerdictInv, NEW s \in Session, Cleanup(s), UNCHANGED <<view, script, pos>>
    PROVE  VerdictInv'
  <1>1. Local(s) /\ ~done[s] /\ config[s] = ConfigOf(s) /\ saved[s] = NoDoc
    BY DEF VerdictInv, Local, PhaseInv, SavedInv, Cleanup
  <1>2. /\ FinishHead(s) /\ phase[s] = "open"
        /\ ended' = [ended EXCEPT ![s] = TRUE]
        /\ UNCHANGED <<config, calledKeys, observed, transformers, skipPaths,
                      verifyDisabled, saved>>
    BY <1>1 DEF Cleanup, Begin, FinishHead, calls
  <1>3. /\ DOMAIN phase' = Session /\ DOMAIN recorded' = Session /\ DOMAIN errors' = Session
        /\ \A x \in Session \ {s} :
              phase'[x] = phase[x] /\ recorded'[x] = recorded[x] /\ errors'[x] = errors[x]
    BY <1>2 DEF FinishHead, Fail, VerdictInv, Whole
  <1>4. /\ DOMAIN done' = Session /\ DOMAIN final' = Session
        /\ \A x \in Session \ {s} : done'[x] = done[x] /\ final'[x] = final[x]
        /\ done'[s] = TRUE /\ ended'[s] = TRUE
        /\ final'[s] = [called |-> calledKeys[s], observed |-> observed[s],
                        recorded |-> recorded[s], transformers |-> transformers[s],
                        skipPaths |-> skipPaths[s], verifyDisabled |-> verifyDisabled[s]]
    BY <1>2 DEF FinishHead, VerdictInv, Whole
  <1>5. Whole' /\ Others(s) /\ Keeps(s)
    BY <1>1, <1>2, <1>3, <1>4 DEF VerdictInv, Whole, Others, Same, Keeps
  <1>6. CallsInv(s)' /\ SavedInv(s)'
    BY <1>1, <1>2, <1>4 DEF Local, CallsInv, SavedInv, Matched, Called
  <1>7. config[s].update <=> s \in RecordRun
    BY <1>1, WhoRecords, Zenon
  <1>8. CASE observed[s] = Empty
    <2>1. UNCHANGED <<phase, recorded, errors>>
      BY <1>2, <1>8 DEF FinishHead
    <2>2. PhaseInv(s)'
      BY <1>1, <1>2, <1>4, <2>1 DEF Local, PhaseInv, ConfigOf
    <2>3. ASSUME s \notin RecordRun PROVE NobodyInv(s)'
      BY <1>1, <1>2, <1>4, <2>1, <2>3 DEF Local, NobodyInv
    <2>4. Called(s) = {}
      <3>1. \A k \in Key : k \notin Called(s)
        BY <1>1, <1>8 DEF Local, CallsInv, Matched, Empty
      <3>2. Called(s) \subseteq Key
        BY <1>1 DEF Local, CallsInv, Called, ToSet
      <3> QED
        BY <3>1, <3>2
    <2>5. ASSUME s \notin RecordRun, NEW r \in Session, view[s] = r
          PROVE  saved[r] # NoDoc /\ Verdict(s, r)'
      <3>1. saved[r] # NoDoc /\ \A e \in errors[s] : e[1] = "duplicate"
        BY <1>1, <1>2, <2>4, <2>5 DEF Local, AgainstInv, Early
      <3>2. errors'[s] # {} => "duplicate" \in Kinds(s)'
        BY <2>1, <3>1 DEF Kinds
      <3>3. ToSet(final'[s].called) = {}
        BY <1>4, <2>4 DEF Called
      <3> QED
        BY <3>1, <3>2, <3>3 DEF Verdict
    <2>6. ASSUME s \notin RecordRun PROVE AgainstInv(s)'
      BY <1>2, <1>4, <2>1, <2>5, <2>6 DEF AgainstInv
    <2> QED
      BY <1>5, <1>6, <2>2, <2>3, <2>6, OneVerdict DEF Local
  <1>9. CASE observed[s] # Empty
    <2> DEFINE broken == ~config[s].update /\ SkipError(recorded[s], skipPaths[s])
    <2>1. /\ recorded'[s] = IF config[s].update THEN recorded[s]
                            ELSE RemoveSkipped(recorded[s], skipPaths[s])
          /\ errors'[s] = errors[s] \cup (IF broken THEN {<<"path", NoDoc>>} ELSE {})
          /\ phase'[s] = IF broken THEN "open"
                         ELSE IF config[s].raw THEN "raw" ELSE "transform"
      BY <1>2, <1>9 DEF FinishHead, Fail, VerdictInv, Whole
    <2> HIDE DEF broken
    <2>2. PhaseInv(s)'
      BY <1>1, <1>2, <1>4, <1>9, <2>1 DEF Local, PhaseInv, ConfigOf
    <2>3. ASSUME s \notin RecordRun PROVE NobodyInv(s)'
      BY <1>1, <1>2, <1>4, <2>1, <2>3 DEF Local, NobodyInv
    <2>4. ASSUME s \notin RecordRun PROVE AgainstInv(s)'
      <3> SUFFICES ASSUME NEW r \in Session, view[s] = r
                   PROVE  /\ saved[r] # NoDoc
                          /\ phase'[s] # "open" =>
                                /\ recorded'[s] = RemoveSkipped(saved[r], final'[s].skipPaths)
                                /\ Early(s, r)'
                          /\ phase'[s] = "open" => Verdict(s, r)'
        BY <1>2, <1>4 DEF AgainstInv, Finished
      <3>1. saved[r] # NoDoc /\ recorded[s] = saved[r] /\ Early(s, r)
        BY <1>1, <1>2, <2>4 DEF Local, AgainstInv
      <3>2. CASE broken
        <4>1. BadPath \in final'[s].skipPaths
          BY <1>4, <3>2 DEF broken, SkipError
        <4> QED
          BY <2>1, <3>1, <3>2, <4>1 DEF Verdict
      <3>3. CASE ~broken
        BY <1>2, <1>4, <1>7, <2>1, <2>4, <3>1, <3>3 DEF Early, Called
      <3> QED
        BY <3>2, <3>3
    <2> QED
      BY <1>5, <1>6, <2>2, <2>3, <2>4, OneVerdict DEF Local
  <1> QED
    BY <1>8, <1>9

\* The raw file decides nothing but whether finish goes on.
LEMMA RawVerdict ==
    ASSUME VerdictInv, NEW s \in Session, NEW ok \in BOOLEAN, WriteRaw(s, ok),
           UNCHANGED <<view, script, pos>>
    PROVE  VerdictInv'
  <1> USE DEF WriteRaw, calls
  <1>1. Local(s) /\ done[s] /\ config[s] = ConfigOf(s) /\ saved[s] = NoDoc
    BY DEF VerdictInv, Local, PhaseInv, SavedInv
  <1>2. /\ errors'[s] = errors[s] \cup (IF ok THEN {} ELSE {<<"raw", NoDoc>>})
        /\ phase'[s] = IF ok THEN "transform" ELSE "open"
    BY DEF VerdictInv, Whole, Fail
  <1>3. Whole' /\ Others(s) /\ Keeps(s)
    BY DEF VerdictInv, Whole, Others, Same, Keeps, Fail
  <1>4. CallsInv(s)' /\ PhaseInv(s)' /\ SavedInv(s)'
    BY <1>1, <1>2 DEF Local, CallsInv, PhaseInv, SavedInv, Matched, Called, ConfigOf
  <1>5. ASSUME s \notin RecordRun PROVE NobodyInv(s)'
    BY <1>1, <1>2, <1>5 DEF Local, NobodyInv
  <1>6. ASSUME s \notin RecordRun, NEW r \in Session, view[s] = r
        PROVE  /\ saved[r] # NoDoc
               /\ ok => recorded[s] = RemoveSkipped(saved[r], final[s].skipPaths)
                        /\ Early(s, r)'
               /\ ~ok => Verdict(s, r)'
    <2>1. saved[r] # NoDoc /\ recorded[s] = RemoveSkipped(saved[r], final[s].skipPaths)
          /\ Early(s, r)
      BY <1>1, <1>6 DEF Local, AgainstInv
    <2>2. ok => Early(s, r)'
      BY <1>2, <2>1 DEF Early, Called
    <2>3. ~ok => <<"raw", NoDoc>> \in errors'[s]
      BY <1>2
    <2>4. ~ok => Verdict(s, r)'
      BY <2>3, NoVerdict
    <2> QED
      BY <2>1, <2>2, <2>4
  <1>7. ASSUME s \notin RecordRun PROVE AgainstInv(s)'
    BY <1>1, <1>2, <1>6, <1>7 DEF AgainstInv, Finished
  <1> QED
    BY <1>3, <1>4, <1>5, <1>7, OneVerdict DEF Local

\* What is saved is what was matched, transformed.
LEMMA SaveVerdict ==
    ASSUME VerdictInv, NEW s \in Session, NEW ok \in BOOLEAN, Save(s, ok),
           UNCHANGED <<view, script, pos>>
    PROVE  VerdictInv'
  <1> USE DEF Save, calls
  <1>1. Local(s) /\ done[s] /\ config[s] = ConfigOf(s) /\ saved[s] = NoDoc
        /\ s \in RecordRun
    BY DEF VerdictInv, Local, PhaseInv, SavedInv
  <1>2. /\ saved'[s] = (IF ok THEN observed[s] ELSE NoDoc)
        /\ phase'[s] = "open"
    BY <1>1 DEF VerdictInv, Whole
  <1>3. Whole' /\ Others(s) /\ Keeps(s)
    BY <1>1 DEF VerdictInv, Whole, Others, Same, Keeps, Fail
  <1>4. CallsInv(s)' /\ PhaseInv(s)' /\ SavedInv(s)'
    BY <1>1, <1>2 DEF Local, CallsInv, PhaseInv, SavedInv, Matched, Called, ConfigOf
  <1> QED
    BY <1>1, <1>3, <1>4, OneVerdict DEF Local

\* A transformer that fails, or a path that does not parse, ends finish.
LEMMA TransformVerdict ==
    ASSUME VerdictInv, NEW s \in Session, Transform(s), UNCHANGED <<view, script, pos>>
    PROVE  VerdictInv'
  <1>1. Local(s) /\ done[s] /\ config[s] = ConfigOf(s) /\ saved[s] = NoDoc
        /\ phase[s] = "transform" /\ observed[s] = final[s].observed
    BY DEF VerdictInv, Local, PhaseInv, SavedInv, Transform
  <1>2. config[s].update <=> s \in RecordRun
    BY <1>1, WhoRecords, Zenon
  <1>3. UNCHANGED <<config, calledKeys, transformers, skipPaths, verifyDisabled,
                   recorded, saved, done, ended, final>>
    BY DEF Transform, outcome
  <1>4. \/ /\ phase' = [phase EXCEPT ![s] = "open"]
           /\ Fail(s, "transform", {NoDoc})
           /\ UNCHANGED observed
        \/ /\ phase' = [phase EXCEPT ![s] = IF config[s].update THEN "save" ELSE "compare"]
           /\ observed' = [observed EXCEPT ![s] =
                 Transformed(IF config[s].update THEN observed[s]
                             ELSE RemoveSkipped(observed[s], skipPaths[s]),
                             transformers[s])]
           /\ UNCHANGED errors
    BY DEF Transform
  <1>5. Whole' /\ Others(s) /\ Keeps(s)
    BY <1>3, <1>4 DEF VerdictInv, Whole, Others, Same, Keeps, Fail
  <1>6. CallsInv(s)' /\ SavedInv(s)'
    BY <1>1, <1>3 DEF Local, CallsInv, SavedInv, Matched, Called
  <1>7. CASE /\ phase' = [phase EXCEPT ![s] = "open"]
             /\ Fail(s, "transform", {NoDoc})
             /\ UNCHANGED observed
    <2>1. errors'[s] = errors[s] \cup {<<"transform", NoDoc>>} /\ phase'[s] = "open"
      BY <1>7 DEF VerdictInv, Whole, Fail
    <2>2. PhaseInv(s)'
      BY <1>1, <1>3, <2>1 DEF Local, PhaseInv, ConfigOf
    <2>3. NobodyInv(s)'
      BY <1>1, <1>3, <2>1 DEF NobodyInv
    <2>4. \A r \in Session : Verdict(s, r)'
      BY <2>1, NoVerdict
    <2>5. ASSUME s \notin RecordRun PROVE AgainstInv(s)'
      BY <1>1, <1>3, <2>1, <2>4, <2>5 DEF Local, AgainstInv
    <2> QED
      BY <1>5, <1>6, <2>2, <2>3, <2>5, OneVerdict DEF Local
  <1>8. CASE /\ phase' = [phase EXCEPT ![s] = IF config[s].update THEN "save" ELSE "compare"]
             /\ observed' = [observed EXCEPT ![s] =
                   Transformed(IF config[s].update THEN observed[s]
                               ELSE RemoveSkipped(observed[s], skipPaths[s]),
                               transformers[s])]
             /\ UNCHANGED errors
    <2>1. /\ phase'[s] = IF config[s].update THEN "save" ELSE "compare"
          /\ observed'[s] = Transformed(IF config[s].update THEN observed[s]
                                        ELSE RemoveSkipped(observed[s], skipPaths[s]),
                                        transformers[s])
      BY <1>8 DEF VerdictInv, Whole
    <2>2. PhaseInv(s)'
      BY <1>1, <1>2, <1>3, <1>8, <2>1 DEF Local, PhaseInv, ConfigOf
    <2>3. ASSUME s \notin RecordRun PROVE NobodyInv(s)'
      BY <1>1, <1>3, <1>8, <2>3 DEF Local, NobodyInv
    <2>4. ASSUME s \notin RecordRun PROVE AgainstInv(s)'
      BY <1>1, <1>3, <1>8, <2>1, <2>4 DEF Local, AgainstInv, Early, Called, Finished
    <2> QED
      BY <1>5, <1>6, <2>2, <2>3, <2>4, OneVerdict DEF Local
  <1> QED
    BY <1>4, <1>7, <1>8

-----------------------------------------------------------------------------
(* The comparison.                                                         *)

\* A value with fields is something.
LEMMA FieldsAreSomething == ASSUME NEW d, DOMAIN d = Field PROVE d # NoDoc
  <1>1. DOMAIN NoDoc = {} /\ Field # {}
    BY SessionAssumption DEF NoDoc
  <1> QED
    BY <1>1

\* transform rewrites every field, and neither adds nor removes a value.
LEMMA TransformedAt ==
    ASSUME NEW state, NEW registered, NEW k \in Key
    PROVE  /\ Transformed(state, registered)[k] # NoDoc <=> state[k] # NoDoc
           /\ state[k] # NoDoc =>
                 Transformed(state, registered)[k]
                   = [f \in Field |-> Rewritten(state[k][f], registered)]
  <1> DEFINE d == [f \in Field |-> Rewritten(state[k][f], registered)]
  <1>1. d # NoDoc
    BY FieldsAreSomething
  <1> QED
    BY <1>1 DEF Transformed

\* Skipped fields disappear from a value, the others stay.
LEMMA RemovedAt ==
    ASSUME NEW state, NEW paths, NEW k \in Key, k \notin paths
    PROVE  /\ RemoveSkipped(state, paths)[k] # NoDoc <=> state[k] # NoDoc
           /\ state[k] # NoDoc =>
                 RemoveSkipped(state, paths)[k]
                   = [f \in Field |-> IF f \in paths THEN Gone ELSE state[k][f]]
  <1> DEFINE d == [f \in Field |-> IF f \in paths THEN Gone ELSE state[k][f]]
  <1>1. d # NoDoc
    BY FieldsAreSomething
  <1> QED
    BY <1>1 DEF RemoveSkipped

\* A value is the recorded one in the fields that are left.
SameWhereKept(state, registered, recording, paths, k) ==
    \A x \in Field \ paths : Transformed(state, registered)[k][x] = recording[k][x]

\* The two sides of a comparison are equal if they are so in these fields.
LEMMA EqualWhereKept ==
    ASSUME NEW state, NEW registered, NEW recording, NEW paths,
           NEW k \in Key, k \notin paths, state[k] # NoDoc, recording[k] # NoDoc,
           DOMAIN recording[k] = Field
    PROVE  RemoveSkipped(recording, paths)[k]
             = Transformed(RemoveSkipped(state, paths), registered)[k]
           <=> SameWhereKept(state, registered, recording, paths, k)
  <1> DEFINE left == [f \in Field |-> IF f \in paths THEN Gone ELSE recording[k][f]]
             kept == [f \in Field |-> IF f \in paths THEN Gone ELSE state[k][f]]
             right == [f \in Field |-> Rewritten(kept[f], registered)]
             whole == [f \in Field |-> Rewritten(state[k][f], registered)]
  <1>1. RemoveSkipped(recording, paths)[k] = left
    BY RemovedAt
  <1>2. Transformed(RemoveSkipped(state, paths), registered)[k] = right
    <2>1. RemoveSkipped(state, paths)[k] = kept
      BY RemovedAt
    <2>2. kept # NoDoc
      BY FieldsAreSomething
    <2> QED
      BY <2>1, <2>2, TransformedAt
  <1>3. Transformed(state, registered)[k] = whole
    BY TransformedAt
  <1>4. \A x \in Field : x \in paths => left[x] = Gone /\ right[x] = Gone
    BY DEF Rewritten
  <1>5. \A x \in Field \ paths : left[x] = recording[k][x] /\ right[x] = whole[x]
    OBVIOUS
  <1>6. left = right <=> \A x \in Field : left[x] = right[x]
    OBVIOUS
  <1> HIDE DEF left, right, whole
  <1> QED
    BY <1>1, <1>2, <1>3, <1>4, <1>5, <1>6 DEF SameWhereKept

\* What a recording holds is what its session had matched, transformed.
LEMMA RecordedAt ==
    ASSUME VerdictInv, NEW r \in Session, saved[r] # NoDoc, NEW k \in Key
    PROVE  /\ saved[r][k] # NoDoc <=> final[r].observed[k] # NoDoc
           /\ saved[r][k] # NoDoc => DOMAIN saved[r][k] = Field
           /\ AsRecorded(r, r, k) = saved[r][k]
  <1> DEFINE state == final[r].observed
             registered == final[r].transformers
  <1>1. saved[r] = Transformed(state, registered)
    BY DEF VerdictInv, Local, SavedInv
  <1>2. AsRecorded(r, r, k) = Transformed(state, registered)[k]
    BY DEF AsRecorded
  <1> HIDE DEF state, registered
  <1>3. Transformed(state, registered)[k] # NoDoc <=> state[k] # NoDoc
    BY TransformedAt
  <1>4. ASSUME state[k] # NoDoc PROVE DOMAIN Transformed(state, registered)[k] = Field
    <2>1. Transformed(state, registered)[k] = [f \in Field |-> Rewritten(state[k][f], registered)]
      BY <1>4, TransformedAt
    <2> QED
      BY <2>1
  <1> QED
    BY <1>1, <1>2, <1>3, <1>4 DEF state

\* The comparison reports an error exactly if some value is not what the other run had
\* recorded; every earlier error is about a value that it had not.
LEMMA CompareVerdict ==
    ASSUME VerdictInv, NEW s \in Session, Compare(s), UNCHANGED <<view, script, pos>>
    PROVE  VerdictInv'
  <1> DEFINE known == {k \in Called(s) : recorded[s][k] # NoDoc}
             missing == {<<"missing", k>> : k \in Called(s) \ known}
             parity == {<<"parity", k>> : k \in {x \in known : recorded[s][x] # observed[s][x]}}
  <1>1. Local(s) /\ done[s] /\ config[s] = ConfigOf(s) /\ saved[s] = NoDoc
        /\ phase[s] = "compare" /\ s \notin RecordRun
    BY DEF VerdictInv, Local, PhaseInv, SavedInv, Compare
  <1>2. UNCHANGED <<config, calledKeys, observed, transformers, skipPaths, verifyDisabled,
                   recorded, saved, done, ended, final>>
        /\ phase' = [phase EXCEPT ![s] = "open"]
    BY DEF Compare, calls
  <1>3. ~Off(s)
    <2>1. config[s].verify = TRUE
      BY <1>1 DEF ConfigOf
    <2> QED
      BY <1>1, <2>1 DEF Off, Local, CallsInv
  <1>4. \/ recorded[s] = Empty /\ Fail(s, "empty", {NoDoc})
        \/ recorded[s] # Empty
           /\ errors' = [errors EXCEPT ![s] = @ \cup missing \cup parity]
    BY <1>3 DEF Compare
  <1>5. Whole' /\ Others(s) /\ Keeps(s)
    BY <1>2, <1>4 DEF VerdictInv, Whole, Others, Same, Keeps, Fail
  <1>6. CallsInv(s)' /\ PhaseInv(s)' /\ SavedInv(s)'
    BY <1>1, <1>2
    DEF VerdictInv, Whole, Local, CallsInv, PhaseInv, SavedInv, Matched, Called, ConfigOf
  <1>7. \/ recorded[s] = Empty /\ errors'[s] = errors[s] \cup {<<"empty", NoDoc>>}
        \/ recorded[s] # Empty /\ errors'[s] = errors[s] \cup missing \cup parity
    BY <1>4 DEF VerdictInv, Whole, Fail
  <1>8. NobodyInv(s)'
    BY <1>1, <1>2, <1>7 DEF Local, NobodyInv
  <1>9. ASSUME NEW r \in Session, view[s] = r PROVE saved[r] # NoDoc /\ Verdict(s, r)'
    <2> DEFINE skipped == final[s].skipPaths
               theirs == final[r].observed
               Equal(k) ==
                 \A x \in Field \ skipped : AsRecorded(s, s, k)[x] = AsRecorded(r, r, k)[x]
    <2>1. saved[r] # NoDoc /\ recorded[s] = RemoveSkipped(saved[r], skipped) /\ Early(s, r)
      BY <1>1, <1>9 DEF Local, AgainstInv
    <2>2. Called(s) \subseteq Key /\ \A k \in Called(s) : final[s].observed[k] # NoDoc
      BY <1>1 DEF Local, CallsInv, Matched, Called, ToSet
    <2>3. observed[s]
            = Transformed(RemoveSkipped(final[s].observed, skipped), final[s].transformers)
          /\ ToSet(final[s].called) = Called(s)
      BY <1>1 DEF Local, PhaseInv, Called
    <2>4. \E k \in Key : k \in Called(s)
      <3>1. final[s].observed # [k \in Key |-> NoDoc]
            /\ final[s].observed = [k \in Key |-> final[s].observed[k]]
            /\ \A k \in Key : k \in Called(s) <=> final[s].observed[k] # NoDoc
        BY <1>1 DEF Local, PhaseInv, CallsInv, Matched, Empty
      <3> QED
        BY <3>1
    <2> HIDE DEF skipped, theirs
    <2> SUFFICES ASSUME skipped \cap (Key \cup {BadPath}) = {}, "duplicate" \notin Kinds(s)'
                 PROVE  errors'[s] = {} <=> \A k \in Called(s) : theirs[k] # NoDoc /\ Equal(k)
      <3>1. ToSet(final'[s].called) = Called(s) /\ final'[s].skipPaths = skipped
        BY <1>2, <2>3 DEF skipped
      <3>2. \A k : Equal(k) <=> \A x \in Field \ final'[s].skipPaths :
                 AsRecorded(s, s, k)'[x] = AsRecorded(r, r, k)'[x]
        BY <1>2 DEF skipped, AsRecorded
      <3> HIDE DEF Equal
      <3> QED
        BY <1>2, <2>1, <3>1, <3>2 DEF Verdict, theirs
    \* Where there is no recording, or another one, the comparison reports it.
    <2>5. ASSUME NEW k \in Called(s)
          PROVE  /\ recorded[s][k] # NoDoc <=> theirs[k] # NoDoc
                 /\ saved[r][k] # NoDoc <=> theirs[k] # NoDoc
                 /\ theirs[k] # NoDoc => (recorded[s][k] = observed[s][k] <=> Equal(k))
      <3> USE <2>2
      <3>1. k \in Key /\ k \notin skipped /\ final[s].observed[k] # NoDoc
        OBVIOUS
      <3>2. /\ saved[r][k] # NoDoc <=> theirs[k] # NoDoc
            /\ saved[r][k] # NoDoc => DOMAIN saved[r][k] = Field
            /\ AsRecorded(r, r, k) = saved[r][k]
        BY <2>1, <3>1, RecordedAt DEF theirs
      <3>3. recorded[s][k] # NoDoc <=> saved[r][k] # NoDoc
        <4>1. RemoveSkipped(saved[r], skipped)[k] # NoDoc <=> saved[r][k] # NoDoc
          BY <3>1, RemovedAt, Zenon
        <4> QED
          BY <2>1, <4>1
      <3>4. ASSUME theirs[k] # NoDoc PROVE recorded[s][k] = observed[s][k] <=> Equal(k)
        <4> DEFINE own == final[s].observed
                   registered == final[s].transformers
        <4>1. own[k] # NoDoc /\ saved[r][k] # NoDoc /\ DOMAIN saved[r][k] = Field
          BY <3>1, <3>2, <3>4
        <4>2. /\ recorded[s] = RemoveSkipped(saved[r], skipped)
              /\ observed[s] = Transformed(RemoveSkipped(own, skipped), registered)
          BY <2>1, <2>3
        <4>3. \A x \in Field \ skipped :
                AsRecorded(s, s, k)[x] = Transformed(own, registered)[k][x]
                /\ AsRecorded(r, r, k)[x] = saved[r][k][x]
          BY <3>2 DEF AsRecorded
        <4> HIDE DEF own, registered
        <4>4. RemoveSkipped(saved[r], skipped)[k]
                = Transformed(RemoveSkipped(own, skipped), registered)[k]
              <=> SameWhereKept(own, registered, saved[r], skipped, k)
          BY <3>1, <4>1, EqualWhereKept
        <4>5. SameWhereKept(own, registered, saved[r], skipped, k) <=> Equal(k)
          BY <4>3 DEF SameWhereKept
        <4> QED
          BY <4>2, <4>4, <4>5
      <3> QED
        BY <3>2, <3>3, <3>4
    \* What was reported before was about a value that the other run had not recorded.
    <2>6. ASSUME NEW e \in errors[s] PROVE \E k \in Called(s) : theirs[k] = NoDoc
      <3>1. e[1] # "duplicate"
        <4>1. e \in errors'[s]
          BY <1>7
        <4> QED
          BY <4>1 DEF Kinds
      <3>2. PICK k \in Called(s) : saved[r][k] = NoDoc
        BY <2>1, <3>1 DEF Early
      <3> QED
        BY <2>5, <3>2
    <2> HIDE DEF Equal
    <2>7. CASE recorded[s] = Empty
      <3>1. errors'[s] # {}
        BY <1>7, <2>7
      <3>2. PICK k \in Key : k \in Called(s)
        BY <2>4
      <3>3. theirs[k] = NoDoc
        BY <2>5, <2>7, <3>2 DEF Empty
      <3> QED
        BY <3>1, <3>2, <3>3
    <2>8. CASE recorded[s] # Empty
      <3>1. errors'[s] = errors[s] \cup missing \cup parity
        BY <1>7, <2>8
      <3>2. missing = {} <=> \A k \in Called(s) : recorded[s][k] # NoDoc
        OBVIOUS
      <3>3. parity = {} <=> \A k \in known : recorded[s][k] = observed[s][k]
        OBVIOUS
      <3> HIDE DEF missing, parity
      <3> QED
        BY <2>5, <2>6, <3>1, <3>2, <3>3
    <2> QED
      BY <2>7, <2>8
  <1>10. AgainstInv(s)'
    BY <1>1, <1>2, <1>9 DEF VerdictInv, Whole, AgainstInv
  <1> QED
    BY <1>1, <1>5, <1>6, <1>8, <1>10, OneVerdict DEF Local

-----------------------------------------------------------------------------
(* The theorems.                                                           *)

\* Every other step of finish concerns a file only.
LEMMA FinishVerdict ==
    ASSUME VerdictInv, NEW s \in Session, FinishStep(s)
    PROVE  VerdictInv'
  <1>1. CASE Compute(s)
    BY <1>1, CleanupVerdict, TransformVerdict, CompareVerdict DEF Compute, files
  <1>2. CASE StartWrite(s)
    <2>1. UNCHANGED <<view, script, pos>>
      BY <1>2 DEF StartWrite, F!BeginWrite
    <2>2. CASE WriteRaw(s, FALSE) \/ Save(s, FALSE)
      BY <2>1, <2>2, RawVerdict, SaveVerdict
    <2>3. CASE UNCHANGED vars
      BY <2>1, <2>3, Nothing
    <2> QED
      BY <1>2, <2>2, <2>3 DEF StartWrite
  <1>3. CASE WriteFile(s)
    BY <1>3, Nothing
    DEF WriteFile, F!Lock, F!ReadExisting, F!Truncate, F!WritePart
  <1>4. CASE Written(s)
    BY <1>4, RawVerdict, SaveVerdict DEF Written, F!Complete
  <1>5. CASE NotWritten(s)
    BY <1>5, RawVerdict, SaveVerdict DEF NotWritten, F!RejectTorn, F!WriteError
  <1> QED
    BY <1>1, <1>2, <1>3, <1>4, <1>5 DEF FinishStep

\* Every step keeps the invariant, on files that behave as they are proved to.
LEMMA VerdictStep ==
    VerdictInv /\ Places /\ FilesMatchSessions /\ F!FilesUnderLock /\ F!LoadIsGenuine'
    /\ [RunNext]_runVars => VerdictInv'
  <1> SUFFICES ASSUME VerdictInv, Places, FilesMatchSessions, F!FilesUnderLock,
                      F!LoadIsGenuine', [RunNext]_runVars
               PROVE  VerdictInv'
    OBVIOUS
  <1>1. CASE Crash
    BY <1>1, Nothing DEF Crash, F!Crash, F!Die
  <1>2. CASE UNCHANGED runVars
    BY <1>2, Nothing DEF runVars, files
  <1> QED
    BY <1>1, <1>2, OpenVerdict, CallVerdict, FinishVerdict DEF RunNext

\* It holds in every run.
LEMMA VerdictAlways == RunSpec => []VerdictInv
  BY VerdictInit, VerdictStep, WrittenPlaces, SessionsMatchFiles, RunKeepsFiles, PTL
  DEF RunSpec

\* A test that ran to its end against the recording of another one passes exactly if
\* everything it has matched was recorded and, but for the skipped fields, is the same
\* after the transformers of both: whatever other tests record meanwhile, whatever
\* writes fail and whenever a run is killed.
THEOREM VerdictIsTrue == RunSpec => []PassMeansSame
  <1>1. VerdictInv => PassMeansSame
    <2> SUFFICES ASSUME VerdictInv, NEW s \in Session \ RecordRun, NEW r \in Session,
                        Finished(s), Against(s, r)
                 PROVE  Verdict(s, r)
      BY DEF PassMeansSame, Verdict
    <2>1. Local(s) /\ view[s] = r /\ phase[s] = "open"
      BY DEF VerdictInv, Against, Finished
    <2> QED
      BY <2>1 DEF Local, AgainstInv
  <1> QED
    BY <1>1, VerdictAlways, PTL

\* A test that has found no recording, because there was none or because the file could
\* not be read, fails if it has matched anything.
THEOREM NoRecordingNoPass == RunSpec => []NothingRecordedFails
  <1>1. VerdictInv => NothingRecordedFails
    <2> SUFFICES ASSUME VerdictInv, NEW s \in Session \ RecordRun,
                        Finished(s), view[s] = Nobody, final[s].called # <<>>
                 PROVE  errors[s] # {}
      BY DEF NothingRecordedFails
    <2>1. Local(s) /\ final[s].called = calledKeys[s] /\ phase[s] = "open"
      BY DEF VerdictInv, Local, PhaseInv, Finished
    <2> QED
      BY <2>1 DEF Local, NobodyInv
  <1> QED
    BY <1>1, VerdictAlways, PTL
=============================================================================

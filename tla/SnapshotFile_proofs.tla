------------------------ MODULE SnapshotFile_proofs ------------------------
(***************************************************************************)
(* Proofs about SnapshotFile, for any number of sessions, files and scopes.*)
(***************************************************************************)
EXTENDS SnapshotFile, TLAPS

\* Every step of the system, faults included, and the specification without
\* fairness that both Spec and FaultySpec refine.
AnyStep == Next \/ Fault
AnySpec == Init /\ [][AnyStep]_vars

IInv == TypeOK /\ FilesUnderLock

-----------------------------------------------------------------------------
(* The inductive invariant. *)

\* The invariant holds before the tests start.
LEMMA InitInv == Init => IInv
  <1> SUFFICES ASSUME Init PROVE IInv
    OBVIOUS
  <1> USE FileAssumption DEF Init
  <1>1. TypeOK
    <2>1. form \in [Path -> Form]
      OBVIOUS
    <2>2. [Scope -> {Earlier, Nobody}] \subseteq Content
      BY DEF Content, Recording
    <2>3. disk \in [Path -> Content]
      BY <2>2
    <2>4. existing \in [Session -> Content]
      BY DEF Content, Recording, NoScopes
    <2> QED
      BY <2>1, <2>3, <2>4 DEF TypeOK, Recording, Live, Ended, Critical
  <1>2. LockInv
    BY DEF LockInv, Critical
  <1>3. PathInv /\ ReadInv
    BY DEF PathInv, ReadInv, Critical
  <1>4. FormInv
    BY DEF FormInv, Writing
  <1>5. GenuineInv /\ OnceInv
    BY DEF GenuineInv, GenuineIn, OnceInv, Writing
  <1> QED
    BY <1>1, <1>2, <1>3, <1>4, <1>5 DEF IInv, FilesUnderLock

\* Every step keeps it.
LEMMA StepInv == IInv /\ [AnyStep]_vars => IInv'
  <1> SUFFICES ASSUME IInv, [AnyStep]_vars PROVE IInv'
    OBVIOUS
  <1> USE FileAssumption
      DEF IInv, FilesUnderLock, TypeOK, LockInv, PathInv, ReadInv, FormInv,
          GenuineInv, GenuineIn, OnceInv, Form, Content, Recording, NoScopes,
          Critical, Writing, Live, Ended, At, Go
  <1>1. ASSUME NEW s \in Session, Load(s) PROVE IInv'
    BY <1>1 DEF Load, Loaded
  <1>2. ASSUME NEW s \in Session, Close(s) PROVE IInv'
    BY <1>2 DEF Close
  <1>3. ASSUME NEW s \in Session, BeginWrite(s) PROVE IInv'
    BY <1>3 DEF BeginWrite
  <1>4. ASSUME NEW s \in Session, Lock(s) PROVE IInv'
    BY <1>4 DEF Lock
  <1>5. ASSUME NEW s \in Session, ReadExisting(s) PROVE IInv'
    BY <1>5 DEF ReadExisting
  <1>6. ASSUME NEW s \in Session, RejectTorn(s) PROVE IInv'
    BY <1>6 DEF RejectTorn
  <1>7. ASSUME Die PROVE IInv'
    BY <1>7 DEF Die
  <1>8. ASSUME NEW s \in Session, Truncate(s) PROVE IInv'
    <2>1. TypeOK' /\ LockInv' /\ PathInv'
      BY <1>8 DEF Truncate
    <2>2. At(s) \in Path /\ fileLock = s
      BY <1>8 DEF Truncate
    <2>3. ReadInv'
      BY <1>8, <2>2 DEF Truncate
    <2>4. FormInv'
      BY <1>8, <2>2 DEF Truncate
    <2>5. GenuineInv'
      BY <1>8, <2>2 DEF Truncate
    <2>6. OnceInv'
      BY <1>8, <2>2 DEF Truncate
    <2> QED
      BY <2>1, <2>3, <2>4, <2>5, <2>6
  <1>9. ASSUME NEW s \in Session, WritePart(s) PROVE IInv'
    <2>1. TypeOK' /\ LockInv' /\ PathInv'
      BY <1>9 DEF WritePart
    <2>2. At(s) \in Path /\ fileLock = s /\ disk[At(s)] = NoScopes
      BY <1>9 DEF WritePart
    <2>3. ReadInv' /\ FormInv'
      BY <1>9, <2>2 DEF WritePart
    <2>4. GenuineInv' /\ OnceInv'
      BY <1>9, <2>2 DEF WritePart
    <2> QED
      BY <2>1, <2>3, <2>4
  <1>10. ASSUME NEW s \in Session, Complete(s) PROVE IInv'
    BY <1>10 DEF Complete, Full
  <1>11. ASSUME NEW s \in Session, WriteError(s) PROVE IInv'
    BY <1>11 DEF WriteError
  <1>12. ASSUME NEW s \in Session, LoadError(s) PROVE IInv'
    BY <1>12 DEF LoadError
  <1>13. CASE UNCHANGED vars
    BY <1>13 DEF vars
  <1> QED
    BY <1>1, <1>2, <1>3, <1>4, <1>5, <1>6, <1>7, <1>8, <1>9, <1>10, <1>11,
       <1>12, <1>13
    DEF AnyStep, Next, Step, WriteStep, Fault, NilMapPanic, Crash

\* In every reachable state, faults included, the variables are well-typed and
\* the files obey the lock discipline.
THEOREM AnyInv == AnySpec => []IInv
  BY InitInv, StepInv, PTL DEF AnySpec

\* Spec and FaultySpec restrict AnySpec.
LEMMA SpecIsAny == (Spec => AnySpec) /\ (FaultySpec => AnySpec)
  <1>1. [Next]_vars => [AnyStep]_vars
    BY DEF AnyStep
  <1>2. [Next \/ Fault]_vars => [AnyStep]_vars
    BY DEF AnyStep
  <1> QED
    BY <1>1, <1>2, PTL DEF Spec, FaultySpec, AnySpec

-----------------------------------------------------------------------------
(* The theorems on types, the lock and loads. *)

\* The variables keep their types.
THEOREM TypeCorrect == Spec => []TypeOK
  <1>1. IInv => TypeOK
    BY DEF IInv
  <1> QED
    BY <1>1, AnyInv, SpecIsAny, PTL

\* With write errors and crashes, the read-modify-write cycles still exclude one
\* another, and no failing path of writeSnapshotFile keeps the lock.
THEOREM LockDiscipline == FaultySpec => []FilesUnderLock
  <1>1. IInv => FilesUnderLock
    BY DEF IInv
  <1> QED
    BY <1>1, AnyInv, SpecIsAny, PTL

\* What a session compares with is a whole recording of its own scope, whatever
\* the writers of the file are doing and however they fail.
THEOREM LoadsGenuine == AnySpec => []LoadIsGenuine
  <1>1. Init => LoadIsGenuine
    BY FileAssumption DEF Init, LoadIsGenuine
  <1>2. IInv /\ LoadIsGenuine /\ [AnyStep]_vars => LoadIsGenuine'
    <2> SUFFICES ASSUME IInv, LoadIsGenuine, [AnyStep]_vars PROVE LoadIsGenuine'
      OBVIOUS
    <2>1. written \subseteq written'
      BY DEF AnyStep, Next, Step, WriteStep, Fault, Load, Close, BeginWrite, Lock,
             ReadExisting, RejectTorn, NilMapPanic, Crash, Die, Truncate, WritePart,
             Complete, WriteError, LoadError, vars
    <2>2. ASSUME NEW s \in Session, Load(s) PROVE LoadIsGenuine'
      <3>1. Loaded(s) \in Session =>
              /\ ScopeOf[Loaded(s)] = ScopeOf[s]
              /\ <<Loaded(s), PathOf[s]>> \in written
        BY FileAssumption
        DEF Loaded, IInv, FilesUnderLock, GenuineInv, GenuineIn
      <3> QED
        BY <2>2, <3>1 DEF Load, LoadIsGenuine, IInv, TypeOK
    <2>3. CASE view' = view
      BY <2>1, <2>3 DEF LoadIsGenuine
    <2> QED
      BY <2>2, <2>3
      DEF AnyStep, Next, Step, WriteStep, Fault, Close, BeginWrite, Lock,
          ReadExisting, RejectTorn, NilMapPanic, Crash, Die, Truncate, WritePart,
          Complete, WriteError, LoadError, vars
  <1> QED
    BY <1>1, <1>2, AnyInv, PTL DEF AnySpec

\* A file that cannot be parsed stays as it is until someone repairs it.
THEOREM UnreadableStays == FaultySpec => UnreadableKept
  <1> DEFINE Kept == \A p \in Path :
                       form[p] = "torn" /\ ~InFlight(p) => form'[p] = "torn"
  <1>1. IInv /\ [AnyStep]_vars => [Kept]_vars
    <2> SUFFICES ASSUME IInv, AnyStep, NEW p \in Path,
                        form[p] = "torn", ~InFlight(p)
                 PROVE  form'[p] = "torn"
      OBVIOUS
    <2> USE DEF IInv, TypeOK, FilesUnderLock, ReadInv, InFlight, Writing
    <2>1. CASE form' = form
      BY <2>1
    <2>2. ASSUME NEW s \in Session, Truncate(s) PROVE form'[p] = "torn"
      BY <2>2 DEF Truncate
    <2>3. ASSUME NEW s \in Session, WritePart(s) PROVE form'[p] = "torn"
      BY <2>3 DEF WritePart
    <2>4. ASSUME NEW s \in Session, Complete(s) PROVE form'[p] = "torn"
      BY <2>4 DEF Complete
    <2> QED
      BY <2>1, <2>2, <2>3, <2>4
      DEF AnyStep, Next, Step, WriteStep, Fault, Load, Close, BeginWrite, Lock,
          ReadExisting, RejectTorn, NilMapPanic, Crash, Die, WriteError, LoadError
  <1> QED
    BY <1>1, AnyInv, SpecIsAny, PTL DEF UnreadableKept, AnySpec

-----------------------------------------------------------------------------
(* The files implement the abstract store. *)

\* The files start as some store.
LEMMA StoreInit == Init => Store!Init
  <1> SUFFICES ASSUME Init PROVE Store!Init
    OBVIOUS
  <1>1. \A p \in Path : StoreOf(p) = disk[p]
    BY FileAssumption DEF Init, StoreOf
  <1>2. \A s \in Session : pc[s] \notin Writing /\ pc[s] \notin Broken
    BY DEF Init, Writing, Broken
  <1> QED
    BY <1>1, <1>2 DEF Init, Store!Init

\* Every step begins or ends a write, fails, or changes nothing in the store.
LEMMA StoreStep == IInv /\ [AnyStep]_vars => [Store!Next]_(Store!vars)
  <1> SUFFICES ASSUME IInv, [AnyStep]_vars PROVE [Store!Next]_(Store!vars)
    OBVIOUS
  <1> USE FileAssumption
      DEF IInv, TypeOK, FilesUnderLock, LockInv, PathInv, ReadInv, FormInv, OnceInv
  <1> DEFINE cur == [p \in Path |-> StoreOf(p)]
             out == {<<s, At(s)>> : s \in {x \in Session : pc[x] \in Writing}}
             bad == {s \in Session : pc[s] \in Broken}
             Same == /\ \A p \in Path : StoreOf(p)' = StoreOf(p)
                     /\ out' = out
                     /\ written' = written
  <1>1. Same /\ bad' = bad => UNCHANGED Store!vars
    BY DEF Store!vars
  <1>2. Same /\ bad \subseteq bad' => Store!Next
    BY DEF Store!Next, Store!Fail
  <1>3. \A s \in Session : pc[s] \in Critical /\ pc[s] \notin Writing => out = {}
    BY DEF Critical, Writing
  <1>4. \A s \in Session : pc[s] \in Writing => out = {<<s, At(s)>>}
    BY DEF Critical, Writing
  <1>5. ASSUME NEW s \in Session, Truncate(s) PROVE Store!Next
    <2>1. At(s) \in Path /\ fileLock = s /\ pc[s] = "read"
      BY <1>5 DEF Truncate, Critical
    <2>2. <<s, At(s)>> \notin written
      BY <2>1 DEF At
    <2>3. \A p \in Path : StoreOf(p)' = StoreOf(p)
      BY <1>5, <2>1 DEF Truncate, StoreOf, Critical, Writing, At, Go
    <2>4. out = {}
      BY <1>3, <2>1 DEF Critical, Writing
    <2>5. out' = {<<s, At(s)>>}
      <3>1. pc' = [pc EXCEPT ![s] = "truncated"] /\ target' = target
        BY <1>5 DEF Truncate, Go
      <3>2. \A x \in Session : pc'[x] \in Writing <=> x = s
        BY <3>1, <2>1 DEF Writing, Critical
      <3>3. At(s)' = At(s)
        BY <3>1 DEF At
      <3> QED
        BY <3>2, <3>3
    <2>6. bad' = bad /\ written' = written
      BY <1>5, <2>1 DEF Truncate, Go, Broken
    <2>7. PICK p \in Path : p = At(s)
      BY <2>1
    <2>8. Store!Begin(s, p)
      BY <2>2, <2>3, <2>4, <2>5, <2>6, <2>7 DEF Store!Begin
    <2> QED
      BY <2>8 DEF Store!Next
  <1>6. ASSUME NEW s \in Session, Complete(s) PROVE Store!Next
    <2>1. At(s) \in Path /\ fileLock = s /\ pc[s] \in Writing
      BY <1>6 DEF Complete, Critical, Writing
    <2>2. \A p \in Path : StoreOf(p) = IF p = At(s) THEN existing[s] ELSE disk[p]
      BY <1>6, <2>1 DEF Complete, StoreOf
    <2>3. \A p \in Path : StoreOf(p)' = IF p = At(s) THEN Full(s) ELSE disk[p]
      BY <1>6, <2>1 DEF Complete, StoreOf
    <2>4. out = {<<s, At(s)>>}
      BY <1>4, <2>1
    <2>5. pc' = [pc EXCEPT ![s] = IF target[s] = "raw" THEN "ready" ELSE "recorded"]
      BY <1>6 DEF Complete, Go
    <2>6. out' = {}
      <3>1. \A x \in Session : pc'[x] \notin Writing
        BY <2>1, <2>5 DEF Writing, Critical
      <3> QED
        BY <3>1
    <2>7. bad' = bad
      BY <2>1, <2>5 DEF Broken, Writing
    <2>8. PICK r \in Path : r = At(s)
      BY <2>1
    <2>9. Store!Record(s, r)
      <3> DEFINE old == [p \in Path |-> IF p = At(s) THEN existing[s] ELSE disk[p]]
                 new == [p \in Path |-> IF p = At(s) THEN Full(s) ELSE disk[p]]
      <3>1. cur = old /\ cur' = new
        BY <2>2, <2>3
      <3>2. new = [old EXCEPT ![At(s)][ScopeOf[s]] = s]
        BY <2>1 DEF Full
      <3>3. written' = written \cup {<<s, At(s)>>}
        BY <1>6 DEF Complete
      <3> QED
        BY <2>4, <2>6, <2>7, <2>8, <3>1, <3>2, <3>3 DEF Store!Record
    <2> QED
      BY <2>9 DEF Store!Next
  <1>7. ASSUME NEW s \in Session, WritePart(s) PROVE UNCHANGED Store!vars
    <2>1. pc[s] = "truncated" /\ pc' = [pc EXCEPT ![s] = "partial"]
      BY <1>7 DEF WritePart, Go
    <2>2. UNCHANGED <<disk, fileLock, target, existing, written>>
      BY <1>7 DEF WritePart
    <2>3. \A p \in Path : StoreOf(p)' = StoreOf(p)
      BY <2>1, <2>2 DEF StoreOf, Writing, At
    <2>4. out' = out /\ bad' = bad
      BY <2>1, <2>2 DEF Writing, Broken, At
    <2> QED
      BY <1>1, <2>2, <2>3, <2>4
  <1>8. ASSUME NEW s \in Session, Load(s) \/ Close(s) \/ Lock(s) \/ ReadExisting(s)
                                    \/ LoadError(s)
        PROVE  UNCHANGED Store!vars
    <2>1. UNCHANGED <<disk, target, written>>
      BY <1>8 DEF Load, Close, Lock, ReadExisting, LoadError
    <2>2. \A x \in Session :
            /\ pc'[x] \in Writing <=> pc[x] \in Writing
            /\ pc'[x] \in Broken <=> pc[x] \in Broken
      BY <1>8 DEF Load, Close, Lock, ReadExisting, LoadError, Go, Writing, Broken
    <2>3. out' = out /\ bad' = bad
      BY <2>1, <2>2 DEF At
    <2>4. \A p \in Path : StoreOf(p)' = StoreOf(p)
      BY <1>8, <2>1, <2>2
      DEF Load, Close, Lock, ReadExisting, LoadError, Go, StoreOf, Critical, Writing, At
    <2> QED
      BY <1>1, <2>1, <2>3, <2>4
  <1>9. ASSUME NEW s \in Session, BeginWrite(s) \/ RejectTorn(s) PROVE Store!Next
    <2>1. UNCHANGED <<disk, target, existing, written>>
      BY <1>9 DEF BeginWrite, RejectTorn
    <2>2. \A x \in Session :
            /\ pc'[x] \in Writing <=> pc[x] \in Writing
            /\ pc[x] \in Broken => pc'[x] \in Broken
      BY <1>9 DEF BeginWrite, RejectTorn, Go, Writing, Broken
    <2>3. out' = out /\ bad \subseteq bad'
      BY <2>1, <2>2 DEF At
    <2>4. \A p \in Path : StoreOf(p)' = StoreOf(p)
      BY <1>9, <2>1, <2>2
      DEF BeginWrite, RejectTorn, Go, StoreOf, Critical, Writing, At
    <2> QED
      BY <1>2, <2>1, <2>3, <2>4
  <1>10. ASSUME fileLock' = Nobody,
                UNCHANGED <<disk, target, existing, written>>,
                \A x \in Session : pc'[x] \notin Writing,
                \A x \in Session : pc[x] \in Writing \cup Broken => pc'[x] \in Broken
         PROVE  Store!Next
    <2>1. \A p \in Path : StoreOf(p)' = disk[p]
      BY <1>10 DEF StoreOf
    <2>2. out' = {} /\ bad \subseteq bad'
      BY <1>10
    <2>3. CASE \A x \in Session : pc[x] \notin Writing
      <3>1. \A p \in Path : StoreOf(p) = disk[p]
        BY <2>3 DEF StoreOf
      <3>2. out = {}
        BY <2>3
      <3> QED
        BY <1>2, <1>10, <2>1, <2>2, <3>1, <3>2
    <2>4. ASSUME NEW s \in Session, pc[s] \in Writing PROVE Store!Next
      <3>1. fileLock = s /\ At(s) \in Path /\ disk[At(s)] = NoScopes
        BY <2>4 DEF Writing, Critical
      <3>2. out = {<<s, At(s)>>}
        BY <1>4, <2>4
      <3>3. \A p \in Path : StoreOf(p) = IF p = At(s) THEN existing[s] ELSE disk[p]
        BY <2>4, <3>1 DEF StoreOf
      <3>4. s \in bad'
        BY <1>10, <2>4
      <3>5. PICK r \in Path : r = At(s)
        BY <3>1
      <3>6. Store!Lose(s, r)
        <4> DEFINE old == [p \in Path |-> IF p = At(s) THEN existing[s] ELSE disk[p]]
                   new == [p \in Path |-> disk[p]]
        <4>1. cur = old /\ cur' = new
          BY <2>1, <3>3
        <4>2. new = [old EXCEPT ![At(s)] = NoScopes]
          BY <3>1
        <4> QED
          BY <1>10, <2>2, <3>2, <3>4, <3>5, <4>1, <4>2 DEF Store!Lose, NoScopes
      <3> QED
        BY <3>6 DEF Store!Next
    <2> QED
      BY <2>3, <2>4
  <1>11. ASSUME NEW s \in Session, WriteError(s) PROVE Store!Next
    <2>1. pc' = [pc EXCEPT ![s] = "failed"] /\ fileLock = s
      BY <1>11 DEF WriteError, Go
    <2>2. \A x \in Session : pc'[x] \notin Writing
      BY <2>1 DEF Writing, Critical
    <2>3. \A x \in Session : pc[x] \in Writing \cup Broken => pc'[x] \in Broken
      BY <2>1 DEF Writing, Critical, Broken
    <2> QED
      BY <1>10, <1>11, <2>2, <2>3 DEF WriteError
  <1>12. ASSUME Die PROVE Store!Next
    <2>1. pc' = [s \in Session |-> IF pc[s] \in Live THEN "dead" ELSE pc[s]]
      BY <1>12 DEF Die
    <2>2. \A x \in Session : pc'[x] \notin Writing
      BY <2>1 DEF Writing, Critical, Live
    <2>3. \A x \in Session : pc[x] \in Writing \cup Broken => pc'[x] \in Broken
      BY <2>1 DEF Writing, Critical, Broken, Live
    <2> QED
      BY <1>10, <1>12, <2>2, <2>3 DEF Die
  <1>13. CASE UNCHANGED vars
    <2>1. Same /\ bad' = bad
      BY <1>13 DEF vars, StoreOf, At
    <2> QED
      BY <1>1, <2>1
  <1> QED
    BY <1>5, <1>6, <1>7, <1>8, <1>9, <1>11, <1>12, <1>13
    DEF AnyStep, Next, Step, WriteStep, Fault, NilMapPanic, Crash

\* The files implement the store, with write errors and crashes: recordings take effect
\* one after the other, and what a fault loses is the file that was being written, by a
\* session that has failed.
THEOREM ImplementsStore == AnySpec => StoreSpec
  <1> QED
    BY StoreStep, StoreInit, AnyInv, PTL DEF AnySpec, StoreSpec, Store!Spec

-----------------------------------------------------------------------------
(* No recording of a parallel test is lost. *)

\* In the store the files stand for, every finished recording has its scope, but in a
\* file that a failed write has spoiled.
Held ==
    \A s \in Session, p \in Path :
        <<s, p>> \in written /\ ~Spoiled(p) =>
            \E x \in Session : /\ ScopeOf[x] = ScopeOf[s]
                               /\ <<x, p>> \in written
                               /\ StoreOf(p)[ScopeOf[s]] = x

\* What is spoiled stays so, and a session that fails spoils the file it writes.
LEMMA SpoiledStays ==
  ASSUME IInv, [AnyStep]_vars
  PROVE  /\ \A p \in Path : Spoiled(p) => Spoiled(p)'
         /\ \A s \in Session, p \in Path :
              pc'[s] \in Broken /\ At(s) = p => Spoiled(p)'
  <1>1. \A s \in Session : pc'[s] \in Broken => target'[s] = target[s]
    BY DEF AnyStep, Next, Step, WriteStep, Fault, Load, Close, BeginWrite, Lock,
           ReadExisting, RejectTorn, NilMapPanic, Crash, Die, Truncate, WritePart,
           Complete, WriteError, LoadError, vars, Go, IInv, TypeOK, Broken, Writing
  <1>2. \A s \in Session : pc[s] \in Broken => pc'[s] \in Broken
    BY DEF AnyStep, Next, Step, WriteStep, Fault, Load, Close, BeginWrite, Lock,
           ReadExisting, RejectTorn, NilMapPanic, Crash, Die, Truncate, WritePart,
           Complete, WriteError, LoadError, vars, Go, IInv, TypeOK, Broken, Writing,
           Critical, Live
  <1>3. \A s \in Session : pc'[s] \in Broken => At(s)' = At(s)
    BY <1>1 DEF At
  <1> QED
    BY <1>2, <1>3 DEF Spoiled

\* A step of the abstract store keeps it.
LEMMA HeldStep == IInv /\ Held /\ [AnyStep]_vars => Held'
  <1> SUFFICES ASSUME IInv, Held, [AnyStep]_vars PROVE Held'
    OBVIOUS
  <1> DEFINE cur == [p \in Path |-> StoreOf(p)]
             out == {<<s, At(s)>> : s \in {x \in Session : pc[x] \in Writing}}
             bad == {s \in Session : pc[s] \in Broken}
  <1>0. [Store!Next]_(Store!vars)
    BY StoreStep
  <1>1. \A p \in Path : Spoiled(p) => Spoiled(p)'
    BY SpoiledStays
  <1>2. \A p \in Path : StoreOf(p) \in Content
    BY FileAssumption DEF StoreOf, IInv, TypeOK
  <1>3. \A p \in Path : cur[p] = StoreOf(p) /\ cur'[p] = StoreOf(p)'
    OBVIOUS
  <1>4. ASSUME cur' = cur, written' = written PROVE Held'
    <2>1. \A p \in Path : StoreOf(p)' = StoreOf(p)
      BY <1>3, <1>4
    <2> QED
      BY <1>1, <1>4, <2>1 DEF Held
  <1>5. ASSUME NEW t \in Session, NEW q \in Path, Store!Record(t, q) PROVE Held'
    <2>1. cur' = [cur EXCEPT ![q][ScopeOf[t]] = t] /\ written' = written \cup {<<t, q>>}
      BY <1>5 DEF Store!Record
    <2>2. \A p \in Path : StoreOf(p)' = IF p = q THEN [StoreOf(q) EXCEPT ![ScopeOf[t]] = t]
                                                ELSE StoreOf(p)
      BY <1>3, <2>1
    <2> SUFFICES ASSUME NEW s \in Session, NEW p \in Path, <<s, p>> \in written',
                        ~Spoiled(p)'
                 PROVE  \E x \in Session : /\ ScopeOf[x] = ScopeOf[s]
                                          /\ <<x, p>> \in written'
                                          /\ StoreOf(p)'[ScopeOf[s]] = x
      BY DEF Held
    <2> USE FileAssumption
    <2>3. StoreOf(q) \in [Scope -> Recording] /\ ScopeOf[s] \in Scope
      BY <1>2 DEF Content
    <2>4. CASE p = q /\ ScopeOf[s] = ScopeOf[t]
      BY <2>1, <2>2, <2>3, <2>4
    <2>5. CASE ~(p = q /\ ScopeOf[s] = ScopeOf[t])
      <3>1. StoreOf(p)'[ScopeOf[s]] = StoreOf(p)[ScopeOf[s]]
        BY <2>2, <2>3, <2>5
      <3>2. <<s, p>> \in written /\ ~Spoiled(p)
        BY <1>1, <2>1, <2>5
      <3>3. PICK x \in Session : /\ ScopeOf[x] = ScopeOf[s]
                                 /\ <<x, p>> \in written
                                 /\ StoreOf(p)[ScopeOf[s]] = x
        BY <3>2 DEF Held
      <3>4. <<x, p>> \in written'
        BY <2>1, <3>3
      <3> QED
        BY <3>1, <3>3, <3>4
    <2> QED
      BY <2>4, <2>5
  <1>6. ASSUME NEW t \in Session, NEW q \in Path, Store!Lose(t, q) PROVE Held'
    <2>1. cur' = [cur EXCEPT ![q] = NoScopes] /\ written' = written
      BY <1>6 DEF Store!Lose, NoScopes
    <2>2. out = {<<t, q>>} /\ t \in bad'
      BY <1>6 DEF Store!Lose
    <2>3. q = At(t)
      <3>1. <<t, q>> \in out
        BY <2>2
      <3>2. PICK x \in Session : <<t, q>> = <<x, At(x)>>
        BY <3>1
      <3> QED
        BY <3>2
    <2>4. Spoiled(q)'
      <3>1. pc'[t] \in Broken
        BY <2>2
      <3> QED
        BY <2>3, <3>1, SpoiledStays
    <2>5. \A p \in Path : p # q => StoreOf(p)' = StoreOf(p)
      BY <1>3, <2>1
    <2> SUFFICES ASSUME NEW s \in Session, NEW p \in Path, <<s, p>> \in written',
                        ~Spoiled(p)'
                 PROVE  \E x \in Session : /\ ScopeOf[x] = ScopeOf[s]
                                          /\ <<x, p>> \in written'
                                          /\ StoreOf(p)'[ScopeOf[s]] = x
      BY DEF Held
    <2>6. p # q
      BY <2>4
    <2>7. <<s, p>> \in written /\ ~Spoiled(p)
      BY <1>1, <2>1
    <2>8. PICK x \in Session : /\ ScopeOf[x] = ScopeOf[s]
                               /\ <<x, p>> \in written
                               /\ StoreOf(p)[ScopeOf[s]] = x
      BY <2>7 DEF Held
    <2> QED
      BY <2>1, <2>5, <2>6, <2>8
  <1>7. CASE UNCHANGED Store!vars
    <2>1. cur' = cur /\ written' = written
      BY <1>7 DEF Store!vars
    <2> QED
      BY <1>4, <2>1
  <1>8. CASE Store!Fail
    <2>1. cur' = cur /\ written' = written
      BY <1>8 DEF Store!Fail
    <2> QED
      BY <1>4, <2>1
  <1>9. ASSUME NEW t \in Session, NEW q \in Path, Store!Begin(t, q) PROVE Held'
    <2>1. cur' = cur /\ written' = written
      BY <1>9 DEF Store!Begin
    <2> QED
      BY <1>4, <2>1
  <1> QED
    BY <1>0, <1>5, <1>6, <1>7, <1>8, <1>9 DEF Store!Next

\* For any number of parallel tests, files and scopes: what a test has recorded is
\* still there, under its scope, whatever the others write afterwards, unless a write
\* to that file fails.
THEOREM NoRecordingLost == AnySpec => []RecordingsSurvive
  <1>1. Init => Held
    BY DEF Init, Held
  <1>2. IInv /\ Held => RecordingsSurvive
    <2> SUFFICES ASSUME IInv, Held, NEW s \in Session, NEW p \in Path,
                        <<s, p>> \in written, ~InFlight(p), ~Spoiled(p)
                 PROVE  /\ form[p] = "json"
                        /\ \E x \in Session : /\ ScopeOf[x] = ScopeOf[s]
                                              /\ <<x, p>> \in written
                                              /\ disk[p][ScopeOf[s]] = x
      BY DEF RecordingsSurvive
    <2>1. StoreOf(p) = disk[p]
      BY DEF StoreOf, InFlight
    <2>2. PICK x \in Session : /\ ScopeOf[x] = ScopeOf[s]
                               /\ <<x, p>> \in written
                               /\ disk[p][ScopeOf[s]] = x
      BY <2>1 DEF Held
    <2>3. disk[p] # NoScopes
      BY <2>2, FileAssumption DEF NoScopes
    <2> QED
      BY <2>2, <2>3 DEF IInv, FilesUnderLock, FormInv
  <1> QED
    BY <1>1, <1>2, HeldStep, AnyInv, PTL DEF AnySpec
=============================================================================

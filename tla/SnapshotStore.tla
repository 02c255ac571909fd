--------------------------- MODULE SnapshotStore ---------------------------
(***************************************************************************)
(* What the snapshot files promise, without locks, reads or partial        *)
(* writes: a store that maps every file and every scope (the name of a     *)
(* test) to the session whose recording stands there.  A write replaces    *)
(* one scope of one file in a single step and touches nothing else; or it  *)
(* fails, and may take the file that it was writing with it, but no other  *)
(* one, and not without its session having failed.                         *)
(***************************************************************************)
CONSTANTS
    Session,    \* the sessions that may record
    Path,       \* the snapshot files
    Scope,      \* the scope keys inside a file
    ScopeOf,    \* the scope key of every session
    Earlier,    \* a recording that stands in a file at the start
    Nobody      \* marks a scope without a recording

VARIABLES
    store,      \* store[p][k]: whose recording stands under scope k of file p
    writing,    \* the <<session, file>> pair of the write that is under way, if any
    failed,     \* the sessions of which a write has failed, or whose process died
    written     \* the <<session, file>> pairs of the recordings that succeeded

vars == <<store, writing, failed, written>>

Init ==
    /\ store \in [Path -> [Scope -> {Earlier, Nobody}]]
    /\ writing = {}
    /\ failed = {}
    /\ written = {}

\* Session s begins to write file p, which no other one is doing and which it has not
\* done before.
Begin(s, p) ==
    /\ writing = {}
    /\ <<s, p>> \notin written
    /\ writing' = {<<s, p>>}
    /\ UNCHANGED <<store, failed, written>>

\* It records its scope in the file.
Record(s, p) ==
    /\ writing = {<<s, p>>}
    /\ store' = [store EXCEPT ![p][ScopeOf[s]] = s]
    /\ written' = written \cup {<<s, p>>}
    /\ writing' = {}
    /\ UNCHANGED failed

\* It fails half-way and leaves no recording readable in the file.
Lose(s, p) ==
    /\ writing = {<<s, p>>}
    /\ store' = [store EXCEPT ![p] = [k \in Scope |-> Nobody]]
    /\ writing' = {}
    /\ s \in failed' /\ failed \subseteq failed'
    /\ UNCHANGED written

\* Sessions fail before they have begun to write.
Fail ==
    /\ failed \subseteq failed'
    /\ UNCHANGED <<store, writing, written>>

Next ==
    \/ Fail
    \/ \E s \in Session, p \in Path : Begin(s, p) \/ Record(s, p) \/ Lose(s, p)

Spec == Init /\ [][Next]_vars
=============================================================================

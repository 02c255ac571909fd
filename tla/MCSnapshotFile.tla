--------------------------- MODULE MCSnapshotFile ---------------------------
(***************************************************************************)
(* The sessions of one package for TLC: a and b record the same scope (one *)
(* test that opens two sessions), c another one in the same file; c also   *)
(* writes a raw file, and the test file of d is unknown.                   *)
(***************************************************************************)
EXTENDS SnapshotFile

CONSTANTS a, b, c, d, file, rawFile, k1, k2

MCSession == {a, b, c, d}
MCPath == {file, rawFile}
MCScope == {k1, k2}
MCPathOf == [s \in Session |-> IF s = d THEN NoPath ELSE file]
MCRawPathOf == [s \in Session |-> IF s = d THEN NoPath ELSE rawFile]
MCScopeOf == [s \in Session |-> IF s = c THEN k2 ELSE k1]
MCRawSession == {c}

\* A read or a write has failed, or a file is there that is no snapshot file.
Trouble ==
    \/ loadErrors # {}
    \/ \E s \in Session : pc[s] = "dead" \/ (pc[s] = "failed" /\ PathOf[s] \in Path)
    \/ \E p \in Path : form[p] \notin {"absent", "json"} /\ ~InFlight(p)

\* Bound: all four sessions take part as long as nothing goes wrong, and two of them, a
\* and c, otherwise.
Bounded == Trouble => pc[b] = "new" /\ pc[d] = "new"

MCNext == (Next \/ Fault) /\ Bounded'

MCSpec == Init /\ [][MCNext]_vars /\ Fairness
=============================================================================

--------------------------- MODULE MCSnapshotRun ---------------------------
(***************************************************************************)
(* Two tests of one file that record in parallel (rA, rB), for TLC, and one*)
(* that verifies (vA): with the field skipped in which it differs, with a  *)
(* new key and without the transformer, or with a changed value.  rA also  *)
(* writes a raw file.                                                      *)
(***************************************************************************)
EXTENDS SnapshotRun

CONSTANTS rA, rB, vA, A, B, file, rawFile, k1, k2, f, g, u, v, w, promote

MCSession == {rA, rB, vA}
MCRecordRun == {rA, rB}
MCPath == {file, rawFile}
MCScope == {A, B}
MCPathOf == [s \in MCSession |-> file]
MCRawPathOf == [s \in MCSession |-> rawFile]
MCScopeOf == [s \in MCSession |-> IF s \in {rA, vA} THEN A ELSE B]
MCRawSession == {rA}
MCField == {f, g}
MCScalar == {u, v, w}
MCRewrite == [t \in Transformer |-> [x \in Scalar |-> IF x = u THEN v ELSE x]]

Full == [x \in Field |-> u]
Other == [x \in Field |-> IF x = f THEN w ELSE u]
MCDocs == {Full, Other}
MCPathSets == {{f}}
MCEarlierState == [k \in Scope |-> [x \in Key |-> IF x = k1 THEN Full ELSE NoDoc]]

MatchOf(key, doc) == [op |-> "match", key |-> key, doc |-> doc]
AddPromote == [op |-> "transform", transformer |-> promote]
SkipF == [op |-> "skip", paths |-> {f}]

MCScripts ==
    [s \in MCSession |->
        CASE s = rA -> {<<AddPromote, MatchOf(k1, Full)>>}
          [] s = rB -> {<<MatchOf(k2, Full)>>}
          [] s = vA -> {<<SkipF, MatchOf(k1, Other), AddPromote>>,
                        <<MatchOf(k1, Full), MatchOf(k2, Full)>>,
                        <<AddPromote, MatchOf(k1, Other)>>}]
=============================================================================

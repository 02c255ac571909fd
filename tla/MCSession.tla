----------------------------- MODULE MCSession -----------------------------
(***************************************************************************)
(* One session for TLC: every recording over two keys and two documents,   *)
(* and transformers whose order matters (u becomes w only if promote runs  *)
(* before finalize).                                                       *)
(***************************************************************************)
EXTENDS Session

CONSTANTS s1, k1, k2, f, g, u, v, w, promote, finalize, replace, reject

MCField == {f, g}
MCScalar == {u, v, w}
MCRewrite ==
    [t \in Transformer |->
        [x \in Scalar |-> IF t = promote /\ x = u THEN v
                          ELSE IF t = finalize /\ x = v THEN w
                          ELSE IF t = replace /\ x = w THEN u
                          ELSE x]]
MCLate == {replace}
MCRejects == {reject}

FullDoc == [x \in Field |-> u]
MCDocs == {FullDoc, [x \in Field |-> IF x = f THEN w ELSE Gone]}
MCPathSets == {{f}, {k1}, {BadPath}}

\* What the scope may hold: per key nothing, a document as it is passed to Match,
\* or one as promote leaves it.
MCRecordings == [Key -> {NoDoc, FullDoc, [x \in Field |-> v]}]

\* Bound: a session that verifies adds one transformer of priority 0, one that records
\* adds two and matches one key.
Bounded ==
    \A s \in Session :
        IF config[s].update
        THEN ToSet(calledKeys[s]) \subseteq {k1} /\ recorded[s][k2] = NoDoc
        ELSE Len(transformers[s]) <= 1 /\ \A r \in ToSet(transformers[s]) : r.priority = 0
=============================================================================

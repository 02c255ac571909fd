----------------------------- MODULE PastedRun -----------------------------
(***************************************************************************)
(* Two runs of a test (session.go, finish): the first one reports what     *)
(* differs (module Report), and the next one has skip paths, which it      *)
(* removes one after the other (module SkipPaths), first from the recorded *)
(* and then from the observed state.  The properties are those of the two  *)
(* modules, and ReportSpec.                                                *)
(***************************************************************************)
EXTENDS Report, SkipPaths

CONSTANT
    Written         \* Written[p]: the lists a developer writes without the report on p

\* The developer knows some lists for every pair.
ASSUME WrittenAssumption ==
    /\ DOMAIN Written = Pairs
    /\ \A p \in Pairs : \A list \in Written[p] : Range(list) \in Edits

VARIABLES
    side,           \* the state that is handled in the next run, or "none"
    expected        \* what is left of the recorded state

vars == <<reportVars, removalVars, side, expected>>

Init ==
    /\ ReportInit
    /\ side = "none"
    /\ expected = Leaf(MapNode)
    /\ RemovalInit

\* The first run, without skip paths.
FirstRun == Compare /\ UNCHANGED <<removalVars, side, expected>>

\* The next run: its finish takes the paths of the report, in any order, or others, and
\* begins with the recorded state.
NextRun ==
    /\ after = "reported" /\ side = "none"
    /\ side' = "recorded"
    /\ \E list \in SetToSeqs(ignored) \cup Written[pair] : Call(StateOf(pair[1]), list)
    /\ UNCHANGED <<reportVars, expected>>

\* A part of removeSkipVerificationPaths.
Removing ==
    /\ ApplyNext \/ Return
    /\ UNCHANGED <<reportVars, side, expected>>

\* Mutant of Transform: the observed state keeps what is skipped.
TransformOnly ==
    /\ side = "recorded" /\ returned /\ errs = {}
    /\ side' = "observed"
    /\ expected' = state
    /\ original' = StateOf(pair[2]) /\ state' = StateOf(pair[2])
    /\ UNCHANGED <<reportVars, paths, next, hasPlaceholder, errs, returned>>

\* transform removes the paths from the observed state, too.
Transform ==
    /\ side = "recorded" /\ returned /\ errs = {}
    /\ side' = "observed"
    /\ expected' = state
    /\ Call(StateOf(pair[2]), paths)
    /\ UNCHANGED reportVars

\* The run ends with its verdict; a path that does not parse is one.
EndRun ==
    /\ after = "reported" /\ returned
    /\ \/ side = "recorded" /\ errs # {} /\ after' = "invalid path"
       \/ side = "observed" /\ after' = Verdict(expected, state)
    /\ pasted' = Range(paths)
    /\ UNCHANGED <<pair, changes, ignored, removalVars, side, expected>>

Next == FirstRun \/ NextRun \/ Removing \/ Transform \/ EndRun

Spec == Init /\ [][Next]_vars
=============================================================================

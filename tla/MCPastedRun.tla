---------------------------- MODULE MCPastedRun ----------------------------
(***************************************************************************)
(* Recorded and observed values for TLC: every two of a family with nested *)
(* lists and maps, scalars of two types, and keys that are plain, a        *)
(* number, to be quoted, or impossible to quote, with the ignore list of   *)
(* the report pasted; and equal values with lists in maps, maps in lists,  *)
(* lists in lists and repeated names, with the kinds of skip paths that    *)
(* the README lists.                                                       *)
(***************************************************************************)
EXTENDS PastedRun

CONSTANTS key, a, b, dotted, apostrophe, zero, padded, x, y, one

\* The keys 0 and 00.
MCName == {key, a, b, dotted, apostrophe, zero, padded}
MCAsIndex == [n \in Name |-> IF n \in {zero, padded} THEN 0 ELSE NotANumber]
MCTypeOf == [s \in Node |-> IF s = one THEN "number" ELSE "string"]

X == Leaf(x)
Y == Leaf(y)

-----------------------------------------------------------------------------
(* Values that differ. *)

Inner ==
    {X, Y, Leaf(one)}
    \cup {MapOf([m \in {n} |-> X]) : n \in {a, zero, dotted}}
    \cup {ListOf(<<>>), ListOf(<<X>>), ListOf(<<X, Y>>)}

Outer ==
    Inner
    \cup {ListOf(<<d, X>>) : d \in Inner}
    \cup {MapOf([m \in {n} |-> d]) : n \in {a, dotted, apostrophe}, d \in Inner}
    \cup {MapOf([m \in {a, zero} |-> IF m = a THEN d ELSE X]) : d \in Inner}
    \cup {MapOf([m \in {a} |-> ListOf(<<d, ListOf(<<e>>)>>)]) :
            d \in Inner, e \in {Y, MapOf([m \in {a} |-> Y])}}

-----------------------------------------------------------------------------
(* Values that may differ, with skip paths written by hand. *)

Small ==
    {X, ListOf(<<>>), ListOf(<<X, Y>>), ListOf(<<Y, X, Y>>),
     MapOf([n \in {a} |-> X]), MapOf([n \in {a, zero, padded} |-> Y])}

Large ==
    Small
    \cup {ListOf(<<d, e>>) : d \in Small, e \in Small}
    \cup {MapOf([n \in {a, b} |-> IF n = a THEN d ELSE e]) : d \in Small, e \in Small}

\* Two items of a list, of which one may be the string that marks items for removal.
Marks ==
    LET items == {X, Y, Leaf(Placeholder)}
    IN  {ListOf(<<d, e>>) : d \in items, e \in items}

HandPairs == (Small \X Small) \cup {<<d, d>> : d \in Large \cup Marks}

MCPairs == (Outer \X Outer) \cup HandPairs
MCStates == {StateOf(d) : d \in UNION {{p[1], p[2]} : p \in MCPairs}}

MCExpressions ==
    {<<Root, Dots, Word(a)>>,
     <<Root, Dots, Word(a), BracketIndex(0)>>,
     <<Root, Dots, Word(b), Dots, Word(zero)>>,
     <<Root, Dots, BracketIndex(1)>>,
     <<Root, Dots, BracketIndex(-1)>>,
     <<Word(key), Dot, Star, BracketStar>>,
     <<Root, Dots, Quoted(zero)>>,
     <<Root, Dots, Word(padded)>>,
     <<Root, BracketKey(key), Dot, Word(zero), Dot, Word(a)>>,
     <<Root, Dots>>}

\* Bound: a developer writes at most MaxPaths paths, for the values above.
MCEdits == {Range(list) : list \in Lists}
MCWritten == [p \in Pairs |-> IF p \in HandPairs THEN Lists ELSE {}]
=============================================================================

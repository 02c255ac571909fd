---------------------------- MODULE Report_proofs ----------------------------
(***************************************************************************)
(* Proofs about Report, for any pair of JSON values: Diff finds exactly    *)
(* the differences, and each of them once; and the ignore list, pasted,    *)
(* makes the test pass if all of them can be named.                        *)
(***************************************************************************)
EXTENDS Report, JsonPath_proofs

\* The two documents are the same at q.
Same(expected, actual, q) ==
    q \in DOMAIN expected \cap DOMAIN actual /\ expected[q] = actual[q]

-----------------------------------------------------------------------------
(* Positions. *)

\* The values around a value are in the document, too.
LEMMA AroundIn ==
    ASSUME NEW doc, IsTree(doc), NEW q \in DOMAIN doc, NEW n \in 0..Len(q)
    PROVE  SubSeq(q, 1, n) \in DOMAIN doc
  <1>1. DOMAIN doc \subseteq Seq(Elem)
    BY DEF IsTree
  <1>2. ASSUME NEW x \in DOMAIN doc, x # <<>> PROVE Front(x) \in DOMAIN doc
    BY <1>2 DEF IsTree, IsDocument
  <1> QED
    BY <1>1, <1>2, Ancestors

\* ... and they are containers.
LEMMA Around ==
    ASSUME NEW doc, IsTree(doc), NEW q \in DOMAIN doc, NEW n \in 0..Len(q)-1
    PROVE  IsContainer(doc[SubSeq(q, 1, n)])
  <1> DEFINE r == SubSeq(q, 1, n + 1)
  <1>1. q \in Seq(Elem) /\ Len(q) \in Nat
    BY DEF IsTree
  <1>2. r \in DOMAIN doc
    BY <1>1, AroundIn
  <1>3. Len(r) = n + 1 /\ SubSeq(r, 1, n) = SubSeq(q, 1, n)
    BY <1>1, FirstOf
  <1>4. r # <<>>
    BY <1>3
  <1> HIDE DEF r
  <1>5. doc[Front(r)] \in Containers
    BY <1>2, <1>4 DEF IsTree, IsDocument, Containers
  <1>6. Front(r) = SubSeq(q, 1, n)
    BY <1>3 DEF Front
  <1> QED
    BY <1>5, <1>6 DEF IsContainer

-----------------------------------------------------------------------------
(* Diff. *)

\* A difference is found at its position or around it.
LEMMA DifferencesReached ==
    ASSUME NEW expected, NEW actual, IsTree(expected), IsTree(actual),
           NEW q \in DOMAIN expected \cup DOMAIN actual, ~Same(expected, actual, q)
    PROVE  \E r \in Reached(expected, actual) : IsPrefix(r, q) /\ ~Same(expected, actual, r)
  <1> DEFINE T == {n \in 0..Len(q) : ~Same(expected, actual, SubSeq(q, 1, n))}
  <1>1. q \in Seq(Elem) /\ Len(q) \in Nat
    BY DEF IsTree
  <1>2. Len(q) \in T
    <2>1. SubSeq(q, 1, Len(q)) = q /\ Len(q) \in 0..Len(q)
      BY <1>1, AllOf
    <2> QED
      BY <2>1
  <1>3. T \subseteq Nat
    BY <1>1
  <1>4. PICK n \in T : \A m \in T : n <= m
    <2> HIDE DEF T
    <2> QED
      BY <1>2, <1>3, LeastNumber
  <1> DEFINE r == SubSeq(q, 1, n)
  <1>5. n \in 0..Len(q)
    OBVIOUS
  <1>6. /\ r \in Seq(Elem) /\ Len(r) = n
        /\ \A m \in 0..n : SubSeq(r, 1, m) = SubSeq(q, 1, m)
    BY <1>1, <1>5, FirstOf
  <1>7. r \in DOMAIN expected \cup DOMAIN actual
    BY <1>5, AroundIn
  <1>8. ASSUME NEW m \in 0..n-1
        PROVE  /\ Same(expected, actual, SubSeq(q, 1, m))
               /\ IsContainer(expected[SubSeq(q, 1, m)])
    <2>1. m \in 0..Len(q)-1 /\ m \in 0..Len(q)
      BY <1>1, <1>5
    <2>2. m \notin T
      BY <1>4, <1>5, <2>1
    <2>3. Same(expected, actual, SubSeq(q, 1, m))
      BY <2>1, <2>2
    <2>4. CASE q \in DOMAIN expected
      BY <2>1, <2>3, <2>4, Around
    <2>5. CASE q \in DOMAIN actual
      <3>1. IsContainer(actual[SubSeq(q, 1, m)])
        BY <2>1, <2>5, Around
      <3> QED
        BY <2>3, <3>1 DEF Same
    <2> QED
      BY <2>3, <2>4, <2>5
  <1>9. ~Same(expected, actual, r)
    OBVIOUS
  <1> HIDE DEF T
  <1>10. \A m \in 0..Len(r)-1 :
            /\ SubSeq(r, 1, m) \in DOMAIN expected \cap DOMAIN actual
            /\ IsContainer(expected[SubSeq(r, 1, m)])
            /\ expected[SubSeq(r, 1, m)] = actual[SubSeq(r, 1, m)]
    <2>1. Len(r) = n /\ n \in Nat
      BY <1>1, <1>5, <1>6
    <2>2. ASSUME NEW m \in 0..n-1 PROVE SubSeq(r, 1, m) = SubSeq(q, 1, m)
      BY <1>6, <2>1
    <2> HIDE DEF r
    <2> QED
      BY <1>8, <2>1, <2>2 DEF Same
  <1>11. IsPrefix(r, q)
    <2>1. r \in Seq(Elem) /\ Len(r) = n /\ r = SubSeq(q, 1, n)
      BY <1>6
    <2> HIDE DEF r
    <2> QED
      BY <1>1, <1>5, <2>1, PrefixIsFirst
  <1> HIDE DEF r
  <1>12. r \in Reached(expected, actual)
    BY <1>7, <1>10 DEF Reached
  <1> QED
    BY <1>9, <1>11, <1>12

\* What Diff returns.
LEMMA DiffAt ==
    ASSUME NEW expected, NEW actual
    PROVE  /\ \A c \in Diff(expected, actual) :
                 c[2] \in Reached(expected, actual) /\ ~Same(expected, actual, c[2])
           /\ \A c, d \in Diff(expected, actual) : c[2] = d[2] => c = d
           /\ \A q \in Reached(expected, actual) :
                 ~Same(expected, actual, q) => \E c \in Diff(expected, actual) : c[2] = q
  <1> DEFINE found == {r \in Reached(expected, actual) :
                         ~(/\ r \in DOMAIN expected \cap DOMAIN actual
                           /\ expected[r] = actual[r])}
  <1>1. \A r : r \in found <=> r \in Reached(expected, actual) /\ ~Same(expected, actual, r)
    BY DEF Same
  <1> HIDE DEF found
  <1>2. Diff(expected, actual) = {<<ChangeType(expected, actual, q), q>> : q \in found}
    BY DEF Diff, found
  <1>3. \A c \in Diff(expected, actual) :
            c[2] \in found /\ c = <<ChangeType(expected, actual, c[2]), c[2]>>
    BY <1>2
  <1>4. ASSUME NEW q \in found PROVE \E c \in Diff(expected, actual) : c[2] = q
    <2>1. <<ChangeType(expected, actual, q), q>> \in Diff(expected, actual)
      BY <1>2
    <2>2. <<ChangeType(expected, actual, q), q>>[2] = q
      OBVIOUS
    <2> QED
      BY <2>1, <2>2, Zenon
  <1> QED
    BY <1>1, <1>3, <1>4

\* No difference is inside another one.
LEMMA OutermostOnly ==
    ASSUME NEW expected, NEW actual, IsTree(expected), IsTree(actual),
           NEW q \in Reached(expected, actual), NEW r \in Reached(expected, actual),
           ~Same(expected, actual, q), IsPrefix(q, r)
    PROVE  q = r
  <1>1. q \in Seq(Elem) /\ r \in Seq(Elem)
    BY DEF Reached, IsTree
  <1>2. Len(q) \in 0..Len(r) /\ q = SubSeq(r, 1, Len(q))
    BY <1>1, PrefixIsFirst
  <1>3. CASE Len(q) = Len(r)
    BY <1>1, <1>2, <1>3, AllOf
  <1>4. CASE Len(q) # Len(r)
    <2>1. Len(q) \in 0..Len(r)-1
      BY <1>1, <1>2, <1>4
    <2>2. Same(expected, actual, SubSeq(r, 1, Len(q)))
      BY <2>1 DEF Reached, Same
    <2> QED
      BY <1>2, <2>2
  <1> QED
    BY <1>3, <1>4

\* The values at a position differ if their roots do.
LEMMA RootOfValue ==
    ASSUME NEW doc, IsTree(doc), NEW q \in DOMAIN doc
    PROVE  <<>> \in DOMAIN ValueAt(doc, q) /\ ValueAt(doc, q)[<<>>] = doc[q]
  <1>1. q \in Seq(Elem) /\ IsPrefix(q, q)
    BY DEF IsTree, IsPrefix
  <1>2. SubSeq(q, Len(q) + 1, Len(q)) = <<>> /\ q \o <<>> = q
    BY <1>1
  <1> QED
    BY <1>1, <1>2 DEF ValueAt

\* Two documents that are the same everywhere are the same.
LEMMA SameEverywhere ==
    ASSUME NEW expected, NEW actual, IsTree(expected), IsTree(actual),
           \A q \in DOMAIN expected \cup DOMAIN actual : Same(expected, actual, q)
    PROVE  expected = actual
  <1>1. DOMAIN expected = DOMAIN actual
    BY DEF Same
  <1>2. \A q \in DOMAIN expected : expected[q] = actual[q]
    BY DEF Same
  <1>3. /\ expected = [q \in DOMAIN expected |-> expected[q]]
        /\ actual = [q \in DOMAIN actual |-> actual[q]]
    BY DEF IsTree
  <1> QED
    BY <1>1, <1>2, <1>3

-----------------------------------------------------------------------------
(* The changes. *)

Compared == after # "not compared" => changes = Diff(pair[1], pair[2])

Inv == pair \in Pairs /\ Compared

LEMMA InitInv == ReportInit => Inv
  BY DEF ReportInit, Inv, Compared

LEMMA StepInv == Inv /\ [ReportNext]_reportVars => Inv'
  <1> SUFFICES ASSUME Inv, [ReportNext]_reportVars PROVE Inv'
    OBVIOUS
  <1>1. CASE Compare
    BY <1>1 DEF Compare, Inv, Compared
  <1>2. ASSUME NEW list, CompareAgain(list) PROVE Inv'
    BY <1>2 DEF CompareAgain, Inv, Compared
  <1>3. CASE UNCHANGED reportVars
    BY <1>3 DEF reportVars, Inv, Compared
  <1> QED
    BY <1>1, <1>2, <1>3 DEF ReportNext

\* For any recorded and observed value: Diff finds something exactly if they differ,
\* every change is a difference and none is inside another one, and outside of the changes
\* the values are the same.
THEOREM DiffIsExact == ReportSpec => []ChangesAreDifferences
  <1>1. Inv => ChangesAreDifferences
    <2> SUFFICES ASSUME pair \in Pairs, changes = Diff(pair[1], pair[2])
                 PROVE  ChangesAreDifferences
      BY DEF Inv, Compared, ChangesAreDifferences
    <2> DEFINE e == pair[1]
               a == pair[2]
    <2>1. IsTree(e) /\ IsTree(a)
      BY PairsAssumption
    <2> HIDE DEF e, a
    <2>2. changes = Diff(e, a)
      BY DEF e, a
    <2>3. ASSUME NEW q \in DOMAIN e \cup DOMAIN a, ~Same(e, a, q)
          PROVE  \E c \in changes : IsPrefix(c[2], q)
      BY <2>1, <2>2, <2>3, DifferencesReached, DiffAt
    <2>4. changes = {} <=> e = a
      <3>1. ASSUME e = a PROVE changes = {}
        BY <2>2, <3>1, DiffAt DEF Reached, Same
      <3>2. ASSUME changes = {} PROVE e = a
        BY <2>1, <2>3, <3>2, SameEverywhere
      <3> QED
        BY <3>1, <3>2
    <2>5. \A c, d \in changes : c # d => ~IsPrefix(c[2], d[2])
      BY <2>1, <2>2, DiffAt, OutermostOnly
    <2>6. ASSUME NEW c \in changes, c[2] \in DOMAIN e, c[2] \in DOMAIN a
          PROVE  ValueAt(e, c[2]) # ValueAt(a, c[2])
      <3>1. e[c[2]] # a[c[2]]
        BY <2>2, <2>6, DiffAt DEF Same
      <3> QED
        BY <2>1, <2>6, <3>1, RootOfValue
    <2> QED
      BY <2>3, <2>4, <2>5, <2>6 DEF ChangesAreDifferences, Same, e, a
  <1> QED
    BY <1>1, InitInv, StepInv, PTL DEF ReportSpec

-----------------------------------------------------------------------------
(* What the paths of the ignore list are parsed into. *)

\* Every number is even or odd.
LEMMA Halves == ASSUME NEW n \in Nat PROVE \E j \in Nat : n = 2 * j \/ n = 2 * j + 1
  <1> DEFINE S == {i \in Nat : \E j \in Nat : i = 2 * j \/ i = 2 * j + 1}
  <1>1. 0 \in S
    <2>1. 0 = 2 * 0
      OBVIOUS
    <2> QED
      BY <2>1
  <1>2. ASSUME NEW i \in Nat, i \in S PROVE i + 1 \in S
    <2>1. PICK j \in Nat : i = 2 * j \/ i = 2 * j + 1
      BY <1>2
    <2>2. CASE i = 2 * j
      BY <2>2
    <2>3. CASE i = 2 * j + 1
      <3> DEFINE k == j + 1
      <3>1. k \in Nat /\ i + 1 = 2 * k
        BY <2>3
      <3> HIDE DEF k
      <3> QED
        BY <3>1
    <2> QED
      BY <2>1, <2>2, <2>3
  <1> HIDE DEF S
  <1>3. Nat \subseteq S
    BY <1>1, <1>2, SetInduction
  <1> QED
    BY <1>3 DEF S

\* There are m even numbers up to 2m.
LEMMA Evens ==
    ASSUME NEW m \in Nat
    PROVE  IsFiniteSet({2 * j : j \in 1..m}) /\ Cardinality({2 * j : j \in 1..m}) = m
  <1> DEFINE T == {2 * j : j \in 1..m}
             f == [j \in 1..m |-> 2 * j]
  <1>1. f \in Bijection(1..m, T)
    <2>1. f \in [1..m -> T] /\ \A j \in 1..m : f[j] = 2 * j
      OBVIOUS
    <2>2. \A x \in T : \E j \in 1..m : x = 2 * j
      OBVIOUS
    <2> HIDE DEF f, T
    <2>3. \A j, k \in 1..m : f[j] = f[k] => j = k
      BY <2>1
    <2>4. IsInjective(f)
      BY <2>1, <2>3 DEF IsInjective
    <2>5. \A x \in T : \E j \in 1..m : f[j] = x
      BY <2>1, <2>2
    <2> QED
      BY <2>1, <2>4, <2>5, Zenon DEF Bijection, Injection, Surjection
  <1>2. IsFiniteSet(1..m) /\ Cardinality(1..m) = m
    BY FS_Interval
  <1> HIDE DEF T, f
  <1>3. ExistsBijection(1..m, T)
    BY <1>1 DEF ExistsBijection
  <1>4. IsFiniteSet(T) /\ Cardinality(T) = m
    BY <1>2, <1>3, FS_Bijection
  <1> QED
    BY <1>4 DEF T

\* A key that the list can name, other than the snapshot key.
Spellable == Name \ (Unquotable \cup {SnapshotKey})

\* The selectors of such keys.
KeyTokens == {KeyToken(n) : n \in Spellable}

\* The tokens are the root and m selectors, each behind one or two dots; others may follow.
Spells(tokens, m) ==
    /\ tokens \in Seq(PathToken)
    /\ Len(tokens) >= 2 * m + 1
    /\ tokens[1] = Root
    /\ \A j \in 1..m : tokens[2 * j] \in Connectors /\ tokens[2 * j + 1] \in KeyTokens

NameSegment(connector, t) ==
    [recursive |-> connector = Dots, kind |-> "name", name |-> t.name, index |-> 0,
     quoted |-> t.token = "quoted"]

\* The segments of the m selectors.
Segments(tokens, m) == [j \in 1..m |-> NameSegment(tokens[2 * j], tokens[2 * j + 1])]

\* The selector of a key.
LEMMA KeyTokenAt ==
    ASSUME NEW n \in Name
    PROVE  /\ KeyToken(n) \in PathToken
           /\ KeyToken(n).name = n
           /\ KeyToken(n).token \in {"word", "quoted"}
           /\ KeyToken(n).token = "quoted" <=> n \in Special
           /\ KeyToken(n) \notin Connectors /\ KeyToken(n) # Root
  <1>1. CASE n \in Special
    <2>1. KeyToken(n) = [token |-> "quoted", name |-> n]
      BY <1>1 DEF KeyToken, Quoted
    <2> QED
      BY <1>1, <2>1 DEF PathToken, Connectors, Dot, Dots, Root
  <1>2. CASE n \notin Special
    <2>1. KeyToken(n) = [token |-> "word", name |-> n]
      BY <1>2 DEF KeyToken, Word
    <2> QED
      BY <1>2, <2>1 DEF PathToken, Connectors, Dot, Dots, Root
  <1> QED
    BY <1>1, <1>2

\* One selector, the segment it is parsed into.
LEMMA OneSegment ==
    ASSUME NEW body, NEW i \in Nat, i > 1, NEW n \in Name, body[i] = KeyToken(n)
    PROVE  SegmentAt(body, i) = NameSegment(body[i - 1], KeyToken(n))
  <1>1. KeyToken(n).token \in {"word", "quoted"}
    BY KeyTokenAt
  <1> QED
    BY <1>1 DEF SegmentAt, NameSegment, HasName

\* A spelled path is well-formed, and has a segment for each of its selectors.
LEMMA SpelledParsed ==
    ASSUME NEW tokens, NEW m \in Nat \ {0}, Spells(tokens, m), Len(tokens) = 2 * m + 1
    PROVE  /\ ~Malformed(Rooted(tokens))
           /\ Parsed(Rooted(tokens)) = Segments(tokens, m)
  <1> DEFINE body == Tail(tokens)
  <1>1. Rooted(tokens) = body
    BY DEF Spells, Rooted
  <1>2. Len(body) = 2 * m /\ DOMAIN body = 1..2*m /\ \A i \in 1..2*m : body[i] = tokens[i + 1]
    BY DEF Spells
  <1>3. ASSUME NEW j \in 1..m
        PROVE  /\ 2 * j \in 1..2*m /\ 2 * j - 1 \in 1..2*m
               /\ body[2 * j - 1] = tokens[2 * j] /\ body[2 * j] = tokens[2 * j + 1]
               /\ body[2 * j - 1] \in Connectors
               /\ \E n \in Spellable : body[2 * j] = KeyToken(n)
    <2>1. 2 * j \in 1..2*m /\ 2 * j - 1 \in 1..2*m /\ (2 * j - 1) + 1 = 2 * j
      OBVIOUS
    <2>2. body[2 * j - 1] = tokens[2 * j] /\ body[2 * j] = tokens[2 * j + 1]
      <3> HIDE DEF body
      <3> QED
        BY <1>2, <2>1
    <2> HIDE DEF body
    <2> QED
      BY <2>1, <2>2 DEF Spells, KeyTokens
  <1>4. ASSUME NEW i \in 1..2*m PROVE \E j \in 1..m : i = 2 * j \/ i = 2 * j - 1
    <2>1. PICK j \in Nat : i = 2 * j \/ i = 2 * j + 1
      <3>1. i \in Nat
        OBVIOUS
      <3> QED
        BY <3>1, Halves
    <2>2. CASE i = 2 * j
      BY <2>2
    <2>3. CASE i = 2 * j + 1
      <3>1. j + 1 \in 1..m /\ i = 2 * (j + 1) - 1
        BY <2>3
      <3> QED
        BY <3>1
    <2> QED
      BY <2>1, <2>2, <2>3
  <1> HIDE DEF body
  <1>5. ASSUME NEW n \in Spellable
        PROVE  /\ n \in Name /\ n \notin Unquotable
               /\ KeyToken(n) \notin Connectors /\ KeyToken(n).name = n
               /\ ~IsBracket(KeyToken(n))
    BY KeyTokenAt DEF Spellable, IsBracket
  <1>6. ~Malformed(body)
    <2> SUFFICES ASSUME Malformed(body) PROVE FALSE
      OBVIOUS
    <2>1. body # <<>>
      BY <1>2
    <2>2. PICK i \in 1..2*m :
             \/ /\ body[i] \in Connectors
                /\ i = Len(body) \/ body[i + 1] \in Connectors
             \/ /\ body[i] \notin Connectors /\ ~IsBracket(body[i])
                /\ i = 1 \/ body[i - 1] \notin Connectors
             \/ body[i].token = "quoted" /\ body[i].name \in Unquotable
      BY <1>2, <2>1 DEF Malformed
    <2>3. PICK j \in 1..m : i = 2 * j \/ i = 2 * j - 1
      BY <1>4
    <2>4. PICK n \in Spellable : body[2 * j] = KeyToken(n)
      BY <1>3
    <2>5. CASE i = 2 * j
      <3>1. i - 1 = 2 * j - 1 /\ i # 1
        BY <2>5
      <3>2. body[i - 1] \in Connectors
        BY <1>3, <3>1
      <3>3. body[i].name \notin Unquotable /\ body[i] \notin Connectors
        BY <1>5, <2>4, <2>5
      <3> QED
        BY <2>2, <3>1, <3>2, <3>3
    <2>6. CASE i = 2 * j - 1
      <3>1. i + 1 = 2 * j /\ i # Len(body)
        BY <1>2, <2>6
      <3>2. body[i + 1] \notin Connectors
        BY <1>5, <2>4, <3>1
      <3>3. body[i] \in Connectors
        BY <1>3, <2>6
      <3>4. body[i].token # "quoted"
        BY <3>3 DEF Connectors, Dot, Dots
      <3> QED
        BY <2>2, <3>1, <3>2, <3>3, <3>4
    <2> QED
      BY <2>3, <2>5, <2>6
  <1> DEFINE selectors == {i \in DOMAIN body : body[i] \notin Connectors}
             nth(j) == CHOOSE i \in selectors : Cardinality({k \in selectors : k <= i}) = j
             upto(i) == {k \in selectors : k <= i}
  <1>7. ASSUME NEW i PROVE i \in selectors <=> \E j \in 1..m : i = 2 * j
    <2>1. ASSUME i \in selectors PROVE \E j \in 1..m : i = 2 * j
      BY <1>2, <1>3, <1>4, <2>1
    <2>2. ASSUME NEW j \in 1..m, i = 2 * j PROVE i \in selectors
      BY <1>2, <1>3, <1>5, <2>2
    <2> QED
      BY <2>1, <2>2
  <1> HIDE DEF selectors
  <1>8. selectors = {2 * j : j \in 1..m}
    BY <1>7
  <1>9. Cardinality(selectors) = m
    BY <1>8, Evens
  <1>10. ASSUME NEW j \in 1..m PROVE Cardinality(upto(2 * j)) = j
    <2>1. \A i : i \in upto(2 * j) <=> \E k \in 1..j : i = 2 * k
      BY <1>7
    <2> HIDE DEF upto
    <2>2. upto(2 * j) = {2 * k : k \in 1..j}
      BY <2>1
    <2>3. j \in Nat
      OBVIOUS
    <2> QED
      BY <2>2, <2>3, Evens
  <1>11. ASSUME NEW j \in 1..m PROVE nth(j) = 2 * j
    <2>1. 2 * j \in selectors
      BY <1>7
    <2>2. ASSUME NEW i \in selectors, Cardinality(upto(i)) = j PROVE i = 2 * j
      <3>1. PICK k \in 1..m : i = 2 * k
        BY <1>7
      <3>2. Cardinality(upto(2 * k)) = k
        BY <1>10
      <3> HIDE DEF upto
      <3> QED
        BY <2>2, <3>1, <3>2
    <2>3. Cardinality(upto(2 * j)) = j
      BY <1>10
    <2>4. nth(j) = CHOOSE i \in selectors : Cardinality(upto(i)) = j
      OBVIOUS
    <2> HIDE DEF upto, nth
    <2> QED
      BY <2>1, <2>2, <2>3, <2>4
  <1>12. ASSUME NEW j \in 1..m
         PROVE  SegmentAt(body, nth(j)) = NameSegment(tokens[2 * j], tokens[2 * j + 1])
    <2>1. PICK n \in Spellable : body[2 * j] = KeyToken(n)
      BY <1>3
    <2>2. SegmentAt(body, 2 * j) = NameSegment(body[2 * j - 1], KeyToken(n))
      <3>1. 2 * j \in Nat /\ 2 * j > 1
        OBVIOUS
      <3> QED
        BY <1>5, <2>1, <3>1, OneSegment
    <2>3. body[2 * j - 1] = tokens[2 * j] /\ body[2 * j] = tokens[2 * j + 1]
      BY <1>3
    <2>4. nth(j) = 2 * j
      BY <1>11
    <2> HIDE DEF nth
    <2> QED
      BY <2>1, <2>2, <2>3, <2>4
  <1>13. Parsed(body) = [j \in 1..Cardinality(selectors) |-> SegmentAt(body, nth(j))]
    BY DEF Parsed, selectors
  <1> HIDE DEF nth
  <1>14. Parsed(body) = Segments(tokens, m)
    BY <1>9, <1>12, <1>13 DEF Segments
  <1> QED
    BY <1>1, <1>6, <1>14

-----------------------------------------------------------------------------
(* The loop of formatJSONPath. *)

\* What the loop has written after each of its rounds.
Rounds(g, q) ==
    /\ g[0] = <<Root, Dots>>
    /\ \A i \in 1..Len(q) : g[i] = Extended(g[i - 1], q, i)

\* The tokens at the root and in the loop are those of paths.
LEMMA ConnectorTokens ==
    Root \in PathToken /\ Connectors \subseteq PathToken /\ Root \notin Connectors /\ Dot # Dots
  BY DEF PathToken, Connectors, Root, Dot, Dots

\* A key or an index of a position.
LEMMA ElemAt ==
    ASSUME NEW e \in Elem
    PROVE  /\ IsIndex(e) => e[2] \in Nat /\ e = IndexElem(e[2])
           /\ ~IsIndex(e) => e[2] \in Name /\ e = KeyElem(e[2])
  BY DEF Elem, IsIndex, IndexElem, KeyElem

\* The dot after an element.
LEMMA DotAfter ==
    ASSUME NEW tokens
    PROVE  /\ Last(tokens) = Dots => AppendDot(tokens) = tokens
           /\ Last(tokens) = Dot => AppendDot(tokens) = Append(Front(tokens), Dots)
           /\ Last(tokens) \notin Connectors => AppendDot(tokens) = Append(tokens, Dot)
  <1>1. ASSUME Last(tokens) = Dots PROVE AppendDot(tokens) = tokens
    BY <1>1, ConnectorTokens, Zenon DEF AppendDot
  <1>2. ASSUME Last(tokens) = Dot PROVE AppendDot(tokens) = Append(Front(tokens), Dots)
    BY <1>2, ConnectorTokens, Zenon DEF AppendDot
  <1>3. ASSUME Last(tokens) \notin Connectors PROVE AppendDot(tokens) = Append(tokens, Dot)
    <2>1. Last(tokens) # Dots /\ Last(tokens) # Dot
      BY <1>3 DEF Connectors
    <2> QED
      BY <2>1, Zenon DEF AppendDot
  <1> QED
    BY <1>1, <1>2, <1>3

\* A round of the loop adds tokens.
LEMMA ExtendedTokens ==
    ASSUME NEW q \in Seq(Elem), NEW i \in 1..Len(q),
           NEW tokens \in Seq(PathToken) \ {<<>>}
    PROVE  Extended(tokens, q, i) \in Seq(PathToken) \ {<<>>}
  <1> DEFINE named == IF IsIndex(q[i]) THEN tokens ELSE Append(tokens, KeyToken(q[i][2]))
  <1>1. named \in Seq(PathToken) \ {<<>>}
    <2>1. q[i] \in Elem
      OBVIOUS
    <2>2. CASE ~IsIndex(q[i])
      <3>1. KeyToken(q[i][2]) \in PathToken
        BY <2>1, <2>2, ElemAt, KeyTokenAt
      <3> DEFINE t == KeyToken(q[i][2])
      <3> HIDE DEF t
      <3>2. Append(tokens, t) \in Seq(PathToken) /\ Append(tokens, t) # <<>>
        BY <3>1, Appended DEF t
      <3> QED
        BY <2>2, <3>2 DEF t
    <2> QED
      BY <2>2
  <1> HIDE DEF named
  <1>2. ASSUME NEW t \in Connectors, NEW s \in Seq(PathToken)
        PROVE  Append(s, t) \in Seq(PathToken) \ {<<>>}
    BY ConnectorTokens, Appended
  <1>3. Front(named) \in Seq(PathToken)
    BY <1>1, ChildOf
  <1>4. AppendDot(named) \in Seq(PathToken) \ {<<>>}
    <2>1. CASE Last(named) = Dots
      BY <1>1, <2>1, DotAfter
    <2>2. CASE Last(named) = Dot
      BY <1>2, <1>3, <2>2, DotAfter DEF Connectors
    <2>3. CASE Last(named) \notin Connectors
      BY <1>1, <1>2, <2>3, DotAfter DEF Connectors
    <2> QED
      BY <2>1, <2>2, <2>3 DEF Connectors
  <1>5. Extended(tokens, q, i) = IF i < Len(q) THEN AppendDot(named) ELSE named
    BY DEF Extended, named
  <1> QED
    BY <1>1, <1>4, <1>5

\* What the loop writes, round by round.
LEMMA FormatAt ==
    ASSUME NEW q \in Seq(Elem)
    PROVE  \E g : /\ Rounds(g, q)
                  /\ FormatJSONPath(q) = IF InList(q) THEN TrimDots(g[Len(q)]) ELSE g[Len(q)]
  <1> DEFINE n == Len(q)
             V == Seq(PathToken) \ {<<>>}
             start == <<Root, Dots>>
             step == [p \in (1..n) \X V |-> Extended(p[2], q, p[1])]
             F(h) == [i \in 0..n |-> IF i = 0 THEN start ELSE Extended(h[i - 1], q, i)]
             current == CHOOSE h : h = F(h)
  <1>1. step \in [(1..n) \X V -> V]
    <2>1. ASSUME NEW i \in 1..n, NEW c \in V PROVE Extended(c, q, i) \in V
      BY ExtendedTokens
    <2> QED
      BY <2>1
  <1>2. start \in V
    BY ConnectorTokens DEF Connectors
  <1>3. PICK g \in [0..n -> V] : g[0] = start /\ \A i \in 1..n : g[i] = step[<<i, g[i-1]>>]
    <2>1. n \in Nat
      OBVIOUS
    <2> HIDE DEF n, step, V, start
    <2>2. HasFunction(n, V, start, step)
      BY <1>1, <1>2, <2>1, LoopFunction
    <2> QED
      BY <2>2 DEF HasFunction
  <1>4. ASSUME NEW i \in 1..n PROVE g[i] = Extended(g[i-1], q, i)
    <2>1. i - 1 \in 0..n
      OBVIOUS
    <2>2. step[<<i, g[i-1]>>] = Extended(g[i-1], q, i)
      <3>1. g[i-1] \in V
        <4> HIDE DEF V
        <4> QED
          BY <1>3, <2>1
      <3> HIDE DEF V
      <3> QED
        BY <3>1
    <2> HIDE DEF V, step
    <2> QED
      BY <1>3, <2>2
  <1>5. g = F(g)
    <2>1. ASSUME NEW i \in 0..n PROVE g[i] = F(g)[i]
      <3>1. CASE i = 0
        BY <1>3, <3>1
      <3>2. CASE i \in 1..n
        BY <1>4, <3>2
      <3> QED
        BY <3>1, <3>2
    <2>2. g = [i \in 0..n |-> g[i]] /\ F(g) = [i \in 0..n |-> F(g)[i]]
      <3> HIDE DEF V
      <3> QED
        BY <1>3
    <2> HIDE DEF F
    <2> QED
      BY <2>1, <2>2
  <1>6. current = F(current)
    <2> HIDE DEF F
    <2> QED
      BY <1>5
  <1>7. FormatJSONPath(q) = IF InList(q) THEN TrimDots(current[n]) ELSE current[n]
    BY Zenon DEF FormatJSONPath
  <1>8. current[0] = start /\ \A k \in 1..n : current[k] = Extended(current[k - 1], q, k)
    <2>1. ASSUME NEW h
          PROVE  F(h)[0] = start /\ \A k \in 1..n : F(h)[k] = Extended(h[k - 1], q, k)
      OBVIOUS
    <2> HIDE DEF F, start, current
    <2>2. /\ F(current)[0] = start
          /\ \A k \in 1..n : F(current)[k] = Extended(current[k - 1], q, k)
      BY <2>1
    <2> QED
      BY <1>6, <2>2
  <1> HIDE DEF current
  <1>9. Rounds(current, q)
    BY <1>8 DEF Rounds
  <1> QED
    BY <1>7, <1>9

\* The tokens end with a dot after m selectors, and these match a value that is around the
\* one at the first k elements of q, or is that one: it is after a single dot.
Leads(doc, q, k, tokens, m) ==
    /\ Spells(tokens, m)
    /\ Len(tokens) = 2 * m + 2
    /\ tokens[2 * m + 2] \in Connectors
    /\ \E p \in Find(doc, Segments(tokens, m)) :
          /\ p \in Seq(Elem)
          /\ IsPrefix(p, SubSeq(q, 1, k))
          /\ tokens[2 * m + 2] = Dot => p = SubSeq(q, 1, k)

\* What the first m selectors are does not depend on what follows them.
LEMMA SpellsSame ==
    ASSUME NEW m \in Nat, NEW short, Spells(short, m), NEW long \in Seq(PathToken),
           Len(long) >= 2 * m + 1, \A i \in 1..2*m+1 : long[i] = short[i]
    PROVE  Spells(long, m) /\ Segments(long, m) = Segments(short, m)
  <1>1. ASSUME NEW j \in 1..m
        PROVE  long[2 * j] = short[2 * j] /\ long[2 * j + 1] = short[2 * j + 1]
    <2>1. 2 * j \in 1..2*m+1 /\ 2 * j + 1 \in 1..2*m+1
      OBVIOUS
    <2> QED
      BY <2>1
  <1>2. long[1] = short[1]
    OBVIOUS
  <1>3. Spells(long, m)
    BY <1>1, <1>2 DEF Spells
  <1>4. Segments(long, m) = Segments(short, m)
    BY <1>1 DEF Segments
  <1> QED
    BY <1>3, <1>4

\* The longer tokens are those of m selectors and one more, of key n.
AddsSelector(longer, tokens, m, n) ==
    /\ Spells(longer, m + 1) /\ Len(longer) = 2 * (m + 1) + 1
    /\ Segments(longer, m + 1)[m + 1] = NameSegment(tokens[2 * m + 2], KeyToken(n))
    /\ \A i \in 1..m : Segments(longer, m + 1)[i] = Segments(tokens, m)[i]

\* The selector of a key, after the dots that lead to it.
LEMMA SelectorAdded ==
    ASSUME NEW m \in Nat, NEW tokens, Spells(tokens, m), Len(tokens) = 2 * m + 2,
           tokens[2 * m + 2] \in Connectors, NEW n \in Spellable
    PROVE  AddsSelector(Append(tokens, KeyToken(n)), tokens, m, n)
  <1> DEFINE longer == Append(tokens, KeyToken(n))
  <1>1. KeyToken(n) \in PathToken /\ KeyToken(n) \in KeyTokens
    BY KeyTokenAt DEF KeyTokens, Spellable
  <1>2. /\ longer \in Seq(PathToken) /\ Len(longer) = 2 * m + 3
        /\ \A i \in 1..2*m+2 : longer[i] = tokens[i]
        /\ longer[2 * m + 3] = KeyToken(n)
    <2> DEFINE t == KeyToken(n)
    <2> HIDE DEF t
    <2>1. t \in PathToken /\ longer = Append(tokens, t)
      BY <1>1 DEF t
    <2> HIDE DEF longer
    <2>2. tokens \in Seq(PathToken)
      BY DEF Spells
    <2>3. /\ longer \in Seq(PathToken) /\ Len(longer) = Len(tokens) + 1
          /\ \A i \in 1..Len(tokens) : longer[i] = tokens[i]
          /\ longer[Len(tokens) + 1] = t
      BY <2>1, <2>2, Appended
    <2>4. Len(tokens) = 2 * m + 2 /\ Len(tokens) + 1 = 2 * m + 3
      OBVIOUS
    <2>5. /\ longer \in Seq(PathToken) /\ Len(longer) = 2 * m + 3
          /\ \A i \in 1..2*m+2 : longer[i] = tokens[i]
          /\ longer[2 * m + 3] = t
      BY <2>3, <2>4
    <2> QED
      BY <2>5, Zenon DEF t
  <1> HIDE DEF longer
  <1>3. Spells(longer, m) /\ Segments(longer, m) = Segments(tokens, m)
    BY <1>2, SpellsSame
  <1>4. 2 * (m + 1) = 2 * m + 2 /\ 2 * (m + 1) + 1 = 2 * m + 3
    OBVIOUS
  <1>5. longer[2 * (m + 1)] = tokens[2 * m + 2] /\ longer[2 * (m + 1) + 1] = KeyToken(n)
    BY <1>2, <1>4
  <1>6. Spells(longer, m + 1)
    <2>1. ASSUME NEW j \in 1..m+1
          PROVE  longer[2 * j] \in Connectors /\ longer[2 * j + 1] \in KeyTokens
      <3>1. CASE j \in 1..m
        BY <1>3, <3>1 DEF Spells
      <3>2. CASE j = m + 1
        BY <1>1, <1>5, <3>2
      <3> QED
        BY <3>1, <3>2
    <2> QED
      BY <1>2, <1>3, <2>1 DEF Spells
  <1>7. /\ \A j \in 1..m+1 :
              Segments(longer, m + 1)[j] = NameSegment(longer[2 * j], longer[2 * j + 1])
        /\ \A j \in 1..m : Segments(longer, m)[j] = NameSegment(longer[2 * j], longer[2 * j + 1])
    BY DEF Segments
  <1>8. Segments(longer, m + 1)[m + 1] = NameSegment(tokens[2 * m + 2], KeyToken(n))
    <2>1. m + 1 \in 1..m+1
      OBVIOUS
    <2> QED
      BY <1>5, <1>7, <2>1
  <1>9. ASSUME NEW i \in 1..m PROVE Segments(longer, m + 1)[i] = Segments(tokens, m)[i]
    <2>1. i \in 1..m+1
      OBVIOUS
    <2> QED
      BY <1>3, <1>7, <2>1
  <1>10. Len(longer) = 2 * (m + 1) + 1
    BY <1>2, <1>4
  <1> QED
    BY <1>6, <1>8, <1>9, <1>10 DEF AddsSelector, longer

\* The segments of spelled keys.
LEMMA SegmentsNamed ==
    ASSUME NEW m \in Nat, NEW tokens, Spells(tokens, m)
    PROVE  /\ Len(Segments(tokens, m)) = m
           /\ \A i \in 1..m : /\ Segments(tokens, m)[i].kind = "name"
                              /\ Segments(tokens, m)[i].name \in Spellable
  <1>1. ASSUME NEW j \in 1..m
        PROVE  /\ Segments(tokens, m)[j].kind = "name"
               /\ Segments(tokens, m)[j].name \in Spellable
    <2>1. PICK n \in Spellable : tokens[2 * j + 1] = KeyToken(n)
      BY DEF Spells, KeyTokens
    <2>2. Segments(tokens, m)[j] = NameSegment(tokens[2 * j], KeyToken(n))
      BY <2>1 DEF Segments
    <2>3. KeyToken(n).name = n
      BY KeyTokenAt DEF Spellable
    <2>4. NameSegment(tokens[2 * j], KeyToken(n)).kind = "name"
      BY DEF NameSegment
    <2>5. NameSegment(tokens[2 * j], KeyToken(n)).name = n
      BY <2>3 DEF NameSegment
    <2> QED
      BY <2>2, <2>4, <2>5
  <1>2. Len(Segments(tokens, m)) = m
    <2>1. Segments(tokens, m) \in [1..m -> {Segments(tokens, m)[i] : i \in 1..m}]
      BY DEF Segments
    <2> QED
      BY <2>1
  <1> QED
    BY <1>1, <1>2

\* A key of q is selected in the value that the tokens lead to.
LEMMA KeyFound ==
    ASSUME NEW doc, IsTree(doc), NEW q \in Seq(Elem), NEW k \in 0..Len(q)-1,
           NEW m \in Nat, NEW tokens, Leads(doc, q, k, tokens, m),
           ~IsIndex(q[k + 1]), q[k + 1][2] \in Spellable,
           SubSeq(q, 1, k + 1) \in DOMAIN doc,
           NEW longer, longer = Append(tokens, KeyToken(q[k + 1][2]))
    PROVE  SubSeq(q, 1, k + 1) \in Find(doc, Segments(longer, m + 1))
  <1> DEFINE n == q[k + 1][2]
             before == SubSeq(q, 1, k)
             here == SubSeq(q, 1, k + 1)
             last == NameSegment(tokens[2 * m + 2], KeyToken(n))
             found == Find(doc, Segments(tokens, m))
  <1>1. /\ before \in Seq(Elem) /\ here \in Seq(Elem) /\ Len(here) = k + 1 /\ here # <<>>
        /\ Front(here) = before /\ Last(here) = q[k + 1]
    <2>1. here \in Seq(Elem) /\ Len(here) = k + 1 /\ before \in Seq(Elem)
          /\ SubSeq(here, 1, k) = before
      BY FirstOf
    <2>2. here[k + 1] = q[k + 1]
      OBVIOUS
    <2> HIDE DEF here, before
    <2> QED
      BY <2>1, <2>2 DEF Front, Last
  <1>2. q[k + 1] \in Elem /\ q[k + 1] = KeyElem(n)
    <2>1. q[k + 1] \in Elem
      OBVIOUS
    <2> QED
      BY <2>1, ElemAt
  <1>3. before \in DOMAIN doc /\ doc[before] = MapNode
    <2> HIDE DEF here, before
    <2> QED
      BY <1>1, Enclosing DEF here
  <1>4. here = Append(before, KeyElem(n))
    BY <1>2, NextFirst
  <1> HIDE DEF n, before, here, last
  <1>5. KeyToken(n).name = n
    BY KeyTokenAt DEF Spellable, n
  <1>6. last.kind = "name" /\ last.name = n
    <2>1. last.kind = "name"
      BY DEF last, NameSegment
    <2>2. last.name = KeyToken(n).name
      BY DEF last, NameSegment
    <2> QED
      BY <1>5, <2>1, <2>2
  <1>7. here \in SelectFrom(doc, before, last)
    <2>1. last.kind \in SegmentKinds
      BY <1>6 DEF SegmentKinds
    <2>2. SelectFrom(doc, before, last) = FieldAt(doc, before, n)
      BY <1>3, <1>6, <2>1, SelectCases
    <2>3. here \in DOMAIN doc
      BY DEF here
    <2> QED
      BY <1>4, <2>2, <2>3 DEF FieldAt
  <1>8. PICK p \in found : /\ IsPrefix(p, before)
                           /\ tokens[2 * m + 2] = Dot => p = before
    BY DEF Leads, before
  <1>9. before \in From(doc, found, last)
    <2>1. CASE tokens[2 * m + 2] = Dot
      <3>1. last.recursive = FALSE
        BY <2>1, ConnectorTokens DEF last, NameSegment
      <3> QED
        BY <1>8, <2>1, <3>1 DEF From
    <2>2. CASE tokens[2 * m + 2] = Dots
      <3>1. last.recursive = TRUE
        BY <2>2 DEF last, NameSegment
      <3>2. before \in Descendants(doc, p)
        BY <1>3, <1>8 DEF Descendants
      <3> QED
        BY <1>8, <3>1, <3>2 DEF From
    <2> QED
      BY <2>1, <2>2 DEF Leads, Connectors
  <1>10. /\ Len(Segments(tokens, m)) = m /\ Len(Segments(longer, m + 1)) = m + 1
         /\ \A i \in 1..m+1 : Segments(longer, m + 1)[i].kind \in SegmentKinds
         /\ \A i \in 1..m : Segments(longer, m + 1)[i] = Segments(tokens, m)[i]
         /\ Segments(longer, m + 1)[m + 1] = last
    <2>1. /\ Spells(tokens, m) /\ Len(tokens) = 2 * m + 2 /\ tokens[2 * m + 2] \in Connectors
      BY DEF Leads
    <2>2. n \in Spellable /\ longer = Append(tokens, KeyToken(n))
      BY DEF n
    <2>3. /\ Spells(longer, m + 1)
          /\ \A i \in 1..m : Segments(longer, m + 1)[i] = Segments(tokens, m)[i]
          /\ Segments(longer, m + 1)[m + 1] = last
      <3>1. AddsSelector(longer, tokens, m, n)
        BY <2>1, <2>2, SelectorAdded
      <3> QED
        BY <3>1 DEF AddsSelector, last
    <2>4. m + 1 \in Nat
      OBVIOUS
    <2> QED
      BY <2>1, <2>3, <2>4, SegmentsNamed DEF SegmentKinds
  <1>11. /\ found \subseteq DOMAIN doc
         /\ Find(doc, Segments(longer, m + 1)) = Followed(doc, found, last)
    <2> DEFINE short == Segments(tokens, m)
               long == Segments(longer, m + 1)
    <2> HIDE DEF short, long
    <2>1. /\ Len(short) = m /\ Len(long) = m + 1 /\ long[m + 1] = last
          /\ \A i \in 1..m+1 : long[i].kind \in SegmentKinds
          /\ \A i \in 1..m : long[i] = short[i]
      BY <1>10 DEF short, long
    <2>2. OneLonger(long, short, m)
      BY <2>1 DEF OneLonger
    <2>3. /\ Find(doc, short) \subseteq DOMAIN doc
          /\ Find(doc, long) = Followed(doc, Find(doc, short), long[m + 1])
      BY <2>2, FindNext
    <2> QED
      BY <2>1, <2>3 DEF short, long
  <1>12. last.kind \in SegmentKinds
    BY <1>6 DEF SegmentKinds
  <1>13. here \in Followed(doc, found, last)
    <2> HIDE DEF found
    <2> QED
      BY <1>7, <1>9, <1>11, <1>12, FollowedAt
  <1> QED
    BY <1>11, <1>13 DEF here

\* Nothing is written before the first round.
LEMMA BeforeFirst ==
    ASSUME NEW doc, IsTree(doc), NEW q \in Seq(Elem), NEW k \in 0..Len(q)
    PROVE  Leads(doc, q, k, <<Root, Dots>>, 0)
  <1> DEFINE tokens == <<Root, Dots>>
  <1>1. /\ tokens \in Seq(PathToken) /\ Len(tokens) = 2 * 0 + 2
        /\ tokens[1] = Root /\ tokens[2 * 0 + 2] = Dots
    BY ConnectorTokens DEF Connectors
  <1> HIDE DEF tokens
  <1>2. Spells(tokens, 0)
    BY <1>1 DEF Spells
  <1>3. Len(Segments(tokens, 0)) = 0
    BY <1>2, SegmentsNamed
  <1>4. Find(doc, Segments(tokens, 0)) = {<<>>}
    <2> DEFINE s == Segments(tokens, 0)
    <2> HIDE DEF s
    <2>1. PICK current : Matched(current, doc, s) /\ Find(doc, s) = current[Len(s)]
      BY <1>3, FindAt DEF s
    <2>2. current[0] = {<<>>}
      BY <2>1, Zenon DEF Matched
    <2> QED
      BY <1>3, <2>1, <2>2 DEF s
  <1> DEFINE here == SubSeq(q, 1, k)
  <1>5. here \in Seq(Elem) /\ <<>> \in Seq(Elem) /\ Len(<<>>) = 0 /\ Len(here) \in Nat
    BY FirstOf
  <1> HIDE DEF here
  <1>6. IsPrefix(<<>>, here)
    <2> DEFINE top == <<>>
    <2> HIDE DEF top
    <2>1. top \in Seq(Elem) /\ Len(top) = 0
      BY <1>5 DEF top
    <2>2. IsPrefix(top, here) <=> Len(top) <= Len(here) /\ \A i \in 1..Len(top) : top[i] = here[i]
      <3>1. ASSUME NEW s \in Seq(Elem), NEW r \in Seq(Elem)
            PROVE  IsPrefix(s, r) <=> Len(s) <= Len(r) /\ \A i \in 1..Len(s) : s[i] = r[i]
        BY PrefixAt
      <3> QED
        BY <1>5, <2>1, <3>1, Zenon
    <2>3. IsPrefix(top, here)
      BY <1>5, <2>1, <2>2
    <2> QED
      BY <2>3 DEF top
  <1> QED
    BY <1>1, <1>2, <1>4, <1>5, <1>6, ConnectorTokens DEF Leads, Connectors, tokens, here

\* An index only makes a recursive descent of the dots before it.
LEMMA IndexPassed ==
    ASSUME NEW doc, NEW q \in Seq(Elem), NEW k \in 0..Len(q)-1,
           NEW m \in Nat, NEW tokens, Leads(doc, q, k, tokens, m)
    PROVE  Leads(doc, q, k + 1, AppendDot(tokens), m)
  <1> DEFINE before == SubSeq(q, 1, k)
             here == SubSeq(q, 1, k + 1)
  <1>1. /\ Spells(tokens, m) /\ Len(tokens) = 2 * m + 2 /\ tokens \in Seq(PathToken)
        /\ tokens[2 * m + 2] \in Connectors /\ Last(tokens) = tokens[2 * m + 2]
    BY DEF Leads, Spells, Last
  <1>2. PICK p \in Find(doc, Segments(tokens, m)) : p \in Seq(Elem) /\ IsPrefix(p, before)
    BY DEF Leads
  <1>3. IsPrefix(p, here)
    <2>1. before \in Seq(Elem) /\ here \in Seq(Elem) /\ Len(here) = k + 1 /\ here # <<>>
          /\ SubSeq(here, 1, k) = before
      <3>1. /\ before \in Seq(Elem) /\ here \in Seq(Elem) /\ Len(here) = k + 1
            /\ SubSeq(here, 1, k) = before
        BY FirstOf
      <3> HIDE DEF before, here
      <3> QED
        BY <3>1
    <2>2. Front(here) = before
      <3> HIDE DEF before, here
      <3> QED
        BY <2>1 DEF Front
    <2> HIDE DEF before, here
    <2> QED
      BY <1>2, <2>1, <2>2, PrefixOfChild
  <1> HIDE DEF before, here
  <1>4. CASE tokens[2 * m + 2] = Dots
    <2>1. AppendDot(tokens) = tokens
      BY <1>1, <1>4, DotAfter
    <2> QED
      BY <1>1, <1>2, <1>3, <1>4, <2>1, ConnectorTokens DEF Leads, here
  <1>5. CASE tokens[2 * m + 2] = Dot
    <2> DEFINE short == Front(tokens)
               new == Append(short, Dots)
    <2>1. AppendDot(tokens) = new
      BY <1>1, <1>5, DotAfter
    <2>2. /\ short \in Seq(PathToken) /\ Len(short) = 2 * m + 1
          /\ \A i \in 1..2*m+1 : short[i] = tokens[i]
      <3>1. tokens # <<>>
        BY <1>1
      <3>2. /\ short \in Seq(PathToken) /\ Len(short) = Len(tokens) - 1
            /\ \A i \in 1..Len(tokens)-1 : short[i] = tokens[i]
        BY <1>1, <3>1, ChildOf
      <3> HIDE DEF short
      <3> QED
        BY <1>1, <3>2
    <2> HIDE DEF short
    <2>3. /\ new \in Seq(PathToken) /\ Len(new) = 2 * m + 2
          /\ \A i \in 1..2*m+1 : new[i] = tokens[i]
          /\ new[2 * m + 2] = Dots
      <3>1. Dots \in PathToken
        BY ConnectorTokens DEF Connectors
      <3>2. /\ new \in Seq(PathToken) /\ Len(new) = Len(short) + 1
            /\ \A i \in 1..Len(short) : new[i] = short[i]
            /\ new[Len(short) + 1] = Dots
        BY <2>2, <3>1, Appended
      <3> HIDE DEF new
      <3> QED
        BY <2>2, <3>2
    <2> HIDE DEF new
    <2>4. Spells(new, m) /\ Segments(new, m) = Segments(tokens, m)
      <3>1. Len(new) >= 2 * m + 1
        BY <2>3
      <3> QED
        BY <1>1, <2>3, <3>1, SpellsSame
    <2>5. new[2 * m + 2] \in Connectors /\ new[2 * m + 2] # Dot
      BY <2>3, ConnectorTokens DEF Connectors
    <2> QED
      BY <1>2, <1>3, <2>1, <2>3, <2>4, <2>5 DEF Leads, here
  <1> QED
    BY <1>1, <1>4, <1>5 DEF Connectors

\* A dot after a selector: what it matches is next.
LEMMA DotPassed ==
    ASSUME NEW doc, NEW q \in Seq(Elem), NEW k \in 0..Len(q),
           NEW m \in Nat, NEW tokens, Spells(tokens, m), Len(tokens) = 2 * m + 1,
           Last(tokens) \notin Connectors,
           SubSeq(q, 1, k) \in Find(doc, Segments(tokens, m))
    PROVE  Leads(doc, q, k, AppendDot(tokens), m)
  <1> DEFINE new == Append(tokens, Dot)
             here == SubSeq(q, 1, k)
  <1>1. AppendDot(tokens) = new
    BY DotAfter
  <1>2. /\ new \in Seq(PathToken) /\ Len(new) = 2 * m + 2
        /\ \A i \in 1..2*m+1 : new[i] = tokens[i]
        /\ new[2 * m + 2] = Dot
    <2>1. Dot \in PathToken /\ tokens \in Seq(PathToken)
      BY ConnectorTokens DEF Connectors, Spells
    <2>2. /\ new \in Seq(PathToken) /\ Len(new) = Len(tokens) + 1
          /\ \A i \in 1..Len(tokens) : new[i] = tokens[i]
          /\ new[Len(tokens) + 1] = Dot
      BY <2>1, Appended
    <2> HIDE DEF new
    <2> QED
      BY <2>2
  <1> HIDE DEF new
  <1>3. Spells(new, m) /\ Segments(new, m) = Segments(tokens, m)
    <2>1. Len(new) >= 2 * m + 1
      BY <1>2
    <2> QED
      BY <1>2, <2>1, SpellsSame
  <1>4. here \in Seq(Elem) /\ IsPrefix(here, here)
    <2>1. here \in Seq(Elem)
      BY FirstOf
    <2> HIDE DEF here
    <2> QED
      BY <2>1, PrefixesInside
  <1> QED
    BY <1>1, <1>2, <1>3, <1>4 DEF Leads, Connectors

\* The position in the state of a position in the value under the snapshot key.
InState(q) == <<KeyElem(SnapshotKey)>> \o q

\* The tokens are a well-formed path with m selectors.  It matches the value at q or one
\* around it, for a list item one around its list.
Names(doc, q, tokens, m) ==
    /\ m \in Nat \ {0}
    /\ Spells(tokens, m) /\ Len(tokens) = 2 * m + 1
    /\ InList(q) \/ InState(q) \in DOMAIN doc =>
          \E p \in Find(doc, Segments(tokens, m)) :
             /\ p \in Seq(Elem)
             /\ IsPrefix(p, InState(q))
             /\ InList(q) => IsPrefix(p, Front(InState(q)))

\* Such a position starts with the snapshot key.
LEMMA InStateAt ==
    ASSUME NEW q \in Seq(Elem)
    PROVE  /\ InState(q) \in Seq(Elem) /\ Len(InState(q)) = Len(q) + 1
           /\ InState(q)[1] = KeyElem(SnapshotKey)
           /\ \A k \in 1..Len(q) : InState(q)[k + 1] = q[k]
  <1>1. KeyElem(SnapshotKey) \in Elem
    BY ReportAssumption DEF KeyElem, Elem
  <1> DEFINE e == KeyElem(SnapshotKey)
  <1> HIDE DEF e
  <1>2. <<e>> \o q \in Seq(Elem) /\ Len(<<e>> \o q) = Len(q) + 1
        /\ (<<e>> \o q)[1] = e /\ \A k \in 1..Len(q) : (<<e>> \o q)[k + 1] = q[k]
    BY <1>1 DEF e
  <1> QED
    BY <1>2 DEF InState, e

\* A path of the ignore list selects the change it is written for, or a value around it.
LEMMA PathNames ==
    ASSUME NEW doc, IsTree(doc), NEW q \in Seq(Elem), Nameable(q),
           Front(InState(q)) \in DOMAIN doc
    PROVE  \E m : Names(doc, q, FormatJSONPath(q), m)
  <1> DEFINE full == InState(q)
             n == Len(q)
             Done(g, k, m) == /\ Leads(doc, full, k + 1, g[k], m)
                              /\ m = 0 => \A i \in 1..k : IsIndex(q[i])
  <1>1. /\ full \in Seq(Elem) /\ Len(full) = n + 1 /\ n \in Nat
        /\ \A k \in 1..n : full[k + 1] = q[k]
    BY InStateAt
  <1>2. n # 0
    BY DEF Nameable
  <1>3. ASSUME NEW k \in 1..n, ~IsIndex(q[k]) PROVE q[k][2] \in Spellable
    <2>1. q[k] \in Elem
      OBVIOUS
    <2>2. q[k][2] \in Name
      BY <1>3, <2>1, ElemAt
    <2> QED
      BY <1>3, <2>2 DEF Nameable, Spellable
  <1> HIDE DEF full
  <1>4. ASSUME NEW k \in 0..n PROVE SubSeq(full, 1, k) \in DOMAIN doc
    <2>1. /\ Front(full) \in Seq(Elem) /\ Len(Front(full)) = n
          /\ SubSeq(full, 1, n) \in Seq(Elem) /\ Front(full) = SubSeq(full, 1, n)
      <3>1. full # <<>>
        BY <1>1
      <3>2. SubSeq(full, 1, n) \in Seq(Elem) /\ Front(full) = SubSeq(full, 1, n)
        BY <1>1, FirstOf DEF Front
      <3> QED
        BY <1>1, <3>1, <3>2, ChildOf
    <2>2. SubSeq(Front(full), 1, k) = SubSeq(full, 1, k)
      BY <1>1, <2>1, FirstOf
    <2>3. SubSeq(Front(full), 1, k) \in DOMAIN doc
      BY <2>1, AroundIn DEF full
    <2> QED
      BY <2>2, <2>3
  <1>5. PICK g : /\ Rounds(g, q)
                 /\ FormatJSONPath(q) = IF InList(q) THEN TrimDots(g[n]) ELSE g[n]
    BY FormatAt
  \* A key: it is selected where the tokens have led to.
  <1>6. ASSUME NEW k \in 0..n-1, NEW m \in Nat, Leads(doc, full, k + 1, g[k], m),
               ~IsIndex(q[k + 1]),
               NEW longer, longer = Append(g[k], KeyToken(q[k + 1][2]))
        PROVE  /\ Spells(longer, m + 1) /\ Len(longer) = 2 * (m + 1) + 1
               /\ Last(longer) \notin Connectors
               /\ SubSeq(full, 1, k + 2) \in DOMAIN doc =>
                     SubSeq(full, 1, k + 2) \in Find(doc, Segments(longer, m + 1))
    <2>1. k + 1 \in 1..n /\ full[k + 2] = q[k + 1] /\ k + 1 \in 0..Len(full)-1
      BY <1>1
    <2> DEFINE x == q[k + 1][2]
    <2>2. x \in Spellable
      BY <1>3, <1>6, <2>1
    <2>3. AddsSelector(longer, g[k], m, x)
      BY <1>6, <2>2, SelectorAdded DEF Leads
    <2>4. Last(longer) \notin Connectors
      <3>1. KeyToken(x) \in PathToken /\ KeyToken(x) \notin Connectors
        BY <2>2, KeyTokenAt DEF Spellable
      <3>2. g[k] \in Seq(PathToken)
        BY <1>6 DEF Leads, Spells
      <3> DEFINE t == KeyToken(x)
      <3> HIDE DEF t
      <3>3. Last(Append(g[k], t)) = t
        BY <3>1, <3>2, Appended DEF t
      <3> QED
        BY <1>6, <3>1, <3>3 DEF t
    <2>5. ASSUME SubSeq(full, 1, k + 2) \in DOMAIN doc
          PROVE  SubSeq(full, 1, k + 2) \in Find(doc, Segments(longer, m + 1))
      <3> DEFINE j == k + 1
      <3>1. j \in 0..Len(full)-1 /\ j + 1 = k + 2 /\ full[j + 1] = q[k + 1]
        BY <2>1
      <3>2. Leads(doc, full, j, g[k], m)
        BY <1>6
      <3> HIDE DEF j
      <3>3. ~IsIndex(full[j + 1]) /\ full[j + 1][2] \in Spellable
        BY <1>6, <2>2, <3>1
      <3>4. longer = Append(g[k], KeyToken(full[j + 1][2]))
        BY <1>6, <3>1
      <3>5. SubSeq(full, 1, j + 1) \in DOMAIN doc
        BY <2>5, <3>1
      <3>6. SubSeq(full, 1, j + 1) \in Find(doc, Segments(longer, m + 1))
        BY <1>1, <3>1, <3>2, <3>3, <3>4, <3>5, KeyFound
      <3> QED
        BY <3>1, <3>6
    <2> QED
      BY <2>3, <2>4, <2>5 DEF AddsSelector
  <1> DEFINE S == {k \in 0..n-1 : \E m \in Nat : Done(g, k, m)}
  <1>7. 0 \in S
    <2>1. Leads(doc, full, 0 + 1, <<Root, Dots>>, 0)
      <3>1. 0 + 1 \in 0..Len(full)
        BY <1>1
      <3> QED
        BY <1>1, <3>1, BeforeFirst
    <2>2. g[0] = <<Root, Dots>>
      BY <1>5, Zenon DEF Rounds
    <2>3. Done(g, 0, 0)
      BY <2>1, <2>2
    <2>4. 0 \in 0..n-1 /\ 0 \in Nat
      BY <1>1, <1>2
    <2> HIDE DEF Done
    <2> QED
      BY <2>3, <2>4
  <1>8. ASSUME NEW k \in 0..n-2, k \in S PROVE k + 1 \in S
    <2>1. PICK m \in Nat : Done(g, k, m)
      BY <1>8
    <2>2. k + 1 \in 1..n /\ k + 1 < n /\ (k + 1) - 1 = k /\ k + 1 \in 0..n-1 /\ k \in 0..n-1
      BY <1>1
    <2>3. g[k + 1] = Extended(g[k], q, k + 1)
      <3>1. \A i \in 1..n : g[i] = Extended(g[i - 1], q, i)
        BY <1>5, Zenon DEF Rounds
      <3>2. g[k + 1] = Extended(g[(k + 1) - 1], q, k + 1)
        BY <2>2, <3>1, Zenon
      <3> QED
        BY <2>2, <3>2
    <2>4. CASE IsIndex(q[k + 1])
      <3>1. g[k + 1] = AppendDot(g[k])
        BY <2>2, <2>3, <2>4 DEF Extended
      <3>2. Leads(doc, full, (k + 1) + 1, g[k + 1], m)
        <4>1. k + 1 \in 0..Len(full)-1
          BY <1>1
        <4> QED
          BY <1>1, <2>1, <3>1, <4>1, IndexPassed
      <3>3. m = 0 => \A i \in 1..k+1 : IsIndex(q[i])
        BY <2>1, <2>4
      <3> QED
        BY <2>2, <3>2, <3>3
    <2>5. CASE ~IsIndex(q[k + 1])
      <3> DEFINE longer == Append(g[k], KeyToken(q[k + 1][2]))
                 j == m + 1
      <3>1. g[k + 1] = AppendDot(longer)
        BY <2>2, <2>3, <2>5 DEF Extended
      <3> HIDE DEF longer
      <3>2. SubSeq(full, 1, k + 2) \in DOMAIN doc
        <4>1. k + 2 \in 0..n
          BY <1>1
        <4> QED
          BY <1>4, <4>1
      <3>3. /\ Spells(longer, j) /\ Len(longer) = 2 * j + 1
            /\ Last(longer) \notin Connectors
            /\ SubSeq(full, 1, k + 2) \in Find(doc, Segments(longer, j))
        BY <1>6, <2>1, <2>2, <2>5, <3>2 DEF longer
      <3>4. j \in Nat /\ j # 0
        OBVIOUS
      <3>5. (k + 1) + 1 = k + 2 /\ k + 2 \in 0..Len(full)
        BY <1>1
      <3> HIDE DEF j
      <3>6. Leads(doc, full, k + 2, AppendDot(longer), j)
        BY <1>1, <3>3, <3>4, <3>5, DotPassed
      <3>7. Done(g, k + 1, j)
        BY <3>1, <3>4, <3>5, <3>6
      <3> HIDE DEF Done
      <3> QED
        BY <2>2, <3>4, <3>7
    <2> QED
      BY <2>4, <2>5
  <1>9. n - 1 \in S
    <2>1. n - 1 \in Nat /\ (n - 1) - 1 = n - 2
      BY <1>1, <1>2
    <2> HIDE DEF S, n
    <2>2. 0..n-1 \subseteq S
      <3> DEFINE j == n - 1
      <3>1. \A i \in 0..j-1 : i \in S => i + 1 \in S
        BY <1>8, <2>1
      <3>2. j \in Nat
        BY <2>1
      <3> HIDE DEF j
      <3>3. 0..j \subseteq S
        BY <1>7, <3>1, <3>2, UpTo
      <3> QED
        BY <3>3 DEF j
    <2> QED
      BY <2>1, <2>2
  <1>10. PICK m \in Nat : Done(g, n - 1, m)
    BY <1>9
  <1>11. g[n] = Extended(g[n - 1], q, n) /\ n \in 1..n
    <2>1. \A i \in 1..n : g[i] = Extended(g[i - 1], q, i)
      BY <1>5, Zenon DEF Rounds
    <2>2. n \in 1..n
      BY <1>1, <1>2
    <2> QED
      BY <2>1, <2>2, Zenon
  <1>12. SubSeq(full, 1, n + 1) = full
    BY <1>1, AllOf
  <1>13. full # <<>> /\ Front(full) = SubSeq(full, 1, n)
    BY <1>1 DEF Front
  <1>14. q # <<>> /\ (InList(q) <=> IsIndex(q[n]))
    BY <1>2 DEF InList, Last
  <1>15. CASE IsIndex(q[n])
    <2> DEFINE last == g[n - 1]
               t == Front(last)
    <2>1. g[n] = last
      BY <1>11, <1>15 DEF Extended
    <2>2. /\ Spells(last, m) /\ Len(last) = 2 * m + 2 /\ last \in Seq(PathToken)
          /\ last[2 * m + 2] \in Connectors /\ Last(last) \in Connectors
      BY <1>10 DEF Leads, Spells, Last
    <2>3. FormatJSONPath(q) = t
      BY <1>5, <1>14, <1>15, <2>1, <2>2 DEF TrimDots
    <2>4. m # 0
      <3> SUFFICES ASSUME m = 0 PROVE FALSE
        OBVIOUS
      <3>1. \A i \in 1..n-1 : IsIndex(q[i])
        BY <1>10
      <3>2. \A i \in 1..n : IsIndex(q[i])
        BY <1>1, <1>15, <3>1
      <3> QED
        BY <3>2 DEF Nameable
    <2> HIDE DEF last
    <2>5. /\ t \in Seq(PathToken) /\ Len(t) = 2 * m + 1
          /\ \A i \in 1..2*m+1 : t[i] = last[i]
      <3>1. last # <<>>
        BY <2>2
      <3>2. /\ t \in Seq(PathToken) /\ Len(t) = Len(last) - 1
            /\ \A i \in 1..Len(last)-1 : t[i] = last[i]
        BY <2>2, <3>1, ChildOf
      <3> HIDE DEF t
      <3> QED
        BY <2>2, <3>2
    <2> HIDE DEF t
    <2>6. Spells(t, m) /\ Segments(t, m) = Segments(last, m)
      <3>1. Len(t) >= 2 * m + 1
        BY <2>5
      <3> QED
        BY <2>2, <2>5, <3>1, SpellsSame
    <2>7. PICK p \in Find(doc, Segments(last, m)) :
             p \in Seq(Elem) /\ IsPrefix(p, SubSeq(full, 1, n))
      <3>1. (n - 1) + 1 = n
        BY <1>1
      <3>2. Leads(doc, full, n, last, m)
        BY <1>10, <3>1 DEF last
      <3> QED
        BY <3>2 DEF Leads
    <2>8. IsPrefix(p, Front(full)) /\ IsPrefix(p, full)
      BY <1>1, <1>13, <2>7, PrefixOfChild
    <2> QED
      BY <2>3, <2>4, <2>5, <2>6, <2>7, <2>8 DEF Names, full
  <1>16. CASE ~IsIndex(q[n])
    <2> DEFINE longer == Append(g[n - 1], KeyToken(q[n][2]))
               j == m + 1
    <2>1. FormatJSONPath(q) = longer
      <3>1. g[n] = longer
        BY <1>11, <1>16 DEF Extended
      <3> QED
        BY <1>5, <1>14, <1>16, <3>1
    <2> HIDE DEF longer
    <2>2. /\ Spells(longer, j) /\ Len(longer) = 2 * j + 1
          /\ full \in DOMAIN doc => full \in Find(doc, Segments(longer, j))
      <3> DEFINE k == n - 1
      <3>1. k \in 0..n-1 /\ k + 1 = n /\ k + 2 = n + 1
        BY <1>1, <1>2
      <3>2. Leads(doc, full, k + 1, g[k], m)
        BY <1>10
      <3>3. longer = Append(g[k], KeyToken(q[k + 1][2]))
        BY <3>1 DEF longer
      <3> HIDE DEF k
      <3>4. /\ Spells(longer, j) /\ Len(longer) = 2 * j + 1
            /\ SubSeq(full, 1, k + 2) \in DOMAIN doc =>
                  SubSeq(full, 1, k + 2) \in Find(doc, Segments(longer, j))
        BY <1>6, <1>16, <3>1, <3>2, <3>3
      <3> QED
        BY <1>12, <3>1, <3>4
    <2>3. j \in Nat \ {0}
      OBVIOUS
    <2> HIDE DEF j
    <2>4. IsPrefix(full, full)
      BY <1>1, PrefixesInside
    <2> QED
      BY <1>1, <1>14, <1>16, <2>1, <2>2, <2>3, <2>4 DEF Names, full
  <1> QED
    BY <1>15, <1>16

-----------------------------------------------------------------------------
(* What a path selects in two documents. *)

\* The two documents have the same node at p, and a list there has the same items.
Alike(one, other, p) ==
    /\ Same(one, other, p)
    /\ one[p] = ListNode => Children(one, p) = Children(other, p)

\* The positions that both documents have, all nodes above which are alike.
Near(one, other) ==
    {s \in DOMAIN one \cap DOMAIN other :
        \A p \in Seq(Elem) : IsPrefix(p, s) /\ p # s => Alike(one, other, p)}

\* What is around a position with alike surroundings.
LEMMA NearAbove ==
    ASSUME NEW one, IsTree(one), NEW other, IsTree(other), NEW s \in Near(one, other)
    PROVE  /\ s \in Seq(Elem) /\ s \in DOMAIN one /\ s \in DOMAIN other
           /\ \A p \in Seq(Elem) : IsPrefix(p, s) => p \in Near(one, other)
           /\ s # <<>> => /\ Front(s) \in Near(one, other)
                          /\ Alike(one, other, Front(s))
  <1>1. s \in Seq(Elem) /\ s \in DOMAIN one /\ s \in DOMAIN other
    BY DEF IsTree, Near
  <1>2. ASSUME NEW p \in Seq(Elem), IsPrefix(p, s) PROVE p \in Near(one, other)
    <2>1. p \in DOMAIN one /\ p \in DOMAIN other
      BY <1>1, <1>2, Enclosing
    <2>2. ASSUME NEW x \in Seq(Elem), IsPrefix(x, p), x # p PROVE Alike(one, other, x)
      <3>1. IsPrefix(x, s) /\ x # s
        BY <1>1, <1>2, <2>2, PrefixOfPrefix
      <3> QED
        BY <3>1 DEF Near
    <2> QED
      BY <2>1, <2>2 DEF Near
  <1>3. ASSUME s # <<>> PROVE Front(s) \in Near(one, other) /\ Alike(one, other, Front(s))
    <2>1. Front(s) \in Seq(Elem) /\ Len(Front(s)) = Len(s) - 1 /\ Len(s) \in Nat
      BY <1>1, <1>3, ChildOf
    <2>2. Front(s) # s
      BY <2>1
    <2>3. IsPrefix(Front(s), s)
      BY <1>1, <1>3, <2>1, PrefixOfChild, PrefixesInside
    <2>4. Front(s) \in Near(one, other)
      BY <1>2, <2>1, <2>3
    <2>5. Alike(one, other, Front(s))
      BY <2>1, <2>2, <2>3 DEF Near
    <2> QED
      BY <2>4, <2>5
  <1> QED
    BY <1>1, <1>2, <1>3

\* A segment selects it in both documents or in none.
LEMMA SelectNear ==
    ASSUME NEW one, IsTree(one), NEW other, IsTree(other),
           NEW s \in Near(one, other), s # <<>>, NEW segment, segment.kind \in SegmentKinds,
           s \in SelectFrom(one, Front(s), segment)
    PROVE  s \in SelectFrom(other, Front(s), segment)
  <1> DEFINE q == Front(s)
  <1>1. /\ s \in Seq(Elem) /\ s \in DOMAIN one /\ s \in DOMAIN other
        /\ q \in DOMAIN one /\ one[q] = other[q] /\ q \in Seq(Elem)
        /\ one[q] = ListNode => Children(one, q) = Children(other, q)
    <2>1. q \in Near(one, other) /\ Alike(one, other, q)
      BY NearAbove
    <2>2. q \in Seq(Elem)
      BY <2>1, NearAbove
    <2> QED
      BY <2>1, <2>2, NearAbove DEF Alike, Same
  <1> HIDE DEF q
  <1>2. \A n : s \in FieldAt(one, q, n) <=> s \in FieldAt(other, q, n)
    BY <1>1 DEF FieldAt
  <1>3. one[q] = ListNode => \A i : s \in ItemAt(one, q, i) <=> s \in ItemAt(other, q, i)
    BY <1>1 DEF ItemAt
  <1>4. s \in Children(other, q)
    BY <1>1, ChildrenAt DEF q
  <1>5. s \in SelectFrom(one, q, segment)
    BY DEF q
  <1>6. MapNode # ListNode
    BY DEF MapNode, ListNode
  <1>7. CASE one[q] \notin Containers
    BY <1>5, <1>7, SelectCases
  <1>8. CASE one[q] \in Containers /\ segment.kind = "wildcard"
    <2>1. SelectFrom(other, q, segment) = Children(other, q)
      BY <1>1, <1>8, SelectCases
    <2> QED
      BY <1>4, <2>1 DEF q
  <1>9. CASE one[q] = MapNode /\ segment.kind = "name"
    <2>1. SelectFrom(one, q, segment) = FieldAt(one, q, segment.name)
      BY <1>9, SelectCases
    <2>2. SelectFrom(other, q, segment) = FieldAt(other, q, segment.name)
      BY <1>1, <1>9, SelectCases
    <2> QED
      BY <1>2, <1>5, <2>1, <2>2 DEF q
  <1>10. CASE one[q] = MapNode /\ segment.kind = "index"
    <2> DEFINE ns == {m \in Decimals : AsIndex[m] = segment.index}
    <2>1. SelectFrom(one, q, segment) = UNION {FieldAt(one, q, n) : n \in ns}
      BY <1>10, SelectCases
    <2>2. SelectFrom(other, q, segment) = UNION {FieldAt(other, q, n) : n \in ns}
      BY <1>1, <1>10, SelectCases
    <2> HIDE DEF ns
    <2> QED
      BY <1>2, <1>5, <2>1, <2>2 DEF q
  <1>11. CASE one[q] = ListNode /\ segment.kind = "index"
    <2>1. SelectFrom(one, q, segment) = ItemAt(one, q, segment.index)
      BY <1>11, SelectCases
    <2>2. SelectFrom(other, q, segment) = ItemAt(other, q, segment.index)
      BY <1>1, <1>11, SelectCases
    <2> QED
      BY <1>3, <1>5, <1>11, <2>1, <2>2 DEF q
  <1>12. CASE one[q] = ListNode /\ segment.kind = "name"
    <2> DEFINE none == segment.quoted \/ AsIndex[segment.name] = NotANumber
               i == AsIndex[segment.name]
    <2>1. SelectFrom(one, q, segment) = IF none THEN {} ELSE ItemAt(one, q, i)
      BY <1>12, SelectCases
    <2>2. SelectFrom(other, q, segment) = IF none THEN {} ELSE ItemAt(other, q, i)
      BY <1>1, <1>12, SelectCases
    <2> HIDE DEF none, i
    <2> QED
      BY <1>3, <1>5, <1>12, <2>1, <2>2 DEF q
  <1> QED
    BY <1>7, <1>8, <1>9, <1>10, <1>11, <1>12 DEF Containers, SegmentKinds

\* A segment of a path follows it in both documents.
LEMMA FollowedNear ==
    ASSUME NEW one, IsTree(one), NEW other, IsTree(other),
           NEW c \in SUBSET DOMAIN one, NEW d \in SUBSET DOMAIN other,
           \A x \in Near(one, other) : x \in c => x \in d,
           NEW segment, segment.kind \in SegmentKinds,
           NEW s \in Near(one, other), s \in Followed(one, c, segment)
    PROVE  s \in Followed(other, d, segment)
  <1>1. PICK q \in From(one, c, segment) : s \in SelectFrom(one, q, segment)
    BY FollowedAt
  <1>2. q \in DOMAIN one
    BY FollowedAt
  <1>3. s # <<>> /\ q = Front(s)
    BY <1>1, <1>2, SelectsChildren
  <1>4. /\ q \in Near(one, other) /\ q \in Seq(Elem) /\ q \in DOMAIN other
        /\ \A p \in Seq(Elem) : IsPrefix(p, q) => p \in Near(one, other)
    <2>1. q \in Near(one, other)
      BY <1>3, NearAbove
    <2> QED
      BY <2>1, NearAbove
  <1>5. q \in From(other, d, segment)
    <2>1. CASE segment.recursive = TRUE
      <3>1. PICK p \in c : IsPrefix(p, q)
        BY <1>1, <2>1 DEF From, Descendants
      <3>2. p \in Seq(Elem)
        BY DEF IsTree
      <3>3. p \in d
        BY <1>4, <3>1, <3>2
      <3>4. q \in Descendants(other, p)
        BY <1>4, <3>1 DEF Descendants
      <3> QED
        BY <2>1, <3>3, <3>4 DEF From
    <2>2. CASE ~(segment.recursive = TRUE)
      <3>1. From(one, c, segment) = c /\ From(other, d, segment) = d
        BY <2>2 DEF From
      <3> QED
        BY <1>1, <1>4, <3>1
    <2> QED
      BY <2>1, <2>2
  <1>6. s \in SelectFrom(other, q, segment)
    BY <1>1, <1>3, SelectNear
  <1> QED
    BY <1>5, <1>6, FollowedAt

\* A path selects a value with alike surroundings in both documents or in none.
LEMMA FindNear ==
    ASSUME NEW one, IsTree(one), NEW other, IsTree(other),
           NEW segments, Len(segments) \in Nat,
           \A i \in 1..Len(segments) : segments[i].kind \in SegmentKinds,
           NEW s \in Near(one, other)
    PROVE  s \in Find(one, segments) => s \in Find(other, segments)
  <1> DEFINE n == Len(segments)
             near == Near(one, other)
  <1>1. PICK c : Matched(c, one, segments) /\ Find(one, segments) = c[n]
    BY FindAt
  <1>2. PICK d : Matched(d, other, segments) /\ Find(other, segments) = d[n]
    BY FindAt
  <1> DEFINE S == {i \in 0..n : \A x \in near : x \in c[i] => x \in d[i]}
  <1>3. 0 \in S
    <2>1. c[0] = {<<>>} /\ d[0] = {<<>>}
      BY <1>1, <1>2, Zenon DEF Matched
    <2>2. c[0] = d[0] /\ 0 \in 0..n
      BY <2>1
    <2> QED
      BY <2>2
  <1>4. ASSUME NEW i \in 0..n-1, i \in S PROVE i + 1 \in S
    <2> DEFINE j == i + 1
    <2>1. j \in 1..n /\ j - 1 = i /\ j \in 0..n
      OBVIOUS
    <2> HIDE DEF j, near, n
    <2>2. c[j] = Followed(one, c[j - 1], segments[j])
      BY <1>1, <2>1, Zenon DEF Matched, n
    <2>3. d[j] = Followed(other, d[j - 1], segments[j])
      BY <1>2, <2>1, Zenon DEF Matched, n
    <2>4. c[i] \in SUBSET DOMAIN one /\ d[i] \in SUBSET DOMAIN other
      <3>1. c \in [0..n -> SUBSET DOMAIN one] /\ d \in [0..n -> SUBSET DOMAIN other]
        BY <1>1, <1>2, Zenon DEF Matched, n
      <3> QED
        BY <1>4, <3>1
    <2>5. \A x \in near : x \in c[i] => x \in d[i]
      BY <1>4
    <2>6. segments[j].kind \in SegmentKinds
      BY <2>1 DEF n
    <2>7. ASSUME NEW x \in near, x \in c[j] PROVE x \in d[j]
      <3>1. x \in Followed(one, c[i], segments[j])
        BY <2>1, <2>2, <2>7
      <3>2. x \in Followed(other, d[i], segments[j])
        BY <2>4, <2>5, <2>6, <3>1, FollowedNear DEF near
      <3> QED
        BY <2>1, <2>3, <3>2
    <2>8. j \in 0..n /\ \A x \in near : x \in c[j] => x \in d[j]
      BY <2>1, <2>7, Zenon
    <2>9. j \in S
      BY <2>8, Zenon
    <2> QED
      BY <2>9, Zenon DEF j
  <1>5. n \in S
    <2>1. n \in Nat
      OBVIOUS
    <2>2. \A i \in 0..n-1 : i \in S => i + 1 \in S
      BY <1>4
    <2> HIDE DEF S, n
    <2>3. 0..n \subseteq S
      BY <1>3, <2>1, <2>2, UpTo
    <2> QED
      BY <2>1, <2>3
  <1> QED
    BY <1>1, <1>2, <1>5

\* P are the positions of changes between two documents, G and H what is to be removed from
\* them: every difference is at such a position or below; what is removed from the first one
\* has the value at each of them or around it, for an item its list or around that; and of the
\* values with alike surroundings both lose the same ones.
Covers(one, other, P, G, H) ==
    /\ P \in SUBSET Seq(Elem) /\ G \subseteq DOMAIN one /\ H \subseteq DOMAIN other
    /\ \A x \in DOMAIN one \cup DOMAIN other :
          ~Same(one, other, x) => \E q \in P : IsPrefix(q, x)
    /\ \A q \in P : InList(q) \/ q \in DOMAIN one =>
          \E p \in G : /\ p \in Seq(Elem) /\ IsPrefix(p, q)
                       /\ InList(q) => IsPrefix(p, Front(q))
    /\ \A s \in Near(one, other) : s \in G <=> s \in H

\* What stays in one document then stays in the other one, with the same node and index.
LEMMA OneSide ==
    ASSUME NEW one, IsTree(one), NEW other, IsTree(other), NEW P, NEW G, NEW H,
           Covers(one, other, P, G, H), NEW r \in Remaining(one, G)
    PROVE  /\ r \in Remaining(other, H)
           /\ one[r] = other[r]
           /\ Moved(r, G) = Moved(r, H)
  <1> P \in SUBSET Seq(Elem) /\ G \subseteq DOMAIN one /\ H \subseteq DOMAIN other
    BY DEF Covers
  <1> \A x \in DOMAIN one \cup DOMAIN other :
         ~Same(one, other, x) => \E q \in P : IsPrefix(q, x)
    BY DEF Covers
  <1> \A q \in P : InList(q) \/ q \in DOMAIN one =>
         \E p \in G : p \in Seq(Elem) /\ IsPrefix(p, q) /\ (InList(q) => IsPrefix(p, Front(q)))
    BY DEF Covers
  <1> \A s \in Near(one, other) : s \in G <=> s \in H
    BY DEF Covers
  <1>1. /\ r \in DOMAIN one /\ r \in Seq(Elem) /\ Spared(r, G)
        /\ DOMAIN one \subseteq Seq(Elem) /\ DOMAIN other \subseteq Seq(Elem)
    BY DEF Remaining, IsTree
  <1>2. ASSUME NEW p \in Seq(Elem), IsPrefix(p, r)
        PROVE  p \notin G /\ p \in DOMAIN one
    BY <1>1, <1>2, SparedAround, Enclosing
  \* Nothing on the way to r differs,
  <1>3. ASSUME NEW p \in Seq(Elem), IsPrefix(p, r) PROVE Same(one, other, p)
    <2> SUFFICES ASSUME ~Same(one, other, p) PROVE FALSE
      OBVIOUS
    <2>1. p \in DOMAIN one
      BY <1>2, <1>3
    <2>2. PICK q \in P : IsPrefix(q, p)
      BY <2>1
    <2>3. IsPrefix(q, r)
      BY <1>1, <1>3, <2>2, PrefixOfPrefix
    <2>4. q \in DOMAIN one
      BY <1>2, <2>3
    <2>5. PICK x \in G : x \in Seq(Elem) /\ IsPrefix(x, q)
      BY <2>4
    <2>6. IsPrefix(x, r)
      BY <1>1, <2>3, <2>5, PrefixOfPrefix
    <2> QED
      BY <1>2, <2>5, <2>6
  \* ... and the lists there have the same items.
  <1>4. ASSUME NEW p \in Seq(Elem), IsPrefix(p, r), one[p] = ListNode,
               NEW x \in DOMAIN one \cup DOMAIN other, x # <<>>, Front(x) = p
        PROVE  Same(one, other, x)
    <2> SUFFICES ASSUME ~Same(one, other, x) PROVE FALSE
      OBVIOUS
    <2>1. x \in Seq(Elem)
      BY <1>1
    <2>2. PICK q \in P : IsPrefix(q, x)
      OBVIOUS
    <2>3. q \in Seq(Elem)
      OBVIOUS
    <2>4. InList(x)
      <3>1. MapNode # ListNode
        BY DEF MapNode, ListNode
      <3>2. other[p] = ListNode
        BY <1>3, <1>4 DEF Same
      <3>3. IsIndex(Last(x))
        BY <1>4, <3>1, <3>2, Enclosing
      <3> QED
        BY <1>4, <3>3 DEF InList
    <2>5. IsPrefix(q, p) \/ q = x
      BY <1>4, <2>1, <2>2, <2>3, PrefixOfChild
    <2>6. \E y \in G : y \in Seq(Elem) /\ IsPrefix(y, p)
      <3>1. CASE q = x
        BY <1>4, <2>4, <3>1
      <3>2. CASE IsPrefix(q, p)
        <4>1. IsPrefix(q, r)
          BY <1>1, <1>4, <2>3, <3>2, PrefixOfPrefix
        <4>2. q \in DOMAIN one
          BY <1>2, <2>3, <4>1
        <4>3. PICK y \in G : y \in Seq(Elem) /\ IsPrefix(y, q)
          BY <4>2
        <4> QED
          BY <1>4, <2>3, <3>2, <4>3, PrefixOfPrefix
      <3> QED
        BY <2>5, <3>1, <3>2
    <2>7. PICK y \in G : y \in Seq(Elem) /\ IsPrefix(y, p)
      BY <2>6
    <2>8. IsPrefix(y, r)
      BY <1>1, <1>4, <2>7, PrefixOfPrefix
    <2> QED
      BY <1>2, <2>7, <2>8
  <1>5. ASSUME NEW p \in Seq(Elem), IsPrefix(p, r) PROVE Alike(one, other, p)
    <2>1. Same(one, other, p)
      BY <1>3, <1>5
    <2>2. ASSUME one[p] = ListNode PROVE Children(one, p) = Children(other, p)
      <3>1. ASSUME NEW x PROVE x \in Children(one, p) <=> x \in Children(other, p)
        <4>1. x \in Children(one, p) <=> x \in DOMAIN one /\ x # <<>> /\ Front(x) = p
          BY <1>5, ChildrenAt
        <4>2. x \in Children(other, p) <=> x \in DOMAIN other /\ x # <<>> /\ Front(x) = p
          BY <1>5, ChildrenAt
        <4> QED
          BY <1>4, <1>5, <2>2, <4>1, <4>2 DEF Same
      <3> QED
        BY <3>1 DEF Children
    <2> QED
      BY <2>1, <2>2 DEF Alike
  <1>6. ASSUME NEW s \in DOMAIN one \cup DOMAIN other,
               s # <<>> => \/ IsPrefix(Front(s), r) /\ one[Front(s)] = ListNode
                           \/ IsPrefix(s, r),
               s = <<>> => IsPrefix(s, r)
        PROVE  s \in G <=> s \in H
    <2>1. s \in Seq(Elem)
      BY <1>1
    <2>2. ASSUME NEW p \in Seq(Elem), IsPrefix(p, s), p # s PROVE Alike(one, other, p)
      <3>1. CASE IsPrefix(s, r)
        BY <1>1, <1>5, <2>1, <2>2, <3>1, PrefixOfPrefix
      <3>2. CASE s # <<>> /\ IsPrefix(Front(s), r)
        <4>1. IsPrefix(p, Front(s)) /\ Front(s) \in Seq(Elem)
          BY <2>1, <2>2, <3>2, PrefixOfChild, ChildOf
        <4> QED
          BY <1>1, <1>5, <3>2, <4>1, PrefixOfPrefix
      <3> QED
        BY <1>6, <3>1, <3>2
    <2>3. Same(one, other, s)
      <3>1. CASE IsPrefix(s, r)
        BY <1>3, <2>1, <3>1
      <3>2. CASE s # <<>> /\ IsPrefix(Front(s), r) /\ one[Front(s)] = ListNode
        <4>1. Front(s) \in Seq(Elem)
          BY <2>1, <3>2, ChildOf
        <4> QED
          BY <1>4, <3>2, <4>1
      <3> QED
        BY <1>6, <3>1, <3>2
    <2>4. s \in Near(one, other)
      BY <2>2, <2>3 DEF Near, Same
    <2> QED
      BY <2>4
  <1>7. ASSUME NEW p \in Seq(Elem), IsPrefix(p, r) PROVE p \notin H
    BY <1>2, <1>6, <1>7
  <1>8. r \in Remaining(other, H)
    <2>1. ASSUME NEW k \in 0..Len(r) PROVE SubSeq(r, 1, k) \notin H
      <3>1. SubSeq(r, 1, k) \in Seq(Elem) /\ Len(SubSeq(r, 1, k)) = k
        BY <1>1, FirstOf
      <3>2. IsPrefix(SubSeq(r, 1, k), r)
        BY <1>1, <3>1, PrefixIsFirst
      <3> QED
        BY <1>7, <3>1, <3>2
    <2>2. IsPrefix(r, r)
      BY <1>1, PrefixesInside
    <2>3. r \in DOMAIN other
      BY <1>1, <1>3, <2>2 DEF Same
    <2> QED
      BY <2>1, <2>3 DEF Remaining, Spared
  <1>9. one[r] = other[r]
    <2>1. IsPrefix(r, r)
      BY <1>1, PrefixesInside
    <2> QED
      BY <1>1, <1>3, <2>1 DEF Same
  <1>10. Moved(r, G) = Moved(r, H)
    <2>1. ASSUME NEW p \in Seq(Elem), NEW j \in Nat, IsPrefix(p, r)
          PROVE  Append(p, IndexElem(j)) \in G <=> Append(p, IndexElem(j)) \in H
      <3> DEFINE x == Append(p, IndexElem(j))
      <3>1. IndexElem(j) \in Elem /\ IsIndex(IndexElem(j))
        BY DEF IndexElem, Elem, IsIndex
      <3>2. x \in Seq(Elem) /\ x # <<>> /\ Front(x) = p /\ Last(x) = IndexElem(j)
        <4> DEFINE e == IndexElem(j)
        <4> HIDE DEF e
        <4>1. Append(p, e) \in Seq(Elem) /\ Append(p, e) # <<>>
              /\ Front(Append(p, e)) = p /\ Last(Append(p, e)) = e
          BY <3>1, Appended DEF e
        <4> QED
          BY <4>1 DEF e
      <3> HIDE DEF x
      <3>3. Same(one, other, p)
        BY <1>3, <2>1
      <3>4. ASSUME x \in DOMAIN one \cup DOMAIN other PROVE x \in G <=> x \in H
        <4>1. one[p] = ListNode
          BY <3>1, <3>2, <3>3, <3>4, Enclosing DEF Same
        <4> QED
          BY <1>6, <2>1, <3>2, <3>4, <4>1
      <3>5. x \in G <=> x \in H
        BY <3>4
      <3> QED
        BY <3>5 DEF x
    <2> QED
      BY <1>1, <2>1, SameIndices
  <1> QED
    BY <1>8, <1>9, <1>10

-----------------------------------------------------------------------------
(* The state of a test with one matched value. *)

\* A position in the state, from one in the value.
LEMMA InStateChild ==
    ASSUME NEW r \in Seq(Elem)
    PROVE  /\ InState(r) # <<>> /\ Head(InState(r)) = KeyElem(SnapshotKey)
           /\ Tail(InState(r)) = r
           /\ r = <<>> => /\ Front(InState(r)) = <<>>
                          /\ Last(InState(r)) = KeyElem(SnapshotKey)
           /\ r # <<>> => /\ Front(InState(r)) = InState(Front(r))
                          /\ Last(InState(r)) = Last(r)
           /\ \A e \in Elem : InState(Append(r, e)) = Append(InState(r), e)
           /\ InList(InState(r)) <=> InList(r)
  <1> DEFINE e == KeyElem(SnapshotKey)
             k == <<e>>
             full == InState(r)
  <1>1. e \in Elem /\ ~IsIndex(e)
    BY ReportAssumption DEF KeyElem, Elem, IsIndex
  <1> HIDE DEF e
  <1>2. k \in Seq(Elem) /\ k # <<>> /\ full = k \o r
    BY <1>1 DEF InState, e
  <1>3. full # <<>> /\ Head(full) = e /\ Tail(full) = r
    BY <1>1 DEF InState, e
  <1>4. ASSUME r = <<>> PROVE Front(full) = <<>> /\ Last(full) = e
    BY <1>1, <1>4 DEF InState, Front, Last, e
  <1> HIDE DEF k
  <1>5. ASSUME r # <<>> PROVE Front(full) = InState(Front(r)) /\ Last(full) = Last(r)
    <2>1. InState(Front(r)) = k \o Front(r)
      BY DEF InState, k, e
    <2>2. Front(k \o r) = k \o Front(r) /\ Last(k \o r) = Last(r)
      BY <1>2, <1>5, Below
    <2> QED
      BY <1>2, <2>1, <2>2
  <1>6. ASSUME NEW f \in Elem PROVE InState(Append(r, f)) = Append(InState(r), f)
    <2>1. k \o Append(r, f) = Append(k \o r, f)
      BY <1>2, ChildBelow
    <2> QED
      BY <2>1 DEF InState, k, e
  <1>7. InList(full) <=> InList(r)
    BY <1>1, <1>3, <1>4, <1>5 DEF InList
  <1> QED
    BY <1>3, <1>4, <1>5, <1>6, <1>7 DEF e

\* The state is a map with the value under its key.
LEMMA StateAt ==
    ASSUME NEW v, IsTree(v), NEW doc, doc = StateOf(v)
    PROVE  /\ \A q : q \in DOMAIN doc <=> q = <<>> \/ \E r \in DOMAIN v : q = InState(r)
           /\ doc[<<>>] = MapNode
           /\ \A r \in DOMAIN v : doc[InState(r)] = v[r]
           /\ IsTree(doc)
  <1> DEFINE e == KeyElem(SnapshotKey)
             below == {InState(r) : r \in DOMAIN v}
  <1>1. DOMAIN v \subseteq Seq(Elem)
    BY DEF IsTree
  <1>2. doc = [q \in {<<>>} \cup below |-> IF q = <<>> THEN MapNode ELSE v[Tail(q)]]
    <2> DEFINE fields == [n \in {SnapshotKey} |-> v]
               children == [f \in {KeyElem(n) : n \in DOMAIN fields} |-> fields[f[2]]]
    <2>1. {KeyElem(n) : n \in DOMAIN fields} = {e}
      OBVIOUS
    <2>2. e[2] = SnapshotKey
      BY DEF KeyElem
    <2>3. children = [f \in {e} |-> v]
      <3>1. \A f \in {e} : fields[f[2]] = v
        BY <2>2
      <3> HIDE DEF fields, e
      <3> QED
        BY <2>1, <3>1
    <2>4. doc = Container(MapNode, children)
      BY DEF StateOf, MapOf
    <2> HIDE DEF children
    <2>5. DOMAIN children = {e} /\ children[e] = v
      BY <2>3
    <2>6. UNION {{<<f>> \o r : r \in DOMAIN children[f]} : f \in DOMAIN children} = below
      <3>1. \A x : x \in UNION {{<<f>> \o r : r \in DOMAIN children[f]} : f \in DOMAIN children}
                      <=> \E r \in DOMAIN v : x = <<e>> \o r
        <4> HIDE DEF e
        <4> QED
          BY <2>5
      <3>2. \A x : x \in below <=> \E r \in DOMAIN v : x = <<e>> \o r
        BY DEF InState
      <3> HIDE DEF below, e
      <3> QED
        BY <3>1, <3>2
    <2>7. \A q \in below : children[Head(q)][Tail(q)] = v[Tail(q)]
      <3>1. \A q \in below : Head(q) = e
        BY <1>1, InStateChild
      <3> HIDE DEF below, e
      <3> QED
        BY <2>5, <3>1
    <2>8. doc = [q \in {<<>>} \cup below |->
                    IF q = <<>> THEN MapNode ELSE children[Head(q)][Tail(q)]]
      <3> HIDE DEF below
      <3> QED
        BY <2>4, <2>6 DEF Container
    <2> HIDE DEF below, e
    <2> QED
      BY <2>7, <2>8
  <1>3. \A q : q \in DOMAIN doc <=> q = <<>> \/ \E r \in DOMAIN v : q = InState(r)
    BY <1>2
  <1>4. doc[<<>>] = MapNode
    BY <1>2
  <1>5. ASSUME NEW r \in DOMAIN v PROVE doc[InState(r)] = v[r]
    <2>1. InState(r) # <<>> /\ Tail(InState(r)) = r
      BY <1>1, InStateChild
    <2>2. InState(r) \in below
      OBVIOUS
    <2>3. doc[InState(r)] = v[Tail(InState(r))]
      <3> DEFINE q == InState(r)
      <3> HIDE DEF below, q
      <3> QED
        BY <1>2, <2>1, <2>2 DEF q
    <2> QED
      BY <2>1, <2>3
  <1>6. doc = [q \in DOMAIN doc |-> doc[q]]
    <2> HIDE DEF below
    <2> QED
      BY <1>2
  <1>7. DOMAIN doc \subseteq Seq(Elem)
    <2>1. <<>> \in Seq(Elem)
      OBVIOUS
    <2> QED
      BY <1>1, <1>3, <2>1, InStateAt
  <1>8. ASSUME NEW q \in DOMAIN doc \ {<<>>} PROVE Fits(doc, Front(q), Last(q))
    <2>1. PICK r \in DOMAIN v : q = InState(r)
      BY <1>3
    <2>2. r \in Seq(Elem)
      BY <1>1
    <2>3. CASE r = <<>>
      <3>1. Front(q) = <<>> /\ Last(q) = e
        BY <2>1, <2>2, <2>3, InStateChild
      <3>2. ~IsIndex(e)
        BY DEF IsIndex, KeyElem
      <3> QED
        BY <1>3, <1>4, <3>1, <3>2 DEF Fits
    <2>4. CASE r # <<>>
      <3>1. Front(q) = InState(Front(r)) /\ Last(q) = Last(r)
        BY <2>1, <2>2, <2>4, InStateChild
      <3>2. Fits(v, Front(r), Last(r))
        BY <2>4, TreeDef
      <3>3. Front(r) \in DOMAIN v /\ Front(r) \in Seq(Elem)
        BY <1>1, <3>2 DEF Fits
      <3>4. doc[Front(q)] = v[Front(r)]
        BY <1>5, <3>1, <3>3
      <3>5. Front(q) \in DOMAIN doc
        BY <1>3, <3>1, <3>3
      <3>6. ASSUME IsIndex(Last(q)), Last(q)[2] # 0
            PROVE  Append(Front(q), IndexElem(Last(q)[2] - 1)) \in DOMAIN doc
        <4> DEFINE f == IndexElem(Last(q)[2] - 1)
        <4>1. f \in Elem
          <5>1. Last(r) \in Elem
            BY <2>2, <2>4, ChildOf
          <5>2. Last(q)[2] \in Nat
            BY <3>1, <3>6, <5>1, ElemAt
          <5>3. Last(q)[2] - 1 \in Nat
            BY <3>6, <5>2
          <5> QED
            BY <5>3 DEF IndexElem, Elem
        <4>2. Append(Front(r), f) \in DOMAIN v
          BY <3>1, <3>2, <3>6 DEF Fits
        <4> HIDE DEF f
        <4>3. Append(Front(q), f) = InState(Append(Front(r), f))
          BY <3>1, <3>3, <4>1, InStateChild
        <4>4. Append(Front(q), f) \in DOMAIN doc
          BY <1>3, <4>2, <4>3
        <4> QED
          BY <4>4 DEF f
      <3> QED
        BY <3>1, <3>2, <3>4, <3>5, <3>6 DEF Fits
    <2> QED
      BY <2>3, <2>4
  <1>9. IsTree(doc)
    BY <1>3, <1>6, <1>7, <1>8, TreeDef
  <1> QED
    BY <1>3, <1>4, <1>5, <1>9

\* The value itself is in no path of the list: they do not name its key.
LEMMA ValueStays ==
    ASSUME NEW v, IsTree(v), NEW m \in Nat \ {0}, NEW tokens, Spells(tokens, m)
    PROVE  InState(<<>>) \notin Find(StateOf(v), Segments(tokens, m))
  <1> DEFINE doc == StateOf(v)
             k == InState(<<>>)
             segments == Segments(tokens, m)
             j == m - 1
  <1>1. IsTree(doc) /\ doc[<<>>] = MapNode /\ <<>> \in DOMAIN doc
    BY StateAt
  <1>2. /\ k \in Seq(Elem) /\ k # <<>> /\ Front(k) = <<>> /\ Last(k) = KeyElem(SnapshotKey)
    <2>1. <<>> \in Seq(Elem)
      OBVIOUS
    <2> QED
      BY <2>1, InStateAt, InStateChild
  <1>3. /\ Len(segments) = m
        /\ \A i \in 1..m : segments[i].kind = "name" /\ segments[i].name \in Spellable
    BY SegmentsNamed
  <1> HIDE DEF doc, k
  <1>4. j \in Nat /\ j + 1 = m
    OBVIOUS
  <1>5. Spells(tokens, j)
    BY <1>4 DEF Spells
  <1>6. Len(Segments(tokens, j)) = j
    BY <1>4, <1>5, SegmentsNamed
  <1>7. \A i \in 1..j : segments[i] = Segments(tokens, j)[i]
    BY <1>4 DEF Segments
  <1> HIDE DEF segments, j
  <1> DEFINE found == Find(doc, Segments(tokens, j))
             last == segments[m]
  <1>8. found \subseteq DOMAIN doc /\ Find(doc, segments) = Followed(doc, found, last)
    <2>1. \A i \in 1..j+1 : segments[i].kind \in SegmentKinds
      BY <1>3, <1>4 DEF SegmentKinds
    <2>2. OneLonger(segments, Segments(tokens, j), j)
      BY <1>3, <1>4, <1>6, <1>7, <2>1 DEF OneLonger
    <2> QED
      BY <1>1, <1>4, <2>2, FindNext
  <1>9. last.kind = "name" /\ last.name \in Spellable /\ last.kind \in SegmentKinds
    BY <1>3 DEF SegmentKinds
  <1> HIDE DEF found, last
  <1>10. ASSUME k \in Followed(doc, found, last) PROVE FALSE
    <2>1. PICK q \in From(doc, found, last) : k \in SelectFrom(doc, q, last)
      BY <1>1, <1>8, <1>9, <1>10, FollowedAt
    <2>2. q \in DOMAIN doc
      BY <1>1, <1>8, <1>9, FollowedAt
    <2>3. q = <<>>
      BY <1>1, <1>2, <1>9, <2>1, <2>2, SelectsChildren
    <2>4. SelectFrom(doc, <<>>, last) = FieldAt(doc, <<>>, last.name)
      BY <1>1, <1>9, SelectCases
    <2>5. k = Append(<<>>, KeyElem(last.name))
      BY <2>1, <2>3, <2>4 DEF FieldAt
    <2>6. Last(k) = KeyElem(last.name)
      BY <2>5 DEF Last
    <2>7. last.name = SnapshotKey
      BY <1>2, <2>6 DEF KeyElem
    <2> QED
      BY <1>9, <2>7 DEF Spellable
  <1> QED
    BY <1>8, <1>10 DEF doc, k, segments

-----------------------------------------------------------------------------
(* The next run. *)

\* What the well-formed ones among the paths select.
SelectedBy(doc, paths) ==
    UNION {Find(doc, Parsed(Rooted(t))) : t \in {u \in paths : ~Malformed(Rooted(u))}}

\* The path of every change is well-formed and names it.
AllNamed(doc, found) ==
    \A c \in found : c[2] \in Seq(Elem) /\ \E m : Names(doc, c[2], FormatJSONPath(c[2]), m)

\* What the ignore list selects in a document.
LEMMA ListSelects ==
    ASSUME NEW v, IsTree(v), NEW doc, doc = StateOf(v), NEW found, AllNamed(doc, found),
           NEW G, G = SelectedBy(doc, IgnoreList(found))
    PROVE  /\ \A t \in IgnoreList(found) : ~Malformed(Rooted(t))
           /\ \A s : s \in G <=> \E c \in found :
                                    s \in Find(doc, Parsed(Rooted(FormatJSONPath(c[2]))))
           /\ G \subseteq DOMAIN doc /\ <<>> \notin G /\ InState(<<>>) \notin G
           /\ \A c \in found : InList(c[2]) \/ InState(c[2]) \in DOMAIN doc =>
                 \E p \in G : /\ p \in Seq(Elem) /\ IsPrefix(p, InState(c[2]))
                              /\ InList(c[2]) => IsPrefix(p, Front(InState(c[2])))
  <1>1. IsTree(doc)
    BY StateAt
  <1>2. ASSUME NEW c \in found
        PROVE  LET t == FormatJSONPath(c[2])
                   matches == Find(doc, Parsed(Rooted(t)))
               IN  /\ ~Malformed(Rooted(t))
                   /\ matches \subseteq DOMAIN doc /\ <<>> \notin matches
                   /\ InState(<<>>) \notin matches
                   /\ InList(c[2]) \/ InState(c[2]) \in DOMAIN doc =>
                         \E p \in matches : /\ p \in Seq(Elem) /\ IsPrefix(p, InState(c[2]))
                                            /\ InList(c[2]) => IsPrefix(p, Front(InState(c[2])))
    <2> DEFINE t == FormatJSONPath(c[2])
               matches == Find(doc, Parsed(Rooted(t)))
    <2>1. PICK m : Names(doc, c[2], t, m)
      BY DEF AllNamed
    <2> HIDE DEF t
    <2>2. m \in Nat \ {0} /\ Spells(t, m) /\ Len(t) = 2 * m + 1
      BY <2>1 DEF Names
    <2>3. ~Malformed(Rooted(t)) /\ Parsed(Rooted(t)) = Segments(t, m)
      BY <2>2, SpelledParsed
    <2>4. /\ Len(Segments(t, m)) = m
          /\ \A i \in 1..m : Segments(t, m)[i].kind \in SegmentKinds
      BY <2>2, SegmentsNamed DEF SegmentKinds
    <2>5. matches \subseteq DOMAIN doc /\ <<>> \notin matches
      <3> DEFINE s == Segments(t, m)
      <3>1. Len(s) \in Nat \ {0} /\ \A i \in 1..Len(s) : s[i].kind \in SegmentKinds
        BY <2>2, <2>4
      <3> HIDE DEF s
      <3>2. Find(doc, s) \subseteq DOMAIN doc /\ <<>> \notin Find(doc, s)
        BY <1>1, <3>1, FindInside
      <3> QED
        BY <2>3, <3>2 DEF s
    <2>6. InState(<<>>) \notin matches
      BY <2>2, <2>3, ValueStays
    <2>7. InList(c[2]) \/ InState(c[2]) \in DOMAIN doc =>
             \E p \in matches : /\ p \in Seq(Elem) /\ IsPrefix(p, InState(c[2]))
                                /\ InList(c[2]) => IsPrefix(p, Front(InState(c[2])))
      BY <2>1, <2>3 DEF Names
    <2> QED
      BY <2>3, <2>5, <2>6, <2>7 DEF t
  <1>3. \A t : t \in IgnoreList(found) <=> \E c \in found : t = FormatJSONPath(c[2])
    BY DEF IgnoreList
  <1>4. \A t \in IgnoreList(found) : ~Malformed(Rooted(t))
    BY <1>2, <1>3
  <1>5. ASSUME NEW s
        PROVE  s \in G <=> \E c \in found :
                              s \in Find(doc, Parsed(Rooted(FormatJSONPath(c[2]))))
    <2>1. s \in G <=> \E t \in IgnoreList(found) : s \in Find(doc, Parsed(Rooted(t)))
      BY <1>4 DEF SelectedBy
    <2> QED
      BY <1>3, <2>1
  <1>6. G \subseteq DOMAIN doc /\ <<>> \notin G /\ InState(<<>>) \notin G
    BY <1>2, <1>5
  <1>7. ASSUME NEW c \in found, InList(c[2]) \/ InState(c[2]) \in DOMAIN doc
        PROVE  \E p \in G : /\ p \in Seq(Elem) /\ IsPrefix(p, InState(c[2]))
                            /\ InList(c[2]) => IsPrefix(p, Front(InState(c[2])))
    <2>1. PICK p \in Find(doc, Parsed(Rooted(FormatJSONPath(c[2])))) :
             /\ p \in Seq(Elem) /\ IsPrefix(p, InState(c[2]))
             /\ InList(c[2]) => IsPrefix(p, Front(InState(c[2])))
      BY <1>2, <1>7
    <2>2. p \in G
      BY <1>5
    <2> QED
      BY <2>1, <2>2
  <1> QED
    BY <1>4, <1>5, <1>6, <1>7

\* The path of a change names it in both documents.
LEMMA ChangesNamed ==
    ASSUME NEW e, NEW a, IsTree(e), IsTree(a), NEW v, v = e \/ v = a,
           \A c \in Diff(e, a) : Nameable(c[2])
    PROVE  AllNamed(StateOf(v), Diff(e, a))
  <1> SUFFICES ASSUME NEW c \in Diff(e, a)
               PROVE  /\ c[2] \in Seq(Elem)
                      /\ \E m : Names(StateOf(v), c[2], FormatJSONPath(c[2]), m)
    BY DEF AllNamed
  <1> DEFINE q == c[2]
             doc == StateOf(v)
  <1>1. q \in Reached(e, a) /\ Nameable(q)
    BY DiffAt
  <1> HIDE DEF q
  <1>2. q \in Seq(Elem) /\ q # <<>> /\ Len(q) \in Nat /\ Len(q) # 0
    BY <1>1 DEF Reached, IsTree, Nameable
  <1>3. Front(q) \in DOMAIN v
    <2>1. Len(q) - 1 \in 0..Len(q)-1
      BY <1>2
    <2>2. SubSeq(q, 1, Len(q) - 1) \in DOMAIN e \cap DOMAIN a
      BY <1>1, <2>1 DEF Reached
    <2> QED
      BY <2>2 DEF Front
  <1>4. IsTree(v)
    OBVIOUS
  <1>5. IsTree(doc)
    BY <1>4, StateAt
  <1>6. Front(InState(q)) \in DOMAIN doc
    <2>1. Front(InState(q)) = InState(Front(q))
      BY <1>2, InStateChild
    <2> QED
      BY <1>3, <1>4, <2>1, StateAt
  <1>7. \E m : Names(doc, q, FormatJSONPath(q), m)
    BY <1>1, <1>2, <1>5, <1>6, PathNames
  <1> QED
    BY <1>2, <1>7 DEF q

\* Without what the ignore list selects, the states are the same.
LEMMA PastedSame ==
    ASSUME NEW e, NEW a, IsTree(e), IsTree(a), NEW found, found = Diff(e, a),
           \A c \in found : Nameable(c[2]),
           NEW paths, paths = IgnoreList(found)
    PROVE  /\ \A t \in paths : ~Malformed(Rooted(t))
           /\ Skipped(StateOf(e), paths) = Skipped(StateOf(a), paths)
           /\ InState(<<>>) \in DOMAIN Skipped(StateOf(e), paths)
  <1> DEFINE one == StateOf(e)
             other == StateOf(a)
             G == SelectedBy(one, paths)
             H == SelectedBy(other, paths)
             P == {InState(c[2]) : c \in found}
             In(c) == InState(c[2])
  <1>1. IsTree(one) /\ IsTree(other)
    BY StateAt
  <1>2. AllNamed(one, found) /\ AllNamed(other, found)
    BY ChangesNamed
  <1>3. \A c \in found : c[2] \in Seq(Elem)
    BY <1>2 DEF AllNamed
  <1>4. /\ \A t \in paths : ~Malformed(Rooted(t))
        /\ \A s : s \in G <=> \E c \in found :
                                 s \in Find(one, Parsed(Rooted(FormatJSONPath(c[2]))))
        /\ G \subseteq DOMAIN one /\ <<>> \notin G /\ InState(<<>>) \notin G
        /\ \A c \in found : InList(c[2]) \/ In(c) \in DOMAIN one =>
              \E p \in G : /\ p \in Seq(Elem) /\ IsPrefix(p, In(c))
                           /\ InList(c[2]) => IsPrefix(p, Front(In(c)))
    BY <1>2, ListSelects
  <1>5. /\ \A s : s \in H <=> \E c \in found :
                                 s \in Find(other, Parsed(Rooted(FormatJSONPath(c[2]))))
        /\ H \subseteq DOMAIN other
        /\ \A c \in found : InList(c[2]) \/ In(c) \in DOMAIN other =>
              \E p \in H : /\ p \in Seq(Elem) /\ IsPrefix(p, In(c))
                           /\ InList(c[2]) => IsPrefix(p, Front(In(c)))
    BY <1>2, ListSelects
  <1> HIDE DEF G, H
  <1>6. \A q : q \in P <=> \E c \in found : q = InState(c[2])
    OBVIOUS
  <1> HIDE DEF P
  <1>7. P \in SUBSET Seq(Elem)
    BY <1>3, <1>6, InStateAt
  <1>8. ASSUME NEW c \in found PROVE InList(InState(c[2])) <=> InList(c[2])
    BY <1>3, InStateChild
  <1>9. ASSUME NEW q \in P
        PROVE  /\ InList(q) \/ q \in DOMAIN one =>
                     \E p \in G : /\ p \in Seq(Elem) /\ IsPrefix(p, q)
                                  /\ InList(q) => IsPrefix(p, Front(q))
               /\ InList(q) \/ q \in DOMAIN other =>
                     \E p \in H : /\ p \in Seq(Elem) /\ IsPrefix(p, q)
                                  /\ InList(q) => IsPrefix(p, Front(q))
    <2>1. PICK c \in found : q = InState(c[2])
      BY <1>6
    <2> QED
      BY <1>4, <1>5, <1>8, <2>1
  \* Where the states differ, there is a change or one around it.
  <1>10. ASSUME NEW x \in DOMAIN one \cup DOMAIN other, ~Same(one, other, x)
         PROVE  \E q \in P : IsPrefix(q, x)
    <2>1. x # <<>>
      BY <1>10, StateAt DEF Same
    <2>2. PICK r \in DOMAIN e \cup DOMAIN a : x = InState(r)
      BY <2>1, StateAt
    <2>3. ~Same(e, a, r)
      <3> SUFFICES ASSUME Same(e, a, r) PROVE FALSE
        OBVIOUS
      <3>1. x \in DOMAIN one /\ x \in DOMAIN other
        BY <2>2, StateAt DEF Same
      <3>2. one[x] = other[x]
        BY <2>2, StateAt DEF Same
      <3> QED
        BY <1>10, <3>1, <3>2 DEF Same
    <2>4. PICK c \in found : IsPrefix(c[2], r)
      BY <2>3, DifferencesReached, DiffAt
    <2>5. c[2] \in Seq(Elem) /\ r \in Seq(Elem)
      BY <1>3 DEF IsTree
    <2>6. IsPrefix(InState(c[2]), InState(r))
      <3> DEFINE p == c[2]
      <3> HIDE DEF p
      <3>1. p \in Seq(Elem) /\ IsPrefix(p, r)
        BY <2>4, <2>5 DEF p
      <3>2. Len(p) <= Len(r) /\ \A i \in 1..Len(p) : p[i] = r[i]
        BY <2>5, <3>1, PrefixAt
      <3>3. /\ InState(p) \in Seq(Elem) /\ Len(InState(p)) = Len(p) + 1
            /\ InState(r) \in Seq(Elem) /\ Len(InState(r)) = Len(r) + 1
            /\ InState(p)[1] = InState(r)[1]
            /\ \A i \in 1..Len(p) : InState(p)[i + 1] = p[i]
            /\ \A i \in 1..Len(r) : InState(r)[i + 1] = r[i]
        <4>1. /\ InState(p) \in Seq(Elem) /\ Len(InState(p)) = Len(p) + 1
              /\ InState(p)[1] = KeyElem(SnapshotKey)
              /\ \A i \in 1..Len(p) : InState(p)[i + 1] = p[i]
          BY <3>1, InStateAt
        <4>2. /\ InState(r) \in Seq(Elem) /\ Len(InState(r)) = Len(r) + 1
              /\ InState(r)[1] = KeyElem(SnapshotKey)
              /\ \A i \in 1..Len(r) : InState(r)[i + 1] = r[i]
          BY <2>5, InStateAt
        <4> QED
          BY <4>1, <4>2
      <3>4. ASSUME NEW i \in 1..Len(p)+1 PROVE InState(p)[i] = InState(r)[i]
        <4>1. CASE i = 1
          BY <3>3, <4>1
        <4>2. CASE i # 1
          <5> DEFINE k == i - 1
          <5>1. k \in 1..Len(p) /\ k \in 1..Len(r) /\ k + 1 = i
            BY <2>5, <3>1, <3>2, <4>2
          <5> HIDE DEF k
          <5> QED
            BY <3>2, <3>3, <5>1
        <4> QED
          BY <4>1, <4>2
      <3>5. Len(InState(p)) <= Len(InState(r))
        BY <2>5, <3>1, <3>2, <3>3
      <3>6. \A i \in 1..Len(InState(p)) : InState(p)[i] = InState(r)[i]
        BY <3>3, <3>4
      <3>7. IsPrefix(InState(p), InState(r))
        BY <3>3, <3>5, <3>6, PrefixAt
      <3> QED
        BY <3>7 DEF p
    <2> QED
      BY <1>6, <2>2, <2>6
  <1>11. \A x \in DOMAIN one \cup DOMAIN other :
            ~Same(one, other, x) => \E q \in P : IsPrefix(q, x)
    BY <1>10
  <1>12. \A x \in DOMAIN other \cup DOMAIN one :
            ~Same(other, one, x) => \E q \in P : IsPrefix(q, x)
    BY <1>10 DEF Same
  \* The paths select what has alike surroundings in both states or in none.
  <1>13. ASSUME NEW x, IsTree(x), NEW y, IsTree(y), NEW s \in Near(x, y), NEW c \in found,
                s \in Find(x, Parsed(Rooted(FormatJSONPath(c[2]))))
         PROVE  s \in Find(y, Parsed(Rooted(FormatJSONPath(c[2]))))
    <2> DEFINE t == FormatJSONPath(c[2])
    <2>1. PICK m : Names(one, c[2], t, m)
      BY <1>2 DEF AllNamed
    <2> HIDE DEF t
    <2>2. m \in Nat \ {0} /\ Spells(t, m) /\ Len(t) = 2 * m + 1
      BY <2>1 DEF Names
    <2>3. Parsed(Rooted(t)) = Segments(t, m)
      BY <2>2, SpelledParsed
    <2>4. /\ Len(Segments(t, m)) \in Nat
          /\ \A i \in 1..Len(Segments(t, m)) : Segments(t, m)[i].kind \in SegmentKinds
      BY <2>2, SegmentsNamed DEF SegmentKinds
    <2>5. s \in Find(x, Segments(t, m))
      BY <1>13, <2>3 DEF t
    <2>6. s \in Find(y, Segments(t, m))
      BY <1>13, <2>4, <2>5, FindNear
    <2> QED
      BY <2>3, <2>6 DEF t
  <1>14. \A s : s \in Near(one, other) <=> s \in Near(other, one)
    BY DEF Near, Alike, Same
  <1> HIDE DEF one, other
  <1>15. \A s \in Near(one, other) : s \in G <=> s \in H
    BY <1>1, <1>4, <1>5, <1>13, <1>14
  <1>16. ASSUME NEW r \in Remaining(one, G)
         PROVE  r \in Remaining(other, H) /\ one[r] = other[r] /\ Moved(r, G) = Moved(r, H)
    <2>1. \A q \in P : InList(q) \/ q \in DOMAIN one =>
             \E p \in G : /\ p \in Seq(Elem) /\ IsPrefix(p, q)
                          /\ InList(q) => IsPrefix(p, Front(q))
      BY <1>9
    <2>2. Covers(one, other, P, G, H)
      BY <1>4, <1>5, <1>7, <1>11, <1>15, <2>1 DEF Covers
    <2> QED
      BY <1>1, <2>2, OneSide
  <1>17. ASSUME NEW r \in Remaining(other, H) PROVE r \in Remaining(one, G)
    <2>1. \A q \in P : InList(q) \/ q \in DOMAIN other =>
             \E p \in H : /\ p \in Seq(Elem) /\ IsPrefix(p, q)
                          /\ InList(q) => IsPrefix(p, Front(q))
      BY <1>9
    <2>2. \A s \in Near(other, one) : s \in H <=> s \in G
      BY <1>14, <1>15
    <2>3. Covers(other, one, P, H, G)
      BY <1>4, <1>5, <1>7, <1>12, <2>1, <2>2 DEF Covers
    <2> QED
      BY <1>1, <2>3, OneSide
  <1>18. Without(one, G) = Without(other, H)
    <2>1. Remaining(one, G) = Remaining(other, H)
      BY <1>16, <1>17
    <2> QED
      BY <1>1, <1>16, <2>1, WithoutSame
  <1>19. Skipped(one, paths) = Without(one, G) /\ Skipped(other, paths) = Without(other, H)
    BY DEF Skipped, SelectedBy, G, H
  <1>20. InState(<<>>) \in DOMAIN Without(one, G)
    <2> DEFINE k == InState(<<>>)
    <2>1. /\ k \in Seq(Elem) /\ k # <<>> /\ Front(k) = <<>> /\ Last(k) = KeyElem(SnapshotKey)
          /\ Len(k) = 1
      <3>1. <<>> \in Seq(Elem) /\ Len(<<>>) + 1 = 1
        OBVIOUS
      <3> QED
        BY <3>1, InStateAt, InStateChild
    <2>2. k \in DOMAIN one
      <3>1. <<>> \in DOMAIN e
        BY DEF IsTree, IsDocument
      <3> QED
        BY <3>1, StateAt DEF one
    <2> HIDE DEF k
    <2>3. Spared(k, G)
      <3>1. <<>> \in Seq(Elem) /\ k \notin G
        BY <1>4 DEF k
      <3> QED
        BY <1>4, <2>1, <3>1, SparedAt
    <2>4. k \in Remaining(one, G)
      BY <2>2, <2>3 DEF Remaining
    <2>5. Moved(k, G) = k
      <3>1. Len(k) = 1
        BY <2>1
      <3>2. ~IsIndex(k[1]) /\ k[1] = Last(k)
        BY <2>1, <3>1 DEF Last, KeyElem, IsIndex
      <3>3. \A n \in DOMAIN k : n = 1
        BY <2>1, <3>1
      <3>4. k = [n \in DOMAIN k |-> k[n]]
        BY <2>1
      <3>5. Moved(k, G) = [n \in DOMAIN k |-> k[n]]
        BY <3>2, <3>3 DEF Moved
      <3> QED
        BY <3>4, <3>5
    <2>6. k \in DOMAIN Without(one, G)
      BY <1>1, <2>4, <2>5, WithoutAt DEF ClosedUp
    <2> QED
      BY <2>6 DEF k
  <1> QED
    BY <1>4, <1>18, <1>19, <1>20 DEF one, other

\* The ignore list is that of the changes, and has been of use if it was pasted.
PasteInv ==
    /\ Inv
    /\ after # "not compared" => ignored = IgnoreList(changes)
    /\ PastedListPasses

LEMMA InitPaste == ReportInit => PasteInv
  BY InitInv DEF ReportInit, PasteInv, PastedListPasses

LEMMA StepPaste == PasteInv /\ [ReportNext]_reportVars => PasteInv'
  <1> SUFFICES ASSUME PasteInv, [ReportNext]_reportVars PROVE PasteInv'
    OBVIOUS
  <1>1. Inv'
    BY StepInv DEF PasteInv
  <1>2. CASE Compare
    BY <1>1, <1>2 DEF Compare, PasteInv, PastedListPasses
  <1>3. ASSUME NEW list, CompareAgain(list) PROVE PasteInv'
    <2>1. /\ after = "reported" /\ ignored = IgnoreList(changes) /\ pair \in Pairs
          /\ changes = Diff(pair[1], pair[2])
          /\ changes' = changes /\ ignored' = ignored /\ pair' = pair /\ pasted' = list
      BY <1>3 DEF CompareAgain, PasteInv, Inv, Compared
    <2>2. ASSUME list = ignored, \A c \in changes : Nameable(c[2]) PROVE after' = "passed"
      <3> DEFINE expected == Skipped(StateOf(pair[1]), ignored)
                 actual == Skipped(StateOf(pair[2]), ignored)
                 before == ValueAt(expected, <<KeyElem(SnapshotKey)>>)
                 now == ValueAt(actual, <<KeyElem(SnapshotKey)>>)
      <3>1. IsTree(pair[1]) /\ IsTree(pair[2])
        BY <2>1, PairsAssumption
      <3>2. /\ \A t \in ignored : ~Malformed(Rooted(t))
            /\ expected = actual
            /\ InState(<<>>) \in DOMAIN expected
        BY <2>1, <2>2, <3>1, PastedSame
      <3>3. InState(<<>>) = <<KeyElem(SnapshotKey)>>
        <4> DEFINE e == KeyElem(SnapshotKey)
        <4>1. e \in Elem
          BY ReportAssumption DEF KeyElem, Elem
        <4> HIDE DEF e
        <4>2. <<e>> \o <<>> = <<e>>
          BY <4>1
        <4> QED
          BY <4>2 DEF InState, e
      <3>4. Diff(before, now) = {}
        <4>1. before = now
          BY <3>2
        <4> HIDE DEF before, now
        <4>2. \A q \in Reached(now, now) : Same(now, now, q)
          BY DEF Reached, Same
        <4>3. \A c \in Diff(now, now) : FALSE
          BY <4>2, DiffAt
        <4> QED
          BY <4>1, <4>3
      <3>5. after' = IF \E t \in ignored : Malformed(Rooted(t)) THEN "invalid path"
                     ELSE IF <<KeyElem(SnapshotKey)>> \notin DOMAIN expected THEN "missing"
                     ELSE IF Diff(before, now) = {} THEN "passed" ELSE "failed"
        BY <1>3, <2>2, Zenon DEF CompareAgain, Verdict
      <3> HIDE DEF expected, actual, before, now
      <3> QED
        BY <3>2, <3>3, <3>4, <3>5
    <2>3. PastedListPasses'
      BY <2>1, <2>2 DEF PastedListPasses
    <2>4. after' # "not compared" => ignored' = IgnoreList(changes')
      BY <2>1
    <2> QED
      BY <1>1, <2>3, <2>4 DEF PasteInv
  <1>4. CASE UNCHANGED reportVars
    BY <1>1, <1>4 DEF reportVars, PasteInv, PastedListPasses
  <1> QED
    BY <1>2, <1>3, <1>4 DEF ReportNext

\* For any recorded and observed value, any keys and whatever has to be quoted: if every
\* change can be named, the test passes with the ignore list pasted.
THEOREM PastingPasses == ReportSpec => []PastedListPasses
  <1>1. PasteInv => PastedListPasses
    BY DEF PasteInv
  <1> QED
    BY <1>1, InitPaste, StepPaste, PTL DEF ReportSpec
=============================================================================

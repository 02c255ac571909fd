-------------------------- MODULE SkipPaths_proofs --------------------------
(***************************************************************************)
(* Proofs about SkipPaths, for any states and any skip paths: the paths    *)
(* are independent of one another, what they select is what is removed,    *)
(* and the state is a document all the time.                               *)
(***************************************************************************)
EXTENDS SkipPaths, JsonPath_proofs

-----------------------------------------------------------------------------
(* Marking. *)

\* The list items that are marked are those below no other match.
LEMMA ItemsAt ==
    ASSUME NEW q \in Seq(Elem), NEW gone, q # <<>>
    PROVE  q \in Items(gone) <=> q \in gone /\ InList(q) /\ Spared(Front(q), gone)
  <1> DEFINE m == Len(q) - 1
  <1>1. Len(q) \in Nat \ {0} /\ m \in 0..Len(q)
    OBVIOUS
  <1>2. /\ Front(q) = SubSeq(q, 1, m) /\ Len(SubSeq(q, 1, m)) = m
        /\ \A n \in 0..m : SubSeq(SubSeq(q, 1, m), 1, n) = SubSeq(q, 1, n)
    BY <1>1, FirstOf DEF Front
  <1> HIDE DEF m
  <1>3. Spared(Front(q), gone) <=> \A n \in 0..m : SubSeq(q, 1, n) \notin gone
    BY <1>2 DEF Spared
  <1> QED
    BY <1>3 DEF Items, m

\* What Marked should make of doc: those spared are left, and the list items in place.
LeftOf(new, doc, matches) ==
    /\ new = [q \in DOMAIN new |-> new[q]]
    /\ \A q : q \in DOMAIN new <=> \/ q \in DOMAIN doc /\ Spared(q, matches)
                                   \/ q \in Items(matches)
    /\ \A q \in DOMAIN new :
          new[q] = IF q \in Items(matches) THEN Placeholder ELSE doc[q]

\* What Marked returns, position by position.
LEMMA MarkedAt ==
    ASSUME NEW doc, NEW matches
    PROVE  LeftOf(Marked(doc, matches), doc, matches)
  BY DEF LeftOf, Marked, Remaining

\* What is left is still around what is left, and was in the document.
LEMMA MarkedAbove ==
    ASSUME NEW doc, IsTree(doc), NEW matches \in SUBSET DOMAIN doc,
           NEW q \in DOMAIN Marked(doc, matches)
    PROVE  /\ q \in DOMAIN doc /\ q \in Seq(Elem)
           /\ \A p \in Seq(Elem) : IsPrefix(p, q) => p \in DOMAIN Marked(doc, matches)
           /\ q # <<>> => /\ Front(q) \in DOMAIN Marked(doc, matches)
                          /\ Spared(Front(q), matches)
  <1> DEFINE new == Marked(doc, matches)
  <1>1. \A x : x \in DOMAIN new <=> \/ x \in DOMAIN doc /\ Spared(x, matches)
                                    \/ x \in Items(matches)
    BY MarkedAt DEF LeftOf
  <1> HIDE DEF new
  <1>2. q \in DOMAIN doc /\ q \in Seq(Elem)
    BY <1>1, Enclosing DEF Items, new
  <1>3. q \in Items(matches) => q # <<>>
    BY DEF Items, InList
  <1>4. q # <<>> => /\ Front(q) \in DOMAIN new /\ Spared(Front(q), matches)
                    /\ Front(q) \in Seq(Elem)
    BY <1>1, <1>2, <1>3, SparedAt, ItemsAt, Enclosing, ChildOf DEF new
  <1>5. ASSUME NEW p \in Seq(Elem), IsPrefix(p, q) PROVE p \in DOMAIN new
    <2>1. p \in DOMAIN doc
      BY <1>2, <1>5, Enclosing
    <2>2. CASE Spared(q, matches)
      BY <1>1, <1>2, <1>5, <2>1, <2>2, SparedAround
    <2>3. CASE ~Spared(q, matches)
      <3>1. q # <<>>
        BY <1>1, <1>3, <2>3 DEF new
      <3>2. p = q \/ IsPrefix(p, Front(q))
        BY <1>2, <1>5, <3>1, PrefixOfChild
      <3>3. IsPrefix(p, Front(q)) => Spared(p, matches)
        BY <1>4, <1>5, <3>1, SparedAround
      <3> QED
        BY <1>1, <2>1, <3>2, <3>3 DEF new
    <2> QED
      BY <2>2, <2>3
  <1> QED
    BY <1>2, <1>4, <1>5 DEF new

\* What is left of second matches after first were marked: marking it comes to marking the
\* two together.
MarkedTogether(doc, first, second, left) ==
    /\ Marked(Marked(doc, first), left) = Marked(doc, first \cup second)
    /\ Items(first \cup second) \subseteq Items(first) \cup left

\* Marking what is left of other matches comes to marking them together with the first.
LEMMA MarkedAgain ==
    ASSUME NEW doc, IsTree(doc), NEW first \in SUBSET DOMAIN doc,
           NEW second \in SUBSET DOMAIN doc,
           NEW left, left = second \cap DOMAIN Marked(doc, first)
    PROVE  MarkedTogether(doc, first, second, left)
  <1> DEFINE D == Marked(doc, first)
             both == first \cup second
             E == Marked(D, left)
             W == Marked(doc, both)
  <1> HIDE DEF D
  <1>1. D = Marked(doc, first) /\ E = Marked(D, left) /\ W = Marked(doc, both)
    BY DEF D
  <1> HIDE DEF E, W
  <1>2. LeftOf(D, doc, first) /\ LeftOf(E, D, left) /\ LeftOf(W, doc, both)
    BY <1>1, MarkedAt, Zenon
  <1>3. /\ \A q : q \in DOMAIN D <=> (q \in DOMAIN doc /\ Spared(q, first)) \/ q \in Items(first)
        /\ \A q \in DOMAIN D : D[q] = IF q \in Items(first) THEN Placeholder ELSE doc[q]
    BY <1>2 DEF LeftOf
  <1>4. /\ E = [q \in DOMAIN E |-> E[q]]
        /\ \A q : q \in DOMAIN E <=> (q \in DOMAIN D /\ Spared(q, left)) \/ q \in Items(left)
        /\ \A q \in DOMAIN E : E[q] = IF q \in Items(left) THEN Placeholder ELSE D[q]
    BY <1>2 DEF LeftOf
  <1>5. /\ W = [q \in DOMAIN W |-> W[q]]
        /\ \A q : q \in DOMAIN W <=> (q \in DOMAIN doc /\ Spared(q, both)) \/ q \in Items(both)
        /\ \A q \in DOMAIN W : W[q] = IF q \in Items(both) THEN Placeholder ELSE doc[q]
    BY <1>2 DEF LeftOf
  <1>6. left = second \cap DOMAIN D
    BY <1>1
  <1>7. ASSUME NEW q
        PROVE  Spared(q, both) <=> Spared(q, first) /\ Spared(q, second)
    BY DEF Spared, both
  <1>8. ASSUME NEW q \in Seq(Elem), Spared(q, first)
        PROVE  Spared(q, left) <=> Spared(q, second)
    <2>1. ASSUME NEW n \in 0..Len(q)
          PROVE  SubSeq(q, 1, n) \in second => SubSeq(q, 1, n) \in DOMAIN D
      <3> DEFINE p == SubSeq(q, 1, n)
      <3>1. p \in Seq(Elem) /\ Len(p) = n /\ p = SubSeq(q, 1, Len(p)) /\ Len(p) \in 0..Len(q)
        BY FirstOf
      <3> HIDE DEF p
      <3>2. IsPrefix(p, q)
        BY <3>1, PrefixIsFirst
      <3>3. Spared(p, first)
        BY <1>8, <3>1, <3>2, SparedAround
      <3>4. p \in second => p \in DOMAIN D
        BY <1>3, <3>3
      <3> QED
        BY <3>4 DEF p
    <2> QED
      BY <1>6, <2>1 DEF Spared
  <1>9. ASSUME NEW q \in DOMAIN doc
        PROVE  /\ q \in DOMAIN E <=> q \in DOMAIN W
               /\ q \in Items(both) => q \in Items(first) \/ q \in left
               /\ q \in DOMAIN E =>
                     (q \in Items(both) <=> q \in Items(left) \/ q \in Items(first))
    <2>1. q \in Seq(Elem)
      BY Enclosing
    <2>2. CASE q = <<>>
      <3>1. q \notin Items(first) /\ q \notin Items(left) /\ q \notin Items(both)
        BY <2>2 DEF Items, InList
      <3>2. ASSUME NEW gone PROVE Spared(q, gone) <=> q \notin gone
        BY <2>1, <2>2, SparedAt, ItemsAt
      <3> QED
        BY <1>3, <1>4, <1>5, <1>6, <3>1, <3>2
    <2>3. CASE q # <<>>
      <3> DEFINE f == Front(q)
      <3>1. f \in Seq(Elem)
        BY <2>1, <2>3, ChildOf
      <3>2. /\ Spared(q, first) <=> q \notin first /\ Spared(f, first)
            /\ Spared(q, left) <=> q \notin left /\ Spared(f, left)
            /\ Spared(q, both) <=> q \notin both /\ Spared(f, both)
            /\ q \in Items(first) <=> q \in first /\ InList(q) /\ Spared(f, first)
            /\ q \in Items(left) <=> q \in left /\ InList(q) /\ Spared(f, left)
            /\ q \in Items(both) <=> q \in both /\ InList(q) /\ Spared(f, both)
        BY <2>1, <2>3, SparedAt, ItemsAt
      <3> HIDE DEF f
      <3>3. Spared(f, both) <=> Spared(f, first) /\ Spared(f, second)
        BY <1>7
      <3>4. Spared(f, first) => (Spared(f, left) <=> Spared(f, second))
        BY <1>8, <3>1
      <3>5. q \in both <=> q \in first \/ q \in second
        OBVIOUS
      <3>6. q \in left <=> q \in second /\ q \in DOMAIN D
        BY <1>6
      <3>7. q \in DOMAIN D <=> Spared(q, first) \/ q \in Items(first)
        BY <1>3
      <3>8. q \in DOMAIN E <=> (q \in DOMAIN D /\ Spared(q, left)) \/ q \in Items(left)
        BY <1>4
      <3>9. q \in DOMAIN W <=> Spared(q, both) \/ q \in Items(both)
        BY <1>5
      <3> HIDE DEF both
      <3> QED
        BY <3>2, <3>3, <3>4, <3>5, <3>6, <3>7, <3>8, <3>9
    <2> QED
      BY <2>2, <2>3
  <1>10. DOMAIN D \subseteq DOMAIN doc /\ DOMAIN W \subseteq DOMAIN doc
    BY <1>3, <1>5 DEF Items, both
  <1>11. DOMAIN E \subseteq DOMAIN doc
    BY <1>4, <1>6, <1>10 DEF Items
  <1>12. DOMAIN E = DOMAIN W
    BY <1>9, <1>10, <1>11
  <1>13. ASSUME NEW q \in DOMAIN E PROVE E[q] = W[q]
    <2>1. q \in Items(both) <=> q \in Items(left) \/ q \in Items(first)
      BY <1>9, <1>11
    <2>2. W[q] = IF q \in Items(both) THEN Placeholder ELSE doc[q]
      BY <1>5, <1>12
    <2>3. E[q] = IF q \in Items(left) THEN Placeholder ELSE D[q]
      BY <1>4
    <2>4. q \in DOMAIN D
      BY <1>4, <1>6 DEF Items
    <2>5. D[q] = IF q \in Items(first) THEN Placeholder ELSE doc[q]
      BY <1>3, <2>4
    <2> QED
      BY <2>1, <2>2, <2>3, <2>5
  <1>14. E = W
    BY <1>4, <1>5, <1>12, <1>13
  <1>15. Items(both) \subseteq Items(first) \cup left
    <2>1. Items(both) \subseteq DOMAIN doc
      BY DEF Items, both
    <2> QED
      BY <1>9, <2>1
  <1> QED
    BY <1>14, <1>15 DEF D, E, W, both, MarkedTogether

\* A document stays one: marked items keep the places of the others.
LEMMA MarkedTree ==
    ASSUME NEW doc, IsTree(doc), NEW matches \in SUBSET DOMAIN doc, <<>> \notin matches
    PROVE  IsTree(Marked(doc, matches))
  <1> DEFINE new == Marked(doc, matches)
  <1>1. LeftOf(new, doc, matches)
    BY MarkedAt
  <1>2. ASSUME NEW q \in DOMAIN new
        PROVE  /\ q \in DOMAIN doc /\ q \in Seq(Elem)
               /\ q # <<>> => Front(q) \in DOMAIN new /\ Spared(Front(q), matches)
    BY <1>2, MarkedAbove
  <1> HIDE DEF new
  <1>3. <<>> \in DOMAIN new
    <2>1. <<>> \in DOMAIN doc /\ <<>> \in Seq(Elem)
      BY DEF IsTree, IsDocument
    <2>2. Spared(<<>>, matches)
      BY <2>1, SparedAt, ItemsAt
    <2> QED
      BY <1>1, <2>1, <2>2 DEF LeftOf
  <1>4. ASSUME NEW q \in DOMAIN new \ {<<>>}
        PROVE  /\ Front(q) \in DOMAIN new
               /\ new[Front(q)] = IF IsIndex(Last(q)) THEN ListNode ELSE MapNode
               /\ IsIndex(Last(q)) /\ Last(q)[2] # 0 =>
                     Append(Front(q), IndexElem(Last(q)[2] - 1)) \in DOMAIN new
    <2> DEFINE f == Front(q)
               p == Append(f, IndexElem(Last(q)[2] - 1))
    <2>1. /\ q \in DOMAIN doc /\ q \in Seq(Elem) /\ q # <<>>
          /\ f \in DOMAIN new /\ Spared(f, matches)
      BY <1>2
    <2>2. f \in DOMAIN doc /\ f \in Seq(Elem) /\ Last(q) \in Elem
      BY <1>2, <2>1, ChildOf
    <2>3. f \notin Items(matches)
      BY <2>2, <2>1, SparedAround, PrefixesInside DEF Items
    <2>4. new[f] = doc[f]
      BY <1>1, <2>1, <2>3 DEF LeftOf
    <2>5. doc[f] = IF IsIndex(Last(q)) THEN ListNode ELSE MapNode
      BY <2>1, Enclosing
    <2>6. ASSUME IsIndex(Last(q)), Last(q)[2] # 0 PROVE p \in DOMAIN new
      <3>1. p \in DOMAIN doc
        BY <2>1, <2>6 DEF IsTree, IsDocument
      <3>2. IndexElem(Last(q)[2] - 1) \in Elem
        BY <2>2, <2>6 DEF Elem, IndexElem, IsIndex
      <3>3. p \in Seq(Elem) /\ p # <<>> /\ Front(p) = f /\ Last(p) = IndexElem(Last(q)[2] - 1)
        BY <2>2, <3>2, Appended
      <3> HIDE DEF p, f
      <3>4. InList(p)
        BY <3>3 DEF InList, IndexElem, IsIndex
      <3>5. Spared(p, matches) \/ p \in Items(matches)
        BY <2>1, <3>3, <3>4, SparedAt, ItemsAt
      <3> QED
        BY <1>1, <3>1, <3>5 DEF LeftOf
    <2> QED
      BY <2>1, <2>4, <2>5, <2>6
  <1>5. new = [q \in DOMAIN new |-> new[q]] /\ DOMAIN new \subseteq Seq(Elem)
    BY <1>1, <1>2 DEF LeftOf
  <1>6. IsTree(new)
    BY <1>3, <1>4, <1>5 DEF IsTree, IsDocument
  <1> QED
    BY <1>6 DEF new

-----------------------------------------------------------------------------
(* What a path matches. *)

\* Of what is left, a segment selects what it selected before: marked items still
\* count, and nothing is below them.
LEMMA SelectMarked ==
    ASSUME NEW doc, IsTree(doc), NEW matches \in SUBSET DOMAIN doc,
           NEW new, new = Marked(doc, matches), NEW q \in DOMAIN new, NEW segment,
           segment.kind \in SegmentKinds
    PROVE  SelectFrom(new, q, segment) = SelectFrom(doc, q, segment) \cap DOMAIN new
  <1>1. LeftOf(new, doc, matches)
    BY MarkedAt
  <1>2. ASSUME NEW r \in DOMAIN new
        PROVE  /\ r \in DOMAIN doc /\ r \in Seq(Elem)
               /\ r # <<>> => Front(r) \in DOMAIN new /\ Spared(Front(r), matches)
    BY <1>2, MarkedAbove
  <1>3. q \in DOMAIN doc /\ q \in Seq(Elem)
    BY <1>2
  <1>4. CASE q \in Items(matches)
    <2>1. new[q] \notin Containers
      BY <1>1, <1>4, SkipAssumption DEF LeftOf
    <2>2. SelectFrom(new, q, segment) = {}
      BY <2>1, SelectCases
    <2>3. ASSUME NEW r \in SelectFrom(doc, q, segment) PROVE r \notin DOMAIN new
      <3>1. r # <<>> /\ Front(r) = q
        BY <1>3, SelectsChildren
      <3>2. q \in matches
        BY <1>4 DEF Items
      <3>3. ~Spared(q, matches)
        BY <1>3, <3>2, SparedAround, PrefixesInside
      <3> QED
        BY <1>2, <3>1, <3>3
    <2> QED
      BY <2>2, <2>3
  <1>5. CASE q \notin Items(matches)
    <2>1. new[q] = doc[q] /\ Spared(q, matches)
      BY <1>1, <1>5 DEF LeftOf
    <2>2. Children(new, q) = Children(doc, q) \cap DOMAIN new
      BY <1>2 DEF Children
    <2>3. \A n : FieldAt(new, q, n) = FieldAt(doc, q, n) \cap DOMAIN new
      BY <1>2 DEF FieldAt
    <2>4. ASSUME doc[q] = ListNode PROVE Children(new, q) = Children(doc, q)
      <3>1. ASSUME NEW r \in Children(doc, q) PROVE r \in DOMAIN new
        <4>1. r \in DOMAIN doc /\ r # <<>> /\ Front(r) = q
          BY <1>3, ChildrenAt
        <4>2. r \in Seq(Elem) /\ IsIndex(Last(r))
          BY <2>4, <4>1, Enclosing DEF ListNode, MapNode
        <4>3. InList(r)
          BY <4>1, <4>2 DEF InList
        <4>4. Spared(r, matches) \/ r \in Items(matches)
          BY <2>1, <4>1, <4>2, <4>3, SparedAt, ItemsAt
        <4> QED
          BY <1>1, <4>1, <4>4 DEF LeftOf
      <3> QED
        BY <2>2, <3>1
    <2>5. ASSUME doc[q] = ListNode, NEW i
          PROVE  ItemAt(new, q, i) = ItemAt(doc, q, i) \cap DOMAIN new
      BY <1>2, <2>4, <2>5 DEF ItemAt
    <2>6. doc[q] \notin Containers \/ doc[q] = MapNode \/ doc[q] = ListNode
      BY DEF Containers
    <2>7. CASE doc[q] \notin Containers
      BY <2>1, <2>7, SelectCases
    <2>8. CASE doc[q] \in Containers /\ segment.kind = "wildcard"
      BY <2>1, <2>2, <2>8, SelectCases
    <2>9. CASE doc[q] = MapNode /\ segment.kind \in {"name", "index"}
      BY <2>1, <2>3, <2>9, SelectCases
    <2>10. CASE doc[q] = ListNode /\ segment.kind \in {"name", "index"}
      BY <2>1, <2>5, <2>10, SelectCases
    <2> QED
      BY <2>6, <2>7, <2>8, <2>9, <2>10 DEF SegmentKinds
  <1> QED
    BY <1>4, <1>5

\* One more segment matches, of what is left, what it matched before.
LEMMA FollowedMarked ==
    ASSUME NEW doc, IsTree(doc), NEW matches \in SUBSET DOMAIN doc, <<>> \notin matches,
           NEW new, new = Marked(doc, matches),
           NEW current \in SUBSET DOMAIN doc, NEW segment, segment.kind \in SegmentKinds
    PROVE  Followed(new, current \cap DOMAIN new, segment)
              = Followed(doc, current, segment) \cap DOMAIN new
  <1> DEFINE left == current \cap DOMAIN new
  <1>1. IsTree(new)
    BY MarkedTree
  <1>2. ASSUME NEW r \in DOMAIN new
        PROVE  /\ r \in DOMAIN doc /\ r \in Seq(Elem)
               /\ \A p \in Seq(Elem) : IsPrefix(p, r) => p \in DOMAIN new
               /\ r # <<>> => Front(r) \in DOMAIN new
    BY <1>2, MarkedAbove
  <1>3. DOMAIN doc \subseteq Seq(Elem)
    BY DEF IsTree
  <1>4. ASSUME NEW r
        PROVE  r \in From(new, left, segment)
                 <=> r \in From(doc, current, segment) /\ r \in DOMAIN new
    <2>1. CASE segment.recursive = TRUE
      <3>1. r \in From(new, left, segment) <=> \E p \in left : r \in DOMAIN new /\ IsPrefix(p, r)
        BY <2>1 DEF From, Descendants
      <3>2. r \in From(doc, current, segment)
              <=> \E p \in current : r \in DOMAIN doc /\ IsPrefix(p, r)
        BY <2>1 DEF From, Descendants
      <3> QED
        BY <1>2, <1>3, <3>1, <3>2
    <2>2. CASE ~(segment.recursive = TRUE)
      BY <2>2 DEF From
    <2> QED
      BY <2>1, <2>2
  <1>5. ASSUME NEW r
        PROVE  r \in Followed(new, left, segment)
                  <=> r \in Followed(doc, current, segment) /\ r \in DOMAIN new
    <2>1. r \in Followed(new, left, segment)
             <=> \E q \in From(new, left, segment) : r \in SelectFrom(new, q, segment)
      BY <1>1, FollowedAt
    <2>2. r \in Followed(doc, current, segment)
             <=> \E q \in From(doc, current, segment) : r \in SelectFrom(doc, q, segment)
      BY FollowedAt
    <2>3. From(new, left, segment) \subseteq DOMAIN new
      BY <1>4
    <2>4. \A q \in DOMAIN new : r \in SelectFrom(new, q, segment)
                                   <=> r \in SelectFrom(doc, q, segment) /\ r \in DOMAIN new
      BY SelectMarked
    <2>5. ASSUME NEW q \in From(doc, current, segment), r \in SelectFrom(doc, q, segment),
                 r \in DOMAIN new
          PROVE  q \in DOMAIN new
      <3>1. q \in DOMAIN doc
        BY FollowedAt
      <3>2. r # <<>> /\ Front(r) = q
        BY <2>5, <3>1, SelectsChildren
      <3> QED
        BY <1>2, <2>5, <3>2
    <2> QED
      BY <1>4, <2>1, <2>2, <2>3, <2>4, <2>5
  <1> QED
    BY <1>5

\* A path matches, of what other paths have left, what it matched before.
LEMMA FindMarked ==
    ASSUME NEW doc, IsTree(doc), NEW matches \in SUBSET DOMAIN doc, <<>> \notin matches,
           NEW segments, Len(segments) \in Nat,
           \A i \in 1..Len(segments) : segments[i].kind \in SegmentKinds
    PROVE  Find(Marked(doc, matches), segments)
              = Find(doc, segments) \cap DOMAIN Marked(doc, matches)
  <1> DEFINE new == Marked(doc, matches)
             n == Len(segments)
  <1>1. IsTree(new)
    BY MarkedTree
  <1>2. PICK before : Matched(before, doc, segments) /\ Find(doc, segments) = before[n]
    BY FindAt
  <1>3. PICK after : Matched(after, new, segments) /\ Find(new, segments) = after[n]
    <2> HIDE DEF new
    <2> QED
      BY <1>1, FindAt
  <1>4. ASSUME NEW current \in SUBSET DOMAIN doc, NEW i \in 1..n
        PROVE  Followed(new, current \cap DOMAIN new, segments[i])
                  = Followed(doc, current, segments[i]) \cap DOMAIN new
    BY FollowedMarked
  <1> HIDE DEF new
  <1> DEFINE S == {j \in 0..n : after[j] = before[j] \cap DOMAIN new}
  <1>5. 0 \in S
    <2>1. after[0] = {<<>>} /\ before[0] = {<<>>} /\ 0 \in 0..n
      BY <1>2, <1>3 DEF Matched
    <2>2. <<>> \in DOMAIN new
      BY <1>1 DEF IsTree, IsDocument
    <2> QED
      BY <2>1, <2>2
  <1>6. ASSUME NEW j \in 0..n-1, j \in S PROVE j + 1 \in S
    <2>1. j + 1 \in 1..n /\ (j + 1) - 1 = j /\ j + 1 \in 0..n /\ j \in 0..n
      OBVIOUS
    <2>2. /\ before[j + 1] = Followed(doc, before[j], segments[j + 1])
          /\ before[j] \in SUBSET DOMAIN doc
      BY <1>2, <2>1 DEF Matched
    <2>3. after[j + 1] = Followed(new, after[j], segments[j + 1])
      BY <1>3, <2>1 DEF Matched
    <2>4. after[j] = before[j] \cap DOMAIN new
      BY <1>6
    <2> QED
      BY <1>4, <2>1, <2>2, <2>3, <2>4
  <1>7. 0..n \subseteq S
    <2> HIDE DEF S
    <2> QED
      BY <1>5, <1>6, UpTo
  <1>8. after[n] = before[n] \cap DOMAIN new
    BY <1>7
  <1> QED
    BY <1>2, <1>3, <1>8 DEF new

-----------------------------------------------------------------------------
(* The end of the removal. *)

\* List items that hold the text of the placeholder.
Looks(doc) == {q \in DOMAIN doc : InList(q) /\ doc[q] = Placeholder}

\* Removing the marked items comes to removing, at once, all that was matched.
LEMMA RemovedTogether ==
    ASSUME NEW doc, IsTree(doc), NEW matches \in SUBSET DOMAIN doc, <<>> \notin matches
    PROVE  RemovePlaceholders(Marked(doc, matches)) = Without(doc, matches \cup Looks(doc))
  <1> DEFINE D == Marked(doc, matches)
             G == Looks(D)
             U == matches \cup Looks(doc)
  <1>1. LeftOf(D, doc, matches) /\ IsTree(D)
    BY MarkedAt, MarkedTree
  <1>2. RemovePlaceholders(D) = Without(D, G)
    BY DEF RemovePlaceholders, Looks
  <1>3. ASSUME NEW r \in DOMAIN D
        PROVE  r \in DOMAIN doc /\ r \in Seq(Elem)
    BY <1>3, MarkedAbove
  <1> HIDE DEF D
  <1>4. ASSUME NEW r
        PROVE  r \in G <=> \/ r \in Items(matches)
                           \/ r \in Looks(doc) /\ Spared(r, matches)
    <2>1. r \in Items(matches) => InList(r) /\ r \in DOMAIN D /\ D[r] = Placeholder
      BY <1>1 DEF LeftOf, Items
    <2>2. r \notin Items(matches) =>
             /\ r \in DOMAIN D <=> r \in DOMAIN doc /\ Spared(r, matches)
             /\ r \in DOMAIN D => D[r] = doc[r]
      BY <1>1 DEF LeftOf
    <2> QED
      BY <2>1, <2>2 DEF Looks
  <1> HIDE DEF G, U
  <1>5. G \subseteq U
    BY <1>4 DEF U, Items
  <1>6. ASSUME NEW p \in Seq(Elem), Spared(p, matches), NEW j \in Nat
        PROVE  Append(p, IndexElem(j)) \in G <=> Append(p, IndexElem(j)) \in U
    <2> DEFINE r == Append(p, IndexElem(j))
    <2>1. IndexElem(j) \in Elem /\ IsIndex(IndexElem(j))
      BY DEF IndexElem, IsIndex, Elem
    <2>2. r \in Seq(Elem) /\ r # <<>> /\ Front(r) = p /\ Last(r) = IndexElem(j)
      BY <2>1, Appended
    <2> HIDE DEF r
    <2>3. InList(r)
      BY <2>1, <2>2 DEF InList
    <2>4. r \in matches => r \in Items(matches)
      BY <1>6, <2>2, <2>3, SparedAt, ItemsAt
    <2>5. r \notin matches => Spared(r, matches)
      BY <1>6, <2>2, SparedAt, ItemsAt
    <2>6. r \in G <=> r \in U
      BY <1>4, <1>5, <2>4, <2>5 DEF U
    <2> QED
      BY <2>6 DEF r
  <1>7. ASSUME NEW q
        PROVE  q \in Remaining(D, G) <=> q \in Remaining(doc, U)
    <2>1. ASSUME q \in Remaining(doc, U) PROVE q \in Remaining(D, G)
      <3>1. q \in DOMAIN doc /\ Spared(q, U)
        BY <2>1 DEF Remaining
      <3>2. Spared(q, matches) /\ Spared(q, G)
        BY <1>5, <3>1 DEF Spared, U
      <3> QED
        BY <1>1, <3>1, <3>2 DEF LeftOf, Remaining
    <2>2. ASSUME q \in Remaining(D, G) PROVE q \in Remaining(doc, U)
      <3>1. q \in DOMAIN D /\ Spared(q, G) /\ q \in DOMAIN doc /\ q \in Seq(Elem)
        BY <1>3, <2>2 DEF Remaining
      <3>2. q \notin G
        BY <3>1, SparedAround, PrefixesInside
      <3>3. Spared(q, matches)
        BY <1>1, <1>4, <3>1, <3>2 DEF LeftOf
      <3>4. ASSUME NEW n \in 0..Len(q) PROVE SubSeq(q, 1, n) \notin U
        <4> DEFINE p == SubSeq(q, 1, n)
        <4>1. p \in Seq(Elem) /\ Len(p) \in 0..Len(q) /\ p = SubSeq(q, 1, Len(p))
          BY <3>1, FirstOf
        <4> HIDE DEF p
        <4>2. IsPrefix(p, q)
          BY <3>1, <4>1, PrefixIsFirst
        <4>3. p \notin G /\ p \notin matches /\ Spared(p, matches)
          BY <3>1, <3>3, <4>1, <4>2, SparedAround
        <4>4. p \notin U
          BY <1>4, <4>3 DEF U
        <4> QED
          BY <4>4 DEF p
      <3> QED
        BY <3>1, <3>4 DEF Remaining, Spared
    <2> QED
      BY <2>1, <2>2
  <1>8. Remaining(D, G) = Remaining(doc, U)
    BY <1>7
  <1>9. ASSUME NEW q \in Remaining(D, G)
        PROVE  D[q] = doc[q] /\ Moved(q, G) = Moved(q, U)
    <2>1. q \in DOMAIN D /\ q \in DOMAIN doc /\ q \in Seq(Elem) /\ Spared(q, U)
      BY <1>3, <1>8 DEF Remaining
    <2>2. Spared(q, matches)
      BY <2>1 DEF Spared, U
    <2>3. q \notin Items(matches)
      BY <2>1, <2>2, SparedAround, PrefixesInside DEF Items
    <2>4. D[q] = doc[q]
      BY <1>1, <2>1, <2>3 DEF LeftOf
    <2>5. ASSUME NEW p \in Seq(Elem), NEW j \in Nat, IsPrefix(p, q)
          PROVE  Append(p, IndexElem(j)) \in G <=> Append(p, IndexElem(j)) \in U
      BY <1>6, <2>1, <2>2, <2>5, SparedAround
    <2>6. Moved(q, G) = Moved(q, U)
      BY <2>1, <2>5, SameIndices
    <2> QED
      BY <2>4, <2>6
  <1>10. Without(D, G) = Without(doc, U)
    BY <1>1, <1>8, <1>9, WithoutSame
  <1> QED
    BY <1>2, <1>10 DEF D, U

\* Without a marked item, nothing has to be closed up.
LEMMA NothingMarked ==
    ASSUME NEW doc, IsTree(doc), NEW matches \in SUBSET DOMAIN doc, <<>> \notin matches,
           Items(matches) = {}
    PROVE  Marked(doc, matches) = Without(doc, matches)
  <1> DEFINE D == Marked(doc, matches)
             W == Without(doc, matches)
             kept == Remaining(doc, matches)
  <1>1. LeftOf(D, doc, matches) /\ ClosedUp(W, doc, matches)
    BY MarkedAt, WithoutAt
  <1> HIDE DEF D, W
  <1>2. ASSUME NEW q \in kept PROVE Moved(q, matches) = q
    <2>1. q \in Seq(Elem) /\ Spared(q, matches)
      BY RemainingAt
    <2>2. ASSUME NEW n \in 1..Len(q) PROVE NewElem(SubSeq(q, 1, n-1), q[n], matches) = q[n]
      <3> DEFINE p == SubSeq(q, 1, n-1)
      <3>1. n - 1 \in 0..Len(q) /\ q[n] \in Elem
        BY <2>1
      <3>2. p \in Seq(Elem) /\ Len(p) = n - 1
        BY <2>1, <3>1, FirstOf
      <3>3. IsPrefix(p, q)
        BY <2>1, <3>1, <3>2, PrefixIsFirst
      <3> HIDE DEF p
      <3>4. Spared(p, matches)
        BY <2>1, <3>2, <3>3, SparedAround
      <3>5. ASSUME NEW j \in Nat PROVE Append(p, IndexElem(j)) \notin matches
        <4> DEFINE r == Append(p, IndexElem(j))
        <4>1. IndexElem(j) \in Elem /\ IsIndex(IndexElem(j))
          BY DEF IndexElem, IsIndex, Elem
        <4>2. r \in Seq(Elem) /\ r # <<>> /\ Front(r) = p /\ Last(r) = IndexElem(j)
          BY <3>2, <4>1, Appended
        <4> HIDE DEF r
        <4>3. InList(r)
          BY <4>1, <4>2 DEF InList
        <4>4. r \notin matches
          BY <3>4, <4>2, <4>3, SparedAt, ItemsAt
        <4> QED
          BY <4>4 DEF r
      <3>6. \A i \in Nat : GoneBefore(p, i, matches) = 0
        <4>1. ASSUME NEW i \in Nat
              PROVE  {j \in 0..i-1 : Append(p, IndexElem(j)) \in matches} = {}
          BY <3>5
        <4> QED
          BY <4>1, FS_EmptySet DEF GoneBefore
      <3>7. IsIndex(q[n]) => q[n][2] \in Nat /\ q[n] = IndexElem(q[n][2])
        BY <3>1, NewElements
      <3>8. NewElem(p, q[n], matches) = q[n]
        BY <3>6, <3>7 DEF NewElem, NewIndex
      <3> QED
        BY <3>8 DEF p
    <2> DEFINE m == Moved(q, matches)
    <2>3. /\ m \in Seq(Elem) /\ Len(m) = Len(q)
          /\ \A n \in 1..Len(q) : m[n] = NewElem(SubSeq(q, 1, n-1), q[n], matches)
      BY <2>1, MovedAt
    <2> HIDE DEF m
    <2>4. m = q
      BY <2>1, <2>2, <2>3, SeqEqual
    <2> QED
      BY <2>4 DEF m
  <1>3. D = [q \in DOMAIN D |-> D[q]] /\ W = [q \in DOMAIN W |-> W[q]]
    BY <1>1 DEF LeftOf, ClosedUp
  <1>4. \A q : q \in DOMAIN D <=> q \in kept
    BY <1>1 DEF LeftOf, Remaining
  <1>5. \A q : q \in DOMAIN W <=> q \in kept
    BY <1>1, <1>2 DEF ClosedUp
  <1>6. ASSUME NEW q \in kept PROVE D[q] = doc[q] /\ W[q] = doc[q]
    <2>1. D[q] = doc[q]
      BY <1>1, <1>4 DEF LeftOf
    <2>2. W[Moved(q, matches)] = doc[q]
      BY <1>1 DEF ClosedUp
    <2> QED
      BY <1>2, <2>1, <2>2
  <1>7. D = W
    BY <1>3, <1>4, <1>5, <1>6
  <1> QED
    BY <1>7 DEF D, W

-----------------------------------------------------------------------------
(* The loop over the paths. *)

\* What the paths so far select in the state as it was.
Handled ==
    UNION {Find(original, Parsed(Rooted(paths[i]))) :
             i \in {j \in 1..next-1 : ~Malformed(Rooted(paths[j]))}}

\* However often the state has been edited, it is the original with all of that marked.
SkipInv ==
    /\ IsTree(original)
    /\ paths \in Seq(Expressions)
    /\ next \in 1..Len(paths)+1
    /\ returned \in BOOLEAN /\ hasPlaceholder \in BOOLEAN
    /\ errs = {paths[i] : i \in {j \in 1..next-1 : Malformed(Rooted(paths[j]))}}
    /\ Items(Handled) # {} => hasPlaceholder
    /\ state = IF returned /\ hasPlaceholder
               THEN RemovePlaceholders(Marked(original, Handled))
               ELSE Marked(original, Handled)
    /\ returned => next > Len(paths)

\* What one path selects.
LEMMA PathFacts ==
    ASSUME NEW e \in Expressions, ~Malformed(Rooted(e)), NEW doc, IsTree(doc)
    PROVE  /\ Len(Parsed(Rooted(e))) \in Nat \ {0}
           /\ \A i \in 1..Len(Parsed(Rooted(e))) : Parsed(Rooted(e))[i].kind \in SegmentKinds
           /\ Find(doc, Parsed(Rooted(e))) \in SUBSET DOMAIN doc
           /\ <<>> \notin Find(doc, Parsed(Rooted(e)))
  <1> DEFINE segments == Parsed(Rooted(e))
  <1>1. Rooted(e) \in Seq(PathToken)
    BY SkipAssumption, RootedTokens
  <1>2. /\ Len(segments) \in Nat \ {0}
        /\ \A i \in 1..Len(segments) : segments[i].kind \in SegmentKinds
    BY <1>1, ParsedSegments
  <1> HIDE DEF segments
  <1>3. Find(doc, segments) \subseteq DOMAIN doc /\ <<>> \notin Find(doc, segments)
    BY <1>2, FindInside
  <1> QED
    BY <1>2, <1>3 DEF segments

\* What the handled paths select is in the document, and never its root.
LEMMA HandledInside ==
    ASSUME SkipInv
    PROVE  IsTree(original) /\ Handled \in SUBSET DOMAIN original /\ <<>> \notin Handled
  <1>1. IsTree(original)
    BY DEF SkipInv
  <1>2. ASSUME NEW i \in 1..next-1, ~Malformed(Rooted(paths[i]))
        PROVE  LET found == Find(original, Parsed(Rooted(paths[i])))
               IN  found \in SUBSET DOMAIN original /\ <<>> \notin found
    <2>1. i \in 1..Len(paths)
      BY DEF SkipInv
    <2>2. paths[i] \in Expressions
      BY <2>1 DEF SkipInv
    <2> QED
      BY <1>1, <1>2, <2>2, PathFacts
  <1> QED
    BY <1>1, <1>2 DEF Handled

\* Nothing is marked if nothing matches.
LEMMA NothingGone ==
    ASSUME NEW doc, IsTree(doc)
    PROVE  Marked(doc, {}) = doc
  <1>1. \A q : Spared(q, {})
    BY DEF Spared
  <1>2. Remaining(doc, {}) = DOMAIN doc /\ Items({}) = {}
    BY <1>1 DEF Remaining, Items
  <1>3. Marked(doc, {}) = [q \in DOMAIN doc |-> doc[q]]
    BY <1>2 DEF Marked
  <1> QED
    BY <1>3 DEF IsTree

\* The invariant holds at first: no path is handled.
LEMMA InitSkip == RemovalInit => SkipInv
  <1> SUFFICES ASSUME RemovalInit PROVE SkipInv
    OBVIOUS
  <1>1. IsTree(original)
    BY LeafTree DEF RemovalInit
  <1>2. 1..next-1 = {} /\ paths \in Seq(Expressions) /\ Len(paths) = 0
    BY DEF RemovalInit
  <1>3. Handled = {}
    BY <1>2 DEF Handled
  <1>4. Items(Handled) = {}
    BY <1>3 DEF Items
  <1>5. Marked(original, Handled) = original
    BY <1>1, <1>3, NothingGone
  <1>6. errs = {paths[i] : i \in {j \in 1..next-1 : Malformed(Rooted(paths[j]))}}
    BY <1>2 DEF RemovalInit
  <1>7. next \in 1..Len(paths)+1 /\ next > Len(paths)
    BY <1>2 DEF RemovalInit
  <1> QED
    BY <1>1, <1>2, <1>4, <1>5, <1>6, <1>7 DEF RemovalInit, SkipInv

\* A new call begins with a new state.
LEMMA CallKeeps ==
    ASSUME NEW doc \in States, NEW list \in Lists, Call(doc, list)
    PROVE  SkipInv'
  <1>1. IsTree(original')
    BY SkipAssumption DEF Call
  <1>2. paths' \in Seq(Expressions)
    <2>1. PICK n \in 0..MaxPaths : list \in [1..n -> Expressions]
      BY DEF Lists
    <2>2. n \in Nat
      BY SkipAssumption
    <2>3. list \in Seq(Expressions) /\ <<>> \in Seq(Expressions)
      BY <2>1, <2>2
    <2> QED
      BY <2>3 DEF Call
  <1>3. 1..next'-1 = {}
    BY DEF Call
  <1>4. Handled' = {}
    BY <1>3 DEF Handled
  <1>5. Items(Handled') = {}
    BY <1>4 DEF Items
  <1>6. Marked(original', Handled') = original'
    BY <1>1, <1>4, NothingGone
  <1>7. next' \in 1..Len(paths')+1
    BY <1>2 DEF Call
  <1>8. errs' = {paths'[i] : i \in {j \in 1..next'-1 : Malformed(Rooted(paths'[j]))}}
    BY <1>3 DEF Call
  <1> QED
    BY <1>1, <1>2, <1>5, <1>6, <1>7, <1>8 DEF Call, SkipInv

\* One more path.
LEMMA ApplyKeeps ==
    ASSUME SkipInv, ApplyNext
    PROVE  SkipInv'
  <1> DEFINE tokens == Rooted(paths[next])
             found == Find(original, Parsed(tokens))
  <1>1. /\ ~returned /\ ~returned' /\ original' = original /\ paths' = paths
        /\ next \in 1..Len(paths) /\ next' = next + 1 /\ Len(paths) \in Nat
        /\ paths[next] \in Expressions
    <2>1. Len(paths) \in Nat /\ next \in 1..Len(paths)
      BY DEF ApplyNext, SkipInv
    <2> QED
      BY <2>1 DEF ApplyNext, SkipInv
  <1>2. 1..next'-1 = (1..next-1) \cup {next}
    BY <1>1
  <1>3. next' \in 1..Len(paths)+1
    BY <1>1
  <1>4. IsTree(original) /\ Handled \in SUBSET DOMAIN original /\ <<>> \notin Handled
    BY HandledInside
  <1>5. state = Marked(original, Handled)
    BY <1>1 DEF SkipInv
  <1>6. ASSUME errs' = {paths[i] : i \in {j \in 1..next'-1 : Malformed(Rooted(paths[j]))}},
               Items(Handled') # {} => hasPlaceholder',
               state' = Marked(original, Handled'),
               hasPlaceholder' \in BOOLEAN
        PROVE  SkipInv'
    <2>1. IsTree(original') /\ paths' \in Seq(Expressions)
      BY <1>1 DEF SkipInv
    <2>2. errs' = {paths'[i] : i \in {j \in 1..next'-1 : Malformed(Rooted(paths'[j]))}}
      BY <1>1, <1>6
    <2>3. state' = IF returned' /\ hasPlaceholder'
                   THEN RemovePlaceholders(Marked(original', Handled'))
                   ELSE Marked(original', Handled')
      BY <1>1, <1>6
    <2>4. returned' = FALSE
      BY <1>1 DEF ApplyNext, SkipInv
    <2>5. next' \in 1..Len(paths')+1
      BY <1>1, <1>3
    <2> QED
      BY <1>6, <2>1, <2>2, <2>3, <2>4, <2>5 DEF SkipInv
  <1>7. CASE Malformed(tokens)
    <2>1. /\ errs' = errs \cup {paths[next]} /\ state' = state
          /\ hasPlaceholder' = hasPlaceholder
      BY <1>7 DEF ApplyNext
    <2>2. Handled' = Handled
      BY <1>1, <1>2, <1>7 DEF Handled
    <2>3. errs' = {paths[i] : i \in {j \in 1..next'-1 : Malformed(Rooted(paths[j]))}}
      BY <1>2, <1>7, <2>1 DEF SkipInv
    <2>4. Items(Handled') # {} => hasPlaceholder'
      BY <2>1, <2>2 DEF SkipInv
    <2>5. state' = Marked(original, Handled')
      BY <1>5, <2>1, <2>2
    <2>6. hasPlaceholder' \in BOOLEAN
      BY <2>1 DEF SkipInv
    <2> QED
      BY <1>6, <2>3, <2>4, <2>5, <2>6
  <1>8. CASE ~Malformed(tokens)
    <2> DEFINE left == Find(state, Parsed(tokens))
    <2>1. /\ errs' = errs /\ state' = Apply(state, Parsed(tokens))
          /\ hasPlaceholder' = (hasPlaceholder \/ \E q \in left : InList(q))
      BY <1>8 DEF ApplyNext
    <2>2. Handled' = Handled \cup found
      BY <1>1, <1>2, <1>8 DEF Handled
    <2>3. /\ found \in SUBSET DOMAIN original
          /\ Len(Parsed(tokens)) \in Nat
          /\ \A i \in 1..Len(Parsed(tokens)) : Parsed(tokens)[i].kind \in SegmentKinds
      BY <1>1, <1>4, <1>8, PathFacts
    <2>4. left = found \cap DOMAIN state
      BY <1>4, <1>5, <2>3, FindMarked
    <2> HIDE DEF left, found, tokens
    <2>5. /\ Marked(state, left) = Marked(original, Handled \cup found)
          /\ Items(Handled \cup found) \subseteq Items(Handled) \cup left
      <3>1. left = found \cap DOMAIN Marked(original, Handled)
        BY <1>5, <2>4
      <3> DEFINE h == Handled
      <3>2. /\ IsTree(original) /\ h \in SUBSET DOMAIN original
            /\ found \in SUBSET DOMAIN original
            /\ left = found \cap DOMAIN Marked(original, h)
        BY <1>4, <2>3, <3>1
      <3> HIDE DEF h
      <3>3. MarkedTogether(original, h, found, left)
        BY <3>2, MarkedAgain, Zenon
      <3> QED
        BY <1>5, <3>3 DEF h, MarkedTogether
    <2>6. state' = Marked(original, Handled')
      BY <2>1, <2>2, <2>5 DEF Apply, left
    <2>7. Items(Handled') # {} => hasPlaceholder'
      <3>1. ASSUME NEW q \in Items(Handled'), ~hasPlaceholder
            PROVE  q \in left /\ InList(q)
        <4>1. Items(Handled) = {}
          BY <3>1 DEF SkipInv
        <4>2. q \in left
          BY <2>2, <2>5, <4>1
        <4>3. InList(q)
          BY DEF Items
        <4> QED
          BY <4>2, <4>3
      <3> QED
        BY <2>1, <3>1
    <2>8. errs' = {paths[i] : i \in {j \in 1..next'-1 : Malformed(Rooted(paths[j]))}}
      BY <1>2, <1>8, <2>1 DEF SkipInv, tokens
    <2>9. hasPlaceholder' \in BOOLEAN
      BY <2>1
    <2> QED
      BY <1>6, <2>6, <2>7, <2>8, <2>9
  <1> QED
    BY <1>7, <1>8

\* The return of removeSkipVerificationPaths, with the removal of the placeholders.
LEMMA ReturnKeeps ==
    ASSUME SkipInv, Return
    PROVE  SkipInv'
  <1>1. Handled' = Handled
    BY DEF Return, Handled
  <1>2. state = Marked(original, Handled)
    BY DEF Return, SkipInv
  <1>3. state' = IF returned' /\ hasPlaceholder'
                 THEN RemovePlaceholders(Marked(original', Handled'))
                 ELSE Marked(original', Handled')
    BY <1>1, <1>2 DEF Return
  <1> QED
    BY <1>1, <1>3 DEF Return, SkipInv

\* Every step keeps the invariant.
LEMMA StepSkip == SkipInv /\ [RemovalNext]_removalVars => SkipInv'
  <1> SUFFICES ASSUME SkipInv, [RemovalNext]_removalVars PROVE SkipInv'
    OBVIOUS
  <1>1. CASE ApplyNext
    BY <1>1, ApplyKeeps
  <1>2. CASE Return
    BY <1>2, ReturnKeeps
  <1>3. ASSUME NEW doc \in States, NEW list \in Lists, Call(doc, list) PROVE SkipInv'
    BY <1>3, CallKeeps
  <1>4. CASE UNCHANGED removalVars
    BY <1>4 DEF removalVars, SkipInv, Handled
  <1> QED
    BY <1>1, <1>2, <1>3, <1>4 DEF RemovalNext

\* The invariant holds all the time.
LEMMA AlwaysSkip == RemovalSpec => []SkipInv
  <1> QED
    BY InitSkip, StepSkip, PTL DEF RemovalSpec

\* The state is a document all the time (session.go:500-538): the items that wait for
\* their removal keep the indices of the others in place, and at the end every list is
\* closed up.
THEOREM AlwaysClosed == RemovalSpec => []StateIsDocument
  <1>1. SkipInv => StateIsDocument
    <2> SUFFICES ASSUME SkipInv PROVE IsDocument(state)
      BY DEF StateIsDocument
    <2>1. IsTree(original) /\ Handled \in SUBSET DOMAIN original /\ <<>> \notin Handled
      BY HandledInside
    <2>2. CASE returned /\ hasPlaceholder
      <3>1. state = Without(original, Handled \cup Looks(original))
        BY <2>1, <2>2, RemovedTogether DEF SkipInv
      <3>2. <<>> \notin Handled \cup Looks(original)
        BY <2>1 DEF Looks, InList
      <3>3. IsTree(state)
        BY <2>1, <3>1, <3>2, WithoutTree
      <3> QED
        BY <3>3 DEF IsTree
    <2>3. CASE ~(returned /\ hasPlaceholder)
      <3>1. state = Marked(original, Handled)
        BY <2>3 DEF SkipInv
      <3>2. IsTree(state)
        BY <2>1, <3>1, MarkedTree
      <3> QED
        BY <3>2 DEF IsTree
    <2> QED
      BY <2>2, <2>3
  <1> QED
    BY <1>1, AlwaysSkip, PTL

\* The skip paths are independent of one another (session.go:486-517): in whatever order
\* they come, and however they overlap, what is gone at the end is what each of them
\* selects in the state as it was; and the paths that do not parse are all reported.
THEOREM PathsIndependent == RemovalSpec => []RemovesSelected
  <1>1. SkipInv => RemovesSelected
    <2> SUFFICES ASSUME SkipInv, returned
                 PROVE  /\ state = Without(original,
                                     Selected \cup IF hasPlaceholder THEN LooksRemoved ELSE {})
                        /\ errs = Range(paths) \ WellFormed
      BY DEF RemovesSelected
    <2>1. IsTree(original) /\ Handled \in SUBSET DOMAIN original /\ <<>> \notin Handled
      BY HandledInside
    <2>2. 1..next-1 = 1..Len(paths) /\ DOMAIN paths = 1..Len(paths)
      BY DEF SkipInv
    <2>3. Range(paths) = {paths[i] : i \in 1..Len(paths)}
      BY <2>2 DEF Range
    <2>4. Handled = Selected
      BY <2>2, <2>3 DEF Handled, Selected, WellFormed
    <2>5. errs = Range(paths) \ WellFormed
      BY <2>2, <2>3 DEF SkipInv, WellFormed
    <2>6. LooksRemoved = Looks(original)
      BY DEF LooksRemoved, Looks
    <2>7. CASE hasPlaceholder = TRUE
      <3>1. RemovePlaceholders(Marked(original, Handled))
              = Without(original, Handled \cup Looks(original))
        BY <2>1, RemovedTogether
      <3>2. state = RemovePlaceholders(Marked(original, Handled))
        BY <2>7 DEF SkipInv
      <3> QED
        BY <2>4, <2>5, <2>6, <2>7, <3>1, <3>2
    <2>8. CASE ~(hasPlaceholder = TRUE)
      <3>1. Items(Handled) = {}
        BY <2>8 DEF SkipInv
      <3>2. state = Marked(original, Handled)
        BY <2>8 DEF SkipInv
      <3>3. Selected \cup {} = Selected
        OBVIOUS
      <3>4. Marked(original, Handled) = Without(original, Handled)
        BY <2>1, <3>1, NothingMarked
      <3> QED
        BY <2>4, <2>5, <2>8, <3>2, <3>3, <3>4
    <2> QED
      BY <2>5, <2>7, <2>8
  <1> QED
    BY <1>1, AlwaysSkip, PTL
=============================================================================

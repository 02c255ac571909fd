---------------------------- MODULE JsonPath_proofs ----------------------------
(***************************************************************************)
(* Facts about JsonPath that the proofs share: induction over the numbers, *)
(* positions (sequences over a set S, and their beginnings), documents     *)
(* with parts replaced or removed, and what paths match in them.           *)
(***************************************************************************)
EXTENDS JsonPath, FiniteSetTheorems, SequenceTheorems, WellFoundedInduction, TLAPS

-----------------------------------------------------------------------------
(* Induction over the numbers, in a form that quantifies over sets only: a   *)
(* property P of n is proved by showing of {n \in Nat : P(n)} that it has 0  *)
(* and the successors of its elements.                                       *)

\* A set of numbers that is not empty has a least element.
LEMMA LeastNumber ==
    ASSUME NEW T \in SUBSET Nat, T # {}
    PROVE  \E x \in T : \A y \in T : x <= y
  <1> DEFINE R == OpToRel(<, Nat)
  <1>1. IsWellFoundedOn(R, Nat)
    BY NatLessThanWellFounded
  <1>2. \A x, y \in Nat : <<y, x>> \in R <=> y < x
    BY DEF OpToRel
  <1> HIDE DEF R
  <1>3. PICK x \in T : \A y \in T : ~ (<<y, x>> \in R)
    BY <1>1, WFMin
  <1>4. ASSUME NEW y \in T PROVE x <= y
    <2>1. x \in Nat /\ y \in Nat
      OBVIOUS
    <2>2. ~ (y < x)
      BY <1>2, <1>3, <2>1, Zenon
    <2> QED
      BY <2>1, <2>2
  <1> QED
    BY <1>4

\* Induction over the numbers, for a set: no operator is a parameter.
LEMMA SetInduction ==
    ASSUME NEW S, 0 \in S, \A n \in Nat : n \in S => n + 1 \in S
    PROVE  Nat \subseteq S
  <1> DEFINE T == Nat \ S
  <1>1. ASSUME T # {} PROVE FALSE
    <2>1. PICK x \in T : \A y \in T : x <= y
      BY <1>1, LeastNumber
    <2>2. x # 0 /\ x - 1 \in Nat /\ x - 1 \in S
      BY <2>1
    <2> QED
      BY <2>1, <2>2
  <1> QED
    BY <1>1

\* ... and up to a bound.
LEMMA UpTo ==
    ASSUME NEW n \in Nat, NEW S, 0 \in S, \A i \in 0..n-1 : i \in S => i + 1 \in S
    PROVE  0..n \subseteq S
  <1> DEFINE T == {i \in Nat : i \in 0..n => i \in S}
  <1>1. 0 \in T
    OBVIOUS
  <1>2. \A i \in Nat : i \in T => i + 1 \in T
    OBVIOUS
  <1>3. Nat \subseteq T
    <2> HIDE DEF T
    <2> QED
      BY <1>1, <1>2, SetInduction
  <1> QED
    BY <1>3

\* A recursive definition whose step has the values of a function is that of one.
HasFunction(n, V, base, step) ==
    \E g \in [0..n -> V] : g[0] = base /\ \A i \in 1..n : g[i] = step[<<i, g[i-1]>>]

\* A loop over 1..n whose step stays in V has a function of its values.
LEMMA LoopFunction ==
    ASSUME NEW n \in Nat, NEW V, NEW base \in V, NEW step \in [(1..n) \X V -> V]
    PROVE  HasFunction(n, V, base, step)
  <1> DEFINE Good(m, g) == g[0] = base /\ \A i \in 1..m : g[i] = step[<<i, g[i-1]>>]
             S == {m \in 0..n : \E g \in [0..m -> V] : Good(m, g)}
  <1>1. 0 \in S
    <2> DEFINE g == [i \in 0..0 |-> base]
    <2>1. g \in [0..0 -> V] /\ Good(0, g)
      OBVIOUS
    <2> HIDE DEF g, Good
    <2> QED
      BY <2>1
  <1>2. ASSUME NEW m \in 0..n-1, m \in S PROVE m + 1 \in S
    <2>1. PICK g \in [0..m -> V] : Good(m, g)
      BY <1>2
    <2> DEFINE h == [i \in 0..m+1 |-> IF i \in 0..m THEN g[i] ELSE step[<<m+1, g[m]>>]]
    <2>2. <<m+1, g[m]>> \in (1..n) \X V
      OBVIOUS
    <2>3. h \in [0..m+1 -> V]
      BY <2>2
    <2>4. Good(m+1, h)
      <3>1. h[0] = base
        BY <2>1
      <3>2. ASSUME NEW i \in 1..m+1 PROVE h[i] = step[<<i, h[i-1]>>]
        <4>1. CASE i \in 1..m
          <5>1. h[i] = g[i] /\ h[i-1] = g[i-1]
            BY <4>1
          <5> QED
            BY <2>1, <4>1, <5>1
        <4>2. CASE i = m + 1
          <5>1. h[i] = step[<<m+1, g[m]>>] /\ i - 1 = m /\ h[m] = g[m]
            BY <4>2
          <5> QED
            BY <4>2, <5>1
        <4> QED
          BY <4>1, <4>2
      <3> QED
        BY <3>1, <3>2
    <2> HIDE DEF h, Good
    <2>5. m + 1 \in 0..n
      OBVIOUS
    <2> QED
      BY <2>3, <2>4, <2>5
  <1>3. n \in S
    <2> HIDE DEF S
    <2> QED
      BY <1>1, <1>2, UpTo
  <1> QED
    BY <1>3 DEF HasFunction

-----------------------------------------------------------------------------
(* Positions. *)

\* All the elements of a sequence.
LEMMA AllOf == ASSUME NEW S, NEW q \in Seq(S) PROVE SubSeq(q, 1, Len(q)) = q
  OBVIOUS

\* What it means to be a prefix.
LEMMA PrefixAt ==
    ASSUME NEW S, NEW p \in Seq(S), NEW q \in Seq(S)
    PROVE  IsPrefix(p, q) <=> Len(p) <= Len(q) /\ \A i \in 1..Len(p) : p[i] = q[i]
  <1>1. Len(p) \in Nat /\ Len(q) \in Nat
    OBVIOUS
  <1>2. CASE Len(p) <= Len(q)
    <2>1. /\ SubSeq(q, 1, Len(p)) \in Seq(S) /\ Len(SubSeq(q, 1, Len(p))) = Len(p)
          /\ \A i \in 1..Len(p) : SubSeq(q, 1, Len(p))[i] = q[i]
      BY <1>1, <1>2
    <2>2. p = SubSeq(q, 1, Len(p)) <=> \A i \in 1..Len(p) : p[i] = q[i]
      BY <2>1, SeqEqual
    <2> QED
      BY <1>2, <2>2, AllOf DEF IsPrefix
  <1>3. CASE ~(Len(p) <= Len(q))
    BY <1>3 DEF IsPrefix
  <1> QED
    BY <1>2, <1>3

\* The place of a child: its parent and the element that leads to it.
LEMMA ChildOf ==
    ASSUME NEW S, NEW q \in Seq(S), q # <<>>
    PROVE  /\ Len(q) \in Nat \ {0} /\ Front(q) \in Seq(S) /\ Last(q) \in S
           /\ Len(Front(q)) = Len(q) - 1
           /\ \A i \in 1..Len(q)-1 : Front(q)[i] = q[i]
           /\ Last(q) = q[Len(q)]
  <1>1. Len(q) \in Nat \ {0}
    OBVIOUS
  <1>2. Last(q) \in S /\ Last(q) = q[Len(q)]
    BY <1>1 DEF Last
  <1>3. SubSeq(q, 1, Len(q)-1) \in Seq(S) /\ Len(SubSeq(q, 1, Len(q)-1)) = Len(q) - 1
    <2>1. ASSUME NEW n \in Nat, n <= Len(q)
          PROVE  SubSeq(q, 1, n) \in Seq(S) /\ Len(SubSeq(q, 1, n)) = n
      BY <2>1
    <2>2. Len(q)-1 \in Nat /\ Len(q)-1 <= Len(q)
      BY <1>1
    <2> QED
      BY <2>1, <2>2
  <1>4. \A i \in 1..Len(q)-1 : SubSeq(q, 1, Len(q)-1)[i] = q[i]
    BY <1>1
  <1> QED
    BY <1>1, <1>2, <1>3, <1>4 DEF Front

\* ... and the place one gets by adding an element.
LEMMA Appended ==
    ASSUME NEW S, NEW p \in Seq(S), NEW e \in S
    PROVE  /\ Append(p, e) \in Seq(S) /\ Append(p, e) # <<>>
           /\ Front(Append(p, e)) = p /\ Last(Append(p, e)) = e
           /\ Len(Append(p, e)) = Len(p) + 1
           /\ \A i \in 1..Len(p) : Append(p, e)[i] = p[i]
           /\ Append(p, e)[Len(p) + 1] = e
  <1>1. /\ Append(p, e) \in Seq(S) /\ Len(Append(p, e)) = Len(p) + 1
        /\ \A i \in 1..Len(p) : Append(p, e)[i] = p[i]
        /\ Append(p, e)[Len(p) + 1] = e
    OBVIOUS
  <1>2. Append(p, e) # <<>>
    BY <1>1
  <1>3. Last(Append(p, e)) = e
    BY <1>1 DEF Last
  <1>4. /\ Front(Append(p, e)) \in Seq(S) /\ Len(Front(Append(p, e))) = Len(p)
        /\ \A i \in 1..Len(p) : Front(Append(p, e))[i] = p[i]
    <2> DEFINE q == Append(p, e)
    <2>1. /\ q \in Seq(S) /\ q # <<>> /\ Len(q) = Len(p) + 1
          /\ \A i \in 1..Len(p) : q[i] = p[i]
      BY <1>1, <1>2
    <2> HIDE DEF q
    <2>2. /\ Front(q) \in Seq(S) /\ Len(Front(q)) = Len(q) - 1
          /\ \A i \in 1..Len(q)-1 : Front(q)[i] = q[i]
      BY <2>1, ChildOf
    <2>3. Len(q) - 1 = Len(p)
      BY <2>1
    <2>4. /\ Front(q) \in Seq(S) /\ Len(Front(q)) = Len(p)
          /\ \A i \in 1..Len(p) : Front(q)[i] = p[i]
      BY <2>1, <2>2, <2>3
    <2> QED
      BY <2>4 DEF q
  <1>5. Front(Append(p, e)) = p
    BY <1>4, SeqEqual
  <1> QED
    BY <1>1, <1>2, <1>3, <1>5

\* Prefixes of a child are those of its parent, and itself.
LEMMA PrefixOfChild ==
    ASSUME NEW S, NEW p \in Seq(S), NEW q \in Seq(S), q # <<>>
    PROVE  IsPrefix(p, q) <=> IsPrefix(p, Front(q)) \/ p = q
  <1>1. /\ Len(q) \in Nat \ {0} /\ Front(q) \in Seq(S) /\ Len(Front(q)) = Len(q) - 1
        /\ \A i \in 1..Len(q)-1 : Front(q)[i] = q[i]
    BY ChildOf
  <1>2. /\ IsPrefix(p, q) <=> Len(p) <= Len(q) /\ \A i \in 1..Len(p) : p[i] = q[i]
        /\ IsPrefix(p, Front(q))
              <=> Len(p) <= Len(q) - 1 /\ \A i \in 1..Len(p) : p[i] = Front(q)[i]
    BY <1>1, PrefixAt
  <1>3. Len(p) \in Nat
    OBVIOUS
  <1>4. CASE Len(p) <= Len(q) - 1
    <2>1. \A i \in 1..Len(p) : Front(q)[i] = q[i]
      BY <1>1, <1>3, <1>4
    <2>2. p # q /\ Len(p) <= Len(q)
      BY <1>1, <1>3, <1>4
    <2> QED
      BY <1>2, <1>4, <2>1, <2>2
  <1>5. CASE ~(Len(p) <= Len(q) - 1)
    <2>1. p = q <=> Len(p) = Len(q) /\ \A i \in 1..Len(p) : p[i] = q[i]
      BY SeqEqual
    <2>2. Len(p) <= Len(q) <=> Len(p) = Len(q)
      BY <1>1, <1>3, <1>5
    <2> QED
      BY <1>2, <1>5, <2>1, <2>2
  <1> QED
    BY <1>4, <1>5

\* Nothing else is around the root.
LEMMA OnlyRoot ==
    ASSUME NEW S, NEW p \in Seq(S)
    PROVE  IsPrefix(p, <<>>) <=> p = <<>>
  <1> DEFINE q == <<>>
  <1>1. q \in Seq(S) /\ Len(q) = 0
    OBVIOUS
  <1>2. Len(p) \in Nat /\ (p = <<>> <=> Len(p) = 0)
    OBVIOUS
  <1> HIDE DEF q
  <1>3. IsPrefix(p, q) <=> Len(p) <= 0 /\ \A i \in 1..Len(p) : p[i] = q[i]
    <2>1. ASSUME NEW s \in Seq(S)
          PROVE  IsPrefix(p, s) <=> Len(p) <= Len(s) /\ \A i \in 1..Len(p) : p[i] = s[i]
      BY PrefixAt
    <2> QED
      BY <1>1, <2>1
  <1>4. IsPrefix(p, q) <=> p = <<>>
    BY <1>2, <1>3
  <1> QED
    BY <1>4 DEF q

\* A position is around itself, and not around its parent.
LEMMA PrefixesInside ==
    ASSUME NEW S, NEW p \in Seq(S)
    PROVE  IsPrefix(p, p) /\ (p # <<>> => ~IsPrefix(p, Front(p)))
  <1>1. IsPrefix(p, p)
    BY PrefixAt
  <1>2. ASSUME p # <<>> PROVE ~IsPrefix(p, Front(p))
    <2>1. Front(p) \in Seq(S) /\ Len(Front(p)) = Len(p) - 1 /\ Len(p) \in Nat
      BY <1>2, ChildOf
    <2> QED
      BY <2>1, PrefixAt
  <1> QED
    BY <1>1, <1>2

\* Positions below p.
LEMMA Below ==
    ASSUME NEW S, NEW p \in Seq(S), NEW r \in Seq(S)
    PROVE  /\ p \o r \in Seq(S) /\ IsPrefix(p, p \o r)
           /\ SubSeq(p \o r, Len(p) + 1, Len(p \o r)) = r
           /\ r # <<>> => /\ p \o r # <<>> /\ Front(p \o r) = p \o Front(r)
                          /\ Last(p \o r) = Last(r)
  <1>1. /\ p \o r \in Seq(S) /\ Len(p \o r) = Len(p) + Len(r)
        /\ \A i \in 1..Len(p) : (p \o r)[i] = p[i]
        /\ \A i \in 1..Len(r) : (p \o r)[Len(p) + i] = r[i]
        /\ Len(p) \in Nat /\ Len(r) \in Nat
    OBVIOUS
  <1>2. IsPrefix(p, p \o r)
    <2> DEFINE q == p \o r
    <2>1. q \in Seq(S) /\ Len(p) <= Len(q) /\ \A i \in 1..Len(p) : p[i] = q[i]
      BY <1>1
    <2> HIDE DEF q
    <2>2. IsPrefix(p, q)
      BY <2>1, PrefixAt
    <2> QED
      BY <2>2 DEF q
  <1>3. SubSeq(p \o r, Len(p) + 1, Len(p \o r)) = r
    OBVIOUS
  <1>4. ASSUME r # <<>>
        PROVE  /\ p \o r # <<>> /\ Front(p \o r) = p \o Front(r)
               /\ Last(p \o r) = Last(r)
    <2>1. Len(r) > 0 /\ p \o r # <<>>
      BY <1>1, <1>4
    <2>2. Last(p \o r) = Last(r)
      BY <1>1, <2>1 DEF Last
    <2>3. /\ Front(r) \in Seq(S) /\ Len(Front(r)) = Len(r) - 1
          /\ \A i \in 1..Len(r)-1 : Front(r)[i] = r[i]
      BY <1>4, ChildOf
    <2> DEFINE q == p \o r
               s == p \o Front(r)
    <2>4. q \in Seq(S) /\ q # <<>> /\ Len(q) = Len(p) + Len(r)
      BY <1>1, <2>1
    <2>5. /\ s \in Seq(S) /\ Len(s) = Len(q) - 1
          /\ \A i \in 1..Len(q)-1 : s[i] = q[i]
      <3>1. /\ s \in Seq(S) /\ Len(s) = Len(p) + Len(Front(r))
            /\ \A i \in 1..Len(p) : s[i] = p[i]
            /\ \A i \in 1..Len(Front(r)) : s[Len(p) + i] = Front(r)[i]
        <4>1. ASSUME NEW x \in Seq(S)
              PROVE  /\ p \o x \in Seq(S) /\ Len(p \o x) = Len(p) + Len(x)
                     /\ \A i \in 1..Len(p) : (p \o x)[i] = p[i]
                     /\ \A i \in 1..Len(x) : (p \o x)[Len(p) + i] = x[i]
          OBVIOUS
        <4> QED
          BY <2>3, <4>1
      <3>2. ASSUME NEW i \in 1..Len(q)-1 PROVE s[i] = q[i]
        <4>1. CASE i \in 1..Len(p)
          BY <1>1, <3>1, <4>1
        <4>2. CASE i \notin 1..Len(p)
          <5>1. i - Len(p) \in 1..Len(r)-1 /\ Len(p) + (i - Len(p)) = i
            BY <1>1, <2>4, <4>2
          <5>2. s[Len(p) + (i - Len(p))] = Front(r)[i - Len(p)]
            BY <2>3, <3>1, <5>1
          <5>3. q[Len(p) + (i - Len(p))] = r[i - Len(p)]
            BY <1>1, <5>1
          <5> QED
            BY <2>3, <5>1, <5>2, <5>3
        <4> QED
          BY <4>1, <4>2
      <3> QED
        BY <1>1, <2>3, <2>4, <3>1, <3>2
    <2> HIDE DEF q, s
    <2>6. Front(q) = s
      <3>1. /\ Front(q) \in Seq(S) /\ Len(Front(q)) = Len(q) - 1
            /\ \A i \in 1..Len(q)-1 : Front(q)[i] = q[i]
        BY <2>4, ChildOf
      <3> QED
        BY <2>5, <3>1, SeqEqual
    <2> QED
      BY <2>1, <2>2, <2>6 DEF q, s
  <1> QED
    BY <1>1, <1>2, <1>3, <1>4

\* A child of a position below p is a child below p.
LEMMA ChildBelow ==
    ASSUME NEW S, NEW p \in Seq(S), NEW r \in Seq(S), NEW e \in S
    PROVE  p \o Append(r, e) = Append(p \o r, e)
  OBVIOUS

\* The first elements of a sequence.
LEMMA FirstOf ==
    ASSUME NEW S, NEW q \in Seq(S), NEW n \in 0..Len(q)
    PROVE  /\ SubSeq(q, 1, n) \in Seq(S)
           /\ Len(SubSeq(q, 1, n)) = n
           /\ \A m \in 0..n : SubSeq(SubSeq(q, 1, n), 1, m) = SubSeq(q, 1, m)
  <1>1. SubSeq(q, 1, n) \in Seq(S) /\ Len(SubSeq(q, 1, n)) = n
    OBVIOUS
  <1>2. ASSUME NEW m \in 0..n
        PROVE  SubSeq(SubSeq(q, 1, n), 1, m) = SubSeq(q, 1, m)
    OBVIOUS
  <1> QED
    BY <1>1, <1>2

\* The first elements are a prefix, and there are no other ones.
LEMMA PrefixIsFirst ==
    ASSUME NEW S, NEW q \in Seq(S), NEW p \in Seq(S)
    PROVE  IsPrefix(p, q) <=> Len(p) \in 0..Len(q) /\ p = SubSeq(q, 1, Len(p))
  <1>1. SubSeq(p, 1, Len(p)) = p
    BY AllOf
  <1>2. Len(p) \in Nat /\ Len(q) \in Nat
    OBVIOUS
  <1>3. Len(p) <= Len(q) <=> Len(p) \in 0..Len(q)
    BY <1>2
  <1>4. IsPrefix(p, q) <=> Len(p) <= Len(q) /\ p = SubSeq(q, 1, Len(p))
    BY <1>1, Zenon DEF IsPrefix
  <1> QED
    BY <1>3, <1>4, Zenon

\* A set that holds with every position the one above it holds all those above.
LEMMA Ancestors ==
    ASSUME NEW S, NEW D \in SUBSET Seq(S), \A x \in D : x # <<>> => Front(x) \in D,
           NEW q \in D, NEW n \in 0..Len(q)
    PROVE  SubSeq(q, 1, n) \in D
  <1> DEFINE T == {k \in 0..Len(q) : SubSeq(q, 1, Len(q) - k) \in D}
  <1>1. q \in Seq(S) /\ Len(q) \in Nat
    OBVIOUS
  <1>2. 0 \in T
    <2>1. SubSeq(q, 1, Len(q)) = q
      BY <1>1, AllOf
    <2>2. 0 \in 0..Len(q) /\ Len(q) - 0 = Len(q)
      BY <1>1
    <2>3. SubSeq(q, 1, Len(q) - 0) \in D
      BY ONLY <2>1, <2>2, q \in D
    <2> QED
      BY <2>2, <2>3
  <1>3. ASSUME NEW k \in 0..Len(q)-1, k \in T PROVE k + 1 \in T
    <2> DEFINE m == Len(q) - k
               r == SubSeq(q, 1, m)
    <2>1. m \in 1..Len(q) /\ Len(q) - (k + 1) = m - 1 /\ k + 1 \in 0..Len(q)
      BY <1>1
    <2>2. r \in D
      BY <1>3
    <2> HIDE DEF m
    <2>3. Len(r) = m /\ SubSeq(r, 1, m - 1) = SubSeq(q, 1, m - 1)
      BY <1>1, <2>1, FirstOf
    <2>4. r # <<>>
      BY <2>1, <2>3
    <2> HIDE DEF r
    <2>5. Front(r) \in D
      BY <2>2, <2>4
    <2> QED
      BY <2>1, <2>3, <2>5 DEF Front
  <1>4. 0..Len(q) \subseteq T
    <2> HIDE DEF T
    <2> QED
      BY <1>1, <1>2, <1>3, UpTo
  <1>5. Len(q) - n \in 0..Len(q) /\ Len(q) - (Len(q) - n) = n
    BY <1>1
  <1>6. Len(q) - n \in T
    <2> HIDE DEF T
    <2> QED
      BY <1>4, <1>5
  <1> QED
    BY <1>5, <1>6

\* A prefix of a prefix.
LEMMA PrefixOfPrefix ==
    ASSUME NEW S, NEW p \in Seq(S), NEW q \in Seq(S), NEW s \in Seq(S),
           IsPrefix(p, q), IsPrefix(q, s)
    PROVE  IsPrefix(p, s) /\ (p # q => p # s)
  <1>1. /\ Len(p) <= Len(q) /\ \A i \in 1..Len(p) : p[i] = q[i]
        /\ Len(q) <= Len(s) /\ \A i \in 1..Len(q) : q[i] = s[i]
    BY PrefixAt
  <1>2. \A i \in 1..Len(p) : p[i] = s[i]
    BY <1>1
  <1>3. IsPrefix(p, s)
    BY <1>1, <1>2, PrefixAt
  <1>4. ASSUME p = s PROVE p = q
    BY <1>1, <1>4
  <1> QED
    BY <1>3, <1>4

\* Of two sequences that another one begins with, one begins with the other.
LEMMA OneInOther ==
    ASSUME NEW S, NEW p \in Seq(S), NEW q \in Seq(S), NEW s \in Seq(S),
           IsPrefix(p, s), IsPrefix(q, s)
    PROVE  IsPrefix(p, q) \/ IsPrefix(q, p)
  <1>1. /\ Len(p) <= Len(s) /\ \A i \in 1..Len(p) : p[i] = s[i]
        /\ Len(q) <= Len(s) /\ \A i \in 1..Len(q) : q[i] = s[i]
    BY PrefixAt
  <1>2. CASE Len(p) <= Len(q)
    <2>1. \A i \in 1..Len(p) : p[i] = q[i]
      BY <1>1, <1>2
    <2> QED
      BY <1>2, <2>1, PrefixAt
  <1>3. CASE Len(q) <= Len(p)
    <2>1. \A i \in 1..Len(q) : q[i] = p[i]
      BY <1>1, <1>3
    <2> QED
      BY <1>3, <2>1, PrefixAt
  <1> QED
    BY <1>2, <1>3

\* The first elements of a sequence, and one more.
LEMMA NextFirst ==
    ASSUME NEW S, NEW q \in Seq(S), NEW k \in 0..Len(q)-1
    PROVE  SubSeq(q, 1, k + 1) = Append(SubSeq(q, 1, k), q[k + 1])
  <1> DEFINE long == SubSeq(q, 1, k + 1)
             short == SubSeq(q, 1, k)
             new == Append(short, q[k + 1])
  <1>1. /\ long \in Seq(S) /\ Len(long) = k + 1 /\ \A i \in 1..k+1 : long[i] = q[i]
        /\ short \in Seq(S) /\ Len(short) = k /\ \A i \in 1..k : short[i] = q[i]
    OBVIOUS
  <1>2. q[k + 1] \in S
    OBVIOUS
  <1> HIDE DEF long, short
  <1>3. new \in Seq(S) /\ Len(new) = k + 1 /\ \A i \in 1..k+1 : new[i] = q[i]
    BY <1>1, <1>2
  <1> HIDE DEF new
  <1>4. long = new
    BY <1>1, <1>3
  <1> QED
    BY <1>4 DEF long, short, new

-----------------------------------------------------------------------------
(* Documents. *)

\* There is something at q, of which children like e may be part.
Fits(doc, q, e) ==
    /\ q \in DOMAIN doc
    /\ doc[q] = IF IsIndex(e) THEN ListNode ELSE MapNode
    /\ IsIndex(e) /\ e[2] # 0 => Append(q, IndexElem(e[2] - 1)) \in DOMAIN doc

\* What it takes to be a tree.
LEMMA TreeDef ==
    ASSUME NEW doc
    PROVE  IsTree(doc) <=>
              /\ <<>> \in DOMAIN doc
              /\ \A q \in DOMAIN doc \ {<<>>} : Fits(doc, Front(q), Last(q))
              /\ doc = [q \in DOMAIN doc |-> doc[q]]
              /\ DOMAIN doc \subseteq Seq(Elem)
  BY DEF IsTree, IsDocument, Fits

\* Everything around a value is in the document, and is a container.
LEMMA Enclosing ==
    ASSUME NEW doc, IsTree(doc), NEW q \in DOMAIN doc
    PROVE  /\ q \in Seq(Elem)
           /\ \A p \in Seq(Elem) : IsPrefix(p, q) => p \in DOMAIN doc
           /\ q # <<>> => /\ Front(q) \in DOMAIN doc
                          /\ doc[Front(q)] = IF IsIndex(Last(q)) THEN ListNode ELSE MapNode
  <1>1. DOMAIN doc \subseteq Seq(Elem)
    BY DEF IsTree
  <1>2. ASSUME NEW x \in DOMAIN doc, x # <<>> PROVE Front(x) \in DOMAIN doc
    BY <1>2 DEF IsTree, IsDocument
  <1>3. ASSUME NEW p \in Seq(Elem), IsPrefix(p, q) PROVE p \in DOMAIN doc
    <2>1. Len(p) \in 0..Len(q) /\ p = SubSeq(q, 1, Len(p))
      BY <1>1, <1>3, PrefixIsFirst
    <2>2. SubSeq(q, 1, Len(p)) \in DOMAIN doc
      BY <1>1, <1>2, <2>1, Ancestors
    <2> QED
      BY <2>1, <2>2
  <1> QED
    BY <1>1, <1>3 DEF IsTree, IsDocument

\* A scalar, or an empty container.
LEMMA LeafTree == ASSUME NEW x PROVE IsTree(Leaf(x))
  <1>1. /\ DOMAIN Leaf(x) = {<<>>} /\ Leaf(x) = [q \in DOMAIN Leaf(x) |-> Leaf(x)[q]]
        /\ <<>> \in Seq(Elem)
    BY DEF Leaf
  <1> QED
    BY <1>1, TreeDef

\* Documents to be put at several positions, none of them inside of another one.
Disjoint(contents) ==
    /\ \A p \in DOMAIN contents : p \in Seq(Elem) /\ IsTree(contents[p])
    /\ \A p, q \in DOMAIN contents : IsPrefix(p, q) => p = q

\* No content is put at q, nor around it.
Untouched(q, contents) == \A p \in DOMAIN contents : ~IsPrefix(p, q)

\* What Graft should make of doc and contents: every content is at its place, and the rest is
\* as it was.
GraftedAll(new, doc, contents) ==
    /\ new = [q \in DOMAIN new |-> new[q]]
    /\ \A q : q \in DOMAIN new <=>
          \/ q \in DOMAIN doc /\ Untouched(q, contents)
          \/ \E p \in DOMAIN contents : \E r \in DOMAIN contents[p] : q = p \o r
    /\ \A q \in DOMAIN doc : Untouched(q, contents) => new[q] = doc[q]
    /\ \A p \in DOMAIN contents : \A r \in DOMAIN contents[p] : new[p \o r] = contents[p][r]

\* Graft does that.
LEMMA GraftAll ==
    ASSUME NEW doc, IsTree(doc), NEW contents, Disjoint(contents)
    PROVE  GraftedAll(Graft(doc, contents), doc, contents)
  <1> DEFINE kept == {q \in DOMAIN doc : \A x \in DOMAIN contents : ~IsPrefix(x, q)}
             grafted == UNION {{x \o r : r \in DOMAIN contents[x]} : x \in DOMAIN contents}
             above(q) == CHOOSE x \in DOMAIN contents : IsPrefix(x, q)
             value(q) == IF q \in kept THEN doc[q]
                         ELSE contents[above(q)][SubSeq(q, Len(above(q)) + 1, Len(q))]
             new == Graft(doc, contents)
  <1>1. new = [q \in kept \cup grafted |-> value(q)]
    BY DEF Graft
  <1> HIDE DEF new
  <1>2. \A q : q \in kept <=> q \in DOMAIN doc /\ Untouched(q, contents)
    BY DEF Untouched
  <1>3. \A q : q \in grafted <=>
               \E p \in DOMAIN contents : \E r \in DOMAIN contents[p] : q = p \o r
    OBVIOUS
  <1>4. ASSUME NEW p \in DOMAIN contents, NEW r \in DOMAIN contents[p]
        PROVE  value(p \o r) = contents[p][r]
    <2>1. p \in Seq(Elem) /\ r \in Seq(Elem)
      <3>1. p \in Seq(Elem) /\ IsTree(contents[p])
        BY DEF Disjoint
      <3>2. DOMAIN contents[p] \subseteq Seq(Elem)
        BY <3>1, TreeDef
      <3> QED
        BY <3>1, <3>2
    <2>2. IsPrefix(p, p \o r) /\ SubSeq(p \o r, Len(p) + 1, Len(p \o r)) = r
      BY <2>1, Below
    <2>3. ASSUME NEW x \in DOMAIN contents, IsPrefix(x, p \o r) PROVE x = p
      <3>1. x \in Seq(Elem)
        BY DEF Disjoint
      <3>2. p \o r \in Seq(Elem)
        BY <2>1
      <3> DEFINE q == p \o r
      <3>3. q \in Seq(Elem) /\ IsPrefix(x, q) /\ IsPrefix(p, q)
        BY <2>2, <2>3, <3>2
      <3> HIDE DEF q
      <3>4. IsPrefix(x, p) \/ IsPrefix(p, x)
        BY <2>1, <3>1, <3>3, OneInOther
      <3> QED
        BY <3>4 DEF Disjoint
    <2>4. above(p \o r) = p
      BY <2>2, <2>3
    <2>5. p \o r \notin kept
      BY <2>2
    <2> HIDE DEF above, kept
    <2> QED
      BY <2>2, <2>4, <2>5
  <1> HIDE DEF kept, grafted, value
  <1>5. DOMAIN new = kept \cup grafted
    BY <1>1
  <1>6. new = [q \in DOMAIN new |-> new[q]]
    BY <1>1
  <1>7. \A q \in kept \cup grafted : new[q] = value(q)
    BY <1>1
  <1>8. ASSUME NEW q \in DOMAIN doc, Untouched(q, contents) PROVE new[q] = doc[q]
    BY <1>2, <1>7, <1>8 DEF value
  <1>9. ASSUME NEW p \in DOMAIN contents, NEW r \in DOMAIN contents[p]
        PROVE  new[p \o r] = contents[p][r]
    BY <1>3, <1>4, <1>7
  <1>10. ASSUME NEW q
         PROVE  q \in DOMAIN new <=>
                    \/ q \in DOMAIN doc /\ Untouched(q, contents)
                    \/ \E p \in DOMAIN contents : \E r \in DOMAIN contents[p] : q = p \o r
    BY <1>2, <1>3, <1>5
  <1> QED
    BY <1>6, <1>8, <1>9, <1>10 DEF GraftedAll, new

\* A document in which others are put where there are places for them.
LEMMA GraftTree ==
    ASSUME NEW doc, IsTree(doc), NEW contents, Disjoint(contents),
           \A p \in DOMAIN contents : p # <<>> => Fits(doc, Front(p), Last(p))
    PROVE  IsTree(Graft(doc, contents))
  <1> DEFINE new == Graft(doc, contents)
  <1>0. GraftedAll(new, doc, contents)
    BY GraftAll
  <1> HIDE DEF new
  <1>1. /\ new = [q \in DOMAIN new |-> new[q]]
        /\ \A q : q \in DOMAIN new <=>
                     \/ q \in DOMAIN doc /\ Untouched(q, contents)
                     \/ \E p \in DOMAIN contents : \E r \in DOMAIN contents[p] : q = p \o r
        /\ \A q \in DOMAIN doc : Untouched(q, contents) => new[q] = doc[q]
        /\ \A p \in DOMAIN contents : \A r \in DOMAIN contents[p] : new[p \o r] = contents[p][r]
    BY <1>0 DEF GraftedAll
  <1>2. /\ <<>> \in DOMAIN doc /\ DOMAIN doc \subseteq Seq(Elem)
        /\ \A q \in DOMAIN doc \ {<<>>} : Fits(doc, Front(q), Last(q))
    BY TreeDef
  <1>3. ASSUME NEW p \in DOMAIN contents
        PROVE  /\ p \in Seq(Elem)
               /\ <<>> \in DOMAIN contents[p] /\ DOMAIN contents[p] \subseteq Seq(Elem)
               /\ \A q \in DOMAIN contents[p] \ {<<>>} : Fits(contents[p], Front(q), Last(q))
    <2>1. p \in Seq(Elem) /\ IsTree(contents[p])
      BY DEF Disjoint
    <2> QED
      BY <2>1, TreeDef
  <1>4. ASSUME NEW p \in DOMAIN contents PROVE p \in DOMAIN new
    <2>1. p = p \o <<>>
      BY <1>3
    <2> QED
      BY <1>1, <1>3, <2>1
  <1>5. <<>> \in DOMAIN new
    <2>1. CASE \E p \in DOMAIN contents : IsPrefix(p, <<>>)
      BY <1>3, <1>4, <2>1, OnlyRoot
    <2>2. CASE ~\E p \in DOMAIN contents : IsPrefix(p, <<>>)
      BY <1>1, <1>2, <2>2 DEF Untouched
    <2> QED
      BY <2>1, <2>2
  <1>6. ASSUME NEW q \in DOMAIN new PROVE q \in Seq(Elem)
    <2>1. ASSUME NEW p \in DOMAIN contents, NEW r \in DOMAIN contents[p] PROVE p \o r \in Seq(Elem)
      <3>1. p \in Seq(Elem) /\ r \in Seq(Elem)
        BY <1>3
      <3> QED
        BY <3>1, Below
    <2>2. CASE q \in DOMAIN doc
      BY <1>2, <2>2
    <2>3. CASE \E p \in DOMAIN contents : \E r \in DOMAIN contents[p] : q = p \o r
      BY <2>1, <2>3
    <2> QED
      BY <1>1, <2>2, <2>3
  <1>7. ASSUME NEW q \in Seq(Elem), Untouched(q, contents), NEW e \in Elem, Fits(doc, q, e)
        PROVE  Fits(new, q, e)
    <2>1. q \in DOMAIN new /\ new[q] = doc[q]
      BY <1>1, <1>7 DEF Fits
    <2>2. ASSUME IsIndex(e), e[2] # 0
          PROVE  Append(q, IndexElem(e[2] - 1)) \in DOMAIN new
      <3> DEFINE before == Append(q, IndexElem(e[2] - 1))
      <3>1. IndexElem(e[2] - 1) \in Elem
        BY <2>2 DEF Elem, IsIndex, IndexElem
      <3>2. before \in Seq(Elem) /\ before # <<>> /\ Front(before) = q
        BY <3>1, Appended
      <3>3. before \in DOMAIN doc
        BY <1>7, <2>2 DEF Fits
      <3> HIDE DEF before
      <3>4. ASSUME NEW p \in DOMAIN contents, IsPrefix(p, before) PROVE p = before
        BY <1>3, <1>7, <3>2, <3>4, PrefixOfChild DEF Untouched
      <3>5. ASSUME Untouched(before, contents) PROVE before \in DOMAIN new
        BY <1>1, <3>3, <3>5
      <3>6. ASSUME ~Untouched(before, contents) PROVE before \in DOMAIN new
        BY <1>4, <3>4, <3>6 DEF Untouched
      <3>7. before \in DOMAIN new
        BY <3>5, <3>6
      <3> QED
        BY <3>7 DEF before
    <2> QED
      BY <1>7, <2>1, <2>2 DEF Fits
  <1>8. ASSUME NEW q \in DOMAIN new, q # <<>> PROVE Fits(new, Front(q), Last(q))
    <2>1. q \in Seq(Elem) /\ Front(q) \in Seq(Elem) /\ Last(q) \in Elem
      BY <1>6, <1>8, ChildOf
    <2>2. CASE q \in DOMAIN doc /\ Untouched(q, contents)
      <3>1. Fits(doc, Front(q), Last(q))
        BY <1>2, <1>8, <2>2
      <3>2. Untouched(Front(q), contents)
        BY <1>3, <1>8, <2>1, <2>2, PrefixOfChild DEF Untouched
      <3> QED
        BY <1>7, <2>1, <3>1, <3>2
    <2>3. ASSUME NEW p \in DOMAIN contents, NEW r \in DOMAIN contents[p], q = p \o r
          PROVE  Fits(new, Front(q), Last(q))
      <3>1. p \in Seq(Elem) /\ r \in Seq(Elem)
        BY <1>3
      <3>2. CASE r = <<>>
        <4>1. q = p
          BY <2>3, <3>1, <3>2
        <4>2. ASSUME NEW x \in DOMAIN contents, IsPrefix(x, Front(p)) PROVE FALSE
          <5>1. x \in Seq(Elem) /\ p # <<>>
            BY <1>3, <1>8, <4>1
          <5>2. IsPrefix(x, p)
            BY <3>1, <4>2, <5>1, PrefixOfChild
          <5>3. x = p
            BY <5>2 DEF Disjoint
          <5> QED
            BY <3>1, <4>2, <5>1, <5>3, PrefixesInside
        <4>3. Untouched(Front(q), contents)
          BY <4>1, <4>2 DEF Untouched
        <4> QED
          BY <1>7, <1>8, <2>1, <4>1, <4>3
      <3>3. CASE r # <<>>
        <4>1. Fits(contents[p], Front(r), Last(r))
          BY <1>3, <3>3
        <4>2. Front(q) = p \o Front(r) /\ Last(q) = Last(r)
          BY <2>3, <3>1, <3>3, Below
        <4>3. Front(r) \in Seq(Elem) /\ Last(r) \in Elem
          BY <3>1, <3>3, ChildOf
        <4>4. Front(q) \in DOMAIN new /\ new[Front(q)] = contents[p][Front(r)]
          BY <1>1, <4>1, <4>2 DEF Fits
        <4>5. ASSUME IsIndex(Last(r)), Last(r)[2] # 0
              PROVE  Append(Front(q), IndexElem(Last(r)[2] - 1)) \in DOMAIN new
          <5>1. IndexElem(Last(r)[2] - 1) \in Elem
            BY <4>3, <4>5 DEF Elem, IsIndex, IndexElem
          <5>2. Append(Front(q), IndexElem(Last(r)[2] - 1))
                  = p \o Append(Front(r), IndexElem(Last(r)[2] - 1))
            <6>1. p \o Append(Front(r), IndexElem(Last(r)[2] - 1))
                    = Append(p \o Front(r), IndexElem(Last(r)[2] - 1))
              BY <3>1, <4>3, <5>1, ChildBelow
            <6> QED
              BY <4>2, <6>1
          <5> QED
            BY <1>1, <4>1, <4>5, <5>2 DEF Fits
        <4> QED
          BY <4>1, <4>2, <4>4, <4>5 DEF Fits
      <3> QED
        BY <3>2, <3>3
    <2> QED
      BY <1>1, <2>2, <2>3
  <1>9. IsTree(new)
    BY <1>1, <1>5, <1>6, <1>8, TreeDef
  <1> QED
    BY <1>9 DEF new

\* What Graft should make of doc and one other document, content: content is at p, and the
\* rest is as it was.
Grafted(new, doc, content, p) ==
    /\ new = [q \in DOMAIN new |-> new[q]]
    /\ \A q : q \in DOMAIN new <=>
          \/ q \in DOMAIN doc /\ ~IsPrefix(p, q)
          \/ \E r \in DOMAIN content : q = p \o r
    /\ \A q \in DOMAIN doc : ~IsPrefix(p, q) => new[q] = doc[q]
    /\ \A r \in DOMAIN content : new[p \o r] = content[r]

\* One document is apart.
LEMMA OneDisjoint ==
    ASSUME NEW content, IsTree(content), NEW p \in Seq(Elem)
    PROVE  Disjoint([at \in {p} |-> content])
  BY DEF Disjoint

\* Graft does that.
LEMMA GraftAt ==
    ASSUME NEW doc, IsTree(doc), NEW content, IsTree(content), NEW p \in Seq(Elem)
    PROVE  Grafted(Graft(doc, [at \in {p} |-> content]), doc, content, p)
  <1> DEFINE contents == [at \in {p} |-> content]
             new == Graft(doc, contents)
  <1>1. DOMAIN contents = {p} /\ contents[p] = content
    OBVIOUS
  <1>2. Disjoint(contents)
    BY OneDisjoint
  <1> HIDE DEF contents
  <1>3. GraftedAll(new, doc, contents)
    BY <1>2, GraftAll
  <1>4. \A q : Untouched(q, contents) <=> ~IsPrefix(p, q)
    BY <1>1 DEF Untouched
  <1> HIDE DEF new
  <1>5. Grafted(new, doc, content, p)
    BY <1>1, <1>3, <1>4 DEF Grafted, GraftedAll
  <1> QED
    BY <1>5 DEF new, contents

\* A document in which another one is put where there is a place for it.
LEMMA GraftFits ==
    ASSUME NEW doc, IsTree(doc), NEW content, IsTree(content), NEW p \in Seq(Elem),
           p # <<>> => Fits(doc, Front(p), Last(p))
    PROVE  IsTree(Graft(doc, [at \in {p} |-> content]))
  <1> DEFINE contents == [at \in {p} |-> content]
  <1>1. Disjoint(contents)
    BY OneDisjoint
  <1>2. \A x \in DOMAIN contents : x # <<>> => Fits(doc, Front(x), Last(x))
    OBVIOUS
  <1> HIDE DEF contents
  <1>3. IsTree(Graft(doc, contents))
    BY <1>1, <1>2, GraftTree
  <1> QED
    BY <1>3 DEF contents

-----------------------------------------------------------------------------
(* What is spared. *)

\* The value above a spared one is spared.
LEMMA SparedAt ==
    ASSUME NEW q \in Seq(Elem), NEW gone
    PROVE  /\ q = <<>> => (Spared(q, gone) <=> <<>> \notin gone)
           /\ q # <<>> => (Spared(q, gone) <=> q \notin gone /\ Spared(Front(q), gone))
  <1>1. Len(q) \in Nat /\ SubSeq(q, 1, Len(q)) = q
    BY AllOf
  <1>2. CASE q = <<>>
    <2>1. Len(q) = 0 /\ 0..Len(q) = {0}
      BY <1>2
    <2>2. SubSeq(q, 1, 0) = <<>>
      BY <1>1, <1>2, <2>1
    <2> QED
      BY <1>2, <2>1, <2>2 DEF Spared
  <1>3. CASE q # <<>>
    <2> DEFINE m == Len(q) - 1
    <2>1. m \in 0..Len(q) /\ 0..Len(q) = (0..m) \cup {Len(q)}
      BY <1>1, <1>3
    <2>2. /\ Front(q) = SubSeq(q, 1, m) /\ Len(SubSeq(q, 1, m)) = m
          /\ \A n \in 0..m : SubSeq(SubSeq(q, 1, m), 1, n) = SubSeq(q, 1, n)
      BY <2>1, FirstOf DEF Front
    <2> HIDE DEF m
    <2>3. Spared(Front(q), gone) <=> \A n \in 0..m : SubSeq(q, 1, n) \notin gone
      BY <2>2 DEF Spared
    <2>4. Spared(q, gone) <=> q \notin gone /\ Spared(Front(q), gone)
      BY <1>1, <2>1, <2>3 DEF Spared
    <2> QED
      BY <1>3, <2>4
  <1> QED
    BY <1>2, <1>3

\* What is around a spared value is not gone.
LEMMA SparedAround ==
    ASSUME NEW q \in Seq(Elem), NEW gone, Spared(q, gone),
           NEW p \in Seq(Elem), IsPrefix(p, q)
    PROVE  p \notin gone /\ Spared(p, gone)
  <1>1. Len(p) \in 0..Len(q) /\ p = SubSeq(q, 1, Len(p))
    BY PrefixIsFirst
  <1>2. \A n \in 0..Len(p) : SubSeq(p, 1, n) = SubSeq(q, 1, n)
    BY <1>1, FirstOf
  <1>3. Len(p) \in Nat /\ Len(q) \in Nat /\ 0..Len(p) \subseteq 0..Len(q)
    BY <1>1
  <1>4. p \notin gone
    BY <1>1 DEF Spared
  <1>5. Spared(p, gone)
    BY <1>2, <1>3 DEF Spared
  <1> QED
    BY <1>4, <1>5

-----------------------------------------------------------------------------
(* What a path matches. *)

SegmentKinds == {"name", "index", "wildcard"}

\* The children of a value are the positions with it in front.
LEMMA ChildrenAt ==
    ASSUME NEW doc, IsTree(doc), NEW q \in Seq(Elem)
    PROVE  \A r : r \in Children(doc, q) <=> r \in DOMAIN doc /\ r # <<>> /\ Front(r) = q
  <1>1. DOMAIN doc \subseteq Seq(Elem)
    BY DEF IsTree
  <1>2. ASSUME NEW r \in Seq(Elem)
        PROVE  Len(r) = Len(q) + 1 /\ IsPrefix(q, r) <=> r # <<>> /\ Front(r) = q
    <2>1. CASE r = <<>>
      <3>1. Len(r) = 0 /\ Len(q) \in Nat
        BY <2>1
      <3> QED
        BY <2>1, <3>1
    <2>2. CASE r # <<>>
      <3>1. /\ Len(r) \in Nat \ {0} /\ Len(Front(r)) = Len(r) - 1 /\ Front(r) \in Seq(Elem)
            /\ Len(q) \in Nat
        BY <2>2, ChildOf
      <3>2. IsPrefix(q, r) <=> IsPrefix(q, Front(r)) \/ q = r
        BY <2>2, PrefixOfChild
      <3>3. Front(r) = q => IsPrefix(q, Front(r))
        BY <3>1, PrefixesInside
      <3>4. Len(r) = Len(q) + 1 /\ IsPrefix(q, Front(r)) => Front(r) = q
        <4> DEFINE f == Front(r)
        <4>1. SubSeq(f, 1, Len(f)) = f
          BY <3>1, AllOf
        <4>2. IsPrefix(q, f) => q = SubSeq(f, 1, Len(q))
          BY <3>1, PrefixIsFirst
        <4> QED
          BY <3>1, <4>1, <4>2
      <3> QED
        BY <2>2, <3>1, <3>2, <3>3, <3>4
    <2> QED
      BY <2>1, <2>2
  <1> QED
    BY <1>1, <1>2 DEF Children

\* Any one element more makes a child, if it is there.
LEMMA AppendedIn ==
    ASSUME NEW q \in Seq(Elem), NEW e, Append(q, e) \in Seq(Elem)
    PROVE  Append(q, e) # <<>> /\ Front(Append(q, e)) = q
  <1>1. q \in Seq(Elem \cup {e}) /\ e \in Elem \cup {e}
    OBVIOUS
  <1> QED
    BY <1>1, Appended

\* SelectFrom, case by case.
LEMMA SelectCases ==
    ASSUME NEW doc, NEW q, NEW segment, segment.kind \in SegmentKinds
    PROVE  /\ doc[q] \notin Containers => SelectFrom(doc, q, segment) = {}
           /\ doc[q] \in Containers /\ segment.kind = "wildcard" =>
                 SelectFrom(doc, q, segment) = Children(doc, q)
           /\ doc[q] = MapNode /\ segment.kind = "name" =>
                 SelectFrom(doc, q, segment) = FieldAt(doc, q, segment.name)
           /\ doc[q] = MapNode /\ segment.kind = "index" =>
                 SelectFrom(doc, q, segment)
                    = UNION {FieldAt(doc, q, n) : n \in {m \in Decimals : AsIndex[m] = segment.index}}
           /\ doc[q] = ListNode /\ segment.kind = "index" =>
                 SelectFrom(doc, q, segment) = ItemAt(doc, q, segment.index)
           /\ doc[q] = ListNode /\ segment.kind = "name" =>
                 SelectFrom(doc, q, segment)
                    = IF segment.quoted \/ AsIndex[segment.name] = NotANumber
                      THEN {} ELSE ItemAt(doc, q, AsIndex[segment.name])
  <1> DEFINE node == doc[q]
             kind == segment.kind
  <1>1. /\ MapNode # ListNode /\ MapNode \in Containers /\ ListNode \in Containers
        /\ node \in Containers => node = MapNode \/ node = ListNode
    BY DEF Containers, MapNode, ListNode
  <1>2. kind = "name" \/ kind = "index" \/ kind = "wildcard"
    BY DEF SegmentKinds
  <1> HIDE DEF node, kind
  <1>3. SelectFrom(doc, q, segment) =
          CASE node \notin Containers -> {}
            [] node \in Containers /\ kind = "wildcard" -> Children(doc, q)
            [] node = MapNode /\ kind = "name" -> FieldAt(doc, q, segment.name)
            [] node = MapNode /\ kind = "index" ->
                  UNION {FieldAt(doc, q, n) : n \in {m \in Decimals : AsIndex[m] = segment.index}}
            [] node = ListNode /\ kind = "index" -> ItemAt(doc, q, segment.index)
            [] node = ListNode /\ kind = "name" ->
                  IF segment.quoted \/ AsIndex[segment.name] = NotANumber
                  THEN {} ELSE ItemAt(doc, q, AsIndex[segment.name])
    BY Zenon DEF SelectFrom, node, kind
  <1>4. "wildcard" # "name" /\ "wildcard" # "index" /\ "index" # "name"
    OBVIOUS
  <1>5. CASE node \notin Containers
    BY <1>1, <1>2, <1>3, <1>4, <1>5 DEF node, kind
  <1>6. CASE node \in Containers /\ kind = "wildcard"
    <2>1. SelectFrom(doc, q, segment) = Children(doc, q)
      BY <1>1, <1>3, <1>4, <1>6
    <2> QED
      BY <2>1, <1>6, <1>4 DEF node, kind
  <1>7. CASE node = MapNode /\ kind = "name"
    <2>1. SelectFrom(doc, q, segment) = FieldAt(doc, q, segment.name)
      BY <1>1, <1>3, <1>4, <1>7
    <2> QED
      BY <2>1, <1>7, <1>1, <1>4 DEF node, kind
  <1>8. CASE node = MapNode /\ kind = "index"
    BY <1>1, <1>3, <1>4, <1>8 DEF node, kind
  <1>9. CASE node = ListNode /\ kind = "index"
    BY <1>1, <1>3, <1>4, <1>9 DEF node, kind
  <1>10. CASE node = ListNode /\ kind = "name"
    BY <1>1, <1>3, <1>4, <1>10 DEF node, kind
  <1> QED
    BY <1>1, <1>2, <1>5, <1>6, <1>7, <1>8, <1>9, <1>10

\* A segment selects children.
LEMMA SelectsChildren ==
    ASSUME NEW doc, IsTree(doc), NEW q \in DOMAIN doc, NEW segment,
           segment.kind \in SegmentKinds
    PROVE  \A r \in SelectFrom(doc, q, segment) : r \in DOMAIN doc /\ r # <<>> /\ Front(r) = q
  <1>1. q \in Seq(Elem) /\ DOMAIN doc \subseteq Seq(Elem)
    BY DEF IsTree
  <1>2. \A r \in Children(doc, q) : r \in DOMAIN doc /\ r # <<>> /\ Front(r) = q
    BY <1>1, ChildrenAt
  <1>3. ASSUME NEW e
        PROVE  \A r \in {Append(q, e)} \cap DOMAIN doc :
                  r \in DOMAIN doc /\ r # <<>> /\ Front(r) = q
    BY <1>1, AppendedIn
  <1>4. \A i : \A r \in ItemAt(doc, q, i) : r \in DOMAIN doc /\ r # <<>> /\ Front(r) = q
    BY <1>3 DEF ItemAt
  <1>5. \A n : \A r \in FieldAt(doc, q, n) : r \in DOMAIN doc /\ r # <<>> /\ Front(r) = q
    BY <1>3 DEF FieldAt
  <1>6. doc[q] \notin Containers \/ doc[q] = MapNode \/ doc[q] = ListNode
    BY DEF Containers
  <1>7. CASE doc[q] \notin Containers
    BY <1>7, SelectCases
  <1>8. CASE doc[q] \in Containers /\ segment.kind = "wildcard"
    BY <1>2, <1>8, SelectCases
  <1>9. CASE doc[q] = MapNode /\ segment.kind \in {"name", "index"}
    BY <1>5, <1>9, SelectCases
  <1>10. CASE doc[q] = ListNode /\ segment.kind \in {"name", "index"}
    BY <1>4, <1>10, SelectCases
  <1> QED
    BY <1>6, <1>7, <1>8, <1>9, <1>10 DEF SegmentKinds

\* The values from which a segment selects.
From(doc, current, segment) ==
    IF segment.recursive THEN UNION {Descendants(doc, p) : p \in current} ELSE current

\* The values from which a segment selects are of the document, and so is what it selects.
LEMMA FollowedAt ==
    ASSUME NEW doc, IsTree(doc), NEW current \in SUBSET DOMAIN doc, NEW segment,
           segment.kind \in SegmentKinds
    PROVE  /\ From(doc, current, segment) \subseteq DOMAIN doc
           /\ \A r : r \in Followed(doc, current, segment)
                        <=> \E q \in From(doc, current, segment) : r \in SelectFrom(doc, q, segment)
           /\ \A r \in Followed(doc, current, segment) : r \in DOMAIN doc /\ r # <<>>
  <1>1. From(doc, current, segment) \subseteq DOMAIN doc
    BY DEF From, Descendants
  <1>2. \A r : r \in Followed(doc, current, segment)
                  <=> \E q \in From(doc, current, segment) : r \in SelectFrom(doc, q, segment)
    BY Zenon DEF Followed, From
  <1>3. \A r \in Followed(doc, current, segment) : r \in DOMAIN doc /\ r # <<>>
    BY <1>1, <1>2, SelectsChildren
  <1> QED
    BY <1>1, <1>2, <1>3

\* The positions that the first i segments match, for every i.
Matched(current, doc, segments) ==
    /\ current \in [0..Len(segments) -> SUBSET DOMAIN doc]
    /\ current[0] = {<<>>}
    /\ \A i \in 1..Len(segments) : current[i] = Followed(doc, current[i-1], segments[i])

\* Find is what its loop over the segments has at the end.
LEMMA FindAt ==
    ASSUME NEW doc, IsTree(doc), NEW segments, Len(segments) \in Nat,
           \A i \in 1..Len(segments) : segments[i].kind \in SegmentKinds
    PROVE  \E current : /\ Matched(current, doc, segments)
                        /\ Find(doc, segments) = current[Len(segments)]
  <1> DEFINE n == Len(segments)
             V == SUBSET DOMAIN doc
             step == [p \in (1..n) \X V |-> Followed(doc, p[2], segments[p[1]])]
             F(h) == [i \in 0..n |-> IF i = 0 THEN {<<>>} ELSE Followed(doc, h[i-1], segments[i])]
             current == CHOOSE h : h = F(h)
  <1>1. step \in [(1..n) \X V -> V]
    <2>1. ASSUME NEW i \in 1..n, NEW c \in V PROVE Followed(doc, c, segments[i]) \in V
      BY FollowedAt
    <2> QED
      BY <2>1
  <1>2. {<<>>} \in V
    BY DEF IsTree, IsDocument
  <1>3. PICK g \in [0..n -> V] : g[0] = {<<>>} /\ \A i \in 1..n : g[i] = step[<<i, g[i-1]>>]
    <2>1. n \in Nat
      OBVIOUS
    <2> HIDE DEF n, step, V
    <2>2. HasFunction(n, V, {<<>>}, step)
      BY <1>1, <1>2, <2>1, LoopFunction
    <2> QED
      BY <2>2 DEF HasFunction
  <1>4. ASSUME NEW i \in 1..n PROVE g[i] = Followed(doc, g[i-1], segments[i])
    <2>1. <<i, g[i-1]>> \in (1..n) \X V
      BY <1>3
    <2> QED
      BY <1>3, <2>1
  <1>5. g = F(g)
    <2>1. ASSUME NEW i \in 0..n PROVE g[i] = F(g)[i]
      <3>1. CASE i = 0
        BY <1>3, <3>1
      <3>2. CASE i \in 1..n
        BY <1>4, <3>2
      <3> QED
        BY <3>1, <3>2
    <2>2. g = [i \in 0..n |-> g[i]] /\ F(g) = [i \in 0..n |-> F(g)[i]]
      OBVIOUS
    <2> HIDE DEF F
    <2> QED
      BY <2>1, <2>2
  <1>6. current = F(current)
    <2> HIDE DEF F
    <2> QED
      BY <1>5
  <1>7. Find(doc, segments) = current[n]
    BY DEF Find
  <1>8. ASSUME NEW i \in 0..n PROVE current[i] = g[i]
    <2> DEFINE S == {j \in 0..n : current[j] = g[j]}
    <2> HIDE DEF current
    <2>1. 0 \in S
      BY <1>3, <1>6
    <2>2. ASSUME NEW j \in 0..n-1, j \in S PROVE j + 1 \in S
      <3>1. j + 1 \in 1..n /\ (j + 1) - 1 = j /\ j + 1 \in 0..n
        OBVIOUS
      <3>2. current[j + 1] = Followed(doc, current[j], segments[j + 1])
        <4>1. ASSUME NEW h, NEW k \in 1..n
              PROVE  F(h)[k] = Followed(doc, h[k - 1], segments[k])
          OBVIOUS
        <4> HIDE DEF F
        <4>2. F(current)[j + 1] = Followed(doc, current[(j + 1) - 1], segments[j + 1])
          BY <3>1, <4>1
        <4>3. (j + 1) - 1 = j
          OBVIOUS
        <4> QED
          BY <1>6, <4>2, <4>3
      <3>3. g[j + 1] = Followed(doc, g[j], segments[j + 1])
        BY <1>4, <3>1
      <3> QED
        BY <2>2, <3>1, <3>2, <3>3
    <2>3. 0..n \subseteq S
      <3> HIDE DEF S
      <3> QED
        BY <2>1, <2>2, UpTo
    <2> QED
      BY <2>3
  <1>9. Matched(g, doc, segments)
    BY <1>3, <1>4 DEF Matched
  <1>10. Find(doc, segments) = g[n]
    BY <1>7, <1>8
  <1> QED
    BY <1>9, <1>10

\* A path matches values of the document, and never the root.
LEMMA FindInside ==
    ASSUME NEW doc, IsTree(doc), NEW segments, Len(segments) \in Nat \ {0},
           \A i \in 1..Len(segments) : segments[i].kind \in SegmentKinds
    PROVE  Find(doc, segments) \subseteq DOMAIN doc /\ <<>> \notin Find(doc, segments)
  <1>1. PICK current : /\ Matched(current, doc, segments)
                       /\ Find(doc, segments) = current[Len(segments)]
    BY FindAt
  <1> DEFINE n == Len(segments)
  <1>2. n \in 1..n /\ n - 1 \in 0..n
    OBVIOUS
  <1>3. current[n] = Followed(doc, current[n-1], segments[n]) /\ current[n-1] \subseteq DOMAIN doc
    BY <1>1, <1>2 DEF Matched
  <1>4. \A r \in Followed(doc, current[n-1], segments[n]) : r \in DOMAIN doc /\ r # <<>>
    BY <1>2, <1>3, FollowedAt
  <1> QED
    BY <1>1, <1>3, <1>4

\* The longer path has one more segment than the one with m of them.
OneLonger(longer, segments, m) ==
    /\ Len(segments) = m /\ Len(longer) = m + 1
    /\ \A i \in 1..m+1 : longer[i].kind \in SegmentKinds
    /\ \A i \in 1..m : longer[i] = segments[i]

\* What one more segment adds to what a path matches.
LEMMA FindNext ==
    ASSUME NEW doc, IsTree(doc), NEW m \in Nat, NEW segments, NEW longer,
           OneLonger(longer, segments, m)
    PROVE  /\ Find(doc, segments) \subseteq DOMAIN doc
           /\ Find(doc, longer) = Followed(doc, Find(doc, segments), longer[m + 1])
  <1>0. /\ Len(segments) = m /\ Len(longer) = m + 1
        /\ \A i \in 1..m+1 : longer[i].kind \in SegmentKinds
        /\ \A i \in 1..m : longer[i] = segments[i]
    BY DEF OneLonger
  <1>1. \A i \in 1..m : segments[i].kind \in SegmentKinds
    BY <1>0
  <1>2. PICK c : Matched(c, doc, segments) /\ Find(doc, segments) = c[m]
    BY <1>0, <1>1, FindAt
  <1>3. PICK d : Matched(d, doc, longer) /\ Find(doc, longer) = d[m + 1]
    <2>1. Len(longer) \in Nat
      BY <1>0
    <2> QED
      BY <1>0, <2>1, FindAt
  <1> DEFINE S == {i \in 0..m : c[i] = d[i]}
  <1>4. 0 \in S
    <2>1. c[0] = {<<>>} /\ d[0] = {<<>>}
      BY <1>2, <1>3, Zenon DEF Matched
    <2>2. c[0] = d[0] /\ 0 \in 0..m
      BY <2>1
    <2> QED
      BY <2>2
  <1>5. ASSUME NEW i \in 0..m-1, i \in S PROVE i + 1 \in S
    <2>1. i + 1 \in 1..m /\ i + 1 \in 1..m+1 /\ (i + 1) - 1 = i
      OBVIOUS
    <2>2. c[i + 1] = Followed(doc, c[(i + 1) - 1], segments[i + 1])
      <3>1. \A j \in 1..m : c[j] = Followed(doc, c[j - 1], segments[j])
        BY <1>0, <1>2, Zenon DEF Matched
      <3> QED
        BY <2>1, <3>1, Zenon
    <2>3. d[i + 1] = Followed(doc, d[(i + 1) - 1], longer[i + 1])
      <3>1. \A j \in 1..m+1 : d[j] = Followed(doc, d[j - 1], longer[j])
        BY <1>0, <1>3, Zenon DEF Matched
      <3> QED
        BY <2>1, <3>1, Zenon
    <2>4. c[i] = d[i] /\ longer[i + 1] = segments[i + 1]
      BY <1>0, <1>5, <2>1
    <2>5. c[i + 1] = d[i + 1]
      BY <2>1, <2>2, <2>3, <2>4
    <2> QED
      BY <2>1, <2>5
  <1>6. m \in S
    <2> HIDE DEF S
    <2> QED
      BY <1>4, <1>5, UpTo
  <1>7. d[m + 1] = Followed(doc, d[m], longer[m + 1])
    <2>1. m + 1 \in 1..m+1 /\ (m + 1) - 1 = m
      OBVIOUS
    <2> QED
      BY <1>0, <1>3, <2>1 DEF Matched
  <1>8. c[m] \subseteq DOMAIN doc
    BY <1>0, <1>2 DEF Matched
  <1> QED
    BY <1>2, <1>3, <1>6, <1>7, <1>8

-----------------------------------------------------------------------------
(* The segments of a path. *)

\* The dot that Rooted puts before a path makes no other token of it.
LEMMA RootedTokens ==
    ASSUME NEW tokens \in Seq(PathToken)
    PROVE  Rooted(tokens) \in Seq(PathToken)
  <1>1. Dot \in PathToken
    BY DEF Dot, PathToken
  <1>2. <<Dot>> \in Seq(PathToken)
    BY <1>1
  <1>3. <<Dot>> \o tokens \in Seq(PathToken)
    BY <1>2
  <1>4. tokens # <<>> => Tail(tokens) \in Seq(PathToken)
    OBVIOUS
  <1> QED
    BY <1>3, <1>4 DEF Rooted

\* A well-formed path has a segment.
LEMMA ParsedSegments ==
    ASSUME NEW tokens \in Seq(PathToken), ~Malformed(tokens)
    PROVE  /\ Len(Parsed(tokens)) \in Nat \ {0}
           /\ \A i \in 1..Len(Parsed(tokens)) : Parsed(tokens)[i].kind \in SegmentKinds
  <1> DEFINE selectors == {i \in DOMAIN tokens : tokens[i] \notin Connectors}
             nth(j) == CHOOSE i \in selectors : Cardinality({k \in selectors : k <= i}) = j
             n == Cardinality(selectors)
             V == {SegmentAt(tokens, nth(j)) : j \in 1..n}
  <1>1. Len(tokens) \in Nat \ {0} /\ DOMAIN tokens = 1..Len(tokens)
    BY DEF Malformed
  <1>2. Len(tokens) \in selectors
    <2>1. Len(tokens) \in DOMAIN tokens
      BY <1>1
    <2> QED
      BY <2>1 DEF Malformed
  <1>3. n \in Nat \ {0}
    <2>1. IsFiniteSet(1..Len(tokens))
      BY <1>1, FS_Interval
    <2>2. selectors \in SUBSET (1..Len(tokens))
      BY <1>1
    <2> HIDE DEF selectors
    <2>3. IsFiniteSet(selectors)
      BY <2>1, <2>2, FS_Subset
    <2>4. n \in Nat /\ n # 0
      BY <1>2, <2>3, FS_CardinalityType, FS_EmptySet
    <2> QED
      BY <2>4
  <1>4. Parsed(tokens) = [j \in 1..n |-> SegmentAt(tokens, nth(j))]
    BY DEF Parsed
  <1>5. ASSUME NEW i PROVE SegmentAt(tokens, i).kind \in SegmentKinds
    BY DEF SegmentAt, SegmentKinds
  <1> HIDE DEF nth, n
  <1>6. [j \in 1..n |-> SegmentAt(tokens, nth(j))] \in [1..n -> V]
    OBVIOUS
  <1> HIDE DEF V
  <1>7. Parsed(tokens) \in Seq(V) /\ Len(Parsed(tokens)) = n
    BY <1>3, <1>4, <1>6
  <1>8. \A j \in 1..n : Parsed(tokens)[j] = SegmentAt(tokens, nth(j))
    BY <1>4
  <1> QED
    BY <1>3, <1>5, <1>7, <1>8

-----------------------------------------------------------------------------
(* Closing up lists. *)

\* The indices, counted without those in X.
Counted(rank, X) ==
    /\ rank[0] = 0
    /\ \A i \in Nat : rank[i] \in Int
    /\ \A i \in Nat : rank[i + 1] = rank[i] + (IF i \in X THEN 0 ELSE 1)

\* They grow from item to item that stays, by one.
LEMMA ClosingUp ==
    ASSUME NEW rank, NEW X, Counted(rank, X)
    PROVE  /\ \A i \in Nat : rank[i] \in Nat
           /\ \A i, j \in Nat : i < j /\ i \notin X => rank[i] < rank[j]
           /\ \A i \in Nat : rank[i] # 0 =>
                 \E k \in 0..i-1 : k \notin X /\ rank[k] = rank[i] - 1
  <1> USE DEF Counted
  <1>1. ASSUME NEW i \in Nat PROVE rank[i] \in Nat
    <2> DEFINE S == {j \in Nat : rank[j] \in Nat}
    <2>1. 0 \in S
      OBVIOUS
    <2>2. ASSUME NEW j \in Nat, j \in S PROVE j + 1 \in S
      <3>1. rank[j] \in Nat /\ rank[j + 1] = rank[j] + (IF j \in X THEN 0 ELSE 1)
        BY <2>2
      <3> QED
        BY <3>1
    <2> HIDE DEF S
    <2>3. Nat \subseteq S
      BY <2>1, <2>2, SetInduction
    <2> QED
      BY <2>3 DEF S
  <1>2. ASSUME NEW i \in Nat, NEW j \in Nat, i < j, i \notin X PROVE rank[i] < rank[j]
    <2> DEFINE S == {d \in Nat : rank[i] < rank[i + 1 + d]}
    <2>1. 0 \in S
      <3>1. rank[i + 1] = rank[i] + 1 /\ i + 1 + 0 = i + 1
        BY <1>2
      <3> QED
        BY <1>1, <3>1
    <2>2. ASSUME NEW d \in Nat, d \in S PROVE d + 1 \in S
      <3>1. i + 1 + d \in Nat /\ i + 1 + (d + 1) = (i + 1 + d) + 1
        OBVIOUS
      <3>2. rank[i + 1 + (d + 1)] = rank[i + 1 + d] + (IF i + 1 + d \in X THEN 0 ELSE 1)
        BY <3>1
      <3>3. rank[i] \in Nat /\ rank[i + 1 + d] \in Nat /\ rank[i] < rank[i + 1 + d]
        BY <1>1, <2>2, <3>1
      <3>4. rank[i] < rank[i + 1 + (d + 1)]
        BY <3>2, <3>3
      <3> QED
        BY <3>4
    <2> HIDE DEF S
    <2>3. Nat \subseteq S
      BY <2>1, <2>2, SetInduction
    <2>4. j - i - 1 \in Nat /\ i + 1 + (j - i - 1) = j
      BY <1>2
    <2>5. j - i - 1 \in S
      BY <2>3, <2>4
    <2> QED
      BY <2>4, <2>5 DEF S
  <1>3. ASSUME NEW i \in Nat, rank[i] # 0
        PROVE  \E k \in 0..i-1 : k \notin X /\ rank[k] = rank[i] - 1
    <2> DEFINE Preceded(j) == rank[j] # 0 => \E k \in 0..j-1 : k \notin X /\ rank[k] = rank[j] - 1
               S == {j \in Nat : Preceded(j)}
    <2>1. 0 \in S
      OBVIOUS
    <2>2. ASSUME NEW j \in Nat, j \in S PROVE j + 1 \in S
      <3>1. rank[j] \in Nat /\ rank[j + 1] = rank[j] + (IF j \in X THEN 0 ELSE 1)
        BY <1>1
      <3>2. CASE j \in X
        <4>1. rank[j + 1] = rank[j] /\ 0..j-1 \subseteq 0..(j + 1)-1
          BY <3>1, <3>2
        <4>2. Preceded(j)
          BY <2>2
        <4>3. Preceded(j + 1)
          BY <4>1, <4>2
        <4> QED
          BY <4>3
      <3>3. CASE j \notin X
        <4>1. rank[j] = rank[j + 1] - 1 /\ j \in 0..(j + 1)-1
          BY <3>1, <3>3
        <4>2. Preceded(j + 1)
          BY <3>3, <4>1
        <4> QED
          BY <4>2
      <3> QED
        BY <3>2, <3>3
    <2> HIDE DEF S
    <2>3. Nat \subseteq S
      BY <2>1, <2>2, SetInduction
    <2> QED
      BY <1>3, <2>3 DEF S
  <1> QED
    BY <1>1, <1>2, <1>3

\* What the index i of an item of the list at p becomes.
NewIndex(p, i, gone) == i - GoneBefore(p, i, gone)

\* Closing a list up keeps the order of the items it keeps and leaves no gap between them.
LEMMA NewIndices ==
    ASSUME NEW p, NEW gone
    PROVE  /\ \A i \in Nat : NewIndex(p, i, gone) \in Nat
           /\ \A i, j \in Nat : i < j /\ Append(p, IndexElem(i)) \notin gone =>
                 NewIndex(p, i, gone) < NewIndex(p, j, gone)
           /\ \A i \in Nat : NewIndex(p, i, gone) # 0 =>
                 \E k \in 0..i-1 : /\ Append(p, IndexElem(k)) \notin gone
                                   /\ NewIndex(p, k, gone) = NewIndex(p, i, gone) - 1
  <1> DEFINE X == {i \in Nat : Append(p, IndexElem(i)) \in gone}
             before(i) == {j \in 0..i-1 : Append(p, IndexElem(j)) \in gone}
             rank == [i \in Nat |-> NewIndex(p, i, gone)]
  <1>1. ASSUME NEW i \in Nat PROVE IsFiniteSet(before(i)) /\ GoneBefore(p, i, gone) \in Nat
    <2>1. IsFiniteSet(0..i-1)
      BY FS_Interval
    <2>2. before(i) \in SUBSET (0..i-1)
      OBVIOUS
    <2>3. GoneBefore(p, i, gone) = Cardinality(before(i))
      BY DEF GoneBefore
    <2> HIDE DEF before
    <2> QED
      BY <2>1, <2>2, <2>3, FS_Subset, FS_CardinalityType
  <1>2. rank[0] = 0
    <2>1. before(0) = {}
      OBVIOUS
    <2>2. GoneBefore(p, 0, gone) = 0
      BY <2>1, FS_EmptySet DEF GoneBefore
    <2> QED
      BY <2>2 DEF NewIndex
  <1>3. ASSUME NEW i \in Nat
        PROVE  GoneBefore(p, i + 1, gone)
                  = GoneBefore(p, i, gone) + (IF i \in X THEN 1 ELSE 0)
    <2>1. GoneBefore(p, i, gone) = Cardinality(before(i))
      BY DEF GoneBefore
    <2>2. GoneBefore(p, i + 1, gone) = Cardinality(before(i + 1))
      BY DEF GoneBefore
    <2>3. CASE i \in X
      <3>1. before(i + 1) = before(i) \cup {i} /\ i \notin before(i)
        BY <2>3
      <3> HIDE DEF before
      <3>2. Cardinality(before(i) \cup {i}) = Cardinality(before(i)) + 1
        BY <1>1, <3>1, FS_AddElement
      <3> QED
        BY <2>1, <2>2, <2>3, <3>1, <3>2
    <2>4. CASE i \notin X
      <3>1. before(i + 1) = before(i)
        BY <2>4
      <3> HIDE DEF before, X
      <3>2. GoneBefore(p, i + 1, gone) = GoneBefore(p, i, gone)
        BY <2>1, <2>2, <3>1
      <3> QED
        BY <1>1, <2>4, <3>2
    <2> QED
      BY <2>3, <2>4
  <1> HIDE DEF before
  <1>4. \A i \in Nat : rank[i] \in Int
    BY <1>1 DEF NewIndex
  <1>5. ASSUME NEW i \in Nat
        PROVE  rank[i + 1] = rank[i] + (IF i \in X THEN 0 ELSE 1)
    BY <1>1, <1>3 DEF NewIndex
  <1>6. \A i \in Nat : rank[i] = NewIndex(p, i, gone)
    OBVIOUS
  <1>7. \A i \in Nat : i \in X <=> Append(p, IndexElem(i)) \in gone
    OBVIOUS
  <1> HIDE DEF rank, X
  <1>8. Counted(rank, X)
    BY <1>2, <1>4, <1>5 DEF Counted
  <1>9. /\ \A i \in Nat : rank[i] \in Nat
        /\ \A i, j \in Nat : i < j /\ i \notin X => rank[i] < rank[j]
        /\ \A i \in Nat : rank[i] # 0 =>
                 \E k \in 0..i-1 : k \notin X /\ rank[k] = rank[i] - 1
    BY <1>8, ClosingUp, Zenon
  <1>10. ASSUME NEW i \in Nat, NewIndex(p, i, gone) # 0
        PROVE  \E k \in 0..i-1 : /\ Append(p, IndexElem(k)) \notin gone
                                 /\ NewIndex(p, k, gone) = NewIndex(p, i, gone) - 1
    <2>1. PICK k \in 0..i-1 : k \notin X /\ rank[k] = rank[i] - 1
      BY <1>6, <1>9, <1>10
    <2> QED
      BY <1>6, <1>7, <2>1
  <1> QED
    BY <1>6, <1>7, <1>9, <1>10

\* What the element e below p becomes.
NewElem(p, e, gone) == IF IsIndex(e) THEN IndexElem(NewIndex(p, e[2], gone)) ELSE e

\* The elements of positions after the lists are closed up: items stay items, keys keys.
LEMMA NewElements ==
    ASSUME NEW p, NEW e \in Elem, NEW gone
    PROVE  /\ NewElem(p, e, gone) \in Elem
           /\ IsIndex(NewElem(p, e, gone)) <=> IsIndex(e)
           /\ IsIndex(e) => e[2] \in Nat /\ e = IndexElem(e[2])
           /\ IsIndex(e) => NewElem(p, e, gone)[2] = NewIndex(p, e[2], gone)
  <1>1. IsIndex(e) => e[2] \in Nat /\ e = IndexElem(e[2])
    BY DEF Elem, IsIndex, IndexElem
  <1>2. IsIndex(e) => NewIndex(p, e[2], gone) \in Nat
    BY <1>1, NewIndices
  <1> QED
    BY <1>1, <1>2 DEF NewElem, Elem, IsIndex, IndexElem

\* The value moves with the one above it.
LEMMA MovedAt ==
    ASSUME NEW q \in Seq(Elem), NEW gone
    PROVE  /\ Moved(q, gone) \in Seq(Elem)
           /\ Len(Moved(q, gone)) = Len(q)
           /\ \A n \in 1..Len(q) : Moved(q, gone)[n] = NewElem(SubSeq(q, 1, n-1), q[n], gone)
  <1>1. Moved(q, gone) = [n \in 1..Len(q) |-> NewElem(SubSeq(q, 1, n-1), q[n], gone)]
    BY DEF Moved, NewElem, NewIndex
  <1>2. ASSUME NEW n \in 1..Len(q) PROVE NewElem(SubSeq(q, 1, n-1), q[n], gone) \in Elem
    <2>1. q[n] \in Elem
      OBVIOUS
    <2> QED
      BY <2>1, NewElements
  <1>3. Len(q) \in Nat
    OBVIOUS
  <1>4. Moved(q, gone) \in [1..Len(q) -> Elem]
    BY <1>1, <1>2
  <1>5. \A n \in 1..Len(q) : Moved(q, gone)[n] = NewElem(SubSeq(q, 1, n-1), q[n], gone)
    BY <1>1
  <1> QED
    BY <1>3, <1>4, <1>5

\* The parent of a moved position is the moved parent.
LEMMA MovedChild ==
    ASSUME NEW q \in Seq(Elem), NEW gone
    PROVE  /\ q = <<>> <=> Moved(q, gone) = <<>>
           /\ q # <<>> => /\ Front(Moved(q, gone)) = Moved(Front(q), gone)
                          /\ Last(Moved(q, gone)) = NewElem(Front(q), Last(q), gone)
  <1> DEFINE r == Moved(q, gone)
  <1>1. /\ r \in Seq(Elem) /\ Len(r) = Len(q) /\ Len(q) \in Nat
        /\ \A n \in 1..Len(q) : r[n] = NewElem(SubSeq(q, 1, n-1), q[n], gone)
    BY MovedAt
  <1> HIDE DEF r
  <1>2. q = <<>> <=> r = <<>>
    <2>1. \A s \in Seq(Elem) : s = <<>> <=> Len(s) = 0
      OBVIOUS
    <2> QED
      BY <1>1, <2>1
  <1>3. ASSUME q # <<>>
        PROVE  Front(r) = Moved(Front(q), gone) /\ Last(r) = NewElem(Front(q), Last(q), gone)
    <2> DEFINE f == Front(q)
               m == Len(q) - 1
               g == Moved(f, gone)
    <2>1. /\ Len(q) \in Nat \ {0} /\ f \in Seq(Elem) /\ Len(f) = m
          /\ \A i \in 1..m : f[i] = q[i]
          /\ Last(q) = q[Len(q)] /\ m \in 0..Len(q)
      BY <1>3, ChildOf
    <2>2. f = SubSeq(q, 1, m)
      BY DEF Front
    <2>3. /\ Front(r) \in Seq(Elem) /\ Len(Front(r)) = m
          /\ \A i \in 1..m : Front(r)[i] = r[i]
          /\ Last(r) = r[Len(q)]
      BY <1>1, <1>2, <1>3, ChildOf
    <2>4. /\ g \in Seq(Elem) /\ Len(g) = m
          /\ \A i \in 1..m : g[i] = NewElem(SubSeq(f, 1, i-1), f[i], gone)
      BY <2>1, MovedAt
    <2>5. ASSUME NEW i \in 1..m PROVE Front(r)[i] = g[i]
      <3>1. i \in 1..Len(q) /\ i - 1 \in 0..m
        BY <2>1
      <3>2. SubSeq(f, 1, i-1) = SubSeq(q, 1, i-1)
        BY <2>1, <2>2, <3>1, FirstOf
      <3>3. f[i] = q[i]
        BY <2>1
      <3>4. r[i] = NewElem(SubSeq(q, 1, i-1), q[i], gone)
        BY <1>1, <3>1
      <3>5. g[i] = NewElem(SubSeq(f, 1, i-1), f[i], gone)
        BY <2>4
      <3> QED
        BY <2>3, <3>2, <3>3, <3>4, <3>5
    <2> HIDE DEF g
    <2>6. Front(r) = g
      BY <2>3, <2>4, <2>5, SeqEqual
    <2>7. Last(r) = NewElem(f, Last(q), gone)
      BY <1>1, <2>1, <2>2, <2>3
    <2> QED
      BY <2>6, <2>7 DEF g
  <1> QED
    BY <1>2, <1>3 DEF r

\* No two values that stay move to the same place.
LEMMA MovedApart ==
    ASSUME NEW doc, IsTree(doc), NEW gone,
           NEW x \in Remaining(doc, gone), NEW y \in Remaining(doc, gone),
           Moved(x, gone) = Moved(y, gone)
    PROVE  x = y
  <1> DEFINE kept == Remaining(doc, gone)
             Apart(n) == \A p, q \in kept :
                            Len(p) = n /\ Moved(p, gone) = Moved(q, gone) => p = q
             S == {n \in Nat : Apart(n)}
  <1>1. ASSUME NEW q \in kept
        PROVE  /\ q \in Seq(Elem) /\ q \notin gone
               /\ q # <<>> => Front(q) \in kept
    <2>1. q \in DOMAIN doc /\ Spared(q, gone) /\ q \in Seq(Elem)
      BY Enclosing DEF Remaining
    <2>2. q \notin gone
      BY <2>1, SparedAround, PrefixesInside
    <2> QED
      BY <2>1, <2>2, SparedAt, Enclosing DEF Remaining
  <1> HIDE DEF kept
  <1>2. 0 \in S
    <2>1. ASSUME NEW p \in kept, NEW q \in kept, Len(p) = 0, Moved(p, gone) = Moved(q, gone)
          PROVE  p = q
      <3>1. p \in Seq(Elem) /\ q \in Seq(Elem)
        BY <1>1
      <3>2. p = <<>>
        BY <2>1, <3>1
      <3> QED
        BY <2>1, <3>1, <3>2, MovedChild
    <2> QED
      BY <2>1
  <1>3. ASSUME NEW n \in Nat, n \in S PROVE n + 1 \in S
    <2>1. ASSUME NEW p \in kept, NEW q \in kept, Len(p) = n + 1, Moved(p, gone) = Moved(q, gone)
          PROVE  p = q
      <3> DEFINE f == Front(p)
                 d == Last(p)
                 e == Last(q)
      <3>1. p \in Seq(Elem) /\ q \in Seq(Elem) /\ p # <<>>
        BY <1>1, <2>1
      <3>2. q # <<>>
        BY <2>1, <3>1, MovedChild
      <3>3. /\ f \in kept /\ Front(q) \in kept /\ Len(f) = n /\ f \in Seq(Elem)
            /\ d \in Elem /\ e \in Elem
        BY <1>1, <2>1, <3>1, <3>2, ChildOf
      <3>4. Moved(f, gone) = Moved(Front(q), gone)
        BY <2>1, <3>1, <3>2, MovedChild
      <3>5. Front(q) = f
        BY <1>3, <3>3, <3>4
      <3>6. NewElem(f, d, gone) = NewElem(f, e, gone)
        BY <2>1, <3>1, <3>2, <3>5, MovedChild
      <3>7. p = Append(f, d) /\ q = Append(f, e)
        <4>1. ASSUME NEW s \in Seq(Elem), s # <<>> PROVE s = Append(Front(s), Last(s))
          BY <4>1 DEF Front, Last
        <4> QED
          BY <3>1, <3>2, <3>5, <4>1
      <3>8. p \notin gone /\ q \notin gone
        BY <1>1
      <3> HIDE DEF f, d, e
      <3>9. CASE IsIndex(d)
        <4>1. IsIndex(e)
          BY <3>3, <3>6, <3>9, NewElements
        <4>2. /\ d[2] \in Nat /\ e[2] \in Nat /\ d = IndexElem(d[2]) /\ e = IndexElem(e[2])
              /\ NewIndex(f, d[2], gone) = NewIndex(f, e[2], gone)
          BY <3>3, <3>6, <3>9, <4>1, NewElements
        <4>3. NewIndex(f, d[2], gone) \in Nat
          BY <4>2, NewIndices
        <4>4. ~ (d[2] < e[2]) /\ ~ (e[2] < d[2])
          <5>1. /\ Append(f, IndexElem(d[2])) \notin gone
                /\ Append(f, IndexElem(e[2])) \notin gone
            BY <3>7, <3>8, <4>2, Zenon
          <5>2. \A i, j \in Nat : i < j /\ Append(f, IndexElem(i)) \notin gone =>
                                   NewIndex(f, i, gone) < NewIndex(f, j, gone)
            BY NewIndices
          <5> QED
            BY <4>2, <4>3, <5>1, <5>2
        <4>5. d[2] = e[2]
          BY <4>2, <4>4
        <4> QED
          BY <3>7, <4>2, <4>5
      <3>10. CASE ~IsIndex(d)
        <4>1. ~IsIndex(e)
          BY <3>3, <3>6, <3>10, NewElements
        <4> QED
          BY <3>6, <3>7, <3>10, <4>1 DEF NewElem
      <3> QED
        BY <3>9, <3>10
    <2> QED
      BY <2>1
  <1>4. Nat \subseteq S
    <2> HIDE DEF S
    <2> QED
      BY <1>2, <1>3, SetInduction
  <1>5. x \in kept /\ y \in kept /\ Len(x) \in Nat
    BY <1>1 DEF kept
  <1> QED
    BY <1>4, <1>5

\* What is at the new places.
ClosedUp(new, doc, gone) ==
    /\ new = [r \in DOMAIN new |-> new[r]]
    /\ \A r : r \in DOMAIN new <=> \E q \in Remaining(doc, gone) : r = Moved(q, gone)
    /\ \A q \in Remaining(doc, gone) : new[Moved(q, gone)] = doc[q]

\* What Without returns: the positions it keeps, each at its new place.
LEMMA WithoutAt ==
    ASSUME NEW doc, IsTree(doc), NEW gone
    PROVE  ClosedUp(Without(doc, gone), doc, gone)
  <1> DEFINE kept == Remaining(doc, gone)
             origin(r) == CHOOSE q \in kept : Moved(q, gone) = r
             new == [r \in {Moved(q, gone) : q \in kept} |-> doc[origin(r)]]
  <1>1. Without(doc, gone) = new
    BY DEF Without
  <1>2. ASSUME NEW q \in kept PROVE origin(Moved(q, gone)) = q
    <2> DEFINE o == origin(Moved(q, gone))
    <2>1. o \in kept /\ Moved(o, gone) = Moved(q, gone)
      OBVIOUS
    <2> HIDE DEF o
    <2>2. o = q
      BY <2>1, MovedApart
    <2> QED
      BY <2>2 DEF o
  <1> HIDE DEF origin
  <1>3. new = [r \in DOMAIN new |-> new[r]]
    OBVIOUS
  <1>4. \A r : r \in DOMAIN new <=> \E q \in kept : r = Moved(q, gone)
    OBVIOUS
  <1>5. ASSUME NEW q \in kept PROVE new[Moved(q, gone)] = doc[q]
    <2>1. Moved(q, gone) \in {Moved(p, gone) : p \in kept}
      OBVIOUS
    <2> QED
      BY <1>2, <2>1
  <1> HIDE DEF new
  <1>6. ClosedUp(new, doc, gone)
    BY <1>3, <1>4, <1>5 DEF ClosedUp
  <1> QED
    BY <1>1, <1>6

\* If the same values stay, and move to the same places, the result is the same.
LEMMA WithoutSame ==
    ASSUME NEW one, IsTree(one), NEW other, IsTree(other), NEW g, NEW h,
           Remaining(one, g) = Remaining(other, h),
           \A q \in Remaining(one, g) : one[q] = other[q] /\ Moved(q, g) = Moved(q, h)
    PROVE  Without(one, g) = Without(other, h)
  <1> DEFINE a == Without(one, g)
             b == Without(other, h)
  <1>1. ClosedUp(a, one, g) /\ ClosedUp(b, other, h)
    BY WithoutAt
  <1> HIDE DEF a, b
  <1>2. \A r : r \in DOMAIN a <=> \E q \in Remaining(one, g) : r = Moved(q, g)
    BY <1>1 DEF ClosedUp
  <1>3. \A r : r \in DOMAIN b <=> \E q \in Remaining(one, g) : r = Moved(q, g)
    BY <1>1 DEF ClosedUp
  <1>4. DOMAIN a = DOMAIN b
    BY <1>2, <1>3
  <1>5. ASSUME NEW r \in DOMAIN a PROVE a[r] = b[r]
    <2>1. PICK q \in Remaining(one, g) : r = Moved(q, g)
      BY <1>2
    <2>2. a[r] = one[q]
      BY <1>1, <2>1 DEF ClosedUp
    <2>3. b[r] = other[q]
      BY <1>1, <2>1 DEF ClosedUp
    <2> QED
      BY <2>1, <2>2, <2>3
  <1>6. a = [r \in DOMAIN a |-> a[r]] /\ b = [r \in DOMAIN b |-> b[r]]
    BY <1>1 DEF ClosedUp
  <1>7. a = b
    BY <1>4, <1>5, <1>6
  <1> QED
    BY <1>7 DEF a, b

\* The items before an item are there, too.
LEMMA Earlier ==
    ASSUME NEW doc, IsTree(doc), NEW p \in Seq(Elem), NEW i \in Nat,
           Append(p, IndexElem(i)) \in DOMAIN doc, NEW k \in 0..i
    PROVE  Append(p, IndexElem(k)) \in DOMAIN doc
  <1> DEFINE S == {d \in 0..i : Append(p, IndexElem(i - d)) \in DOMAIN doc}
  <1>1. 0 \in S
    <2>1. i - 0 = i /\ 0 \in 0..i
      OBVIOUS
    <2> QED
      BY <2>1
  <1>2. ASSUME NEW d \in 0..i-1, d \in S PROVE d + 1 \in S
    <2> DEFINE e == IndexElem(i - d)
               q == Append(p, e)
    <2>1. i - d \in Nat \ {0} /\ i - (d + 1) = (i - d) - 1 /\ d + 1 \in 0..i
      OBVIOUS
    <2>2. q \in DOMAIN doc
      BY <1>2
    <2>3. e \in Elem /\ IsIndex(e) /\ e[2] = i - d
      BY <2>1 DEF Elem, IndexElem, IsIndex
    <2> HIDE DEF e
    <2>4. q # <<>> /\ Front(q) = p /\ Last(q) = e
      BY <2>3, Appended
    <2> HIDE DEF q
    <2>5. Append(Front(q), IndexElem(Last(q)[2] - 1)) \in DOMAIN doc
      BY <2>1, <2>2, <2>3, <2>4 DEF IsTree, IsDocument
    <2> QED
      BY <2>1, <2>3, <2>4, <2>5
  <1>3. 0..i \subseteq S
    <2> HIDE DEF S
    <2> QED
      BY <1>1, <1>2, UpTo
  <1>4. i - k \in 0..i /\ i - (i - k) = k
    OBVIOUS
  <1>5. i - k \in S
    BY <1>3, <1>4
  <1> QED
    BY <1>4, <1>5

\* The values that stay are around one another, and not gone.
LEMMA RemainingAt ==
    ASSUME NEW doc, IsTree(doc), NEW gone, NEW q \in Remaining(doc, gone)
    PROVE  /\ q \in DOMAIN doc /\ q \in Seq(Elem) /\ Spared(q, gone)
           /\ q # <<>> => Front(q) \in Remaining(doc, gone)
  <1>1. q \in DOMAIN doc /\ Spared(q, gone) /\ q \in Seq(Elem)
    BY Enclosing DEF Remaining
  <1> QED
    BY <1>1, SparedAt, Enclosing DEF Remaining

\* A document whose lists are closed up is a document.
LEMMA WithoutTree ==
    ASSUME NEW doc, IsTree(doc), NEW gone, <<>> \notin gone
    PROVE  IsTree(Without(doc, gone))
  <1> DEFINE new == Without(doc, gone)
             kept == Remaining(doc, gone)
  <1>1. ClosedUp(new, doc, gone)
    BY WithoutAt
  <1> HIDE DEF new
  <1>2. /\ new = [r \in DOMAIN new |-> new[r]]
        /\ \A r : r \in DOMAIN new <=> \E q \in kept : r = Moved(q, gone)
        /\ \A q \in kept : new[Moved(q, gone)] = doc[q]
    BY <1>1 DEF ClosedUp
  <1>3. ASSUME NEW r \in DOMAIN new PROVE r \in Seq(Elem)
    <2>1. PICK q \in kept : r = Moved(q, gone)
      BY <1>2
    <2>2. q \in Seq(Elem)
      BY RemainingAt
    <2> QED
      BY <2>1, <2>2, MovedAt
  <1>4. <<>> \in DOMAIN new
    <2>1. <<>> \in DOMAIN doc /\ <<>> \in Seq(Elem)
      BY DEF IsTree, IsDocument
    <2>2. <<>> \in kept
      BY <2>1, SparedAt DEF Remaining
    <2>3. Moved(<<>>, gone) = <<>>
      BY <2>1, MovedChild
    <2> QED
      BY <1>2, <2>2, <2>3
  <1>5. ASSUME NEW r \in DOMAIN new \ {<<>>}
        PROVE  /\ Front(r) \in DOMAIN new
               /\ new[Front(r)] = IF IsIndex(Last(r)) THEN ListNode ELSE MapNode
               /\ IsIndex(Last(r)) /\ Last(r)[2] # 0 =>
                     Append(Front(r), IndexElem(Last(r)[2] - 1)) \in DOMAIN new
    <2>1. PICK q \in kept : r = Moved(q, gone)
      BY <1>2
    <2> DEFINE f == Front(q)
               e == Last(q)
    <2>2. q \in DOMAIN doc /\ q \in Seq(Elem) /\ q # <<>> /\ f \in kept
      BY <1>5, <2>1, RemainingAt, MovedChild
    <2>3. /\ Front(r) = Moved(f, gone) /\ Last(r) = NewElem(f, e, gone)
          /\ e \in Elem /\ f \in Seq(Elem) /\ q = Append(f, e)
      BY <2>1, <2>2, MovedChild, ChildOf DEF Front, Last
    <2>4. Front(r) \in DOMAIN new /\ new[Front(r)] = doc[f]
      BY <1>2, <2>2, <2>3
    <2>5. doc[f] = IF IsIndex(e) THEN ListNode ELSE MapNode
      BY <2>2, Enclosing
    <2>6. IsIndex(Last(r)) <=> IsIndex(e)
      BY <2>3, NewElements
    <2>7. ASSUME IsIndex(Last(r)), Last(r)[2] # 0
          PROVE  Append(Front(r), IndexElem(Last(r)[2] - 1)) \in DOMAIN new
      <3> DEFINE i == e[2]
                 new1(k) == NewIndex(f, k, gone)
      <3>1. i \in Nat /\ e = IndexElem(i) /\ Last(r)[2] = new1(i)
        BY <2>3, <2>6, <2>7, NewElements
      <3>2. new1(i) # 0
        BY <2>7, <3>1
      <3> HIDE DEF i
      <3>3. PICK k \in 0..i-1 : Append(f, IndexElem(k)) \notin gone /\ new1(k) = new1(i) - 1
        BY <3>1, <3>2, NewIndices
      <3> DEFINE s == Append(f, IndexElem(k))
      <3>4. Append(f, IndexElem(i)) \in DOMAIN doc
        BY <2>2, <2>3, <3>1
      <3>5. s \in DOMAIN doc
        BY <2>3, <3>1, <3>4, Earlier
      <3>6. IndexElem(k) \in Elem /\ IsIndex(IndexElem(k)) /\ IndexElem(k)[2] = k
        BY <3>1 DEF Elem, IndexElem, IsIndex
      <3>7. s \in Seq(Elem) /\ s # <<>> /\ Front(s) = f /\ Last(s) = IndexElem(k)
        BY <2>3, <3>6, Appended
      <3> HIDE DEF s, f
      <3>8. s \in kept
        <4>1. s \notin gone
          BY <3>3 DEF s
        <4>2. Spared(f, gone)
          BY <2>2, RemainingAt
        <4> QED
          BY <3>5, <3>7, <4>1, <4>2, SparedAt DEF Remaining
      <3>9. Moved(s, gone) = Append(Moved(f, gone), IndexElem(new1(k)))
        <4>1. /\ Moved(s, gone) \in Seq(Elem) /\ Moved(s, gone) # <<>>
              /\ Front(Moved(s, gone)) = Moved(f, gone)
              /\ Last(Moved(s, gone)) = NewElem(f, IndexElem(k), gone)
          BY <3>7, MovedAt, MovedChild
        <4>2. NewElem(f, IndexElem(k), gone) = IndexElem(new1(k))
          BY <3>6 DEF NewElem
        <4>3. ASSUME NEW x \in Seq(Elem), x # <<>> PROVE x = Append(Front(x), Last(x))
          BY <4>3 DEF Front, Last
        <4> QED
          BY <4>1, <4>2, <4>3
      <3>10. Moved(s, gone) \in DOMAIN new
        BY <1>2, <3>8
      <3> QED
        BY <2>3, <3>1, <3>3, <3>9, <3>10
    <2> QED
      BY <2>4, <2>5, <2>6, <2>7
  <1>6. IsTree(new)
    BY <1>2, <1>3, <1>4, <1>5 DEF IsTree, IsDocument
  <1> QED
    BY <1>6 DEF new

\* Of a list around a value that stays, the same items go.
LEMMA SameIndices ==
    ASSUME NEW g, NEW h, NEW q \in Seq(Elem),
           \A p \in Seq(Elem), j \in Nat :
              IsPrefix(p, q) => (Append(p, IndexElem(j)) \in g <=> Append(p, IndexElem(j)) \in h)
    PROVE  Moved(q, g) = Moved(q, h)
  <1>1. ASSUME NEW n \in 1..Len(q)
        PROVE  NewElem(SubSeq(q, 1, n-1), q[n], g) = NewElem(SubSeq(q, 1, n-1), q[n], h)
    <2> DEFINE p == SubSeq(q, 1, n-1)
    <2>1. n - 1 \in 0..Len(q) /\ q[n] \in Elem
      OBVIOUS
    <2>2. p \in Seq(Elem) /\ Len(p) = n - 1
      BY <2>1, FirstOf
    <2>3. IsPrefix(p, q)
      BY <2>1, <2>2, PrefixIsFirst
    <2> HIDE DEF p
    <2>4. \A j \in Nat : Append(p, IndexElem(j)) \in g <=> Append(p, IndexElem(j)) \in h
      BY <2>2, <2>3
    <2>5. \A i \in Nat : GoneBefore(p, i, g) = GoneBefore(p, i, h)
      <3>1. ASSUME NEW i \in Nat
            PROVE  {j \in 0..i-1 : Append(p, IndexElem(j)) \in g}
                      = {j \in 0..i-1 : Append(p, IndexElem(j)) \in h}
        BY <2>4
      <3> QED
        BY <3>1 DEF GoneBefore
    <2>6. IsIndex(q[n]) => q[n][2] \in Nat
      BY <2>1, NewElements
    <2>7. NewElem(p, q[n], g) = NewElem(p, q[n], h)
      BY <2>5, <2>6 DEF NewElem, NewIndex
    <2> QED
      BY <2>7 DEF p
  <1> DEFINE a == Moved(q, g)
             b == Moved(q, h)
  <1>2. /\ a \in Seq(Elem) /\ Len(a) = Len(q) /\ b \in Seq(Elem) /\ Len(b) = Len(q)
        /\ \A n \in 1..Len(q) : /\ a[n] = NewElem(SubSeq(q, 1, n-1), q[n], g)
                                /\ b[n] = NewElem(SubSeq(q, 1, n-1), q[n], h)
    BY MovedAt
  <1> HIDE DEF a, b
  <1>3. \A n \in 1..Len(q) : a[n] = b[n]
    BY <1>1, <1>2
  <1>4. a = b
    BY <1>2, <1>3, SeqEqual
  <1> QED
    BY <1>4 DEF a, b
=============================================================================

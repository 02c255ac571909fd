-------------------------- MODULE RoundTrip_proofs --------------------------
(***************************************************************************)
(* The placeholders of a session tell its reference values apart, and what *)
(* its transformers work on, and what is decoded from the text that its    *)
(* replacements have rewritten, stays a document, whatever transformers a  *)
(* test registers and whatever state they find.                            *)
(***************************************************************************)
EXTENDS RoundTrip, JsonPath_proofs

IsSequence(s) == \E n \in Nat : s \in [1..n -> Range(s)]

ContextTypes ==
    /\ DOMAIN replacements = Context /\ replacements = [c \in Context |-> replacements[c]]
    /\ DOMAIN scopedTokens = Context /\ scopedTokens = [c \in Context |-> scopedTokens[c]]
    /\ DOMAIN seenRefs = Context /\ seenRefs = [c \in Context |-> seenRefs[c]]
    /\ \A c \in Context :
          /\ IsSequence(replacements[c])
          /\ scopedTokens[c] \in [DOMAIN scopedTokens[c] -> Nat]

ContextInv ==
    /\ ContextTypes /\ NumbersHandedOut /\ PatternsSeen
    /\ OnePlaceholder /\ PlaceholdersOrdered

-----------------------------------------------------------------------------

\* What Append does to a sequence of anything.
LEMMA AppendAny ==
    ASSUME NEW s, NEW e, IsSequence(s)
    PROVE  /\ IsSequence(Append(s, e))
           /\ Len(s) \in Nat /\ DOMAIN s = 1..Len(s)
           /\ DOMAIN Append(s, e) = 1..Len(s)+1
           /\ \A i \in 1..Len(s) : Append(s, e)[i] = s[i]
           /\ Append(s, e)[Len(s) + 1] = e
<1> DEFINE S == Range(s) \cup {e}
           t == Append(s, e)
<1>1. s \in Seq(S)
  BY DEF IsSequence
<1>2. /\ Len(s) \in Nat /\ DOMAIN s = 1..Len(s)
      /\ t \in Seq(S) /\ Len(t) = Len(s) + 1
      /\ DOMAIN t = 1..Len(s)+1
      /\ \A i \in 1..Len(s) : t[i] = s[i]
      /\ t[Len(s) + 1] = e
  BY <1>1
<1>3. t \in [1..Len(s)+1 -> Range(t)]
  <2> HIDE DEF t, S
  <2>1. t \in [1..Len(s)+1 -> S]
    BY <1>2
  <2>2. \A i \in 1..Len(s)+1 : t[i] \in Range(t)
    BY <2>1 DEF Range
  <2> QED BY <2>1, <2>2
<1> QED BY <1>2, <1>3 DEF IsSequence

\* To show that a value has one placeholder after a step.
LEMMA OneFromEach ==
    ASSUME \A d \in Context : \A i \in DOMAIN replacements'[d] : \A j \in DOMAIN replacements'[d] :
               i # j => (IsReference(replacements'[d][i]) => (IsReference(replacements'[d][j]) =>
                   replacements'[d][i].patterns # replacements'[d][j].patterns))
    PROVE  OnePlaceholder'
  BY SMT DEF OnePlaceholder

\* One more replacement: if it has a number, the number is new in its scope, and if it is
\* a reference, its pattern has just been seen for the first time.
LEMMA AppendKeeps ==
    ASSUME ContextInv, NEW c \in Context, NEW e,
           replacements' = [replacements EXCEPT ![c] = Append(@, e)],
           scopedTokens' = [d \in Context |-> scopedTokens'[d]],
           \A d \in Context \ {c} : scopedTokens'[d] = scopedTokens[d],
           scopedTokens'[c] \in [DOMAIN scopedTokens'[c] -> Nat],
           \A s \in DOMAIN scopedTokens[c] :
               s \in DOMAIN scopedTokens'[c] /\ scopedTokens[c][s] <= scopedTokens'[c][s],
           seenRefs' = [d \in Context |-> seenRefs'[d]],
           \A d \in Context : seenRefs[d] \subseteq seenRefs'[d],
           HasNumber(e) => /\ e.number \in Nat
                           /\ e.scope \in DOMAIN scopedTokens'[c]
                           /\ e.number = scopedTokens'[c][e.scope]
                           /\ e.scope \in DOMAIN scopedTokens[c] =>
                                 scopedTokens[c][e.scope] < e.number,
           IsReference(e) => \E p \in seenRefs'[c] \ seenRefs[c] : e.patterns = {p}
    PROVE  ContextInv'
<1> DEFINE old == replacements[c]
           new == replacements'[c]
           last == Len(old) + 1
<1> USE DEF ContextInv, ContextTypes, IsReference, HasNumber
<1>1. /\ new = Append(old, e)
      /\ \A d \in Context \ {c} : replacements'[d] = replacements[d]
      /\ DOMAIN replacements' = Context
      /\ replacements' = [d \in Context |-> replacements'[d]]
  OBVIOUS
<1>2. /\ IsSequence(new) /\ Len(old) \in Nat /\ DOMAIN old = 1..Len(old)
      /\ DOMAIN new = 1..last
      /\ \A i \in 1..Len(old) : new[i] = old[i]
      /\ new[last] = e
  BY <1>1, AppendAny
<1>3. \A i \in DOMAIN new : \/ i \in DOMAIN old /\ new[i] = old[i]
                            \/ i = last /\ new[i] = e
  BY <1>2
<1>4. ContextTypes'
  <2>1. ASSUME NEW d \in Context
        PROVE  IsSequence(replacements[d])'
    BY <1>1, <1>2 DEF IsSequence
  <2>2. ASSUME NEW d \in Context
        PROVE  scopedTokens'[d] \in [DOMAIN scopedTokens'[d] -> Nat]
    OBVIOUS
  <2> QED BY <1>1, <2>1, <2>2
<1>5. NumbersHandedOut'
  <2> SUFFICES ASSUME NEW d \in Context, NEW i \in DOMAIN replacements'[d],
                      HasNumber(replacements'[d][i])
               PROVE  /\ replacements'[d][i].number \in Nat
                      /\ replacements'[d][i].scope \in DOMAIN scopedTokens'[d]
                      /\ replacements'[d][i].number <= scopedTokens'[d][replacements'[d][i].scope]
    BY Zenon DEF NumbersHandedOut
  <2>1. CASE d # c
    BY <2>1, <1>1 DEF NumbersHandedOut
  <2>2. CASE d = c /\ i \in DOMAIN old /\ new[i] = old[i]
    <3>1. /\ old[i].number \in Nat /\ old[i].scope \in DOMAIN scopedTokens[c]
          /\ old[i].number <= scopedTokens[c][old[i].scope]
      BY <2>2 DEF NumbersHandedOut
    <3>2. /\ scopedTokens[c][old[i].scope] \in Nat
          /\ scopedTokens'[c][old[i].scope] \in Nat
          /\ scopedTokens[c][old[i].scope] <= scopedTokens'[c][old[i].scope]
      BY <3>1
    <3> QED BY <2>2, <3>1, <3>2
  <2>3. CASE d = c /\ new[i] = e
    BY <2>3
  <2> QED BY <2>1, <2>2, <2>3, <1>3
<1>6. PatternsSeen'
  <2> SUFFICES ASSUME NEW d \in Context, NEW i \in DOMAIN replacements'[d],
                      IsReference(replacements'[d][i])
               PROVE  \E p \in seenRefs'[d] : replacements'[d][i].patterns = {p}
    BY Zenon DEF PatternsSeen
  <2>1. CASE d # c
    <3>1. replacements'[d] = replacements[d] /\ seenRefs[d] \subseteq seenRefs'[d]
      BY <2>1, <1>1
    <3>2. i \in DOMAIN replacements[d] /\ IsReference(replacements[d][i])
      BY <3>1
    <3>3. \E p \in seenRefs[d] : replacements[d][i].patterns = {p}
      BY <3>2, Zenon DEF PatternsSeen
    <3> QED BY <3>1, <3>3
  <2>2. CASE d = c /\ i \in DOMAIN old /\ new[i] = old[i]
    <3>1. \E p \in seenRefs[c] : old[i].patterns = {p}
      BY <2>2 DEF PatternsSeen
    <3> QED BY <2>2, <3>1
  <2>3. CASE d = c /\ new[i] = e
    BY <2>3
  <2> QED BY <2>1, <2>2, <2>3, <1>3
<1>7. OnePlaceholder'
  <2>1. ASSUME NEW i \in DOMAIN old, IsReference(old[i]), IsReference(e)
        PROVE  old[i].patterns # e.patterns
    <3>1. PICK p \in seenRefs[c] : old[i].patterns = {p}
      BY <2>1 DEF PatternsSeen
    <3>2. PICK q \in seenRefs'[c] \ seenRefs[c] : e.patterns = {q}
      BY <2>1
    <3> QED BY <3>1, <3>2
  <2> SUFFICES ASSUME NEW d \in Context, NEW i \in DOMAIN replacements'[d],
                      NEW j \in DOMAIN replacements'[d], i # j,
                      IsReference(replacements'[d][i]), IsReference(replacements'[d][j])
               PROVE  replacements'[d][i].patterns # replacements'[d][j].patterns
    BY OneFromEach
  <2>2. CASE d # c
    BY <2>2, <1>1 DEF OnePlaceholder
  <2>3. CASE d = c
    <3>1. CASE i \in DOMAIN old /\ j \in DOMAIN old /\ new[i] = old[i] /\ new[j] = old[j]
      BY <2>3, <3>1 DEF OnePlaceholder
    <3>2. CASE i = last /\ new[i] = e /\ j \in DOMAIN old /\ new[j] = old[j]
      BY <2>1, <2>3, <3>2
    <3>3. CASE j = last /\ new[j] = e /\ i \in DOMAIN old /\ new[i] = old[i]
      BY <2>1, <2>3, <3>3
    <3> QED BY <1>3, <2>3, <3>1, <3>2, <3>3
  <2> QED BY <2>2, <2>3
<1>8. PlaceholdersOrdered'
  <2>1. ASSUME NEW i \in DOMAIN old, HasNumber(old[i]), HasNumber(e), old[i].scope = e.scope
        PROVE  old[i].number < e.number
    <3>1. /\ old[i].number \in Nat /\ e.scope \in DOMAIN scopedTokens[c]
          /\ old[i].number <= scopedTokens[c][e.scope]
      BY <2>1 DEF NumbersHandedOut
    <3>2. scopedTokens[c][e.scope] \in Nat /\ e.number \in Nat
      BY <2>1, <3>1
    <3> QED BY <2>1, <3>1, <3>2
  <2> SUFFICES ASSUME NEW d \in Context, NEW i \in DOMAIN replacements'[d],
                      NEW j \in DOMAIN replacements'[d], i < j,
                      HasNumber(replacements'[d][i]), HasNumber(replacements'[d][j]),
                      replacements'[d][i].scope = replacements'[d][j].scope
               PROVE  replacements'[d][i].number < replacements'[d][j].number
    BY ZenonT(60) DEF PlaceholdersOrdered
  <2>2. CASE d # c
    BY <2>2, <1>1 DEF PlaceholdersOrdered
  <2>3. CASE d = c
    <3>1. i \in DOMAIN old /\ new[i] = old[i]
      BY <1>2, <2>3
    <3>2. CASE j \in DOMAIN old /\ new[j] = old[j]
      BY <2>3, <3>1, <3>2 DEF PlaceholdersOrdered
    <3>3. CASE j = last /\ new[j] = e
      BY <2>1, <2>3, <3>1, <3>3
    <3> QED BY <1>3, <2>3, <3>2, <3>3
  <2> QED BY <2>2, <2>3
<1> QED BY <1>4, <1>5, <1>6, <1>7, <1>8

\* A numbered replacement whose pattern, if it is a reference, was not seen before.
LEMMA NumberedKeeps ==
    ASSUME ContextInv,
           NEW c \in Context, NEW pattern, NEW scope, NEW origin,
           Numbered(c, pattern, scope, origin),
           \/ origin = "numbered" /\ seenRefs' = seenRefs
           \/ /\ origin = "reference" /\ pattern \notin seenRefs[c]
              /\ seenRefs' = [seenRefs EXCEPT ![c] = @ \cup {pattern}]
    PROVE  ContextInv'
<1> DEFINE n == NextNumber(c, scope)
           e == [origin |-> origin, patterns |-> {pattern},
                 with |-> Placeholder(scope, n), scope |-> scope, number |-> n]
           tokens == [s \in DOMAIN scopedTokens[c] \cup {scope} |->
                         IF s = scope THEN n ELSE scopedTokens[c][s]]
<1>1. /\ replacements' = [replacements EXCEPT ![c] = Append(@, e)]
      /\ scopedTokens' = [scopedTokens EXCEPT ![c] = tokens]
  BY DEF Numbered
<1>2. /\ n \in Nat
      /\ scope \in DOMAIN scopedTokens[c] => n = scopedTokens[c][scope] + 1
      /\ \A s \in DOMAIN scopedTokens[c] : scopedTokens[c][s] \in Nat
  BY DEF NextNumber, ContextInv, ContextTypes
<1>3. /\ e.origin = origin /\ e.patterns = {pattern} /\ e.scope = scope /\ e.number = n
  OBVIOUS
<1> HIDE DEF n, e
<1>4. /\ tokens \in [DOMAIN tokens -> Nat] /\ scope \in DOMAIN tokens /\ tokens[scope] = n
      /\ \A s \in DOMAIN scopedTokens[c] : s \in DOMAIN tokens /\ scopedTokens[c][s] <= tokens[s]
  BY <1>2
<1> HIDE DEF tokens
<1>5. /\ scopedTokens' = [d \in Context |-> scopedTokens'[d]]
      /\ \A d \in Context \ {c} : scopedTokens'[d] = scopedTokens[d]
      /\ scopedTokens'[c] = tokens
  BY <1>1 DEF ContextInv, ContextTypes
<1>6. /\ seenRefs' = [d \in Context |-> seenRefs'[d]]
      /\ \A d \in Context : seenRefs[d] \subseteq seenRefs'[d]
  BY DEF ContextInv, ContextTypes
<1>7. HasNumber(e) => /\ e.number \in Nat /\ e.scope \in DOMAIN scopedTokens'[c]
                      /\ e.number = scopedTokens'[c][e.scope]
                      /\ e.scope \in DOMAIN scopedTokens[c] =>
                            scopedTokens[c][e.scope] < e.number
  BY <1>2, <1>3, <1>4, <1>5
<1>8. IsReference(e) => \E p \in seenRefs'[c] \ seenRefs[c] : e.patterns = {p}
  <2> SUFFICES ASSUME origin = "reference"
               PROVE  pattern \in seenRefs'[c] \ seenRefs[c]
    BY <1>3 DEF IsReference
  <2> QED BY DEF ContextInv, ContextTypes
<1> QED BY <1>1, <1>4, <1>5, <1>6, <1>7, <1>8, AppendKeeps

\* A replacement that has no number.
LEMMA PatternsKeep ==
    ASSUME ContextInv,
           NEW c \in Context, NEW patterns, NEW with, RegisterPatterns(c, patterns, with)
    PROVE  ContextInv'
<1> DEFINE e == [origin |-> "pattern", patterns |-> patterns, with |-> with,
                 scope |-> Quote, number |-> 0]
<1>1. /\ replacements' = [replacements EXCEPT ![c] = Append(@, e)]
      /\ scopedTokens' = scopedTokens /\ seenRefs' = seenRefs
  BY DEF RegisterPatterns
<1>2. ~IsReference(e) /\ ~HasNumber(e)
  BY DEF IsReference, HasNumber
<1> HIDE DEF e
<1>3. /\ scopedTokens' = [d \in Context |-> scopedTokens'[d]]
      /\ seenRefs' = [d \in Context |-> seenRefs'[d]]
      /\ scopedTokens'[c] \in [DOMAIN scopedTokens'[c] -> Nat]
  BY <1>1 DEF ContextInv, ContextTypes
<1>4. \A s \in DOMAIN scopedTokens[c] :
         s \in DOMAIN scopedTokens'[c] /\ scopedTokens[c][s] <= scopedTokens'[c][s]
  BY <1>1 DEF ContextInv, ContextTypes
<1> QED BY <1>1, <1>2, <1>3, <1>4, AppendKeeps

\* A step that leaves the placeholders alone.
LEMMA StutterKeeps ==
    ASSUME ContextInv, UNCHANGED <<replacements, scopedTokens, seenRefs>>
    PROVE  ContextInv'
BY DEF ContextInv, ContextTypes, NumbersHandedOut, PatternsSeen, OnePlaceholder,
       PlaceholdersOrdered

\* Registering a reference keeps the placeholders in order.
LEMMA ReferenceKeeps ==
    ASSUME ContextInv,
           NEW c \in Context, NEW value, NEW scope, RegisterReference(c, value, scope)
    PROVE  ContextInv'
<1> DEFINE pattern == QuoteEscaped(value[2])
<1>1. CASE ~IsString(value)
  BY <1>1, StutterKeeps DEF RegisterReference, Errorf
<1>2. CASE IsString(value) /\ pattern \in seenRefs[c]
  BY <1>2, StutterKeeps DEF RegisterReference, context
<1>3. CASE IsString(value) /\ pattern \notin seenRefs[c]
  <2>1. /\ seenRefs' = [seenRefs EXCEPT ![c] = @ \cup {pattern}]
        /\ Numbered(c, pattern, scope, "reference")
        /\ errs' = errs
    BY <1>3 DEF RegisterReference
  <2> HIDE DEF pattern
  <2> QED BY <1>3, <2>1, NumberedKeeps
<1> QED BY <1>1, <1>2, <1>3

-----------------------------------------------------------------------------

\* Every step of the two runs does one thing to one context, or nothing.
LEMMA StepKeeps == ContextInv /\ [Next]_vars => ContextInv'
<1> SUFFICES ASSUME ContextInv, [Next]_vars PROVE ContextInv'
  OBVIOUS
<1>1. CASE UNCHANGED vars
  BY <1>1, StutterKeeps DEF vars, context
<1>2. CASE Record \/ Verify \/ RejectPaths \/ Compare
  BY <1>2, StutterKeeps DEF Record, Verify, RejectPaths, Compare, BeginTransform, context
<1>3. ASSUME NEW c \in Context, Return(c) PROVE ContextInv'
  BY <1>3, StutterKeeps DEF Return, Serialize, context
<1>4. ASSUME NEW c \in Context, Transform(c) PROVE ContextInv'
  <2>1. CASE MatchKeyValues(c)
    BY <2>1, StutterKeeps DEF MatchKeyValues, Errorf, context
  <2>2. CASE MatchJSONPath(c)
    BY <2>2, StutterKeeps DEF MatchJSONPath, Errorf, context
  <2>3. CASE HandleMatch(c)
    <3>1. \/ \E value, scope : RegisterReference(c, value, scope)
          \/ UNCHANGED context
      BY <2>3 DEF HandleMatch
    <3> QED BY <3>1, ReferenceKeeps, StutterKeeps DEF context
  <2>4. CASE RegisterPattern(c)
    BY <2>4, PatternsKeep, StutterKeeps DEF RegisterPattern, Errorf
  <2>5. CASE RunGeneric(c)
    BY <2>5, NumberedKeeps DEF RunGeneric, RegisterNumbered
  <2>6. CASE SortLists(c)
    BY <2>6, StutterKeeps DEF SortLists, Errorf, context
  <2>7. CASE RewriteState(c)
    BY <2>7, StutterKeeps DEF RewriteState, context
  <2> QED BY <1>4, <2>1, <2>2, <2>3, <2>4, <2>5, <2>6, <2>7 DEF Transform, TransformStep
<1> QED BY <1>1, <1>2, <1>3, <1>4 DEF Next

\* No placeholders to begin with.
LEMMA InitInv == Init => ContextInv
<1> SUFFICES ASSUME Init PROVE ContextInv
  OBVIOUS
<1>1. /\ replacements = [c \in Context |-> <<>>]
      /\ scopedTokens = [c \in Context |-> [scope \in {} |-> 0]]
      /\ seenRefs = [c \in Context |-> {}]
  BY DEF Init, TransformInit, ContextInit
<1>2. IsSequence(<<>>)
  <2>1. <<>> \in [1..0 -> Range(<<>>)]
    OBVIOUS
  <2> QED BY <2>1 DEF IsSequence
<1>3. \A c \in Context : DOMAIN replacements[c] = {}
  BY <1>1
<1>4. ContextTypes
  BY <1>1, <1>2 DEF ContextTypes
<1> QED BY <1>3, <1>4 DEF ContextInv, NumbersHandedOut, PatternsSeen, OnePlaceholder,
                       PlaceholdersOrdered

\* A reference value never has two placeholders, in any test.
THEOREM OneEach == Spec => []OnePlaceholder
<1>1. ContextInv => OnePlaceholder
  BY DEF ContextInv
<1> QED BY <1>1, InitInv, StepKeeps, PTL DEF Spec

\* Two values never share a placeholder, and placeholders are numbered in the order in
\* which their values are found, in any test.
THEOREM NumbersTellApart == Spec => []PlaceholdersOrdered
<1>1. ContextInv => PlaceholdersOrdered
  BY DEF ContextInv
<1> QED BY <1>1, InitInv, StepKeeps, PTL DEF Spec

-----------------------------------------------------------------------------
(* Orders. *)

\* The pairs of R put the elements of S in a strict total order.
TotalOrder(S, R) ==
    /\ \A x \in S : <<x, x>> \notin R
    /\ \A x, y \in S : x # y => <<x, y>> \in R \/ <<y, x>> \in R
    /\ \A x, y, z \in S : <<x, y>> \in R /\ <<y, z>> \in R => <<x, z>> \in R

\* The elements of S, each of them once, in the order of R.
Sequenced(s, S, R) ==
    /\ Cardinality(S) \in Nat /\ s \in [1..Cardinality(S) -> S]
    /\ \A x \in S : \E i \in 1..Cardinality(S) : s[i] = x
    /\ \A i, j \in 1..Cardinality(S) : i < j => <<s[i], s[j]>> \in R

\* Ordered puts a finite set in a total order.
LEMMA OrderedAt ==
    ASSUME NEW S, IsFiniteSet(S), NEW R, TotalOrder(S, R)
    PROVE  Sequenced(Ordered(S, R), S, R)
  <1> DEFINE N == Cardinality(S)
             before(x) == {y \in S : <<y, x>> \in R}
             place == [x \in S |-> Cardinality({y \in S : <<y, x>> \in R}) + 1]
             s == Ordered(S, R)
  <1>1. s = [i \in 1..N |-> CHOOSE x \in S : place[x] = i]
    BY DEF Ordered
  <1>2. N \in Nat
    BY FS_CardinalityType
  <1> HIDE DEF s, N
  <1>3. ASSUME NEW x \in S
        PROVE  /\ IsFiniteSet(before(x)) /\ Cardinality(before(x)) \in Nat
               /\ Cardinality(before(x)) < N
    <2>1. before(x) \subseteq S /\ x \notin before(x)
      BY DEF TotalOrder
    <2> HIDE DEF before
    <2>2. IsFiniteSet(before(x)) /\ Cardinality(before(x)) <= N
      BY <2>1, FS_Subset DEF N
    <2>3. Cardinality(before(x)) # N
      BY <2>1, FS_Subset DEF N
    <2>4. Cardinality(before(x)) \in Nat
      BY <2>2, FS_CardinalityType
    <2> QED
      BY <1>2, <2>2, <2>3, <2>4
  <1>4. ASSUME NEW x \in S, NEW y \in S, <<x, y>> \in R
        PROVE  Cardinality(before(x)) < Cardinality(before(y))
    <2>1. before(x) \subseteq before(y) /\ x \in before(y) /\ x \notin before(x)
      BY <1>4 DEF TotalOrder
    <2>2. /\ IsFiniteSet(before(x)) /\ Cardinality(before(x)) \in Nat
          /\ IsFiniteSet(before(y)) /\ Cardinality(before(y)) \in Nat
      BY <1>3
    <2> HIDE DEF before
    <2>3. /\ Cardinality(before(x)) <= Cardinality(before(y))
          /\ Cardinality(before(x)) # Cardinality(before(y))
      BY <2>1, <2>2, FS_Subset
    <2> QED
      BY <2>2, <2>3
  <1>5. \A x \in S : place[x] = Cardinality(before(x)) + 1
    OBVIOUS
  <1> HIDE DEF before
  <1>6. place \in [S -> 1..N]
    <2>1. ASSUME NEW x \in S PROVE place[x] \in 1..N
      BY <1>2, <1>3, <1>5
    <2> QED
      BY <2>1
  <1>7. \A x, y \in S : <<x, y>> \in R => place[x] < place[y]
    BY <1>3, <1>4, <1>5
  <1> HIDE DEF place
  <1>8. place \in Injection(S, 1..N)
    <2>1. ASSUME NEW x \in S, NEW y \in S, x # y PROVE place[x] # place[y]
      <3>1. <<x, y>> \in R \/ <<y, x>> \in R
        BY <2>1 DEF TotalOrder
      <3> QED
        BY <1>6, <1>7, <3>1
    <2> QED
      BY <1>6, <2>1 DEF Injection, IsInjective
  <1>9. place \in Surjection(S, 1..N)
    <2> DEFINE T == 1..N
    <2>1. IsFiniteSet(T) /\ Cardinality(T) = N
      BY <1>2, FS_Interval
    <2>2. place \in Injection(S, T)
      BY <1>8
    <2> HIDE DEF T
    <2>3. (Cardinality(S) = Cardinality(T)) <=> place \in Surjection(S, T)
      BY <2>1, <2>2, FS_Injection, Zenon
    <2>4. place \in Surjection(S, T)
      BY <2>1, <2>3 DEF N
    <2> QED
      BY <2>4 DEF T
  <1>10. \A i \in 1..N : \E x \in S : place[x] = i
    BY <1>9 DEF Surjection
  <1>11. \A i \in 1..N : s[i] \in S /\ place[s[i]] = i
    BY <1>1, <1>10
  <1>12. s \in [1..N -> S]
    BY <1>1, <1>11
  <1>13. ASSUME NEW x \in S PROVE \E i \in 1..N : s[i] = x
    <2>1. place[x] \in 1..N
      BY <1>6
    <2>2. place[s[place[x]]] = place[x] /\ s[place[x]] \in S
      BY <1>11, <2>1
    <2>3. s[place[x]] = x
      BY <1>6, <1>8, <2>2 DEF Injection, IsInjective
    <2> QED
      BY <2>1, <2>3
  <1>14. ASSUME NEW i \in 1..N, NEW j \in 1..N, i < j PROVE <<s[i], s[j]>> \in R
    <2>1. s[i] \in S /\ s[j] \in S /\ place[s[i]] = i /\ place[s[j]] = j
      BY <1>11
    <2>2. s[i] # s[j] /\ ~(place[s[j]] < place[s[i]])
      BY <1>14, <2>1
    <2> QED
      BY <1>7, <2>1, <2>2 DEF TotalOrder
  <1> QED
    BY <1>2, <1>12, <1>13, <1>14 DEF Sequenced, s, N

-----------------------------------------------------------------------------
(* Sequences over elements in a total order come in one, too. *)

\* p comes before q because of their elements after the first n.
SplitAt(R, p, q, n) ==
    /\ n \in 0..Len(p) /\ n \in 0..Len(q) /\ \A i \in 1..n : p[i] = q[i]
    /\ n < Len(q)
    /\ n < Len(p) => <<p[n + 1], q[n + 1]>> \in R

Lexicographic(R, p, q) == \E n \in Nat : SplitAt(R, p, q, n)

\* The common beginning of two sequences.
LEMMA CommonStart ==
    ASSUME NEW S, NEW p \in Seq(S), NEW q \in Seq(S), p # q
    PROVE  \E n \in Nat : /\ n \in 0..Len(p) /\ n \in 0..Len(q) /\ \A i \in 1..n : p[i] = q[i]
                          /\ n < Len(p) \/ n < Len(q)
                          /\ n < Len(p) /\ n < Len(q) => p[n + 1] # q[n + 1]
  <1> DEFINE differ(i) == i > Len(p) \/ i > Len(q) \/ p[i] # q[i]
             T == {i \in Nat : i > 0 /\ differ(i)}
  <1>1. Len(p) \in Nat /\ Len(q) \in Nat
    OBVIOUS
  <1>2. Len(p) + 1 \in T
    BY <1>1
  <1>3. PICK k \in T : \A y \in T : k <= y
    BY <1>2, LeastNumber
  <1> DEFINE n == k - 1
  <1>4. n \in Nat /\ n + 1 = k /\ k \in Nat
    BY <1>3
  <1>5. \A i \in 1..n : ~differ(i)
    BY <1>3, <1>4
  <1>6. n \in 0..Len(p) /\ n \in 0..Len(q) /\ \A i \in 1..n : p[i] = q[i]
    <2>1. n = 0 \/ n \in 1..n
      BY <1>4
    <2> QED
      BY <1>1, <1>4, <1>5, <2>1
  <1>7. differ(n + 1)
    BY <1>3, <1>4
  <1> HIDE DEF n
  <1>8. n < Len(p) \/ n < Len(q)
    <2>1. ASSUME n = Len(p), n = Len(q) PROVE FALSE
      BY <1>6, <2>1, SeqEqual
    <2> QED
      BY <1>1, <1>6, <2>1
  <1> QED
    BY <1>1, <1>4, <1>6, <1>7, <1>8

\* Sequences over elements in a strict total order are in one.
LEMMA LexicographicOrder ==
    ASSUME NEW S, NEW R, TotalOrder(S, R)
    PROVE  /\ \A p \in Seq(S) : ~Lexicographic(R, p, p)
           /\ \A p, q \in Seq(S) : p # q => Lexicographic(R, p, q) \/ Lexicographic(R, q, p)
           /\ \A p, q, r \in Seq(S) :
                 Lexicographic(R, p, q) /\ Lexicographic(R, q, r) => Lexicographic(R, p, r)
  <1>1. ASSUME NEW p \in Seq(S), NEW n \in Nat, SplitAt(R, p, p, n) PROVE FALSE
    <2>1. Len(p) \in Nat /\ n < Len(p) /\ <<p[n + 1], p[n + 1]>> \in R
      BY <1>1 DEF SplitAt
    <2>2. n + 1 \in 1..Len(p) /\ p[n + 1] \in S
      BY <2>1
    <2> QED
      BY <2>1, <2>2 DEF TotalOrder
  <1>2. ASSUME NEW p \in Seq(S), NEW q \in Seq(S), p # q
        PROVE  Lexicographic(R, p, q) \/ Lexicographic(R, q, p)
    <2>1. PICK n \in Nat : /\ n \in 0..Len(p) /\ n \in 0..Len(q) /\ \A i \in 1..n : p[i] = q[i]
                           /\ n < Len(p) \/ n < Len(q)
                           /\ n < Len(p) /\ n < Len(q) => p[n + 1] # q[n + 1]
      BY <1>2, CommonStart
    <2>2. CASE n < Len(p) /\ n < Len(q)
      <3>1. p[n + 1] \in S /\ q[n + 1] \in S /\ p[n + 1] # q[n + 1]
        BY <2>1, <2>2
      <3>2. <<p[n + 1], q[n + 1]>> \in R \/ <<q[n + 1], p[n + 1]>> \in R
        BY <3>1 DEF TotalOrder
      <3> QED
        BY <2>1, <2>2, <3>2 DEF Lexicographic, SplitAt
    <2>3. CASE ~(n < Len(p))
      BY <2>1, <2>3 DEF Lexicographic, SplitAt
    <2>4. CASE ~(n < Len(q))
      BY <2>1, <2>4 DEF Lexicographic, SplitAt
    <2> QED
      BY <2>2, <2>3, <2>4
  <1>3. ASSUME NEW p \in Seq(S), NEW q \in Seq(S), NEW r \in Seq(S),
               NEW n \in Nat, SplitAt(R, p, q, n), NEW m \in Nat, SplitAt(R, q, r, m)
        PROVE  Lexicographic(R, p, r)
    <2>1. /\ n \in 0..Len(p) /\ n \in 0..Len(q) /\ \A i \in 1..n : p[i] = q[i]
          /\ n < Len(q) /\ (n < Len(p) => <<p[n + 1], q[n + 1]>> \in R)
          /\ m \in 0..Len(q) /\ m \in 0..Len(r) /\ \A i \in 1..m : q[i] = r[i]
          /\ m < Len(r) /\ (m < Len(q) => <<q[m + 1], r[m + 1]>> \in R)
          /\ Len(p) \in Nat /\ Len(q) \in Nat /\ Len(r) \in Nat
      BY <1>3 DEF SplitAt
    <2>2. CASE n < m
      <3>1. n + 1 \in 1..m /\ q[n + 1] = r[n + 1] /\ \A i \in 1..n : p[i] = r[i]
        BY <2>1, <2>2
      <3>2. SplitAt(R, p, r, n)
        BY <2>1, <2>2, <3>1 DEF SplitAt
      <3> QED
        BY <3>2 DEF Lexicographic
    <2>3. CASE m < n
      <3>1. m + 1 \in 1..n /\ p[m + 1] = q[m + 1] /\ \A i \in 1..m : p[i] = r[i]
        BY <2>1, <2>3
      <3>2. SplitAt(R, p, r, m)
        BY <2>1, <2>3, <3>1 DEF SplitAt
      <3> QED
        BY <3>2 DEF Lexicographic
    <2>4. CASE n = m
      <3>1. \A i \in 1..n : p[i] = r[i]
        BY <2>1, <2>4
      <3>2. ASSUME n < Len(p) PROVE <<p[n + 1], r[n + 1]>> \in R
        <4>1. p[n + 1] \in S /\ q[n + 1] \in S /\ r[n + 1] \in S
          BY <2>1, <2>4, <3>2
        <4>2. <<p[n + 1], q[n + 1]>> \in R /\ <<q[n + 1], r[n + 1]>> \in R
          BY <2>1, <2>4, <3>2
        <4> QED
          BY <4>1, <4>2 DEF TotalOrder
      <3>3. SplitAt(R, p, r, n)
        BY <2>1, <2>4, <3>1, <3>2 DEF SplitAt
      <3> QED
        BY <3>3 DEF Lexicographic
    <2> QED
      BY <2>2, <2>3, <2>4
  <1> QED
    BY <1>1, <1>2, <1>3 DEF Lexicographic

\* Lexicographic is the order of the model.
LEMMA LexicographicAt ==
    ASSUME NEW S, NEW R, NEW p \in Seq(S), NEW q \in Seq(S)
    PROVE  Lexicographic(R, p, q) <=>
              \/ IsStrictPrefix(p, q)
              \/ \E n \in DOMAIN p \cap DOMAIN q :
                    SubSeq(p, 1, n - 1) = SubSeq(q, 1, n - 1) /\ <<p[n], q[n]>> \in R
  <1>1. Len(p) \in Nat /\ Len(q) \in Nat /\ DOMAIN p = 1..Len(p) /\ DOMAIN q = 1..Len(q)
    OBVIOUS
  <1>0. Len(p) \in Nat /\ Len(q) \in Nat
    OBVIOUS
  <1>2. ASSUME NEW n \in Nat, SplitAt(R, p, q, n), n = Len(p) PROVE IsStrictPrefix(p, q)
    <2>1. Len(p) < Len(q) /\ \A i \in 1..Len(p) : p[i] = q[i]
      BY <1>1, <1>2 DEF SplitAt
    <2>2. IsPrefix(p, q)
      BY <1>1, <2>1, PrefixAt
    <2> QED
      BY <2>1, <2>2 DEF IsStrictPrefix
  <1>3. ASSUME NEW n \in 0..Len(p), n <= Len(q)
        PROVE  SubSeq(p, 1, n) = SubSeq(q, 1, n) <=> \A i \in 1..n : p[i] = q[i]
    <2>1. /\ SubSeq(p, 1, n) \in Seq(S) /\ Len(SubSeq(p, 1, n)) = n
          /\ SubSeq(q, 1, n) \in Seq(S) /\ Len(SubSeq(q, 1, n)) = n
      BY <1>1, <1>3, FirstOf
    <2>2. \A i \in 1..n : SubSeq(p, 1, n)[i] = p[i] /\ SubSeq(q, 1, n)[i] = q[i]
      BY <1>1, <1>3
    <2>3. ASSUME \A i \in 1..n : p[i] = q[i] PROVE SubSeq(p, 1, n) = SubSeq(q, 1, n)
      <3> DEFINE x == SubSeq(p, 1, n)
                 y == SubSeq(q, 1, n)
      <3>1. /\ x \in Seq(S) /\ y \in Seq(S) /\ Len(x) = Len(y)
            /\ \A i \in 1..Len(x) : x[i] = y[i]
        BY <2>1, <2>2, <2>3
      <3> HIDE DEF x, y
      <3>2. x = y
        BY <3>1, SeqEqual
      <3> QED
        BY <3>2 DEF x, y
    <2> QED
      BY <2>2, <2>3
  <1>4. ASSUME NEW n \in Nat, SplitAt(R, p, q, n), n # Len(p)
        PROVE  \E k \in DOMAIN p \cap DOMAIN q :
                    SubSeq(p, 1, k - 1) = SubSeq(q, 1, k - 1) /\ <<p[k], q[k]>> \in R
    <2> DEFINE k == n + 1
    <2>0. /\ n \in 0..Len(p) /\ n \in 0..Len(q) /\ \A i \in 1..n : p[i] = q[i]
          /\ n < Len(q) /\ (n < Len(p) => <<p[k], q[k]>> \in R)
      BY <1>4 DEF SplitAt
    <2>1. /\ k \in 1..Len(p) /\ k \in 1..Len(q) /\ k - 1 = n
          /\ n \in 0..Len(p) /\ n <= Len(q) /\ n < Len(p)
      BY <1>0, <1>4, <2>0
    <2>3. <<p[k], q[k]>> \in R
      BY <2>0, <2>1, Zenon
    <2>2. SubSeq(p, 1, n) = SubSeq(q, 1, n)
      BY <1>3, <2>0, <2>1
    <2> HIDE DEF k
    <2> QED
      BY <1>1, <2>1, <2>2, <2>3
  <1>5. ASSUME NEW k \in 1..Len(p), k \in 1..Len(q),
               SubSeq(p, 1, k - 1) = SubSeq(q, 1, k - 1), <<p[k], q[k]>> \in R
        PROVE  SplitAt(R, p, q, k - 1)
    <2> DEFINE n == k - 1
    <2>1. n \in 0..Len(p) /\ n \in 0..Len(q) /\ n < Len(q) /\ n <= Len(q) /\ n + 1 = k
      BY <1>1, <1>5
    <2>2. SubSeq(p, 1, n) = SubSeq(q, 1, n)
      BY <1>5
    <2> HIDE DEF n
    <2>3. \A i \in 1..n : p[i] = q[i]
      BY <1>3, <2>1, <2>2
    <2>4. SplitAt(R, p, q, n)
      BY <1>5, <2>1, <2>3 DEF SplitAt
    <2> QED
      BY <2>4 DEF n
  <1>6. ASSUME IsStrictPrefix(p, q) PROVE SplitAt(R, p, q, Len(p))
    <2>1. Len(p) <= Len(q) /\ \A i \in 1..Len(p) : p[i] = q[i]
      BY <1>6, PrefixAt DEF IsStrictPrefix
    <2>2. Len(p) # Len(q)
      BY <1>6, <2>1, SeqEqual DEF IsStrictPrefix
    <2>3. Len(p) \in 0..Len(p) /\ Len(p) \in 0..Len(q) /\ Len(p) < Len(q) /\ ~(Len(p) < Len(p))
      BY <1>0, <2>1, <2>2
    <2> QED
      BY <2>1, <2>3, Zenon DEF SplitAt
  <1>7. \A k \in 1..Len(p) : k - 1 \in Nat
    BY <1>1
  <1> QED
    BY <1>1, <1>2, <1>4, <1>5, <1>6, <1>7 DEF Lexicographic

-----------------------------------------------------------------------------
(* Texts, keys, positions. *)

RankOrder == {pair \in Symbol \X Symbol : Rank[pair[1]] < Rank[pair[2]]}

\* Rank tells symbols apart.
LEMMA RanksAreOrder == TotalOrder(Symbol, RankOrder)
  BY TextAssumption DEF TotalOrder, RankOrder

\* TextBefore compares texts by their ranks.
LEMMA TextsInOrder ==
    ASSUME NEW s \in Seq(Symbol), NEW t \in Seq(Symbol)
    PROVE  TextBefore(s, t) <=> Lexicographic(RankOrder, s, t)
  <1>1. \A n \in DOMAIN s \cap DOMAIN t :
            <<s[n], t[n]>> \in RankOrder <=> Rank[s[n]] < Rank[t[n]]
    <2>1. \A n \in DOMAIN s \cap DOMAIN t : s[n] \in Symbol /\ t[n] \in Symbol
      OBVIOUS
    <2> QED
      BY <2>1 DEF RankOrder
  <1> QED
    BY <1>1, LexicographicAt DEF TextBefore

\* Texts come in a total order.
LEMMA TextOrder ==
    /\ \A s \in Seq(Symbol) : ~TextBefore(s, s)
    /\ \A s, t \in Seq(Symbol) : s # t => TextBefore(s, t) \/ TextBefore(t, s)
    /\ \A s, t, u \in Seq(Symbol) :
          TextBefore(s, t) /\ TextBefore(t, u) => TextBefore(s, u)
  BY RanksAreOrder, LexicographicOrder, TextsInOrder

ElemOrder ==
    {pair \in Elem \X Elem :
        \/ IsIndex(pair[1]) /\ ~IsIndex(pair[2])
        \/ (IsIndex(pair[1]) <=> IsIndex(pair[2])) /\ ElemBefore(pair[1], pair[2])}

\* Indexes come first, then the keys by their texts.
LEMMA ElemsAreOrder == TotalOrder(Elem, ElemOrder)
  <1>1. Name \subseteq Seq(Symbol)
    BY TextAssumption DEF Text
  <1>2. \A d, e \in Elem : <<d, e>> \in ElemOrder <=>
            \/ IsIndex(d) /\ ~IsIndex(e)
            \/ (IsIndex(d) <=> IsIndex(e)) /\ ElemBefore(d, e)
    BY DEF ElemOrder
  <1>3. ASSUME NEW d \in Elem, ~IsIndex(d) PROVE d[2] \in Seq(Symbol) /\ d = KeyElem(d[2])
    BY <1>1, <1>3 DEF Elem, IsIndex, KeyElem
  <1>4. ASSUME NEW d \in Elem, IsIndex(d) PROVE d[2] \in Nat /\ d = IndexElem(d[2])
    BY <1>4 DEF Elem, IsIndex, IndexElem
  <1>5. ASSUME NEW d \in Elem PROVE <<d, d>> \notin ElemOrder
    BY <1>2, <1>3, <1>4, TextOrder DEF ElemBefore
  <1>6. ASSUME NEW d \in Elem, NEW e \in Elem, d # e
        PROVE  <<d, e>> \in ElemOrder \/ <<e, d>> \in ElemOrder
    <2>1. CASE IsIndex(d) /\ IsIndex(e)
      BY <1>2, <1>4, <1>6, <2>1 DEF ElemBefore
    <2>2. CASE ~IsIndex(d) /\ ~IsIndex(e)
      <3>1. d[2] # e[2]
        BY <1>3, <1>6, <2>2
      <3> QED
        BY <1>2, <1>3, <2>2, <3>1, TextOrder DEF ElemBefore
    <2>3. CASE (IsIndex(d) /\ ~IsIndex(e)) \/ (~IsIndex(d) /\ IsIndex(e))
      BY <1>2, <2>3
    <2> QED
      BY <2>1, <2>2, <2>3, Zenon
  <1>7. ASSUME NEW d \in Elem, NEW e \in Elem, NEW f \in Elem,
               <<d, e>> \in ElemOrder, <<e, f>> \in ElemOrder
        PROVE  <<d, f>> \in ElemOrder
    <2>1. CASE IsIndex(d) /\ IsIndex(e) /\ IsIndex(f)
      BY <1>2, <1>4, <1>7, <2>1 DEF ElemBefore
    <2>2. CASE ~IsIndex(d) /\ ~IsIndex(e) /\ ~IsIndex(f)
      BY <1>2, <1>3, <1>7, <2>2, TextOrder DEF ElemBefore
    <2>3. CASE IsIndex(d) /\ ~IsIndex(f)
      BY <1>2, <2>3
    <2>4. CASE (~IsIndex(d) /\ IsIndex(e)) \/ (~IsIndex(e) /\ IsIndex(f))
      BY <1>2, <1>7, <2>4
    <2> QED
      BY <2>1, <2>2, <2>3, <2>4, Zenon
  <1> QED
    BY <1>5, <1>6, <1>7 DEF TotalOrder

\* Siblings are alike: Before puts the positions of a document in order.
LEMMA PositionsInOrder ==
    ASSUME NEW doc, IsTree(doc), NEW p \in DOMAIN doc, NEW q \in DOMAIN doc
    PROVE  Before(p, q) <=> Lexicographic(ElemOrder, p, q)
  <1>1. p \in Seq(Elem) /\ q \in Seq(Elem)
    BY TreeDef
  <1>2. ASSUME NEW n \in DOMAIN p \cap DOMAIN q, SubSeq(p, 1, n - 1) = SubSeq(q, 1, n - 1)
        PROVE  <<p[n], q[n]>> \in ElemOrder <=> ElemBefore(p[n], q[n])
    <2>1. /\ n \in 1..Len(p) /\ n \in 1..Len(q) /\ n - 1 \in 0..Len(p)-1 /\ n - 1 \in 0..Len(q)-1
          /\ p[n] \in Elem /\ q[n] \in Elem /\ (n - 1) + 1 = n
      BY <1>1
    <2> DEFINE above == SubSeq(p, 1, n - 1)
    <2>2. /\ SubSeq(p, 1, n) = Append(above, p[n]) /\ SubSeq(q, 1, n) = Append(above, q[n])
          /\ above \in Seq(Elem)
      <3>1. above \in Seq(Elem)
        BY <1>1, <2>1
      <3>2. SubSeq(p, 1, (n - 1) + 1) = Append(SubSeq(p, 1, n - 1), p[(n - 1) + 1])
        BY <1>1, <2>1, NextFirst
      <3>3. SubSeq(q, 1, (n - 1) + 1) = Append(SubSeq(q, 1, n - 1), q[(n - 1) + 1])
        BY <1>1, <2>1, NextFirst
      <3> QED
        BY <1>2, <2>1, <3>1, <3>2, <3>3
    <2>3. SubSeq(p, 1, n) \in DOMAIN doc /\ SubSeq(q, 1, n) \in DOMAIN doc
      <3>1. \A x \in DOMAIN doc : x # <<>> => Front(x) \in DOMAIN doc
        BY Enclosing
      <3>2. DOMAIN doc \subseteq Seq(Elem) /\ n \in 0..Len(p) /\ n \in 0..Len(q)
        BY <1>1, <2>1, TreeDef
      <3> QED
        BY <3>1, <3>2, Ancestors
    <2> HIDE DEF above
    <2>4. ASSUME NEW e \in Elem, Append(above, e) \in DOMAIN doc
          PROVE  doc[above] = IF IsIndex(e) THEN ListNode ELSE MapNode
      <3>1. Append(above, e) # <<>> /\ Front(Append(above, e)) = above /\ Last(Append(above, e)) = e
        BY <2>2, Appended
      <3> QED
        BY <2>4, <3>1, Enclosing
    <2>5. IsIndex(p[n]) <=> IsIndex(q[n])
      <3>1. /\ doc[above] = IF IsIndex(p[n]) THEN ListNode ELSE MapNode
            /\ doc[above] = IF IsIndex(q[n]) THEN ListNode ELSE MapNode
        BY <2>1, <2>2, <2>3, <2>4
      <3>2. ListNode # MapNode
        BY DEF ListNode, MapNode
      <3> QED
        BY <3>1, <3>2
    <2> QED
      BY <2>1, <2>5 DEF ElemOrder
  <1> QED
    BY <1>1, <1>2, LexicographicAt DEF Before

\* Positions of a document in order.
LEMMA InOrderAt ==
    ASSUME NEW doc, IsTree(doc), NEW positions \in SUBSET DOMAIN doc, IsFiniteSet(positions)
    PROVE  /\ Cardinality(positions) \in Nat
           /\ InOrder(positions) \in [1..Cardinality(positions) -> positions]
           /\ \A q \in positions : \E i \in 1..Cardinality(positions) : InOrder(positions)[i] = q
           /\ \A i, j \in 1..Cardinality(positions) :
                 i < j => Before(InOrder(positions)[i], InOrder(positions)[j])
  <1> DEFINE R == {pair \in positions \X positions : Before(pair[1], pair[2])}
  <1>1. \A p, q \in positions : <<p, q>> \in R <=> Lexicographic(ElemOrder, p, q)
    BY PositionsInOrder
  <1>2. positions \subseteq Seq(Elem)
    BY TreeDef
  <1>3. \A p, q \in positions : <<p, q>> \in R <=> Before(p, q)
    OBVIOUS
  <1> HIDE DEF R
  <1>4. TotalOrder(positions, R)
    BY <1>1, <1>2, ElemsAreOrder, LexicographicOrder DEF TotalOrder
  <1>5. Sequenced(Ordered(positions, R), positions, R)
    BY <1>4, OrderedAt
  <1>6. InOrder(positions) = Ordered(positions, R)
    BY DEF InOrder, R
  <1> QED
    BY <1>3, <1>5, <1>6 DEF Sequenced

-----------------------------------------------------------------------------
(* Texts, put together and replaced. *)

\* What FlattenSeq makes of sequences, one by one.
Concatenation(g, seqs) ==
    /\ g[0] = <<>>
    /\ \A i \in 1..Len(seqs) : g[i] = g[i - 1] \o seqs[i]

\* FlattenSeq puts sequences together from the left.
LEMMA FlattenAt ==
    ASSUME NEW X, NEW seqs \in Seq(Seq(X))
    PROVE  \E g \in [0..Len(seqs) -> Seq(X)] :
              Concatenation(g, seqs) /\ FlattenSeq(seqs) = g[Len(seqs)]
  <1> DEFINE n == Len(seqs)
             V == Seq(X)
             step == [p \in (1..n) \X V |-> p[2] \o seqs[p[1]]]
             F(h) == [i \in 1..n |-> IF i = 1 THEN seqs[i] ELSE h[i - 1] \o seqs[i]]
             flatten == CHOOSE h : h = F(h)
  <1>1. n \in Nat /\ \A i \in 1..n : seqs[i] \in V
    OBVIOUS
  <1>2. step \in [(1..n) \X V -> V]
    <2>1. ASSUME NEW i \in 1..n, NEW s \in V PROVE s \o seqs[i] \in V
      BY <1>1
    <2> QED
      BY <2>1
  <1>3. PICK g \in [0..n -> V] : g[0] = <<>> /\ \A i \in 1..n : g[i] = step[<<i, g[i - 1]>>]
    <2> DEFINE empty == <<>>
    <2>1. empty \in V
      OBVIOUS
    <2> HIDE DEF n, step, V, empty
    <2>2. HasFunction(n, V, empty, step)
      BY <1>1, <1>2, <2>1, LoopFunction
    <2> QED
      BY <2>2 DEF HasFunction, empty
  <1>4. ASSUME NEW i \in 1..n PROVE g[i] = g[i - 1] \o seqs[i]
    <2>1. i - 1 \in 0..n
      BY <1>1
    <2>2. <<i, g[i - 1]>> \in (1..n) \X V
      BY <1>3, <2>1
    <2>3. step[<<i, g[i - 1]>>] = g[i - 1] \o seqs[i]
      BY <2>2
    <2> QED
      BY <1>3, <2>3
  <1>5. CASE n = 0
    <2>1. FlattenSeq(seqs) = seqs /\ seqs = <<>>
      BY <1>5 DEF FlattenSeq
    <2> QED
      BY <1>3, <1>4, <1>5, <2>1 DEF Concatenation
  <1>6. CASE n # 0
    <2> DEFINE h == [i \in 1..n |-> g[i]]
    <2>1. h = F(h)
      <3>1. ASSUME NEW i \in 1..n PROVE h[i] = F(h)[i]
        <4>1. CASE i = 1
          <5>1. g[1] = g[0] \o seqs[1] /\ seqs[1] \in V
            <6>1. 1 \in 1..n /\ 1 - 1 = 0
              BY <1>1, <1>6
            <6> QED
              BY <1>1, <1>4, <6>1
          <5>2. g[1] = seqs[1]
            BY <1>3, <5>1
          <5> QED
            BY <4>1, <5>2
        <4>2. CASE i # 1
          <5>1. i - 1 \in 1..n
            BY <4>2
          <5>2. h[i - 1] = g[i - 1]
            BY <5>1
          <5> QED
            BY <1>4, <4>2, <5>2
        <4> QED
          BY <4>1, <4>2
      <3>2. h = [i \in 1..n |-> h[i]] /\ F(h) = [i \in 1..n |-> F(h)[i]]
        OBVIOUS
      <3> HIDE DEF F, h
      <3> QED
        BY <3>1, <3>2
    <2>2. flatten = F(flatten)
      <3> HIDE DEF F, h
      <3> QED
        BY <2>1
    <2>3. FlattenSeq(seqs) = flatten[n]
      BY <1>6 DEF FlattenSeq
    <2>4. \A i \in 1..n : flatten[i] = g[i]
      <3> DEFINE S == {j \in 0..n : j # 0 => flatten[j] = g[j]}
      <3>1. \A i \in 1..n : F(flatten)[i] = IF i = 1 THEN seqs[i] ELSE flatten[i - 1] \o seqs[i]
        OBVIOUS
      <3>2. \A i \in 1..n : flatten[i] = IF i = 1 THEN seqs[i] ELSE flatten[i - 1] \o seqs[i]
        <4> HIDE DEF F, flatten
        <4> QED
          BY <2>2, <3>1
      <3> HIDE DEF flatten
      <3>3. 0 \in S
        BY <1>1
      <3>4. ASSUME NEW j \in 0..n-1, j \in S PROVE j + 1 \in S
        <4>1. j + 1 \in 1..n /\ (j + 1) - 1 = j /\ j + 1 \in 0..n
          BY <1>1
        <4>2. flatten[j + 1] = g[j + 1]
          <5>1. g[j + 1] = g[j] \o seqs[j + 1]
            BY <1>4, <4>1
          <5>2. CASE j = 0
            <6>1. seqs[1] \in V
              BY <1>1, <4>1, <5>2
            <6>2. g[0] \o seqs[1] = seqs[1]
              BY <1>3, <6>1
            <6>3. flatten[j + 1] = seqs[1]
              BY <3>2, <4>1, <5>2
            <6>4. j + 1 = 1
              BY <5>2
            <6>5. g[j] \o seqs[j + 1] = seqs[1]
              BY <5>2, <6>2, <6>4, Zenon
            <6> QED
              BY <5>1, <6>3, <6>5, Zenon
          <5>3. CASE j # 0
            <6>1. flatten[j] = g[j] /\ j + 1 # 1
              BY <3>4, <5>3
            <6> QED
              BY <3>2, <4>1, <5>1, <6>1
          <5> QED
            BY <5>2, <5>3
        <4> QED
          BY <4>1, <4>2
      <3> HIDE DEF S
      <3>5. 0..n \subseteq S
        BY <1>1, <3>3, <3>4, UpTo
      <3>6. 1..n \subseteq 0..n
        BY <1>1
      <3>7. \A i \in 1..n : i \in S
        BY <3>5, <3>6, Zenon
      <3>8. \A i \in 1..n : i # 0
        OBVIOUS
      <3> QED
        BY <3>7, <3>8 DEF S
    <2>5. n \in 1..n
      BY <1>1, <1>6
    <2>6. FlattenSeq(seqs) = g[n]
      <3> HIDE DEF flatten
      <3> QED
        BY <2>3, <2>4, <2>5
    <2> QED
      BY <1>3, <1>4, <2>6 DEF Concatenation
  <1> QED
    BY <1>5, <1>6

\* A sequence of sequences over X is flattened to one over X.
LEMMA FlattenType ==
    ASSUME NEW X, NEW seqs \in Seq(Seq(X))
    PROVE  FlattenSeq(seqs) \in Seq(X)
  BY FlattenAt

-----------------------------------------------------------------------------

\* The texts of with that start at place i of a text.
StartingAt(text, with, i) ==
    {p \in DOMAIN with : p # <<>> /\ i + Len(p) <= Len(text) + 1
                         /\ SubSeq(text, i, i + Len(p) - 1) = p}

\* What comes between two symbols.
Between(with) == IF <<>> \in DOMAIN with THEN with[<<>>] ELSE <<>>

\* What the text from place i on becomes, if rest is what is behind it.
ReplacedFrom(rest, text, with, i) ==
    IF i > Len(text) THEN Between(with)
    ELSE IF StartingAt(text, with, i) = {} THEN Between(with) \o <<text[i]>> \o rest[i + 1]
    ELSE LET p == CHOOSE p \in StartingAt(text, with, i) : TRUE IN with[p] \o rest[i + Len(p)]

\* Texts and their replacements, over X.
Replacement(with, X) ==
    \A p \in DOMAIN with :
        /\ Len(p) \in Nat /\ (p # <<>> => Len(p) # 0)
        /\ with[p] \in Seq(X)

Replacing(rest, text, with, X) ==
    /\ rest \in [1..Len(text)+1 -> Seq(X)]
    /\ \A i \in 1..Len(text)+1 : rest[i] = ReplacedFrom(rest, text, with, i)

\* What is behind a place is all that matters there.
LEMMA OnlyBehind ==
    ASSUME NEW X, NEW text \in Seq(X), NEW with, Replacement(with, X), NEW i \in 1..Len(text)+1,
           NEW f, NEW g, \A j \in i+1..Len(text)+1 : f[j] = g[j]
    PROVE  /\ ReplacedFrom(f, text, with, i) = ReplacedFrom(g, text, with, i)
           /\ (\A j \in i+1..Len(text)+1 : f[j] \in Seq(X)) =>
                 ReplacedFrom(f, text, with, i) \in Seq(X)
  <1> DEFINE at == StartingAt(text, with, i)
             p == CHOOSE x \in at : TRUE
  <1>1. Len(text) \in Nat /\ Between(with) \in Seq(X)
    BY DEF Between, Replacement
  <1>2. CASE i > Len(text)
    BY <1>1, <1>2 DEF ReplacedFrom
  <1>3. CASE ~(i > Len(text)) /\ at = {}
    <2>1. i + 1 \in i+1..Len(text)+1 /\ text[i] \in X
      BY <1>1, <1>3
    <2>2. /\ ReplacedFrom(f, text, with, i) = Between(with) \o <<text[i]>> \o f[i + 1]
          /\ ReplacedFrom(g, text, with, i) = Between(with) \o <<text[i]>> \o g[i + 1]
      BY <1>3 DEF ReplacedFrom
    <2>3. <<text[i]>> \in Seq(X)
      BY <2>1
    <2>4. f[i + 1] = g[i + 1]
      BY <2>1
    <2>5. ASSUME \A j \in i+1..Len(text)+1 : f[j] \in Seq(X)
          PROVE  Between(with) \o <<text[i]>> \o f[i + 1] \in Seq(X)
      BY <1>1, <2>1, <2>3, <2>5
    <2> QED
      BY <2>2, <2>4, <2>5
  <1>4. CASE ~(i > Len(text)) /\ at # {}
    <2>1. /\ ReplacedFrom(f, text, with, i) = with[p] \o f[i + Len(p)]
          /\ ReplacedFrom(g, text, with, i) = with[p] \o g[i + Len(p)]
      BY <1>4 DEF ReplacedFrom
    <2>2. p \in at
      BY <1>4
    <2> HIDE DEF p
    <2>3. /\ p \in DOMAIN with /\ p # <<>> /\ i + Len(p) <= Len(text) + 1
          /\ Len(p) \in Nat /\ Len(p) # 0 /\ with[p] \in Seq(X)
      BY <2>2 DEF StartingAt, Replacement
    <2>4. i + Len(p) \in i+1..Len(text)+1
      BY <1>1, <2>3
    <2>5. f[i + Len(p)] = g[i + Len(p)]
      BY <2>4
    <2>6. ASSUME \A j \in i+1..Len(text)+1 : f[j] \in Seq(X)
          PROVE  with[p] \o f[i + Len(p)] \in Seq(X)
      <3>1. f[i + Len(p)] \in Seq(X)
        BY <2>4, <2>6
      <3> QED
        BY <2>3, <3>1
    <2> QED
      BY <2>1, <2>5, <2>6
  <1> QED
    BY <1>2, <1>3, <1>4

\* What ReplaceTexts makes of a text, from every place on.
LEMMA ReplaceTextsAt ==
    ASSUME NEW X, NEW text \in Seq(X), NEW with, Replacement(with, X)
    PROVE  \E behind : Replacing(behind, text, with, X) /\ ReplaceTexts(text, with) = behind[1]
  <1> DEFINE n == Len(text) + 1
             Good(f, m) == /\ f \in [n-m..n -> Seq(X)]
                           /\ \A i \in n-m..n : f[i] = ReplacedFrom(f, text, with, i)
             S == {m \in 0..n-1 : \E f : Good(f, m)}
             F(f) == [i \in 1..n |-> ReplacedFrom(f, text, with, i)]
             chosen == CHOOSE f : f = F(f)
  <1>1. n \in Nat /\ n > 0 /\ Len(text) \in Nat /\ n - 1 \in Nat
    OBVIOUS
  <1>2. 0 \in S
    <2> DEFINE x == Between(with)
               f == [i \in n-0..n |-> x]
    <2>1. ReplacedFrom(f, text, with, n) = x
      <3>1. n > Len(text)
        BY <1>1
      <3> HIDE DEF n, f
      <3> QED
        BY <3>1 DEF ReplacedFrom
    <2>2. n-0..n = {n}
      BY <1>1
    <2>3. x \in Seq(X)
      BY DEF Between, Replacement
    <2> HIDE DEF x
    <2>4. Good(f, 0)
      <3>1. n-0..n = {n}
        BY <1>1
      <3>2. f \in [n-0..n -> Seq(X)]
        BY <2>3
      <3>3. f[n] = x
        BY <2>2
      <3> HIDE DEF f, n
      <3> QED
        BY <2>1, <3>1, <3>2, <3>3
    <2> HIDE DEF f, Good
    <2>5. 0 \in 0..n-1
      BY <1>1
    <2> QED
      BY <2>4, <2>5
  <1>3. ASSUME NEW m \in 0..(n-1)-1, m \in S PROVE m + 1 \in S
    <2>1. PICK f : Good(f, m)
      BY <1>3
    <2> DEFINE k == n - (m + 1)
               g == [i \in k..n |-> IF i = k THEN ReplacedFrom(f, text, with, k) ELSE f[i]]
    <2>2. k \in 1..n /\ k + 1 = n - m /\ k..n = {k} \cup (n-m..n)
      BY <1>1
    <2>3. \A i \in n-m..n : g[i] = f[i] /\ i # k
      BY <2>2
    <2>4. g[k] = ReplacedFrom(f, text, with, k)
      BY <2>2
    <2>5. f \in [k+1..n -> Seq(X)] /\ \A i \in k+1..n : f[i] = ReplacedFrom(f, text, with, i)
      BY <2>1, <2>2
    <2> HIDE DEF k
    <2>6. ReplacedFrom(f, text, with, k) \in Seq(X)
      <3>1. \A j \in k+1..Len(text)+1 : f[j] \in Seq(X) /\ f[j] = f[j]
        BY <2>5
      <3> QED
        BY <2>2, <3>1, OnlyBehind
    <2>7. \A i \in k..n : g[i] \in Seq(X)
      BY <2>2, <2>3, <2>4, <2>5, <2>6
    <2>8. g \in [k..n -> Seq(X)]
      BY <2>7
    <2> HIDE DEF g
    <2>9. ASSUME NEW i \in k..n PROVE g[i] = ReplacedFrom(g, text, with, i)
      <3>1. i \in 1..Len(text)+1 /\ \A j \in i+1..Len(text)+1 : f[j] = g[j]
        BY <1>1, <2>2, <2>3
      <3>2. ReplacedFrom(f, text, with, i) = ReplacedFrom(g, text, with, i)
        BY <3>1, OnlyBehind
      <3> QED
        BY <2>2, <2>3, <2>4, <2>5, <3>2
    <2>10. Good(g, m + 1)
      BY <2>8, <2>9 DEF k
    <2> QED
      BY <1>1, <2>10
  <1>4. n - 1 \in S
    <2> HIDE DEF S
    <2>1. 0..n-1 \subseteq S
      BY <1>1, <1>2, <1>3, UpTo
    <2> QED
      BY <1>1, <2>1
  <1>5. PICK f : Good(f, n - 1)
    BY <1>4
  <1>6. f = F(f)
    <2>1. n - (n - 1) = 1
      BY <1>1
    <2>2. f = [i \in 1..n |-> f[i]] /\ \A i \in 1..n : f[i] = ReplacedFrom(f, text, with, i)
      BY <1>5, <2>1
    <2> QED
      BY <2>2
  <1>7. chosen = F(chosen)
    <2> HIDE DEF F
    <2> QED
      BY <1>6
  <1>8. ReplaceTexts(text, with) = chosen[1]
    BY DEF ReplaceTexts, ReplacedFrom, StartingAt, Between
  <1> HIDE DEF chosen
  <1>9. DOMAIN chosen = 1..n /\ \A i \in 1..n : chosen[i] = ReplacedFrom(chosen, text, with, i)
    <2>1. \A h : DOMAIN F(h) = 1..n /\ \A i \in 1..n : F(h)[i] = ReplacedFrom(h, text, with, i)
      OBVIOUS
    <2> HIDE DEF F
    <2> QED
      BY <1>7, <2>1
  <1>10. chosen = [i \in 1..n |-> chosen[i]]
    BY <1>7, <1>9
  <1> DEFINE T == {m \in 0..n-1 : \A i \in n-m..n : chosen[i] \in Seq(X)}
  <1>11. ASSUME NEW i \in 1..n, \A j \in i+1..n : chosen[j] \in Seq(X) PROVE chosen[i] \in Seq(X)
    <2>1. ReplacedFrom(chosen, text, with, i) \in Seq(X)
      BY <1>11, OnlyBehind
    <2> QED
      BY <1>9, <2>1
  <1>12. 0 \in T
    <2>1. n \in 1..n /\ n+1..n = {} /\ n-0..n = {n}
      BY <1>1
    <2> QED
      BY <1>1, <1>11, <2>1
  <1>13. ASSUME NEW m \in 0..(n-1)-1, m \in T PROVE m + 1 \in T
    <2> DEFINE k == n - (m + 1)
    <2>1. k \in 1..n /\ k + 1 = n - m /\ k..n = {k} \cup (n-m..n)
      BY <1>1
    <2>2. chosen[k] \in Seq(X)
      BY <1>11, <1>13, <2>1
    <2>3. \A i \in k..n : chosen[i] \in Seq(X)
      BY <1>13, <2>1, <2>2
    <2> QED
      BY <1>1, <2>3
  <1>14. \A i \in 1..n : chosen[i] \in Seq(X)
    <2> HIDE DEF T
    <2>1. 0..n-1 \subseteq T
      BY <1>1, <1>12, <1>13, UpTo
    <2>2. n - 1 \in T /\ n - (n - 1) = 1
      BY <1>1, <2>1
    <2> QED
      BY <2>2 DEF T
  <1>15. Replacing(chosen, text, with, X)
    BY <1>9, <1>10, <1>14 DEF Replacing
  <1> QED
    BY <1>8, <1>15, Zenon

\* Replacing texts over X by texts over X makes one over X.
LEMMA ReplaceTextsType ==
    ASSUME NEW X, NEW text \in Seq(X), NEW with, Replacement(with, X)
    PROVE  ReplaceTexts(text, with) \in Seq(X)
  <1>1. PICK behind : Replacing(behind, text, with, X) /\ ReplaceTexts(text, with) = behind[1]
    BY ReplaceTextsAt, Zenon
  <1>2. 1 \in 1..Len(text)+1
    OBVIOUS
  <1> QED
    BY <1>1, <1>2 DEF Replacing

-----------------------------------------------------------------------------
(* The values in a state. *)

\* What a sequence has behind its beginning.
LEMMA Behind ==
    ASSUME NEW S, NEW p \in Seq(S), NEW q \in Seq(S), IsPrefix(p, q)
    PROVE  /\ SubSeq(q, Len(p) + 1, Len(q)) \in Seq(S)
           /\ q = p \o SubSeq(q, Len(p) + 1, Len(q))
  <1> DEFINE r == SubSeq(q, Len(p) + 1, Len(q))
  <1>1. /\ Len(p) \in Nat /\ Len(q) \in Nat /\ Len(p) <= Len(q)
        /\ \A i \in 1..Len(p) : p[i] = q[i]
    BY PrefixAt
  <1>2. /\ r \in Seq(S) /\ Len(r) = Len(q) - Len(p)
        /\ \A i \in 1..Len(r) : r[i] = q[Len(p) + i]
    BY <1>1
  <1> HIDE DEF r
  <1>3. p \o r \in Seq(S) /\ Len(p \o r) = Len(q)
    BY <1>1, <1>2
  <1>4. ASSUME NEW i \in 1..Len(q) PROVE (p \o r)[i] = q[i]
    <2>1. CASE i <= Len(p)
      BY <1>1, <1>2, <2>1
    <2>2. CASE i > Len(p)
      <3>1. i - Len(p) \in 1..Len(r) /\ Len(p) + (i - Len(p)) = i
        BY <1>1, <1>2, <2>2
      <3>2. (p \o r)[i] = r[i - Len(p)]
        BY <1>1, <1>2, <2>2, <3>1
      <3> QED
        BY <1>2, <3>1, <3>2
    <2>3. i <= Len(p) \/ i > Len(p)
      BY <1>1
    <2> QED
      BY <2>1, <2>2, <2>3
  <1>5. p \o r = q
    BY <1>3, <1>4, SeqEqual
  <1> QED
    BY <1>2, <1>5 DEF r

\* ValueAt is what is below a position.
LEMMA ValueAtTree ==
    ASSUME NEW doc, IsTree(doc), NEW q \in DOMAIN doc
    PROVE  /\ IsTree(ValueAt(doc, q))
           /\ \A r : r \in DOMAIN ValueAt(doc, q) <=> r \in Seq(Elem) /\ q \o r \in DOMAIN doc
           /\ \A r \in DOMAIN ValueAt(doc, q) : ValueAt(doc, q)[r] = doc[q \o r]
  <1> DEFINE value == ValueAt(doc, q)
  <1>1. /\ DOMAIN value = {SubSeq(p, Len(q) + 1, Len(p)) : p \in {x \in DOMAIN doc : IsPrefix(q, x)}}
        /\ value = [r \in DOMAIN value |-> value[r]]
        /\ \A r \in DOMAIN value : value[r] = doc[q \o r]
    BY DEF ValueAt
  <1>2. q \in Seq(Elem) /\ DOMAIN doc \subseteq Seq(Elem)
    BY TreeDef
  <1>3. ASSUME NEW r \in DOMAIN value PROVE r \in Seq(Elem) /\ q \o r \in DOMAIN doc
    <2>1. PICK p \in DOMAIN doc : IsPrefix(q, p) /\ r = SubSeq(p, Len(q) + 1, Len(p))
      BY <1>1
    <2>2. r \in Seq(Elem) /\ p = q \o r
      BY <1>2, <2>1, Behind
    <2> QED
      BY <2>2
  <1>4. ASSUME NEW r \in Seq(Elem), q \o r \in DOMAIN doc PROVE r \in DOMAIN value
    <2>1. IsPrefix(q, q \o r) /\ SubSeq(q \o r, Len(q) + 1, Len(q \o r)) = r
      BY <1>2, Below
    <2> QED
      BY <1>1, <1>4, <2>1
  <1> HIDE DEF value
  <1>5. \A r : r \in DOMAIN value <=> r \in Seq(Elem) /\ q \o r \in DOMAIN doc
    BY <1>3, <1>4
  <1>6. <<>> \in DOMAIN value
    <2> DEFINE top == <<>>
    <2>1. q \o top = q /\ top \in Seq(Elem)
      BY <1>2
    <2> HIDE DEF top
    <2>2. top \in DOMAIN value
      BY <1>5, <2>1
    <2> QED
      BY <2>2 DEF top
  <1>7. ASSUME NEW r \in DOMAIN value, r # <<>> PROVE Fits(value, Front(r), Last(r))
    <2>1. r \in Seq(Elem) /\ q \o r \in DOMAIN doc
      BY <1>3
    <2>2. /\ q \o r # <<>> /\ Front(q \o r) = q \o Front(r) /\ Last(q \o r) = Last(r)
          /\ Front(r) \in Seq(Elem) /\ Last(r) \in Elem
      <3>1. Front(r) \in Seq(Elem) /\ Last(r) \in Elem
        BY <1>7, <2>1, ChildOf
      <3>2. q \o r # <<>> /\ Front(q \o r) = q \o Front(r) /\ Last(q \o r) = Last(r)
        BY <1>2, <1>7, <2>1, Below
      <3> QED
        BY <3>1, <3>2
    <2>3. Fits(doc, q \o Front(r), Last(r))
      <3>1. Fits(doc, Front(q \o r), Last(q \o r))
        BY <2>1, <2>2, TreeDef
      <3> QED
        BY <2>2, <3>1
    <2>4. Front(r) \in DOMAIN value /\ value[Front(r)] = doc[q \o Front(r)]
      BY <1>1, <1>5, <2>2, <2>3 DEF Fits
    <2>5. ASSUME IsIndex(Last(r)), Last(r)[2] # 0
          PROVE  Append(Front(r), IndexElem(Last(r)[2] - 1)) \in DOMAIN value
      <3> DEFINE e == IndexElem(Last(r)[2] - 1)
      <3>1. e \in Elem
        BY <2>2, <2>5 DEF Elem, IsIndex, IndexElem
      <3>2. Append(q \o Front(r), e) \in DOMAIN doc
        BY <2>3, <2>5 DEF Fits
      <3> HIDE DEF e
      <3>3. q \o Append(Front(r), e) = Append(q \o Front(r), e) /\ Append(Front(r), e) \in Seq(Elem)
        BY <1>2, <2>2, <3>1, ChildBelow, Appended
      <3>4. Append(Front(r), e) \in DOMAIN value
        BY <1>5, <3>2, <3>3
      <3> QED
        BY <3>4 DEF e
    <2> QED
      BY <2>3, <2>4, <2>5 DEF Fits
  <1>8. IsTree(value)
    BY <1>1, <1>3, <1>6, <1>7, TreeDef
  <1> QED
    BY <1>1, <1>5, <1>8 DEF value

\* A value in a state is a state.
LEMMA ValueAtState ==
    ASSUME NEW doc, IsState(doc), NEW q \in DOMAIN doc
    PROVE  IsState(ValueAt(doc, q))
  <1> DEFINE value == ValueAt(doc, q)
             f == [p \in {x \in DOMAIN doc : IsPrefix(q, x)} |-> SubSeq(p, Len(q) + 1, Len(p))]
  <1>1. /\ IsTree(value)
        /\ \A r \in DOMAIN value : q \o r \in DOMAIN doc /\ value[r] = doc[q \o r]
    BY ValueAtTree DEF IsState
  <1>2. IsFiniteSet({x \in DOMAIN doc : IsPrefix(q, x)})
    BY FS_Subset DEF IsState
  <1>3. f \in Surjection({x \in DOMAIN doc : IsPrefix(q, x)}, DOMAIN value)
    <2>1. DOMAIN value = {SubSeq(p, Len(q) + 1, Len(p)) : p \in {x \in DOMAIN doc : IsPrefix(q, x)}}
      BY DEF ValueAt
    <2> HIDE DEF value
    <2> QED
      BY <2>1 DEF Surjection
  <1> HIDE DEF f
  <1>4. IsFiniteSet(DOMAIN value)
    BY <1>2, <1>3, FS_Surjection
  <1> QED
    BY <1>1, <1>4 DEF IsState

\* A value is not deeper than there are positions.
LEMMA Depth ==
    ASSUME NEW doc, IsState(doc), NEW q \in DOMAIN doc
    PROVE  Len(q) \in Nat /\ Len(q) < Cardinality(DOMAIN doc) /\ Cardinality(DOMAIN doc) \in Nat
  <1> DEFINE f == [n \in 0..Len(q) |-> SubSeq(q, 1, n)]
             D == DOMAIN doc
  <1>1. /\ q \in Seq(Elem) /\ Len(q) \in Nat /\ D \subseteq Seq(Elem) /\ IsFiniteSet(D)
        /\ \A x \in D : x # <<>> => Front(x) \in D
    BY TreeDef DEF IsState, Fits
  <1>2. \A n \in 0..Len(q) : f[n] \in D /\ Len(f[n]) = n
    BY <1>1, Ancestors, FirstOf
  <1>3. f \in [0..Len(q) -> D]
    BY <1>2
  <1> HIDE DEF D, f
  <1>4. f \in Injection(0..Len(q), D)
    BY <1>2, <1>3 DEF Injection, IsInjective
  <1> DEFINE N == 0..Len(q)
  <1>5. IsFiniteSet(N) /\ Cardinality(N) = Len(q) + 1
    BY <1>1, FS_Interval
  <1>6. f \in Injection(N, D)
    BY <1>4
  <1> HIDE DEF N
  <1>7. Cardinality(N) <= Cardinality(D)
    BY <1>1, <1>6, FS_Injection
  <1>8. Cardinality(D) \in Nat
    BY <1>1, FS_CardinalityType
  <1> QED
    BY <1>1, <1>5, <1>7, <1>8 DEF D

\* The children of a container: finitely many, one step below it.
LEMMA ChildrenIn ==
    ASSUME NEW doc, IsState(doc), NEW q \in DOMAIN doc
    PROVE  /\ Children(doc, q) \in SUBSET DOMAIN doc /\ IsFiniteSet(Children(doc, q))
           /\ \A r \in Children(doc, q) :
                 /\ r \in DOMAIN doc /\ r # <<>> /\ Front(r) = q /\ Len(r) = Len(q) + 1
                 /\ Last(r) \in Elem /\ (doc[q] = MapNode => ~IsIndex(Last(r)))
                 /\ (doc[q] = ListNode => IsIndex(Last(r)))
                 /\ doc[q] \in Containers
  <1>1. IsTree(doc) /\ q \in Seq(Elem) /\ DOMAIN doc \subseteq Seq(Elem) /\ IsFiniteSet(DOMAIN doc)
    BY TreeDef DEF IsState
  <1>2. Children(doc, q) \in SUBSET DOMAIN doc
    BY DEF Children
  <1>3. IsFiniteSet(Children(doc, q))
    BY <1>1, <1>2, FS_Subset
  <1>4. ASSUME NEW r \in Children(doc, q)
        PROVE  /\ r \in DOMAIN doc /\ r # <<>> /\ Front(r) = q /\ Len(r) = Len(q) + 1
               /\ Last(r) \in Elem /\ (doc[q] = MapNode => ~IsIndex(Last(r)))
               /\ (doc[q] = ListNode => IsIndex(Last(r)))
               /\ doc[q] \in Containers
    <2>1. r \in DOMAIN doc /\ r # <<>> /\ Front(r) = q /\ Len(r) = Len(q) + 1
      <3>1. Len(r) = Len(q) + 1
        BY DEF Children
      <3> QED
        BY <1>1, <3>1, ChildrenAt
    <2>2. Last(r) \in Elem
      BY <1>1, <2>1, ChildOf
    <2>3. doc[q] = IF IsIndex(Last(r)) THEN ListNode ELSE MapNode
      BY <1>1, <2>1, Enclosing
    <2>4. ListNode # MapNode
      BY DEF ListNode, MapNode
    <2> QED
      BY <2>1, <2>2, <2>3, <2>4 DEF Containers
  <1> QED
    BY <1>2, <1>3, <1>4

-----------------------------------------------------------------------------
(* The JSON texts of values. *)

\* Escaping keeps a text a text.
LEMMA EscapedType ==
    ASSUME NEW text \in Text
    PROVE  Escaped(text) \in Text
  <1> DEFINE seqs == [i \in DOMAIN text |->
                         IF text[i] \in {Quote, Backslash} THEN <<Backslash, text[i]>>
                         ELSE <<text[i]>>]
  <1>1. text \in Seq(Symbol) /\ Backslash \in Symbol /\ DOMAIN text = 1..Len(text) /\ Len(text) \in Nat
    BY TextAssumption DEF Text
  <1>2. \A i \in 1..Len(text) : seqs[i] \in Seq(Symbol)
    <2>1. ASSUME NEW i \in 1..Len(text) PROVE seqs[i] \in Seq(Symbol)
      <3>1. text[i] \in Symbol
        BY <1>1
      <3>2. <<Backslash, text[i]>> \in Seq(Symbol) /\ <<text[i]>> \in Seq(Symbol)
        BY <1>1, <3>1
      <3> QED
        BY <1>1, <3>2
    <2> QED
      BY <2>1
  <1>3. DOMAIN seqs = 1..Len(text)
    BY <1>1
  <1>4. seqs \in Seq(Seq(Symbol))
    BY <1>1, <1>2
  <1> HIDE DEF seqs
  <1>5. FlattenSeq(seqs) \in Seq(Symbol)
    BY <1>4, FlattenType
  <1> QED
    BY <1>5 DEF Escaped, seqs, Text

\* A scalar is what its kind and its text are.
LEMMA ScalarForm ==
    ASSUME NEW value \in Scalar
    PROVE  /\ value = <<value[1], value[2]>> /\ value[2] \in Text
           /\ IsString(value) => value = Str(value[2])
  <1>1. CASE value \in {"string"} \X Text
    BY <1>1 DEF IsString, Str
  <1>2. CASE value \in {"number"} \X Numeral
    <2>1. Digit \subseteq Symbol
      BY TextAssumption
    <2>2. value[1] = "number" /\ value[2] \in Seq(Digit) /\ value = <<value[1], value[2]>>
      BY <1>2 DEF Numeral
    <2> QED
      BY <2>1, <2>2 DEF IsString, Text
  <1>3. ASSUME NEW s \in Literal, value = LiteralValue(s)
        PROVE  value = <<value[1], value[2]>> /\ value[2] \in Text /\ ~IsString(value)
    <2>1. s \in Symbol
      BY TextAssumption DEF Marks
    <2>2. <<s>> \in Text
      BY <2>1 DEF Text
    <2> QED
      BY <1>3, <2>2 DEF IsString, LiteralValue
  <1> QED
    BY <1>1, <1>2, <1>3 DEF Scalar

\* The token of a scalar is a text.
LEMMA TokenType ==
    ASSUME NEW value \in Scalar
    PROVE  Token(value) \in Text
  <1>1. value[2] \in Text /\ Quote \in Symbol
    BY TextAssumption, ScalarForm
  <1>2. Escaped(value[2]) \in Seq(Symbol) /\ <<Quote>> \in Seq(Symbol)
    BY <1>1, EscapedType DEF Text
  <1>3. <<Quote>> \o Escaped(value[2]) \o <<Quote>> \in Seq(Symbol)
    BY <1>2
  <1> QED
    BY <1>1, <1>3 DEF Token, Text

\* The marks of JSON as texts.
LEMMA MarksWritten ==
    /\ <<",">> \in Seq(Symbol) /\ <<":">> \in Seq(Symbol)
    /\ <<"{">> \in Seq(Symbol) /\ <<"}">> \in Seq(Symbol)
    /\ <<"[">> \in Seq(Symbol) /\ <<"]">> \in Seq(Symbol)
  <1>1. \A e \in Symbol : <<e>> \in Seq(Symbol)
    OBVIOUS
  <1>2. Marks \subseteq Symbol
    BY TextAssumption
  <1>3. /\ "," \in Marks /\ ":" \in Marks
        /\ "{" \in Marks /\ "}" \in Marks /\ "[" \in Marks /\ "]" \in Marks
    BY DEF Marks
  <1> QED
    BY <1>1, <1>2, <1>3

\* Child i of the value at q, if text are the texts of its children.
WrittenChild(doc, text, q, i) ==
    LET children == InOrder(Children(doc, q))
    IN  (IF i > 1 THEN <<",">> ELSE <<>>)
        \o (IF doc[q] = MapNode THEN Token(Str(Last(children[i])[2])) \o <<":">> ELSE <<>>)
        \o text[children[i]]

\* The value at q.
Written(doc, text, q) ==
    LET inside == FlattenSeq([i \in DOMAIN InOrder(Children(doc, q)) |-> WrittenChild(doc, text, q, i)])
    IN  CASE doc[q] = MapNode -> <<"{">> \o inside \o <<"}">>
          [] doc[q] = ListNode -> <<"[">> \o inside \o <<"]">>
          [] OTHER -> Token(doc[q])

\* It depends on the texts of the children.
LEMMA WrittenAt ==
    ASSUME NEW doc, IsState(doc), NEW q \in DOMAIN doc, NEW f, NEW g,
           \A r \in Children(doc, q) : f[r] = g[r] /\ f[r] \in Seq(Symbol)
    PROVE  Written(doc, f, q) = Written(doc, g, q) /\ Written(doc, f, q) \in Seq(Symbol)
  <1> DEFINE children == InOrder(Children(doc, q))
             N == Cardinality(Children(doc, q))
             seqs(h) == [i \in DOMAIN children |-> WrittenChild(doc, h, q, i)]
  <1>1. N \in Nat /\ children \in [1..N -> Children(doc, q)]
    BY ChildrenIn, InOrderAt DEF IsState
  <1>2. ASSUME NEW i \in 1..N
        PROVE  /\ WrittenChild(doc, f, q, i) = WrittenChild(doc, g, q, i)
               /\ WrittenChild(doc, f, q, i) \in Seq(Symbol)
    <2> DEFINE r == children[i]
               comma == IF i > 1 THEN <<",">> ELSE <<>>
               key == IF doc[q] = MapNode THEN Token(Str(Last(r)[2])) \o <<":">> ELSE <<>>
    <2>1. r \in Children(doc, q)
      BY <1>1
    <2>2. f[r] = g[r] /\ f[r] \in Seq(Symbol)
      BY <2>1
    <2>3. comma \in Seq(Symbol)
      <3>1. CASE i > 1
        BY <3>1, MarksWritten
      <3>2. CASE ~(i > 1)
        BY <3>2
      <3> QED
        BY <3>1, <3>2
    <2>4. key \in Seq(Symbol)
      <3>1. CASE doc[q] = MapNode
        <4>1. Last(r) \in Elem /\ ~IsIndex(Last(r))
          BY <2>1, <3>1, ChildrenIn
        <4>2. Last(r)[2] \in Text
          BY <4>1, TextAssumption DEF Elem, IsIndex
        <4>3. Str(Last(r)[2]) \in Scalar
          BY <4>2 DEF Str, Scalar
        <4>4. Token(Str(Last(r)[2])) \in Seq(Symbol)
          BY <4>3, TokenType DEF Text
        <4>5. <<":">> \in Seq(Symbol)
          BY MarksWritten
        <4> QED
          BY <3>1, <4>4, <4>5
      <3>2. CASE doc[q] # MapNode
        BY <3>2
      <3> QED
        BY <3>1, <3>2
    <2>5. /\ WrittenChild(doc, f, q, i) = comma \o key \o f[r]
          /\ WrittenChild(doc, g, q, i) = comma \o key \o g[r]
      BY DEF WrittenChild
    <2> HIDE DEF comma, key, r
    <2> QED
      BY <2>2, <2>3, <2>4, <2>5
  <1>3. DOMAIN children = 1..N
    BY <1>1
  <1> HIDE DEF children, N
  <1>4. seqs(f) = seqs(g)
    BY <1>2, <1>3
  <1>5. seqs(f) \in Seq(Seq(Symbol))
    <2>1. seqs(f) \in [1..N -> Seq(Symbol)]
      BY <1>2, <1>3
    <2> QED
      BY <1>1, <2>1
  <1> DEFINE inside == FlattenSeq(seqs(f))
  <1>6. inside \in Seq(Symbol)
    <2> DEFINE s == seqs(f)
    <2>1. s \in Seq(Seq(Symbol))
      BY <1>5
    <2> HIDE DEF s
    <2>2. FlattenSeq(s) \in Seq(Symbol)
      BY <2>1, FlattenType
    <2> QED
      BY <2>2 DEF s
  <1>7. /\ doc[q] = MapNode => Written(doc, f, q) = <<"{">> \o inside \o <<"}">>
        /\ doc[q] = ListNode => Written(doc, f, q) = <<"[">> \o inside \o <<"]">>
        /\ doc[q] \notin {MapNode, ListNode} => Written(doc, f, q) = Token(doc[q])
    <2>1. MapNode # ListNode
      BY DEF MapNode, ListNode
    <2> HIDE DEF inside
    <2>2. Written(doc, f, q) =
            CASE doc[q] = MapNode -> <<"{">> \o inside \o <<"}">>
              [] doc[q] = ListNode -> <<"[">> \o inside \o <<"]">>
              [] OTHER -> Token(doc[q])
      BY DEF Written, children, inside
    <2> QED
      BY <2>1, <2>2
  <1>8. Written(doc, g, q) = Written(doc, f, q)
    BY <1>4 DEF Written, children
  <1> HIDE DEF inside
  <1>10. \A x, y \in Seq(Symbol) : x \o inside \o y \in Seq(Symbol)
    BY <1>6
  <1>9. Written(doc, f, q) \in Seq(Symbol)
    <2>1. CASE doc[q] = MapNode
      <3>1. <<"{">> \in Seq(Symbol) /\ <<"}">> \in Seq(Symbol)
        BY MarksWritten
      <3>2. <<"{">> \o inside \o <<"}">> \in Seq(Symbol)
        BY <1>10, <3>1, Zenon
      <3> QED
        BY <1>7, <2>1, <3>2, Zenon
    <2>2. CASE doc[q] = ListNode
      <3>1. <<"[">> \in Seq(Symbol) /\ <<"]">> \in Seq(Symbol) /\ ListNode # MapNode
        BY MarksWritten DEF ListNode, MapNode
      <3>2. <<"[">> \o inside \o <<"]">> \in Seq(Symbol)
        BY <1>10, <3>1, Zenon
      <3> QED
        BY <1>7, <2>2, <3>1, <3>2, Zenon
    <2>3. CASE doc[q] # MapNode /\ doc[q] # ListNode
      <3>1. doc[q] \in Scalar
        BY <2>3 DEF IsState, Containers
      <3>2. Token(doc[q]) \in Seq(Symbol)
        BY <3>1, TokenType DEF Text
      <3> QED
        BY <1>7, <2>3, <3>2
    <2> QED
      BY <2>1, <2>2, <2>3
  <1> QED
    BY <1>8, <1>9

-----------------------------------------------------------------------------
(* Recursion on what has a lower rank. *)

\* The step for an element of D uses the values of those with a lower rank.
RankedStep(step, D, V, rank) ==
    /\ step \in [D \X [D -> V] -> V]
    /\ \A q \in D : \A f, g \in [D -> V] :
          (\A r \in D : rank[r] < rank[q] => f[r] = g[r]) => step[<<q, f>>] = step[<<q, g>>]

Recursive(f, step, D) == f = [q \in D |-> step[<<q, f>>]]

\* A function that is defined by such steps.
LEMMA RankedFunction ==
    ASSUME NEW D, NEW V, NEW base \in V, NEW n \in Nat, NEW rank \in [D -> 0..n-1], NEW step,
           RankedStep(step, D, V, rank)
    PROVE  \E f \in [D -> V] : Recursive(f, step, D)
  <1> DEFINE W == [D -> V]
             m == n + 1
             all == [p \in (1..m) \X W |-> [q \in D |-> step[<<q, p[2]>>]]]
             first == [q \in D |-> base]
  <1>1. first \in W /\ m \in Nat
    OBVIOUS
  <1>2. ASSUME NEW f \in W PROVE [q \in D |-> step[<<q, f>>]] \in W
    BY DEF RankedStep
  <1>3. all \in [(1..m) \X W -> W]
    BY <1>2
  <1>4. \A i \in 1..m : \A f \in W : all[<<i, f>>] = [q \in D |-> step[<<q, f>>]]
    OBVIOUS
  <1>5. PICK g \in [0..m -> W] : g[0] = first /\ \A i \in 1..m : g[i] = all[<<i, g[i-1]>>]
    <2> HIDE DEF W, all, first, m
    <2>1. HasFunction(m, W, first, all)
      BY <1>1, <1>3, LoopFunction
    <2> QED
      BY <2>1 DEF HasFunction
  <1>6. ASSUME NEW i \in 0..n PROVE g[i] \in W /\ g[i + 1] \in W /\ g[i + 1] = [q \in D |-> step[<<q, g[i]>>]]
    <2>1. i \in 0..m /\ i + 1 \in 1..m /\ i + 1 \in 0..m /\ (i + 1) - 1 = i
      OBVIOUS
    <2> HIDE DEF W, all, m
    <2>2. g[i] \in W /\ g[i + 1] \in W
      BY <1>5, <2>1
    <2>3. g[i + 1] = all[<<i + 1, g[(i + 1) - 1]>>]
      BY <1>5, <2>1
    <2> QED
      BY <1>4, <2>1, <2>2, <2>3
  <1> DEFINE S == {i \in 0..n : \A r \in D : rank[r] < i => g[i][r] = g[i + 1][r]}
  <1>7. 0 \in S
    OBVIOUS
  <1>8. ASSUME NEW i \in 0..n-1, i \in S PROVE i + 1 \in S
    <2> DEFINE j == i + 1
    <2>1. j \in 0..n /\ i \in 0..n /\ i \in Nat
      OBVIOUS
    <2>2. ASSUME NEW r \in D, rank[r] < j PROVE g[j][r] = g[j + 1][r]
      <3>1. g[i] \in W /\ g[j] \in W /\ g[j] = [q \in D |-> step[<<q, g[i]>>]]
        BY <1>6, <2>1
      <3>2. g[j + 1] = [q \in D |-> step[<<q, g[j]>>]]
        BY <1>6, <2>1
      <3> HIDE DEF j
      <3>3. \A x \in D : rank[x] < rank[r] => g[i][x] = g[j][x]
        BY <1>8, <2>2 DEF j
      <3>4. step[<<r, g[i]>>] = step[<<r, g[j]>>]
        BY <3>1, <3>3 DEF RankedStep
      <3> QED
        BY <3>1, <3>2, <3>4
    <2> QED
      BY <2>1, <2>2
  <1>9. n \in S
    <2> HIDE DEF S
    <2>1. 0..n \subseteq S
      BY <1>7, <1>8, UpTo
    <2> QED
      BY <2>1
  <1>10. g[n] \in W /\ g[n + 1] = [q \in D |-> step[<<q, g[n]>>]] /\ g[n + 1] \in W
    BY <1>6
  <1>11. \A r \in D : g[n][r] = g[n + 1][r]
    BY <1>9
  <1>12. g[n] = g[n + 1]
    BY <1>10, <1>11
  <1> QED
    BY <1>10, <1>12 DEF Recursive

\* The elements of S are closed under the step to a higher rank.
Inherited(S, D, rank) ==
    \A q \in D : (\A r \in D : rank[r] < rank[q] => r \in S) => q \in S

\* What holds for an element if it holds for all those with a lower rank holds for all.
LEMMA RankedInduction ==
    ASSUME NEW D, NEW n \in Nat, NEW rank \in [D -> 0..n-1], NEW S,
           Inherited(S, D, rank)
    PROVE  D \subseteq S
  <1> DEFINE T == {i \in 0..n : \A r \in D : rank[r] < i => r \in S}
  <1>1. 0 \in T
    OBVIOUS
  <1>2. ASSUME NEW i \in 0..n-1, i \in T PROVE i + 1 \in T
    <2>1. ASSUME NEW q \in D, rank[q] < i + 1 PROVE q \in S
      <3>1. \A r \in D : rank[r] < rank[q] => r \in S
        BY <1>2, <2>1
      <3> QED
        BY <3>1 DEF Inherited
    <2> QED
      BY <2>1
  <1>3. n \in T
    <2> HIDE DEF T
    <2>1. 0..n \subseteq T
      BY <1>1, <1>2, UpTo
    <2> QED
      BY <2>1
  <1> QED
    BY <1>3

\* The texts of the values in a state, of the innermost ones first.
Texts(doc, text) == \A q \in DOMAIN doc : text[q] = Written(doc, text, q) /\ text[q] \in Seq(Symbol)

\* The JSON of a state is the one of its root.
LEMMA MarshalledAt ==
    ASSUME NEW doc, IsState(doc)
    PROVE  \E text : Texts(doc, text) /\ Marshalled(doc) = text[<<>>]
  <1> DEFINE D == DOMAIN doc
             V == Seq(Symbol)
             n == Cardinality(D)
             rank == [q \in D |-> (n - 1) - Len(q)]
             step == [p \in D \X [D -> V] |-> Written(doc, p[2], p[1])]
             F(f) == [q \in D |-> Written(doc, f, q)]
             text == CHOOSE f : f = F(f)
  <1>1. n \in Nat /\ rank \in [D -> 0..n-1]
    <2>1. n \in Nat
      BY Depth DEF IsState, IsTree, IsDocument
    <2>2. ASSUME NEW q \in D PROVE (n - 1) - Len(q) \in 0..n-1
      BY <2>1, Depth
    <2> QED
      BY <2>1, <2>2
  <1>2. ASSUME NEW q \in D, NEW r \in Children(doc, q)
        PROVE  r \in D /\ rank[r] < rank[q]
    <2>1. r \in D /\ Len(r) = Len(q) + 1
      BY ChildrenIn
    <2>2. Len(q) \in Nat /\ Len(r) \in Nat
      BY <2>1, Depth
    <2> QED
      BY <1>1, <2>1, <2>2
  <1>3. ASSUME NEW q \in D, NEW f, NEW g,
               \A r \in D : rank[r] < rank[q] => f[r] = g[r] /\ f[r] \in V
        PROVE  Written(doc, f, q) = Written(doc, g, q) /\ Written(doc, f, q) \in V
    <2>1. \A r \in Children(doc, q) : f[r] = g[r] /\ f[r] \in Seq(Symbol)
      BY <1>2, <1>3
    <2> QED
      BY <2>1, WrittenAt
  <1>4. RankedStep(step, D, V, rank)
    <2>1. \A p \in D \X [D -> V] : step[p] = Written(doc, p[2], p[1])
      OBVIOUS
    <2>2. \A q \in D : \A f \in [D -> V] : step[<<q, f>>] = Written(doc, f, q)
      OBVIOUS
    <2>3. ASSUME NEW q \in D, NEW f \in [D -> V] PROVE Written(doc, f, q) \in V
      <3> HIDE DEF V, D, rank
      <3>1. \A r \in D : f[r] = f[r] /\ f[r] \in V
        OBVIOUS
      <3> QED
        BY <1>3, <3>1
    <2>4. step \in [D \X [D -> V] -> V]
      <3>1. \A p \in D \X [D -> V] : p[1] \in D /\ p[2] \in [D -> V]
        OBVIOUS
      <3> QED
        BY <2>3, <3>1
    <2>5. ASSUME NEW q \in D, NEW f \in [D -> V], NEW g \in [D -> V],
                 \A r \in D : rank[r] < rank[q] => f[r] = g[r]
          PROVE  step[<<q, f>>] = step[<<q, g>>]
      <3> HIDE DEF V, D, rank, step
      <3>1. \A r \in D : rank[r] < rank[q] => f[r] = g[r] /\ f[r] \in V
        BY <2>5
      <3>2. Written(doc, f, q) = Written(doc, g, q)
        BY <1>3, <3>1
      <3> QED
        BY <2>2, <3>2
    <2> HIDE DEF V, D, rank, step
    <2> QED
      BY <2>4, <2>5 DEF RankedStep
  <1>5. <<>> \in V
    OBVIOUS
  <1>6. PICK h \in [D -> V] : Recursive(h, step, D)
    <2> HIDE DEF V, D, rank, step, n
    <2> QED
      BY <1>1, <1>4, <1>5, RankedFunction
  <1>7. h = F(h)
    <2>1. \A q \in D : step[<<q, h>>] = Written(doc, h, q)
      OBVIOUS
    <2> HIDE DEF step
    <2> QED
      BY <1>6, <2>1 DEF Recursive
  <1>8. text = F(text)
    <2> HIDE DEF F
    <2> QED
      BY <1>7
  <1>9. Marshalled(doc) = text[<<>>]
    BY DEF Marshalled, Written, WrittenChild
  <1> HIDE DEF text
  <1>10. \A q \in D : text[q] = Written(doc, text, q)
    <2>1. \A f : \A q \in D : F(f)[q] = Written(doc, f, q)
      OBVIOUS
    <2> HIDE DEF F
    <2> QED
      BY <1>8, <2>1
  <1> DEFINE S == {q \in D : text[q] \in V}
  <1>11. ASSUME NEW q \in D, \A r \in D : rank[r] < rank[q] => r \in S PROVE q \in S
    <2>1. \A r \in D : rank[r] < rank[q] => text[r] = text[r] /\ text[r] \in V
      BY <1>11
    <2>2. Written(doc, text, q) \in V
      BY <1>3, <2>1
    <2> QED
      BY <1>10, <2>2
  <1>12. D \subseteq S
    <2> HIDE DEF S, D, rank, n
    <2>1. Inherited(S, D, rank)
      BY <1>11 DEF Inherited
    <2> QED
      BY <1>1, <2>1, RankedInduction
  <1>13. Texts(doc, text)
    BY <1>10, <1>12 DEF Texts
  <1> QED
    BY <1>9, <1>13, Zenon

\* The JSON of a state is a text.
LEMMA MarshalledType ==
    ASSUME NEW doc, IsState(doc)
    PROVE  Marshalled(doc) \in Seq(Symbol)
  <1>1. PICK text : Texts(doc, text) /\ Marshalled(doc) = text[<<>>]
    BY MarshalledAt, Zenon
  <1>2. <<>> \in DOMAIN doc
    BY DEF IsState, IsTree, IsDocument
  <1> QED
    BY <1>1, <1>2 DEF Texts

\* canonicalString makes a text of every state.
LEMMA CanonicalType ==
    ASSUME NEW doc, IsState(doc)
    PROVE  CanonicalString(doc) \in Seq(Symbol)
  <1>1. CASE IsString(doc[<<>>])
    <2>1. <<>> \in DOMAIN doc
      BY DEF IsState, IsTree, IsDocument
    <2>2. doc[<<>>] \notin Containers
      BY <1>1 DEF IsString, Containers, MapNode, ListNode
    <2>3. doc[<<>>] \in Scalar
      BY <2>1, <2>2 DEF IsState
    <2>4. doc[<<>>][2] \in Text
      BY <2>3, ScalarForm
    <2> QED
      BY <1>1, <2>4 DEF CanonicalString, Text
  <1>2. CASE ~IsString(doc[<<>>])
    BY <1>2, MarshalledType DEF CanonicalString
  <1> QED
    BY <1>1, <1>2

\* A node alone is a state.
LEMMA LeafState ==
    ASSUME NEW x \in Containers \cup Scalar
    PROVE  IsState(Leaf(x))
  <1>1. IsTree(Leaf(x))
    BY LeafTree
  <1>2. DOMAIN Leaf(x) = {<<>>} /\ Leaf(x)[<<>>] = x
    BY DEF Leaf
  <1>3. IsFiniteSet({<<>>})
    BY FS_Singleton
  <1> QED
    BY <1>1, <1>2, <1>3 DEF IsState

\* What lists are sorted by is a text.
LEMMA SortKeyType ==
    ASSUME NEW item, IsState(item), NEW by
    PROVE  SortKey(item, by) \in Seq(Symbol)
  <1>1. CASE by = {} \/ item[<<>>] # MapNode
    BY <1>1, CanonicalType DEF SortKey
  <1>2. CASE ~(by = {} \/ item[<<>>] # MapNode)
    <2> DEFINE field == <<KeyElem(CHOOSE n \in by : TRUE)>>
               value == IF field \in DOMAIN item THEN ValueAt(item, field) ELSE Leaf(Null)
    <2>1. SortKey(item, by) = CanonicalString(value)
      BY <1>2 DEF SortKey
    <2> HIDE DEF field
    <2>2. IsState(value)
      <3>1. CASE field \in DOMAIN item
        BY <3>1, ValueAtState
      <3>2. CASE field \notin DOMAIN item
        <4>1. Null \in Scalar
          BY DEF Null, Scalar, Literal
        <4>2. IsState(Leaf(Null))
          BY <4>1, LeafState
        <4> QED
          BY <3>2, <4>2
      <3> QED
        BY <3>1, <3>2
    <2> HIDE DEF value
    <2> QED
      BY <2>1, <2>2, CanonicalType
  <1> QED
    BY <1>1, <1>2

-----------------------------------------------------------------------------
(* What keeps a state a state. *)

\* Nothing is below a scalar.
LEMMA ScalarsApart ==
    ASSUME NEW doc, IsTree(doc), NEW p \in DOMAIN doc, NEW q \in DOMAIN doc,
           doc[p] \notin Containers, IsPrefix(p, q)
    PROVE  p = q
  <1> SUFFICES ASSUME p # q PROVE FALSE
    OBVIOUS
  <1>1. p \in Seq(Elem) /\ q \in Seq(Elem) /\ \A x \in DOMAIN doc : x # <<>> => Front(x) \in DOMAIN doc
    BY Enclosing
  <1>2. Len(p) \in Nat /\ Len(p) + 1 \in 0..Len(q) /\ Len(p) \in 0..Len(q) /\ p = SubSeq(q, 1, Len(p))
    <2>1. Len(p) \in 0..Len(q) /\ p = SubSeq(q, 1, Len(p)) /\ Len(p) \in Nat /\ Len(q) \in Nat
      BY <1>1, PrefixIsFirst
    <2>2. Len(p) # Len(q)
      BY <1>1, <2>1, AllOf
    <2> QED
      BY <2>1, <2>2
  <1> DEFINE r == SubSeq(q, 1, Len(p) + 1)
  <1>3. r \in DOMAIN doc /\ r \in Seq(Elem) /\ Len(r) = Len(p) + 1
    <2>1. DOMAIN doc \in SUBSET Seq(Elem)
      BY DEF IsTree
    <2>2. r \in DOMAIN doc
      <3> DEFINE D == DOMAIN doc
                 n == Len(p) + 1
      <3>1. D \in SUBSET Seq(Elem) /\ \A x \in D : x # <<>> => Front(x) \in D
        BY <1>1, <2>1
      <3>2. n \in 0..Len(q) /\ q \in D
        BY <1>2
      <3> HIDE DEF D, n
      <3>3. SubSeq(q, 1, n) \in D
        BY <3>1, <3>2, Ancestors
      <3> QED
        BY <3>3 DEF D, n
    <2> QED
      BY <1>1, <1>2, <2>2, FirstOf
  <1>4. r # <<>> /\ Front(r) = p
    <2>1. Len(p) \in 0..Len(q)-1
      BY <1>2
    <2>2. r = Append(p, q[Len(p) + 1])
      BY <1>1, <1>2, <2>1, NextFirst
    <2>3. q[Len(p) + 1] \in Elem
      BY <1>1, <1>2
    <2> HIDE DEF r
    <2> QED
      BY <1>1, <2>2, <2>3, Appended
  <1> HIDE DEF r
  <1>5. doc[p] \in {ListNode, MapNode}
    BY <1>3, <1>4, Enclosing
  <1> QED
    BY <1>5 DEF Containers

\* States in the place of values of a state.
LEMMA GraftState ==
    ASSUME NEW doc, IsState(doc), NEW contents, DOMAIN contents \subseteq DOMAIN doc,
           \A p \in DOMAIN contents : IsState(contents[p]),
           \A p, q \in DOMAIN contents : IsPrefix(p, q) => p = q
    PROVE  IsState(Graft(doc, contents)) /\ GraftedAll(Graft(doc, contents), doc, contents)
  <1> DEFINE new == Graft(doc, contents)
  <1>1. /\ IsTree(doc) /\ DOMAIN doc \subseteq Seq(Elem) /\ IsFiniteSet(DOMAIN doc)
        /\ \A p \in DOMAIN contents : IsTree(contents[p]) /\ IsFiniteSet(DOMAIN contents[p])
    BY DEF IsState, IsTree
  <1>2. Disjoint(contents)
    BY <1>1 DEF Disjoint
  <1>3. \A p \in DOMAIN contents : p # <<>> => Fits(doc, Front(p), Last(p))
    BY <1>1, TreeDef
  <1>4. IsTree(new) /\ GraftedAll(new, doc, contents)
    BY <1>1, <1>2, <1>3, GraftTree, GraftAll
  <1> HIDE DEF new
  <1> DEFINE P == DOMAIN contents
             moved == [p \in P |-> {p \o r : r \in DOMAIN contents[p]}]
             sets == {moved[p] : p \in P}
  <1>5. IsFiniteSet(P)
    BY <1>1, FS_Subset
  <1>6. ASSUME NEW p \in P PROVE IsFiniteSet(moved[p])
    <2> DEFINE R == DOMAIN contents[p]
               T == {p \o r : r \in R}
               f == [r \in R |-> p \o r]
    <2>1. f \in Surjection(R, T)
      BY DEF Surjection
    <2>2. IsFiniteSet(R)
      BY <1>1
    <2> HIDE DEF R, T, f
    <2>3. IsFiniteSet(T)
      BY <2>1, <2>2, FS_Surjection
    <2> QED
      BY <2>3 DEF T, R
  <1>7. IsFiniteSet(sets)
    <2>1. moved \in Surjection(P, sets)
      BY DEF Surjection
    <2> HIDE DEF P, moved, sets
    <2> QED
      BY <1>5, <2>1, FS_Surjection
  <1>8. IsFiniteSet(UNION sets)
    <2>1. \A T \in sets : IsFiniteSet(T)
      BY <1>6
    <2> HIDE DEF sets
    <2> QED
      BY <1>7, <2>1, FS_UNION
  <1>9. DOMAIN new \in SUBSET (DOMAIN doc \cup UNION sets)
    <2>1. ASSUME NEW q \in DOMAIN new PROVE q \in DOMAIN doc \cup UNION sets
      <3>1. q \in DOMAIN doc \/ \E p \in P : \E r \in DOMAIN contents[p] : q = p \o r
        BY <1>4 DEF GraftedAll
      <3>2. ASSUME NEW p \in P, NEW r \in DOMAIN contents[p], q = p \o r PROVE q \in UNION sets
        <4>1. q \in moved[p] /\ moved[p] \in sets
          BY <3>2
        <4> QED
          BY <4>1
      <3> QED
        BY <3>1, <3>2
    <2> QED
      BY <2>1
  <1>10. IsFiniteSet(DOMAIN new)
    <2> HIDE DEF sets
    <2>1. IsFiniteSet(DOMAIN doc \cup UNION sets)
      BY <1>1, <1>8, FS_Union
    <2> DEFINE all == DOMAIN doc \cup UNION sets
    <2>2. IsFiniteSet(all) /\ DOMAIN new \in SUBSET all
      BY <1>9, <2>1
    <2> HIDE DEF all
    <2> QED
      BY <2>2, FS_Subset
  <1>11. ASSUME NEW q \in DOMAIN new PROVE new[q] \in Containers \cup Scalar
    <2>1. CASE q \in DOMAIN doc /\ Untouched(q, contents)
      BY <1>4, <2>1 DEF GraftedAll, IsState
    <2>2. ASSUME NEW p \in DOMAIN contents, NEW r \in DOMAIN contents[p], q = p \o r
          PROVE  new[q] \in Containers \cup Scalar
      <3>1. new[q] = contents[p][r]
        BY <1>4, <2>2 DEF GraftedAll
      <3>2. contents[p][r] \in Containers \cup Scalar
        BY DEF IsState
      <3> QED
        BY <3>1, <3>2
    <2>3. \/ q \in DOMAIN doc /\ Untouched(q, contents)
          \/ \E p \in DOMAIN contents : \E r \in DOMAIN contents[p] : q = p \o r
      BY <1>4 DEF GraftedAll
    <2> QED
      BY <2>1, <2>2, <2>3
  <1>12. IsState(new)
    BY <1>4, <1>10, <1>11 DEF IsState
  <1> QED
    BY <1>4, <1>12 DEF new

\* A scalar in the place of a value.
LEMMA SetValueState ==
    ASSUME NEW doc, IsState(doc), NEW q \in DOMAIN doc, NEW value \in Scalar
    PROVE  IsState(SetValue(doc, q, value))
  <1> DEFINE contents == [p \in {q} |-> Leaf(value)]
  <1>1. DOMAIN contents = {q} /\ \A p \in DOMAIN contents : contents[p] = Leaf(value)
    OBVIOUS
  <1>2. IsState(Leaf(value))
    BY LeafState
  <1>3. SetValue(doc, q, value) = Graft(doc, contents)
    BY DEF SetValue
  <1> HIDE DEF contents
  <1>4. \A p, r \in DOMAIN contents : IsPrefix(p, r) => p = r
    BY <1>1
  <1>5. \A p \in DOMAIN contents : IsState(contents[p])
    BY <1>1, <1>2
  <1>6. DOMAIN contents \subseteq DOMAIN doc
    BY <1>1
  <1> QED
    BY <1>3, <1>4, <1>5, <1>6, GraftState

\* States in the place of scalars.
LEMMA ScalarsGrafted ==
    ASSUME NEW doc, IsState(doc), NEW contents, DOMAIN contents \subseteq DOMAIN doc,
           \A p \in DOMAIN contents : IsState(contents[p]) /\ IsString(doc[p])
    PROVE  IsState(Graft(doc, contents))
  <1>1. \A p \in DOMAIN contents : doc[p] \notin Containers
    BY DEF IsString, Containers, MapNode, ListNode
  <1>2. ASSUME NEW p \in DOMAIN contents, NEW q \in DOMAIN contents, IsPrefix(p, q) PROVE p = q
    BY <1>1, <1>2, ScalarsApart DEF IsState
  <1> QED
    BY <1>2, GraftState

\* EmbeddedParsed puts states in the place of texts.
LEMMA EmbeddedParsedState ==
    ASSUME NEW doc, IsState(doc)
    PROVE  IsState(EmbeddedParsed(doc))
  <1> DEFINE contents == [q \in {p \in DOMAIN doc : IsEmbedded(doc[p])} |-> Content[doc[q][2]]]
  <1>1. DOMAIN contents \subseteq DOMAIN doc
    OBVIOUS
  <1>2. ASSUME NEW p \in DOMAIN contents PROVE IsState(contents[p]) /\ IsString(doc[p])
    <2>1. IsJSON(doc[p])
      BY DEF IsEmbedded
    <2> QED
      BY <2>1, ContentAssumption DEF IsJSON
  <1>3. EmbeddedParsed(doc) = Graft(doc, contents)
    BY DEF EmbeddedParsed
  <1> HIDE DEF contents
  <1> QED
    BY <1>1, <1>2, <1>3, ScalarsGrafted

States == {doc \in UNION {[D -> Containers \cup Scalar] : D \in SUBSET Seq(Elem)} : IsState(doc)}

\* The states, as a set.
LEMMA StatesAre ==
    ASSUME NEW doc
    PROVE  doc \in States <=> IsState(doc)
  <1>1. ASSUME IsState(doc) PROVE doc \in States
    <2> DEFINE D == DOMAIN doc
    <2>1. doc = [q \in D |-> doc[q]] /\ D \in SUBSET Seq(Elem)
      BY <1>1 DEF IsState, IsTree
    <2>2. \A q \in D : doc[q] \in Containers \cup Scalar
      BY <1>1 DEF IsState
    <2> HIDE DEF D
    <2>3. doc \in [D -> Containers \cup Scalar]
      BY <2>1, <2>2
    <2>4. doc \in UNION {[E -> Containers \cup Scalar] : E \in SUBSET Seq(Elem)}
      BY <2>1, <2>3
    <2> QED
      BY <1>1, <2>4 DEF States
  <1> QED
    BY <1>1 DEF States

\* The states without a string that is JSON.
ParsedStates == {doc \in States : \A q \in DOMAIN doc : ~IsJSON(doc[q])}

\* A string that is JSON in a state where others were parsed is one that was not.
LEMMA StringsLeft ==
    ASSUME NEW doc, IsState(doc), NEW contents, DOMAIN contents \subseteq DOMAIN doc,
           \A p \in DOMAIN contents : contents[p] \in ParsedStates /\ IsString(doc[p]),
           NEW q \in DOMAIN Graft(doc, contents), IsJSON(Graft(doc, contents)[q])
    PROVE  q \in DOMAIN doc /\ q \notin DOMAIN contents /\ Graft(doc, contents)[q] = doc[q]
  <1> DEFINE new == Graft(doc, contents)
  <1>1. \A p \in DOMAIN contents : doc[p] \notin Containers /\ IsState(contents[p])
    BY StatesAre DEF IsString, Containers, MapNode, ListNode, ParsedStates
  <1>2. ASSUME NEW p \in DOMAIN contents, NEW r \in DOMAIN contents, IsPrefix(p, r) PROVE p = r
    BY <1>1, <1>2, ScalarsApart DEF IsState
  <1>3. GraftedAll(new, doc, contents)
    BY <1>1, <1>2, GraftState
  <1> HIDE DEF new
  <1>4. ASSUME NEW p \in DOMAIN contents, NEW r \in DOMAIN contents[p], q = p \o r PROVE FALSE
    <2>1. new[q] = contents[p][r]
      BY <1>3, <1>4 DEF GraftedAll
    <2>2. ~IsJSON(contents[p][r])
      BY DEF ParsedStates
    <2> QED
      BY <2>1, <2>2 DEF new
  <1>5. q \in DOMAIN doc /\ Untouched(q, contents)
    BY <1>3, <1>4 DEF GraftedAll, new
  <1>6. q \notin DOMAIN contents
    <2>1. q \in Seq(Elem)
      BY <1>5, Enclosing DEF IsState
    <2>2. IsPrefix(q, q)
      BY <2>1, PrefixesInside
    <2> QED
      BY <1>5, <2>2 DEF Untouched
  <1> QED
    BY <1>3, <1>5, <1>6 DEF GraftedAll, new

\* The text t, read as JSON, if parsed are the texts in it.
WithParsed(t, parsed) ==
    Graft(Content[t], [q \in {p \in DOMAIN Content[t] : IsJSON(Content[t][p])} |->
                          parsed[Content[t][q][2]]])

\* A text that is JSON becomes a state without such texts, since the texts in it do.
LEMMA FullyParsedAll == FullyParsed \in [DOMAIN Content -> ParsedStates]
  <1> DEFINE D == DOMAIN Content
             V == ParsedStates
             n == Cardinality(D)
             step == [p \in D \X [D -> V] |-> WithParsed(p[1], p[2])]
             F(f) == [t \in D |-> WithParsed(t, f)]
             parsed == CHOOSE f : f = F(f)
  <1>1. PICK depth \in [D -> 0..n-1] :
           \A t \in D : \A q \in DOMAIN Content[t] :
             IsJSON(Content[t][q]) => depth[Content[t][q][2]] < depth[t]
    BY ContentAssumption
  <1>2. n \in Nat
    BY ContentAssumption, FS_CardinalityType
  <1>3. ASSUME NEW t \in D, NEW f, NEW g,
               \A u \in D : depth[u] < depth[t] => f[u] = g[u] /\ f[u] \in V
        PROVE  WithParsed(t, f) = WithParsed(t, g) /\ WithParsed(t, f) \in V
    <2> DEFINE doc == Content[t]
               P == {p \in DOMAIN doc : IsJSON(doc[p])}
               contents(h) == [q \in P |-> h[doc[q][2]]]
    <2>1. ASSUME NEW q \in P
          PROVE  f[doc[q][2]] = g[doc[q][2]] /\ f[doc[q][2]] \in V /\ IsString(doc[q])
      <3>1. doc[q][2] \in D /\ IsString(doc[q]) /\ IsJSON(doc[q]) /\ q \in DOMAIN doc
        BY DEF IsJSON
      <3>2. depth[doc[q][2]] < depth[t]
        BY <1>1, <3>1
      <3>3. f[doc[q][2]] = g[doc[q][2]] /\ f[doc[q][2]] \in V
        BY <1>3, <3>1, <3>2
      <3> QED
        BY <3>1, <3>3
    <2>2. contents(f) = contents(g)
      BY <2>1
    <2>3. WithParsed(t, f) = Graft(doc, contents(f)) /\ WithParsed(t, g) = Graft(doc, contents(g))
      BY DEF WithParsed
    <2>4. Graft(doc, contents(f)) \in V
      <3> DEFINE c == contents(f)
      <3>1. DOMAIN c = P /\ DOMAIN c \subseteq DOMAIN doc
        OBVIOUS
      <3>2. \A p \in DOMAIN c : c[p] \in ParsedStates /\ IsString(doc[p])
        BY <2>1
      <3>3. IsState(doc)
        BY ContentAssumption
      <3> HIDE DEF c, doc
      <3>4. IsState(Graft(doc, c))
        BY <3>1, <3>2, <3>3, ScalarsGrafted, StatesAre DEF ParsedStates
      <3>5. ASSUME NEW q \in DOMAIN Graft(doc, c) PROVE ~IsJSON(Graft(doc, c)[q])
        <4>1. IsJSON(Graft(doc, c)[q]) => q \in DOMAIN doc /\ q \notin P /\ IsJSON(doc[q])
          BY <3>1, <3>2, <3>3, StringsLeft
        <4> QED
          BY <4>1
      <3> QED
        BY <3>4, <3>5, StatesAre DEF c, ParsedStates
    <2> HIDE DEF contents, doc
    <2> QED
      BY <2>2, <2>3, <2>4
  <1>4. RankedStep(step, D, V, depth)
    <2>2. \A t \in D : \A f \in [D -> V] : step[<<t, f>>] = WithParsed(t, f)
      OBVIOUS
    <2>3. ASSUME NEW t \in D, NEW f \in [D -> V] PROVE WithParsed(t, f) \in V
      <3> HIDE DEF V, D
      <3>1. \A u \in D : f[u] = f[u] /\ f[u] \in V
        OBVIOUS
      <3> QED
        BY <1>3, <3>1
    <2>4. step \in [D \X [D -> V] -> V]
      <3>1. \A p \in D \X [D -> V] : p[1] \in D /\ p[2] \in [D -> V]
        OBVIOUS
      <3> HIDE DEF D, V
      <3> QED
        BY <2>3, <3>1
    <2>5. ASSUME NEW t \in D, NEW f \in [D -> V], NEW g \in [D -> V],
                 \A u \in D : depth[u] < depth[t] => f[u] = g[u]
          PROVE  step[<<t, f>>] = step[<<t, g>>]
      <3> HIDE DEF V, D, step
      <3>1. \A u \in D : depth[u] < depth[t] => f[u] = g[u] /\ f[u] \in V
        BY <2>5
      <3>2. WithParsed(t, f) = WithParsed(t, g)
        BY <1>3, <3>1
      <3> QED
        BY <2>2, <3>2
    <2> HIDE DEF V, D, step
    <2> QED
      BY <2>4, <2>5 DEF RankedStep
  <1>5. Leaf(Null) \in V
    <2>2. Null \in Scalar
      BY DEF Null, Scalar, Literal
    <2>3. ~IsJSON(Null)
      BY DEF Null, LiteralValue, IsJSON, IsString
    <2>4. \A q \in DOMAIN Leaf(Null) : Leaf(Null)[q] = Null
      BY DEF Leaf
    <2>5. IsState(Leaf(Null))
      BY <2>2, LeafState
    <2> QED
      BY <2>3, <2>4, <2>5, StatesAre DEF ParsedStates
  <1>6. PICK h \in [D -> V] : Recursive(h, step, D)
    <2> HIDE DEF V, D, step, n
    <2> QED
      BY <1>1, <1>2, <1>4, <1>5, RankedFunction
  <1>7. h = F(h)
    <2>1. \A t \in D : step[<<t, h>>] = WithParsed(t, h)
      OBVIOUS
    <2> HIDE DEF step
    <2> QED
      BY <1>6, <2>1 DEF Recursive
  <1>8. parsed = F(parsed)
    <2> HIDE DEF F
    <2> QED
      BY <1>7
  <1>9. FullyParsed = parsed
    BY DEF FullyParsed, WithParsed
  <1> HIDE DEF parsed
  <1>10. parsed = [t \in D |-> parsed[t]] /\ \A t \in D : parsed[t] = WithParsed(t, parsed)
    <2>1. \A f : DOMAIN F(f) = D /\ F(f) = [t \in D |-> F(f)[t]] /\ \A t \in D : F(f)[t] = WithParsed(t, f)
      OBVIOUS
    <2> HIDE DEF F
    <2> QED
      BY <1>8, <2>1
  <1> DEFINE S == {t \in D : parsed[t] \in V}
  <1>11. ASSUME NEW t \in D, \A u \in D : depth[u] < depth[t] => u \in S PROVE t \in S
    <2>1. \A u \in D : depth[u] < depth[t] => parsed[u] = parsed[u] /\ parsed[u] \in V
      BY <1>11
    <2>2. WithParsed(t, parsed) \in V
      BY <1>3, <2>1
    <2> QED
      BY <1>10, <2>2
  <1>12. D \subseteq S
    <2> HIDE DEF S, D, n
    <2>1. Inherited(S, D, depth)
      BY <1>11 DEF Inherited
    <2> QED
      BY <1>1, <1>2, <2>1, RankedInduction
  <1>13. \A t \in D : parsed[t] \in V
    BY <1>12
  <1> HIDE DEF D, V
  <1>14. parsed \in [D -> V]
    BY <1>10, <1>13
  <1> QED
    BY <1>9, <1>14 DEF D, V

\* In particular, a state.
LEMMA FullyParsedType == FullyParsed \in [DOMAIN Content -> States]
  BY FullyParsedAll DEF ParsedStates

\* JSONString: states in the place of texts.
LEMMA JSONStringParsedState ==
    ASSUME NEW doc, IsState(doc), NEW key
    PROVE  IsState(JSONStringParsed(doc, key))
  <1> DEFINE contents == [q \in {p \in DOMAIN doc : HasKey(p, key) /\ IsJSON(doc[p])} |->
                             FullyParsed[doc[q][2]]]
  <1>1. DOMAIN contents \subseteq DOMAIN doc
    OBVIOUS
  <1>2. ASSUME NEW p \in DOMAIN contents PROVE IsState(contents[p]) /\ IsString(doc[p])
    <2>1. IsJSON(doc[p]) /\ contents[p] = FullyParsed[doc[p][2]]
      OBVIOUS
    <2>2. doc[p][2] \in DOMAIN Content /\ IsString(doc[p])
      BY <2>1 DEF IsJSON
    <2>3. FullyParsed[doc[p][2]] \in States
      BY <2>2, FullyParsedType
    <2> QED
      BY <2>1, <2>2, <2>3, StatesAre
  <1>3. JSONStringParsed(doc, key) = Graft(doc, contents)
    BY DEF JSONStringParsed
  <1> HIDE DEF contents
  <1> QED
    BY <1>1, <1>2, <1>3, ScalarsGrafted

\* Some values of a state, with what they are in and before in their lists, and scalars
\* for scalars.
LEMMA PartState ==
    ASSUME NEW doc, IsState(doc), NEW new, new = [q \in DOMAIN new |-> new[q]],
           DOMAIN new \subseteq DOMAIN doc, <<>> \in DOMAIN new,
           \A q \in DOMAIN new : \/ new[q] = doc[q]
                                 \/ new[q] \in Scalar /\ doc[q] \notin Containers,
           \A q \in DOMAIN new \ {<<>>} :
              /\ Front(q) \in DOMAIN new
              /\ IsIndex(Last(q)) /\ Last(q)[2] # 0 =>
                    Append(Front(q), IndexElem(Last(q)[2] - 1)) \in DOMAIN new
    PROVE  IsState(new)
  <1>1. IsTree(doc) /\ IsFiniteSet(DOMAIN doc) /\ DOMAIN doc \subseteq Seq(Elem)
    BY DEF IsState, IsTree
  <1>2. ASSUME NEW q \in DOMAIN new \ {<<>>} PROVE Fits(new, Front(q), Last(q))
    <2>1. Fits(doc, Front(q), Last(q))
      BY <1>1, TreeDef
    <2>2. doc[Front(q)] \in Containers /\ Front(q) \in DOMAIN new
      BY <2>1 DEF Fits, Containers
    <2>3. new[Front(q)] = doc[Front(q)]
      BY <2>2
    <2> QED
      BY <2>1, <2>2, <2>3 DEF Fits
  <1>3. IsTree(new)
    BY <1>1, <1>2, TreeDef
  <1>4. IsFiniteSet(DOMAIN new)
    BY <1>1, FS_Subset
  <1> QED
    BY <1>3, <1>4 DEF IsState

\* Timestamp: texts in the place of texts.
LEMMA TimestampsFixedState ==
    ASSUME NEW doc, IsState(doc)
    PROVE  IsState(TimestampsFixed(doc))
  <1> DEFINE new == TimestampsFixed(doc)
  <1>1. /\ DOMAIN new = DOMAIN doc /\ new = [q \in DOMAIN new |-> new[q]]
        /\ \A q \in DOMAIN doc : new[q] = IF IsString(doc[q]) /\ doc[q][2] \in DOMAIN Fixed
                                          THEN Str(Fixed[doc[q][2]]) ELSE doc[q]
    BY DEF TimestampsFixed
  <1> HIDE DEF new
  <1>2. ASSUME NEW q \in DOMAIN new
        PROVE  new[q] = doc[q] \/ (new[q] \in Scalar /\ doc[q] \notin Containers)
    <2>1. CASE IsString(doc[q]) /\ doc[q][2] \in DOMAIN Fixed
      <3>1. doc[q] \notin Containers
        BY <2>1 DEF IsString, Containers, MapNode, ListNode
      <3>2. Fixed[doc[q][2]] \in Text
        BY <2>1, TransformerAssumption
      <3>3. new[q] = Str(Fixed[doc[q][2]])
        BY <1>1, <2>1
      <3> QED
        BY <3>1, <3>2, <3>3 DEF Str, Scalar
    <2>2. CASE ~(IsString(doc[q]) /\ doc[q][2] \in DOMAIN Fixed)
      <3>1. q \in DOMAIN doc
        BY <1>1
      <3>2. new[q] = IF IsString(doc[q]) /\ doc[q][2] \in DOMAIN Fixed
                     THEN Str(Fixed[doc[q][2]]) ELSE doc[q]
        BY <1>1, <3>1
      <3>3. new[q] = doc[q]
        BY <2>2, <3>2, Zenon
      <3> QED
        BY <3>3
    <2> QED
      BY <2>1, <2>2
  <1>3. <<>> \in DOMAIN doc /\ \A q \in DOMAIN doc \ {<<>>} :
              /\ Front(q) \in DOMAIN doc
              /\ IsIndex(Last(q)) /\ Last(q)[2] # 0 =>
                    Append(Front(q), IndexElem(Last(q)[2] - 1)) \in DOMAIN doc
    BY DEF IsState, IsTree, IsDocument
  <1>4. IsState(new)
    BY <1>1, <1>2, <1>3, PartState
  <1> QED
    BY <1>4 DEF new

\* ResponseMetadata: less of some maps.
LEMMA MetadataReducedState ==
    ASSUME NEW doc, IsState(doc)
    PROVE  IsState(MetadataReduced(doc))
  <1> DEFINE child(q, n) == Append(q, KeyElem(n))
             isMap(q) == q \in DOMAIN doc /\ doc[q] = MapNode
             found == {q \in DOMAIN doc : /\ HasKey(q, ResponseMetadata)
                                          /\ \A n \in DOMAIN q : ~IsIndex(q[n])
                                          /\ \A p \in Above(q) : ~HasKey(p, ResponseMetadata)
                                          /\ isMap(q) /\ isMap(child(q, HTTPHeaders))}
             contentType(q) == child(child(q, HTTPHeaders), ContentType)
             kept(q) == {q, child(q, HTTPHeaders)}
                   \cup {r \in DOMAIN doc : IsPrefix(child(q, HTTPStatusCode), r)}
                   \cup {r \in DOMAIN doc : IsPrefix(contentType(q), r)
                                            /\ doc[contentType(q)] \notin {Null, Str(<<>>)}}
             K == {r \in DOMAIN doc : \A q \in found : IsPrefix(q, r) => r \in kept(q)}
             new == MetadataReduced(doc)
  <1>1. DOMAIN new = K /\ new = [q \in DOMAIN new |-> new[q]] /\ \A r \in K : new[r] = doc[r]
    BY DEF MetadataReduced
  <1> HIDE DEF new
  <1>2. /\ DOMAIN doc \subseteq Seq(Elem) /\ <<>> \in DOMAIN doc
        /\ \A q \in DOMAIN doc \ {<<>>} :
              /\ Front(q) \in DOMAIN doc
              /\ IsIndex(Last(q)) /\ Last(q)[2] # 0 =>
                    Append(Front(q), IndexElem(Last(q)[2] - 1)) \in DOMAIN doc
    BY DEF IsState, IsTree, IsDocument
  <1>3. ASSUME NEW p \in Seq(Elem), NEW n \in Name
        PROVE  /\ child(p, n) \in Seq(Elem) /\ child(p, n) # <<>> /\ Front(child(p, n)) = p
               /\ ~IsIndex(Last(child(p, n)))
    <2>1. KeyElem(n) \in Elem /\ ~IsIndex(KeyElem(n))
      BY DEF KeyElem, Elem, IsIndex
    <2> QED
      BY <2>1, Appended
  <1>4. {HTTPHeaders, ContentType, HTTPStatusCode} \subseteq Name
    BY TransformerAssumption
  <1>5. ASSUME NEW q \in found
        PROVE  /\ q \in Seq(Elem) /\ q # <<>> /\ ~IsIndex(Last(q))
               /\ child(q, HTTPHeaders) \in DOMAIN doc /\ q \in DOMAIN doc
    BY <1>2 DEF HasKey, KeyElem, IsIndex
  <1> DEFINE h(q) == child(q, HTTPHeaders)
             s(q) == child(q, HTTPStatusCode)
             t(q) == contentType(q)
             given(q) == doc[t(q)] \notin {Null, Str(<<>>)}
  <1>6. ASSUME NEW q \in found
        PROVE  /\ h(q) \in Seq(Elem) /\ Front(h(q)) = q /\ ~IsIndex(Last(h(q))) /\ h(q) # <<>>
               /\ s(q) \in Seq(Elem) /\ Front(s(q)) = q /\ ~IsIndex(Last(s(q)))
               /\ t(q) \in Seq(Elem) /\ Front(t(q)) = h(q) /\ ~IsIndex(Last(t(q)))
    <2>1. q \in Seq(Elem)
      BY <1>5
    <2>2. h(q) \in Seq(Elem) /\ Front(h(q)) = q /\ ~IsIndex(Last(h(q))) /\ h(q) # <<>>
      BY <1>3, <1>4, <2>1
    <2>3. s(q) \in Seq(Elem) /\ Front(s(q)) = q /\ ~IsIndex(Last(s(q)))
      BY <1>3, <1>4, <2>1
    <2>4. t(q) \in Seq(Elem) /\ Front(t(q)) = h(q) /\ ~IsIndex(Last(t(q)))
      <3> HIDE DEF child
      <3> QED
        BY <1>3, <1>4, <2>2
    <2> QED
      BY <2>2, <2>3, <2>4
  <1>7. ASSUME NEW q \in found, NEW r \in DOMAIN doc
        PROVE  r \in kept(q) <=> \/ r = q \/ r = h(q) \/ IsPrefix(s(q), r)
                                 \/ (IsPrefix(t(q), r) /\ given(q))
    OBVIOUS
  <1>8. \A r : r \in K <=> r \in DOMAIN doc /\ \A q \in found : IsPrefix(q, r) => r \in kept(q)
    OBVIOUS
  <1> HIDE DEF found, kept, K, h, s, t, given, child, contentType, isMap
  <1>9. <<>> \in K
    <2>1. ASSUME NEW q \in found PROVE ~IsPrefix(q, <<>>)
      BY <1>5, OnlyRoot
    <2> QED
      BY <1>2, <1>8, <2>1
  <1>10. ASSUME NEW r \in K, r # <<>>
         PROVE  /\ Front(r) \in K
                /\ IsIndex(Last(r)) /\ Last(r)[2] # 0 =>
                      Append(Front(r), IndexElem(Last(r)[2] - 1)) \in K
    <2> DEFINE f == Front(r)
    <2>1. r \in DOMAIN doc /\ r \in Seq(Elem) /\ f \in DOMAIN doc /\ f \in Seq(Elem) /\ Last(r) \in Elem
      BY <1>2, <1>8, <1>10, ChildOf
    <2>2. \A p \in Seq(Elem) : IsPrefix(p, r) <=> IsPrefix(p, f) \/ p = r
      BY <1>10, <2>1, PrefixOfChild
    <2>3. ~IsPrefix(r, f)
      BY <1>10, <2>1, PrefixesInside
    <2> HIDE DEF f
    <2>4. ASSUME NEW q \in found, IsPrefix(q, f)
          PROVE  /\ f \in kept(q)
                 /\ IsIndex(Last(r)) => IsPrefix(s(q), f) \/ (IsPrefix(t(q), f) /\ given(q))
      <3>1. r \in kept(q) /\ r # q
        BY <1>5, <1>8, <2>2, <2>3, <2>4
      <3>2. CASE r = h(q)
        <4>1. f = q /\ ~IsIndex(Last(r))
          BY <1>6, <3>2 DEF f
        <4> QED
          BY <1>7, <2>1, <4>1
      <3>3. CASE IsPrefix(s(q), r)
        <4>1. CASE IsPrefix(s(q), f)
          BY <1>7, <2>1, <4>1
        <4>2. CASE s(q) = r
          <5>1. f = q /\ ~IsIndex(Last(r))
            BY <1>6, <4>2 DEF f
          <5> QED
            BY <1>7, <2>1, <5>1
        <4> QED
          BY <1>6, <2>2, <3>3, <4>1, <4>2
      <3>4. CASE IsPrefix(t(q), r) /\ given(q)
        <4>1. CASE IsPrefix(t(q), f)
          BY <1>7, <2>1, <3>4, <4>1
        <4>2. CASE t(q) = r
          <5>1. f = h(q) /\ ~IsIndex(Last(r))
            BY <1>6, <4>2 DEF f
          <5> QED
            BY <1>7, <2>1, <5>1
        <4> QED
          BY <1>6, <2>2, <3>4, <4>1, <4>2
      <3> QED
        BY <1>7, <2>1, <3>1, <3>2, <3>3, <3>4
    <2>5. f \in K
      BY <1>8, <2>1, <2>4
    <2>6. ASSUME IsIndex(Last(r)), Last(r)[2] # 0
          PROVE  Append(f, IndexElem(Last(r)[2] - 1)) \in K
      <3> DEFINE e == IndexElem(Last(r)[2] - 1)
                 p == Append(f, e)
      <3>1. e \in Elem /\ IsIndex(e)
        BY <2>1, <2>6 DEF Elem, IsIndex, IndexElem
      <3> HIDE DEF e
      <3>2. p \in Seq(Elem) /\ p # <<>> /\ Front(p) = f /\ Last(p) = e
        BY <2>1, <3>1, Appended
      <3>3. p \in DOMAIN doc
        BY <1>2, <1>10, <2>1, <2>6 DEF f, e
      <3> HIDE DEF p
      <3>4. ASSUME NEW q \in found, IsPrefix(q, p) PROVE p \in kept(q)
        <4>1. IsPrefix(q, f)
          BY <1>5, <3>1, <3>2, <3>4, PrefixOfChild
        <4>2. IsPrefix(s(q), f) \/ (IsPrefix(t(q), f) /\ given(q))
          BY <2>4, <2>6, <4>1
        <4>3. IsPrefix(s(q), p) \/ (IsPrefix(t(q), p) /\ given(q))
          BY <1>6, <3>2, <4>2, PrefixOfChild
        <4> QED
          BY <1>7, <3>3, <4>3
      <3>5. p \in K
        BY <1>8, <3>3, <3>4
      <3> QED
        BY <3>5 DEF p, e
    <2> QED
      BY <2>5, <2>6 DEF f
  <1>11. DOMAIN new \subseteq DOMAIN doc /\ <<>> \in DOMAIN new
    BY <1>1, <1>8, <1>9
  <1>12. \A q \in DOMAIN new \ {<<>>} :
              /\ Front(q) \in DOMAIN new
              /\ IsIndex(Last(q)) /\ Last(q)[2] # 0 =>
                    Append(Front(q), IndexElem(Last(q)[2] - 1)) \in DOMAIN new
    BY <1>1, <1>10
  <1>13. \A q \in DOMAIN new : new[q] = doc[q]
    BY <1>1
  <1>14. IsState(new)
    BY <1>1, <1>11, <1>12, <1>13, PartState
  <1> QED
    BY <1>14 DEF new

\* Skip paths match no root.
LEMMA SkippedInside ==
    ASSUME NEW doc, IsTree(doc), NEW expressions \in SUBSET Seq(PathToken)
    PROVE  <<>> \notin UNION {Find(doc, Parsed(Rooted(e))) :
                                e \in {t \in expressions : ~Malformed(Rooted(t))}}
  <1>1. ASSUME NEW e \in expressions, ~Malformed(Rooted(e))
        PROVE  <<>> \notin Find(doc, Parsed(Rooted(e)))
    <2>1. Rooted(e) \in Seq(PathToken)
      BY RootedTokens
    <2> DEFINE segments == Parsed(Rooted(e))
    <2>2. Len(segments) \in Nat \ {0} /\ \A i \in 1..Len(segments) : segments[i].kind \in SegmentKinds
      BY <1>1, <2>1, ParsedSegments
    <2> HIDE DEF segments
    <2>3. <<>> \notin Find(doc, segments)
      BY <2>2, FindInside
    <2> QED
      BY <2>3 DEF segments
  <1> QED
    BY <1>1

\* Skip paths remove values and close up the lists.
LEMMA SkippedState ==
    ASSUME NEW doc, IsState(doc), NEW expressions \in SUBSET Seq(PathToken)
    PROVE  IsState(Skipped(doc, expressions))
  <1> DEFINE gone == UNION {Find(doc, Parsed(Rooted(e))) :
                               e \in {t \in expressions : ~Malformed(Rooted(t))}}
             new == Without(doc, gone)
             D == Remaining(doc, gone)
             f == [q \in D |-> Moved(q, gone)]
  <1>1. Skipped(doc, expressions) = new
    BY DEF Skipped
  <1>2. IsTree(doc) /\ IsFiniteSet(DOMAIN doc)
    BY DEF IsState
  <1>3. <<>> \notin gone
    BY <1>2, SkippedInside
  <1> HIDE DEF gone, new
  <1>4. IsTree(new) /\ ClosedUp(new, doc, gone)
    BY <1>2, <1>3, WithoutTree, WithoutAt DEF new
  <1>5. D \in SUBSET DOMAIN doc
    BY DEF Remaining
  <1>6. f \in Surjection(D, DOMAIN new)
    <2>1. \A q \in D : f[q] = Moved(q, gone)
      OBVIOUS
    <2>2. \A r : r \in DOMAIN new <=> \E q \in D : r = f[q]
      BY <1>4, <2>1 DEF ClosedUp
    <2>3. f = [q \in D |-> f[q]]
      OBVIOUS
    <2> HIDE DEF f, D
    <2> QED
      BY <2>2, <2>3 DEF Surjection
  <1>7. IsFiniteSet(DOMAIN new)
    <2>1. IsFiniteSet(D)
      BY <1>2, <1>5, FS_Subset
    <2> HIDE DEF D, f
    <2> QED
      BY <1>6, <2>1, FS_Surjection
  <1>8. \A r \in DOMAIN new : new[r] \in Containers \cup Scalar
    BY <1>4, <1>5 DEF ClosedUp, IsState
  <1>9. IsState(new)
    BY <1>4, <1>7, <1>8 DEF IsState
  <1> QED
    BY <1>1, <1>9

\* The items of a list.
LEMMA ListItems ==
    ASSUME NEW doc, IsState(doc), NEW q \in DOMAIN doc, doc[q] = ListNode
    PROVE  /\ Cardinality(Children(doc, q)) \in Nat
           /\ \A i \in Nat : Append(q, IndexElem(i)) \in DOMAIN doc
                                 <=> i < Cardinality(Children(doc, q))
  <1> DEFINE C == Children(doc, q)
             c == Cardinality(C)
             item(i) == Append(q, IndexElem(i))
             X == {i \in Nat : item(i) \in DOMAIN doc}
  <1>1. IsTree(doc) /\ q \in Seq(Elem) /\ IsFiniteSet(C) /\ c \in Nat
    <2>1. IsTree(doc) /\ q \in Seq(Elem) /\ IsFiniteSet(C)
      BY ChildrenIn, Enclosing DEF IsState
    <2> QED
      BY <2>1, FS_CardinalityType
  <1>2. ASSUME NEW i \in Nat
        PROVE  /\ item(i) \in Seq(Elem) /\ item(i) # <<>> /\ Front(item(i)) = q
               /\ Last(item(i)) = IndexElem(i)
    <2>1. IndexElem(i) \in Elem
      BY DEF IndexElem, Elem
    <2> QED
      BY <1>1, <2>1, Appended
  <1>3. \A r : r \in C <=> r \in DOMAIN doc /\ r # <<>> /\ Front(r) = q
    BY <1>1, ChildrenAt
  <1>4. \A i \in X : item(i) \in C
    BY <1>2, <1>3
  <1>5. ASSUME NEW r \in C PROVE \E i \in X : r = item(i)
    <2>1. r \in DOMAIN doc /\ r # <<>> /\ Front(r) = q /\ IsIndex(Last(r)) /\ Last(r) \in Elem
      BY ChildrenIn
    <2>2. PICK i \in Nat : Last(r) = IndexElem(i)
      BY <2>1 DEF Elem, IsIndex, IndexElem
    <2>3. r \in Seq(Elem)
      BY <2>1 DEF IsState, IsTree
    <2>4. r = Append(Front(r), Last(r))
      BY <2>1, <2>3 DEF Front, Last
    <2> QED
      BY <2>1, <2>2, <2>4
  <1>6. \A i, j \in Nat : item(i) = item(j) => i = j
    <2>1. \A i, j \in Nat : IndexElem(i) = IndexElem(j) => i = j
      BY DEF IndexElem
    <2> QED
      BY <1>2, <2>1
  <1>7. ASSUME NEW i \in X, NEW k \in 0..i PROVE k \in X
    <2>1. item(k) \in DOMAIN doc
      BY <1>1, Earlier
    <2> QED
      BY <2>1
  <1> HIDE DEF C, c, X, item
  <1>8. X \in SUBSET Nat
    BY DEF X
  <1>9. ASSUME NEW m \in Nat, 0..m-1 \subseteq X PROVE m <= c
    <2> DEFINE T == 0..m-1
               g == [i \in T |-> item(i)]
    <2>1. IsFiniteSet(T) /\ Cardinality(T) = m
      BY FS_Interval
    <2>2. g \in [T -> C]
      BY <1>4, <1>9
    <2>3. \A i, j \in T : g[i] = g[j] => i = j
      BY <1>6, <1>8, <1>9
    <2> HIDE DEF T, g
    <2>4. g \in Injection(T, C)
      BY <2>2, <2>3 DEF Injection, IsInjective
    <2>5. Cardinality(T) <= Cardinality(C)
      BY <1>1, <2>4, FS_Injection
    <2> QED
      BY <2>1, <2>5 DEF c
  <1>10. PICK m \in Nat \ X : \A i \in Nat \ X : m <= i
    <2>1. Nat \ X # {}
      <3> SUFFICES ASSUME Nat \subseteq X PROVE FALSE
        OBVIOUS
      <3>1. c + 1 \in Nat /\ 0..(c + 1)-1 \subseteq X
        BY <1>1
      <3>2. c + 1 <= c
        BY <1>9, <3>1
      <3> QED
        BY <1>1, <3>2
    <2> DEFINE T == Nat \ X
    <2>2. T \in SUBSET Nat /\ T # {}
      BY <2>1
    <2> HIDE DEF T
    <2>3. \E x \in T : \A y \in T : x <= y
      BY <2>2, LeastNumber
    <2> QED
      BY <2>3 DEF T
  <1>11. \A i \in Nat : i \in X <=> i < m
    <2>1. ASSUME NEW i \in X PROVE i < m
      <3> SUFFICES ASSUME m <= i PROVE FALSE
        BY <1>8
      <3>1. m \in 0..i
        BY <1>8
      <3> QED
        BY <1>7, <3>1
    <2> QED
      BY <1>10, <2>1
  <1>12. c = m
    <2> DEFINE T == 0..m-1
               g == [i \in T |-> item(i)]
    <2>1. IsFiniteSet(T) /\ Cardinality(T) = m
      BY FS_Interval
    <2>2. \A i \in T : i \in X
      BY <1>11
    <2>3. g \in [T -> C] /\ \A i \in T : g[i] = item(i)
      BY <1>4, <2>2
    <2>4. \A r \in C : \E i \in T : r = item(i)
      BY <1>5, <1>8, <1>11
    <2>5. \A i, j \in T : g[i] = g[j] => i = j
      BY <1>6, <1>8, <2>2
    <2> HIDE DEF T, g
    <2>6. g \in Surjection(T, C) /\ g \in Injection(T, C)
      BY <2>3, <2>4, <2>5 DEF Surjection, Injection, IsInjective
    <2>7. Cardinality(C) = Cardinality(T)
      BY <2>1, <2>6, FS_Surjection
    <2> QED
      BY <2>1, <2>7 DEF c
  <1> QED
    BY <1>1, <1>11, <1>12 DEF X, c, item, C

Sortable(doc, q) == IsState(doc) /\ q \in DOMAIN doc /\ doc[q] = ListNode

\* q is not below p.
NotBelow(p, q) == IsPrefix(p, q) => p = q

\* A list in another order is a list, and nothing changes but what is below it.
LEMMA PermutedState ==
    ASSUME NEW doc, NEW q, Sortable(doc, q), NEW order,
           order \in [1..Cardinality(Children(doc, q)) -> 1..Cardinality(Children(doc, q))]
    PROVE  /\ IsState(Permuted(doc, q, order))
           /\ \A r \in DOMAIN doc :
                 NotBelow(q, r) => /\ r \in DOMAIN Permuted(doc, q, order)
                                   /\ Permuted(doc, q, order)[r] = doc[r]
  <1> DEFINE n == Cardinality(Children(doc, q))
             item(i) == Append(q, IndexElem(i))
             P == {Append(q, IndexElem(i - 1)) : i \in DOMAIN order}
             contents == [p \in P |-> ValueAt(doc, Append(q, IndexElem(order[Last(p)[2] + 1] - 1)))]
             new == Permuted(doc, q, order)
  <1>1. /\ IsState(doc) /\ IsTree(doc) /\ q \in DOMAIN doc /\ q \in Seq(Elem) /\ n \in Nat
        /\ \A i \in Nat : item(i) \in DOMAIN doc <=> i < n
    BY ListItems, Enclosing DEF Sortable, IsState
  <1>2. ASSUME NEW i \in Nat
        PROVE  /\ item(i) \in Seq(Elem) /\ item(i) # <<>> /\ Front(item(i)) = q
               /\ Last(item(i)) = IndexElem(i) /\ Len(item(i)) = Len(q) + 1
    <2>1. IndexElem(i) \in Elem
      BY DEF IndexElem, Elem
    <2> QED
      BY <1>1, <2>1, Appended
  <1>3. new = Graft(doc, contents)
    BY DEF Permuted
  <1>4. DOMAIN contents = P
    OBVIOUS
  <1>5. ASSUME NEW p \in P
        PROVE  /\ \E i \in 0..n-1 : p = item(i)
               /\ \E i \in 0..n-1 : contents[p] = ValueAt(doc, item(i))
    <2>1. PICK j \in 1..n : p = Append(q, IndexElem(j - 1))
      OBVIOUS
    <2>2. j - 1 \in 0..n-1 /\ j - 1 \in Nat /\ n \in Nat
      BY <1>1
    <2>3. p = item(j - 1)
      BY <2>1
    <2> DEFINE i == j - 1
    <2>4. Last(p) = IndexElem(i)
      BY <1>2, <2>2, <2>3
    <2>5. Last(p)[2] + 1 = j
      BY <2>2, <2>4 DEF IndexElem
    <2>6. order[j] \in 1..n
      OBVIOUS
    <2>7. contents[p] = ValueAt(doc, Append(q, IndexElem(order[j] - 1)))
      BY <2>5
    <2>8. order[j] - 1 \in 0..n-1
      BY <1>1, <2>6
    <2> QED
      BY <2>2, <2>3, <2>7, <2>8
  <1> HIDE DEF contents, P, item, new
  <1>6. P \subseteq DOMAIN doc
    BY <1>1, <1>5
  <1>7. \A p \in P : p \in Seq(Elem) /\ Len(p) = Len(q) + 1 /\ Front(p) = q /\ p # <<>>
    BY <1>1, <1>2, <1>5
  <1>8. ASSUME NEW p \in P PROVE IsState(contents[p])
    <2>1. PICK i \in 0..n-1 : contents[p] = ValueAt(doc, item(i))
      BY <1>5
    <2>2. item(i) \in DOMAIN doc
      BY <1>1
    <2> QED
      BY <1>1, <2>1, <2>2, ValueAtState
  <1>9. ASSUME NEW p \in P, NEW r \in P, IsPrefix(p, r) PROVE p = r
    <2>1. p \in Seq(Elem) /\ r \in Seq(Elem) /\ Len(p) = Len(r) /\ Len(r) \in Nat
      BY <1>1, <1>7
    <2>2. p = SubSeq(r, 1, Len(r))
      BY <1>9, <2>1, PrefixIsFirst
    <2> QED
      BY <2>1, <2>2, AllOf
  <1>10. IsState(new) /\ GraftedAll(new, doc, contents)
    BY <1>1, <1>3, <1>4, <1>6, <1>8, <1>9, GraftState
  <1>11. ASSUME NEW r \in DOMAIN doc, NotBelow(q, r) PROVE Untouched(r, contents)
    <2> SUFFICES ASSUME NEW p \in P, IsPrefix(p, r) PROVE FALSE
      BY <1>4 DEF Untouched
    <2>1. p \in Seq(Elem) /\ r \in Seq(Elem) /\ Front(p) = q /\ p # <<>>
      BY <1>1, <1>7, Enclosing
    <2>2. IsPrefix(q, p) /\ q # p
      <3>1. IsPrefix(q, q) /\ ~IsPrefix(p, q)
        BY <1>1, <2>1, PrefixesInside
      <3> QED
        BY <1>1, <2>1, <3>1, PrefixOfChild
    <2>3. IsPrefix(q, r) /\ q # r
      BY <1>1, <2>1, <2>2, PrefixOfPrefix
    <2> QED
      BY <1>11, <2>3 DEF NotBelow
  <1>12. ASSUME NEW r \in DOMAIN doc, NotBelow(q, r) PROVE r \in DOMAIN new /\ new[r] = doc[r]
    BY <1>10, <1>11, <1>12 DEF GraftedAll
  <1> QED
    BY <1>10, <1>12 DEF new

\* Sorting one list changes nothing but what is below it.
LEMMA SortedItemsState ==
    ASSUME NEW doc, NEW q, Sortable(doc, q), NEW by
    PROVE  /\ IsState(SortedItems(doc, q, by))
           /\ \A r \in DOMAIN doc :
                 NotBelow(q, r) => /\ r \in DOMAIN SortedItems(doc, q, by)
                                   /\ SortedItems(doc, q, by)[r] = doc[r]
  <1> DEFINE n == Cardinality(Children(doc, q))
             keys == [i \in 1..n |-> SortKey(ValueAt(doc, Append(q, IndexElem(i - 1))), by)]
             before == {ij \in (DOMAIN keys) \X (DOMAIN keys) :
                          \/ TextBefore(keys[ij[1]], keys[ij[2]])
                          \/ ~TextBefore(keys[ij[2]], keys[ij[1]]) /\ ij[1] < ij[2]}
             order == Ordered(DOMAIN keys, before)
             N == 1..n
  <1>1. /\ IsState(doc) /\ q \in DOMAIN doc /\ n \in Nat
        /\ \A i \in Nat : Append(q, IndexElem(i)) \in DOMAIN doc <=> i < n
    BY ListItems DEF Sortable
  <1>2. DOMAIN keys = N
    OBVIOUS
  <1>3. ASSUME NEW i \in N PROVE keys[i] \in Seq(Symbol)
    <2>1. i - 1 \in Nat /\ i - 1 < n
      BY <1>1
    <2> DEFINE item == Append(q, IndexElem(i - 1))
    <2>2. item \in DOMAIN doc
      BY <1>1, <2>1
    <2>3. keys[i] = SortKey(ValueAt(doc, item), by)
      OBVIOUS
    <2> HIDE DEF item, keys
    <2>4. IsState(ValueAt(doc, item))
      BY <1>1, <2>2, ValueAtState
    <2> QED
      BY <2>3, <2>4, SortKeyType
  <1>4. SortedItems(doc, q, by) = Permuted(doc, q, order)
    BY DEF SortedItems
  <1> HIDE DEF keys
  <1>5. \A i, j \in N : <<i, j>> \in before <=>
           \/ TextBefore(keys[i], keys[j])
           \/ ~TextBefore(keys[j], keys[i]) /\ i < j
    BY <1>2
  <1> HIDE DEF before
  <1>6. N \subseteq Nat
    BY <1>1
  <1> HIDE DEF N, n
  <1> DEFINE R(i, j) == TextBefore(keys[i], keys[j])
  <1>7. /\ \A i, j \in N : R(i, j) => ~R(j, i)
        /\ \A i, j \in N : R(i, j) \/ R(j, i) \/ keys[i] = keys[j]
        /\ \A i, j, k \in N : R(i, j) /\ R(j, k) => R(i, k)
    BY <1>3, TextOrder
  <1>8. \A i, j, k \in N : ~R(i, j) /\ ~R(j, i) => (R(i, k) <=> R(j, k)) /\ (R(k, i) <=> R(k, j))
    BY <1>7
  <1> HIDE DEF R
  <1>9. \A i, j \in N : <<i, j>> \in before <=> R(i, j) \/ (~R(j, i) /\ i < j)
    BY <1>5 DEF R
  <1>10. TotalOrder(N, before)
    <2>1. ASSUME NEW x \in N PROVE <<x, x>> \notin before
      BY <1>6, <1>7, <1>9
    <2>2. ASSUME NEW x \in N, NEW y \in N, x # y PROVE <<x, y>> \in before \/ <<y, x>> \in before
      <3>1. x < y \/ y < x
        BY <1>6, <2>2
      <3> QED
        BY <1>9, <3>1
    <2>3. ASSUME NEW x \in N, NEW y \in N, NEW z \in N, <<x, y>> \in before, <<y, z>> \in before
          PROVE  <<x, z>> \in before
      <3>1. x \in Nat /\ y \in Nat /\ z \in Nat
        BY <1>6
      <3>2. R(x, y) \/ (~R(y, x) /\ x < y)
        BY <1>9, <2>3
      <3>3. R(y, z) \/ (~R(z, y) /\ y < z)
        BY <1>9, <2>3
      <3>4. R(x, z) \/ (~R(z, x) /\ x < z)
        <4>1. CASE R(x, y) /\ R(y, z)
          BY <1>7, <4>1
        <4>2. CASE R(x, y) /\ ~R(y, z)
          BY <1>7, <1>8, <3>3, <4>2
        <4>3. CASE ~R(x, y) /\ R(y, z)
          BY <1>7, <1>8, <3>2, <4>3
        <4>4. CASE ~R(x, y) /\ ~R(y, z)
          <5>1. ~R(y, x) /\ ~R(z, y) /\ x < y /\ y < z
            BY <3>2, <3>3, <4>4
          <5>2. x < z
            BY <3>1, <5>1
          <5>3. ~R(z, x)
            BY <1>8, <4>4, <5>1
          <5> QED
            BY <5>2, <5>3
        <4> QED
          BY <4>1, <4>2, <4>3, <4>4
      <3> QED
        BY <1>9, <3>4
    <2> QED
      BY <2>1, <2>2, <2>3 DEF TotalOrder
  <1>11. IsFiniteSet(N) /\ Cardinality(N) = n
    BY <1>1, FS_Interval DEF N
  <1>12. order \in [1..n -> 1..n]
    <2>1. Sequenced(Ordered(N, before), N, before)
      BY <1>10, <1>11, OrderedAt
    <2>2. Ordered(N, before) \in [1..n -> N]
      BY <1>11, <2>1 DEF Sequenced
    <2> QED
      BY <1>2, <2>2 DEF N
  <1> HIDE DEF order
  <1> QED
    BY <1>4, <1>12, PermutedState DEF n

\* The lists at places are sorted one after the other.
SortedAlong(h, doc, places, n, by) ==
    /\ h[0] = doc
    /\ \A i \in 1..n : Sortable(h[i - 1], places[i]) => h[i] = SortedItems(h[i - 1], places[i], by)

\* None of the lists is below one that is sorted before it.
DeepestFirst(doc, places, n) ==
    /\ IsState(doc)
    /\ \A i \in 1..n : Sortable(doc, places[i])
    /\ \A i, j \in 1..n : i < j => NotBelow(places[i], places[j])

\* Whatever is still to be sorted is still a list.
LEMMA SortedOnTheWay ==
    ASSUME NEW doc, NEW n \in Nat, NEW places, DeepestFirst(doc, places, n),
           NEW by, NEW h, SortedAlong(h, doc, places, n, by)
    PROVE  \A i \in 0..n : IsState(h[i]) /\ \A j \in i+1..n : Sortable(h[i], places[j])
  <1> DEFINE S == {i \in 0..n : IsState(h[i]) /\ \A j \in i+1..n : Sortable(h[i], places[j])}
  <1>1. 0 \in S
    BY DEF SortedAlong, DeepestFirst
  <1>2. ASSUME NEW i \in 0..n-1, i \in S PROVE i + 1 \in S
    <2> DEFINE k == i + 1
               new == h[k]
    <2>1. k \in 1..n /\ k - 1 = i /\ k \in i+1..n /\ k \in 0..n
      OBVIOUS
    <2>2. IsState(h[i]) /\ Sortable(h[i], places[k]) /\ \A j \in k+1..n : Sortable(h[i], places[j])
      BY <1>2, <2>1
    <2>3. new = SortedItems(h[i], places[k], by)
      BY <2>1, <2>2 DEF SortedAlong
    <2> HIDE DEF new, k
    <2>4. /\ IsState(new)
          /\ \A r \in DOMAIN h[i] : NotBelow(places[k], r) => r \in DOMAIN new /\ new[r] = h[i][r]
      BY <2>2, <2>3, SortedItemsState
    <2>5. ASSUME NEW j \in k+1..n PROVE Sortable(new, places[j])
      <3>1. j \in 1..n /\ k < j
        BY <2>1
      <3>2. NotBelow(places[k], places[j])
        BY <2>1, <3>1 DEF DeepestFirst
      <3>3. places[j] \in DOMAIN h[i] /\ h[i][places[j]] = ListNode
        BY <2>2 DEF Sortable
      <3> QED
        BY <2>4, <3>2, <3>3 DEF Sortable
    <2> QED
      BY <2>1, <2>4, <2>5 DEF k, new
  <1>3. 0..n \subseteq S
    <2> HIDE DEF S
    <2> QED
      BY <1>1, <1>2, UpTo
  <1> QED
    BY <1>3

\* In depth-first order what is above comes first.
LEMMA StrictlyBefore ==
    ASSUME NEW doc, IsTree(doc), NEW p \in DOMAIN doc, NEW q \in DOMAIN doc, Before(p, q)
    PROVE  NotBelow(q, p)
  <1> SUFFICES ASSUME IsPrefix(q, p), p # q PROVE FALSE
    BY DEF NotBelow
  <1>1. Before(q, p)
    BY DEF Before, IsStrictPrefix
  <1>2. Lexicographic(ElemOrder, p, q) /\ Lexicographic(ElemOrder, q, p)
    BY <1>1, PositionsInOrder
  <1>3. p \in Seq(Elem) /\ q \in Seq(Elem)
    BY Enclosing
  <1> QED
    BY <1>2, <1>3, ElemsAreOrder, LexicographicOrder

\* Sorting: the lists at a key one after the other, inner ones first.
LEMMA SortedState ==
    ASSUME NEW doc, IsState(doc), NEW key, NEW by
    PROVE  IsState(Sorted(doc, key, by))
  <1> DEFINE lists == {q \in DOMAIN doc : /\ HasKey(q, key) /\ doc[q] = ListNode
                                          /\ Above(q) \cap NotSortable(doc, key) = {}}
             inOrder == InOrder(lists)
             places == Reverse(inOrder)
             n == Cardinality(lists)
             F(h) == [i \in 0..n |-> IF i = 0 THEN doc ELSE SortedItems(h[i - 1], places[i], by)]
             sorted == CHOOSE h : h = F(h)
             V == States
             step == [p \in (1..n) \X V |->
                         IF Sortable(p[2], places[p[1]]) THEN SortedItems(p[2], places[p[1]], by) ELSE doc]
  <1>1. Sorted(doc, key, by) = sorted[n]
    BY DEF Sorted
  <1>2. /\ n \in Nat /\ inOrder \in [1..n -> lists] /\ lists \subseteq DOMAIN doc
        /\ \A i, j \in 1..n : i < j => Before(inOrder[i], inOrder[j])
        /\ \A q \in lists : doc[q] = ListNode
        /\ IsTree(doc)
    <2>1. lists \in SUBSET DOMAIN doc
      OBVIOUS
    <2>2. IsFiniteSet(lists)
      BY <2>1, FS_Subset DEF IsState
    <2>3. IsTree(doc) /\ \A q \in lists : doc[q] = ListNode
      BY DEF IsState
    <2> HIDE DEF lists
    <2> QED
      BY <2>1, <2>2, <2>3, InOrderAt
  <1> HIDE DEF lists, inOrder, n
  <1>3. \A i \in 1..n : (n - i) + 1 \in 1..n /\ places[i] = inOrder[(n - i) + 1]
    <2>1. Len(inOrder) = n
      BY <1>2
    <2> QED
      BY <1>2, <2>1 DEF Reverse
  <1> HIDE DEF places
  <1>4. DeepestFirst(doc, places, n)
    <2>1. ASSUME NEW i \in 1..n PROVE Sortable(doc, places[i]) /\ places[i] \in lists
      <3>1. places[i] \in lists
        BY <1>2, <1>3
      <3> QED
        BY <1>2, <3>1 DEF Sortable
    <2>2. ASSUME NEW i \in 1..n, NEW j \in 1..n, i < j PROVE NotBelow(places[i], places[j])
      <3>1. (n - j) + 1 < (n - i) + 1
        BY <1>2, <2>2
      <3>2. Before(places[j], places[i])
        BY <1>2, <1>3, <3>1
      <3>3. places[i] \in DOMAIN doc /\ places[j] \in DOMAIN doc
        BY <1>2, <2>1
      <3> QED
        BY <1>2, <3>2, <3>3, StrictlyBefore
    <2> QED
      BY <2>1, <2>2 DEF DeepestFirst
  <1>5. doc \in V
    BY StatesAre
  <1>6. step \in [(1..n) \X V -> V]
    <2>1. ASSUME NEW i \in 1..n, NEW d \in V, Sortable(d, places[i])
          PROVE  SortedItems(d, places[i], by) \in V
      BY <2>1, SortedItemsState, StatesAre
    <2>2. \A p \in (1..n) \X V : p[1] \in 1..n /\ p[2] \in V
      OBVIOUS
    <2> HIDE DEF V
    <2> QED
      BY <1>5, <2>1, <2>2
  <1>7. \A i \in 1..n : \A d \in V : Sortable(d, places[i]) => step[<<i, d>>] = SortedItems(d, places[i], by)
    OBVIOUS
  <1>8. PICK g \in [0..n -> V] : g[0] = doc /\ \A i \in 1..n : g[i] = step[<<i, g[i-1]>>]
    <2> HIDE DEF V, step
    <2>1. HasFunction(n, V, doc, step)
      BY <1>2, <1>5, <1>6, LoopFunction
    <2> QED
      BY <2>1 DEF HasFunction
  <1> HIDE DEF step
  <1>9. SortedAlong(g, doc, places, n, by)
    <2>1. ASSUME NEW i \in 1..n PROVE g[i - 1] \in V
      BY <1>2, <1>8
    <2> HIDE DEF V
    <2> QED
      BY <1>7, <1>8, <2>1 DEF SortedAlong
  <1>10. \A i \in 0..n : IsState(g[i]) /\ \A j \in i+1..n : Sortable(g[i], places[j])
    BY <1>2, <1>4, <1>9, SortedOnTheWay
  <1>11. g = F(g)
    <2>1. ASSUME NEW i \in 1..n PROVE g[i] = SortedItems(g[i - 1], places[i], by)
      <3>1. i - 1 \in 0..n /\ i \in (i - 1)+1..n
        BY <1>2
      <3>2. Sortable(g[i - 1], places[i])
        BY <1>10, <3>1
      <3> QED
        BY <1>9, <3>2 DEF SortedAlong
    <2>2. ASSUME NEW i \in 0..n PROVE g[i] = F(g)[i]
      <3>1. CASE i = 0
        BY <1>8, <3>1
      <3>2. CASE i \in 1..n
        BY <2>1, <3>2
      <3> QED
        BY <1>2, <3>1, <3>2
    <2>3. g = [i \in 0..n |-> g[i]] /\ F(g) = [i \in 0..n |-> F(g)[i]]
      OBVIOUS
    <2> HIDE DEF F
    <2> QED
      BY <2>2, <2>3
  <1>12. sorted = F(sorted)
    <2> HIDE DEF F
    <2> QED
      BY <1>11
  <1> HIDE DEF sorted
  <1>13. SortedAlong(sorted, doc, places, n, by)
    <2>1. \A h : F(h)[0] = doc /\ \A i \in 1..n : F(h)[i] = SortedItems(h[i - 1], places[i], by)
      BY <1>2
    <2> HIDE DEF F
    <2>2. sorted[0] = doc /\ \A i \in 1..n : sorted[i] = SortedItems(sorted[i - 1], places[i], by)
      BY <1>12, <2>1
    <2> QED
      BY <2>2 DEF SortedAlong
  <1>14. n \in 0..n
    BY <1>2
  <1>15. IsState(sorted[n])
    BY <1>2, <1>4, <1>13, <1>14, SortedOnTheWay
  <1> QED
    BY <1>1, <1>15

-----------------------------------------------------------------------------
(* What the transformers match. *)

\* The ordered positions of each element of a sequence, one after the other.
LEMMA OrderedEach ==
    ASSUME NEW doc, IsState(doc), NEW f, DOMAIN f \in {1..n : n \in Nat},
           \A i \in DOMAIN f : f[i] \in SUBSET DOMAIN doc
    PROVE  FlattenSeq([i \in DOMAIN f |-> InOrder(f[i])]) \in Seq(DOMAIN doc)
  <1> DEFINE D == DOMAIN doc
             seqs == [i \in DOMAIN f |-> InOrder(f[i])]
  <1>1. PICK n \in Nat : DOMAIN f = 1..n
    OBVIOUS
  <1>2. ASSUME NEW i \in 1..n PROVE seqs[i] \in Seq(D)
    <2> DEFINE S == f[i]
               m == Cardinality(S)
    <2>1. S \in SUBSET D /\ IsTree(doc) /\ IsFiniteSet(D)
      BY <1>1 DEF IsState
    <2> HIDE DEF S, D
    <2>2. IsFiniteSet(S)
      BY <2>1, FS_Subset
    <2>3. m \in Nat /\ InOrder(S) \in [1..m -> S]
      <3>1. S \in SUBSET DOMAIN doc
        BY <2>1 DEF D
      <3> QED
        BY <2>1, <2>2, <3>1, InOrderAt
    <2>4. InOrder(S) \in Seq(D)
      <3> HIDE DEF m
      <3>1. InOrder(S) \in [1..m -> D]
        BY <2>1, <2>3
      <3> QED
        BY <2>3, <3>1
    <2> QED
      BY <1>1, <2>4 DEF S
  <1>3. seqs \in Seq(Seq(D))
    <2>1. DOMAIN seqs = 1..n /\ seqs = [i \in 1..n |-> seqs[i]]
      BY <1>1
    <2> HIDE DEF seqs, D
    <2>2. seqs \in [1..n -> Seq(D)]
      BY <1>2, <2>1
    <2> QED
      BY <1>1, <2>2
  <1> HIDE DEF seqs, D
  <1>4. FlattenSeq(seqs) \in Seq(D)
    BY <1>3, FlattenType
  <1> QED
    BY <1>4 DEF seqs, D

\* What a path matches in a state is in the state.
LEMMA FindInOrderType ==
    ASSUME NEW doc, IsState(doc), NEW segments, Len(segments) \in Nat,
           \A i \in 1..Len(segments) : segments[i].kind \in SegmentKinds
    PROVE  FindInOrder(doc, segments) \in Seq(DOMAIN doc)
  <1> DEFINE n == Len(segments)
             V == Seq(DOMAIN doc)
             from(qs) == FlattenSeq([i \in DOMAIN qs |-> InOrder(Descendants(doc, qs[i]))])
             selected(qs, segment) ==
                 FlattenSeq([i \in DOMAIN qs |-> InOrder(SelectFrom(doc, qs[i], segment))])
             next(qs, segment) == selected(IF segment.recursive THEN from(qs) ELSE qs, segment)
             F(h) == [i \in 0..n |-> IF i = 0 THEN << <<>> >>
                                     ELSE LET qs == IF segments[i].recursive THEN from(h[i - 1]) ELSE h[i - 1]
                                          IN  selected(qs, segments[i])]
             found == CHOOSE h : h = F(h)
             step == [p \in (1..n) \X V |-> next(p[2], segments[p[1]])]
  <1>1. FindInOrder(doc, segments) = found[n]
    BY DEF FindInOrder
  <1>2. IsTree(doc) /\ <<>> \in DOMAIN doc
    BY TreeDef DEF IsState
  <1>3. ASSUME NEW qs \in V PROVE from(qs) \in V
    <2> DEFINE f == [i \in DOMAIN qs |-> Descendants(doc, qs[i])]
    <2>1. DOMAIN f \in {1..m : m \in Nat}
      OBVIOUS
    <2>2. \A i \in DOMAIN f : f[i] \in SUBSET DOMAIN doc
      BY DEF Descendants
    <2>3. [i \in DOMAIN qs |-> InOrder(Descendants(doc, qs[i]))] = [i \in DOMAIN f |-> InOrder(f[i])]
      OBVIOUS
    <2> HIDE DEF f
    <2>4. FlattenSeq([i \in DOMAIN f |-> InOrder(f[i])]) \in V
      BY <2>1, <2>2, OrderedEach
    <2> QED
      BY <2>3, <2>4
  <1>4. ASSUME NEW qs \in V, NEW segment, segment.kind \in SegmentKinds PROVE selected(qs, segment) \in V
    <2> DEFINE f == [i \in DOMAIN qs |-> SelectFrom(doc, qs[i], segment)]
    <2>1. DOMAIN f \in {1..m : m \in Nat}
      OBVIOUS
    <2>2. \A i \in DOMAIN f : f[i] \in SUBSET DOMAIN doc
      <3>1. \A i \in DOMAIN qs : qs[i] \in DOMAIN doc
        OBVIOUS
      <3> QED
        BY <1>2, <1>4, <3>1, SelectsChildren
    <2>3. [i \in DOMAIN qs |-> InOrder(SelectFrom(doc, qs[i], segment))] = [i \in DOMAIN f |-> InOrder(f[i])]
      OBVIOUS
    <2> HIDE DEF f
    <2>4. FlattenSeq([i \in DOMAIN f |-> InOrder(f[i])]) \in V
      BY <2>1, <2>2, OrderedEach
    <2> QED
      BY <2>3, <2>4
  <1> HIDE DEF from, selected
  <1>5. ASSUME NEW qs \in V, NEW i \in 1..n PROVE next(qs, segments[i]) \in V
    <2> DEFINE rs == IF segments[i].recursive THEN from(qs) ELSE qs
    <2>1. rs \in V
      BY <1>3
    <2> HIDE DEF rs, V, n
    <2>2. selected(rs, segments[i]) \in V
      BY <1>4, <2>1 DEF n
    <2> QED
      BY <2>2 DEF rs
  <1>6. << <<>> >> \in V /\ n \in Nat
    BY <1>2
  <1> HIDE DEF next
  <1>7. step \in [(1..n) \X V -> V]
    <2>1. \A p \in (1..n) \X V : p[1] \in 1..n /\ p[2] \in V
      OBVIOUS
    <2> HIDE DEF V, n
    <2> QED
      BY <1>5, <2>1
  <1>8. \A i \in 1..n : \A qs \in V : step[<<i, qs>>] = next(qs, segments[i])
    OBVIOUS
  <1>9. PICK g \in [0..n -> V] : g[0] = << <<>> >> /\ \A i \in 1..n : g[i] = step[<<i, g[i-1]>>]
    <2> DEFINE base == << <<>> >>
    <2>1. base \in V
      BY <1>6
    <2> HIDE DEF V, step, n, base
    <2>2. HasFunction(n, V, base, step)
      BY <1>6, <1>7, <2>1, LoopFunction
    <2> QED
      BY <2>2 DEF HasFunction, base
  <1>10. \A i \in 1..n : g[i] = next(g[i - 1], segments[i])
    <2>1. ASSUME NEW i \in 1..n PROVE g[i - 1] \in V
      BY <1>6, <1>9
    <2> HIDE DEF V, step, n
    <2> QED
      BY <1>8, <1>9, <2>1
  <1> HIDE DEF step
  <1>11. g = F(g)
    <2>1. ASSUME NEW i \in 0..n PROVE g[i] = F(g)[i]
      <3>1. CASE i = 0
        BY <1>9, <3>1
      <3>2. CASE i \in 1..n
        BY <1>10, <3>2 DEF next
      <3> QED
        BY <1>6, <3>1, <3>2
    <2>2. g = [i \in 0..n |-> g[i]] /\ F(g) = [i \in 0..n |-> F(g)[i]]
      OBVIOUS
    <2> HIDE DEF F
    <2> QED
      BY <2>1, <2>2
  <1>12. found = F(found)
    <2> HIDE DEF F
    <2> QED
      BY <1>11
  <1> HIDE DEF found
  <1>13. found[0] = << <<>> >> /\ \A i \in 1..n : found[i] = next(found[i - 1], segments[i])
    <2>1. \A h : F(h)[0] = << <<>> >> /\ \A i \in 1..n : F(h)[i] = next(h[i - 1], segments[i])
      BY <1>6 DEF next
    <2> HIDE DEF F
    <2> QED
      BY <1>12, <2>1
  <1> DEFINE S == {i \in 0..n : found[i] \in V}
  <1>14. 0 \in S
    <2>1. 0 \in 0..n
      BY <1>6
    <2> HIDE DEF V, n
    <2> QED
      BY <1>6, <1>13, <2>1
  <1>15. ASSUME NEW i \in 0..n-1, i \in S PROVE i + 1 \in S
    <2>1. i + 1 \in 1..n /\ (i + 1) - 1 = i /\ i + 1 \in 0..n /\ found[i] \in V
      BY <1>6, <1>15
    <2>2. found[i + 1] = next(found[i], segments[i + 1])
      BY <1>13, <2>1
    <2> HIDE DEF V, n
    <2>3. next(found[i], segments[i + 1]) \in V
      BY <1>5, <2>1
    <2> QED
      BY <2>1, <2>2, <2>3
  <1>16. n \in S
    <2>1. 0..n \subseteq S
      <3> HIDE DEF S, n
      <3> QED
        BY <1>6, <1>14, <1>15, UpTo
    <2>2. n \in 0..n
      BY <1>6
    <2> HIDE DEF S
    <2> QED
      BY <2>1, <2>2
  <1> QED
    BY <1>1, <1>16

\* What a key matches in a state is in the state.
LEMMA KeyValueMatchesType ==
    ASSUME NEW doc, IsState(doc), NEW t
    PROVE  KeyValueMatches(doc, t) \in Seq(DOMAIN doc)
  <1> DEFINE D == DOMAIN doc
             matched(q) == ~IsIndex(Last(q)) /\ <<Last(q)[2], doc[q]>> \in t.pairs
             listInList(q) == \E n \in 1..Len(q)-1 : IsIndex(q[n]) /\ IsIndex(q[n + 1])
             S == {q \in DOMAIN doc \ {<<>>} :
                      matched(q) /\ ~listInList(q) /\ \A p \in Above(q) : ~matched(p)}
  <1>1. KeyValueMatches(doc, t) = InOrder(S)
    BY DEF KeyValueMatches
  <1>2. S \in SUBSET DOMAIN doc /\ IsTree(doc) /\ IsFiniteSet(DOMAIN doc)
    BY DEF IsState
  <1> HIDE DEF S
  <1>3. IsFiniteSet(S)
    BY <1>2, FS_Subset
  <1> DEFINE m == Cardinality(S)
  <1>4. m \in Nat /\ InOrder(S) \in [1..m -> S]
    BY <1>2, <1>3, InOrderAt
  <1> HIDE DEF m
  <1>5. InOrder(S) \in [1..m -> DOMAIN doc]
    BY <1>2, <1>4
  <1> QED
    BY <1>1, <1>4, <1>5

\* A reference value with its quotes escaped is a text.
LEMMA QuoteEscapedType ==
    ASSUME NEW text \in Text
    PROVE  QuoteEscaped(text) \in Text
  <1> DEFINE seqs == [i \in DOMAIN text |-> IF text[i] = Quote THEN <<Backslash, Quote>> ELSE <<text[i]>>]
  <1>1. text \in Seq(Symbol) /\ {Backslash, Quote} \subseteq Symbol /\ DOMAIN text = 1..Len(text) /\ Len(text) \in Nat
    BY TextAssumption DEF Text
  <1>2. \A i \in 1..Len(text) : seqs[i] \in Seq(Symbol)
    <2>1. ASSUME NEW i \in 1..Len(text) PROVE seqs[i] \in Seq(Symbol)
      <3>1. text[i] \in Symbol
        BY <1>1
      <3>2. <<Backslash, Quote>> \in Seq(Symbol) /\ <<text[i]>> \in Seq(Symbol)
        BY <1>1, <3>1
      <3> QED
        BY <1>1, <3>2
    <2> QED
      BY <2>1
  <1>3. DOMAIN seqs = 1..Len(text)
    BY <1>1
  <1>4. seqs \in Seq(Seq(Symbol))
    BY <1>1, <1>2
  <1> HIDE DEF seqs
  <1>5. FlattenSeq(seqs) \in Seq(Symbol)
    BY <1>4, FlattenType
  <1> QED
    BY <1>5 DEF QuoteEscaped, seqs, Text

-----------------------------------------------------------------------------
(* Placeholders and replaced texts. *)

\* One digit more, if it depends on the ones before.
DecimalStep(f, i) ==
    IF i < 10 THEN <<DigitOf[i + 1]>> ELSE Append(f[i \div 10], DigitOf[(i % 10) + 1])

\* The digits of the decimal form.
LEMMA DecimalType == ASSUME NEW n \in Nat PROVE DecimalOf(n) \in Seq(Symbol)
  <1> DEFINE D == 0..n
             V == Seq(Symbol)
             rank == [i \in D |-> i]
             step == [p \in D \X [D -> V] |-> DecimalStep(p[2], p[1])]
             F(f) == [i \in D |-> DecimalStep(f, i)]
             decimal == CHOOSE f : f = F(f)
  <1>1. \A i \in 0..9 : DigitOf[i + 1] \in Symbol
    <2>1. \A i \in 0..9 : DigitOf[i + 1] \in Digit
      <3>1. DOMAIN DigitOf = 1..10
        BY DEF DigitOf
      <3>2. \A i \in 0..9 : i + 1 \in 1..10
        OBVIOUS
      <3> QED
        BY <3>1, <3>2 DEF Digit, Range
    <2>2. Digit \subseteq Symbol
      BY TextAssumption
    <2> QED
      BY <2>1, <2>2
  <1>2. \A i \in D : i >= 10 => i \div 10 \in D /\ i \div 10 < i /\ i % 10 \in 0..9
    OBVIOUS
  <1>3. ASSUME NEW i \in D, NEW f, NEW g,
               \A j \in D : rank[j] < rank[i] => f[j] = g[j] /\ f[j] \in V
        PROVE  DecimalStep(f, i) = DecimalStep(g, i) /\ DecimalStep(f, i) \in V
    <2>1. CASE i < 10
      <3>1. DigitOf[i + 1] \in Symbol
        BY <1>1, <2>1
      <3> HIDE DEF D
      <3> QED
        BY <2>1, <3>1 DEF DecimalStep
    <2>2. CASE i >= 10
      <3>1. i \div 10 \in D /\ rank[i \div 10] < rank[i] /\ i % 10 \in 0..9
        BY <1>2, <2>2
      <3> DEFINE j == i \div 10
                 s == DigitOf[(i % 10) + 1]
      <3>2. s \in Symbol /\ f[j] = g[j] /\ f[j] \in V
        BY <1>1, <1>3, <3>1
      <3>3. DecimalStep(f, i) = Append(f[j], s) /\ DecimalStep(g, i) = Append(g[j], s)
        BY <2>2 DEF DecimalStep
      <3> HIDE DEF s, j
      <3> QED
        BY <3>2, <3>3
    <2> QED
      BY <2>1, <2>2
  <1>4. RankedStep(step, D, V, rank)
    <2>1. \A i \in D : \A f \in [D -> V] : step[<<i, f>>] = DecimalStep(f, i)
      OBVIOUS
    <2> HIDE DEF V, D, rank
    <2>2. ASSUME NEW i \in D, NEW f \in [D -> V] PROVE DecimalStep(f, i) \in V
      <3>1. \A j \in D : f[j] = f[j] /\ f[j] \in V
        OBVIOUS
      <3> QED
        BY <1>3, <3>1
    <2>3. step \in [D \X [D -> V] -> V]
      <3>1. \A p \in D \X [D -> V] : p[1] \in D /\ p[2] \in [D -> V]
        OBVIOUS
      <3> QED
        BY <2>2, <3>1
    <2> HIDE DEF step
    <2>4. ASSUME NEW i \in D, NEW f \in [D -> V], NEW g \in [D -> V],
                 \A j \in D : rank[j] < rank[i] => f[j] = g[j]
          PROVE  step[<<i, f>>] = step[<<i, g>>]
      <3>1. \A j \in D : rank[j] < rank[i] => f[j] = g[j] /\ f[j] \in V
        BY <2>4
      <3>2. DecimalStep(f, i) = DecimalStep(g, i)
        BY <1>3, <3>1
      <3> QED
        BY <2>1, <3>2
    <2> QED
      BY <2>3, <2>4 DEF RankedStep
  <1>5. /\ <<>> \in V /\ n + 1 \in Nat /\ rank \in [D -> 0..(n + 1)-1]
    OBVIOUS
  <1>6. PICK h \in [D -> V] : Recursive(h, step, D)
    <2> HIDE DEF V, D, rank, step
    <2> QED
      BY <1>4, <1>5, RankedFunction
  <1>7. h = F(h)
    <2>1. \A i \in D : step[<<i, h>>] = DecimalStep(h, i)
      OBVIOUS
    <2> HIDE DEF step
    <2> QED
      BY <1>6, <2>1 DEF Recursive
  <1>8. decimal = F(decimal)
    <2> HIDE DEF F
    <2> QED
      BY <1>7
  <1>9. DecimalOf(n) = decimal[n]
    BY DEF DecimalOf, DecimalStep
  <1> HIDE DEF decimal
  <1>10. \A i \in D : decimal[i] = DecimalStep(decimal, i)
    <2>1. \A f : \A i \in D : F(f)[i] = DecimalStep(f, i)
      OBVIOUS
    <2> HIDE DEF F
    <2> QED
      BY <1>8, <2>1
  <1> DEFINE S == {i \in D : decimal[i] \in V}
  <1>11. ASSUME NEW i \in D, \A j \in D : rank[j] < rank[i] => j \in S PROVE i \in S
    <2>1. \A j \in D : rank[j] < rank[i] => decimal[j] = decimal[j] /\ decimal[j] \in V
      BY <1>11
    <2>2. DecimalStep(decimal, i) \in V
      BY <1>3, <2>1
    <2> QED
      BY <1>10, <2>2
  <1>12. D \subseteq S
    <2> HIDE DEF S, D, rank
    <2>1. Inherited(S, D, rank)
      BY <1>11 DEF Inherited
    <2> QED
      BY <1>5, <2>1, RankedInduction
  <1> QED
    BY <1>9, <1>12

\* A placeholder is a text.
LEMMA PlaceholderType ==
    ASSUME NEW scope \in Symbol, NEW n \in Nat
    PROVE  Placeholder(scope, n) \in Text
  <1>1. DecimalOf(n) \in Seq(Symbol)
    BY DecimalType
  <1>2. "<" \in Symbol /\ ":" \in Symbol /\ ">" \in Symbol
    BY TextAssumption DEF Marks
  <1>3. <<"<", scope, ":">> \in Seq(Symbol) /\ <<">">> \in Seq(Symbol)
    BY <1>2
  <1> QED
    BY <1>1, <1>3 DEF Placeholder, Text

\* The patterns of a replacement and what it puts in their place are texts.
IsReplacement(r) == r.patterns \in SUBSET Text /\ r.with \in Text

AreReplacements(reps) ==
    Len(reps) \in Nat /\ DOMAIN reps = 1..Len(reps) /\ \A i \in 1..Len(reps) : IsReplacement(reps[i])

\* One replacement makes a text of a text.
LEMMA ReplacedOnce ==
    ASSUME NEW text \in Text, NEW r, IsReplacement(r)
    PROVE  ReplaceTexts(text, [p \in r.patterns |-> r.with]) \in Text
  <1> DEFINE with == [p \in r.patterns |-> r.with]
  <1>1. DOMAIN with = r.patterns /\ r.with \in Seq(Symbol) /\ \A p \in r.patterns : with[p] = r.with /\ p \in Seq(Symbol)
    BY DEF IsReplacement, Text
  <1> HIDE DEF with
  <1>2. \A p \in Seq(Symbol) : Len(p) \in Nat /\ (p # <<>> => Len(p) # 0)
    OBVIOUS
  <1>3. Replacement(with, Symbol)
    BY <1>1, <1>2 DEF Replacement
  <1>4. text \in Seq(Symbol)
    BY DEF Text
  <1>5. ReplaceTexts(text, with) \in Seq(Symbol)
    BY <1>3, <1>4, ReplaceTextsType
  <1> QED
    BY <1>5 DEF with, Text

\* What the replacements from place n on make of texts, if after are the later ones.
ReplacingFrom(after, reps, n) ==
    [t \in Text |->
        IF n > Len(reps) THEN t
        ELSE after[n + 1][ReplaceTexts(t, [p \in reps[n].patterns |-> reps[n].with])]]

\* Replacements make texts of texts, and leave them if there are none.
LEMMA ReplacedType ==
    ASSUME NEW reps, AreReplacements(reps), NEW text \in Text
    PROVE  /\ Replaced(text, reps) \in Text
           /\ Len(reps) = 0 => Replaced(text, reps) = text
  <1> DEFINE m == Len(reps) + 1
             D == 1..m
             V == [Text -> Text]
             rank == [n \in D |-> m - n]
             step == [p \in D \X [D -> V] |-> ReplacingFrom(p[2], reps, p[1])]
             F(f) == [n \in D |-> ReplacingFrom(f, reps, n)]
             from == CHOOSE f : f = F(f)
  <1>1. m \in Nat /\ Len(reps) \in Nat /\ 1 \in D /\ rank \in [D -> 0..m-1]
    BY DEF AreReplacements
  <1>2. ASSUME NEW n \in D, NEW f, NEW g,
               \A i \in D : rank[i] < rank[n] => f[i] = g[i] /\ f[i] \in V
        PROVE  ReplacingFrom(f, reps, n) = ReplacingFrom(g, reps, n) /\ ReplacingFrom(f, reps, n) \in V
    <2>1. CASE n > Len(reps)
      BY <2>1 DEF ReplacingFrom
    <2>2. CASE ~(n > Len(reps))
      <3>1. n \in 1..Len(reps) /\ n + 1 \in D /\ rank[n + 1] < rank[n]
        BY <1>1, <2>2
      <3>2. f[n + 1] = g[n + 1] /\ f[n + 1] \in [Text -> Text]
        BY <1>2, <3>1
      <3> DEFINE once(t) == ReplaceTexts(t, [p \in reps[n].patterns |-> reps[n].with])
      <3>3. \A t \in Text : once(t) \in Text
        BY <3>1, ReplacedOnce DEF AreReplacements
      <3>4. /\ ReplacingFrom(f, reps, n) = [t \in Text |-> f[n + 1][once(t)]]
            /\ ReplacingFrom(g, reps, n) = [t \in Text |-> g[n + 1][once(t)]]
        BY <2>2 DEF ReplacingFrom
      <3> HIDE DEF once
      <3> QED
        BY <3>2, <3>3, <3>4
    <2> QED
      BY <2>1, <2>2
  <1>3. RankedStep(step, D, V, rank)
    <2>1. \A n \in D : \A f \in [D -> V] : step[<<n, f>>] = ReplacingFrom(f, reps, n)
      OBVIOUS
    <2> HIDE DEF V, D, rank
    <2>2. ASSUME NEW n \in D, NEW f \in [D -> V] PROVE ReplacingFrom(f, reps, n) \in V
      <3>1. \A i \in D : f[i] = f[i] /\ f[i] \in V
        OBVIOUS
      <3> QED
        BY <1>2, <3>1
    <2>3. step \in [D \X [D -> V] -> V]
      <3>1. \A p \in D \X [D -> V] : p[1] \in D /\ p[2] \in [D -> V]
        OBVIOUS
      <3> QED
        BY <2>2, <3>1
    <2> HIDE DEF step
    <2>4. ASSUME NEW n \in D, NEW f \in [D -> V], NEW g \in [D -> V],
                 \A i \in D : rank[i] < rank[n] => f[i] = g[i]
          PROVE  step[<<n, f>>] = step[<<n, g>>]
      <3>1. \A i \in D : rank[i] < rank[n] => f[i] = g[i] /\ f[i] \in V
        BY <2>4
      <3>2. ReplacingFrom(f, reps, n) = ReplacingFrom(g, reps, n)
        BY <1>2, <3>1
      <3> QED
        BY <2>1, <3>2
    <2> QED
      BY <2>3, <2>4 DEF RankedStep
  <1>4. [t \in Text |-> t] \in V
    OBVIOUS
  <1>5. PICK h \in [D -> V] : Recursive(h, step, D)
    <2> HIDE DEF V, D, rank, step, m
    <2> QED
      BY <1>1, <1>3, <1>4, RankedFunction
  <1>6. h = F(h)
    <2>1. \A n \in D : step[<<n, h>>] = ReplacingFrom(h, reps, n)
      OBVIOUS
    <2> HIDE DEF step
    <2> QED
      BY <1>5, <2>1 DEF Recursive
  <1>7. from = F(from)
    <2> HIDE DEF F
    <2> QED
      BY <1>6
  <1>8. Replaced(text, reps) = from[1][text]
    BY DEF Replaced, ReplacingFrom
  <1> HIDE DEF from
  <1>9. \A n \in D : from[n] = ReplacingFrom(from, reps, n)
    <2>1. \A f : \A n \in D : F(f)[n] = ReplacingFrom(f, reps, n)
      OBVIOUS
    <2> HIDE DEF F
    <2> QED
      BY <1>7, <2>1
  <1> DEFINE S == {n \in D : from[n] \in V}
  <1>10. ASSUME NEW n \in D, \A i \in D : rank[i] < rank[n] => i \in S PROVE n \in S
    <2>1. \A i \in D : rank[i] < rank[n] => from[i] = from[i] /\ from[i] \in V
      BY <1>10
    <2>2. ReplacingFrom(from, reps, n) \in V
      BY <1>2, <2>1
    <2> QED
      BY <1>9, <2>2
  <1>11. D \subseteq S
    <2> HIDE DEF S, D, rank, m
    <2>1. Inherited(S, D, rank)
      BY <1>10 DEF Inherited
    <2> QED
      BY <1>1, <2>1, RankedInduction
  <1>12. from[1] \in [Text -> Text]
    BY <1>1, <1>11
  <1>13. ASSUME Len(reps) = 0 PROVE from[1][text] = text
    <2>1. from[1] = ReplacingFrom(from, reps, 1)
      BY <1>1, <1>9
    <2> QED
      BY <1>13, <2>1 DEF ReplacingFrom
  <1> QED
    BY <1>8, <1>12, <1>13

-----------------------------------------------------------------------------
(* What the decoder reads. *)

\* The elements of the positions that it reaches: names are any texts.
Step == ({"key"} \X Text) \cup ({"index"} \X Nat)

Docs == UNION {[D -> Containers \cup Scalar] : D \in SUBSET Seq(Step)}

Wants == {"value", "string", "first name", "first item", "name", "name begin", "colon", "next",
          "digit", "end", "nothing"}

Readers == [doc : Docs, at : Seq(Step), want : Wants, text : Text, escape : BOOLEAN]

\* A value can be put at q.
Placed(doc, q) == q # <<>> => Fits(doc, Front(q), Last(q))

\* The decoder is where it can put what it wants.
InPlaceOf(r) ==
    /\ r.want \in {"value", "string", "digit", "colon"} => Placed(r.doc, r.at)
    /\ r.want = "digit" => r.text \in Numeral
    /\ r.want = "first item" => r.at \in DOMAIN r.doc /\ r.doc[r.at] = ListNode
    /\ r.want \in {"first name", "name begin", "name"} => r.at \in DOMAIN r.doc /\ r.doc[r.at] = MapNode
    /\ r.want = "next" => r.at \in DOMAIN r.doc /\ r.at # <<>>

\* What it has read is a document.
Readings == {r \in Readers : IsDocument(r.doc) /\ InPlaceOf(r)}

\* Functions from positions to nodes.
LEMMA DocsAre ==
    ASSUME NEW doc
    PROVE  doc \in Docs <=> /\ doc = [q \in DOMAIN doc |-> doc[q]] /\ DOMAIN doc \subseteq Seq(Step)
                            /\ \A q \in DOMAIN doc : doc[q] \in Containers \cup Scalar
  <1>1. ASSUME doc = [q \in DOMAIN doc |-> doc[q]], DOMAIN doc \subseteq Seq(Step),
               \A q \in DOMAIN doc : doc[q] \in Containers \cup Scalar
        PROVE  doc \in Docs
    <2> DEFINE D == DOMAIN doc
    <2>1. D \in SUBSET Seq(Step) /\ doc \in [D -> Containers \cup Scalar]
      BY <1>1
    <2> HIDE DEF D
    <2> QED
      BY <2>1 DEF Docs
  <1> QED
    BY <1>1 DEF Docs

\* The value is at q, with what was not below it.
HasValue(new, doc, q, value) ==
    /\ DOMAIN new = {p \in DOMAIN doc : ~IsPrefix(q, p)} \cup {q}
    /\ new = [p \in DOMAIN new |-> new[p]]
    /\ new[q] = value
    /\ \A p \in DOMAIN doc : ~IsPrefix(q, p) => new[p] = doc[p]

LEMMA SetValueAt ==
    ASSUME NEW doc, DOMAIN doc \subseteq Seq(Step), NEW q \in Seq(Step), NEW value
    PROVE  HasValue(SetValue(doc, q, value), doc, q, value)
  <1> DEFINE contents == [p \in {q} |-> Leaf(value)]
             kept == {p \in DOMAIN doc : \A x \in DOMAIN contents : ~IsPrefix(x, p)}
             grafted == UNION {{p \o r : r \in DOMAIN contents[p]} : p \in DOMAIN contents}
             above(p) == CHOOSE x \in DOMAIN contents : IsPrefix(x, p)
  <1>1. /\ DOMAIN contents = {q} /\ contents[q] = Leaf(value)
        /\ DOMAIN Leaf(value) = {<<>>} /\ Leaf(value)[<<>>] = value
    BY DEF Leaf
  <1>2. q \o <<>> = q /\ SubSeq(q, Len(q) + 1, Len(q)) = <<>>
    OBVIOUS
  <1>3. IsPrefix(q, q)
    BY PrefixAt
  <1>4. SetValue(doc, q, value) =
           [p \in kept \cup grafted |->
               IF p \in kept THEN doc[p]
               ELSE contents[above(p)][SubSeq(p, Len(above(p)) + 1, Len(p))]]
    BY DEF SetValue, Graft
  <1>5. kept = {p \in DOMAIN doc : ~IsPrefix(q, p)}
    BY <1>1
  <1>6. grafted = {q}
    <2>1. grafted = {q \o r : r \in {<<>>}}
      BY <1>1
    <2> QED
      BY <1>2, <2>1
  <1>7. above(q) = q
    BY <1>1, <1>3
  <1>8. q \notin kept
    BY <1>3, <1>5
  <1> HIDE DEF contents, kept, grafted, above
  <1>9. SetValue(doc, q, value)[q] = contents[q][SubSeq(q, Len(q) + 1, Len(q))]
    BY <1>4, <1>6, <1>7, <1>8
  <1>10. contents[q][SubSeq(q, Len(q) + 1, Len(q))] = value
    BY <1>1, <1>2
  <1> DEFINE new == SetValue(doc, q, value)
  <1>11. new = [p \in DOMAIN new |-> new[p]]
    BY <1>4
  <1>12. /\ DOMAIN new = {p \in DOMAIN doc : ~IsPrefix(q, p)} \cup {q}
         /\ new[q] = value
         /\ \A p \in DOMAIN doc : ~IsPrefix(q, p) => new[p] = doc[p]
    BY <1>4, <1>5, <1>6, <1>9, <1>10
  <1> HIDE DEF new
  <1>13. HasValue(new, doc, q, value)
    BY <1>11, <1>12 DEF HasValue
  <1> QED
    BY <1>13 DEF new

\* Where there is place, a value keeps a document a document.
LEMMA PutDocument ==
    ASSUME NEW doc \in Docs, IsDocument(doc), NEW q \in Seq(Step), Placed(doc, q),
           NEW value \in Containers \cup Scalar
    PROVE  /\ SetValue(doc, q, value) \in Docs /\ IsDocument(SetValue(doc, q, value))
           /\ q \in DOMAIN SetValue(doc, q, value) /\ SetValue(doc, q, value)[q] = value
  <1> DEFINE new == SetValue(doc, q, value)
  <1>1. /\ doc = [p \in DOMAIN doc |-> doc[p]] /\ DOMAIN doc \subseteq Seq(Step)
        /\ \A p \in DOMAIN doc : doc[p] \in Containers \cup Scalar
    BY DocsAre
  <1>2. HasValue(new, doc, q, value)
    BY <1>1, SetValueAt
  <1> HIDE DEF new
  <1>3. new \in Docs
    <2>1. /\ new = [p \in DOMAIN new |-> new[p]] /\ DOMAIN new \subseteq Seq(Step)
          /\ \A p \in DOMAIN new : new[p] \in Containers \cup Scalar
      BY <1>1, <1>2 DEF HasValue
    <2> QED
      BY <2>1, DocsAre
  <1>4. <<>> \in DOMAIN new
    <2>1. CASE q = <<>>
      <3>1. q \in DOMAIN new
        BY <1>2 DEF HasValue
      <3> QED
        BY <2>1, <3>1
    <2>2. CASE q # <<>>
      <3>1. ~IsPrefix(q, <<>>)
        BY <2>2, OnlyRoot
      <3> QED
        BY <1>2, <3>1 DEF IsDocument, HasValue
    <2> QED
      BY <2>1, <2>2
  <1>5. ASSUME NEW p \in DOMAIN new, p # <<>> PROVE Fits(new, Front(p), Last(p))
    <2>1. p \in Seq(Step) /\ Front(p) \in Seq(Step) /\ Last(p) \in Step
      BY <1>1, <1>2, <1>5, ChildOf DEF HasValue
    <2>2. Fits(doc, Front(p), Last(p))
      <3>1. CASE p = q
        BY <1>5, <3>1 DEF Placed
      <3>2. CASE p # q
        <4>1. p \in DOMAIN doc \ {<<>>}
          BY <1>2, <1>5, <3>2 DEF HasValue
        <4> QED
          BY <4>1 DEF IsDocument, Fits
      <3> QED
        BY <3>1, <3>2
    <2>3. ~IsPrefix(q, Front(p))
      <3>1. CASE p = q
        <4>1. Len(Front(q)) = Len(q) - 1 /\ Len(q) \in Nat \ {0} /\ Front(q) \in Seq(Step)
          BY <1>5, <3>1, ChildOf
        <4>2. ~(Len(q) <= Len(Front(q)))
          BY <4>1
        <4> QED
          BY <3>1, <4>1, <4>2, PrefixAt
      <3>2. CASE p # q
        BY <1>2, <1>5, <2>1, <3>2, PrefixOfChild DEF HasValue
      <3> QED
        BY <3>1, <3>2
    <2>4. Front(p) \in DOMAIN new /\ new[Front(p)] = doc[Front(p)]
      BY <1>2, <2>2, <2>3 DEF Fits, HasValue
    <2>5. ASSUME IsIndex(Last(p)), Last(p)[2] # 0
          PROVE  Append(Front(p), IndexElem(Last(p)[2] - 1)) \in DOMAIN new
      <3> DEFINE e == IndexElem(Last(p)[2] - 1)
                 b == Append(Front(p), e)
      <3>1. b \in DOMAIN doc
        BY <2>2, <2>5 DEF Fits
      <3>2. Last(p)[2] \in Nat
        BY <2>1, <2>5 DEF Step, IsIndex
      <3>3. Last(p)[2] - 1 \in Nat
        BY <2>5, <3>2
      <3>4. e \in Step
        BY <3>3 DEF Step, IndexElem
      <3> HIDE DEF e
      <3>5. b \in Seq(Step) /\ b # <<>> /\ Front(b) = Front(p)
        BY <2>1, <3>4, Appended
      <3> HIDE DEF b
      <3>6. IsPrefix(q, b) => q = b
        BY <2>3, <3>5, PrefixOfChild
      <3>7. b \in DOMAIN new
        BY <1>2, <3>1, <3>6 DEF HasValue
      <3> QED
        BY <3>7 DEF b, e
    <2> QED
      BY <2>2, <2>4, <2>5 DEF Fits
  <1>6. IsDocument(new)
    BY <1>4, <1>5 DEF IsDocument, Fits
  <1> QED
    <2>1. new \in Docs /\ IsDocument(new) /\ q \in DOMAIN new /\ new[q] = value
      BY <1>2, <1>3, <1>6 DEF HasValue
    <2> QED
      BY <2>1 DEF new

LEMMA DigitsAre == Digit = {"0", "1", "2", "3", "4", "5", "6", "7", "8", "9"}
  <1>1. DOMAIN DigitOf = 1..10
    BY DEF DigitOf
  <1>2. 1..10 = {1, 2, 3, 4, 5, 6, 7, 8, 9, 10}
    OBVIOUS
  <1> QED
    BY <1>1, <1>2 DEF Digit, Range, DigitOf

\* Where the decoder puts a node.
LEMMA PutKeeps ==
    ASSUME NEW r \in Readers, IsDocument(r.doc), Placed(r.doc, r.at),
           NEW node \in Containers \cup Scalar
    PROVE  /\ Put(r, node) \in Readers /\ IsDocument(Put(r, node).doc)
           /\ Put(r, node).at = r.at
           /\ r.at \in DOMAIN Put(r, node).doc /\ Put(r, node).doc[r.at] = node
  <1> DEFINE new == SetValue(r.doc, r.at, node)
  <1>1. r.doc \in Docs /\ r.at \in Seq(Step)
    BY DEF Readers
  <1>2. new \in Docs /\ IsDocument(new) /\ r.at \in DOMAIN new /\ new[r.at] = node
    BY <1>1, PutDocument
  <1>3. Put(r, node) = [r EXCEPT !.doc = new]
    BY DEF Put
  <1> HIDE DEF new
  <1>4. [r EXCEPT !.doc = new] \in Readers /\ [r EXCEPT !.doc = new].doc = new
        /\ [r EXCEPT !.doc = new].at = r.at
    BY <1>2 DEF Readers
  <1> QED
    BY <1>2, <1>3, <1>4

\* A node with other fields.
LEMMA ReaderWith ==
    ASSUME NEW r \in Readers, NEW want \in Wants
    PROVE  LET new == [r EXCEPT !.want = want]
           IN  /\ new \in Readers /\ new.doc = r.doc /\ new.at = r.at /\ new.want = want
               /\ new.text = r.text /\ new.escape = r.escape
  BY DEF Readers

LEMMA CompleteKeeps ==
    ASSUME NEW r \in Readers, IsDocument(r.doc), r.at \in DOMAIN r.doc
    PROVE  Complete(r) \in Readings
  <1> DEFINE want == IF r.at = <<>> THEN "end" ELSE "next"
             new == [r EXCEPT !.want = want]
  <1>1. want \in Wants /\ want \in {"end", "next"} /\ (want = "next" => r.at # <<>>)
    BY DEF Wants
  <1>2. Complete(r) = new
    BY DEF Complete
  <1> HIDE DEF want
  <1>3. new \in Readers /\ new.doc = r.doc /\ new.at = r.at /\ new.want = want
    BY <1>1, ReaderWith
  <1> HIDE DEF new
  <1>4. InPlaceOf(new)
    BY <1>1, <1>3 DEF InPlaceOf
  <1> QED
    BY <1>2, <1>3, <1>4 DEF Readings

LEMMA RefusedKeeps ==
    ASSUME NEW r \in Readers, IsDocument(r.doc)
    PROVE  Refused(r) \in Readings
  <1> DEFINE new == [r EXCEPT !.want = "nothing"]
  <1>1. "nothing" \in Wants
    BY DEF Wants
  <1>2. new \in Readers /\ new.doc = r.doc /\ new.want = "nothing"
    BY <1>1, ReaderWith
  <1>3. Refused(r) = new
    BY DEF Refused
  <1> HIDE DEF new
  <1>4. InPlaceOf(new)
    BY <1>2 DEF InPlaceOf
  <1> QED
    BY <1>2, <1>3, <1>4 DEF Readings

LEMMA BeginTextKeeps ==
    ASSUME NEW r \in Readers, IsDocument(r.doc), NEW want \in {"string", "name"},
           want = "string" => Placed(r.doc, r.at),
           want = "name" => r.at \in DOMAIN r.doc /\ r.doc[r.at] = MapNode
    PROVE  BeginText(r, want) \in Readings
  <1> DEFINE new == BeginText(r, want)
  <1>1. <<>> \in Text /\ want \in Wants
    <2>1. <<>> \in Text
      BY DEF Text
    <2>2. want \in Wants
      BY DEF Wants
    <2> QED
      BY <2>1, <2>2
  <1>2. new \in Readers /\ new.doc = r.doc /\ new.want = want /\ new.at = r.at
    <2> DEFINE none == <<>>
    <2>1. new = [r EXCEPT !.want = want, !.text = none]
      BY DEF BeginText
    <2>2. none \in Text
      BY <1>1
    <2> HIDE DEF none, new
    <2> QED
      BY <1>1, <2>1, <2>2 DEF Readers
  <1> HIDE DEF new
  <1>3. InPlaceOf(new)
    BY <1>2 DEF InPlaceOf
  <1> QED
    BY <1>2, <1>3 DEF Readings, new

\* The first symbol of a value.
LEMMA ReadValueKeeps ==
    ASSUME NEW r \in Readers, IsDocument(r.doc), Placed(r.doc, r.at), NEW s \in Symbol
    PROVE  ReadValue(r, s) \in Readings
  <1>1. BeginText(r, "string") \in Readings
    <2> DEFINE want == "string"
    <2>1. /\ want \in {"string", "name"} /\ (want = "string" => Placed(r.doc, r.at))
          /\ (want = "name" => r.at \in DOMAIN r.doc /\ r.doc[r.at] = MapNode)
      OBVIOUS
    <2> HIDE DEF want
    <2>2. BeginText(r, want) \in Readings
      BY <2>1, BeginTextKeeps
    <2> QED
      BY <2>2 DEF want
  <1>2. ASSUME NEW node \in Containers, NEW want \in {"first name", "first item"},
               want = "first name" => node = MapNode, want = "first item" => node = ListNode
        PROVE  [Put(r, node) EXCEPT !.want = want] \in Readings
    <2> DEFINE put == Put(r, node)
               new == [put EXCEPT !.want = want]
    <2>1. put \in Readers /\ IsDocument(put.doc) /\ put.at = r.at
          /\ r.at \in DOMAIN put.doc /\ put.doc[r.at] = node
      BY PutKeeps
    <2> HIDE DEF put
    <2>2. want \in Wants
      BY DEF Wants
    <2>3. new \in Readers /\ new.doc = put.doc /\ new.want = want /\ new.at = put.at
      BY <2>1, <2>2, ReaderWith
    <2> HIDE DEF new
    <2>4. InPlaceOf(new)
      BY <1>2, <2>1, <2>3 DEF InPlaceOf
    <2>5. new \in Readings
      BY <2>1, <2>3, <2>4 DEF Readings
    <2> QED
      BY <2>5 DEF new, put
  <1>3. ASSUME NEW node \in Scalar PROVE Complete(Put(r, node)) \in Readings
    <2>1. /\ Put(r, node) \in Readers /\ IsDocument(Put(r, node).doc)
          /\ Put(r, node).at = r.at
          /\ r.at \in DOMAIN Put(r, node).doc
      BY PutKeeps
    <2> QED
      BY <2>1, CompleteKeeps
  <1>4. s \in Literal => LiteralValue(s) \in Scalar
    BY DEF Scalar
  <1>5. ASSUME s \in Digit PROVE [r EXCEPT !.want = "digit", !.text = <<s>>] \in Readings
    <2> DEFINE new == [r EXCEPT !.want = "digit", !.text = <<s>>]
    <2>1. <<s>> \in Text /\ "digit" \in Wants
      BY DEF Text, Wants
    <2>2. <<s>> \in Numeral
      BY <1>5 DEF Numeral
    <2>3. new \in Readers /\ new.doc = r.doc /\ new.want = "digit" /\ new.at = r.at /\ new.text = <<s>>
      BY <2>1 DEF Readers
    <2> HIDE DEF new
    <2>4. InPlaceOf(new)
      BY <2>2, <2>3 DEF InPlaceOf
    <2>5. new \in Readings
      BY <2>3, <2>4 DEF Readings
    <2> QED
      BY <2>5 DEF new
  <1>6. Refused(r) \in Readings
    BY RefusedKeeps
  <1>7. MapNode \in Containers /\ ListNode \in Containers
    BY DEF Containers
  <1>8. /\ [Put(r, MapNode) EXCEPT !.want = "first name"] \in Readings
        /\ [Put(r, ListNode) EXCEPT !.want = "first item"] \in Readings
    BY <1>2, <1>7
  <1>9. s \in Literal => Complete(Put(r, LiteralValue(s))) \in Readings
    BY <1>3, <1>4
  <1>10. /\ Quote \notin {"{", "["} \cup Literal \cup Digit /\ "{" # "["
         /\ \A x \in {"{", "["} : x \notin Literal /\ x \notin Digit
         /\ \A x \in Literal : x \notin Digit
    <2>1. Quote \notin Digit /\ Quote \notin Marks
      BY TextAssumption
    <2>2. "{" \in Marks /\ "[" \in Marks /\ Literal \subseteq Marks
      BY DEF Marks
    <2>3. \A x \in {"{", "["} \cup Literal : x \notin Digit
      BY DigitsAre DEF Literal
    <2> QED
      BY <2>1, <2>2, <2>3 DEF Literal
  <1>11. CASE s = "{"
    BY <1>8, <1>10, <1>11 DEF ReadValue
  <1>12. CASE s = "["
    BY <1>8, <1>10, <1>12 DEF ReadValue
  <1>13. CASE s \in Literal
    BY <1>9, <1>10, <1>13 DEF ReadValue
  <1>14. CASE s \in Digit
    BY <1>5, <1>10, <1>14 DEF ReadValue
  <1>15. CASE s \notin {Quote, "{", "["} \cup Literal \cup Digit
    BY <1>6, <1>15 DEF ReadValue
  <1>16. CASE s = Quote
    BY <1>1, <1>10, <1>16 DEF ReadValue
  <1> QED
    BY <1>11, <1>12, <1>13, <1>14, <1>15, <1>16

\* A position is what leads to it, and one element more.
LEMMA FrontLast ==
    ASSUME NEW S, NEW q \in Seq(S), q # <<>>
    PROVE  q = Append(Front(q), Last(q))
  <1> DEFINE p == Append(Front(q), Last(q))
  <1>1. /\ Len(q) \in Nat \ {0} /\ Front(q) \in Seq(S) /\ Last(q) \in S
        /\ Len(Front(q)) = Len(q) - 1 /\ Last(q) = q[Len(q)]
        /\ \A i \in 1..Len(q)-1 : Front(q)[i] = q[i]
    BY ChildOf
  <1>2. /\ p \in Seq(S) /\ Len(p) = Len(Front(q)) + 1 /\ p[Len(Front(q)) + 1] = Last(q)
        /\ \A i \in 1..Len(Front(q)) : p[i] = Front(q)[i]
    BY <1>1, Appended
  <1> HIDE DEF p
  <1>3. Len(p) = Len(q) /\ \A i \in 1..Len(q) : p[i] = q[i]
    BY <1>1, <1>2
  <1>4. p = q
    BY <1>2, <1>3, SeqEqual
  <1> QED
    BY <1>4 DEF p

LEMMA ReadNameKeeps ==
    ASSUME NEW r \in Readers, IsDocument(r.doc), r.at \in DOMAIN r.doc, r.doc[r.at] = MapNode,
           NEW s \in Symbol
    PROVE  ReadName(r, s) \in Readings
  <1> DEFINE want == "name"
  <1>1. /\ want \in {"string", "name"} /\ (want = "string" => Placed(r.doc, r.at))
        /\ (want = "name" => r.at \in DOMAIN r.doc /\ r.doc[r.at] = MapNode)
    OBVIOUS
  <1> HIDE DEF want
  <1>2. BeginText(r, want) \in Readings
    BY <1>1, BeginTextKeeps
  <1>3. Refused(r) \in Readings
    BY RefusedKeeps
  <1> QED
    BY <1>2, <1>3 DEF ReadName, want

\* What follows a value is beside it, or around it.
LEMMA ReadNextKeeps ==
    ASSUME NEW r \in Readers, IsDocument(r.doc), r.at \in DOMAIN r.doc, r.at # <<>>, NEW s \in Symbol
    PROVE  ReadNext(r, s) \in Readings
  <1> DEFINE container == Front(r.at)
             elem == Last(r.at)
             next == IF InList(r.at)
                     THEN [at |-> Append(container, IndexElem(elem[2] + 1)), want |-> "value"]
                     ELSE [at |-> container, want |-> "name begin"]
             close == IF InList(r.at) THEN "]" ELSE "}"
             moved == [r EXCEPT !.at = next.at, !.want = next.want]
             closed == Complete([r EXCEPT !.at = container])
  <1>1. r.doc \in Docs /\ r.at \in Seq(Step)
    BY DEF Readers
  <1>2. container \in Seq(Step) /\ elem \in Step
    BY <1>1, ChildOf
  <1>3. Fits(r.doc, container, elem)
    BY DEF IsDocument, Fits
  <1>4. InList(r.at) <=> IsIndex(elem)
    BY DEF InList
  <1>5. moved \in Readings
    <2>1. CASE IsIndex(elem)
      <3> DEFINE new == IndexElem(elem[2] + 1)
                 at == Append(container, new)
      <3>1. elem[2] \in Nat /\ elem = IndexElem(elem[2])
        BY <1>2, <2>1 DEF Step, IsIndex, IndexElem
      <3>2. new \in Step /\ IsIndex(new) /\ new[2] - 1 = elem[2]
        BY <3>1 DEF Step, IsIndex, IndexElem
      <3>3. next.at = at /\ next.want = "value" /\ "value" \in Wants
        BY <1>4, <2>1 DEF Wants
      <3>4. Append(container, IndexElem(new[2] - 1)) = r.at
        <4>1. r.at = Append(container, elem)
          BY <1>1, FrontLast
        <4> QED
          BY <3>1, <3>2, <4>1
      <3> HIDE DEF new, container, elem, next
      <3>5. at \in Seq(Step) /\ at # <<>> /\ Front(at) = container /\ Last(at) = new
        BY <1>2, <3>2, Appended
      <3>6. Placed(r.doc, at)
        BY <1>3, <2>1, <3>2, <3>4, <3>5 DEF Placed, Fits
      <3> HIDE DEF at
      <3>7. /\ moved \in Readers /\ moved.doc = r.doc /\ moved.at = at /\ moved.want = "value"
        <4> DEFINE there == [r EXCEPT !.at = at, !.want = "value"]
        <4>1. moved = there
          BY <3>3
        <4>2. there \in Readers /\ there.doc = r.doc /\ there.at = at /\ there.want = "value"
          BY <3>3, <3>5 DEF Readers
        <4> QED
          BY <4>1, <4>2
      <3> HIDE DEF moved
      <3>8. InPlaceOf(moved)
        BY <3>6, <3>7 DEF InPlaceOf
      <3> QED
        BY <3>7, <3>8 DEF Readings
    <2>2. CASE ~IsIndex(elem)
      <3>1. next.at = container /\ next.want = "name begin" /\ "name begin" \in Wants
        BY <1>4, <2>2 DEF Wants
      <3> HIDE DEF container, elem, next
      <3>2. /\ moved \in Readers /\ moved.doc = r.doc /\ moved.at = container /\ moved.want = "name begin"
        <4> DEFINE new == [r EXCEPT !.at = container, !.want = "name begin"]
        <4>1. moved = new
          BY <3>1
        <4>2. new \in Readers /\ new.doc = r.doc /\ new.at = container /\ new.want = "name begin"
          BY <1>2, <3>1 DEF Readers
        <4> QED
          BY <4>1, <4>2
      <3> HIDE DEF moved
      <3>3. InPlaceOf(moved)
        BY <1>3, <2>2, <3>2 DEF InPlaceOf, Fits
      <3> QED
        BY <3>2, <3>3 DEF Readings
    <2> QED
      BY <2>1, <2>2
  <1>6. closed \in Readings
    <2> DEFINE up == [r EXCEPT !.at = container]
    <2> HIDE DEF container
    <2>1. up \in Readers /\ up.doc = r.doc /\ up.at = container
      BY <1>2 DEF Readers
    <2>2. up.at \in DOMAIN up.doc
      BY <1>3, <2>1 DEF Fits
    <2> HIDE DEF up
    <2>3. Complete(up) \in Readings
      BY <2>1, <2>2, CompleteKeeps
    <2> QED
      BY <2>3 DEF up
  <1>7. Refused(r) \in Readings
    BY RefusedKeeps
  <1>8. /\ s = "," => ReadNext(r, s) = moved
        /\ s # "," /\ s = close => ReadNext(r, s) = closed
        /\ s # "," /\ s # close => ReadNext(r, s) = Refused(r)
    <2>1. close # ","
      OBVIOUS
    <2> QED
      BY <2>1 DEF ReadNext
  <1> QED
    BY <1>5, <1>6, <1>7, <1>8

\* Inside quotes.
LEMMA ReadTextKeeps ==
    ASSUME NEW r \in Readings, r.want \in {"string", "name"}, NEW s \in Symbol
    PROVE  ReadText(r, s) \in Readings
  <1>1. r \in Readers /\ IsDocument(r.doc) /\ InPlaceOf(r) /\ r.text \in Text /\ r.at \in Seq(Step)
        /\ r.escape \in BOOLEAN
    BY DEF Readings, Readers
  <1>2. Append(r.text, s) \in Text
    BY <1>1 DEF Text
  <1>3. Refused(r) \in Readings
    BY <1>1, RefusedKeeps
  <1>4. ASSUME NEW text \in Text, NEW escape \in BOOLEAN
        PROVE  [r EXCEPT !.text = text, !.escape = escape] \in Readings
    <2> DEFINE new == [r EXCEPT !.text = text, !.escape = escape]
    <2>1. new \in Readers /\ new.doc = r.doc /\ new.at = r.at /\ new.want = r.want
      BY <1>1, <1>4 DEF Readers
    <2> HIDE DEF new
    <2>2. InPlaceOf(new)
      BY <1>1, <2>1 DEF InPlaceOf
    <2>3. new \in Readings
      BY <1>1, <2>1, <2>2 DEF Readings
    <2> QED
      BY <2>3 DEF new
  <1>5. r.escape /\ s \in {Quote, Backslash} =>
           [r EXCEPT !.text = Append(@, s), !.escape = FALSE] \in Readings
    <2> DEFINE text == Append(r.text, s)
    <2>1. [r EXCEPT !.text = Append(@, s), !.escape = FALSE] = [r EXCEPT !.text = text, !.escape = FALSE]
      OBVIOUS
    <2>2. text \in Text
      BY <1>2
    <2> HIDE DEF text
    <2>3. [r EXCEPT !.text = text, !.escape = FALSE] \in Readings
      BY <1>4, <2>2
    <2> QED
      BY <2>1, <2>3
  <1>6. ~r.escape /\ s = Backslash => [r EXCEPT !.escape = TRUE] \in Readings
    <2>1. [r EXCEPT !.text = r.text, !.escape = TRUE] \in Readings
      BY <1>1, <1>4
    <2>2. [r EXCEPT !.text = r.text, !.escape = TRUE] = [r EXCEPT !.escape = TRUE]
      BY <1>1 DEF Readers
    <2> QED
      BY <2>1, <2>2
  <1>7. ~r.escape => [r EXCEPT !.text = Append(@, s)] \in Readings
    <2> DEFINE text == Append(r.text, s)
    <2>1. text \in Text /\ [r EXCEPT !.text = Append(@, s)] = [r EXCEPT !.text = text]
      BY <1>2
    <2> HIDE DEF text
    <2>2. [r EXCEPT !.text = text, !.escape = r.escape] \in Readings
      BY <1>1, <1>4, <2>1
    <2>3. [r EXCEPT !.text = text, !.escape = r.escape] = [r EXCEPT !.text = text]
      BY <1>1 DEF Readers
    <2> QED
      BY <2>1, <2>2, <2>3
  <1>8. r.want = "name" => [r EXCEPT !.at = Append(@, KeyElem(r.text)), !.want = "colon"] \in Readings
    <2> DEFINE e == KeyElem(r.text)
               at == Append(r.at, e)
               new == [r EXCEPT !.at = at, !.want = "colon"]
    <2> SUFFICES ASSUME r.want = "name" PROVE new \in Readings
      OBVIOUS
    <2>1. e \in Step /\ ~IsIndex(e)
      BY <1>1 DEF Step, KeyElem, IsIndex
    <2> HIDE DEF e
    <2>2. at \in Seq(Step) /\ at # <<>> /\ Front(at) = r.at /\ Last(at) = e
      BY <1>1, <2>1, Appended
    <2>3. r.at \in DOMAIN r.doc /\ r.doc[r.at] = MapNode
      BY <1>1 DEF InPlaceOf
    <2> HIDE DEF at
    <2>4. Placed(r.doc, at)
      BY <2>1, <2>2, <2>3 DEF Placed, Fits
    <2>5. "colon" \in Wants
      BY DEF Wants
    <2>6. new \in Readers /\ new.doc = r.doc /\ new.at = at /\ new.want = "colon"
      BY <1>1, <2>2, <2>5 DEF Readers
    <2> HIDE DEF new
    <2>7. InPlaceOf(new)
      BY <2>4, <2>6 DEF InPlaceOf
    <2> QED
      BY <1>1, <2>6, <2>7 DEF Readings
  <1>9. r.want = "string" => Complete(Put(r, Str(r.text))) \in Readings
    <2> SUFFICES ASSUME r.want = "string" PROVE Complete(Put(r, Str(r.text))) \in Readings
      OBVIOUS
    <2>1. Placed(r.doc, r.at)
      BY <1>1 DEF InPlaceOf
    <2>2. Str(r.text) \in Containers \cup Scalar
      BY <1>1 DEF Str, Scalar
    <2>3. /\ Put(r, Str(r.text)) \in Readers /\ IsDocument(Put(r, Str(r.text)).doc)
          /\ Put(r, Str(r.text)).at = r.at
          /\ r.at \in DOMAIN Put(r, Str(r.text)).doc
      BY <1>1, <2>1, <2>2, PutKeeps
    <2> QED
      BY <2>3, CompleteKeeps
  <1>10. Quote # Backslash
    BY TextAssumption
  <1>11. CASE r.escape
    BY <1>3, <1>5, <1>11 DEF ReadText
  <1>12. CASE ~r.escape /\ s = Backslash
    BY <1>6, <1>10, <1>12 DEF ReadText
  <1>13. CASE ~r.escape /\ s = Quote
    BY <1>8, <1>9, <1>10, <1>13 DEF ReadText
  <1>14. CASE ~r.escape /\ s \notin {Quote, Backslash}
    BY <1>7, <1>14 DEF ReadText
  <1> QED
    BY <1>11, <1>12, <1>13, <1>14

\* A longer number.
LEMMA ReadDigitKeeps ==
    ASSUME NEW r \in Readings, r.want = "digit", NEW s \in Digit
    PROVE  ReadDigit(r, s) \in Readings
  <1>1. r \in Readers /\ IsDocument(r.doc) /\ InPlaceOf(r) /\ r.text \in Numeral
    BY DEF Readings, InPlaceOf
  <1>2. Refused(r) \in Readings
    BY <1>1, RefusedKeeps
  <1> DEFINE text == Append(r.text, s)
             new == [r EXCEPT !.text = text]
  <1>3. ASSUME r.text # <<"0">> PROVE new \in Readings
    <2>1. r.text \in Seq(Digit) /\ r.text # <<>> /\ Len(r.text) \in Nat \ {0}
          /\ (r.text[1] = "0" => Len(r.text) = 1)
      BY <1>1 DEF Numeral
    <2>2. r.text[1] # "0"
      <3>1. ASSUME r.text[1] = "0" PROVE r.text = <<"0">>
        BY <2>1, <3>1
      <3> QED
        BY <1>3, <3>1
    <2>3. text \in Seq(Digit) /\ text # <<>> /\ text[1] = r.text[1]
      BY <2>1
    <2>4. text \in Numeral
      BY <2>2, <2>3 DEF Numeral
    <2>5. Digit \subseteq Symbol
      BY TextAssumption
    <2>6. text \in Text
      BY <2>3, <2>5 DEF Text
    <2> HIDE DEF text
    <2>7. new \in Readers /\ new.doc = r.doc /\ new.at = r.at /\ new.want = r.want /\ new.text = text
      BY <1>1, <2>6 DEF Readers
    <2> HIDE DEF new
    <2>8. InPlaceOf(new)
      BY <1>1, <2>4, <2>7 DEF InPlaceOf
    <2> QED
      BY <1>1, <2>7, <2>8 DEF Readings
  <1>4. new = [r EXCEPT !.text = Append(@, s)]
    OBVIOUS
  <1> QED
    BY <1>2, <1>3, <1>4 DEF ReadDigit

\* A number that ends.
LEMMA NumberEndedKeeps ==
    ASSUME NEW r \in Readings
    PROVE  /\ NumberEnded(r) \in Readings /\ NumberEnded(r).want # "digit"
           /\ r.want # "digit" => NumberEnded(r) = r
  <1>1. r \in Readers /\ IsDocument(r.doc) /\ InPlaceOf(r)
    BY DEF Readings
  <1>2. CASE r.want = "digit"
    <2> DEFINE put == Put(r, Number(r.text))
    <2>1. Placed(r.doc, r.at) /\ Number(r.text) \in Containers \cup Scalar
      BY <1>1, <1>2 DEF InPlaceOf, Number, Scalar
    <2>2. /\ put \in Readers /\ IsDocument(put.doc)
          /\ put.at = r.at /\ r.at \in DOMAIN put.doc
      BY <1>1, <2>1, PutKeeps
    <2> HIDE DEF put
    <2>3. Complete(put) \in Readings
      BY <2>2, CompleteKeeps
    <2>4. Complete(put).want \in {"end", "next"}
      BY <2>2 DEF Complete, Readers
    <2>5. NumberEnded(r) = Complete(put)
      BY <1>2 DEF NumberEnded, put
    <2> QED
      BY <1>2, <2>3, <2>4, <2>5
  <1>3. CASE r.want # "digit"
    BY <1>3 DEF NumberEnded
  <1> QED
    BY <1>2, <1>3

\* Between strings and numbers.
LEMMA ReadMarkKeeps ==
    ASSUME NEW r \in Readings, NEW s \in Symbol
    PROVE  ReadMark(r, s) \in Readings
  <1>1. r \in Readers /\ IsDocument(r.doc) /\ InPlaceOf(r) /\ r.at \in Seq(Step)
    BY DEF Readings, Readers
  <1>2. Refused(r) \in Readings
    BY <1>1, RefusedKeeps
  <1>3. CASE r.want = "value"
    <2>1. Placed(r.doc, r.at)
      BY <1>1, <1>3 DEF InPlaceOf
    <2>2. ReadValue(r, s) \in Readings
      BY <1>1, <2>1, ReadValueKeeps
    <2> QED
      BY <1>3, <2>2 DEF ReadMark
  <1>4. CASE r.want = "first item"
    <2> DEFINE e == IndexElem(0)
               at == Append(r.at, e)
               first == [r EXCEPT !.at = at]
    <2>1. r.at \in DOMAIN r.doc /\ r.doc[r.at] = ListNode
      BY <1>1, <1>4 DEF InPlaceOf
    <2>2. Complete(r) \in Readings
      BY <1>1, <2>1, CompleteKeeps
    <2>3. e \in Step /\ IsIndex(e) /\ e[2] = 0
      BY DEF Step, IndexElem, IsIndex
    <2> HIDE DEF e
    <2>4. at \in Seq(Step) /\ Front(at) = r.at /\ Last(at) = e
      BY <1>1, <2>3, Appended
    <2>5. Placed(r.doc, at)
      BY <2>1, <2>3, <2>4 DEF Placed, Fits
    <2>6. first = [r EXCEPT !.at = Append(@, IndexElem(0))]
      BY DEF e
    <2> HIDE DEF at
    <2>7. first \in Readers /\ first.doc = r.doc /\ first.at = at
      BY <1>1, <2>4 DEF Readers
    <2> HIDE DEF first
    <2>8. ReadValue(first, s) \in Readings
      BY <1>1, <2>5, <2>7, ReadValueKeeps
    <2> QED
      BY <1>4, <2>2, <2>6, <2>8 DEF ReadMark
  <1>5. CASE r.want \in {"first name", "name begin"}
    <2>1. r.at \in DOMAIN r.doc /\ r.doc[r.at] = MapNode
      BY <1>1, <1>5 DEF InPlaceOf
    <2>2. Complete(r) \in Readings
      BY <1>1, <2>1, CompleteKeeps
    <2>3. ReadName(r, s) \in Readings
      BY <1>1, <2>1, ReadNameKeeps
    <2> QED
      BY <1>5, <2>2, <2>3 DEF ReadMark
  <1>6. CASE r.want = "colon"
    <2> DEFINE new == [r EXCEPT !.want = "value"]
    <2>1. Placed(r.doc, r.at) /\ "value" \in Wants
      BY <1>1, <1>6 DEF InPlaceOf, Wants
    <2>2. new \in Readers /\ new.doc = r.doc /\ new.at = r.at /\ new.want = "value"
      BY <1>1, <2>1 DEF Readers
    <2>3. ReadMark(r, s) \in {new, Refused(r)}
      BY <1>6 DEF ReadMark
    <2> HIDE DEF new
    <2>4. InPlaceOf(new)
      BY <2>1, <2>2 DEF InPlaceOf
    <2>5. new \in Readings
      BY <1>1, <2>2, <2>4 DEF Readings
    <2> QED
      BY <1>2, <2>3, <2>5
  <1>7. CASE r.want = "next"
    <2>1. r.at \in DOMAIN r.doc /\ r.at # <<>>
      BY <1>1, <1>7 DEF InPlaceOf
    <2>2. ReadNext(r, s) \in Readings
      BY <1>1, <2>1, ReadNextKeeps
    <2> QED
      BY <1>7, <2>2 DEF ReadMark
  <1>8. CASE r.want \notin {"value", "first item", "first name", "name begin", "colon", "next"}
    BY <1>2, <1>8 DEF ReadMark
  <1> QED
    BY <1>3, <1>4, <1>5, <1>6, <1>7, <1>8

LEMMA ReadSymbolKeeps ==
    ASSUME NEW r \in Readings, NEW s \in Symbol
    PROVE  ReadSymbol(r, s) \in Readings
  <1>1. NumberEnded(r) \in Readings
    BY NumberEndedKeeps
  <1>2. ReadMark(NumberEnded(r), s) \in Readings
    BY <1>1, ReadMarkKeeps
  <1>3. CASE r.want \in {"string", "name"}
    <2>1. ReadText(r, s) \in Readings
      BY <1>3, ReadTextKeeps
    <2> QED
      BY <1>3, <2>1 DEF ReadSymbol
  <1>4. CASE r.want = "digit" /\ s \in Digit
    <2>1. ReadDigit(r, s) \in Readings
      BY <1>4, ReadDigitKeeps
    <2>2. s # Blank
      BY <1>4, TextAssumption
    <2> QED
      BY <1>4, <2>1, <2>2 DEF ReadSymbol
  <1>5. CASE r.want \notin {"string", "name"} /\ ~(r.want = "digit" /\ s \in Digit)
    BY <1>1, <1>2, <1>5 DEF ReadSymbol
  <1> QED
    BY <1>3, <1>4, <1>5

LEMMA UnreadReads == Unread \in Readings
  <1>1. Leaf(Null) \in Docs /\ IsDocument(Leaf(Null))
    <2>1. DOMAIN Leaf(Null) = {<<>>} /\ Leaf(Null) \in [{<<>>} -> {Null}]
      BY DEF Leaf
    <2>2. Null \in Scalar
      <3>1. "null" \in Literal
        BY DEF Literal
      <3> QED
        BY <3>1 DEF Null, Scalar
    <2>3. {<<>>} \in SUBSET Seq(Step)
      OBVIOUS
    <2> DEFINE D == {<<>>}
    <2>4. D \in SUBSET Seq(Step) /\ Leaf(Null) \in [D -> Containers \cup Scalar]
      BY <2>1, <2>2, <2>3
    <2> HIDE DEF D
    <2>5. Leaf(Null) \in Docs
      BY <2>4 DEF Docs
    <2>6. IsDocument(Leaf(Null))
      BY <2>1 DEF IsDocument
    <2> QED
      BY <2>5, <2>6
  <1>2. <<>> \in Seq(Step) /\ <<>> \in Text /\ "value" \in Wants
    <2>1. <<>> \in Seq(Step)
      OBVIOUS
    <2>2. <<>> \in Text
      BY DEF Text
    <2>3. "value" \in Wants
      BY DEF Wants
    <2> QED
      BY <2>1, <2>2, <2>3
  <1>3. Unread \in Readers /\ Unread.doc = Leaf(Null) /\ Unread.at = <<>> /\ Unread.want = "value"
    BY <1>1, <1>2 DEF Unread, Readers
  <1>4. InPlaceOf(Unread)
    BY <1>3 DEF InPlaceOf, Placed
  <1> QED
    BY <1>1, <1>3, <1>4 DEF Readings

\* The decoder symbol by symbol.
Reads(read, text) ==
    /\ read \in [0..Len(text) -> Readings]
    /\ read[0] = Unread
    /\ \A n \in 1..Len(text) : read[n] = ReadSymbol(read[n - 1], text[n])

LEMMA DecodedAt ==
    ASSUME NEW text \in Text
    PROVE  \E read : Reads(read, text) /\ Decoded[text] = NumberEnded(read[Len(text)])
  <1> DEFINE m == Len(text)
             D == 0..m
             F(f) == [n \in D |-> IF n = 0 THEN Unread ELSE ReadSymbol(f[n - 1], text[n])]
             read == CHOOSE f : f = F(f)
             step == [p \in (1..m) \X Readings |-> ReadSymbol(p[2], text[p[1]])]
  <1>1. m \in Nat /\ \A n \in 1..m : text[n] \in Symbol
    BY DEF Text
  <1>2. step \in [(1..m) \X Readings -> Readings]
    <2>1. \A p \in (1..m) \X Readings : p[1] \in 1..m /\ p[2] \in Readings
      OBVIOUS
    <2> HIDE DEF m
    <2>2. \A p \in (1..m) \X Readings : ReadSymbol(p[2], text[p[1]]) \in Readings
      BY <1>1, <2>1, ReadSymbolKeeps
    <2> QED
      BY <2>2
  <1>3. HasFunction(m, Readings, Unread, step)
    <2> HIDE DEF m, step
    <2> QED
      BY <1>1, <1>2, UnreadReads, LoopFunction
  <1>4. PICK g \in [D -> Readings] : g[0] = Unread /\ \A i \in 1..m : g[i] = step[<<i, g[i-1]>>]
    BY <1>3 DEF HasFunction
  <1>5. \A i \in 1..m : g[i] = ReadSymbol(g[i-1], text[i])
    <2>1. ASSUME NEW i \in 1..m PROVE g[i-1] \in Readings
      BY <1>1, <1>4
    <2> QED
      BY <1>4, <2>1
  <1>6. g = F(g)
    <2>1. ASSUME NEW n \in D PROVE g[n] = IF n = 0 THEN Unread ELSE ReadSymbol(g[n - 1], text[n])
      BY <1>1, <1>4, <1>5
    <2> QED
      BY <1>4, <2>1
  <1>7. read = F(read)
    <2> HIDE DEF F
    <2> QED
      BY <1>6
  <1>8. Decoded[text] = NumberEnded(read[m])
    BY DEF Decoded
  <1> HIDE DEF read
  <1>9. /\ read[0] = Unread /\ \A n \in 1..m : read[n] = ReadSymbol(read[n - 1], text[n])
        /\ read = [n \in D |-> read[n]]
    <2>1. \A f : /\ 0 \in D /\ F(f)[0] = Unread
                 /\ \A n \in 1..m : F(f)[n] = ReadSymbol(f[n - 1], text[n])
                 /\ F(f) = [n \in D |-> F(f)[n]]
      BY <1>1
    <2> HIDE DEF F
    <2> QED
      BY <1>7, <2>1
  <1> DEFINE S == {n \in D : read[n] \in Readings}
  <1>10. D \subseteq S
    <2>1. 0 \in S
      BY <1>1, <1>9, UnreadReads
    <2>2. ASSUME NEW i \in 0..m-1, i \in S PROVE i + 1 \in S
      <3>1. i + 1 \in 1..m /\ i + 1 \in D /\ read[i + 1] = ReadSymbol(read[i], text[i + 1])
        <4>1. i + 1 \in 1..m /\ i + 1 \in D /\ (i + 1) - 1 = i
          BY <1>1
        <4> QED
          BY <1>9, <4>1
      <3>2. text[i + 1] \in Symbol
        BY <1>1, <3>1
      <3> QED
        BY <2>2, <3>1, <3>2, ReadSymbolKeeps
    <2> HIDE DEF S, m
    <2> QED
      BY <1>1, <2>1, <2>2, UpTo
  <1>11. read \in [D -> Readings]
    BY <1>9, <1>10
  <1> QED
    BY <1>8, <1>9, <1>11 DEF Reads

\* What is decoded is a document.
LEMMA DecodedDocument ==
    ASSUME NEW text \in Text
    PROVE  Decoded[text] \in Readings /\ IsDocument(Decoded[text].doc)
  <1>1. PICK read : Reads(read, text) /\ Decoded[text] = NumberEnded(read[Len(text)])
    BY DecodedAt
  <1>2. Len(text) \in 0..Len(text)
    BY DEF Text
  <1>3. read[Len(text)] \in Readings
    BY <1>1, <1>2 DEF Reads
  <1>4. NumberEnded(read[Len(text)]) \in Readings
    BY <1>3, NumberEndedKeeps
  <1> QED
    BY <1>1, <1>4 DEF Readings

\* What the texts under the keys of a state are made of, when all of them can be decoded.
Answers(doc, reps, res) ==
    LET read == Rewritten(doc, reps)
    IN  /\ \A e \in DOMAIN read : IsValid(read[e])
        /\ res = Container(MapNode, [e \in DOMAIN read |-> read[e].doc])

\* What is in a container.
HoldsAll(new, kind, children) ==
    /\ <<>> \in DOMAIN new /\ new[<<>>] = kind
    /\ \A q \in DOMAIN new : q # <<>> =>
          \E e \in DOMAIN children : \E r \in DOMAIN children[e] : q = <<e>> \o r
    /\ \A e \in DOMAIN children : \A r \in DOMAIN children[e] :
          /\ <<e>> \o r \in DOMAIN new
          /\ e \in Step /\ r \in Seq(Step) => new[<<e>> \o r] = children[e][r]

LEMMA ContainerAt ==
    ASSUME NEW kind, NEW children
    PROVE  HoldsAll(Container(kind, children), kind, children)
  <1> DEFINE part(e) == {<<e>> \o r : r \in DOMAIN children[e]}
             below == UNION {part(e) : e \in DOMAIN children}
             new == Container(kind, children)
  <1>1. /\ DOMAIN new = {<<>>} \cup below
        /\ \A q \in {<<>>} \cup below :
              new[q] = IF q = <<>> THEN kind ELSE children[Head(q)][Tail(q)]
    BY DEF Container
  <1>2. \A q : q \in below <=> \E e \in DOMAIN children : q \in part(e)
    <2> HIDE DEF part
    <2> QED
      OBVIOUS
  <1> HIDE DEF new, below
  <1>3. ASSUME NEW e \in DOMAIN children, NEW r \in DOMAIN children[e]
        PROVE  /\ <<e>> \o r \in DOMAIN new
               /\ e \in Step /\ r \in Seq(Step) => new[<<e>> \o r] = children[e][r]
    <2>1. <<e>> \o r \in part(e)
      OBVIOUS
    <2> HIDE DEF part
    <2>2. <<e>> \o r \in below
      BY <1>2, <2>1
    <2>3. ASSUME e \in Step, r \in Seq(Step)
          PROVE  Head(<<e>> \o r) = e /\ Tail(<<e>> \o r) = r /\ <<e>> \o r # <<>>
      BY <2>3
    <2> QED
      BY <1>1, <2>2, <2>3
  <1>4. ASSUME NEW q \in DOMAIN new, q # <<>>
        PROVE  \E e \in DOMAIN children : \E r \in DOMAIN children[e] : q = <<e>> \o r
    <2>1. PICK e \in DOMAIN children : q \in part(e)
      <3> HIDE DEF part
      <3> QED
        BY <1>1, <1>2, <1>4
    <2>2. \E r \in DOMAIN children[e] : q = <<e>> \o r
      BY <2>1
    <2> QED
      BY <2>2
  <1>5. <<>> \in DOMAIN new /\ new[<<>>] = kind
    BY <1>1
  <1> HIDE DEF part
  <1>6. HoldsAll(new, kind, children)
    BY <1>3, <1>4, <1>5 DEF HoldsAll
  <1> QED
    BY <1>6 DEF new

\* Documents under the keys of a map.
LEMMA ContainerDocument ==
    ASSUME NEW D \in SUBSET Step, \A e \in D : ~IsIndex(e),
           NEW inside, \A e \in D : inside[e] \in Docs /\ IsDocument(inside[e])
    PROVE  IsDocument(Container(MapNode, [e \in D |-> inside[e]]))
  <1> DEFINE children == [e \in D |-> inside[e]]
             new == Container(MapNode, children)
  <1>1. \A e \in D : DOMAIN inside[e] \subseteq Seq(Step) /\ IsDocument(inside[e])
    BY DocsAre
  <1>2. DOMAIN children = D /\ \A e \in D : children[e] = inside[e]
    OBVIOUS
  <1> HIDE DEF children
  <1>3. /\ <<>> \in DOMAIN new /\ new[<<>>] = MapNode
        /\ \A q \in DOMAIN new : q # <<>> =>
                 \E e \in D : \E r \in DOMAIN inside[e] : q = <<e>> \o r
        /\ \A e \in D : \A r \in DOMAIN inside[e] :
                 /\ <<e>> \o r \in DOMAIN new
                 /\ e \in Step /\ r \in Seq(Step) => new[<<e>> \o r] = inside[e][r]
    <2>1. HoldsAll(new, MapNode, children)
      BY ContainerAt
    <2> HIDE DEF new
    <2>2. ASSUME NEW q \in DOMAIN new, q # <<>>
          PROVE  \E e \in D : \E r \in DOMAIN inside[e] : q = <<e>> \o r
      <3>1. PICK e \in DOMAIN children : \E r \in DOMAIN children[e] : q = <<e>> \o r
        BY <2>1, <2>2 DEF HoldsAll
      <3> QED
        BY <1>2, <3>1
    <2>3. ASSUME NEW e \in D, NEW r \in DOMAIN inside[e]
          PROVE  /\ <<e>> \o r \in DOMAIN new
                 /\ e \in Step /\ r \in Seq(Step) => new[<<e>> \o r] = inside[e][r]
      <3>1. e \in DOMAIN children /\ r \in DOMAIN children[e] /\ children[e] = inside[e]
        BY <1>2
      <3> QED
        BY <2>1, <3>1 DEF HoldsAll
    <2>4. <<>> \in DOMAIN new /\ new[<<>>] = MapNode
      BY <2>1 DEF HoldsAll
    <2> QED
      BY <2>2, <2>3, <2>4
  <1> HIDE DEF new
  <1>4. ASSUME NEW e \in D, NEW r \in DOMAIN inside[e]
        PROVE  /\ <<e>> \o r \in DOMAIN new /\ new[<<e>> \o r] = inside[e][r]
               /\ <<e>> \o r \in Seq(Step) /\ <<e>> \in Seq(Step) /\ r \in Seq(Step)
    <2>1. r \in Seq(Step) /\ e \in Step
      BY <1>1
    <2>2. <<e>> \o r \in Seq(Step) /\ <<e>> \in Seq(Step)
      BY <2>1
    <2> QED
      BY <1>3, <2>1, <2>2
  <1>5. <<>> \in DOMAIN new /\ new[<<>>] = MapNode
    BY <1>3
  <1>6. ASSUME NEW e \in D, NEW r \in DOMAIN inside[e]
        PROVE  Fits(new, Front(<<e>> \o r), Last(<<e>> \o r))
    <2>1. CASE r = <<>>
      <3>1. <<e>> \o r = <<e>> /\ Front(<<e>>) = <<>> /\ Last(<<e>>) = e
        BY <2>1 DEF Front, Last
      <3> QED
        BY <1>5, <3>1 DEF Fits
    <2>2. CASE r # <<>>
      <3>1. Front(<<e>> \o r) = <<e>> \o Front(r) /\ Last(<<e>> \o r) = Last(r)
        BY <1>4, <2>2, Below
      <3>2. Fits(inside[e], Front(r), Last(r))
        BY <1>1, <2>2 DEF IsDocument, Fits
      <3>3. <<e>> \o Front(r) \in DOMAIN new /\ new[<<e>> \o Front(r)] = inside[e][Front(r)]
        BY <1>4, <3>2 DEF Fits
      <3>4. ASSUME IsIndex(Last(r)), Last(r)[2] # 0
            PROVE  Append(<<e>> \o Front(r), IndexElem(Last(r)[2] - 1)) \in DOMAIN new
        <4> DEFINE f == IndexElem(Last(r)[2] - 1)
        <4>1. Append(Front(r), f) \in DOMAIN inside[e]
          BY <3>2, <3>4 DEF Fits
        <4>2. <<e>> \o Append(Front(r), f) \in DOMAIN new
          BY <1>4, <4>1
        <4>3. Front(r) \in Seq(Step) /\ Last(r) \in Step
          BY <1>4, <2>2, ChildOf
        <4>4. Last(r)[2] \in Nat
          BY <3>4, <4>3 DEF Step, IsIndex
        <4>5. Last(r)[2] - 1 \in Nat
          BY <3>4, <4>4
        <4>6. f \in Step
          BY <4>5 DEF Step, IndexElem
        <4> HIDE DEF f
        <4>7. <<e>> \o Append(Front(r), f) = Append(<<e>> \o Front(r), f)
          BY <1>4, <4>3, <4>6, ChildBelow
        <4> QED
          BY <4>2, <4>7 DEF f
      <3> QED
        BY <3>1, <3>2, <3>3, <3>4 DEF Fits
    <2> QED
      BY <2>1, <2>2
  <1>7. ASSUME NEW q \in DOMAIN new, q # <<>> PROVE Fits(new, Front(q), Last(q))
    <2>1. PICK e \in D : \E r \in DOMAIN inside[e] : q = <<e>> \o r
      BY <1>3, <1>7
    <2>2. PICK r \in DOMAIN inside[e] : q = <<e>> \o r
      BY <2>1
    <2> QED
      BY <1>6, <2>2
  <1>8. IsDocument(new)
    BY <1>5, <1>7 DEF IsDocument, Fits
  <1> QED
    BY <1>8 DEF new, children

\* What is decoded of a state is a document.
LEMMA AnswerDocument ==
    ASSUME NEW doc, IsState(doc), NEW reps, AreReplacements(reps), NEW res, Answers(doc, reps, res)
    PROVE  IsDocument(res)
  <1> DEFINE D == TopKeys(doc)
             inside == [e \in D |-> Decoded[Replaced(Marshalled(ValueAt(doc, <<e>>)), reps)].doc]
             read == Rewritten(doc, reps)
  <1>1. DOMAIN read = D /\ \A e \in D : read[e].doc = inside[e]
    BY DEF Rewritten
  <1>2. /\ IsTree(doc) /\ DOMAIN doc \subseteq Seq(Elem)
    BY DEF IsState, IsTree
  <1>3. ASSUME NEW e \in D
        PROVE  /\ e \in Step /\ ~IsIndex(e)
               /\ inside[e] \in Docs /\ IsDocument(inside[e])
    <2>1. e \in {"key"} \X Name /\ <<e>> \in DOMAIN doc
      BY DEF TopKeys, KeyElem
    <2>4. ~IsIndex(e)
      BY <2>1 DEF IsIndex
    <2>5. e \in Step
      BY <2>1, TextAssumption DEF Step
    <2> DEFINE value == ValueAt(doc, <<e>>)
               written == Marshalled(value)
    <2>6. IsState(value)
      BY <2>1, ValueAtState
    <2> HIDE DEF value
    <2>7. written \in Text
      BY <2>6, MarshalledType DEF Text
    <2> HIDE DEF written
    <2>8. Replaced(written, reps) \in Text
      BY <2>7, ReplacedType
    <2>9. Decoded[Replaced(written, reps)] \in Readings
      BY <2>8, DecodedDocument
    <2>10. Decoded[Replaced(written, reps)].doc \in Docs /\ IsDocument(Decoded[Replaced(written, reps)].doc)
      BY <2>9 DEF Readings, Readers
    <2> QED
      BY <2>4, <2>5, <2>10 DEF value, written
  <1>4. res = Container(MapNode, [e \in D |-> inside[e]])
    <2>1. [e \in DOMAIN read |-> read[e].doc] = [e \in D |-> inside[e]]
      BY <1>1
    <2> HIDE DEF inside, D, read
    <2>2. res = Container(MapNode, [e \in DOMAIN read |-> read[e].doc])
      BY DEF Answers, read
    <2> QED
      BY <2>1, <2>2
  <1> HIDE DEF D, inside
  <1>5. D \in SUBSET Step /\ \A e \in D : ~IsIndex(e) /\ inside[e] \in Docs /\ IsDocument(inside[e])
    BY <1>3
  <1> QED
    BY <1>4, <1>5, ContainerDocument

-----------------------------------------------------------------------------
(* The two runs. *)

\* The transformers of the test.
RegisteredTransformers == {r.transformer : r \in Range(setup.transformers)}

\* What a transformer that has matched values writes is a text.
Writes(t) ==
    /\ t.kind \in {"keyvalue", "jsonpath"}
    /\ IsTransformer(t)

\* The states that the transformers of a test are at work on.
StateInv ==
    /\ setup \in Setups
    /\ stage \in [Context -> {"matching", "transforming", "done", "failed"}]
    /\ errs \in [Context -> BOOLEAN]
    /\ verdict \in {"none", "passed", "failed"}
    /\ document \in [Context -> States]
    /\ result = [c \in Context |-> result[c]]
    /\ todo \in [Context -> Seq(RegisteredTransformers)]
    /\ current = [c \in Context |-> current[c]]
    /\ matches = [c \in Context |-> matches[c]]
    /\ \A c \in Context : matches[c] # <<>> => Writes(current[c])

\* What is assumed of a test.
LEMMA SetupTypes ==
    ASSUME setup \in Setups
    PROVE  /\ IsState(setup.first) /\ IsState(setup.second)
           /\ setup.skip \in SUBSET Seq(PathToken)
           /\ setup.transformers \in Seq(Range(setup.transformers))
           /\ \A r \in Range(setup.transformers) : r.priority \in Int
           /\ \A t \in RegisteredTransformers : IsTransformer(t)
  BY RoundTripAssumption DEF RegisteredTransformers

\* The transformers by priority are transformers of the test, and as many.
LEMMA SortedTransformersType ==
    ASSUME setup \in Setups
    PROVE  /\ SortedTransformers(setup.transformers) \in Seq(RegisteredTransformers)
           /\ Len(SortedTransformers(setup.transformers)) = Len(setup.transformers)
  <1> DEFINE registered == setup.transformers
             N == DOMAIN registered
             n == Len(registered)
             before == {ij \in (DOMAIN registered) \X (DOMAIN registered) :
                          LET here == registered[ij[1]].priority
                              there == registered[ij[2]].priority
                          IN  \/ here < there
                              \/ here = there /\ ij[1] < ij[2]}
             order == Ordered(DOMAIN registered, before)
             rank(i) == registered[i].priority
  <1>1. registered \in Seq(Range(registered)) /\ N = 1..n /\ n \in Nat
    BY SetupTypes
  <1>2. \A i \in N : rank(i) \in Int /\ registered[i].transformer \in RegisteredTransformers
    <2>1. \A i \in N : registered[i] \in Range(registered)
      BY <1>1
    <2> QED
      BY <2>1, SetupTypes DEF RegisteredTransformers
  <1>3. \A i, j \in N : <<i, j>> \in before <=> rank(i) < rank(j) \/ (rank(i) = rank(j) /\ i < j)
    OBVIOUS
  <1>4. SortedTransformers(registered) = [i \in DOMAIN order |-> registered[order[i]].transformer]
    BY DEF SortedTransformers
  <1> HIDE DEF before, rank, registered, N, n
  <1>5. TotalOrder(N, before)
    BY <1>1, <1>2, <1>3 DEF TotalOrder
  <1>6. IsFiniteSet(N) /\ Cardinality(N) = n
    BY <1>1, FS_Interval
  <1>7. order \in [1..n -> N]
    <2>1. Sequenced(Ordered(N, before), N, before)
      BY <1>5, <1>6, OrderedAt
    <2>2. Ordered(N, before) \in [1..n -> N]
      BY <1>6, <2>1 DEF Sequenced
    <2> QED
      BY <2>2 DEF N
  <1> HIDE DEF order
  <1>8. \A i \in 1..n : registered[order[i]].transformer \in RegisteredTransformers
    BY <1>2, <1>7
  <1>9. DOMAIN order = 1..n
    BY <1>7
  <1> DEFINE sorted == [i \in 1..n |-> registered[order[i]].transformer]
  <1>10. sorted \in [1..n -> RegisteredTransformers]
    BY <1>8
  <1>11. SortedTransformers(registered) = sorted
    BY <1>4, <1>9
  <1> HIDE DEF sorted
  <1>12. sorted \in Seq(RegisteredTransformers) /\ Len(sorted) = n
    BY <1>1, <1>10
  <1> QED
    BY <1>11, <1>12 DEF registered, n

\* No states to begin with.
LEMMA InitStateInv == Init => StateInv
  <1> SUFFICES ASSUME Init PROVE StateInv
    OBVIOUS
  <1>1. /\ setup \in Setups /\ verdict = "none"
        /\ stage = [c \in Context |-> "matching"]
        /\ document = [c \in Context |-> Leaf(MapNode)]
        /\ todo = [c \in Context |-> <<>>]
        /\ current = [c \in Context |-> NoTransformer]
        /\ matches = [c \in Context |-> <<>>]
        /\ result = [c \in Context |-> Leaf(MapNode)]
        /\ errs = [c \in Context |-> FALSE]
    BY DEF Init, TransformInit, ContextInit
  <1>2. Leaf(MapNode) \in States
    <2>1. MapNode \in Containers \cup Scalar
      BY DEF Containers
    <2> QED
      BY <2>1, LeafState, StatesAre
  <1>3. <<>> \in Seq(RegisteredTransformers)
    OBVIOUS
  <1>4. document \in [Context -> States] /\ todo \in [Context -> Seq(RegisteredTransformers)]
    BY <1>1, <1>2, <1>3
  <1>5. /\ result = [c \in Context |-> result[c]]
        /\ current = [c \in Context |-> current[c]]
        /\ matches = [c \in Context |-> matches[c]]
    BY <1>1
  <1>6. \A c \in Context : matches[c] = <<>>
    BY <1>1
  <1> QED
    BY <1>1, <1>4, <1>5, <1>6 DEF StateInv

\* What a step of the transformers keeps.
LEMMA StepOfTransformer ==
    ASSUME StateInv, UNCHANGED <<setup, verdict, stage, result>>,
           errs' \in [Context -> BOOLEAN], todo' \in [Context -> Seq(RegisteredTransformers)],
           document' \in [Context -> States],
           current' = [c \in Context |-> current'[c]], matches' = [c \in Context |-> matches'[c]],
           \A c \in Context : matches'[c] # <<>> => Writes(current'[c])
    PROVE  StateInv'
  <1>1. RegisteredTransformers' = RegisteredTransformers
    BY DEF RegisteredTransformers
  <1>2. \A t : Writes(t)' <=> Writes(t)
    BY DEF Writes
  <1> QED
    BY <1>1, <1>2 DEF StateInv

\* Errorf sets the error of one session.
LEMMA ErrorfType ==
    ASSUME errs \in [Context -> BOOLEAN], NEW c \in Context, Errorf(c)
    PROVE  errs' \in [Context -> BOOLEAN]
  BY DEF Errorf

\* Starting with the next transformer.
LEMMA NextIsTypes ==
    ASSUME StateInv, NEW c \in Context, NEW kind, NextIs(c, kind)
    PROVE  /\ Head(todo[c]) \in RegisteredTransformers /\ IsTransformer(Head(todo[c]))
           /\ Head(todo[c]).kind = kind
           /\ todo' \in [Context -> Seq(RegisteredTransformers)]
           /\ current' = [d \in Context |-> IF d = c THEN Head(todo[c]) ELSE current[d]]
           /\ matches[c] = <<>> /\ UNCHANGED <<stage, result>>
  <1>1. todo[c] \in Seq(RegisteredTransformers) /\ todo[c] # <<>>
    BY DEF StateInv, NextIs
  <1>2. Head(todo[c]) \in RegisteredTransformers /\ Tail(todo[c]) \in Seq(RegisteredTransformers)
    BY <1>1
  <1>3. IsTransformer(Head(todo[c]))
    BY <1>2, SetupTypes DEF StateInv
  <1>4. todo' = [todo EXCEPT ![c] = Tail(todo[c])] /\ current' = [current EXCEPT ![c] = Head(todo[c])]
    BY DEF NextIs
  <1>5. todo' \in [Context -> Seq(RegisteredTransformers)]
    BY <1>2, <1>4 DEF StateInv
  <1>6. current' = [d \in Context |-> IF d = c THEN Head(todo[c]) ELSE current[d]]
    BY <1>4 DEF StateInv
  <1> QED
    BY <1>2, <1>3, <1>5, <1>6 DEF NextIs

\* A transformer that matches nothing rewrites the state, or leaves it.
LEMMA RewritesKeep ==
    ASSUME StateInv, NEW c \in Context, NEW kind, NextIs(c, kind),
           UNCHANGED <<setup, verdict, matches>>, errs' \in [Context -> BOOLEAN],
           NEW doc, IsState(doc),
           document' = document \/ document' = [document EXCEPT ![c] = doc]
    PROVE  StateInv'
  <1>1. /\ todo' \in [Context -> Seq(RegisteredTransformers)]
        /\ current' = [d \in Context |-> IF d = c THEN Head(todo[c]) ELSE current[d]]
        /\ matches[c] = <<>> /\ UNCHANGED <<stage, result>>
    BY NextIsTypes
  <1>2. doc \in States
    BY StatesAre
  <1>3. document' \in [Context -> States]
    BY <1>2 DEF StateInv
  <1>4. /\ matches' = [d \in Context |-> matches'[d]]
        /\ \A d \in Context : matches'[d] # <<>> => Writes(current'[d])
    BY <1>1 DEF StateInv
  <1>5. current' = [d \in Context |-> current'[d]]
    BY <1>1
  <1> QED
    BY <1>1, <1>3, <1>4, <1>5, StepOfTransformer

\* A transformer that matches values, or reports an error.
LEMMA MatchingKeeps ==
    ASSUME StateInv, NEW c \in Context, NEW kind \in {"keyvalue", "jsonpath"}, NextIs(c, kind),
           UNCHANGED <<setup, verdict, document>>, errs' \in [Context -> BOOLEAN],
           NEW positions, matches' = matches \/ matches' = [matches EXCEPT ![c] = positions]
    PROVE  StateInv'
  <1>1. /\ todo' \in [Context -> Seq(RegisteredTransformers)]
        /\ current' = [d \in Context |-> IF d = c THEN Head(todo[c]) ELSE current[d]]
        /\ UNCHANGED <<stage, result>>
        /\ Writes(Head(todo[c]))
    BY NextIsTypes DEF Writes
  <1>2. /\ matches' = [d \in Context |-> matches'[d]]
        /\ \A d \in Context \ {c} : matches'[d] = matches[d]
    BY DEF StateInv
  <1>3. \A d \in Context : matches'[d] # <<>> => Writes(current'[d])
    BY <1>1, <1>2 DEF StateInv
  <1>4. current' = [d \in Context |-> current'[d]]
    BY <1>1
  <1>5. document' \in [Context -> States]
    BY DEF StateInv
  <1> QED
    BY <1>1, <1>2, <1>3, <1>4, <1>5, StepOfTransformer

\* What is put in the place of a value is a string.
LEMMA HandleMatchKeeps ==
    ASSUME StateInv, NEW c \in Context, HandleMatch(c), UNCHANGED <<setup, verdict>>
    PROVE  StateInv'
  <1> DEFINE t == current[c]
             doc == document[c]
             q == Head(matches[c])
             attached == q \in DOMAIN doc
             part == MatchedPart(t, doc[q])
             new == IF attached /\ IsString(part) /\ part # doc[q]
                    THEN Str(ReplaceTexts(doc[q][2], [p \in {part[2]} |-> t.with]))
                    ELSE Str(t.with)
  <1>1. /\ matches[c] # <<>> /\ matches' = [matches EXCEPT ![c] = Tail(matches[c])]
        /\ UNCHANGED <<stage, todo, current, result>>
    BY DEF HandleMatch
  <1>2. IF t.reference
        THEN RegisterReference(c, part, t.scope) /\ UNCHANGED document
        ELSE /\ document' = IF attached THEN [document EXCEPT ![c] = SetValue(doc, q, new)] ELSE document
             /\ UNCHANGED context
    BY DEF HandleMatch
  <1>3. Writes(t) /\ t.with \in Text /\ (t.kind = "keyvalue" => t.part \in Text)
    BY <1>1 DEF StateInv, Writes, IsTransformer
  <1>4. IsState(doc)
    BY StatesAre DEF StateInv
  <1>5. ASSUME attached PROVE new \in Scalar
    <2>1. Str(t.with) \in Scalar
      BY <1>3 DEF Str, Scalar
    <2>2. ASSUME IsString(part), part # doc[q]
          PROVE  Str(ReplaceTexts(doc[q][2], [p \in {part[2]} |-> t.with])) \in Scalar
      <3>1. IsString(doc[q]) /\ part = Str(t.part) /\ t.kind = "keyvalue"
        BY <2>2 DEF MatchedPart
      <3>2. doc[q] \notin Containers
        BY <3>1 DEF IsString, Containers, MapNode, ListNode
      <3>3. doc[q][2] \in Text
        BY <1>4, <1>5, <3>2, ScalarForm DEF IsState
      <3>4. part[2] \in Text
        BY <1>3, <3>1 DEF Str
      <3> DEFINE with == [p \in {part[2]} |-> t.with]
                 text == doc[q][2]
      <3>5. Replacement(with, Symbol)
        <4>1. Len(part[2]) \in Nat /\ (part[2] # <<>> => Len(part[2]) # 0) /\ t.with \in Seq(Symbol)
          BY <1>3, <3>4 DEF Text
        <4>2. DOMAIN with = {part[2]} /\ with[part[2]] = t.with
          OBVIOUS
        <4> HIDE DEF with, part
        <4> QED
          BY <4>1, <4>2 DEF Replacement
      <3>6. text \in Seq(Symbol)
        BY <3>3 DEF Text
      <3> HIDE DEF with, text
      <3>7. ReplaceTexts(text, with) \in Text
        BY <3>5, <3>6, ReplaceTextsType DEF Text
      <3> QED
        BY <3>7 DEF Str, Scalar, with, text
    <2> HIDE DEF part
    <2> QED
      BY <2>1, <2>2
  <1>6. document' \in [Context -> States]
    <2>1. CASE attached /\ ~t.reference
      <3>1. IsState(SetValue(doc, q, new))
        BY <1>4, <1>5, <2>1, SetValueState
      <3>2. document' = [document EXCEPT ![c] = SetValue(doc, q, new)]
        BY <1>2, <2>1
      <3> DEFINE set == SetValue(doc, q, new)
      <3>3. set \in States
        BY <3>1, StatesAre
      <3> HIDE DEF set
      <3> QED
        BY <3>2, <3>3 DEF set, StateInv
    <2>2. CASE ~(attached /\ ~t.reference)
      <3>1. document' = document
        BY <1>2, <2>2
      <3> QED
        BY <3>1 DEF StateInv
    <2> QED
      BY <2>1, <2>2
  <1> HIDE DEF part, new, attached
  <1>7. errs' \in [Context -> BOOLEAN]
    <2>1. CASE RegisterReference(c, part, t.scope)
      BY <2>1, ErrorfType DEF RegisterReference, context, StateInv
    <2>2. CASE UNCHANGED context
      BY <2>2 DEF context, StateInv
    <2> QED
      BY <1>2, <2>1, <2>2
  <1> HIDE DEF t, doc, q
  <1>8. /\ matches' = [d \in Context |-> matches'[d]]
        /\ \A d \in Context : matches'[d] # <<>> => matches[d] # <<>>
    BY <1>1 DEF StateInv
  <1>9. /\ \A d \in Context : matches'[d] # <<>> => Writes(current'[d])
        /\ current' = [d \in Context |-> current'[d]]
        /\ todo' \in [Context -> Seq(RegisteredTransformers)]
    BY <1>1, <1>8 DEF StateInv
  <1> QED
    BY <1>1, <1>6, <1>7, <1>8, <1>9, StepOfTransformer

\* transformState: a state, parsed, and the transformers by priority.
LEMMA BeginKeeps ==
    ASSUME StateInv, NEW c \in Context, NEW observed, IsState(observed),
           BeginTransform(c, observed, setup.transformers), UNCHANGED <<setup, verdict>>
    PROVE  StateInv'
  <1> DEFINE parsed == EmbeddedParsed(observed)
             sorted == SortedTransformers(setup.transformers)
  <1>1. parsed \in States /\ sorted \in Seq(RegisteredTransformers)
    BY EmbeddedParsedState, StatesAre, SortedTransformersType DEF StateInv
  <1>2. /\ stage' = [stage EXCEPT ![c] = "transforming"]
        /\ document' = [document EXCEPT ![c] = parsed]
        /\ todo' = [todo EXCEPT ![c] = sorted]
        /\ UNCHANGED <<errs, current, matches, result>>
    BY DEF BeginTransform, context
  <1> HIDE DEF parsed, sorted
  <1>3. /\ document' \in [Context -> States] /\ todo' \in [Context -> Seq(RegisteredTransformers)]
        /\ stage' \in [Context -> {"matching", "transforming", "done", "failed"}]
    BY <1>1, <1>2 DEF StateInv
  <1>4. RegisteredTransformers' = RegisteredTransformers /\ \A t : Writes(t)' <=> Writes(t)
    BY DEF RegisteredTransformers, Writes
  <1> QED
    BY <1>2, <1>3, <1>4 DEF StateInv

\* What is compared is a state.
LEMMA ComparedState ==
    ASSUME StateInv, NEW c \in Context
    PROVE  IsState(Compared(c, SkipOf(c)))
  <1>1. IsState(document[c])
    BY StatesAre DEF StateInv
  <1>2. SkipOf(c) \in SUBSET Seq(PathToken)
    BY SetupTypes DEF StateInv, SkipOf
  <1> QED
    BY <1>1, <1>2, SkippedState DEF Compared

\* The end of transformState: the state is serialized, replaced and decoded.
LEMMA ReturnKeeps ==
    ASSUME StateInv, NEW c \in Context, Return(c)
    PROVE  StateInv'
  <1>1. UNCHANGED <<setup, verdict, errs, document, todo, current, matches>>
    BY DEF Return, Serialize, context
  <1>2. \/ stage' = [stage EXCEPT ![c] = "failed"] /\ UNCHANGED result
        \/ stage' = [stage EXCEPT ![c] = "done"] /\ \E new : result' = [result EXCEPT ![c] = new]
    BY DEF Return, Serialize
  <1>3. stage' \in [Context -> {"matching", "transforming", "done", "failed"}]
    BY <1>2 DEF StateInv
  <1>4. result' = [d \in Context |-> result'[d]]
    BY <1>2 DEF StateInv
  <1>5. RegisteredTransformers' = RegisteredTransformers /\ \A t : Writes(t)' <=> Writes(t)
    BY <1>1 DEF RegisteredTransformers, Writes
  <1> QED
    BY <1>1, <1>3, <1>4, <1>5 DEF StateInv

\* A step of a transformer.
LEMMA TransformKeeps ==
    ASSUME StateInv, NEW c \in Context, Transform(c)
    PROVE  StateInv'
  <1>1. UNCHANGED <<setup, verdict>> /\ TransformStep(c) /\ errs \in [Context -> BOOLEAN]
    BY DEF Transform, StateInv
  <1>2. IsState(document[c])
    BY StatesAre DEF StateInv
  <1>3. CASE MatchKeyValues(c)
    <2>1. NextIs(c, "keyvalue") /\ document' = document
      BY <1>3 DEF MatchKeyValues
    <2>2. errs' \in [Context -> BOOLEAN]
      BY <1>1, <1>3, ErrorfType DEF MatchKeyValues, context
    <2>3. \E positions : matches' = matches \/ matches' = [matches EXCEPT ![c] = positions]
      BY <1>3 DEF MatchKeyValues
    <2> QED
      BY <1>1, <2>1, <2>2, <2>3, MatchingKeeps
  <1>4. CASE MatchJSONPath(c)
    <2>1. NextIs(c, "jsonpath") /\ document' = document
      BY <1>4 DEF MatchJSONPath
    <2>2. errs' \in [Context -> BOOLEAN]
      BY <1>1, <1>4, ErrorfType DEF MatchJSONPath, context
    <2>3. \E positions : matches' = matches \/ matches' = [matches EXCEPT ![c] = positions]
      BY <1>4 DEF MatchJSONPath
    <2> QED
      BY <1>1, <2>1, <2>2, <2>3, MatchingKeeps
  <1>5. CASE HandleMatch(c)
    BY <1>1, <1>5, HandleMatchKeeps
  <1>6. CASE RegisterPattern(c)
    <2>1. NextIs(c, "pattern") /\ document' = document /\ matches' = matches
      BY <1>6 DEF RegisterPattern
    <2>2. errs' \in [Context -> BOOLEAN]
      BY <1>1, <1>6, ErrorfType DEF RegisterPattern, RegisterPatterns
    <2> QED
      BY <1>1, <1>2, <2>1, <2>2, RewritesKeep
  <1>7. CASE RunGeneric(c)
    <2>1. NextIs(c, "generic") /\ document' = document /\ matches' = matches /\ errs' = errs
      BY <1>7 DEF RunGeneric, RegisterNumbered
    <2> QED
      BY <1>1, <1>2, <2>1, RewritesKeep
  <1>8. CASE SortLists(c)
    <2> DEFINE doc == Sorted(document[c], Head(todo[c]).key, Head(todo[c]).by)
    <2>1. NextIs(c, "sorting") /\ document' = [document EXCEPT ![c] = doc] /\ matches' = matches
      BY <1>8 DEF SortLists
    <2>2. errs' \in [Context -> BOOLEAN]
      BY <1>1, <1>8, ErrorfType DEF SortLists, context
    <2>3. IsState(doc)
      BY <1>2, SortedState
    <2> HIDE DEF doc
    <2> QED
      BY <1>1, <2>1, <2>2, <2>3, RewritesKeep
  <1>9. CASE RewriteState(c)
    <2>1. matches' = matches /\ errs' = errs
      BY <1>9 DEF RewriteState, context
    <2>2. \E kind, doc : IsState(doc) /\ NextIs(c, kind) /\ document' = [document EXCEPT ![c] = doc]
      <3>1. CASE NextIs(c, "timestamp") /\ document' = [document EXCEPT ![c] = TimestampsFixed(document[c])]
        BY <1>2, <3>1, TimestampsFixedState
      <3>2. CASE NextIs(c, "jsonstring")
                 /\ document' = [document EXCEPT ![c] = JSONStringParsed(document[c], Head(todo[c]).key)]
        BY <1>2, <3>2, JSONStringParsedState
      <3>3. CASE NextIs(c, "metadata") /\ document' = [document EXCEPT ![c] = MetadataReduced(document[c])]
        BY <1>2, <3>3, MetadataReducedState
      <3> QED
        BY <1>9, <3>1, <3>2, <3>3 DEF RewriteState
    <2> QED
      BY <1>1, <2>1, <2>2, RewritesKeep
  <1> QED
    BY <1>1, <1>3, <1>4, <1>5, <1>6, <1>7, <1>8, <1>9 DEF TransformStep

\* A step of the test.
LEMMA StepKeepsState == StateInv /\ [Next]_vars => StateInv'
  <1> SUFFICES ASSUME StateInv, [Next]_vars PROVE StateInv'
    OBVIOUS
  <1>1. IsState(setup.first) /\ IsState(setup.second) /\ Recording \in Context /\ Verifying \in Context
    BY SetupTypes, RoundTripAssumption DEF StateInv
  <1>2. CASE UNCHANGED vars
    <2>1. RegisteredTransformers' = RegisteredTransformers /\ \A t : Writes(t)' <=> Writes(t)
      BY <1>2 DEF RegisteredTransformers, Writes, vars
    <2> QED
      BY <1>2, <2>1 DEF StateInv, vars, context, transforming
  <1>3. CASE Record
    BY <1>1, <1>3, BeginKeeps DEF Record
  <1>4. CASE Verify
    BY <1>1, <1>4, BeginKeeps DEF Verify
  <1>5. CASE Compare
    <2>1. verdict' \in {"none", "passed", "failed"} /\ UNCHANGED <<context, transforming, setup>>
      BY <1>5 DEF Compare
    <2>2. RegisteredTransformers' = RegisteredTransformers /\ \A t : Writes(t)' <=> Writes(t)
      BY <2>1 DEF RegisteredTransformers, Writes
    <2> QED
      BY <2>1, <2>2 DEF StateInv, context, transforming
  <1>6. CASE RejectPaths
    <2>1. /\ stage' \in [Context -> {"matching", "transforming", "done", "failed"}]
          /\ UNCHANGED <<context, document, todo, current, matches, result, setup, verdict>>
      BY <1>6 DEF RejectPaths, StateInv
    <2>2. RegisteredTransformers' = RegisteredTransformers /\ \A t : Writes(t)' <=> Writes(t)
      BY <2>1 DEF RegisteredTransformers, Writes
    <2> QED
      BY <2>1, <2>2 DEF StateInv, context
  <1>7. ASSUME NEW c \in Context, Transform(c) \/ Return(c) PROVE StateInv'
    BY <1>7, TransformKeeps, ReturnKeeps
  <1> QED
    BY <1>2, <1>3, <1>4, <1>5, <1>6, <1>7 DEF Next

-----------------------------------------------------------------------------
(* What a session returns. *)

RegisteredTexts ==
    \A c \in Context : \A i \in DOMAIN replacements[c] : IsReplacement(replacements[c][i])

\* What has matched is still there when it is registered as a reference.
MatchesThere ==
    \A c \in Context : matches[c] # <<>> =>
        /\ stage[c] = "transforming"
        /\ current[c].reference = TRUE => matches[c] \in Seq(DOMAIN document[c])

\* Nothing, or what has been decoded.
ReturnOf(c) ==
    IF stage[c] = "done"
    THEN Answers(Compared(c, SkipOf(c)), replacements[c], result[c])
    ELSE result[c] = Leaf(MapNode)

Returned == \A c \in Context : ReturnOf(c)

SessionInv == StateInv /\ ContextInv /\ RegisteredTexts /\ MatchesThere /\ Returned

\* A step that does not change what a session returns, nor what that comes from.
SameReturn(c) ==
    /\ stage'[c] = stage[c] /\ result'[c] = result[c]
    /\ stage[c] = "done" => /\ Compared(c, SkipOf(c))' = Compared(c, SkipOf(c))
                            /\ replacements'[c] = replacements[c]

LEMMA ReturnStays ==
    ASSUME NEW c, ReturnOf(c), SameReturn(c)
    PROVE  ReturnOf(c)'
  <1>1. CASE stage[c] = "done"
    <2>1. Answers(Compared(c, SkipOf(c)), replacements[c], result[c])
      BY <1>1 DEF ReturnOf
    <2>2. /\ Compared(c, SkipOf(c))' = Compared(c, SkipOf(c)) /\ replacements'[c] = replacements[c]
          /\ result'[c] = result[c] /\ stage'[c] = "done"
      BY <1>1 DEF SameReturn
    <2>3. Answers(Compared(c, SkipOf(c))', replacements'[c], result'[c])
      BY <2>1, <2>2
    <2> QED
      BY <2>2, <2>3 DEF ReturnOf
  <1>2. CASE stage[c] # "done"
    BY <1>2 DEF ReturnOf, SameReturn
  <1> QED
    BY <1>1, <1>2

LEMMA ReturnsStay ==
    ASSUME Returned, \A c \in Context : SameReturn(c)
    PROVE  Returned'
  BY ReturnStays DEF Returned

\* A step that registers nothing.
LEMMA NothingRegistered ==
    ASSUME RegisteredTexts, replacements' = replacements
    PROVE  RegisteredTexts'
  BY DEF RegisteredTexts, IsReplacement

\* One more replacement, by a placeholder for a text or without a number.
LEMMA TextRegistered ==
    ASSUME ContextInv, RegisteredTexts, NEW c \in Context, NEW e, IsReplacement(e),
           replacements' = [replacements EXCEPT ![c] = Append(@, e)]
    PROVE  RegisteredTexts'
  <1> DEFINE old == replacements[c]
             new == replacements'[c]
  <1>1. new = Append(old, e) /\ IsSequence(old) /\ \A d \in Context \ {c} : replacements'[d] = replacements[d]
    BY DEF ContextInv, ContextTypes
  <1> HIDE DEF old, new
  <1>2. \A i \in DOMAIN new : (i \in DOMAIN old /\ new[i] = old[i]) \/ new[i] = e
    <2>1. /\ DOMAIN old = 1..Len(old) /\ Len(old) \in Nat /\ DOMAIN new = 1..Len(old)+1
          /\ \A i \in 1..Len(old) : new[i] = old[i]
          /\ new[Len(old) + 1] = e
      BY <1>1, AppendAny
    <2> QED
      BY <2>1
  <1>3. \A i \in DOMAIN old : IsReplacement(old[i])
    BY DEF RegisteredTexts, old
  <1>4. ASSUME NEW d \in Context, NEW i \in DOMAIN replacements'[d] PROVE IsReplacement(replacements'[d][i])
    <2>1. CASE d = c
      BY <1>2, <1>3, <1>4, <2>1 DEF new
    <2>2. CASE d # c
      BY <1>1, <1>4, <2>2 DEF RegisteredTexts
    <2> QED
      BY <2>1, <2>2
  <1>5. RegisteredTexts' <=> \A d \in Context : \A i \in DOMAIN replacements'[d] : IsReplacement(replacements'[d][i])
    BY DEF RegisteredTexts, IsReplacement
  <1> QED
    BY <1>4, <1>5

\* Numbering a text.
LEMMA NumberedRegisters ==
    ASSUME ContextInv, RegisteredTexts, NEW c \in Context, NEW pattern \in Text, NEW scope \in Symbol, NEW origin,
           Numbered(c, pattern, scope, origin)
    PROVE  RegisteredTexts'
  <1> DEFINE n == NextNumber(c, scope)
             e == [origin |-> origin, patterns |-> {pattern},
                   with |-> Placeholder(scope, n), scope |-> scope, number |-> n]
  <1>1. replacements' = [replacements EXCEPT ![c] = Append(@, e)]
    BY DEF Numbered
  <1>2. IsReplacement(e)
    <2>1. n \in Nat
      BY DEF NextNumber, ContextInv, ContextTypes
    <2> HIDE DEF n
    <2>2. Placeholder(scope, n) \in Text
      BY <2>1, PlaceholderType
    <2> QED
      BY <2>2 DEF IsReplacement
  <1> HIDE DEF e
  <1> QED
    BY <1>1, <1>2, TextRegistered

\* A step of the transformers of one session.
OnlyAt(c) ==
    /\ stage[c] = "transforming"
    /\ UNCHANGED <<stage, result, setup>>
    /\ \A d \in Context \ {c} :
          /\ document'[d] = document[d] /\ replacements'[d] = replacements[d]
          /\ matches'[d] = matches[d] /\ current'[d] = current[d]

\* A step of the transformers of one session returns nothing.
LEMMA TransformerSteps ==
    ASSUME SessionInv, NEW c \in Context, StateInv', ContextInv', RegisteredTexts', OnlyAt(c),
           matches'[c] # <<>> /\ current'[c].reference = TRUE => matches'[c] \in Seq(DOMAIN document'[c])
    PROVE  SessionInv'
  <1>1. MatchesThere'
    <2>1. ASSUME NEW d \in Context, matches'[d] # <<>>
          PROVE  /\ stage'[d] = "transforming"
                 /\ current'[d].reference = TRUE => matches'[d] \in Seq(DOMAIN document'[d])
      <3>1. CASE d = c
        BY <2>1, <3>1 DEF OnlyAt
      <3>2. CASE d # c
        BY <2>1, <3>2 DEF OnlyAt, SessionInv, MatchesThere
      <3> QED
        BY <3>1, <3>2
    <2> QED
      BY <2>1 DEF MatchesThere
  <1>2. Returned'
    <2>1. ASSUME NEW d \in Context PROVE SameReturn(d)
      <3>1. stage'[d] = stage[d] /\ result'[d] = result[d] /\ (stage[d] = "done" => d # c)
        BY DEF OnlyAt
      <3> QED
        BY <3>1 DEF OnlyAt, SameReturn, Compared, SkipOf
    <2> QED
      BY <2>1, ReturnsStay DEF SessionInv
  <1> QED
    BY <1>1, <1>2 DEF SessionInv

\* Starting with the next transformer, which may match values.
LEMMA NextIsSteps ==
    ASSUME SessionInv, NEW c \in Context, StateInv', ContextInv', RegisteredTexts', setup' = setup,
           NEW kind, NextIs(c, kind),
           \A d \in Context \ {c} :
              /\ document'[d] = document[d] /\ replacements'[d] = replacements[d]
              /\ matches'[d] = matches[d],
           matches'[c] = <<>> \/ matches'[c] \in Seq(DOMAIN document'[c])
    PROVE  SessionInv'
  <1>1. /\ stage[c] = "transforming" /\ UNCHANGED <<stage, result>>
        /\ \A d \in Context \ {c} : current'[d] = current[d]
    BY DEF NextIs, SessionInv, StateInv
  <1>2. OnlyAt(c)
    BY <1>1 DEF OnlyAt
  <1> QED
    BY <1>2, TransformerSteps

\* Registering a reference.
LEMMA ReferenceRegisters ==
    ASSUME ContextInv, RegisteredTexts, NEW c \in Context, NEW value, IsString(value) => value[2] \in Text,
           NEW scope \in Symbol, RegisterReference(c, value, scope)
    PROVE  RegisteredTexts' /\ \A d \in Context \ {c} : replacements'[d] = replacements[d]
  <1> DEFINE pattern == QuoteEscaped(value[2])
  <1>1. CASE ~IsString(value)
    BY <1>1, NothingRegistered DEF RegisterReference, Errorf
  <1>2. CASE IsString(value) /\ pattern \in seenRefs[c]
    BY <1>2, NothingRegistered DEF RegisterReference, context
  <1>3. CASE IsString(value) /\ pattern \notin seenRefs[c]
    <2>1. Numbered(c, pattern, scope, "reference") /\ pattern \in Text
      BY <1>3, QuoteEscapedType DEF RegisterReference
    <2>2. \A d \in Context \ {c} : replacements'[d] = replacements[d]
      BY <2>1 DEF Numbered, ContextInv, ContextTypes
    <2> HIDE DEF pattern
    <2> QED
      BY <2>1, <2>2, NumberedRegisters
  <1> QED
    BY <1>1, <1>2, <1>3

\* Nothing is registered for another session.
LEMMA ErrorfRegisters ==
    ASSUME NEW c, Errorf(c)
    PROVE  replacements' = replacements
  BY DEF Errorf

\* One match.
LEMMA HandleMatchSteps ==
    ASSUME SessionInv, NEW c \in Context, StateInv', ContextInv', HandleMatch(c), setup' = setup
    PROVE  SessionInv'
  <1> DEFINE t == current[c]
             doc == document[c]
             q == Head(matches[c])
             part == MatchedPart(t, doc[q])
  <1>1. /\ matches[c] # <<>> /\ matches' = [matches EXCEPT ![c] = Tail(matches[c])]
        /\ UNCHANGED <<stage, todo, current, result>>
    BY DEF HandleMatch
  <1>2. Writes(t) /\ t.reference \in BOOLEAN /\ t.scope \in Symbol /\ (t.kind = "keyvalue" => t.part \in Text)
    BY <1>1 DEF SessionInv, StateInv, Writes, IsTransformer
  <1>3. stage[c] = "transforming" /\ (t.reference = TRUE => matches[c] \in Seq(DOMAIN doc))
    BY <1>1 DEF SessionInv, MatchesThere
  <1>4. IsState(doc)
    BY StatesAre DEF SessionInv, StateInv
  <1>5. \A d \in Context \ {c} : matches'[d] = matches[d] /\ current'[d] = current[d]
    BY <1>1 DEF SessionInv, StateInv
  <1>6. matches'[c] = Tail(matches[c]) /\ current'[c] = current[c]
    BY <1>1 DEF SessionInv, StateInv
  <1>7. CASE t.reference = TRUE
    <2>1. RegisterReference(c, part, t.scope) /\ document' = document
      BY <1>7 DEF HandleMatch
    <2>2. q \in DOMAIN doc /\ Tail(matches[c]) \in Seq(DOMAIN doc)
      <3> DEFINE D == DOMAIN doc
                 m == matches[c]
      <3>1. m \in Seq(D) /\ m # <<>>
        BY <1>1, <1>3, <1>7
      <3> HIDE DEF D, m
      <3>2. Head(m) \in D /\ Tail(m) \in Seq(D)
        BY <3>1
      <3> QED
        BY <3>2 DEF D, m
    <2>3. ASSUME IsString(part) PROVE part[2] \in Text
      <3>1. CASE part = doc[q]
        <4>1. doc[q] \notin Containers
          BY <2>3, <3>1 DEF IsString, Containers, MapNode, ListNode
        <4> QED
          BY <1>4, <2>2, <3>1, <4>1, ScalarForm DEF IsState
      <3>2. CASE part # doc[q]
        <4>1. part = Str(t.part) /\ t.kind = "keyvalue"
          BY <3>2 DEF MatchedPart
        <4> QED
          BY <1>2, <4>1 DEF Str
      <3> QED
        BY <3>1, <3>2
    <2> DEFINE scope == t.scope
    <2>4. scope \in Symbol /\ RegisterReference(c, part, scope)
      BY <1>2, <2>1
    <2> HIDE DEF part, scope
    <2>5. RegisteredTexts' /\ \A d \in Context \ {c} : replacements'[d] = replacements[d]
      BY <2>3, <2>4, ReferenceRegisters DEF SessionInv
    <2>6. OnlyAt(c)
      BY <1>1, <1>3, <1>5, <2>1, <2>5 DEF OnlyAt
    <2>7. matches'[c] \in Seq(DOMAIN document'[c])
      BY <1>6, <2>1, <2>2
    <2> QED
      BY <2>5, <2>6, <2>7, TransformerSteps
  <1>8. CASE t.reference = FALSE
    <2>1. UNCHANGED context /\ \A d \in Context \ {c} : document'[d] = document[d]
      BY <1>8 DEF HandleMatch, SessionInv, StateInv
    <2>2. RegisteredTexts' /\ replacements' = replacements
      BY <2>1, NothingRegistered DEF SessionInv, context
    <2>3. OnlyAt(c)
      BY <1>1, <1>3, <1>5, <2>1, <2>2 DEF OnlyAt
    <2>4. ~(current'[c].reference = TRUE)
      BY <1>6, <1>8
    <2> QED
      BY <2>2, <2>3, <2>4, TransformerSteps
  <1> QED
    BY <1>2, <1>7, <1>8

\* What a transformer matches, or an error.
LEMMA MatchingSteps ==
    ASSUME SessionInv, NEW c \in Context, StateInv', ContextInv', setup' = setup,
           NEW kind, NextIs(c, kind), UNCHANGED <<document, replacements>>,
           NEW positions, positions \in Seq(DOMAIN document[c]),
           matches' = matches \/ matches' = [matches EXCEPT ![c] = positions]
    PROVE  SessionInv'
  <1>1. RegisteredTexts'
    BY NothingRegistered DEF SessionInv
  <1>2. /\ \A d \in Context \ {c} : matches'[d] = matches[d]
        /\ matches'[c] = <<>> \/ matches'[c] = positions
    BY DEF SessionInv, StateInv, NextIs
  <1>3. matches'[c] = <<>> \/ matches'[c] \in Seq(DOMAIN document'[c])
    BY <1>2
  <1> QED
    BY <1>1, <1>2, <1>3, NextIsSteps

\* A step of a transformer.
LEMMA TransformSteps ==
    ASSUME SessionInv, NEW c \in Context, Transform(c), StateInv', ContextInv'
    PROVE  SessionInv'
  <1>1. setup' = setup /\ TransformStep(c)
    BY DEF Transform
  <1>2. IsState(document[c])
    BY StatesAre DEF SessionInv, StateInv
  <1>3. <<>> \in Seq(DOMAIN document[c])
    OBVIOUS
  <1>4. CASE MatchKeyValues(c)
    <2>1. NextIs(c, "keyvalue") /\ UNCHANGED <<document, replacements>>
      BY <1>4, ErrorfRegisters DEF MatchKeyValues, context
    <2> DEFINE positions == KeyValueMatches(document[c], Head(todo[c]))
    <2>2. matches' = matches \/ matches' = [matches EXCEPT ![c] = positions]
      BY <1>4 DEF MatchKeyValues
    <2>3. positions \in Seq(DOMAIN document[c])
      BY <1>2, KeyValueMatchesType
    <2> HIDE DEF positions
    <2> QED
      BY <1>1, <2>1, <2>2, <2>3, MatchingSteps
  <1>5. CASE MatchJSONPath(c)
    <2> DEFINE path == Head(todo[c]).path
               tokens == Rooted(path)
               segments == Parsed(tokens)
               positions == FindInOrder(document[c], segments)
    <2>1. NextIs(c, "jsonpath") /\ UNCHANGED <<document, replacements>>
      BY <1>5, ErrorfRegisters DEF MatchJSONPath, context
    <2>2. \/ matches' = matches
          \/ ~Malformed(tokens) /\ matches' = [matches EXCEPT ![c] = positions]
      BY <1>5 DEF MatchJSONPath
    <2>3. ASSUME ~Malformed(tokens) PROVE positions \in Seq(DOMAIN document[c])
      <3>1. path \in Seq(PathToken)
        BY <2>1, NextIsTypes DEF SessionInv, IsTransformer
      <3> HIDE DEF path
      <3>2. tokens \in Seq(PathToken)
        BY <3>1, RootedTokens
      <3> HIDE DEF tokens
      <3>3. Len(segments) \in Nat /\ \A i \in 1..Len(segments) : segments[i].kind \in SegmentKinds
        BY <2>3, <3>2, ParsedSegments
      <3> HIDE DEF segments
      <3> QED
        BY <1>2, <3>3, FindInOrderType
    <2> HIDE DEF positions, tokens
    <2> QED
      BY <1>1, <1>3, <2>1, <2>2, <2>3, MatchingSteps
  <1>6. CASE HandleMatch(c)
    BY <1>1, <1>6, HandleMatchSteps
  <1>7. CASE RegisterPattern(c)
    <2>1. NextIs(c, "pattern") /\ document' = document /\ matches' = matches
      BY <1>7 DEF RegisterPattern
    <2>2. RegisteredTexts' /\ \A d \in Context \ {c} : replacements'[d] = replacements[d]
      <3>1. CASE Errorf(c)
        BY <3>1, ErrorfRegisters, NothingRegistered DEF SessionInv
      <3>2. CASE ~Errorf(c)
        <4> DEFINE t == Head(todo[c])
                   e == [origin |-> "pattern", patterns |-> t.patterns, with |-> t.with,
                         scope |-> Quote, number |-> 0]
        <4>1. replacements' = [replacements EXCEPT ![c] = Append(@, e)]
          BY <1>7, <3>2 DEF RegisterPattern, RegisterPatterns
        <4>2. IsReplacement(e)
          <5>1. t.patterns \in SUBSET Text /\ t.with \in Text
            BY <2>1, NextIsTypes DEF SessionInv, IsTransformer
          <5> QED
            BY <5>1 DEF IsReplacement
        <4> HIDE DEF e
        <4>3. \A d \in Context \ {c} : replacements'[d] = replacements[d]
          BY <4>1 DEF SessionInv, ContextInv, ContextTypes
        <4> QED
          BY <4>1, <4>2, <4>3, TextRegistered DEF SessionInv
      <3> QED
        BY <3>1, <3>2
    <2>3. matches'[c] = <<>>
      BY <2>1 DEF NextIs
    <2> QED
      BY <1>1, <2>1, <2>2, <2>3, NextIsSteps
  <1>8. CASE RunGeneric(c)
    <2> DEFINE t == Head(todo[c])
               pattern == t.pattern
               scope == t.scope
    <2>1. NextIs(c, "generic") /\ document' = document /\ matches' = matches
          /\ Numbered(c, pattern, scope, "numbered")
      BY <1>8 DEF RunGeneric, RegisterNumbered
    <2>2. pattern \in Text /\ scope \in Symbol
      BY <2>1, NextIsTypes DEF SessionInv, IsTransformer
    <2>3. \A d \in Context \ {c} : replacements'[d] = replacements[d]
      BY <2>1 DEF Numbered, SessionInv, ContextInv, ContextTypes
    <2> HIDE DEF pattern, scope
    <2>4. RegisteredTexts'
      BY <2>1, <2>2, NumberedRegisters DEF SessionInv
    <2>5. matches'[c] = <<>>
      BY <2>1 DEF NextIs
    <2> QED
      BY <1>1, <2>1, <2>3, <2>4, <2>5, NextIsSteps
  <1>9. CASE SortLists(c) \/ RewriteState(c)
    <2>1. \E kind : NextIs(c, kind)
      BY <1>9 DEF SortLists, RewriteState
    <2>2. matches' = matches /\ replacements' = replacements /\ \A d \in Context \ {c} : document'[d] = document[d]
      BY <1>9, ErrorfRegisters DEF SortLists, RewriteState, context, SessionInv, StateInv
    <2>3. RegisteredTexts' /\ matches'[c] = <<>>
      BY <2>1, <2>2, NothingRegistered DEF SessionInv, NextIs
    <2> QED
      BY <1>1, <2>1, <2>2, <2>3, NextIsSteps
  <1> QED
    BY <1>1, <1>4, <1>5, <1>6, <1>7, <1>8, <1>9 DEF TransformStep

\* Serializing, and a state that was not serialized yet.
LEMMA ReturnSteps ==
    ASSUME SessionInv, NEW c \in Context, Return(c), StateInv', ContextInv'
    PROVE  SessionInv'
  <1>1. /\ UNCHANGED <<setup, replacements, document, current, matches>>
        /\ stage[c] = "transforming" /\ matches[c] = <<>>
    BY DEF Return, Serialize, context
  <1>2. RegisteredTexts'
    BY <1>1, NothingRegistered DEF SessionInv
  <1>4. \A d \in Context \ {c} : stage'[d] = stage[d] /\ result'[d] = result[d]
    BY DEF Return, Serialize, SessionInv, StateInv
  <1>5. ReturnOf(c)'
    <2> DEFINE compared == Compared(c, SkipOf(c))
               reps == replacements[c]
               read == Rewritten(compared, reps)
    <2>1. \/ stage' = [stage EXCEPT ![c] = "failed"] /\ UNCHANGED result
          \/ /\ stage' = [stage EXCEPT ![c] = "done"]
             /\ \A e \in DOMAIN read : IsValid(read[e])
             /\ result' = [result EXCEPT ![c] = Container(MapNode, [e \in DOMAIN read |-> read[e].doc])]
      BY DEF Return, Serialize
    <2>2. compared' = compared /\ reps' = reps
      BY <1>1 DEF Compared, SkipOf
    <2>3. ASSUME stage' = [stage EXCEPT ![c] = "failed"], UNCHANGED result
          PROVE  ReturnOf(c)'
      BY <1>1, <2>3 DEF ReturnOf, SessionInv, StateInv, Returned
    <2>4. ASSUME stage' = [stage EXCEPT ![c] = "done"],
                 \A e \in DOMAIN read : IsValid(read[e]),
                 result' = [result EXCEPT ![c] = Container(MapNode, [e \in DOMAIN read |-> read[e].doc])]
          PROVE  ReturnOf(c)'
      <3>1. stage'[c] = "done"
        BY <2>4 DEF SessionInv, StateInv
      <3>2. result'[c] = Container(MapNode, [e \in DOMAIN read |-> read[e].doc])
        BY <2>4 DEF SessionInv, StateInv
      <3>3. Answers(compared, reps, result'[c])
        BY <2>4, <3>2 DEF Answers
      <3> HIDE DEF compared, reps
      <3>4. Answers(compared', reps', result'[c])
        BY <2>2, <3>3
      <3> QED
        BY <3>1, <3>4 DEF ReturnOf, compared, reps
    <2> HIDE DEF compared, reps, read
    <2> QED
      BY <2>1, <2>3, <2>4
  <1>6. MatchesThere'
    <2>1. ASSUME NEW d \in Context, matches'[d] # <<>>
          PROVE  /\ stage'[d] = "transforming"
                 /\ current'[d].reference = TRUE => matches'[d] \in Seq(DOMAIN document'[d])
      <3>1. d # c
        BY <1>1, <2>1
      <3> QED
        BY <1>1, <1>4, <2>1, <3>1 DEF SessionInv, MatchesThere
    <2> QED
      BY <2>1 DEF MatchesThere
  <1>7. Returned'
    <2>1. ASSUME NEW d \in Context \ {c} PROVE SameReturn(d)
      BY <1>1, <1>4 DEF SameReturn, Compared, SkipOf
    <2>2. ASSUME NEW d \in Context PROVE ReturnOf(d)'
      <3>1. CASE d = c
        BY <1>5, <3>1
      <3>2. CASE d # c
        <4>1. ReturnOf(d) /\ SameReturn(d)
          BY <2>1, <3>2 DEF SessionInv, Returned
        <4> QED
          BY <4>1, ReturnStays
      <3> QED
        BY <3>1, <3>2
    <2> QED
      BY <2>2 DEF Returned
  <1> QED
    BY <1>2, <1>6, <1>7 DEF SessionInv

\* The state of a session that has not begun.
LEMMA BeginSteps ==
    ASSUME SessionInv, NEW c \in Context, NEW observed, BeginTransform(c, observed, setup.transformers),
           setup' = setup, StateInv', ContextInv'
    PROVE  SessionInv'
  <1>1. /\ stage[c] = "matching" /\ stage' = [stage EXCEPT ![c] = "transforming"]
        /\ UNCHANGED <<replacements, current, matches, result>>
        /\ \A d \in Context \ {c} : document'[d] = document[d] /\ stage'[d] = stage[d]
    BY DEF BeginTransform, context, SessionInv, StateInv
  <1>2. RegisteredTexts'
    BY <1>1, NothingRegistered DEF SessionInv
  <1>3. matches[c] = <<>> /\ stage'[c] = "transforming"
    BY <1>1 DEF SessionInv, MatchesThere, StateInv
  <1>4. MatchesThere'
    <2>1. ASSUME NEW d \in Context, matches'[d] # <<>>
          PROVE  /\ stage'[d] = "transforming"
                 /\ current'[d].reference = TRUE => matches'[d] \in Seq(DOMAIN document'[d])
      <3>1. d # c
        BY <1>1, <1>3, <2>1
      <3> QED
        BY <1>1, <2>1, <3>1 DEF SessionInv, MatchesThere
    <2> QED
      BY <2>1 DEF MatchesThere
  <1>5. Returned'
    <2>1. ASSUME NEW d \in Context PROVE ReturnOf(d)'
      <3>1. CASE d = c
        <4>1. result'[c] = Leaf(MapNode)
          BY <1>1 DEF SessionInv, Returned, ReturnOf
        <4> QED
          BY <1>3, <3>1, <4>1 DEF ReturnOf
      <3>2. CASE d # c
        <4>1. SameReturn(d)
          BY <1>1, <3>2 DEF SameReturn, Compared, SkipOf
        <4> QED
          BY <4>1, ReturnStays DEF SessionInv, Returned
      <3> QED
        BY <3>1, <3>2
    <2> QED
      BY <2>1 DEF Returned
  <1> QED
    BY <1>2, <1>4, <1>5 DEF SessionInv

\* A step of the test.
LEMMA StepKeepsSession == SessionInv /\ [Next]_vars => SessionInv'
  <1> SUFFICES ASSUME SessionInv, [Next]_vars PROVE SessionInv'
    OBVIOUS
  <1>1. StateInv' /\ ContextInv'
    BY StepKeepsState, StepKeeps DEF SessionInv
  <1>2. Recording \in Context /\ Verifying \in Context
    BY RoundTripAssumption
  <1>3. CASE UNCHANGED <<stage, replacements, document, current, matches, result, setup>>
    <2>1. RegisteredTexts'
      BY <1>3, NothingRegistered DEF SessionInv
    <2>2. ASSUME NEW d \in Context PROVE SameReturn(d)
      BY <1>3 DEF SameReturn, Compared, SkipOf
    <2>3. MatchesThere'
      BY <1>3 DEF SessionInv, MatchesThere
    <2>4. Returned'
      BY <2>2, ReturnsStay DEF SessionInv
    <2> QED
      BY <1>1, <2>1, <2>3, <2>4 DEF SessionInv
  <1>4. CASE UNCHANGED vars \/ Compare
    BY <1>3, <1>4 DEF vars, Compare, context, transforming
  <1>5. CASE Record
    BY <1>1, <1>2, <1>5, BeginSteps DEF Record
  <1>6. CASE Verify
    BY <1>1, <1>2, <1>6, BeginSteps DEF Verify
  <1>7. ASSUME NEW c \in Context, Transform(c) \/ Return(c) PROVE SessionInv'
    BY <1>1, <1>7, TransformSteps, ReturnSteps
  <1>8. CASE RejectPaths
    <2>1. /\ stage[Verifying] = "matching" /\ stage' = [stage EXCEPT ![Verifying] = "failed"]
          /\ UNCHANGED <<replacements, document, current, matches, result, setup>>
      BY <1>8 DEF RejectPaths, context
    <2>2. RegisteredTexts'
      BY <2>1, NothingRegistered DEF SessionInv
    <2>3. \A d \in Context : stage'[d] = IF d = Verifying THEN "failed" ELSE stage[d]
      BY <2>1 DEF SessionInv, StateInv
    <2>4. MatchesThere'
      BY <2>1, <2>3 DEF SessionInv, MatchesThere
    <2>5. ASSUME NEW d \in Context PROVE ReturnOf(d)'
      <3>1. CASE d = Verifying
        BY <2>1, <2>3, <3>1 DEF ReturnOf, SessionInv, Returned
      <3>2. CASE d # Verifying
        <4>1. SameReturn(d)
          BY <2>1, <2>3, <3>2 DEF SameReturn, Compared, SkipOf
        <4> QED
          BY <4>1, ReturnStays DEF SessionInv, Returned
      <3> QED
        BY <3>1, <3>2
    <2>6. Returned'
      BY <2>5 DEF Returned
    <2> QED
      BY <1>1, <2>2, <2>4, <2>6 DEF SessionInv
  <1> QED
    BY <1>4, <1>5, <1>6, <1>7, <1>8 DEF Next

\* Nothing to begin with.
LEMMA InitSession == Init => SessionInv
  <1> SUFFICES ASSUME Init PROVE SessionInv
    OBVIOUS
  <1>1. StateInv /\ ContextInv
    BY InitStateInv, InitInv
  <1>2. \A c \in Context : /\ matches[c] = <<>> /\ stage[c] = "matching" /\ replacements[c] = <<>>
                           /\ result[c] = Leaf(MapNode)
    BY DEF Init, TransformInit, ContextInit
  <1>3. RegisteredTexts /\ MatchesThere /\ Returned
    BY <1>2 DEF RegisteredTexts, MatchesThere, Returned, ReturnOf
  <1> QED
    BY <1>1, <1>3 DEF SessionInv

\* What is returned is a document.
LEMMA SessionTypes == SessionInv => TypeOK
  <1> SUFFICES ASSUME SessionInv PROVE TypeOK
    OBVIOUS
  <1>1. ASSUME NEW c \in Context PROVE IsDocument(document[c]) /\ IsDocument(result[c])
    <2>1. IsState(document[c])
      BY StatesAre DEF SessionInv, StateInv
    <2>2. CASE stage[c] = "done"
      <3> DEFINE doc == Compared(c, SkipOf(c))
                 reps == replacements[c]
                 res == result[c]
      <3>1. IsState(doc) /\ Answers(doc, reps, res)
        BY <2>2, ComparedState DEF SessionInv, Returned, ReturnOf
      <3>2. AreReplacements(reps)
        <4>1. IsSequence(reps) /\ \A i \in DOMAIN reps : IsReplacement(reps[i])
          BY DEF SessionInv, ContextInv, ContextTypes, RegisteredTexts
        <4> HIDE DEF reps
        <4>2. reps \in Seq(Range(reps))
          BY <4>1 DEF IsSequence
        <4>3. Len(reps) \in Nat /\ DOMAIN reps = 1..Len(reps)
          BY <4>2
        <4> QED
          BY <4>1, <4>3 DEF AreReplacements
      <3> HIDE DEF doc, reps, res
      <3>3. IsDocument(res)
        BY <3>1, <3>2, AnswerDocument
      <3> QED
        BY <2>1, <3>3 DEF IsState, IsTree, res
    <2>3. CASE stage[c] # "done"
      <3>1. result[c] = Leaf(MapNode)
        BY <2>3 DEF SessionInv, Returned, ReturnOf
      <3>2. IsDocument(Leaf(MapNode))
        BY DEF IsDocument, Leaf
      <3> QED
        BY <2>1, <3>1, <3>2 DEF IsState, IsTree
    <2> QED
      BY <2>2, <2>3
  <1> QED
    BY <1>1 DEF TypeOK, SessionInv, StateInv

\* Whatever a test observes and registers, its transformers make documents of documents,
\* and what is decoded in the end is one, too.
THEOREM TransformersKeepDocuments == Spec => []TypeOK
  <1> QED
    BY SessionTypes, InitSession, StepKeepsSession, PTL DEF Spec

=============================================================================

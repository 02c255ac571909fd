--------------------------- MODULE Session_proofs ---------------------------
(***************************************************************************)
(* Proofs about Session, for any number of sessions, keys, transformers    *)
(* and recordings: finish has its effect once; what it computes (Sorted,   *)
(* Pass, Selected) is what it should; and the outcome of a session, what   *)
(* it records and its verdict, is the promised one.                        *)
(***************************************************************************)
EXTENDS Session, FiniteSetTheorems, SequenceTheorems, WellFoundedInduction, TLAPS

\* The variables that decide about finish, or that it decides on, have one value per
\* session.
Shape ==
    /\ DOMAIN phase = Session
    /\ DOMAIN done = Session
    /\ DOMAIN recorded = Session
    /\ DOMAIN results = Session
    /\ DOMAIN rawSaved = Session
    /\ DOMAIN saved = Session
    /\ DOMAIN config = Session

Underway == {"raw", "transform", "save", "compare"}

\* finish is under way only in a session that is marked as done, and records only in
\* update mode; a session that is not there has recorded nothing.
FinishInv ==
    \A s \in Session :
        /\ phase[s] \in Underway => done[s]
        /\ phase[s] = "save" => config[s].update
        /\ phase[s] = "new" => saved[s] = NoDoc
        /\ ~config[s].update => saved[s] = NoDoc

IInv == Shape /\ FinishInv

\* finish has no effect on session s.
Kept(s) ==
    /\ phase'[s] = phase[s]
    /\ recorded'[s] = recorded[s] /\ results'[s] = results[s]
    /\ rawSaved'[s] = rawSaved[s] /\ saved'[s] = saved[s]

\* What is true of a step of session s: the others are left alone, and its own outcome
\* is once finish has returned.
Effect(s) == IInv' /\ \A x \in Session : x # s \/ Finished(x) => Kept(x)

-----------------------------------------------------------------------------
(* The steps. *)

\* New only touches a session that was not there.
LEMMA NewStep ==
    ASSUME IInv, NEW s \in Session, NEW cfg, NEW recording, NEW failed,
           New(s, cfg, recording, failed)
    PROVE  Effect(s)
  BY DEF New, Effect, Kept, Finished, IInv, Shape, FinishInv, Underway, Fail, calls

\* The calls of the test do not touch the outcome.
LEMMA CallStep ==
    ASSUME IInv, NEW s \in Session,
           UNCHANGED <<phase, config, outcome, done>>
    PROVE  Effect(s)
  BY DEF Effect, Kept, IInv, Shape, FinishInv, outcome

\* Begin does nothing the second time.
LEMMA BeginStep ==
    ASSUME IInv, NEW s \in Session, phase[s] = "open", Begin(s)
    PROVE  Effect(s)
  <1> USE DEF Effect, Kept, Finished, IInv, Shape, FinishInv, Underway, Fail, calls, outcome
  <1>1. CASE done[s]
    BY <1>1 DEF Begin
  <1>2. CASE ~done[s] /\ observed[s] = Empty
    BY <1>2 DEF Begin, FinishHead
  <1>3. CASE ~done[s] /\ observed[s] # Empty
    BY <1>3 DEF Begin, FinishHead
  <1> QED
    BY <1>1, <1>2, <1>3

\* The parts of finish that may write.
LEMMA WriteStep ==
    ASSUME IInv, NEW s \in Session, NEW ok \in BOOLEAN, WriteRaw(s, ok) \/ Save(s, ok)
    PROVE  Effect(s)
  <1> USE DEF Effect, Kept, Finished, IInv, Shape, FinishInv, Underway, calls
  <1>1. CASE WriteRaw(s, ok)
    BY <1>1 DEF WriteRaw
  <1>2. CASE Save(s, ok)
    BY <1>2 DEF Save
  <1> QED
    BY <1>1, <1>2

\* The parts of finish that compute.
LEMMA ComputeStep ==
    ASSUME IInv, NEW s \in Session, Transform(s) \/ Compare(s)
    PROVE  Effect(s)
  <1> USE DEF Effect, Kept, Finished, IInv, Shape, FinishInv, Underway, calls, outcome
  <1>1. CASE Transform(s)
    BY <1>1 DEF Transform
  <1>2. CASE Compare(s)
    BY <1>2 DEF Compare
  <1> QED
    BY <1>1, <1>2

\* Every step of the system is a step of one session.
LEMMA EveryStep == IInv /\ Next => \E s \in Session : Effect(s)
  <1> SUFFICES ASSUME IInv, NEW s \in Session,
                      \/ \E cfg \in Configs :
                            \/ \E recording \in Recordings : New(s, cfg, recording, FALSE)
                            \/ New(s, cfg, Empty, TRUE)
                      \/ TestCall(s)
                      \/ Cleanup(s)
                      \/ \E ok \in BOOLEAN : WriteRaw(s, ok) \/ Save(s, ok)
                      \/ Transform(s)
                      \/ Compare(s)
               PROVE  Effect(s)
    BY DEF Next
  <1>1. ASSUME NEW key \in Key, NEW doc \in Docs, Match(s, key, doc) PROVE Effect(s)
    BY <1>1, CallStep DEF Match
  <1>2. ASSUME NEW t \in Transformer, NEW prio \in Priorities, AddTransformer(s, t, prio)
        PROVE  Effect(s)
    BY <1>2, CallStep DEF AddTransformer
  <1>3. ASSUME NEW paths \in PathSets, SkipVerifyPaths(s, paths) PROVE Effect(s)
    BY <1>3, CallStep DEF SkipVerifyPaths
  <1>4. CASE SkipVerify(s)
    BY <1>4, CallStep DEF SkipVerify
  <1>5. CASE AssertAll(s) \/ Cleanup(s)
    BY <1>5, BeginStep DEF AssertAll, Cleanup
  <1> QED
    BY <1>1, <1>2, <1>3, <1>4, <1>5, NewStep, WriteStep, ComputeStep DEF TestCall

-----------------------------------------------------------------------------
(* The theorems. *)

LEMMA InitInv == Init => IInv
  BY DEF Init, IInv, Shape, FinishInv, Underway

LEMMA StepInv == IInv /\ [Next]_vars => IInv'
  <1>1. IInv /\ UNCHANGED vars => IInv'
    BY DEF vars, calls, outcome, IInv, Shape, FinishInv
  <1> QED
    BY <1>1, EveryStep DEF Effect

\* Once finish has returned, no call of any goroutine of any test changes the verdict
\* or writes again.
THEOREM FinishesOnce == Spec => FinishOnce
  <1> DEFINE Once ==
        \A s \in Session :
          Finished(s) =>
             /\ phase'[s] = "open"
             /\ recorded'[s] = recorded[s] /\ results'[s] = results[s]
             /\ rawSaved'[s] = rawSaved[s] /\ saved'[s] = saved[s]
  <1>1. IInv /\ [Next]_vars => [Once]_vars
    BY EveryStep DEF Effect, Kept, Finished
  <1> QED
    BY <1>1, InitInv, StepInv, PTL DEF Spec, FinishOnce

\* A session that verifies never writes the snapshot file.
VerifyingNeverSaves == \A s \in Session : ~config[s].update => saved[s] = NoDoc

\* Without UPDATE_SNAPSHOT the recordings are safe from every test.
THEOREM OnlyUpdateSaves == Spec => []VerifyingNeverSaves
  <1>1. IInv => VerifyingNeverSaves
    BY DEF IInv, FinishInv, VerifyingNeverSaves
  <1> QED
    BY <1>1, InitInv, StepInv, PTL DEF Spec

-----------------------------------------------------------------------------
(* Loops, and induction over the numbers. *)

\* A set of numbers that is not empty has a least element.
LEMMA LeastNumber ==
    ASSUME NEW T \in SUBSET Nat, T # {}
    PROVE  \E x \in T : \A y \in T : x <= y
  <1> DEFINE R == OpToRel(<, Nat)
  <1>1. IsWellFoundedOn(R, Nat)
    BY NatLessThanWellFounded
  <1>2. \A x, y \in Nat : <<y, x>> \in R <=> y < x
    BY DEF OpToRel
  <1> HIDE DEF R
  <1>3. PICK x \in T : \A y \in T : ~ (<<y, x>> \in R)
    BY <1>1, WFMin
  <1>4. ASSUME NEW y \in T PROVE x <= y
    <2>1. x \in Nat /\ y \in Nat
      OBVIOUS
    <2>2. ~ (y < x)
      BY <1>2, <1>3, <2>1, Zenon
    <2> QED
      BY <2>1, <2>2
  <1> QED
    BY <1>4

\* Induction over the numbers up to a bound, for a set: no operator is a parameter.
LEMMA UpTo ==
    ASSUME NEW n \in Nat, NEW S, 0 \in S, \A i \in 0..n-1 : i \in S => i + 1 \in S
    PROVE  0..n \subseteq S
  <1> DEFINE T == (0..n) \ S
  <1>1. ASSUME T # {} PROVE FALSE
    <2>1. PICK x \in T : \A y \in T : x <= y
      <3>1. T \subseteq Nat
        OBVIOUS
      <3> HIDE DEF T
      <3> QED
        BY <1>1, <3>1, LeastNumber
    <2>2. x \in 0..n /\ x # 0 /\ x - 1 \in 0..n-1
      BY <2>1
    <2>3. x - 1 \notin T
      BY <2>1, <2>2
    <2>4. x - 1 \in S
      BY <2>2, <2>3
    <2> QED
      BY <2>1, <2>2, <2>4
  <1> QED
    BY <1>1

\* A recursive definition whose step has the values of a function is that of one.
HasFunction(n, V, base, step) ==
    \E g \in [0..n -> V] : g[0] = base /\ \A i \in 1..n : g[i] = step[<<i, g[i-1]>>]

\* A loop over 1..n whose step stays in V has a function of its values.
LEMMA LoopFunction ==
    ASSUME NEW n \in Nat, NEW V, NEW base \in V, NEW step \in [(1..n) \X V -> V]
    PROVE  HasFunction(n, V, base, step)
  <1> DEFINE Good(m, g) == g[0] = base /\ \A i \in 1..m : g[i] = step[<<i, g[i-1]>>]
             S == {m \in 0..n : \E g \in [0..m -> V] : Good(m, g)}
  <1>1. 0 \in S
    <2> DEFINE g == [i \in 0..0 |-> base]
    <2>1. g \in [0..0 -> V] /\ Good(0, g)
      OBVIOUS
    <2> HIDE DEF g, Good
    <2> QED
      BY <2>1
  <1>2. ASSUME NEW m \in 0..n-1, m \in S PROVE m + 1 \in S
    <2>1. PICK g \in [0..m -> V] : Good(m, g)
      BY <1>2
    <2> DEFINE h == [i \in 0..m+1 |-> IF i \in 0..m THEN g[i] ELSE step[<<m+1, g[m]>>]]
    <2>2. <<m+1, g[m]>> \in (1..n) \X V
      OBVIOUS
    <2>3. h \in [0..m+1 -> V]
      BY <2>2
    <2>4. Good(m+1, h)
      <3>1. h[0] = base
        BY <2>1
      <3>2. ASSUME NEW i \in 1..m+1 PROVE h[i] = step[<<i, h[i-1]>>]
        <4>1. CASE i \in 1..m
          <5>1. h[i] = g[i] /\ h[i-1] = g[i-1]
            BY <4>1
          <5> QED
            BY <2>1, <4>1, <5>1
        <4>2. CASE i = m + 1
          <5>1. h[i] = step[<<m+1, g[m]>>] /\ i - 1 = m /\ h[m] = g[m]
            BY <4>2
          <5> QED
            BY <4>2, <5>1
        <4> QED
          BY <4>1, <4>2
      <3> QED
        BY <3>1, <3>2
    <2> HIDE DEF h, Good
    <2>5. m + 1 \in 0..n
      OBVIOUS
    <2> QED
      BY <2>3, <2>4, <2>5
  <1>3. n \in S
    <2> HIDE DEF S
    <2> QED
      BY <1>1, <1>2, UpTo
  <1> QED
    BY <1>3 DEF HasFunction
-----------------------------------------------------------------------------
(* The order of the transformers.                                          *)

\* What a session has registered: the order of a registration is its number.
Ordered(registered) ==
    /\ registered \in Seq(Registration)
    /\ \A i \in 1..Len(registered) : registered[i].order = i - 1

\* Two registrations run in one order or the other, never in both.
LEMMA RunsBeforeTotal ==
    ASSUME NEW registered, Ordered(registered),
           NEW i \in 1..Len(registered), NEW j \in 1..Len(registered), i # j
    PROVE  RunsBefore(registered[i], registered[j]) <=> ~RunsBefore(registered[j], registered[i])
  <1> DEFINE x == registered[i]
             y == registered[j]
  <1>1. x \in Registration /\ y \in Registration
    BY DEF Ordered
  <1>2. x.order # y.order
    BY DEF Ordered
  <1>3. x.order \in Nat /\ y.order \in Nat /\ x.priority \in Nat /\ y.priority \in Nat
    BY <1>1, SessionAssumption DEF Registration
  <1> HIDE DEF x, y
  <1>4. RunsBefore(x, y) <=> ~RunsBefore(y, x)
    BY <1>2, <1>3 DEF RunsBefore
  <1> QED
    BY <1>4 DEF x, y

LEMMA RunsBeforeOrder ==
    ASSUME NEW registered, Ordered(registered),
           NEW i \in 1..Len(registered), NEW j \in 1..Len(registered),
           NEW k \in 1..Len(registered)
    PROVE  /\ ~RunsBefore(registered[i], registered[i])
           /\ RunsBefore(registered[i], registered[j]) /\ RunsBefore(registered[j], registered[k])
              => RunsBefore(registered[i], registered[k])
  <1>1. ASSUME NEW x \in 1..Len(registered)
        PROVE  registered[x].order \in Nat /\ registered[x].priority \in Nat
    <2>1. registered[x] \in Registration
      BY DEF Ordered
    <2> QED
      BY <2>1, SessionAssumption DEF Registration
  <1> QED
    BY <1>1 DEF RunsBefore

\* q puts the first m registrations in the order they run in.
Puts(q, registered, m) ==
    /\ q \in [1..m -> 1..m]
    /\ \A i, j \in 1..m : i < j => RunsBefore(registered[q[i]], registered[q[j]])
    /\ \A k \in 1..m : \E i \in 1..m : q[i] = k

\* The next registration finds its place among the first ones.
LEMMA Insert ==
    ASSUME NEW registered, Ordered(registered), NEW m \in 0..Len(registered)-1,
           NEW q, Puts(q, registered, m)
    PROVE  \E p : Puts(p, registered, m+1)
  <1> DEFINE new == registered[m+1]
             T == {i \in 1..m+1 : i = m+1 \/ RunsBefore(new, registered[q[i]])}
  <1>0. Len(registered) \in Nat /\ m \in Nat
    BY DEF Ordered
  <1>1. PICK a \in T : \A b \in T : a <= b
    <2>1. m + 1 \in T /\ T \in SUBSET Nat
      BY <1>0
    <2> HIDE DEF T
    <2> QED
      BY <2>1, LeastNumber
  <1>2. a \in 1..m+1
    OBVIOUS
  <1> DEFINE p == [i \in 1..m+1 |-> IF i < a THEN q[i] ELSE IF i = a THEN m+1 ELSE q[i-1]]
  <1>3. q \in [1..m -> 1..m]
    BY DEF Puts
  <1>4. \A i \in 1..m+1 :
           /\ i < a => i \in 1..m /\ p[i] = q[i]
           /\ i = a => p[i] = m+1
           /\ i > a => i-1 \in 1..m /\ p[i] = q[i-1]
    BY <1>0, <1>2
  <1>5. p \in [1..m+1 -> 1..m+1]
    <2>1. \A i \in 1..m+1 : p[i] \in 1..m+1
      BY <1>0, <1>2, <1>3, <1>4
    <2> QED
      BY <2>1
  <1> HIDE DEF p
  <1>6. ASSUME NEW i \in 1..m, i < a PROVE RunsBefore(registered[q[i]], new)
    <2>1. ~RunsBefore(new, registered[q[i]])
      BY <1>0, <1>1, <1>2, <1>6
    <2>2. q[i] \in 1..Len(registered) /\ m+1 \in 1..Len(registered) /\ q[i] # m+1
      <3>1. q[i] \in 1..m
        BY <1>3
      <3> QED
        BY <1>0, <3>1
    <2> HIDE DEF new
    <2> QED
      BY <2>1, <2>2, RunsBeforeTotal DEF new
  <1>7. ASSUME NEW i \in 1..m, i >= a PROVE RunsBefore(new, registered[q[i]])
    <2>1. a \in 1..m /\ RunsBefore(new, registered[q[a]])
      BY <1>0, <1>1, <1>2, <1>7
    <2>2. i = a \/ RunsBefore(registered[q[a]], registered[q[i]])
      BY <1>7, <2>1 DEF Puts
    <2>3. q[a] \in 1..Len(registered) /\ q[i] \in 1..Len(registered) /\ m+1 \in 1..Len(registered)
      <3>1. q[a] \in 1..m /\ q[i] \in 1..m
        BY <1>3, <2>1
      <3> QED
        BY <1>0, <3>1
    <2> QED
      BY <2>1, <2>2, <2>3, RunsBeforeOrder
  <1>8. ASSUME NEW i \in 1..m+1, NEW j \in 1..m+1, i < j
        PROVE  RunsBefore(registered[p[i]], registered[p[j]])
    <2> HIDE DEF new
    <2>1. CASE j < a
      <3>1. i \in 1..m /\ j \in 1..m /\ p[i] = q[i] /\ p[j] = q[j]
        BY <1>0, <1>2, <1>4, <1>8, <2>1
      <3> QED
        BY <1>8, <3>1 DEF Puts
    <2>2. CASE j = a
      <3>1. i \in 1..m /\ p[i] = q[i] /\ p[j] = m+1
        BY <1>0, <1>2, <1>4, <1>8, <2>2
      <3> QED
        BY <1>6, <1>8, <2>2, <3>1 DEF new
    <2>3. CASE j > a /\ i = a
      <3>1. j-1 \in 1..m /\ j-1 >= a /\ p[i] = m+1 /\ p[j] = q[j-1]
        BY <1>0, <1>2, <1>4, <1>8, <2>3
      <3> QED
        BY <1>7, <3>1 DEF new
    <2>4. CASE j > a /\ i < a
      <3>1. i \in 1..m /\ j-1 \in 1..m /\ i < j-1 /\ p[i] = q[i] /\ p[j] = q[j-1]
        BY <1>0, <1>2, <1>4, <1>8, <2>4
      <3> QED
        BY <3>1 DEF Puts
    <2>5. CASE j > a /\ i > a
      <3>1. i-1 \in 1..m /\ j-1 \in 1..m /\ i-1 < j-1 /\ p[i] = q[i-1] /\ p[j] = q[j-1]
        BY <1>0, <1>2, <1>4, <1>8, <2>5
      <3> QED
        BY <3>1 DEF Puts
    <2> QED
      BY <1>0, <1>2, <2>1, <2>2, <2>3, <2>4, <2>5
  <1>9. ASSUME NEW k \in 1..m+1 PROVE \E i \in 1..m+1 : p[i] = k
    <2>1. CASE k = m+1
      BY <1>2, <1>4, <2>1
    <2>2. CASE k \in 1..m
      <3>1. PICK i \in 1..m : q[i] = k
        BY <2>2 DEF Puts
      <3>2. CASE i < a
        BY <1>0, <1>2, <1>4, <3>1, <3>2
      <3>3. CASE i >= a
        <4>1. i+1 \in 1..m+1 /\ i+1 > a /\ (i+1)-1 = i
          BY <1>0, <1>2, <3>3
        <4> QED
          BY <1>4, <3>1, <4>1
      <3> QED
        BY <1>0, <1>2, <3>2, <3>3
    <2> QED
      BY <1>0, <2>1, <2>2
  <1> QED
    BY <1>5, <1>8, <1>9 DEF Puts

\* An ordered list of places is a rearrangement.
LEMMA PlacesAll ==
    ASSUME NEW registered, Ordered(registered), NEW n, n = Len(registered),
           NEW q \in [1..n -> 1..n],
           \A i, j \in 1..n : i < j => RunsBefore(registered[q[i]], registered[q[j]])
    PROVE  Puts(q, registered, n)
  <1>1. n \in Nat
    BY DEF Ordered
  <1>2. ASSUME NEW i \in 1..n, NEW j \in 1..n, q[i] = q[j] PROVE i = j
    <2>1. ~RunsBefore(registered[q[i]], registered[q[j]])
          /\ ~RunsBefore(registered[q[j]], registered[q[i]])
      BY <1>2, RunsBeforeOrder
    <2> QED
      BY <1>1, <2>1
  <1>3. q \in Injection(1..n, 1..n)
    BY <1>2 DEF Injection, IsInjective
  <1>4. IsFiniteSet(1..n)
    BY <1>1, FS_Interval
  <1>5. q \in Surjection(1..n, 1..n)
    BY <1>3, <1>4, FS_Injection
  <1> QED
    BY <1>5 DEF Puts, Surjection

\* The registrations can be put in order, so that the choice in Sorted is one.
LEMMA SortedPuts ==
    ASSUME NEW registered, Ordered(registered), NEW n, n = Len(registered)
    PROVE  \E q : /\ Puts(q, registered, n)
                  /\ Sorted(registered) = [i \in 1..n |-> registered[q[i]]]
  <1> DEFINE S == {m \in 0..n : \E q : Puts(q, registered, m)}
             InOrder(q) ==
                \A i, j \in 1..n : i < j => RunsBefore(registered[q[i]], registered[q[j]])
             place == CHOOSE q \in [1..n -> 1..n] : InOrder(q)
  <1>1. n \in Nat
    BY DEF Ordered
  <1>2. 0 \in S
    <2>1. Puts([i \in 1..0 |-> i], registered, 0)
      BY DEF Puts
    <2> QED
      BY <1>1, <2>1
  <1>3. ASSUME NEW m \in 0..n-1, m \in S PROVE m + 1 \in S
    <2>1. \E p : Puts(p, registered, m+1)
      BY <1>3, Insert
    <2> QED
      BY <1>1, <2>1
  <1>4. n \in S
    <2> HIDE DEF S
    <2> QED
      BY <1>1, <1>2, <1>3, UpTo
  <1>5. \E q \in [1..n -> 1..n] : InOrder(q)
    BY <1>4 DEF Puts
  <1>6. place \in [1..n -> 1..n] /\ InOrder(place)
    <2> HIDE DEF InOrder
    <2> QED
      BY <1>5
  <1>7. Sorted(registered) = [i \in 1..n |-> registered[place[i]]]
    BY DEF Sorted
  <1> HIDE DEF place
  <1>8. Puts(place, registered, n)
    BY <1>6, PlacesAll
  <1> QED
    BY <1>7, <1>8

-----------------------------------------------------------------------------
(* The passes. *)

\* The transformer of a registration, if it is active.
Step(x, r, active) == IF r.transformer \in active THEN Rewrite[r.transformer][x] ELSE x

\* after is the scalar v after the first i registrations of a pass.
Passes(after, v, registered, active) ==
    /\ after \in [0..Len(registered) -> Scalar]
    /\ after[0] = v
    /\ \A i \in 1..Len(registered) : after[i] = Step(after[i-1], registered[i], active)

LEMMA PassAt ==
    ASSUME NEW registered \in Seq(Registration), NEW v \in Scalar, NEW active
    PROVE  \E after : /\ Passes(after, v, registered, active)
                      /\ Pass(v, registered, active) = after[Len(registered)]
  <1> DEFINE n == Len(registered)
             step == [p \in (1..n) \X Scalar |-> Step(p[2], registered[p[1]], active)]
             F(h) == [i \in 0..n |->
                        IF i = 0 THEN v
                        ELSE IF registered[i].transformer \in active
                        THEN Rewrite[registered[i].transformer][h[i-1]]
                        ELSE h[i-1]]
             after == CHOOSE h : h = F(h)
  <1>1. n \in Nat
    OBVIOUS
  <1>2. step \in [(1..n) \X Scalar -> Scalar]
    <2>1. ASSUME NEW i \in 1..n, NEW x \in Scalar PROVE Step(x, registered[i], active) \in Scalar
      <3>1. registered[i] \in Registration
        OBVIOUS
      <3>2. registered[i].transformer \in Transformer
        BY <3>1 DEF Registration
      <3> QED
        BY <3>2, SessionAssumption DEF Step
    <2> QED
      BY <2>1
  <1>3. PICK g \in [0..n -> Scalar] :
            g[0] = v /\ \A i \in 1..n : g[i] = step[<<i, g[i-1]>>]
    <2> HIDE DEF n, step
    <2>1. HasFunction(n, Scalar, v, step)
      BY <1>1, <1>2, LoopFunction
    <2> QED
      BY <2>1 DEF HasFunction
  <1>4. ASSUME NEW i \in 1..n PROVE g[i] = Step(g[i-1], registered[i], active)
    <2>1. <<i, g[i-1]>> \in (1..n) \X Scalar
      BY <1>1
    <2> QED
      BY <1>3, <2>1
  <1>5. g = F(g)
    <2>1. ASSUME NEW i \in 0..n PROVE g[i] = F(g)[i]
      <3>1. CASE i = 0
        BY <1>3, <3>1
      <3>2. CASE i \in 1..n
        BY <1>4, <3>2 DEF Step
      <3> QED
        BY <1>1, <3>1, <3>2
    <2>2. g = [i \in 0..n |-> g[i]] /\ F(g) = [i \in 0..n |-> F(g)[i]]
      OBVIOUS
    <2> HIDE DEF F
    <2> QED
      BY <2>1, <2>2
  <1>6. after = F(after)
    <2> HIDE DEF F
    <2> QED
      BY <1>5
  <1>7. Pass(v, registered, active) = after[n]
    BY DEF Pass
  <1>8. after = [i \in 0..n |-> after[i]] /\ after[0] = v
        /\ \A i \in 1..n : after[i] = Step(after[i-1], registered[i], active)
    <2> HIDE DEF after
    <2>0. \A i \in 0..n : after[i] = F(after)[i]
      BY <1>6
    <2>1. after = [i \in 0..n |-> after[i]]
      <3>1. F(after) = [i \in 0..n |-> F(after)[i]]
        OBVIOUS
      <3> HIDE DEF F
      <3> QED
        BY <1>6, <3>1
    <2>2. after[0] = v
      BY <1>1, <2>0
    <2>3. ASSUME NEW i \in 1..n PROVE after[i] = Step(after[i-1], registered[i], active)
      <3>1. i \in 0..n /\ i # 0
        BY <1>1
      <3> QED
        BY <2>0, <3>1 DEF Step
    <2> QED
      BY <2>1, <2>2, <2>3
  <1> HIDE DEF after
  <1>9. \A i \in 0..n : after[i] \in Scalar
    <2> DEFINE S == {i \in 0..n : after[i] = g[i]}
    <2>1. 0 \in S
      BY <1>1, <1>3, <1>8
    <2>2. ASSUME NEW i \in 0..n-1, i \in S PROVE i + 1 \in S
      <3>1. i + 1 \in 1..n /\ (i + 1) - 1 = i
        BY <1>1
      <3>2. after[i+1] = Step(after[i], registered[i+1], active)
        BY <1>8, <3>1
      <3>3. g[i+1] = Step(g[i], registered[i+1], active)
        BY <1>4, <3>1
      <3> QED
        BY <2>2, <3>1, <3>2, <3>3
    <2>3. 0..n \subseteq S
      <3> HIDE DEF S, n
      <3> QED
        BY <1>1, <2>1, <2>2, UpTo
    <2> QED
      BY <2>3
  <1> QED
    BY <1>7, <1>8, <1>9 DEF Passes

-----------------------------------------------------------------------------
(* The promised order. *)

\* The registrations in D, in the promised order, make x of v.
Makes(registered, v, D, x) ==
    \E m \in Nat : \E e \in [1..m -> D], chain \in [0..m -> Scalar] :
        /\ \A i, j \in 1..m : i < j => Precedes(registered[e[i]], registered[e[j]])
        /\ \A d \in D : \E i \in 1..m : e[i] = d
        /\ chain[0] = v /\ chain[m] = x
        /\ \A i \in 1..m : chain[i] = Rewrite[registered[e[i]].transformer][chain[i-1]]

LEMMA MakesNothing ==
    ASSUME NEW registered, NEW v \in Scalar PROVE Makes(registered, v, {}, v)
  <1> DEFINE e == [i \in 1..0 |-> i]
             chain == [i \in 0..0 |-> v]
  <1>1. e \in [1..0 -> {}] /\ chain \in [0..0 -> Scalar]
    OBVIOUS
  <1>2. chain[0] = v
    OBVIOUS
  <1> HIDE DEF e, chain
  <1> QED
    BY <1>1, <1>2 DEF Makes

\* One more registration, that comes after those in D.
LEMMA MakesMore ==
    ASSUME NEW registered, NEW v, NEW D, NEW x, Makes(registered, v, D, x), NEW k,
           \A d \in D : Precedes(registered[d], registered[k]),
           NEW y \in Scalar, y = Rewrite[registered[k].transformer][x]
    PROVE  Makes(registered, v, D \cup {k}, y)
  <1>1. PICK m \in Nat : \E e \in [1..m -> D], chain \in [0..m -> Scalar] :
        /\ \A i, j \in 1..m : i < j => Precedes(registered[e[i]], registered[e[j]])
        /\ \A d \in D : \E i \in 1..m : e[i] = d
        /\ chain[0] = v /\ chain[m] = x
        /\ \A i \in 1..m : chain[i] = Rewrite[registered[e[i]].transformer][chain[i-1]]
    BY DEF Makes
  <1>2. PICK e \in [1..m -> D], chain \in [0..m -> Scalar] :
        /\ \A i, j \in 1..m : i < j => Precedes(registered[e[i]], registered[e[j]])
        /\ \A d \in D : \E i \in 1..m : e[i] = d
        /\ chain[0] = v /\ chain[m] = x
        /\ \A i \in 1..m : chain[i] = Rewrite[registered[e[i]].transformer][chain[i-1]]
    BY <1>1
  <1> DEFINE n == m + 1
             f == [i \in 1..n |-> IF i \in 1..m THEN e[i] ELSE k]
             c == [i \in 0..n |-> IF i \in 0..m THEN chain[i] ELSE y]
             E == D \cup {k}
  <1>3. f \in [1..n -> E] /\ c \in [0..n -> Scalar] /\ n \in Nat
    OBVIOUS
  <1>4. \A i \in 1..m : f[i] = e[i] /\ c[i] = chain[i] /\ c[i-1] = chain[i-1] /\ e[i] \in D
    OBVIOUS
  <1>5. f[n] = k /\ c[0] = v /\ c[n] = y /\ c[n-1] = x
    BY <1>2
  <1>6. 1..n = 1..m \cup {n} /\ n \notin 1..m /\ \A i \in 1..n : i < n => i \in 1..m
    OBVIOUS
  <1> HIDE DEF f, c, n
  <1>7. ASSUME NEW i \in 1..n, NEW j \in 1..n, i < j
        PROVE  Precedes(registered[f[i]], registered[f[j]])
    <2>1. i \in 1..m
      BY <1>7 DEF n
    <2>2. CASE j \in 1..m
      BY <1>2, <1>4, <1>7, <2>1, <2>2
    <2>3. CASE j = n
      BY <1>4, <1>5, <2>1, <2>3
    <2> QED
      BY <1>6, <2>2, <2>3
  <1>8. ASSUME NEW d \in E PROVE \E i \in 1..n : f[i] = d
    <2>1. CASE d = k
      BY <1>5, <1>6, <2>1
    <2>2. CASE d \in D
      <3>1. PICK i \in 1..m : e[i] = d
        BY <1>2, <2>2
      <3> QED
        BY <1>4, <1>6, <3>1
    <2> QED
      BY <2>1, <2>2
  <1>9. ASSUME NEW i \in 1..n
        PROVE  c[i] = Rewrite[registered[f[i]].transformer][c[i-1]]
    <2>1. CASE i \in 1..m
      BY <1>2, <1>4, <2>1
    <2>2. CASE i = n
      BY <1>5, <2>2
    <2> QED
      BY <1>6, <2>1, <2>2
  <1> HIDE DEF E
  <1>10. Makes(registered, v, E, y)
    BY <1>3, <1>5, <1>7, <1>8, <1>9 DEF Makes
  <1> QED
    BY <1>10 DEF E

LEMMA Counting ==
    ASSUME NEW n \in Nat PROVE IsFiniteSet(1..n) /\ Cardinality(1..n) = n
  <1>1. 1 \in Int /\ n \in Int
    OBVIOUS
  <1>2. /\ IsFiniteSet(1..n)
        /\ Cardinality(1..n) = IF 1 > n THEN 0 ELSE n-1+1
    BY <1>1, FS_Interval, Zenon
  <1> QED
    BY <1>2

\* All of them are in one order that the promise allows.
LEMMA MakesPromised ==
    ASSUME NEW registered, Ordered(registered), NEW v \in Scalar, NEW x,
           Makes(registered, v, 1..Len(registered), x)
    PROVE  Promised(v, x, registered)
  <1> DEFINE n == Len(registered)
  <1>1. n \in Nat
    BY DEF Ordered
  <1>2. PICK m \in Nat : \E e \in [1..m -> 1..n], chain \in [0..m -> Scalar] :
        /\ \A i, j \in 1..m : i < j => Precedes(registered[e[i]], registered[e[j]])
        /\ \A d \in 1..n : \E i \in 1..m : e[i] = d
        /\ chain[0] = v /\ chain[m] = x
        /\ \A i \in 1..m : chain[i] = Rewrite[registered[e[i]].transformer][chain[i-1]]
    BY DEF Makes
  <1>3. PICK e \in [1..m -> 1..n], chain \in [0..m -> Scalar] :
        /\ \A i, j \in 1..m : i < j => Precedes(registered[e[i]], registered[e[j]])
        /\ \A d \in 1..n : \E i \in 1..m : e[i] = d
        /\ chain[0] = v /\ chain[m] = x
        /\ \A i \in 1..m : chain[i] = Rewrite[registered[e[i]].transformer][chain[i-1]]
    BY <1>2
  <1>4. m = n
    <2>1. ASSUME NEW i \in 1..m, NEW j \in 1..m, e[i] = e[j] PROVE i = j
      <3>1. ~Precedes(registered[e[i]], registered[e[i]])
        BY RunsBeforeOrder DEF Precedes, RunsBefore
      <3>2. ~(i < j) /\ ~(j < i)
        BY <1>3, <2>1, <3>1
      <3> QED
        BY <3>2
    <2>2. e \in Bijection(1..m, 1..n)
      <3>1. e \in Injection(1..m, 1..n)
        BY <2>1 DEF Injection, IsInjective
      <3>2. e \in Surjection(1..m, 1..n)
        BY <1>3 DEF Surjection
      <3> QED
        BY <3>1, <3>2 DEF Bijection
    <2>3. IsFiniteSet(1..m) /\ Cardinality(1..m) = m /\ Cardinality(1..n) = n
      BY <1>1, Counting
    <2>4. ExistsBijection(1..m, 1..n)
      BY <2>2 DEF ExistsBijection
    <2> HIDE DEF n
    <2> QED
      BY <2>3, <2>4, FS_Bijection
  <1>5. ASSUME NEW i \in 1..n-1 PROVE Precedes(registered[e[i]], registered[e[i+1]])
    <2>1. i \in 1..m /\ i+1 \in 1..m /\ i < i+1
      BY <1>1, <1>4
    <2> QED
      BY <1>3, <2>1
  <1> QED
    BY <1>3, <1>4, <1>5 DEF Promised

\* The first i registrations in the order q that a pass looks at.
Active(q, registered, active, i) ==
    {q[j] : j \in {h \in 1..i : registered[q[h]].transformer \in active}}

\* A pass, after what the registrations in D have made of v.
LEMMA PassMakes ==
    ASSUME NEW registered, Ordered(registered), NEW n, n = Len(registered),
           NEW q, Puts(q, registered, n), NEW active \in {Transformer \ Late, Late},
           NEW v, NEW D, NEW x, Makes(registered, v, D, x),
           \A d \in D, i \in 1..n :
              registered[q[i]].transformer \in active => Precedes(registered[d], registered[q[i]]),
           NEW after, Passes(after, x, [i \in 1..n |-> registered[q[i]]], active)
    PROVE  Makes(registered, v, D \cup Active(q, registered, active, n), after[n])
  <1> DEFINE seq == [i \in 1..n |-> registered[q[i]]]
             S == {i \in 0..n :
                     Makes(registered, v, D \cup Active(q, registered, active, i), after[i])}
  <1>0. n \in Nat
    BY DEF Ordered
  <1>1. ASSUME NEW i \in 1..n
        PROVE  /\ seq[i] = registered[q[i]] /\ q[i] \in 1..n
               /\ registered[q[i]].transformer \in Transformer
    <2>1. q[i] \in 1..n
      BY DEF Puts
    <2>2. registered[q[i]] \in Registration
      BY <2>1 DEF Ordered
    <2> QED
      BY <2>1, <2>2 DEF Registration
  <1>2. /\ after \in [0..n -> Scalar] /\ after[0] = x
        /\ \A i \in 1..n : after[i] = Step(after[i-1], registered[q[i]], active)
    <2>1. seq \in Seq(Registration) /\ Len(seq) = n
      <3>1. \A i \in 1..n : seq[i] \in Registration
        BY <1>1 DEF Ordered
      <3> QED
        BY <1>0, <3>1
    <2> QED
      BY <2>1 DEF Passes
  <1>3. 0 \in S
    <2>1. Active(q, registered, active, 0) = {}
      BY DEF Active
    <2>2. D \cup Active(q, registered, active, 0) = D
      BY <2>1
    <2>3. Makes(registered, v, D \cup Active(q, registered, active, 0), after[0])
      BY <1>2, <2>2
    <2> QED
      BY <1>0, <2>3
  <1>4. ASSUME NEW i \in 0..n-1, i \in S PROVE i + 1 \in S
    <2> DEFINE r == registered[q[i+1]]
               A == Active(q, registered, active, i)
               B == Active(q, registered, active, i+1)
    <2>1. i + 1 \in 1..n /\ 1..i+1 = 1..i \cup {i+1} /\ (i + 1) - 1 = i /\ i \in 0..n
      BY <1>0
    <2>2. after[i+1] = Step(after[i], r, active)
      BY <1>2, <2>1
    <2>3. CASE r.transformer \notin active
      <3>1. B = A
        BY <2>1, <2>3 DEF Active
      <3>2. after[i+1] = after[i]
        BY <2>2, <2>3 DEF Step
      <3>3. Makes(registered, v, D \cup A, after[i])
        BY <1>4
      <3> HIDE DEF A, B
      <3>4. Makes(registered, v, D \cup B, after[i+1])
        BY <3>1, <3>2, <3>3
      <3> QED
        BY <2>1, <3>4 DEF B
    <2>4. CASE r.transformer \in active
      <3>1. B = A \cup {q[i+1]}
        BY <2>1, <2>4 DEF Active
      <3>2. ASSUME NEW d \in D \cup A PROVE Precedes(registered[d], r)
        <4>1. CASE d \in D
          BY <2>1, <2>4, <4>1
        <4>2. CASE d \in A
          <5>1. PICK j \in 1..i : d = q[j] /\ registered[q[j]].transformer \in active
            BY <4>2 DEF Active
          <5>2. RunsBefore(registered[q[j]], r)
            <6>1. j \in 1..n /\ j < i + 1
              BY <1>0, <2>1
            <6> QED
              BY <2>1, <6>1 DEF Puts
          <5>3. IsLate(registered[q[j]]) <=> IsLate(r)
            BY <2>4, <5>1 DEF IsLate
          <5> QED
            BY <5>1, <5>2, <5>3 DEF Precedes, RunsBefore
        <4> QED
          BY <4>1, <4>2
      <3>3. after[i+1] = Rewrite[r.transformer][after[i]] /\ after[i+1] \in Scalar
        BY <1>2, <2>1, <2>2, <2>4 DEF Step
      <3>4. Makes(registered, v, D \cup A, after[i])
        BY <1>4
      <3> HIDE DEF A
      <3>5. Makes(registered, v, (D \cup A) \cup {q[i+1]}, after[i+1])
        BY <3>2, <3>3, <3>4, MakesMore
      <3>6. (D \cup A) \cup {q[i+1]} = D \cup B
        BY <3>1
      <3> HIDE DEF B
      <3>7. Makes(registered, v, D \cup B, after[i+1])
        BY <3>5, <3>6
      <3> QED
        BY <2>1, <3>7 DEF B
    <2> QED
      BY <2>3, <2>4
  <1>5. n \in S
    <2> HIDE DEF S
    <2>1. 0..n \subseteq S
      BY <1>0, <1>3, <1>4, UpTo
    <2> QED
      BY <1>0, <2>1
  <1> QED
    BY <1>5

\* What transform makes of a scalar is what the documentation promises.
LEMMA RewrittenPromised ==
    ASSUME NEW registered, Ordered(registered), NEW v \in Scalar
    PROVE  /\ Rewritten(v, registered) \in Scalar
           /\ Promised(v, Rewritten(v, registered), registered)
  <1> DEFINE n == Len(registered)
             early == Transformer \ Late
             seq == Sorted(registered)
  <1>1. n \in Nat
    BY DEF Ordered
  <1>2. PICK q : Puts(q, registered, n) /\ seq = [i \in 1..n |-> registered[q[i]]]
    BY SortedPuts
  <1>3. ASSUME NEW i \in 1..n
        PROVE  q[i] \in 1..n /\ registered[q[i]] \in Registration
    <2>1. q[i] \in 1..n
      BY <1>2 DEF Puts
    <2> QED
      BY <2>1 DEF Ordered
  <1>4. seq \in Seq(Registration) /\ Len(seq) = n
    <2> HIDE DEF n, seq
    <2> QED
      BY <1>1, <1>2, <1>3
  <1>5. PICK one : Passes(one, v, seq, early) /\ Pass(v, seq, early) = one[n]
    <2> HIDE DEF seq, early, n
    <2> QED
      BY <1>4, PassAt
  <1> DEFINE x == one[n]
  <1>6. x \in Scalar
    BY <1>1, <1>4, <1>5 DEF Passes
  <1>7. PICK two : Passes(two, x, seq, Late) /\ Pass(x, seq, Late) = two[n]
    <2> HIDE DEF seq, x, n
    <2> QED
      BY <1>4, <1>6, PassAt
  <1>8. two[n] \in Scalar
    BY <1>1, <1>4, <1>7 DEF Passes
  <1>9. Rewritten(v, registered) = two[n]
    BY <1>5, <1>7, SessionAssumption DEF Rewritten
  <1> DEFINE D == {} \cup Active(q, registered, early, n)
             E == D \cup Active(q, registered, Late, n)
  <1>10. Makes(registered, v, D, x)
    <2>1. Makes(registered, v, {}, v)
      BY MakesNothing
    <2>2. Passes(one, v, [i \in 1..n |-> registered[q[i]]], early)
      BY <1>2, <1>5
    <2> HIDE DEF n
    <2> QED
      BY <1>2, <2>1, <2>2, PassMakes DEF n
  <1>11. Makes(registered, v, E, two[n])
    <2>1. ASSUME NEW d \in D, NEW i \in 1..n, registered[q[i]].transformer \in Late
          PROVE  Precedes(registered[d], registered[q[i]])
      <3>1. ~IsLate(registered[d])
        BY DEF Active, IsLate
      <3> QED
        BY <2>1, <3>1 DEF Precedes, IsLate
    <2>2. Passes(two, x, [i \in 1..n |-> registered[q[i]]], Late)
      BY <1>2, <1>7
    <2> HIDE DEF D, x, n
    <2> QED
      BY <1>2, <1>10, <2>1, <2>2, PassMakes DEF n
  <1>12. E = 1..n
    <2>1. ASSUME NEW d \in 1..n PROVE d \in E
      <3>1. PICK i \in 1..n : q[i] = d
        BY <1>2 DEF Puts
      <3>2. registered[d].transformer \in early \cup Late
        BY <1>3, <3>1 DEF Registration
      <3> QED
        BY <3>1, <3>2 DEF Active
    <2>2. ASSUME NEW d \in E PROVE d \in 1..n
      BY <1>3 DEF Active
    <2> QED
      BY <2>1, <2>2
  <1>13. Makes(registered, v, 1..n, two[n])
    <2> HIDE DEF E
    <2> QED
      BY <1>11, <1>12
  <1> QED
    BY <1>8, <1>9, <1>13, MakesPromised

-----------------------------------------------------------------------------
(* The promised order is only one. *)

LEMMA PrecedesOrder ==
    ASSUME NEW registered, Ordered(registered),
           NEW i \in 1..Len(registered), NEW j \in 1..Len(registered),
           NEW k \in 1..Len(registered)
    PROVE  /\ ~Precedes(registered[i], registered[i])
           /\ ~(Precedes(registered[i], registered[j]) /\ Precedes(registered[j], registered[i]))
           /\ Precedes(registered[i], registered[j]) /\ Precedes(registered[j], registered[k])
              => Precedes(registered[i], registered[k])
  <1> DEFINE r(x) == registered[x]
  <1>1. \A x, y \in 1..Len(registered) :
           Precedes(r(x), r(y)) <=>
              \/ ~IsLate(r(x)) /\ IsLate(r(y))
              \/ (IsLate(r(x)) <=> IsLate(r(y))) /\ RunsBefore(r(x), r(y))
    BY DEF Precedes, RunsBefore
  <1>2. /\ ~RunsBefore(r(i), r(i))
        /\ RunsBefore(r(i), r(j)) /\ RunsBefore(r(j), r(k)) => RunsBefore(r(i), r(k))
        /\ RunsBefore(r(i), r(j)) /\ RunsBefore(r(j), r(i)) => RunsBefore(r(i), r(i))
    BY RunsBeforeOrder
  <1> HIDE DEF r
  <1>3. /\ ~Precedes(r(i), r(i))
        /\ ~(Precedes(r(i), r(j)) /\ Precedes(r(j), r(i)))
        /\ Precedes(r(i), r(j)) /\ Precedes(r(j), r(k)) => Precedes(r(i), r(k))
    BY <1>1, <1>2
  <1> QED
    BY <1>3 DEF r

\* q is in the promised order.
Keeps(q, registered, n) ==
    /\ q \in [1..n -> 1..n]
    /\ \A i \in 1..n-1 : Precedes(registered[q[i]], registered[q[i+1]])

Arranges(q, registered, n) ==
    /\ \A i, j \in 1..n : i < j => Precedes(registered[q[i]], registered[q[j]])
    /\ \A i, j \in 1..n : q[i] = q[j] => i = j
    /\ \A k \in 1..n : \E i \in 1..n : q[i] = k

LEMMA KeepsAll ==
    ASSUME NEW registered, Ordered(registered), NEW n, n = Len(registered),
           NEW q, Keeps(q, registered, n)
    PROVE  Arranges(q, registered, n)
  <1> DEFINE S == {j \in 0..n :
                     \A i \in 1..n : i < j => Precedes(registered[q[i]], registered[q[j]])}
  <1>0. n \in Nat /\ q \in [1..n -> 1..n]
    BY DEF Ordered, Keeps
  <1>1. 0 \in S
    BY <1>0
  <1>2. ASSUME NEW j \in 0..n-1, j \in S PROVE j + 1 \in S
    <2>1. j + 1 \in 0..n
      BY <1>0
    <2>2. ASSUME NEW i \in 1..n, i < j + 1 PROVE Precedes(registered[q[i]], registered[q[j+1]])
      <3>1. j \in 1..n-1 /\ j \in 1..n /\ j + 1 \in 1..n
        BY <1>0, <2>2
      <3>2. Precedes(registered[q[j]], registered[q[j+1]])
        BY <3>1 DEF Keeps
      <3>3. CASE i = j
        BY <3>2, <3>3
      <3>4. CASE i < j
        <4>1. Precedes(registered[q[i]], registered[q[j]])
          BY <1>2, <3>4
        <4>2. q[i] \in 1..n /\ q[j] \in 1..n /\ q[j+1] \in 1..n
          BY <1>0, <3>1
        <4> QED
          BY <3>2, <4>1, <4>2, PrecedesOrder
      <3> QED
        BY <2>2, <3>3, <3>4
    <2> QED
      BY <2>1, <2>2
  <1>3. 0..n \subseteq S
    <2> HIDE DEF S
    <2> QED
      BY <1>0, <1>1, <1>2, UpTo
  <1>4. ASSUME NEW i \in 1..n, NEW j \in 1..n, i < j
        PROVE  Precedes(registered[q[i]], registered[q[j]])
    <2>1. j \in S
      BY <1>0, <1>3
    <2> QED
      BY <1>4, <2>1
  <1>5. ASSUME NEW i \in 1..n, NEW j \in 1..n, q[i] = q[j] PROVE i = j
    <2>1. q[i] \in 1..n /\ ~Precedes(registered[q[i]], registered[q[j]])
          /\ ~Precedes(registered[q[j]], registered[q[i]])
      BY <1>0, <1>5, PrecedesOrder
    <2> QED
      BY <1>4, <2>1
  <1>6. \A k \in 1..n : \E i \in 1..n : q[i] = k
    <2>1. q \in Injection(1..n, 1..n)
      BY <1>0, <1>5 DEF Injection, IsInjective
    <2>2. q \in Surjection(1..n, 1..n)
      BY <1>0, <2>1, Counting, FS_Injection
    <2> QED
      BY <2>2 DEF Surjection
  <1> QED
    BY <1>4, <1>5, <1>6 DEF Arranges

LEMMA KeepsOnce ==
    ASSUME NEW registered, Ordered(registered), NEW n, n = Len(registered),
           NEW p, Keeps(p, registered, n), NEW q, Keeps(q, registered, n)
    PROVE  p = q
  <1> DEFINE T == {i \in 1..n : p[i] # q[i]}
  <1>0. n \in Nat /\ p \in [1..n -> 1..n] /\ q \in [1..n -> 1..n]
    BY DEF Ordered, Keeps
  <1>1. Arranges(p, registered, n) /\ Arranges(q, registered, n)
    BY KeepsAll
  <1>2. ASSUME T # {} PROVE FALSE
    <2>1. PICK i \in T : \A j \in T : i <= j
      <3>1. T \in SUBSET Nat
        BY <1>0
      <3> HIDE DEF T
      <3> QED
        BY <1>2, <3>1, LeastNumber
    <2>2. \A j \in 1..n : j < i => p[j] = q[j]
      BY <1>0, <2>1
    <2>3. PICK j \in 1..n : q[j] = p[i]
      BY <1>0, <1>1 DEF Arranges
    <2>4. PICK k \in 1..n : p[k] = q[i]
      BY <1>0, <1>1 DEF Arranges
    <2>5. j > i /\ k > i
      <3>1. j # i /\ k # i
        BY <2>1, <2>3, <2>4
      <3>2. ~(j < i)
        BY <2>2, <2>3, <3>1, <1>1 DEF Arranges
      <3>3. ~(k < i)
        BY <2>2, <2>4, <3>1, <1>1 DEF Arranges
      <3> QED
        BY <1>0, <3>1, <3>2, <3>3
    <2>6. Precedes(registered[q[i]], registered[p[i]])
      BY <2>3, <2>5, <1>1 DEF Arranges
    <2>7. Precedes(registered[p[i]], registered[q[i]])
      BY <2>4, <2>5, <1>1 DEF Arranges
    <2>8. p[i] \in 1..n /\ q[i] \in 1..n
      BY <1>0
    <2> QED
      BY <2>6, <2>7, <2>8, PrecedesOrder
  <1>3. \A i \in 1..n : p[i] = q[i]
    BY <1>2
  <1> QED
    BY <1>0, <1>3

LEMMA PromisedOnce ==
    ASSUME NEW registered, Ordered(registered), NEW v, NEW w, NEW x,
           Promised(v, w, registered), Promised(v, x, registered)
    PROVE  w = x
  <1> DEFINE n == Len(registered)
             From(q, chain, y) ==
                /\ chain[0] = v /\ chain[n] = y
                /\ \A i \in 1..n :
                      chain[i] = Rewrite[registered[q[i]].transformer][chain[i-1]]
  <1>0. n \in Nat
    BY DEF Ordered
  <1>1. PICK p \in [1..n -> 1..n], c \in [0..n -> Scalar] :
           Keeps(p, registered, n) /\ From(p, c, w)
    BY DEF Promised, Keeps
  <1>2. PICK q \in [1..n -> 1..n], d \in [0..n -> Scalar] :
           Keeps(q, registered, n) /\ From(q, d, x)
    BY DEF Promised, Keeps
  <1>3. p = q
    BY <1>1, <1>2, KeepsOnce
  <1> DEFINE S == {i \in 0..n : c[i] = d[i]}
  <1>4. 0 \in S
    BY <1>0, <1>1, <1>2
  <1>5. ASSUME NEW i \in 0..n-1, i \in S PROVE i + 1 \in S
    <2>1. i + 1 \in 1..n /\ (i + 1) - 1 = i
      BY <1>0
    <2>2. c[i+1] = Rewrite[registered[p[i+1]].transformer][c[i]]
      BY <1>1, <2>1
    <2>3. d[i+1] = Rewrite[registered[p[i+1]].transformer][d[i]]
      BY <1>2, <1>3, <2>1
    <2> QED
      BY <1>5, <2>1, <2>2, <2>3
  <1>6. n \in S
    <2> HIDE DEF S, n
    <2>1. 0..n \subseteq S
      BY <1>0, <1>4, <1>5, UpTo
    <2> QED
      BY <1>0, <2>1
  <1> QED
    BY <1>1, <1>2, <1>6

\* What transform makes of a scalar is what the documentation promises, and that is
\* one value.
LEMMA RewrittenExact ==
    ASSUME NEW registered, Ordered(registered), NEW v \in Scalar, NEW w
    PROVE  Promised(v, w, registered) <=> w = Rewritten(v, registered)
  BY RewrittenPromised, PromisedOnce

-----------------------------------------------------------------------------
(* The comparison. *)

LEMMA ToSetAppend ==
    ASSUME NEW S, NEW t \in Seq(S), NEW x \in S
    PROVE  ToSet(Append(t, x)) = ToSet(t) \cup {x}
  <1> DEFINE u == Append(t, x)
             n == Len(t)
  <1>1. /\ n \in Nat /\ DOMAIN t = 1..n /\ DOMAIN u = 1..n+1
        /\ \A i \in 1..n : u[i] = t[i]
        /\ u[n+1] = x
    OBVIOUS
  <1>2. 1..n+1 = 1..n \cup {n+1}
    BY <1>1
  <1> HIDE DEF u, n
  <1>3. ToSet(u) = {u[i] : i \in 1..n+1} /\ ToSet(t) = {t[i] : i \in 1..n}
    BY <1>1 DEF ToSet
  <1>4. ToSet(u) = ToSet(t) \cup {x}
    BY <1>1, <1>2, <1>3
  <1> QED
    BY <1>4 DEF u

\* What Selected returns are the keys in known, and nothing else.
LEMMA SelectedAt ==
    ASSUME NEW keys \in Seq(Key), NEW known
    PROVE  /\ Selected(keys, known) \in Seq(Key)
           /\ \A k \in Key : k \in ToSet(Selected(keys, known)) <=> k \in ToSet(keys) \cap known
  <1> DEFINE n == Len(keys)
             Next1(i, t) == IF keys[i] \in known THEN Append(t, keys[i]) ELSE t
             step == [p \in (1..n) \X Seq(Key) |-> Next1(p[1], p[2])]
             F(h) == [i \in 0..n |->
                        IF i = 0 THEN <<>>
                        ELSE IF keys[i] \in known THEN Append(h[i-1], keys[i])
                        ELSE h[i-1]]
             taken == CHOOSE h : h = F(h)
  <1>1. n \in Nat /\ <<>> \in Seq(Key)
    OBVIOUS
  <1>2. step \in [(1..n) \X Seq(Key) -> Seq(Key)]
    OBVIOUS
  <1>3. PICK g \in [0..n -> Seq(Key)] :
            g[0] = <<>> /\ \A i \in 1..n : g[i] = step[<<i, g[i-1]>>]
    <2> HIDE DEF n, step
    <2>1. HasFunction(n, Seq(Key), <<>>, step)
      BY <1>1, <1>2, LoopFunction
    <2> QED
      BY <2>1 DEF HasFunction
  <1>4. ASSUME NEW i \in 1..n PROVE g[i] = Next1(i, g[i-1])
    <2>0. i-1 \in 0..n
      BY <1>1
    <2>1. g[i-1] \in Seq(Key)
      BY <2>0
    <2> QED
      BY <1>3, <2>1
  <1>5. g = F(g)
    <2>1. ASSUME NEW i \in 0..n PROVE g[i] = F(g)[i]
      <3>1. CASE i = 0
        BY <1>3, <3>1
      <3>2. CASE i \in 1..n
        <4>1. i # 0 /\ i \in 0..n
          BY <3>2, <1>1
        <4>2. F(g)[i] = Next1(i, g[i-1])
          BY <4>1
        <4> QED
          BY <1>4, <3>2, <4>2
      <3> QED
        BY <1>1, <3>1, <3>2
    <2>2. g = [i \in 0..n |-> g[i]] /\ F(g) = [i \in 0..n |-> F(g)[i]]
      OBVIOUS
    <2> HIDE DEF F
    <2> QED
      BY <2>1, <2>2
  <1>6. taken = F(taken)
    <2> HIDE DEF F
    <2> QED
      BY <1>5
  <1>7. Selected(keys, known) = taken[n]
    BY DEF Selected
  <1> HIDE DEF taken
  <1>8. taken[0] = <<>> /\ \A i \in 1..n : taken[i] = Next1(i, taken[i-1])
    <2>1. \A i \in 0..n : taken[i] = F(taken)[i]
      BY <1>6
    <2>2. taken[0] = <<>>
      BY <1>1, <2>1
    <2>3. ASSUME NEW i \in 1..n PROVE taken[i] = Next1(i, taken[i-1])
      <3>1. i \in 0..n /\ i # 0
        BY <1>1
      <3> QED
        BY <2>1, <3>1
    <2> QED
      BY <2>2, <2>3
  <1> DEFINE Taken(i, k) == \E j \in 1..i : k = keys[j] /\ k \in known
             S == {i \in 0..n : /\ taken[i] \in Seq(Key)
                                /\ \A k \in Key : k \in ToSet(taken[i]) <=> Taken(i, k)}
  <1>9. 0 \in S
    <2>1. ToSet(<<>>) = {}
      BY DEF ToSet
    <2>2. \A k \in Key : ~Taken(0, k)
      OBVIOUS
    <2>3. taken[0] \in Seq(Key) /\ \A k \in Key : k \in ToSet(taken[0]) <=> Taken(0, k)
      <3> HIDE DEF Taken
      <3> QED
        BY <1>1, <1>8, <2>1, <2>2
    <2>4. 0 \in 0..n
      BY <1>1
    <2> HIDE DEF Taken, n
    <2> QED
      BY <2>3, <2>4
  <1>10. ASSUME NEW i \in 0..n-1, i \in S PROVE i + 1 \in S
    <2>1. i + 1 \in 1..n /\ i + 1 \in 0..n /\ (i + 1) - 1 = i /\ 1..i+1 = 1..i \cup {i+1}
      BY <1>1
    <2> DEFINE t == taken[i]
               key == keys[i+1]
    <2>2. taken[i+1] = Next1(i+1, t)
      BY <1>8, <2>1
    <2>3. t \in Seq(Key) /\ key \in Key
      BY <1>10, <2>1
    <2>4. \A k \in Key : k \in ToSet(t) <=> Taken(i, k)
      BY <1>10
    <2>5. \A k \in Key : Taken(i+1, k) <=> Taken(i, k) \/ (k = key /\ k \in known)
      BY <2>1
    <2>6. CASE key \notin known
      <3>1. taken[i+1] = t
        BY <2>2, <2>6
      <3> HIDE DEF t, Taken
      <3> QED
        BY <2>1, <2>3, <2>4, <2>5, <2>6, <3>1
    <2>7. CASE key \in known
      <3>1. taken[i+1] = Append(t, key)
        BY <2>2, <2>7
      <3> HIDE DEF t, Taken, key
      <3>2. Append(t, key) \in Seq(Key)
        BY <2>3
      <3>3. ToSet(Append(t, key)) = ToSet(t) \cup {key}
        BY <2>3, ToSetAppend
      <3> QED
        BY <2>1, <2>4, <2>5, <2>7, <3>1, <3>2, <3>3
    <2> QED
      BY <2>6, <2>7
  <1>11. n \in S
    <2> HIDE DEF S, n
    <2>1. 0..n \subseteq S
      BY <1>1, <1>9, <1>10, UpTo
    <2> QED
      BY <1>1, <2>1
  <1>12. \A k \in Key : Taken(n, k) <=> k \in ToSet(keys) \cap known
    BY DEF ToSet
  <1> QED
    BY <1>7, <1>11, <1>12

-----------------------------------------------------------------------------
(* The outcome of a session: the invariant. *)

\* The errors that only finish reports.
FinishKinds == {"path", "raw", "transform", "write", "parity", "missing", "empty"}

Unreported(s, kinds) == \A kind \in kinds : kind \notin Kinds(s)

\* Every session has its variables.
Whole ==
    /\ phase = [s \in Session |-> phase[s]] /\ config = [s \in Session |-> config[s]]
    /\ observed = [s \in Session |-> observed[s]]
    /\ recorded = [s \in Session |-> recorded[s]]
    /\ skipPaths = [s \in Session |-> skipPaths[s]]
    /\ verifyDisabled = [s \in Session |-> verifyDisabled[s]]
    /\ done = [s \in Session |-> done[s]] /\ ended = [s \in Session |-> ended[s]]
    /\ DOMAIN calledKeys = Session /\ DOMAIN transformers = Session
    /\ DOMAIN results = Session /\ DOMAIN errors = Session /\ DOMAIN final = Session
    /\ DOMAIN rawSaved = Session /\ DOMAIN saved = Session

\* The types, per session.
TypeInv(s) ==
    /\ phase[s] \in {"new", "open", "raw", "transform", "save", "compare"}
    /\ config[s] \in Config
    /\ calledKeys[s] \in Seq(Key) /\ IsInjective(calledKeys[s])
    /\ Ordered(transformers[s])
    /\ observed[s] \in State /\ recorded[s] \in State
    /\ skipPaths[s] \in SUBSET SkipPath
    /\ verifyDisabled[s] \in BOOLEAN /\ done[s] \in BOOLEAN /\ ended[s] \in BOOLEAN
    /\ \A i \in DOMAIN results[s] :
          results[s][i] \in [key : Key, expected : Doc, actual : Doc]
    /\ Entry(rawSaved[s]) /\ Entry(saved[s])

\* The called keys are those with a value.
CallsInv(s) ==
    /\ ~done[s] => \A k \in Key : k \in Called(s) <=> observed[s][k] # NoDoc
    /\ done[s] =>
          /\ final[s].called \in Seq(Key)
          /\ final[s].observed \in State /\ final[s].recorded \in State
          /\ final[s].transformers = transformers[s]
          /\ final[s].skipPaths = skipPaths[s]
          /\ final[s].verifyDisabled = verifyDisabled[s]
          /\ \A k \in Key : k \in ToSet(final[s].called) <=> final[s].observed[k] # NoDoc

\* The recording that a session compares with.
Expected(s) == RemoveSkipped(final[s].recorded, skipPaths[s])

\* What it compares.
Actual(s) == Transformed(RemoveSkipped(final[s].observed, skipPaths[s]), transformers[s])

\* What it records.
Recording(s) == Transformed(final[s].observed, transformers[s])

\* Until finish returns there is no outcome.
PhaseInv(s) ==
    /\ ~done[s] => phase[s] \in {"new", "open"}
    /\ phase[s] = "new" => ~done[s] /\ calledKeys[s] = <<>>
    /\ ~done[s] \/ phase[s] \in Underway =>
          results[s] = <<>> /\ saved[s] = NoDoc /\ Unreported(s, FinishKinds)
    /\ phase[s] \in Underway =>
          /\ calledKeys[s] = final[s].called
          /\ final[s].observed # Empty
          /\ ~config[s].update => recorded[s] = Expected(s)
    /\ phase[s] \in {"raw", "transform"} => observed[s] = final[s].observed
    /\ phase[s] = "save" => config[s].update /\ observed[s] = Recording(s)
    /\ phase[s] = "compare" => ~config[s].update /\ observed[s] = Actual(s)

\* A recording is everything, or nothing.
RecordInv(s) ==
    Finished(s) /\ config[s].update =>
        IF Unreported(s, {"raw", "transform", "write"}) /\ final[s].observed # Empty
        THEN saved[s] = Recording(s)
        ELSE saved[s] = NoDoc

\* The verdict on a key.
KeyVerdict(s, k) ==
    LET known == Expected(s)[k] # NoDoc
    IN  /\ known <=> \E i \in DOMAIN results[s] : results[s][i].key = k
        /\ <<"parity", k>> \in errors[s] <=> known /\ Expected(s)[k] # Actual(s)[k]
        /\ ~known <=> <<"missing", k>> \in errors[s] \/ ~Unreported(s, {"empty"})

\* The verdict.
VerdictInv(s) ==
    Finished(s) /\ ~config[s].update =>
        /\ saved[s] = NoDoc
        /\ Off(s) => results[s] = <<>> /\ Unreported(s, {"parity", "missing", "empty"})
        /\ ~Off(s) /\ Unreported(s, {"path", "raw", "transform"}) =>
              \A k \in ToSet(final[s].called) : KeyVerdict(s, k)

Local(s) ==
    TypeInv(s) /\ CallsInv(s) /\ PhaseInv(s) /\ RecordInv(s) /\ VerdictInv(s)

OutcomeInv == Whole /\ \A s \in Session : Local(s)

-----------------------------------------------------------------------------
(* A step concerns one session. *)

Same(x) ==
    /\ phase'[x] = phase[x] /\ config'[x] = config[x] /\ calledKeys'[x] = calledKeys[x]
    /\ observed'[x] = observed[x] /\ recorded'[x] = recorded[x]
    /\ transformers'[x] = transformers[x] /\ skipPaths'[x] = skipPaths[x]
    /\ verifyDisabled'[x] = verifyDisabled[x] /\ results'[x] = results[x]
    /\ done'[x] = done[x] /\ errors'[x] = errors[x] /\ rawSaved'[x] = rawSaved[x]
    /\ saved'[x] = saved[x] /\ ended'[x] = ended[x] /\ final'[x] = final[x]

StepOf(s) == Whole' /\ Local(s)' /\ \A x \in Session \ {s} : Same(x)

LEMMA SameLocal ==
    ASSUME NEW x \in Session, Local(x), Same(x)
    PROVE  Local(x)'
  <1>1. TypeInv(x)'
    BY DEF Local, TypeInv, Same
  <1>2. CallsInv(x)'
    BY DEF Local, CallsInv, Same, Called
  <1>3. PhaseInv(x)'
    BY DEF Local, PhaseInv, Same, Unreported, Kinds, Expected, Actual, Recording
  <1>4. RecordInv(x)'
    BY DEF Local, RecordInv, Same, Finished, Unreported, Kinds, Recording
  <1>5. VerdictInv(x)'
    BY DEF Local, VerdictInv, Same, Finished, Unreported, Kinds, KeyVerdict, Expected,
           Actual, Off
  <1> QED
    BY <1>1, <1>2, <1>3, <1>4, <1>5 DEF Local

LEMMA StepKeeps ==
    ASSUME OutcomeInv, NEW s \in Session, StepOf(s)
    PROVE  OutcomeInv'
  <1>1. ASSUME NEW x \in Session \ {s} PROVE Local(x)'
    BY SameLocal DEF OutcomeInv, StepOf
  <1> QED
    BY <1>1 DEF OutcomeInv, StepOf

\* A value with fields is something.
LEMMA FieldsAreSomething == ASSUME NEW d \in Doc PROVE d # NoDoc
  <1>1. DOMAIN NoDoc = {} /\ Field # {} /\ DOMAIN d = Field
    BY SessionAssumption DEF NoDoc, Doc
  <1> QED
    BY <1>1

LEMMA RemovedState ==
    ASSUME NEW state \in State, NEW paths
    PROVE  RemoveSkipped(state, paths) \in State
  <1>1. ASSUME NEW k \in Key PROVE RemoveSkipped(state, paths)[k] \in Doc \cup {NoDoc}
    <2>1. state[k] \in Doc \cup {NoDoc}
      BY DEF State
    <2>2. CASE k \in paths \/ state[k] = NoDoc
      BY <2>2 DEF RemoveSkipped
    <2>3. CASE k \notin paths /\ state[k] # NoDoc
      <3>1. RemoveSkipped(state, paths)[k]
              = [f \in Field |-> IF f \in paths THEN Gone ELSE state[k][f]]
        BY <2>3 DEF RemoveSkipped
      <3>2. [f \in Field |-> IF f \in paths THEN Gone ELSE state[k][f]] \in Doc
        BY <2>1, <2>3 DEF Doc
      <3> QED
        BY <3>1, <3>2
    <2> QED
      BY <2>2, <2>3
  <1>2. RemoveSkipped(state, paths) = [k \in Key |-> RemoveSkipped(state, paths)[k]]
    BY DEF RemoveSkipped
  <1> QED
    BY <1>1, <1>2 DEF State

LEMMA TransformedState ==
    ASSUME NEW state \in State, NEW registered, Ordered(registered)
    PROVE  Transformed(state, registered) \in State
  <1>1. ASSUME NEW k \in Key PROVE Transformed(state, registered)[k] \in Doc \cup {NoDoc}
    <2>1. state[k] \in Doc \cup {NoDoc}
      BY DEF State
    <2>2. CASE state[k] = NoDoc
      BY <2>2 DEF Transformed
    <2>3. CASE state[k] # NoDoc
      <3>1. Transformed(state, registered)[k]
              = [f \in Field |-> Rewritten(state[k][f], registered)]
        BY <2>3 DEF Transformed
      <3>2. ASSUME NEW f \in Field PROVE Rewritten(state[k][f], registered) \in Scalar \cup {Gone}
        <4>1. state[k][f] \in Scalar \cup {Gone}
          BY <2>1, <2>3 DEF Doc
        <4>2. CASE state[k][f] = Gone
          BY <4>2 DEF Rewritten
        <4>3. CASE state[k][f] \in Scalar
          BY <4>3, RewrittenPromised
        <4> QED
          BY <4>1, <4>2, <4>3
      <3>3. [f \in Field |-> Rewritten(state[k][f], registered)] \in Doc
        BY <3>2 DEF Doc
      <3> QED
        BY <3>1, <3>3
    <2> QED
      BY <2>2, <2>3
  <1>2. Transformed(state, registered) = [k \in Key |-> Transformed(state, registered)[k]]
    BY DEF Transformed
  <1> QED
    BY <1>1, <1>2 DEF State

LEMMA EmptyState == Empty \in State /\ NoDoc \notin Doc
  BY FieldsAreSomething DEF Empty, State

\* The calls of a test report no error of finish.
AsBefore(s) ==
    /\ \A kind \in FinishKinds : kind \in Kinds(s)' <=> kind \in Kinds(s)
    /\ \A kind \in FinishKinds, k \in Key : <<kind, k>> \in errors'[s] <=> <<kind, k>> \in errors[s]

LEMMA FailBefore ==
    ASSUME NEW s, NEW kind, kind \notin FinishKinds, NEW keys,
           errors'[s] = errors[s] \cup {<<kind, k>> : k \in keys}
    PROVE  AsBefore(s)
  <1>1. \A e \in {<<kind, k>> : k \in keys} : e[1] = kind
    OBVIOUS
  <1>2. \A z \in FinishKinds : z \in Kinds(s)' <=> z \in Kinds(s)
    BY <1>1 DEF Kinds
  <1>3. ASSUME NEW z \in FinishKinds, NEW k \in Key
        PROVE  <<z, k>> \in errors'[s] <=> <<z, k>> \in errors[s]
    <2>1. <<z, k>>[1] = z
      OBVIOUS
    <2>2. <<z, k>> \notin {<<kind, x>> : x \in keys}
      BY <2>1, <1>1
    <2> QED
      BY <2>2
  <1> QED
    BY <1>2, <1>3 DEF AsBefore

\* finish has not returned meanwhile.
Standing(s) ==
    /\ phase'[s] = phase[s] /\ config'[s] = config[s] /\ done'[s] = done[s]
    /\ transformers'[s] = transformers[s] /\ skipPaths'[s] = skipPaths[s]
    /\ verifyDisabled'[s] = verifyDisabled[s]
    /\ results'[s] = results[s] /\ saved'[s] = saved[s] /\ final'[s] = final[s]

LEMMA StandingOutcome ==
    ASSUME NEW s \in Session, Local(s), Standing(s), AsBefore(s)
    PROVE  RecordInv(s)' /\ VerdictInv(s)'
  <1>1. \A kinds \in SUBSET FinishKinds : Unreported(s, kinds)' <=> Unreported(s, kinds)
    BY DEF Unreported, AsBefore
  <1>2. /\ Finished(s)' <=> Finished(s)
        /\ Off(s)' <=> Off(s)
        /\ Expected(s)' = Expected(s) /\ Actual(s)' = Actual(s) /\ Recording(s)' = Recording(s)
    BY DEF Standing, Finished, Off, Expected, Actual, Recording
  <1>3. /\ {"raw", "transform", "write"} \in SUBSET FinishKinds
        /\ {"parity", "missing", "empty"} \in SUBSET FinishKinds
        /\ {"path", "raw", "transform"} \in SUBSET FinishKinds
        /\ {"empty"} \in SUBSET FinishKinds
        /\ "parity" \in FinishKinds /\ "missing" \in FinishKinds
    BY DEF FinishKinds
  <1>4. RecordInv(s)'
    BY <1>1, <1>2, <1>3 DEF Local, RecordInv, Standing
  <1>5. ASSUME NEW k \in Key, KeyVerdict(s, k) PROVE KeyVerdict(s, k)'
    BY <1>1, <1>2, <1>3, <1>5 DEF KeyVerdict, Standing, AsBefore
  <1>6. VerdictInv(s)'
    <2> SUFFICES ASSUME Finished(s)', ~config'[s].update PROVE
            /\ saved'[s] = NoDoc
            /\ Off(s)' => results'[s] = <<>> /\ Unreported(s, {"parity", "missing", "empty"})'
            /\ ~Off(s)' /\ Unreported(s, {"path", "raw", "transform"})' =>
                  \A k \in ToSet(final'[s].called) : KeyVerdict(s, k)'
      BY DEF VerdictInv
    <2>1. Finished(s) /\ ~config[s].update
      BY <1>2 DEF Standing
    <2>2. /\ saved[s] = NoDoc
          /\ Off(s) => results[s] = <<>> /\ Unreported(s, {"parity", "missing", "empty"})
          /\ ~Off(s) /\ Unreported(s, {"path", "raw", "transform"}) =>
                \A k \in ToSet(final[s].called) : KeyVerdict(s, k)
      BY <2>1 DEF Local, VerdictInv
    <2>3. \A k \in ToSet(final[s].called) : k \in Key
      BY <2>1 DEF Local, CallsInv, Finished, ToSet
    <2> QED
      BY <1>1, <1>2, <1>3, <1>5, <2>2, <2>3 DEF Standing
  <1> QED
    BY <1>4, <1>6

-----------------------------------------------------------------------------
(* The calls of the test. *)

LEMMA NewStarts ==
    ASSUME OutcomeInv, NEW s \in Session, NEW cfg \in Configs, NEW recording \in State,
           NEW failed \in BOOLEAN, New(s, cfg, recording, failed)
    PROVE  StepOf(s)
  <1>1. Whole' /\ \A x \in Session \ {s} : Same(x)
    BY DEF OutcomeInv, Whole, New, Fail, calls, Same
  <1>2. /\ phase[s] = "new" /\ phase'[s] = "open" /\ config'[s] = cfg
        /\ recorded'[s] = recording
        /\ calledKeys'[s] = calledKeys[s] /\ observed'[s] = observed[s]
        /\ transformers'[s] = transformers[s] /\ skipPaths'[s] = skipPaths[s]
        /\ verifyDisabled'[s] = verifyDisabled[s] /\ results'[s] = results[s]
        /\ done'[s] = done[s] /\ rawSaved'[s] = rawSaved[s] /\ saved'[s] = saved[s]
        /\ ended'[s] = ended[s] /\ final'[s] = final[s]
    BY DEF OutcomeInv, Whole, New, calls
  <1>3. AsBefore(s)
    <2>1. errors'[s] = errors[s] \cup {<<"load", k>> : k \in IF failed THEN {NoDoc} ELSE {}}
      BY DEF OutcomeInv, Whole, New, Fail
    <2>2. "load" \notin FinishKinds
      BY DEF FinishKinds
    <2> QED
      BY <2>1, <2>2, FailBefore
  <1>4. ~done[s] /\ Local(s)
    BY <1>2 DEF OutcomeInv, Local, PhaseInv
  <1>5. cfg \in Config
    BY SessionAssumption
  <1>6. TypeInv(s)'
    BY <1>2, <1>4, <1>5 DEF Local, TypeInv
  <1>7. CallsInv(s)'
    BY <1>2, <1>4 DEF Local, CallsInv, Called
  <1>8. PhaseInv(s)'
    BY <1>2, <1>3, <1>4 DEF Local, PhaseInv, AsBefore, Unreported, Underway
  <1>9. RecordInv(s)' /\ VerdictInv(s)'
    BY <1>2, <1>4 DEF RecordInv, VerdictInv, Finished
  <1> QED
    BY <1>1, <1>6, <1>7, <1>8, <1>9 DEF StepOf, Local

\* A call while finish is not under way: it may add a key, a transformer or paths.
LEMMA CallKeeps ==
    ASSUME NEW s \in Session, Local(s), phase[s] = "open", phase'[s] = phase[s],
           config'[s] = config[s], results'[s] = results[s], done'[s] = done[s],
           saved'[s] = saved[s], final'[s] = final[s],
           TypeInv(s)', CallsInv(s)', AsBefore(s),
           done[s] => /\ transformers'[s] = transformers[s] /\ skipPaths'[s] = skipPaths[s]
                      /\ verifyDisabled'[s] = verifyDisabled[s]
    PROVE  Local(s)'
  <1>1. PhaseInv(s)'
    BY DEF Local, PhaseInv, AsBefore, Unreported, Underway
  <1>2. RecordInv(s)' /\ VerdictInv(s)'
    <2>1. CASE done[s]
      BY <2>1, StandingOutcome DEF Standing
    <2>2. CASE ~done[s]
      BY <2>2 DEF RecordInv, VerdictInv, Finished
    <2> QED
      BY <2>1, <2>2
  <1> QED
    BY <1>1, <1>2 DEF Local

LEMMA MatchKeeps ==
    ASSUME OutcomeInv, NEW s \in Session, NEW key \in Key, NEW doc \in Docs,
           Match(s, key, doc)
    PROVE  StepOf(s)
  <1>1. Whole' /\ \A x \in Session \ {s} : Same(x)
    BY DEF OutcomeInv, Whole, Match, Fail, outcome, Same
  <1>2. /\ phase[s] = "open" /\ phase'[s] = phase[s] /\ config'[s] = config[s]
        /\ recorded'[s] = recorded[s]
        /\ transformers'[s] = transformers[s] /\ skipPaths'[s] = skipPaths[s]
        /\ verifyDisabled'[s] = verifyDisabled[s] /\ results'[s] = results[s]
        /\ done'[s] = done[s] /\ rawSaved'[s] = rawSaved[s] /\ saved'[s] = saved[s]
        /\ ended'[s] = ended[s] /\ final'[s] = final[s]
    BY DEF OutcomeInv, Whole, Match, outcome
  <1>3. Local(s)
    BY DEF OutcomeInv
  <1>4. CASE key \in Called(s)
    <2>1. calledKeys'[s] = calledKeys[s] /\ observed'[s] = observed[s]
      BY <1>4 DEF Match
    <2>2. AsBefore(s)
      <3>1. errors'[s] = errors[s] \cup {<<"duplicate", k>> : k \in {key}}
        BY <1>4 DEF OutcomeInv, Whole, Match, Fail
      <3>2. "duplicate" \notin FinishKinds
        BY DEF FinishKinds
      <3> QED
        BY <3>1, <3>2, FailBefore
    <2>3. TypeInv(s)'
      BY <1>2, <1>3, <2>1 DEF Local, TypeInv
    <2>4. CallsInv(s)'
      BY <1>2, <1>3, <2>1 DEF Local, CallsInv, Called
    <2> QED
      BY <1>1, <1>2, <1>3, <2>2, <2>3, <2>4, CallKeeps DEF StepOf
  <1>5. CASE key \notin Called(s)
    <2>1. /\ calledKeys'[s] = Append(calledKeys[s], key)
          /\ observed'[s] = [observed[s] EXCEPT ![key] = doc]
      BY <1>5 DEF Match, OutcomeInv, Whole
    <2>2. AsBefore(s)
      <3> DEFINE keys == IF ~config[s].update /\ recorded[s][key] = NoDoc THEN {key} ELSE {}
      <3>1. errors'[s] = errors[s] \cup {<<"unrecorded", k>> : k \in keys}
        BY <1>5 DEF OutcomeInv, Whole, Match, Fail
      <3>2. "unrecorded" \notin FinishKinds
        BY DEF FinishKinds
      <3> HIDE DEF keys
      <3> QED
        BY <3>1, <3>2, FailBefore
    <2>3. doc \in Doc /\ doc # NoDoc
      BY SessionAssumption, FieldsAreSomething
    <2>4. calledKeys[s] \in Seq(Key) /\ IsInjective(calledKeys[s]) /\ observed[s] \in State
      BY <1>3 DEF Local, TypeInv
    <2>5. calledKeys'[s] \in Seq(Key) /\ IsInjective(calledKeys'[s])
      <3>1. \A i \in 1..Len(calledKeys[s]) : calledKeys[s][i] # key
        BY <1>5, <2>4 DEF Called, ToSet
      <3> QED
        BY <2>1, <2>4, <3>1 DEF IsInjective
    <2>6. observed'[s] \in State
      BY <2>1, <2>3, <2>4 DEF State
    <2>7. TypeInv(s)'
      BY <1>2, <1>3, <2>5, <2>6 DEF Local, TypeInv
    <2>8. CallsInv(s)'
      <3>1. ToSet(calledKeys'[s]) = ToSet(calledKeys[s]) \cup {key}
        BY <2>1, <2>4, ToSetAppend
      <3>2. \A k \in Key : observed'[s][k] = IF k = key THEN doc ELSE observed[s][k]
        BY <2>1, <2>4 DEF State
      <3> QED
        BY <1>2, <1>3, <2>3, <3>1, <3>2 DEF Local, CallsInv, Called
    <2> QED
      BY <1>1, <1>2, <1>3, <2>2, <2>7, <2>8, CallKeeps DEF StepOf
  <1> QED
    BY <1>4, <1>5

LEMMA SettingKeeps ==
    ASSUME OutcomeInv, NEW s \in Session, ~done[s],
           \/ \E t \in Transformer, prio \in Priorities : AddTransformer(s, t, prio)
           \/ SkipVerify(s)
           \/ \E paths \in PathSets : SkipVerifyPaths(s, paths)
    PROVE  StepOf(s)
  <1>1. Whole' /\ \A x \in Session \ {s} : Same(x)
    BY DEF OutcomeInv, Whole, AddTransformer, SkipVerify, SkipVerifyPaths, outcome, Same
  <1>2. /\ phase[s] = "open" /\ phase'[s] = phase[s] /\ config'[s] = config[s]
        /\ recorded'[s] = recorded[s] /\ errors'[s] = errors[s]
        /\ calledKeys'[s] = calledKeys[s] /\ observed'[s] = observed[s]
        /\ results'[s] = results[s]
        /\ done'[s] = done[s] /\ rawSaved'[s] = rawSaved[s] /\ saved'[s] = saved[s]
        /\ ended'[s] = ended[s] /\ final'[s] = final[s]
    BY DEF AddTransformer, SkipVerify, SkipVerifyPaths, outcome
  <1>3. Local(s)
    BY DEF OutcomeInv
  <1>4. AsBefore(s)
    BY <1>2 DEF AsBefore, Kinds
  <1>5. CallsInv(s)'
    BY <1>2, <1>3 DEF Local, CallsInv, Called
  <1>6. ASSUME NEW t \in Transformer, NEW prio \in Priorities, AddTransformer(s, t, prio)
        PROVE  TypeInv(s)'
    <2> DEFINE r == [transformer |-> t, priority |-> prio, order |-> Len(transformers[s])]
    <2>1. /\ transformers'[s] = Append(transformers[s], r)
          /\ skipPaths'[s] = skipPaths[s] /\ verifyDisabled'[s] = verifyDisabled[s]
      BY <1>6 DEF AddTransformer, OutcomeInv, Whole
    <2>2. Ordered(transformers[s])
      BY <1>3 DEF Local, TypeInv
    <2>3. r \in Registration /\ r.order = Len(transformers[s])
      BY <2>2 DEF Registration, Ordered
    <2>4. Ordered(transformers'[s])
      <3> HIDE DEF r
      <3> QED
        BY <2>1, <2>2, <2>3 DEF Ordered
    <2> QED
      BY <1>2, <1>3, <2>1, <2>4 DEF Local, TypeInv
  <1>7. ASSUME SkipVerify(s) PROVE TypeInv(s)'
    <2>1. /\ transformers'[s] = transformers[s] /\ skipPaths'[s] = skipPaths[s]
          /\ verifyDisabled'[s] = TRUE
      BY <1>7 DEF SkipVerify, OutcomeInv, Whole
    <2> QED
      BY <1>2, <1>3, <2>1 DEF Local, TypeInv
  <1>8. ASSUME NEW paths \in PathSets, SkipVerifyPaths(s, paths) PROVE TypeInv(s)'
    <2>1. /\ transformers'[s] = transformers[s] /\ verifyDisabled'[s] = verifyDisabled[s]
          /\ skipPaths'[s] = skipPaths[s] \cup paths
      BY <1>8 DEF SkipVerifyPaths, OutcomeInv, Whole
    <2>2. paths \in SUBSET SkipPath
      BY SessionAssumption
    <2> QED
      BY <1>2, <1>3, <2>1, <2>2 DEF Local, TypeInv
  <1>9. TypeInv(s)'
    BY <1>6, <1>7, <1>8
  <1> QED
    BY <1>1, <1>2, <1>3, <1>4, <1>5, <1>9, CallKeeps DEF StepOf

-----------------------------------------------------------------------------
(* finish. *)

\* What an error of finish means.
LEMMA FailNow ==
    ASSUME NEW s, NEW kind, NEW x, errors'[s] = errors[s] \cup {<<kind, k>> : k \in {x}}
    PROVE  /\ kind \in Kinds(s)'
           /\ \A z : z # kind => (z \in Kinds(s)' <=> z \in Kinds(s))
  <1>1. errors'[s] = errors[s] \cup {<<kind, x>>}
    OBVIOUS
  <1>2. <<kind, x>>[1] = kind
    OBVIOUS
  <1> QED
    BY <1>1, <1>2 DEF Kinds

\* finish has run before, so that it does nothing.
LEMMA AgainKeeps ==
    ASSUME OutcomeInv, NEW s \in Session, done[s], phase[s] = "open", Begin(s),
           ended' = ended \/ ended' = [ended EXCEPT ![s] = TRUE]
    PROVE  StepOf(s)
  <1>1. UNCHANGED <<phase, config, calls, outcome, done, errors, final>>
    BY DEF Begin
  <1>2. Whole' /\ \A x \in Session \ {s} : Same(x)
    BY <1>1 DEF OutcomeInv, Whole, calls, outcome, Same
  <1>3. Local(s) /\ ended'[s] \in BOOLEAN
    BY DEF OutcomeInv, Local, TypeInv, Whole
  <1>4. AsBefore(s)
    BY <1>1 DEF AsBefore, Kinds
  <1>5. TypeInv(s)' /\ CallsInv(s)'
    BY <1>1, <1>3 DEF Local, TypeInv, CallsInv, Called, calls, outcome
  <1> QED
    BY <1>1, <1>2, <1>3, <1>4, <1>5, CallKeeps DEF StepOf, calls, outcome

\* The history that the head of finish starts.
LEMMA HeadCalls ==
    ASSUME OutcomeInv, NEW s \in Session, ~done[s], FinishHead(s)
    PROVE  /\ CallsInv(s)'
           /\ done'[s] /\ final'[s].called = calledKeys[s] /\ final'[s].observed = observed[s]
           /\ final'[s].recorded = recorded[s]
  <1>1. /\ done'[s] = TRUE
        /\ final'[s] = [called |-> calledKeys[s], observed |-> observed[s],
                        recorded |-> recorded[s], transformers |-> transformers[s],
                        skipPaths |-> skipPaths[s], verifyDisabled |-> verifyDisabled[s]]
        /\ calledKeys'[s] = calledKeys[s] /\ observed'[s] = observed[s]
        /\ transformers'[s] = transformers[s] /\ skipPaths'[s] = skipPaths[s]
        /\ verifyDisabled'[s] = verifyDisabled[s]
    BY DEF FinishHead, OutcomeInv, Whole, calls
  <1>2. /\ calledKeys[s] \in Seq(Key) /\ observed[s] \in State /\ recorded[s] \in State
        /\ \A k \in Key : k \in Called(s) <=> observed[s][k] # NoDoc
    BY DEF OutcomeInv, Local, TypeInv, CallsInv
  <1> QED
    BY <1>1, <1>2 DEF CallsInv, Called

LEMMA HeadKeeps ==
    ASSUME OutcomeInv, NEW s \in Session, ~done[s], phase[s] = "open", FinishHead(s),
           ended' = ended \/ ended' = [ended EXCEPT ![s] = TRUE]
    PROVE  StepOf(s)
  <1> DEFINE broken == ~config[s].update /\ SkipError(recorded[s], skipPaths[s])
  <1>1. Whole' /\ \A x \in Session \ {s} : Same(x)
    <2>1. CASE observed[s] = Empty
      BY <2>1 DEF OutcomeInv, Whole, FinishHead, calls, Same
    <2>2. CASE observed[s] # Empty
      BY <2>2 DEF OutcomeInv, Whole, FinishHead, Fail, calls, Same
    <2> QED
      BY <2>1, <2>2
  <1>2. /\ config'[s] = config[s] /\ calledKeys'[s] = calledKeys[s]
        /\ observed'[s] = observed[s] /\ transformers'[s] = transformers[s]
        /\ skipPaths'[s] = skipPaths[s] /\ verifyDisabled'[s] = verifyDisabled[s]
        /\ results'[s] = results[s] /\ rawSaved'[s] = rawSaved[s] /\ saved'[s] = saved[s]
    BY DEF FinishHead, calls
  <1>3. Local(s) /\ ended'[s] \in BOOLEAN
    BY DEF OutcomeInv, Local, TypeInv, Whole
  <1>4. /\ CallsInv(s)' /\ done'[s] /\ final'[s].called = calledKeys[s]
        /\ final'[s].observed = observed[s] /\ final'[s].recorded = recorded[s]
    BY HeadCalls
  <1>5. results[s] = <<>> /\ saved[s] = NoDoc /\ Unreported(s, FinishKinds)
    BY <1>3 DEF Local, PhaseInv
  <1>6. CASE observed[s] = Empty
    <2>1. phase'[s] = "open" /\ recorded'[s] = recorded[s] /\ errors'[s] = errors[s]
      BY <1>6 DEF FinishHead
    <2>2. TypeInv(s)'
      BY <1>2, <1>3, <1>4, <2>1 DEF Local, TypeInv
    <2>3. PhaseInv(s)'
      BY <1>4, <2>1 DEF PhaseInv, Underway
    <2>4. RecordInv(s)'
      BY <1>2, <1>4, <1>5, <1>6 DEF RecordInv
    <2>5. \A k \in ToSet(final'[s].called) : FALSE
      BY <1>3, <1>4, <1>6 DEF Local, CallsInv, TypeInv, Called, Empty, ToSet
    <2>6. VerdictInv(s)'
      BY <1>2, <1>4, <1>5, <2>1, <2>5 DEF VerdictInv, Unreported, Kinds, FinishKinds
    <2> QED
      BY <1>1, <1>4, <2>2, <2>3, <2>4, <2>6 DEF StepOf, Local
  <1>7. CASE observed[s] # Empty /\ broken
    <2>1. /\ phase'[s] = "open" /\ recorded'[s] = RemoveSkipped(recorded[s], skipPaths[s])
          /\ errors'[s] = errors[s] \cup {<<"path", k>> : k \in {NoDoc}}
      BY <1>7 DEF FinishHead, Fail, OutcomeInv, Whole
    <2>2. TypeInv(s)'
      BY <1>2, <1>3, <1>4, <2>1, RemovedState DEF Local, TypeInv
    <2>3. PhaseInv(s)'
      BY <1>4, <2>1 DEF PhaseInv, Underway
    <2>4. RecordInv(s)'
      BY <1>2, <1>7 DEF RecordInv
    <2>5. /\ "path" \in Kinds(s)' /\ \A z \in FinishKinds : z # "path" => z \notin Kinds(s)'
      BY <1>5, <2>1, FailNow DEF Unreported
    <2>6. VerdictInv(s)'
      BY <1>2, <1>4, <1>5, <2>5 DEF VerdictInv, Unreported, FinishKinds
    <2> QED
      BY <1>1, <1>4, <2>2, <2>3, <2>4, <2>6 DEF StepOf, Local
  <1>8. CASE observed[s] # Empty /\ ~broken
    <2>1. /\ phase'[s] = IF config[s].raw THEN "raw" ELSE "transform"
          /\ recorded'[s] = IF config[s].update THEN recorded[s]
                            ELSE RemoveSkipped(recorded[s], skipPaths[s])
          /\ errors'[s] = errors[s]
      <3>1. Fail(s, "path", {})
        BY <1>8 DEF FinishHead
      <3>2. errors'[s] = errors[s] \cup {<<"path", k>> : k \in {}}
        BY <3>1 DEF Fail, OutcomeInv, Whole
      <3>3. {<<"path", k>> : k \in {}} = {}
        OBVIOUS
      <3>4. errors'[s] = errors[s]
        BY <3>2, <3>3
      <3> QED
        BY <1>8, <3>4 DEF FinishHead, OutcomeInv, Whole
    <2>2. TypeInv(s)'
      BY <1>2, <1>3, <1>4, <2>1, RemovedState DEF Local, TypeInv
    <2>3. PhaseInv(s)'
      BY <1>2, <1>4, <1>5, <1>8, <2>1 DEF PhaseInv, Underway, Unreported, Kinds, Expected
    <2>4. RecordInv(s)' /\ VerdictInv(s)'
      BY <2>1 DEF RecordInv, VerdictInv, Finished
    <2> QED
      BY <1>1, <1>4, <2>2, <2>3, <2>4 DEF StepOf, Local
  <1> QED
    BY <1>6, <1>7, <1>8

LEMMA BeginKeeps ==
    ASSUME OutcomeInv, NEW s \in Session, AssertAll(s) \/ Cleanup(s)
    PROVE  StepOf(s)
  <1>1. /\ phase[s] = "open" /\ Begin(s)
        /\ ended' = ended \/ ended' = [ended EXCEPT ![s] = TRUE]
    BY DEF AssertAll, Cleanup
  <1>2. CASE done[s]
    BY <1>1, <1>2, AgainKeeps
  <1>3. CASE ~done[s]
    <2>1. FinishHead(s)
      BY <1>1, <1>3 DEF Begin
    <2> QED
      BY <1>1, <1>3, <2>1, HeadKeeps
  <1> QED
    BY <1>2, <1>3

\* A part of finish has failed.
LEMMA AbortKeeps ==
    ASSUME OutcomeInv, NEW s \in Session, NEW kind \in {"raw", "transform", "write"},
           phase[s] \in Underway, phase'[s] = "open",
           kind = "write" => config[s].update,
           errors'[s] = errors[s] \cup {<<kind, k>> : k \in {NoDoc}},
           config'[s] = config[s], results'[s] = results[s], done'[s] = done[s],
           saved'[s] = saved[s], final'[s] = final[s], TypeInv(s)', CallsInv(s)',
           verifyDisabled'[s] = verifyDisabled[s]
    PROVE  Local(s)'
  <1>1. results[s] = <<>> /\ saved[s] = NoDoc /\ Unreported(s, FinishKinds) /\ done[s]
    BY DEF OutcomeInv, Local, PhaseInv, Underway, TypeInv
  <1>2. kind \in Kinds(s)' /\ \A z \in FinishKinds : z # kind => z \notin Kinds(s)'
    BY <1>1, FailNow DEF Unreported
  <1>3. PhaseInv(s)'
    BY <1>1 DEF PhaseInv, Underway
  <1>4. RecordInv(s)'
    BY <1>1, <1>2 DEF RecordInv, Unreported
  <1>5. VerdictInv(s)'
    <2> SUFFICES ASSUME ~config[s].update PROVE VerdictInv(s)'
      BY DEF VerdictInv
    <2>1. kind \in {"raw", "transform"}
      OBVIOUS
    <2>2. ~Unreported(s, {"path", "raw", "transform"})'
      BY <1>2, <2>1 DEF Unreported
    <2>3. Unreported(s, {"parity", "missing", "empty"})'
      BY <1>2, <2>1 DEF Unreported, FinishKinds
    <2> QED
      BY <1>1, <2>2, <2>3 DEF VerdictInv
  <1> QED
    BY <1>3, <1>4, <1>5 DEF Local

LEMMA WriteRawKeeps ==
    ASSUME OutcomeInv, NEW s \in Session, NEW ok \in BOOLEAN, WriteRaw(s, ok)
    PROVE  StepOf(s)
  <1>1. Whole' /\ \A x \in Session \ {s} : Same(x)
    BY DEF OutcomeInv, Whole, WriteRaw, Fail, calls, Same
  <1>2. /\ phase[s] = "raw" /\ phase'[s] = IF ok THEN "transform" ELSE "open"
        /\ config'[s] = config[s] /\ calledKeys'[s] = calledKeys[s]
        /\ observed'[s] = observed[s] /\ transformers'[s] = transformers[s]
        /\ skipPaths'[s] = skipPaths[s] /\ verifyDisabled'[s] = verifyDisabled[s]
        /\ recorded'[s] = recorded[s] /\ results'[s] = results[s] /\ saved'[s] = saved[s]
        /\ done'[s] = done[s] /\ ended'[s] = ended[s] /\ final'[s] = final[s]
        /\ rawSaved'[s] = IF ok THEN observed[s] ELSE rawSaved[s]
    BY DEF WriteRaw, calls, OutcomeInv, Whole
  <1>3. Local(s)
    BY DEF OutcomeInv
  <1>4. TypeInv(s)'
    BY <1>2, <1>3 DEF Local, TypeInv, Entry
  <1>5. CallsInv(s)'
    BY <1>2, <1>3 DEF Local, CallsInv, Called
  <1>6. CASE ok
    <2>1. errors'[s] = errors[s] \cup {<<"raw", k>> : k \in {}}
      BY <1>6 DEF WriteRaw, Fail, OutcomeInv, Whole
    <2>2. errors'[s] = errors[s]
      BY <2>1
    <2>3. PhaseInv(s)'
      BY <1>2, <1>3, <1>6, <2>2 DEF Local, PhaseInv, Underway, Unreported, Kinds, Expected
    <2>4. RecordInv(s)' /\ VerdictInv(s)'
      BY <1>2, <1>6 DEF RecordInv, VerdictInv, Finished
    <2> QED
      BY <1>1, <1>4, <1>5, <2>3, <2>4 DEF StepOf, Local
  <1>7. CASE ~ok
    <2>1. errors'[s] = errors[s] \cup {<<"raw", k>> : k \in {NoDoc}}
      BY <1>7 DEF WriteRaw, Fail, OutcomeInv, Whole
    <2>2. Local(s)'
      BY <1>2, <1>4, <1>5, <1>7, <2>1, AbortKeeps DEF Underway
    <2> QED
      BY <1>1, <2>2 DEF StepOf
  <1> QED
    BY <1>6, <1>7

LEMMA TransformKeeps ==
    ASSUME OutcomeInv, NEW s \in Session, Transform(s)
    PROVE  StepOf(s)
  <1> DEFINE rejected == \E i \in DOMAIN transformers[s] :
                            transformers[s][i].transformer \in Rejects
             broken == ~config[s].update /\ SkipError(observed[s], skipPaths[s])
             kept == IF config[s].update THEN observed[s]
                     ELSE RemoveSkipped(observed[s], skipPaths[s])
             abort == rejected \/ broken
  <1>0. /\ phase[s] = "transform"
        /\ IF abort
           THEN /\ phase' = [phase EXCEPT ![s] = "open"]
                /\ Fail(s, "transform", {NoDoc})
                /\ UNCHANGED observed
           ELSE /\ phase' = [phase EXCEPT ![s] =
                       IF config[s].update THEN "save" ELSE "compare"]
                /\ observed' = [observed EXCEPT ![s] = Transformed(kept, transformers[s])]
                /\ UNCHANGED errors
        /\ UNCHANGED <<config, calledKeys, transformers, skipPaths, verifyDisabled,
                       outcome, done, ended, final>>
    BY DEF Transform
  <1> HIDE DEF abort, kept
  <1>1. Whole' /\ \A x \in Session \ {s} : Same(x)
    BY <1>0 DEF OutcomeInv, Whole, Fail, outcome, Same
  <1>2. /\ config'[s] = config[s] /\ calledKeys'[s] = calledKeys[s]
        /\ transformers'[s] = transformers[s]
        /\ skipPaths'[s] = skipPaths[s] /\ verifyDisabled'[s] = verifyDisabled[s]
        /\ recorded'[s] = recorded[s] /\ results'[s] = results[s] /\ saved'[s] = saved[s]
        /\ done'[s] = done[s] /\ ended'[s] = ended[s] /\ final'[s] = final[s]
        /\ rawSaved'[s] = rawSaved[s]
    BY <1>0 DEF outcome
  <1>3. Local(s) /\ done[s]
    BY <1>0 DEF OutcomeInv, Local, PhaseInv, TypeInv
  <1>4. CallsInv(s)'
    BY <1>2, <1>3 DEF Local, CallsInv
  <1>5. CASE abort
    <2>1. /\ phase'[s] = "open" /\ observed'[s] = observed[s]
          /\ errors'[s] = errors[s] \cup {<<"transform", k>> : k \in {NoDoc}}
      BY <1>0, <1>5 DEF Fail, OutcomeInv, Whole
    <2>2. TypeInv(s)'
      BY <1>2, <1>3, <2>1 DEF Local, TypeInv
    <2>3. Local(s)'
      BY <1>0, <1>2, <1>4, <2>1, <2>2, AbortKeeps DEF Underway
    <2> QED
      BY <1>1, <2>3 DEF StepOf
  <1>6. CASE ~abort
    <2>1. /\ phase'[s] = IF config[s].update THEN "save" ELSE "compare"
          /\ observed'[s] = Transformed(kept, transformers[s])
          /\ errors'[s] = errors[s]
      BY <1>0, <1>6 DEF OutcomeInv, Whole
    <2>2. kept \in State /\ Ordered(transformers[s])
      BY <1>3, RemovedState DEF Local, TypeInv, kept
    <2>3. observed'[s] \in State
      BY <2>1, <2>2, TransformedState
    <2>4. TypeInv(s)'
      BY <1>2, <1>3, <2>1, <2>3 DEF Local, TypeInv
    <2>5. observed[s] = final[s].observed
      BY <1>0, <1>3 DEF Local, PhaseInv
    <2>6. observed'[s] = IF config[s].update THEN Recording(s) ELSE Actual(s)
      BY <2>1, <2>5 DEF Recording, Actual, kept
    <2>7. PhaseInv(s)'
      BY <1>0, <1>2, <1>3, <2>1, <2>6
      DEF Local, PhaseInv, Underway, Unreported, Kinds, Expected, Recording, Actual
    <2>8. RecordInv(s)' /\ VerdictInv(s)'
      BY <2>1 DEF RecordInv, VerdictInv, Finished
    <2> QED
      BY <1>1, <1>4, <2>4, <2>7, <2>8 DEF StepOf, Local
  <1> QED
    BY <1>5, <1>6

LEMMA SaveKeeps ==
    ASSUME OutcomeInv, NEW s \in Session, NEW ok \in BOOLEAN, Save(s, ok)
    PROVE  StepOf(s)
  <1>1. Whole' /\ \A x \in Session \ {s} : Same(x)
    BY DEF OutcomeInv, Whole, Save, Fail, calls, Same
  <1>2. /\ phase[s] = "save" /\ phase'[s] = "open"
        /\ config'[s] = config[s] /\ calledKeys'[s] = calledKeys[s]
        /\ observed'[s] = observed[s] /\ transformers'[s] = transformers[s]
        /\ skipPaths'[s] = skipPaths[s] /\ verifyDisabled'[s] = verifyDisabled[s]
        /\ recorded'[s] = recorded[s] /\ results'[s] = results[s]
        /\ done'[s] = done[s] /\ ended'[s] = ended[s] /\ final'[s] = final[s]
        /\ rawSaved'[s] = rawSaved[s]
        /\ saved'[s] = IF ok THEN observed[s] ELSE saved[s]
    BY DEF Save, calls, OutcomeInv, Whole
  <1>3. Local(s) /\ config[s].update /\ observed[s] = Recording(s) /\ done[s]
    BY <1>2 DEF OutcomeInv, Local, PhaseInv, TypeInv
  <1>4. TypeInv(s)'
    BY <1>2, <1>3 DEF Local, TypeInv, Entry
  <1>5. CallsInv(s)'
    BY <1>2, <1>3 DEF Local, CallsInv
  <1>6. CASE ok
    <2>1. errors'[s] = errors[s] \cup {<<"write", k>> : k \in {}}
      BY <1>6 DEF Save, Fail, OutcomeInv, Whole
    <2>2. errors'[s] = errors[s]
      BY <2>1
    <2>3. PhaseInv(s)'
      BY <1>2, <1>3 DEF PhaseInv, Underway
    <2>4. /\ final[s].observed # Empty
          /\ Unreported(s, {"raw", "transform", "write"})'
      BY <1>2, <1>3, <2>2 DEF Local, PhaseInv, Underway, Unreported, Kinds, FinishKinds
    <2>5. RecordInv(s)'
      BY <1>2, <1>3, <1>6, <2>4 DEF RecordInv, Recording
    <2>6. VerdictInv(s)'
      BY <1>2, <1>3 DEF VerdictInv
    <2> QED
      BY <1>1, <1>4, <1>5, <2>3, <2>5, <2>6 DEF StepOf, Local
  <1>7. CASE ~ok
    <2>1. errors'[s] = errors[s] \cup {<<"write", k>> : k \in {NoDoc}}
      BY <1>7 DEF Save, Fail, OutcomeInv, Whole
    <2>2. Local(s)'
      BY <1>2, <1>3, <1>4, <1>5, <1>7, <2>1, AbortKeeps DEF Underway
    <2> QED
      BY <1>1, <2>2 DEF StepOf
  <1> QED
    BY <1>6, <1>7

\* Which values are left, and what is in them.
LEMMA RemovedAt ==
    ASSUME NEW state \in State, NEW paths, NEW k \in Key
    PROVE  /\ RemoveSkipped(state, paths)[k] # NoDoc <=> state[k] # NoDoc /\ k \notin paths
           /\ RemoveSkipped(state, paths)[k] # NoDoc =>
                 RemoveSkipped(state, paths)[k]
                   = [f \in Field |-> IF f \in paths THEN Gone ELSE state[k][f]]
  <1>1. CASE k \in paths \/ state[k] = NoDoc
    BY <1>1 DEF RemoveSkipped
  <1>2. CASE k \notin paths /\ state[k] # NoDoc
    <2> DEFINE d == [f \in Field |-> IF f \in paths THEN Gone ELSE state[k][f]]
    <2>1. RemoveSkipped(state, paths)[k] = d
      BY <1>2 DEF RemoveSkipped
    <2>2. d # NoDoc
      <3>1. state[k] \in Doc
        BY <1>2 DEF State
      <3>2. d \in Doc
        BY <3>1 DEF Doc
      <3> QED
        BY <3>2, FieldsAreSomething
    <2> QED
      BY <1>2, <2>1, <2>2
  <1> QED
    BY <1>1, <1>2

LEMMA TransformedAt ==
    ASSUME NEW state \in State, NEW registered, Ordered(registered), NEW k \in Key
    PROVE  /\ Transformed(state, registered)[k] # NoDoc <=> state[k] # NoDoc
           /\ state[k] # NoDoc =>
                 Transformed(state, registered)[k]
                   = [f \in Field |-> Rewritten(state[k][f], registered)]
  <1> DEFINE d == [f \in Field |-> Rewritten(state[k][f], registered)]
  <1>1. d # NoDoc
    <2>1. DOMAIN d = Field /\ DOMAIN NoDoc = {} /\ Field # {}
      BY SessionAssumption DEF NoDoc
    <2> QED
      BY <2>1
  <1> QED
    BY <1>1 DEF Transformed

\* The keys on both sides of a comparison.
LEMMA ComparedKeys ==
    ASSUME NEW s \in Session, Local(s), done[s] = TRUE, NEW k \in Key
    PROVE  /\ Expected(s)[k] # NoDoc <=> final[s].recorded[k] # NoDoc /\ k \notin skipPaths[s]
           /\ Actual(s)[k] # NoDoc <=> final[s].observed[k] # NoDoc /\ k \notin skipPaths[s]
  <1>1. /\ final[s].recorded \in State /\ final[s].observed \in State
        /\ Ordered(transformers[s])
    BY DEF Local, CallsInv, TypeInv
  <1>2. RemoveSkipped(final[s].observed, skipPaths[s]) \in State
    BY <1>1, RemovedState
  <1>3. Actual(s)[k] # NoDoc <=> RemoveSkipped(final[s].observed, skipPaths[s])[k] # NoDoc
    <2>1. \A a \in State : \A b :
            Ordered(b) => (Transformed(a, b)[k] # NoDoc <=> a[k] # NoDoc)
      BY TransformedAt
    <2>2. Actual(s)
            = Transformed(RemoveSkipped(final[s].observed, skipPaths[s]), transformers[s])
      BY DEF Actual
    <2> QED
      BY <1>1, <1>2, <2>1, <2>2
  <1>4. RemoveSkipped(final[s].observed, skipPaths[s])[k] # NoDoc
          <=> final[s].observed[k] # NoDoc /\ k \notin skipPaths[s]
    BY <1>1, RemovedAt
  <1>5. Expected(s)[k] # NoDoc <=> final[s].recorded[k] # NoDoc /\ k \notin skipPaths[s]
    BY <1>1, RemovedAt DEF Expected
  <1> QED
    BY <1>3, <1>4, <1>5

LEMMA CompareKeeps ==
    ASSUME OutcomeInv, NEW s \in Session, Compare(s)
    PROVE  StepOf(s)
  <1> DEFINE known == {k \in Called(s) : recorded[s][k] # NoDoc}
             compared == Selected(calledKeys[s], known)
             list == [i \in DOMAIN compared |->
                         [key |-> compared[i],
                          expected |-> recorded[s][compared[i]],
                          actual |-> observed[s][compared[i]]]]
             missing == {<<"missing", k>> : k \in Called(s) \ known}
             parity == {<<"parity", k>> : k \in {x \in known : recorded[s][x] # observed[s][x]}}
  <1>1. Whole' /\ \A x \in Session \ {s} : Same(x)
    <2>1. CASE Off(s) \/ recorded[s] = Empty
      BY <2>1 DEF OutcomeInv, Whole, Compare, Fail, calls, Same
    <2>2. CASE ~Off(s) /\ recorded[s] # Empty
      BY <2>2 DEF OutcomeInv, Whole, Compare, calls, Same
    <2> QED
      BY <2>1, <2>2
  <1>2. /\ phase[s] = "compare" /\ phase'[s] = "open"
        /\ config'[s] = config[s] /\ calledKeys'[s] = calledKeys[s]
        /\ observed'[s] = observed[s] /\ transformers'[s] = transformers[s]
        /\ skipPaths'[s] = skipPaths[s] /\ verifyDisabled'[s] = verifyDisabled[s]
        /\ recorded'[s] = recorded[s] /\ saved'[s] = saved[s]
        /\ done'[s] = done[s] /\ ended'[s] = ended[s] /\ final'[s] = final[s]
        /\ rawSaved'[s] = rawSaved[s]
    BY DEF Compare, calls, OutcomeInv, Whole
  <1>3. /\ Local(s) /\ done[s] /\ ~config[s].update
        /\ calledKeys[s] = final[s].called /\ calledKeys[s] \in Seq(Key)
        /\ recorded[s] = Expected(s) /\ observed[s] = Actual(s)
        /\ results[s] = <<>> /\ saved[s] = NoDoc /\ Unreported(s, FinishKinds)
    BY <1>2 DEF OutcomeInv, Local, PhaseInv, TypeInv, Underway
  <1>4. /\ Finished(s)' /\ (Off(s)' <=> Off(s))
        /\ Expected(s)' = Expected(s) /\ Actual(s)' = Actual(s)
    BY <1>2, <1>3 DEF Finished, Off, Expected, Actual
  <1>5. CallsInv(s)'
    BY <1>2, <1>3 DEF Local, CallsInv
  <1>6. PhaseInv(s)'
    BY <1>2, <1>3 DEF PhaseInv, Underway
  <1>7. RecordInv(s)'
    BY <1>2, <1>3 DEF RecordInv
  <1>8. \A k \in Called(s) : k \in Key
    BY <1>3 DEF Called, ToSet
  <1>9. CASE Off(s)
    <2>1. results'[s] = results[s] /\ errors'[s] = errors[s]
      BY <1>9 DEF Compare
    <2>2. TypeInv(s)'
      BY <1>2, <1>3, <2>1 DEF Local, TypeInv
    <2>3. VerdictInv(s)'
      BY <1>2, <1>3, <1>4, <1>9, <2>1 DEF VerdictInv, Unreported, Kinds, FinishKinds
    <2> QED
      BY <1>1, <1>5, <1>6, <1>7, <2>2, <2>3 DEF StepOf, Local
  <1>10. CASE ~Off(s) /\ recorded[s] = Empty
    <2>1. /\ results'[s] = results[s]
          /\ errors'[s] = errors[s] \cup {<<"empty", k>> : k \in {NoDoc}}
      BY <1>10 DEF Compare, Fail, OutcomeInv, Whole
    <2>2. TypeInv(s)'
      BY <1>2, <1>3, <2>1 DEF Local, TypeInv
    <2>3. "empty" \in Kinds(s)' /\ \A z \in FinishKinds : z # "empty" => z \notin Kinds(s)'
      BY <1>3, <2>1, FailNow DEF Unreported
    <2>4. ASSUME NEW k \in ToSet(final[s].called) PROVE KeyVerdict(s, k)'
      <3>1. Expected(s)'[k] = NoDoc
        BY <1>3, <1>4, <1>8, <1>10 DEF Called, Empty
      <3>2. ~ (\E i \in DOMAIN results'[s] : results'[s][i].key = k)
        BY <1>3, <2>1
      <3>3. <<"parity", k>> \notin errors'[s]
        <4>1. <<"parity", k>>[1] = "parity" /\ "parity" \in FinishKinds
          BY DEF FinishKinds
        <4> QED
          BY <2>3, <4>1 DEF Kinds
      <3>4. ~Unreported(s, {"empty"})'
        BY <2>3 DEF Unreported
      <3> QED
        BY <3>1, <3>2, <3>3, <3>4 DEF KeyVerdict
    <2>5. VerdictInv(s)'
      BY <1>2, <1>3, <1>4, <1>10, <2>4 DEF VerdictInv
    <2> QED
      BY <1>1, <1>5, <1>6, <1>7, <2>2, <2>5 DEF StepOf, Local
  <1>11. CASE ~Off(s) /\ recorded[s] # Empty
    <2>1. /\ results'[s] = list
          /\ errors'[s] = errors[s] \cup missing \cup parity
      BY <1>11 DEF Compare, OutcomeInv, Whole
    <2>2. /\ compared \in Seq(Key)
          /\ \A k \in Key : k \in ToSet(compared) <=> k \in Called(s) /\ recorded[s][k] # NoDoc
      <3>1. \A k \in Key : k \in known <=> k \in Called(s) /\ recorded[s][k] # NoDoc
        BY <1>8
      <3> HIDE DEF known
      <3> QED
        BY <1>3, <3>1, SelectedAt DEF Called
    <2> HIDE DEF compared
    <2>3. TypeInv(s)'
      <3>1. ASSUME NEW i \in DOMAIN compared
            PROVE  list[i] \in [key : Key, expected : Doc, actual : Doc]
        <4>1. compared[i] \in Key /\ compared[i] \in ToSet(compared)
          BY <2>2 DEF ToSet
        <4>2. compared[i] \in Called(s) /\ recorded[s][compared[i]] # NoDoc
          BY <2>2, <4>1
        <4>3. observed[s][compared[i]] # NoDoc
          <5>1. final[s].observed[compared[i]] # NoDoc
            BY <1>3, <4>1, <4>2 DEF Local, CallsInv, Called
          <5> QED
            BY <1>3, <4>1, <4>2, <5>1, ComparedKeys
        <4>4. recorded[s][compared[i]] \in Doc /\ observed[s][compared[i]] \in Doc
          BY <1>3, <4>1, <4>2, <4>3 DEF Local, TypeInv, State
        <4> QED
          BY <4>1, <4>4
      <3>2. \A i \in DOMAIN results'[s] :
               results'[s][i] \in [key : Key, expected : Doc, actual : Doc]
        BY <2>1, <3>1
      <3> QED
        BY <1>2, <1>3, <3>2 DEF Local, TypeInv
    <2>4. ASSUME NEW k \in ToSet(final[s].called) PROVE KeyVerdict(s, k)'
      <3>1. k \in Key /\ k \in Called(s)
        BY <1>3, <1>8 DEF Called
      <3>2. Expected(s)'[k] # NoDoc <=> \E i \in DOMAIN results'[s] : results'[s][i].key = k
        <4>1. Expected(s)'[k] # NoDoc <=> k \in ToSet(compared)
          BY <1>3, <1>4, <2>2, <3>1
        <4>2. DOMAIN list = DOMAIN compared /\ \A i \in DOMAIN list : list[i].key = compared[i]
          OBVIOUS
        <4> HIDE DEF list
        <4> QED
          BY <2>1, <4>1, <4>2 DEF ToSet
      <3>3. \A z \in FinishKinds : <<z, k>> \notin errors[s]
        <4>1. \A z : <<z, k>>[1] = z
          OBVIOUS
        <4> QED
          BY <1>3, <4>1 DEF Unreported, Kinds
      <3>4. <<"parity", k>> \in errors'[s]
               <=> Expected(s)'[k] # NoDoc /\ Expected(s)'[k] # Actual(s)'[k]
        <4>1. <<"parity", k>> \notin missing /\ <<"parity", k>> \notin errors[s]
          BY <3>3 DEF FinishKinds
        <4>2. <<"parity", k>> \in parity
                 <=> recorded[s][k] # NoDoc /\ recorded[s][k] # observed[s][k]
          BY <3>1
        <4> HIDE DEF missing, parity
        <4> QED
          BY <1>3, <1>4, <2>1, <4>1, <4>2
      <3>5. Expected(s)'[k] = NoDoc <=> <<"missing", k>> \in errors'[s]
        <4>1. <<"missing", k>> \notin parity /\ <<"missing", k>> \notin errors[s]
          BY <3>3 DEF FinishKinds
        <4>2. recorded[s][k] = NoDoc <=> <<"missing", k>> \in missing
          BY <3>1
        <4> HIDE DEF missing, parity
        <4> QED
          BY <1>3, <1>4, <2>1, <4>1, <4>2
      <3>6. Unreported(s, {"empty"})'
        <4>1. \A e \in errors[s] : e[1] # "empty"
          BY <1>3 DEF Unreported, Kinds, FinishKinds
        <4>2. \A e \in missing \cup parity : e[1] # "empty"
          OBVIOUS
        <4> HIDE DEF missing, parity
        <4> QED
          BY <2>1, <4>1, <4>2 DEF Unreported, Kinds
      <3> QED
        BY <3>2, <3>4, <3>5, <3>6 DEF KeyVerdict
    <2>5. VerdictInv(s)'
      BY <1>2, <1>3, <1>4, <1>11, <2>4 DEF VerdictInv
    <2> QED
      BY <1>1, <1>5, <1>6, <1>7, <2>3, <2>5 DEF StepOf, Local
  <1> QED
    BY <1>9, <1>10, <1>11

-----------------------------------------------------------------------------
(* Every step. *)

LEMMA EveryStepOf == OutcomeInv /\ Next => \E s \in Session : StepOf(s)
  <1> SUFFICES ASSUME OutcomeInv, NEW s \in Session,
                      \/ \E cfg \in Configs :
                            \/ \E recording \in Recordings : New(s, cfg, recording, FALSE)
                            \/ New(s, cfg, Empty, TRUE)
                      \/ TestCall(s)
                      \/ Cleanup(s)
                      \/ \E ok \in BOOLEAN : WriteRaw(s, ok) \/ Save(s, ok)
                      \/ Transform(s)
                      \/ Compare(s)
               PROVE  StepOf(s)
    BY DEF Next
  <1>1. ASSUME NEW cfg \in Configs, NEW recording \in Recordings, New(s, cfg, recording, FALSE)
        PROVE  StepOf(s)
    BY <1>1, NewStarts, SessionAssumption
  <1>2. ASSUME NEW cfg \in Configs, New(s, cfg, Empty, TRUE) PROVE StepOf(s)
    BY <1>2, NewStarts, EmptyState
  <1>3. ASSUME NEW key \in Key, NEW doc \in Docs, Match(s, key, doc) PROVE StepOf(s)
    BY <1>3, MatchKeeps
  <1>4. ASSUME ~done[s],
               \/ \E t \in Transformer, prio \in Priorities : AddTransformer(s, t, prio)
               \/ SkipVerify(s)
               \/ \E paths \in PathSets : SkipVerifyPaths(s, paths)
        PROVE  StepOf(s)
    BY <1>4, SettingKeeps
  <1>5. CASE AssertAll(s) \/ Cleanup(s)
    BY <1>5, BeginKeeps
  <1>6. CASE TestCall(s)
    BY <1>3, <1>4, <1>5, <1>6 DEF TestCall
  <1>7. ASSUME NEW ok \in BOOLEAN, WriteRaw(s, ok) \/ Save(s, ok) PROVE StepOf(s)
    BY <1>7, WriteRawKeeps, SaveKeeps
  <1> QED
    BY <1>1, <1>2, <1>5, <1>6, <1>7, TransformKeeps, CompareKeeps

LEMMA InitOutcome == Init => OutcomeInv
  <1> SUFFICES ASSUME Init PROVE OutcomeInv
    OBVIOUS
  <1>1. Whole
    BY DEF Init, Whole
  <1>2. ASSUME NEW s \in Session PROVE Local(s)
    <2>1. /\ phase[s] = "new" /\ config[s] = [update |-> FALSE, verify |-> TRUE, raw |-> FALSE]
          /\ calledKeys[s] = <<>> /\ observed[s] = Empty /\ recorded[s] = Empty
          /\ transformers[s] = <<>> /\ skipPaths[s] = {} /\ verifyDisabled[s] = FALSE
          /\ results[s] = <<>> /\ done[s] = FALSE /\ errors[s] = {} /\ rawSaved[s] = NoDoc
          /\ saved[s] = NoDoc /\ ended[s] = FALSE
      BY DEF Init
    <2>2. TypeInv(s)
      <3>1. Ordered(<<>>) /\ IsInjective(<<>>)
        BY DEF Ordered, IsInjective
      <3>2. Empty \in State /\ <<>> \in Seq(Key)
        BY EmptyState
      <3>3. config[s] \in Config
        BY <2>1 DEF Config
      <3>4. \A i \in DOMAIN results[s] : FALSE
        BY <2>1
      <3>5. Ordered(transformers[s]) /\ IsInjective(calledKeys[s])
        BY <2>1, <3>1
      <3> QED
        BY <2>1, <3>2, <3>3, <3>4, <3>5 DEF TypeInv, Entry
    <2>3. CallsInv(s)
      BY <2>1 DEF CallsInv, Called, ToSet, Empty
    <2>4. PhaseInv(s)
      BY <2>1 DEF PhaseInv, Underway, Unreported, Kinds
    <2> QED
      BY <2>1, <2>2, <2>3, <2>4 DEF Local, RecordInv, VerdictInv, Finished
  <1> QED
    BY <1>1, <1>2 DEF OutcomeInv

LEMMA StepOutcome == OutcomeInv /\ [Next]_vars => OutcomeInv'
  <1> SUFFICES ASSUME OutcomeInv, [Next]_vars PROVE OutcomeInv'
    OBVIOUS
  <1>1. CASE Next
    BY <1>1, EveryStepOf, StepKeeps
  <1>2. CASE UNCHANGED vars
    <2>1. \A s \in Session : Same(s)
      BY <1>2 DEF vars, calls, outcome, Same
    <2>2. Whole'
      BY <1>2 DEF vars, calls, outcome, OutcomeInv, Whole
    <2> QED
      BY <2>1, <2>2, SameLocal DEF OutcomeInv
  <1> QED
    BY <1>1, <1>2

LEMMA AlwaysOutcome == Spec => []OutcomeInv
  BY InitOutcome, StepOutcome, PTL DEF Spec

-----------------------------------------------------------------------------
(* What the invariant says. *)

\* A value is carried over exactly if every field is what transform makes of it.
LEMMA CarriedExact ==
    ASSUME NEW old \in Doc, NEW new \in Doc, NEW registered, Ordered(registered), NEW except
    PROVE  Carried(old, new, registered, except)
              <=> \A f \in Field \ except : new[f] = Rewritten(old[f], registered)
  <1>1. ASSUME NEW f \in Field
        PROVE  \/ old[f] = Gone /\ new[f] = Gone
               \/ /\ old[f] # Gone /\ new[f] # Gone
                  /\ Promised(old[f], new[f], registered)
               <=> new[f] = Rewritten(old[f], registered)
    <2>1. old[f] \in Scalar \cup {Gone} /\ new[f] \in Scalar \cup {Gone}
      BY DEF Doc
    <2>2. CASE old[f] = Gone
      BY <2>2 DEF Rewritten
    <2>3. CASE old[f] # Gone
      <3>1. old[f] \in Scalar
        BY <2>1, <2>3
      <3>2. Rewritten(old[f], registered) # Gone
        BY <3>1, RewrittenPromised, SessionAssumption
      <3> QED
        BY <2>3, <3>1, <3>2, RewrittenExact
    <2> QED
      BY <2>2, <2>3
  <1> QED
    BY <1>1 DEF Carried

LEMMA RecordingCarried ==
    ASSUME NEW s \in Session, Local(s), done[s] = TRUE, NEW k \in Key
    PROVE  \/ final[s].observed[k] = NoDoc /\ Recording(s)[k] = NoDoc
           \/ /\ final[s].observed[k] # NoDoc /\ Recording(s)[k] # NoDoc
              /\ Carried(final[s].observed[k], Recording(s)[k], final[s].transformers, {})
  <1>1. /\ final[s].observed \in State /\ Ordered(transformers[s])
        /\ final[s].transformers = transformers[s]
    BY DEF Local, CallsInv, TypeInv
  <1>2. final[s].observed[k] # NoDoc <=> Recording(s)[k] # NoDoc
    <2>1. \A a \in State : \A b :
            Ordered(b) => (Transformed(a, b)[k] # NoDoc <=> a[k] # NoDoc)
      BY TransformedAt
    <2>2. Recording(s) = Transformed(final[s].observed, transformers[s])
      BY DEF Recording
    <2> QED
      BY <1>1, <2>1, <2>2
  <1>3. ASSUME final[s].observed[k] # NoDoc
        PROVE  Carried(final[s].observed[k], Recording(s)[k], final[s].transformers, {})
    <2> DEFINE old == final[s].observed[k]
               new == Recording(s)[k]
    <2>1. new = [f \in Field |-> Rewritten(old[f], transformers[s])]
      BY <1>1, <1>3, TransformedAt DEF Recording
    <2>2. Recording(s) \in State
      BY <1>1, TransformedState DEF Recording
    <2>3. old \in Doc /\ new \in Doc
      BY <1>1, <1>2, <1>3, <2>2 DEF State
    <2> HIDE DEF old, new
    <2>4. Carried(old, new, transformers[s], {})
      BY <1>1, <2>1, <2>3, CarriedExact
    <2> QED
      BY <1>1, <2>4 DEF old, new
  <1> QED
    BY <1>2, <1>3

LEMMA ComparisonCarried ==
    ASSUME NEW s \in Session, Local(s), done[s] = TRUE, NEW k \in Key,
           final[s].observed[k] # NoDoc, Expected(s)[k] # NoDoc
    PROVE  Expected(s)[k] = Actual(s)[k]
              <=> Carried(final[s].observed[k], final[s].recorded[k], final[s].transformers,
                          final[s].skipPaths)
  <1> DEFINE old == final[s].recorded[k]
             own == final[s].observed[k]
             paths == skipPaths[s]
             registered == transformers[s]
             left == [f \in Field |-> IF f \in paths THEN Gone ELSE old[f]]
             kept == [f \in Field |-> IF f \in paths THEN Gone ELSE own[f]]
             right == [f \in Field |-> Rewritten(kept[f], registered)]
  <1>1. /\ final[s].observed \in State /\ final[s].recorded \in State
        /\ Ordered(registered) /\ final[s].transformers = registered
        /\ final[s].skipPaths = paths
    BY DEF Local, CallsInv, TypeInv
  <1>2. old # NoDoc /\ k \notin paths
    BY ComparedKeys
  <1>3. Expected(s)[k] = left
    BY <1>1, RemovedAt DEF Expected
  <1>4. RemoveSkipped(final[s].observed, paths)[k] = kept
        /\ RemoveSkipped(final[s].observed, paths)[k] # NoDoc
    BY <1>1, <1>2, RemovedAt
  <1>5. Actual(s)[k] = right
    BY <1>1, <1>4, RemovedState, TransformedAt DEF Actual
  <1>6. old \in Doc /\ own \in Doc
    BY <1>1, <1>2 DEF State
  <1>7. Carried(own, old, registered, paths)
           <=> \A f \in Field \ paths : old[f] = Rewritten(own[f], registered)
    <2> HIDE DEF own, old, registered, paths
    <2> QED
      BY <1>1, <1>6, CarriedExact
  <1>8. \A f \in Field : f \in paths => left[f] = Gone /\ right[f] = Gone
    BY DEF Rewritten
  <1>9. \A f \in Field \ paths : left[f] = old[f] /\ right[f] = Rewritten(own[f], registered)
    OBVIOUS
  <1>10. left = right <=> \A f \in Field : left[f] = right[f]
    OBVIOUS
  <1>11. left = right <=> Carried(own, old, registered, paths)
    <2> HIDE DEF left, right, own, old, registered, paths
    <2> QED
      BY <1>7, <1>8, <1>9, <1>10
  <1> QED
    BY <1>1, <1>3, <1>5, <1>11

-----------------------------------------------------------------------------
(* The theorems. *)

\* The variables of the sessions keep their types; no key is matched twice and nothing
\* is compared that is not in the recording and in the test.
THEOREM SessionTypes == Spec => []TypeOK
  <1>1. OutcomeInv => TypeOK
    <2> SUFFICES ASSUME OutcomeInv PROVE TypeOK
      OBVIOUS
    <2>1. /\ phase \in [Session -> {"new", "open", "raw", "transform", "save", "compare"}]
          /\ config \in [Session -> Config]
          /\ observed \in [Session -> State] /\ recorded \in [Session -> State]
      BY DEF OutcomeInv, Whole, Local, TypeInv
    <2>2. /\ skipPaths \in [Session -> SUBSET SkipPath]
          /\ verifyDisabled \in [Session -> BOOLEAN]
          /\ done \in [Session -> BOOLEAN] /\ ended \in [Session -> BOOLEAN]
      BY DEF OutcomeInv, Whole, Local, TypeInv
    <2>3. ASSUME NEW s \in Session
          PROVE  /\ ToSet(calledKeys[s]) \subseteq Key /\ IsInjective(calledKeys[s])
                 /\ ToSet(transformers[s]) \subseteq Registration
                 /\ \A i \in DOMAIN results[s] :
                       results[s][i] \in [key : Key, expected : Doc, actual : Doc]
                 /\ Entry(rawSaved[s]) /\ Entry(saved[s])
      <3>1. TypeInv(s)
        BY DEF OutcomeInv, Local
      <3>2. ToSet(calledKeys[s]) \subseteq Key
        BY <3>1 DEF TypeInv, ToSet
      <3>3. ToSet(transformers[s]) \subseteq Registration
        BY <3>1 DEF TypeInv, Ordered, ToSet
      <3> QED
        BY <3>1, <3>2, <3>3 DEF TypeInv
    <2> QED
      BY <2>1, <2>2, <2>3 DEF TypeOK
  <1> QED
    BY <1>1, AlwaysOutcome, PTL

\* A session in update mode records what was matched before finish, every field as the
\* documented order of the transformers makes it, or nothing at all.
THEOREM RecordsAll == Spec => []RecordingComplete
  <1>1. OutcomeInv => RecordingComplete
    <2> SUFFICES ASSUME OutcomeInv, NEW s \in Session, Finished(s), config[s].update
                 PROVE  IF Kinds(s) \cap {"raw", "transform", "write"} # {}
                           \/ final[s].observed = Empty
                        THEN saved[s] = NoDoc
                        ELSE /\ saved[s] # NoDoc
                             /\ \A k \in Key :
                                   \/ final[s].observed[k] = NoDoc /\ saved[s][k] = NoDoc
                                   \/ /\ final[s].observed[k] # NoDoc /\ saved[s][k] # NoDoc
                                      /\ Carried(final[s].observed[k], saved[s][k],
                                                 final[s].transformers, {})
      BY DEF RecordingComplete
    <2>1. Local(s) /\ done[s]
      BY DEF OutcomeInv, Finished
    <2>2. Kinds(s) \cap {"raw", "transform", "write"} = {}
             <=> Unreported(s, {"raw", "transform", "write"})
      BY DEF Unreported
    <2>3. CASE Kinds(s) \cap {"raw", "transform", "write"} # {} \/ final[s].observed = Empty
      BY <2>1, <2>2, <2>3 DEF Local, RecordInv
    <2>4. CASE Kinds(s) \cap {"raw", "transform", "write"} = {} /\ final[s].observed # Empty
      <3>1. saved[s] = Recording(s)
        BY <2>1, <2>2, <2>4 DEF Local, RecordInv
      <3>2. Recording(s) \in State
        BY <2>1, TransformedState DEF Local, CallsInv, TypeInv, Recording
      <3>3. saved[s] # NoDoc
        <4>1. DOMAIN NoDoc = {} /\ Key # {}
          BY SessionAssumption DEF NoDoc
        <4> QED
          BY <3>1, <3>2, <4>1 DEF State
      <3> QED
        BY <2>1, <2>4, <3>1, <3>3, RecordingCarried
    <2> QED
      BY <2>3, <2>4
  <1> QED
    BY <1>1, AlwaysOutcome, PTL

\* The verdict of finish (session.go:325-396) on every key that was matched before it, for
\* any sessions, documents, transformers and skip paths: which keys are compared, which are
\* reported as different and which as missing, and that a test whose verification is off
\* has no such verdict.
THEOREM VerdictPromised == Spec => []VerdictExact
  <1>1. OutcomeInv => VerdictExact
    <2> SUFFICES ASSUME OutcomeInv, NEW s \in Session, Finished(s), ~config[s].update
                 PROVE
            /\ saved[s] = NoDoc
            /\ ~config[s].verify \/ final[s].verifyDisabled =>
                 /\ results[s] = <<>>
                 /\ Kinds(s) \cap {"parity", "missing", "empty"} = {}
            /\ config[s].verify /\ ~final[s].verifyDisabled
               /\ Kinds(s) \cap {"path", "raw", "transform"} = {} =>
                 \A k \in ToSet(final[s].called) :
                   LET old == final[s].recorded[k]
                       comparable == old # NoDoc /\ k \notin final[s].skipPaths
                       equal == Carried(final[s].observed[k], old, final[s].transformers,
                                        final[s].skipPaths)
                   IN  /\ comparable <=> \E i \in DOMAIN results[s] : results[s][i].key = k
                       /\ <<"parity", k>> \in errors[s] <=> comparable /\ ~equal
                       /\ ~comparable <=> \/ <<"missing", k>> \in errors[s]
                                          \/ "empty" \in Kinds(s)
      BY DEF VerdictExact
    <2>1. Local(s) /\ done[s]
      BY DEF OutcomeInv, Finished
    <2>2. /\ saved[s] = NoDoc
          /\ Off(s) => results[s] = <<>> /\ Unreported(s, {"parity", "missing", "empty"})
          /\ ~Off(s) /\ Unreported(s, {"path", "raw", "transform"}) =>
                \A k \in ToSet(final[s].called) : KeyVerdict(s, k)
      BY <2>1 DEF Local, VerdictInv
    <2>3. /\ Off(s) <=> ~config[s].verify \/ final[s].verifyDisabled
          /\ final[s].skipPaths = skipPaths[s]
      BY <2>1 DEF Off, Local, CallsInv
    <2>4. /\ Kinds(s) \cap {"parity", "missing", "empty"} = {}
               <=> Unreported(s, {"parity", "missing", "empty"})
          /\ Kinds(s) \cap {"path", "raw", "transform"} = {}
               <=> Unreported(s, {"path", "raw", "transform"})
          /\ "empty" \in Kinds(s) <=> ~Unreported(s, {"empty"})
      BY DEF Unreported
    <2>5. ASSUME NEW k \in ToSet(final[s].called), KeyVerdict(s, k)
          PROVE  LET old == final[s].recorded[k]
                     comparable == old # NoDoc /\ k \notin final[s].skipPaths
                     equal == Carried(final[s].observed[k], old, final[s].transformers,
                                      final[s].skipPaths)
                 IN  /\ comparable <=> \E i \in DOMAIN results[s] : results[s][i].key = k
                     /\ <<"parity", k>> \in errors[s] <=> comparable /\ ~equal
                     /\ ~comparable <=> \/ <<"missing", k>> \in errors[s]
                                        \/ "empty" \in Kinds(s)
      <3>1. k \in Key /\ final[s].observed[k] # NoDoc
        BY <2>1 DEF Local, CallsInv, ToSet
      <3>2. Expected(s)[k] # NoDoc
               <=> final[s].recorded[k] # NoDoc /\ k \notin final[s].skipPaths
        BY <2>1, <2>3, <3>1, ComparedKeys
      <3>3. Expected(s)[k] # NoDoc =>
               (Expected(s)[k] = Actual(s)[k]
                  <=> Carried(final[s].observed[k], final[s].recorded[k],
                              final[s].transformers, final[s].skipPaths))
        BY <2>1, <3>1, ComparisonCarried
      <3> QED
        BY <2>4, <2>5, <3>2, <3>3 DEF KeyVerdict
    <2> QED
      BY <2>2, <2>3, <2>4, <2>5
  <1> QED
    BY <1>1, AlwaysOutcome, PTL
=============================================================================

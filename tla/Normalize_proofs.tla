-------------------------- MODULE Normalize_proofs --------------------------
(***************************************************************************)
(* Whatever value is normalized, with whatever limit: what it writes is a  *)
(* document at every step; the depth that the walk counts is the depth of  *)
(* the result, so that the limit holds for the result, except in the JSON  *)
(* that values carry with them; and what it cuts off as a recursion is     *)
(* one.                                                                    *)
(***************************************************************************)
EXTENDS Normalize, JsonPath_proofs

IsSequence(s) == \E n \in Nat : s \in [1..n -> Range(s)]

\* A call of the walk: what it is about is in the heap, and a call that may make other
\* ones at a greater depth is within the limit.
CallInv(call) ==
    /\ call.depth \in Nat /\ call.depth <= MaxDepth + 1
    /\ IsSequence(call.at) /\ Len(call.at) = call.depth
    /\ call.call = "value" => call.value \in Values
    /\ call.call = "field" => call.field.value \in Values /\ call.depth <= MaxDepth

CallsInv(calls) == IsSequence(calls) /\ \A i \in DOMAIN calls : CallInv(calls[i])

Inv == heap \in Heaps /\ CallsInv(todo)

-----------------------------------------------------------------------------
(* Sequences of anything. *)

LEMMA SequenceFacts ==
    ASSUME NEW s, IsSequence(s)
    PROVE  s \in Seq(Range(s)) /\ Len(s) \in Nat /\ DOMAIN s = 1..Len(s)
BY DEF IsSequence

LEMMA SequenceOf ==
    ASSUME NEW S, NEW s \in Seq(S)
    PROVE  IsSequence(s)
<1>1. Len(s) \in Nat /\ s \in [1..Len(s) -> S]
  OBVIOUS
<1>2. \A i \in 1..Len(s) : s[i] \in Range(s)
  BY <1>1 DEF Range
<1>3. s \in [1..Len(s) -> Range(s)]
  BY <1>1, <1>2
<1> QED BY <1>1, <1>3 DEF IsSequence

LEMMA AppendAny ==
    ASSUME NEW s, NEW e, IsSequence(s)
    PROVE  IsSequence(Append(s, e)) /\ Len(Append(s, e)) = Len(s) + 1
<1> DEFINE S == Range(s) \cup {e}
<1>1. s \in Seq(Range(s))
  BY SequenceFacts
<1>2. s \in Seq(S)
  BY <1>1
<1>3. Append(s, e) \in Seq(S) /\ Len(Append(s, e)) = Len(s) + 1
  BY <1>2
<1> QED BY <1>3, SequenceOf

\* The calls that one call makes, however many.
LEMMA CallsOf ==
    ASSUME NEW n \in Nat, NEW calls, calls = [i \in 1..n |-> calls[i]],
           \A i \in 1..n : CallInv(calls[i])
    PROVE  CallsInv(calls)
<1>1. calls \in [1..n -> Range(calls)]
  BY DEF Range
<1>2. IsSequence(calls)
  BY <1>1 DEF IsSequence
<1> QED BY <1>2 DEF CallsInv

LEMMA OneCall ==
    ASSUME NEW call, CallInv(call)
    PROVE  CallsInv(<<call>>)
<1> DEFINE calls == <<call>>
<1>1. calls = [i \in 1..1 |-> calls[i]] /\ calls[1] = call
  OBVIOUS
<1>2. CallsInv(calls)
  <2> HIDE DEF calls
  <2>1. \A i \in 1..1 : i = 1
    OBVIOUS
  <2>2. \A i \in 1..1 : CallInv(calls[i])
    BY <1>1, <2>1
  <2> QED BY <1>1, <2>2, CallsOf
<1> QED BY <1>2

LEMMA ThenKeeps ==
    ASSUME NEW s, NEW t, CallsInv(s), CallsInv(t)
    PROVE  CallsInv(s \o t)
<1> DEFINE S == Range(s) \cup Range(t)
<1>1. s \in Seq(Range(s)) /\ t \in Seq(Range(t))
  BY SequenceFacts DEF CallsInv
<1>2. s \in Seq(S) /\ t \in Seq(S)
  BY <1>1
<1> HIDE DEF S
<1>3. /\ s \o t \in Seq(S) /\ Len(s) \in Nat /\ Len(t) \in Nat
      /\ DOMAIN s = 1..Len(s) /\ DOMAIN t = 1..Len(t)
      /\ DOMAIN (s \o t) = 1..Len(s) + Len(t)
      /\ \A i \in 1..Len(s) : (s \o t)[i] = s[i]
      /\ \A i \in Len(s)+1..Len(s)+Len(t) : (s \o t)[i] = t[i - Len(s)]
  BY <1>2
<1>4. IsSequence(s \o t)
  BY <1>3, SequenceOf
<1>5. ASSUME NEW i \in DOMAIN (s \o t)
      PROVE  CallInv((s \o t)[i])
  <2>1. CASE i \in 1..Len(s)
    BY <1>3, <2>1 DEF CallsInv
  <2>2. CASE i \in Len(s)+1..Len(s)+Len(t)
    <3>1. i - Len(s) \in DOMAIN t /\ (s \o t)[i] = t[i - Len(s)]
      BY <1>3, <2>2
    <3> QED BY <3>1 DEF CallsInv
  <2> QED BY <1>3, <2>1, <2>2
<1> QED BY <1>4, <1>5 DEF CallsInv

LEMMA TailKeeps ==
    ASSUME NEW s, CallsInv(s), s # <<>>
    PROVE  CallsInv(Tail(s)) /\ CallInv(Head(s))
<1>1. s \in Seq(Range(s)) /\ Len(s) \in Nat /\ DOMAIN s = 1..Len(s)
  BY SequenceFacts DEF CallsInv
<1>2. /\ Tail(s) \in Seq(Range(s)) /\ Len(s) > 0 /\ Head(s) = s[1]
      /\ DOMAIN Tail(s) = 1..Len(s)-1
      /\ \A i \in 1..Len(s)-1 : Tail(s)[i] = s[i + 1]
  BY <1>1
<1>3. IsSequence(Tail(s))
  BY <1>2, SequenceOf
<1>4. CallInv(Head(s))
  BY <1>1, <1>2 DEF CallsInv
<1>5. ASSUME NEW i \in DOMAIN Tail(s)
      PROVE  CallInv(Tail(s)[i])
  <2>1. i + 1 \in DOMAIN s /\ Tail(s)[i] = s[i + 1]
    BY <1>1, <1>2
  <2> QED BY <2>1 DEF CallsInv
<1> QED BY <1>3, <1>4, <1>5 DEF CallsInv

-----------------------------------------------------------------------------
(* The walk. *)

\* What the heap says of a value.
LEMMA ValueFacts ==
    ASSUME Inv, NEW v \in Values
    PROVE  /\ \E n \in Nat : DOMAIN ValueOf(v).elems = 1..n
           /\ ValueOf(v).kind \in {"pointer", "interface"} /\ ~ValueOf(v).isNil =>
                 1 \in DOMAIN ValueOf(v).elems
           /\ \A i \in DOMAIN ValueOf(v).elems :
                 IF ValueOf(v).kind \in {"map", "struct"}
                 THEN ValueOf(v).elems[i].value \in Values
                 ELSE ValueOf(v).elems[i] \in Values
<1>1. ValueOf(v).elems \in Seq(Range(ValueOf(v).elems))
  BY HeapAssumption DEF Inv, ValueOf, Values
<1>2. \E n \in Nat : DOMAIN ValueOf(v).elems = 1..n
  BY <1>1
<1> QED BY <1>2, HeapAssumption DEF Inv, ValueOf, Values

\* A call is replaced by the calls it makes.
LEMMA ContinueKeeps ==
    ASSUME Inv, todo # <<>>, NEW calls, CallsInv(calls), Continue(calls)
    PROVE  Inv'
<1>1. CallsInv(Tail(todo))
  BY TailKeeps DEF Inv
<1>2. CallsInv(calls \o Tail(todo))
  BY <1>1, ThenKeeps
<1>3. CallsInv(todo') /\ heap' = heap
  BY <1>2 DEF Continue, Then
<1> QED BY <1>3 DEF Inv, CallsInv, CallInv, Values

LEMMA NoCalls == CallsInv(<< >>)
BY DEF CallsInv, IsSequence

\* A call for an item or an entry.
LEMMA PartKeeps ==
    ASSUME Inv, todo # <<>>, Current.depth <= MaxDepth, NEW v \in Values, NEW elem
    PROVE  CallInv(Part(v, elem))
<1>1. CallInv(Current)
  BY TailKeeps DEF Inv, Current
<1>2. IsSequence(Append(Current.at, elem)) /\ Len(Append(Current.at, elem)) = Current.depth + 1
  BY <1>1, AppendAny DEF CallInv
<1> QED BY <1>1, <1>2, NormalizeAssumption DEF CallInv, Part, ValueCall

\* The calls for the fields of a struct.
LEMMA FieldsKeep ==
    ASSUME Inv, NEW call, CallInv(call), call.depth <= MaxDepth,
           NEW v \in Values, ValueOf(v).kind = "struct", NEW seen
    PROVE  CallsInv(FieldCalls(v, call.depth, seen, call.at))
<1>1. PICK n \in Nat : DOMAIN ValueOf(v).elems = 1..n
  BY ValueFacts
<1> DEFINE calls == FieldCalls(v, call.depth, seen, call.at)
<1>2. calls = [i \in 1..n |-> calls[i]]
  BY <1>1 DEF FieldCalls
<1>3. ASSUME NEW i \in 1..n
      PROVE  CallInv(calls[i])
  <2>1. ValueOf(v).elems[i].value \in Values
    BY <1>1, ValueFacts
  <2>2. calls[i] = FieldCall(ValueOf(v).elems[i], call.depth, seen, call.at)
    BY <1>1 DEF FieldCalls
  <2> QED BY <2>1, <2>2 DEF CallInv, FieldCall
<1>4. CallsInv(calls)
  <2> HIDE DEF calls
  <2> QED BY <1>2, <1>3, CallsOf
<1> QED BY <1>4

LEMMA StartInv == heap \in Heaps => CallsInv(Start)
<1> SUFFICES ASSUME heap \in Heaps PROVE CallsInv(Start)
  OBVIOUS
<1> DEFINE call == ValueCall(heap.root, 0, {}, << >>)
<1>1. /\ call.call = "value" /\ call.value = heap.root /\ call.depth = 0 /\ call.at = << >>
  BY DEF ValueCall
<1>2. heap.root \in Values
  BY HeapAssumption DEF Values
<1>3. IsSequence(<< >>) /\ Len(<< >>) = 0
  BY DEF IsSequence
<1>4. CallInv(call)
  <2> HIDE DEF call
  <2> QED BY <1>1, <1>2, <1>3, NormalizeAssumption DEF CallInv
<1> QED BY <1>4, OneCall DEF Start

LEMMA StepKeeps == Inv /\ [Next]_vars => Inv'
<1> SUFFICES ASSUME Inv, [Next]_vars PROVE Inv'
  OBVIOUS
<1>0. ASSUME todo # <<>>
      PROVE  CallInv(Current) /\ (Current.call = "value" => Current.value \in Values)
  BY <1>0, TailKeeps DEF Inv, Current, CallInv
<1>1. CASE Return \/ Drain \/ CutOff
  <2>1. todo # <<>> /\ Continue(<< >>)
    BY <1>1 DEF Return, Drain, CutOff, Walked
  <2> QED BY <2>1, NoCalls, ContinueKeeps
<1>2. CASE Follow
  <2> DEFINE target == ValueOf(Current.value).elems[1]
             call == ValueCall(target, Current.depth, Seen(Current), Current.at)
  <2>1. /\ todo # <<>> /\ Current.call = "value" /\ Current.depth <= MaxDepth
        /\ ValueOf(Current.value).kind \in {"pointer", "interface"}
        /\ ~ValueOf(Current.value).isNil /\ Continue(<<call>>)
    BY <1>2 DEF Follow, Walked
  <2>2. target \in Values
    BY <1>0, <2>1, ValueFacts
  <2>3. CallInv(call)
    BY <1>0, <2>1, <2>2 DEF CallInv, ValueCall
  <2> HIDE DEF call
  <2>4. CallsInv(<<call>>)
    BY <2>3, OneCall
  <2> QED BY <2>1, <2>4, ContinueKeeps
<1>3. CASE WalkList
  <2> DEFINE items == ValueOf(Current.value).elems
             calls == [i \in DOMAIN items |-> Part(items[i], IndexElem(i - 1))]
  <2>1. /\ todo # <<>> /\ Current.call = "value" /\ Current.depth <= MaxDepth
        /\ ValueOf(Current.value).kind \in {"slice", "array"} /\ Continue(calls)
    BY <1>3 DEF WalkList, Walked
  <2>2. PICK n \in Nat : DOMAIN items = 1..n
    BY <1>0, <2>1, ValueFacts
  <2>3. ASSUME NEW i \in 1..n
        PROVE  calls[i] = Part(items[i], IndexElem(i - 1)) /\ CallInv(calls[i])
    <3>1. items[i] \in Values
      BY <1>0, <2>1, <2>2, ValueFacts
    <3> QED BY <2>1, <2>2, <3>1, PartKeeps
  <2>4. calls = [i \in 1..n |-> calls[i]]
    BY <2>2
  <2> HIDE DEF calls
  <2>5. CallsInv(calls)
    BY <2>3, <2>4, CallsOf
  <2> QED BY <2>1, <2>5, ContinueKeeps
<1>4. CASE WalkMap
  <2> DEFINE entries == ValueOf(Current.value).elems
  <2>1. PICK order \in Bijection(DOMAIN entries, DOMAIN entries) :
            Continue([i \in DOMAIN entries |->
                        Part(entries[order[i]].value, KeyElem(entries[order[i]].name))])
    BY <1>4 DEF WalkMap
  <2> DEFINE calls == [i \in DOMAIN entries |->
                          Part(entries[order[i]].value, KeyElem(entries[order[i]].name))]
  <2>2. /\ todo # <<>> /\ Current.call = "value" /\ Current.depth <= MaxDepth
        /\ ValueOf(Current.value).kind = "map" /\ Continue(calls)
    BY <1>4, <2>1 DEF WalkMap, Walked
  <2>3. PICK n \in Nat : DOMAIN entries = 1..n
    BY <1>0, <2>2, ValueFacts
  <2>4. ASSUME NEW i \in 1..n
        PROVE  CallInv(calls[i])
    <3>1. order[i] \in DOMAIN entries
      BY <2>1, <2>3 DEF Bijection, Injection
    <3>2. entries[order[i]].value \in Values
      BY <1>0, <2>2, <3>1, ValueFacts
    <3>3. calls[i] = Part(entries[order[i]].value, KeyElem(entries[order[i]].name))
      BY <2>3
    <3> QED BY <2>2, <3>2, <3>3, PartKeeps
  <2>5. calls = [i \in 1..n |-> calls[i]]
    BY <2>3
  <2> HIDE DEF calls
  <2>6. CallsInv(calls)
    BY <2>3, <2>4, <2>5, CallsOf
  <2> QED BY <2>2, <2>6, ContinueKeeps
<1>5. CASE WalkStruct
  <2>1. /\ todo # <<>> /\ Current.call = "value" /\ Current.depth <= MaxDepth
        /\ ValueOf(Current.value).kind = "struct"
        /\ Continue(FieldCalls(Current.value, Current.depth, Current.seen, Current.at))
    BY <1>5 DEF WalkStruct, Walked
  <2> QED BY <1>0, <2>1, FieldsKeep, ContinueKeeps
<1>6. CASE InlineField
  <2>1. PICK target \in Inlined(Current.field) :
            Continue(FieldCalls(target, Current.depth, Current.seen, Current.at))
    BY <1>6 DEF InlineField
  <2>2. todo # <<>> /\ Current.call = "field"
    BY <1>6 DEF InlineField
  <2>3. Current.field.value \in Values /\ Current.depth <= MaxDepth
    BY <1>0, <2>2 DEF CallInv
  <2>4. target \in Values /\ ValueOf(target).kind = "struct"
    BY <2>1, <2>3, ValueFacts DEF Inlined
  <2> QED BY <1>0, <2>1, <2>2, <2>3, <2>4, FieldsKeep, ContinueKeeps
<1>7. CASE AddField
  <2> DEFINE elem == KeyElem(FieldName(Current.field))
             call == ValueCall(Current.field.value, Current.depth + 1, Current.seen,
                               Append(Current.at, elem))
  <2>1. /\ todo # <<>> /\ Current.call = "field"
        /\ Continue(IF Omitted(Current.field) THEN << >> ELSE <<call>>)
    BY <1>7 DEF AddField
  <2>2. IsSequence(Append(Current.at, elem)) /\ Len(Append(Current.at, elem)) = Current.depth + 1
    BY <1>0, <2>1, AppendAny DEF CallInv
  <2>3. CallInv(call)
    BY <1>0, <2>1, <2>2, NormalizeAssumption DEF CallInv, ValueCall
  <2> HIDE DEF call
  <2>4. CallsInv(<<call>>)
    BY <2>3, OneCall
  <2> QED BY <2>1, <2>4, NoCalls, ContinueKeeps
<1>8. CASE Rerun
  <2>1. CallsInv(Start)
    BY StartInv DEF Inv
  <2>2. todo' = Start /\ heap' = heap
    BY <1>8 DEF Rerun
  <2> QED BY <2>1, <2>2 DEF Inv, CallsInv, CallInv, Values
<1>9. CASE UNCHANGED vars
  BY <1>9 DEF vars, Inv, CallsInv, CallInv, Values
<1> QED BY <1>1, <1>2, <1>3, <1>4, <1>5, <1>6, <1>7, <1>8, <1>9 DEF Next, Step

LEMMA InitInv == Init => Inv
BY StartInv DEF Init, Inv

-----------------------------------------------------------------------------
(* The result is a document at every step. *)

\* The position of the container that a call puts something into, if it is not the root
\* that it puts in place.
HasHolder(call) == call.call = "field" \/ call.at # <<>>
Holder(call) == IF call.call = "field" THEN call.at ELSE Front(call.at)

\* The container is in the result; a list has all its items from the start.
PlaceFor(call, doc) ==
    HasHolder(call) =>
        /\ Holder(call) \in DOMAIN doc
        /\ call.call = "field" => doc[call.at] = MapNode
        /\ call.call = "value" =>
              /\ doc[Holder(call)] = IF IsIndex(Last(call.at)) THEN ListNode ELSE MapNode
              /\ IsIndex(Last(call.at)) => call.at \in DOMAIN doc

\* The call, and those it makes, leave alone what is at position q: a value is put
\* over what is at its place and below, a field below its struct.
Spares(call, q) ==
    IF call.call = "field" THEN ~IsStrictPrefix(call.at, q) ELSE ~IsPrefix(call.at, q)

\* No call removes the container of one that comes after it.
Placed(calls, doc) ==
    /\ \A i \in DOMAIN calls :
          /\ calls[i].call \in {"value", "field"} /\ calls[i].at \in Seq(Elem)
          /\ calls[i].call = "field" =>
                calls[i].field.name \in Name /\ calls[i].field.tag \in Name \cup {NoTag, Dash}
          /\ PlaceFor(calls[i], doc)
    /\ \A i, j \in DOMAIN calls :
          i < j /\ HasHolder(calls[j]) => Spares(calls[i], Holder(calls[j]))

TreeInv ==
    /\ Placed(todo, document)
    /\ IsTree(document)
    /\ earlier = Unknown \/ IsDocument(earlier)
    /\ drained \subseteq Values

-----------------------------------------------------------------------------
(* Documents. *)

\* A list of scalars.
LEMMA ListTree ==
    ASSUME NEW n \in Nat, NEW x
    PROVE  LET list == ListOf([i \in 1..n |-> Leaf(x)])
           IN  /\ IsTree(list)
               /\ DOMAIN list = {<<>>} \cup {<<IndexElem(i - 1)>> : i \in 1..n}
               /\ \A i \in 1..n : <<IndexElem(i - 1)>> \in DOMAIN list
  <1> DEFINE items == [i \in 1..n |-> Leaf(x)]
             elems == {IndexElem(i - 1) : i \in 1..n}
             children == [e \in {IndexElem(i - 1) : i \in DOMAIN items} |-> items[e[2] + 1]]
             below == UNION {{<<e>> \o r : r \in DOMAIN children[e]} : e \in DOMAIN children}
             list == ListOf(items)
             value(q) == IF q = <<>> THEN ListNode ELSE children[Head(q)][Tail(q)]
  <1>1. list = [q \in {<<>>} \cup below |-> value(q)]
    BY DEF ListOf, Container
  <1>2. DOMAIN children = elems /\ \A e \in elems : children[e] = Leaf(x)
    <2>1. \A i \in 1..n : IndexElem(i - 1)[2] + 1 = i
      BY DEF IndexElem
    <2> QED
      BY <2>1
  <1>3. below = {<<e>> : e \in elems}
    <2> DEFINE under(e) == {<<e>> \o r : r \in DOMAIN children[e]}
    <2> HIDE DEF children, elems
    <2>1. \A e : <<e>> \o <<>> = <<e>>
      OBVIOUS
    <2>2. ASSUME NEW e \in elems PROVE under(e) = {<<e>>}
      BY <1>2, <2>1 DEF Leaf
    <2>3. below = UNION {under(e) : e \in DOMAIN children}
      OBVIOUS
    <2> HIDE DEF below, under
    <2>4. \A y : y \in below <=> \E e \in elems : y \in {<<e>>}
      BY <1>2, <2>2, <2>3
    <2> QED
      BY <2>4
  <1> HIDE DEF list, below, value
  <1>4. DOMAIN list = {<<>>} \cup {<<e>> : e \in elems}
    BY <1>1, <1>3
  <1>5. list[<<>>] = ListNode /\ list = [q \in DOMAIN list |-> list[q]]
    BY <1>1 DEF value
  <1>6. elems \subseteq Elem
    BY DEF Elem, IndexElem
  <1>7. DOMAIN list \subseteq Seq(Elem)
    <2> HIDE DEF elems
    <2>1. ASSUME NEW e \in Elem PROVE <<e>> \in Seq(Elem)
      OBVIOUS
    <2>2. <<>> \in Seq(Elem)
      OBVIOUS
    <2> QED
      BY <1>4, <1>6, <2>1, <2>2
  <1>8. ASSUME NEW q \in DOMAIN list, q # <<>> PROVE Fits(list, Front(q), Last(q))
    <2>1. PICK i \in 1..n : q = <<IndexElem(i - 1)>>
      BY <1>4, <1>8
    <2>2. Front(q) = <<>> /\ Last(q) = IndexElem(i - 1)
      BY <2>1 DEF Front, Last
    <2>3. IsIndex(Last(q)) /\ Last(q)[2] = i - 1
      BY <2>2 DEF IsIndex, IndexElem
    <2>4. ASSUME i - 1 # 0 PROVE Append(<<>>, IndexElem(i - 1 - 1)) \in DOMAIN list
      <3>1. i - 1 \in 1..n
        BY <2>4
      <3>2. IndexElem(i - 1 - 1) \in elems
        BY <3>1
      <3>3. Append(<<>>, IndexElem(i - 1 - 1)) = <<IndexElem(i - 1 - 1)>>
        OBVIOUS
      <3> QED
        BY <1>4, <3>2, <3>3
    <2> QED
      BY <1>4, <1>5, <2>2, <2>3, <2>4 DEF Fits
  <1>9. IsTree(list)
    BY <1>4, <1>5, <1>7, <1>8, TreeDef
  <1>10. \A i \in 1..n : <<IndexElem(i - 1)>> \in DOMAIN list
    BY <1>4
  <1>11. DOMAIN list = {<<>>} \cup {<<IndexElem(i - 1)>> : i \in 1..n}
    BY <1>4
  <1> QED
    BY <1>9, <1>10, <1>11 DEF list

-----------------------------------------------------------------------------
(* The calls and their places. *)

\* A container has a position.
LEMMA HolderFacts ==
    ASSUME NEW call, call.at \in Seq(Elem), HasHolder(call)
    PROVE  Holder(call) \in Seq(Elem)
  <1>1. CASE call.call = "field"
    BY <1>1 DEF Holder
  <1>2. CASE call.call # "field"
    BY <1>2, ChildOf DEF Holder, HasHolder
  <1> QED
    BY <1>1, <1>2

\* The first call and the other ones.
LEMMA Calls ==
    ASSUME Inv, todo # <<>>
    PROVE  /\ Len(todo) \in Nat \ {0} /\ DOMAIN todo = 1..Len(todo) /\ Current = todo[1]
           /\ Tail(todo) \in Seq(Range(todo)) /\ Len(Tail(todo)) = Len(todo) - 1
           /\ \A i \in 1..Len(todo)-1 : Tail(todo)[i] = todo[i + 1]
  <1> DEFINE S == Range(todo)
  <1>1. todo \in Seq(S)
    BY SequenceFacts DEF Inv, CallsInv
  <1> HIDE DEF S
  <1>2. Len(todo) \in Nat \ {0} /\ DOMAIN todo = 1..Len(todo) /\ Head(todo) = todo[1]
    BY <1>1
  <1>3. /\ Tail(todo) \in Seq(S) /\ Len(Tail(todo)) = Len(todo) - 1
        /\ \A i \in 1..Len(todo)-1 : Tail(todo)[i] = todo[i + 1]
    BY <1>1, <1>2
  <1> QED
    BY <1>2, <1>3 DEF Current, S

\* A call is replaced by calls that have their place and write no more than it would.
LEMMA Continued ==
    ASSUME Inv, TreeInv, todo # <<>>, NEW calls, CallsInv(calls), Continue(calls),
           IsTree(document'), drained' \subseteq Values,
           \A j \in DOMAIN todo \ {1} : PlaceFor(todo[j], document'),
           Placed(calls, document'),
           \A i \in DOMAIN calls : \A q \in Seq(Elem) : Spares(Current, q) => Spares(calls[i], q)
    PROVE  TreeInv'
  <1> DEFINE n == Len(calls)
             all == calls \o Tail(todo)
             m == Len(todo) - 1
  <1>1. /\ Len(todo) \in Nat \ {0} /\ DOMAIN todo = 1..Len(todo) /\ Current = todo[1]
        /\ Tail(todo) \in Seq(Range(todo)) /\ Len(Tail(todo)) = m
        /\ \A i \in 1..m : Tail(todo)[i] = todo[i + 1]
    BY Calls
  <1>2. /\ n \in Nat /\ DOMAIN calls = 1..n
        /\ DOMAIN all = 1..n+m
        /\ \A i \in 1..n : all[i] = calls[i]
        /\ \A i \in n+1..n+m : all[i] = todo[i - n + 1]
    <2>1. /\ calls \in Seq(Range(calls)) /\ n \in Nat /\ DOMAIN calls = 1..n
      BY SequenceFacts DEF CallsInv
    <2>2. m \in Nat
      BY <1>1
    <2> DEFINE S == Range(calls) \cup Range(todo)
               rest == Tail(todo)
    <2>3. /\ Len(all) = n + m /\ DOMAIN all = 1..n+m
          /\ \A i \in 1..n : all[i] = calls[i]
          /\ \A i \in n+1..n+m : all[i] = rest[i - n]
      <3>1. calls \in Seq(S) /\ rest \in Seq(S)
        BY <1>1, <2>1
      <3> HIDE DEF S, rest, m
      <3>2. Len(rest) = m
        BY <1>1 DEF rest
      <3>3. /\ Len(calls \o rest) = n + m /\ DOMAIN (calls \o rest) = 1..n+m
            /\ \A i \in 1..n : (calls \o rest)[i] = calls[i]
            /\ \A i \in n+1..n+m : (calls \o rest)[i] = rest[i - n]
        BY <2>1, <2>2, <3>1, <3>2
      <3> QED
        BY <3>3 DEF rest
    <2>4. \A i \in n+1..n+m : all[i] = todo[i - n + 1]
      BY <1>1, <2>1, <2>2, <2>3
    <2> QED
      BY <2>1, <2>2, <2>3, <2>4
  <1>3. m \in Nat /\ todo' = all /\ heap' = heap /\ earlier' = earlier
    BY <1>1 DEF Continue, Then
  <1> HIDE DEF n, all, m
  <1>4. ASSUME NEW i \in n+1..n+m
        PROVE  /\ i - n + 1 \in DOMAIN todo \ {1} /\ all[i] = todo[i - n + 1]
               /\ i - n + 1 \in DOMAIN todo
    BY <1>1, <1>2, <1>3 DEF m
  <1>5. Placed(all, document')
    <2>1. ASSUME NEW i \in DOMAIN all
          PROVE  /\ all[i].call \in {"value", "field"} /\ all[i].at \in Seq(Elem)
                 /\ all[i].call = "field" =>
                       /\ all[i].field.name \in Name
                       /\ all[i].field.tag \in Name \cup {NoTag, Dash}
                 /\ PlaceFor(all[i], document')
      <3>1. CASE i \in 1..n
        BY <1>2, <3>1 DEF Placed
      <3>2. CASE i \in n+1..n+m
        BY <1>4, <3>2 DEF Placed, TreeInv
      <3> QED
        BY <1>2, <1>3, <3>1, <3>2
    <2>2. ASSUME NEW i \in DOMAIN all, NEW j \in DOMAIN all, i < j, HasHolder(all[j])
          PROVE  Spares(all[i], Holder(all[j]))
      <3>1. CASE j \in 1..n
        <4>1. i \in 1..n
          BY <1>2, <1>3, <2>2, <3>1
        <4> QED
          BY <1>2, <2>2, <3>1, <4>1 DEF Placed
      <3>2. CASE i \in n+1..n+m
        <4>1. j \in n+1..n+m /\ i - n + 1 < j - n + 1
          BY <1>2, <1>3, <2>2, <3>2
        <4> QED
          BY <1>4, <2>2, <3>2, <4>1 DEF Placed, TreeInv
      <3>3. CASE i \in 1..n /\ j \in n+1..n+m
        <4>1. 1 \in DOMAIN todo /\ 1 < j - n + 1
          <5>1. 1 \in DOMAIN todo
            BY <1>1
          <5>2. \A k \in n+1..n+m : 1 < k - n + 1
            BY <1>2, <1>3
          <5> QED
            BY <3>3, <5>1, <5>2
        <4>2. HasHolder(todo[j - n + 1]) /\ all[j] = todo[j - n + 1]
          BY <1>4, <2>2, <3>3
        <4>3. Spares(Current, Holder(all[j]))
          BY <1>1, <1>4, <3>3, <4>1, <4>2 DEF Placed, TreeInv
        <4>4. Holder(all[j]) \in Seq(Elem)
          BY <2>1, <2>2, HolderFacts
        <4> QED
          BY <1>2, <3>3, <4>3, <4>4
      <3> QED
        BY <1>2, <1>3, <3>1, <3>2, <3>3
    <2> QED
      BY <2>1, <2>2 DEF Placed
  <1> QED
    BY <1>3, <1>5 DEF TreeInv, Values

\* What is put in place is a document, and leaves the other calls their places.
LEMMA PutKeeps ==
    ASSUME Inv, TreeInv, todo # <<>>, Current.call = "value", NEW content, IsTree(content),
           Put(content)
    PROVE  /\ IsTree(document')
           /\ \A j \in DOMAIN todo \ {1} : PlaceFor(todo[j], document')
           /\ Current.at \in Seq(Elem)
           /\ Current.at \in DOMAIN document'
           /\ document'[Current.at] = content[<<>>]
           /\ \A r \in DOMAIN content : Current.at \o r \in DOMAIN document'
  <1> DEFINE p == Current.at
             new == document'
  <1>1. /\ Len(todo) \in Nat \ {0} /\ DOMAIN todo = 1..Len(todo) /\ Current = todo[1]
        /\ 1 \in DOMAIN todo
    BY Calls
  <1>2. p \in Seq(Elem) /\ PlaceFor(Current, document) /\ IsTree(document)
    BY <1>1 DEF TreeInv, Placed
  <1>3. p # <<>> => Fits(document, Front(p), Last(p))
    <2> SUFFICES ASSUME p # <<>> PROVE Fits(document, Front(p), Last(p))
      OBVIOUS
    <2>1. /\ Front(p) \in DOMAIN document
          /\ document[Front(p)] = IF IsIndex(Last(p)) THEN ListNode ELSE MapNode
          /\ IsIndex(Last(p)) => p \in DOMAIN document
      BY <1>2 DEF PlaceFor, HasHolder, Holder
    <2>2. p \in DOMAIN document => Fits(document, Front(p), Last(p))
      BY <1>2, TreeDef
    <2> QED
      BY <2>1, <2>2 DEF Fits
  <1>4. new = Graft(document, [at \in {p} |-> content])
    BY DEF Put
  <1>5. Grafted(new, document, content, p) /\ IsTree(new)
    BY <1>2, <1>3, <1>4, GraftAt, GraftFits
  <1>6. \A r \in DOMAIN content : p \o r \in DOMAIN new
    BY <1>5 DEF Grafted
  <1>7. p \in DOMAIN new /\ new[p] = content[<<>>]
    <2>1. <<>> \in DOMAIN content /\ p \o <<>> = p
      BY <1>2, TreeDef
    <2> QED
      BY <1>5, <1>6, <2>1 DEF Grafted
  <1>8. ASSUME NEW j \in DOMAIN todo \ {1} PROVE PlaceFor(todo[j], new)
    <2> DEFINE call == todo[j]
               h == Holder(call)
    <2> SUFFICES ASSUME HasHolder(call) PROVE PlaceFor(call, new)
      BY DEF PlaceFor
    <2>1. /\ call.at \in Seq(Elem) /\ PlaceFor(call, document) /\ Spares(Current, h)
          /\ call.call \in {"value", "field"}
      <3>1. 1 < j
        BY <1>1
      <3> QED
        BY <1>1, <3>1 DEF TreeInv, Placed
    <2>2. h \in Seq(Elem) /\ ~IsPrefix(p, h)
      BY <2>1, HolderFacts DEF Spares
    <2>3. h \in DOMAIN new /\ new[h] = document[h]
      BY <1>5, <2>1, <2>2 DEF Grafted, PlaceFor
    <2>4. ASSUME call.call = "value", IsIndex(Last(call.at)) PROVE call.at \in DOMAIN new
      <3>1. call.at # <<>> /\ h = Front(call.at) /\ call.at \in DOMAIN document
        BY <2>1, <2>4 DEF HasHolder, Holder, PlaceFor
      <3>2. IsPrefix(p, call.at) => p = call.at
        BY <1>2, <2>1, <2>2, <3>1, PrefixOfChild
      <3> QED
        BY <1>5, <1>7, <3>1, <3>2 DEF Grafted
    <2> QED
      BY <2>1, <2>3, <2>4 DEF PlaceFor, Holder
  <1> QED
    BY <1>2, <1>5, <1>6, <1>7, <1>8

\* Without a Put everything stays in place.
LEMMA NoPut ==
    ASSUME TreeInv, UNCHANGED document
    PROVE  IsTree(document') /\ \A j \in DOMAIN todo : PlaceFor(todo[j], document')
  BY DEF TreeInv, Placed

\* Calls for the parts of what is at p.
LEMMA PartsPlaced ==
    ASSUME NEW doc, NEW p \in Seq(Elem), p \in DOMAIN doc, NEW n \in Nat, NEW elem,
           NEW calls, calls = [i \in 1..n |-> calls[i]],
           \A i \in 1..n :
              /\ calls[i].call = "value" /\ elem[i] \in Elem
              /\ calls[i].at = Append(p, elem[i])
              /\ doc[p] = IF IsIndex(elem[i]) THEN ListNode ELSE MapNode
              /\ IsIndex(elem[i]) => Append(p, elem[i]) \in DOMAIN doc
    PROVE  /\ Placed(calls, doc)
           /\ \A i \in DOMAIN calls : \A q \in Seq(Elem) :
                 ~IsStrictPrefix(p, q) => Spares(calls[i], q)
  <1>1. DOMAIN calls = 1..n
    OBVIOUS
  <1>2. ASSUME NEW i \in 1..n
        PROVE  /\ calls[i].at \in Seq(Elem) /\ calls[i].at # <<>>
               /\ Front(calls[i].at) = p /\ Last(calls[i].at) = elem[i]
    <2>1. calls[i].at = Append(p, elem[i]) /\ elem[i] \in Elem
      OBVIOUS
    <2>2. \A e \in Elem : /\ Append(p, e) \in Seq(Elem) /\ Append(p, e) # <<>>
                          /\ Front(Append(p, e)) = p /\ Last(Append(p, e)) = e
      BY Appended
    <2> QED
      BY <2>1, <2>2
  <1>3. ASSUME NEW i \in 1..n, NEW q \in Seq(Elem), ~IsStrictPrefix(p, q)
        PROVE  Spares(calls[i], q)
    <2> DEFINE c == Append(p, elem[i])
    <2>1. c \in Seq(Elem) /\ Len(c) = Len(p) + 1 /\ \A k \in 1..Len(p) : c[k] = p[k]
      BY Appended
    <2> HIDE DEF c
    <2>2. ASSUME IsPrefix(c, q) PROVE IsStrictPrefix(p, q)
      <3>1. Len(c) <= Len(q) /\ \A k \in 1..Len(c) : c[k] = q[k]
        BY <2>1, <2>2, PrefixAt
      <3>2. Len(p) <= Len(q) /\ Len(p) # Len(q) /\ \A k \in 1..Len(p) : p[k] = q[k]
        BY <2>1, <3>1
      <3>3. IsPrefix(p, q) /\ p # q
        BY <3>2, PrefixAt
      <3> QED
        BY <3>3 DEF IsStrictPrefix
    <2> QED
      BY <1>3, <2>2 DEF Spares, c
  <1>4. ~IsStrictPrefix(p, p)
    BY DEF IsStrictPrefix
  <1>5. \A i \in 1..n : PlaceFor(calls[i], doc) /\ Holder(calls[i]) = p
    BY <1>2 DEF PlaceFor, Holder
  <1> QED
    BY <1>1, <1>2, <1>3, <1>4, <1>5 DEF Placed

\* Calls for the fields of the struct at p.
LEMMA FieldsPlaced ==
    ASSUME NEW doc, NEW p \in Seq(Elem), p \in DOMAIN doc, doc[p] = MapNode, NEW n \in Nat,
           NEW calls, calls = [i \in 1..n |-> calls[i]],
           \A i \in 1..n :
              /\ calls[i].call = "field" /\ calls[i].at = p
              /\ calls[i].field.name \in Name /\ calls[i].field.tag \in Name \cup {NoTag, Dash}
    PROVE  /\ Placed(calls, doc)
           /\ \A i \in DOMAIN calls : \A q \in Seq(Elem) :
                 ~IsStrictPrefix(p, q) => Spares(calls[i], q)
  <1>1. DOMAIN calls = 1..n
    OBVIOUS
  <1>2. ~IsStrictPrefix(p, p)
    BY DEF IsStrictPrefix
  <1>3. \A i \in 1..n : PlaceFor(calls[i], doc) /\ Holder(calls[i]) = p
    BY DEF PlaceFor, Holder
  <1> QED
    BY <1>1, <1>2, <1>3 DEF Placed, Spares

\* What a call spares, its parts spare, too.
LEMMA SparesBelow ==
    ASSUME NEW call, NEW q, Spares(call, q)
    PROVE  ~IsStrictPrefix(call.at, q)
  BY DEF Spares, IsStrictPrefix

-----------------------------------------------------------------------------
(* The steps. *)

\* What the heap says of the documents and names in a value.
LEMMA ContentFacts ==
    ASSUME Inv, NEW v \in Values
    PROVE  /\ ValueOf(v).kind \in {"leaf", "own", "reader"} => IsTree(ValueOf(v).content)
           /\ ValueOf(v).kind \in {"map", "struct"} =>
                 \A i \in DOMAIN ValueOf(v).elems : ValueOf(v).elems[i].name \in Name
           /\ ValueOf(v).kind = "struct" =>
                 \A i \in DOMAIN ValueOf(v).elems :
                    ValueOf(v).elems[i].tag \in Name \cup {NoTag, Dash}
           /\ ValueOf(v).kind \in {"leaf", "reader"} => \E x \in Node : ValueOf(v).content = Leaf(x)
  <1>1. heap \in Heaps /\ v \in DOMAIN heap.values /\ ValueOf(v) = heap.values[v]
    BY DEF Inv, ValueOf, Values
  <1>2. ValueOf(v).kind \in {"leaf", "reader"} => \E x \in Node : ValueOf(v).content = Leaf(x)
    BY <1>1, HeapAssumption
  <1>3. ValueOf(v).kind = "own" => IsTree(ValueOf(v).content)
    BY <1>1, HeapAssumption
  <1>4. ValueOf(v).kind \in {"leaf", "own", "reader"} => IsTree(ValueOf(v).content)
    BY <1>2, <1>3, LeafTree
  <1>5. /\ ValueOf(v).kind \in {"map", "struct"} =>
              \A i \in DOMAIN ValueOf(v).elems : ValueOf(v).elems[i].name \in Name
        /\ ValueOf(v).kind = "struct" =>
              \A i \in DOMAIN ValueOf(v).elems :
                 ValueOf(v).elems[i].tag \in Name \cup {NoTag, Dash}
    BY <1>1, HeapAssumption
  <1> QED
    BY <1>2, <1>4, <1>5

\* The call that is handled.
LEMMA CurrentFacts ==
    ASSUME Inv, TreeInv, todo # <<>>
    PROVE  /\ CallInv(Current) /\ Current.at \in Seq(Elem)
           /\ Current.call \in {"value", "field"} /\ PlaceFor(Current, document)
           /\ Current.call = "value" => Current.value \in Values
           /\ Current.call = "field" =>
                 /\ Current.field.value \in Values /\ Current.field.name \in Name
                 /\ Current.field.tag \in Name \cup {NoTag, Dash}
  <1>1. 1 \in DOMAIN todo /\ Current = todo[1]
    BY Calls
  <1>2. CallInv(Current)
    BY <1>1 DEF Inv, CallsInv
  <1> QED
    BY <1>1, <1>2 DEF TreeInv, Placed, CallInv

\* A call that is over.
LEMMA ReturnTree ==
    ASSUME Inv, TreeInv, todo # <<>>, Current.call = "value", NEW content, IsTree(content),
           Put(content), Continue(<<>>), drained' \subseteq Values
    PROVE  TreeInv'
  <1>1. /\ IsTree(document') /\ \A j \in DOMAIN todo \ {1} : PlaceFor(todo[j], document')
    BY PutKeeps
  <1>2. DOMAIN <<>> = {} /\ CallsInv(<<>>)
    BY NoCalls
  <1>3. Placed(<<>>, document')
    BY <1>2 DEF Placed
  <1>4. \A i \in DOMAIN <<>> : \A q \in Seq(Elem) : Spares(Current, q) => Spares(<<>>[i], q)
    BY <1>2
  <1> QED
    BY <1>1, <1>2, <1>3, <1>4, Continued

\* Calls for the parts of a container that was put in place.
LEMMA PartsTree ==
    ASSUME Inv, TreeInv, todo # <<>>, Current.call = "value", Current.depth <= MaxDepth,
           NEW content, IsTree(content), Put(content), UNCHANGED drained,
           NEW n \in Nat, NEW val, NEW elem,
           \A i \in 1..n :
              /\ val[i] \in Values /\ elem[i] \in Elem
              /\ content[<<>>] = IF IsIndex(elem[i]) THEN ListNode ELSE MapNode
              /\ IsIndex(elem[i]) => <<elem[i]>> \in DOMAIN content,
           Continue([i \in 1..n |-> Part(val[i], elem[i])])
    PROVE  TreeInv'
  <1> DEFINE calls == [i \in 1..n |-> Part(val[i], elem[i])]
             p == Current.at
             new == document'
  <1>1. /\ IsTree(new) /\ \A j \in DOMAIN todo \ {1} : PlaceFor(todo[j], new)
        /\ p \in Seq(Elem) /\ p \in DOMAIN new /\ new[p] = content[<<>>]
        /\ \A r \in DOMAIN content : p \o r \in DOMAIN new
    BY PutKeeps
  <1>2. calls = [i \in 1..n |-> calls[i]] /\ \A i \in 1..n : calls[i] = Part(val[i], elem[i])
    OBVIOUS
  <1> HIDE DEF calls, new
  <1>3. CallsInv(calls)
    <2>1. \A i \in 1..n : CallInv(calls[i])
      BY <1>2, PartKeeps
    <2> QED
      BY <1>2, <2>1, CallsOf
  <1>4. \A i \in 1..n : calls[i].call = "value" /\ calls[i].at = Append(p, elem[i])
    BY <1>2 DEF Part, ValueCall
  <1>5. \A e \in Elem : p \o <<e>> = Append(p, e)
    BY <1>1
  <1>6. /\ Placed(calls, new)
        /\ \A i \in DOMAIN calls : \A q \in Seq(Elem) :
              ~IsStrictPrefix(p, q) => Spares(calls[i], q)
    <2>1. \A i \in 1..n :
              /\ calls[i].call = "value" /\ elem[i] \in Elem
              /\ calls[i].at = Append(p, elem[i])
              /\ new[p] = IF IsIndex(elem[i]) THEN ListNode ELSE MapNode
              /\ IsIndex(elem[i]) => Append(p, elem[i]) \in DOMAIN new
      BY <1>1, <1>4, <1>5
    <2> QED
      BY <1>1, <1>2, <2>1, PartsPlaced
  <1>7. \A i \in DOMAIN calls : \A q \in Seq(Elem) : Spares(Current, q) => Spares(calls[i], q)
    BY <1>6, SparesBelow
  <1>8. Continue(calls) /\ drained' \subseteq Values
    BY DEF calls, TreeInv, Continue, Values
  <1> QED
    BY <1>1, <1>3, <1>6, <1>7, <1>8, Continued DEF new

\* Calls for the fields of a struct.
LEMMA FieldsTree ==
    ASSUME Inv, TreeInv, todo # <<>>, Current.depth <= MaxDepth, UNCHANGED drained,
           NEW v \in Values, ValueOf(v).kind = "struct",
           Continue(FieldCalls(v, Current.depth, Current.seen, Current.at)),
           IsTree(document'), \A j \in DOMAIN todo \ {1} : PlaceFor(todo[j], document'),
           Current.at \in DOMAIN document', document'[Current.at] = MapNode
    PROVE  TreeInv'
  <1> DEFINE calls == FieldCalls(v, Current.depth, Current.seen, Current.at)
             p == Current.at
  <1>1. CallInv(Current) /\ p \in Seq(Elem)
    BY CurrentFacts
  <1>2. CallsInv(calls)
    BY <1>1, FieldsKeep
  <1>3. PICK n \in Nat : DOMAIN ValueOf(v).elems = 1..n
    BY ValueFacts
  <1>4. /\ calls = [i \in 1..n |-> calls[i]]
        /\ \A i \in 1..n : calls[i] = FieldCall(ValueOf(v).elems[i], Current.depth, Current.seen, p)
    BY <1>3 DEF FieldCalls
  <1>5. Continue(calls) /\ drained' \subseteq Values
    BY DEF TreeInv, Continue, Values
  <1> HIDE DEF calls
  <1>6. \A i \in 1..n :
           /\ calls[i].call = "field" /\ calls[i].at = p
           /\ calls[i].field.name \in Name /\ calls[i].field.tag \in Name \cup {NoTag, Dash}
    BY <1>3, <1>4, ContentFacts DEF FieldCall
  <1>7. /\ Placed(calls, document')
        /\ \A i \in DOMAIN calls : \A q \in Seq(Elem) :
              ~IsStrictPrefix(p, q) => Spares(calls[i], q)
    BY <1>1, <1>4, <1>6, FieldsPlaced
  <1>8. \A i \in DOMAIN calls : \A q \in Seq(Elem) : Spares(Current, q) => Spares(calls[i], q)
    BY <1>7, SparesBelow
  <1> QED
    BY <1>2, <1>5, <1>7, <1>8, Continued

\* A call that becomes another one, without a result so far.
LEMMA OneTree ==
    ASSUME Inv, TreeInv, todo # <<>>, UNCHANGED <<document, drained>>,
           NEW call, CallInv(call), call.call = "value", call.at \in Seq(Elem),
           PlaceFor(call, document),
           \A q \in Seq(Elem) : Spares(Current, q) => Spares(call, q),
           Continue(<<call>>)
    PROVE  TreeInv'
  <1> DEFINE calls == <<call>>
  <1>1. DOMAIN calls = {1} /\ calls[1] = call
    OBVIOUS
  <1>2. CallsInv(calls)
    BY OneCall
  <1>3. Continue(calls) /\ drained' \subseteq Values
    BY DEF TreeInv, Continue, Values
  <1> HIDE DEF calls
  <1>4. Placed(calls, document')
    BY <1>1 DEF Placed
  <1>5. IsTree(document') /\ \A j \in DOMAIN todo : PlaceFor(todo[j], document')
    BY NoPut
  <1> QED
    BY <1>1, <1>2, <1>3, <1>4, <1>5, Continued

\* The first call needs no place.
LEMMA FirstPlaced ==
    ASSUME NEW v, NEW doc
    PROVE  Placed(<<ValueCall(v, 0, {}, <<>>)>>, doc)
  <1> DEFINE call == ValueCall(v, 0, {}, <<>>)
             calls == <<call>>
  <1>1. call.call = "value" /\ call.at = <<>> /\ <<>> \in Seq(Elem)
    BY DEF ValueCall
  <1>2. DOMAIN calls = {1} /\ calls[1] = call
    OBVIOUS
  <1> HIDE DEF call, calls
  <1>3. ~HasHolder(call)
    BY <1>1 DEF HasHolder
  <1>4. Placed(calls, doc)
    BY <1>1, <1>2, <1>3 DEF Placed, PlaceFor
  <1> QED
    BY <1>4 DEF calls, call

\* Every step keeps the invariant.
LEMMA StepTree == Inv /\ TreeInv /\ [Next]_vars => TreeInv'
  <1> SUFFICES ASSUME Inv, TreeInv, [Next]_vars PROVE TreeInv'
    OBVIOUS
  <1>0. ASSUME todo # <<>>
        PROVE  /\ CallInv(Current) /\ Current.at \in Seq(Elem)
               /\ Current.call \in {"value", "field"} /\ PlaceFor(Current, document)
               /\ Current.call = "value" => Current.value \in Values
               /\ Current.call = "field" =>
                     /\ Current.field.value \in Values /\ Current.field.name \in Name
                     /\ Current.field.tag \in Name \cup {NoTag, Dash}
    BY <1>0, CurrentFacts
  <1>1. CASE Return \/ Drain \/ CutOff
    <2>1. /\ todo # <<>> /\ Current.call = "value" /\ Continue(<<>>)
          /\ drained' \subseteq Values
      <3>1. todo # <<>> /\ Current.call = "value" /\ Continue(<<>>)
        BY <1>1 DEF Return, Drain, CutOff, Walked
      <3>2. drained' = drained \/ drained' = drained \cup {Current.value}
        BY <1>1 DEF Return, Drain, CutOff
      <3> QED
        BY <1>0, <3>1, <3>2 DEF TreeInv, Values, Continue
    <2>2. \E content : IsTree(content) /\ Put(content)
      <3>1. Current.value \in Values
        BY <1>0, <2>1
      <3>2. CASE Return
        BY <3>1, <3>2, LeafTree, ContentFacts DEF Return, Walked
      <3>3. CASE Drain
        BY <3>1, <3>3, LeafTree, ContentFacts DEF Drain, Walked
      <3>4. CASE CutOff
        BY <3>4, LeafTree DEF CutOff
      <3> QED
        BY <1>1, <3>2, <3>3, <3>4
    <2> QED
      BY <2>1, <2>2, ReturnTree
  <1>2. CASE Follow
    <2> DEFINE target == ValueOf(Current.value).elems[1]
               call == ValueCall(target, Current.depth, Seen(Current), Current.at)
    <2>1. /\ todo # <<>> /\ Current.call = "value" /\ Current.depth <= MaxDepth
          /\ ValueOf(Current.value).kind \in {"pointer", "interface"}
          /\ ~ValueOf(Current.value).isNil /\ Continue(<<call>>)
          /\ UNCHANGED <<document, drained>>
      BY <1>2 DEF Follow, Walked
    <2>2. target \in Values
      BY <1>0, <2>1, ValueFacts
    <2>3. CallInv(call)
      BY <1>0, <2>1, <2>2 DEF CallInv, ValueCall
    <2>4. call.call = "value" /\ call.at = Current.at
      BY DEF ValueCall
    <2> HIDE DEF call
    <2>5. /\ PlaceFor(call, document)
          /\ \A q \in Seq(Elem) : Spares(Current, q) => Spares(call, q)
      BY <1>0, <2>1, <2>4 DEF PlaceFor, HasHolder, Holder, Spares
    <2> QED
      BY <1>0, <2>1, <2>3, <2>4, <2>5, OneTree
  <1>3. CASE WalkList
    <2> DEFINE items == ValueOf(Current.value).elems
    <2>1. /\ todo # <<>> /\ Current.call = "value" /\ Current.depth <= MaxDepth
          /\ ValueOf(Current.value).kind \in {"slice", "array"}
          /\ Put(ListOf([i \in DOMAIN items |-> Leaf(Null)]))
          /\ Continue([i \in DOMAIN items |-> Part(items[i], IndexElem(i - 1))])
          /\ UNCHANGED drained
      BY <1>3 DEF WalkList, Walked
    <2>2. PICK n \in Nat : DOMAIN items = 1..n
      BY <1>0, <2>1, ValueFacts
    <2> DEFINE list == ListOf([i \in 1..n |-> Leaf(Null)])
               elem == [i \in 1..n |-> IndexElem(i - 1)]
    <2>3. IsTree(list) /\ \A i \in 1..n : <<IndexElem(i - 1)>> \in DOMAIN list
      BY ListTree
    <2>4. list[<<>>] = ListNode
      BY DEF ListOf, Container
    <2>5. \A i \in 1..n : elem[i] \in Elem /\ IsIndex(elem[i]) /\ elem[i] = IndexElem(i - 1)
      BY DEF Elem, IndexElem, IsIndex
    <2>6. \A i \in 1..n : items[i] \in Values
      BY <1>0, <2>1, <2>2, ValueFacts
    <2>7. Put(list)
      BY <2>1, <2>2
    <2>8. Continue([i \in 1..n |-> Part(items[i], elem[i])])
      BY <2>1, <2>2
    <2> HIDE DEF list, elem, items
    <2> QED
      BY <2>1, <2>3, <2>4, <2>5, <2>6, <2>7, <2>8, PartsTree
  <1>4. CASE WalkMap
    <2> DEFINE entries == ValueOf(Current.value).elems
    <2>1. PICK order \in Bijection(DOMAIN entries, DOMAIN entries) :
              Continue([i \in DOMAIN entries |->
                          Part(entries[order[i]].value, KeyElem(entries[order[i]].name))])
      BY <1>4 DEF WalkMap
    <2>2. /\ todo # <<>> /\ Current.call = "value" /\ Current.depth <= MaxDepth
          /\ ValueOf(Current.value).kind = "map" /\ Put(Leaf(MapNode)) /\ UNCHANGED drained
      BY <1>4 DEF WalkMap, Walked
    <2>3. PICK n \in Nat : DOMAIN entries = 1..n
      BY <1>0, <2>2, ValueFacts
    <2> DEFINE val == [i \in 1..n |-> entries[order[i]].value]
               elem == [i \in 1..n |-> KeyElem(entries[order[i]].name)]
    <2>4. \A i \in 1..n : order[i] \in DOMAIN entries
      BY <2>1, <2>3 DEF Bijection, Injection
    <2>5. \A i \in 1..n : val[i] \in Values
      BY <1>0, <2>2, <2>4, ValueFacts
    <2>6. \A i \in 1..n : elem[i] \in Elem /\ ~IsIndex(elem[i])
      BY <1>0, <2>2, <2>4, ContentFacts DEF Elem, KeyElem, IsIndex
    <2>7. Continue([i \in 1..n |-> Part(val[i], elem[i])])
      BY <2>1, <2>3
    <2>8. IsTree(Leaf(MapNode)) /\ Leaf(MapNode)[<<>>] = MapNode
      BY LeafTree DEF Leaf
    <2> HIDE DEF val, elem, entries
    <2> QED
      BY <2>2, <2>5, <2>6, <2>7, <2>8, PartsTree
  <1>5. CASE WalkStruct
    <2>1. /\ todo # <<>> /\ Current.call = "value" /\ Current.depth <= MaxDepth
          /\ ValueOf(Current.value).kind = "struct" /\ Put(Leaf(MapNode)) /\ UNCHANGED drained
          /\ Continue(FieldCalls(Current.value, Current.depth, Current.seen, Current.at))
      BY <1>5 DEF WalkStruct, Walked
    <2>2. IsTree(Leaf(MapNode)) /\ Leaf(MapNode)[<<>>] = MapNode
      BY LeafTree DEF Leaf
    <2>3. /\ IsTree(document') /\ \A j \in DOMAIN todo \ {1} : PlaceFor(todo[j], document')
          /\ Current.at \in DOMAIN document' /\ document'[Current.at] = MapNode
      BY <2>1, <2>2, PutKeeps
    <2> QED
      BY <1>0, <2>1, <2>3, FieldsTree
  <1>6. CASE InlineField
    <2>1. PICK target \in Inlined(Current.field) :
              Continue(FieldCalls(target, Current.depth, Current.seen, Current.at))
      BY <1>6 DEF InlineField
    <2>2. todo # <<>> /\ Current.call = "field" /\ UNCHANGED <<document, drained>>
      BY <1>6 DEF InlineField
    <2>3. Current.field.value \in Values /\ Current.depth <= MaxDepth
      BY <1>0, <2>2 DEF CallInv
    <2>4. target \in Values /\ ValueOf(target).kind = "struct"
      BY <2>1, <2>3, ValueFacts DEF Inlined
    <2>5. Current.at \in DOMAIN document /\ document[Current.at] = MapNode
      BY <1>0, <2>2 DEF PlaceFor, HasHolder, Holder
    <2>6. IsTree(document') /\ \A j \in DOMAIN todo : PlaceFor(todo[j], document')
      BY <2>2, NoPut
    <2> QED
      BY <2>1, <2>2, <2>3, <2>4, <2>5, <2>6, FieldsTree
  <1>7. CASE AddField
    <2> DEFINE elem == KeyElem(FieldName(Current.field))
               call == ValueCall(Current.field.value, Current.depth + 1, Current.seen,
                                 Append(Current.at, elem))
    <2>1. /\ todo # <<>> /\ Current.call = "field" /\ UNCHANGED <<document, drained>>
          /\ Continue(IF Omitted(Current.field) THEN <<>> ELSE <<call>>)
      BY <1>7 DEF AddField
    <2>2. CASE Omitted(Current.field)
      <3>1. Continue(<<>>) /\ DOMAIN <<>> = {} /\ CallsInv(<<>>)
        BY <2>1, <2>2, NoCalls
      <3>2. IsTree(document') /\ \A j \in DOMAIN todo : PlaceFor(todo[j], document')
        BY <2>1, NoPut
      <3>3. Placed(<<>>, document')
        BY <3>1 DEF Placed
      <3>4. \A i \in DOMAIN <<>> : \A q \in Seq(Elem) : Spares(Current, q) => Spares(<<>>[i], q)
        BY <3>1
      <3>5. drained' \subseteq Values
        BY <2>1, <3>1 DEF TreeInv, Continue, Values
      <3> QED
        BY <2>1, <3>1, <3>2, <3>3, <3>4, <3>5, Continued
    <2>3. CASE ~Omitted(Current.field)
      <3>1. Continue(<<call>>)
        BY <2>1, <2>3
      <3>2. FieldName(Current.field) \in Name
        BY <1>0, <2>1, <2>3 DEF FieldName, Omitted
      <3>3. elem \in Elem /\ ~IsIndex(elem)
        BY <3>2 DEF Elem, KeyElem, IsIndex
      <3>4. IsSequence(Append(Current.at, elem))
            /\ Len(Append(Current.at, elem)) = Current.depth + 1
        BY <1>0, <2>1, AppendAny DEF CallInv
      <3>5. CallInv(call)
        BY <1>0, <2>1, <3>4, NormalizeAssumption DEF CallInv, ValueCall
      <3>6. call.call = "value" /\ call.at = Append(Current.at, elem)
        BY DEF ValueCall
      <3> HIDE DEF call, elem
      <3>7. /\ call.at \in Seq(Elem) /\ call.at # <<>> /\ Front(call.at) = Current.at
            /\ Last(call.at) = elem
        BY <1>0, <2>1, <3>3, <3>6, Appended
      <3>8. PlaceFor(call, document)
        <4>1. Current.at \in DOMAIN document /\ document[Current.at] = MapNode
          BY <1>0, <2>1 DEF PlaceFor, HasHolder, Holder
        <4> QED
          BY <3>3, <3>6, <3>7, <4>1 DEF PlaceFor, Holder
      <3>9. ASSUME NEW q \in Seq(Elem), Spares(Current, q) PROVE Spares(call, q)
        <4>1. CASE IsPrefix(call.at, q)
          <5>1. IsStrictPrefix(Current.at, q)
            <6>1. /\ Len(call.at) <= Len(q) /\ \A i \in 1..Len(call.at) : call.at[i] = q[i]
              BY <3>7, <4>1, PrefixAt
            <6>2. /\ Len(call.at) = Len(Current.at) + 1
                  /\ \A i \in 1..Len(Current.at) : call.at[i] = Current.at[i]
              BY <1>0, <2>1, <3>3, <3>6, Appended
            <6>3. Current.at \in Seq(Elem)
              BY <1>0, <2>1
            <6>4. /\ Len(Current.at) <= Len(q) /\ Len(Current.at) # Len(q)
                  /\ \A i \in 1..Len(Current.at) : Current.at[i] = q[i]
              BY <6>1, <6>2, <6>3
            <6> QED
              BY <6>3, <6>4, PrefixAt DEF IsStrictPrefix
          <5> QED
            BY <2>1, <3>9, <5>1 DEF Spares
        <4>2. CASE ~IsPrefix(call.at, q)
          BY <3>6, <4>2 DEF Spares
        <4> QED
          BY <4>1, <4>2
      <3> QED
        BY <2>1, <3>1, <3>5, <3>6, <3>7, <3>8, <3>9, OneTree
    <2> QED
      BY <2>2, <2>3
  <1>8. CASE Rerun
    <2> DEFINE call == ValueCall(heap.root, 0, {}, <<>>)
    <2>1. todo' = <<call>> /\ document' = Leaf(Null) /\ drained' = {} /\ earlier' = document
      BY <1>8 DEF Rerun, Start
    <2>2. IsTree(document') /\ IsDocument(document)
      BY <2>1, LeafTree DEF TreeInv, IsTree
    <2>3. Placed(<<call>>, document')
      BY FirstPlaced
    <2> QED
      BY <2>1, <2>2, <2>3 DEF TreeInv
  <1>9. CASE UNCHANGED vars
    BY <1>9 DEF vars, TreeInv, Placed, Values
  <1> QED
    BY <1>1, <1>2, <1>3, <1>4, <1>5, <1>6, <1>7, <1>8, <1>9 DEF Next, Step

\* It holds at the start.
LEMMA InitTree == Init => TreeInv
  <1> SUFFICES ASSUME Init PROVE TreeInv
    OBVIOUS
  <1>1. IsTree(document)
    BY LeafTree DEF Init
  <1>2. Placed(todo, document)
    BY FirstPlaced DEF Init, Start
  <1> QED
    BY <1>1, <1>2 DEF Init, TreeInv

\* For any value, cyclic or not: the result of Normalize is a document at every step. Every
\* list has all its items and only containers hold anything, also where a field or an entry
\* replaces what another one of the same name has left (normalize.go:150, 228).
THEOREM AlwaysDocument == Spec => []TypeOK
  <1>1. TreeInv => TypeOK
    BY DEF TreeInv, IsTree, TypeOK
  <1> QED
    BY <1>1, InitInv, StepKeeps, InitTree, StepTree, PTL DEF Spec

-----------------------------------------------------------------------------
(* The limit holds for the result. *)

\* Everything below the limit and its mark is below one of the positions owned, within
\* the limit, of values that carry their own JSON.
OwnedBy(owned, doc) ==
    /\ owned \subseteq DOMAIN doc
    /\ \A p \in owned : Len(p) <= MaxDepth /\ ValueAt(doc, p) \in OwnContents
    /\ \A q \in DOMAIN doc : Len(q) > MaxDepth + 1 => \E p \in owned : IsPrefix(p, q)

\* What a call puts in place is not inside of any of those.
Outside(call, owned) == HasHolder(call) => \A p \in owned : ~IsPrefix(p, Holder(call))

AllOutside(calls, owned) == \A i \in DOMAIN calls : Outside(calls[i], owned)

DeepInv == \E owned : OwnedBy(owned, document) /\ AllOutside(todo, owned)

\* Two documents that agree on what is at p and below have the same value there.
LEMMA SameBelow ==
    ASSUME NEW old, IsTree(old), NEW new, IsTree(new), NEW p \in Seq(Elem),
           \A x \in Seq(Elem) : IsPrefix(p, x) =>
              /\ x \in DOMAIN new <=> x \in DOMAIN old
              /\ x \in DOMAIN old => new[x] = old[x]
    PROVE  ValueAt(new, p) = ValueAt(old, p)
  <1> DEFINE inside(doc) == {x \in DOMAIN doc : IsPrefix(p, x)}
             rests(doc) == {SubSeq(x, Len(p) + 1, Len(x)) : x \in inside(doc)}
  <1>1. DOMAIN old \subseteq Seq(Elem) /\ DOMAIN new \subseteq Seq(Elem)
    BY DEF IsTree
  <1>2. inside(new) = inside(old)
    BY <1>1
  <1>3. rests(new) = rests(old)
    BY <1>2
  <1>4. ASSUME NEW r \in rests(old) PROVE new[p \o r] = old[p \o r]
    <2>1. PICK x \in inside(old) : r = SubSeq(x, Len(p) + 1, Len(x))
      BY <1>4
    <2>2. x \in Seq(Elem) /\ IsPrefix(p, x)
      BY <1>1, <2>1
    <2>3. p \o r = x
      <3>1. Len(p) <= Len(x) /\ \A i \in 1..Len(p) : p[i] = x[i]
        BY <2>2, PrefixAt
      <3> QED
        BY <2>1, <2>2, <3>1
    <2> QED
      BY <2>1, <2>2, <2>3
  <1>5. /\ ValueAt(new, p) = [r \in rests(new) |-> new[p \o r]]
        /\ ValueAt(old, p) = [r \in rests(old) |-> old[p \o r]]
    BY DEF ValueAt
  <1> HIDE DEF rests
  <1> QED
    BY <1>3, <1>4, <1>5

\* What was put at p is the value there.
LEMMA ValueGrafted ==
    ASSUME NEW doc, NEW new, IsTree(new), NEW content, IsTree(content), NEW p \in Seq(Elem),
           Grafted(new, doc, content, p)
    PROVE  ValueAt(new, p) = content
  <1> DEFINE inside == {x \in DOMAIN new : IsPrefix(p, x)}
             rests == {SubSeq(x, Len(p) + 1, Len(x)) : x \in inside}
  <1>1. DOMAIN content \subseteq Seq(Elem) /\ content = [r \in DOMAIN content |-> content[r]]
    BY DEF IsTree
  <1>2. ASSUME NEW r \in DOMAIN content
        PROVE  /\ p \o r \in inside /\ SubSeq(p \o r, Len(p) + 1, Len(p \o r)) = r
               /\ new[p \o r] = content[r]
    <2>1. IsPrefix(p, p \o r) /\ SubSeq(p \o r, Len(p) + 1, Len(p \o r)) = r
      BY <1>1, Below
    <2>2. p \o r \in DOMAIN new /\ new[p \o r] = content[r]
      BY DEF Grafted
    <2> QED
      BY <2>1, <2>2
  <1>3. \A x \in inside : \E r \in DOMAIN content : x = p \o r
    BY DEF Grafted
  <1> HIDE DEF inside
  <1>4. rests = DOMAIN content
    BY <1>2, <1>3
  <1>5. ValueAt(new, p) = [r \in rests |-> new[p \o r]]
    BY DEF ValueAt, inside
  <1> HIDE DEF rests
  <1> QED
    BY <1>1, <1>2, <1>4, <1>5

\* What is put in place of something makes nothing too deep, or is itself such a value.
Shallow(content, depth) ==
    \A r \in DOMAIN content : r = <<>> \/ (Len(r) = 1 /\ depth <= MaxDepth)

LEMMA TooDeep ==
    ASSUME NEW a \in Nat, NEW b \in Nat, a <= MaxDepth + 1, b = 0 \/ (b = 1 /\ a <= MaxDepth)
    PROVE  ~(a + b > MaxDepth + 1)
  BY NormalizeAssumption

LEMMA EmptyPrefix == ASSUME NEW S, NEW p \in Seq(S) PROVE IsPrefix(<<>>, p)
  <1> DEFINE e == <<>>
  <1>1. e \in Seq(S) /\ Len(e) = 0 /\ Len(p) \in Nat
    OBVIOUS
  <1> HIDE DEF e
  <1>2. Len(e) <= Len(p) /\ \A i \in 1..Len(e) : e[i] = p[i]
    BY <1>1
  <1>3. IsPrefix(e, p)
    BY <1>1, <1>2, PrefixAt
  <1> QED
    BY <1>3 DEF e

\* The positions owned after a Put are those that it does not cover, and maybe its own.
LEMMA PutDeep ==
    ASSUME Inv, TreeInv, todo # <<>>, Current.call = "value", NEW content, IsTree(content),
           Put(content), NEW owned, OwnedBy(owned, document), AllOutside(todo, owned),
           NEW more \in {{}, {Current.at}},
           more = {} => Shallow(content, Current.depth),
           more # {} => content \in OwnContents /\ Current.depth <= MaxDepth
    PROVE  \E now : /\ OwnedBy(now, document')
                    /\ \A j \in DOMAIN todo \ {1} : Outside(todo[j], now)
                    /\ more = {} => \A o \in now : ~IsPrefix(o, Current.at)
  <1> DEFINE p == Current.at
             new == document'
             kept == {o \in owned : ~IsPrefix(p, o)}
             now == kept \cup more
  <1>1. /\ DOMAIN todo = 1..Len(todo) /\ Len(todo) \in Nat \ {0} /\ Current = todo[1]
        /\ 1 \in DOMAIN todo
    BY Calls
  <1>2. /\ p \in Seq(Elem) /\ IsTree(document) /\ CallInv(Current) /\ PlaceFor(Current, document)
        /\ IsTree(new) /\ p \in DOMAIN new
    BY CurrentFacts, PutKeeps DEF TreeInv
  <1>3. Grafted(new, document, content, p)
    BY <1>2, GraftAt DEF Put
  <1>4. Len(p) = Current.depth /\ Current.depth \in Nat /\ Current.depth <= MaxDepth + 1
    BY <1>2 DEF CallInv
  <1>5. \A o \in owned : o \in DOMAIN document /\ o \in Seq(Elem)
    BY <1>2 DEF OwnedBy, IsTree
  <1>6. /\ DOMAIN new \subseteq Seq(Elem) /\ DOMAIN document \subseteq Seq(Elem)
        /\ DOMAIN content \subseteq Seq(Elem)
    BY <1>2 DEF IsTree
  <1> HIDE DEF new
  <1>7. ASSUME NEW o \in kept PROVE o \in Seq(Elem) /\ o \in owned /\ ~IsPrefix(p, o) /\ ~IsPrefix(o, p)
    <2>1. o \in Seq(Elem) /\ o \in owned /\ ~IsPrefix(p, o)
      BY <1>5, <1>7
    <2>2. ASSUME IsPrefix(o, p) PROVE FALSE
      <3>1. p # <<>> /\ o # p
        <4>1. IsPrefix(<<>>, o)
          BY <2>1, EmptyPrefix
        <4>2. IsPrefix(p, p)
          BY <1>2, PrefixesInside
        <4> QED
          BY <2>1, <4>1, <4>2
      <3>2. IsPrefix(o, Front(p))
        BY <1>2, <2>1, <2>2, <3>1, PrefixOfChild
      <3>3. HasHolder(Current) /\ Holder(Current) = Front(p)
        BY <3>1 DEF HasHolder, Holder
      <3> QED
        BY <1>1, <2>1, <3>2, <3>3 DEF AllOutside, Outside
    <2> QED
      BY <2>1, <2>2
  <1>8. ASSUME NEW o \in kept PROVE o \in DOMAIN new /\ ValueAt(new, o) = ValueAt(document, o)
    <2>1. ASSUME NEW x \in Seq(Elem), IsPrefix(o, x) PROVE ~IsPrefix(p, x)
      BY <1>2, <1>7, <2>1, OneInOther
    <2>2. ASSUME NEW x \in Seq(Elem), IsPrefix(o, x)
          PROVE  /\ x \in DOMAIN new <=> x \in DOMAIN document
                 /\ x \in DOMAIN document => new[x] = document[x]
      <3>1. ~IsPrefix(p, x)
        BY <2>1, <2>2
      <3>2. \A r \in DOMAIN content : x # p \o r
        BY <1>2, <1>6, <3>1, Below
      <3> QED
        BY <1>3, <3>1, <3>2 DEF Grafted
    <2>3. ValueAt(new, o) = ValueAt(document, o)
      BY <1>2, <1>7, <2>2, SameBelow
    <2>4. IsPrefix(o, o) /\ o \in DOMAIN document
      BY <1>5, <1>7, PrefixesInside
    <2> QED
      BY <1>7, <2>2, <2>3, <2>4
  <1>9. ASSUME NEW q \in DOMAIN new, Len(q) > MaxDepth + 1 PROVE \E o \in now : IsPrefix(o, q)
    <2>1. CASE q \in DOMAIN document /\ ~IsPrefix(p, q)
      <3>1. PICK o \in owned : IsPrefix(o, q)
        BY <1>9, <2>1 DEF OwnedBy
      <3>2. ASSUME IsPrefix(p, o) PROVE FALSE
        BY <1>2, <1>5, <1>6, <2>1, <3>1, <3>2, PrefixOfPrefix
      <3> QED
        BY <3>1, <3>2
    <2>2. ASSUME NEW r \in DOMAIN content, q = p \o r PROVE \E o \in now : IsPrefix(o, q)
      <3>1. r \in Seq(Elem) /\ IsPrefix(p, q)
        BY <1>2, <1>6, <2>2, Below
      <3>2. CASE more = {}
        <4>1. Len(q) = Len(p) + Len(r) /\ Len(p) \in Nat /\ Len(r) \in Nat
          BY <1>2, <2>2, <3>1
        <4>2. Len(r) = 0 \/ (Len(r) = 1 /\ Current.depth <= MaxDepth)
          BY <3>2 DEF Shallow
        <4> DEFINE a == Len(p)
                   b == Len(r)
        <4>3. a \in Nat /\ a <= MaxDepth + 1 /\ (b = 0 \/ (b = 1 /\ a <= MaxDepth))
          BY <1>4, <4>1, <4>2
        <4>4. Len(q) = a + b /\ b \in Nat
          BY <4>1
        <4> HIDE DEF a, b
        <4>5. ~(a + b > MaxDepth + 1)
          BY <4>3, <4>4, TooDeep
        <4>6. ~(Len(q) > MaxDepth + 1)
          BY <4>4, <4>5
        <4> QED
          BY <1>9, <4>6
      <3>3. CASE more = {p}
        BY <3>1, <3>3
      <3> QED
        BY <3>2, <3>3
    <2> QED
      BY <1>3, <2>1, <2>2 DEF Grafted
  <1>10. ASSUME NEW o \in now
         PROVE  o \in DOMAIN new /\ Len(o) <= MaxDepth /\ ValueAt(new, o) \in OwnContents
    <2>1. CASE o \in kept
      BY <1>7, <1>8, <2>1 DEF OwnedBy
    <2>2. CASE o \in more
      <3>1. o = p /\ content \in OwnContents /\ Current.depth <= MaxDepth
        BY <2>2
      <3>2. ValueAt(new, p) = content
        BY <1>2, <1>3, ValueGrafted DEF new
      <3> QED
        BY <1>2, <1>4, <3>1, <3>2 DEF new
    <2> QED
      BY <2>1, <2>2
  <1>11. OwnedBy(now, new)
    <2> HIDE DEF now
    <2> QED
      BY <1>9, <1>10 DEF OwnedBy
  <1>12. ASSUME NEW j \in DOMAIN todo \ {1} PROVE Outside(todo[j], now)
    <2> SUFFICES ASSUME HasHolder(todo[j]), NEW o \in now PROVE ~IsPrefix(o, Holder(todo[j]))
      BY DEF Outside
    <2>1. CASE o \in kept
      BY <1>7, <2>1 DEF AllOutside, Outside
    <2>2. CASE o \in more
      <3>1. 1 < j
        BY <1>1
      <3>2. Spares(Current, Holder(todo[j]))
        BY <1>1, <3>1 DEF TreeInv, Placed
      <3> QED
        BY <2>2, <3>2 DEF Spares
    <2> QED
      BY <2>1, <2>2
  <1>13. more = {} => \A o \in now : ~IsPrefix(o, p)
    BY <1>7
  <1> QED
    BY <1>11, <1>12, <1>13 DEF new

\* After a step the calls that are to come are those it makes and all but the first one.
LEMMA CallsAfter ==
    ASSUME Inv, todo # <<>>, NEW calls, IsSequence(calls), Continue(calls), NEW i \in DOMAIN todo'
    PROVE  \/ \E j \in DOMAIN calls : todo'[i] = calls[j]
           \/ \E j \in DOMAIN todo \ {1} : todo'[i] = todo[j]
  <1> DEFINE t == Tail(todo)
             S == Range(calls) \cup Range(todo)
  <1>1. calls \in Seq(Range(calls)) /\ t \in Seq(Range(todo))
    BY Calls, SequenceFacts
  <1>2. calls \in Seq(S) /\ t \in Seq(S)
    BY <1>1
  <1>3. \A j \in DOMAIN t : j + 1 \in DOMAIN todo \ {1} /\ t[j] = todo[j + 1]
    <2>1. /\ Len(todo) \in Nat \ {0} /\ DOMAIN todo = 1..Len(todo)
          /\ Len(t) = Len(todo) - 1 /\ \A j \in 1..Len(todo)-1 : t[j] = todo[j + 1]
      BY Calls
    <2>2. DOMAIN t = 1..Len(t)
      BY <1>1
    <2> HIDE DEF t
    <2> QED
      BY <2>1, <2>2
  <1>4. todo' = calls \o t
    BY DEF Continue, Then
  <1> HIDE DEF S, t
  <1>5. /\ Len(calls) \in Nat /\ Len(t) \in Nat
        /\ DOMAIN calls = 1..Len(calls) /\ DOMAIN t = 1..Len(t)
        /\ DOMAIN (calls \o t) = 1..Len(calls) + Len(t)
        /\ \A j \in 1..Len(calls) : (calls \o t)[j] = calls[j]
        /\ \A j \in Len(calls)+1..Len(calls)+Len(t) : (calls \o t)[j] = t[j - Len(calls)]
    BY <1>2
  <1>6. i \in 1..Len(calls) + Len(t)
    BY <1>4, <1>5
  <1>7. CASE i \in 1..Len(calls)
    BY <1>4, <1>5, <1>7
  <1>8. CASE i \in Len(calls)+1..Len(calls)+Len(t)
    <2>1. i - Len(calls) \in DOMAIN t /\ (calls \o t)[i] = t[i - Len(calls)]
      BY <1>5, <1>8
    <2> QED
      BY <1>3, <1>4, <2>1
  <1> QED
    BY <1>5, <1>6, <1>7, <1>8

LEMMA DeepContinues ==
    ASSUME Inv, todo # <<>>, NEW calls, IsSequence(calls), Continue(calls),
           NEW now, OwnedBy(now, document'), AllOutside(calls, now),
           \A j \in DOMAIN todo \ {1} : Outside(todo[j], now)
    PROVE  DeepInv'
  <1>1. AllOutside(todo', now)
    BY CallsAfter DEF AllOutside
  <1>2. OwnContents' = OwnContents
    BY DEF Continue, OwnContents, Values, ValueOf
  <1>3. OwnedBy(now, document)'
    BY <1>2 DEF OwnedBy
  <1>4. AllOutside(todo, now)'
    BY <1>1 DEF AllOutside, Outside, HasHolder, Holder
  <1> QED
    BY <1>3, <1>4 DEF DeepInv

\* A call that is over: what it leaves has no parts, or is JSON that a value carries.
LEMMA ReturnDeep ==
    ASSUME Inv, TreeInv, DeepInv, todo # <<>>, Current.call = "value", NEW content,
           IsTree(content), Put(content), Continue(<<>>),
           \/ \E x : content = Leaf(x)
           \/ content \in OwnContents /\ Current.depth <= MaxDepth
    PROVE  DeepInv'
  <1>1. PICK owned : OwnedBy(owned, document) /\ AllOutside(todo, owned)
    BY DEF DeepInv
  <1>2. DOMAIN <<>> = {} /\ IsSequence(<<>>)
    BY NoCalls DEF CallsInv
  <1>3. PICK more \in {{}, {Current.at}} :
           /\ more = {} => Shallow(content, Current.depth)
           /\ more # {} => content \in OwnContents /\ Current.depth <= MaxDepth
    <2>1. CASE \E x : content = Leaf(x)
      <3>1. Shallow(content, Current.depth)
        BY <2>1 DEF Shallow, Leaf
      <3> QED
        BY <3>1
    <2>2. CASE content \in OwnContents /\ Current.depth <= MaxDepth
      BY <2>2
    <2> QED
      BY <2>1, <2>2
  <1>4. PICK now : /\ OwnedBy(now, document')
                   /\ \A j \in DOMAIN todo \ {1} : Outside(todo[j], now)
    BY <1>1, <1>3, PutDeep
  <1>5. AllOutside(<<>>, now)
    BY <1>2 DEF AllOutside
  <1> QED
    BY <1>2, <1>4, <1>5, DeepContinues

\* A container that was put in place, with calls for what is in it.
LEMMA ContainerDeep ==
    ASSUME Inv, TreeInv, DeepInv, todo # <<>>, Current.call = "value", NEW content,
           IsTree(content), Put(content), Shallow(content, Current.depth),
           NEW calls, IsSequence(calls), Continue(calls),
           \A i \in DOMAIN calls : HasHolder(calls[i]) => Holder(calls[i]) = Current.at
    PROVE  DeepInv'
  <1>1. PICK owned : OwnedBy(owned, document) /\ AllOutside(todo, owned)
    BY DEF DeepInv
  <1> DEFINE more == {}
  <1>2. more \in {{}, {Current.at}} /\ (more = {} => Shallow(content, Current.depth))
        /\ (more # {} => content \in OwnContents /\ Current.depth <= MaxDepth)
    OBVIOUS
  <1>3. PICK now : /\ OwnedBy(now, document')
                   /\ \A j \in DOMAIN todo \ {1} : Outside(todo[j], now)
                   /\ \A o \in now : ~IsPrefix(o, Current.at)
    <2>1. more = {}
      OBVIOUS
    <2> HIDE DEF more
    <2>2. \E now : /\ OwnedBy(now, document')
                   /\ \A j \in DOMAIN todo \ {1} : Outside(todo[j], now)
                   /\ more = {} => \A o \in now : ~IsPrefix(o, Current.at)
      BY <1>1, <1>2, PutDeep
    <2> QED
      BY <2>1, <2>2
  <1>4. AllOutside(calls, now)
    BY <1>3 DEF AllOutside, Outside
  <1> QED
    BY <1>3, <1>4, DeepContinues

\* Calls that put things where the one that makes them would.
LEMMA SameDeep ==
    ASSUME Inv, DeepInv, todo # <<>>, UNCHANGED document,
           NEW calls, IsSequence(calls), Continue(calls),
           \A i \in DOMAIN calls : HasHolder(calls[i]) =>
              HasHolder(Current) /\ Holder(calls[i]) = Holder(Current)
    PROVE  DeepInv'
  <1>1. PICK owned : OwnedBy(owned, document) /\ AllOutside(todo, owned)
    BY DEF DeepInv
  <1>2. 1 \in DOMAIN todo /\ Current = todo[1]
    BY Calls
  <1>3. AllOutside(calls, owned)
    BY <1>1, <1>2 DEF AllOutside, Outside
  <1>4. OwnedBy(owned, document')
    BY <1>1
  <1>5. \A j \in DOMAIN todo \ {1} : Outside(todo[j], owned)
    BY <1>1 DEF AllOutside
  <1> QED
    BY <1>3, <1>4, <1>5, DeepContinues

\* Calls for parts, and for fields, put them into what they are parts and fields of.
LEMMA PartsHeld ==
    ASSUME Inv, TreeInv, todo # <<>>, Current.call = "value", NEW n \in Nat, NEW val, NEW elem,
           \A i \in 1..n : elem[i] \in Elem
    PROVE  LET calls == [i \in 1..n |-> Part(val[i], elem[i])]
           IN  /\ IsSequence(calls)
               /\ \A i \in DOMAIN calls : HasHolder(calls[i]) => Holder(calls[i]) = Current.at
  <1> DEFINE calls == [i \in 1..n |-> Part(val[i], elem[i])]
  <1>1. IsSequence(calls)
    <2>1. calls \in [1..n -> Range(calls)]
      BY DEF Range
    <2> HIDE DEF calls
    <2> QED
      BY <2>1 DEF IsSequence
  <1>2. ASSUME NEW i \in DOMAIN calls
        PROVE  HasHolder(calls[i]) => Holder(calls[i]) = Current.at
    <2>1. calls[i].call = "value" /\ calls[i].at = Append(Current.at, elem[i])
      BY DEF Part, ValueCall
    <2>2. Current.at \in Seq(Elem) /\ elem[i] \in Elem
      BY CurrentFacts
    <2> HIDE DEF calls
    <2>3. Front(Append(Current.at, elem[i])) = Current.at
      BY <2>2, Appended
    <2> QED
      BY <2>1, <2>3 DEF Holder
  <1> QED
    BY <1>1, <1>2

LEMMA FieldsHeld ==
    ASSUME Inv, NEW v \in Values, NEW depth, NEW seen, NEW at
    PROVE  LET calls == FieldCalls(v, depth, seen, at)
           IN  /\ IsSequence(calls)
               /\ \A i \in DOMAIN calls : HasHolder(calls[i]) /\ Holder(calls[i]) = at
  <1> DEFINE calls == FieldCalls(v, depth, seen, at)
  <1>1. PICK n \in Nat : DOMAIN ValueOf(v).elems = 1..n
    BY ValueFacts
  <1>2. calls = [i \in 1..n |-> FieldCall(ValueOf(v).elems[i], depth, seen, at)]
    BY <1>1 DEF FieldCalls
  <1> HIDE DEF calls
  <1>3. calls \in [1..n -> Range(calls)]
    BY <1>2 DEF Range
  <1>4. \A i \in DOMAIN calls : calls[i].call = "field" /\ calls[i].at = at
    BY <1>2 DEF FieldCall
  <1>5. IsSequence(calls) /\ \A i \in DOMAIN calls : HasHolder(calls[i]) /\ Holder(calls[i]) = at
    BY <1>3, <1>4 DEF IsSequence, HasHolder, Holder
  <1> QED
    BY <1>5 DEF calls

\* A list of scalars is one level deep.
LEMMA ListShallow ==
    ASSUME NEW n \in Nat, NEW x, NEW depth, depth <= MaxDepth
    PROVE  Shallow(ListOf([i \in 1..n |-> Leaf(x)]), depth)
  <1> DEFINE list == ListOf([i \in 1..n |-> Leaf(x)])
  <1>1. IsTree(list) /\ DOMAIN list = {<<>>} \cup {<<IndexElem(i - 1)>> : i \in 1..n}
    BY ListTree
  <1>2. \A e : Len(<<e>>) = 1
    OBVIOUS
  <1> HIDE DEF list
  <1>3. Shallow(list, depth)
    BY <1>1, <1>2 DEF Shallow
  <1> QED
    BY <1>3 DEF list

\* At the start nothing is deep.
LEMMA FirstDeep ==
    ASSUME NEW v, todo' = <<ValueCall(v, 0, {}, <<>>)>>, document' = Leaf(Null)
    PROVE  DeepInv'
  <1> DEFINE call == ValueCall(v, 0, {}, <<>>)
  <1>1. DOMAIN todo' = {1} /\ todo'[1] = call
    OBVIOUS
  <1>2. AllOutside(todo', {})
    BY DEF AllOutside, Outside
  <1>3. \A q \in DOMAIN document' : q = <<>>
    BY DEF Leaf
  <1>4. ~(0 > MaxDepth + 1)
    BY NormalizeAssumption
  <1>5. OwnedBy({}, document)'
    BY <1>3, <1>4 DEF OwnedBy
  <1>6. AllOutside(todo, {})'
    BY <1>2 DEF AllOutside, Outside
  <1> QED
    BY <1>5, <1>6 DEF DeepInv

LEMMA InitDeep == Init => DeepInv
  <1> SUFFICES ASSUME Init PROVE DeepInv
    OBVIOUS
  <1>1. AllOutside(todo, {})
    BY DEF AllOutside, Outside
  <1>2. \A q \in DOMAIN document : q = <<>>
    BY DEF Init, Leaf
  <1>3. ~(0 > MaxDepth + 1)
    BY NormalizeAssumption
  <1>4. OwnedBy({}, document)
    BY <1>2, <1>3 DEF OwnedBy
  <1> QED
    BY <1>1, <1>4 DEF DeepInv

LEMMA StepDeep == Inv /\ TreeInv /\ DeepInv /\ [Next]_vars => DeepInv'
  <1> SUFFICES ASSUME Inv, TreeInv, DeepInv, [Next]_vars PROVE DeepInv'
    OBVIOUS
  <1>0. ASSUME todo # <<>>
        PROVE  /\ CallInv(Current) /\ Current.at \in Seq(Elem)
               /\ Current.call = "value" => Current.value \in Values
               /\ Current.call = "field" =>
                     /\ Current.field.value \in Values /\ Current.field.name \in Name
                     /\ Current.field.tag \in Name \cup {NoTag, Dash}
    BY <1>0, CurrentFacts
  <1>1. CASE Return \/ Drain \/ CutOff
    <2>1. todo # <<>> /\ Current.call = "value" /\ Continue(<<>>)
      BY <1>1 DEF Return, Drain, CutOff, Walked
    <2>2. Current.value \in Values
      BY <1>0, <2>1
    <2>3. \E content : /\ IsTree(content) /\ Put(content)
                       /\ \/ \E x : content = Leaf(x)
                          \/ content \in OwnContents /\ Current.depth <= MaxDepth
      <3>1. CASE Return
        <4> DEFINE value == ValueOf(Current.value)
        <4>1. CASE Put(Leaf(MaxDepthExceeded)) \/ Put(Leaf(Null))
          BY <4>1, LeafTree
        <4>2. CASE Walked({"leaf", "own"}) /\ Put(value.content)
          <5>1. IsTree(value.content) /\ Current.depth <= MaxDepth
            BY <2>2, <4>2, ContentFacts DEF Walked
          <5>2. CASE value.kind = "leaf"
            BY <2>2, <4>2, <5>1, <5>2, ContentFacts
          <5>3. CASE value.kind = "own"
            <6>1. value.content \in OwnContents
              BY <2>2, <5>3 DEF OwnContents
            <6> QED
              BY <4>2, <5>1, <6>1
          <5> QED
            BY <4>2, <5>2, <5>3 DEF Walked
        <4> QED
          BY <3>1, <4>1, <4>2 DEF Return
      <3>2. CASE Drain
        <4>1. ValueOf(Current.value).kind = "reader"
          BY <3>2 DEF Drain, Walked
        <4>2. \E x : ValueOf(Current.value).content = Leaf(x)
          BY <2>2, <4>1, ContentFacts
        <4> QED
          BY <3>2, <4>2, LeafTree DEF Drain
      <3>3. CASE CutOff
        BY <3>3, LeafTree DEF CutOff
      <3> QED
        BY <1>1, <3>1, <3>2, <3>3
    <2> QED
      BY <2>1, <2>3, ReturnDeep
  <1>2. CASE Follow
    <2> DEFINE target == ValueOf(Current.value).elems[1]
               call == ValueCall(target, Current.depth, Seen(Current), Current.at)
               calls == <<call>>
    <2>1. /\ todo # <<>> /\ Current.call = "value" /\ Continue(calls) /\ UNCHANGED document
      BY <1>2 DEF Follow, Walked
    <2>2. call.call = "value" /\ call.at = Current.at
      BY DEF ValueCall
    <2>3. DOMAIN calls = {1} /\ calls[1] = call /\ calls \in Seq({call})
      OBVIOUS
    <2> HIDE DEF calls, call
    <2>4. \A i \in DOMAIN calls : HasHolder(calls[i]) =>
              HasHolder(Current) /\ Holder(calls[i]) = Holder(Current)
      BY <2>1, <2>2, <2>3 DEF HasHolder, Holder
    <2> QED
      BY <2>1, <2>3, <2>4, SequenceOf, SameDeep
  <1>3. CASE WalkList
    <2> DEFINE items == ValueOf(Current.value).elems
    <2>1. /\ todo # <<>> /\ Current.call = "value" /\ Current.depth <= MaxDepth
          /\ ValueOf(Current.value).kind \in {"slice", "array"}
          /\ Put(ListOf([i \in DOMAIN items |-> Leaf(Null)]))
          /\ Continue([i \in DOMAIN items |-> Part(items[i], IndexElem(i - 1))])
      BY <1>3 DEF WalkList, Walked
    <2>2. PICK n \in Nat : DOMAIN items = 1..n
      BY <1>0, <2>1, ValueFacts
    <2> DEFINE list == ListOf([i \in 1..n |-> Leaf(Null)])
               elem == [i \in 1..n |-> IndexElem(i - 1)]
               calls == [i \in 1..n |-> Part(items[i], elem[i])]
    <2>3. IsTree(list) /\ Shallow(list, Current.depth)
      BY <2>1, ListTree, ListShallow
    <2>4. \A i \in 1..n : elem[i] \in Elem
      BY DEF Elem, IndexElem
    <2>5. Put(list) /\ Continue(calls)
      BY <2>1, <2>2
    <2> HIDE DEF list, elem, items
    <2>6. /\ IsSequence(calls)
          /\ \A i \in DOMAIN calls : HasHolder(calls[i]) => Holder(calls[i]) = Current.at
      BY <2>1, <2>4, PartsHeld
    <2> HIDE DEF calls
    <2> QED
      BY <2>1, <2>3, <2>5, <2>6, ContainerDeep
  <1>4. CASE WalkMap
    <2> DEFINE entries == ValueOf(Current.value).elems
    <2>1. PICK order \in Bijection(DOMAIN entries, DOMAIN entries) :
              Continue([i \in DOMAIN entries |->
                          Part(entries[order[i]].value, KeyElem(entries[order[i]].name))])
      BY <1>4 DEF WalkMap
    <2>2. /\ todo # <<>> /\ Current.call = "value" /\ ValueOf(Current.value).kind = "map"
          /\ Put(Leaf(MapNode))
      BY <1>4 DEF WalkMap, Walked
    <2>3. PICK n \in Nat : DOMAIN entries = 1..n
      BY <1>0, <2>2, ValueFacts
    <2> DEFINE val == [i \in 1..n |-> entries[order[i]].value]
               elem == [i \in 1..n |-> KeyElem(entries[order[i]].name)]
               calls == [i \in 1..n |-> Part(val[i], elem[i])]
    <2>4. \A i \in 1..n : order[i] \in DOMAIN entries
      BY <2>1, <2>3 DEF Bijection, Injection
    <2>5. \A i \in 1..n : elem[i] \in Elem
      BY <1>0, <2>2, <2>4, ContentFacts DEF Elem, KeyElem
    <2>6. Continue(calls)
      BY <2>1, <2>3
    <2>7. IsTree(Leaf(MapNode)) /\ Shallow(Leaf(MapNode), Current.depth)
      BY LeafTree DEF Leaf, Shallow
    <2> HIDE DEF val, elem, entries
    <2>8. /\ IsSequence(calls)
          /\ \A i \in DOMAIN calls : HasHolder(calls[i]) => Holder(calls[i]) = Current.at
      BY <2>2, <2>5, PartsHeld
    <2> HIDE DEF calls
    <2> QED
      BY <2>2, <2>6, <2>7, <2>8, ContainerDeep
  <1>5. CASE WalkStruct
    <2> DEFINE calls == FieldCalls(Current.value, Current.depth, Current.seen, Current.at)
    <2>1. /\ todo # <<>> /\ Current.call = "value" /\ Put(Leaf(MapNode)) /\ Continue(calls)
      BY <1>5 DEF WalkStruct, Walked
    <2>2. IsTree(Leaf(MapNode)) /\ Shallow(Leaf(MapNode), Current.depth)
      BY LeafTree DEF Leaf, Shallow
    <2>3. /\ IsSequence(calls)
          /\ \A i \in DOMAIN calls : HasHolder(calls[i]) /\ Holder(calls[i]) = Current.at
      BY <1>0, <2>1, FieldsHeld
    <2> HIDE DEF calls
    <2> QED
      BY <2>1, <2>2, <2>3, ContainerDeep
  <1>6. CASE InlineField
    <2>1. PICK target \in Inlined(Current.field) :
              Continue(FieldCalls(target, Current.depth, Current.seen, Current.at))
      BY <1>6 DEF InlineField
    <2> DEFINE calls == FieldCalls(target, Current.depth, Current.seen, Current.at)
    <2>2. todo # <<>> /\ Current.call = "field" /\ UNCHANGED document
      BY <1>6 DEF InlineField
    <2>3. target \in Values
      BY <1>0, <2>1, <2>2, ValueFacts DEF Inlined
    <2>4. /\ IsSequence(calls)
          /\ \A i \in DOMAIN calls : HasHolder(calls[i]) /\ Holder(calls[i]) = Current.at
      BY <2>3, FieldsHeld
    <2>5. Continue(calls)
      BY <2>1
    <2> HIDE DEF calls
    <2>6. HasHolder(Current) /\ Holder(Current) = Current.at
      BY <2>2 DEF HasHolder, Holder
    <2> QED
      BY <2>2, <2>4, <2>5, <2>6, SameDeep
  <1>7. CASE AddField
    <2> DEFINE elem == KeyElem(FieldName(Current.field))
               call == ValueCall(Current.field.value, Current.depth + 1, Current.seen,
                                 Append(Current.at, elem))
               calls == IF Omitted(Current.field) THEN <<>> ELSE <<call>>
    <2>1. todo # <<>> /\ Current.call = "field" /\ UNCHANGED document /\ Continue(calls)
      BY <1>7 DEF AddField
    <2>2. HasHolder(Current) /\ Holder(Current) = Current.at
      BY <2>1 DEF HasHolder, Holder
    <2>3. CASE Omitted(Current.field)
      <3>1. calls = <<>>
        BY <2>3
      <3> HIDE DEF calls
      <3>2. DOMAIN calls = {} /\ IsSequence(calls)
        BY <3>1, NoCalls DEF CallsInv
      <3> QED
        BY <2>1, <3>2, SameDeep
    <2>4. CASE ~Omitted(Current.field)
      <3>1. elem \in Elem
        BY <1>0, <2>1, <2>4 DEF FieldName, Omitted, Elem, KeyElem
      <3>2. call.call = "value" /\ call.at = Append(Current.at, elem)
        BY DEF ValueCall
      <3>3. calls = <<call>>
        BY <2>4
      <3> HIDE DEF calls, call, elem
      <3>4. DOMAIN calls = {1} /\ calls[1] = call /\ calls \in Seq({call})
        BY <3>3
      <3>5. Front(Append(Current.at, elem)) = Current.at
        BY <1>0, <2>1, <3>1, Appended
      <3>6. \A i \in DOMAIN calls : HasHolder(calls[i]) =>
                HasHolder(Current) /\ Holder(calls[i]) = Holder(Current)
        BY <2>2, <3>2, <3>4, <3>5 DEF Holder
      <3> QED
        BY <2>1, <3>4, <3>6, SequenceOf, SameDeep
    <2> QED
      BY <2>3, <2>4
  <1>8. CASE Rerun
    <2>1. /\ todo' = <<ValueCall(heap.root, 0, {}, <<>>)>> /\ document' = Leaf(Null)
      BY <1>8 DEF Rerun, Start
    <2> QED
      BY <2>1, FirstDeep
  <1>9. CASE UNCHANGED vars
    BY <1>9 DEF vars, DeepInv, OwnedBy, AllOutside, Outside, OwnContents, Values, ValueOf
  <1> QED
    BY <1>1, <1>2, <1>3, <1>4, <1>5, <1>6, <1>7, <1>8, <1>9 DEF Next, Step

\* Whatever it is that is normalized, in whatever heap: the limit (normalize.go:16, 42)
\* holds for the result.  What is deeper is in the JSON that a json.RawMessage or a
\* json.Marshaler (normalize.go:62-82) within the limit carries with it.
THEOREM DepthIsBounded == Spec => []DepthBounded
  <1>1. DeepInv => DepthBounded
    <2> SUFFICES ASSUME DeepInv, NEW q \in DOMAIN document, Len(q) > MaxDepth + 1
                 PROVE  \E p \in DOMAIN document : /\ Len(p) <= MaxDepth /\ IsPrefix(p, q)
                                                   /\ ValueAt(document, p) \in OwnContents
      BY DEF DepthBounded
    <2>1. PICK owned : OwnedBy(owned, document)
      BY DEF DeepInv
    <2>2. PICK p \in owned : IsPrefix(p, q)
      BY <2>1 DEF OwnedBy
    <2>3. p \in DOMAIN document /\ Len(p) <= MaxDepth /\ ValueAt(document, p) \in OwnContents
      BY <2>1, <2>2 DEF OwnedBy
    <2> QED
      BY <2>2, <2>3
  <1> QED
    BY InitInv, StepKeeps, InitTree, StepTree, InitDeep, StepDeep, <1>1, PTL DEF Spec

-----------------------------------------------------------------------------
(* Only cycles are cut off. *)

\* The sets of values within n steps of v.
Within(set, v) ==
    /\ set[0] = Parts(v)
    /\ \A i \in 1..Cardinality(Values) :
          set[i] = set[i - 1] \cup UNION {Parts(w) : w \in set[i - 1]}

\* The parts of a value are in the heap.
LEMMA PartsInside ==
    ASSUME Inv, NEW v \in Values
    PROVE  Parts(v) \subseteq Values
  <1> DEFINE elems == ValueOf(v).elems
  <1>1. \A i \in DOMAIN elems : IF ValueOf(v).kind \in {"map", "struct"}
                                THEN elems[i].value \in Values
                                ELSE elems[i] \in Values
    BY ValueFacts
  <1> HIDE DEF elems
  <1>2. CASE ValueOf(v).kind \in {"map", "struct"}
    <2>1. Parts(v) = {e.value : e \in Range(elems)}
      BY <1>2 DEF Parts, elems
    <2> QED
      BY <1>1, <1>2, <2>1 DEF Range
  <1>3. CASE ValueOf(v).kind \notin {"map", "struct"}
    <2>1. Parts(v) = Range(elems)
      BY <1>3 DEF Parts, elems
    <2> QED
      BY <1>1, <1>3, <2>1 DEF Range
  <1> QED
    BY <1>2, <1>3

\* Reachable is what its loop has at the end.
LEMMA ReachableAt ==
    ASSUME Inv, NEW v \in Values
    PROVE  /\ IsFiniteSet(Values) /\ Cardinality(Values) \in Nat
           /\ \E set \in [0..Cardinality(Values) -> SUBSET Values] :
                 Within(set, v) /\ Reachable(v) = set[Cardinality(Values)]
  <1> DEFINE n == Cardinality(Values)
             V == SUBSET Values
             step == [p \in (1..n) \X V |-> p[2] \cup UNION {Parts(w) : w \in p[2]}]
             F(h) == [i \in 0..n |-> IF i = 0 THEN Parts(v)
                                     ELSE h[i-1] \cup UNION {Parts(w) : w \in h[i-1]}]
             within == CHOOSE h : h = F(h)
  <1>0. IsFiniteSet(Values) /\ n \in Nat
    <2>1. IsFiniteSet(Values)
      BY HeapAssumption DEF Inv, Values
    <2> QED
      BY <2>1, FS_CardinalityType
  <1>1. step \in [(1..n) \X V -> V]
    <2>1. ASSUME NEW i \in 1..n, NEW c \in V PROVE c \cup UNION {Parts(w) : w \in c} \in V
      BY PartsInside
    <2> QED
      BY <2>1
  <1>2. Parts(v) \in V
    BY PartsInside
  <1>3. PICK g \in [0..n -> V] : g[0] = Parts(v) /\ \A i \in 1..n : g[i] = step[<<i, g[i-1]>>]
    <2> HIDE DEF n, step, V
    <2>1. HasFunction(n, V, Parts(v), step)
      BY <1>0, <1>1, <1>2, LoopFunction
    <2> QED
      BY <2>1 DEF HasFunction
  <1> HIDE DEF n
  <1>4. ASSUME NEW i \in 1..n PROVE g[i] = g[i-1] \cup UNION {Parts(w) : w \in g[i-1]}
    <2>1. <<i, g[i-1]>> \in (1..n) \X V
      BY <1>0, <1>3
    <2> QED
      BY <1>3, <2>1
  <1>5. g = F(g)
    <2>1. ASSUME NEW i \in 0..n PROVE g[i] = F(g)[i]
      <3>1. CASE i = 0
        BY <1>3, <3>1
      <3>2. CASE i # 0
        <4>1. i \in 1..n
          BY <1>0, <3>2
        <4> QED
          BY <1>4, <3>2, <4>1
      <3> QED
        BY <3>1, <3>2
    <2>2. g = [i \in 0..n |-> g[i]] /\ F(g) = [i \in 0..n |-> F(g)[i]]
      OBVIOUS
    <2> HIDE DEF F
    <2> QED
      BY <2>1, <2>2
  <1>6. within = F(within)
    <2> HIDE DEF F
    <2> QED
      BY <1>5
  <1>7. Reachable(v) = within[n]
    BY DEF Reachable, n
  <1>8. ASSUME NEW i \in 0..n PROVE within[i] = g[i]
    <2> DEFINE S == {j \in 0..n : within[j] = g[j]}
    <2> HIDE DEF within
    <2>1. 0 \in S
      BY <1>0, <1>3, <1>6
    <2>2. ASSUME NEW j \in 0..n-1, j \in S PROVE j + 1 \in S
      <3>1. j + 1 \in 1..n /\ (j + 1) - 1 = j /\ j + 1 \in 0..n
        BY <1>0
      <3>2. within[j + 1] = within[j] \cup UNION {Parts(w) : w \in within[j]}
        <4>1. ASSUME NEW h, NEW k \in 1..n
              PROVE  F(h)[k] = h[k - 1] \cup UNION {Parts(w) : w \in h[k - 1]}
          BY <1>0
        <4> HIDE DEF F
        <4>2. F(within)[j + 1] = within[(j + 1) - 1]
                                    \cup UNION {Parts(w) : w \in within[(j + 1) - 1]}
          BY <3>1, <4>1
        <4> QED
          BY <1>6, <3>1, <4>2
      <3>3. g[j + 1] = g[j] \cup UNION {Parts(w) : w \in g[j]}
        BY <1>4, <3>1
      <3> QED
        BY <2>2, <3>1, <3>2, <3>3
    <2>3. 0..n \subseteq S
      <3> HIDE DEF S
      <3> QED
        BY <1>0, <2>1, <2>2, UpTo
    <2> QED
      BY <2>3
  <1>9. Within(g, v)
    BY <1>3, <1>4 DEF Within, n
  <1>10. Reachable(v) = g[n]
    BY <1>0, <1>7, <1>8
  <1> QED
    BY <1>0, <1>3, <1>9, <1>10 DEF n

\* As many steps as there are values reach all that can be reached: every step before
\* adds a value, or there is nothing to add.
LEMMA ReachableFacts ==
    ASSUME Inv, NEW v \in Values
    PROVE  /\ Reachable(v) \subseteq Values /\ Parts(v) \subseteq Reachable(v)
           /\ \A w \in Reachable(v) : Parts(w) \subseteq Reachable(v)
  <1> DEFINE n == Cardinality(Values)
  <1>1. IsFiniteSet(Values) /\ n \in Nat
    BY ReachableAt
  <1>2. PICK set \in [0..n -> SUBSET Values] : Within(set, v) /\ Reachable(v) = set[n]
    BY ReachableAt
  <1> HIDE DEF n
  <1> DEFINE Closed(X) == \A w \in X : Parts(w) \subseteq X
  <1>3. set[0] = Parts(v)
    BY <1>2 DEF Within
  <1>4. ASSUME NEW i \in 0..n-1
        PROVE  /\ i \in 0..n /\ i + 1 \in 0..n
               /\ set[i + 1] = set[i] \cup UNION {Parts(w) : w \in set[i]}
    <2>1. i + 1 \in 1..n /\ (i + 1) - 1 = i /\ i \in 0..n /\ i + 1 \in 0..n
      BY <1>1
    <2>2. \A j \in 1..n : set[j] = set[j - 1] \cup UNION {Parts(w) : w \in set[j - 1]}
      BY <1>2 DEF Within, n
    <2> QED
      BY <2>1, <2>2
  <1>5. ASSUME NEW X \in SUBSET Values
        PROVE  IsFiniteSet(X) /\ Cardinality(X) \in Nat /\ Cardinality(X) <= n
    BY <1>1, FS_Subset, FS_CardinalityType DEF n
  <1>6. ASSUME NEW X \in SUBSET Values, NEW Y \in SUBSET Values, X \subseteq Y, X # Y
        PROVE  Cardinality(X) < Cardinality(Y)
    <2>1. IsFiniteSet(Y) /\ Cardinality(Y) \in Nat /\ Cardinality(X) \in Nat
      BY <1>5
    <2>2. Cardinality(X) <= Cardinality(Y) /\ Cardinality(X) # Cardinality(Y)
      BY <1>6, <2>1, FS_Subset
    <2> QED
      BY <2>1, <2>2
  <1> DEFINE Grown(X, i) == Closed(X) \/ Cardinality(X) > i
             S == {i \in 0..n : Parts(v) \subseteq set[i] /\ Grown(set[i], i)}
  <1>7. 0 \in S
    <2>1. 0 \in 0..n /\ set[0] \in SUBSET Values
      BY <1>1, <1>2
    <2>2. CASE set[0] = {}
      BY <1>3, <2>1, <2>2
    <2>3. CASE set[0] # {}
      <3>1. {} \in SUBSET Values /\ Cardinality({}) \in Nat
        BY <1>5
      <3>2. Cardinality({}) < Cardinality(set[0])
        BY <1>6, <2>1, <2>3
      <3>3. Cardinality(set[0]) > 0
        BY <1>5, <2>1, <3>1, <3>2
      <3> QED
        BY <1>3, <2>1, <3>3
    <2> QED
      BY <2>2, <2>3
  <1>8. ASSUME NEW i \in 0..n-1, i \in S PROVE i + 1 \in S
    <2>1. /\ i \in 0..n /\ i + 1 \in 0..n
          /\ set[i + 1] = set[i] \cup UNION {Parts(w) : w \in set[i]}
      BY <1>4
    <2>2. set[i] \in SUBSET Values /\ set[i + 1] \in SUBSET Values
      BY <1>2, <2>1
    <2>3. set[i] \subseteq set[i + 1] /\ Parts(v) \subseteq set[i + 1]
      BY <1>8, <2>1
    <2>4. CASE set[i] = set[i + 1]
      <3>1. Closed(set[i + 1])
        BY <2>1, <2>4
      <3> QED
        BY <2>1, <2>3, <3>1
    <2>5. CASE set[i] # set[i + 1]
      <3>1. ~Closed(set[i])
        BY <2>1, <2>5
      <3>2. Cardinality(set[i]) > i
        BY <1>8, <3>1
      <3>3. Cardinality(set[i]) < Cardinality(set[i + 1])
        BY <1>6, <2>2, <2>3, <2>5
      <3>4. Cardinality(set[i]) \in Nat /\ Cardinality(set[i + 1]) \in Nat /\ i \in Nat
        BY <1>1, <1>5, <2>2
      <3>5. Cardinality(set[i + 1]) > i + 1
        BY <3>2, <3>3, <3>4
      <3> QED
        BY <2>1, <2>3, <3>5
    <2> QED
      BY <2>4, <2>5
  <1>9. 0..n \subseteq S
    <2> HIDE DEF S
    <2> QED
      BY <1>1, <1>7, <1>8, UpTo
  <1>10. n \in S
    BY <1>1, <1>9
  <1>11. set[n] \in SUBSET Values
    BY <1>1, <1>2
  <1>12. Cardinality(set[n]) \in Nat /\ Cardinality(set[n]) <= n
    BY <1>5, <1>11
  <1>13. Closed(set[n])
    BY <1>1, <1>10, <1>12
  <1> QED
    BY <1>2, <1>10, <1>11, <1>13

\* What a call is about.
Subject(call) == IF call.call = "value" THEN call.value ELSE call.field.value

\* Every address a call has seen is that of a reference that leads to its subject.
Explained(subject, seen) ==
    \A a \in seen :
        \E u \in Values : /\ ValueOf(u).kind \in References /\ ~ValueOf(u).isNil
                          /\ ValueOf(u).address = a
                          /\ subject \in Reachable(u)

CallsExplained(calls) == \A i \in DOMAIN calls : Explained(Subject(calls[i]), calls[i].seen)

SeenInv == CallsExplained(todo)

\* What was seen on the way to a value was seen on the way to its parts.
LEMMA ExplainedBelow ==
    ASSUME Inv, NEW v \in Values, NEW seen, Explained(v, seen), NEW w \in Parts(v)
    PROVE  Explained(w, seen)
  <1> SUFFICES ASSUME NEW a \in seen
               PROVE  \E u \in Values : /\ ValueOf(u).kind \in References /\ ~ValueOf(u).isNil
                                        /\ ValueOf(u).address = a
                                        /\ w \in Reachable(u)
    BY DEF Explained
  <1>1. PICK u \in Values : /\ ValueOf(u).kind \in References /\ ~ValueOf(u).isNil
                            /\ ValueOf(u).address = a
                            /\ v \in Reachable(u)
    BY DEF Explained
  <1>2. w \in Reachable(u)
    BY <1>1, ReachableFacts
  <1> QED
    BY <1>1, <1>2

\* And so was the value itself.
LEMMA ExplainedPart ==
    ASSUME Inv, todo # <<>>, Current.value \in Values, ~ValueOf(Current.value).isNil,
           Explained(Current.value, Current.seen), NEW w \in Parts(Current.value)
    PROVE  Explained(w, Seen(Current))
  <1> DEFINE v == Current.value
  <1>1. Explained(w, Current.seen)
    BY ExplainedBelow
  <1>2. ASSUME ValueOf(v).kind \in References
        PROVE  \E u \in Values : /\ ValueOf(u).kind \in References /\ ~ValueOf(u).isNil
                                 /\ ValueOf(u).address = ValueOf(v).address
                                 /\ w \in Reachable(u)
    BY <1>2, ReachableFacts
  <1> QED
    BY <1>1, <1>2 DEF Explained, Seen

\* While the heap is the same, so is what a value leads to.
LEMMA SameHeap ==
    ASSUME heap' = heap
    PROVE  Values' = Values /\ \A v : ValueOf(v)' = ValueOf(v) /\ Reachable(v)' = Reachable(v)
  <1>1. ASSUME NEW v PROVE Reachable(v)' = Reachable(v)
    BY DEF Reachable, Parts, ValueOf, Values
  <1>2. ASSUME NEW v PROVE ValueOf(v)' = ValueOf(v)
    BY DEF ValueOf
  <1> QED
    BY <1>1, <1>2 DEF Values

\* The calls a call makes come before the rest.
LEMMA SeenContinues ==
    ASSUME Inv, SeenInv, todo # <<>>, NEW calls, IsSequence(calls), CallsExplained(calls),
           Continue(calls)
    PROVE  SeenInv'
  <1>1. CallsInv(Tail(todo)) /\ CallsInv(todo)
    BY TailKeeps DEF Inv
  <1>2. todo' = calls \o Tail(todo) /\ heap' = heap
    BY DEF Continue, Then
  <1>3. ASSUME NEW i \in DOMAIN (calls \o Tail(todo))
        PROVE  \/ \E j \in DOMAIN calls : (calls \o Tail(todo))[i] = calls[j]
               \/ \E j \in DOMAIN todo : (calls \o Tail(todo))[i] = todo[j]
    <2> DEFINE t == Tail(todo)
               S == Range(calls) \cup Range(t)
    <2>1. calls \in Seq(Range(calls)) /\ t \in Seq(Range(t)) /\ todo \in Seq(Range(todo))
      BY <1>1, SequenceFacts DEF CallsInv
    <2>2. \A j \in DOMAIN t : j + 1 \in DOMAIN todo /\ t[j] = todo[j + 1]
      BY <2>1
    <2>3. calls \in Seq(S) /\ t \in Seq(S)
      BY <2>1
    <2> HIDE DEF S, t
    <2>4. /\ Len(calls) \in Nat /\ Len(t) \in Nat
          /\ DOMAIN calls = 1..Len(calls) /\ DOMAIN t = 1..Len(t)
          /\ DOMAIN (calls \o t) = 1..Len(calls) + Len(t)
          /\ \A j \in 1..Len(calls) : (calls \o t)[j] = calls[j]
          /\ \A j \in Len(calls)+1..Len(calls)+Len(t) : (calls \o t)[j] = t[j - Len(calls)]
      BY <2>3
    <2>5. i \in DOMAIN (calls \o t)
      BY DEF t
    <2>6. CASE i \in 1..Len(calls)
      BY <2>4, <2>6 DEF t
    <2>7. CASE i \in Len(calls)+1..Len(calls)+Len(t)
      <3>1. i - Len(calls) \in DOMAIN t /\ (calls \o t)[i] = t[i - Len(calls)]
        BY <2>4, <2>7
      <3>2. \E j \in DOMAIN todo : (calls \o t)[i] = todo[j]
        BY <2>2, <3>1
      <3> QED
        BY <3>2 DEF t
    <2> QED
      BY <2>4, <2>5, <2>6, <2>7
  <1>4. CallsExplained(calls \o Tail(todo))
    BY <1>3 DEF CallsExplained, SeenInv
  <1>5. Values' = Values /\ \A v : ValueOf(v)' = ValueOf(v) /\ Reachable(v)' = Reachable(v)
    BY <1>2, SameHeap, Zenon
  <1>6. \A x, s : Explained(x, s)' <=> Explained(x, s)
    BY <1>5 DEF Explained
  <1> QED
    BY <1>2, <1>4, <1>6 DEF SeenInv, CallsExplained, Subject

\* One call.
LEMMA OneExplained ==
    ASSUME NEW call, Explained(Subject(call), call.seen)
    PROVE  CallsExplained(<<call>>) /\ IsSequence(<<call>>)
  <1>1. CallsExplained(<<call>>)
    BY DEF CallsExplained
  <1>2. <<call>> \in Seq({call})
    OBVIOUS
  <1> QED
    BY <1>1, <1>2, SequenceOf

\* Several calls.
LEMMA AllExplained ==
    ASSUME NEW n \in Nat, NEW calls, calls = [i \in 1..n |-> calls[i]],
           \A i \in 1..n : Explained(Subject(calls[i]), calls[i].seen)
    PROVE  CallsExplained(calls) /\ IsSequence(calls)
  <1>1. calls \in [1..n -> Range(calls)]
    BY DEF Range
  <1> QED
    BY <1>1 DEF CallsExplained, IsSequence

\* The calls for the fields of a struct.
LEMMA FieldsExplained ==
    ASSUME Inv, NEW v \in Values, NEW depth, NEW seen, NEW at,
           ValueOf(v).kind = "struct", Explained(v, seen)
    PROVE  CallsExplained(FieldCalls(v, depth, seen, at))
           /\ IsSequence(FieldCalls(v, depth, seen, at))
  <1> DEFINE elems == ValueOf(v).elems
             calls == FieldCalls(v, depth, seen, at)
  <1>1. ASSUME NEW i \in DOMAIN elems
        PROVE  /\ calls[i] = FieldCall(elems[i], depth, seen, at)
               /\ Explained(elems[i].value, seen)
    <2>1. elems[i].value \in Parts(v)
      BY DEF Parts, Range
    <2> QED
      BY <2>1, ExplainedBelow DEF FieldCalls
  <1>2. PICK n \in Nat : DOMAIN elems = 1..n
    BY ValueFacts
  <1>3. calls = [i \in 1..n |-> calls[i]]
    BY <1>2 DEF FieldCalls
  <1> HIDE DEF calls, elems
  <1>4. ASSUME NEW i \in 1..n PROVE Explained(Subject(calls[i]), calls[i].seen)
    <2>1. /\ calls[i] = FieldCall(elems[i], depth, seen, at)
          /\ Explained(elems[i].value, seen)
      BY <1>1, <1>2
    <2>2. Subject(calls[i]) = elems[i].value /\ calls[i].seen = seen
      BY <2>1 DEF FieldCall, Subject
    <2> QED
      BY <2>1, <2>2
  <1>5. CallsExplained(calls) /\ IsSequence(calls)
    BY <1>3, <1>4, AllExplained
  <1> QED
    BY <1>5 DEF calls

LEMMA InitSeen == Init => SeenInv
  BY DEF Init, Start, ValueCall, SeenInv, CallsExplained, Explained

\* Every step keeps what was seen explained.
LEMMA StepSeen == Inv /\ SeenInv /\ [Next]_vars => SeenInv'
  <1> SUFFICES ASSUME Inv, SeenInv, [Next]_vars PROVE SeenInv'
    OBVIOUS
  <1> DEFINE v == Current.value
  <1>1. ASSUME todo # <<>>
        PROVE  /\ Explained(Subject(Current), Current.seen)
               /\ Current.call = "value" => v \in Values /\ Subject(Current) = v
               /\ Current.call = "field" => /\ Current.field.value \in Values
                                            /\ Subject(Current) = Current.field.value
    <2>1. CallInv(Current)
      BY <1>1, TailKeeps DEF Inv, Current
    <2>2. Current = todo[1] /\ 1 \in DOMAIN todo
      <3>1. todo \in Seq(Range(todo))
        BY SequenceFacts DEF Inv, CallsInv
      <3> QED
        BY <1>1, <3>1 DEF Current
    <2> QED
      BY <2>1, <2>2 DEF SeenInv, CallsExplained, CallInv, Subject
  <1>2. CASE Return \/ Drain \/ CutOff
    <2>1. todo # <<>> /\ Continue(<< >>)
      BY <1>2 DEF Return, Drain, CutOff, Walked
    <2>2. CallsExplained(<< >>) /\ IsSequence(<< >>)
      BY DEF CallsExplained, IsSequence
    <2> QED
      BY <2>1, <2>2, SeenContinues
  <1>3. ASSUME Current.call = "value", todo # <<>>, ~ValueOf(v).isNil,
               NEW w \in Parts(v), NEW depth, NEW at
        PROVE  Explained(Subject(ValueCall(w, depth, Seen(Current), at)),
                         ValueCall(w, depth, Seen(Current), at).seen)
    <2>1. Explained(w, Seen(Current))
      BY <1>1, <1>3, ExplainedPart
    <2> QED
      BY <2>1 DEF ValueCall, Subject
  <1>4. CASE Follow
    <2> DEFINE target == ValueOf(v).elems[1]
               call == ValueCall(target, Current.depth, Seen(Current), Current.at)
    <2>1. /\ todo # <<>> /\ Current.call = "value" /\ ~ValueOf(v).isNil
          /\ ValueOf(v).kind \in {"pointer", "interface"} /\ Continue(<<call>>)
      BY <1>4 DEF Follow, Walked
    <2>2. target \in Parts(v)
      <3>1. 1 \in DOMAIN ValueOf(v).elems
        BY <1>1, <2>1, ValueFacts
      <3> QED
        BY <2>1, <3>1 DEF Parts, Range
    <2>3. Explained(Subject(call), call.seen)
      BY <1>3, <2>1, <2>2
    <2> HIDE DEF call
    <2> QED
      BY <2>1, <2>3, OneExplained, SeenContinues
  <1>5. CASE WalkList
    <2> DEFINE items == ValueOf(v).elems
               calls == [i \in DOMAIN items |-> Part(items[i], IndexElem(i - 1))]
    <2>1. /\ todo # <<>> /\ Current.call = "value" /\ ~ValueOf(v).isNil
          /\ ValueOf(v).kind \in {"slice", "array"} /\ Continue(calls)
      BY <1>5 DEF WalkList, Walked
    <2>2. PICK n \in Nat : DOMAIN items = 1..n
      BY <1>1, <2>1, ValueFacts
    <2>3. calls = [i \in 1..n |-> calls[i]]
      BY <2>2
    <2>4. ASSUME NEW i \in 1..n PROVE Explained(Subject(calls[i]), calls[i].seen)
      <3>1. items[i] \in Parts(v)
        BY <2>1, <2>2 DEF Parts, Range
      <3>2. calls[i] = Part(items[i], IndexElem(i - 1))
        BY <2>2
      <3> HIDE DEF calls
      <3> QED
        BY <1>3, <2>1, <3>1, <3>2 DEF Part
    <2> HIDE DEF calls
    <2>5. CallsExplained(calls) /\ IsSequence(calls)
      BY <2>3, <2>4, AllExplained
    <2> QED
      BY <2>1, <2>5, SeenContinues
  <1>6. CASE WalkMap
    <2> DEFINE entries == ValueOf(v).elems
    <2>1. PICK order \in Bijection(DOMAIN entries, DOMAIN entries) :
              Continue([i \in DOMAIN entries |->
                          Part(entries[order[i]].value, KeyElem(entries[order[i]].name))])
      BY <1>6 DEF WalkMap
    <2> DEFINE calls == [i \in DOMAIN entries |->
                            Part(entries[order[i]].value, KeyElem(entries[order[i]].name))]
    <2>2. /\ todo # <<>> /\ Current.call = "value" /\ ~ValueOf(v).isNil
          /\ ValueOf(v).kind = "map" /\ Continue(calls)
      BY <1>6, <2>1 DEF WalkMap, Walked
    <2>3. PICK n \in Nat : DOMAIN entries = 1..n
      BY <1>1, <2>2, ValueFacts
    <2>4. calls = [i \in 1..n |-> calls[i]]
      BY <2>3
    <2>5. ASSUME NEW i \in 1..n PROVE Explained(Subject(calls[i]), calls[i].seen)
      <3>1. order[i] \in DOMAIN entries
        BY <2>1, <2>3 DEF Bijection, Injection
      <3>2. entries[order[i]].value \in Parts(v)
        BY <2>2, <3>1 DEF Parts, Range
      <3>3. calls[i] = Part(entries[order[i]].value, KeyElem(entries[order[i]].name))
        BY <2>3
      <3> HIDE DEF calls
      <3> QED
        BY <1>3, <2>2, <3>2, <3>3 DEF Part
    <2> HIDE DEF calls
    <2>6. CallsExplained(calls) /\ IsSequence(calls)
      BY <2>4, <2>5, AllExplained
    <2> QED
      BY <2>2, <2>6, SeenContinues
  <1>7. CASE WalkStruct
    <2>1. /\ todo # <<>> /\ Current.call = "value" /\ ValueOf(v).kind = "struct"
          /\ Continue(FieldCalls(v, Current.depth, Current.seen, Current.at))
      BY <1>7 DEF WalkStruct, Walked
    <2> QED
      BY <1>1, <2>1, FieldsExplained, SeenContinues
  <1>8. CASE InlineField
    <2>1. PICK target \in Inlined(Current.field) :
              Continue(FieldCalls(target, Current.depth, Current.seen, Current.at))
      BY <1>8 DEF InlineField
    <2> DEFINE f == Current.field.value
    <2>2. /\ todo # <<>> /\ f \in Values /\ Explained(f, Current.seen)
      BY <1>1, <1>8 DEF InlineField
    <2>3. ValueOf(target).kind = "struct" /\ (target = f \/ target \in Parts(f))
      <3>1. CASE ValueOf(f).kind = "pointer" /\ ~ValueOf(f).isNil
        <4>1. target = ValueOf(f).elems[1] /\ ValueOf(target).kind = "struct"
          BY <2>1, <3>1 DEF Inlined
        <4>2. 1 \in DOMAIN ValueOf(f).elems
          BY <2>2, <3>1, ValueFacts
        <4> QED
          BY <3>1, <4>1, <4>2 DEF Parts, Range
      <3>2. CASE ~(ValueOf(f).kind = "pointer" /\ ~ValueOf(f).isNil)
        BY <2>1, <3>2 DEF Inlined
      <3> QED
        BY <3>1, <3>2
    <2>4. target \in Values /\ Explained(target, Current.seen)
      BY <2>2, <2>3, PartsInside, ExplainedBelow
    <2> QED
      BY <2>1, <2>2, <2>3, <2>4, FieldsExplained, SeenContinues
  <1>9. CASE AddField
    <2> DEFINE call == ValueCall(Current.field.value, Current.depth + 1, Current.seen,
                                 Append(Current.at, KeyElem(FieldName(Current.field))))
    <2>1. /\ todo # <<>> /\ Current.call = "field"
          /\ Continue(IF Omitted(Current.field) THEN << >> ELSE <<call>>)
      BY <1>9 DEF AddField
    <2>2. Explained(Subject(call), call.seen)
      BY <1>1, <2>1 DEF ValueCall, Subject
    <2> HIDE DEF call
    <2>3. CallsExplained(<< >>) /\ IsSequence(<< >>)
      BY DEF CallsExplained, IsSequence
    <2>4. CallsExplained(<<call>>) /\ IsSequence(<<call>>)
      BY <2>2, OneExplained
    <2> QED
      BY <2>1, <2>3, <2>4, SeenContinues
  <1>10. CASE Rerun
    BY <1>10 DEF Rerun, Start, ValueCall, SeenInv, CallsExplained, Explained
  <1>11. CASE UNCHANGED vars
    <2>1. heap' = heap /\ todo' = todo
      BY <1>11 DEF vars
    <2>2. Values' = Values /\ \A x : ValueOf(x)' = ValueOf(x) /\ Reachable(x)' = Reachable(x)
      BY <2>1, SameHeap, Zenon
    <2>3. \A x, s : Explained(x, s)' <=> Explained(x, s)
      BY <2>2 DEF Explained
    <2> QED
      BY <2>1, <2>3 DEF SeenInv, CallsExplained, Subject
  <1> QED
    BY <1>2, <1>4, <1>5, <1>6, <1>7, <1>8, <1>9, <1>10, <1>11 DEF Next, Step

\* What is cut off as a recursion is one (normalize.go:87-94): a value that is merely used
\* twice, or is in another one that was cut off, is walked over.
THEOREM OnlyCyclesAreCut == Spec => OnlyCyclesCut
  <1>1. Inv /\ SeenInv => (CutOff /\ NoAliases => RefersToItself(Current.value))
    <2> SUFFICES ASSUME Inv, SeenInv, CutOff, NoAliases PROVE RefersToItself(Current.value)
      OBVIOUS
    <2> DEFINE v == Current.value
    <2>1. /\ todo # <<>> /\ Current.call = "value" /\ ~ValueOf(v).isNil
          /\ ValueOf(v).kind \in References /\ ValueOf(v).address \in Current.seen
      BY DEF CutOff, Walked, Cut
    <2>2. v \in Values
      BY <2>1, TailKeeps DEF Inv, Current, CallInv
    <2>3. Current = todo[1] /\ 1 \in DOMAIN todo
      <3>1. todo \in Seq(Range(todo))
        BY SequenceFacts DEF Inv, CallsInv
      <3> QED
        BY <2>1, <3>1 DEF Current
    <2>4. Explained(v, Current.seen)
      BY <2>1, <2>3 DEF SeenInv, CallsExplained, Subject
    <2>5. PICK u \in Values : /\ ValueOf(u).kind \in References /\ ~ValueOf(u).isNil
                              /\ ValueOf(u).address = ValueOf(v).address
                              /\ v \in Reachable(u)
      BY <2>1, <2>4 DEF Explained
    <2>6. ValueOf(u).kind = ValueOf(v).kind /\ ValueOf(u).elems = ValueOf(v).elems
      BY <2>1, <2>2, <2>5 DEF NoAliases
    <2>7. Parts(u) = Parts(v)
      BY <2>6 DEF Parts
    <2>8. Reachable(u) = Reachable(v)
      BY <2>7 DEF Reachable
    <2> QED
      BY <2>5, <2>8 DEF RefersToItself
  <1> QED
    BY InitInv, StepKeeps, InitSeen, StepSeen, <1>1, PTL DEF Spec, OnlyCyclesCut
=============================================================================

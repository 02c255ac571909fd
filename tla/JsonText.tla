------------------------------ MODULE JsonText ------------------------------
(***************************************************************************)
(* Documents as JSON texts (jsonutil.go): what marshalValue writes for a   *)
(* value, and what unmarshalValue reads, symbol by symbol.                 *)
(*                                                                         *)
(* A text is a sequence of symbols.  Digits and the marks of JSON are      *)
(* symbols like any other; a symbol may also stand for a whole word or id, *)
(* as the literals do.  Numbers are natural numbers, and only the quote    *)
(* and the backslash are escaped.                                          *)
(***************************************************************************)
EXTENDS JsonPath

CONSTANTS
    Symbol,         \* what the texts of a test are made of
    Quote,          \* the symbol "
    Backslash,      \* the symbol \, which starts an escape
    Blank,          \* white space
    Rank            \* the order of symbols

DigitOf == <<"0", "1", "2", "3", "4", "5", "6", "7", "8", "9">>
Digit == Range(DigitOf)
Literal == {"null", "true", "false"}
Marks == {"[", "]", "{", "}", ",", ":", "<", ">"} \cup Literal

Text == Seq(Symbol)
Numeral == {n \in Seq(Digit) : n # <<>> /\ (n[1] = "0" => Len(n) = 1)}

\* Scalars: a kind and what is written.
Str(text) == <<"string", text>>
Number(numeral) == <<"number", numeral>>
LiteralValue(s) == <<"literal", <<s>>>>
Null == LiteralValue("null")
Scalar == ({"string"} \X Text) \cup ({"number"} \X Numeral) \cup {LiteralValue(s) : s \in Literal}

IsString(value) == value[1] = "string"

ASSUME TextAssumption ==
    /\ Digit \cup Marks \cup {Quote, Backslash, Blank} \subseteq Symbol
    /\ Quote # Backslash /\ {Quote, Backslash, Blank} \cap (Digit \cup Marks) = {}
    /\ Blank \notin {Quote, Backslash}
    /\ Name \subseteq Text /\ \A n \in Name : n # NotANumber
    /\ Rank \in [Symbol -> Nat] /\ \A s, t \in Symbol : Rank[s] = Rank[t] => s = t

-----------------------------------------------------------------------------
(* Order: strings compare symbol by symbol, values come in depth-first     *)
(* order of their sorted keys.                                             *)

TextBefore(s, t) ==
    \/ IsStrictPrefix(s, t)
    \/ \E n \in DOMAIN s \cap DOMAIN t :
          SubSeq(s, 1, n - 1) = SubSeq(t, 1, n - 1) /\ Rank[s[n]] < Rank[t[n]]

ElemBefore(d, e) == IF IsIndex(d) THEN d[2] < e[2] ELSE TextBefore(d[2], e[2])

Before(p, q) ==
    \/ IsStrictPrefix(p, q)
    \/ \E n \in DOMAIN p \cap DOMAIN q :
          SubSeq(p, 1, n - 1) = SubSeq(q, 1, n - 1) /\ ElemBefore(p[n], q[n])

\* The elements of a finite set in the order of a relation: every element comes after
\* as many others as are before it.
Ordered(S, before) ==
    LET place == [x \in S |-> Cardinality({y \in S : <<y, x>> \in before}) + 1]
    IN  [i \in 1..Cardinality(S) |-> CHOOSE x \in S : place[x] = i]

\* sortedKeys, descendants
InOrder(positions) ==
    Ordered(positions, {pair \in positions \X positions : Before(pair[1], pair[2])})

-----------------------------------------------------------------------------
(* marshalValue *)

Escaped(text) ==
    FlattenSeq([i \in DOMAIN text |->
                   IF text[i] \in {Quote, Backslash} THEN <<Backslash, text[i]>>
                   ELSE <<text[i]>>])

\* A scalar, or a name as a string.
Token(value) ==
    IF IsString(value) THEN <<Quote>> \o Escaped(value[2]) \o <<Quote>> ELSE value[2]

\* A whole value, with sorted keys.
Marshalled(doc) ==
    LET text[q \in DOMAIN doc] ==
            LET children == InOrder(Children(doc, q))
                child(i) == (IF i > 1 THEN <<",">> ELSE <<>>)
                    \o (IF doc[q] = MapNode
                        THEN Token(Str(Last(children[i])[2])) \o <<":">> ELSE <<>>)
                    \o text[children[i]]
                inside == FlattenSeq([i \in DOMAIN children |-> child(i)])
            IN  CASE doc[q] = MapNode -> <<"{">> \o inside \o <<"}">>
                  [] doc[q] = ListNode -> <<"[">> \o inside \o <<"]">>
                  [] OTHER -> Token(doc[q])
    IN  text[<<>>]

\* Mutant of CanonicalString: only strings have one.
StringOrNothing(doc) == IF IsString(doc[<<>>]) THEN doc[<<>>][2] ELSE <<>>

CanonicalString(doc) == IF IsString(doc[<<>>]) THEN doc[<<>>][2] ELSE Marshalled(doc)

-----------------------------------------------------------------------------
(* unmarshalValue: the decoder goes from symbol to symbol.  It has read    *)
(* doc, is at position at, and wants to see some symbols next.             *)

\* Mutant of SetValue: what was below the value stays.
SetNode(doc, q, value) == [doc EXCEPT ![q] = value]

\* A value at a position, in the place of what was there and below it.
SetValue(doc, q, value) == Graft(doc, [p \in {q} |-> Leaf(value)])

Unread == [doc |-> Leaf(Null), at |-> <<>>, want |-> "value", text |-> <<>>, escape |-> FALSE]

Refused(r) == [r EXCEPT !.want = "nothing"]

\* The value at r.at has been read.
Complete(r) == [r EXCEPT !.want = IF r.at = <<>> THEN "end" ELSE "next"]

\* A node at r.at; of two fields with the same name the later one is kept.
Put(r, node) == [r EXCEPT !.doc = SetValue(@, r.at, node)]

BeginText(r, want) == [r EXCEPT !.want = want, !.text = <<>>]

\* The first symbol of a value.
ReadValue(r, s) ==
    CASE s = Quote -> BeginText(r, "string")
      [] s = "{" -> [Put(r, MapNode) EXCEPT !.want = "first name"]
      [] s = "[" -> [Put(r, ListNode) EXCEPT !.want = "first item"]
      [] s \in Literal -> Complete(Put(r, LiteralValue(s)))
      [] s \in Digit -> [r EXCEPT !.want = "digit", !.text = <<s>>]
      [] OTHER -> Refused(r)

ReadName(r, s) == IF s = Quote THEN BeginText(r, "name") ELSE Refused(r)

\* What follows a value: the next one, or the end of the container that it is in.
ReadNext(r, s) ==
    LET container == Front(r.at)
        next == IF InList(r.at)
                THEN [at |-> Append(container, IndexElem(Last(r.at)[2] + 1)), want |-> "value"]
                ELSE [at |-> container, want |-> "name begin"]
        close == IF InList(r.at) THEN "]" ELSE "}"
    IN  CASE s = "," -> [r EXCEPT !.at = next.at, !.want = next.want]
          [] s = close -> Complete([r EXCEPT !.at = container])
          [] OTHER -> Refused(r)

\* Inside quotes.
ReadText(r, s) ==
    CASE r.escape /\ s \in {Quote, Backslash} ->
            [r EXCEPT !.text = Append(@, s), !.escape = FALSE]
      [] r.escape /\ s \notin {Quote, Backslash} -> Refused(r)
      [] ~r.escape /\ s = Backslash -> [r EXCEPT !.escape = TRUE]
      [] ~r.escape /\ s = Quote ->
            IF r.want = "name"
            THEN [r EXCEPT !.at = Append(@, KeyElem(r.text)), !.want = "colon"]
            ELSE Complete(Put(r, Str(r.text)))
      [] OTHER -> [r EXCEPT !.text = Append(@, s)]

ReadDigit(r, s) == IF r.text = <<"0">> THEN Refused(r) ELSE [r EXCEPT !.text = Append(@, s)]

\* A number ends where something else begins.
NumberEnded(r) == IF r.want = "digit" THEN Complete(Put(r, Number(r.text))) ELSE r

\* Between strings and numbers.
ReadMark(r, s) ==
    CASE r.want = "value" -> ReadValue(r, s)
      [] r.want = "first item" /\ s = "]" -> Complete(r)
      [] r.want = "first item" /\ s # "]" ->
            ReadValue([r EXCEPT !.at = Append(@, IndexElem(0))], s)
      [] r.want = "first name" /\ s = "}" -> Complete(r)
      [] r.want = "first name" /\ s # "}" -> ReadName(r, s)
      [] r.want = "name begin" -> ReadName(r, s)
      [] r.want = "colon" /\ s = ":" -> [r EXCEPT !.want = "value"]
      [] r.want = "next" -> ReadNext(r, s)
      [] OTHER -> Refused(r)

ReadSymbol(r, s) ==
    CASE r.want \in {"string", "name"} -> ReadText(r, s)
      [] r.want = "digit" /\ s \in Digit -> ReadDigit(r, s)
      [] r.want \notin {"string", "name"} /\ s = Blank -> NumberEnded(r)
      [] OTHER -> ReadMark(NumberEnded(r), s)

Decoded == [text \in Text |->
    LET read[n \in 0..Len(text)] ==
            IF n = 0 THEN Unread ELSE ReadSymbol(read[n - 1], text[n])
    IN  NumberEnded(read[Len(text)])]

IsValid(r) == r.want = "end"
=============================================================================

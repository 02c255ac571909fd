-------------------------- MODULE TransformContext --------------------------
(***************************************************************************)
(* The context that the transformers of one session share                  *)
(* (transformer.go): it collects the replacements for the serialized       *)
(* snapshot and hands out the numbers of the reference placeholders.       *)
(*                                                                         *)
(* A placeholder is a text, too: the replacements that are applied later    *)
(* find in it what they look for.                                          *)
(* The origin of a replacement is a reference value, a transformer of the  *)
(* test that took a number, or a pattern.                                  *)
(***************************************************************************)
EXTENDS JsonText

CONSTANT Context    \* the contexts, one per session

\* The decimal form of a number.
DecimalOf(n) ==
    LET decimal[i \in 0..n] ==
            IF i < 10 THEN <<DigitOf[i + 1]>> ELSE Append(decimal[i \div 10], DigitOf[(i % 10) + 1])
    IN  decimal[n]

\* <scope:n>
Placeholder(scope, n) == <<"<", scope, ":">> \o DecimalOf(n) \o <<">">>

VARIABLES
    replacements,   \* the registered replacements, in order
    scopedTokens,   \* the last number of every scope that has one
    seenRefs,       \* the reference values that have a placeholder
    errs            \* an error was reported

context == <<replacements, scopedTokens, seenRefs, errs>>

ContextInit ==
    /\ replacements = [c \in Context |-> <<>>]
    /\ scopedTokens = [c \in Context |-> [scope \in {} |-> 0]]
    /\ seenRefs = [c \in Context |-> {}]
    /\ errs = [c \in Context |-> FALSE]

-----------------------------------------------------------------------------

\* Errorf
Errorf(c) ==
    /\ errs' = [errs EXCEPT ![c] = TRUE]
    /\ UNCHANGED <<replacements, scopedTokens, seenRefs>>

\* Mutant of NextNumber: the number is what the scope has handed out so far, plus one, but
\* a transformer that takes a number does not count it.
CountReplacements(c, scope) ==
    Len(SelectSeq(replacements[c], LAMBDA r : r.origin = "reference" /\ r.scope = scope)) + 1

\* Mutant of NextNumber: the counter is not kept.
FirstNumber(c, scope) == 1

\* NewScope
NextNumber(c, scope) ==
    IF scope \in DOMAIN scopedTokens[c] THEN scopedTokens[c][scope] + 1 ELSE 1

\* A replacement by the next placeholder of the scope.
Numbered(c, pattern, scope, origin) ==
    /\ scopedTokens' = [scopedTokens EXCEPT ![c] =
           [s \in DOMAIN @ \cup {scope} |-> IF s = scope THEN NextNumber(c, scope) ELSE @[s]]]
    /\ replacements' = [replacements EXCEPT ![c] = Append(@,
           [origin |-> origin, patterns |-> {pattern},
            with |-> Placeholder(scope, NextNumber(c, scope)),
            scope |-> scope, number |-> NextNumber(c, scope)])]

\* Mutant of QuoteEscaped: the value as it is, which the serialized state does not have.
AsIs(text) == text

\* strings.ReplaceAll(value, `"`, `\"`): other characters that JSON escapes are not.
QuoteEscaped(text) ==
    FlattenSeq([i \in DOMAIN text |->
                   IF text[i] = Quote THEN <<Backslash, Quote>> ELSE <<text[i]>>])

\* Mutant of RegisterReference: a value that has a placeholder gets another one.
RegisterAgain(c, value, scope) ==
    IF ~IsString(value)
    THEN Errorf(c)
    ELSE /\ seenRefs' = [seenRefs EXCEPT ![c] = @ \cup {QuoteEscaped(value[2])}]
         /\ Numbered(c, QuoteEscaped(value[2]), scope, "reference")
         /\ UNCHANGED errs

\* registerReferenceReplacement
RegisterReference(c, value, scope) ==
    IF ~IsString(value)
    THEN Errorf(c)
    ELSE LET pattern == QuoteEscaped(value[2])
         IN  IF pattern \in seenRefs[c]
             THEN UNCHANGED context
             ELSE /\ seenRefs' = [seenRefs EXCEPT ![c] = @ \cup {pattern}]
                  /\ Numbered(c, pattern, scope, "reference")
                  /\ UNCHANGED errs

\* A transformer of the test that takes a number from NewScope and registers a
\* replacement of its own.
RegisterNumbered(c, pattern, scope) ==
    /\ Numbered(c, pattern, scope, "numbered")
    /\ UNCHANGED <<seenRefs, errs>>

\* RegisterSerializedReplacement, for a regular expression or a literal text.
RegisterPatterns(c, patterns, with) ==
    /\ replacements' = [replacements EXCEPT ![c] = Append(@,
           [origin |-> "pattern", patterns |-> patterns, with |-> with,
            scope |-> Quote, number |-> 0])]
    /\ UNCHANGED <<scopedTokens, seenRefs, errs>>

-----------------------------------------------------------------------------
(* Properties. *)

IsReference(r) == r.origin = "reference"
HasNumber(r) == r.origin \in {"reference", "numbered"}

\* A reference value has one placeholder, however often and by however many transformers
\* it is found: no two reference replacements of a session have the same pattern.
OnePlaceholder ==
    \A c \in Context : \A i, j \in DOMAIN replacements[c] :
        LET r == replacements[c][i]
            s == replacements[c][j]
        IN  i # j /\ IsReference(r) /\ IsReference(s) => r.patterns # s.patterns

\* Placeholders tell values apart: no two numbered replacements of a scope have the same
\* number, and numbers grow in the order of registration, whoever took them.
PlaceholdersOrdered ==
    \A c \in Context : \A i, j \in DOMAIN replacements[c] :
        LET r == replacements[c][i]
            s == replacements[c][j]
        IN  i < j /\ HasNumber(r) /\ HasNumber(s) /\ r.scope = s.scope => r.number < s.number

\* Why they hold: every number was handed out by its scope, and every reference pattern is
\* among those that are never registered again.
NumbersHandedOut ==
    \A c \in Context : \A i \in DOMAIN replacements[c] :
        LET r == replacements[c][i]
        IN  HasNumber(r) => /\ r.number \in Nat
                            /\ r.scope \in DOMAIN scopedTokens[c]
                            /\ r.number <= scopedTokens[c][r.scope]

PatternsSeen ==
    \A c \in Context : \A i \in DOMAIN replacements[c] :
        LET r == replacements[c][i]
        IN  IsReference(r) => \E p \in seenRefs[c] : r.patterns = {p}
=============================================================================

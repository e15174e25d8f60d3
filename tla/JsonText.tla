------------------------------ MODULE JsonText ------------------------------
(***************************************************************************)
(* The JSON side of the workbench (structured.ts).  A document is a tree,  *)
(* its nodes numbered in the order of the text.  JSON is read and printed  *)
(* by libraries that would lose "__proto__" keys and the digits of         *)
(* numbers: the code hides both behind strings of its own.                 *)
(***************************************************************************)
EXTENDS ToolCall, FiniteSetsExt, SequencesExt

CONSTANTS
    MaxNodes, MaxDepth      \* STRUCTURED_DATA_LIMITS

ASSUME LimitsAssumption == {MaxNodes, MaxDepth} \subseteq Nat

\* Strings, of which only what the placeholders can collide with matters:
\* "proto" is __proto__, "key" and "number" are NUL domos-prototype-n and NUL
\* domos-number-n, "tail" is any string that ends in a quote and "number" n, and
\* "lone" is a string with half a surrogate pair, written as an escape.
Text(kind, n) == [kind |-> kind, n |-> n]
Proto == Text("proto", 0)

-----------------------------------------------------------------------------
(* Trees                                                                   *)

\* doc.parent[n] is 0 for the root; doc.kind[n] is "map", "seq" or that of a leaf;
\* doc.key[n] is its key in a map; doc.leaf[n] is a Text or the lexeme of a number,
\* "long" if it is a decimal that a double does not hold.
Nodes(doc) == DOMAIN doc.parent
Children(doc, n) == {m \in Nodes(doc) : doc.parent[m] = n}
Keyed(doc) == {m \in Nodes(doc) : doc.parent[m] # 0 /\ doc.kind[doc.parent[m]] = "map"}

Ancestors(doc, n) ==
    LET up[m \in {0} \cup Nodes(doc)] == IF m = 0 THEN {} ELSE {doc.parent[m]} \cup up[doc.parent[m]]
    IN  up[n] \ {0}

Collections(doc) == {n \in Nodes(doc) : doc.kind[n] \in {"map", "seq"}}
TooDeep(doc) == \E n \in Collections(doc) : Cardinality(Ancestors(doc, n)) + 1 > MaxDepth

SameKey(doc) ==
    \E m, n \in Keyed(doc) : m # n /\ doc.parent[m] = doc.parent[n] /\ doc.key[m] = doc.key[n]

\* ensureUnicode() refuses a string, a key too, that is not well-formed UTF-16.
IllFormed(doc) ==
    \E n \in Nodes(doc) : doc.leaf[n].kind = "lone" \/ (n \in Keyed(doc) /\ doc.key[n].kind = "lone")

\* A JSON text as its parser reads it, and what it is to be converted to.
JsonInput(r) ==
    LET doc == r.doc
        Words == [kind : {"own", "proto", "key", "number", "tail", "lone", "lexeme", "long", "none"}, n : Nat]
    IN  /\ r.target \in {"json", "yaml"}
        /\ doc \in [parent : Seq(Nat), kind : Seq({"map", "seq", "scalar"}), key : Seq(Words), leaf : Seq(Words)]
        /\ Len(doc.kind) = Len(doc.parent) /\ Len(doc.key) = Len(doc.parent) /\ Len(doc.leaf) = Len(doc.parent)
        /\ \A n \in Nodes(doc) : doc.parent[n] < n

-----------------------------------------------------------------------------
(* JSON                                                                    *)

\* What a tree says: for each member its place, its key and its leaf.
Members(doc) ==
    [n \in Nodes(doc) |->
        <<doc.parent[n], IF n \in Keyed(doc) THEN doc.key[n] ELSE Text("none", 0), doc.leaf[n]>>]

\* prepareJson() and checkJsonTree() refuse a repeated key, an ill-formed string
\* and what is above the budgets; if several apply, the order of the text decides, any of them here.
JsonFaults(doc) ==
    {code \in {"INVALID_INPUT", "LIMIT_EXCEEDED"} :
        \/ code = "INVALID_INPUT" /\ (SameKey(doc) \/ IllFormed(doc))
        \/ code = "LIMIT_EXCEEDED" /\ ( \/ TooDeep(doc)
                                        \/ Cardinality(Nodes(doc)) + Cardinality(Keyed(doc)) > MaxNodes)}

\* A stand-in for __proto__ that is no key of the document.
Placeholder(doc) ==
    Text("key", CHOOSE k \in 0..Cardinality(Nodes(doc)) :
        /\ Text("key", k) \notin {doc.key[n] : n \in Keyed(doc)}
        /\ \A j \in 0..(k - 1) : Text("key", j) \in {doc.key[n] : n \in Keyed(doc)})

Prepared(doc) ==
    [doc EXCEPT !.key = [n \in Nodes(doc) |-> IF doc.key[n] = Proto THEN Placeholder(doc) ELSE doc.key[n]]]

\* External: lossless-json assigns members one by one, which drops __proto__.
Assigned(doc) ==
    LET lost == {n \in Keyed(doc) : doc.key[n] = Proto}
        kept == {n \in Nodes(doc) : n \notin lost /\ Ancestors(doc, n) \cap lost = {}}
    IN  [n \in kept |-> Members(doc)[n]]

\* restorePrototypeKeys(), which renames the stand-in wherever it is a key.
Restored(value, standIn) ==
    [n \in DOMAIN value |-> IF value[n][2] = standIn THEN [value[n] EXCEPT ![2] = Proto] ELSE value[n]]

ParsedJson(doc) ==
    IF \E n \in Keyed(doc) : doc.key[n] = Proto
    THEN Restored(Assigned(Prepared(doc)), Placeholder(doc))
    ELSE Assigned(doc)

Numbers(value) == {n \in DOMAIN value : value[n][3].kind \in {"lexeme", "long"}}

\* Mutant of NumberTokens: tokens are numbered without a look at the strings.
NumberTokensUnchecked(value) ==
    LET numbers == Numbers(value)
    IN  [n \in numbers |-> Cardinality({m \in numbers : m < n})]

\* The k of the token that stands for each number: they are taken in order, those
\* that are a string or a key of the value are passed over.
NumberTokens(value) ==
    LET numbers == Numbers(value)
        strings == {value[n][3] : n \in DOMAIN value} \cup {value[n][2] : n \in DOMAIN value}
        free == {k \in 0..(2 * Cardinality(DOMAIN value) + Cardinality(strings)) : Text("number", k) \notin strings}
    IN  [n \in numbers |-> CHOOSE k \in free :
            Cardinality({j \in free : j < k}) = Cardinality({m \in numbers : m < n})]

\* The text JSON.stringify() returns after the last replace(): every quoted token,
\* also one whose first quote is an escaped one, gives way to its number.
PrintedJson(value) ==
    LET token == NumberTokens(value)
        Lexeme(k) == value[CHOOSE n \in DOMAIN token : token[n] = k][3]
        Replaced(text) ==
            IF text.kind \in {"number", "tail"} /\ \E n \in DOMAIN token : token[n] = text.n
            THEN IF text.kind = "number" THEN Lexeme(text.n) ELSE Text("broken", text.n)
            ELSE text
        Emitted(n) == IF n \in DOMAIN token THEN Text("number", token[n]) ELSE value[n][3]
    IN  [n \in DOMAIN value |-> <<value[n][1], Replaced(value[n][2]), Replaced(Emitted(n))>>]

\* structured(); jsonForYaml() refuses a number that YAML would print with other digits.
FormatJson ==
    /\ Begun("json")
    /\ LET value == ParsedJson(input.doc)
       IN  \/ \E code \in JsonFaults(input.doc) : Leave(Fault(code))
           \/ /\ JsonFaults(input.doc) = {}
              /\ Leave(IF input.target = "json" THEN Data(PrintedJson(value))
                       ELSE IF \E n \in Numbers(value) : value[n][3].kind = "long" THEN Fault("UNSUPPORTED")
                       ELSE Data(value))

-----------------------------------------------------------------------------

\* A string that ends in a quote and a number token, in a text with numbers.
Endangered(doc) ==
    /\ \E n \in Nodes(doc) : doc.leaf[n].kind = "tail" \/ (n \in Keyed(doc) /\ doc.key[n].kind = "tail")
    /\ Numbers(Members(doc)) # {}

\* What the workbench prints says what the text said, every key, string and digit
\* of it, whatever stand-ins and tokens the text itself contains, but for the one
\* case that TokensAreCollisionFree is about; and a text is refused when
\* it is over the budgets, repeats a key or holds half a surrogate pair, and only
\* then or for a number that YAML would change (prepareJson(), checkJsonTree(),
\* stringifyJson(), jsonForYaml()).
JsonSurvives ==
    phase = "handled" /\ input.tool = "json" =>
        IF result.kind = "result"
        THEN /\ JsonFaults(input.doc) = {}
             /\ result.data = Members(input.doc) \/ (input.target = "json" /\ Endangered(input.doc))
        ELSE \/ result.code \in JsonFaults(input.doc)
             \/ input.target = "yaml" /\ \E n \in Nodes(input.doc) : input.doc.leaf[n].kind = "long"

\* "Native JSON handles escaping/layout; collision-free string tokens carry raw
\* numeric lexemes" (structured.ts:131): no string of the text is taken for the
\* token of a number.  The code does not keep this: a token is looked for from any
\* quote, also from an escaped one inside a string.
TokensAreCollisionFree ==
    phase = "handled" /\ input.tool = "json" /\ result.kind = "result" /\ input.target = "json" =>
        \A n \in DOMAIN result.data : result.data[n][2].kind # "broken" /\ result.data[n][3].kind # "broken"

=============================================================================

---------------------------- MODULE YamlExpansion ----------------------------
(***************************************************************************)
(* The YAML side of the workbench (structured.ts): aliases make the tree   *)
(* of a text a graph, which yamlValue() unfolds, depth first, within       *)
(* budgets, and which it refuses when it is a circle.  Lexer, parser and   *)
(* alias.resolve() are those of the yaml package.                          *)
(***************************************************************************)
EXTENDS JsonText

CONSTANTS MaxAliases        \* STRUCTURED_DATA_LIMITS.aliases

ASSUME MaxAliasesAssumption == MaxAliases \in Nat

\* doc.kind[n] may be "alias", of the node doc.target[n], or of none if that is 0, or
\* "foreign": a tag or a value JSON has not.  doc.bare holds the nodes that no token
\* of the text stands for: the null of `k:' and the map of the one pair in `[k: v]'.
\* A key can be "nonstring", a scalar, or "missing", with no token either.
Aliases(doc) == {n \in Nodes(doc) : doc.kind[n] = "alias"}

\* yamlPreflight() bounds the tokens before anything recursive is done with them.
PreflightFails(doc) ==
    \/ \E n \in Collections(doc) \ doc.bare : Cardinality(Ancestors(doc, n) \ doc.bare) + 1 > MaxDepth
    \/ Cardinality(Aliases(doc)) > MaxAliases
    \/ Cardinality(Nodes(doc) \ (Aliases(doc) \cup doc.bare))
       + Cardinality({n \in Keyed(doc) : doc.key[n].kind # "missing"}) > MaxNodes

Start ==
    /\ Begun("yaml")
    /\ IF PreflightFails(input.doc) THEN Leave(Fault("LIMIT_EXCEEDED"))
       ELSE Proceed([stack |-> <<>>, nodes |-> 0, aliases |-> 0, active |-> {}, out |-> <<>>])

\* What convert() is called with for a node: the items, in the order of the text, or
\* what an alias names.
Nexts(doc, n) == IF doc.kind[n] = "alias" THEN {doc.target[n]} ELSE Children(doc, n)

\* The call that is at work is the last of the stack; it has `todo' still to convert.
Top == work.stack[Len(work.stack)]
Unstarted == work.nodes = 0
Due == IF Unstarted THEN {1} ELSE Top.todo
DueDepth ==
    IF Unstarted THEN 0 ELSE Top.depth + IF Top.node \in Aliases(input.doc) THEN 0 ELSE 1

\* The key of a pair is looked at before its value is converted; a node reached by
\* an alias has none.
KeyFault(doc, n) ==
    IF n \notin Keyed(doc) \/ Top.node # doc.parent[n] THEN "none"
    ELSE IF doc.key[n].kind \in {"nonstring", "missing"} THEN "UNSUPPORTED"
    ELSE IF doc.key[n].kind = "lone" THEN "INVALID_INPUT"
    ELSE IF doc.key[n].kind = "merge" THEN "UNSUPPORTED"
    ELSE IF \E m \in Keyed(doc) : m < n /\ doc.parent[m] = doc.parent[n] /\ doc.key[m] = doc.key[n]
    THEN "INVALID_INPUT"
    ELSE "none"

\* The checks of convert(n, depth) before it calls itself, in their order.
EntryFault(doc, n, depth) ==
    IF work.nodes + 1 > MaxNodes \/ depth > MaxDepth THEN "LIMIT_EXCEEDED"
    ELSE IF n \in work.active THEN "INVALID_INPUT"
    ELSE IF doc.kind[n] = "foreign" THEN "UNSUPPORTED"
    ELSE IF n \notin Aliases(doc) THEN IF doc.leaf[n].kind = "lone" THEN "INVALID_INPUT" ELSE "none"
    ELSE IF work.aliases + 1 > MaxAliases THEN "LIMIT_EXCEEDED"
    ELSE IF doc.target[n] = 0 THEN "INVALID_INPUT"
    ELSE "none"

Enter ==
    /\ Working("yaml")
    /\ Due # {}
    /\ LET n == Min(Due)
           doc == input.doc
           faults == {KeyFault(doc, n), EntryFault(doc, n, DueDepth)}
           left == IF Unstarted THEN <<>> ELSE [work.stack EXCEPT ![Len(work.stack)].todo = @ \ {n}]
       IN  IF faults # {"none"}
           THEN Leave(Fault(IF KeyFault(doc, n) # "none" THEN KeyFault(doc, n) ELSE EntryFault(doc, n, DueDepth)))
           ELSE Proceed([stack |-> Append(left, [node |-> n, depth |-> DueDepth, todo |-> Nexts(doc, n)]),
                         nodes |-> work.nodes + 1,
                         aliases |-> work.aliases + IF n \in Aliases(doc) THEN 1 ELSE 0,
                         active |-> work.active \cup {n},
                         out |-> IF n \in Aliases(doc) THEN work.out ELSE Append(work.out, <<DueDepth, n>>)])

\* Mutant of Return: the node is not taken out of the active set again.
ReturnStillActive ==
    /\ Working("yaml")
    /\ ~Unstarted /\ Due = {}
    /\ IF Len(work.stack) = 1 THEN Leave(Data(work.out))
       ELSE Proceed([work EXCEPT !.stack = Front(@)])

\* convert() returns, and its finally block takes the node out of the active set.
Return ==
    /\ Working("yaml")
    /\ ~Unstarted /\ Due = {}
    /\ IF Len(work.stack) = 1 THEN Leave(Data(work.out))
       ELSE Proceed([work EXCEPT !.stack = Front(@), !.active = @ \ {Top.node}])

-----------------------------------------------------------------------------
(* What the conversion is for                                              *)

\* A YAML text as its parser reads it: the nodes below one follow it without a gap,
\* an alias names a node before it and has none below.
YamlTree(doc) ==
    /\ doc.parent \in Seq(Nat) /\ 1 \in Nodes(doc)
    /\ \A n \in Nodes(doc) :
          /\ IF n = 1 THEN doc.parent[n] = 0 ELSE doc.parent[n] \in 1..(n - 1)
          /\ \A a \in Ancestors(doc, n) : \A m \in (a + 1)..(n - 1) : a \in Ancestors(doc, m)
          /\ n \in Aliases(doc) => doc.target[n] \in 0..(n - 1) /\ Children(doc, n) = {}
          /\ doc.leaf[n].kind = "lone" => doc.kind[n] = "scalar" /\ n \notin doc.bare
          /\ n \in doc.bare => \/ doc.kind[n] \in {"scalar", "foreign"}
                               \/ doc.kind[n] = "map" /\ Cardinality(Children(doc, n)) = 1

\* The places of the unfolded tree are the ways down from the root, aliases included;
\* one that is longer than there are nodes goes in a circle.
Paths(doc) ==
    LET ways[k \in 1..(Cardinality(Nodes(doc)) + 1)] ==
            IF k = 1 THEN {<<1>>}
            ELSE UNION {{Append(p, n) : n \in Nexts(doc, p[k - 1]) \ {0}} : p \in ways[k - 1]}
    IN  UNION {ways[k] : k \in 1..(Cardinality(Nodes(doc)) + 1)}

\* The order of the text: a node before what is below it, and items as they are listed.
Before(p, q) ==
    \E i \in DOMAIN q :
        /\ i = Len(p) + 1 \/ (i \in DOMAIN p /\ p[i] < q[i])
        /\ \A j \in 1..(i - 1) : p[j] = q[j]

DepthOf(doc, p) == Cardinality({i \in 1..(Len(p) - 1) : p[i] \notin Aliases(doc)})
AliasPaths(doc) == {p \in Paths(doc) : Last(p) \in Aliases(doc)}
NodePaths(doc) == Paths(doc) \ AliasPaths(doc)

Circular(doc) == \E n \in Aliases(doc) : doc.target[n] \in Ancestors(doc, n)

\* A text that JSON can say and that keeps to the budgets when it is unfolded.
Representable(doc) ==
    /\ ~PreflightFails(doc)
    /\ \A n \in Nodes(doc) : doc.kind[n] # "foreign"
    /\ \A n \in Aliases(doc) : doc.target[n] # 0
    /\ \A n \in Keyed(doc) : doc.key[n].kind \notin {"merge", "nonstring", "missing"}
    /\ ~SameKey(doc) /\ ~Circular(doc) /\ ~IllFormed(doc)
    /\ Cardinality(Paths(doc)) <= MaxNodes /\ Cardinality(AliasPaths(doc)) <= MaxAliases
    /\ \A p \in Paths(doc) : DepthOf(doc, p) <= MaxDepth

\* A YAML text is converted exactly when it is representable, and then to its full
\* unfolding: an alias used twice, also inside what another alias names, is no
\* circle, a circle never gets through or runs on, and "invalid" is said only of
\* a circle, an alias without an anchor, a repeated key or half a surrogate pair.
YamlIsUnfolded ==
    phase = "handled" /\ input.tool = "yaml" =>
        /\ result.kind = "result" <=> Representable(input.doc)
        /\ result.kind = "result" =>
              /\ Len(result.data) = Cardinality(NodePaths(input.doc))
              /\ \A p \in NodePaths(input.doc) :
                    result.data[Cardinality({q \in NodePaths(input.doc) : Before(q, p)}) + 1]
                    = <<DepthOf(input.doc, p), Last(p)>>
        /\ result = Fault("INVALID_INPUT") =>
              \/ Circular(input.doc) \/ SameKey(input.doc) \/ IllFormed(input.doc)
              \/ \E n \in Aliases(input.doc) : input.doc.target[n] = 0

=============================================================================

--------------------------- MODULE MCDirectRuntime ---------------------------
(* Small inputs around the corners of each tool. *)
EXTENDS DirectRuntime

NoText == Text("none", 0)
Own(n) == Text("own", n)

\* Shapes of n nodes in the order of a text: a node's parent is the node before it
\* or an ancestor of that.
Shapes(n) ==
    {p \in [1..n -> 0..(n - 1)] :
        /\ p[1] = 0
        /\ \A m \in 2..n : p[m] = m - 1 \/ p[m] \in Ancestors([parent |-> p], m - 1)}
Inner(p) == {p[m] : m \in DOMAIN p} \ {0}

\* Three levels of members whose keys meet __proto__ and its stand-ins.
KeyDocs ==
    {[parent |-> p, kind |-> [n \in 1..4 |-> IF n \in Inner(p) THEN "map" ELSE "scalar"],
      key |-> <<Own(1)>> \o k,
      leaf |-> [n \in 1..4 |-> IF n \in Inner(p) THEN NoText ELSE Text("lexeme", n)]] :
        p \in Shapes(4), k \in [1..3 -> {Own(0), Proto, Text("key", 0), Text("key", 1), Text("lone", 0)}]}

\* Numbers among strings that look like the tokens of numbers.
Strings == {Text("number", 0), Text("number", 1), Text("number", 3), Text("tail", 0), Text("tail", 2)}
Leaves(n) == Strings \cup {Text("lone", 0), Text("lexeme", n), Text("long", n)}
TextDocs ==
    {[parent |-> <<0, 1, 1, 1>>, kind |-> <<"map", "scalar", "scalar", "scalar">>,
      key |-> <<Own(1), k, Own(3), Own(4)>>, leaf |-> <<NoText, a, b, c>>] :
        k \in Strings, a \in Leaves(2), b \in Leaves(3), c \in Leaves(4)}

\* Sequences of six nodes with up to four aliases of earlier nodes.
Yaml(p, kind, target, key, leaf, bare) ==
    [parent |-> p, kind |-> kind, target |-> target, key |-> key, leaf |-> leaf, bare |-> bare]
NoLeaves(p) == [n \in DOMAIN p |-> NoText]
AliasDocs ==
    UNION {{Yaml(p,
                 [n \in 1..6 |-> IF n \in Inner(p) THEN "seq" ELSE IF n \in DOMAIN a THEN "alias" ELSE "scalar"],
                 [n \in 1..6 |-> IF n \in DOMAIN a THEN a[n] ELSE 0],
                 [n \in 1..6 |-> Own(n)], NoLeaves(p), {}) :
              a \in UNION {{f \in [A -> 0..5] : \A n \in A : f[n] < n /\ f[n] \notin A} :
                           A \in {A \in SUBSET (1..6 \ Inner(p)) : Cardinality(A) \in 1..4 /\ 1 \notin A}}} :
           p \in Shapes(6)}

\* Maps with keys and values that JSON cannot say, or that are repeated.
Keys == {Own(0), Own(1)} \cup {Text(kind, 0) : kind \in {"merge", "nonstring", "missing", "lone"}}
MapDocs ==
    {Yaml(p, [n \in 1..4 |-> IF n \in Inner(p) THEN "map" ELSE IF n = f[1] THEN "foreign" ELSE "scalar"],
          [n \in 1..4 |-> 0], <<Own(1)>> \o k,
          [n \in 1..4 |-> IF n = f[2] /\ n \notin Inner(p) THEN Text("lone", 0) ELSE NoText], {}) :
        p \in Shapes(4), f \in {<<0, 0>>, <<3, 0>>, <<4, 0>>, <<0, 3>>, <<3, 4>>}, k \in [1..3 -> Keys]}

\* Flat maps, within the budget of nodes and above it, of written values and of none.
WideDocs ==
    {Yaml([m \in 1..w[1] |-> IF m = 1 THEN 0 ELSE 1], [m \in 1..w[1] |-> IF m = 1 THEN "map" ELSE "scalar"],
          [m \in 1..w[1] |-> 0], [m \in 1..w[1] |-> Own(m)], [m \in 1..w[1] |-> NoText], w[2]) :
        w \in {<<n, {}>> : n \in 4..7} \cup {<<n, 2..n>> : n \in 4..12}}

\* `[k: [k: ...]]', whose maps may have no token.
PairDocs ==
    {doc \in
        {Yaml([m \in 1..n |-> m - 1], [m \in 1..n |-> IF m = n THEN last ELSE IF m % 2 = 0 THEN "map" ELSE "seq"],
              [m \in 1..n |-> 0], [m \in 1..n |-> Own(m)], [m \in 1..n |-> NoText], bare) :
            n \in 3..5, last \in {"scalar", "seq", "map"}, bare \in SUBSET {2, 4}} :
        YamlTree(doc)}

Regexes ==
    {[tool |-> "regex", units |-> u, ends |-> e, global |-> f[1], sticky |-> f[2], unicode |-> f[3],
      maxMatches |-> max, compiles |-> c] :
        u \in {<<"whole", "whole", "whole">>, <<"whole", "high", "low">>, <<"high", "low", "whole">>},
        e \in {e \in [0..3 -> -1..3] : \A s \in 0..3 : e[s] = -1 \/ e[s] >= s},
        f \in BOOLEAN \X BOOLEAN \X BOOLEAN, max \in 1..3, c \in BOOLEAN}

Passwords ==
    [tool : {"password"}, sizes : {<<1, 1>>, <<2, 1>>, <<1, 2, 1>>, <<1, 1, 1, 1>>}, length : {4}, eachClass : BOOLEAN]

Passphrases ==
    [tool : {"passphrase"}, list : {l \in SUBSET {<<1>>, <<2>>, <<1, 1>>, <<1, 2>>, <<2, 1>>, <<2, 2>>} : Cardinality(l) > 1},
     separator : {<<>>, <<1>>, <<0>>, <<0, 1>>, <<1, 0, 2>>}, words : {2, 3}, capitalize : BOOLEAN]

\* Of the sequences of bytes that these digits stand for only ASCII is UTF-8.
Ascii == Seq(0..127)
Some(n) == UNION {[1..m -> {0, 16, 52, 63}] : m \in 0..n}
Base64s ==
    [tool : {"base64"}, encode : {FALSE}, alphabet : {"standard", "url-safe"}, utf8 : BOOLEAN,
     text : [digits : Some(4), pads : 0..3, alphabet : {"standard", "url-safe"}]]
    \cup [tool : {"base64"}, encode : {TRUE}, alphabet : {"standard", "url-safe"}, padding : BOOLEAN,
          bytes : UNION {[1..m -> {0, 1, 62, 127, 255}] : m \in 0..4}]

EarliestYear == -7000
Epochs ==
    {e \in [tool : {"epoch"}, unit : {"seconds", "milliseconds"},
            number : [negative : BOOLEAN, whole : {0, 1, 7, 8, 9, 10, 7001},
                      fraction : UNION {[1..m -> {0, 1, 9}] : m \in 0..3}]] :
        e.unit = "milliseconds" => e.number.fraction = <<>>}

Clauses ==
    {c \in [targets : {{"u"}, {"o"}, {"u", "g"}, {"u", "g", "o"}}, operator : {"+", "-", "="},
            permissions : {{}, {"r"}, {"s"}, {"t"}, {"x", "s", "t"}}] :
        c.permissions # {} \/ c.operator = "="}
Chmods ==
    [tool : {"chmod"}, base : {{}, {<<"u", "x">>, <<"o", "bit">>}, Who \X {"r", "w", "x", "bit"}},
     clauses : {<<>>} \cup [1..1 -> Clauses] \cup [1..2 -> Clauses]]

\* Texts of header lines: a date with or without its zone, a zone, other words, blanks.
Says(kind, time) == [kind |-> kind, time |-> time]
HeaderTexts == {Says(kind, NoTime) : kind \in {"zone", "words", "blanks"}} \cup [kind : {"dated", "date"}, time : {1, 3, 5}]
Zoned(stamp) ==
    LET said == SelectSeq(stamp, LAMBDA t : t.kind # "blanks")
    IN  IF [i \in DOMAIN said |-> said[i].kind] \in {<<"dated">>, <<"date", "zone">>} THEN said[1].time ELSE NoTime
HeaderLines ==
    {Line("received", FALSE, Says("words", NoTime)), Line("received", TRUE, Says("dated", 1)),
     Line("received", TRUE, Says("dated", 5)), Line("received", TRUE, Says("date", 5)),
     Line("folded", FALSE, Says("words", NoTime)), Line("folded", FALSE, Says("zone", NoTime)),
     Line("folded", TRUE, Says("dated", 3))}
    \cup {Line(s, FALSE, Says("blanks", NoTime)) : s \in {"authentication", "other", "blank", "empty", "text", "overlong"}}
ManyLines ==
    [1..5 -> {Line("received", FALSE, Says("words", NoTime)), Line("received", TRUE, Says("dated", 5)),
              Line("folded", TRUE, Says("dated", 3)), Line("other", FALSE, Says("words", NoTime))}]
Emails == [tool : {"email"}, lines : UNION {[1..m -> HeaderLines] : m \in 1..4} \cup ManyLines]

Json(doc) == [parent |-> doc.parent, kind |-> doc.kind, key |-> doc.key, leaf |-> doc.leaf]
AllInputs ==
    [tool : {"json"}, target : {"json", "yaml"}, doc : KeyDocs \cup TextDocs \cup {Json(doc) : doc \in WideDocs}]
    \cup [tool : {"yaml"}, doc : AliasDocs \cup MapDocs \cup WideDocs \cup PairDocs]
    \cup {r \in Regexes : Matchable(r)} \cup Passwords \cup Passphrases
    \cup Base64s \cup Epochs \cup Chmods \cup Emails \cup Malformed
=============================================================================

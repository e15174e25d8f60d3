--------------------------- MODULE HeaderAnalysis ---------------------------
(***************************************************************************)
(* The e-mail header analyzer (email.ts of tool-core).  A line says what   *)
(* sort it is, whether it has a semicolon, and the text after the last one *)
(* or all of its text; PostalMime, which is awaited, is external.          *)
(***************************************************************************)
EXTENDS ToolCall, FiniteSetsExt, SequencesExt, Integers

CONSTANTS
    MaxHeaders, MaxReceived,    \* 2,000 and 1,000
    NoTime,                     \* no valid time with a zone
    LineTexts,                  \* of lines, after the last semicolon
    StampTime(_)                \* external: trim(), the zone, Date.parse(), instantSchema

\* Sorts of lines: "received", "authentication" and "other" fields, "folded" (it
\* starts with a blank; it may hold nothing else, then it is "blank"), "empty",
\* "text", which is no header, and "overlong", a header with such a name.
Line(sort, semicolon, text) == [sort |-> sort, semicolon |-> semicolon, text |-> text]
Folds == {"folded", "blank"}

Lines == input.lines
FirstEmpty == Min({i \in DOMAIN Lines : Lines[i].sort = "empty"} \cup {Len(Lines) + 1})
BodyIgnored == \E i \in DOMAIN Lines : i > FirstEmpty /\ Lines[i].sort \notin {"empty", "blank"}

\* The texts behind the last semicolon of a field, with one line more of it.
Stamp(before, line) ==
    IF line.semicolon THEN <<line.text>>
    ELSE IF before = <<>> THEN <<>> ELSE Append(before, line.text)

\* One turn of the loop over the lines.
ReadLine(state, line) ==
    IF state.fault # "none" THEN state
    ELSE
        CASE line.sort \in Folds ->
                IF state.fields = <<>> THEN [state EXCEPT !.fault = "INVALID_INPUT"]
                ELSE [state EXCEPT !.fields[Len(state.fields)].stamp = Stamp(@, line)]
          [] line.sort \in {"text", "overlong"} ->
                [state EXCEPT !.fault = IF line.sort = "text" THEN "INVALID_INPUT" ELSE "LIMIT_EXCEEDED"]
          [] OTHER -> [fields |-> Append(state.fields, [sort |-> line.sort, stamp |-> Stamp(<<>>, line)]),
                       fault |-> IF Len(state.fields) = MaxHeaders THEN "LIMIT_EXCEEDED" ELSE "none"]

\* The loop stops at the first empty line.
AllRead ==
    LET after[n \in 0..Len(Lines)] ==
            IF n = 0 THEN [fields |-> <<>>, fault |-> "none"] ELSE ReadLine(after[n - 1], Lines[n])
    IN  after[FirstEmpty - 1]

Unfold ==
    /\ Begun("email")
    /\ LET read == AllRead
       IN  IF read.fault # "none" THEN Leave(Fault(read.fault))
           ELSE IF read.fields = <<>> THEN Leave(Fault("INVALID_INPUT"))
           ELSE /\ phase' = "awaiting" /\ work' = read.fields
                /\ UNCHANGED <<input, aborted, result>>

\* A field with no semicolon has no time, nor has one whose stamp is no date or does
\* not end in a zone.
Time(stamp) == IF stamp # <<>> /\ StampTime(stamp) \in Int THEN StampTime(stamp) ELSE NoTime

\* Mutant of Delay: the delay is taken to the last hop that has a time.
DelayAcross(hops, i) ==
    LET timed == {j \in (i + 1)..Len(hops) : hops[j] # NoTime}
    IN  IF hops[i] # NoTime /\ timed # {} THEN <<hops[i] - hops[Min(timed)]>> ELSE <<>>

\* delaySeconds of a hop, if it and the next older one have a time.
Delay(hops, i) ==
    IF i < Len(hops) /\ hops[i] # NoTime /\ hops[i + 1] # NoTime THEN <<hops[i] - hops[i + 1]>> ELSE <<>>

\* The members of a set of places, in their order.
InOrder(S) == [i \in 1..Cardinality(S) |-> CHOOSE m \in S : Cardinality({k \in S : k < m}) = i - 1]
OfSort(fields, sort) == {p \in DOMAIN fields : fields[p].sort = sort}

Report(fields) ==
    LET received == InOrder(OfSort(fields, "received"))
        hops == [i \in DOMAIN received |-> Time(fields[received[i]].stamp)]
        delays == [i \in DOMAIN hops |-> Delay(hops, i)]
    IN  [headers |-> Len(fields), hops |-> hops, delays |-> delays,
         authentication |-> Cardinality(OfSort(fields, "authentication")),
         missing |-> Cardinality({i \in DOMAIN hops : hops[i] = NoTime}),
         skews |-> Cardinality({i \in DOMAIN hops : delays[i] # <<>> /\ delays[i][1] < 0}),
         bodyIgnored |-> BodyIgnored]

\* A host or a date of more than 4,096 bytes is refused as well.
Parsed ==
    /\ phase = "awaiting"
    /\ LET report == Report(work)
       IN  \/ Leave(IF Len(report.hops) > MaxReceived \/ report.authentication > MaxReceived
                    THEN Fault("LIMIT_EXCEEDED") ELSE Data(report))
           \/ Leave(Fault("LIMIT_EXCEEDED"))

-----------------------------------------------------------------------------
(* What the analysis is for                                                *)

HeaderText(r) ==
    r.lines \in Seq([sort : {"received", "authentication", "other", "empty", "text", "overlong"} \cup Folds,
                      semicolon : BOOLEAN, text : LineTexts])

\* The texts of some lines that follow each other.
TextsOf(lines, first, last) == [k \in 1..(last - first + 1) |-> lines[first + k - 1].text]

\* What the delays from one hop to another come to.
DelaySum(delays, i, j) ==
    LET sum[k \in i..j] == IF k = i THEN 0 ELSE sum[k - 1] + delays[k - 1][1] IN sum[j]

\* The report tells the header section and nothing else: a hop for each Received
\* field above the first empty line, in order, with the time that stands behind
\* the last semicolon of all its own lines and is followed by nothing else; a
\* delay between two neighbours that both have a time, and only there, so that
\* the delays over an unbroken stretch add up; the hops without a time and the
\* negative delays counted; the body mentioned, never read.  And a call that is
\* aborted while the headers are parsed shows nothing.
HeadersAreTrue ==
    /\ phase = "handled" /\ input.tool = "email" /\ result.kind = "result" =>
         LET head == 1..(FirstEmpty - 1)
             starts == InOrder({i \in head : Lines[i].sort = "received"})
             Own(i) == {j \in head : j >= i /\ \A k \in (i + 1)..j : Lines[k].sort \in Folds}
             TimeOf(i) ==
                 LET marks == {j \in Own(i) : Lines[j].semicolon}
                 IN  IF marks = {} THEN NoTime ELSE Time(TextsOf(Lines, Max(marks), Max(Own(i))))
             r == result.data
         IN  /\ r.hops = [i \in DOMAIN starts |-> TimeOf(starts[i])]
             /\ r.headers = Cardinality({i \in head : Lines[i].sort \notin Folds})
             /\ \A i \in DOMAIN r.hops :
                   r.delays[i] # <<>> <=> i < Len(r.hops) /\ NoTime \notin {r.hops[i], r.hops[i + 1]}
             /\ \A i, j \in DOMAIN r.hops :
                   i < j /\ NoTime \notin {r.hops[k] : k \in i..j} =>
                       r.hops[i] - r.hops[j] = DelaySum(r.delays, i, j)
             /\ r.missing + r.skews
                = Cardinality({i \in DOMAIN r.hops : r.hops[i] = NoTime})
                  + Cardinality({i \in DOMAIN r.hops : r.delays[i] # <<>> /\ r.hops[i] < r.hops[i + 1]})
             /\ r.bodyIgnored <=> {Lines[i].sort : i \in (FirstEmpty + 1)..Len(Lines)} \ {"empty", "blank"} # {}
    /\ phase = "settled" /\ aborted => result.kind = "error"

=============================================================================

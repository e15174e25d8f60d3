---------------------------- MODULE RegexMatches ----------------------------
(***************************************************************************)
(* The match loop of the regular expression tool (regex in compute.ts).    *)
(* The engine is external: what a pattern matches at each place of a text  *)
(* is part of the input, expression.exec() looks it up.                    *)
(***************************************************************************)
EXTENDS ToolCall, FiniteSetsExt, Integers

\* input.units[i] is "whole", "high" or "low": the code units of the text.
\* input.ends[s] is where the match that starts at s ends, or -1.
Size == Len(input.units)
Wide(index) == index < Size /\ input.units[index + 1] = "high"

\* Where the engine starts to look: in unicode mode a place between the halves of
\* a pair is the place of the pair.
From(index) ==
    IF input.unicode /\ index \in 1..(Size - 1) /\ input.units[index + 1] = "low" THEN index - 1 ELSE index

Starts == {s \in 0..Size : input.ends[s] # -1}
Candidates(index) ==
    {s \in Starts : IF input.sticky THEN s = From(index) ELSE s >= From(index)}

RegexStart ==
    /\ Begun("regex")
    /\ IF input.compiles THEN Proceed([last |-> 0, matches |-> <<>>]) ELSE Leave(Fault("INVALID_INPUT"))

Found(truncated) == Data([matches |-> work.matches, truncated |-> truncated])

NoMatch == Working("regex") /\ Candidates(work.last) = {} /\ Leave(Found(FALSE))

TooMany ==
    /\ Working("regex")
    /\ Candidates(work.last) # {} /\ Len(work.matches) = input.maxMatches
    /\ Leave(Found(TRUE))

\* Mutant of Step: an empty match moves on by one code unit in any mode.
StepByUnit(start) == input.ends[start] + IF input.ends[start] = start THEN 1 ELSE 0

\* expression.lastIndex for the next round.
Step(start) ==
    input.ends[start] + IF input.ends[start] > start THEN 0
                        ELSE IF input.unicode /\ Wide(start) THEN 2 ELSE 1

Match ==
    /\ Working("regex")
    /\ Candidates(work.last) # {} /\ Len(work.matches) < input.maxMatches
    /\ LET start == Min(Candidates(work.last))
           matches == Append(work.matches, <<start, input.ends[start]>>)
       IN  IF input.global \/ input.sticky
           THEN Proceed([last |-> Step(start), matches |-> matches])
           ELSE Leave(Data([matches |-> matches, truncated |-> FALSE]))

\* The second is over, or the captures are too many or too long.
OverBudget == Working("regex") /\ \E code \in {"TIMEOUT", "LIMIT_EXCEEDED"} : Leave(Fault(code))

-----------------------------------------------------------------------------

\* External: what the schema and the engine promise.  A match ends where it starts
\* or later; high and low units come in pairs, and in unicode mode no match starts
\* or ends between the two.
Halfway(r, place) == place \in 1..(Len(r.units) - 1) /\ r.units[place + 1] = "low"
Matchable(r) ==
    /\ r.units \in Seq({"whole", "high", "low"})
    /\ \A i \in 0..Len(r.units) : (i > 0 /\ r.units[i] = "high") <=> (i < Len(r.units) /\ r.units[i + 1] = "low")
    /\ r.ends \in [0..Len(r.units) -> -1..Len(r.units)]
    /\ \A s \in 0..Len(r.units) : r.ends[s] # -1 =>
          r.ends[s] >= s /\ (r.unicode => ~Halfway(r, s) /\ ~Halfway(r, r.ends[s]))
    /\ {r.global, r.sticky, r.unicode, r.compiles} \subseteq BOOLEAN
    /\ r.maxMatches \in Nat \ {0}

\* Place s may start the match after m.
Follows(s, m) == s > m[1] /\ s >= m[2]

\* Where a sticky search looks after m.
Adjacent(m) == Min({s \in 0..(Size + 2) : Follows(s, m) /\ ~(input.unicode /\ Halfway(input, s))})

\* Matches `all', followed by more if `cut', are those of the text.
AreMatches(all, cut) ==
    LET many == input.global \/ input.sticky
        next == IF all = <<>> THEN 0 ELSE Adjacent(all[Len(all)])
        after == {s \in Starts : all = <<>> \/ Follows(s, all[Len(all)])}
    IN  /\ \A i \in DOMAIN all : all[i][1] \in Starts /\ all[i][2] = input.ends[all[i][1]]
        /\ \A i \in 2..Len(all) : Follows(all[i][1], all[i - 1])
        /\ ~many => Len(all) <= 1 /\ ~cut /\ (all = <<>> <=> Starts = {})
        /\ ~input.sticky /\ all # <<>> =>
              \A s \in Starts : s < all[Len(all)][1] =>
                  \E i \in DOMAIN all : s = all[i][1] \/ (all[i][1] < s /\ s < all[i][2])
        /\ input.sticky => \A i \in DOMAIN all : all[i][1] = IF i = 1 THEN 0 ELSE Adjacent(all[i - 1])
        /\ many => (cut <=> IF input.sticky THEN next \in after ELSE after # {})
        /\ cut => Len(all) = input.maxMatches

\* The matches reported are those of the text, in order and each once: none is
\* skipped but inside another, whatever the width of its characters and also
\* after an empty one; a sticky search goes on from where it stopped; after the
\* last one reported there is another exactly when "truncated" is said, and that
\* is said only at the cap (the loop of compute.ts:70-93).
MatchesAreExact ==
    phase = "handled" /\ input.tool = "regex" /\ result.kind = "result" =>
        AreMatches(result.data.matches, result.data.truncated)

=============================================================================

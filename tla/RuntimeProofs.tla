---------------------------- MODULE RuntimeProofs ----------------------------
(***************************************************************************)
(* Theorems about a call of a local tool.  What the regular expression     *)
(* tool reports are the matches of the text, for every text, every pattern *)
(* that keeps the engine's promise (Matchable) and every cap; what Base64, *)
(* epoch and chmod print is what was meant, for every input their schemas  *)
(* let through (Convertible); what the workbench prints of a JSON text is  *)
(* what the text said, and of a YAML text the tree its aliases stand for;  *)
(* the header analyzer reports what the header section says; a password is *)
(* drawn without a bias and has the entropy claimed for it; and a call     *)
(* that was aborted shows nothing, whatever its tool.                      *)
(***************************************************************************)
EXTENDS DirectRuntime, SequenceTheorems, FiniteSetTheorems, WellFoundedInduction, TLAPS

-----------------------------------------------------------------------------
(* Induction over numbers, by a least counterexample.                      *)

\* A set of natural numbers has a least one, and Min is that.
LEMMA LeastOf ==
    ASSUME NEW S \in SUBSET Nat, S # {}
    PROVE  Min(S) \in S /\ \A n \in S : Min(S) <= n
<1>1. \E m \in S : \A n \in S : ~ (<<n, m>> \in OpToRel(<, Nat))
  BY NatLessThanWellFounded, WFMin
<1>2. PICK m \in S : \A n \in S : ~ (<<n, m>> \in OpToRel(<, Nat))
  BY <1>1
<1>3. \A n \in S : m <= n
  <2> SUFFICES ASSUME NEW n \in S PROVE ~(n < m)
    OBVIOUS
  <2>1. <<n, m>> \in Nat \X Nat
    OBVIOUS
  <2> QED  BY <1>2, <2>1 DEF OpToRel
<1> QED  BY <1>3 DEF Min

LEMMA LeastIs ==
    ASSUME NEW S \in SUBSET Nat, NEW m \in S, \A n \in S : m <= n
    PROVE  Min(S) = m
<1>1. Min(S) \in S /\ \A n \in S : Min(S) <= n
  BY LeastOf
<1>2. Min(S) \in Nat /\ m \in Nat /\ Min(S) <= m /\ m <= Min(S)
  BY <1>1
<1> QED  BY <1>2

-----------------------------------------------------------------------------
(* Where the search for the next match begins.                             *)

Units == {"whole", "high", "low"}

LEMMA InputIs ==
    ASSUME Matchable(input)
    PROVE  /\ Size \in Nat
           /\ input.units \in Seq(Units)
           /\ Starts \subseteq 0..Size
           /\ \A s \in Starts : input.ends[s] \in s..Size
           /\ input.unicode \in BOOLEAN /\ input.sticky \in BOOLEAN /\ input.global \in BOOLEAN
           /\ input.maxMatches \in Nat \ {0}
<1>1. /\ input.units \in Seq(Units) /\ Size \in Nat
      /\ input.ends \in [0..Size -> -1..Size]
      /\ \A s \in 0..Size : input.ends[s] # -1 => input.ends[s] >= s
  BY DEF Matchable, Size, Units
<1>2. \A s \in Starts : s \in 0..Size /\ input.ends[s] \in s..Size
  BY <1>1 DEF Starts
<1> QED  BY <1>1, <1>2 DEF Matchable

\* After a match that starts at s the search goes on at Step(s): what follows the
\* match starts there or later, and what does not is part of it.
LEMMA StepIs ==
    ASSUME Matchable(input), NEW s \in Starts
    PROVE  /\ Step(s) \in 0..(Size + 2) /\ Step(s) > s /\ Step(s) >= input.ends[s]
           /\ ~(input.unicode /\ Halfway(input, Step(s)))
           /\ \A t \in Nat : t > s /\ t >= input.ends[s] /\ ~(input.unicode /\ Halfway(input, t)) => t >= Step(s)
           /\ \A t \in Starts : t >= s /\ t < Step(s) => t = s \/ (s < t /\ t < input.ends[s])
<1> DEFINE e == input.ends[s]
<1>0. Size \in Nat /\ s \in 0..Size /\ e \in s..Size /\ input.unicode \in BOOLEAN
  BY InputIs
<1>1. \A t \in Starts : t \in 0..Size /\ (input.unicode => ~Halfway(input, t) /\ ~Halfway(input, input.ends[t]))
  BY InputIs DEF Matchable, Starts, Size
<1>2. CASE e > s
  <2>1. Step(s) = e
    BY <1>0, <1>2 DEF Step
  <2>2. ~(input.unicode /\ Halfway(input, Step(s)))
    BY <1>1, <2>1
  <2>3. \A t \in Starts : t >= s /\ t < e => t = s \/ (s < t /\ t < e)
    BY <1>0, <1>1
  <2> QED  BY <1>0, <1>2, <2>1, <2>2, <2>3
<1>3. CASE e = s /\ input.unicode /\ Wide(s)
  <2>1. Step(s) = s + 2
    BY <1>0, <1>3 DEF Step
  <2>2. s < Size /\ input.units[s + 1] = "high"
    BY <1>3 DEF Wide
  <2>3. s + 1 < Size /\ input.units[s + 2] = "low"
    <3>1. s + 1 \in 0..Size
      BY <1>0, <2>2
    <3>2. s + 1 < Size /\ input.units[(s + 1) + 1] = "low"
      BY <1>0, <2>2, <3>1 DEF Matchable, Size
    <3> QED  BY <1>0, <3>2
  <2>4. Halfway(input, s + 1)
    BY <1>0, <2>3 DEF Halfway, Size
  <2>5. ~Halfway(input, s + 2)
    <3> SUFFICES ASSUME Halfway(input, s + 2) PROVE FALSE
      OBVIOUS
    <3>1. s + 2 \in 0..Size /\ s + 2 < Size /\ input.units[(s + 2) + 1] = "low"
      BY <1>0 DEF Halfway, Size
    <3>2. input.units[s + 2] = "high"
      BY <1>0, <3>1 DEF Matchable, Size
    <3> QED  BY <2>3, <3>2
  <2>6. \A t \in Nat : t > s /\ t # s + 1 => t >= s + 2
    BY <1>0
  <2>7. \A t \in Starts : t # s + 1
    BY <1>1, <1>3, <2>4
  <2>8. \A t \in Starts : t >= s /\ t < s + 2 => t = s
    BY <1>0, <1>1, <2>7
  <2> QED  BY <1>0, <1>3, <2>1, <2>2, <2>4, <2>5, <2>6, <2>8
<1>4. CASE e = s /\ ~(input.unicode /\ Wide(s))
  <2>1. Step(s) = s + 1
    BY <1>0, <1>4 DEF Step
  <2>2. ~(input.unicode /\ Halfway(input, s + 1))
    <3> SUFFICES ASSUME input.unicode, Halfway(input, s + 1) PROVE FALSE
      OBVIOUS
    <3>1. s + 1 \in 0..Size /\ s + 1 < Size /\ input.units[(s + 1) + 1] = "low"
      BY <1>0 DEF Halfway, Size
    <3>2. input.units[s + 1] = "high"
      BY <1>0, <3>1 DEF Matchable, Size
    <3> QED  BY <1>0, <1>4, <3>1, <3>2 DEF Wide
  <2>3. \A t \in Nat : t > s => t >= s + 1
    BY <1>0
  <2>4. \A t \in Starts : t >= s /\ t < s + 1 => t = s
    BY <1>0, <1>1
  <2> QED  BY <1>0, <1>4, <2>1, <2>2, <2>3, <2>4
<1> QED  BY <1>0, <1>2, <1>3, <1>4

\* So a sticky search goes on exactly where the property looks.
LEMMA AdjacentIs ==
    ASSUME Matchable(input), NEW s \in Starts
    PROVE  Adjacent(<<s, input.ends[s]>>) = Step(s)
<1> DEFINE places == {t \in 0..(Size + 2) : /\ Follows(t, <<s, input.ends[s]>>)
                                           /\ ~(input.unicode /\ Halfway(input, t))}
<1>1. \A t \in Nat : Follows(t, <<s, input.ends[s]>>) <=> t > s /\ t >= input.ends[s]
  BY DEF Follows
<1>2. Size \in Nat
  BY InputIs
<1>3. places \in SUBSET Nat
  BY <1>2
<1>4. Step(s) \in places
  BY <1>1, <1>2, StepIs
<1>5. \A t \in places : Step(s) <= t
  BY <1>1, <1>2, StepIs
<1>6. Min(places) = Step(s)
  BY <1>3, <1>4, <1>5, LeastIs
<1> QED  BY <1>6 DEF Adjacent

\* A start follows a match exactly if the search reaches it.
LEMMA FollowsIs ==
    ASSUME Matchable(input), NEW s \in Starts, NEW t \in Starts
    PROVE  Follows(t, <<s, input.ends[s]>>) <=> t >= Step(s)
<1>1. Size \in Nat /\ s \in 0..Size /\ t \in 0..Size /\ input.ends[s] \in s..Size
  BY InputIs
<1>2. ~(input.unicode /\ Halfway(input, t))
  BY InputIs DEF Matchable, Starts, Size
<1>3. Follows(t, <<s, input.ends[s]>>) <=> t > s /\ t >= input.ends[s]
  BY DEF Follows
<1> QED  BY <1>1, <1>2, <1>3, StepIs

-----------------------------------------------------------------------------
(* What the loop has found so far.                                         *)

Pairs == {<<s, input.ends[s]>> : s \in Starts}

\* expression.lastIndex, given the matches so far.
Resume(ms) == IF ms = <<>> THEN 0 ELSE Step(ms[Len(ms)][1])

Covered(s, ms) == \E i \in DOMAIN ms : s = ms[i][1] \/ (ms[i][1] < s /\ s < ms[i][2])

\* Each match starts where the one before it let the search go on, at once or, if
\* the search is not sticky, later; then every start before the end of the search
\* is that of a match or inside one.
Searched(ms) ==
    /\ ms \in Seq(Pairs)
    /\ \A i \in 2..Len(ms) : ms[i][1] >= Step(ms[i - 1][1])
    /\ input.sticky => \A i \in 1..Len(ms) : ms[i][1] = IF i = 1 THEN 0 ELSE Step(ms[i - 1][1])
    /\ ~input.sticky => \A s \in Starts : s < Resume(ms) => Covered(s, ms)

LEMMA PairIs ==
    ASSUME NEW ms \in Seq(Pairs), NEW i \in 1..Len(ms)
    PROVE  ms[i][1] \in Starts /\ ms[i] = <<ms[i][1], input.ends[ms[i][1]]>>
<1>1. ms[i] \in Pairs
  OBVIOUS
<1> QED  BY <1>1 DEF Pairs

LEMMA ResumeIs ==
    ASSUME Matchable(input), NEW ms \in Seq(Pairs)
    PROVE  /\ Resume(ms) \in Nat
           /\ Candidates(Resume(ms)) =
                {s \in Starts : IF input.sticky THEN s = Resume(ms) ELSE s >= Resume(ms)}
<1>1. Size \in Nat
  BY InputIs
<1>2. Resume(ms) \in Nat /\ ~(input.unicode /\ Halfway(input, Resume(ms)))
  <2>1. CASE ms = <<>>
    BY <2>1 DEF Resume, Halfway
  <2>2. CASE ms # <<>>
    <3>1. Len(ms) \in 1..Len(ms)
      BY <2>2
    <3>2. ms[Len(ms)][1] \in Starts
      BY <3>1, PairIs
    <3> QED  BY <1>1, <2>2, <3>2, StepIs DEF Resume
  <2> QED  BY <2>1, <2>2
<1>3. From(Resume(ms)) = Resume(ms)
  BY <1>2 DEF From, Halfway, Size
<1> QED  BY <1>2, <1>3 DEF Candidates

\* The next match.
LEMMA FoundIs ==
    ASSUME Matchable(input), NEW ms, Searched(ms), NEW start \in Candidates(Resume(ms)),
           \A s \in Candidates(Resume(ms)) : start <= s
    PROVE  LET more == Append(ms, <<start, input.ends[start]>>)
           IN  Searched(more) /\ Resume(more) = Step(start) /\ Len(more) = Len(ms) + 1
<1> DEFINE more == Append(ms, <<start, input.ends[start]>>)
<1>0. ms \in Seq(Pairs) /\ Resume(ms) \in Nat
  BY ResumeIs DEF Searched
<1>1. start \in Starts /\ start \in Nat /\ IF input.sticky THEN start = Resume(ms) ELSE start >= Resume(ms)
  BY <1>0, ResumeIs, InputIs
<1>2. Step(start) \in Nat /\ Step(start) > start
  BY <1>1, InputIs, StepIs
<1>3. /\ more \in Seq(Pairs) /\ Len(more) = Len(ms) + 1 /\ Len(ms) \in Nat
      /\ more[Len(ms) + 1] = <<start, input.ends[start]>>
      /\ \A i \in 1..Len(ms) : more[i] = ms[i]
  <2>1. <<start, input.ends[start]>> \in Pairs
    BY <1>1 DEF Pairs
  <2> QED  BY <1>0, <2>1
<1>4. Resume(more) = Step(start)
  BY <1>3 DEF Resume
<1>5. \A i \in 2..Len(more) : more[i][1] >= Step(more[i - 1][1])
  <2> SUFFICES ASSUME NEW i \in 2..Len(more) PROVE more[i][1] >= Step(more[i - 1][1])
    OBVIOUS
  <2>1. CASE i = Len(ms) + 1
    <3>1. Resume(ms) = Step(ms[Len(ms)][1]) /\ more[i - 1] = ms[Len(ms)]
      BY <1>3, <2>1 DEF Resume
    <3> QED  BY <1>0, <1>1, <1>3, <2>1, <3>1
  <2>2. CASE i \in 2..Len(ms)
    BY <1>3, <2>2 DEF Searched
  <2> QED  BY <1>3, <2>1, <2>2
<1>6. ASSUME input.sticky, NEW i \in 1..Len(more)
      PROVE  more[i][1] = IF i = 1 THEN 0 ELSE Step(more[i - 1][1])
  <2>1. CASE i = Len(ms) + 1
    <3>1. more[i][1] = Resume(ms)
      BY <1>1, <1>3, <1>6, <2>1
    <3>2. CASE i = 1
      BY <1>3, <2>1, <3>1, <3>2 DEF Resume
    <3>3. CASE i # 1
      <4>1. ms # <<>> /\ more[i - 1] = ms[Len(ms)]
        BY <1>3, <2>1, <3>3
      <4> QED  BY <3>1, <3>3, <4>1 DEF Resume
    <3> QED  BY <3>2, <3>3
  <2>2. CASE i \in 1..Len(ms)
    BY <1>3, <1>6, <2>2 DEF Searched
  <2> QED  BY <1>3, <1>6, <2>1, <2>2
<1>7. ASSUME ~input.sticky, NEW s \in Starts, s < Step(start)
      PROVE  Covered(s, more)
  <2>0. s \in Nat
    BY <1>7, InputIs
  <2>1. CASE s < Resume(ms)
    <3>1. PICK i \in DOMAIN ms : s = ms[i][1] \/ (ms[i][1] < s /\ s < ms[i][2])
      BY <1>7, <2>1 DEF Searched, Covered
    <3>2. i \in DOMAIN more /\ more[i] = ms[i]
      BY <1>0, <1>3
    <3> QED  BY <3>1, <3>2 DEF Covered
  <2>2. CASE s >= Resume(ms)
    <3>1. s \in Candidates(Resume(ms))
      BY <1>0, <1>7, <2>2, ResumeIs
    <3>2. s >= start
      BY <1>1, <2>0, <3>1
    <3>3. s = start \/ (start < s /\ s < input.ends[start])
      BY <1>1, <1>7, <3>2, StepIs
    <3>4. Len(ms) + 1 \in DOMAIN more
      BY <1>3
    <3> QED  BY <1>3, <3>3, <3>4 DEF Covered
  <2> QED  BY <1>0, <2>0, <2>1, <2>2
<1>8. Searched(more)
  BY <1>3, <1>4, <1>5, <1>6, <1>7 DEF Searched
<1> QED  BY <1>3, <1>4, <1>8

\* What the loop found is what it says it is, and `cut' is said rightly.
LEMMA FoundAreMatches ==
    ASSUME Matchable(input), NEW ms, Searched(ms), NEW cut \in BOOLEAN,
           ~(input.global \/ input.sticky) => Len(ms) <= 1 /\ ~cut /\ (ms = <<>> <=> Starts = {}),
           input.global \/ input.sticky => (cut <=> Candidates(Resume(ms)) # {}),
           cut => Len(ms) = input.maxMatches
    PROVE  AreMatches(ms, cut)
<1> DEFINE next == IF ms = <<>> THEN 0 ELSE Adjacent(ms[Len(ms)])
           after == {s \in Starts : ms = <<>> \/ Follows(s, ms[Len(ms)])}
<1>0. ms \in Seq(Pairs) /\ Len(ms) \in Nat /\ DOMAIN ms = 1..Len(ms) /\ Starts \subseteq Nat
  BY InputIs DEF Searched
<1>1. \A i \in DOMAIN ms : ms[i][1] \in Starts /\ ms[i][2] = input.ends[ms[i][1]]
  <2> SUFFICES ASSUME NEW i \in 1..Len(ms)
               PROVE  ms[i][1] \in Starts /\ ms[i][2] = input.ends[ms[i][1]]
    BY <1>0
  <2>1. ms[i][1] \in Starts /\ ms[i] = <<ms[i][1], input.ends[ms[i][1]]>>
    BY <1>0, PairIs
  <2> QED  BY <2>1
<1>2. \A i \in 2..Len(ms) : Follows(ms[i][1], ms[i - 1])
  <2> SUFFICES ASSUME NEW i \in 2..Len(ms) PROVE Follows(ms[i][1], ms[i - 1])
    OBVIOUS
  <2>1. /\ i \in 1..Len(ms) /\ i - 1 \in 1..Len(ms)
        /\ ms[i][1] >= Step(ms[i - 1][1])
    BY <1>0 DEF Searched
  <2>2. /\ ms[i][1] \in Starts /\ ms[i - 1][1] \in Starts
        /\ ms[i - 1] = <<ms[i - 1][1], input.ends[ms[i - 1][1]]>>
    BY <1>0, <2>1, PairIs
  <2>3. Follows(ms[i][1], <<ms[i - 1][1], input.ends[ms[i - 1][1]]>>)
    BY <2>1, <2>2, FollowsIs
  <2> QED  BY <2>2, <2>3
<1>3. ASSUME ~input.sticky, ms # <<>>, NEW s \in Starts, s < ms[Len(ms)][1]
      PROVE  \E i \in DOMAIN ms : s = ms[i][1] \/ (ms[i][1] < s /\ s < ms[i][2])
  <2>1. Len(ms) \in 1..Len(ms)
    BY <1>0, <1>3
  <2>2. ms[Len(ms)][1] \in Starts
    BY <1>0, <2>1, PairIs
  <2>3. Step(ms[Len(ms)][1]) \in 0..(Size + 2) /\ Step(ms[Len(ms)][1]) > ms[Len(ms)][1]
    BY <2>2, StepIs
  <2>4. s < Resume(ms)
    <3>1. s \in Nat /\ ms[Len(ms)][1] \in Nat /\ Size \in Nat
      BY <1>0, <1>3, <2>2, InputIs
    <3>2. s < Step(ms[Len(ms)][1])
      BY <1>3, <2>3, <3>1
    <3> QED  BY <1>3, <3>2 DEF Resume
  <2> QED  BY <1>3, <2>4 DEF Searched, Covered
<1>4. ASSUME input.sticky, NEW i \in DOMAIN ms
      PROVE  ms[i][1] = IF i = 1 THEN 0 ELSE Adjacent(ms[i - 1])
  <2>1. CASE i = 1
    BY <1>0, <1>4, <2>1 DEF Searched
  <2>2. CASE i # 1
    <3>1. i - 1 \in 1..Len(ms) /\ i \in 1..Len(ms)
      BY <1>0, <1>4, <2>2
    <3>2. ms[i - 1][1] \in Starts /\ ms[i - 1] = <<ms[i - 1][1], input.ends[ms[i - 1][1]]>>
      BY <1>0, <3>1, PairIs
    <3>3. Adjacent(<<ms[i - 1][1], input.ends[ms[i - 1][1]]>>) = Step(ms[i - 1][1])
      BY <3>2, AdjacentIs
    <3>4. ms[i][1] = Step(ms[i - 1][1])
      BY <1>4, <2>2, <3>1 DEF Searched
    <3> QED  BY <2>2, <3>2, <3>3, <3>4
  <2> QED  BY <2>1, <2>2
<1>5. Candidates(Resume(ms)) # {} <=> IF input.sticky THEN next \in after ELSE after # {}
  <2>1. /\ Resume(ms) \in Nat
        /\ Candidates(Resume(ms)) =
             {s \in Starts : IF input.sticky THEN s = Resume(ms) ELSE s >= Resume(ms)}
    BY <1>0, ResumeIs
  <2>2. after = {s \in Starts : s >= Resume(ms)} /\ next = Resume(ms)
    <3>1. CASE ms = <<>>
      <4>1. next = 0 /\ Resume(ms) = 0 /\ after = Starts
        BY <3>1 DEF Resume
      <4>2. \A s \in Starts : s >= 0
        BY <1>0
      <4> QED  BY <4>1, <4>2
    <3>2. CASE ms # <<>>
      <4>1. Len(ms) \in 1..Len(ms) /\ Resume(ms) = Step(ms[Len(ms)][1])
        BY <1>0, <3>2 DEF Resume
      <4>2. /\ ms[Len(ms)][1] \in Starts
            /\ ms[Len(ms)] = <<ms[Len(ms)][1], input.ends[ms[Len(ms)][1]]>>
        BY <1>0, <4>1, PairIs
      <4>3. /\ \A s \in Starts : Follows(s, <<ms[Len(ms)][1], input.ends[ms[Len(ms)][1]]>>)
                                   <=> s >= Step(ms[Len(ms)][1])
            /\ Adjacent(<<ms[Len(ms)][1], input.ends[ms[Len(ms)][1]]>>) = Step(ms[Len(ms)][1])
        BY <4>2, FollowsIs, AdjacentIs
      <4>4. /\ \A s \in Starts : Follows(s, ms[Len(ms)]) <=> s >= Resume(ms)
            /\ Adjacent(ms[Len(ms)]) = Resume(ms)
        BY <4>1, <4>2, <4>3
      <4> QED  BY <3>2, <4>4
    <3> QED  BY <3>1, <3>2
  <2>3. CASE input.sticky
    BY <1>0, <2>1, <2>2, <2>3
  <2>4. CASE ~input.sticky
    BY <2>1, <2>2, <2>4
  <2> QED  BY <2>3, <2>4
<1> QED  BY <1>0, <1>1, <1>2, <1>3, <1>4, <1>5, InputIs DEF AreMatches

-----------------------------------------------------------------------------
(* Base64: bytes to digits and back.                                       *)

Byte == 0..255
Sextet == 0..63

\* A byte, or a digit, and zero after the last one.
At(s, i) == IF i <= Len(s) THEN s[i] ELSE 0

LEMMA AtIs ==
    ASSUME NEW S, 0 \in S, NEW s \in Seq(S), NEW i \in Nat \ {0}
    PROVE  At(s, i) \in S
  <1>1. i <= Len(s) => s[i] \in S
    OBVIOUS
  <1> QED  BY <1>1 DEF At

\* The four digits of group g of three bytes, and the three bytes of group g of four digits.
LEMMA DigitIs ==
    ASSUME NEW b \in Seq(Byte), NEW g \in Nat
    PROVE  LET n == Len(Digits(b))
           IN  /\ n = (4 * Len(b) + 2) \div 3 /\ Digits(b) \in [1..n -> Sextet]
               /\ 4 * g + 1 <= n => Digits(b)[4 * g + 1] = At(b, 3 * g + 1) \div 4
               /\ 4 * g + 2 <= n => Digits(b)[4 * g + 2] = (At(b, 3 * g + 1) % 4) * 16 + (At(b, 3 * g + 2) \div 16)
               /\ 4 * g + 3 <= n => Digits(b)[4 * g + 3] = (At(b, 3 * g + 2) % 16) * 4 + (At(b, 3 * g + 3) \div 64)
               /\ 4 * g + 4 <= n => Digits(b)[4 * g + 4] = At(b, 3 * g + 3) % 64
  <1> DEFINE n == (4 * Len(b) + 2) \div 3
             Digit(d) ==
                 LET first == 3 * (d \div 4)
                 IN  CASE d % 4 = 0 -> At(b, first + 1) \div 4
                       [] d % 4 = 1 -> (At(b, first + 1) % 4) * 16 + (At(b, first + 2) \div 16)
                       [] d % 4 = 2 -> (At(b, first + 2) % 16) * 4 + (At(b, first + 3) \div 64)
                       [] d % 4 = 3 -> At(b, first + 3) % 64
  <1>1. Digits(b) = [i \in 1..n |-> Digit(i - 1)] /\ n \in Nat
    BY DEF Digits, At
  <1>2. \A i \in Nat \ {0} : At(b, i) \in Byte
    <2>1. 0 \in Byte
      BY DEF Byte
    <2> QED  BY <2>1, AtIs
  <1>3. ASSUME NEW h \in Nat
        PROVE  /\ Digit(4 * h) = At(b, 3 * h + 1) \div 4
               /\ Digit(4 * h + 1) = (At(b, 3 * h + 1) % 4) * 16 + (At(b, 3 * h + 2) \div 16)
               /\ Digit(4 * h + 2) = (At(b, 3 * h + 2) % 16) * 4 + (At(b, 3 * h + 3) \div 64)
               /\ Digit(4 * h + 3) = At(b, 3 * h + 3) % 64
               /\ {Digit(4 * h), Digit(4 * h + 1), Digit(4 * h + 2), Digit(4 * h + 3)} \subseteq Sextet
    <2>1. /\ (4 * h) \div 4 = h /\ (4 * h) % 4 = 0
          /\ (4 * h + 1) \div 4 = h /\ (4 * h + 1) % 4 = 1
          /\ (4 * h + 2) \div 4 = h /\ (4 * h + 2) % 4 = 2
          /\ (4 * h + 3) \div 4 = h /\ (4 * h + 3) % 4 = 3
      OBVIOUS
    <2>2. PICK x \in Byte, y \in Byte, z \in Byte :
             x = At(b, 3 * h + 1) /\ y = At(b, 3 * h + 2) /\ z = At(b, 3 * h + 3)
      BY <1>2
    <2>3. {x \div 4, (x % 4) * 16 + (y \div 16), (y % 16) * 4 + (z \div 64), z % 64} \subseteq Sextet
      BY DEF Byte, Sextet
    <2>4. ASSUME NEW e \in Nat, e \div 4 = h
          PROVE  /\ e % 4 = 0 => Digit(e) = At(b, 3 * h + 1) \div 4
                 /\ e % 4 = 1 => Digit(e) = (At(b, 3 * h + 1) % 4) * 16 + (At(b, 3 * h + 2) \div 16)
                 /\ e % 4 = 2 => Digit(e) = (At(b, 3 * h + 2) % 16) * 4 + (At(b, 3 * h + 3) \div 64)
                 /\ e % 4 = 3 => Digit(e) = At(b, 3 * h + 3) % 64
      BY <2>4
    <2> HIDE DEF Digit
    <2>5. /\ Digit(4 * h) = At(b, 3 * h + 1) \div 4
          /\ Digit(4 * h + 1) = (At(b, 3 * h + 1) % 4) * 16 + (At(b, 3 * h + 2) \div 16)
          /\ Digit(4 * h + 2) = (At(b, 3 * h + 2) % 16) * 4 + (At(b, 3 * h + 3) \div 64)
          /\ Digit(4 * h + 3) = At(b, 3 * h + 3) % 64
      BY <2>1, <2>4
    <2> QED  BY <2>2, <2>3, <2>5
  <1>4. \A d \in Nat : Digit(d) \in Sextet
    <2> SUFFICES ASSUME NEW d \in Nat PROVE Digit(d) \in Sextet
      OBVIOUS
    <2>1. PICK h \in Nat : d \in {4 * h, 4 * h + 1, 4 * h + 2, 4 * h + 3}
      <3>1. d \div 4 \in Nat /\ d \in (4 * (d \div 4))..(4 * (d \div 4) + 3)
        OBVIOUS
      <3> QED  BY <3>1
    <2> HIDE DEF Digit
    <2> QED  BY <1>3, <2>1
  <1> HIDE DEF Digit, n
  <1>5. Len(Digits(b)) = n /\ Digits(b) \in [1..n -> Sextet]
    BY <1>1, <1>4
  <1>6. \A d \in Nat : d + 1 <= n => Digits(b)[d + 1] = Digit(d)
    BY <1>1
  <1>7. /\ 4 * g + 1 <= n => Digits(b)[4 * g + 1] = Digit(4 * g)
        /\ 4 * g + 2 <= n => Digits(b)[4 * g + 2] = Digit(4 * g + 1)
        /\ 4 * g + 3 <= n => Digits(b)[4 * g + 3] = Digit(4 * g + 2)
        /\ 4 * g + 4 <= n => Digits(b)[4 * g + 4] = Digit(4 * g + 3)
    BY <1>1, <1>6
  <1> QED  BY <1>3, <1>5, <1>7 DEF n

LEMMA ByteIs ==
    ASSUME NEW d \in Seq(Sextet), NEW g \in Nat
    PROVE  LET n == Len(Bytes(d))
           IN  /\ n = (3 * Len(d)) \div 4 /\ Bytes(d) \in [1..n -> Byte]
               /\ 3 * g + 1 <= n => Bytes(d)[3 * g + 1] = At(d, 4 * g + 1) * 4 + (At(d, 4 * g + 2) \div 16)
               /\ 3 * g + 2 <= n => Bytes(d)[3 * g + 2] = (At(d, 4 * g + 2) % 16) * 16 + (At(d, 4 * g + 3) \div 4)
               /\ 3 * g + 3 <= n => Bytes(d)[3 * g + 3] = (At(d, 4 * g + 3) % 4) * 64 + At(d, 4 * g + 4)
  <1> DEFINE n == (3 * Len(d)) \div 4
             Byt(i) ==
                 LET first == 4 * ((i - 1) \div 3)
                 IN  CASE i % 3 = 1 -> At(d, first + 1) * 4 + (At(d, first + 2) \div 16)
                       [] i % 3 = 2 -> (At(d, first + 2) % 16) * 16 + (At(d, first + 3) \div 4)
                       [] i % 3 = 0 -> (At(d, first + 3) % 4) * 64 + At(d, first + 4)
  <1>1. Bytes(d) = [i \in 1..n |-> Byt(i)] /\ n \in Nat
    BY DEF Bytes, At
  <1>2. \A i \in Nat \ {0} : At(d, i) \in Sextet
    <2>1. 0 \in Sextet
      BY DEF Sextet
    <2> QED  BY <2>1, AtIs
  <1>3. ASSUME NEW h \in Nat
        PROVE  /\ Byt(3 * h + 1) = At(d, 4 * h + 1) * 4 + (At(d, 4 * h + 2) \div 16)
               /\ Byt(3 * h + 2) = (At(d, 4 * h + 2) % 16) * 16 + (At(d, 4 * h + 3) \div 4)
               /\ Byt(3 * h + 3) = (At(d, 4 * h + 3) % 4) * 64 + At(d, 4 * h + 4)
               /\ {Byt(3 * h + 1), Byt(3 * h + 2), Byt(3 * h + 3)} \subseteq Byte
    <2>1. /\ ((3 * h + 1) - 1) \div 3 = h /\ (3 * h + 1) % 3 = 1
          /\ ((3 * h + 2) - 1) \div 3 = h /\ (3 * h + 2) % 3 = 2
          /\ ((3 * h + 3) - 1) \div 3 = h /\ (3 * h + 3) % 3 = 0
      OBVIOUS
    <2>2. PICK w \in Sextet, x \in Sextet, y \in Sextet, z \in Sextet :
             /\ w = At(d, 4 * h + 1) /\ x = At(d, 4 * h + 2)
             /\ y = At(d, 4 * h + 3) /\ z = At(d, 4 * h + 4)
      BY <1>2
    <2>3. {w * 4 + (x \div 16), (x % 16) * 16 + (y \div 4), (y % 4) * 64 + z} \subseteq Byte
      BY DEF Byte, Sextet
    <2>4. ASSUME NEW i \in Nat, (i - 1) \div 3 = h
          PROVE  /\ i % 3 = 1 => Byt(i) = At(d, 4 * h + 1) * 4 + (At(d, 4 * h + 2) \div 16)
                 /\ i % 3 = 2 => Byt(i) = (At(d, 4 * h + 2) % 16) * 16 + (At(d, 4 * h + 3) \div 4)
                 /\ i % 3 = 0 => Byt(i) = (At(d, 4 * h + 3) % 4) * 64 + At(d, 4 * h + 4)
      <3>1. i % 3 = 1 => Byt(i) = At(d, 4 * h + 1) * 4 + (At(d, 4 * h + 2) \div 16)
        <4> SUFFICES ASSUME i % 3 = 1 PROVE Byt(i) = At(d, 4 * h + 1) * 4 + (At(d, 4 * h + 2) \div 16)
          OBVIOUS
        <4>1. Byt(i) = At(d, 4 * ((i - 1) \div 3) + 1) * 4 + (At(d, 4 * ((i - 1) \div 3) + 2) \div 16)
          OBVIOUS
        <4> HIDE DEF Byt
        <4> QED  BY <2>4, <4>1
      <3>2. i % 3 = 2 => Byt(i) = (At(d, 4 * h + 2) % 16) * 16 + (At(d, 4 * h + 3) \div 4)
        BY <2>4
      <3>3. i % 3 = 0 => Byt(i) = (At(d, 4 * h + 3) % 4) * 64 + At(d, 4 * h + 4)
        BY <2>4
      <3> QED  BY <3>1, <3>2, <3>3
    <2> HIDE DEF Byt
    <2>5. /\ Byt(3 * h + 1) = At(d, 4 * h + 1) * 4 + (At(d, 4 * h + 2) \div 16)
          /\ Byt(3 * h + 2) = (At(d, 4 * h + 2) % 16) * 16 + (At(d, 4 * h + 3) \div 4)
          /\ Byt(3 * h + 3) = (At(d, 4 * h + 3) % 4) * 64 + At(d, 4 * h + 4)
      BY <2>1, <2>4
    <2> QED  BY <2>2, <2>3, <2>5
  <1>4. \A i \in Nat \ {0} : Byt(i) \in Byte
    <2> SUFFICES ASSUME NEW i \in Nat \ {0} PROVE Byt(i) \in Byte
      OBVIOUS
    <2>1. PICK h \in Nat : i \in {3 * h + 1, 3 * h + 2, 3 * h + 3}
      <3>1. (i - 1) \div 3 \in Nat /\ i \in (3 * ((i - 1) \div 3) + 1)..(3 * ((i - 1) \div 3) + 3)
        OBVIOUS
      <3> QED  BY <3>1
    <2> HIDE DEF Byt
    <2> QED  BY <1>3, <2>1
  <1> HIDE DEF Byt, n
  <1>5. Len(Bytes(d)) = n /\ Bytes(d) \in [1..n -> Byte]
    BY <1>1, <1>4
  <1>6. /\ 3 * g + 1 <= n => Bytes(d)[3 * g + 1] = Byt(3 * g + 1)
        /\ 3 * g + 2 <= n => Bytes(d)[3 * g + 2] = Byt(3 * g + 2)
        /\ 3 * g + 3 <= n => Bytes(d)[3 * g + 3] = Byt(3 * g + 3)
    BY <1>1
  <1> QED  BY <1>3, <1>5, <1>6 DEF n

\* What is encoded is decoded to the same bytes.
LEMMA RoundTrip ==
    ASSUME NEW b \in Seq(Byte)
    PROVE  Digits(b) \in Seq(Sextet) /\ Bytes(Digits(b)) = b
  <1> DEFINE d == Digits(b)
  <1>1. Len(d) = (4 * Len(b) + 2) \div 3 /\ d \in Seq(Sextet)
    BY DigitIs, 0 \in Nat
  <1>2. Len(Bytes(d)) = Len(b) /\ Bytes(d) \in [1..Len(b) -> Byte]
    <2>1. Len(Bytes(d)) = (3 * Len(d)) \div 4 /\ Bytes(d) \in [1..Len(Bytes(d)) -> Byte]
      BY <1>1, ByteIs, 0 \in Nat
    <2>2. (3 * Len(d)) \div 4 = Len(b)
      <3>1. \A n \in Nat : (3 * ((4 * n + 2) \div 3)) \div 4 = n
        OBVIOUS
      <3> QED  BY <1>1, <3>1
    <2> QED  BY <2>1, <2>2
  <1>3. ASSUME NEW g \in Nat
        PROVE  /\ 3 * g + 1 <= Len(b) => Bytes(d)[3 * g + 1] = b[3 * g + 1]
               /\ 3 * g + 2 <= Len(b) => Bytes(d)[3 * g + 2] = b[3 * g + 2]
               /\ 3 * g + 3 <= Len(b) => Bytes(d)[3 * g + 3] = b[3 * g + 3]
    <2> DEFINE x == At(b, 3 * g + 1)
               y == At(b, 3 * g + 2)
               z == At(b, 3 * g + 3)
    <2>1. x \in Byte /\ y \in Byte /\ z \in Byte
      <3>1. 0 \in Byte
        BY DEF Byte
      <3> QED  BY <3>1, AtIs
    <2>2. /\ 4 * g + 1 <= Len(d) => d[4 * g + 1] = x \div 4
          /\ 4 * g + 2 <= Len(d) => d[4 * g + 2] = (x % 4) * 16 + (y \div 16)
          /\ 4 * g + 3 <= Len(d) => d[4 * g + 3] = (y % 16) * 4 + (z \div 64)
          /\ 4 * g + 4 <= Len(d) => d[4 * g + 4] = z % 64
      BY DigitIs
    <2>3. /\ 3 * g + 1 <= Len(b) => Bytes(d)[3 * g + 1] = At(d, 4 * g + 1) * 4 + (At(d, 4 * g + 2) \div 16)
          /\ 3 * g + 2 <= Len(b) => Bytes(d)[3 * g + 2] = (At(d, 4 * g + 2) % 16) * 16 + (At(d, 4 * g + 3) \div 4)
          /\ 3 * g + 3 <= Len(b) => Bytes(d)[3 * g + 3] = (At(d, 4 * g + 3) % 4) * 64 + At(d, 4 * g + 4)
      BY <1>1, <1>2, ByteIs
    <2> HIDE DEF d
    <2>4. /\ 3 * g + 1 <= Len(b) => b[3 * g + 1] = x /\ 4 * g + 2 <= Len(d)
          /\ 3 * g + 2 <= Len(b) => b[3 * g + 2] = y /\ 4 * g + 3 <= Len(d)
          /\ 3 * g + 3 <= Len(b) => b[3 * g + 3] = z /\ 4 * g + 4 <= Len(d)
      BY <1>1 DEF At
    <2> HIDE DEF x, y, z
    <2>5. /\ 3 * g + 1 <= Len(b) => At(d, 4 * g + 1) = x \div 4 /\ At(d, 4 * g + 2) = (x % 4) * 16 + (y \div 16)
          /\ 3 * g + 2 <= Len(b) => At(d, 4 * g + 2) = (x % 4) * 16 + (y \div 16)
                                    /\ At(d, 4 * g + 3) = (y % 16) * 4 + (z \div 64)
          /\ 3 * g + 3 <= Len(b) => At(d, 4 * g + 3) = (y % 16) * 4 + (z \div 64) /\ At(d, 4 * g + 4) = z % 64
      BY <1>1, <2>2, <2>4 DEF At
    <2>6. /\ (x \div 4) * 4 + (((x % 4) * 16 + (y \div 16)) \div 16) = x
          /\ (((x % 4) * 16 + (y \div 16)) % 16) * 16 + (((y % 16) * 4 + (z \div 64)) \div 4) = y
          /\ (((y % 16) * 4 + (z \div 64)) % 4) * 64 + (z % 64) = z
      BY <2>1 DEF Byte
    <2>7. 3 * g + 1 <= Len(b) => Bytes(d)[3 * g + 1] = b[3 * g + 1]
      BY <2>3, <2>4, <2>5, <2>6
    <2>8. 3 * g + 2 <= Len(b) => Bytes(d)[3 * g + 2] = b[3 * g + 2]
      BY <2>3, <2>4, <2>5, <2>6
    <2>9. 3 * g + 3 <= Len(b) => Bytes(d)[3 * g + 3] = b[3 * g + 3]
      BY <2>3, <2>4, <2>5, <2>6
    <2> QED  BY <2>7, <2>8, <2>9
  <1>4. \A i \in 1..Len(b) : Bytes(d)[i] = b[i]
    <2> SUFFICES ASSUME NEW i \in 1..Len(b) PROVE Bytes(d)[i] = b[i]
      OBVIOUS
    <2>1. PICK h \in Nat : i \in {3 * h + 1, 3 * h + 2, 3 * h + 3}
      <3>1. (i - 1) \div 3 \in Nat /\ i \in (3 * ((i - 1) \div 3) + 1)..(3 * ((i - 1) \div 3) + 3)
        OBVIOUS
      <3> QED  BY <3>1
    <2> HIDE DEF d
    <2> QED  BY <1>3, <2>1
  <1> QED  BY <1>1, <1>2, <1>4

\* What the bits of the last digit that fill no byte are a remainder of.
Over(d) == IF Len(d) % 4 = 2 THEN 16 ELSE IF Len(d) % 4 = 3 THEN 4 ELSE 1
Whole(d) == Len(d) % 4 # 1 /\ (d # <<>> => d[Len(d)] % Over(d) = 0)

\* An encoding has no bits left over ...
LEMMA EncodingIsWhole ==
    ASSUME NEW b \in Seq(Byte)
    PROVE  Whole(Digits(b))
  <1> DEFINE d == Digits(b)
  <1>1. Len(d) = (4 * Len(b) + 2) \div 3 /\ d \in Seq(Sextet) /\ Len(b) \in Nat
    BY RoundTrip, DigitIs, 0 \in Nat
  <1>2. PICK g \in Nat : Len(b) \in {3 * g, 3 * g + 1, 3 * g + 2}
    <2>1. Len(b) \div 3 \in Nat /\ Len(b) \in (3 * (Len(b) \div 3))..(3 * (Len(b) \div 3) + 2)
      BY <1>1
    <2> QED  BY <2>1
  <1>3. /\ 4 * g + 2 <= Len(d) => d[4 * g + 2] = (At(b, 3 * g + 1) % 4) * 16 + (At(b, 3 * g + 2) \div 16)
        /\ 4 * g + 3 <= Len(d) => d[4 * g + 3] = (At(b, 3 * g + 2) % 16) * 4 + (At(b, 3 * g + 3) \div 64)
    BY DigitIs
  <1>4. At(b, 3 * g + 1) \in Byte /\ At(b, 3 * g + 2) \in Byte
    <2>1. 0 \in Byte
      BY DEF Byte
    <2> QED  BY <2>1, AtIs
  <1> HIDE DEF d
  <1>5. CASE Len(b) = 3 * g
    <2>1. Len(d) = 4 * g /\ Len(d) % 4 = 0 /\ Over(d) = 1
      BY <1>1, <1>5 DEF Over
    <2>2. d # <<>> => d[Len(d)] \in Nat
      <3>1. d # <<>> => d[Len(d)] \in Sextet
        BY <1>1
      <3>2. Sextet \subseteq Nat
        BY DEF Sextet
      <3> QED  BY <3>1, <3>2
    <2> QED  BY <2>1, <2>2 DEF Whole, d
  <1>6. CASE Len(b) = 3 * g + 1
    <2>1. Len(d) = 4 * g + 2 /\ Len(d) % 4 = 2 /\ Over(d) = 16
      BY <1>1, <1>6 DEF Over
    <2>2. At(b, 3 * g + 2) = 0
      BY <1>6 DEF At
    <2>3. d[Len(d)] = (At(b, 3 * g + 1) % 4) * 16 + (0 \div 16)
      BY <1>3, <2>1, <2>2
    <2>4. \A x \in Byte : ((x % 4) * 16 + (0 \div 16)) % 16 = 0
      BY DEF Byte
    <2> QED  BY <1>4, <2>1, <2>3, <2>4 DEF Whole, d
  <1>7. CASE Len(b) = 3 * g + 2
    <2>1. Len(d) = 4 * g + 3 /\ Len(d) % 4 = 3 /\ Over(d) = 4
      BY <1>1, <1>7 DEF Over
    <2>2. At(b, 3 * g + 3) = 0
      BY <1>7 DEF At
    <2>3. d[Len(d)] = (At(b, 3 * g + 2) % 16) * 4 + (0 \div 64)
      BY <1>3, <2>1, <2>2
    <2>4. \A y \in Byte : ((y % 16) * 4 + (0 \div 64)) % 4 = 0
      BY DEF Byte
    <2> QED  BY <1>4, <2>1, <2>3, <2>4 DEF Whole, d
  <1> QED  BY <1>2, <1>5, <1>6, <1>7

\* Bits that are taken apart and put together again.
LEMMA Sextets ==
    \A p, q, s, t \in Sextet :
        /\ (p * 4 + (q \div 16)) \div 4 = p
        /\ ((p * 4 + (q \div 16)) % 4) * 16 + (((q % 16) * 16 + (s \div 4)) \div 16) = q
        /\ q % 16 = 0 => ((p * 4 + (q \div 16)) % 4) * 16 + (0 \div 16) = q
        /\ (((q % 16) * 16 + (s \div 4)) % 16) * 4 + (((s % 4) * 64 + t) \div 64) = s
        /\ s % 4 = 0 => (((q % 16) * 16 + (s \div 4)) % 16) * 4 + (0 \div 64) = s
        /\ ((s % 4) * 64 + t) % 64 = t
  BY DEF Sextet

\* ... and digits that have none are the encoding of their bytes.
LEMMA WholeIsEncoding ==
    ASSUME NEW d \in Seq(Sextet), Whole(d)
    PROVE  Bytes(d) \in Seq(Byte) /\ Digits(Bytes(d)) = d
  <1> DEFINE b == Bytes(d)
             e == Digits(b)
  <1>1. Len(b) = (3 * Len(d)) \div 4 /\ b \in Seq(Byte) /\ Len(b) \in Nat /\ Len(d) \in Nat
    BY ByteIs, 0 \in Nat
  <1>2. Len(e) = (4 * Len(b) + 2) \div 3 /\ e \in [1..Len(e) -> Sextet]
    BY <1>1, DigitIs, 0 \in Nat
  <1>3. Len(e) = Len(d)
    <2>1. \A n \in Nat : n % 4 # 1 => (4 * ((3 * n) \div 4) + 2) \div 3 = n
      OBVIOUS
    <2> HIDE DEF b, e
    <2> QED  BY <1>1, <1>2, <2>1 DEF Whole
  <1>4. ASSUME NEW g \in Nat
        PROVE  /\ 4 * g + 1 <= Len(d) => e[4 * g + 1] = d[4 * g + 1]
               /\ 4 * g + 2 <= Len(d) => e[4 * g + 2] = d[4 * g + 2]
               /\ 4 * g + 3 <= Len(d) => e[4 * g + 3] = d[4 * g + 3]
               /\ 4 * g + 4 <= Len(d) => e[4 * g + 4] = d[4 * g + 4]
    <2>1. PICK x, y, z, p, q, s, t :
             /\ x = At(b, 3 * g + 1) /\ y = At(b, 3 * g + 2) /\ z = At(b, 3 * g + 3)
             /\ p = At(d, 4 * g + 1) /\ q = At(d, 4 * g + 2) /\ s = At(d, 4 * g + 3) /\ t = At(d, 4 * g + 4)
      OBVIOUS
    <2>2. {x, y, z} \subseteq Byte /\ {p, q, s, t} \subseteq Sextet
      <3>1. 0 \in Byte /\ 0 \in Sextet
        BY DEF Byte, Sextet
      <3>2. /\ At(b, 3 * g + 1) \in Byte /\ At(b, 3 * g + 2) \in Byte /\ At(b, 3 * g + 3) \in Byte
        BY <1>1, <3>1, AtIs
      <3>3. /\ At(d, 4 * g + 1) \in Sextet /\ At(d, 4 * g + 2) \in Sextet
            /\ At(d, 4 * g + 3) \in Sextet /\ At(d, 4 * g + 4) \in Sextet
        BY <3>1, AtIs
      <3> QED  BY <2>1, <3>2, <3>3
    <2>3. /\ 4 * g + 1 <= Len(e) => e[4 * g + 1] = x \div 4
          /\ 4 * g + 2 <= Len(e) => e[4 * g + 2] = (x % 4) * 16 + (y \div 16)
          /\ 4 * g + 3 <= Len(e) => e[4 * g + 3] = (y % 16) * 4 + (z \div 64)
          /\ 4 * g + 4 <= Len(e) => e[4 * g + 4] = z % 64
      BY <1>1, <2>1, DigitIs
    <2>4. /\ 3 * g + 1 <= Len(b) => b[3 * g + 1] = p * 4 + (q \div 16)
          /\ 3 * g + 2 <= Len(b) => b[3 * g + 2] = (q % 16) * 16 + (s \div 4)
          /\ 3 * g + 3 <= Len(b) => b[3 * g + 3] = (s % 4) * 64 + t
      BY <2>1, ByteIs
    <2> HIDE DEF b, e
    <2>5. /\ x = IF 3 * g + 1 <= Len(b) THEN p * 4 + (q \div 16) ELSE 0
          /\ y = IF 3 * g + 2 <= Len(b) THEN (q % 16) * 16 + (s \div 4) ELSE 0
          /\ z = IF 3 * g + 3 <= Len(b) THEN (s % 4) * 64 + t ELSE 0
      BY <2>1, <2>4 DEF At
    <2>6. /\ 4 * g + 1 <= Len(d) => p = d[4 * g + 1] /\ 4 * g + 2 <= Len(d) /\ 3 * g + 1 <= Len(b)
          /\ 4 * g + 2 <= Len(d) => q = d[4 * g + 2]
          /\ 4 * g + 3 <= Len(d) => s = d[4 * g + 3] /\ 3 * g + 2 <= Len(b)
          /\ 4 * g + 4 <= Len(d) => t = d[4 * g + 4] /\ 3 * g + 3 <= Len(b)
      <3>1. /\ 4 * g + 1 <= Len(d) => p = d[4 * g + 1]
            /\ 4 * g + 2 <= Len(d) => q = d[4 * g + 2]
            /\ 4 * g + 3 <= Len(d) => s = d[4 * g + 3]
            /\ 4 * g + 4 <= Len(d) => t = d[4 * g + 4]
        BY <2>1 DEF At
      <3>2. \A n, k \in Nat : n % 4 # 1 =>
               /\ 4 * k + 1 <= n => 4 * k + 2 <= n
               /\ 4 * k + 2 <= n => 3 * k + 1 <= (3 * n) \div 4
               /\ 4 * k + 3 <= n => 3 * k + 2 <= (3 * n) \div 4
               /\ 4 * k + 4 <= n => 3 * k + 3 <= (3 * n) \div 4
        OBVIOUS
      <3>3. /\ 4 * g + 1 <= Len(d) => 4 * g + 2 <= Len(d)
            /\ 4 * g + 2 <= Len(d) => 3 * g + 1 <= Len(b)
            /\ 4 * g + 3 <= Len(d) => 3 * g + 2 <= Len(b)
            /\ 4 * g + 4 <= Len(d) => 3 * g + 3 <= Len(b)
        BY <1>1, <3>2 DEF Whole
      <3>4. 4 * g + 1 <= Len(d) => 3 * g + 1 <= Len(b)
        BY <3>3
      <3> QED  BY <3>1, <3>3, <3>4
    <2>7. /\ Len(d) = 4 * g + 2 => y = 0 /\ q % 16 = 0
          /\ Len(d) = 4 * g + 3 => z = 0 /\ s % 4 = 0
      <3>1. CASE Len(d) = 4 * g + 2
        <4>1. Len(d) % 4 = 2 /\ ~(3 * g + 2 <= Len(b)) /\ d # <<>>
          BY <1>1, <3>1
        <4> QED  BY <2>5, <2>6, <3>1, <4>1 DEF Whole, Over
      <3>2. CASE Len(d) = 4 * g + 3
        <4>1. Len(d) % 4 = 3 /\ ~(3 * g + 3 <= Len(b)) /\ d # <<>>
          BY <1>1, <3>2
        <4> QED  BY <2>5, <2>6, <3>2, <4>1 DEF Whole, Over
      <3> QED  BY <1>1, <3>1, <3>2
    <2>8. 4 * g + 1 <= Len(d) => e[4 * g + 1] = d[4 * g + 1]
      <3>1. 4 * g + 1 <= Len(d) => x = p * 4 + (q \div 16)
        BY <2>5, <2>6
      <3>2. (p * 4 + (q \div 16)) \div 4 = p
        BY <2>2, Sextets
      <3> QED  BY <1>3, <2>3, <2>6, <3>1, <3>2
    <2>9. ASSUME 4 * g + 2 <= Len(d) PROVE e[4 * g + 2] = d[4 * g + 2]
      <3>1. x = p * 4 + (q \div 16)
        BY <1>1, <2>5, <2>6, <2>9
      <3>2. \/ y = 0 /\ q % 16 = 0
            \/ y = (q % 16) * 16 + (s \div 4)
        BY <1>1, <2>5, <2>6, <2>7, <2>9
      <3>3. (x % 4) * 16 + (y \div 16) = q
        <4>1. CASE y = 0 /\ q % 16 = 0
          BY <2>2, <3>1, <4>1, Sextets
        <4>2. CASE y = (q % 16) * 16 + (s \div 4)
          BY <2>2, <3>1, <4>2, Sextets
        <4> QED  BY <3>2, <4>1, <4>2
      <3> QED  BY <1>3, <2>3, <2>6, <2>9, <3>3
    <2>10. ASSUME 4 * g + 3 <= Len(d) PROVE e[4 * g + 3] = d[4 * g + 3]
      <3>1. y = (q % 16) * 16 + (s \div 4)
        BY <1>1, <2>5, <2>6, <2>10
      <3>2. \/ z = 0 /\ s % 4 = 0
            \/ z = (s % 4) * 64 + t
        BY <1>1, <2>5, <2>6, <2>7, <2>10
      <3>3. (y % 16) * 4 + (z \div 64) = s
        BY <2>2, <3>1, <3>2, Sextets
      <3> QED  BY <1>3, <2>3, <2>6, <2>10, <3>3
    <2>11. ASSUME 4 * g + 4 <= Len(d) PROVE e[4 * g + 4] = d[4 * g + 4]
      <3>1. z = (s % 4) * 64 + t
        BY <1>1, <2>5, <2>6, <2>11
      <3>2. z % 64 = t
        BY <2>2, <3>1, Sextets
      <3> QED  BY <1>3, <2>3, <2>6, <2>11, <3>2
    <2> QED  BY <2>8, <2>9, <2>10, <2>11
  <1>5. \A i \in 1..Len(d) : e[i] = d[i]
    <2> SUFFICES ASSUME NEW i \in 1..Len(d) PROVE e[i] = d[i]
      OBVIOUS
    <2>1. PICK h \in Nat : i \in {4 * h + 1, 4 * h + 2, 4 * h + 3, 4 * h + 4}
      <3>1. (i - 1) \div 4 \in Nat /\ i \in (4 * ((i - 1) \div 4) + 1)..(4 * ((i - 1) \div 4) + 4)
        OBVIOUS
      <3> QED  BY <3>1
    <2>2. i \in Nat /\ i <= Len(d)
      OBVIOUS
    <2> HIDE DEF e
    <2>3. /\ 4 * h + 1 <= Len(d) => e[4 * h + 1] = d[4 * h + 1]
          /\ 4 * h + 2 <= Len(d) => e[4 * h + 2] = d[4 * h + 2]
          /\ 4 * h + 3 <= Len(d) => e[4 * h + 3] = d[4 * h + 3]
          /\ 4 * h + 4 <= Len(d) => e[4 * h + 4] = d[4 * h + 4]
      BY <1>4
    <2>4. CASE i = 4 * h + 1
      BY <2>2, <2>3, <2>4
    <2>5. CASE i = 4 * h + 2
      BY <2>2, <2>3, <2>5
    <2>6. CASE i = 4 * h + 3
      BY <2>2, <2>3, <2>6
    <2>7. CASE i = 4 * h + 4
      BY <2>2, <2>3, <2>7
    <2> QED  BY <2>1, <2>4, <2>5, <2>6, <2>7
  <1>6. e = d
    <2> HIDE DEF e
    <2> QED  BY <1>2, <1>3, <1>5
  <1> QED  BY <1>1, <1>6

\* The padding that fills a group of four.
LEMMA NeededIs ==
    ASSUME NEW d \in Seq(Sextet)
    PROVE  /\ Needed(d) \in 0..3 /\ (Needed(d) + Len(d)) % 4 = 0
           /\ Len(d) % 4 # 1 => Needed(d) <= 2
           /\ \A n \in Nat : n < 3 /\ n # 0 /\ (n + Len(d)) % 4 = 0 => n = Needed(d)
  <1>1. Len(d) \in Nat
    OBVIOUS
  <1>2. \A l \in Nat : /\ (4 - (l % 4)) % 4 \in 0..3 /\ (((4 - (l % 4)) % 4) + l) % 4 = 0
                       /\ l % 4 # 1 => (4 - (l % 4)) % 4 <= 2
                       /\ \A n \in Nat : n < 3 /\ n # 0 /\ (n + l) % 4 = 0 => n = (4 - (l % 4)) % 4
    OBVIOUS
  <1> QED  BY <1>1, <1>2 DEF Needed

\* What a decoder may not accept, by its form.
Canonical(text, alphabet) ==
    /\ Whole(text.digits)
    /\ text.pads = 0 \/ (text.pads < 3 /\ (text.pads + Len(text.digits)) % 4 = 0)
    /\ text.alphabet = alphabet \/ \A i \in DOMAIN text.digits : text.digits[i] < 62

Texts == [digits : Seq(Sextet), pads : Nat, alphabet : {"standard", "url-safe"}]

LEMMA RefusedIs ==
    ASSUME NEW text \in Texts, NEW alphabet
    PROVE  Refused(text, alphabet) <=> ~Canonical(text, alphabet)
  <1> DEFINE d == text.digits
             n == text.pads
  <1>1. d \in Seq(Sextet) /\ n \in Nat
    BY DEF Texts
  <1>2. Digits(Bytes(d)) = d <=> Whole(d)
    <2>1. Bytes(d) \in Seq(Byte)
      <3> HIDE DEF d
      <3>1. Len(Bytes(d)) = (3 * Len(d)) \div 4 /\ Bytes(d) \in [1..Len(Bytes(d)) -> Byte]
        BY <1>1, ByteIs, 0 \in Nat
      <3>2. Len(Bytes(d)) \in Nat
        BY <1>1, <3>1
      <3> QED  BY <3>1, <3>2
    <2>2. Digits(Bytes(d)) = d => Whole(d)
      BY <2>1, EncodingIsWhole
    <2>3. Whole(d) => Digits(Bytes(d)) = d
      BY <1>1, WholeIsEncoding
    <2> QED  BY <2>2, <2>3
  <1>3. (\E i \in DOMAIN d : d[i] > 61 /\ text.alphabet # alphabet)
          <=> ~(text.alphabet = alphabet \/ \A i \in DOMAIN d : d[i] < 62)
    <2>1. \A i \in DOMAIN d : d[i] \in Nat
      <3>1. \A i \in DOMAIN d : d[i] \in Sextet
        BY <1>1
      <3> QED  BY <3>1 DEF Sextet
    <2> HIDE DEF d
    <2> QED  BY <2>1
  <1>4. Whole(d) => ((n > 2 \/ (n > 0 /\ n # Needed(d))) <=> ~(n = 0 \/ (n < 3 /\ (n + Len(d)) % 4 = 0)))
    <2>1. /\ Needed(d) \in 0..3 /\ (Needed(d) + Len(d)) % 4 = 0
          /\ Len(d) % 4 # 1 => Needed(d) <= 2
          /\ \A k \in Nat : k < 3 /\ k # 0 /\ (k + Len(d)) % 4 = 0 => k = Needed(d)
      BY <1>1, NeededIs
    <2> HIDE DEF d, n
    <2> QED  BY <1>1, <2>1
  <1>5. Len(d) % 4 = 1 => ~Whole(d)
    BY DEF Whole
  <1>6. Refused(text, alphabet) <=>
            \/ n > 2 \/ Len(d) % 4 = 1
            \/ \E i \in DOMAIN d : d[i] > 61 /\ text.alphabet # alphabet
            \/ n > 0 /\ n # Needed(d)
            \/ Digits(Bytes(d)) # d
    BY DEF Refused
  <1>7. Canonical(text, alphabet) <=>
            /\ Whole(d)
            /\ n = 0 \/ (n < 3 /\ (n + Len(d)) % 4 = 0)
            /\ text.alphabet = alphabet \/ \A i \in DOMAIN d : d[i] < 62
    BY DEF Canonical
  <1> HIDE DEF d, n
  <1> QED  BY <1>2, <1>3, <1>4, <1>5, <1>6, <1>7

LEMMA EncodedIs ==
    ASSUME NEW b \in Seq(Byte), NEW padding \in BOOLEAN, NEW alphabet \in {"standard", "url-safe"}
    PROVE  /\ ~Refused(Encoded(b, alphabet, padding), alphabet)
           /\ Bytes(Encoded(b, alphabet, padding).digits) = b
  <1> DEFINE d == Digits(b)
             text == Encoded(b, alphabet, padding)
  <1>1. d \in Seq(Sextet) /\ Bytes(d) = b /\ Whole(d)
    BY RoundTrip, EncodingIsWhole
  <1>2. /\ Needed(d) \in 0..3 /\ (Needed(d) + Len(d)) % 4 = 0 /\ Needed(d) <= 2
    BY <1>1, NeededIs DEF Whole
  <1>3. text = [digits |-> d, pads |-> IF padding THEN Needed(d) ELSE 0, alphabet |-> alphabet]
    BY DEF Encoded
  <1> HIDE DEF d, text
  <1>4. text.digits = d /\ text.alphabet = alphabet /\ text.pads \in {0, Needed(d)}
    BY <1>3
  <1>5. text \in Texts
    <2>1. (IF padding THEN Needed(d) ELSE 0) \in Nat
      BY <1>2
    <2> QED  BY <1>1, <1>3, <2>1 DEF Texts
  <1>6. Canonical(text, alphabet)
    BY <1>1, <1>2, <1>4 DEF Canonical
  <1> QED  BY <1>1, <1>4, <1>5, <1>6, RefusedIs DEF text

LEMMA DecodedIs ==
    ASSUME NEW text \in Texts, NEW alphabet, Canonical(text, alphabet)
    PROVE  text \in {[Encoded(Bytes(text.digits), alphabet, p) EXCEPT !.alphabet = text.alphabet] : p \in BOOLEAN}
  <1> DEFINE d == text.digits
             n == text.pads
             p == n # 0
  <1>1. d \in Seq(Sextet) /\ n \in Nat /\ Whole(d)
    BY DEF Texts, Canonical
  <1>2. Digits(Bytes(d)) = d
    BY <1>1, WholeIsEncoding
  <1>3. n = IF p THEN Needed(d) ELSE 0
    <2>1. \A k \in Nat : k < 3 /\ k # 0 /\ (k + Len(d)) % 4 = 0 => k = Needed(d)
      BY <1>1, NeededIs
    <2>2. n = 0 \/ (n < 3 /\ (n + Len(d)) % 4 = 0)
      BY DEF Canonical
    <2> HIDE DEF d, n
    <2> QED  BY <1>1, <2>1, <2>2
  <1>4. text = [digits |-> d, pads |-> n, alphabet |-> text.alphabet]
    BY DEF Texts
  <1>5. Encoded(Bytes(d), alphabet, p) = [digits |-> d, pads |-> n, alphabet |-> alphabet]
    <2> HIDE DEF d, n, p
    <2> QED  BY <1>2, <1>3 DEF Encoded
  <1>6. [Encoded(Bytes(d), alphabet, p) EXCEPT !.alphabet = text.alphabet]
          = [digits |-> d, pads |-> n, alphabet |-> text.alphabet]
    <2> HIDE DEF d, n, p
    <2> QED  BY <1>5
  <1>7. text = [Encoded(Bytes(text.digits), alphabet, p) EXCEPT !.alphabet = text.alphabet] /\ p \in BOOLEAN
    <2> HIDE DEF n, p
    <2> QED  BY <1>4, <1>6 DEF p
  <1> HIDE DEF p
  <1> QED  BY <1>7

LEMMA Base64Exact ==
    ASSUME Convertible(input), Base64
    PROVE  Base64IsExact'
  <1>1. input.tool = "base64" /\ input' = input
    BY DEF Base64, Begun, Leave
  <1>2. /\ input.alphabet \in {"standard", "url-safe"}
        /\ input.encode => input.bytes \in Seq(Byte) /\ input.padding \in BOOLEAN
        /\ ~input.encode => input.text \in Texts
    BY <1>1 DEF Convertible, Texts, Byte, Sextet
  <1>3. CASE input.encode
    <2>1. result'.data = Encoded(input.bytes, input.alphabet, input.padding)
      BY <1>3 DEF Base64, Leave, Data
    <2>2. ~Refused(result'.data, input.alphabet) /\ Bytes(result'.data.digits) = input.bytes
      BY <1>2, <1>3, <2>1, EncodedIs
    <2> QED  BY <1>1, <1>3, <2>2 DEF Base64IsExact
  <1>4. CASE ~input.encode
    <2> DEFINE text == input.text
               canonical == Canonical(text, input.alphabet)
    <2>1. text \in Texts /\ (Refused(text, input.alphabet) <=> ~canonical)
      BY <1>2, <1>4, RefusedIs
    <2>2. \/ /\ canonical /\ result'.kind = "result" /\ result'.data = Bytes(text.digits)
          \/ /\ ~canonical \/ (input.utf8 /\ NotUtf8(Bytes(text.digits)))
             /\ result'.kind = "error"
      <3> HIDE DEF canonical
      <3> QED  BY <1>4, <2>1 DEF Base64, Leave, Data, Fault
    <2>3. canonical => text \in {[Encoded(Bytes(text.digits), input.alphabet, p) EXCEPT !.alphabet = text.alphabet] : p \in BOOLEAN}
      BY <2>1, DecodedIs
    <2>4. Base64IsExact' <=>
            IF result'.kind = "result"
            THEN canonical /\ text \in {[Encoded(result'.data, input.alphabet, p) EXCEPT !.alphabet = text.alphabet] : p \in BOOLEAN}
            ELSE ~canonical \/ (input.utf8 /\ NotUtf8(Bytes(text.digits)))
      BY <1>1, <1>4 DEF Base64IsExact, Canonical, Whole, Over
    <2> HIDE DEF text, canonical
    <2> QED  BY <2>2, <2>3, <2>4
  <1> QED  BY <1>3, <1>4

-----------------------------------------------------------------------------
(* Epoch times: one number in two units.                                   *)

LEMMA ValueIs ==
    ASSUME NEW f \in Seq(0..9), Len(f) <= 3
    PROVE  /\ Len(f) = 0 => Value(f) = 0
           /\ Len(f) = 1 => Value(f) = f[1]
           /\ Len(f) = 2 => Value(f) = 10 * f[1] + f[2]
           /\ Len(f) = 3 => Value(f) = 100 * f[1] + 10 * f[2] + f[3]
  <1> DEFINE Loop(g) == [n \in 0..Len(f) |-> IF n = 0 THEN 0 ELSE 10 * g[n - 1] + f[n]]
             upTo == CHOOSE g : g = Loop(g)
             g0 == [n \in 0..Len(f) |-> IF n = 0 THEN 0
                                        ELSE IF n = 1 THEN f[1]
                                        ELSE IF n = 2 THEN 10 * f[1] + f[2]
                                        ELSE 100 * f[1] + 10 * f[2] + f[3]]
  <1>1. Value(f) = upTo[Len(f)]
    BY DEF Value
  <1>2. Len(f) \in 0..3 /\ \A i \in 1..Len(f) : f[i] \in Nat
    <2>1. Len(f) \in Nat /\ DOMAIN f = 1..Len(f)
      OBVIOUS
    <2>2. \A i \in 1..Len(f) : f[i] \in 0..9
      OBVIOUS
    <2> QED  BY <2>1, <2>2
  <1>3. g0 = Loop(g0)
    <2>1. ASSUME NEW n \in 0..Len(f)
          PROVE  g0[n] = IF n = 0 THEN 0 ELSE 10 * g0[n - 1] + f[n]
      <3>1. n \in {0, 1, 2, 3}
        BY <1>2
      <3> QED  BY <1>2, <3>1
    <2> QED  BY <2>1
  <1>4. upTo = Loop(upTo)
    <2> HIDE DEF Loop, g0
    <2> QED  BY <1>3
  <1> HIDE DEF upTo, g0
  <1>5. \A n \in 0..Len(f) : upTo[n] = IF n = 0 THEN 0 ELSE 10 * upTo[n - 1] + f[n]
    BY <1>4
  <1> HIDE DEF Loop
  <1>6. upTo[0] = 0
    BY <1>2, <1>5
  <1>7. 1 <= Len(f) => upTo[1] = f[1]
    BY <1>2, <1>5, <1>6
  <1>8. 2 <= Len(f) => upTo[2] = 10 * f[1] + f[2]
    BY <1>2, <1>5, <1>7
  <1>9. 3 <= Len(f) => upTo[3] = 100 * f[1] + 10 * f[2] + f[3]
    <2>1. 3 <= Len(f) => upTo[3] = 10 * upTo[2] + f[3]
      BY <1>2, <1>5
    <2>2. \A p, q, r \in Nat : 10 * (10 * p + q) + r = 100 * p + 10 * q + r
      OBVIOUS
    <2>3. 3 <= Len(f) => f[1] \in Nat /\ f[2] \in Nat /\ f[3] \in Nat
      BY <1>2
    <2> QED  BY <1>2, <1>8, <2>1, <2>2, <2>3
  <1> QED  BY <1>1, <1>2, <1>6, <1>7, <1>8, <1>9

\* The digits of what is left over of a second, without the zeros at the end.
LEMMA KeptIs ==
    ASSUME NEW three \in [1..3 -> 0..9],
           NEW k, k = CHOOSE n \in 0..3 : (n = 0 \/ three[n] # 0) /\ \A i \in (n + 1)..3 : three[i] = 0
    PROVE  /\ k \in 0..3 /\ (k = 0 \/ three[k] # 0) /\ \A i \in (k + 1)..3 : three[i] = 0
  <1> DEFINE P(n) == (n = 0 \/ three[n] # 0) /\ \A i \in (n + 1)..3 : three[i] = 0
  <1>1. \E n \in 0..3 : P(n)
    <2>1. CASE three[3] # 0
      BY <2>1
    <2>2. CASE three[3] = 0 /\ three[2] # 0
      BY <2>2
    <2>3. CASE three[3] = 0 /\ three[2] = 0 /\ three[1] # 0
      BY <2>3
    <2>4. CASE three[3] = 0 /\ three[2] = 0 /\ three[1] = 0
      BY <2>4
    <2> QED  BY <2>1, <2>2, <2>3, <2>4
  <1> HIDE DEF P
  <1>2. k \in 0..3 /\ P(k)
    BY <1>1 DEF P
  <1> QED  BY <1>2 DEF P

\* Milliseconds are written as seconds, and read back, without a loss.
LEMMA SecondsAre ==
    ASSUME NEW m \in Int, NEW s, s = Seconds(m)
    PROVE  /\ Millis(s, "seconds") = m
           /\ s.negative => m < 0
           /\ s.fraction # <<>> => s.fraction[Len(s.fraction)] # 0
  <1> DEFINE size == IF m < 0 THEN -m ELSE m
             three == <<(size % 1000) \div 100, (size % 100) \div 10, size % 10>>
  <1>1. size \in Nat
    OBVIOUS
  <1>2. \A n \in Nat : /\ (n % 1000) \div 100 \in 0..9 /\ (n % 100) \div 10 \in 0..9 /\ n % 10 \in 0..9
                       /\ (n \div 1000) * 1000 + ((n % 1000) \div 100) * 100 + ((n % 100) \div 10) * 10 + (n % 10) = n
                       /\ n \div 1000 \in Nat
    OBVIOUS
  <1>3. three \in [1..3 -> 0..9]
    <2>1. (size % 1000) \div 100 \in 0..9 /\ (size % 100) \div 10 \in 0..9 /\ size % 10 \in 0..9
      <3> HIDE DEF size
      <3> QED  BY <1>1, <1>2
    <2>2. PICK p, q, r : p = (size % 1000) \div 100 /\ q = (size % 100) \div 10 /\ r = size % 10
      OBVIOUS
    <2>3. p \in 0..9 /\ q \in 0..9 /\ r \in 0..9
      BY <2>1, <2>2
    <2>4. <<p, q, r>> \in [1..3 -> 0..9]
      BY <2>3
    <2>5. three = <<p, q, r>>
      BY <2>2
    <2> HIDE DEF three
    <2> QED  BY <2>4, <2>5
  <1>4. PICK k : k = CHOOSE n \in 0..3 : (n = 0 \/ three[n] # 0) /\ \A i \in (n + 1)..3 : three[i] = 0
    OBVIOUS
  <1>5. k \in 0..3 /\ (k = 0 \/ three[k] # 0) /\ \A i \in (k + 1)..3 : three[i] = 0
    <2> HIDE DEF three
    <2> QED  BY <1>3, <1>4, KeptIs
  <1>6. (s.negative <=> m < 0) /\ s.whole = size \div 1000 /\ s.fraction = SubSeq(three, 1, k)
    <2> DEFINE kept == CHOOSE n \in 0..3 : (n = 0 \/ three[n] # 0) /\ \A i \in (n + 1)..3 : three[i] = 0
    <2>1. s = [negative |-> m < 0, whole |-> size \div 1000, fraction |-> SubSeq(three, 1, kept)]
      BY DEF Seconds
    <2>2. k = kept
      BY <1>4
    <2> HIDE DEF three, size, kept
    <2>3. PICK whole, fraction, negative : /\ whole = size \div 1000 /\ fraction = SubSeq(three, 1, k)
                                           /\ negative = (m < 0)
      BY Zenon
    <2>4. s = [negative |-> negative, whole |-> whole, fraction |-> fraction]
      BY <2>1, <2>2, <2>3, Zenon
    <2>5. s.negative = negative /\ s.whole = whole /\ s.fraction = fraction
      BY <2>4
    <2> QED  BY <2>3, <2>5, Zenon
  <1>7. Len(s.fraction) = k /\ \A i \in 1..k : s.fraction[i] = three[i]
    <2>1. three \in Seq(0..9) /\ Len(three) = 3
      <3> HIDE DEF size
      <3> QED  BY <1>1, <1>2
    <2> HIDE DEF three
    <2> QED  BY <1>5, <1>6, <2>1
  <1>8. PICK a, b, c : a = three[1] /\ b = three[2] /\ c = three[3]
    OBVIOUS
  <1>9. /\ (IF 1 <= k THEN s.fraction[1] ELSE 0) = a /\ (IF 2 <= k THEN s.fraction[2] ELSE 0) = b
        /\ (IF 3 <= k THEN s.fraction[3] ELSE 0) = c
    <2> HIDE DEF three
    <2> QED  BY <1>5, <1>7, <1>8
  <1>10. a \in Nat /\ b \in Nat /\ c \in Nat /\ s.whole \in Nat /\ s.whole * 1000 + a * 100 + b * 10 + c = size
    <2>1. PICK n, w : n = size /\ w = s.whole
      OBVIOUS
    <2>2. a = (n % 1000) \div 100 /\ b = (n % 100) \div 10 /\ c = n % 10
      BY <1>8, <2>1
    <2>3. n \in Nat /\ w = n \div 1000
      <3> HIDE DEF size, three
      <3> QED  BY <1>1, <1>6, <2>1
    <2>4. a \in Nat /\ b \in Nat /\ c \in Nat /\ w \in Nat
      BY <2>2, <2>3
    <2>5. w * 1000 + a * 100 + b * 10 + c = n
      BY <2>2, <2>3, <2>4
    <2> HIDE DEF size
    <2> QED  BY <2>1, <2>4, <2>5
  <1>11. Millis(s, "seconds") = m
    <2> HIDE DEF three, size
    <2> DEFINE Digit(i) == IF i <= Len(s.fraction) THEN s.fraction[i] ELSE 0
               total == s.whole * 1000 + Digit(1) * 100 + Digit(2) * 10 + Digit(3)
    <2>1. Millis(s, "seconds") = IF s.negative THEN -total ELSE total
      BY DEF Millis
    <2>2. Digit(1) = a /\ Digit(2) = b /\ Digit(3) = c
      BY <1>7, <1>9
    <2>3. total = size
      <3> HIDE DEF Digit
      <3> QED  BY <1>10, <2>2
    <2> HIDE DEF total
    <2> QED  BY <1>6, <2>1, <2>3 DEF size
  <1> HIDE DEF three, size
  <1>12. s.fraction # <<>> => s.fraction[Len(s.fraction)] # 0
    <2>1. s.fraction # <<>> => k # 0
      BY <1>5, <1>6
    <2> QED  BY <1>5, <1>7, <2>1
  <1> QED  BY <1>6, <1>11, <1>12

\* The digits of a fraction that is padded to three of them.
Padded(f, a, b, c) ==
    /\ a = IF 1 <= Len(f) THEN f[1] ELSE 0
    /\ b = IF 2 <= Len(f) THEN f[2] ELSE 0
    /\ c = IF 3 <= Len(f) THEN f[3] ELSE 0

LEMMA PaddedIs ==
    ASSUME NEW f \in Seq(0..9), Len(f) <= 3, NEW a, NEW b, NEW c, Padded(f, a, b, c)
    PROVE  /\ a \in Nat /\ b \in Nat /\ c \in Nat
           /\ \/ Len(f) = 0 /\ a = 0 /\ b = 0 /\ c = 0
              \/ Len(f) = 1 /\ a = f[1] /\ b = 0 /\ c = 0
              \/ Len(f) = 2 /\ a = f[1] /\ b = f[2] /\ c = 0
              \/ Len(f) = 3 /\ a = f[1] /\ b = f[2] /\ c = f[3]
  <1>1. Len(f) \in 0..3
    <2>1. \A n \in Nat : n <= 3 => n \in 0..3
      OBVIOUS
    <2>2. Len(f) \in Nat
      OBVIOUS
    <2> QED  BY <2>1, <2>2, Zenon
  <1>2. \A i \in 1..Len(f) : f[i] \in Nat
    <2>1. \A i \in 1..Len(f) : f[i] \in 0..9
      OBVIOUS
    <2> QED  BY <2>1
  <1>3. CASE Len(f) = 0
    BY <1>3 DEF Padded
  <1>4. CASE Len(f) = 1
    <2>1. a = f[1] /\ b = 0 /\ c = 0
      BY <1>4 DEF Padded
    <2> QED  BY <1>2, <1>4, <2>1
  <1>5. CASE Len(f) = 2
    <2>1. a = f[1] /\ b = f[2] /\ c = 0
      BY <1>5 DEF Padded
    <2> QED  BY <1>2, <1>5, <2>1
  <1>6. CASE Len(f) = 3
    <2>1. a = f[1] /\ b = f[2] /\ c = f[3]
      BY <1>6 DEF Padded
    <2> QED  BY <1>2, <1>6, <2>1
  <1> QED  BY <1>1, <1>3, <1>4, <1>5, <1>6

\* The fraction of a number of seconds counts the digits that are there.
LEMMA FractionIs ==
    ASSUME NEW w \in Nat, NEW f \in Seq(0..9), Len(f) <= 3,
           NEW a, NEW b, NEW c, Padded(f, a, b, c)
    PROVE  /\ a \in Nat /\ b \in Nat /\ c \in Nat
           /\ Power(Len(f)) \in Nat /\ Value(f) \in Nat
           /\ (w * 1000 + a * 100 + b * 10 + c) * Power(Len(f)) = 1000 * (w * Power(Len(f)) + Value(f))
  <1>1. a \in Nat /\ b \in Nat /\ c \in Nat
    BY PaddedIs
  <1>2. Power(0) = 1 /\ Power(1) = 10 /\ Power(2) = 100 /\ Power(3) = 1000
    BY DEF Power
  <1>3. \/ Power(Len(f)) = 1 /\ Value(f) = 0 /\ a = 0 /\ b = 0 /\ c = 0
        \/ Power(Len(f)) = 10 /\ Value(f) = a /\ b = 0 /\ c = 0
        \/ Power(Len(f)) = 100 /\ Value(f) = 10 * a + b /\ c = 0
        \/ Power(Len(f)) = 1000 /\ Value(f) = 100 * a + 10 * b + c
    <2>1. /\ Len(f) = 0 => Value(f) = 0
          /\ Len(f) = 1 => Value(f) = f[1]
          /\ Len(f) = 2 => Value(f) = 10 * f[1] + f[2]
          /\ Len(f) = 3 => Value(f) = 100 * f[1] + 10 * f[2] + f[3]
      BY ValueIs
    <2>2. \/ Len(f) = 0 /\ a = 0 /\ b = 0 /\ c = 0
          \/ Len(f) = 1 /\ a = f[1] /\ b = 0 /\ c = 0
          \/ Len(f) = 2 /\ a = f[1] /\ b = f[2] /\ c = 0
          \/ Len(f) = 3 /\ a = f[1] /\ b = f[2] /\ c = f[3]
      BY PaddedIs
    <2>3. CASE Len(f) = 0
      BY <1>2, <2>1, <2>2, <2>3
    <2>4. CASE Len(f) = 1
      BY <1>2, <2>1, <2>2, <2>4
    <2>5. CASE Len(f) = 2
      BY <1>2, <2>1, <2>2, <2>5
    <2>6. CASE Len(f) = 3
      BY <1>2, <2>1, <2>2, <2>6
    <2> QED  BY <2>2, <2>3, <2>4, <2>5, <2>6
  <1>4. PICK p, v : p = Power(Len(f)) /\ v = Value(f)
    OBVIOUS
  <1>5. p \in Nat /\ v \in Nat /\ (w * 1000 + a * 100 + b * 10 + c) * p = 1000 * (w * p + v)
    <2>1. CASE p = 1 /\ v = 0 /\ a = 0 /\ b = 0 /\ c = 0
      BY <2>1
    <2>2. CASE p = 10 /\ v = a /\ b = 0 /\ c = 0
      BY <1>1, <2>2
    <2>3. CASE p = 100 /\ v = 10 * a + b /\ c = 0
      BY <1>1, <2>3
    <2>4. CASE p = 1000 /\ v = 100 * a + 10 * b + c
      BY <1>1, <2>4
    <2> QED  BY <1>3, <1>4, <2>1, <2>2, <2>3, <2>4, Zenon
  <1> QED  BY <1>1, <1>4, <1>5

LEMMA MillisIs ==
    ASSUME NEW n \in [negative : BOOLEAN, whole : Nat, fraction : Seq(0..9)], Len(n.fraction) <= 3,
           NEW unit, unit = "seconds" \/ (unit = "milliseconds" /\ n.fraction = <<>>)
    PROVE  /\ Millis(n, unit) \in Int
           /\ Millis(n, unit) * Power(Len(n.fraction))
              = (IF n.negative THEN -1 ELSE 1) * (IF unit = "seconds" THEN 1000 ELSE 1)
                * (n.whole * Power(Len(n.fraction)) + Value(n.fraction))
  <1> DEFINE Digit(i) == IF i <= Len(n.fraction) THEN n.fraction[i] ELSE 0
             w == n.whole
             p == Power(Len(n.fraction))
             v == Value(n.fraction)
             size == IF unit = "milliseconds" THEN w ELSE w * 1000 + Digit(1) * 100 + Digit(2) * 10 + Digit(3)
             times == IF unit = "seconds" THEN 1000 ELSE 1
  <1>1. Millis(n, unit) = IF n.negative THEN -size ELSE size
    BY DEF Millis
  <1>2. w \in Nat /\ n.fraction \in Seq(0..9)
    OBVIOUS
  <1>3. p \in Nat /\ v \in Nat /\ size \in Nat /\ size * p = times * (w * p + v)
    <2>1. CASE unit = "seconds"
      <3>1. PICK a, b, c : a = Digit(1) /\ b = Digit(2) /\ c = Digit(3)
        OBVIOUS
      <3>2. /\ a \in Nat /\ b \in Nat /\ c \in Nat /\ p \in Nat /\ v \in Nat
            /\ (w * 1000 + a * 100 + b * 10 + c) * p = 1000 * (w * p + v)
        <4>1. PICK f : f = n.fraction
          OBVIOUS
        <4>2. f \in Seq(0..9) /\ Len(f) <= 3 /\ Padded(f, a, b, c)
          BY <1>2, <3>1, <4>1 DEF Padded
        <4> HIDE DEF w, Digit
        <4>3. /\ a \in Nat /\ b \in Nat /\ c \in Nat
              /\ Power(Len(f)) \in Nat /\ Value(f) \in Nat
              /\ (w * 1000 + a * 100 + b * 10 + c) * Power(Len(f)) = 1000 * (w * Power(Len(f)) + Value(f))
          BY <1>2, <4>2, FractionIs
        <4> QED  BY <4>1, <4>3
      <3>3. size = w * 1000 + a * 100 + b * 10 + c /\ times = 1000
        <4> HIDE DEF w, Digit
        <4> QED  BY <2>1, <3>1
      <3> HIDE DEF w, p, v, size, times
      <3> QED  BY <1>2, <3>2, <3>3
    <2>2. CASE unit = "milliseconds"
      <3>1. n.fraction = <<>> /\ Len(n.fraction) = 0
        BY <2>2
      <3>2. v = 0 /\ p = 1
        BY <1>2, <3>1, ValueIs DEF Power
      <3>3. size = w /\ times = 1
        BY <2>2
      <3> HIDE DEF w, p, v, size, times
      <3> QED  BY <1>2, <3>2, <3>3
    <2> QED  BY <2>1, <2>2
  <1>4. times \in Nat
    OBVIOUS
  <1> HIDE DEF w, p, v, size, times
  <1>5. \A s \in Nat, q \in Nat, x \in Nat, y \in Nat :
            s * q = x * y => (-s) * q = (-1) * x * y
    OBVIOUS
  <1>6. w * p + v \in Nat
    BY <1>2, <1>3
  <1> QED
    <2>1. Millis(n, unit) * p = (IF n.negative THEN -1 ELSE 1) * times * (w * p + v)
      <3>1. PICK y \in Nat : y = w * p + v
        BY <1>6
      <3>2. CASE n.negative
        <4>1. Millis(n, unit) = -size
          BY <1>1, <3>2
        <4>2. (-size) * p = (-1) * times * y
          BY <1>3, <1>4, <1>5, <3>1
        <4> QED  BY <3>1, <3>2, <4>1, <4>2
      <3>3. CASE ~n.negative
        <4>1. Millis(n, unit) = size
          BY <1>1, <3>3
        <4>2. size * p = 1 * times * y
          BY <1>3, <1>4, <3>1
        <4> QED  BY <3>1, <3>3, <4>1, <4>2
      <3> QED  BY <3>2, <3>3
    <2>2. Millis(n, unit) \in Int
      BY <1>1, <1>3
    <2> QED  BY <2>1, <2>2 DEF w, p, v, times

LEMMA EpochExact ==
    ASSUME Convertible(input), Epoch
    PROVE  EpochIsExact'
  <1> DEFINE m == Millis(input.number, input.unit)
  <1>1. input.tool = "epoch" /\ input' = input
    BY DEF Epoch, Begun, Leave
  <1>2. /\ input.number \in [negative : BOOLEAN, whole : Nat, fraction : Seq(0..9)]
        /\ Len(input.number.fraction) <= 3
        /\ input.unit = "seconds" \/ (input.unit = "milliseconds" /\ input.number.fraction = <<>>)
    BY <1>1 DEF Convertible
  <1>3. \/ result'.kind = "error"
        \/ result'.data.seconds = Seconds(m) /\ result'.data.milliseconds = m
    <2> HIDE DEF m
    <2> QED  BY DEF Epoch, Leave, Fault, Data, m
  <1>4. m \in Int /\ m * Power(Len(input.number.fraction))
              = (IF input.number.negative THEN -1 ELSE 1) * (IF input.unit = "seconds" THEN 1000 ELSE 1)
                * (input.number.whole * Power(Len(input.number.fraction)) + Value(input.number.fraction))
    BY <1>2, MillisIs
  <1> HIDE DEF m
  <1>5. PICK s : s = Seconds(m)
    OBVIOUS
  <1>6. /\ Millis(s, "seconds") = m
        /\ s.negative => m < 0
        /\ s.fraction # <<>> => s.fraction[Len(s.fraction)] # 0
    BY <1>4, <1>5, SecondsAre
  <1>7. CASE result'.kind = "error"
    BY <1>7 DEF EpochIsExact
  <1>8. CASE result'.data.seconds = s /\ result'.data.milliseconds = m
    BY <1>1, <1>4, <1>6, <1>8 DEF EpochIsExact
  <1> QED  BY <1>3, <1>5, <1>7, <1>8

-----------------------------------------------------------------------------
(* File modes: the last clause that touches a bit decides it.              *)

Bits == Who \X {"r", "w", "x", "bit"}
Clauses == [targets : SUBSET Who, operator : {"+", "-", "="}, permissions : SUBSET {"r", "w", "x", "s", "t"}]

Touched(c, bit) == bit[1] \in c.targets /\ (c.operator = "=" \/ bit \in Named(c, bit[1]))
Said(c, bit) == c.operator # "-" /\ bit \in Named(c, bit[1])

\* A clause decides the bits that it touches, and leaves the others alone.
LEMMA ApplyIs ==
    ASSUME NEW mode, NEW c \in Clauses, NEW bit \in Bits
    PROVE  bit \in Apply(mode, c) <=> IF Touched(c, bit) THEN Said(c, bit) ELSE bit \in mode
  <1>1. PICK who \in Who, p \in {"r", "w", "x", "bit"} : bit = <<who, p>>
    BY DEF Bits
  <1>2. \A other : bit \in Named(c, other) => other = who
    BY <1>1 DEF Named
  <1> DEFINE bits == UNION {Named(c, w) : w \in c.targets}
  <1>3. bit \in bits <=> who \in c.targets /\ bit \in Named(c, who)
    BY <1>2
  <1>4. bit \in c.targets \X {"r", "w", "x", "bit"} <=> who \in c.targets
    BY <1>1
  <1>5. bit[1] = who
    BY <1>1
  <1>6. c.operator \in {"+", "-", "="}
    BY DEF Clauses
  <1>7. /\ c.operator = "+" => Apply(mode, c) = mode \cup bits
        /\ c.operator = "-" => Apply(mode, c) = mode \ bits
        /\ c.operator = "=" => Apply(mode, c) = (mode \ (c.targets \X {"r", "w", "x", "bit"})) \cup bits
    BY DEF Apply
  <1> HIDE DEF bits
  <1>8. CASE c.operator = "+"
    BY <1>3, <1>5, <1>7, <1>8 DEF Touched, Said
  <1>9. CASE c.operator = "-"
    BY <1>3, <1>5, <1>7, <1>9 DEF Touched, Said
  <1>10. CASE c.operator = "="
    <2>1. bit \in Apply(mode, c) <=> (bit \in mode /\ who \notin c.targets) \/ bit \in bits
      BY <1>4, <1>7, <1>10
    <2> QED  BY <1>3, <1>5, <1>10, <2>1 DEF Touched, Said
  <1> QED  BY <1>6, <1>8, <1>9, <1>10

\* The modes after each of the clauses.
Modes(g, base, clauses, m) ==
    /\ g = [n \in 0..m |-> g[n]] /\ g[0] = base
    /\ \A n \in 1..m : g[n] = Apply(g[n - 1], clauses[n])

LEMMA ModesExist ==
    ASSUME NEW base, NEW clauses, NEW m \in Nat
    PROVE  \E g : Modes(g, base, clauses, m)
  <1> DEFINE Bad == {n \in Nat : ~ \E g : Modes(g, base, clauses, n)}
  <1> SUFFICES ASSUME Bad # {} PROVE FALSE
    OBVIOUS
  <1>1. PICK k \in Bad : \A n \in Bad : k <= n
    BY LeastOf
  <1>2. k # 0
    <2>1. Modes([n \in 0..0 |-> base], base, clauses, 0)
      BY DEF Modes
    <2> QED  BY <1>1, <2>1
  <1>3. k \in Nat /\ k - 1 \in Nat /\ ~(k <= k - 1)
    BY <1>2
  <1>4. PICK f : Modes(f, base, clauses, k - 1)
    BY <1>1, <1>3
  <1> DEFINE g == [n \in 0..k |-> IF n = k THEN Apply(f[k - 1], clauses[k]) ELSE f[n]]
  <1>5. g[0] = base /\ g[k] = Apply(f[k - 1], clauses[k]) /\ \A n \in 0..(k - 1) : g[n] = f[n]
    BY <1>2, <1>3, <1>4 DEF Modes
  <1>6. g = [n \in 0..k |-> g[n]]
    OBVIOUS
  <1> HIDE DEF g
  <1>7. \A n \in 1..k : g[n] = Apply(g[n - 1], clauses[n])
    <2> SUFFICES ASSUME NEW n \in 1..k PROVE g[n] = Apply(g[n - 1], clauses[n])
      OBVIOUS
    <2>1. CASE n = k
      <3>1. g[k - 1] = f[k - 1]
        BY <1>3, <1>5
      <3> QED  BY <1>5, <2>1, <3>1
    <2>2. CASE n # k
      <3>1. n \in 1..(k - 1) /\ n - 1 \in 0..(k - 1) /\ n \in 0..(k - 1)
        BY <1>3, <2>2
      <3>2. f[n] = Apply(f[n - 1], clauses[n])
        BY <1>4, <3>1 DEF Modes
      <3> QED  BY <1>5, <3>1, <3>2
    <2> QED  BY <2>1, <2>2
  <1>8. Modes(g, base, clauses, k)
    BY <1>5, <1>6, <1>7 DEF Modes
  <1> QED  BY <1>1, <1>8

LEMMA ModeAfterIs ==
    ASSUME NEW base, NEW clauses \in Seq(Clauses)
    PROVE  \E g : Modes(g, base, clauses, Len(clauses)) /\ ModeAfter(base, clauses) = g[Len(clauses)]
  <1> DEFINE m == Len(clauses)
             Loop(g) == [n \in 0..m |-> IF n = 0 THEN base ELSE Apply(g[n - 1], clauses[n])]
             after == CHOOSE g : g = Loop(g)
  <1>1. ModeAfter(base, clauses) = after[m]
    BY DEF ModeAfter
  <1>2. m \in Nat
    OBVIOUS
  <1>3. PICK g : Modes(g, base, clauses, m)
    BY <1>2, ModesExist
  <1>4. g = Loop(g)
    <2>1. \A n \in 0..m : g[n] = IF n = 0 THEN base ELSE Apply(g[n - 1], clauses[n])
      BY <1>2, <1>3 DEF Modes
    <2> QED  BY <1>3, <2>1 DEF Modes
  <1>5. after = Loop(after)
    <2> HIDE DEF Loop
    <2> QED  BY <1>4
  <1> HIDE DEF after
  <1>6. Modes(after, base, clauses, m)
    <2>1. \A n \in 0..m : after[n] = IF n = 0 THEN base ELSE Apply(after[n - 1], clauses[n])
      BY <1>5
    <2>2. after = [n \in 0..m |-> after[n]]
      BY <1>5
    <2>3. after[0] = base /\ \A n \in 1..m : after[n] = Apply(after[n - 1], clauses[n])
      BY <1>2, <2>1
    <2> QED  BY <2>2, <2>3 DEF Modes
  <1> QED  BY <1>1, <1>6

\* The last clause that touches a bit, if any, decides it.
LastSays(g, base, clauses, bit, m) ==
    \/ /\ \A j \in 1..m : ~Touched(clauses[j], bit)
       /\ bit \in g[m] <=> bit \in base
    \/ \E i \in 1..m : /\ Touched(clauses[i], bit)
                       /\ \A j \in (i + 1)..m : ~Touched(clauses[j], bit)
                       /\ bit \in g[m] <=> Said(clauses[i], bit)

LEMMA LastDecides ==
    ASSUME NEW base, NEW clauses \in Seq(Clauses), NEW g, Modes(g, base, clauses, Len(clauses)),
           NEW bit \in Bits
    PROVE  LastSays(g, base, clauses, bit, Len(clauses))
  <1> DEFINE Bad == {n \in 0..Len(clauses) : ~LastSays(g, base, clauses, bit, n)}
  <1>0. Len(clauses) \in Nat
    OBVIOUS
  <1> SUFFICES ASSUME Bad # {} PROVE FALSE
    BY <1>0
  <1>1. PICK k \in Bad : \A n \in Bad : k <= n
    <2>1. Bad \in SUBSET Nat
      BY <1>0
    <2> HIDE DEF Bad
    <2> QED  BY <2>1, LeastOf
  <1>2. k # 0
    <2>1. LastSays(g, base, clauses, bit, 0)
      BY DEF LastSays, Modes
    <2> QED  BY <1>1, <2>1
  <1>3. k \in 1..Len(clauses) /\ k - 1 \in 0..Len(clauses) /\ ~(k <= k - 1) /\ k \in Nat
    BY <1>0, <1>2
  <1>4. LastSays(g, base, clauses, bit, k - 1)
    BY <1>1, <1>3
  <1>5. bit \in g[k] <=> IF Touched(clauses[k], bit) THEN Said(clauses[k], bit) ELSE bit \in g[k - 1]
    <2>1. g[k] = Apply(g[k - 1], clauses[k])
      BY <1>3 DEF Modes
    <2>2. clauses[k] \in Clauses
      BY <1>3
    <2> QED  BY <2>1, <2>2, ApplyIs
  <1>6. LastSays(g, base, clauses, bit, k)
    <2>1. CASE Touched(clauses[k], bit)
      <3>1. k \in 1..k /\ \A j \in (k + 1)..k : ~Touched(clauses[j], bit)
        BY <1>3
      <3> QED  BY <1>5, <2>1, <3>1 DEF LastSays
    <2>2. CASE ~Touched(clauses[k], bit)
      <3>1. bit \in g[k] <=> bit \in g[k - 1]
        BY <1>5, <2>2
      <3>2. CASE /\ \A j \in 1..(k - 1) : ~Touched(clauses[j], bit)
                 /\ bit \in g[k - 1] <=> bit \in base
        <4>1. \A j \in 1..k : j = k \/ j \in 1..(k - 1)
          BY <1>3
        <4>2. \A j \in 1..k : ~Touched(clauses[j], bit)
          BY <2>2, <3>2, <4>1
        <4> QED  BY <3>1, <3>2, <4>2 DEF LastSays
      <3>3. ASSUME NEW i \in 1..(k - 1), Touched(clauses[i], bit),
                   \A j \in (i + 1)..(k - 1) : ~Touched(clauses[j], bit),
                   bit \in g[k - 1] <=> Said(clauses[i], bit)
            PROVE  LastSays(g, base, clauses, bit, k)
        <4>1. i \in 1..k /\ \A j \in (i + 1)..k : j = k \/ j \in (i + 1)..(k - 1)
          BY <1>3
        <4>2. \A j \in (i + 1)..k : ~Touched(clauses[j], bit)
          BY <2>2, <3>3, <4>1
        <4> QED  BY <3>1, <3>3, <4>1, <4>2 DEF LastSays
      <3> QED  BY <1>4, <3>2, <3>3 DEF LastSays
    <2> QED  BY <2>1, <2>2
  <1> QED  BY <1>1, <1>6

\* What the clauses mean for a bit.
MeantFor(base, clauses, bit) ==
    LET touching == {i \in DOMAIN clauses : Touched(clauses[i], bit)}
    IN  IF touching = {} THEN bit \in base
        ELSE Said(clauses[CHOOSE i \in touching : \A j \in touching : j <= i], bit)

LEMMA ModeIsMeant ==
    ASSUME NEW base, NEW clauses \in Seq(Clauses), NEW bit \in Bits
    PROVE  bit \in ModeAfter(base, clauses) <=> MeantFor(base, clauses, bit)
  <1> DEFINE m == Len(clauses)
             touching == {i \in DOMAIN clauses : Touched(clauses[i], bit)}
             last == CHOOSE i \in touching : \A j \in touching : j <= i
  <1>1. m \in Nat /\ DOMAIN clauses = 1..m
    OBVIOUS
  <1>2. PICK g : Modes(g, base, clauses, m) /\ ModeAfter(base, clauses) = g[m]
    BY ModeAfterIs
  <1>3. LastSays(g, base, clauses, bit, m)
    BY <1>2, LastDecides
  <1>4. MeantFor(base, clauses, bit) <=> IF touching = {} THEN bit \in base ELSE Said(clauses[last], bit)
    BY DEF MeantFor
  <1>5. CASE /\ \A j \in 1..m : ~Touched(clauses[j], bit)
             /\ bit \in g[m] <=> bit \in base
    <2>1. touching = {}
      BY <1>1, <1>5
    <2> HIDE DEF touching, last
    <2> QED  BY <1>2, <1>4, <1>5, <2>1
  <1>6. ASSUME NEW i \in 1..m, Touched(clauses[i], bit),
               \A j \in (i + 1)..m : ~Touched(clauses[j], bit),
               bit \in g[m] <=> Said(clauses[i], bit)
        PROVE  bit \in ModeAfter(base, clauses) <=> MeantFor(base, clauses, bit)
    <2>1. i \in touching
      BY <1>1, <1>6
    <2>2. \A j \in touching : j \in 1..m /\ j <= i
      BY <1>1, <1>6
    <2> HIDE DEF touching
    <2>3. \A k \in touching : (\A j \in touching : j <= k) => k = i
      BY <2>1, <2>2
    <2>4. last = i
      BY <2>1, <2>2, <2>3
    <2> HIDE DEF last
    <2> QED  BY <1>2, <1>4, <1>6, <2>1, <2>4
  <1> QED  BY <1>3, <1>5, <1>6 DEF LastSays

\* The letters tell the bits.
ShownIn(letters, bit) ==
    LET l == letters[bit[1]]
    IN  CASE bit[2] = "r" -> l.read
          [] bit[2] = "w" -> l.write
          [] bit[2] = "x" -> l.last \in {"x", "s", "t"}
          [] bit[2] = "bit" -> l.last \notin {"x", "-"}

LEMMA LettersTell ==
    ASSUME NEW mode, NEW bit \in Bits
    PROVE  ShownIn(Letters(mode), bit) <=> bit \in mode
  <1>1. PICK who \in Who, p \in {"r", "w", "x", "bit"} : bit = <<who, p>>
    BY DEF Bits
  <1> DEFINE l == Letters(mode)[who]
             letter == LET b == IF who = "o" THEN "t" ELSE "s"
                           capital == IF who = "o" THEN "T" ELSE "S"
                       IN  IF <<who, "bit">> \in mode THEN IF <<who, "x">> \in mode THEN b ELSE capital
                           ELSE IF <<who, "x">> \in mode THEN "x" ELSE "-"
  <1>2. l = [read |-> <<who, "r">> \in mode, write |-> <<who, "w">> \in mode, last |-> letter]
    BY DEF Letters
  <1>3. PICK read, write, last : /\ read = (<<who, "r">> \in mode) /\ write = (<<who, "w">> \in mode)
                                 /\ last = letter
    BY Zenon
  <1>4. /\ l.read <=> <<who, "r">> \in mode
        /\ l.write <=> <<who, "w">> \in mode
        /\ l.last = letter
    <2> HIDE DEF l, letter
    <2>1. l = [read |-> read, write |-> write, last |-> last]
      BY <1>2, <1>3, Zenon
    <2>2. l.read = read /\ l.write = write /\ l.last = last
      BY <2>1
    <2> QED  BY <1>3, <2>2, Zenon
  <1> HIDE DEF l
  <1>5. /\ l.last \in {"x", "s", "t"} <=> <<who, "x">> \in mode
        /\ l.last \notin {"x", "-"} <=> <<who, "bit">> \in mode
    BY <1>4
  <1>6. bit[1] = who /\ bit[2] = p
    BY <1>1
  <1>7. ShownIn(Letters(mode), bit) <=>
          CASE p = "r" -> l.read
            [] p = "w" -> l.write
            [] p = "x" -> l.last \in {"x", "s", "t"}
            [] p = "bit" -> l.last \notin {"x", "-"}
    BY <1>6 DEF ShownIn, l
  <1> HIDE DEF letter
  <1>8. CASE p = "r"
    BY <1>1, <1>4, <1>7, <1>8
  <1>9. CASE p = "w"
    BY <1>1, <1>4, <1>7, <1>9
  <1>10. CASE p = "x"
    BY <1>1, <1>5, <1>7, <1>10
  <1>11. CASE p = "bit"
    BY <1>1, <1>5, <1>7, <1>11
  <1> QED  BY <1>8, <1>9, <1>10, <1>11

ModeTrue(asked, data) ==
    \A bit \in Bits : /\ bit \in data.mode <=> MeantFor(asked.base, asked.clauses, bit)
                      /\ ShownIn(data.letters, bit) <=> MeantFor(asked.base, asked.clauses, bit)

LEMMA ChmodExact ==
    ASSUME Convertible(input), Chmod
    PROVE  ModeIsExact'
  <1>1. input.tool = "chmod" /\ input' = input
    BY DEF Chmod, Begun, Leave
  <1>2. input.clauses \in Seq(Clauses)
    BY <1>1 DEF Convertible, Clauses
  <1> DEFINE mode == ModeAfter(input.base, input.clauses)
  <1>3. result'.data.mode = mode /\ result'.data.letters = Letters(mode)
    <2> HIDE DEF mode
    <2> QED  BY DEF Chmod, Leave, Data, mode
  <1>4. \A bit \in Bits : /\ bit \in mode <=> MeantFor(input.base, input.clauses, bit)
                          /\ ShownIn(Letters(mode), bit) <=> bit \in mode
    BY <1>2, ModeIsMeant, LettersTell
  <1> HIDE DEF mode
  <1>5. ModeIsExact' <=> ModeTrue(input, result'.data)
    BY <1>1 DEF ModeIsExact, ModeTrue, Bits, MeantFor, ShownIn, Touched, Said
  <1> QED  BY <1>3, <1>4, <1>5 DEF ModeTrue

-----------------------------------------------------------------------------
(* The call.                                                               *)

Phases == {"called", "parsed", "working", "awaiting", "handled", "settled"}

\* A call that is over tells an aborted caller nothing, and only calls whose
\* handler may be looked at again can be aborted meanwhile.
CallInv ==
    /\ input \in Inputs /\ phase \in Phases
    /\ phase = "settled" /\ aborted => result.kind = "error"

Searching ==
    /\ Searched(work.matches)
    /\ work.last = Resume(work.matches)
    /\ Len(work.matches) <= input.maxMatches
    /\ ~(input.global \/ input.sticky) => work.matches = <<>>

RegexInv ==
    input.tool = "regex" =>
        /\ phase # "awaiting"
        /\ phase = "working" => Searching
        /\ MatchesAreExact

RuntimeInv == CallInv /\ RegexInv

LEMMA RuntimeInit == Init => RuntimeInv
  BY DEF Init, CallInit, RuntimeInv, CallInv, RegexInv, Phases, MatchesAreExact

\* No other handler does anything to a call of the regular expression tool.
Others ==
    \/ Structured \/ Password \/ Base64 \/ Epoch \/ Chmod \/ Unfold \/ Parsed

LEMMA OthersLeaveRegex ==
    ASSUME RuntimeInv, Others
    PROVE  input.tool # "regex" /\ UNCHANGED <<input, aborted>> /\ phase' \in {"working", "awaiting", "handled"}
  BY DEF Others, Structured, Password, Base64, Epoch, Chmod, Unfold, Parsed, FormatJson, Start, Enter,
         Return, PasswordStart, Drawn, Passphrase, Draw, Begun, Working, Proceed, Leave,
         RuntimeInv, RegexInv

LEMMA RegexIs ==
    ASSUME RuntimeInv, input.tool = "regex"
    PROVE  Matchable(input)
  BY InputsAssumption DEF RuntimeInv, CallInv

\* Exactness and progress are of the input and what was found, and of nothing else.
LEMMA ExactFrame ==
    ASSUME MatchesAreExact, UNCHANGED <<input, phase, result>>
    PROVE  MatchesAreExact'
<1>1. PICK ms, cut : ms = result.data.matches /\ cut = result.data.truncated
  OBVIOUS
<1>2. AreMatches(ms, cut) => AreMatches(ms, cut)'
  BY DEF AreMatches, Starts, Size, Follows, Adjacent, Halfway
<1> QED  BY <1>1, <1>2 DEF MatchesAreExact

LEMMA SearchingFrame ==
    ASSUME Searching, UNCHANGED <<input, work>>
    PROVE  Searching'
<1>1. PICK ms : ms = work.matches
  OBVIOUS
<1>2. Resume(ms)' = Resume(ms)
  BY DEF Resume, Step, Wide, Size
<1>3. Pairs' = Pairs /\ Starts' = Starts /\ \A s : Step(s)' = Step(s)
  BY DEF Pairs, Starts, Step, Wide, Size
<1>4. Searched(ms) => Searched(ms)'
  BY <1>2, <1>3 DEF Searched, Covered
<1> QED  BY <1>1, <1>2, <1>4 DEF Searching

\* Leaving with a report that is exact.
LEMMA LeaveExactly ==
    ASSUME RuntimeInv, NEW ms, NEW cut, AreMatches(ms, cut),
           Leave(Data([matches |-> ms, truncated |-> cut]))
    PROVE  RuntimeInv'
<1>1. input' = input /\ aborted' = aborted /\ phase' = "handled"
  BY DEF Leave
<1>2. result'.data.matches = ms /\ result'.data.truncated = cut
  BY DEF Leave, Data
<1>3. AreMatches(ms, cut)'
  BY <1>1 DEF AreMatches, Starts, Size, Follows, Adjacent, Halfway
<1>4. MatchesAreExact'
  BY <1>2, <1>3 DEF MatchesAreExact
<1> QED  BY <1>1, <1>4 DEF RuntimeInv, CallInv, RegexInv, Phases

\* Leaving with a fault, or settling.
LEMMA LeaveAtFault ==
    ASSUME RuntimeInv, NEW code, Leave(Fault(code))
    PROVE  RuntimeInv'
<1>1. input' = input /\ aborted' = aborted /\ phase' = "handled" /\ result'.kind = "error"
  BY DEF Leave, Fault
<1> QED  BY <1>1 DEF RuntimeInv, CallInv, RegexInv, Phases, MatchesAreExact

LEMMA RegexStep ==
    ASSUME RuntimeInv, Regex
    PROVE  RuntimeInv'
<1>0. input.tool = "regex"
  BY DEF Regex, RegexStart, NoMatch, TooMany, Match, OverBudget, Begun, Working
<1>1. Matchable(input) /\ input.maxMatches \in Nat \ {0}
  BY <1>0, RegexIs, InputIs
<1>2. ASSUME phase = "working"
      PROVE  /\ Searched(work.matches) /\ work.last = Resume(work.matches)
             /\ work.matches \in Seq(Pairs) /\ Len(work.matches) \in Nat
             /\ Len(work.matches) <= input.maxMatches
             /\ ~(input.global \/ input.sticky) => work.matches = <<>>
  BY <1>0, <1>2 DEF RuntimeInv, RegexInv, Searching, Searched
<1>3. CASE RegexStart
  <2>1. CASE Proceed([last |-> 0, matches |-> <<>>])
    <3>1. /\ input' = input /\ aborted' = aborted /\ phase' = "working"
          /\ work'.last = 0 /\ work'.matches = <<>>
      BY <2>1 DEF Proceed
    <3>2. Searched(<<>>)
      <4>1. \A s \in Starts : ~(s < 0)
        BY <1>1, InputIs
      <4> QED  BY <4>1 DEF Searched, Resume
    <3>3. Searched(<<>>)' /\ (Resume(<<>>))' = 0
      BY <3>1, <3>2 DEF Searched, Resume, Pairs, Starts, Size, Step, Wide, Covered
    <3>4. Searching'
      BY <1>1, <3>1, <3>3 DEF Searching
    <3> QED  BY <3>1, <3>4 DEF RuntimeInv, CallInv, RegexInv, Phases, MatchesAreExact
  <2>2. CASE Leave(Fault("INVALID_INPUT"))
    BY <2>2, LeaveAtFault
  <2> QED  BY <1>3, <2>1, <2>2 DEF RegexStart
<1>4. CASE NoMatch
  <2>1. phase = "working" /\ Candidates(work.last) = {} /\ Leave(Found(FALSE))
    BY <1>4 DEF NoMatch, Working
  <2>2. ~(input.global \/ input.sticky) => (work.matches = <<>> /\ Starts = {})
    <3> SUFFICES ASSUME ~(input.global \/ input.sticky) PROVE work.matches = <<>> /\ Starts = {}
      OBVIOUS
    <3>1. work.matches = <<>> /\ Resume(work.matches) = 0
      BY <1>2, <2>1 DEF Resume
    <3>2. Candidates(0) = {s \in Starts : s >= 0}
      BY <1>1, <1>2, <2>1, <3>1, ResumeIs
    <3>3. Candidates(0) = {} /\ Starts \subseteq Nat
      BY <1>1, <1>2, <2>1, <3>1, InputIs
    <3> QED  BY <3>1, <3>2, <3>3
  <2>3. FALSE <=> Candidates(Resume(work.matches)) # {}
    BY <1>2, <2>1
  <2>4. ~(input.global \/ input.sticky) => Len(work.matches) <= 1 /\ ~FALSE /\ (work.matches = <<>> <=> Starts = {})
    BY <2>2
  <2>5. AreMatches(work.matches, FALSE)
    BY <1>1, <1>2, <2>1, <2>3, <2>4, FoundAreMatches
  <2> QED  BY <2>1, <2>5, LeaveExactly DEF Found
<1>5. CASE TooMany
  <2>1. /\ phase = "working" /\ Candidates(work.last) # {} /\ Len(work.matches) = input.maxMatches
        /\ Leave(Found(TRUE))
    BY <1>5 DEF TooMany, Working
  <2>2. input.global \/ input.sticky
    BY <1>1, <1>2, <2>1
  <2>3. AreMatches(work.matches, TRUE)
    BY <1>1, <1>2, <2>1, <2>2, FoundAreMatches
  <2> QED  BY <2>1, <2>3, LeaveExactly DEF Found
<1>6. CASE Match
  <2> DEFINE start == Min(Candidates(work.last))
             more == Append(work.matches, <<start, input.ends[start]>>)
  <2>1. /\ phase = "working" /\ Candidates(work.last) # {} /\ Len(work.matches) < input.maxMatches
        /\ IF input.global \/ input.sticky
           THEN Proceed([last |-> Step(start), matches |-> more])
           ELSE Leave(Data([matches |-> more, truncated |-> FALSE]))
    BY <1>6 DEF Match, Working
  <2>2. Candidates(work.last) \in SUBSET Nat
    BY <1>1, InputIs DEF Candidates
  <2>3. start \in Candidates(Resume(work.matches)) /\ \A s \in Candidates(Resume(work.matches)) : start <= s
    BY <1>2, <2>1, <2>2, LeastOf
  <2> HIDE DEF start
  <2>4. Searched(more) /\ Resume(more) = Step(start) /\ Len(more) = Len(work.matches) + 1
    BY <1>1, <1>2, <2>1, <2>3, FoundIs
  <2> HIDE DEF more
  <2>5. CASE input.global \/ input.sticky
    <3>1. /\ input' = input /\ aborted' = aborted /\ phase' = "working"
          /\ work'.last = Step(start) /\ work'.matches = more
      BY <2>1, <2>5 DEF Proceed
    <3>2. Len(more) <= input.maxMatches
      BY <1>1, <1>2, <2>1, <2>4
    <3>3. Searched(work'.matches) /\ Resume(work'.matches) = work'.last
      BY <2>4, <3>1
    <3>4. Searched(work.matches)' /\ Resume(work.matches)' = work'.last
      BY <3>1, <3>3 DEF Searched, Resume, Pairs, Starts, Size, Step, Wide, Covered
    <3>5. Searching'
      BY <2>5, <3>1, <3>2, <3>4 DEF Searching
    <3> QED  BY <3>1, <3>5 DEF RuntimeInv, CallInv, RegexInv, Phases, MatchesAreExact
  <2>6. CASE ~(input.global \/ input.sticky)
    <3>1. Len(more) = 1 /\ more # <<>>
      BY <1>2, <2>1, <2>4, <2>6
    <3>2. Starts # {}
      BY <2>1 DEF Candidates
    <3>3. Len(more) <= 1 /\ ~FALSE /\ (more = <<>> <=> Starts = {})
      BY <3>1, <3>2
    <3>4. AreMatches(more, FALSE)
      BY <1>1, <2>4, <2>6, <3>3, FoundAreMatches
    <3> QED  BY <2>1, <2>6, <3>4, LeaveExactly
  <2> QED  BY <2>5, <2>6
<1>7. CASE OverBudget
  BY <1>7, LeaveAtFault DEF OverBudget
<1> QED  BY <1>3, <1>4, <1>5, <1>6, <1>7 DEF Regex

LEMMA ParseKeeps ==
    ASSUME RuntimeInv, Parse
    PROVE  RuntimeInv'
<1>1. input' = input /\ aborted' = aborted /\ phase' \in {"parsed", "settled"}
      /\ (phase' = "settled" => result'.kind = "error")
  BY DEF Parse, Settle, Fault
<1> QED  BY <1>1 DEF RuntimeInv, CallInv, RegexInv, Phases, MatchesAreExact

LEMMA CheckKeeps ==
    ASSUME RuntimeInv, Check
    PROVE  RuntimeInv'
<1>1. input' = input /\ aborted' = aborted /\ phase' = "settled"
      /\ (aborted => result'.kind = "error")
  BY DEF Check, Settle, Fault
<1> QED  BY <1>1 DEF RuntimeInv, CallInv, RegexInv, Phases, MatchesAreExact

LEMMA AbortKeeps ==
    ASSUME RuntimeInv, Abort
    PROVE  RuntimeInv'
<1>1. UNCHANGED <<input, phase, work, result>> /\ phase \in {"awaiting", "handled"}
  BY DEF Abort
<1> QED  BY <1>1, ExactFrame DEF RuntimeInv, CallInv, RegexInv

LEMMA RuntimeStep == RuntimeInv /\ [Next]_callVars => RuntimeInv'
<1> SUFFICES ASSUME RuntimeInv, [Next]_callVars
             PROVE  RuntimeInv'
  OBVIOUS
<1>1. CASE Others
  <2>1. input.tool # "regex" /\ UNCHANGED <<input, aborted>> /\ phase' \in {"working", "awaiting", "handled"}
    BY <1>1, OthersLeaveRegex
  <2> QED  BY <2>1 DEF RuntimeInv, CallInv, RegexInv, Phases
<1>2. CASE UNCHANGED callVars
  BY <1>2, ExactFrame, SearchingFrame DEF callVars, RuntimeInv, CallInv, RegexInv
<1> QED  BY <1>1, <1>2, RegexStep, ParseKeeps, CheckKeeps, AbortKeeps DEF Next, Others

-----------------------------------------------------------------------------
(* Ranks, and numbers that no string has.                                 *)

LEMMA IntervalIs ==
    ASSUME NEW n \in Nat
    PROVE  IsFiniteSet(0..(n - 1)) /\ Cardinality(0..(n - 1)) = n
<1>1. IsFiniteSet(0..(n - 1)) /\ Cardinality(0..(n - 1)) = IF 0 > n - 1 THEN 0 ELSE (n - 1) - 0 + 1
  BY FS_Interval
<1> QED  BY <1>1

Below(F, k) == {j \in F : j < k}

\* The members of a finite set of numbers have the ranks 0, 1, 2, ..., each one its own.
LEMMA RankIs ==
    ASSUME NEW F \in SUBSET Nat, IsFiniteSet(F)
    PROVE  /\ Cardinality(F) \in Nat
           /\ \A k \in F : Cardinality(Below(F, k)) \in 0..(Cardinality(F) - 1)
           /\ \A k, l \in F : Cardinality(Below(F, k)) = Cardinality(Below(F, l)) => k = l
           /\ \A r \in 0..(Cardinality(F) - 1) : \E k \in F : Cardinality(Below(F, k)) = r
<1> DEFINE size == Cardinality(F)
           rank == [k \in F |-> Cardinality(Below(F, k))]
<1>1. size \in Nat
  BY FS_CardinalityType
<1>2. ASSUME NEW k \in F
      PROVE  IsFiniteSet(Below(F, k)) /\ Cardinality(Below(F, k)) \in 0..(size - 1)
  <2>1. IsFiniteSet(F \ {k}) /\ Cardinality(F \ {k}) = size - 1
    BY FS_RemoveElement
  <2>2. Below(F, k) \in SUBSET (F \ {k})
    BY DEF Below
  <2>3. IsFiniteSet(Below(F, k)) /\ Cardinality(Below(F, k)) <= size - 1
    BY <2>1, <2>2, FS_Subset
  <2>4. Cardinality(Below(F, k)) \in Nat
    BY <2>3, FS_CardinalityType
  <2> QED  BY <1>1, <2>3, <2>4
<1>3. ASSUME NEW k \in F, NEW l \in F, k < l
      PROVE  Cardinality(Below(F, k)) < Cardinality(Below(F, l))
  <2>1. k \notin Below(F, k)
    BY DEF Below
  <2>2. Below(F, k) \cup {k} \in SUBSET Below(F, l)
    <3>1. k \in Nat /\ l \in Nat /\ F \subseteq Nat
      OBVIOUS
    <3>2. \A j \in Below(F, k) : j \in F /\ j < l
      BY <1>3, <3>1 DEF Below
    <3> QED  BY <1>3, <3>2 DEF Below
  <2>3. Cardinality(Below(F, k) \cup {k}) = Cardinality(Below(F, k)) + 1
    BY <1>2, <2>1, FS_AddElement
  <2>4. Cardinality(Below(F, k) \cup {k}) <= Cardinality(Below(F, l))
    BY <1>2, <2>2, FS_Subset
  <2>5. Cardinality(Below(F, k)) \in Nat /\ Cardinality(Below(F, l)) \in Nat
    BY <1>1, <1>2
  <2> QED  BY <2>3, <2>4, <2>5
<1>4. \A k, l \in F : Cardinality(Below(F, k)) = Cardinality(Below(F, l)) => k = l
  <2> SUFFICES ASSUME NEW k \in F, NEW l \in F, Cardinality(Below(F, k)) = Cardinality(Below(F, l))
               PROVE  k = l
    OBVIOUS
  <2>1. k \in Nat /\ l \in Nat /\ Cardinality(Below(F, k)) \in Nat
    BY <1>1, <1>2
  <2>2. ~(k < l) /\ ~(l < k)
    BY <1>3, <2>1
  <2> QED  BY <2>1, <2>2
<1>5. rank \in Injection(F, 0..(size - 1))
  BY <1>2, <1>4 DEF Injection, IsInjective
<1>6. IsFiniteSet(0..(size - 1)) /\ Cardinality(0..(size - 1)) = size
  <2>1. \A n \in Nat : IsFiniteSet(0..(n - 1)) /\ Cardinality(0..(n - 1)) = n
    BY IntervalIs
  <2> HIDE DEF size
  <2> QED  BY <1>1, <2>1
<1> HIDE DEF size, rank
<1>7. rank \in Surjection(F, 0..(size - 1))
  <2>1. Cardinality(F) = Cardinality(0..(size - 1))
    BY <1>6 DEF size
  <2> QED  BY <1>5, <1>6, <2>1, FS_Injection
<1>8. \A r \in 0..(size - 1) : \E k \in F : rank[k] = r
  BY <1>7 DEF Surjection
<1> QED  BY <1>1, <1>2, <1>4, <1>8 DEF size, rank

\* Of more numbers than there are strings some are in none of them.
LEMMA FreeNumbers ==
    ASSUME NEW S, IsFiniteSet(S), NEW kind, NEW m \in Nat
    PROVE  LET free == {k \in 0..(m + Cardinality(S)) : Text(kind, k) \notin S}
           IN  free \in SUBSET Nat /\ IsFiniteSet(free) /\ Cardinality(free) > m
<1> DEFINE all == 0..(m + Cardinality(S))
           free == {k \in all : Text(kind, k) \notin S}
           taken == {k \in all : Text(kind, k) \in S}
           f == [k \in taken |-> Text(kind, k)]
<1>1. Cardinality(S) \in Nat
  BY FS_CardinalityType
<1>2. IsFiniteSet(all) /\ Cardinality(all) = m + Cardinality(S) + 1
  <2>1. \A n \in Nat : IsFiniteSet(0..((n + 1) - 1)) /\ Cardinality(0..((n + 1) - 1)) = n + 1
    BY IntervalIs
  <2>2. \A n \in Nat : IsFiniteSet(0..n) /\ Cardinality(0..n) = n + 1
    BY <2>1
  <2>3. m + Cardinality(S) \in Nat
    BY <1>1
  <2> QED  BY <2>2, <2>3
<1>3. f \in Injection(taken, S)
  <2>1. \A k, l \in taken : Text(kind, k) = Text(kind, l) => k = l
    <3>1. \A k, l : Text(kind, k) = Text(kind, l) => k = l
      <4> SUFFICES ASSUME NEW k, NEW l, Text(kind, k) = Text(kind, l) PROVE k = l
        OBVIOUS
      <4>1. Text(kind, k).n = k /\ Text(kind, l).n = l
        BY DEF Text
      <4> QED  BY <4>1
    <3> QED  BY <3>1
  <2>2. f \in [taken -> S]
    OBVIOUS
  <2> QED  BY <2>1, <2>2 DEF Injection, IsInjective
<1>4. IsFiniteSet(taken) /\ Cardinality(taken) <= Cardinality(S)
  <2> HIDE DEF taken, f
  <2> QED  BY <1>3, FS_Injection
<1>5. free \in SUBSET all /\ all \subseteq Nat
  BY <1>1
<1>6. IsFiniteSet(free)
  <2> HIDE DEF all, free
  <2> QED  BY <1>2, <1>5, FS_Subset
<1>7. free \cup taken = all /\ free \cap taken = {}
  OBVIOUS
<1>8. Cardinality(all) = Cardinality(free) + Cardinality(taken)
  <2> HIDE DEF all, free, taken
  <2>1. Cardinality(free \cup taken) = Cardinality(free) + Cardinality(taken) - Cardinality(free \cap taken)
    BY <1>4, <1>6, FS_Union
  <2>2. Cardinality({}) = 0 /\ Cardinality(free) \in Nat /\ Cardinality(taken) \in Nat
    BY <1>4, <1>6, FS_EmptySet, FS_CardinalityType
  <2>3. Cardinality(all) = Cardinality(free) + Cardinality(taken) - 0
    BY <1>7, <2>1, <2>2, Zenon
  <2> QED  BY <2>2, <2>3
<1> HIDE DEF all, free, taken
<1>9. Cardinality(free) > m
  <2>1. Cardinality(free) \in Nat /\ Cardinality(taken) \in Nat
    BY <1>4, <1>6, FS_CardinalityType
  <2> QED  BY <1>1, <1>2, <1>4, <1>8, <2>1
<1> QED  BY <1>5, <1>6, <1>9 DEF free, all

\* The values of a function on a finite set.
LEMMA ValuesFinite ==
    ASSUME NEW D, IsFiniteSet(D), NEW T, NEW f \in [D -> T], \A t \in T : \E n \in D : f[n] = t
    PROVE  IsFiniteSet(T) /\ Cardinality(T) <= Cardinality(D)
<1>1. f \in Surjection(D, T)
  BY DEF Surjection
<1> QED  BY <1>1, FS_Surjection

-----------------------------------------------------------------------------
(* JSON: stand-ins and tokens.                                            *)

\* The tokens are numbers of their own, and no string is one.
LEMMA TokensAre ==
    ASSUME NEW value, IsFiniteSet(DOMAIN value), DOMAIN value \subseteq Nat
    PROVE  /\ DOMAIN NumberTokens(value) = Numbers(value)
           /\ \A n \in Numbers(value), m \in DOMAIN value :
                  value[m][2] # Text("number", NumberTokens(value)[n]) /\ value[m][3] # Text("number", NumberTokens(value)[n])
           /\ \A m, n \in Numbers(value) : NumberTokens(value)[m] = NumberTokens(value)[n] => m = n
<1> DEFINE D == DOMAIN value
           numbers == Numbers(value)
           leaves == {value[n][3] : n \in D}
           keys == {value[n][2] : n \in D}
           strings == leaves \cup keys
           free == {k \in 0..(2 * Cardinality(D) + Cardinality(strings)) : Text("number", k) \notin strings}
           Pick(n) == CHOOSE k \in free :
                         Cardinality({j \in free : j < k}) = Cardinality({m \in numbers : m < n})
<1>1. NumberTokens(value) = [n \in numbers |-> Pick(n)]
  BY DEF NumberTokens
<1>2. IsFiniteSet(strings)
  <2>1. IsFiniteSet(leaves)
    <3> DEFINE f == [n \in D |-> value[n][3]]
    <3>1. f \in [D -> leaves] /\ \A t \in leaves : \E n \in D : f[n] = t
      OBVIOUS
    <3> HIDE DEF f, leaves
    <3> QED  BY <3>1, ValuesFinite
  <2>2. IsFiniteSet(keys)
    <3> DEFINE f == [n \in D |-> value[n][2]]
    <3>1. f \in [D -> keys] /\ \A t \in keys : \E n \in D : f[n] = t
      OBVIOUS
    <3> HIDE DEF f, keys
    <3> QED  BY <3>1, ValuesFinite
  <2> HIDE DEF leaves, keys
  <2> QED  BY <2>1, <2>2, FS_Union
<1>3. Cardinality(D) \in Nat
  BY FS_CardinalityType
<1>4. free \in SUBSET Nat /\ IsFiniteSet(free) /\ Cardinality(free) > 2 * Cardinality(D)
  <2>1. 2 * Cardinality(D) \in Nat
    BY <1>3
  <2> HIDE DEF D, strings
  <2> QED  BY <1>2, <2>1, FreeNumbers
<1>5. numbers \in SUBSET Nat /\ IsFiniteSet(numbers) /\ Cardinality(numbers) <= Cardinality(D)
  <2>1. numbers \in SUBSET D
    BY DEF Numbers
  <2> QED  BY <2>1, FS_Subset
<1> HIDE DEF D, numbers, free
<1>6. ASSUME NEW n \in numbers
      PROVE  Pick(n) \in free /\ Cardinality(Below(free, Pick(n))) = Cardinality(Below(numbers, n))
  <2>1. Cardinality(Below(numbers, n)) \in 0..(Cardinality(numbers) - 1) /\ Cardinality(numbers) \in Nat
    BY <1>5, RankIs
  <2>2. Cardinality(free) \in Nat
    BY <1>4, RankIs
  <2>3. Cardinality(Below(numbers, n)) \in 0..(Cardinality(free) - 1)
    BY <1>3, <1>4, <1>5, <2>1, <2>2
  <2>4. \E k \in free : Cardinality(Below(free, k)) = Cardinality(Below(numbers, n))
    BY <1>4, <2>3, RankIs
  <2> QED  BY <2>4 DEF Below
<1> HIDE DEF Pick
<1>7. \A m, n \in numbers : Pick(m) = Pick(n) => m = n
  <2>1. \A m, n \in numbers : Cardinality(Below(numbers, m)) = Cardinality(Below(numbers, n)) => m = n
    BY <1>5, RankIs
  <2> QED  BY <1>6, <2>1
<1>8. \A n \in numbers : Text("number", Pick(n)) \notin strings
  BY <1>6 DEF free
<1>9. \A m \in D : value[m][3] \in strings /\ value[m][2] \in strings
  OBVIOUS
<1> HIDE DEF strings
<1> QED  BY <1>1, <1>7, <1>8, <1>9 DEF numbers, D

LEMMA DocIs ==
    ASSUME NEW r, JsonInput(r)
    PROVE  LET doc == r.doc
           IN  /\ Nodes(doc) \subseteq Nat /\ IsFiniteSet(Nodes(doc)) /\ Cardinality(Nodes(doc)) \in Nat
               /\ Keyed(doc) \subseteq Nodes(doc)
               /\ DOMAIN doc.key = Nodes(doc) /\ DOMAIN doc.leaf = Nodes(doc)
               /\ \A n \in Nodes(doc) : /\ doc.key[n] = Text(doc.key[n].kind, doc.key[n].n)
                                        /\ doc.leaf[n] = Text(doc.leaf[n].kind, doc.leaf[n].n)
               /\ doc = [parent |-> doc.parent, kind |-> doc.kind, key |-> doc.key, leaf |-> doc.leaf]
<1> DEFINE doc == r.doc
           Words == [kind : {"own", "proto", "key", "number", "tail", "lone", "lexeme", "long", "none"}, n : Nat]
<1>1. /\ doc \in [parent : Seq(Nat), kind : Seq({"map", "seq", "scalar"}), key : Seq(Words), leaf : Seq(Words)]
      /\ Len(doc.kind) = Len(doc.parent) /\ Len(doc.key) = Len(doc.parent) /\ Len(doc.leaf) = Len(doc.parent)
  BY DEF JsonInput
<1> HIDE DEF doc, Words
<1>2. /\ doc.parent \in Seq(Nat) /\ doc.key \in Seq(Words) /\ doc.leaf \in Seq(Words)
      /\ doc = [parent |-> doc.parent, kind |-> doc.kind, key |-> doc.key, leaf |-> doc.leaf]
  BY <1>1
<1>3. /\ Nodes(doc) = 1..Len(doc.parent) /\ Len(doc.parent) \in Nat
      /\ DOMAIN doc.key = Nodes(doc) /\ DOMAIN doc.leaf = Nodes(doc)
  BY <1>1, <1>2 DEF Nodes
<1>4. \A n \in Nodes(doc) : doc.key[n] \in Words /\ doc.leaf[n] \in Words
  BY <1>2, <1>3
<1>5. \A t \in Words : t = Text(t.kind, t.n)
  BY DEF Words, Text
<1>6. IsFiniteSet(1..Len(doc.parent)) /\ Cardinality(1..Len(doc.parent)) \in Nat
  <2>1. \A n \in Nat : IsFiniteSet(1..n)
    BY FS_Interval
  <2> QED  BY <1>3, <2>1, FS_CardinalityType
<1>7. Nodes(doc) \subseteq Nat
  BY <1>3
<1> QED  BY <1>2, <1>3, <1>4, <1>5, <1>6, <1>7 DEF Keyed, doc

Keys(doc) == {doc.key[n] : n \in Keyed(doc)}

\* There is a stand-in for __proto__, and it is no key of the text.
LEMMA PlaceholderIs ==
    ASSUME NEW r, JsonInput(r)
    PROVE  \E k \in Nat : Placeholder(r.doc) = Text("key", k) /\ Text("key", k) \notin Keys(r.doc)
<1> DEFINE doc == r.doc
           size == Cardinality(Nodes(doc))
           P(k) == /\ Text("key", k) \notin Keys(doc)
                   /\ \A j \in 0..(k - 1) : Text("key", j) \in Keys(doc)
<1>1. /\ IsFiniteSet(Nodes(doc)) /\ size \in Nat /\ Keyed(doc) \subseteq Nodes(doc)
  BY DocIs
<1>2. IsFiniteSet(Keyed(doc)) /\ Cardinality(Keyed(doc)) <= size
  BY <1>1, FS_Subset
<1>3. IsFiniteSet(Keys(doc)) /\ Cardinality(Keys(doc)) <= Cardinality(Keyed(doc))
  <2> DEFINE f == [n \in Keyed(doc) |-> doc.key[n]]
  <2>1. f \in [Keyed(doc) -> Keys(doc)] /\ \A t \in Keys(doc) : \E n \in Keyed(doc) : f[n] = t
    BY DEF Keys
  <2> HIDE DEF f
  <2> QED  BY <1>2, <2>1, ValuesFinite
<1>4. Cardinality(Keys(doc)) \in Nat /\ Cardinality(Keyed(doc)) \in Nat
  BY <1>2, <1>3, FS_CardinalityType
<1>5. \E k \in 0..size : P(k)
  <2> DEFINE free == {k \in 0..(0 + Cardinality(Keys(doc))) : Text("key", k) \notin Keys(doc)}
  <2>1. free \in SUBSET Nat /\ IsFiniteSet(free) /\ Cardinality(free) > 0
    <3> HIDE DEF doc
    <3> QED  BY <1>3, FreeNumbers
  <2>2. free # {}
    <3> HIDE DEF free
    <3> QED  BY <2>1, FS_EmptySet
  <2>3. \A k \in free : k \in 0..size
    BY <1>1, <1>2, <1>3, <1>4
  <2>4. PICK k \in free : \A j \in free : k <= j
    <3> HIDE DEF free
    <3> QED  BY <2>1, <2>2, LeastOf
  <2>5. \A j \in 0..(k - 1) : Text("key", j) \in Keys(doc)
    <3>1. k \in 0..Cardinality(Keys(doc))
      BY <1>4
    <3>2. \A j \in 0..(k - 1) : j \in 0..(0 + Cardinality(Keys(doc))) /\ ~(k <= j)
      BY <1>4, <3>1
    <3>3. \A j \in 0..(k - 1) : j \notin free
      BY <2>4, <3>2
    <3> QED  BY <3>2, <3>3
  <2>6. P(k)
    BY <2>5
  <2> QED  BY <2>3, <2>6
<1>6. Placeholder(doc) = Text("key", CHOOSE k \in 0..size : P(k))
  BY DEF Placeholder, Keys
<1>7. PICK k : k = CHOOSE i \in 0..size : P(i)
  OBVIOUS
<1>8. k \in 0..size /\ P(k)
  <2> HIDE DEF P
  <2> QED  BY <1>5, <1>7
<1>9. k \in Nat
  BY <1>1, <1>8
<1> QED  BY <1>6, <1>7, <1>8, <1>9

LEMMA MembersAre ==
    ASSUME NEW doc
    PROVE  /\ DOMAIN Members(doc) = Nodes(doc)
           /\ \A n \in Nodes(doc) :
                 LET key == IF n \in Keyed(doc) THEN doc.key[n] ELSE Text("none", 0)
                 IN  /\ Members(doc)[n] = <<doc.parent[n], key, doc.leaf[n]>>
                     /\ Members(doc)[n][1] = doc.parent[n] /\ Members(doc)[n][2] = key
                     /\ Members(doc)[n][3] = doc.leaf[n]
  BY DEF Members

\* Without a key __proto__ nothing is lost.
LEMMA AssignedIs ==
    ASSUME NEW doc, \A n \in Keyed(doc) : doc.key[n] # Proto
    PROVE  Assigned(doc) = Members(doc)
<1> DEFINE lost == {n \in Keyed(doc) : doc.key[n] = Proto}
           kept == {n \in Nodes(doc) : n \notin lost /\ Ancestors(doc, n) \cap lost = {}}
<1>1. Assigned(doc) = [n \in kept |-> Members(doc)[n]]
  BY DEF Assigned
<1>2. lost = {}
  OBVIOUS
<1>3. kept = Nodes(doc)
  <2> HIDE DEF lost
  <2> QED  BY <1>2
<1>4. Members(doc) = [n \in Nodes(doc) |-> Members(doc)[n]]
  BY DEF Members
<1> HIDE DEF kept
<1> QED  BY <1>1, <1>3, <1>4, Zenon

\* What is read is what the text says.
LEMMA ParsedIs ==
    ASSUME NEW r, JsonInput(r)
    PROVE  ParsedJson(r.doc) = Members(r.doc)
<1> DEFINE doc == r.doc
           p == Prepared(doc)
           standIn == Placeholder(doc)
<1>1. CASE ~ \E n \in Keyed(doc) : doc.key[n] = Proto
  BY <1>1, AssignedIs DEF ParsedJson
<1>2. CASE \E n \in Keyed(doc) : doc.key[n] = Proto
  <2>1. PICK k \in Nat : standIn = Text("key", k) /\ Text("key", k) \notin Keys(doc)
    BY PlaceholderIs
  <2>2. standIn # Proto /\ standIn # Text("none", 0)
    <3>1. Text("key", k).kind = "key" /\ Proto.kind = "proto" /\ Text("none", 0).kind = "none"
      BY DEF Text, Proto
    <3> QED  BY <2>1, <3>1
  <2> DEFINE key(n) == IF doc.key[n] = Proto THEN standIn ELSE doc.key[n]
  <2>3. p = [parent |-> doc.parent, kind |-> doc.kind, key |-> [n \in Nodes(doc) |-> key(n)], leaf |-> doc.leaf]
    <3>1. doc = [parent |-> doc.parent, kind |-> doc.kind, key |-> doc.key, leaf |-> doc.leaf]
      BY DocIs
    <3>2. p = [doc EXCEPT !.key = [n \in Nodes(doc) |-> key(n)]]
      BY DEF Prepared
    <3> HIDE DEF doc, p, key
    <3> QED  BY <3>1, <3>2
  <2>4. p.parent = doc.parent /\ p.kind = doc.kind /\ p.leaf = doc.leaf /\ p.key = [n \in Nodes(doc) |-> key(n)]
    <3> HIDE DEF doc, p, key
    <3> QED  BY <2>3
  <2> HIDE DEF p
  <2>5. Nodes(p) = Nodes(doc) /\ Keyed(p) = Keyed(doc) /\ Keyed(doc) \subseteq Nodes(doc)
    BY <2>4 DEF Nodes, Keyed
  <2> HIDE DEF doc, standIn
  <2>6. Assigned(p) = Members(p)
    <3>1. \A n \in Keyed(p) : p.key[n] # Proto
      BY <2>2, <2>4, <2>5
    <3> QED  BY <3>1, AssignedIs
  <2>7. ParsedJson(doc) = Restored(Members(p), standIn)
    BY <1>2, <2>6 DEF ParsedJson, p, standIn
  <2> DEFINE value == Members(p)
             back == [n \in DOMAIN value |-> IF value[n][2] = standIn THEN [value[n] EXCEPT ![2] = Proto] ELSE value[n]]
  <2>8. Restored(value, standIn) = back
    BY DEF Restored
  <2>9. DOMAIN value = Nodes(doc)
    BY <2>5, MembersAre
  <2>10. ASSUME NEW n \in Nodes(doc)
         PROVE  (IF value[n][2] = standIn THEN [value[n] EXCEPT ![2] = Proto] ELSE value[n]) = Members(doc)[n]
    <3>1. CASE n \in Keyed(doc)
      <4>1. value[n] = <<doc.parent[n], key(n), doc.leaf[n]>> /\ value[n][2] = key(n)
        <5>1. value[n] = <<p.parent[n], p.key[n], p.leaf[n]>> /\ value[n][2] = p.key[n]
          <6> HIDE DEF key
          <6> QED  BY <2>5, <3>1, MembersAre
        <5>2. p.key[n] = key(n)
          BY <2>4
        <5> HIDE DEF value, key
        <5> QED  BY <2>4, <5>1, <5>2
      <4>2. Members(doc)[n] = <<doc.parent[n], doc.key[n], doc.leaf[n]>>
        BY <3>1, MembersAre
      <4>3. doc.key[n] # standIn
        BY <2>1, <3>1 DEF Keys
      <4>4. CASE doc.key[n] = Proto
        <5>1. value[n] = <<doc.parent[n], standIn, doc.leaf[n]>> /\ value[n][2] = standIn
          BY <4>1, <4>4
        <5> HIDE DEF value
        <5>2. [value[n] EXCEPT ![2] = Proto] = <<doc.parent[n], Proto, doc.leaf[n]>>
          BY <5>1
        <5> QED  BY <4>2, <4>4, <5>1, <5>2
      <4>5. CASE doc.key[n] # Proto
        <5>1. value[n] = <<doc.parent[n], doc.key[n], doc.leaf[n]>> /\ value[n][2] = doc.key[n]
          BY <4>1, <4>5
        <5> HIDE DEF value
        <5> QED  BY <4>2, <4>3, <5>1
      <4> QED  BY <4>4, <4>5
    <3>2. CASE n \notin Keyed(doc)
      <4>1. value[n] = <<p.parent[n], Text("none", 0), p.leaf[n]>> /\ value[n][2] = Text("none", 0)
        BY <2>5, <3>2, MembersAre
      <4>2. Members(doc)[n] = <<doc.parent[n], Text("none", 0), doc.leaf[n]>>
        BY <3>2, MembersAre
      <4> HIDE DEF value
      <4> QED  BY <2>2, <2>4, <4>1, <4>2
    <3> QED  BY <3>1, <3>2
  <2> HIDE DEF value
  <2>11. back = [n \in Nodes(doc) |-> Members(doc)[n]]
    BY <2>9, <2>10
  <2>12. Members(doc) = [n \in Nodes(doc) |-> Members(doc)[n]]
    BY DEF Members
  <2> HIDE DEF back
  <2> QED  BY <2>7, <2>8, <2>11, <2>12 DEF value, doc
<1> QED  BY <1>1, <1>2

\* What is printed is what was read, if no string ends like a token.
LEMMA PrintedIs ==
    ASSUME NEW r, JsonInput(r), ~Endangered(r.doc)
    PROVE  PrintedJson(Members(r.doc)) = Members(r.doc)
<1> DEFINE doc == r.doc
           value == Members(doc)
           token == NumberTokens(value)
           Lexeme(k) == value[CHOOSE n \in DOMAIN token : token[n] = k][3]
           Replaced(text) ==
               IF text.kind \in {"number", "tail"} /\ \E n \in DOMAIN token : token[n] = text.n
               THEN IF text.kind = "number" THEN Lexeme(text.n) ELSE Text("broken", text.n)
               ELSE text
           Emitted(n) == IF n \in DOMAIN token THEN Text("number", token[n]) ELSE value[n][3]
<1>1. /\ Nodes(doc) \subseteq Nat /\ IsFiniteSet(Nodes(doc))
      /\ \A n \in Nodes(doc) : /\ doc.key[n] = Text(doc.key[n].kind, doc.key[n].n)
                               /\ doc.leaf[n] = Text(doc.leaf[n].kind, doc.leaf[n].n)
  BY DocIs
<1>2. DOMAIN value = Nodes(doc)
  BY MembersAre
<1>3. PrintedJson(value) =
        [n \in DOMAIN value |-> <<value[n][1], Replaced(value[n][2]), Replaced(Emitted(n))>>]
  BY DEF PrintedJson
<1>4. /\ DOMAIN token = Numbers(value)
      /\ \A n \in Numbers(value), m \in DOMAIN value :
            value[m][2] # Text("number", token[n]) /\ value[m][3] # Text("number", token[n])
      /\ \A m, n \in Numbers(value) : token[m] = token[n] => m = n
  <2> HIDE DEF value
  <2> QED  BY <1>1, <1>2, TokensAre
<1>5. \A n \in Nodes(doc) :
         LET key == IF n \in Keyed(doc) THEN doc.key[n] ELSE Text("none", 0)
         IN  /\ value[n] = <<doc.parent[n], key, doc.leaf[n]>>
             /\ value[n][1] = doc.parent[n] /\ value[n][2] = key /\ value[n][3] = doc.leaf[n]
  BY MembersAre
<1>6. Numbers(value) # {} => \A n \in Nodes(doc) : doc.leaf[n].kind # "tail" /\ (n \in Keyed(doc) => doc.key[n].kind # "tail")
  BY DEF Endangered
<1>7. Numbers(value) \subseteq Nodes(doc)
  BY <1>2 DEF Numbers
<1>8. \A k, m : Text(k, m).kind = k /\ Text(k, m).n = m
  BY DEF Text
<1> HIDE DEF value, token, doc
<1>9. ASSUME NEW n \in Nodes(doc), NEW text, text \in {value[n][2], value[n][3]}
      PROVE  Replaced(text) = text
  <2>1. text = Text(text.kind, text.n)
    BY <1>1, <1>5, <1>8, <1>9
  <2>2. Numbers(value) # {} => text.kind # "tail"
    BY <1>5, <1>6, <1>8, <1>9
  <2>3. \A m \in Numbers(value) : text # Text("number", token[m])
    BY <1>2, <1>4, <1>9
  <2>4. ~(text.kind \in {"number", "tail"} /\ \E m \in DOMAIN token : token[m] = text.n)
    BY <1>4, <2>1, <2>2, <2>3
  <2> QED  BY <2>4
<1>10. ASSUME NEW n \in Numbers(value)
       PROVE  Replaced(Text("number", token[n])) = value[n][3]
  <2>1. (CHOOSE m \in DOMAIN token : token[m] = token[n]) = n
    BY <1>4
  <2>2. Lexeme(token[n]) = value[n][3]
    BY <2>1
  <2> HIDE DEF Lexeme
  <2> QED  BY <1>4, <1>8, <2>2
<1> HIDE DEF Replaced
<1>11. ASSUME NEW n \in Nodes(doc)
       PROVE  <<value[n][1], Replaced(value[n][2]), Replaced(Emitted(n))>> = value[n]
  <2>1. Replaced(value[n][2]) = value[n][2]
    BY <1>9
  <2>2. Replaced(Emitted(n)) = value[n][3]
    <3>1. CASE n \in Numbers(value)
      BY <1>4, <1>10, <3>1
    <3>2. CASE n \notin Numbers(value)
      BY <1>4, <1>9, <3>2
    <3> QED  BY <3>1, <3>2
  <2>3. <<value[n][1], value[n][2], value[n][3]>> = value[n]
    BY <1>5
  <2> QED  BY <2>1, <2>2, <2>3
<1>12. value = [n \in Nodes(doc) |-> value[n]]
  BY <1>2 DEF value, Members
<1> HIDE DEF Emitted
<1>13. PrintedJson(value) = [n \in Nodes(doc) |-> value[n]]
  <2>1. PrintedJson(value) = [n \in Nodes(doc) |-> <<value[n][1], Replaced(value[n][2]), Replaced(Emitted(n))>>]
    BY <1>2, <1>3
  <2> QED  BY <1>11, <2>1
<1> QED  BY <1>12, <1>13 DEF value, doc

\* The answer to a JSON text is what the property says of it.
LEMMA JsonExact ==
    ASSUME FormatJson, input' = input, JsonInput(input)
    PROVE  JsonSurvives'
<1> DEFINE doc == input.doc
           value == ParsedJson(doc)
<1>1. value = Members(doc)
  BY ParsedIs
<1>2. \A code : Fault(code).kind = "error" /\ Fault(code).code = code
  BY DEF Fault
<1>3. \A data : Data(data).kind = "result" /\ Data(data).data = data
  BY DEF Data
<1>4. CASE \E code \in JsonFaults(doc) : Leave(Fault(code))
  <2>1. PICK code \in JsonFaults(doc) : result' = Fault(code)
    BY <1>4 DEF Leave
  <2>2. result'.kind # "result" /\ result'.code \in JsonFaults(input'.doc)
    BY <1>2, <2>1
  <2> QED  BY <2>2 DEF JsonSurvives
<1>5. CASE /\ JsonFaults(doc) = {}
           /\ Leave(IF input.target = "json" THEN Data(PrintedJson(value))
                    ELSE IF \E n \in Numbers(value) : value[n][3].kind = "long" THEN Fault("UNSUPPORTED")
                    ELSE Data(value))
  <2>1. input.target \in {"json", "yaml"}
    BY DEF JsonInput
  <2>2. CASE input.target = "json"
    <3>1. result'.kind = "result" /\ result'.data = PrintedJson(value)
      BY <1>3, <1>5, <2>2 DEF Leave
    <3>2. PrintedJson(value) = Members(doc) \/ Endangered(doc)
      BY <1>1, PrintedIs
    <3> HIDE DEF value
    <3> QED  BY <1>5, <2>2, <3>1, <3>2 DEF JsonSurvives
  <2>3. CASE input.target = "yaml" /\ \E n \in Numbers(value) : value[n][3].kind = "long"
    <3>1. result'.kind # "result"
      BY <1>2, <1>5, <2>3 DEF Leave
    <3> HIDE DEF value
    <3>2. PICK n \in DOMAIN value : value[n][3].kind = "long"
      BY <2>3 DEF Numbers
    <3>3. n \in Nodes(doc) /\ value[n][3] = doc.leaf[n]
      <4> HIDE DEF doc
      <4> QED  BY <1>1, MembersAre
    <3> QED  BY <2>3, <3>1, <3>2, <3>3 DEF JsonSurvives
  <2>4. CASE input.target = "yaml" /\ ~ \E n \in Numbers(value) : value[n][3].kind = "long"
    <3>1. result'.kind = "result" /\ result'.data = value
      BY <1>3, <1>5, <2>4 DEF Leave
    <3> HIDE DEF value
    <3> QED  BY <1>1, <1>5, <3>1 DEF JsonSurvives
  <2> QED  BY <2>1, <2>2, <2>3, <2>4
<1> QED  BY <1>4, <1>5 DEF FormatJson

-----------------------------------------------------------------------------
(* Passwords: the random words that choose an index.                      *)

\* An index is hit once in every run of `size' random words below the bound.
LEMMA HitsAre ==
    ASSUME NEW size \in 1..WordValues, NEW index \in 0..(size - 1)
    PROVE  Cardinality(Hits(size, index)) = WordValues \div size /\ WordValues \div size > 0
<1> DEFINE q == WordValues \div size
           hits == {s \in 0..(q * size - 1) : s % size = index}
           word == [k \in 0..(q - 1) |-> k * size + index]
<1>0. WordValues \in Nat /\ size \in Nat \ {0} /\ index \in Nat /\ index < size
  BY WordAssumption
<1>1. q \in Nat /\ q > 0
  <2>1. \A w, d \in Nat : d > 0 /\ d <= w => w \div d \in Nat /\ w \div d > 0
    <3> SUFFICES ASSUME NEW w \in Nat, NEW d \in Nat, d > 0, d <= w PROVE w \div d \in Nat /\ w \div d > 0
      OBVIOUS
    <3> DEFINE e == w \div d
               r == w % d
    <3>1. e \in Int /\ r \in 0..(d - 1) /\ w = d * e + r
      OBVIOUS
    <3> HIDE DEF e, r
    <3>2. CASE e <= 0
      <4>1. d * e <= 0
        BY <3>1, <3>2
      <4> QED  BY <3>1, <4>1
    <3>3. CASE e > 0
      BY <3>1, <3>3 DEF e
    <3> QED  BY <3>1, <3>2, <3>3
  <2> QED  BY <1>0, <2>1
<1>2. Hits(size, index) = hits
  BY DEF Hits, Bound
<1> HIDE DEF q
<1>3. ASSUME NEW k \in 0..(q - 1)
      PROVE  word[k] \in hits
  <2>1. k * size + index \in Nat /\ k * size + index < q * size
    <3>1. k \in Nat /\ k + 1 <= q
      BY <1>1
    <3>2. (k + 1) * size <= q * size /\ (k + 1) * size = k * size + size /\ k * size \in Nat
      BY <1>0, <1>1, <3>1
    <3>3. q * size \in Nat
      BY <1>0, <1>1
    <3> QED  BY <1>0, <3>2, <3>3
  <2>2. (k * size + index) % size = index
    BY <1>0
  <2> QED  BY <1>0, <1>1, <2>1, <2>2
<1>4. \A k, l \in 0..(q - 1) : word[k] = word[l] => k = l
  <2> SUFFICES ASSUME NEW k \in 0..(q - 1), NEW l \in 0..(q - 1), word[k] = word[l] PROVE k = l
    OBVIOUS
  <2>1. k * size = l * size /\ k \in Nat /\ l \in Nat
    BY <1>0, <1>1
  <2> QED  BY <1>0, <2>1
<1>5. ASSUME NEW s \in hits
      PROVE  \E k \in 0..(q - 1) : word[k] = s
  <2> DEFINE k == s \div size
  <2>1. s \in Nat /\ s < q * size /\ s % size = index
    BY <1>0, <1>1
  <2>2. k \in Int /\ s = size * k + index
    BY <1>0, <2>1
  <2> HIDE DEF k
  <2>3. k >= 0
    BY <1>0, <2>1, <2>2
  <2>4. k < q
    BY <1>0, <1>1, <2>1, <2>2, <2>3
  <2>5. word[k] = s
    BY <1>0, <1>1, <2>2, <2>3, <2>4
  <2> QED  BY <1>1, <2>2, <2>3, <2>4, <2>5
<1> HIDE DEF word, hits
<1>6. word \in Bijection(0..(q - 1), hits)
  <2>1. word \in [0..(q - 1) -> hits]
    <3>1. word = [k \in 0..(q - 1) |-> word[k]]
      BY DEF word
    <3> QED  BY <1>3, <3>1
  <2> QED  BY <1>4, <1>5, <2>1 DEF Bijection, Injection, Surjection, IsInjective
<1>7. IsFiniteSet(0..(q - 1)) /\ Cardinality(0..(q - 1)) = q
  BY <1>1, IntervalIs
<1>8. Cardinality(hits) = q
  <2>1. IsFiniteSet(hits) /\ Cardinality(hits) = Cardinality(0..(q - 1))
    BY <1>6, <1>7, FS_Bijection DEF ExistsBijection
  <2> QED  BY <1>7, <2>1
<1> QED  BY <1>1, <1>2, <1>8 DEF q

FairDraws(r) ==
    \A index \in 0..(Total(r.sizes) - 1) :
        LET hits == Cardinality(Hits(Total(r.sizes), index))
        IN  hits = Cardinality(Hits(Total(r.sizes), 0)) /\ hits > 0

LEMMA AllFair ==
    ASSUME NEW r, Drawable(r)
    PROVE  FairDraws(r)
<1> DEFINE size == Total(r.sizes)
<1>1. size \in 1..WordValues
  BY DEF Drawable
<1>2. 0 \in 0..(size - 1)
  BY <1>1, WordAssumption
<1> HIDE DEF size
<1>3. ASSUME NEW index \in 0..(size - 1)
      PROVE  Cardinality(Hits(size, index)) = Cardinality(Hits(size, 0)) /\ Cardinality(Hits(size, index)) > 0
  BY <1>1, <1>2, HitsAre
<1> QED  BY <1>3 DEF FairDraws, size

-----------------------------------------------------------------------------
(* The converters answer in one step.                                      *)

Converters == {"base64", "epoch", "chmod"}

ConvertInv ==
    input.tool \in Converters =>
        phase \notin {"working", "awaiting"} /\ ConversionsAreExact

LEMMA ConversionsFrame ==
    ASSUME ConversionsAreExact, UNCHANGED <<input, phase, result>>
    PROVE  ConversionsAreExact'
<1>1. Base64IsExact => Base64IsExact'
  BY DEF Base64IsExact
<1>2. EpochIsExact => EpochIsExact'
  BY DEF EpochIsExact
<1>3. ModeIsExact => ModeIsExact'
  <2>1. ModeIsExact <=> ModeTrue(input, result.data)
    BY DEF ModeIsExact, ModeTrue, Bits, MeantFor, ShownIn, Touched, Said
  <2>2. ModeIsExact' <=> ModeTrue(input, result'.data)
    BY DEF ModeIsExact, ModeTrue, Bits, MeantFor, ShownIn, Touched, Said
  <2> QED  BY <2>1, <2>2
<1> QED  BY <1>1, <1>2, <1>3 DEF ConversionsAreExact

LEMMA ConvertStep ==
    ASSUME RuntimeInv, ConvertInv, [Next]_callVars
    PROVE  ConvertInv'
<1> SUFFICES ASSUME input'.tool \in Converters
             PROVE  phase' \notin {"working", "awaiting"} /\ ConversionsAreExact'
  BY DEF ConvertInv
<1>1. input' = input
  BY DEF Next, callVars, Parse, Settle, Check, Abort, Structured, Regex, Password, Base64, Epoch, Chmod,
         Unfold, Parsed, FormatJson, Start, Enter, Return, RegexStart, NoMatch, TooMany, Match, OverBudget,
         PasswordStart, Drawn, Passphrase, Draw, Proceed, Leave
<1>2. phase \notin {"working", "awaiting"} /\ ConversionsAreExact
  BY <1>1 DEF ConvertInv
<1>3. Convertible(input)
  BY <1>1, InputsAssumption DEF RuntimeInv, CallInv, Converters
<1>4. CASE Base64
  <2>1. phase' = "handled" /\ input'.tool = "base64"
    BY <1>1, <1>4 DEF Base64, Begun, Leave
  <2> QED  BY <1>3, <1>4, <2>1, Base64Exact DEF ConversionsAreExact
<1>5. CASE Epoch
  <2>1. phase' = "handled" /\ input'.tool = "epoch"
    BY <1>1, <1>5 DEF Epoch, Begun, Leave
  <2> QED  BY <1>3, <1>5, <2>1, EpochExact DEF ConversionsAreExact
<1>6. CASE Chmod
  <2>1. phase' = "handled" /\ input'.tool = "chmod"
    BY <1>1, <1>6 DEF Chmod, Begun, Leave
  <2> QED  BY <1>3, <1>6, <2>1, ChmodExact DEF ConversionsAreExact
<1>7. CASE Parse \/ Check
  <2>1. phase' \in {"parsed", "settled"}
    BY <1>7 DEF Parse, Check, Settle
  <2> QED  BY <2>1 DEF ConversionsAreExact
<1>8. CASE Abort \/ UNCHANGED callVars
  <2>1. UNCHANGED <<input, phase, result>>
    BY <1>8 DEF Abort, callVars
  <2> QED  BY <1>2, <2>1, ConversionsFrame
<1>9. ~(Structured \/ Regex \/ Password \/ Unfold \/ Parsed)
  BY <1>1, <1>2 DEF Converters, Structured, Regex, Password, Unfold, Parsed, FormatJson, Start, Enter, Return,
         RegexStart, NoMatch, TooMany, Match, OverBudget, PasswordStart, Drawn, Passphrase, Draw, Begun, Working
<1> QED  BY <1>4, <1>5, <1>6, <1>7, <1>8, <1>9 DEF Next

-----------------------------------------------------------------------------
(* So does the JSON side of the workbench.                                 *)

JsonInv ==
    input.tool = "json" => phase \notin {"working", "awaiting"} /\ JsonSurvives

LEMMA JsonStep ==
    ASSUME RuntimeInv, JsonInv, [Next]_callVars
    PROVE  JsonInv'
<1> SUFFICES ASSUME input'.tool = "json"
             PROVE  phase' \notin {"working", "awaiting"} /\ JsonSurvives'
  BY DEF JsonInv
<1>1. input' = input
  BY DEF Next, callVars, Parse, Settle, Check, Abort, Structured, Regex, Password, Base64, Epoch, Chmod,
         Unfold, Parsed, FormatJson, Start, Enter, Return, RegexStart, NoMatch, TooMany, Match, OverBudget,
         PasswordStart, Drawn, Passphrase, Draw, Proceed, Leave
<1>2. phase \notin {"working", "awaiting"} /\ JsonSurvives
  BY <1>1 DEF JsonInv
<1>3. JsonInput(input)
  BY <1>1, InputsAssumption DEF RuntimeInv, CallInv
<1>4. CASE FormatJson
  <2>1. phase' = "handled"
    BY <1>4 DEF FormatJson, Leave
  <2> QED  BY <1>1, <1>3, <1>4, <2>1, JsonExact
<1>5. CASE Parse \/ Check
  <2>1. phase' \in {"parsed", "settled"}
    BY <1>5 DEF Parse, Check, Settle
  <2> QED  BY <2>1 DEF JsonSurvives
<1>6. CASE Abort \/ UNCHANGED callVars
  <2>1. UNCHANGED <<input, phase, result>>
    BY <1>6 DEF Abort, callVars
  <2> QED  BY <1>2, <2>1 DEF JsonSurvives
<1>7. ~(Start \/ Enter \/ Return \/ Regex \/ Password \/ Base64 \/ Epoch \/ Chmod \/ Unfold \/ Parsed)
  BY <1>1, <1>2 DEF Regex, Password, Base64, Epoch, Chmod, Unfold, Parsed, Start, Enter, Return,
         RegexStart, NoMatch, TooMany, Match, OverBudget, PasswordStart, Drawn, Passphrase, Draw, Begun, Working
<1> QED  BY <1>4, <1>5, <1>6, <1>7 DEF Next, Structured

-----------------------------------------------------------------------------
(* The password generator draws until it has a value.                     *)

\* The characters drawn so far are indices of the alphabet, and no more than asked for.
PasswordInv ==
    input.tool = "password" =>
        /\ phase # "awaiting"
        /\ phase = "working" =>
              work \in Seq(0..(Total(input.sizes) - 1)) /\ Len(work) <= input.length
        /\ DrawsAreFair

LEMMA PasswordStep ==
    ASSUME RuntimeInv, PasswordInv, [Next]_callVars
    PROVE  PasswordInv'
<1> DEFINE size == Total(input.sizes)
<1> SUFFICES ASSUME input'.tool = "password"
             PROVE  /\ phase' # "awaiting"
                    /\ phase' = "working" => work' \in Seq(0..(Total(input'.sizes) - 1)) /\ Len(work') <= input'.length
                    /\ DrawsAreFair'
  BY DEF PasswordInv
<1>1. input' = input
  BY DEF Next, callVars, Parse, Settle, Check, Abort, Structured, Regex, Password, Base64, Epoch, Chmod,
         Unfold, Parsed, FormatJson, Start, Enter, Return, RegexStart, NoMatch, TooMany, Match, OverBudget,
         PasswordStart, Drawn, Passphrase, Draw, Proceed, Leave
<1>2. /\ phase # "awaiting" /\ DrawsAreFair
      /\ phase = "working" => work \in Seq(0..(size - 1)) /\ Len(work) <= input.length
  BY <1>1 DEF PasswordInv
<1>3. Drawable(input)
  BY <1>1, InputsAssumption DEF RuntimeInv, CallInv
<1>4. size \in Nat /\ size > 0 /\ input.length \in Nat /\ input.eachClass \in BOOLEAN
  BY <1>3, WordAssumption DEF Drawable
<1>5. CASE PasswordStart
  <2>1. phase' = "working" /\ work' = <<>>
    BY <1>5 DEF PasswordStart, Proceed
  <2> HIDE DEF size
  <2> QED  BY <1>1, <1>4, <2>1 DEF DrawsAreFair, size
<1>6. CASE \E sample \in 0..(WordValues - 1) : Draw(sample)
  <2>1. PICK sample \in 0..(WordValues - 1) : Draw(sample)
    BY <1>6
  <2>2. phase = "working" /\ phase' = "working" /\ work' = Append(work, sample % size) /\ Len(work) < input.length
    BY <2>1 DEF Draw, Working, Proceed
  <2>3. sample % size \in 0..(size - 1)
    <3>1. sample \in Nat
      BY WordAssumption
    <3> HIDE DEF size
    <3> QED  BY <1>4, <3>1
  <2> HIDE DEF size
  <2>4. work' \in Seq(0..(size - 1)) /\ Len(work') = Len(work) + 1 /\ Len(work) \in Nat
    BY <1>2, <2>2, <2>3
  <2>5. Len(work') <= input.length
    BY <1>4, <2>2, <2>4
  <2> QED  BY <1>1, <2>2, <2>4, <2>5 DEF DrawsAreFair, size
<1>7. CASE Drawn
  <2>1. CASE input.eachClass /\ ~EachClass(input.sizes, work)
    <3>1. phase' = "working" /\ work' = <<>>
      BY <1>7, <2>1 DEF Drawn, Proceed
    <3> HIDE DEF size
    <3> QED  BY <1>1, <1>4, <3>1 DEF DrawsAreFair, size
  <2>2. CASE ~(input.eachClass /\ ~EachClass(input.sizes, work))
    <3>1. phase = "working" /\ Len(work) = input.length
      BY <1>7 DEF Drawn, Working
    <3>2. phase' = "handled" /\ result' = Data([value |-> work, possibilities |-> Possibilities])
      BY <1>7, <2>2 DEF Drawn, Leave
    <3>3. result'.data.value = work
      BY <3>2 DEF Data
    <3>4. work \in [1..input.length -> 0..(size - 1)]
      <4>1. \A S : \A w \in Seq(S) : w \in [1..Len(w) -> S]
        OBVIOUS
      <4> HIDE DEF size
      <4> QED  BY <1>2, <3>1, <4>1
    <3>5. input.eachClass => EachClass(input.sizes, work)
      BY <1>4, <2>2
    <3>6. work \in Returned(input)
      BY <3>4, <3>5 DEF Returned
    <3>7. FairDraws(input)
      BY <1>3, AllFair
    <3> QED  BY <1>1, <3>2, <3>3, <3>6, <3>7 DEF DrawsAreFair, FairDraws
  <2> QED  BY <2>1, <2>2
<1>8. CASE Parse \/ Check
  <2>1. phase' \in {"parsed", "settled"}
    BY <1>8 DEF Parse, Check, Settle
  <2> QED  BY <2>1 DEF DrawsAreFair
<1>9. CASE Abort \/ UNCHANGED callVars
  <2>1. UNCHANGED <<input, phase, work, result>>
    BY <1>9 DEF Abort, callVars
  <2> QED  BY <1>2, <2>1 DEF DrawsAreFair
<1>10. ~(Structured \/ Regex \/ Passphrase \/ Base64 \/ Epoch \/ Chmod \/ Unfold \/ Parsed)
  BY <1>1, <1>2 DEF Structured, Regex, Base64, Epoch, Chmod, Unfold, Parsed, FormatJson, Start, Enter, Return,
         RegexStart, NoMatch, TooMany, Match, OverBudget, Passphrase, Begun, Working
<1> QED  BY <1>5, <1>6, <1>7, <1>8, <1>9, <1>10 DEF Next, Password

-----------------------------------------------------------------------------
(* YAML: the paths of a document.                                         *)

\* The nodes are numbered from the root on, and what follows one is a node.
LEMMA NodesAre ==
    ASSUME NEW doc, YamlTree(doc)
    PROVE  /\ Len(doc.parent) \in Nat \ {0} /\ Nodes(doc) = 1..Len(doc.parent)
           /\ IsFiniteSet(Nodes(doc)) /\ Cardinality(Nodes(doc)) = Len(doc.parent)
           /\ \A n \in Nodes(doc) : Nexts(doc, n) \ {0} \subseteq Nodes(doc)
<1> DEFINE size == Len(doc.parent)
<1>1. size \in Nat /\ Nodes(doc) = 1..size /\ 1 \in Nodes(doc)
  BY DEF YamlTree, Nodes
<1>2. \A n \in Nat : IsFiniteSet(1..n) /\ Cardinality(1..n) = n
  <2>1. \A n \in Nat : IsFiniteSet(1..n) /\ Cardinality(1..n) = IF 1 > n THEN 0 ELSE n - 1 + 1
    BY FS_Interval
  <2> QED  BY <2>1
<1>3. ASSUME NEW n \in Nodes(doc), NEW m \in Nexts(doc, n) \ {0}
      PROVE  m \in Nodes(doc)
  <2>1. CASE doc.kind[n] = "alias"
    <3>1. m = doc.target[n] /\ m \in 0..(n - 1)
      BY <2>1 DEF Nexts, YamlTree, Aliases
    <3> QED  BY <1>1, <3>1
  <2>2. CASE doc.kind[n] # "alias"
    BY <2>2 DEF Nexts, Children
  <2> QED  BY <2>1, <2>2
<1>4. size # 0
  BY <1>1
<1> HIDE DEF size
<1>5. IsFiniteSet(Nodes(doc)) /\ Cardinality(Nodes(doc)) = size
  BY <1>1, <1>2
<1> QED  BY <1>1, <1>3, <1>4, <1>5 DEF size

\* What is above each node, step by step.
Upwards(doc, g) ==
    g = [n \in {0} \cup Nodes(doc) |-> IF n = 0 THEN {} ELSE {doc.parent[n]} \cup g[doc.parent[n]]]

\* The recursive function that Ancestors is defined by exists.
LEMMA UpwardsExist ==
    ASSUME NEW doc, YamlTree(doc)
    PROVE  \E g : Upwards(doc, g)
<1> DEFINE size == Len(doc.parent)
           Up(g, m) == g = [n \in 0..m |-> IF n = 0 THEN {} ELSE {doc.parent[n]} \cup g[doc.parent[n]]]
           Bad == {m \in Nat : m <= size /\ ~ \E g : Up(g, m)}
<1>1. size \in Nat /\ Nodes(doc) = 1..size
  BY NodesAre
<1>2. \A n \in 1..size : doc.parent[n] \in 0..(n - 1)
  BY <1>1 DEF YamlTree
<1>3. Bad = {}
  <2> SUFFICES ASSUME Bad # {} PROVE FALSE
    OBVIOUS
  <2>1. PICK m \in Bad : \A n \in Bad : m <= n
    BY LeastOf
  <2>2. m # 0
    <3>1. Up([n \in 0..0 |-> {}], 0)
      OBVIOUS
    <3> QED  BY <2>1, <3>1
  <2>3. m \in 1..size /\ m - 1 \in Nat /\ m - 1 <= size /\ ~(m <= m - 1)
    BY <1>1, <2>2
  <2>4. PICK f : Up(f, m - 1)
    BY <2>1, <2>3
  <2> DEFINE g == [n \in 0..m |-> IF n = m THEN {doc.parent[m]} \cup f[doc.parent[m]] ELSE f[n]]
  <2>5. \A n \in 0..(m - 1) : g[n] = f[n]
    BY <2>3
  <2>6. g[m] = {doc.parent[m]} \cup f[doc.parent[m]]
    BY <2>3
  <2>7. ASSUME NEW n \in 0..m
        PROVE  g[n] = IF n = 0 THEN {} ELSE {doc.parent[n]} \cup g[doc.parent[n]]
    <3>1. CASE n = m
      <4>1. doc.parent[m] \in 0..(m - 1)
        BY <1>2, <2>3
      <4>2. g[doc.parent[m]] = f[doc.parent[m]]
        BY <2>5, <4>1
      <4> HIDE DEF g
      <4> QED  BY <2>2, <2>6, <3>1, <4>2
    <3>2. CASE n # m
      <4>1. n \in 0..(m - 1) /\ n <= size
        BY <2>3, <3>2
      <4>2. f[n] = IF n = 0 THEN {} ELSE {doc.parent[n]} \cup f[doc.parent[n]]
        BY <2>4, <4>1
      <4>3. n # 0 => doc.parent[n] \in 0..(m - 1)
        BY <1>1, <1>2, <2>3, <4>1
      <4> HIDE DEF g
      <4> QED  BY <2>5, <4>1, <4>2, <4>3
    <3> QED  BY <3>1, <3>2
  <2>8. g = [n \in 0..m |-> g[n]]
    OBVIOUS
  <2> HIDE DEF g
  <2>9. Up(g, m)
    BY <2>7, <2>8
  <2> QED  BY <2>1, <2>9
<1>4. \E g : Up(g, size)
  <2>1. size <= size
    BY <1>1
  <2> HIDE DEF Up
  <2> QED  BY <1>1, <1>3, <2>1
<1>5. {0} \cup Nodes(doc) = 0..size
  BY <1>1
<1> QED  BY <1>4, <1>5 DEF Upwards

\* What is above a node: its parent, and what is above that.
LEMMA AncestorsAre ==
    ASSUME NEW doc, YamlTree(doc), NEW n \in Nodes(doc)
    PROVE  /\ n = 1 => Ancestors(doc, n) = {}
           /\ n # 1 => /\ doc.parent[n] \in Nodes(doc) /\ doc.parent[n] < n
                       /\ Ancestors(doc, n) = {doc.parent[n]} \cup Ancestors(doc, doc.parent[n])
<1> DEFINE up == CHOOSE g : Upwards(doc, g)
<1>1. Upwards(doc, up)
  BY UpwardsExist
<1>2. \A m : Ancestors(doc, m) = up[m] \ {0}
  BY DEF Ancestors, Upwards
<1> HIDE DEF up
<1>3. up[n] = IF n = 0 THEN {} ELSE {doc.parent[n]} \cup up[doc.parent[n]]
  BY <1>1 DEF Upwards
<1>4. up[0] = {}
  BY <1>1 DEF Upwards
<1>5. Len(doc.parent) \in Nat /\ Nodes(doc) = 1..Len(doc.parent)
  BY NodesAre
<1>6. IF n = 1 THEN doc.parent[n] = 0 ELSE doc.parent[n] \in 1..(n - 1)
  BY DEF YamlTree
<1> QED  BY <1>2, <1>3, <1>4, <1>5, <1>6

\* Ancestors come before, and those of an ancestor are ancestors.
LEMMA AncestorsAbove ==
    ASSUME NEW doc, YamlTree(doc)
    PROVE  \A n \in Nodes(doc) : \A a \in Ancestors(doc, n) :
               /\ a \in Nodes(doc) /\ a < n
               /\ Ancestors(doc, a) \subseteq Ancestors(doc, n)
<1> DEFINE Good(n) == \A a \in Ancestors(doc, n) :
                         a \in Nodes(doc) /\ a < n /\ Ancestors(doc, a) \subseteq Ancestors(doc, n)
           Bad == {n \in Nodes(doc) : ~Good(n)}
<1>1. Nodes(doc) \subseteq Nat
  BY NodesAre
<1> SUFFICES ASSUME Bad # {} PROVE FALSE
  OBVIOUS
<1>2. PICK n \in Bad : \A m \in Bad : n <= m
  BY <1>1, LeastOf
<1>3. n # 1
  BY <1>2, AncestorsAre
<1> DEFINE p == doc.parent[n]
<1>4. p \in Nodes(doc) /\ p < n /\ Ancestors(doc, n) = {p} \cup Ancestors(doc, p)
  BY <1>2, <1>3, AncestorsAre
<1> HIDE DEF p
<1>5. Good(p)
  BY <1>1, <1>2, <1>4
<1>6. Good(n)
  <2> SUFFICES ASSUME NEW a \in Ancestors(doc, n)
               PROVE  a \in Nodes(doc) /\ a < n /\ Ancestors(doc, a) \subseteq Ancestors(doc, n)
    OBVIOUS
  <2>1. CASE a = p
    BY <1>4, <2>1
  <2>2. CASE a \in Ancestors(doc, p)
    <3>1. a \in Nodes(doc) /\ a < p /\ Ancestors(doc, a) \subseteq Ancestors(doc, p)
      BY <1>5, <2>2
    <3> QED  BY <1>1, <1>4, <3>1
  <2> QED  BY <1>4, <2>1, <2>2
<1> QED  BY <1>2, <1>6

\* Aside of M: what comes before M and is not above it.  No way leads from there to M.
Aside(doc, M) == {y \in Nodes(doc) : y < M /\ y \notin Ancestors(doc, M)}

\* From aside of a node no step leads to it or below it, if no alias is a circle.
LEMMA AsideStays ==
    ASSUME NEW doc, YamlTree(doc), ~Circular(doc), NEW M \in Nodes(doc),
           NEW y \in Aside(doc, M), NEW z \in Nexts(doc, y) \ {0}
    PROVE  z \in Aside(doc, M)
<1>1. Nodes(doc) \subseteq Nat /\ y \in Nodes(doc) /\ z \in Nodes(doc) /\ y < M /\ y \notin Ancestors(doc, M)
  BY NodesAre DEF Aside
<1>2. \A n \in Nodes(doc) : \A a \in Ancestors(doc, n) : \A m \in (a + 1)..(n - 1) : a \in Ancestors(doc, m)
  BY DEF YamlTree
<1>3. CASE y \in Aliases(doc)
  <2>1. z = doc.target[y] /\ z < y
    <3>1. z = doc.target[y] /\ doc.target[y] \in 0..(y - 1)
      BY <1>3 DEF Nexts, Aliases, YamlTree
    <3> QED  BY <1>1, <3>1
  <2>2. z \in Ancestors(doc, M) => z \in Ancestors(doc, y)
    <3>1. y \in (z + 1)..(M - 1)
      BY <1>1, <2>1
    <3> QED  BY <1>2, <3>1
  <2>3. z \notin Ancestors(doc, y)
    BY <1>3, <2>1 DEF Circular
  <2> QED  BY <1>1, <2>1, <2>2, <2>3 DEF Aside
<1>4. CASE y \notin Aliases(doc)
  <2>1. doc.parent[z] = y
    BY <1>1, <1>4 DEF Nexts, Aliases, Children
  <2>2. z # 1
    BY <1>1, <2>1 DEF YamlTree
  <2>3. y \in Ancestors(doc, z) /\ y < z
    BY <1>1, <2>1, <2>2, AncestorsAre
  <2>4. z # M
    BY <1>1, <2>3
  <2>5. z \notin Ancestors(doc, M)
    BY <1>1, <2>3, AncestorsAbove
  <2>6. ~(z > M)
    <3> SUFFICES ASSUME z > M PROVE FALSE
      OBVIOUS
    <3>1. M \in (y + 1)..(z - 1)
      BY <1>1
    <3> QED  BY <1>1, <1>2, <2>3, <3>1
  <2> QED  BY <1>1, <2>4, <2>5, <2>6 DEF Aside
<1> QED  BY <1>3, <1>4

\* A way down from the root.
Way(doc, p) ==
    /\ p \in Seq(Nodes(doc)) /\ Len(p) > 0 /\ p[1] = 1
    /\ \A i \in 1..(Len(p) - 1) : p[i + 1] \in Nexts(doc, p[i]) \ {0}

\* One that comes back to where it has been goes in a circle.
LEMMA NoCircle ==
    ASSUME NEW doc, YamlTree(doc), ~Circular(doc), NEW p, Way(doc, p),
           NEW i \in 1..Len(p), NEW j \in 1..Len(p), i < j
    PROVE  p[i] # p[j]
<1> SUFFICES ASSUME p[i] = p[j] PROVE FALSE
  OBVIOUS
<1>1. /\ Len(p) \in Nat /\ \A l \in 1..Len(p) : p[l] \in Nodes(doc)
      /\ Len(doc.parent) \in Nat /\ Nodes(doc) = 1..Len(doc.parent)
  BY NodesAre DEF Way
<1> DEFINE size == Len(doc.parent)
           S == {size - p[l] : l \in i..(j - 1)}
<1>2. S \in SUBSET Nat /\ S # {}
  <2>1. \A l \in i..(j - 1) : size - p[l] \in Nat
    <3> SUFFICES ASSUME NEW l \in i..(j - 1) PROVE size - p[l] \in Nat
      OBVIOUS
    <3>1. l \in 1..Len(p)
      BY <1>1
    <3>2. p[l] \in 1..size /\ size \in Nat
      BY <1>1, <3>1
    <3> QED  BY <3>2
  <2>2. i \in i..(j - 1)
    BY <1>1
  <2> QED  BY <2>1, <2>2
<1>3. PICK l \in i..(j - 1) : \A m \in i..(j - 1) : size - p[l] <= size - p[m]
  <2> HIDE DEF size
  <2>1. PICK s \in S : \A t \in S : s <= t
    <3> HIDE DEF S
    <3> QED  BY <1>2, LeastOf
  <2> QED  BY <2>1
<1>4. \A m \in i..j : p[m] <= p[l]
  <2>1. \A m \in i..(j - 1) : p[m] <= p[l]
    BY <1>1, <1>3
  <2>2. p[j] <= p[l]
    <3>1. i \in i..(j - 1)
      BY <1>1
    <3> QED  BY <2>1, <3>1
  <2>3. \A m \in i..j : m \in i..(j - 1) \/ m = j
    OBVIOUS
  <2> QED  BY <2>1, <2>2, <2>3
<1> DEFINE M == p[l]
           x == p[l + 1]
<1>5. l \in 1..(Len(p) - 1) /\ l \in 1..Len(p) /\ l + 1 \in i..j /\ l + 1 \in 1..Len(p)
  BY <1>1
<1>6. x \in Nexts(doc, M) \ {0} /\ x <= M /\ M \in Nodes(doc) /\ x \in Nodes(doc)
  BY <1>1, <1>4, <1>5 DEF Way
<1>7. M \in Aliases(doc)
  <2> SUFFICES ASSUME M \notin Aliases(doc) PROVE FALSE
    OBVIOUS
  <2>1. doc.parent[x] = M
    BY <1>6 DEF Nexts, Aliases, Children
  <2>2. x # 1
    BY <1>1, <1>6, <2>1 DEF YamlTree
  <2> HIDE DEF x, M
  <2>3. M < x
    BY <1>6, <2>1, <2>2, AncestorsAre
  <2> QED  BY <1>1, <1>6, <2>3
<1>8. x = doc.target[M] /\ x < M
  <2>1. x = doc.target[M] /\ doc.target[M] \in 0..(M - 1)
    BY <1>6, <1>7 DEF Nexts, Aliases, YamlTree
  <2> QED  BY <1>1, <1>6, <2>1
<1>9. x \in Aside(doc, M)
  BY <1>6, <1>7, <1>8 DEF Aside, Circular
<1>10. ASSUME NEW a \in 1..Len(p), NEW b \in 1..Len(p), p[a] \in Aside(doc, M), a <= b
       PROVE  p[b] \in Aside(doc, M)
  <2> DEFINE Bad == {m \in a..Len(p) : p[m] \notin Aside(doc, M)}
  <2> SUFFICES ASSUME Bad # {} PROVE FALSE
    BY <1>10
  <2>1. Bad \in SUBSET Nat
    OBVIOUS
  <2>2. PICK m \in Bad : \A n \in Bad : m <= n
    <3> HIDE DEF Bad
    <3> QED  BY <2>1, LeastOf
  <2>3. m # a
    BY <1>10, <2>2
  <2>4. m - 1 \in 1..(Len(p) - 1) /\ m - 1 \in a..Len(p) /\ (m - 1) + 1 = m /\ ~(m <= m - 1)
    BY <1>1, <2>2, <2>3
  <2>5. p[m - 1] \in Aside(doc, M)
    BY <2>2, <2>4
  <2>6. p[(m - 1) + 1] \in Nexts(doc, p[m - 1]) \ {0}
    BY <2>4 DEF Way
  <2>7. p[m] \in Aside(doc, M)
    <3> HIDE DEF M
    <3> QED  BY <1>6, <2>4, <2>5, <2>6, AsideStays
  <2> QED  BY <2>2, <2>7
<1>11. p[j] \in Aside(doc, M)
  BY <1>1, <1>5, <1>9, <1>10
<1>12. p[l] \in Aside(doc, M)
  BY <1>1, <1>5, <1>10, <1>11
<1> QED  BY <1>1, <1>6, <1>12 DEF Aside

\* There is a way to each node past all that is above it.
LEMMA TreeWay ==
    ASSUME NEW doc, YamlTree(doc), NEW n \in Nodes(doc)
    PROVE  \E p : /\ Way(doc, p) /\ p[Len(p)] = n /\ Len(p) <= n
                  /\ \A a \in Ancestors(doc, n) : \E i \in 1..Len(p) : p[i] = a
                  /\ n # 1 => Len(p) > 1 /\ p[Len(p) - 1] = doc.parent[n]
<1> DEFINE Good(m) == \E p : /\ Way(doc, p) /\ p[Len(p)] = m /\ Len(p) <= m
                             /\ \A a \in Ancestors(doc, m) : \E i \in 1..Len(p) : p[i] = a
                             /\ m # 1 => Len(p) > 1 /\ p[Len(p) - 1] = doc.parent[m]
           Bad == {m \in Nodes(doc) : ~Good(m)}
<1>1. Nodes(doc) \subseteq Nat /\ Len(doc.parent) \in Nat \ {0} /\ Nodes(doc) = 1..Len(doc.parent)
  BY NodesAre
<1> SUFFICES ASSUME Bad # {} PROVE FALSE
  OBVIOUS
<1>2. PICK m \in Bad : \A k \in Bad : m <= k
  <2>1. Bad \in SUBSET Nat
    BY <1>1
  <2> HIDE DEF Bad
  <2> QED  BY <2>1, LeastOf
<1>3. m # 1
  <2> SUFFICES ASSUME m = 1 PROVE FALSE
    OBVIOUS
  <2> DEFINE p == <<1>>
  <2>1. Way(doc, p)
    BY <1>1 DEF Way
  <2>2. p[Len(p)] = 1 /\ Len(p) = 1
    OBVIOUS
  <2>3. Ancestors(doc, 1) = {}
    BY <1>1, AncestorsAre
  <2> HIDE DEF p
  <2>4. /\ Way(doc, p) /\ p[Len(p)] = 1 /\ Len(p) <= 1
        /\ \A a \in Ancestors(doc, 1) : \E i \in 1..Len(p) : p[i] = a
    BY <2>1, <2>2, <2>3
  <2>5. Good(1)
    BY <2>4
  <2> QED  BY <1>2, <2>5
<1> DEFINE up == doc.parent[m]
<1>4. up \in Nodes(doc) /\ up < m /\ Ancestors(doc, m) = {up} \cup Ancestors(doc, up)
  BY <1>2, <1>3, AncestorsAre
<1>5. m \in Nexts(doc, up) \ {0}
  <2>1. m \in Children(doc, up) /\ m # 0
    BY <1>1, <1>2 DEF Children
  <2>2. up \notin Aliases(doc)
    BY <1>4, <2>1 DEF YamlTree
  <2> QED  BY <1>4, <2>1, <2>2 DEF Nexts, Aliases
<1> HIDE DEF up
<1>6. PICK q : /\ Way(doc, q) /\ q[Len(q)] = up /\ Len(q) <= up
               /\ \A a \in Ancestors(doc, up) : \E i \in 1..Len(q) : q[i] = a
  <2>1. Good(up)
    BY <1>1, <1>2, <1>4
  <2> QED  BY <2>1
<1> DEFINE p == Append(q, m)
<1>7. /\ q \in Seq(Nodes(doc)) /\ Len(q) \in Nat /\ Len(q) > 0
      /\ p \in Seq(Nodes(doc)) /\ Len(p) = Len(q) + 1 /\ p[Len(q) + 1] = m
      /\ \A i \in 1..Len(q) : p[i] = q[i]
  BY <1>2, <1>6 DEF Way
<1> HIDE DEF p
<1>8. Way(doc, p)
  <2>1. ASSUME NEW i \in 1..(Len(p) - 1) PROVE p[i + 1] \in Nexts(doc, p[i]) \ {0}
    <3>1. CASE i = Len(q)
      BY <1>5, <1>6, <1>7, <3>1
    <3>2. CASE i # Len(q)
      <4>1. i \in 1..(Len(q) - 1) /\ i \in 1..Len(q) /\ i + 1 \in 1..Len(q)
        BY <1>7, <3>2
      <4> QED  BY <1>6, <1>7, <4>1 DEF Way
    <3> QED  BY <3>1, <3>2
  <2>2. p[1] = 1
    BY <1>6, <1>7 DEF Way
  <2> QED  BY <1>7, <2>1, <2>2 DEF Way
<1>9. p[Len(p)] = m /\ Len(p) <= m /\ Len(p) > 1 /\ p[Len(p) - 1] = up
  <2>1. Len(p) - 1 = Len(q) /\ Len(q) \in 1..Len(q)
    BY <1>7
  <2> QED  BY <1>1, <1>2, <1>4, <1>6, <1>7, <2>1
<1>10. ASSUME NEW a \in Ancestors(doc, m) PROVE \E i \in 1..Len(p) : p[i] = a
  <2>1. CASE a = up
    BY <1>6, <1>7, <2>1
  <2>2. CASE a \in Ancestors(doc, up)
    BY <1>6, <1>7, <2>2
  <2> QED  BY <1>4, <2>1, <2>2
<1>11. Good(m)
  BY <1>8, <1>9, <1>10 DEF up
<1> QED  BY <1>2, <1>11

\* The ways down from the root of each length.
Levels(doc, g, m) ==
    g = [k \in 1..m |-> IF k = 1 THEN {<<1>>}
                        ELSE UNION {{Append(p, n) : n \in Nexts(doc, p[k - 1]) \ {0}} : p \in g[k - 1]}]

\* So does the one that Paths is defined by.
LEMMA LevelsExist ==
    ASSUME NEW doc, NEW m \in Nat
    PROVE  \E g : Levels(doc, g, m)
<1> DEFINE Bad == {k \in Nat : ~ \E g : Levels(doc, g, k)}
           Longer(S, k) == UNION {{Append(p, n) : n \in Nexts(doc, p[k]) \ {0}} : p \in S}
<1> SUFFICES ASSUME Bad # {} PROVE FALSE
  OBVIOUS
<1>1. PICK k \in Bad : \A n \in Bad : k <= n
  <2>1. Bad \in SUBSET Nat
    OBVIOUS
  <2> HIDE DEF Bad
  <2> QED  BY <2>1, LeastOf
<1>2. k # 0
  <2>1. Levels(doc, [n \in 1..0 |-> {}], 0)
    BY DEF Levels
  <2> QED  BY <1>1, <2>1
<1>3. k \in Nat /\ k - 1 \in Nat /\ ~(k <= k - 1)
  BY <1>2
<1>4. PICK f : Levels(doc, f, k - 1)
  BY <1>1, <1>3
<1>5. \A n \in 1..(k - 1) : f[n] = IF n = 1 THEN {<<1>>} ELSE Longer(f[n - 1], n - 1)
  BY <1>4 DEF Levels
<1> DEFINE g == [n \in 1..k |-> IF n = k THEN IF k = 1 THEN {<<1>>} ELSE Longer(f[k - 1], k - 1) ELSE f[n]]
<1> HIDE DEF Longer
<1>6. /\ g[k] = IF k = 1 THEN {<<1>>} ELSE Longer(f[k - 1], k - 1)
      /\ \A n \in 1..(k - 1) : g[n] = f[n]
  BY <1>2, <1>3
<1>7. g = [n \in 1..k |-> g[n]]
  OBVIOUS
<1> HIDE DEF g
<1>8. \A n \in 1..k : g[n] = IF n = 1 THEN {<<1>>} ELSE Longer(g[n - 1], n - 1)
  <2> SUFFICES ASSUME NEW n \in 1..k PROVE g[n] = IF n = 1 THEN {<<1>>} ELSE Longer(g[n - 1], n - 1)
    OBVIOUS
  <2>1. CASE n = k
    <3>1. k # 1 => g[k - 1] = f[k - 1]
      BY <1>3, <1>6
    <3> QED  BY <1>6, <2>1, <3>1
  <2>2. CASE n # k
    <3>1. n \in 1..(k - 1) /\ (n # 1 => n - 1 \in 1..(k - 1))
      BY <1>3, <2>2
    <3>2. f[n] = IF n = 1 THEN {<<1>>} ELSE Longer(f[n - 1], n - 1)
      BY <1>5, <3>1
    <3> QED  BY <1>6, <3>1, <3>2
  <2> QED  BY <2>1, <2>2
<1>9. Levels(doc, g, k)
  <2>1. g = [n \in 1..k |-> IF n = 1 THEN {<<1>>} ELSE Longer(g[n - 1], n - 1)]
    BY <1>7, <1>8
  <2> QED  BY <2>1 DEF Levels, Longer
<1> QED  BY <1>1, <1>9

\* Those of length k are the ways of that length.
WaysOf(doc, k) == {p \in Seq(Nodes(doc)) : Way(doc, p) /\ Len(p) = k}

\* A way is a shorter one and a step.
LEMMA LongerWays ==
    ASSUME NEW doc, YamlTree(doc), NEW k \in Nat \ {0}
    PROVE  WaysOf(doc, k + 1) = UNION {{Append(p, n) : n \in Nexts(doc, p[k]) \ {0}} : p \in WaysOf(doc, k)}
<1>1. \A n \in Nodes(doc) : Nexts(doc, n) \ {0} \subseteq Nodes(doc)
  BY NodesAre
<1>2. ASSUME NEW p \in WaysOf(doc, k), NEW n \in Nexts(doc, p[k]) \ {0}
      PROVE  Append(p, n) \in WaysOf(doc, k + 1)
  <2>1. p \in Seq(Nodes(doc)) /\ Len(p) = k /\ p[1] = 1 /\ p[k] \in Nodes(doc)
    BY DEF WaysOf, Way
  <2>2. n \in Nodes(doc)
    BY <1>1, <2>1
  <2> DEFINE q == Append(p, n)
  <2>3. q \in Seq(Nodes(doc)) /\ Len(q) = k + 1 /\ q[k + 1] = n /\ \A i \in 1..k : q[i] = p[i]
    BY <2>1, <2>2
  <2> HIDE DEF q
  <2>4. ASSUME NEW i \in 1..k PROVE q[i + 1] \in Nexts(doc, q[i]) \ {0}
    <3>1. CASE i = k
      BY <1>2, <2>3, <3>1
    <3>2. CASE i # k
      <4>1. i \in 1..(Len(p) - 1) /\ i + 1 \in 1..k
        BY <2>1, <3>2
      <4> QED  BY <2>3, <4>1 DEF WaysOf, Way
    <3> QED  BY <3>1, <3>2
  <2>5. q[1] = 1 /\ (k + 1) - 1 = k
    BY <2>1, <2>3
  <2>6. q \in WaysOf(doc, k + 1)
    BY <2>3, <2>4, <2>5 DEF WaysOf, Way
  <2> QED  BY <2>6 DEF q
<1>3. ASSUME NEW q \in WaysOf(doc, k + 1)
      PROVE  \E p \in WaysOf(doc, k) : \E n \in Nexts(doc, p[k]) \ {0} : q = Append(p, n)
  <2> DEFINE p == SubSeq(q, 1, k)
  <2>1. q \in Seq(Nodes(doc)) /\ Len(q) = k + 1 /\ q[1] = 1
        /\ \A i \in 1..k : q[i + 1] \in Nexts(doc, q[i]) \ {0}
    BY DEF WaysOf, Way
  <2>2. p \in Seq(Nodes(doc)) /\ Len(p) = k /\ \A i \in 1..k : p[i] = q[i]
    BY <2>1
  <2>3. q = Append(p, q[k + 1])
    <3>1. Append(p, q[k + 1]) \in Seq(Nodes(doc)) /\ Len(Append(p, q[k + 1])) = Len(q)
      BY <2>1, <2>2
    <3>2. \A i \in 1..Len(q) : q[i] = Append(p, q[k + 1])[i]
      BY <2>1, <2>2
    <3> HIDE DEF p
    <3> QED  BY <2>1, <3>1, <3>2, SeqEqual
  <2> HIDE DEF p
  <2>4. \A i \in 1..(k - 1) : i \in 1..k /\ i + 1 \in 1..k
    OBVIOUS
  <2>5. p \in WaysOf(doc, k)
    BY <2>1, <2>2, <2>4 DEF WaysOf, Way
  <2>6. q[k + 1] \in Nexts(doc, p[k]) \ {0}
    BY <2>1, <2>2
  <2> QED  BY <2>3, <2>5, <2>6
<1> DEFINE More == UNION {{Append(p, n) : n \in Nexts(doc, p[k]) \ {0}} : p \in WaysOf(doc, k)}
<1>4. \A q : q \in More <=> \E p \in WaysOf(doc, k) : \E n \in Nexts(doc, p[k]) \ {0} : q = Append(p, n)
  OBVIOUS
<1> HIDE DEF More
<1>5. WaysOf(doc, k + 1) \subseteq More
  BY <1>3, <1>4
<1>6. ASSUME NEW q \in More PROVE q \in WaysOf(doc, k + 1)
  <2>1. PICK p \in WaysOf(doc, k) : \E n \in Nexts(doc, p[k]) \ {0} : q = Append(p, n)
    BY <1>4
  <2>2. PICK n \in Nexts(doc, p[k]) \ {0} : q = Append(p, n)
    BY <2>1
  <2> QED  BY <1>2, <2>2
<1>7. WaysOf(doc, k + 1) = More
  BY <1>5, <1>6
<1> QED  BY <1>7 DEF More

\* The paths are the ways that are not longer than one that must go in a circle.
LEMMA PathsAre ==
    ASSUME NEW doc, YamlTree(doc)
    PROVE  /\ IsFiniteSet(Paths(doc))
           /\ \A p : p \in Paths(doc) <=> p \in Seq(Nodes(doc)) /\ Way(doc, p) /\ Len(p) <= Len(doc.parent) + 1
<1> DEFINE size == Len(doc.parent)
           m == Cardinality(Nodes(doc)) + 1
           Loop(g) == [k \in 1..m |-> IF k = 1 THEN {<<1>>}
                        ELSE UNION {{Append(p, n) : n \in Nexts(doc, p[k - 1]) \ {0}} : p \in g[k - 1]}]
           ways == CHOOSE g : g = Loop(g)
<1>1. size \in Nat \ {0} /\ Nodes(doc) = 1..size /\ m = size + 1 /\ m \in Nat
  BY NodesAre
<1>2. Paths(doc) = UNION {ways[k] : k \in 1..m}
  BY DEF Paths
<1>3. \A g : Levels(doc, g, m) <=> g = Loop(g)
  BY DEF Levels
<1>4. Levels(doc, ways, m)
  <2> HIDE DEF m
  <2>1. PICK g : Levels(doc, g, m)
    BY <1>1, LevelsExist
  <2> HIDE DEF Loop
  <2> QED  BY <1>3, <2>1
<1> HIDE DEF ways
<1> DEFINE Bad == {k \in 1..m : ways[k] # WaysOf(doc, k) \/ ~IsFiniteSet(ways[k])}
<1>5. Bad = {}
  <2> SUFFICES ASSUME Bad # {} PROVE FALSE
    OBVIOUS
  <2>1. PICK k \in Bad : \A n \in Bad : k <= n
    <3>1. Bad \in SUBSET Nat
      OBVIOUS
    <3> HIDE DEF Bad
    <3> QED  BY <3>1, LeastOf
  <2> HIDE DEF m
  <2>2. k \in 1..m /\ \A n \in 1..m : n < k => ways[n] = WaysOf(doc, n) /\ IsFiniteSet(ways[n])
    BY <1>1, <2>1
  <2>3. CASE k = 1
    <3>1. ways[1] = {<<1>>}
      BY <1>4, <2>2, <2>3 DEF Levels
    <3>2. WaysOf(doc, 1) = {<<1>>}
      <4>1. <<1>> \in WaysOf(doc, 1)
        BY <1>1 DEF WaysOf, Way
      <4>2. ASSUME NEW p \in WaysOf(doc, 1) PROVE p = <<1>>
        <5>1. p \in Seq(Nodes(doc)) /\ Len(p) = 1 /\ p[1] = 1
          BY DEF WaysOf, Way
        <5> QED  BY <5>1
      <4> QED  BY <4>1, <4>2
    <3>3. IsFiniteSet({<<1>>})
      BY FS_Singleton
    <3> QED  BY <2>1, <2>3, <3>1, <3>2, <3>3
  <2>4. CASE k # 1
    <3> DEFINE j == k - 1
               Next1(p) == {Append(p, n) : n \in Nexts(doc, p[j]) \ {0}}
    <3>1. j \in 1..m /\ j < k /\ j + 1 = k /\ j \in Nat \ {0}
      BY <1>1, <2>2, <2>4
    <3>2. ways[k] = UNION {Next1(p) : p \in ways[j]}
      BY <1>4, <2>2, <2>4 DEF Levels
    <3>3. ways[j] = WaysOf(doc, j) /\ IsFiniteSet(ways[j])
      BY <2>2, <3>1
    <3>4. ways[k] = WaysOf(doc, k)
      <4> HIDE DEF j
      <4>1. WaysOf(doc, j + 1) = UNION {Next1(p) : p \in WaysOf(doc, j)}
        BY <3>1, LongerWays
      <4> HIDE DEF Next1
      <4> QED  BY <3>1, <3>2, <3>3, <4>1
    <3> HIDE DEF j
    <3>5. ASSUME NEW p \in ways[j] PROVE IsFiniteSet(Next1(p))
      <4> DEFINE N == Nexts(doc, p[j]) \ {0}
                 f == [n \in N |-> Append(p, n)]
      <4>1. p[j] \in Nodes(doc)
        BY <3>1, <3>3 DEF WaysOf
      <4>2. N \subseteq Nodes(doc) /\ IsFiniteSet(Nodes(doc))
        BY <4>1, NodesAre
      <4>3. IsFiniteSet(N)
        <5> HIDE DEF N
        <5> QED  BY <4>2, FS_Subset
      <4>4. f \in [N -> Next1(p)] /\ \A q \in Next1(p) : \E n \in N : f[n] = q
        OBVIOUS
      <4> HIDE DEF N, f, Next1
      <4> QED  BY <4>3, <4>4, ValuesFinite
    <3> DEFINE P == {Next1(p) : p \in ways[j]}
               h == [p \in ways[j] |-> Next1(p)]
    <3> HIDE DEF Next1
    <3>6. h \in [ways[j] -> P] /\ \A q \in P : \E p \in ways[j] : h[p] = q
      OBVIOUS
    <3>7. \A q \in P : IsFiniteSet(q)
      BY <3>5
    <3>8. ways[k] = UNION P
      BY <3>2
    <3> HIDE DEF P, h
    <3>9. IsFiniteSet(P)
      BY <3>3, <3>6, ValuesFinite
    <3>10. IsFiniteSet(ways[k])
      BY <3>7, <3>8, <3>9, FS_UNION
    <3> QED  BY <2>1, <3>4, <3>10
  <2> QED  BY <2>3, <2>4
<1>6. \A k \in 1..m : ways[k] = WaysOf(doc, k) /\ IsFiniteSet(ways[k])
  BY <1>5
<1> HIDE DEF m
<1>7. IsFiniteSet(UNION {ways[k] : k \in 1..m})
  <2> DEFINE P == {ways[k] : k \in 1..m}
             h == [k \in 1..m |-> ways[k]]
  <2>1. h \in [1..m -> P] /\ \A q \in P : \E k \in 1..m : h[k] = q
    OBVIOUS
  <2>2. \A q \in P : IsFiniteSet(q)
    BY <1>6
  <2> HIDE DEF P, h
  <2>3. IsFiniteSet(1..m)
    BY <1>1, FS_Interval
  <2>4. IsFiniteSet(P)
    BY <2>1, <2>3, ValuesFinite
  <2>5. IsFiniteSet(UNION P)
    BY <2>2, <2>4, FS_UNION
  <2> QED  BY <2>5 DEF P
<1>8. \A p : p \in Paths(doc) <=> p \in Seq(Nodes(doc)) /\ Way(doc, p) /\ Len(p) <= size + 1
  <2>1. \A p : p \in Paths(doc) <=> \E k \in 1..m : p \in WaysOf(doc, k)
    BY <1>2, <1>6
  <2>2. \A p \in Seq(Nodes(doc)) : Way(doc, p) => Len(p) \in Nat /\ Len(p) > 0
    BY DEF Way
  <2> QED  BY <1>1, <2>1, <2>2 DEF WaysOf
<1> QED  BY <1>2, <1>7, <1>8

\* Of two paths only one comes before the other.
LEMMA BeforeIs ==
    ASSUME NEW p \in Seq(Nat), NEW q \in Seq(Nat), Before(p, q)
    PROVE  ~Before(q, p)
<1> SUFFICES ASSUME Before(q, p) PROVE FALSE
  OBVIOUS
<1>1. DOMAIN p = 1..Len(p) /\ DOMAIN q = 1..Len(q) /\ Len(p) \in Nat /\ Len(q) \in Nat
      /\ (\A n \in 1..Len(p) : p[n] \in Nat) /\ (\A n \in 1..Len(q) : q[n] \in Nat)
  OBVIOUS
<1>2. PICK i \in DOMAIN q : /\ i = Len(p) + 1 \/ (i \in DOMAIN p /\ p[i] < q[i])
                            /\ \A j \in 1..(i - 1) : p[j] = q[j]
  BY Zenon DEF Before
<1>3. PICK l \in DOMAIN p : /\ l = Len(q) + 1 \/ (l \in DOMAIN q /\ q[l] < p[l])
                            /\ \A j \in 1..(l - 1) : q[j] = p[j]
  BY Zenon DEF Before
<1>4. i \in 1..Len(q) /\ l \in 1..Len(p)
  BY <1>1
<1>5. CASE i < l
  <2>1. i \in 1..(l - 1) /\ i \in 1..Len(p) /\ i # Len(p) + 1
    BY <1>1, <1>4, <1>5
  <2>2. q[i] = p[i] /\ p[i] < q[i] /\ p[i] \in Nat
    BY <1>1, <1>2, <1>3, <2>1
  <2> QED  BY <2>2
<1>6. CASE l < i
  <2>1. l \in 1..(i - 1) /\ l \in 1..Len(q) /\ l # Len(q) + 1
    BY <1>1, <1>4, <1>6
  <2>2. q[l] = p[l] /\ q[l] < p[l] /\ q[l] \in Nat
    BY <1>1, <1>2, <1>3, <2>1
  <2> QED  BY <2>2
<1>7. CASE i = l
  <2>1. i # Len(p) + 1 /\ l # Len(q) + 1
    BY <1>1, <1>4, <1>7
  <2>2. p[i] < q[i] /\ q[i] < p[i]
    BY <1>2, <1>3, <1>7, <2>1
  <2>3. p[i] \in Nat /\ q[i] \in Nat
    BY <1>1, <1>4, <1>7
  <2> QED  BY <2>2, <2>3
<1> QED  BY <1>4, <1>5, <1>6, <1>7

\* The depth of what is converted next.
LEMMA Deeper ==
    ASSUME NEW doc, NEW p \in Seq(Nat), Len(p) > 0, NEW n \in Nat
    PROVE  /\ DepthOf(doc, p) \in Nat
           /\ DepthOf(doc, Append(p, n)) = DepthOf(doc, p) + IF p[Len(p)] \in Aliases(doc) THEN 0 ELSE 1
<1> DEFINE l == Len(p)
           S == {i \in 1..(l - 1) : p[i] \notin Aliases(doc)}
           T == {i \in 1..l : p[i] \notin Aliases(doc)}
<1>1. l \in Nat \ {0}
  OBVIOUS
<1>2. IsFiniteSet(S)
  <2>1. \A m \in Int : IsFiniteSet(1..m)
    BY FS_Interval
  <2>2. l - 1 \in Int /\ S \in SUBSET (1..(l - 1))
    BY <1>1
  <2> HIDE DEF S, l
  <2> QED  BY <2>1, <2>2, FS_Subset
<1>3. DepthOf(doc, p) = Cardinality(S)
  BY DEF DepthOf
<1>4. DepthOf(doc, Append(p, n)) = Cardinality(T)
  <2> DEFINE q == Append(p, n)
  <2>1. Len(q) - 1 = l /\ \A i \in 1..l : q[i] = p[i]
    OBVIOUS
  <2> HIDE DEF q
  <2>2. DepthOf(doc, q) = Cardinality({i \in 1..l : q[i] \notin Aliases(doc)})
    BY <2>1 DEF DepthOf
  <2>3. {i \in 1..l : q[i] \notin Aliases(doc)} = T
    BY <2>1
  <2> HIDE DEF T
  <2> QED  BY <2>2, <2>3 DEF q
<1>5. T = IF p[l] \in Aliases(doc) THEN S ELSE S \cup {l}
  <2> HIDE DEF l
  <2>1. \A i \in 1..l : i \in 1..(l - 1) \/ i = l
    BY <1>1
  <2>2. \A i \in 1..(l - 1) : i \in 1..l /\ i # l
    BY <1>1
  <2>3. l \in 1..l
    BY <1>1
  <2> QED  BY <2>1, <2>2, <2>3
<1>6. l \notin S
  BY <1>1
<1> HIDE DEF S, T
<1>7. Cardinality(S \cup {l}) = Cardinality(S) + 1 /\ Cardinality(S) \in Nat
  BY <1>2, <1>6, FS_AddElement, FS_CardinalityType
<1> QED  BY <1>3, <1>4, <1>5, <1>7

-----------------------------------------------------------------------------
(* YAML: what has been told of the paths when calls are under way.        *)

\* The beginning of a path, and the path of a call: the nodes of the calls below it.
Cut(p, k) == [i \in 1..k |-> p[i]]
Stem(s, k) == [i \in 1..k |-> s[i].node]

\* Nothing has been converted that is to be refused.
Fine(doc, p) ==
    LET n == p[Len(p)]
    IN  /\ doc.kind[n] # "foreign" /\ doc.leaf[n].kind # "lone"
        /\ n \in Aliases(doc) => doc.target[n] # 0
        /\ DepthOf(doc, p) <= MaxDepth
        /\ \A i, j \in 1..Len(p) : i < j => p[i] # p[j]
        /\ Len(p) > 1 /\ n \in Keyed(doc) /\ p[Len(p) - 1] = doc.parent[n] =>
              /\ doc.key[n].kind \notin {"merge", "nonstring", "missing", "lone"}
              /\ ~ \E m \in Keyed(doc) : m < n /\ doc.parent[m] = doc.parent[n] /\ doc.key[m] = doc.key[n]

\* What has been told is whole from the root on.
Rooted(doc, D) ==
    /\ D \subseteq Paths(doc)
    /\ \A p \in D : Fine(doc, p) /\ \A k \in 1..Len(p) : Cut(p, k) \in D

Frames(doc) == [node : Nodes(doc), depth : Nat, todo : SUBSET Nat]

\* What a call still has to do comes after what it has done, and the call it waits
\* for is the last of these; what is not told is left to do to a call of the stack.
Stacked(doc, s, D) ==
    /\ s \in Seq(Frames(doc)) /\ (D # {} => Len(s) > 0)
    /\ \A j \in 1..Len(s) :
          /\ Stem(s, j) \in D /\ s[j].depth = DepthOf(doc, Stem(s, j))
          /\ s[j].todo \subseteq Nexts(doc, s[j].node)
          /\ \A m \in Nexts(doc, s[j].node) \ s[j].todo : \A t \in s[j].todo : m < t
          /\ j < Len(s) => \A m \in Nexts(doc, s[j].node) \ s[j].todo : m <= s[j + 1].node
    /\ \A p \in D : \A m \in Nexts(doc, p[Len(p)]) \ {0} :
          Append(p, m) \in D <=> ~ \E j \in 1..Len(s) : p = Stem(s, j) /\ m \in s[j].todo

Printed(doc, out, D) ==
    /\ out \in Seq(Nat \X Nodes(doc)) /\ Len(out) = Cardinality(D \cap NodePaths(doc))
    /\ \A p \in D \cap NodePaths(doc) :
          out[Cardinality({q \in D \cap NodePaths(doc) : Before(q, p)}) + 1] = <<DepthOf(doc, p), p[Len(p)]>>

Counted(doc, w, D) ==
    /\ w.nodes = Cardinality(D) /\ Cardinality(D) <= MaxNodes
    /\ w.aliases = Cardinality(D \cap AliasPaths(doc)) /\ Cardinality(D \cap AliasPaths(doc)) <= MaxAliases
    /\ w.active = {w.stack[i].node : i \in 1..Len(w.stack)}
    /\ Printed(doc, w.out, D)

Told(doc, w, D) == Rooted(doc, D) /\ Stacked(doc, w.stack, D) /\ Counted(doc, w, D)

\* The root, or the first of what the last call still has to do.
DueOf(s) == IF Len(s) = 0 THEN {1} ELSE s[Len(s)].todo
PathOf(s) == Append(Stem(s, Len(s)), Min(DueOf(s)))

\* The calls of the stack: their nodes, their paths, and that none has node 0 to do.
LEMMA StemIs ==
    ASSUME NEW doc, YamlTree(doc), NEW D, Rooted(doc, D), NEW s, Stacked(doc, s, D)
    PROVE  /\ Len(s) \in Nat
           /\ \A j \in 1..Len(s) :
                 /\ s[j].node \in Nodes(doc) /\ s[j].todo \in SUBSET Nat /\ s[j].depth \in Nat
                 /\ Stem(s, j) \in D /\ Stem(s, j) \in Seq(Nodes(doc)) /\ Len(Stem(s, j)) = j
                 /\ \A i \in 1..j : Stem(s, j)[i] = s[i].node
                 /\ 0 \notin s[j].todo
           /\ Stem(s, Len(s)) \in Seq(Nodes(doc)) /\ Len(Stem(s, Len(s))) = Len(s)
           /\ \A i \in 1..Len(s) : Stem(s, Len(s))[i] = s[i].node
<1>1. s \in Seq(Frames(doc)) /\ Len(s) \in Nat
  BY DEF Stacked
<1>2. \A j \in 1..Len(s) : s[j] \in Frames(doc)
  BY <1>1
<1>3. \A j \in 1..Len(s) : s[j].node \in Nodes(doc) /\ s[j].todo \in SUBSET Nat /\ s[j].depth \in Nat
  BY <1>2 DEF Frames
<1>4. ASSUME NEW j \in Nat, j <= Len(s)
      PROVE  /\ Stem(s, j) \in Seq(Nodes(doc)) /\ Len(Stem(s, j)) = j
             /\ \A i \in 1..j : Stem(s, j)[i] = s[i].node
  <2>1. \A i \in 1..j : s[i].node \in Nodes(doc)
    BY <1>1, <1>3, <1>4
  <2>2. Stem(s, j) \in [1..j -> Nodes(doc)]
    BY <2>1 DEF Stem
  <2>3. Stem(s, j) \in Seq(Nodes(doc)) /\ Len(Stem(s, j)) = j
    <3>1. \A f \in [1..j -> Nodes(doc)] : f \in Seq(Nodes(doc)) /\ Len(f) = j
      OBVIOUS
    <3> QED  BY <2>2, <3>1
  <2> QED  BY <2>3 DEF Stem
<1>5. ASSUME NEW j \in 1..Len(s) PROVE Stem(s, j) \in D /\ 0 \notin s[j].todo
  <2>1. Stem(s, j) \in D /\ s[j].todo \subseteq Nexts(doc, s[j].node)
    BY DEF Stacked
  <2>2. Stem(s, j) \in Seq(Nodes(doc)) /\ Len(Stem(s, j)) = j /\ Stem(s, j)[j] = s[j].node
    BY <1>1, <1>4
  <2>3. s[j].node \in Aliases(doc) => doc.target[s[j].node] # 0
    BY <2>1, <2>2 DEF Rooted, Fine
  <2>4. 0 \notin Nexts(doc, s[j].node)
    <3>1. 0 \notin Nodes(doc)
      BY NodesAre
    <3> QED  BY <1>3, <2>3, <3>1 DEF Nexts, Aliases, Children
  <2> QED  BY <2>1, <2>4
<1>6. \A j \in 1..Len(s) : j \in Nat /\ j <= Len(s)
  BY <1>1
<1>7. ASSUME NEW j \in 1..Len(s)
      PROVE  /\ s[j].node \in Nodes(doc) /\ s[j].todo \in SUBSET Nat /\ s[j].depth \in Nat
             /\ Stem(s, j) \in D /\ Stem(s, j) \in Seq(Nodes(doc)) /\ Len(Stem(s, j)) = j
             /\ \A i \in 1..j : Stem(s, j)[i] = s[i].node
             /\ 0 \notin s[j].todo
  BY <1>3, <1>4, <1>5, <1>6
<1>8. /\ Stem(s, Len(s)) \in Seq(Nodes(doc)) /\ Len(Stem(s, Len(s))) = Len(s)
      /\ \A i \in 1..Len(s) : Stem(s, Len(s))[i] = s[i].node
  BY <1>1, <1>4
<1> QED  BY <1>1, <1>7, <1>8

\* Two sequences that agree up to the length of both are one.
LEMMA SameSeq ==
    ASSUME NEW S, NEW p \in Seq(S), NEW T, NEW q \in Seq(T), Len(p) = Len(q), \A i \in 1..Len(p) : p[i] = q[i]
    PROVE  p = q
<1>1. p = [i \in 1..Len(p) |-> p[i]] /\ q = [i \in 1..Len(q) |-> q[i]]
  OBVIOUS
<1> QED  BY <1>1, Zenon

\* What the beginning of a path is.
LEMMA CutIs ==
    ASSUME NEW S, NEW p \in Seq(S), NEW k \in 0..Len(p)
    PROVE  Cut(p, k) \in Seq(S) /\ Len(Cut(p, k)) = k /\ \A i \in 1..k : Cut(p, k)[i] = p[i]
<1>1. \A i \in 1..k : p[i] \in S
  OBVIOUS
<1>2. Cut(p, k) \in [1..k -> S]
  BY <1>1 DEF Cut
<1>3. \A f \in [1..k -> S] : f \in Seq(S) /\ Len(f) = k
  OBVIOUS
<1>4. \A i \in 1..k : Cut(p, k)[i] = p[i]
  BY DEF Cut
<1> QED  BY <1>2, <1>3, <1>4

\* What is converted next is the next path in the order of the text.
LEMMA NextPath ==
    ASSUME NEW doc, YamlTree(doc), NEW D, Rooted(doc, D), NEW s, Stacked(doc, s, D), DueOf(s) # {}
    PROVE  LET n == Min(DueOf(s))  P == PathOf(s)
           IN  /\ n \in DueOf(s) /\ \A m \in DueOf(s) : n <= m
               /\ n \in Nodes(doc) /\ P \in Seq(Nodes(doc)) /\ Len(P) = Len(s) + 1
               /\ P[Len(s) + 1] = n /\ \A i \in 1..Len(s) : P[i] = s[i].node
               /\ P \in Paths(doc) /\ P \notin D
               /\ Len(s) > 0 => n \in Nexts(doc, s[Len(s)].node) \ {0}
<1> DEFINE n == Min(DueOf(s))  P == PathOf(s)  l == Len(s)  c == Stem(s, Len(s))
<1>1. /\ l \in Nat /\ c \in Seq(Nodes(doc)) /\ Len(c) = l /\ \A i \in 1..l : c[i] = s[i].node
      /\ l > 0 => c \in D /\ s[l].todo \in SUBSET Nat /\ 0 \notin s[l].todo /\ s[l].node \in Nodes(doc)
  <2>1. l \in Nat /\ (l > 0 => l \in 1..l)
    BY StemIs
  <2> QED  BY <2>1, StemIs
<1>2. DueOf(s) \in SUBSET Nat /\ 0 \notin DueOf(s)
  BY <1>1 DEF DueOf
<1>3. n \in DueOf(s) /\ \A m \in DueOf(s) : n <= m
  BY <1>2, LeastOf
<1>4. l > 0 => n \in Nexts(doc, s[l].node) \ {0}
  <2>1. l > 0 => s[l].todo \subseteq Nexts(doc, s[l].node)
    BY <1>1 DEF Stacked
  <2> HIDE DEF n
  <2> QED  BY <1>1, <1>2, <1>3, <2>1 DEF DueOf
<1>5. n \in Nodes(doc)
  <2>1. 1 \in Nodes(doc)
    BY DEF YamlTree
  <2>2. l = 0 => n = 1
    BY <1>3 DEF DueOf
  <2> HIDE DEF n
  <2> QED  BY <1>1, <1>4, <2>1, <2>2, NodesAre
<1> HIDE DEF n, l, c
<1>6. P = Append(c, n)
  BY DEF PathOf, c, n
<1>7. P \in Seq(Nodes(doc)) /\ Len(P) = l + 1 /\ P[l + 1] = n /\ \A i \in 1..l : P[i] = c[i]
  BY <1>1, <1>5, <1>6
<1> HIDE DEF P
<1>8. l > 0 => /\ Way(doc, c) /\ Len(c) <= Len(doc.parent)
  <2> SUFFICES ASSUME l > 0 PROVE Way(doc, c) /\ Len(c) <= Len(doc.parent)
    OBVIOUS
  <2>1. c \in Paths(doc) /\ Fine(doc, c)
    BY <1>1 DEF Rooted
  <2>2. Way(doc, c) /\ \A i, j \in 1..Len(c) : i < j => c[i] # c[j]
    BY <2>1, PathsAre DEF Fine
  <2>3. c \in Injection(1..l, Nodes(doc))
    <3>1. c \in [1..l -> Nodes(doc)]
      BY <1>1
    <3>2. \A i, j \in 1..l : c[i] = c[j] => i = j
      <4> SUFFICES ASSUME NEW i \in 1..l, NEW j \in 1..l, c[i] = c[j] PROVE i = j
        OBVIOUS
      <4>1. ~(i < j) /\ ~(j < i)
        BY <1>1, <2>2
      <4> QED  BY <1>1, <4>1
    <3> QED  BY <3>1, <3>2 DEF Injection, IsInjective
  <2>4. Cardinality(1..l) <= Cardinality(Nodes(doc))
    BY <2>3, NodesAre, FS_Injection
  <2>5. Cardinality(1..l) = l
    <3>1. Cardinality(1..l) = IF 1 > l THEN 0 ELSE l - 1 + 1
      BY <1>1, FS_Interval
    <3> QED  BY <1>1, <3>1
  <2> QED  BY <1>1, <2>2, <2>4, <2>5, NodesAre
<1>9. Way(doc, P)
  <2>1. CASE l = 0
    <3>1. n = 1
      BY <1>3, <2>1 DEF DueOf, l
    <3> QED  BY <1>7, <2>1, <3>1 DEF Way
  <2>2. CASE l > 0
    <3>1. P[1] = 1
      BY <1>1, <1>7, <1>8, <2>2 DEF Way
    <3>2. ASSUME NEW i \in 1..l PROVE P[i + 1] \in Nexts(doc, P[i]) \ {0}
      <4>1. CASE i = l
        BY <1>1, <1>4, <1>7, <2>2, <4>1
      <4>2. CASE i # l
        <5>1. i \in 1..(Len(c) - 1) /\ i + 1 \in 1..l
          BY <1>1, <4>2
        <5> QED  BY <1>7, <1>8, <2>2, <5>1 DEF Way
      <4> QED  BY <4>1, <4>2
    <3> QED  BY <1>1, <1>7, <3>1, <3>2 DEF Way
  <2> QED  BY <1>1, <2>1, <2>2
<1>10. P \in Paths(doc)
  <2>1. Len(P) <= Len(doc.parent) + 1
    <3>1. Len(doc.parent) \in Nat
      BY NodesAre
    <3> QED  BY <1>1, <1>7, <1>8, <3>1
  <2> QED  BY <1>7, <1>9, <2>1, PathsAre
<1>11. P \notin D
  <2>1. CASE l = 0
    BY <1>1, <2>1 DEF Stacked, l
  <2>2. CASE l > 0
    <3>1. l \in 1..l /\ c = Stem(s, l) /\ c \in D /\ c[Len(c)] = s[l].node /\ n \in s[l].todo
      BY <1>1, <1>3, <2>2 DEF c, l, DueOf
    <3>2. n \in Nexts(doc, c[Len(c)]) \ {0}
      BY <1>4, <2>2, <3>1
    <3> QED  BY <1>6, <3>1, <3>2 DEF Stacked, l
  <2> QED  BY <1>1, <2>1, <2>2
<1> QED  BY <1>1, <1>3, <1>4, <1>5, <1>7, <1>10, <1>11 DEF n, P, l

\* All that has been told comes before it.
LEMMA ToldBefore ==
    ASSUME NEW doc, YamlTree(doc), NEW D, Rooted(doc, D), NEW s, Stacked(doc, s, D), DueOf(s) # {},
           NEW q \in D
    PROVE  Before(q, PathOf(s))
<1> DEFINE n == Min(DueOf(s))  P == PathOf(s)  l == Len(s)
<1>1. /\ l \in Nat /\ P \in Seq(Nodes(doc)) /\ Len(P) = l + 1 /\ P[l + 1] = n
      /\ \A i \in 1..l : P[i] = s[i].node
      /\ P \notin D /\ n \in DueOf(s) /\ \A m \in DueOf(s) : n <= m
  <2>1. l \in Nat
    BY StemIs
  <2> QED  BY <2>1, NextPath
<1>2. /\ q \in Seq(Nodes(doc)) /\ Len(q) \in Nat /\ Len(q) > 0 /\ q[1] = 1 /\ Nodes(doc) \subseteq Nat
      /\ \A i \in 1..(Len(q) - 1) : q[i + 1] \in Nexts(doc, q[i]) \ {0}
  BY PathsAre, NodesAre DEF Rooted, Way
<1>3. \A i \in 1..Len(q) : q[i] \in Nat
  BY <1>2
<1> HIDE DEF n, P
<1> DEFINE Differ == {i \in 1..(Len(q) + 1) : i > Len(q) \/ i > l + 1 \/ q[i] # P[i]}
<1>4. Len(q) + 1 \in Differ /\ Differ \in SUBSET Nat
  BY <1>2
<1>5. PICK i \in Differ : \A j \in Differ : i <= j
  <2> HIDE DEF Differ
  <2> QED  BY <1>4, LeastOf
<1>6. i \in 1..(Len(q) + 1) /\ \A j \in 1..(i - 1) : j <= Len(q) /\ j <= l + 1 /\ q[j] = P[j]
  <2>1. \A j \in 1..(i - 1) : j \in 1..(Len(q) + 1) /\ ~(i <= j)
    BY <1>2, <1>5
  <2>2. \A j \in 1..(i - 1) : j \notin Differ
    BY <1>5, <2>1
  <2> QED  BY <1>1, <1>2, <1>5, <2>1, <2>2
<1>7. i <= l + 1
  <2> SUFFICES ASSUME i > l + 1 PROVE FALSE
    BY <1>1, <1>6
  <2>1. l + 1 \in 1..(i - 1) /\ l + 1 \in 1..Len(q)
    BY <1>1, <1>6
  <2>2. Cut(q, l + 1) \in D /\ Cut(q, l + 1) \in Seq(Nodes(doc)) /\ Len(Cut(q, l + 1)) = l + 1
        /\ \A j \in 1..(l + 1) : Cut(q, l + 1)[j] = q[j]
    <3>1. l + 1 \in 0..Len(q)
      BY <1>1, <2>1
    <3> QED  BY <1>2, <2>1, <3>1, CutIs DEF Rooted
  <2>3. \A j \in 1..(l + 1) : q[j] = P[j]
    BY <1>1, <1>6
  <2>4. Cut(q, l + 1) = P
    BY <1>1, <2>2, <2>3, SameSeq
  <2> QED  BY <1>1, <2>2, <2>4
<1>8. CASE i = Len(q) + 1
  <2>1. i \in 1..(l + 1)
    BY <1>2, <1>6, <1>7, <1>8
  <2>2. DOMAIN P = 1..(l + 1)
    BY <1>1
  <2>3. \A j \in 1..(i - 1) : q[j] = P[j]
    BY <1>6
  <2>4. Before(q, P)
    BY <1>8, <2>1, <2>2, <2>3 DEF Before
  <2> QED  BY <2>4 DEF P
<1>9. CASE i # Len(q) + 1
  <2>1. i \in 1..Len(q) /\ i \in 1..(l + 1) /\ q[i] # P[i]
    <3>1. i \in 1..Len(q)
      BY <1>2, <1>6, <1>9
    <3> QED  BY <1>1, <1>5, <1>7, <3>1
  <2>2. i # 1
    <3>1. CASE l = 0
      <4>1. n = 1
        BY <1>1, <3>1 DEF DueOf, l
      <4> QED  BY <1>1, <1>2, <2>1, <3>1, <4>1
    <3>2. CASE l > 0
      <4>1. 1 \in 1..l /\ Stem(s, 1) \in D /\ Stem(s, 1)[1] = s[1].node
        BY <1>1, <3>2, StemIs
      <4>2. Stem(s, 1) \in Paths(doc)
        BY <4>1 DEF Rooted
      <4>3. s[1].node = 1
        BY <4>1, <4>2, PathsAre DEF Way
      <4> QED  BY <1>1, <1>2, <2>1, <4>1, <4>3
    <3> QED  BY <1>1, <3>1, <3>2
  <2> DEFINE k == i - 1  b == Cut(q, k)
  <2>3. /\ k \in 1..l /\ k \in 1..Len(q) /\ k \in 1..(Len(q) - 1) /\ i = k + 1 /\ k \in 0..Len(q)
        /\ i \in 0..Len(q)
    BY <1>1, <1>2, <2>1, <2>2
  <2> HIDE DEF k
  <2>4. b \in D /\ b \in Seq(Nodes(doc)) /\ Len(b) = k /\ \A j \in 1..k : b[j] = q[j]
    BY <1>2, <2>3, CutIs DEF Rooted
  <2>5. Cut(q, i) \in D /\ Cut(q, i) \in Seq(Nodes(doc)) /\ Len(Cut(q, i)) = i /\ \A j \in 1..i : Cut(q, i)[j] = q[j]
    BY <1>2, <2>1, <2>3, CutIs DEF Rooted
  <2> HIDE DEF b
  <2>6. Cut(q, i) = Append(b, q[i])
    <3>1. q[i] \in Nodes(doc)
      BY <1>2, <2>1
    <3>2. Append(b, q[i]) \in Seq(Nodes(doc)) /\ Len(Append(b, q[i])) = k + 1
      BY <2>4, <3>1
    <3>3. \A j \in 1..i : Cut(q, i)[j] = Append(b, q[i])[j]
      <4> SUFFICES ASSUME NEW j \in 1..i PROVE q[j] = Append(b, q[i])[j]
        BY <2>5
      <4>1. j \in 1..k \/ j = i
        BY <2>3
      <4> QED  BY <2>3, <2>4, <3>1, <4>1
    <3> QED  BY <2>3, <2>5, <3>2, <3>3, SameSeq
  <2>7. b = Stem(s, k)
    <3>1. Stem(s, k) \in Seq(Nodes(doc)) /\ Len(Stem(s, k)) = k /\ \A j \in 1..k : Stem(s, k)[j] = s[j].node
      BY <2>3, StemIs
    <3>2. \A j \in 1..k : j \in 1..(i - 1) /\ j \in 1..l
      BY <2>3
    <3>3. \A j \in 1..k : b[j] = Stem(s, k)[j]
      BY <1>1, <1>6, <2>4, <3>1, <3>2
    <3> QED  BY <2>4, <3>1, <3>3, SameSeq
  <2>8. b[Len(b)] = s[k].node
    BY <2>3, <2>4, <2>7, StemIs
  <2>9. q[i] \in Nexts(doc, b[Len(b)]) \ {0}
    <3>1. b[Len(b)] = q[k]
      BY <2>3, <2>4
    <3>2. q[k + 1] \in Nexts(doc, q[k]) \ {0}
      BY <1>2, <2>3
    <3> QED  BY <2>3, <3>1, <3>2
  <2>10. q[i] \in Nexts(doc, s[k].node) \ s[k].todo
    <3>1. Append(b, q[i]) \in D
      BY <2>5, <2>6
    <3>2. ~ \E j \in 1..Len(s) : b = Stem(s, j) /\ q[i] \in s[j].todo
      BY <2>4, <2>9, <3>1 DEF Stacked
    <3> QED  BY <2>3, <2>7, <2>8, <2>9, <3>2
  <2>11. P[i] \in Nat /\ q[i] \in Nat
    BY <1>1, <1>2, <1>3, <2>1
  <2>12. q[i] < P[i]
    <3>1. CASE k < l
      <4>1. q[i] <= s[k + 1].node
        BY <2>3, <2>10, <3>1 DEF Stacked
      <4>2. P[i] = s[k + 1].node
        BY <1>1, <2>3, <3>1
      <4> QED  BY <2>1, <2>11, <4>1, <4>2
    <3>2. CASE k = l
      <4>1. n \in s[k].todo /\ P[i] = n
        BY <1>1, <2>3, <3>2 DEF DueOf
      <4> QED  BY <2>3, <2>10, <4>1 DEF Stacked
    <3> QED  BY <1>1, <2>3, <3>1, <3>2
  <2>13. DOMAIN P = 1..(l + 1) /\ DOMAIN q = 1..Len(q) /\ \A j \in 1..(i - 1) : q[j] = P[j]
    BY <1>1, <1>2, <1>6
  <2>14. Before(q, P)
    BY <2>1, <2>12, <2>13 DEF Before
  <2> QED  BY <2>14 DEF P
<1> QED  BY <1>8, <1>9

\* What is told next is whole.
LEMMA RootedNext ==
    ASSUME NEW doc, YamlTree(doc), NEW D, Rooted(doc, D), NEW s, Stacked(doc, s, D), DueOf(s) # {},
           Fine(doc, PathOf(s))
    PROVE  Rooted(doc, D \cup {PathOf(s)})
<1> DEFINE P == PathOf(s)  l == Len(s)
<1>1. P \in Paths(doc) /\ P \in Seq(Nodes(doc)) /\ Len(P) = l + 1 /\ l \in Nat /\ \A i \in 1..l : P[i] = s[i].node
  <2>1. l \in Nat
    BY StemIs
  <2> QED  BY <2>1, NextPath
<1> HIDE DEF P
<1>2. ASSUME NEW k \in 1..Len(P) PROVE Cut(P, k) \in D \cup {P}
  <2>1. k \in 0..Len(P) /\ k \in 1..(l + 1)
    BY <1>1
  <2>2. Cut(P, k) \in Seq(Nodes(doc)) /\ Len(Cut(P, k)) = k /\ \A i \in 1..k : Cut(P, k)[i] = P[i]
    BY <1>1, <2>1, CutIs
  <2>3. CASE k = l + 1
    BY <1>1, <2>2, <2>3, SameSeq
  <2>4. CASE k # l + 1
    <3>1. k \in 1..l /\ \A i \in 1..k : i \in 1..l
      BY <1>1, <2>1, <2>4
    <3>2. Stem(s, k) \in D /\ Stem(s, k) \in Seq(Nodes(doc)) /\ Len(Stem(s, k)) = k
          /\ \A i \in 1..k : Stem(s, k)[i] = s[i].node
      BY <3>1, StemIs
    <3>3. \A i \in 1..k : Cut(P, k)[i] = Stem(s, k)[i]
      BY <1>1, <2>2, <3>1, <3>2
    <3>4. Cut(P, k) = Stem(s, k)
      BY <2>2, <3>2, <3>3, SameSeq
    <3> QED  BY <3>2, <3>4
  <2> QED  BY <2>3, <2>4
<1>3. Fine(doc, P)
  BY DEF P
<1>4. Rooted(doc, D \cup {P})
  BY <1>1, <1>2, <1>3 DEF Rooted
<1> QED  BY <1>4 DEF P

Started(doc, s) ==
    LET n == Min(DueOf(s))
        left == IF Len(s) = 0 THEN <<>> ELSE [s EXCEPT ![Len(s)].todo = @ \ {n}]
    IN  Append(left, [node |-> n, depth |-> DepthOf(doc, PathOf(s)), todo |-> Nexts(doc, n)])

\* The stack after a call: the one below has one thing less to do.
LEMMA StartedIs ==
    ASSUME NEW doc, YamlTree(doc), NEW D, Rooted(doc, D), NEW s, Stacked(doc, s, D), DueOf(s) # {}
    PROVE  LET n == Min(DueOf(s))  t == Started(doc, s)  l == Len(s)
           IN  /\ t \in Seq(Frames(doc)) /\ Len(t) = l + 1
               /\ \A i \in 1..l : t[i].node = s[i].node /\ t[i].depth = s[i].depth
               /\ \A i \in 1..(l - 1) : t[i].todo = s[i].todo
               /\ l > 0 => t[l].todo = s[l].todo \ {n}
               /\ t[l + 1].node = n /\ t[l + 1].depth = DepthOf(doc, PathOf(s)) /\ t[l + 1].todo = Nexts(doc, n)
               /\ \A i \in 1..l : Stem(t, i) = Stem(s, i)
               /\ Stem(t, l + 1) = PathOf(s)
<1> DEFINE n == Min(DueOf(s))  t == Started(doc, s)  l == Len(s)
           left == IF Len(s) = 0 THEN <<>> ELSE [s EXCEPT ![Len(s)].todo = @ \ {n}]
           new == [node |-> n, depth |-> DepthOf(doc, PathOf(s)), todo |-> Nexts(doc, n)]
<1>1. l \in Nat /\ s \in Seq(Frames(doc)) /\ \A i \in 1..l : s[i] \in Frames(doc) /\ s[i].todo \in SUBSET Nat
  <2>1. l \in Nat /\ s \in Seq(Frames(doc)) /\ \A i \in 1..l : s[i].todo \in SUBSET Nat
    BY StemIs DEF Stacked
  <2> QED  BY <2>1
<1>2. n \in Nodes(doc) /\ Nodes(doc) \subseteq Nat
  BY NextPath, NodesAre
<1>3. PathOf(s) \in Seq(Nat) /\ Len(PathOf(s)) > 0
  <2>1. PathOf(s) \in Seq(Nodes(doc)) /\ Len(PathOf(s)) = l + 1
    BY NextPath
  <2> QED  BY <1>1, <1>2, <2>1
<1>4. Nexts(doc, n) \in SUBSET Nat
  <2>1. Nexts(doc, n) \ {0} \subseteq Nodes(doc)
    BY <1>2, NodesAre
  <2> HIDE DEF n
  <2> QED  BY <1>2, <2>1
<1>5. new \in Frames(doc) /\ new.node = n /\ new.depth = DepthOf(doc, PathOf(s)) /\ new.todo = Nexts(doc, n)
  <2>1. DepthOf(doc, PathOf(s)) \in Nat
    BY <1>3, Deeper
  <2> QED  BY <1>2, <1>4, <2>1 DEF Frames
<1> HIDE DEF n, new
<1>6. /\ left \in Seq(Frames(doc)) /\ Len(left) = l
      /\ \A i \in 1..(l - 1) : left[i] = s[i]
      /\ l > 0 => left[l].node = s[l].node /\ left[l].depth = s[l].depth /\ left[l].todo = s[l].todo \ {n}
  <2>1. CASE l = 0
    BY <2>1
  <2>2. CASE l # 0
    <3> DEFINE f == [s[l] EXCEPT !.todo = @ \ {n}]
    <3>1. l \in 1..l /\ left = [s EXCEPT ![l] = f]
      BY <1>1, <2>2
    <3>2. f \in Frames(doc) /\ f.node = s[l].node /\ f.depth = s[l].depth /\ f.todo = s[l].todo \ {n}
      <4>1. s[l] \in Frames(doc) /\ s[l].todo \ {n} \in SUBSET Nat
        BY <1>1, <3>1
      <4> QED  BY <4>1 DEF Frames
    <3> HIDE DEF f, left
    <3> QED  BY <1>1, <3>1, <3>2
  <2> QED  BY <2>1, <2>2
<1>7. t = Append(left, new)
  BY DEF Started, new, n
<1> HIDE DEF left, t
<1>8. t \in Seq(Frames(doc)) /\ Len(t) = l + 1 /\ t[l + 1] = new /\ \A i \in 1..l : t[i] = left[i]
  BY <1>1, <1>5, <1>6, <1>7
<1>9. ASSUME NEW i \in 1..l PROVE t[i].node = s[i].node /\ t[i].depth = s[i].depth
  <2>1. CASE i = l
    BY <1>1, <1>6, <1>8, <2>1
  <2>2. CASE i # l
    <3>1. i \in 1..(l - 1)
      BY <1>1, <2>2
    <3> QED  BY <1>6, <1>8, <3>1
  <2> QED  BY <2>1, <2>2
<1>10. \A i \in 1..(l - 1) : t[i].todo = s[i].todo
  <2>1. \A i \in 1..(l - 1) : i \in 1..l
    BY <1>1
  <2> QED  BY <1>6, <1>8, <2>1
<1>11. l > 0 => t[l].todo = s[l].todo \ {n}
  BY <1>1, <1>6, <1>8
<1>12. \A i \in 1..l : Stem(t, i) = Stem(s, i)
  <2>1. \A i \in 1..l : \A j \in 1..i : j \in 1..l
    BY <1>1
  <2> QED  BY <1>9, <2>1 DEF Stem
<1>13. Stem(t, l + 1) = PathOf(s)
  <2>1. PathOf(s) \in Seq(Nodes(doc)) /\ Len(PathOf(s)) = l + 1 /\ PathOf(s)[l + 1] = n
        /\ \A i \in 1..l : PathOf(s)[i] = s[i].node
    BY NextPath DEF n
  <2>2. \A i \in 1..(l + 1) : i \in 1..l \/ i = l + 1
    BY <1>1
  <2>3. \A i \in 1..(l + 1) : PathOf(s)[i] = t[i].node
    BY <1>5, <1>8, <1>9, <2>1, <2>2
  <2>4. PathOf(s) = [i \in 1..(l + 1) |-> PathOf(s)[i]]
    BY <2>1
  <2> QED  BY <2>3, <2>4 DEF Stem
<1> QED  BY <1>5, <1>8, <1>9, <1>10, <1>11, <1>12, <1>13 DEF n, t

\* A call that begins keeps the stack in order.
LEMMA StackedNext ==
    ASSUME NEW doc, YamlTree(doc), NEW D, Rooted(doc, D), NEW s, Stacked(doc, s, D), DueOf(s) # {}
    PROVE  Stacked(doc, Started(doc, s), D \cup {PathOf(s)})
<1> DEFINE n == Min(DueOf(s))  t == Started(doc, s)  l == Len(s)  P == PathOf(s)
           N(i) == Nexts(doc, s[i].node)
<1>1. /\ t \in Seq(Frames(doc)) /\ Len(t) = l + 1
      /\ \A i \in 1..l : t[i].node = s[i].node /\ t[i].depth = s[i].depth
      /\ \A i \in 1..(l - 1) : t[i].todo = s[i].todo
      /\ l > 0 => t[l].todo = s[l].todo \ {n}
      /\ t[l + 1].node = n /\ t[l + 1].depth = DepthOf(doc, P) /\ t[l + 1].todo = Nexts(doc, n)
      /\ \A i \in 1..l : Stem(t, i) = Stem(s, i)
      /\ Stem(t, l + 1) = P
  BY StartedIs
<1>2. /\ l \in Nat /\ P \in Seq(Nodes(doc)) /\ Len(P) = l + 1 /\ P[l + 1] = n
      /\ P \in Paths(doc) /\ P \notin D /\ n \in Nodes(doc)
      /\ n \in DueOf(s) /\ \A m \in DueOf(s) : n <= m
      /\ l > 0 => n \in N(l) \ {0}
  <2>1. l \in Nat
    BY StemIs
  <2> QED  BY <2>1, NextPath
<1>3. \A i \in 1..l : /\ Stem(s, i) \in D /\ Stem(s, i) \in Seq(Nodes(doc)) /\ Len(Stem(s, i)) = i
                      /\ Stem(s, i)[i] = s[i].node /\ s[i].todo \in SUBSET Nat
                      /\ s[i].todo \subseteq N(i) /\ s[i].depth = DepthOf(doc, Stem(s, i))
                      /\ \A m \in N(i) \ s[i].todo : \A u \in s[i].todo : m < u
                      /\ i < l => \A m \in N(i) \ s[i].todo : m <= s[i + 1].node
                      /\ s[i].node \in Nodes(doc)
  <2>1. \A i \in 1..l : Stem(s, i) \in D /\ Stem(s, i) \in Seq(Nodes(doc)) /\ Len(Stem(s, i)) = i
                        /\ s[i].todo \in SUBSET Nat /\ s[i].node \in Nodes(doc)
                        /\ \A j \in 1..i : Stem(s, i)[j] = s[j].node
    BY StemIs
  <2>2. \A i \in 1..l : i \in 1..i
    BY <1>2
  <2>3. \A i \in 1..l :
            /\ s[i].todo \subseteq N(i) /\ s[i].depth = DepthOf(doc, Stem(s, i))
            /\ \A m \in N(i) \ s[i].todo : \A u \in s[i].todo : m < u
            /\ i < l => \A m \in N(i) \ s[i].todo : m <= s[i + 1].node
    BY DEF Stacked
  <2> QED  BY <2>1, <2>2, <2>3
<1>4. \A i \in 1..(l + 1) : i \in 1..(l - 1) \/ (l > 0 /\ i = l) \/ i = l + 1
  BY <1>2
<1>5. \A i \in 1..(l - 1) : i \in 1..l /\ i < l /\ i + 1 \in 1..l /\ i < l + 1
  BY <1>2
<1>6. l > 0 => l \in 1..l /\ DueOf(s) = s[l].todo
  BY <1>2 DEF DueOf
<1>7. n \in Nat /\ \A i \in 1..l : N(i) \subseteq Nat
  <2>1. \A i \in 1..l : N(i) \ {0} \subseteq Nodes(doc)
    BY <1>3, NodesAre
  <2>2. Nodes(doc) \subseteq Nat
    BY NodesAre
  <2> QED  BY <1>2, <2>1, <2>2
<1>8. P \in [1..(l + 1) -> Nodes(doc)] /\ P # <<>>
  BY <1>2
<1> HIDE DEF n, t, l, P
<1>9. ASSUME NEW i \in 1..(l + 1)
      PROVE  /\ Stem(t, i) \in D \cup {P} /\ t[i].depth = DepthOf(doc, Stem(t, i))
             /\ t[i].todo \subseteq Nexts(doc, t[i].node)
             /\ \A m \in Nexts(doc, t[i].node) \ t[i].todo : \A u \in t[i].todo : m < u
             /\ i < l + 1 => \A m \in Nexts(doc, t[i].node) \ t[i].todo : m <= t[i + 1].node
  <2>1. CASE i \in 1..(l - 1)
    <3>1. i \in 1..l /\ i + 1 \in 1..l /\ i < l
      BY <1>5, <2>1
    <3>2. t[i].node = s[i].node /\ t[i].depth = s[i].depth /\ t[i].todo = s[i].todo
          /\ Stem(t, i) = Stem(s, i) /\ t[i + 1].node = s[i + 1].node
      BY <1>1, <2>1, <3>1
    <3> QED  BY <1>3, <3>1, <3>2
  <2>2. CASE l > 0 /\ i = l
    <3>1. l \in 1..l
      BY <1>6, <2>2
    <3>2. t[l].node = s[l].node /\ t[l].depth = s[l].depth /\ t[l].todo = s[l].todo \ {n}
          /\ Stem(t, l) = Stem(s, l) /\ t[l + 1].node = n
      BY <1>1, <2>2, <3>1
    <3>3. n \in s[l].todo /\ \A u \in s[l].todo : n <= u
      BY <1>2, <1>6, <2>2
    <3>4. s[l].todo \in SUBSET Nat /\ N(l) \subseteq Nat
      BY <1>3, <1>7, <3>1
    <3>5. ASSUME NEW m \in N(l) \ (s[l].todo \ {n}) PROVE m <= n /\ \A u \in s[l].todo \ {n} : m < u
      <4>1. CASE m = n
        BY <1>7, <3>3, <3>4, <4>1
      <4>2. CASE m # n
        <5>1. m \in N(l) \ s[l].todo
          BY <4>2
        <5>2. \A u \in s[l].todo : m < u
          BY <1>3, <3>1, <5>1
        <5> QED  BY <1>7, <3>3, <3>4, <5>2
      <4> QED  BY <4>1, <4>2
    <3>6. Stem(t, l) \in D /\ t[l].depth = DepthOf(doc, Stem(t, l)) /\ t[l].todo \subseteq N(l)
      BY <1>3, <3>1, <3>2
    <3> QED  BY <2>2, <3>2, <3>5, <3>6
  <2>3. CASE i = l + 1
    <3>1. ~(i < l + 1)
      BY <1>2, <2>3
    <3> QED  BY <1>1, <2>3, <3>1
  <2> QED  BY <1>4, <2>1, <2>2, <2>3
<1>10. ASSUME NEW p \in D \cup {P}, NEW m \in Nexts(doc, p[Len(p)]) \ {0}
       PROVE  Append(p, m) \in D \cup {P} <=> ~ \E j \in 1..(l + 1) : p = Stem(t, j) /\ m \in t[j].todo
  <2>1. p \in Paths(doc) /\ p \in Seq(Nodes(doc)) /\ Len(p) \in Nat /\ Len(p) > 0 /\ p[Len(p)] \in Nodes(doc)
    <3>1. p \in Paths(doc)
      BY <1>2 DEF Rooted
    <3>2. p \in Seq(Nodes(doc)) /\ Len(p) \in Nat /\ Len(p) > 0
      BY <3>1, PathsAre DEF Way
    <3> QED  BY <3>1, <3>2
  <2>2. m \in Nodes(doc)
    BY <2>1, NodesAre
  <2> DEFINE q == Append(p, m)
  <2>3. q \in Seq(Nodes(doc)) /\ Len(q) = Len(p) + 1 /\ q[Len(p) + 1] = m /\ \A i \in 1..Len(p) : q[i] = p[i]
    BY <2>1, <2>2
  <2> HIDE DEF q
  <2>4. CASE p = P
    <3>1. q \notin D
      <4> SUFFICES ASSUME q \in D PROVE FALSE
        OBVIOUS
      <4>1. l + 1 \in 0..Len(q) /\ l + 1 \in 1..Len(q)
        BY <1>2, <2>3, <2>4
      <4>2. Cut(q, l + 1) \in D /\ Cut(q, l + 1) \in Seq(Nodes(doc)) /\ Len(Cut(q, l + 1)) = l + 1
            /\ \A i \in 1..(l + 1) : Cut(q, l + 1)[i] = q[i]
        BY <2>3, <4>1, CutIs DEF Rooted
      <4>3. Cut(q, l + 1) = P
        BY <1>2, <2>3, <2>4, <4>2, SameSeq
      <4> QED  BY <1>2, <4>2, <4>3
    <3>2. q # P
      BY <1>2, <2>3, <2>4
    <3>3. l + 1 \in 1..(l + 1) /\ P = Stem(t, l + 1) /\ m \in t[l + 1].todo
      BY <1>1, <1>2, <2>4
    <3> QED  BY <2>4, <3>1, <3>2, <3>3 DEF q
  <2>5. CASE p # P
    <3>1. p \in D
      BY <2>5
    <3>2. q \in D <=> ~ \E j \in 1..l : p = Stem(s, j) /\ m \in s[j].todo
      BY <3>1 DEF Stacked, q, l
    <3>3. q = P <=> l > 0 /\ p = Stem(s, l) /\ m = n
      <4>1. ASSUME q = P PROVE l > 0 /\ p = Stem(s, l) /\ m = n
        <5>1. Len(p) = l
          BY <1>2, <2>1, <2>3, <4>1
        <5>2. l > 0 /\ m = n
          BY <1>2, <2>1, <2>3, <4>1, <5>1
        <5>3. Stem(s, l) \in Seq(Nodes(doc)) /\ Len(Stem(s, l)) = l /\ \A i \in 1..l : Stem(s, l)[i] = s[i].node
          BY StemIs DEF l
        <5>4. \A i \in 1..l : P[i] = s[i].node
          BY NextPath DEF P, l
        <5>5. \A i \in 1..l : p[i] = Stem(s, l)[i]
          BY <2>3, <4>1, <5>1, <5>3, <5>4
        <5> QED  BY <2>1, <5>1, <5>2, <5>3, <5>5, SameSeq
      <4>2. ASSUME p = Stem(s, l), m = n PROVE q = P
        BY <4>2 DEF q, P, PathOf, l, n
      <4> QED  BY <4>1, <4>2
    <3>4. \A j \in 1..l : p = Stem(t, j) <=> p = Stem(s, j)
      BY <1>1
    <3>5. p # Stem(t, l + 1)
      BY <1>1, <2>5
    <3>6. \A j \in 1..l : p = Stem(s, j) /\ p = Stem(s, l) => j = l
      <4>1. l > 0 => l \in 1..l
        BY <1>6
      <4>2. \A j \in 1..l : l > 0
        BY <1>2
      <4> QED  BY <1>3, <4>1, <4>2
    <3>7. (\E j \in 1..(l + 1) : p = Stem(t, j) /\ m \in t[j].todo)
          <=> (\E j \in 1..l : p = Stem(s, j) /\ m \in s[j].todo /\ ~(j = l /\ m = n))
      <4>1. \A j \in 1..l : j \in 1..(l + 1) /\ (j \in 1..(l - 1) \/ (l > 0 /\ j = l))
        BY <1>2
      <4>2. \A j \in 1..l : m \in t[j].todo <=> m \in s[j].todo /\ ~(j = l /\ m = n)
        <5> SUFFICES ASSUME NEW j \in 1..l PROVE m \in t[j].todo <=> m \in s[j].todo /\ ~(j = l /\ m = n)
          OBVIOUS
        <5>1. CASE j = l
          BY <1>1, <4>1, <5>1
        <5>2. CASE j # l
          BY <1>1, <4>1, <5>2
        <5> QED  BY <5>1, <5>2
      <4>3. \A j \in 1..(l + 1) : p = Stem(t, j) => j \in 1..l
        BY <1>2, <3>5
      <4> QED  BY <3>4, <4>1, <4>2, <4>3
    <3>8. q = P => \E j \in 1..l : p = Stem(s, j) /\ m \in s[j].todo /\ j = l /\ m = n
      BY <1>2, <1>6, <3>3
    <3>9. ASSUME q \in D, NEW j \in 1..l, p = Stem(s, j), m \in s[j].todo PROVE FALSE
      BY <3>2, <3>9
    <3>10. ASSUME q = P, NEW j \in 1..l, p = Stem(s, j), m \in s[j].todo, ~(j = l /\ m = n) PROVE FALSE
      BY <3>3, <3>6, <3>10
    <3>11. ASSUME q \notin D, q # P PROVE \E j \in 1..l : p = Stem(s, j) /\ m \in s[j].todo /\ ~(j = l /\ m = n)
      <4>1. PICK j \in 1..l : p = Stem(s, j) /\ m \in s[j].todo
        BY <3>2, <3>11
      <4>2. ~(j = l /\ m = n)
        <5>1. l > 0
          BY <1>2
        <5> QED  BY <3>3, <3>11, <4>1, <5>1
      <4> QED  BY <4>1, <4>2
    <3>12. q \in D \cup {P} <=> ~ \E j \in 1..l : p = Stem(s, j) /\ m \in s[j].todo /\ ~(j = l /\ m = n)
      BY <3>9, <3>10, <3>11
    <3> QED  BY <3>7, <3>12 DEF q
  <2> QED  BY <2>4, <2>5
<1>11. Len(t) > 0
  BY <1>1, <1>2
<1>12. Stacked(doc, t, D \cup {P})
  BY <1>1, <1>9, <1>10, <1>11 DEF Stacked
<1> QED  BY <1>12 DEF t, P

\* A path is that of an alias or of a node.
LEMMA KindsOfPaths ==
    ASSUME NEW doc, NEW p \in Paths(doc)
    PROVE  /\ p \in AliasPaths(doc) <=> p[Len(p)] \in Aliases(doc)
           /\ p \in NodePaths(doc) <=> p \notin AliasPaths(doc)
  BY DEF AliasPaths, NodePaths, Last

\* What is told is finite, and one path more makes the counts one more.
LEMMA ToldFinite ==
    ASSUME NEW doc, YamlTree(doc), NEW D \in SUBSET Paths(doc)
    PROVE  /\ IsFiniteSet(D) /\ Cardinality(D) \in Nat
           /\ \A S : IsFiniteSet(D \cap S) /\ Cardinality(D \cap S) \in Nat
           /\ \A p \in Paths(doc) \ D : \A S :
                 /\ Cardinality(D \cup {p}) = Cardinality(D) + 1
                 /\ p \in S => Cardinality((D \cup {p}) \cap S) = Cardinality(D \cap S) + 1
                 /\ p \notin S => (D \cup {p}) \cap S = D \cap S
<1>1. IsFiniteSet(Paths(doc))
  BY PathsAre
<1>2. \A E \in SUBSET Paths(doc) : IsFiniteSet(E) /\ Cardinality(E) \in Nat /\ Cardinality(E) <= Cardinality(Paths(doc))
  BY <1>1, FS_Subset, FS_CardinalityType
<1>3. \A S : D \cap S \in SUBSET Paths(doc)
  OBVIOUS
<1>4. ASSUME NEW p \in Paths(doc) \ D, NEW S
      PROVE  /\ Cardinality(D \cup {p}) = Cardinality(D) + 1
             /\ p \in S => Cardinality((D \cup {p}) \cap S) = Cardinality(D \cap S) + 1
             /\ p \notin S => (D \cup {p}) \cap S = D \cap S
  <2>1. Cardinality(D \cup {p}) = Cardinality(D) + 1
    BY <1>2, FS_AddElement
  <2>3. p \in S => (D \cup {p}) \cap S = (D \cap S) \cup {p}
    OBVIOUS
  <2>4. Cardinality((D \cap S) \cup {p}) = Cardinality(D \cap S) + 1
    <3>1. p \notin D \cap S /\ IsFiniteSet(D \cap S)
      BY <1>2, <1>3
    <3> QED  BY <3>1, FS_AddElement
  <2>5. p \notin S => (D \cup {p}) \cap S = D \cap S
    OBVIOUS
  <2> QED  BY <2>1, <2>3, <2>4, <2>5
<1> QED  BY <1>2, <1>3, <1>4

\* Each node is printed in its place, and those before it keep theirs.
LEMMA PrintedNext ==
    ASSUME NEW doc, YamlTree(doc), NEW D, Rooted(doc, D), NEW s, Stacked(doc, s, D), DueOf(s) # {},
           NEW out, Printed(doc, out, D)
    PROVE  LET n == Min(DueOf(s))  P == PathOf(s)
           IN  Printed(doc, IF n \in Aliases(doc) THEN out ELSE Append(out, <<DepthOf(doc, P), n>>), D \cup {P})
<1> DEFINE n == Min(DueOf(s))  P == PathOf(s)  A == D \cap NodePaths(doc)  B == (D \cup {P}) \cap NodePaths(doc)
           Earlier(S, p) == {q \in S : Before(q, p)}
           more == IF n \in Aliases(doc) THEN out ELSE Append(out, <<DepthOf(doc, P), n>>)
<1>1. P \in Paths(doc) \ D /\ P \in Seq(Nodes(doc)) /\ P[Len(P)] = n /\ n \in Nodes(doc) /\ Len(P) > 0
  <2>1. Len(s) \in Nat
    BY StemIs
  <2> QED  BY <2>1, NextPath
<1>2. D \in SUBSET Paths(doc)
  BY DEF Rooted
<1>3. Nodes(doc) \subseteq Nat
  BY NodesAre
<1>4. P \in NodePaths(doc) <=> n \notin Aliases(doc)
  BY <1>1, KindsOfPaths
<1>5. out \in Seq(Nat \X Nodes(doc)) /\ Len(out) = Cardinality(A)
      /\ \A p \in A : out[Cardinality(Earlier(A, p)) + 1] = <<DepthOf(doc, p), p[Len(p)]>>
  BY DEF Printed
<1>6. CASE n \in Aliases(doc)
  <2>1. B = A /\ more = out
    BY <1>1, <1>2, <1>4, <1>6
  <2> HIDE DEF n, P, A, B, more
  <2> QED  BY <1>5, <2>1 DEF Printed, n, P, A, B, more
<1>7. CASE n \notin Aliases(doc)
  <2> DEFINE x == <<DepthOf(doc, P), n>>
  <2>1. x \in Nat \X Nodes(doc)
    <3>1. P \in Seq(Nat)
      BY <1>1, <1>3
    <3>2. DepthOf(doc, P) \in Nat
      BY <1>1, <3>1, Deeper
    <3> QED  BY <1>1, <3>2
  <2>2. more = Append(out, x)
    BY <1>7
  <2>3. B = A \cup {P} /\ P \notin A /\ Cardinality(B) = Cardinality(A) + 1 /\ IsFiniteSet(A) /\ Cardinality(A) \in Nat
    BY <1>1, <1>2, <1>4, <1>7, ToldFinite
  <2> HIDE DEF n, x, A, B, more
  <2>4. more \in Seq(Nat \X Nodes(doc)) /\ Len(more) = Cardinality(B)
        /\ more[Len(out) + 1] = x /\ \A i \in 1..Len(out) : more[i] = out[i]
    BY <1>5, <2>1, <2>2, <2>3
  <2>5. ASSUME NEW p \in B PROVE more[Cardinality(Earlier(B, p)) + 1] = <<DepthOf(doc, p), p[Len(p)]>>
    <3>1. \A q \in A : Before(q, P) /\ q \in Seq(Nat)
      <4>1. \A q \in A : q \in D
        BY DEF A
      <4>2. \A q \in A : Before(q, P)
        BY <4>1, ToldBefore
      <4>3. \A q \in A : q \in Seq(Nodes(doc))
        BY <1>2, <4>1, PathsAre
      <4> QED  BY <1>3, <4>2, <4>3
    <3>2. P \in Seq(Nat)
      BY <1>1, <1>3
    <3>3. ~Before(P, P)
      BY <3>2, BeforeIs
    <3>4. CASE p = P
      <4>1. Earlier(B, p) = A
        BY <2>3, <3>1, <3>3, <3>4
      <4> HIDE DEF Earlier
      <4> QED  BY <1>1, <1>5, <2>4, <3>4, <4>1 DEF x
    <3>5. CASE p # P
      <4>1. p \in A
        BY <2>3, <3>5
      <4>2. ~Before(P, p) /\ ~Before(p, p)
        <5>1. p \in Seq(Nat) /\ Before(p, P)
          BY <3>1, <4>1
        <5> HIDE DEF P
        <5> QED  BY <3>2, <5>1, BeforeIs
      <4>3. Earlier(B, p) = Earlier(A, p)
        BY <2>3, <4>2
      <4>4. Earlier(A, p) \in SUBSET (A \ {p})
        BY <4>2
      <4> HIDE DEF Earlier
      <4>5. Cardinality(Earlier(A, p)) + 1 \in 1..Len(out)
        <5>1. IsFiniteSet(A \ {p}) /\ Cardinality(A \ {p}) = Cardinality(A) - 1
          BY <2>3, <4>1, FS_RemoveElement
        <5>2. IsFiniteSet(Earlier(A, p)) /\ Cardinality(Earlier(A, p)) <= Cardinality(A) - 1
          BY <4>4, <5>1, FS_Subset
        <5>3. Cardinality(Earlier(A, p)) \in Nat
          BY <5>2, FS_CardinalityType
        <5> QED  BY <1>5, <2>3, <5>2, <5>3
      <4> QED  BY <1>5, <2>4, <4>1, <4>3, <4>5
    <3> QED  BY <3>4, <3>5
  <2> HIDE DEF P
  <2>6. Printed(doc, more, D \cup {P})
    BY <2>4, <2>5 DEF Printed, B
  <2> QED  BY <2>6 DEF more, P, n
<1> QED  BY <1>6, <1>7

\* The counters, the active set and the output of a call that begins.
LEMMA CountedNext ==
    ASSUME NEW doc, YamlTree(doc), NEW w, NEW D, Told(doc, w, D), DueOf(w.stack) # {}, NEW v,
           w.nodes + 1 <= MaxNodes, Min(DueOf(w.stack)) \in Aliases(doc) => w.aliases + 1 <= MaxAliases,
           v.stack = Started(doc, w.stack), v.nodes = w.nodes + 1,
           v.aliases = w.aliases + IF Min(DueOf(w.stack)) \in Aliases(doc) THEN 1 ELSE 0,
           v.active = w.active \cup {Min(DueOf(w.stack))},
           v.out = IF Min(DueOf(w.stack)) \in Aliases(doc) THEN w.out
                   ELSE Append(w.out, <<DepthOf(doc, PathOf(w.stack)), Min(DueOf(w.stack))>>)
    PROVE  Counted(doc, v, D \cup {PathOf(w.stack)})
<1> DEFINE s == w.stack  n == Min(DueOf(s))  P == PathOf(s)  t == v.stack  l == Len(s)  E == D \cup {P}
<1>0. Rooted(doc, D) /\ Stacked(doc, s, D) /\ Counted(doc, w, D) /\ D \in SUBSET Paths(doc)
  BY DEF Told, Rooted
<1>1. P \in Paths(doc) \ D /\ P[Len(P)] = n /\ l \in Nat
  <2>1. Len(s) \in Nat
    BY <1>0, StemIs
  <2> QED  BY <1>0, <2>1, NextPath
<1>2. P \in AliasPaths(doc) <=> n \in Aliases(doc)
  BY <1>1, KindsOfPaths
<1>3. /\ w.nodes = Cardinality(D) /\ Cardinality(D) \in Nat
      /\ w.aliases = Cardinality(D \cap AliasPaths(doc)) /\ Cardinality(D \cap AliasPaths(doc)) \in Nat
      /\ Cardinality(D \cap AliasPaths(doc)) <= MaxAliases
  BY <1>0, ToldFinite DEF Counted
<1>4. v.nodes = Cardinality(E) /\ Cardinality(E) <= MaxNodes
  <2>1. Cardinality(E) = Cardinality(D) + 1
    BY <1>0, <1>1, ToldFinite
  <2> QED  BY <1>3, <2>1
<1>5. v.aliases = Cardinality(E \cap AliasPaths(doc)) /\ Cardinality(E \cap AliasPaths(doc)) <= MaxAliases
  <2> HIDE DEF n, P
  <2>1. \A S : /\ P \in S => Cardinality(E \cap S) = Cardinality(D \cap S) + 1
               /\ P \notin S => E \cap S = D \cap S
    BY <1>0, <1>1, ToldFinite
  <2> HIDE DEF E
  <2>2. CASE n \in Aliases(doc)
    <3>1. w.aliases + 1 <= MaxAliases /\ v.aliases = w.aliases + 1
      BY <2>2 DEF n
    <3>2. Cardinality(E \cap AliasPaths(doc)) = Cardinality(D \cap AliasPaths(doc)) + 1
      BY <1>2, <2>1, <2>2
    <3> QED  BY <1>3, <3>1, <3>2
  <2>3. CASE n \notin Aliases(doc)
    <3>1. v.aliases = w.aliases + 0
      BY <2>3 DEF n
    <3>2. E \cap AliasPaths(doc) = D \cap AliasPaths(doc)
      BY <1>2, <2>1, <2>3
    <3>3. v.aliases = w.aliases
      BY <1>3, <3>1
    <3> QED  BY <1>3, <3>2, <3>3, Zenon
  <2> QED  BY <2>2, <2>3
<1>6. v.active = {t[i].node : i \in 1..Len(t)}
  <2>1. Len(t) = l + 1 /\ (\A i \in 1..l : t[i].node = s[i].node) /\ t[l + 1].node = n
    BY <1>0, StartedIs
  <2>2. w.active = {s[i].node : i \in 1..l}
    BY <1>0 DEF Counted
  <2>3. \A i \in 1..(l + 1) : i \in 1..l \/ i = l + 1
    BY <1>1
  <2>4. l + 1 \in 1..(l + 1) /\ \A i \in 1..l : i \in 1..(l + 1)
    BY <1>1
  <2>5. v.active = w.active \cup {n}
    OBVIOUS
  <2> HIDE DEF n, t, l, s
  <2> QED  BY <2>1, <2>2, <2>3, <2>4, <2>5
<1>7. Printed(doc, v.out, E)
  <2>1. Printed(doc, w.out, D)
    BY <1>0 DEF Counted
  <2>2. Printed(doc, IF n \in Aliases(doc) THEN w.out ELSE Append(w.out, <<DepthOf(doc, P), n>>), E)
    BY <1>0, <2>1, PrintedNext
  <2> QED  BY <2>2
<1> HIDE DEF E, t
<1>8. Counted(doc, v, E)
  BY <1>4, <1>5, <1>6, <1>7 DEF Counted, t
<1> QED  BY <1>8 DEF E

\* A call of convert() that passes its checks.
LEMMA ToldNext ==
    ASSUME NEW doc, YamlTree(doc), NEW w, NEW D, Told(doc, w, D), DueOf(w.stack) # {}, NEW v,
           Fine(doc, PathOf(w.stack)),
           w.nodes + 1 <= MaxNodes, Min(DueOf(w.stack)) \in Aliases(doc) => w.aliases + 1 <= MaxAliases,
           v.stack = Started(doc, w.stack), v.nodes = w.nodes + 1,
           v.aliases = w.aliases + IF Min(DueOf(w.stack)) \in Aliases(doc) THEN 1 ELSE 0,
           v.active = w.active \cup {Min(DueOf(w.stack))},
           v.out = IF Min(DueOf(w.stack)) \in Aliases(doc) THEN w.out
                   ELSE Append(w.out, <<DepthOf(doc, PathOf(w.stack)), Min(DueOf(w.stack))>>)
    PROVE  Told(doc, v, D \cup {PathOf(w.stack)})
<1>1. Rooted(doc, D \cup {PathOf(w.stack)})
  BY RootedNext DEF Told
<1>2. Stacked(doc, v.stack, D \cup {PathOf(w.stack)})
  BY StackedNext DEF Told
<1>3. Counted(doc, v, D \cup {PathOf(w.stack)})
  BY CountedNext
<1> QED  BY <1>1, <1>2, <1>3 DEF Told

\* A call that returns leaves the rest as it was.
LEMMA ToldBack ==
    ASSUME NEW doc, YamlTree(doc), NEW w, NEW D, Told(doc, w, D), Len(w.stack) > 1, DueOf(w.stack) = {}, NEW v,
           v.stack = SubSeq(w.stack, 1, Len(w.stack) - 1), v.nodes = w.nodes, v.aliases = w.aliases,
           v.active = w.active \ {w.stack[Len(w.stack)].node}, v.out = w.out
    PROVE  Told(doc, v, D)
<1> DEFINE s == w.stack  t == v.stack  l == Len(s)
<1>0. Rooted(doc, D) /\ Stacked(doc, s, D) /\ Counted(doc, w, D)
  BY DEF Told
<1>1. l \in Nat /\ l > 1 /\ s \in Seq(Frames(doc)) /\ s[l].todo = {}
  <2>1. l \in Nat
    BY <1>0, StemIs
  <2> QED  BY <1>0, <2>1 DEF Stacked, DueOf
<1>2. t \in Seq(Frames(doc)) /\ Len(t) = l - 1 /\ \A i \in 1..(l - 1) : t[i] = s[i]
  BY <1>1
<1>3. \A i \in 1..(l - 1) : i \in 1..l /\ i < l /\ (i < l - 1 => i + 1 \in 1..(l - 1))
  BY <1>1
<1>4. \A i \in 1..(l - 1) : Stem(t, i) = Stem(s, i)
  <2>1. \A i \in 1..(l - 1) : \A j \in 1..i : j \in 1..(l - 1)
    BY <1>1
  <2> QED  BY <1>2, <2>1 DEF Stem
<1>5. v.active = {t[i].node : i \in 1..(l - 1)}
  <2>1. w.active = {s[i].node : i \in 1..l}
    BY <1>0 DEF Counted
  <2>2. l \in 1..l /\ \A i \in 1..l : i \in 1..(l - 1) \/ i = l
    BY <1>1
  <2>3. \A i \in 1..(l - 1) : s[i].node # s[l].node
    <3>1. Stem(s, l) \in D /\ Len(Stem(s, l)) = l /\ \A i \in 1..l : Stem(s, l)[i] = s[i].node
      BY <1>0, <2>2, StemIs
    <3>2. \A i, j \in 1..l : i < j => Stem(s, l)[i] # Stem(s, l)[j]
      BY <1>0, <3>1 DEF Rooted, Fine
    <3> SUFFICES ASSUME NEW i \in 1..(l - 1) PROVE s[i].node # s[l].node
      OBVIOUS
    <3>3. i \in 1..l /\ i < l
      BY <1>3
    <3>4. Stem(s, l)[i] # Stem(s, l)[l] /\ Stem(s, l)[i] = s[i].node /\ Stem(s, l)[l] = s[l].node
      BY <2>2, <3>1, <3>2, <3>3
    <3> QED  BY <3>4
  <2>4. v.active = w.active \ {s[l].node}
    OBVIOUS
  <2> HIDE DEF s, t, l
  <2>5. w.active \ {s[l].node} = {s[i].node : i \in 1..(l - 1)}
    BY <1>3, <2>1, <2>2, <2>3
  <2>6. {s[i].node : i \in 1..(l - 1)} = {t[i].node : i \in 1..(l - 1)}
    BY <1>2
  <2> QED  BY <2>4, <2>5, <2>6
<1> HIDE DEF s, t, l
<1>6. \A j \in 1..l :
          /\ Stem(s, j) \in D /\ s[j].depth = DepthOf(doc, Stem(s, j))
          /\ s[j].todo \subseteq Nexts(doc, s[j].node)
          /\ \A m \in Nexts(doc, s[j].node) \ s[j].todo : \A u \in s[j].todo : m < u
          /\ j < l => \A m \in Nexts(doc, s[j].node) \ s[j].todo : m <= s[j + 1].node
  BY <1>0 DEF Stacked, l
<1>7. \A j \in 1..(l - 1) :
          /\ Stem(t, j) \in D /\ t[j].depth = DepthOf(doc, Stem(t, j))
          /\ t[j].todo \subseteq Nexts(doc, t[j].node)
          /\ \A m \in Nexts(doc, t[j].node) \ t[j].todo : \A u \in t[j].todo : m < u
          /\ j < l - 1 => \A m \in Nexts(doc, t[j].node) \ t[j].todo : m <= t[j + 1].node
  BY <1>2, <1>3, <1>4, <1>6
<1>8. ASSUME NEW p \in D, NEW m \in Nexts(doc, p[Len(p)]) \ {0}
      PROVE  Append(p, m) \in D <=> ~ \E j \in 1..(l - 1) : p = Stem(t, j) /\ m \in t[j].todo
  <2>1. Append(p, m) \in D <=> ~ \E j \in 1..l : p = Stem(s, j) /\ m \in s[j].todo
    BY <1>0 DEF Stacked, l
  <2>2. \A j \in 1..l : j \in 1..(l - 1) \/ s[j].todo = {}
    BY <1>1
  <2> QED  BY <1>2, <1>3, <1>4, <2>1, <2>2
<1>9. Len(t) > 0
  BY <1>1, <1>2
<1>10. Stacked(doc, t, D)
  BY <1>2, <1>7, <1>8, <1>9 DEF Stacked
<1>11. Counted(doc, v, D)
  BY <1>0, <1>2, <1>5 DEF Counted, t
<1> QED  BY <1>0, <1>10, <1>11 DEF Told, t

\* When nothing is left to do all has been told.
LEMMA ToldAll ==
    ASSUME NEW doc, YamlTree(doc), NEW w, NEW D, Told(doc, w, D), Len(w.stack) = 1, DueOf(w.stack) = {}
    PROVE  D = Paths(doc)
<1> DEFINE s == w.stack
           Bad == {k \in Nat : \E p \in Paths(doc) \ D : Len(p) = k}
<1>0. Rooted(doc, D) /\ Stacked(doc, s, D) /\ D \subseteq Paths(doc)
  BY DEF Told, Rooted
<1>1. \A j \in 1..Len(s) : s[j].todo = {}
  BY DEF DueOf
<1>2. <<1>> \in D
  <2>1. 1 \in 1..Len(s)
    OBVIOUS
  <2>2. Stem(s, 1) \in D /\ Len(Stem(s, 1)) = 1 /\ Stem(s, 1) \in Seq(Nodes(doc))
    BY <1>0, <2>1, StemIs
  <2>3. Stem(s, 1)[1] = 1
    BY <1>0, <2>2, PathsAre DEF Way
  <2> QED  BY <2>2, <2>3
<1>3. ASSUME NEW p \in Paths(doc) \ D PROVE FALSE
  <2>1. \A q \in Paths(doc) : Len(q) \in Nat
    BY PathsAre
  <2>2. Bad # {} /\ Bad \in SUBSET Nat
    BY <2>1
  <2>3. PICK k \in Bad : \A j \in Bad : k <= j
    <3> HIDE DEF Bad
    <3> QED  BY <2>2, LeastOf
  <2>4. PICK q \in Paths(doc) \ D : Len(q) = k
    BY <2>3
  <2>5. q \in Seq(Nodes(doc)) /\ Way(doc, q) /\ Len(q) <= Len(doc.parent) + 1 /\ k \in Nat /\ k > 0
        /\ Len(doc.parent) \in Nat
    BY <2>4, PathsAre, NodesAre DEF Way
  <2>6. k # 1
    <3> SUFFICES ASSUME k = 1 PROVE FALSE
      OBVIOUS
    <3>1. q = <<1>>
      BY <2>4, <2>5 DEF Way
    <3> QED  BY <1>2, <2>4, <3>1
  <2> DEFINE b == Cut(q, k - 1)
  <2>7. /\ b \in Seq(Nodes(doc)) /\ Len(b) = k - 1 /\ \A i \in 1..(k - 1) : b[i] = q[i]
        /\ k - 1 \in 1..(k - 1) /\ k - 1 \in Nat /\ k - 1 > 0
    <3>1. k - 1 \in 0..Len(q)
      BY <2>4, <2>5
    <3>2. b \in Seq(Nodes(doc)) /\ Len(b) = k - 1 /\ \A i \in 1..(k - 1) : b[i] = q[i]
      BY <2>5, <3>1, CutIs
    <3> HIDE DEF b
    <3> QED  BY <2>5, <2>6, <3>2
  <2> HIDE DEF b
  <2>8. Way(doc, b)
    <3>1. \A i \in 1..((k - 1) - 1) : i \in 1..(Len(q) - 1) /\ i \in 1..(k - 1) /\ i + 1 \in 1..(k - 1)
      BY <2>4, <2>5
    <3>2. \A i \in 1..((k - 1) - 1) : b[i + 1] \in Nexts(doc, b[i]) \ {0}
      BY <2>5, <2>7, <3>1 DEF Way
    <3>3. b[1] = 1
      <4>1. 1 \in 1..(k - 1)
        BY <2>7
      <4> QED  BY <2>5, <2>7, <4>1 DEF Way
    <3> QED  BY <2>7, <3>2, <3>3 DEF Way
  <2>9. b \in Paths(doc)
    <3>1. Len(b) <= Len(doc.parent) + 1
      BY <2>4, <2>5, <2>7
    <3> QED  BY <2>7, <2>8, <3>1, PathsAre
  <2>10. b \in D
    <3> SUFFICES ASSUME b \notin D PROVE FALSE
      OBVIOUS
    <3>1. k - 1 \in Bad
      BY <2>7, <2>9
    <3> QED  BY <2>3, <2>5, <3>1
  <2>11. q[k] \in Nexts(doc, b[Len(b)]) \ {0}
    <3>1. k - 1 \in 1..(Len(q) - 1) /\ (k - 1) + 1 = k
      BY <2>4, <2>5, <2>7
    <3>2. q[(k - 1) + 1] \in Nexts(doc, q[k - 1]) \ {0}
      BY <2>5, <3>1 DEF Way
    <3>3. b[Len(b)] = q[k - 1]
      BY <2>7
    <3> QED  BY <3>1, <3>2, <3>3
  <2>12. Append(b, q[k]) \in D
    BY <1>0, <1>1, <2>10, <2>11 DEF Stacked
  <2>13. Append(b, q[k]) = q
    <3>1. q[k] \in Nodes(doc)
      BY <2>4, <2>5
    <3>2. Append(b, q[k]) \in Seq(Nodes(doc)) /\ Len(Append(b, q[k])) = k
          /\ \A i \in 1..k : Append(b, q[k])[i] = q[i]
      BY <2>5, <2>7, <3>1
    <3> QED  BY <2>4, <2>5, <3>2, SameSeq
  <2> QED  BY <2>4, <2>12, <2>13
<1> QED  BY <1>0, <1>3

\* Each node is on a path, reached from its parent.
LEMMA PathTo ==
    ASSUME NEW doc, YamlTree(doc), NEW n \in Nodes(doc)
    PROVE  \E p \in Paths(doc) : p[Len(p)] = n /\ (n # 1 => Len(p) > 1 /\ p[Len(p) - 1] = doc.parent[n])
<1>1. PICK p : /\ Way(doc, p) /\ p[Len(p)] = n /\ Len(p) <= n
               /\ n # 1 => Len(p) > 1 /\ p[Len(p) - 1] = doc.parent[n]
  BY TreeWay
<1>2. p \in Seq(Nodes(doc)) /\ Len(p) \in Nat /\ n \in 1..Len(doc.parent) /\ Len(doc.parent) \in Nat
  BY <1>1, NodesAre DEF Way
<1>3. Len(p) <= Len(doc.parent) + 1
  BY <1>1, <1>2
<1>4. p \in Paths(doc)
  BY <1>1, <1>2, <1>3, PathsAre
<1> QED  BY <1>1, <1>4

\* What has been told to its end is representable.
LEMMA ToldIsRepresentable ==
    ASSUME NEW doc, YamlTree(doc), NEW w, Told(doc, w, Paths(doc)), ~PreflightFails(doc)
    PROVE  Representable(doc)
<1>0. Rooted(doc, Paths(doc)) /\ Counted(doc, w, Paths(doc)) /\ \A p \in Paths(doc) : Fine(doc, p)
  BY DEF Told, Rooted
<1>1. Aliases(doc) \subseteq Nodes(doc) /\ Keyed(doc) \subseteq Nodes(doc) /\ Nodes(doc) \subseteq Nat
  BY NodesAre DEF Aliases, Keyed
<1>2. \A n \in Nodes(doc) : doc.kind[n] # "foreign" /\ doc.leaf[n].kind # "lone"
  <2> SUFFICES ASSUME NEW n \in Nodes(doc) PROVE doc.kind[n] # "foreign" /\ doc.leaf[n].kind # "lone"
    OBVIOUS
  <2>1. PICK p \in Paths(doc) : p[Len(p)] = n
    BY PathTo
  <2> QED  BY <1>0, <2>1 DEF Fine
<1>3. \A n \in Aliases(doc) : doc.target[n] # 0
  <2> SUFFICES ASSUME NEW n \in Aliases(doc) PROVE doc.target[n] # 0
    OBVIOUS
  <2>1. PICK p \in Paths(doc) : p[Len(p)] = n
    BY <1>1, PathTo
  <2> QED  BY <1>0, <2>1 DEF Fine
<1>4. ASSUME NEW n \in Keyed(doc)
      PROVE  /\ doc.key[n].kind \notin {"merge", "nonstring", "missing", "lone"}
             /\ ~ \E m \in Keyed(doc) : m < n /\ doc.parent[m] = doc.parent[n] /\ doc.key[m] = doc.key[n]
  <2>1. n \in Nodes(doc) /\ n # 1
    BY <1>1 DEF Keyed, YamlTree
  <2>2. PICK p \in Paths(doc) : p[Len(p)] = n /\ Len(p) > 1 /\ p[Len(p) - 1] = doc.parent[n]
    BY <2>1, PathTo
  <2> QED  BY <1>0, <2>2 DEF Fine
<1>5. ~SameKey(doc)
  <2> SUFFICES ASSUME NEW m \in Keyed(doc), NEW n \in Keyed(doc), m # n, doc.parent[m] = doc.parent[n],
                      doc.key[m] = doc.key[n]
               PROVE  FALSE
    BY DEF SameKey
  <2>1. m \in Nat /\ n \in Nat
    BY <1>1
  <2>2. m < n \/ n < m
    BY <2>1
  <2> QED  BY <1>4, <2>2
<1>6. ~Circular(doc)
  <2> SUFFICES ASSUME NEW n \in Aliases(doc), doc.target[n] \in Ancestors(doc, n) PROVE FALSE
    BY DEF Circular
  <2> DEFINE a == doc.target[n]
  <2>1. PICK p : /\ Way(doc, p) /\ p[Len(p)] = n /\ Len(p) <= n
                 /\ \A b \in Ancestors(doc, n) : \E i \in 1..Len(p) : p[i] = b
    BY <1>1, TreeWay
  <2>2. PICK i \in 1..Len(p) : p[i] = a
    BY <2>1
  <2>3. a \in Nodes(doc) /\ a \in Nexts(doc, n) \ {0}
    <3>1. a \in Nodes(doc)
      BY <1>1, AncestorsAbove
    <3>2. a # 0
      BY <1>1, <3>1, NodesAre
    <3> QED  BY <3>1, <3>2 DEF Nexts, Aliases
  <2> HIDE DEF a
  <2> DEFINE q == Append(p, a)
  <2>4. p \in Seq(Nodes(doc)) /\ Len(p) \in Nat /\ Len(p) > 0
    BY <2>1 DEF Way
  <2>5. q \in Seq(Nodes(doc)) /\ Len(q) = Len(p) + 1 /\ q[Len(p) + 1] = a /\ \A j \in 1..Len(p) : q[j] = p[j]
    BY <2>3, <2>4
  <2> HIDE DEF q
  <2>6. Way(doc, q)
    <3>1. ASSUME NEW j \in 1..Len(p) PROVE q[j + 1] \in Nexts(doc, q[j]) \ {0}
      <4>1. CASE j = Len(p)
        BY <2>1, <2>3, <2>5, <4>1
      <4>2. CASE j # Len(p)
        <5>1. j \in 1..(Len(p) - 1) /\ j + 1 \in 1..Len(p)
          BY <2>4, <4>2
        <5> QED  BY <2>1, <2>5, <5>1 DEF Way
      <4> QED  BY <4>1, <4>2
    <3>2. q[1] = 1 /\ Len(q) - 1 = Len(p) /\ Len(q) > 0
      BY <2>1, <2>4, <2>5 DEF Way
    <3> QED  BY <2>5, <3>1, <3>2 DEF Way
  <2>7. q \in Paths(doc)
    <3>1. n \in 1..Len(doc.parent) /\ Len(doc.parent) \in Nat
      BY <1>1, NodesAre
    <3>2. Len(q) <= Len(doc.parent) + 1
      BY <2>1, <2>4, <2>5, <3>1
    <3> QED  BY <2>5, <2>6, <3>2, PathsAre
  <2>8. i \in 1..Len(q) /\ Len(p) + 1 \in 1..Len(q) /\ i < Len(p) + 1
    BY <2>4, <2>5
  <2>9. q[i] # q[Len(p) + 1]
    BY <1>0, <2>7, <2>8 DEF Fine
  <2> QED  BY <2>2, <2>5, <2>9
<1>7. Cardinality(Paths(doc)) <= MaxNodes /\ Cardinality(AliasPaths(doc)) <= MaxAliases
  <2>1. Paths(doc) \cap AliasPaths(doc) = AliasPaths(doc)
    BY DEF AliasPaths
  <2> QED  BY <1>0, <2>1 DEF Counted
<1>8. \A p \in Paths(doc) : DepthOf(doc, p) <= MaxDepth
  BY <1>0 DEF Fine
<1>9. ~IllFormed(doc)
  BY <1>2, <1>4 DEF IllFormed
<1> QED  BY <1>2, <1>3, <1>4, <1>5, <1>6, <1>7, <1>8, <1>9 DEF Representable

\* What is printed of all paths is what is meant.
LEMMA PrintedAll ==
    ASSUME NEW doc, NEW out, Printed(doc, out, Paths(doc))
    PROVE  /\ Len(out) = Cardinality(NodePaths(doc))
           /\ \A p \in NodePaths(doc) :
                 out[Cardinality({q \in NodePaths(doc) : Before(q, p)}) + 1] = <<DepthOf(doc, p), Last(p)>>
<1>1. Paths(doc) \cap NodePaths(doc) = NodePaths(doc)
  BY DEF NodePaths
<1> QED  BY <1>1 DEF Printed, Last

\* What the model looks at next is what the lemmas above are about.
LEMMA DueIs ==
    ASSUME YamlTree(input.doc), NEW D, Told(input.doc, work, D)
    PROVE  /\ Unstarted <=> Len(work.stack) = 0
           /\ Due = DueOf(work.stack)
           /\ Due # {} => /\ DueDepth = DepthOf(input.doc, PathOf(work.stack))
                          /\ ~Unstarted => Top.node = PathOf(work.stack)[Len(work.stack)]
           /\ work.active = {work.stack[i].node : i \in 1..Len(work.stack)}
<1> DEFINE doc == input.doc  s == work.stack  l == Len(s)
<1>0. Rooted(doc, D) /\ Stacked(doc, s, D) /\ Counted(doc, work, D) /\ D \in SUBSET Paths(doc)
  BY DEF Told, Rooted
<1>1. l \in Nat
  BY <1>0, StemIs
<1>2. l > 0 => l \in 1..l /\ Stem(s, l) \in D
  <2>1. l > 0 => l \in 1..l
    BY <1>1
  <2> QED  BY <1>0, <2>1, StemIs
<1>3. Unstarted <=> D = {}
  <2>1. work.nodes = Cardinality(D) /\ IsFiniteSet(D)
    BY <1>0, ToldFinite DEF Counted
  <2> QED  BY <2>1, FS_EmptySet DEF Unstarted
<1>4. Unstarted <=> l = 0
  BY <1>0, <1>1, <1>2, <1>3 DEF Stacked
<1>5. Due = DueOf(s)
  BY <1>1, <1>4 DEF Due, DueOf, Top
<1>6. ASSUME Due # {} PROVE DueDepth = DepthOf(doc, PathOf(s)) /\ (~Unstarted => Top.node = PathOf(s)[l])
  <2>1. /\ PathOf(s) \in Seq(Nodes(doc)) /\ Len(PathOf(s)) = l + 1 /\ Min(DueOf(s)) \in Nodes(doc)
        /\ \A i \in 1..l : PathOf(s)[i] = s[i].node
    BY <1>0, <1>5, <1>6, NextPath
  <2>2. Nodes(doc) \subseteq Nat
    BY NodesAre
  <2>3. CASE l = 0
    <3>1. DueDepth = 0
      BY <1>4, <2>3 DEF DueDepth
    <3>2. DepthOf(doc, PathOf(s)) = 0
      <4>1. {i \in 1..(Len(PathOf(s)) - 1) : PathOf(s)[i] \notin Aliases(doc)} = {}
        BY <1>1, <2>1, <2>3
      <4> QED  BY <4>1, FS_EmptySet DEF DepthOf
    <3> QED  BY <1>4, <2>3, <3>1, <3>2
  <2>4. CASE l # 0
    <3> DEFINE c == Stem(s, l)
    <3>1. l \in 1..l /\ c \in Seq(Nodes(doc)) /\ Len(c) = l /\ c[l] = s[l].node
      BY <1>0, <1>1, <2>4, StemIs
    <3>2. s[l].depth = DepthOf(doc, c)
      BY <1>0, <3>1 DEF Stacked
    <3>3. DueDepth = s[l].depth + IF s[l].node \in Aliases(doc) THEN 0 ELSE 1
      BY <1>4, <2>4 DEF DueDepth, Top
    <3>4. PathOf(s) = Append(c, Min(DueOf(s)))
      BY DEF PathOf
    <3>5. c \in Seq(Nat) /\ Len(c) > 0 /\ Min(DueOf(s)) \in Nat
      BY <1>1, <2>1, <2>2, <2>4, <3>1
    <3> HIDE DEF c, s, l
    <3>6. DepthOf(doc, PathOf(s)) = DepthOf(doc, c) + IF c[Len(c)] \in Aliases(doc) THEN 0 ELSE 1
      BY <3>4, <3>5, Deeper
    <3>7. DueDepth = DepthOf(doc, PathOf(s))
      BY <3>1, <3>2, <3>3, <3>6
    <3>8. Top.node = PathOf(s)[l]
      BY <2>1, <3>1 DEF Top, s, l
    <3> QED  BY <3>7, <3>8
  <2> QED  BY <2>3, <2>4
<1>7. work.active = {s[i].node : i \in 1..l}
  BY <1>0 DEF Counted
<1> QED  BY <1>4, <1>5, <1>6, <1>7

\* What passes the checks is fine.
LEMMA EntryIsFine ==
    ASSUME YamlTree(input.doc), NEW D, Told(input.doc, work, D), Due # {},
           KeyFault(input.doc, Min(Due)) = "none", EntryFault(input.doc, Min(Due), DueDepth) = "none"
    PROVE  /\ Fine(input.doc, PathOf(work.stack)) /\ work.nodes + 1 <= MaxNodes
           /\ Min(Due) \in Aliases(input.doc) => work.aliases + 1 <= MaxAliases
<1> DEFINE doc == input.doc  s == work.stack  l == Len(s)  n == Min(Due)  P == PathOf(s)
<1>0. YamlTree(doc) /\ Rooted(doc, D) /\ Stacked(doc, s, D)
  BY DEF Told
<1>1. /\ Unstarted <=> l = 0
      /\ DueDepth = DepthOf(doc, P) /\ (~Unstarted => Top.node = P[l])
      /\ work.active = {s[i].node : i \in 1..l} /\ DueOf(s) = Due
  BY DueIs
<1>2. l \in Nat
  BY <1>0, StemIs
<1>3. /\ P \in Seq(Nodes(doc)) /\ Len(P) = l + 1 /\ P[l + 1] = n /\ n \in Nodes(doc)
      /\ \A i \in 1..l : P[i] = s[i].node
  BY <1>0, <1>1, NextPath
<1>4. work.nodes + 1 \in Nat /\ work.aliases + 1 \in Nat /\ DepthOf(doc, P) \in Nat /\ MaxNodes \in Nat /\ MaxAliases \in Nat /\ MaxDepth \in Nat
  <2>1. D \in SUBSET Paths(doc) /\ Counted(doc, work, D)
    BY DEF Told, Rooted
  <2>2. work.nodes \in Nat /\ work.aliases \in Nat
    BY <2>1, ToldFinite DEF Counted
  <2>3. P \in Seq(Nat) /\ Len(P) > 0 /\ n \in Nat
    <3>1. Nodes(doc) \subseteq Nat
      BY NodesAre
    <3> HIDE DEF P, n, l
    <3> QED  BY <1>2, <1>3, <3>1
  <2>4. DepthOf(doc, P) \in Nat
    BY <2>3, Deeper
  <2> QED  BY <2>2, <2>4, LimitsAssumption, MaxAliasesAssumption
<1> HIDE DEF n, P, l, s, doc
<1>5. /\ ~(work.nodes + 1 > MaxNodes \/ DepthOf(doc, P) > MaxDepth) /\ n \notin work.active
      /\ doc.kind[n] # "foreign" /\ doc.leaf[n].kind # "lone"
      /\ n \in Aliases(doc) => ~(work.aliases + 1 > MaxAliases) /\ doc.target[n] # 0
  <2>1. EntryFault(doc, n, DepthOf(doc, P)) = "none"
    BY <1>1 DEF n, doc
  <2>2. doc.leaf[n].kind = "lone" => n \notin Aliases(doc)
    BY <1>0, <1>3 DEF YamlTree, Aliases
  <2> QED  BY <2>1, <2>2 DEF EntryFault
<1>6. work.nodes + 1 <= MaxNodes /\ DepthOf(doc, P) <= MaxDepth /\ (n \in Aliases(doc) => work.aliases + 1 <= MaxAliases)
  BY <1>4, <1>5
<1>7. ASSUME NEW i \in 1..Len(P), NEW j \in 1..Len(P), i < j PROVE P[i] # P[j]
  <2>1. i \in 1..l
    BY <1>2, <1>3, <1>7
  <2>2. CASE j = l + 1
    <3>1. P[j] = n /\ P[i] = s[i].node
      BY <1>3, <2>1, <2>2
    <3> QED  BY <1>1, <1>5, <2>1, <3>1
  <2>3. CASE j # l + 1
    <3>1. j \in 1..l /\ l \in 1..l
      BY <1>2, <1>3, <2>1, <2>3
    <3>2. Stem(s, l) \in D /\ Len(Stem(s, l)) = l /\ \A m \in 1..l : Stem(s, l)[m] = s[m].node
      BY <1>0, <3>1, StemIs DEF l
    <3>3. Fine(doc, Stem(s, l))
      BY <1>0, <3>2 DEF Rooted
    <3>4. Stem(s, l)[i] # Stem(s, l)[j]
      BY <1>7, <2>1, <3>1, <3>2, <3>3 DEF Fine
    <3> QED  BY <1>3, <2>1, <3>1, <3>2, <3>4
  <2> QED  BY <2>2, <2>3
<1>8. ASSUME Len(P) > 1, n \in Keyed(doc), P[Len(P) - 1] = doc.parent[n]
      PROVE  /\ doc.key[n].kind \notin {"merge", "nonstring", "missing", "lone"}
             /\ ~ \E m \in Keyed(doc) : m < n /\ doc.parent[m] = doc.parent[n] /\ doc.key[m] = doc.key[n]
  <2>1. Top.node = doc.parent[n]
    <3>1. Len(P) - 1 = l /\ l # 0
      BY <1>2, <1>3, <1>8
    <3> QED  BY <1>1, <1>8, <3>1
  <2>2. KeyFault(doc, n) = "none"
    BY DEF n, doc
  <2> QED  BY <1>8, <2>1, <2>2 DEF KeyFault
<1>9. P[Len(P)] = n
  BY <1>3
<1>10. Fine(doc, P)
  BY <1>5, <1>6, <1>7, <1>8, <1>9 DEF Fine
<1> QED  BY <1>6, <1>10 DEF doc, P, s, n

\* What is refused cannot be represented, and is invalid only for a reason.
Blamed(doc) ==
    \/ Circular(doc) \/ SameKey(doc) \/ IllFormed(doc)
    \/ \E n \in Aliases(doc) : doc.target[n] = 0

\* What fails one of them cannot be represented, and the blame is right.
LEMMA EntryFaultIs ==
    ASSUME YamlTree(input.doc), NEW D, Told(input.doc, work, D), Due # {},
           NEW code, code # "none",
           \/ code = KeyFault(input.doc, Min(Due))
           \/ code = EntryFault(input.doc, Min(Due), DueDepth)
    PROVE  ~Representable(input.doc) /\ (code = "INVALID_INPUT" => Blamed(input.doc))
<1> DEFINE doc == input.doc  s == work.stack  l == Len(s)  n == Min(Due)  P == PathOf(s)
<1>0. YamlTree(doc) /\ Rooted(doc, D) /\ Stacked(doc, s, D) /\ Counted(doc, work, D) /\ D \in SUBSET Paths(doc)
  BY DEF Told, Rooted
<1>1. /\ DueDepth = DepthOf(doc, P)
      /\ work.active = {s[i].node : i \in 1..l} /\ DueOf(s) = Due
  BY DueIs
<1>2. l \in Nat
  BY <1>0, StemIs
<1>3. /\ P \in Seq(Nodes(doc)) /\ Len(P) = l + 1 /\ P[l + 1] = n /\ n \in Nodes(doc)
      /\ (\A i \in 1..l : P[i] = s[i].node) /\ P \in Paths(doc) \ D
  BY <1>0, <1>1, NextPath
<1> HIDE DEF P, l, s, n, doc
<1>4. /\ work.nodes + 1 <= Cardinality(Paths(doc))
      /\ n \in Aliases(doc) => work.aliases + 1 <= Cardinality(AliasPaths(doc))
      /\ {work.nodes + 1, work.aliases + 1, Cardinality(Paths(doc)), Cardinality(AliasPaths(doc))} \subseteq Nat
  <2>1. work.nodes = Cardinality(D) /\ work.aliases = Cardinality(D \cap AliasPaths(doc))
    BY <1>0 DEF Counted
  <2>2. IsFiniteSet(Paths(doc)) /\ AliasPaths(doc) \in SUBSET Paths(doc)
    BY PathsAre DEF AliasPaths, doc
  <2>3. IsFiniteSet(AliasPaths(doc)) /\ Cardinality(AliasPaths(doc)) \in Nat /\ Cardinality(Paths(doc)) \in Nat
    BY <2>2, FS_Subset, FS_CardinalityType
  <2>4. Cardinality(D) \in Nat /\ Cardinality(D \cap AliasPaths(doc)) \in Nat
    BY <1>0, ToldFinite
  <2>7. P \in Paths(doc) \ D
    BY <1>3
  <2>8. P \in AliasPaths(doc) => Cardinality((D \cup {P}) \cap AliasPaths(doc)) = Cardinality(D \cap AliasPaths(doc)) + 1
    BY <1>0, <2>7, ToldFinite
  <2>9. Cardinality(D) + 1 <= Cardinality(Paths(doc))
    <3>1. Cardinality(D \cup {P}) = Cardinality(D) + 1
      BY <1>0, <2>7, ToldFinite
    <3>2. Cardinality(D \cup {P}) <= Cardinality(Paths(doc))
      <4>1. D \cup {P} \in SUBSET Paths(doc)
        BY <1>0, <2>7
      <4> QED  BY <2>2, <4>1, FS_Subset
    <3> QED  BY <3>1, <3>2
  <2>5. Cardinality((D \cup {P}) \cap AliasPaths(doc)) <= Cardinality(AliasPaths(doc))
    <3>1. (D \cup {P}) \cap AliasPaths(doc) \in SUBSET AliasPaths(doc)
      OBVIOUS
    <3> QED  BY <2>3, <3>1, FS_Subset
  <2>6. n \in Aliases(doc) => P \in AliasPaths(doc)
    <3>1. P[Len(P)] = n
      BY <1>3
    <3> QED  BY <1>3, <3>1, KindsOfPaths
  <2> QED  BY <2>1, <2>3, <2>4, <2>5, <2>6, <2>8, <2>9
<1>5. MaxNodes \in Nat /\ MaxAliases \in Nat /\ MaxDepth \in Nat
  BY LimitsAssumption, MaxAliasesAssumption
<1>6. CASE code = KeyFault(doc, n)
  <2>1. CASE n \in Keyed(doc) /\ doc.key[n].kind \in {"merge", "nonstring", "missing"}
    <3>1. ~Representable(doc)
      BY <2>1 DEF Representable
    <3>2. code # "INVALID_INPUT"
      BY <1>6, <2>1 DEF KeyFault
    <3> QED  BY <3>1, <3>2 DEF doc
  <2>2. CASE n \in Keyed(doc) /\ doc.key[n].kind = "lone"
    <3>1. IllFormed(doc)
      BY <1>3, <2>2 DEF IllFormed
    <3> QED  BY <3>1 DEF Representable, Blamed, doc
  <2>3. CASE ~(n \in Keyed(doc) /\ doc.key[n].kind \in {"merge", "nonstring", "missing", "lone"})
    <3>1. n \in Keyed(doc) /\ \E m \in Keyed(doc) : m < n /\ doc.parent[m] = doc.parent[n] /\ doc.key[m] = doc.key[n]
      BY <1>6, <2>3 DEF KeyFault
    <3>2. PICK m \in Keyed(doc) : m < n /\ doc.parent[m] = doc.parent[n] /\ doc.key[m] = doc.key[n]
      BY <3>1
    <3>3. m # n
      <4>1. m \in Nat /\ n \in Nat
        <5>1. Nodes(doc) \subseteq Nat
          BY NodesAre DEF doc
        <5> QED  BY <1>3, <5>1 DEF Keyed
      <4> QED  BY <3>2, <4>1
    <3>4. SameKey(doc)
      BY <3>1, <3>2, <3>3 DEF SameKey
    <3> QED  BY <3>4 DEF Representable, Blamed, doc
  <2> QED  BY <2>1, <2>2, <2>3
<1>7. CASE code = EntryFault(doc, n, DepthOf(doc, P))
  <2>1. CASE work.nodes + 1 > MaxNodes \/ DepthOf(doc, P) > MaxDepth
    <3>1. code = "LIMIT_EXCEEDED"
      BY <1>7, <2>1 DEF EntryFault
    <3>2. ~(Cardinality(Paths(doc)) <= MaxNodes) \/ ~(DepthOf(doc, P) <= MaxDepth)
      <4>1. CASE work.nodes + 1 > MaxNodes
        BY <1>4, <1>5, <4>1
      <4>2. CASE DepthOf(doc, P) > MaxDepth
        <5>1. P \in Seq(Nat) /\ Len(P) > 0
          <6>1. Nodes(doc) \subseteq Nat
            BY NodesAre DEF doc
          <6> QED  BY <1>2, <1>3, <6>1
        <5>2. DepthOf(doc, P) \in Nat
          BY <5>1, Deeper
        <5> QED  BY <1>5, <4>2, <5>2
      <4> QED  BY <2>1, <4>1, <4>2
    <3>3. ~Representable(doc)
      BY <1>3, <3>2 DEF Representable
    <3> QED  BY <3>1, <3>3 DEF doc
  <2>2. CASE n \in work.active
    <3>1. PICK i \in 1..l : s[i].node = n
      BY <1>1, <2>2
    <3>2. i \in 1..Len(P) /\ l + 1 \in 1..Len(P) /\ i < l + 1 /\ P[i] = P[l + 1]
      BY <1>2, <1>3, <3>1
    <3>3. Way(doc, P)
      BY <1>3, PathsAre DEF doc
    <3>4. Circular(doc)
      BY <3>2, <3>3, NoCircle DEF doc
    <3> QED  BY <3>4 DEF Representable, Blamed, doc
  <2>3. CASE doc.kind[n] = "foreign" /\ n \notin work.active
    <3>1. ~Representable(doc)
      BY <1>3, <2>3 DEF Representable
    <3>2. code # "INVALID_INPUT"
      BY <1>7, <2>3 DEF EntryFault
    <3> QED  BY <3>1, <3>2 DEF doc
  <2>4. CASE /\ ~(work.nodes + 1 > MaxNodes \/ DepthOf(doc, P) > MaxDepth)
             /\ n \notin work.active /\ doc.kind[n] # "foreign" /\ doc.leaf[n].kind # "lone"
    <3>1. n \in Aliases(doc) /\ (work.aliases + 1 > MaxAliases \/ doc.target[n] = 0)
      BY <1>7, <2>4 DEF EntryFault
    <3>2. CASE work.aliases + 1 > MaxAliases
      <4>1. code = "LIMIT_EXCEEDED"
        BY <1>7, <2>4, <3>1, <3>2 DEF EntryFault
      <4>2. ~(Cardinality(AliasPaths(doc)) <= MaxAliases)
        BY <1>4, <1>5, <3>1, <3>2
      <4> QED  BY <4>1, <4>2 DEF Representable, doc
    <3>3. CASE doc.target[n] = 0
      BY <3>1, <3>3 DEF Representable, Blamed, doc
    <3> QED  BY <3>1, <3>2, <3>3
  <2>5. CASE doc.leaf[n].kind = "lone"
    <3>1. IllFormed(doc)
      BY <1>3, <2>5 DEF IllFormed
    <3> QED  BY <3>1 DEF Representable, Blamed, doc
  <2> QED  BY <2>1, <2>2, <2>3, <2>4, <2>5
<1> QED  BY <1>1, <1>6, <1>7 DEF n, doc

\* YamlIsUnfolded, of a text and a result.
UnfoldedTrue(doc, r) ==
    /\ r.kind = "result" <=> Representable(doc)
    /\ r.kind = "result" =>
          /\ Len(r.data) = Cardinality(NodePaths(doc))
          /\ \A p \in NodePaths(doc) :
                r.data[Cardinality({q \in NodePaths(doc) : Before(q, p)}) + 1] = <<DepthOf(doc, p), Last(p)>>
    /\ r = Fault("INVALID_INPUT") => Blamed(doc)

\* The property is of the text and the result, and of nothing else.
LEMMA UnfoldedIs ==
    /\ YamlIsUnfolded <=> (phase = "handled" /\ input.tool = "yaml" => UnfoldedTrue(input.doc, result))
    /\ YamlIsUnfolded' <=> (phase' = "handled" /\ input'.tool = "yaml" => UnfoldedTrue(input'.doc, result'))
  BY DEF YamlIsUnfolded, UnfoldedTrue, Blamed

\* Something is refused that cannot be represented.
LEMMA RefusedRightly ==
    ASSUME NEW doc, NEW code, code \in {"INVALID_INPUT", "LIMIT_EXCEEDED", "UNSUPPORTED"}, ~Representable(doc), code = "INVALID_INPUT" => Blamed(doc)
    PROVE  UnfoldedTrue(doc, Fault(code))
<1>1. Fault(code).kind # "result" /\ Fault(code).code = code
  BY DEF Fault
<1>2. Fault(code) = Fault("INVALID_INPUT") => code = "INVALID_INPUT"
  <2>1. Fault("INVALID_INPUT").code = "INVALID_INPUT"
    BY DEF Fault
  <2> QED  BY <1>1, <2>1
<1> QED  BY <1>1, <1>2 DEF UnfoldedTrue

-----------------------------------------------------------------------------
(* YAML: the steps.                                                       *)

\* Calls are under way only for a text that has passed the preflight.
YamlWorking(doc, w) == ~PreflightFails(doc) /\ \E D : Told(doc, w, D)

\* At every step a beginning of the unfolded tree has been told, as the stack says.
YamlInv ==
    input.tool = "yaml" =>
        /\ phase # "awaiting"
        /\ phase = "working" => YamlWorking(input.doc, work)
        /\ YamlIsUnfolded

\* Before the first call nothing has been told.
LEMMA ToldNothing ==
    ASSUME NEW doc, YamlTree(doc)
    PROVE  Told(doc, [stack |-> <<>>, nodes |-> 0, aliases |-> 0, active |-> {}, out |-> <<>>], {})
<1>1. Rooted(doc, {})
  BY DEF Rooted
<1>2. Stacked(doc, <<>>, {})
  BY DEF Stacked
<1>3. Cardinality({}) = 0 /\ {} \cap AliasPaths(doc) = {} /\ {} \cap NodePaths(doc) = {}
  BY FS_EmptySet
<1>4. Printed(doc, <<>>, {})
  BY <1>3 DEF Printed
<1>5. 0 <= MaxNodes /\ 0 <= MaxAliases
  BY LimitsAssumption, MaxAliasesAssumption
<1> DEFINE w == [stack |-> <<>>, nodes |-> 0, aliases |-> 0, active |-> {}, out |-> <<>>]
<1>6. w.stack = <<>> /\ w.nodes = 0 /\ w.aliases = 0 /\ w.active = {} /\ w.out = <<>>
  OBVIOUS
<1>7. {w.stack[i].node : i \in 1..Len(w.stack)} = {}
  BY <1>6
<1> HIDE DEF w
<1>8. Counted(doc, w, {})
  BY <1>3, <1>4, <1>5, <1>6, <1>7 DEF Counted
<1>9. Told(doc, w, {})
  BY <1>1, <1>2, <1>6, <1>8 DEF Told
<1> QED  BY <1>9 DEF w

\* A call begins or is refused.
LEMMA EnterKeeps ==
    ASSUME YamlTree(input.doc), YamlWorking(input.doc, work), Enter
    PROVE  \/ phase' = "working" /\ YamlWorking(input.doc, work')
           \/ phase' = "handled" /\ UnfoldedTrue(input.doc, result')
<1> DEFINE doc == input.doc  s == work.stack  n == Min(Due)  key == KeyFault(doc, n)
           entry == EntryFault(doc, n, DueDepth)
           left == IF Unstarted THEN <<>> ELSE [s EXCEPT ![Len(s)].todo = @ \ {n}]
           next == [stack |-> Append(left, [node |-> n, depth |-> DueDepth, todo |-> Nexts(doc, n)]),
                    nodes |-> work.nodes + 1,
                    aliases |-> work.aliases + IF n \in Aliases(doc) THEN 1 ELSE 0,
                    active |-> work.active \cup {n},
                    out |-> IF n \in Aliases(doc) THEN work.out ELSE Append(work.out, <<DueDepth, n>>)]
<1>1. PICK D : Told(doc, work, D)
  BY DEF YamlWorking
<1>2. /\ Due # {}
      /\ IF {key, entry} # {"none"} THEN Leave(Fault(IF key # "none" THEN key ELSE entry)) ELSE Proceed(next)
  BY DEF Enter
<1>3. /\ Unstarted <=> Len(s) = 0
      /\ Due = DueOf(s) /\ DueDepth = DepthOf(doc, PathOf(s))
  BY <1>1, <1>2, DueIs
<1>4. /\ key \in {"none", "UNSUPPORTED", "INVALID_INPUT"}
      /\ entry \in {"none", "UNSUPPORTED", "INVALID_INPUT", "LIMIT_EXCEEDED"}
  BY DEF KeyFault, EntryFault
<1>5. CASE {key, entry} # {"none"}
  <2> DEFINE code == IF key # "none" THEN key ELSE entry
  <2>1. phase' = "handled" /\ result' = Fault(code)
    BY <1>2, <1>5 DEF Leave
  <2>2. code # "none" /\ code \in {"UNSUPPORTED", "INVALID_INPUT", "LIMIT_EXCEEDED"} /\ (code = key \/ code = entry)
    <3> HIDE DEF key, entry
    <3> QED  BY <1>4, <1>5
  <2>3. ~Representable(doc) /\ (code = "INVALID_INPUT" => Blamed(doc))
    <3> HIDE DEF code
    <3> QED  BY <1>1, <1>2, <2>2, EntryFaultIs
  <2> HIDE DEF code, doc
  <2>4. UnfoldedTrue(doc, Fault(code))
    BY <2>2, <2>3, RefusedRightly
  <2> QED  BY <2>1, <2>4 DEF doc
<1>6. CASE key = "none" /\ entry = "none"
  <2>1. Proceed(next)
    BY <1>2, <1>6
  <2>2. phase' = "working" /\ work' = next
    BY <2>1 DEF Proceed
  <2>3. Fine(doc, PathOf(s)) /\ work.nodes + 1 <= MaxNodes /\ (n \in Aliases(doc) => work.aliases + 1 <= MaxAliases)
    BY <1>1, <1>2, <1>6, EntryIsFine
  <2>4. next.stack = Started(doc, s)
    BY <1>3 DEF Started
  <2>5. /\ next.nodes = work.nodes + 1 /\ next.active = work.active \cup {n}
        /\ next.aliases = work.aliases + IF n \in Aliases(doc) THEN 1 ELSE 0
        /\ next.out = IF n \in Aliases(doc) THEN work.out ELSE Append(work.out, <<DepthOf(doc, PathOf(s)), n>>)
    BY <1>3
  <2> HIDE DEF next
  <2>6. Told(doc, next, D \cup {PathOf(s)})
    BY <1>1, <1>2, <1>3, <2>3, <2>4, <2>5, ToldNext
  <2>7. ~PreflightFails(doc)
    BY DEF YamlWorking
  <2> QED  BY <2>2, <2>6, <2>7 DEF YamlWorking
<1> HIDE DEF key, entry
<1> QED  BY <1>5, <1>6

\* A call returns, the last one with the output.
LEMMA ReturnKeeps ==
    ASSUME YamlTree(input.doc), YamlWorking(input.doc, work), Return
    PROVE  \/ phase' = "working" /\ YamlWorking(input.doc, work')
           \/ phase' = "handled" /\ UnfoldedTrue(input.doc, result')
<1> DEFINE doc == input.doc  s == work.stack
           next == [work EXCEPT !.stack = Front(@), !.active = @ \ {Top.node}]
<1>1. PICK D : Told(doc, work, D)
  BY DEF YamlWorking
<1>2. ~PreflightFails(doc)
  BY DEF YamlWorking
<1>3. /\ ~Unstarted /\ Due = {}
      /\ IF Len(s) = 1 THEN Leave(Data(work.out)) ELSE Proceed(next)
  BY DEF Return
<1>4. Len(s) # 0 /\ Due = DueOf(s)
  BY <1>1, <1>3, DueIs
<1>5. Len(s) \in Nat
  <2>1. Rooted(doc, D) /\ Stacked(doc, s, D)
    BY <1>1 DEF Told
  <2> QED  BY <2>1, StemIs
<1>6. CASE Len(s) = 1
  <2>1. phase' = "handled" /\ result' = Data(work.out)
    BY <1>3, <1>6 DEF Leave
  <2>2. D = Paths(doc)
    BY <1>1, <1>3, <1>4, <1>6, ToldAll
  <2>3. Representable(doc)
    BY <1>1, <1>2, <2>2, ToldIsRepresentable
  <2>4. Printed(doc, work.out, Paths(doc))
    BY <1>1, <2>2 DEF Told, Counted
  <2>5. Data(work.out).kind = "result" /\ Data(work.out).data = work.out /\ Data(work.out) # Fault("INVALID_INPUT")
    <3>1. Fault("INVALID_INPUT").kind = "error" /\ Data(work.out).kind = "result"
      BY DEF Fault, Data
    <3> QED  BY <3>1 DEF Data
  <2>6. UnfoldedTrue(doc, Data(work.out))
    <3> HIDE DEF doc
    <3>1. /\ Len(work.out) = Cardinality(NodePaths(doc))
          /\ \A p \in NodePaths(doc) :
                work.out[Cardinality({q \in NodePaths(doc) : Before(q, p)}) + 1] = <<DepthOf(doc, p), Last(p)>>
      BY <2>4, PrintedAll
    <3> QED  BY <2>3, <2>5, <3>1 DEF UnfoldedTrue
  <2> QED  BY <2>1, <2>6
<1>7. CASE Len(s) # 1
  <2>1. Len(s) > 1
    BY <1>4, <1>5, <1>7
  <2>2. Proceed(next)
    BY <1>3, <1>7, Zenon
  <2>3. phase' = "working" /\ work' = next
    BY <2>2 DEF Proceed
  <2>4. /\ next.stack = SubSeq(s, 1, Len(s) - 1) /\ next.nodes = work.nodes /\ next.aliases = work.aliases
        /\ next.active = work.active \ {s[Len(s)].node} /\ next.out = work.out
    BY DEF Front, Top
  <2> HIDE DEF next
  <2>5. Told(doc, next, D)
    BY <1>1, <1>3, <1>4, <2>1, <2>4, ToldBack
  <2> QED  BY <1>2, <2>3, <2>5 DEF YamlWorking
<1> QED  BY <1>6, <1>7

\* Every step keeps what has been told.
LEMMA YamlStep ==
    ASSUME RuntimeInv, YamlInv, [Next]_callVars
    PROVE  YamlInv'
<1> SUFFICES ASSUME input'.tool = "yaml"
             PROVE  /\ phase' # "awaiting"
                    /\ phase' = "working" => YamlWorking(input'.doc, work')
                    /\ YamlIsUnfolded'
  BY DEF YamlInv
<1>1. input' = input
  BY DEF Next, callVars, Parse, Settle, Check, Abort, Structured, Regex, Password, Base64, Epoch, Chmod,
         Unfold, Parsed, FormatJson, Start, Enter, Return, RegexStart, NoMatch, TooMany, Match, OverBudget,
         PasswordStart, Drawn, Passphrase, Draw, Proceed, Leave
<1>2. /\ phase # "awaiting" /\ YamlIsUnfolded
      /\ phase = "working" => YamlWorking(input.doc, work)
  BY <1>1 DEF YamlInv
<1>3. YamlTree(input.doc)
  BY <1>1, InputsAssumption DEF RuntimeInv, CallInv
<1>4. ASSUME \/ phase' = "working" /\ YamlWorking(input.doc, work')
             \/ phase' = "handled" /\ UnfoldedTrue(input.doc, result')
      PROVE  /\ phase' # "awaiting"
             /\ phase' = "working" => YamlWorking(input'.doc, work')
             /\ YamlIsUnfolded'
  BY <1>1, <1>4, UnfoldedIs
<1>5. CASE Start
  <2>1. CASE PreflightFails(input.doc)
    <3>1. phase' = "handled" /\ result' = Fault("LIMIT_EXCEEDED")
      BY <1>5, <2>1 DEF Start, Leave
    <3>2. ~Representable(input.doc)
      BY <2>1 DEF Representable
    <3>3. UnfoldedTrue(input.doc, Fault("LIMIT_EXCEEDED"))
      BY <3>2, RefusedRightly
    <3> QED  BY <1>4, <3>1, <3>3
  <2>2. CASE ~PreflightFails(input.doc)
    <3>1. phase' = "working" /\ work' = [stack |-> <<>>, nodes |-> 0, aliases |-> 0, active |-> {}, out |-> <<>>]
      BY <1>5, <2>2 DEF Start, Proceed
    <3>2. Told(input.doc, work', {})
      BY <1>3, <3>1, ToldNothing
    <3> QED  BY <1>4, <2>2, <3>1, <3>2 DEF YamlWorking
  <2> QED  BY <2>1, <2>2
<1>6. CASE Enter
  <2>1. phase = "working"
    BY <1>6 DEF Enter, Working
  <2> QED  BY <1>2, <1>3, <1>4, <1>6, <2>1, EnterKeeps
<1>7. CASE Return
  <2>1. phase = "working"
    BY <1>7 DEF Return, Working
  <2> QED  BY <1>2, <1>3, <1>4, <1>7, <2>1, ReturnKeeps
<1>8. CASE Parse \/ Check
  <2>1. phase' \in {"parsed", "settled"}
    BY <1>8 DEF Parse, Check, Settle
  <2> QED  BY <2>1, UnfoldedIs
<1>9. CASE Abort \/ UNCHANGED callVars
  <2>1. UNCHANGED <<input, phase, work, result>>
    BY <1>9 DEF Abort, callVars
  <2> QED  BY <1>2, <2>1, UnfoldedIs
<1>10. ~(FormatJson \/ Regex \/ Password \/ Base64 \/ Epoch \/ Chmod \/ Unfold \/ Parsed)
  BY <1>1, <1>2 DEF Regex, Password, Base64, Epoch, Chmod, Unfold, Parsed, FormatJson,
         RegexStart, NoMatch, TooMany, Match, OverBudget, PasswordStart, Drawn, Passphrase, Draw, Begun, Working
<1> QED  BY <1>5, <1>6, <1>7, <1>8, <1>9, <1>10 DEF Next, Structured

-----------------------------------------------------------------------------
(* E-mail headers: the loop over the lines, and the report.                *)

\* What a line of the text can be, and the state of the loop over the lines.
Sorts == {"received", "authentication", "other", "empty", "text", "overlong"} \cup Folds
HeaderRows == [sort : Sorts, semicolon : BOOLEAN, text : LineTexts]
HeaderFields == [sort : Sorts, stamp : Seq(LineTexts)]
ReadStates == [fields : Seq(HeaderFields), fault : {"none", "INVALID_INPUT", "LIMIT_EXCEEDED"}]

\* The lines among the first n that start a field, and those that belong to a field.
Starting(lines, n) == {i \in 1..n : lines[i].sort \notin Folds}
OwnLines(lines, n, i) == {j \in 1..n : j >= i /\ \A k \in (i + 1)..j : lines[k].sort \in Folds}
Marks(lines, n, i) == {j \in OwnLines(lines, n, i) : lines[j].semicolon}
StampIs(lines, n, i, stamp) ==
    \/ Marks(lines, n, i) = {} /\ stamp = <<>>
    \/ \E m \in Marks(lines, n, i), e \in OwnLines(lines, n, i) :
          /\ \A j \in Marks(lines, n, i) : j <= m
          /\ \A j \in OwnLines(lines, n, i) : j <= e
          /\ stamp = TextsOf(lines, m, e)

\* The place that the field of a line has among the fields.
PlaceOf(S, i) == Cardinality(Below(S, i)) + 1

\* A field has the sort of the line that starts it and the texts of its own lines
\* from the last semicolon on; the state of the loop is right when all fields that were started are there.
FieldIs(fields, lines, n, i) ==
    LET p == PlaceOf(Starting(lines, n), i)
    IN  fields[p].sort = lines[i].sort /\ StampIs(lines, n, i, fields[p].stamp)
ReadTrue(state, lines, n) ==
    state.fault = "none" =>
        /\ Len(state.fields) = Cardinality(Starting(lines, n))
        /\ \A i \in Starting(lines, n) : FieldIs(state.fields, lines, n, i)

\* One turn of the loop, by the sort of the line.
LEMMA ReadLineIs ==
    ASSUME NEW state \in ReadStates, NEW line \in HeaderRows
    PROVE  /\ state.fault # "none" => ReadLine(state, line) = state
           /\ state.fault = "none" /\ line.sort \in Folds =>
                 ReadLine(state, line) =
                    IF state.fields = <<>> THEN [state EXCEPT !.fault = "INVALID_INPUT"]
                    ELSE [state EXCEPT !.fields[Len(state.fields)].stamp = Stamp(@, line)]
           /\ state.fault = "none" /\ line.sort \in {"text", "overlong"} =>
                 ReadLine(state, line) =
                    [state EXCEPT !.fault = IF line.sort = "text" THEN "INVALID_INPUT" ELSE "LIMIT_EXCEEDED"]
           /\ state.fault = "none" /\ line.sort \notin Folds /\ line.sort \notin {"text", "overlong"} =>
                 ReadLine(state, line) =
                    [fields |-> Append(state.fields, [sort |-> line.sort, stamp |-> Stamp(<<>>, line)]),
                     fault |-> IF Len(state.fields) = MaxHeaders THEN "LIMIT_EXCEEDED" ELSE "none"]
<1>1. "text" \notin Folds /\ "overlong" \notin Folds
  BY DEF Folds
<1> DEFINE appended == [fields |-> Append(state.fields, [sort |-> line.sort, stamp |-> Stamp(<<>>, line)]),
                        fault |-> IF Len(state.fields) = MaxHeaders THEN "LIMIT_EXCEEDED" ELSE "none"]
           folded == IF state.fields = <<>> THEN [state EXCEPT !.fault = "INVALID_INPUT"]
                     ELSE [state EXCEPT !.fields[Len(state.fields)].stamp = Stamp(@, line)]
           refused == [state EXCEPT !.fault = IF line.sort = "text" THEN "INVALID_INPUT" ELSE "LIMIT_EXCEEDED"]
<1>2. ReadLine(state, line) =
         IF state.fault # "none" THEN state
         ELSE CASE line.sort \in Folds -> folded
           [] line.sort \in {"text", "overlong"} -> refused
           [] OTHER -> appended
  BY DEF ReadLine
<1> HIDE DEF appended, folded, refused
<1>3. CASE state.fault # "none"
  BY <1>2, <1>3, Zenon
<1>4. CASE state.fault = "none" /\ line.sort \in Folds
  BY <1>1, <1>2, <1>4 DEF folded
<1>5. CASE state.fault = "none" /\ line.sort \in {"text", "overlong"}
  BY <1>1, <1>2, <1>5 DEF refused
<1>6. CASE state.fault = "none" /\ line.sort \notin Folds /\ line.sort \notin {"text", "overlong"}
  BY <1>2, <1>6 DEF appended
<1> QED  BY <1>3, <1>4, <1>5, <1>6

\* The texts behind a semicolon are texts.
LEMMA StampTexts ==
    ASSUME NEW before \in Seq(LineTexts), NEW line \in HeaderRows
    PROVE  Stamp(before, line) \in Seq(LineTexts)
<1>1. line.text \in LineTexts
  BY DEF HeaderRows
<1>2. <<line.text>> \in Seq(LineTexts) /\ Append(before, line.text) \in Seq(LineTexts) /\ <<>> \in Seq(LineTexts)
  BY <1>1
<1> QED  BY <1>2 DEF Stamp

\* Lines that start fields are finitely many, and have places in their order.
LEMMA StartingIs ==
    ASSUME NEW lines \in Seq(HeaderRows), NEW n \in Nat
    PROVE  /\ IsFiniteSet(Starting(lines, n)) /\ Starting(lines, n) \in SUBSET Nat
           /\ Cardinality(Starting(lines, n)) \in Nat
           /\ \A i \in Starting(lines, n) : i \in 1..n /\ PlaceOf(Starting(lines, n), i) \in 1..Cardinality(Starting(lines, n))
<1>1. IsFiniteSet(1..n)
  BY FS_Interval
<1>2. Starting(lines, n) \subseteq 1..n
  BY DEF Starting
<1>3. IsFiniteSet(Starting(lines, n)) /\ Starting(lines, n) \in SUBSET Nat
  BY <1>1, <1>2, FS_Subset
<1>4. Cardinality(Starting(lines, n)) \in Nat
  BY <1>3, FS_CardinalityType
<1>5. \A i \in Starting(lines, n) :
         Cardinality(Below(Starting(lines, n), i)) \in 0..(Cardinality(Starting(lines, n)) - 1)
  <2> DEFINE S == Starting(lines, n)
  <2>1. S \in SUBSET Nat /\ IsFiniteSet(S)
    BY <1>3
  <2> HIDE DEF S
  <2>2. \A i \in S : Cardinality(Below(S, i)) \in 0..(Cardinality(S) - 1)
    BY <2>1, RankIs
  <2> QED  BY <2>2 DEF S
<1> QED  BY <1>2, <1>3, <1>4, <1>5 DEF PlaceOf

\* The greatest of a set of places is the last in their order, and no other is.
LEMMA LastPlace ==
    ASSUME NEW S \in SUBSET Nat, IsFiniteSet(S), NEW i \in S
    PROVE  PlaceOf(S, i) = Cardinality(S) <=> \A k \in S : k <= i
<1>1. Cardinality(S) \in Nat /\ Cardinality(Below(S, i)) \in 0..(Cardinality(S) - 1)
  BY RankIs
<1>2. ASSUME \A k \in S : k <= i PROVE PlaceOf(S, i) = Cardinality(S)
  <2>1. \A k \in S : k < i <=> k # i
    BY <1>2
  <2>2. Below(S, i) = S \ {i}
    BY <2>1 DEF Below
  <2>3. Cardinality(S \ {i}) = Cardinality(S) - 1
    BY FS_RemoveElement
  <2> QED  BY <1>1, <2>2, <2>3 DEF PlaceOf
<1>3. ASSUME NEW k \in S, ~(k <= i) PROVE PlaceOf(S, i) # Cardinality(S)
  <2>1. Below(S, i) \subseteq S \ {i, k}
    BY <1>3 DEF Below
  <2>2. IsFiniteSet(S \ {i}) /\ Cardinality(S \ {i}) = Cardinality(S) - 1
    BY FS_RemoveElement
  <2>3. k \in S \ {i} /\ (S \ {i}) \ {k} = S \ {i, k}
    BY <1>3
  <2>4. IsFiniteSet(S \ {i, k}) /\ Cardinality(S \ {i, k}) = Cardinality(S \ {i}) - 1
    BY <2>2, <2>3, FS_RemoveElement
  <2>5. Cardinality(Below(S, i)) <= Cardinality(S \ {i, k})
    BY <2>1, <2>4, FS_Subset
  <2> QED  BY <1>1, <2>2, <2>4, <2>5 DEF PlaceOf
<1> QED  BY <1>2, <1>3

\* What line n + 1 does to the lines of a field.
LEMMA OwnNext ==
    ASSUME NEW lines \in Seq(HeaderRows), NEW n \in Nat, NEW i \in 1..n, n + 1 <= Len(lines)
    PROVE  /\ lines[n + 1].sort \in Folds /\ (\A k \in Starting(lines, n) : k <= i) =>
                 /\ OwnLines(lines, n + 1, i) = OwnLines(lines, n, i) \cup {n + 1}
                 /\ n \in OwnLines(lines, n, i)
           /\ lines[n + 1].sort \notin Folds \/ (\E k \in Starting(lines, n) : ~(k <= i)) =>
                 OwnLines(lines, n + 1, i) = OwnLines(lines, n, i)
<1>1. \A j \in 1..n : j \in OwnLines(lines, n + 1, i) <=> j \in OwnLines(lines, n, i)
  BY DEF OwnLines
<1>2. OwnLines(lines, n, i) \subseteq 1..n /\ OwnLines(lines, n + 1, i) \subseteq 1..(n + 1)
  BY DEF OwnLines
<1>3. 1..(n + 1) = (1..n) \cup {n + 1}
  OBVIOUS
<1>4. n + 1 \in OwnLines(lines, n + 1, i) <=> \A k \in (i + 1)..(n + 1) : lines[k].sort \in Folds
  BY DEF OwnLines
<1>5. (\E k \in Starting(lines, n) : ~(k <= i)) <=> ~ \A k \in (i + 1)..n : lines[k].sort \in Folds
  BY DEF Starting
<1>6. (\A k \in (i + 1)..(n + 1) : lines[k].sort \in Folds)
      <=> lines[n + 1].sort \in Folds /\ \A k \in (i + 1)..n : lines[k].sort \in Folds
  OBVIOUS
<1>7. n \in OwnLines(lines, n, i) <=> \A k \in (i + 1)..n : lines[k].sort \in Folds
  BY DEF OwnLines
<1> HIDE DEF OwnLines
<1> QED  BY <1>1, <1>2, <1>3, <1>4, <1>5, <1>6, <1>7

\* A line that starts no field.
LEMMA StartingFold ==
    ASSUME NEW lines \in Seq(HeaderRows), NEW n \in Nat, lines[n + 1].sort \in Folds
    PROVE  Starting(lines, n + 1) = Starting(lines, n)
BY DEF Starting

\* A line that starts a field comes last, and moves no other.
LEMMA StartingField ==
    ASSUME NEW lines \in Seq(HeaderRows), NEW n \in Nat, lines[n + 1].sort \notin Folds
    PROVE  /\ Starting(lines, n + 1) = Starting(lines, n) \cup {n + 1}
           /\ Cardinality(Starting(lines, n + 1)) = Cardinality(Starting(lines, n)) + 1
           /\ PlaceOf(Starting(lines, n + 1), n + 1) = Cardinality(Starting(lines, n)) + 1
           /\ \A i \in Starting(lines, n) : PlaceOf(Starting(lines, n + 1), i) = PlaceOf(Starting(lines, n), i)
<1>1. Starting(lines, n + 1) = Starting(lines, n) \cup {n + 1}
  BY DEF Starting
<1>2. n + 1 \notin Starting(lines, n) /\ \A k \in Starting(lines, n) : k \in Nat /\ k < n + 1 /\ ~(n + 1 < k)
  BY DEF Starting
<1>3. Cardinality(Starting(lines, n) \cup {n + 1}) = Cardinality(Starting(lines, n)) + 1
  BY <1>2, StartingIs, FS_AddElement
<1>4. Below(Starting(lines, n + 1), n + 1) = Starting(lines, n)
  <2>1. ~(n + 1 < n + 1)
    OBVIOUS
  <2> QED  BY <1>1, <1>2, <2>1 DEF Below
<1>5. \A i \in Starting(lines, n) : Below(Starting(lines, n + 1), i) = Below(Starting(lines, n), i)
  BY <1>1, <1>2 DEF Below
<1> QED  BY <1>1, <1>3, <1>4, <1>5 DEF PlaceOf

\* What the stamp of a field is does not change with its lines.
LEMMA StampSame ==
    ASSUME NEW lines, NEW n, NEW m, NEW i, NEW stamp, OwnLines(lines, m, i) = OwnLines(lines, n, i),
           StampIs(lines, n, i, stamp)
    PROVE  StampIs(lines, m, i, stamp)
BY DEF StampIs, Marks

\* The first line of a field.
LEMMA StampFirst ==
    ASSUME NEW lines \in Seq(HeaderRows), NEW n \in 1..Len(lines)
    PROVE  StampIs(lines, n, n, Stamp(<<>>, lines[n]))
<1>1. OwnLines(lines, n, n) = {n}
  BY DEF OwnLines
<1>2. CASE lines[n].semicolon
  <2>1. Stamp(<<>>, lines[n]) = TextsOf(lines, n, n)
    BY <1>2 DEF Stamp, TextsOf
  <2>2. Marks(lines, n, n) = {n}
    BY <1>1, <1>2 DEF Marks
  <2> QED  BY <1>1, <2>1, <2>2 DEF StampIs
<1>3. CASE ~lines[n].semicolon
  BY <1>1, <1>3 DEF StampIs, Marks, Stamp
<1> QED  BY <1>2, <1>3

\* A further line of a field, that of the line before.
LEMMA StampNext ==
    ASSUME NEW lines \in Seq(HeaderRows), NEW n \in Nat, n + 1 <= Len(lines), NEW i \in 1..n,
           OwnLines(lines, n + 1, i) = OwnLines(lines, n, i) \cup {n + 1}, n \in OwnLines(lines, n, i),
           NEW stamp, StampIs(lines, n, i, stamp)
    PROVE  StampIs(lines, n + 1, i, Stamp(stamp, lines[n + 1]))
<1> DEFINE line == lines[n + 1]
           own == OwnLines(lines, n, i)
<1>1. own \subseteq 1..n /\ \A j \in own : j <= n + 1
  BY DEF OwnLines
<1>2. CASE line.semicolon
  <2>1. Marks(lines, n + 1, i) = Marks(lines, n, i) \cup {n + 1}
    BY <1>2 DEF Marks
  <2>2. \A j \in Marks(lines, n + 1, i) : j <= n + 1
    BY <1>1, <2>1 DEF Marks
  <2>3. Stamp(stamp, line) = TextsOf(lines, n + 1, n + 1)
    BY <1>2 DEF Stamp, TextsOf
  <2> QED  BY <1>1, <2>1, <2>2, <2>3 DEF StampIs
<1>3. CASE ~line.semicolon
  <2>1. Marks(lines, n + 1, i) = Marks(lines, n, i)
    BY <1>3 DEF Marks
  <2>2. CASE Marks(lines, n, i) = {} /\ stamp = <<>>
    BY <1>3, <2>1, <2>2 DEF StampIs, Stamp
  <2>3. ASSUME NEW m \in Marks(lines, n, i), NEW e \in own, \A j \in Marks(lines, n, i) : j <= m,
               \A j \in own : j <= e, stamp = TextsOf(lines, m, e)
        PROVE  StampIs(lines, n + 1, i, Stamp(stamp, line))
    <3>1. e = n /\ m \in 1..n
      BY <1>1, <2>3 DEF Marks
    <3>2. stamp = [k \in 1..(n - m + 1) |-> lines[m + k - 1].text] /\ stamp \in Seq(LineTexts)
          /\ Len(stamp) = n - m + 1 /\ stamp # <<>>
      <4>1. stamp = [k \in 1..(n - m + 1) |-> lines[m + k - 1].text]
        BY <2>3, <3>1 DEF TextsOf
      <4>2. \A k \in 1..(n - m + 1) : lines[m + k - 1].text \in LineTexts
        <5> SUFFICES ASSUME NEW k \in 1..(n - m + 1) PROVE lines[m + k - 1].text \in LineTexts
          OBVIOUS
        <5>1. m + k - 1 \in 1..Len(lines)
          BY <3>1
        <5>2. lines[m + k - 1] \in HeaderRows
          BY <5>1
        <5> QED  BY <5>2 DEF HeaderRows
      <4>3. n - m + 1 \in Nat /\ n - m + 1 > 0
        BY <3>1
      <4> DEFINE l == n - m + 1
                 text(k) == lines[m + k - 1].text
      <4>4. stamp = [k \in 1..l |-> text(k)] /\ \A k \in 1..l : text(k) \in LineTexts
        BY <4>1, <4>2
      <4> HIDE DEF l, text
      <4>5. stamp \in Seq(LineTexts) /\ Len(stamp) = l
        <5>1. l \in Nat
          BY <4>3 DEF l
        <5> QED  BY <4>4, <5>1
      <4>6. ASSUME stamp = <<>> PROVE FALSE
        <5>1. Len(stamp) = 0
          BY <4>6
        <5> QED  BY <4>3, <4>5, <5>1 DEF l
      <4> QED  BY <4>1, <4>5, <4>6 DEF l
    <3>3. Stamp(stamp, line) = Append(stamp, line.text)
      <4>1. stamp # <<>>
        BY <3>2
      <4> QED  BY <1>3, <4>1 DEF Stamp
    <3>4. Append(stamp, line.text) = TextsOf(lines, m, n + 1)
      <4>1. (n + 1) - m + 1 = Len(stamp) + 1 /\ m + (Len(stamp) + 1) - 1 = n + 1
        BY <3>1, <3>2
      <4>2. Append(stamp, line.text) = [k \in 1..(Len(stamp) + 1) |-> IF k = Len(stamp) + 1 THEN line.text ELSE stamp[k]]
        <5>1. stamp \in Seq(LineTexts)
          BY <3>2
        <5> HIDE DEF line
        <5> QED  BY <5>1 DEF Append
      <4>3. \A k \in 1..(Len(stamp) + 1) :
               (IF k = Len(stamp) + 1 THEN line.text ELSE stamp[k]) = lines[m + k - 1].text
        <5> SUFFICES ASSUME NEW k \in 1..(Len(stamp) + 1)
                     PROVE  (IF k = Len(stamp) + 1 THEN line.text ELSE stamp[k]) = lines[m + k - 1].text
          OBVIOUS
        <5>1. CASE k = Len(stamp) + 1
          BY <4>1, <5>1
        <5>2. CASE k # Len(stamp) + 1
          <6>1. k \in 1..(n - m + 1)
            BY <3>1, <3>2, <5>2
          <6> QED  BY <3>2, <5>2, <6>1
        <5> QED  BY <5>1, <5>2
      <4> HIDE DEF line
      <4> QED  BY <4>1, <4>2, <4>3 DEF TextsOf
    <3>5. \A j \in OwnLines(lines, n + 1, i) : j <= n + 1
      BY <1>1
    <3> QED  BY <2>1, <2>3, <3>3, <3>4, <3>5 DEF StampIs
  <2> QED  BY <2>2, <2>3 DEF StampIs
<1> QED  BY <1>2, <1>3

\* A turn of the loop that is right leaves it right.
LEMMA ReadNext ==
    ASSUME NEW lines \in Seq(HeaderRows), NEW n \in Nat, n + 1 <= Len(lines),
           NEW state \in ReadStates, ReadTrue(state, lines, n)
    PROVE  /\ ReadLine(state, lines[n + 1]) \in ReadStates
           /\ ReadTrue(ReadLine(state, lines[n + 1]), lines, n + 1)
<1> DEFINE line == lines[n + 1]
           next == ReadLine(state, line)
           S == Starting(lines, n)
           T == Starting(lines, n + 1)
           fields == state.fields
<1>1. line \in HeaderRows /\ line.sort \in Sorts
  <2>1. n + 1 \in 1..Len(lines)
    OBVIOUS
  <2>2. line \in HeaderRows
    BY <2>1
  <2> QED  BY <2>2 DEF HeaderRows
<1>2. state = [fields |-> state.fields, fault |-> state.fault] /\ fields \in Seq(HeaderFields)
      /\ state.fault \in {"none", "INVALID_INPUT", "LIMIT_EXCEEDED"}
  BY DEF ReadStates
<1>3. /\ IsFiniteSet(S) /\ S \in SUBSET Nat /\ Cardinality(S) \in Nat
      /\ \A i \in S : i \in 1..n /\ PlaceOf(S, i) \in 1..Cardinality(S)
  BY StartingIs
<1>4. CASE state.fault # "none"
  <2>1. next = state
    BY <1>1, <1>4, ReadLineIs
  <2> QED  BY <1>4, <2>1 DEF ReadTrue
<1>5. ASSUME NEW code \in {"INVALID_INPUT", "LIMIT_EXCEEDED"}, next = [state EXCEPT !.fault = code]
      PROVE  next \in ReadStates /\ ReadTrue(next, lines, n + 1)
  BY <1>2, <1>5 DEF ReadStates, ReadTrue
<1> HIDE DEF next, line, S, T, fields
<1>6. CASE state.fault = "none" /\ line.sort \in Folds
  <2>1. CASE fields = <<>>
    <3>1. next = [state EXCEPT !.fault = "INVALID_INPUT"]
      BY <1>1, <1>6, <2>1, ReadLineIs DEF next, fields
    <3> QED  BY <1>5, <3>1 DEF next, line
  <2>2. /\ Len(fields) = Cardinality(S) /\ T = S
        /\ \A i \in S : FieldIs(fields, lines, n, i)
    BY <1>6, StartingFold DEF ReadTrue, fields, S, T, line
  <2>3. CASE fields # <<>>
    <3> DEFINE last == fields[Len(fields)]
               stamp == Stamp(last.stamp, line)
    <3>1. next = [state EXCEPT !.fields[Len(state.fields)].stamp = Stamp(@, line)]
      BY <1>1, <1>6, <2>3, ReadLineIs DEF next, fields
    <3>2. Len(fields) \in 1..Len(fields) /\ last \in HeaderFields
      BY <1>2, <2>3
    <3>3. next.fields = [fields EXCEPT ![Len(fields)].stamp = Stamp(@, line)] /\ next.fault = "none"
      BY <1>2, <1>6, <3>1 DEF fields
    <3>4. stamp \in Seq(LineTexts) /\ [last EXCEPT !.stamp = stamp] \in HeaderFields
      <4>1. last.stamp \in Seq(LineTexts)
        BY <3>2 DEF HeaderFields
      <4>2. stamp \in Seq(LineTexts)
        BY <1>1, <4>1, StampTexts
      <4> QED  BY <3>2, <4>2 DEF HeaderFields
    <3>5. next.fields \in Seq(HeaderFields) /\ Len(next.fields) = Len(fields)
          /\ next.fields[Len(fields)] = [last EXCEPT !.stamp = stamp]
          /\ \A p \in 1..Len(fields) : p # Len(fields) => next.fields[p] = fields[p]
      BY <1>2, <3>2, <3>3, <3>4
    <3>6. next.fields[Len(fields)].stamp = stamp /\ next.fields[Len(fields)].sort = last.sort
      <4> HIDE DEF stamp, last
      <4> QED  BY <3>2, <3>5 DEF HeaderFields
    <3>7. next \in ReadStates
      BY <1>2, <3>1, <3>3, <3>5 DEF ReadStates
    <3>8. ASSUME NEW i \in S PROVE FieldIs(next.fields, lines, n + 1, i)
      <4>1. i \in 1..n /\ PlaceOf(S, i) \in 1..Len(fields)
        BY <1>3, <2>2
      <4>2. FieldIs(fields, lines, n, i)
        BY <2>2
      <4> DEFINE t == fields[PlaceOf(S, i)].stamp
      <4>0. StampIs(lines, n, i, t) /\ fields[PlaceOf(S, i)].sort = lines[i].sort
        BY <4>2 DEF FieldIs, S
      <4> HIDE DEF t
      <4>3. CASE \A k \in S : k <= i
        <5>1. PlaceOf(S, i) = Len(fields)
          BY <1>3, <2>2, <4>3, LastPlace
        <5>2. OwnLines(lines, n + 1, i) = OwnLines(lines, n, i) \cup {n + 1} /\ n \in OwnLines(lines, n, i)
          BY <1>6, <4>1, <4>3, OwnNext DEF line, S
        <5>3. StampIs(lines, n + 1, i, Stamp(t, lines[n + 1]))
          BY <4>0, <4>1, <5>2, StampNext
        <5>4. t = last.stamp
          BY <5>1 DEF t
        <5>5. StampIs(lines, n + 1, i, stamp)
          BY <5>3, <5>4 DEF line
        <5> HIDE DEF stamp, last
        <5>6. next.fields[PlaceOf(T, i)].stamp = stamp /\ next.fields[PlaceOf(T, i)].sort = lines[i].sort
          BY <2>2, <3>6, <4>0, <5>1 DEF last
        <5> QED  BY <5>5, <5>6 DEF FieldIs, T
      <4>4. CASE ~ \A k \in S : k <= i
        <5>1. PlaceOf(S, i) # Len(fields)
          BY <1>3, <2>2, <4>4, LastPlace
        <5>2. OwnLines(lines, n + 1, i) = OwnLines(lines, n, i)
          BY <4>1, <4>4, OwnNext DEF S
        <5>3. next.fields[PlaceOf(S, i)] = fields[PlaceOf(S, i)]
          BY <3>5, <4>1, <5>1
        <5>5. StampIs(lines, n + 1, i, t)
          BY <4>0, <5>2, StampSame
        <5> QED  BY <2>2, <4>0, <5>3, <5>5 DEF FieldIs, S, T, t
      <4> QED  BY <4>3, <4>4
    <3>9. ReadTrue(next, lines, n + 1)
      BY <2>2, <3>5, <3>8 DEF ReadTrue, S, T
    <3> QED  BY <3>7, <3>9 DEF next, line
  <2> QED  BY <2>1, <2>3
<1>7. CASE state.fault = "none" /\ line.sort \in {"text", "overlong"}
  <2>1. next = [state EXCEPT !.fault = IF line.sort = "text" THEN "INVALID_INPUT" ELSE "LIMIT_EXCEEDED"]
    BY <1>1, <1>7, ReadLineIs DEF next
  <2> QED  BY <1>5, <2>1 DEF next, line
<1>8. CASE state.fault = "none" /\ line.sort \notin Folds /\ line.sort \notin {"text", "overlong"}
  <2> DEFINE field == [sort |-> line.sort, stamp |-> Stamp(<<>>, line)]
  <2>0. field \in HeaderFields /\ field.sort = line.sort /\ field.stamp = Stamp(<<>>, line)
    <3>0. <<>> \in Seq(LineTexts)
      OBVIOUS
    <3>1. Stamp(<<>>, line) \in Seq(LineTexts)
      BY <1>1, <3>0, StampTexts
    <3> QED  BY <1>1, <3>1 DEF HeaderFields
  <2> HIDE DEF field
  <2>1. next = [fields |-> Append(state.fields, field),
                fault |-> IF Len(state.fields) = MaxHeaders THEN "LIMIT_EXCEEDED" ELSE "none"]
    BY <1>1, <1>8, ReadLineIs DEF next, field
  <2>2. next.fields = Append(fields, field) /\ next.fields \in Seq(HeaderFields)
        /\ Len(next.fields) = Len(fields) + 1 /\ next.fields[Len(fields) + 1] = field
        /\ \A p \in 1..Len(fields) : next.fields[p] = fields[p]
    BY <1>2, <2>0, <2>1 DEF fields
  <2>3. next \in ReadStates
    BY <2>1, <2>2 DEF ReadStates
  <2>4. /\ Len(fields) = Cardinality(S)
        /\ \A i \in S : FieldIs(fields, lines, n, i)
    BY <1>8 DEF ReadTrue, fields, S
  <2>5. /\ T = S \cup {n + 1} /\ Cardinality(T) = Cardinality(S) + 1
        /\ PlaceOf(T, n + 1) = Cardinality(S) + 1
        /\ \A i \in S : PlaceOf(T, i) = PlaceOf(S, i)
    BY <1>8, StartingField DEF S, T, line
  <2>6. ASSUME NEW i \in S PROVE FieldIs(next.fields, lines, n + 1, i)
    <3>1. i \in 1..n /\ PlaceOf(S, i) \in 1..Len(fields)
      BY <1>3, <2>4
    <3>2. OwnLines(lines, n + 1, i) = OwnLines(lines, n, i)
      BY <1>8, <3>1, OwnNext DEF line
    <3>3. next.fields[PlaceOf(T, i)] = fields[PlaceOf(S, i)]
      BY <2>2, <2>5, <3>1
    <3>4. FieldIs(fields, lines, n, i)
      BY <2>4
    <3> DEFINE t == fields[PlaceOf(S, i)].stamp
    <3>5. StampIs(lines, n, i, t)
      BY <3>4 DEF FieldIs, S
    <3> HIDE DEF t
    <3>6. StampIs(lines, n + 1, i, t)
      BY <3>2, <3>5, StampSame
    <3> QED  BY <3>3, <3>4, <3>6 DEF FieldIs, S, T, t
  <2>7. FieldIs(next.fields, lines, n + 1, n + 1)
    <3>1. next.fields[PlaceOf(T, n + 1)] = field
      BY <2>2, <2>4, <2>5
    <3>2. StampIs(lines, n + 1, n + 1, Stamp(<<>>, lines[n + 1]))
      BY StampFirst
    <3> QED  BY <2>0, <3>1, <3>2 DEF FieldIs, T, line
  <2>8. ReadTrue(next, lines, n + 1)
    BY <2>2, <2>4, <2>5, <2>6, <2>7, <1>3 DEF ReadTrue, T
  <2> QED  BY <2>3, <2>8 DEF next, line
<1> QED  BY <1>4, <1>6, <1>7, <1>8 DEF next, line

\* The loop before the first line.
NothingRead == [fields |-> <<>>, fault |-> "none"]

\* The states of the loop over the first m lines.
Readings(g, lines, m) ==
    /\ g = [n \in 0..m |-> g[n]]
    /\ g[0] = NothingRead
    /\ \A n \in 1..m : g[n] = ReadLine(g[n - 1], lines[n])

\* There is such a sequence of states,
LEMMA ReadingsExist ==
    ASSUME NEW lines, NEW m \in Nat
    PROVE  \E g : Readings(g, lines, m)
<1> DEFINE Bad == {n \in Nat : ~ \E g : Readings(g, lines, n)}
<1> SUFFICES ASSUME Bad # {} PROVE FALSE
  OBVIOUS
<1>1. PICK k \in Bad : \A n \in Bad : k <= n
  BY LeastOf
<1>2. k # 0
  <2>1. Readings([n \in 0..0 |-> NothingRead], lines, 0)
    BY DEF Readings
  <2> QED  BY <1>1, <2>1
<1>3. k \in Nat /\ k - 1 \in Nat /\ ~(k <= k - 1)
  BY <1>2
<1>4. PICK f : Readings(f, lines, k - 1)
  BY <1>1, <1>3
<1> DEFINE g == [n \in 0..k |-> IF n = k THEN ReadLine(f[k - 1], lines[k]) ELSE f[n]]
<1>5. g[0] = NothingRead /\ g[k] = ReadLine(f[k - 1], lines[k]) /\ \A n \in 0..(k - 1) : g[n] = f[n]
  BY <1>2, <1>3, <1>4 DEF Readings
<1>6. g = [n \in 0..k |-> g[n]]
  OBVIOUS
<1> HIDE DEF g
<1>7. \A n \in 1..k : g[n] = ReadLine(g[n - 1], lines[n])
  <2> SUFFICES ASSUME NEW n \in 1..k PROVE g[n] = ReadLine(g[n - 1], lines[n])
    OBVIOUS
  <2>1. CASE n = k
    <3>1. g[k - 1] = f[k - 1]
      BY <1>3, <1>5
    <3> QED  BY <1>5, <2>1, <3>1
  <2>2. CASE n # k
    <3>1. n \in 1..(k - 1) /\ n - 1 \in 0..(k - 1) /\ n \in 0..(k - 1)
      BY <1>3, <2>2
    <3>2. f[n] = ReadLine(f[n - 1], lines[n])
      BY <1>4, <3>1 DEF Readings
    <3> QED  BY <1>5, <3>1, <3>2
  <2> QED  BY <2>1, <2>2
<1>8. Readings(g, lines, k)
  BY <1>5, <1>6, <1>7 DEF Readings
<1> QED  BY <1>1, <1>8

\* and each of them is right.
LEMMA ReadingsAreTrue ==
    ASSUME NEW lines \in Seq(HeaderRows), NEW g, NEW m \in Nat, Readings(g, lines, m), m <= Len(lines)
    PROVE  \A n \in 0..m : g[n] \in ReadStates /\ ReadTrue(g[n], lines, n)
<1> DEFINE Right(n) == g[n] \in ReadStates /\ ReadTrue(g[n], lines, n)
           Bad == {n \in 0..m : ~Right(n)}
<1> SUFFICES ASSUME Bad # {} PROVE FALSE
  OBVIOUS
<1>1. PICK k \in Bad : \A n \in Bad : k <= n
  <2>1. Bad \in SUBSET Nat
    OBVIOUS
  <2> HIDE DEF Bad
  <2> QED  BY <2>1, LeastOf
<1>2. k # 0
  <2>1. g[0] = NothingRead
    BY DEF Readings
  <2>2. NothingRead \in ReadStates
    BY DEF NothingRead, ReadStates
  <2>3. Starting(lines, 0) = {}
    BY DEF Starting
  <2>4. Cardinality({}) = 0
    BY FS_EmptySet
  <2>5. ReadTrue(NothingRead, lines, 0)
    BY <2>3, <2>4 DEF ReadTrue, NothingRead
  <2> QED  BY <1>1, <2>1, <2>2, <2>5
<1>3. k - 1 \in Nat /\ k - 1 \in 0..m /\ ~(k <= k - 1) /\ k \in 1..m /\ (k - 1) + 1 = k
  BY <1>1, <1>2
<1>4. Right(k - 1)
  BY <1>1, <1>3
<1> DEFINE p == k - 1
<1>5. p \in Nat /\ p + 1 = k /\ p + 1 <= Len(lines)
  BY <1>3
<1>6. Right(p)
  BY <1>4
<1> HIDE DEF p
<1>7. ReadLine(g[p], lines[p + 1]) \in ReadStates /\ ReadTrue(ReadLine(g[p], lines[p + 1]), lines, p + 1)
  BY <1>5, <1>6, ReadNext
<1>8. g[k] = ReadLine(g[p], lines[p + 1])
  BY <1>3, <1>5 DEF Readings, p
<1> QED  BY <1>1, <1>5, <1>7, <1>8

\* The loop ends before the first empty line, or at the end of the text.
LEMMA FirstEmptyIs ==
    ASSUME input.lines \in Seq(HeaderRows)
    PROVE  FirstEmpty \in 1..(Len(input.lines) + 1)
<1> DEFINE F == {i \in DOMAIN Lines : Lines[i].sort = "empty"} \cup {Len(Lines) + 1}
<1>1. Len(Lines) \in Nat /\ DOMAIN Lines = 1..Len(Lines) /\ Lines = input.lines
  BY DEF Lines
<1>2. F \in SUBSET Nat /\ F # {} /\ F \subseteq 1..(Len(Lines) + 1)
  BY <1>1
<1>3. FirstEmpty = Min(F)
  BY DEF FirstEmpty
<1> HIDE DEF F
<1>4. Min(F) \in F
  BY <1>2, LeastOf
<1> QED  BY <1>1, <1>2, <1>3, <1>4

\* When the loop ends without a fault it has read the header section.
LEMMA AllReadIs ==
    ASSUME input.lines \in Seq(HeaderRows)
    PROVE  AllRead \in ReadStates /\ ReadTrue(AllRead, Lines, FirstEmpty - 1)
<1> DEFINE lines == Lines
           m == Len(lines)
           Loop(g) == [n \in 0..m |-> IF n = 0 THEN NothingRead ELSE ReadLine(g[n - 1], lines[n])]
           after == CHOOSE g : g = Loop(g)
<1>1. AllRead = after[FirstEmpty - 1]
  BY DEF AllRead, NothingRead
<1>2. m \in Nat /\ lines \in Seq(HeaderRows) /\ lines = input.lines
  BY DEF Lines
<1>3. PICK g : Readings(g, lines, m)
  BY <1>2, ReadingsExist
<1> HIDE DEF lines, m
<1>4. g = Loop(g)
  <2>0. g = [n \in 0..m |-> g[n]]
    BY <1>3 DEF Readings
  <2>1. ASSUME NEW n \in 0..m PROVE g[n] = IF n = 0 THEN NothingRead ELSE ReadLine(g[n - 1], lines[n])
    <3>1. CASE n = 0
      BY <1>3, <3>1 DEF Readings
    <3>2. CASE n # 0
      <4>1. n \in 1..m
        BY <1>2, <3>2
      <4> QED  BY <1>3, <3>2, <4>1 DEF Readings
    <3> QED  BY <3>1, <3>2
  <2> QED  BY <2>0, <2>1
<1>5. after = Loop(after)
  <2> HIDE DEF Loop
  <2> QED  BY <1>4
<1> HIDE DEF after
<1>6. Readings(after, lines, m)
  <2>1. \A n \in 0..m : after[n] = IF n = 0 THEN NothingRead ELSE ReadLine(after[n - 1], lines[n])
    BY <1>5
  <2>2. after = [n \in 0..m |-> after[n]]
    BY <1>5
  <2>3. after[0] = NothingRead /\ \A n \in 1..m : after[n] = ReadLine(after[n - 1], lines[n])
    BY <1>2, <2>1
  <2> QED  BY <2>2, <2>3 DEF Readings
<1>7. FirstEmpty - 1 \in 0..m
  BY <1>2, FirstEmptyIs DEF m
<1>8. \A n \in 0..m : after[n] \in ReadStates /\ ReadTrue(after[n], lines, n)
  BY <1>2, <1>6, ReadingsAreTrue DEF m
<1> QED  BY <1>1, <1>7, <1>8 DEF lines
-----------------------------------------------------------------------------
\* A set of places in their order.
LEMMA InOrderIs ==
    ASSUME NEW S \in SUBSET Nat, IsFiniteSet(S)
    PROVE  /\ DOMAIN InOrder(S) = 1..Cardinality(S) /\ Cardinality(S) \in Nat
           /\ \A x \in 1..Cardinality(S) : InOrder(S)[x] \in S /\ PlaceOf(S, InOrder(S)[x]) = x
           /\ \A m \in S : PlaceOf(S, m) \in 1..Cardinality(S) /\ InOrder(S)[PlaceOf(S, m)] = m
<1>1. /\ Cardinality(S) \in Nat
      /\ \A k \in S : Cardinality(Below(S, k)) \in 0..(Cardinality(S) - 1)
      /\ \A k, l \in S : Cardinality(Below(S, k)) = Cardinality(Below(S, l)) => k = l
      /\ \A r \in 0..(Cardinality(S) - 1) : \E k \in S : Cardinality(Below(S, k)) = r
  BY RankIs
<1>2. ASSUME NEW x \in 1..Cardinality(S)
      PROVE  InOrder(S)[x] \in S /\ PlaceOf(S, InOrder(S)[x]) = x
  <2>1. InOrder(S)[x] = CHOOSE m \in S : Cardinality(Below(S, m)) = x - 1
    BY DEF InOrder, Below
  <2>2. x - 1 \in 0..(Cardinality(S) - 1)
    BY <1>1
  <2>3. \E m \in S : Cardinality(Below(S, m)) = x - 1
    BY <1>1, <2>2
  <2>4. InOrder(S)[x] \in S /\ Cardinality(Below(S, InOrder(S)[x])) = x - 1
    BY <2>1, <2>3
  <2>5. (x - 1) + 1 = x
    OBVIOUS
  <2> QED  BY <2>4, <2>5 DEF PlaceOf
<1>3. ASSUME NEW m \in S
      PROVE  PlaceOf(S, m) \in 1..Cardinality(S) /\ InOrder(S)[PlaceOf(S, m)] = m
  <2>1. PlaceOf(S, m) \in 1..Cardinality(S)
    BY <1>1 DEF PlaceOf
  <2> DEFINE x == PlaceOf(S, m)
             l == InOrder(S)[x]
  <2>2. l \in S /\ PlaceOf(S, l) = x
    BY <1>2, <2>1
  <2> HIDE DEF l
  <2>3. Cardinality(Below(S, l)) = Cardinality(Below(S, m))
    BY <1>1, <2>2 DEF PlaceOf
  <2>4. l = m
    BY <1>1, <2>2, <2>3
  <2> QED  BY <2>1, <2>4 DEF l
<1>4. DOMAIN InOrder(S) = 1..Cardinality(S)
  BY DEF InOrder
<1> QED  BY <1>1, <1>2, <1>3, <1>4

\* Places that are renamed without a change of their order keep their ranks.
LEMMA OrderKept ==
    ASSUME NEW S \in SUBSET Nat, IsFiniteSet(S), NEW T \in SUBSET Nat, NEW f \in [S -> T],
           \A t \in T : \E s \in S : f[s] = t,
           \A a, b \in S : a < b <=> f[a] < f[b]
    PROVE  /\ IsFiniteSet(T) /\ Cardinality(T) = Cardinality(S)
           /\ \A s \in S : PlaceOf(T, f[s]) = PlaceOf(S, s)
<1>1. \A a, b \in S : f[a] = f[b] => a = b
  <2> SUFFICES ASSUME NEW a \in S, NEW b \in S, f[a] = f[b] PROVE a = b
    OBVIOUS
  <2>0. f[a] \in Nat /\ f[b] = f[a]
    OBVIOUS
  <2>1. ~(f[a] < f[b]) /\ ~(f[b] < f[a])
    BY <2>0
  <2>2. ~(a < b) /\ ~(b < a)
    BY <2>1
  <2> QED  BY <2>2
<1>2. ASSUME NEW A \in SUBSET S, NEW B \in SUBSET T, \A a \in A : f[a] \in B, \A t \in B : \E s \in A : f[s] = t
      PROVE  IsFiniteSet(B) /\ Cardinality(B) = Cardinality(A)
  <2> DEFINE g == [a \in A |-> f[a]]
  <2>1. g \in [A -> B] /\ \A t \in B : \E s \in A : g[s] = t
    BY <1>2
  <2>2. \A a, b \in A : g[a] = g[b] => a = b
    BY <1>1
  <2>3. IsFiniteSet(A)
    BY FS_Subset
  <2> HIDE DEF g
  <2>4. g \in Bijection(A, B)
    BY <2>1, <2>2 DEF Bijection, Injection, IsInjective, Surjection
  <2>5. ExistsBijection(A, B)
    BY <2>4 DEF ExistsBijection
  <2> QED  BY <2>3, <2>5, FS_Bijection
<1>3. IsFiniteSet(T) /\ Cardinality(T) = Cardinality(S)
  <2>1. S \in SUBSET S /\ T \in SUBSET T
    OBVIOUS
  <2> QED  BY <1>2, <2>1
<1>4. ASSUME NEW s \in S PROVE PlaceOf(T, f[s]) = PlaceOf(S, s)
  <2>1. Below(S, s) \in SUBSET S /\ Below(T, f[s]) \in SUBSET T
    BY DEF Below
  <2>2. \A a \in Below(S, s) : f[a] \in Below(T, f[s])
    BY DEF Below
  <2>3. \A t \in Below(T, f[s]) : \E a \in Below(S, s) : f[a] = t
    BY DEF Below
  <2>4. Cardinality(Below(T, f[s])) = Cardinality(Below(S, s))
    BY <1>2, <2>1, <2>2, <2>3
  <2> QED  BY <2>4 DEF PlaceOf
<1> QED  BY <1>3, <1>4

\* Places are in the order of the ranks.
LEMMA PlaceGrows ==
    ASSUME NEW S \in SUBSET Nat, IsFiniteSet(S), NEW a \in S, NEW b \in S
    PROVE  a < b <=> PlaceOf(S, a) < PlaceOf(S, b)
<1>1. ASSUME NEW k \in S, NEW l \in S, k < l PROVE PlaceOf(S, k) < PlaceOf(S, l)
  <2>1. Below(S, l) \in SUBSET S /\ Below(S, k) \in SUBSET S
    BY DEF Below
  <2>2. IsFiniteSet(Below(S, l)) /\ IsFiniteSet(Below(S, k))
    BY <2>1, FS_Subset
  <2>3. k \in Below(S, l) /\ Below(S, k) \subseteq Below(S, l) \ {k}
    <3>1. k < l
      BY <1>1
    <3>2. \A j \in S : j < k => j < l /\ j # k
      BY <3>1
    <3> QED  BY <3>1, <3>2 DEF Below
  <2>4. IsFiniteSet(Below(S, l) \ {k}) /\ Cardinality(Below(S, l) \ {k}) = Cardinality(Below(S, l)) - 1
    BY <2>2, <2>3, FS_RemoveElement
  <2>5. Cardinality(Below(S, k)) <= Cardinality(Below(S, l) \ {k})
    BY <2>3, <2>4, FS_Subset
  <2>6. Cardinality(Below(S, k)) \in Nat /\ Cardinality(Below(S, l)) \in Nat
    BY <2>2, FS_CardinalityType
  <2> QED  BY <2>4, <2>5, <2>6 DEF PlaceOf
<1>2. PlaceOf(S, a) \in Nat /\ PlaceOf(S, b) \in Nat
  BY InOrderIs
<1>3. CASE a < b
  BY <1>1, <1>3
<1>4. CASE b < a
  <2>1. PlaceOf(S, b) < PlaceOf(S, a)
    BY <1>1, <1>4
  <2> QED  BY <1>2, <1>4, <2>1
<1>5. CASE a = b
  BY <1>2, <1>5
<1> QED  BY <1>3, <1>4, <1>5

\* There is one stamp.
LEMMA StampIsOne ==
    ASSUME NEW lines, NEW n \in Nat, NEW i, NEW stamp, StampIs(lines, n, i, stamp)
    PROVE  stamp = IF Marks(lines, n, i) = {} THEN <<>>
                   ELSE TextsOf(lines, Max(Marks(lines, n, i)), Max(OwnLines(lines, n, i)))
<1> DEFINE marks == Marks(lines, n, i)
           own == OwnLines(lines, n, i)
<1>1. marks \subseteq Nat /\ own \subseteq Nat
  BY DEF Marks, OwnLines
<1>2. CASE marks = {}
  BY <1>2 DEF StampIs
<1>3. ASSUME NEW S \in SUBSET Nat, NEW m \in S, \A j \in S : j <= m PROVE Max(S) = m
  <2>1. \A x \in S : (\A j \in S : x >= j) <=> x = m
    BY <1>3
  <2> QED  BY <2>1 DEF Max
<1>4. CASE marks # {}
  <2>1. PICK m \in marks, e \in own : /\ \A j \in marks : j <= m
                                     /\ \A j \in own : j <= e
                                     /\ stamp = TextsOf(lines, m, e)
    BY <1>4 DEF StampIs
  <2> HIDE DEF marks, own
  <2>2. Max(marks) = m /\ Max(own) = e
    BY <1>1, <1>3, <2>1
  <2> QED  BY <1>4, <2>1, <2>2 DEF marks, own
<1> QED  BY <1>2, <1>4

\* The time of a stamp.
LEMMA TimeIs ==
    ASSUME NEW stamp
    PROVE  Time(stamp) \in Int \cup {NoTime} /\ Time(<<>>) = NoTime
BY DEF Time

\* The times that hops have.
Times == Int \cup {NoTime}

\* The delays of hops, which add up.
LEMMA DelayIs ==
    ASSUME NEW hops \in Seq(Times), NEW i \in DOMAIN hops
    PROVE  /\ Delay(hops, i) # <<>> <=> i < Len(hops) /\ NoTime \notin {hops[i], hops[i + 1]}
           /\ Delay(hops, i) # <<>> =>
                 hops[i] \in Int /\ hops[i + 1] \in Int /\ Delay(hops, i)[1] = hops[i] - hops[i + 1]
<1>1. CASE i < Len(hops) /\ hops[i] # NoTime /\ hops[i + 1] # NoTime
  <2>1. Delay(hops, i) = <<hops[i] - hops[i + 1]>>
    BY <1>1 DEF Delay
  <2>2. i \in 1..Len(hops) /\ i + 1 \in 1..Len(hops)
    BY <1>1
  <2>3. hops[i] \in Times /\ hops[i + 1] \in Times
    BY <2>2
  <2>4. hops[i] \in Int /\ hops[i + 1] \in Int
    BY <1>1, <2>3 DEF Times
  <2>5. <<hops[i] - hops[i + 1]>> # <<>> /\ <<hops[i] - hops[i + 1]>>[1] = hops[i] - hops[i + 1]
    OBVIOUS
  <2> QED  BY <1>1, <2>1, <2>4, <2>5
<1>2. CASE ~(i < Len(hops) /\ hops[i] # NoTime /\ hops[i + 1] # NoTime)
  <2>1. Delay(hops, i) = <<>>
    BY <1>2 DEF Delay
  <2> QED  BY <1>2, <2>1
<1> QED  BY <1>1, <1>2

\* The delays over an unbroken stretch add up.
LEMMA DelaysAdd ==
    ASSUME NEW hops \in Seq(Times), NEW i \in DOMAIN hops, NEW j \in DOMAIN hops, i < j,
           NoTime \notin {hops[k] : k \in i..j}
    PROVE  hops[i] - hops[j] = DelaySum([k \in DOMAIN hops |-> Delay(hops, k)], i, j)
<1> DEFINE delays == [k \in DOMAIN hops |-> Delay(hops, k)]
           Loop(g) == [k \in i..j |-> IF k = i THEN 0 ELSE g[k - 1] + delays[k - 1][1]]
           sum == CHOOSE g : g = Loop(g)
           told == [k \in i..j |-> hops[i] - hops[k]]
<1>0. i \in Nat /\ j \in 1..Len(hops) /\ i \in 1..Len(hops) /\ DOMAIN hops = 1..Len(hops) /\ Len(hops) \in Nat
  OBVIOUS
<1>1. DelaySum(delays, i, j) = sum[j]
  BY DEF DelaySum
<1>2. \A k \in i..j : hops[k] \in Int
  <2> SUFFICES ASSUME NEW k \in i..j PROVE hops[k] \in Int
    OBVIOUS
  <2>1. k \in 1..Len(hops) /\ hops[k] # NoTime
    BY <1>0
  <2>2. hops[k] \in Times
    BY <2>1
  <2> QED  BY <2>1, <2>2 DEF Times
<1>3. \A k \in (i + 1)..j : k - 1 \in i..j /\ k \in i..j /\ k # i
                            /\ delays[k - 1][1] \in Int /\ delays[k - 1][1] = hops[k - 1] - hops[k]
  <2> SUFFICES ASSUME NEW k \in (i + 1)..j
               PROVE  k - 1 \in i..j /\ k \in i..j /\ k # i
                      /\ delays[k - 1][1] \in Int /\ delays[k - 1][1] = hops[k - 1] - hops[k]
    OBVIOUS
  <2>1. k - 1 \in i..j /\ k \in i..j /\ k # i /\ k - 1 \in 1..Len(hops) /\ k - 1 < Len(hops) /\ (k - 1) + 1 = k
    BY <1>0
  <2> DEFINE p == k - 1
  <2>2. p \in DOMAIN hops /\ p < Len(hops) /\ p + 1 = k /\ p \in i..j
    BY <1>0, <2>1
  <2> HIDE DEF p
  <2>3. hops[p] # NoTime /\ hops[k] # NoTime
    BY <2>1, <2>2
  <2>4. Delay(hops, p) # <<>>
    BY <2>2, <2>3, DelayIs
  <2>5. Delay(hops, p)[1] = hops[p] - hops[k]
    BY <2>2, <2>4, DelayIs
  <2>6. delays[p][1] = hops[p] - hops[k]
    BY <2>2, <2>5
  <2>7. hops[p] \in Int /\ hops[k] \in Int
    BY <1>2, <2>1, <2>2
  <2> QED  BY <2>1, <2>6, <2>7 DEF p
<1> HIDE DEF delays
<1>4. told = Loop(told)
  <2>1. ASSUME NEW k \in i..j PROVE told[k] = Loop(told)[k]
    <3>1. CASE k = i
      BY <1>2, <3>1
    <3>2. CASE k # i
      <4>1. k \in (i + 1)..j
        BY <1>0, <3>2
      <4>2. told[k - 1] = hops[i] - hops[k - 1] /\ told[k] = hops[i] - hops[k]
        BY <1>3, <4>1
      <4>3. hops[i] \in Int /\ hops[k - 1] \in Int /\ hops[k] \in Int
        BY <1>0, <1>2, <1>3, <4>1
      <4>4. delays[k - 1][1] = hops[k - 1] - hops[k]
        BY <1>3, <4>1
      <4>5. Loop(told)[k] = told[k - 1] + delays[k - 1][1]
        BY <3>2
      <4> HIDE DEF Loop, told
      <4> QED  BY <4>2, <4>3, <4>4, <4>5
    <3> QED  BY <3>1, <3>2
  <2> QED  BY <2>1
<1> HIDE DEF told
<1>5. sum = Loop(sum)
  <2> HIDE DEF Loop
  <2> QED  BY <1>4
<1> HIDE DEF sum
<1>6. sum[i] = 0 /\ \A k \in (i + 1)..j : sum[k] = sum[k - 1] + delays[k - 1][1]
  <2>1. \A k \in i..j : sum[k] = IF k = i THEN 0 ELSE sum[k - 1] + delays[k - 1][1]
    BY <1>5
  <2> HIDE DEF Loop
  <2>2. i \in i..j
    BY <1>0
  <2> QED  BY <1>3, <2>1, <2>2
<1> HIDE DEF Loop
<1> DEFINE Bad == {k \in i..j : sum[k] # hops[i] - hops[k]}
<1>7. Bad = {}
  <2> SUFFICES ASSUME Bad # {} PROVE FALSE
    OBVIOUS
  <2>1. PICK k \in Bad : \A n \in Bad : k <= n
    <3>1. Bad \in SUBSET Nat
      BY <1>0
    <3> HIDE DEF Bad
    <3> QED  BY <3>1, LeastOf
  <2>2. k # i
    BY <1>0, <1>2, <1>6, <2>1
  <2>3. k \in (i + 1)..j
    BY <1>0, <2>1, <2>2
  <2>4. k - 1 \in i..j /\ ~(k <= k - 1)
    BY <1>3, <2>3
  <2>5. sum[k - 1] = hops[i] - hops[k - 1]
    BY <2>1, <2>4
  <2>6. hops[i] \in Int /\ hops[k - 1] \in Int /\ hops[k] \in Int
    BY <1>0, <1>2, <1>3, <2>3
  <2>7. sum[k] = sum[k - 1] + delays[k - 1][1] /\ delays[k - 1][1] = hops[k - 1] - hops[k]
    BY <1>3, <1>6, <2>3
  <2>8. sum[k] = hops[i] - hops[k]
    BY <2>5, <2>6, <2>7
  <2> QED  BY <2>1, <2>8
<1>8. j \in i..j
  BY <1>0
<1>9. sum[j] = hops[i] - hops[j]
  BY <1>7, <1>8
<1> QED  BY <1>1, <1>9 DEF delays

\* The header section, and the lines in it that start a hop.
HeadLines == 1..(FirstEmpty - 1)
ReceivedLines == {i \in HeadLines : Lines[i].sort = "received"}

\* What is awaited: all fields have been read.
HeaderRead ==
    /\ work \in Seq(HeaderFields)
    /\ ReadTrue([fields |-> work, fault |-> "none"], Lines, FirstEmpty - 1)

\* The fields that are awaited are those of the header section.
LEMMA FieldsAre ==
    ASSUME input.lines \in Seq(HeaderRows), HeaderRead
    PROVE  /\ FirstEmpty - 1 \in Nat /\ Lines \in Seq(HeaderRows)
           /\ Len(work) = Cardinality(Starting(Lines, FirstEmpty - 1))
           /\ \A i \in Starting(Lines, FirstEmpty - 1) : FieldIs(work, Lines, FirstEmpty - 1, i)
<1>1. Lines \in Seq(HeaderRows) /\ FirstEmpty \in 1..(Len(input.lines) + 1)
  BY FirstEmptyIs DEF Lines
<1>2. FirstEmpty - 1 \in Nat
  BY <1>1
<1> QED  BY <1>1, <1>2 DEF HeaderRead, ReadTrue

\* The Received fields are those of the Received lines, in their order.
LEMMA ReceivedAre ==
    ASSUME input.lines \in Seq(HeaderRows), HeaderRead
    PROVE  LET R == OfSort(work, "received")
               S == Starting(Lines, FirstEmpty - 1)
           IN  /\ R \in SUBSET Nat /\ R \subseteq DOMAIN work
               /\ IsFiniteSet(R) /\ Cardinality(R) = Cardinality(ReceivedLines)
               /\ DOMAIN InOrder(R) = 1..Cardinality(R) /\ Cardinality(R) \in Nat
               /\ DOMAIN InOrder(ReceivedLines) = 1..Cardinality(R)
               /\ \A x \in 1..Cardinality(R) :
                     /\ InOrder(ReceivedLines)[x] \in S
                     /\ InOrder(R)[x] = PlaceOf(S, InOrder(ReceivedLines)[x])
                     /\ InOrder(R)[x] \in R
<1> DEFINE R == OfSort(work, "received")
           m == FirstEmpty - 1
           S == Starting(Lines, m)
           Q == ReceivedLines
           f == [i \in Q |-> PlaceOf(S, i)]
<1>1. m \in Nat /\ Lines \in Seq(HeaderRows) /\ Len(work) = Cardinality(S)
      /\ \A i \in S : FieldIs(work, Lines, m, i)
  BY FieldsAre
<1>2. work \in Seq(HeaderFields) /\ DOMAIN work = 1..Len(work)
  BY DEF HeaderRead
<1>3. /\ IsFiniteSet(S) /\ S \in SUBSET Nat /\ Cardinality(S) \in Nat
      /\ \A i \in S : PlaceOf(S, i) \in 1..Cardinality(S)
  BY <1>1, StartingIs
<1>4. \A i \in S : work[PlaceOf(S, i)].sort = Lines[i].sort
  BY <1>1 DEF FieldIs
<1>5. \A i : i \in Q <=> i \in S /\ Lines[i].sort = "received"
  <2>1. "received" \notin Folds
    BY DEF Folds
  <2> QED  BY <2>1 DEF ReceivedLines, HeadLines, Starting
<1> HIDE DEF m, S, Q
<1>6. R \in SUBSET Nat /\ R \subseteq 1..Cardinality(S)
  BY <1>1, <1>2 DEF OfSort
<1>7. Q \in SUBSET S /\ IsFiniteSet(Q) /\ Q \in SUBSET Nat
  <2>1. Q \in SUBSET S
    BY <1>5
  <2> QED  BY <1>3, <2>1, FS_Subset
<1>8. f \in [Q -> R]
  BY <1>1, <1>2, <1>3, <1>4, <1>5 DEF OfSort
<1>9. \A r \in R : \E i \in Q : f[i] = r
  <2> SUFFICES ASSUME NEW r \in R PROVE \E i \in Q : f[i] = r
    OBVIOUS
  <2> DEFINE i == InOrder(S)[r]
  <2>1. i \in S /\ PlaceOf(S, i) = r
    BY <1>3, <1>6, InOrderIs
  <2> HIDE DEF i
  <2>2. work[r].sort = "received"
    BY DEF OfSort
  <2>3. i \in Q
    BY <1>4, <1>5, <2>1, <2>2
  <2> QED  BY <2>1, <2>3
<1>10. \A a, b \in Q : a < b <=> f[a] < f[b]
  <2>1. \A a, b \in S : a < b <=> PlaceOf(S, a) < PlaceOf(S, b)
    BY <1>3, PlaceGrows
  <2> QED  BY <1>7, <2>1
<1> HIDE DEF R, f
<1>11. /\ IsFiniteSet(R) /\ Cardinality(R) = Cardinality(Q)
       /\ \A i \in Q : PlaceOf(R, f[i]) = PlaceOf(Q, i)
  BY <1>6, <1>7, <1>8, <1>9, <1>10, OrderKept
<1>12. /\ DOMAIN InOrder(R) = 1..Cardinality(R) /\ Cardinality(R) \in Nat
       /\ \A x \in 1..Cardinality(R) : InOrder(R)[x] \in R
       /\ \A r \in R : InOrder(R)[PlaceOf(R, r)] = r
  BY <1>6, <1>11, InOrderIs
<1>13. /\ DOMAIN InOrder(Q) = 1..Cardinality(R)
       /\ \A x \in 1..Cardinality(R) : InOrder(Q)[x] \in Q /\ PlaceOf(Q, InOrder(Q)[x]) = x
  BY <1>7, <1>11, InOrderIs
<1>14. ASSUME NEW x \in 1..Cardinality(R)
       PROVE  /\ InOrder(Q)[x] \in S
              /\ InOrder(R)[x] = PlaceOf(S, InOrder(Q)[x])
              /\ InOrder(R)[x] \in R
  <2> DEFINE i == InOrder(Q)[x]
  <2>1. i \in Q /\ PlaceOf(Q, i) = x
    BY <1>13
  <2> HIDE DEF i
  <2>2. f[i] \in R /\ PlaceOf(R, f[i]) = x
    BY <1>8, <1>11, <2>1
  <2>3. InOrder(R)[x] = f[i]
    BY <1>12, <2>2
  <2>4. f[i] = PlaceOf(S, i) /\ i \in S
    BY <1>7, <2>1 DEF f
  <2> QED  BY <1>12, <2>3, <2>4 DEF i
<1> QED  BY <1>2, <1>6, <1>1, <1>11, <1>12, <1>13, <1>14 DEF R, S, m, Q

\* The hops of a report.
Hops(fields) ==
    LET received == InOrder(OfSort(fields, "received"))
    IN  [i \in DOMAIN received |-> Time(fields[received[i]].stamp)]

\* The time that the lines of a field tell.
TimeTold(i) ==
    LET marks == Marks(Lines, FirstEmpty - 1, i)
    IN  IF marks = {} THEN NoTime ELSE Time(TextsOf(Lines, Max(marks), Max(OwnLines(Lines, FirstEmpty - 1, i))))

\* The hops have the times of the lines.
LEMMA HopsAre ==
    ASSUME input.lines \in Seq(HeaderRows), HeaderRead
    PROVE  /\ Hops(work) \in Seq(Times)
           /\ Hops(work) = [x \in DOMAIN InOrder(ReceivedLines) |-> TimeTold(InOrder(ReceivedLines)[x])]
<1> DEFINE R == OfSort(work, "received")
           Q == ReceivedLines
           m == FirstEmpty - 1
           S == Starting(Lines, m)
           n == Cardinality(R)
<1>1. /\ R \subseteq DOMAIN work /\ DOMAIN InOrder(R) = 1..n /\ n \in Nat /\ DOMAIN InOrder(Q) = 1..n
      /\ \A x \in 1..n : InOrder(Q)[x] \in S /\ InOrder(R)[x] = PlaceOf(S, InOrder(Q)[x]) /\ InOrder(R)[x] \in R
  BY ReceivedAre
<1>2. m \in Nat /\ \A i \in S : FieldIs(work, Lines, m, i)
  BY FieldsAre
<1>3. work \in Seq(HeaderFields)
  BY DEF HeaderRead
<1>4. \A i \in S : Time(work[PlaceOf(S, i)].stamp) = TimeTold(i)
  <2> SUFFICES ASSUME NEW i \in S PROVE Time(work[PlaceOf(S, i)].stamp) = TimeTold(i)
    OBVIOUS
  <2> DEFINE t == work[PlaceOf(S, i)].stamp
  <2>1. StampIs(Lines, m, i, t)
    BY <1>2 DEF FieldIs
  <2> HIDE DEF t
  <2>2. t = IF Marks(Lines, m, i) = {} THEN <<>> ELSE TextsOf(Lines, Max(Marks(Lines, m, i)), Max(OwnLines(Lines, m, i)))
    BY <1>2, <2>1, StampIsOne
  <2>3. Time(t) = TimeTold(i)
    BY <2>2, TimeIs DEF TimeTold
  <2> QED  BY <2>3 DEF t
<1>5. Hops(work) = [x \in 1..n |-> Time(work[InOrder(R)[x]].stamp)]
  BY <1>1 DEF Hops
<1> HIDE DEF R, Q, m, S, n
<1>6. \A x \in 1..n : Time(work[InOrder(R)[x]].stamp) \in Times
  BY TimeIs DEF Times
<1>7. Hops(work) \in Seq(Times)
  BY <1>1, <1>5, <1>6
<1>8. Hops(work) = [x \in 1..n |-> TimeTold(InOrder(Q)[x])]
  BY <1>1, <1>4, <1>5
<1> QED  BY <1>1, <1>7, <1>8 DEF Q

\* What HeadersAreTrue says of a report about some lines.
ReportTrue(lines, r) ==
    LET first == Min({i \in DOMAIN lines : lines[i].sort = "empty"} \cup {Len(lines) + 1})
        head == 1..(first - 1)
        starts == InOrder({i \in head : lines[i].sort = "received"})
        Own(i) == {j \in head : j >= i /\ \A k \in (i + 1)..j : lines[k].sort \in Folds}
        TimeOf(i) ==
            LET marks == {j \in Own(i) : lines[j].semicolon}
            IN  IF marks = {} THEN NoTime ELSE Time(TextsOf(lines, Max(marks), Max(Own(i))))
    IN  /\ r.hops = [i \in DOMAIN starts |-> TimeOf(starts[i])]
        /\ r.headers = Cardinality({i \in head : lines[i].sort \notin Folds})
        /\ \A i \in DOMAIN r.hops :
              r.delays[i] # <<>> <=> i < Len(r.hops) /\ NoTime \notin {r.hops[i], r.hops[i + 1]}
        /\ \A i, j \in DOMAIN r.hops :
              i < j /\ NoTime \notin {r.hops[k] : k \in i..j} =>
                  r.hops[i] - r.hops[j] = DelaySum(r.delays, i, j)
        /\ r.missing + r.skews
           = Cardinality({i \in DOMAIN r.hops : r.hops[i] = NoTime})
             + Cardinality({i \in DOMAIN r.hops : r.delays[i] # <<>> /\ r.hops[i] < r.hops[i + 1]})
        /\ r.bodyIgnored <=> {lines[i].sort : i \in (first + 1)..Len(lines)} \ {"empty", "blank"} # {}

\* HeadersAreTrue, before a step and after it.
LEMMA ReportedIs ==
    /\ HeadersAreTrue <=>
          /\ phase = "handled" /\ input.tool = "email" /\ result.kind = "result" =>
                ReportTrue(input.lines, result.data)
          /\ phase = "settled" /\ aborted => result.kind = "error"
    /\ HeadersAreTrue' <=>
          /\ phase' = "handled" /\ input'.tool = "email" /\ result'.kind = "result" =>
                ReportTrue(input'.lines, result'.data)
          /\ phase' = "settled" /\ aborted' => result'.kind = "error"
BY DEF HeadersAreTrue, ReportTrue, FirstEmpty, Lines

\* The report on what was read is true of the lines.
LEMMA ReportIs ==
    ASSUME input.lines \in Seq(HeaderRows), HeaderRead
    PROVE  ReportTrue(input.lines, Report(work))
<1> DEFINE head == 1..(FirstEmpty - 1)
           starts == InOrder({i \in head : Lines[i].sort = "received"})
           Own(i) == {j \in head : j >= i /\ \A k \in (i + 1)..j : Lines[k].sort \in Folds}
           TimeOf(i) ==
                 LET marks == {j \in Own(i) : Lines[j].semicolon}
                 IN  IF marks = {} THEN NoTime ELSE Time(TextsOf(Lines, Max(marks), Max(Own(i))))
           r == Report(work)
           hops == Hops(work)
           delays == [i \in DOMAIN hops |-> Delay(hops, i)]
<1> DEFINE authentic == Cardinality(OfSort(work, "authentication"))
           untimed == Cardinality({i \in DOMAIN hops : hops[i] = NoTime})
           skewed == Cardinality({i \in DOMAIN hops : delays[i] # <<>> /\ delays[i][1] < 0})
<1>2. r = [headers |-> Len(work), hops |-> hops, delays |-> delays, authentication |-> authentic,
           missing |-> untimed, skews |-> skewed, bodyIgnored |-> BodyIgnored]
  BY DEF Report, Hops
<1>13. /\ r.headers = Len(work) /\ r.hops = hops /\ r.delays = delays
       /\ r.missing = untimed /\ r.skews = skewed /\ r.bodyIgnored = BodyIgnored
  <2> HIDE DEF r, hops, delays, authentic, untimed, skewed
  <2> QED  BY <1>2, Zenon
<1>3. /\ hops \in Seq(Times)
      /\ hops = [i \in DOMAIN starts |-> TimeTold(starts[i])]
  BY HopsAre DEF ReceivedLines, HeadLines
<1>4. \A i : TimeTold(i) = TimeOf(i)
  BY DEF TimeTold, Marks, OwnLines
<1>5. FirstEmpty - 1 \in Nat /\ Lines \in Seq(HeaderRows) /\ FirstEmpty \in 1..(Len(Lines) + 1)
      /\ Len(work) = Cardinality({i \in head : Lines[i].sort \notin Folds})
  BY FieldsAre, FirstEmptyIs DEF Starting, Lines
<1> HIDE DEF r, hops, head, starts, TimeOf
<1>6. r.hops = [i \in DOMAIN starts |-> TimeOf(starts[i])]
  BY <1>13, <1>3, <1>4
<1>7. r.headers = Cardinality({i \in head : Lines[i].sort \notin Folds})
  BY <1>13, <1>5
<1>8. \A i \in DOMAIN r.hops :
         r.delays[i] # <<>> <=> i < Len(r.hops) /\ NoTime \notin {r.hops[i], r.hops[i + 1]}
  BY <1>13, <1>3, DelayIs
<1>9. \A i, j \in DOMAIN r.hops :
         i < j /\ NoTime \notin {r.hops[k] : k \in i..j} => r.hops[i] - r.hops[j] = DelaySum(r.delays, i, j)
  <2> SUFFICES ASSUME NEW i \in DOMAIN hops, NEW j \in DOMAIN hops, i < j, NoTime \notin {hops[k] : k \in i..j}
               PROVE  hops[i] - hops[j] = DelaySum(delays, i, j)
    BY <1>2
  <2> QED  BY <1>3, DelaysAdd
<1>10. {i \in DOMAIN hops : delays[i] # <<>> /\ delays[i][1] < 0}
       = {i \in DOMAIN hops : delays[i] # <<>> /\ hops[i] < hops[i + 1]}
  <2>1. \A i \in DOMAIN hops : delays[i] # <<>> => (delays[i][1] < 0 <=> hops[i] < hops[i + 1])
    <3> SUFFICES ASSUME NEW i \in DOMAIN hops, delays[i] # <<>> PROVE delays[i][1] < 0 <=> hops[i] < hops[i + 1]
      OBVIOUS
    <3>1. hops[i] \in Int /\ hops[i + 1] \in Int /\ delays[i][1] = hops[i] - hops[i + 1]
      BY <1>3, DelayIs
    <3> HIDE DEF delays
    <3> QED  BY <3>1
  <2> HIDE DEF delays
  <2> QED  BY <2>1
<1> HIDE DEF delays
<1>11. r.missing + r.skews
       = Cardinality({i \in DOMAIN r.hops : r.hops[i] = NoTime})
         + Cardinality({i \in DOMAIN r.hops : r.delays[i] # <<>> /\ r.hops[i] < r.hops[i + 1]})
  BY <1>13, <1>10
<1>12. r.bodyIgnored <=> {Lines[i].sort : i \in (FirstEmpty + 1)..Len(Lines)} \ {"empty", "blank"} # {}
  <2>1. DOMAIN Lines = 1..Len(Lines) /\ FirstEmpty \in Nat
    BY <1>5
  <2>2. \A i : i \in DOMAIN Lines /\ i > FirstEmpty <=> i \in (FirstEmpty + 1)..Len(Lines)
    BY <1>5
  <2> QED  BY <1>13, <2>2 DEF BodyIgnored
<1> QED  BY <1>6, <1>7, <1>8, <1>9, <1>11, <1>12 DEF ReportTrue, FirstEmpty, Lines, r, starts, TimeOf, head
-----------------------------------------------------------------------------
(* The steps of an analysis.                                               *)

\* What is awaited has been read, and what was reported is true.
HeadersInv ==
    input.tool = "email" =>
        /\ phase # "working"
        /\ phase = "awaiting" => HeaderRead
        /\ phase = "handled" /\ result.kind = "result" => ReportTrue(input.lines, result.data)

\* Every step keeps it.
LEMMA HeadersStep ==
    ASSUME RuntimeInv, HeadersInv, [Next]_callVars
    PROVE  HeadersInv'
<1> SUFFICES ASSUME input'.tool = "email"
             PROVE  /\ phase' # "working"
                    /\ phase' = "awaiting" => HeaderRead'
                    /\ phase' = "handled" /\ result'.kind = "result" => ReportTrue(input'.lines, result'.data)
  BY DEF HeadersInv
<1>1. input' = input
  BY DEF Next, callVars, Parse, Settle, Check, Abort, Structured, Regex, Password, Base64, Epoch, Chmod,
         Unfold, Parsed, FormatJson, Start, Enter, Return, RegexStart, NoMatch, TooMany, Match, OverBudget,
         PasswordStart, Drawn, Passphrase, Draw, Proceed, Leave
<1>2. /\ phase # "working"
      /\ phase = "awaiting" => HeaderRead
      /\ phase = "handled" /\ result.kind = "result" => ReportTrue(input.lines, result.data)
  BY <1>1 DEF HeadersInv
<1>3. input.lines \in Seq(HeaderRows)
  BY <1>1, InputsAssumption DEF RuntimeInv, CallInv, HeaderText, HeaderRows, Sorts
<1>4. HeaderRead' <=> work' \in Seq(HeaderFields)
                      /\ ReadTrue([fields |-> work', fault |-> "none"], input.lines, FirstEmpty - 1)
  BY <1>1 DEF HeaderRead, FirstEmpty, Lines
<1>5. CASE Unfold
  <2> DEFINE read == AllRead
  <2>1. read \in ReadStates /\ ReadTrue(read, input.lines, FirstEmpty - 1)
    BY <1>3, AllReadIs DEF Lines
  <2>2. \/ \E code : Leave(Fault(code))
        \/ read.fault = "none" /\ phase' = "awaiting" /\ work' = read.fields
    BY <1>5 DEF Unfold
  <2> HIDE DEF read
  <2>3. ASSUME NEW code, Leave(Fault(code)) PROVE phase' = "handled" /\ result'.kind = "error"
    BY <2>3 DEF Leave, Fault
  <2>4. CASE read.fault = "none" /\ phase' = "awaiting" /\ work' = read.fields
    <3>1. work' \in Seq(HeaderFields)
      BY <2>1, <2>4 DEF ReadStates
    <3>2. ReadTrue([fields |-> work', fault |-> "none"], input.lines, FirstEmpty - 1)
      BY <2>1, <2>4 DEF ReadTrue
    <3> QED  BY <1>4, <2>4, <3>1, <3>2
  <2> QED  BY <2>2, <2>3, <2>4
<1>6. CASE Parsed
  <2>1. phase = "awaiting" /\ phase' = "handled"
        /\ (result' = Fault("LIMIT_EXCEEDED") \/ result' = Data(Report(work)))
    BY <1>6 DEF Parsed, Leave
  <2>2. ReportTrue(input.lines, Report(work))
    BY <1>2, <1>3, <2>1, ReportIs
  <2>3. CASE result' = Fault("LIMIT_EXCEEDED")
    BY <2>1, <2>3 DEF Fault
  <2>4. CASE result' = Data(Report(work))
    <3>1. result'.data = Report(work)
      BY <2>4 DEF Data
    <3> QED  BY <1>1, <2>1, <2>2, <3>1
  <2> QED  BY <2>1, <2>3, <2>4
<1>7. CASE Parse \/ Check
  BY <1>7 DEF Parse, Check, Settle
<1>8. CASE Abort \/ UNCHANGED callVars
  <2>1. UNCHANGED <<input, phase, work, result>>
    BY <1>8 DEF Abort, callVars
  <2>2. HeaderRead' <=> HeaderRead
    BY <2>1 DEF HeaderRead, FirstEmpty, Lines
  <2> QED  BY <1>2, <2>1, <2>2
<1>9. ~(Structured \/ Regex \/ Password \/ Base64 \/ Epoch \/ Chmod)
  BY <1>1, <1>2 DEF Structured, Regex, Password, Base64, Epoch, Chmod, FormatJson, Start, Enter, Return,
         RegexStart, NoMatch, TooMany, Match, OverBudget, PasswordStart, Drawn, Passphrase, Draw, Begun, Working
<1> QED  BY <1>5, <1>6, <1>7, <1>8, <1>9 DEF Next

-----------------------------------------------------------------------------
(* Sums over finite sets, and powers.                                      *)

\* The sums that SumFunctionOnSet goes through, set by set.
Adds(g, f, S) ==
    /\ g = [s \in SUBSET S |-> g[s]]
    /\ \A s \in SUBSET S :
          g[s] = IF s = {} THEN 0 ELSE f[CHOOSE x \in s : TRUE] + g[s \ {CHOOSE x \in s : TRUE}]
\* For the sets of at most n elements.
AddsTo(g, f, S, n) ==
    \A s \in SUBSET S : Cardinality(s) <= n =>
        g[s] = IF s = {} THEN 0 ELSE f[CHOOSE x \in s : TRUE] + g[s \ {CHOOSE x \in s : TRUE}]

\* The element taken from a set is one of it, and one fewer are left.
LEMMA OneLess ==
    ASSUME NEW S, IsFiniteSet(S), NEW s \in SUBSET S, NEW x \in s
    PROVE  /\ s \ {x} \in SUBSET S /\ IsFiniteSet(s) /\ IsFiniteSet(s \ {x})
           /\ Cardinality(s) \in Nat \ {0} /\ Cardinality(s \ {x}) = Cardinality(s) - 1
<1>1. IsFiniteSet(s)
  BY FS_Subset
<1>2. IsFiniteSet(s \ {x}) /\ Cardinality(s \ {x}) = Cardinality(s) - 1
  BY <1>1, FS_RemoveElement
<1>3. Cardinality(s) \in Nat /\ Cardinality(s \ {x}) \in Nat
  BY <1>1, <1>2, FS_CardinalityType
<1> QED  BY <1>1, <1>2, <1>3

\* There are such sums.
LEMMA AddsExist ==
    ASSUME NEW f, NEW S, IsFiniteSet(S)
    PROVE  \E g : Adds(g, f, S)
<1> DEFINE one(s) == CHOOSE x \in s : TRUE
           Bad == {n \in Nat : ~ \E g : AddsTo(g, f, S, n)}
<1>0. \A s \in SUBSET S : s # {} => one(s) \in s
  OBVIOUS
<1> HIDE DEF one
<1>1. Bad = {}
  <2> SUFFICES ASSUME Bad # {} PROVE FALSE
    OBVIOUS
  <2>1. PICK k \in Bad : \A n \in Bad : k <= n
    BY LeastOf
  <2>2. k # 0
    <3>1. \A s \in SUBSET S : Cardinality(s) <= 0 => s = {}
      BY FS_Subset, FS_EmptySet, FS_CardinalityType
    <3>2. AddsTo([s \in SUBSET S |-> 0], f, S, 0)
      BY <3>1 DEF AddsTo
    <3> QED  BY <2>1, <3>2
  <2>3. k \in Nat /\ k - 1 \in Nat /\ ~(k <= k - 1)
    BY <2>2
  <2>4. PICK g : AddsTo(g, f, S, k - 1)
    BY <2>1, <2>3
  <2> DEFINE h == [s \in SUBSET S |-> IF Cardinality(s) <= k - 1 THEN g[s]
                                      ELSE f[one(s)] + g[s \ {one(s)}]]
  <2>5. ASSUME NEW s \in SUBSET S, Cardinality(s) <= k
        PROVE  h[s] = IF s = {} THEN 0 ELSE f[one(s)] + h[s \ {one(s)}]
    <3>1. CASE s = {}
      <4>1. Cardinality(s) <= k - 1
        BY <2>3, <3>1, FS_EmptySet
      <4>2. g[s] = 0
        BY <2>4, <3>1, <4>1 DEF AddsTo
      <4> QED  BY <3>1, <4>1, <4>2
    <3>2. CASE s # {}
      <4>1. one(s) \in s
        BY <1>0, <3>2
      <4>2. s \ {one(s)} \in SUBSET S /\ Cardinality(s) \in Nat \ {0}
            /\ Cardinality(s \ {one(s)}) = Cardinality(s) - 1
        BY <4>1, OneLess
      <4>3. Cardinality(s \ {one(s)}) <= k - 1
        BY <2>3, <2>5, <4>2
      <4>4. h[s \ {one(s)}] = g[s \ {one(s)}]
        BY <4>2, <4>3
      <4>5. h[s] = f[one(s)] + g[s \ {one(s)}]
        <5>1. CASE Cardinality(s) <= k - 1
          <6>1. g[s] = f[one(s)] + g[s \ {one(s)}]
            BY <2>4, <3>2, <5>1 DEF AddsTo, one
          <6> QED  BY <5>1, <6>1
        <5>2. CASE ~(Cardinality(s) <= k - 1)
          BY <5>2
        <5> QED  BY <5>1, <5>2
      <4> QED  BY <3>2, <4>4, <4>5
    <3> QED  BY <3>1, <3>2
  <2> HIDE DEF h
  <2>6. AddsTo(h, f, S, k)
    BY <2>5 DEF AddsTo, one
  <2> QED  BY <2>1, <2>6
<1>2. Cardinality(S) \in Nat
  BY FS_CardinalityType
<1>3. PICK g : AddsTo(g, f, S, Cardinality(S))
  BY <1>1, <1>2
<1> DEFINE h == [s \in SUBSET S |-> g[s]]
<1>4. \A s \in SUBSET S : Cardinality(s) <= Cardinality(S)
  BY FS_Subset
<1>5. \A s \in SUBSET S : h[s] = IF s = {} THEN 0 ELSE f[one(s)] + h[s \ {one(s)}]
  <2> SUFFICES ASSUME NEW s \in SUBSET S PROVE h[s] = IF s = {} THEN 0 ELSE f[one(s)] + h[s \ {one(s)}]
    OBVIOUS
  <2>1. g[s] = IF s = {} THEN 0 ELSE f[one(s)] + g[s \ {one(s)}]
    BY <1>3, <1>4 DEF AddsTo, one
  <2>2. s \ {one(s)} \in SUBSET S
    OBVIOUS
  <2> QED  BY <2>1, <2>2
<1>6. h = [s \in SUBSET S |-> h[s]]
  OBVIOUS
<1> HIDE DEF h
<1>7. Adds(h, f, S)
  BY <1>5, <1>6 DEF Adds, one
<1> QED  BY <1>7

\* Two of them agree where their terms do.
LEMMA AddsAgree ==
    ASSUME NEW f, NEW e, NEW S, NEW T, IsFiniteSet(S), IsFiniteSet(T), NEW g, NEW h, Adds(g, f, S), Adds(h, e, T),
           NEW A \in SUBSET S, A \in SUBSET T, \A x \in A : f[x] = e[x]
    PROVE  g[A] = h[A]
<1> DEFINE one(s) == CHOOSE x \in s : TRUE
           Bad == {n \in Nat : \E s \in SUBSET A : Cardinality(s) = n /\ g[s] # h[s]}
<1>0. \A s \in SUBSET A : s # {} => one(s) \in s
  OBVIOUS
<1> HIDE DEF one
<1>1. \A s \in SUBSET A : g[s] = IF s = {} THEN 0 ELSE f[one(s)] + g[s \ {one(s)}]
  BY DEF Adds, one
<1>2. \A s \in SUBSET A : h[s] = IF s = {} THEN 0 ELSE e[one(s)] + h[s \ {one(s)}]
  BY DEF Adds, one
<1>3. Bad = {}
  <2> SUFFICES ASSUME Bad # {} PROVE FALSE
    OBVIOUS
  <2>1. PICK k \in Bad : \A n \in Bad : k <= n
    BY LeastOf
  <2>2. PICK s \in SUBSET A : Cardinality(s) = k /\ g[s] # h[s]
    BY <2>1
  <2>3. s # {} /\ one(s) \in s
    BY <1>0, <1>1, <1>2, <2>2
  <2>4. s \ {one(s)} \in SUBSET A /\ k \in Nat \ {0} /\ Cardinality(s \ {one(s)}) = k - 1
    <3>1. IsFiniteSet(A)
      BY FS_Subset
    <3>2. /\ s \ {one(s)} \in SUBSET A /\ Cardinality(s) \in Nat \ {0}
          /\ Cardinality(s \ {one(s)}) = Cardinality(s) - 1
      BY <2>3, <3>1, OneLess
    <3> QED  BY <2>2, <3>2
  <2>5. k - 1 \in Nat /\ ~(k <= k - 1)
    BY <2>4
  <2>6. g[s \ {one(s)}] = h[s \ {one(s)}]
    BY <2>1, <2>4, <2>5
  <2>7. f[one(s)] = e[one(s)]
    BY <2>3
  <2> QED  BY <1>1, <1>2, <2>2, <2>3, <2>6, <2>7
<1>4. Cardinality(A) \in Nat
  BY FS_Subset, FS_CardinalityType
<1> QED  BY <1>3, <1>4

\* The sum of some terms.
Sigma(f, S) == SumFunctionOnSet(f, S)

\* SumFunctionOnSet() goes through them.
LEMMA SigmaAdds ==
    ASSUME NEW f, NEW S, IsFiniteSet(S)
    PROVE  \E g : Adds(g, f, S) /\ Sigma(f, S) = g[S]
<1> DEFINE Loop(g) == [s \in SUBSET S |-> IF s = {} THEN 0 ELSE f[CHOOSE x \in s : TRUE] + g[s \ {CHOOSE x \in s : TRUE}]]
           iter == CHOOSE g : g = Loop(g)
<1>1. Sigma(f, S) = iter[S]
  BY DEF Sigma, SumFunctionOnSet, FoldFunctionOnSet, MapThenFoldSet
<1>2. PICK g : Adds(g, f, S)
  BY AddsExist
<1>3. g = Loop(g)
  BY <1>2 DEF Adds
<1>4. iter = Loop(iter)
  <2> HIDE DEF Loop
  <2> QED  BY <1>3
<1> HIDE DEF iter
<1>5. Adds(iter, f, S)
  BY <1>4 DEF Adds
<1> QED  BY <1>1, <1>5

\* A sum depends on its terms only.
LEMMA SigmaSame ==
    ASSUME NEW f, NEW e, NEW S, IsFiniteSet(S), \A x \in S : f[x] = e[x]
    PROVE  Sigma(f, S) = Sigma(e, S)
<1>1. PICK g : Adds(g, f, S) /\ Sigma(f, S) = g[S]
  BY SigmaAdds
<1>2. PICK h : Adds(h, e, S) /\ Sigma(e, S) = h[S]
  BY SigmaAdds
<1>3. S \in SUBSET S
  OBVIOUS
<1> QED  BY <1>1, <1>2, <1>3, AddsAgree

\* It may be taken in any order.
LEMMA SigmaIs ==
    ASSUME NEW f, NEW S, IsFiniteSet(S), \A x \in S : f[x] \in Int
    PROVE  /\ Sigma(f, {}) = 0
           /\ Sigma(f, S) \in Int
           /\ \A x \in S : Sigma(f, S) = f[x] + Sigma(f, S \ {x})
<1> DEFINE one(s) == CHOOSE x \in s : TRUE
<1>0. \A s \in SUBSET S : s # {} => one(s) \in s
  OBVIOUS
<1> HIDE DEF one
<1>1. PICK g : Adds(g, f, S) /\ Sigma(f, S) = g[S]
  BY SigmaAdds
<1>2. ASSUME NEW s \in SUBSET S PROVE IsFiniteSet(s) /\ Sigma(f, s) = g[s]
  <2>1. IsFiniteSet(s)
    BY FS_Subset
  <2>2. PICK h : Adds(h, f, s) /\ Sigma(f, s) = h[s]
    BY <2>1, SigmaAdds
  <2>3. s \in SUBSET s
    OBVIOUS
  <2>4. g[s] = h[s]
    BY <1>1, <2>1, <2>2, <2>3, AddsAgree
  <2> QED  BY <2>1, <2>2, <2>4
<1>3. \A s \in SUBSET S : g[s] = IF s = {} THEN 0 ELSE f[one(s)] + g[s \ {one(s)}]
  BY <1>1 DEF Adds, one
<1> DEFINE Right(s) == g[s] \in Int /\ \A x \in s : g[s] = f[x] + g[s \ {x}]
           Bad == {n \in Nat : \E s \in SUBSET S : Cardinality(s) = n /\ ~Right(s)}
<1>4. Bad = {}
  <2> SUFFICES ASSUME Bad # {} PROVE FALSE
    OBVIOUS
  <2>1. PICK k \in Bad : \A n \in Bad : k <= n
    BY LeastOf
  <2>2. PICK s \in SUBSET S : Cardinality(s) = k /\ ~Right(s)
    BY <2>1
  <2>3. s # {}
    <3>1. ASSUME s = {} PROVE g[s] = 0
      BY <1>3, <3>1
    <3> QED  BY <2>2, <3>1
  <2> DEFINE c == one(s)
  <2>4. c \in s /\ g[s] = f[c] + g[s \ {c}] /\ f[c] \in Int
    BY <1>0, <1>3, <2>3
  <2> HIDE DEF c
  <2>5. \A x \in s : /\ s \ {x} \in SUBSET S /\ Cardinality(s \ {x}) = k - 1 /\ k - 1 \in Nat /\ ~(k <= k - 1)
    <3> SUFFICES ASSUME NEW x \in s
                 PROVE  /\ s \ {x} \in SUBSET S /\ Cardinality(s \ {x}) = k - 1 /\ k - 1 \in Nat /\ ~(k <= k - 1)
      OBVIOUS
    <3>1. s \ {x} \in SUBSET S /\ Cardinality(s) \in Nat \ {0} /\ Cardinality(s \ {x}) = Cardinality(s) - 1
      BY OneLess
    <3>2. Cardinality(s) = k
      BY <2>2
    <3> QED  BY <3>1, <3>2
  <2>6. \A x \in s : Right(s \ {x})
    BY <2>1, <2>5
  <2>7. g[s \ {c}] \in Int /\ g[s] \in Int
    <3>1. g[s \ {c}] \in Int
      BY <2>4, <2>6
    <3> QED  BY <2>4, <3>1
  <2>8. ASSUME NEW x \in s PROVE g[s] = f[x] + g[s \ {x}]
    <3>1. CASE x = c
      BY <2>4, <3>1
    <3>2. CASE x # c
      <4>1. x \in s \ {c} /\ c \in s \ {x} /\ (s \ {c}) \ {x} = (s \ {x}) \ {c}
        BY <2>4, <3>2
      <4>2. g[s \ {c}] = f[x] + g[(s \ {c}) \ {x}]
        BY <2>4, <2>6, <4>1
      <4>3. g[s \ {x}] = f[c] + g[(s \ {x}) \ {c}]
        BY <2>6, <4>1
      <4> DEFINE r == g[(s \ {x}) \ {c}]
      <4>4. r \in Int
        <5>1. s \ {x} \in SUBSET S /\ Cardinality(s \ {x}) = k - 1 /\ k \in Nat
          BY <2>5
        <5> DEFINE t == s \ {x}
        <5>2. t \in SUBSET S /\ c \in t /\ Cardinality(t) = k - 1
          BY <4>1, <5>1
        <5> HIDE DEF t
        <5>3. t \ {c} \in SUBSET S /\ Cardinality(t) \in Nat \ {0} /\ Cardinality(t \ {c}) = Cardinality(t) - 1
          BY <5>2, OneLess
        <5>4. Cardinality(t \ {c}) \in Nat /\ ~(k <= Cardinality(t \ {c}))
          BY <5>1, <5>2, <5>3
        <5>5. Right(t \ {c})
          BY <2>1, <5>3, <5>4
        <5> QED  BY <5>5 DEF t
      <4>5. f[x] \in Int
        OBVIOUS
      <4>6. g[s \ {c}] = f[x] + r /\ g[s \ {x}] = f[c] + r
        BY <4>1, <4>2, <4>3
      <4> HIDE DEF r
      <4> QED  BY <2>4, <4>4, <4>5, <4>6
    <3> QED  BY <3>1, <3>2
  <2> QED  BY <2>2, <2>7, <2>8
<1>5. \A s \in SUBSET S : Right(s)
  <2>1. \A s \in SUBSET S : Cardinality(s) \in Nat
    BY <1>2, FS_CardinalityType
  <2> QED  BY <1>4, <2>1
<1>6. S \in SUBSET S /\ {} \in SUBSET S /\ \A x \in S : S \ {x} \in SUBSET S
  OBVIOUS
<1> QED  BY <1>1, <1>2, <1>3, <1>5, <1>6

\* The powers that Pow goes through.
Powers(g, base, n) ==
    /\ g = [i \in 0..n |-> g[i]]
    /\ g[0] = 1
    /\ \A i \in 1..n : g[i] = base * g[i - 1]

\* There are such powers.
LEMMA PowersExist ==
    ASSUME NEW base, NEW m \in Nat
    PROVE  \E g : Powers(g, base, m)
<1> DEFINE Bad == {n \in Nat : ~ \E g : Powers(g, base, n)}
<1> SUFFICES ASSUME Bad # {} PROVE FALSE
  OBVIOUS
<1>1. PICK k \in Bad : \A n \in Bad : k <= n
  BY LeastOf
<1>2. k # 0
  <2>1. Powers([n \in 0..0 |-> 1], base, 0)
    BY DEF Powers
  <2> QED  BY <1>1, <2>1
<1>3. k \in Nat /\ k - 1 \in Nat /\ ~(k <= k - 1)
  BY <1>2
<1>4. PICK f : Powers(f, base, k - 1)
  BY <1>1, <1>3
<1> DEFINE last == base * f[k - 1]
           g == [n \in 0..k |-> IF n = k THEN last ELSE f[n]]
<1>5. g[0] = 1 /\ g[k] = last /\ \A n \in 0..(k - 1) : g[n] = f[n]
  <2> HIDE DEF last
  <2> QED  BY <1>2, <1>3, <1>4 DEF Powers
<1>6. g = [n \in 0..k |-> g[n]]
  OBVIOUS
<1> HIDE DEF g
<1>7. \A n \in 1..k : g[n] = base * g[n - 1]
  <2> SUFFICES ASSUME NEW n \in 1..k PROVE g[n] = base * g[n - 1]
    OBVIOUS
  <2>1. CASE n = k
    <3>1. g[k - 1] = f[k - 1]
      BY <1>3, <1>5
    <3> QED  BY <1>5, <2>1, <3>1
  <2>2. CASE n # k
    <3>1. n \in 1..(k - 1) /\ n - 1 \in 0..(k - 1) /\ n \in 0..(k - 1)
      BY <1>3, <2>2
    <3>2. f[n] = base * f[n - 1]
      BY <1>4, <3>1 DEF Powers
    <3> QED  BY <1>5, <3>1, <3>2
  <2> QED  BY <2>1, <2>2
<1>8. Powers(g, base, k)
  BY <1>5, <1>6, <1>7 DEF Powers
<1> QED  BY <1>1, <1>8

\* And they do not depend on how far one goes.
LEMMA PowersAgree ==
    ASSUME NEW base, NEW m \in Nat, NEW n \in Nat, m <= n, NEW g, NEW h, Powers(g, base, m), Powers(h, base, n)
    PROVE  \A i \in 0..m : g[i] = h[i]
<1> DEFINE Bad == {i \in 0..m : g[i] # h[i]}
<1> SUFFICES ASSUME Bad # {} PROVE FALSE
  OBVIOUS
<1>1. PICK k \in Bad : \A i \in Bad : k <= i
  <2>1. Bad \in SUBSET Nat
    OBVIOUS
  <2> HIDE DEF Bad
  <2> QED  BY <2>1, LeastOf
<1>2. k # 0
  BY <1>1 DEF Powers
<1>3. k \in 1..m /\ k \in 1..n /\ k - 1 \in 0..m /\ ~(k <= k - 1)
  BY <1>1, <1>2
<1>4. g[k - 1] = h[k - 1]
  BY <1>1, <1>3
<1>5. g[k] = base * g[k - 1] /\ h[k] = base * h[k - 1]
  BY <1>3 DEF Powers
<1>6. g[k] = h[k]
  <2> DEFINE p == base * g[k - 1]
  <2>1. g[k] = p /\ h[k] = p
    BY <1>4, <1>5
  <2> HIDE DEF p
  <2> QED  BY <2>1
<1> QED  BY <1>1, <1>6

\* Pow() is one of them.
LEMMA PowIsOne ==
    ASSUME NEW base, NEW n \in Nat
    PROVE  \E g : Powers(g, base, n) /\ Pow(base, n) = g[n]
<1> DEFINE Loop(g) == [i \in 0..n |-> IF i = 0 THEN 1 ELSE base * g[i - 1]]
           power == CHOOSE g : g = Loop(g)
<1>1. Pow(base, n) = power[n]
  BY DEF Pow
<1>2. PICK g : Powers(g, base, n)
  BY PowersExist
<1>3. g = Loop(g)
  <2>1. ASSUME NEW i \in 0..n PROVE g[i] = IF i = 0 THEN 1 ELSE base * g[i - 1]
    <3> DEFINE p == base * g[i - 1]
    <3>1. i = 0 => g[i] = 1
      BY <1>2 DEF Powers
    <3>2. i # 0 => i \in 1..n
      OBVIOUS
    <3>3. i # 0 => g[i] = p
      BY <1>2, <3>2 DEF Powers
    <3> HIDE DEF p
    <3>4. g[i] = IF i = 0 THEN 1 ELSE p
      BY <3>1, <3>3
    <3> QED  BY <3>4 DEF p
  <2>2. g = [i \in 0..n |-> g[i]]
    BY <1>2 DEF Powers
  <2>3. [i \in 0..n |-> g[i]] = Loop(g)
    BY <2>1
  <2> QED  BY <2>2, <2>3
<1>4. power = Loop(power)
  <2> HIDE DEF Loop
  <2> QED  BY <1>3
<1> HIDE DEF power
<1>5. Powers(power, base, n)
  <2>1. \A i \in 0..n : power[i] = IF i = 0 THEN 1 ELSE base * power[i - 1]
    BY <1>4
  <2>2. power = [i \in 0..n |-> power[i]]
    BY <1>4
  <2>3. power[0] = 1 /\ \A i \in 1..n : power[i] = base * power[i - 1]
    BY <2>1
  <2> QED  BY <2>2, <2>3 DEF Powers
<1> QED  BY <1>1, <1>5

\* The laws of powers.
LEMMA PowIs ==
    ASSUME NEW base \in Nat, NEW n \in Nat
    PROVE  /\ Pow(base, 0) = 1
           /\ Pow(base, n) \in Nat
           /\ Pow(base, n + 1) = base * Pow(base, n)
<1>1. PICK g : Powers(g, base, n + 1) /\ Pow(base, n + 1) = g[n + 1]
  BY PowIsOne
<1>2. ASSUME NEW i \in 0..(n + 1) PROVE Pow(base, i) = g[i]
  <2>1. PICK h : Powers(h, base, i) /\ Pow(base, i) = h[i]
    BY PowIsOne
  <2>2. i \in Nat /\ i <= n + 1 /\ n + 1 \in Nat /\ i \in 0..i
    OBVIOUS
  <2>3. h[i] = g[i]
    BY <1>1, <2>1, <2>2, PowersAgree
  <2> QED  BY <2>1, <2>3
<1>3. g[0] = 1 /\ \A i \in 1..(n + 1) : g[i] = base * g[i - 1]
  BY <1>1 DEF Powers
<1> DEFINE Bad == {i \in 0..(n + 1) : g[i] \notin Nat}
<1>4. Bad = {}
  <2> SUFFICES ASSUME Bad # {} PROVE FALSE
    OBVIOUS
  <2>1. PICK k \in Bad : \A i \in Bad : k <= i
    <3>1. Bad \in SUBSET Nat
      OBVIOUS
    <3> HIDE DEF Bad
    <3> QED  BY <3>1, LeastOf
  <2>2. k # 0
    BY <1>3, <2>1
  <2>3. k \in 1..(n + 1) /\ k - 1 \in 0..(n + 1) /\ ~(k <= k - 1)
    BY <2>1, <2>2
  <2>4. g[k - 1] \in Nat
    BY <2>1, <2>3
  <2>5. g[k] = base * g[k - 1]
    BY <1>3, <2>3
  <2>6. \A a, b \in Nat : a * b \in Nat
    OBVIOUS
  <2>7. g[k] \in Nat
    BY <2>4, <2>5, <2>6
  <2> QED  BY <2>1, <2>7
<1>5. g[n] \in Nat /\ n \in 0..(n + 1) /\ n + 1 \in 1..(n + 1) /\ n + 1 \in 0..(n + 1) /\ 0 \in 0..(n + 1) /\ (n + 1) - 1 = n
  BY <1>4
<1>6. g[n + 1] = base * g[n]
  BY <1>3, <1>5
<1>7. Pow(base, 0) = g[0] /\ Pow(base, n) = g[n] /\ Pow(base, n + 1) = g[n + 1]
  BY <1>2, <1>5
<1> QED  BY <1>3, <1>5, <1>6, <1>7

\* There are that many words over an alphabet.
LEMMA WordsCounted ==
    ASSUME NEW S, IsFiniteSet(S), NEW n \in Nat
    PROVE  /\ IsFiniteSet([1..n -> S]) /\ Cardinality(S) \in Nat
           /\ Cardinality([1..n -> S]) = Pow(Cardinality(S), n)
<1> DEFINE Right(m) == IsFiniteSet([1..m -> S]) /\ Cardinality([1..m -> S]) = Pow(Cardinality(S), m)
           Bad == {m \in Nat : ~Right(m)}
<1>0. Cardinality(S) \in Nat
  BY FS_CardinalityType
<1> SUFFICES ASSUME Bad # {} PROVE FALSE
  BY <1>0
<1>1. PICK k \in Bad : \A m \in Bad : k <= m
  BY LeastOf
<1>2. k # 0
  <2>1. [1..0 -> S] = {<<>>}
    <3>1. 1..0 = {}
      OBVIOUS
    <3>2. <<>> \in [1..0 -> S] /\ \A f \in [1..0 -> S] : f = <<>>
      BY <3>1
    <3> QED  BY <3>2
  <2>2. IsFiniteSet({<<>>}) /\ Cardinality({<<>>}) = 1
    BY FS_Singleton
  <2>3. Pow(Cardinality(S), 0) = 1
    BY <1>0, PowIs
  <2>4. Right(0)
    BY <2>1, <2>2, <2>3
  <2> QED  BY <1>1, <2>4
<1> DEFINE m == k - 1
<1>3. k \in Nat /\ m \in Nat /\ m + 1 = k /\ ~(k <= m)
  BY <1>2
<1>4. Right(m)
  BY <1>1, <1>3
<1> DEFINE A == [1..m -> S]
           B == [1..k -> S]
           h == [p \in A \X S |-> [i \in 1..k |-> IF i = k THEN p[2] ELSE p[1][i]]]
<1>5. /\ IsFiniteSet(A \X S)
      /\ Cardinality(A \X S) = Pow(Cardinality(S), m) * Cardinality(S)
  BY <1>4, FS_Product
<1> HIDE DEF m
<1>6. 1..k = (1..m) \cup {k} /\ k \notin 1..m
  BY <1>3
<1>7. h \in [A \X S -> B]
  <2> SUFFICES ASSUME NEW p \in A \X S PROVE [i \in 1..k |-> IF i = k THEN p[2] ELSE p[1][i]] \in B
    OBVIOUS
  <2>1. p[1] \in A /\ p[2] \in S
    OBVIOUS
  <2>2. ASSUME NEW i \in 1..k PROVE (IF i = k THEN p[2] ELSE p[1][i]) \in S
    BY <1>6, <2>1
  <2> QED  BY <2>2
<1>8. ASSUME NEW p \in A \X S, NEW q \in A \X S, h[p] = h[q] PROVE p = q
  <2>1. h[p] = [i \in 1..k |-> IF i = k THEN p[2] ELSE p[1][i]]
        /\ h[q] = [i \in 1..k |-> IF i = k THEN q[2] ELSE q[1][i]]
    OBVIOUS
  <2> HIDE DEF h
  <2>2. p[2] = q[2]
    <3>1. h[p][k] = p[2] /\ h[q][k] = q[2]
      BY <1>6, <2>1
    <3> QED  BY <1>8, <3>1
  <2>3. \A i \in 1..m : p[1][i] = q[1][i]
    <3>1. \A i \in 1..m : h[p][i] = p[1][i] /\ h[q][i] = q[1][i]
      BY <1>6, <2>1
    <3> QED  BY <1>8, <3>1
  <2>4. p[1] \in A /\ q[1] \in A /\ p = <<p[1], p[2]>> /\ q = <<q[1], q[2]>>
    OBVIOUS
  <2> DEFINE a == p[1]
             b == q[1]
  <2>5. a \in A /\ b \in A /\ \A i \in 1..m : a[i] = b[i]
    BY <2>3, <2>4
  <2> HIDE DEF a, b
  <2>6. a = [i \in 1..m |-> a[i]] /\ b = [i \in 1..m |-> b[i]]
    BY <2>5
  <2>7. a = b
    BY <2>5, <2>6
  <2> QED  BY <2>2, <2>4, <2>7 DEF a, b
<1>9. ASSUME NEW w \in B PROVE \E p \in A \X S : h[p] = w
  <2> DEFINE p == <<[i \in 1..m |-> w[i]], w[k]>>
  <2>1. p \in A \X S
    BY <1>6
  <2>2. h[p] = [i \in 1..k |-> IF i = k THEN p[2] ELSE p[1][i]]
    BY <2>1
  <2>3. p[1] = [i \in 1..m |-> w[i]] /\ p[2] = w[k] /\ w = [i \in 1..k |-> w[i]]
    OBVIOUS
  <2> HIDE DEF p, h
  <2> DEFINE v == h[p]
  <2>4. v = [i \in 1..k |-> v[i]] /\ \A i \in 1..k : v[i] = w[i]
    BY <1>6, <2>2, <2>3
  <2> HIDE DEF v
  <2>5. v = w
    BY <2>3, <2>4
  <2> QED  BY <2>1, <2>5 DEF v
<1> HIDE DEF h, A, B
<1>10. h \in Bijection(A \X S, B)
  BY <1>7, <1>8, <1>9 DEF Bijection, Injection, IsInjective, Surjection
<1>11. IsFiniteSet(B) /\ Cardinality(B) = Cardinality(A \X S)
  BY <1>5, <1>10, FS_Bijection DEF ExistsBijection
<1>12. Pow(Cardinality(S), k) = Pow(Cardinality(S), m) * Cardinality(S)
  <2>1. Pow(Cardinality(S), m + 1) = Cardinality(S) * Pow(Cardinality(S), m) /\ Pow(Cardinality(S), m) \in Nat
    BY <1>0, <1>3, PowIs
  <2>2. \A a, b \in Nat : a * b = b * a
    OBVIOUS
  <2> QED  BY <1>0, <1>3, <2>1, <2>2
<1>13. Right(k)
  BY <1>5, <1>11, <1>12 DEF B
<1> QED  BY <1>1, <1>13

\* The terms of e, at the elements of A, are those of f at their images with the sign changed.
Turned(f, S, h, e, A) ==
    /\ IsFiniteSet(S) /\ IsFiniteSet(A)
    /\ \A x, y \in A : h[x] = h[y] => x = y
    /\ \A x \in A : h[x] \notin S /\ f[h[x]] \in Int /\ e[x] \in Int /\ f[h[x]] = -e[x]
    /\ \A x \in S : f[x] \in Int
\* The sum over V is what is left of that over S.
SumIs(f, V, S, e, A) == Sigma(f, V) = Sigma(f, S) - Sigma(e, A)

\* A sum over two parts, one of which is another sum with all signs changed.
LEMMA SigmaMinus ==
    ASSUME NEW f, NEW S, NEW h, NEW e, NEW A, Turned(f, S, h, e, A)
    PROVE  SumIs(f, S \cup {h[x] : x \in A}, S, e, A)
<1>0. /\ IsFiniteSet(S) /\ IsFiniteSet(A)
      /\ \A x, y \in A : h[x] = h[y] => x = y
      /\ \A x \in A : h[x] \notin S /\ f[h[x]] \in Int /\ e[x] \in Int /\ f[h[x]] = -e[x]
      /\ \A x \in S : f[x] \in Int
  BY DEF Turned
<1> USE <1>0
<1> DEFINE Image(a) == {h[x] : x \in a}
           Right(a) == IsFiniteSet(S \cup Image(a)) /\ Sigma(f, S \cup Image(a)) = Sigma(f, S) - Sigma(e, a)
           Bad == {n \in Nat : \E a \in SUBSET A : Cardinality(a) = n /\ ~Right(a)}
<1>1. Sigma(f, S) \in Int
  BY SigmaIs
<1>2. \A a \in SUBSET A : IsFiniteSet(a) /\ Cardinality(a) \in Nat /\ Sigma(e, a) \in Int
  <2> SUFFICES ASSUME NEW a \in SUBSET A PROVE IsFiniteSet(a) /\ Cardinality(a) \in Nat /\ Sigma(e, a) \in Int
    OBVIOUS
  <2>1. IsFiniteSet(a)
    BY FS_Subset
  <2>2. \A x \in a : e[x] \in Int
    OBVIOUS
  <2> QED  BY <2>1, <2>2, FS_CardinalityType, SigmaIs
<1>3. \A a \in SUBSET A : \A y \in S \cup Image(a) : f[y] \in Int
  OBVIOUS
<1>4. Bad = {}
  <2> SUFFICES ASSUME Bad # {} PROVE FALSE
    OBVIOUS
  <2>1. PICK k \in Bad : \A n \in Bad : k <= n
    <3>1. Bad \in SUBSET Nat
      OBVIOUS
    <3> HIDE DEF Bad
    <3> QED  BY <3>1, LeastOf
  <2>2. PICK a \in SUBSET A : Cardinality(a) = k /\ ~Right(a)
    BY <2>1
  <2>3. a # {}
    <3>1. ASSUME a = {} PROVE Right(a)
      <4>1. S \cup Image(a) = S
        BY <3>1
      <4>2. Sigma(e, {}) = 0
        <5>1. \A x \in {} : e[x] \in Int
          OBVIOUS
        <5>2. IsFiniteSet({})
          BY FS_EmptySet
        <5> QED  BY <5>1, <5>2, SigmaIs
      <4>3. Sigma(e, a) = 0 /\ S \cup Image(a) = S
        BY <3>1, <4>1, <4>2
      <4> HIDE DEF Image
      <4>4. IsFiniteSet(S \cup Image(a)) /\ Sigma(f, S \cup Image(a)) = Sigma(f, S)
        BY <4>3
      <4> QED  BY <1>1, <4>3, <4>4
    <3> QED  BY <2>2, <3>1
  <2>4. PICK x \in a : TRUE
    BY <2>3
  <2> DEFINE b == a \ {x}
             U == S \cup Image(b)
             y == h[x]
  <2>5. b \in SUBSET A /\ Cardinality(b) \in Nat /\ ~(k <= Cardinality(b))
    <3>1. a \ {x} \in SUBSET A /\ Cardinality(a) \in Nat \ {0} /\ Cardinality(a \ {x}) = Cardinality(a) - 1
      BY OneLess
    <3> QED  BY <2>2, <3>1
  <2>6. Right(b)
    <3> HIDE DEF Right, b
    <3> QED  BY <2>1, <2>5
  <2>7. x \in A /\ y \notin S /\ f[y] \in Int /\ e[x] \in Int /\ f[y] = -e[x]
    OBVIOUS
  <2>8. y \notin U /\ S \cup Image(a) = U \cup {y}
    OBVIOUS
  <2>9. \A z \in U : f[z] \in Int
    BY <1>3, <2>5
  <2>10. Sigma(e, a) = e[x] + Sigma(e, b)
    <3>1. IsFiniteSet(a) /\ \A z \in a : e[z] \in Int
      BY <1>2
    <3> QED  BY <3>1, SigmaIs
  <2>11. Sigma(e, b) \in Int /\ Sigma(e, a) \in Int
    BY <1>2, <2>5
  <2>12. IsFiniteSet(U) /\ Sigma(f, U) = Sigma(f, S) - Sigma(e, b)
    BY <2>6
  <2> HIDE DEF U, y, b
  <2>13. IsFiniteSet(U \cup {y}) /\ (U \cup {y}) \ {y} = U /\ y \in U \cup {y}
    BY <2>8, <2>12, FS_AddElement
  <2>14. \A z \in U \cup {y} : f[z] \in Int
    BY <2>7, <2>9
  <2>15. Sigma(f, U \cup {y}) = f[y] + Sigma(f, U)
    <3> DEFINE V == U \cup {y}
    <3>1. IsFiniteSet(V) /\ V \ {y} = U /\ y \in V /\ \A z \in V : f[z] \in Int
      BY <2>13, <2>14
    <3> HIDE DEF V
    <3>2. \A z \in V : Sigma(f, V) = f[z] + Sigma(f, V \ {z})
      BY <3>1, SigmaIs
    <3> QED  BY <3>1, <3>2 DEF V
  <2>16. Sigma(f, U \cup {y}) = Sigma(f, S) - Sigma(e, a)
    BY <1>1, <2>7, <2>10, <2>11, <2>12, <2>15
  <2> HIDE DEF Image
  <2>17. Right(a)
    BY <2>8, <2>13, <2>16
  <2> QED  BY <2>2, <2>17
<1>5. A \in SUBSET A /\ Cardinality(A) \in Nat
  BY <1>2
<1>6. Right(A)
  BY <1>4, <1>5
<1> QED  BY <1>6 DEF SumIs

-----------------------------------------------------------------------------
(* Passwords: how many have every class.                                   *)

\* Where a class ends in the alphabet.
Edge(sizes, c) == Sigma(sizes, 1..c)

\* An edge is a size further than the one before, and Total() is the last.
LEMMA EdgesAre ==
    ASSUME NEW sizes \in Seq(Nat)
    PROVE  /\ Len(sizes) \in Nat /\ DOMAIN sizes = 1..Len(sizes)
           /\ Total(sizes) = Edge(sizes, Len(sizes))
           /\ Edge(sizes, 0) = 0
           /\ \A c \in 0..Len(sizes) : Edge(sizes, c) \in Nat /\ Total(SubSeq(sizes, 1, c)) = Edge(sizes, c)
           /\ \A c \in 1..Len(sizes) : Edge(sizes, c) = Edge(sizes, c - 1) + sizes[c]
<1> DEFINE k == Len(sizes)
<1>1. k \in Nat /\ DOMAIN sizes = 1..k /\ \A i \in 1..k : sizes[i] \in Nat
  OBVIOUS
<1>2. \A c \in 0..k : IsFiniteSet(1..c) /\ \A x \in 1..c : sizes[x] \in Int
  <2> SUFFICES ASSUME NEW c \in 0..k PROVE IsFiniteSet(1..c) /\ \A x \in 1..c : sizes[x] \in Int
    OBVIOUS
  <2>1. 1..c \subseteq 1..k
    BY <1>1
  <2> QED  BY <1>1, <2>1, FS_Interval
<1>3. Total(sizes) = Edge(sizes, k)
  BY <1>1 DEF Total, SumFunction, Sigma, Edge
<1>4. Edge(sizes, 0) = 0
  <2>1. 1..0 = {} /\ 0 \in 0..k
    BY <1>1
  <2>2. Sigma(sizes, {}) = 0
    BY <1>2, <2>1, SigmaIs
  <2> QED  BY <2>1, <2>2 DEF Edge
<1>5. ASSUME NEW c \in 1..k PROVE Edge(sizes, c) = Edge(sizes, c - 1) + sizes[c] /\ Edge(sizes, c - 1) \in Int
  <2>1. c \in 0..k /\ c - 1 \in 0..k /\ c \in 1..c /\ (1..c) \ {c} = 1..(c - 1)
    BY <1>1
  <2> DEFINE V == 1..c
             W == 1..(c - 1)
  <2>2. IsFiniteSet(V) /\ \A x \in V : sizes[x] \in Int
    BY <1>2, <2>1
  <2>3. IsFiniteSet(W) /\ \A x \in W : sizes[x] \in Int
    BY <1>2, <2>1
  <2>4. c \in V /\ V \ {c} = W /\ sizes[c] \in Int
    BY <1>1, <2>1
  <2>5. Edge(sizes, c) = Sigma(sizes, V) /\ Edge(sizes, c - 1) = Sigma(sizes, W)
    BY DEF Edge
  <2> HIDE DEF V, W
  <2>6. \A x \in V : Sigma(sizes, V) = sizes[x] + Sigma(sizes, V \ {x})
    BY <2>2, SigmaIs
  <2>7. Sigma(sizes, W) \in Int
    BY <2>3, SigmaIs
  <2>8. Sigma(sizes, V) = sizes[c] + Sigma(sizes, W)
    BY <2>4, <2>6
  <2> QED  BY <2>4, <2>5, <2>7, <2>8
<1> DEFINE Bad == {c \in 0..k : Edge(sizes, c) \notin Nat}
<1>6. Bad = {}
  <2> SUFFICES ASSUME Bad # {} PROVE FALSE
    OBVIOUS
  <2>1. PICK c \in Bad : \A d \in Bad : c <= d
    <3>1. Bad \in SUBSET Nat
      OBVIOUS
    <3> HIDE DEF Bad
    <3> QED  BY <3>1, LeastOf
  <2>2. c # 0
    BY <1>4, <2>1
  <2>3. c \in 1..k /\ c - 1 \in 0..k /\ ~(c <= c - 1)
    BY <2>1, <2>2
  <2>4. Edge(sizes, c - 1) \in Nat
    BY <2>1, <2>3
  <2>5. Edge(sizes, c) = Edge(sizes, c - 1) + sizes[c] /\ sizes[c] \in Nat
    BY <1>1, <1>5, <2>3
  <2>6. Edge(sizes, c) \in Nat
    BY <2>4, <2>5
  <2> QED  BY <2>1, <2>6
<1>7. ASSUME NEW c \in 0..k PROVE Total(SubSeq(sizes, 1, c)) = Edge(sizes, c)
  <2> DEFINE part == SubSeq(sizes, 1, c)
  <2>1. DOMAIN part = 1..c /\ \A i \in 1..c : part[i] = sizes[i]
    BY <1>1
  <2>2. Total(part) = Sigma(part, 1..c)
    BY <2>1 DEF Total, SumFunction, Sigma
  <2> HIDE DEF part
  <2>3. Sigma(part, 1..c) = Sigma(sizes, 1..c)
    BY <1>2, <2>1, SigmaSame
  <2> QED  BY <2>2, <2>3 DEF part, Edge
<1> QED  BY <1>1, <1>3, <1>4, <1>5, <1>6, <1>7

\* Later classes end later.
LEMMA EdgesGrow ==
    ASSUME NEW sizes \in Seq(Nat), NEW a \in 0..Len(sizes), NEW b \in 0..Len(sizes), a <= b
    PROVE  Edge(sizes, a) <= Edge(sizes, b)
<1> DEFINE Bad == {c \in a..Len(sizes) : ~(Edge(sizes, a) <= Edge(sizes, c))}
<1>1. /\ \A c \in 0..Len(sizes) : Edge(sizes, c) \in Nat
      /\ \A c \in 1..Len(sizes) : Edge(sizes, c) = Edge(sizes, c - 1) + sizes[c] /\ sizes[c] \in Nat
  BY EdgesAre
<1> SUFFICES ASSUME Bad # {} PROVE FALSE
  OBVIOUS
<1>2. PICK c \in Bad : \A d \in Bad : c <= d
  <2>1. Bad \in SUBSET Nat
    OBVIOUS
  <2> HIDE DEF Bad
  <2> QED  BY <2>1, LeastOf
<1>3. c # a
  BY <1>1, <1>2
<1>4. c \in 1..Len(sizes) /\ c - 1 \in a..Len(sizes) /\ c - 1 \in 0..Len(sizes) /\ ~(c <= c - 1) /\ c \in 0..Len(sizes)
  BY <1>2, <1>3
<1>5. Edge(sizes, a) <= Edge(sizes, c - 1)
  BY <1>2, <1>4
<1>6. Edge(sizes, c) = Edge(sizes, c - 1) + sizes[c] /\ sizes[c] \in Nat
  BY <1>1, <1>4
<1>7. Edge(sizes, a) \in Nat /\ Edge(sizes, c - 1) \in Nat
  BY <1>1, <1>4
<1>8. Edge(sizes, a) <= Edge(sizes, c)
  BY <1>5, <1>6, <1>7
<1> QED  BY <1>2, <1>8

\* Every index is in one class, that between whose edges it is.
LEMMA ClassIs ==
    ASSUME NEW sizes \in Seq(Nat), NEW x \in 0..(Total(sizes) - 1)
    PROVE  /\ ClassAt(sizes, x) \in 1..Len(sizes)
           /\ \A c \in 1..Len(sizes) : ClassAt(sizes, x) = c <=> x >= Edge(sizes, c - 1) /\ x < Edge(sizes, c)
<1> DEFINE k == Len(sizes)
           In(c) == x >= Edge(sizes, c - 1) /\ x < Edge(sizes, c)
           Late == {c \in 0..k : x < Edge(sizes, c)}
<1>1. /\ k \in Nat /\ DOMAIN sizes = 1..k /\ Total(sizes) = Edge(sizes, k) /\ Edge(sizes, 0) = 0
      /\ \A c \in 0..k : Edge(sizes, c) \in Nat /\ Total(SubSeq(sizes, 1, c)) = Edge(sizes, c)
  BY EdgesAre
<1>2. x \in Nat /\ x < Edge(sizes, k)
  BY <1>1
<1>3. ClassAt(sizes, x) = CHOOSE c \in 1..k : In(c)
  <2>1. \A c \in 1..k : Total(SubSeq(sizes, 1, c - 1)) = Edge(sizes, c - 1) /\ Total(SubSeq(sizes, 1, c)) = Edge(sizes, c)
    BY <1>1
  <2> DEFINE There(c) == x >= Total(SubSeq(sizes, 1, c - 1)) /\ x < Total(SubSeq(sizes, 1, c))
  <2>2. \A c \in 1..k : There(c) <=> In(c)
    BY <2>1
  <2>3. ClassAt(sizes, x) = CHOOSE c \in 1..k : There(c)
    BY <1>1 DEF ClassAt
  <2> HIDE DEF There, In
  <2> QED  BY <2>2, <2>3
<1>4. \E c \in 1..k : In(c)
  <2>1. k \in Late
    BY <1>1, <1>2
  <2>2. PICK c \in Late : \A d \in Late : c <= d
    <3>1. Late \in SUBSET Nat /\ Late # {}
      BY <2>1
    <3> HIDE DEF Late
    <3> QED  BY <3>1, LeastOf
  <2>3. c # 0
    BY <1>1, <1>2, <2>2
  <2>4. c \in 1..k /\ c - 1 \in 0..k /\ ~(c <= c - 1)
    BY <2>2, <2>3
  <2>5. ~(x < Edge(sizes, c - 1)) /\ Edge(sizes, c - 1) \in Nat
    BY <1>1, <2>2, <2>4
  <2> QED  BY <1>2, <2>2, <2>4, <2>5
<1>5. ASSUME NEW c \in 1..k, NEW d \in 1..k, In(c), In(d), c < d PROVE FALSE
  <2>1. c \in 0..k /\ d - 1 \in 0..k /\ c <= d - 1
    BY <1>5
  <2>2. Edge(sizes, c) <= Edge(sizes, d - 1) /\ Edge(sizes, c) \in Nat /\ Edge(sizes, d - 1) \in Nat
    BY <1>1, <2>1, EdgesGrow
  <2>3. x < Edge(sizes, c) /\ x >= Edge(sizes, d - 1)
    BY <1>5
  <2> QED  BY <1>2, <2>2, <2>3
<1>6. \A c, d \in 1..k : In(c) /\ In(d) => c = d
  <2> SUFFICES ASSUME NEW c \in 1..k, NEW d \in 1..k, In(c), In(d) PROVE c = d
    OBVIOUS
  <2>1. ~(c < d) /\ ~(d < c)
    <3> HIDE DEF In
    <3> QED  BY <1>5
  <2> QED  BY <2>1
<1> HIDE DEF In
<1> DEFINE at == ClassAt(sizes, x)
<1>7. at \in 1..k /\ In(at)
  BY <1>3, <1>4
<1> HIDE DEF at
<1>8. \A c \in 1..k : at = c <=> In(c)
  BY <1>6, <1>7
<1> QED  BY <1>7, <1>8 DEF at, In

\* What holds of the empty set and goes over to one element more holds of every subset.
LEMMA SetGrows ==
    ASSUME NEW A, IsFiniteSet(A), NEW Good, {} \in Good,
           \A a \in SUBSET A : \A x \in a : a \ {x} \in Good => a \in Good
    PROVE  \A a \in SUBSET A : a \in Good
<1> DEFINE Bad == {n \in Nat : \E a \in SUBSET A : Cardinality(a) = n /\ a \notin Good}
<1>1. \A a \in SUBSET A : Cardinality(a) \in Nat
  BY FS_Subset, FS_CardinalityType
<1>2. Bad = {}
  <2> SUFFICES ASSUME Bad # {} PROVE FALSE
    OBVIOUS
  <2>1. PICK k \in Bad : \A n \in Bad : k <= n
    <3>1. Bad \in SUBSET Nat
      OBVIOUS
    <3> HIDE DEF Bad
    <3> QED  BY <3>1, LeastOf
  <2>2. PICK a \in SUBSET A : Cardinality(a) = k /\ a \notin Good
    BY <2>1
  <2>3. PICK x \in a : TRUE
    BY <2>2
  <2>4. a \ {x} \in SUBSET A /\ Cardinality(a) \in Nat \ {0} /\ Cardinality(a \ {x}) = Cardinality(a) - 1
    BY OneLess
  <2>5. Cardinality(a \ {x}) \in Nat /\ ~(k <= Cardinality(a \ {x}))
    BY <2>2, <2>4
  <2>6. a \ {x} \in Good
    BY <2>1, <2>4, <2>5
  <2> QED  BY <2>2, <2>6
<1> QED  BY <1>1, <1>2

\* The indices that are in none of some classes.
Outside(sizes, M) == {x \in 0..(Total(sizes) - 1) : ClassAt(sizes, x) \notin M}

\* There are as many of them as these classes leave.
LEMMA OutsideIs ==
    ASSUME NEW sizes \in Seq(Nat), NEW M \in SUBSET (1..Len(sizes))
    PROVE  /\ IsFiniteSet(Outside(sizes, M))
           /\ Sigma(sizes, M) \in Int
           /\ Cardinality(Outside(sizes, M)) = Total(sizes) - Sigma(sizes, M)
<1> DEFINE k == Len(sizes)
           t == Total(sizes)
           all == 0..(t - 1)
           Slot(c) == Edge(sizes, c - 1)..(Edge(sizes, c) - 1)
           Right(m) == /\ IsFiniteSet(Outside(sizes, m)) /\ Sigma(sizes, m) \in Int
                       /\ Cardinality(Outside(sizes, m)) = t - Sigma(sizes, m)
           Good == {m \in SUBSET (1..k) : Right(m)}
<1>1. k \in Nat /\ t = Edge(sizes, k) /\ t \in Nat /\ IsFiniteSet(1..k) /\ \A i \in 1..k : sizes[i] \in Nat
  <2>1. k \in Nat /\ t = Edge(sizes, k) /\ k \in 0..k /\ \A i \in 1..k : sizes[i] \in Nat
    BY EdgesAre
  <2>2. \A c \in 0..k : Edge(sizes, c) \in Nat
    BY EdgesAre
  <2>3. IsFiniteSet(1..k)
    BY <2>1, FS_Interval
  <2> QED  BY <2>1, <2>2, <2>3
<1>2. IsFiniteSet(all) /\ Cardinality(all) = t
  BY <1>1, IntervalIs
<1>3. \A m \in SUBSET (1..k) : IsFiniteSet(m) /\ \A x \in m : sizes[x] \in Int
  <2> SUFFICES ASSUME NEW m \in SUBSET (1..k) PROVE IsFiniteSet(m) /\ \A x \in m : sizes[x] \in Int
    OBVIOUS
  <2>1. IsFiniteSet(m)
    BY <1>1, FS_Subset
  <2> QED  BY <1>1, <2>1
<1>4. \A m \in SUBSET (1..k) : IsFiniteSet(Outside(sizes, m))
  BY <1>2, FS_Subset DEF Outside
<1>5. {} \in Good
  <2>1. Outside(sizes, {}) = all
    BY DEF Outside
  <2>2. Sigma(sizes, {}) = 0
    <3>1. IsFiniteSet({}) /\ \A x \in {} : sizes[x] \in Int
      BY FS_EmptySet
    <3> QED  BY <3>1, SigmaIs
  <2> QED  BY <1>1, <1>2, <2>1, <2>2
<1>6. ASSUME NEW c \in 1..k
      PROVE  /\ IsFiniteSet(Slot(c)) /\ Cardinality(Slot(c)) = sizes[c]
             /\ \A x \in all : ClassAt(sizes, x) = c <=> x \in Slot(c)
             /\ Slot(c) \subseteq all
  <2> DEFINE lo == Edge(sizes, c - 1)
             hi == Edge(sizes, c)
  <2>1. lo \in Nat /\ hi \in Nat /\ hi = lo + sizes[c] /\ sizes[c] \in Nat
    BY <1>1, EdgesAre
  <2>2. hi <= t
    BY <1>1, EdgesGrow
  <2>3. \A x \in all : ClassAt(sizes, x) = c <=> x >= lo /\ x < hi
    BY ClassIs
  <2> HIDE DEF lo, hi, t
  <2> DEFINE last == hi - 1
  <2>4. lo \in Int /\ last \in Int
    BY <2>1
  <2> HIDE DEF last
  <2>5. IsFiniteSet(lo..last) /\ Cardinality(lo..last) = IF lo > last THEN 0 ELSE last - lo + 1
    BY <2>4, FS_Interval
  <2>8. IsFiniteSet(lo..(hi - 1)) /\ Cardinality(lo..(hi - 1)) = sizes[c]
    BY <2>1, <2>5 DEF last
  <2>6. \A x \in all : x \in lo..(hi - 1) <=> x >= lo /\ x < hi
    BY <2>1
  <2>7. lo..(hi - 1) \subseteq all
    BY <1>1, <2>1, <2>2
  <2> QED  BY <2>3, <2>6, <2>7, <2>8 DEF lo, hi
<1>7. ASSUME NEW m \in SUBSET (1..k), NEW c \in m, m \ {c} \in Good PROVE m \in Good
  <2> DEFINE b == m \ {c}
             A == Outside(sizes, m)
             B == Outside(sizes, b)
  <2>1. B = A \cup Slot(c) /\ A \cap Slot(c) = {}
    <3>1. c \in 1..k /\ \A x \in all : ClassAt(sizes, x) = c <=> x \in Slot(c)
      BY <1>6
    <3>2. Slot(c) \subseteq all
      BY <1>6
    <3> HIDE DEF Slot
    <3> QED  BY <3>1, <3>2 DEF Outside
  <2>2. IsFiniteSet(A) /\ Right(b)
    BY <1>4, <1>7
  <2>3. IsFiniteSet(Slot(c)) /\ Cardinality(Slot(c)) = sizes[c] /\ sizes[c] \in Nat
    BY <1>1, <1>6
  <2> HIDE DEF Slot
  <2>4. Cardinality(A \cup Slot(c)) = Cardinality(A) + Cardinality(Slot(c)) - Cardinality(A \cap Slot(c))
    BY <2>2, <2>3, FS_Union
  <2>5. Cardinality(A \cap Slot(c)) = 0 /\ Cardinality(A) \in Nat
    BY <2>1, <2>2, FS_EmptySet, FS_CardinalityType
  <2>6. \A x \in m : Sigma(sizes, m) = sizes[x] + Sigma(sizes, m \ {x})
    BY <1>3, SigmaIs
  <2>7. Sigma(sizes, m) \in Int
    BY <1>3, SigmaIs
  <2>8. Sigma(sizes, m) = sizes[c] + Sigma(sizes, b) /\ Sigma(sizes, b) \in Int
    BY <2>2, <2>6
  <2>9. Cardinality(B) = t - Sigma(sizes, b)
    BY <2>2
  <2>10. Cardinality(B) = Cardinality(A) + sizes[c]
    <3>1. Cardinality(B) = Cardinality(A \cup Slot(c))
      BY <2>1
    <3> HIDE DEF A, B
    <3> QED  BY <2>3, <2>4, <2>5, <3>1
  <2> HIDE DEF A, B, b, t
  <2>11. Cardinality(A) = t - Sigma(sizes, m)
    BY <1>1, <2>3, <2>5, <2>7, <2>8, <2>9, <2>10
  <2> QED  BY <2>2, <2>7, <2>11 DEF A, t
<1> HIDE DEF Good, Slot, Right
<1>8. M \in Good
  <2> DEFINE K == 1..k
  <2>1. IsFiniteSet(K) /\ M \in SUBSET K /\ \A m \in SUBSET K : \A c \in m : m \ {c} \in Good => m \in Good
    BY <1>1, <1>7
  <2> HIDE DEF K
  <2>2. \A m \in SUBSET K : m \in Good
    BY <1>5, <2>1, SetGrows
  <2> QED  BY <2>1, <2>2
<1> QED  BY <1>8 DEF Good, Right

\* The values without any of some classes.
Avoiding(sizes, n, M) ==
    {v \in [1..n -> 0..(Total(sizes) - 1)] : \A i \in 1..n : ClassAt(sizes, v[i]) \notin M}

\* They are counted by a power.
LEMMA AvoidingAre ==
    ASSUME NEW sizes \in Seq(Nat), NEW n \in Nat, NEW M \in SUBSET (1..Len(sizes))
    PROVE  /\ IsFiniteSet(Avoiding(sizes, n, M))
           /\ Cardinality(Avoiding(sizes, n, M)) = Pow(Total(sizes) - Sigma(sizes, M), n)
           /\ Pow(Total(sizes) - Sigma(sizes, M), n) \in Nat
<1>1. Avoiding(sizes, n, M) = [1..n -> Outside(sizes, M)]
  <2>1. ASSUME NEW v \in Avoiding(sizes, n, M) PROVE v \in [1..n -> Outside(sizes, M)]
    BY DEF Avoiding, Outside
  <2>2. ASSUME NEW v \in [1..n -> Outside(sizes, M)] PROVE v \in Avoiding(sizes, n, M)
    <3>1. \A x \in Outside(sizes, M) : x \in 0..(Total(sizes) - 1) /\ ClassAt(sizes, x) \notin M
      BY DEF Outside
    <3>2. \A i \in 1..n : v[i] \in Outside(sizes, M)
      OBVIOUS
    <3>3. v \in [1..n -> 0..(Total(sizes) - 1)]
      BY <3>1
    <3> QED  BY <3>1, <3>2, <3>3 DEF Avoiding
  <2> QED  BY <2>1, <2>2
<1>2. IsFiniteSet(Outside(sizes, M)) /\ Cardinality(Outside(sizes, M)) = Total(sizes) - Sigma(sizes, M)
  BY OutsideIs
<1>3. /\ IsFiniteSet([1..n -> Outside(sizes, M)]) /\ Cardinality(Outside(sizes, M)) \in Nat
      /\ Cardinality([1..n -> Outside(sizes, M)]) = Pow(Cardinality(Outside(sizes, M)), n)
  BY <1>2, WordsCounted
<1>4. Pow(Cardinality(Outside(sizes, M)), n) \in Nat
  BY <1>3, PowIs
<1> QED  BY <1>1, <1>2, <1>3, <1>4

\* The terms of inclusion and exclusion over the first c classes, for the values that
\* are without the classes of M, and the values it counts.
Sign(J) == IF Cardinality(J) % 2 = 0 THEN 1 ELSE -1
Share(sizes, n, M) == Pow(Total(sizes) - Sigma(sizes, M), n)
Term(sizes, n, M, J) == Sign(J) * Share(sizes, n, M \cup J)
Terms(sizes, n, c, M) == [J \in SUBSET (1..c) |-> Term(sizes, n, M, J)]
Hitting(sizes, n, c, M) ==
    {v \in Avoiding(sizes, n, M) : \A d \in 1..c : \E i \in 1..n : ClassAt(sizes, v[i]) = d}

\* One class more turns the sign.
LEMMA SignTurns ==
    ASSUME NEW J, IsFiniteSet(J), NEW x, x \notin J
    PROVE  Sign(J) \in {1, -1} /\ Sign(J \cup {x}) = -Sign(J)
<1> DEFINE m == Cardinality(J)
<1>1. m \in Nat
  BY FS_CardinalityType
<1>2. Cardinality(J \cup {x}) = m + 1
  BY FS_AddElement
<1> HIDE DEF m
<1>3. (m + 1) % 2 = 0 <=> m % 2 # 0
  BY <1>1
<1>4. Sign(J) = (IF m % 2 = 0 THEN 1 ELSE -1) /\ Sign(J \cup {x}) = (IF (m + 1) % 2 = 0 THEN 1 ELSE -1)
  BY <1>2 DEF Sign, m
<1> QED  BY <1>3, <1>4

\* A term is an integer.
LEMMA TermsAre ==
    ASSUME NEW sizes \in Seq(Nat), NEW n \in Nat, NEW c \in 0..Len(sizes), NEW M \in SUBSET (1..Len(sizes)),
           NEW J \in SUBSET (1..c)
    PROVE  /\ IsFiniteSet(J) /\ Sign(J) \in {1, -1} /\ Share(sizes, n, M \cup J) \in Nat
           /\ Terms(sizes, n, c, M)[J] = Term(sizes, n, M, J)
           /\ Terms(sizes, n, c, M)[J] \in Int
<1>1. Len(sizes) \in Nat /\ M \cup J \in SUBSET (1..Len(sizes))
  OBVIOUS
<1>2. Share(sizes, n, M \cup J) \in Nat
  BY <1>1, AvoidingAre DEF Share
<1>3. IsFiniteSet(J)
  <2>1. IsFiniteSet(1..c)
    BY <1>1, FS_Interval
  <2> QED  BY <2>1, FS_Subset
<1>4. Sign(J) \in {1, -1}
  BY DEF Sign
<1>5. Terms(sizes, n, c, M)[J] = Term(sizes, n, M, J)
  BY DEF Terms
<1>6. \A s \in {1, -1} : \A p \in Nat : s * p \in Int
  OBVIOUS
<1>7. Term(sizes, n, M, J) \in Int
  BY <1>2, <1>4, <1>6 DEF Term
<1> QED  BY <1>2, <1>3, <1>4, <1>5, <1>7

\* Inclusion and exclusion, class by class: of the values that have the first classes
\* those without the next are taken away.
LEMMA InAndOut ==
    ASSUME NEW sizes \in Seq(Nat), NEW n \in Nat, NEW m \in 0..Len(sizes),
           NEW N \in SUBSET ((m + 1)..Len(sizes))
    PROVE  /\ IsFiniteSet(Hitting(sizes, n, m, N))
           /\ Cardinality(Hitting(sizes, n, m, N)) = Sigma(Terms(sizes, n, m, N), SUBSET (1..m))
<1> DEFINE k == Len(sizes)
           Right(c, M) == /\ IsFiniteSet(Hitting(sizes, n, c, M))
                          /\ Cardinality(Hitting(sizes, n, c, M)) = Sigma(Terms(sizes, n, c, M), SUBSET (1..c))
           Bad == {c \in 0..k : \E M \in SUBSET ((c + 1)..k) : ~Right(c, M)}
<1>1. k \in Nat
  OBVIOUS
<1>2. \A c \in 0..k : IsFiniteSet(SUBSET (1..c))
  <2> SUFFICES ASSUME NEW c \in 0..k PROVE IsFiniteSet(SUBSET (1..c))
    OBVIOUS
  <2>1. IsFiniteSet(1..c)
    BY FS_Interval
  <2> QED  BY <2>1, FS_SUBSET
<1>3. \A c \in 0..k : \A M \in SUBSET ((c + 1)..k) : M \in SUBSET (1..k)
  OBVIOUS
<1>4. Bad = {}
  <2> SUFFICES ASSUME Bad # {} PROVE FALSE
    OBVIOUS
  <2>1. PICK c \in Bad : \A d \in Bad : c <= d
    <3>1. Bad \in SUBSET Nat
      OBVIOUS
    <3> HIDE DEF Bad
    <3> QED  BY <3>1, LeastOf
  <2>2. PICK M \in SUBSET ((c + 1)..k) : ~Right(c, M)
    BY <2>1
  <2>3. M \in SUBSET (1..k) /\ c \in 0..k
    BY <1>3, <2>1
  <2>4. c # 0
    <3> SUFFICES ASSUME c = 0 PROVE FALSE
      OBVIOUS
    <3> DEFINE f == Terms(sizes, n, 0, M)
               E == {{}}
    <3>1. 1..0 = {} /\ SUBSET (1..0) = E /\ 0 \in 0..k
      BY <1>1
    <3>2. Hitting(sizes, n, 0, M) = Avoiding(sizes, n, M)
      BY <3>1 DEF Hitting
    <3>3. f[{}] = Term(sizes, n, M, {}) /\ f[{}] \in Int /\ Share(sizes, n, M \cup {}) \in Nat
      <4>1. M \in SUBSET (1..Len(sizes)) /\ 0 \in 0..Len(sizes)
        BY <2>3, <3>1
      <4> HIDE DEF f
      <4>2. \A J \in SUBSET (1..0) : /\ Terms(sizes, n, 0, M)[J] = Term(sizes, n, M, J)
                                     /\ Terms(sizes, n, 0, M)[J] \in Int /\ Share(sizes, n, M \cup J) \in Nat
        BY <4>1, TermsAre
      <4>3. {} \in SUBSET (1..0)
        OBVIOUS
      <4> QED  BY <4>2, <4>3 DEF f
    <3>4. Sign({}) = 1 /\ M \cup {} = M
      BY FS_EmptySet DEF Sign
    <3> HIDE DEF f
    <3>5. IsFiniteSet(E) /\ \A x \in E : f[x] \in Int
      BY <3>3, FS_Singleton
    <3>6. \A x \in E : Sigma(f, E) = f[x] + Sigma(f, E \ {x})
      BY <3>5, SigmaIs
    <3>7. Sigma(f, {}) = 0
      BY <3>5, SigmaIs
    <3>8. {} \in E /\ E \ {{}} = {}
      OBVIOUS
    <3>9. Sigma(f, E) = f[{}] + 0
      BY <3>6, <3>7, <3>8
    <3>10. f[{}] = Share(sizes, n, M)
      <4> DEFINE p == Share(sizes, n, M)
      <4>1. p \in Nat /\ Term(sizes, n, M, {}) = 1 * p
        BY <3>3, <3>4 DEF Term
      <4> HIDE DEF p
      <4>2. 1 * p = p
        BY <4>1
      <4> QED  BY <3>3, <4>1, <4>2 DEF p
    <3>11. Sigma(f, E) = Share(sizes, n, M)
      BY <3>3, <3>9, <3>10
    <3>12. IsFiniteSet(Avoiding(sizes, n, M)) /\ Cardinality(Avoiding(sizes, n, M)) = Share(sizes, n, M)
      BY <2>3, AvoidingAre DEF Share
    <3>13. Right(0, M)
      BY <3>1, <3>2, <3>11, <3>12 DEF f
    <3> QED  BY <2>2, <3>13
  <2> DEFINE d == c - 1
             W == M \cup {c}
             A == Hitting(sizes, n, d, M)
             B == Hitting(sizes, n, d, W)
             S == SUBSET (1..d)
             f == Terms(sizes, n, c, M)
             e == Terms(sizes, n, d, W)
             g == Terms(sizes, n, d, M)
             h == [J \in S |-> J \cup {c}]
  <2>5. /\ d \in 0..k /\ c \in 1..k /\ ~(c <= d) /\ 1..d \subseteq 1..c /\ c \notin 1..d
        /\ 1..c = (1..d) \cup {c}
        /\ M \in SUBSET ((d + 1)..k) /\ W \in SUBSET ((d + 1)..k) /\ W \in SUBSET (1..k) /\ c \notin M
    BY <2>1, <2>2, <2>4
  <2>6. Right(d, M) /\ Right(d, W)
    <3> HIDE DEF Right, d, W
    <3> QED  BY <2>1, <2>5
  <2>7. Hitting(sizes, n, c, M) = A \ B /\ A \cap B = B
    <3> HIDE DEF d
    <3>1. Avoiding(sizes, n, W) = {v \in Avoiding(sizes, n, M) : \A i \in 1..n : ClassAt(sizes, v[i]) # c}
      BY DEF Avoiding
    <3> QED  BY <2>5, <3>1 DEF Hitting
  <2>8. /\ IsFiniteSet(Hitting(sizes, n, c, M))
        /\ Cardinality(Hitting(sizes, n, c, M)) = Sigma(g, S) - Sigma(e, S)
    <3>1. IsFiniteSet(A) /\ Cardinality(A) = Sigma(g, S) /\ Cardinality(B) = Sigma(e, S)
      BY <2>6
    <3> HIDE DEF A, B, g, e, S
    <3>2. IsFiniteSet(A \ B) /\ Cardinality(A \ B) = Cardinality(A) - Cardinality(A \cap B)
      BY <3>1, FS_Difference
    <3> QED  BY <2>7, <3>1, <3>2
  <2>9. IsFiniteSet(S)
    BY <1>2, <2>5
  <2>10. SUBSET (1..c) = S \cup {h[J] : J \in S}
    <3>1. ASSUME NEW I \in SUBSET (1..c), c \in I PROVE I \ {c} \in S /\ h[I \ {c}] = I
      <4> HIDE DEF d
      <4>1. I \ {c} \in S
        BY <2>5
      <4> QED  BY <3>1, <4>1
    <3>2. ASSUME NEW I \in SUBSET (1..c), c \notin I PROVE I \in S
      <4> HIDE DEF d
      <4> QED  BY <2>5, <3>2
    <3>3. \A J \in S : J \in SUBSET (1..c) /\ h[J] \in SUBSET (1..c)
      <4> HIDE DEF d
      <4> QED  BY <2>5
    <3> HIDE DEF S, h
    <3> DEFINE Both == S \cup {h[J] : J \in S}
    <3>4. \A I \in SUBSET (1..c) : I \in Both
      BY <3>1, <3>2
    <3>5. \A I \in Both : I \in SUBSET (1..c)
      BY <3>3
    <3> HIDE DEF Both
    <3>6. SUBSET (1..c) = Both
      BY <3>4, <3>5
    <3> QED  BY <3>6 DEF Both
  <2>11. ASSUME NEW J \in S
         PROVE  /\ h[J] \notin S /\ f[h[J]] \in Int /\ e[J] \in Int /\ f[h[J]] = -e[J]
                /\ f[J] \in Int /\ g[J] \in Int /\ f[J] = g[J]
    <3> HIDE DEF d
    <3> DEFINE I == J \cup {c}
    <3>1. J \in SUBSET (1..d) /\ J \in SUBSET (1..c) /\ I \in SUBSET (1..c) /\ c \notin J /\ h[J] = I
      BY <2>5
    <3>2. I \notin S /\ M \cup I = W \cup J
      BY <2>5
    <3>9. /\ M \in SUBSET (1..Len(sizes)) /\ W \in SUBSET (1..Len(sizes))
          /\ c \in 0..Len(sizes) /\ d \in 0..Len(sizes)
      BY <2>3, <2>5
    <3> HIDE DEF I, W
    <3>3. f[I] = Term(sizes, n, M, I) /\ f[I] \in Int
      <4>1. \A s \in SUBSET (1..c) : f[s] = Term(sizes, n, M, s) /\ f[s] \in Int
        BY <3>9, TermsAre
      <4> HIDE DEF f
      <4> QED  BY <3>1, <4>1
    <3>4. f[J] = Term(sizes, n, M, J) /\ f[J] \in Int
      BY <3>1, <3>9, TermsAre
    <3>5. /\ e[J] = Term(sizes, n, W, J) /\ e[J] \in Int
          /\ Share(sizes, n, W \cup J) \in Nat /\ IsFiniteSet(J)
      BY <3>1, <3>9, TermsAre
    <3>6. g[J] = Term(sizes, n, M, J) /\ g[J] \in Int
      BY <3>1, <3>9, TermsAre
    <3>7. Sign(J) \in {1, -1} /\ Sign(I) = -Sign(J)
      BY <3>1, <3>5, SignTurns DEF I
    <3>8. f[I] = -e[J]
      <4> DEFINE p == Share(sizes, n, W \cup J)
                 s == Sign(J)
      <4>1. f[I] = (-s) * p /\ e[J] = s * p /\ s \in {1, -1} /\ p \in Nat
        BY <3>2, <3>3, <3>5, <3>7 DEF Term
      <4> HIDE DEF p, s, f, e, I
      <4>2. CASE s = 1
        BY <4>1, <4>2
      <4>3. CASE s = -1
        BY <4>1, <4>3
      <4> QED  BY <4>1, <4>2, <4>3
    <3> HIDE DEF f, e, g, h
    <3> QED  BY <3>1, <3>2, <3>3, <3>4, <3>5, <3>6, <3>8
  <2>12. \A x, y \in S : h[x] = h[y] => x = y
    <3> HIDE DEF d
    <3>1. \A x \in S : h[x] \ {c} = x
      BY <2>5
    <3> HIDE DEF h
    <3> QED  BY <3>1
  <2> HIDE DEF S, f, e, g, h
  <2>13. Sigma(f, S \cup {h[J] : J \in S}) = Sigma(f, S) - Sigma(e, S)
    <3>1. Turned(f, S, h, e, S)
      BY <2>9, <2>11, <2>12 DEF Turned
    <3> QED  BY <3>1, SigmaMinus DEF SumIs
  <2>14. Sigma(f, S) = Sigma(g, S)
    <3>1. \A J \in S : f[J] = g[J]
      BY <2>11
    <3> QED  BY <2>9, <3>1, SigmaSame
  <2>15. Right(c, M)
    BY <2>8, <2>10, <2>13, <2>14 DEF f
  <2> QED  BY <2>2, <2>15
<1>5. m \in 0..k /\ N \in SUBSET ((m + 1)..k) /\ m \notin Bad
  BY <1>4
<1>6. Right(m, N)
  <2> HIDE DEF Right
  <2> QED  BY <1>5
<1> QED  BY <1>6

\* The number the tool counts is that of the values the loop can return.
LEMMA PossibilitiesAre ==
    ASSUME NEW r, Drawable(r)
    PROVE  (IF r.eachClass THEN ValidCount(r.sizes, r.length) ELSE Pow(Total(r.sizes), r.length))
           = Cardinality(Returned(r))
<1> DEFINE sizes == r.sizes
           n == r.length
           k == Len(sizes)
           t == Total(sizes)
           all == 0..(t - 1)
<1>1. sizes \in Seq(Nat) /\ n \in Nat /\ r.eachClass \in BOOLEAN
  BY DEF Drawable
<1>2. k \in Nat /\ DOMAIN sizes = 1..k /\ t \in Nat
  <2>1. k \in Nat /\ DOMAIN sizes = 1..k /\ t = Edge(sizes, k) /\ k \in 0..k
    BY <1>1, EdgesAre
  <2>2. \A c \in 0..k : Edge(sizes, c) \in Nat
    BY <1>1, EdgesAre
  <2> QED  BY <2>1, <2>2
<1>3. CASE ~r.eachClass
  <2>1. Returned(r) = [1..n -> all]
    BY <1>3 DEF Returned
  <2>2. IsFiniteSet(all) /\ Cardinality(all) = t
    BY <1>2, IntervalIs
  <2> HIDE DEF all, n, t
  <2>3. Cardinality([1..n -> all]) = Pow(Cardinality(all), n)
    BY <1>1, <2>2, WordsCounted
  <2>4. Cardinality(Returned(r)) = Pow(t, n)
    BY <2>1, <2>2, <2>3
  <2> QED  BY <1>3, <2>4 DEF t, n
<1>4. CASE r.eachClass
  <2>1. Returned(r) = Hitting(sizes, n, k, {})
    <3>1. Avoiding(sizes, n, {}) = [1..n -> all]
      BY DEF Avoiding
    <3>2. ASSUME NEW v \in [1..n -> all]
          PROVE  EachClass(sizes, v) <=> \A d \in 1..k : \E i \in 1..n : ClassAt(sizes, v[i]) = d
      <4>1. DOMAIN v = 1..n /\ \A i \in 1..n : v[i] \in all
        OBVIOUS
      <4>2. \A i \in 1..n : ClassAt(sizes, v[i]) \in 1..k
        BY <1>1, <4>1, ClassIs
      <4> HIDE DEF n, k, sizes, all
      <4> QED  BY <1>2, <4>1, <4>2 DEF EachClass
    <3>3. Returned(r) = {v \in [1..n -> all] : EachClass(sizes, v)}
      BY <1>4 DEF Returned
    <3> HIDE DEF n, k, sizes, all
    <3> QED  BY <3>1, <3>2, <3>3 DEF Hitting
  <2>2. Cardinality(Hitting(sizes, n, k, {})) = Sigma(Terms(sizes, n, k, {}), SUBSET (1..k))
    <3>1. k \in 0..k /\ {} \in SUBSET ((k + 1)..k)
      BY <1>2
    <3> QED  BY <1>1, <3>1, InAndOut
  <2> DEFINE g == [missing \in SUBSET DOMAIN sizes |->
                      (IF Cardinality(missing) % 2 = 0 THEN 1 ELSE -1)
                      * Pow(Total(sizes) - SumFunctionOnSet(sizes, missing), n)]
             f == Terms(sizes, n, k, {})
  <2>3. ValidCount(sizes, n) = Sigma(g, SUBSET (1..k))
    <3>1. DOMAIN g = SUBSET (1..k)
      BY <1>2
    <3>2. ValidCount(sizes, n) = SumFunction(g)
      BY DEF ValidCount
    <3> HIDE DEF g
    <3> QED  BY <3>1, <3>2 DEF SumFunction, Sigma
  <2>4. \A J \in SUBSET (1..k) : g[J] = f[J]
    <3> SUFFICES ASSUME NEW J \in SUBSET (1..k) PROVE g[J] = f[J]
      OBVIOUS
    <3>1. g[J] = Sign(J) * Share(sizes, n, J)
      BY <1>2 DEF Sign, Share, Sigma
    <3>2. {} \cup J = J
      OBVIOUS
    <3>3. f[J] = Sign(J) * Share(sizes, n, {} \cup J)
      BY DEF Terms, Term
    <3> QED  BY <3>1, <3>2, <3>3
  <2>5. IsFiniteSet(SUBSET (1..k))
    <3>1. IsFiniteSet(1..k)
      BY <1>2, FS_Interval
    <3> QED  BY <3>1, FS_SUBSET
  <2> HIDE DEF g, f
  <2>6. Sigma(g, SUBSET (1..k)) = Sigma(f, SUBSET (1..k))
    BY <2>4, <2>5, SigmaSame
  <2>7. ValidCount(sizes, n) = Cardinality(Returned(r))
    BY <2>1, <2>2, <2>3, <2>6 DEF f
  <2> QED  BY <1>4, <2>7
<1> QED  BY <1>3, <1>4

-----------------------------------------------------------------------------
(* Passphrases: what a text tells of the words.                            *)

\* Joined() and Word(), for any input.
Shown(r, word) == IF r.capitalize THEN <<-word[1]>> \o Tail(word) ELSE word
Spelt(r, words) ==
    LET text[n \in 1..Len(words)] ==
            IF n = 1 THEN Shown(r, words[1]) ELSE text[n - 1] \o r.separator \o Shown(r, words[n])
    IN  text[Len(words)]

\* The texts that joining a choice of words goes through.
Spelling(g, r, words, m) ==
    /\ g = [n \in 1..m |-> g[n]]
    /\ \A n \in 1..m : g[n] = IF n = 1 THEN Shown(r, words[1])
                              ELSE g[n - 1] \o r.separator \o Shown(r, words[n])

\* There are such texts.
LEMMA SpellingsExist ==
    ASSUME NEW r, NEW words, NEW m \in Nat
    PROVE  \E g : Spelling(g, r, words, m)
<1> DEFINE Bad == {n \in Nat : ~ \E g : Spelling(g, r, words, n)}
           Longer(g, n) == g[n - 1] \o r.separator \o Shown(r, words[n])
<1> SUFFICES ASSUME Bad # {} PROVE FALSE
  OBVIOUS
<1>1. PICK k \in Bad : \A n \in Bad : k <= n
  BY LeastOf
<1>2. k # 0
  <2>1. Spelling([n \in 1..0 |-> <<>>], r, words, 0)
    BY DEF Spelling
  <2> QED  BY <1>1, <2>1
<1>3. k \in Nat /\ k - 1 \in Nat /\ ~(k <= k - 1)
  BY <1>2
<1>4. PICK f : Spelling(f, r, words, k - 1)
  BY <1>1, <1>3
<1> DEFINE last == IF k = 1 THEN Shown(r, words[1]) ELSE Longer(f, k)
           g == [n \in 1..k |-> IF n = k THEN last ELSE f[n]]
<1>5. g[k] = last /\ \A n \in 1..(k - 1) : g[n] = f[n]
  <2> HIDE DEF last
  <2> QED  BY <1>2, <1>3
<1>6. g = [n \in 1..k |-> g[n]]
  OBVIOUS
<1> HIDE DEF g
<1>7. ASSUME NEW n \in 1..k PROVE g[n] = IF n = 1 THEN Shown(r, words[1]) ELSE Longer(g, n)
  <2>1. CASE n = k
    <3>1. k # 1 => g[k - 1] = f[k - 1]
      BY <1>3, <1>5
    <3> QED  BY <1>5, <2>1, <3>1
  <2>2. CASE n # k
    <3>1. n \in 1..(k - 1) /\ (n # 1 => n - 1 \in 1..(k - 1))
      BY <1>3, <2>2
    <3>2. f[n] = IF n = 1 THEN Shown(r, words[1]) ELSE Longer(f, n)
      BY <1>4, <3>1 DEF Spelling
    <3> QED  BY <1>5, <3>1, <3>2
  <2> QED  BY <2>1, <2>2
<1>8. Spelling(g, r, words, k)
  BY <1>6, <1>7 DEF Spelling
<1> QED  BY <1>1, <1>8

\* And the last of them is the one that is spelt.
LEMMA SpeltIs ==
    ASSUME NEW r, NEW words, Len(words) \in Nat
    PROVE  \E g : Spelling(g, r, words, Len(words)) /\ Spelt(r, words) = g[Len(words)]
<1> DEFINE m == Len(words)
           Loop(g) == [n \in 1..m |-> IF n = 1 THEN Shown(r, words[1])
                                      ELSE g[n - 1] \o r.separator \o Shown(r, words[n])]
           text == CHOOSE g : g = Loop(g)
<1>1. Spelt(r, words) = text[m]
  BY DEF Spelt
<1>2. PICK g : Spelling(g, r, words, m)
  BY SpellingsExist
<1>3. g = Loop(g)
  <2> DEFINE Longer(n) == IF n = 1 THEN Shown(r, words[1]) ELSE g[n - 1] \o r.separator \o Shown(r, words[n])
  <2>1. g = [n \in 1..m |-> g[n]] /\ \A n \in 1..m : g[n] = Longer(n)
    BY <1>2 DEF Spelling
  <2>2. Loop(g) = [n \in 1..m |-> Longer(n)]
    OBVIOUS
  <2> HIDE DEF Longer, Loop
  <2>3. [n \in 1..m |-> g[n]] = [n \in 1..m |-> Longer(n)]
    BY <2>1
  <2> QED  BY <2>1, <2>2, <2>3
<1>4. text = Loop(text)
  <2> HIDE DEF Loop
  <2> QED  BY <1>3
<1> HIDE DEF text
<1>5. Spelling(text, r, words, m)
  <2> DEFINE Longer(n) == IF n = 1 THEN Shown(r, words[1]) ELSE text[n - 1] \o r.separator \o Shown(r, words[n])
  <2>1. text = [n \in 1..m |-> Longer(n)]
    BY <1>4
  <2> HIDE DEF Longer
  <2>2. \A n \in 1..m : text[n] = Longer(n)
    BY <2>1
  <2>3. text = [n \in 1..m |-> text[n]]
    BY <2>1
  <2> QED  BY <2>2, <2>3 DEF Spelling, Longer
<1> QED  BY <1>1, <1>5

\* x is the text A with the text B after it.
Joins(A, B, x) ==
    /\ A \in Seq(Int) /\ B \in Seq(Int) /\ x \in Seq(Int)
    /\ Len(A) \in Nat /\ Len(B) \in Nat /\ Len(x) = Len(A) + Len(B)
    /\ \A i \in 1..Len(A) : x[i] = A[i]
    /\ \A i \in 1..Len(B) : x[Len(A) + i] = B[i]

\* What \o makes.
LEMMA TwoTexts ==
    ASSUME NEW A \in Seq(Int), NEW B \in Seq(Int)
    PROVE  Joins(A, B, A \o B)
BY DEF Joins

\* A word is shown with its letters, the first perhaps as a capital.
LEMMA ShownIs ==
    ASSUME NEW r, r.capitalize \in BOOLEAN, NEW w \in Seq(Nat \ {0}), Len(w) > 0
    PROVE  /\ Shown(r, w) \in Seq(Int) /\ Len(Shown(r, w)) = Len(w)
           /\ \A i \in 1..Len(w) : Shown(r, w)[i] = (IF i = 1 /\ r.capitalize THEN -w[i] ELSE w[i])
                                   /\ Shown(r, w)[i] # 0
<1>1. Len(w) \in Nat \ {0} /\ \A i \in 1..Len(w) : w[i] \in Nat \ {0}
  OBVIOUS
<1>2. CASE ~r.capitalize
  <2>1. Shown(r, w) = w
    BY <1>2 DEF Shown
  <2> QED  BY <1>1, <1>2, <2>1
<1>3. CASE r.capitalize
  <2> DEFINE capital == <<-w[1]>>
             s == capital \o Tail(w)
  <2>1. Shown(r, w) = s
    BY <1>3 DEF Shown
  <2>2. capital \in Seq(Int) /\ Len(capital) = 1 /\ capital[1] = -w[1]
    BY <1>1
  <2>3. Tail(w) \in Seq(Int) /\ Len(Tail(w)) = Len(w) - 1 /\ \A i \in 1..(Len(w) - 1) : Tail(w)[i] = w[i + 1]
    <3>1. w # <<>> /\ w \in Seq(Int)
      BY <1>1
    <3> QED  BY <1>1, <3>1
  <2> DEFINE tail == Tail(w)
  <2> HIDE DEF capital, tail
  <2>6. tail \in Seq(Int) /\ Len(tail) = Len(w) - 1 /\ s = capital \o tail
    BY <2>3 DEF tail
  <2>8. Joins(capital, tail, s)
    BY <2>2, <2>6, TwoTexts
  <2> HIDE DEF s
  <2>7. /\ s \in Seq(Int) /\ Len(s) = Len(capital) + Len(tail)
        /\ \A i \in 1..Len(capital) : s[i] = capital[i]
        /\ \A i \in 1..Len(tail) : s[Len(capital) + i] = tail[i]
    BY <2>8 DEF Joins
  <2>4. /\ s \in Seq(Int) /\ Len(s) = Len(w)
        /\ s[1] = capital[1] /\ \A i \in 2..Len(w) : s[i] = tail[i - 1]
    <3>1. s \in Seq(Int) /\ Len(s) = Len(w) /\ s[1] = capital[1]
      BY <1>1, <2>2, <2>6, <2>7
    <3>2. ASSUME NEW i \in 2..Len(w) PROVE s[i] = tail[i - 1]
      <4>1. i - 1 \in 1..Len(tail) /\ 1 + (i - 1) = i
        BY <1>1, <2>6
      <4>2. s[1 + (i - 1)] = tail[i - 1]
        BY <2>2, <2>7, <4>1
      <4> QED  BY <4>1, <4>2
    <3> QED  BY <3>1, <3>2
  <2> HIDE DEF s
  <2>5. ASSUME NEW i \in 1..Len(w) PROVE s[i] = (IF i = 1 THEN -w[i] ELSE w[i]) /\ s[i] # 0
    <3>1. CASE i = 1
      BY <1>1, <2>2, <2>4, <3>1
    <3>2. CASE i # 1
      <4>1. i \in 2..Len(w) /\ i - 1 \in 1..(Len(w) - 1) /\ (i - 1) + 1 = i
        BY <1>1, <3>2
      <4>2. s[i] = w[i]
        BY <2>3, <2>4, <4>1 DEF tail
      <4> QED  BY <1>1, <3>2, <4>2
    <3> QED  BY <3>1, <3>2
  <2> QED  BY <1>3, <2>1, <2>4, <2>5
<1> QED  BY <1>2, <1>3

\* Different words are shown differently.
LEMMA ShownTellsWords ==
    ASSUME NEW r, r.capitalize \in BOOLEAN, NEW w \in Seq(Nat \ {0}), Len(w) > 0,
           NEW v \in Seq(Nat \ {0}), Len(v) > 0, Shown(r, w) = Shown(r, v)
    PROVE  w = v
<1>1. Len(w) = Len(v)
  BY ShownIs
<1>2. ASSUME NEW i \in 1..Len(w) PROVE w[i] = v[i]
  <2>1. w[i] \in Nat /\ v[i] \in Nat
    BY <1>1
  <2>2. Shown(r, w)[i] = IF i = 1 /\ r.capitalize THEN -w[i] ELSE w[i]
    BY ShownIs
  <2>3. Shown(r, v)[i] = IF i = 1 /\ r.capitalize THEN -v[i] ELSE v[i]
    BY <1>1, ShownIs
  <2> QED  BY <2>1, <2>2, <2>3
<1> QED  BY <1>1, <1>2

\* A text that ends with a separator and a part of a known length has one beginning.
LEMMA CutAtEnd ==
    ASSUME NEW T, NEW U, NEW s, NEW w, NEW v, NEW A, NEW B, NEW x,
           Joins(T, s, A), Joins(A, w, x), Joins(U, s, B), Joins(B, v, x), Len(w) = Len(v)
    PROVE  T = U /\ w = v
<1>1. /\ T \in Seq(Int) /\ s \in Seq(Int) /\ Len(T) \in Nat /\ Len(s) \in Nat /\ Len(A) = Len(T) + Len(s)
      /\ \A i \in 1..Len(T) : A[i] = T[i]
  BY DEF Joins
<1>2. /\ U \in Seq(Int) /\ Len(U) \in Nat /\ Len(B) = Len(U) + Len(s)
      /\ \A i \in 1..Len(U) : B[i] = U[i]
  BY DEF Joins
<1>3. /\ w \in Seq(Int) /\ Len(w) \in Nat /\ Len(x) = Len(A) + Len(w)
      /\ \A i \in 1..Len(A) : x[i] = A[i]
      /\ \A i \in 1..Len(w) : x[Len(A) + i] = w[i]
  BY DEF Joins
<1>4. /\ v \in Seq(Int) /\ Len(x) = Len(B) + Len(v)
      /\ \A i \in 1..Len(B) : x[i] = B[i]
      /\ \A i \in 1..Len(v) : x[Len(B) + i] = v[i]
  BY DEF Joins
<1>5. Len(A) = Len(B) /\ Len(T) = Len(U)
  <2>1. Len(A) + Len(w) = Len(B) + Len(w)
    BY <1>3, <1>4
  <2>2. Len(A) \in Nat /\ Len(B) \in Nat
    BY <1>1, <1>2
  <2>3. Len(A) = Len(B)
    BY <1>3, <2>1, <2>2
  <2>4. Len(T) + Len(s) = Len(U) + Len(s) /\ Len(T) \in Nat /\ Len(U) \in Nat /\ Len(s) \in Nat
    BY <1>1, <1>2, <2>3
  <2>5. Len(T) = Len(U)
    BY <2>4
  <2> QED  BY <2>3, <2>5
<1>6. \A i \in 1..Len(w) : w[i] = v[i]
  BY <1>3, <1>4, <1>5
<1>7. \A i \in 1..Len(T) : T[i] = U[i]
  <2> SUFFICES ASSUME NEW i \in 1..Len(T) PROVE T[i] = U[i]
    OBVIOUS
  <2>1. i \in 1..Len(A) /\ i \in 1..Len(U) /\ i \in 1..Len(B)
    BY <1>1, <1>5
  <2> QED  BY <1>1, <1>2, <1>3, <1>4, <2>1
<1>8. T = U
  BY <1>1, <1>2, <1>5, <1>7, SameSeq
<1>9. w = v
  BY <1>3, <1>4, <1>6, SameSeq
<1> QED  BY <1>8, <1>9

\* With a separator that is no letter somewhere, the last such place is where the
\* last part begins.
LEMMA CutAtLast ==
    ASSUME NEW T, NEW U, NEW s, NEW w, NEW v, NEW A, NEW B, NEW x,
           Joins(T, s, A), Joins(A, w, x), Joins(U, s, B), Joins(B, v, x), \E i \in 1..Len(s) : s[i] = 0,
           \A i \in 1..Len(w) : w[i] # 0, \A i \in 1..Len(v) : v[i] # 0
    PROVE  Len(w) = Len(v)
<1> DEFINE Zeros == {i \in 1..Len(s) : s[Len(s) + 1 - i] = 0}
<1>1. PICK z \in 1..Len(s) : s[z] = 0 /\ \A i \in 1..Len(s) : i > z => s[i] # 0
  <2>1. PICK i \in 1..Len(s) : s[i] = 0
    OBVIOUS
  <2>2. Len(s) + 1 - i \in Zeros /\ Len(s) \in Nat
    <3>1. Len(s) \in Nat
      BY DEF Joins
    <3> DEFINE l == Len(s)
    <3> HIDE DEF l
    <3>2. l \in Nat /\ i \in 1..l
      BY <3>1 DEF l
    <3>3. l + 1 - i \in 1..l /\ l + 1 - (l + 1 - i) = i
      BY <3>2
    <3> QED  BY <2>1, <3>1, <3>3 DEF l
  <2>3. PICK k \in Zeros : \A j \in Zeros : k <= j
    <3>1. Zeros \in SUBSET Nat /\ Zeros # {}
      <4>1. Zeros \subseteq 1..Len(s)
        OBVIOUS
      <4> HIDE DEF Zeros
      <4> QED  BY <2>2, <4>1
    <3> HIDE DEF Zeros
    <3> QED  BY <3>1, LeastOf
  <2> DEFINE p == Len(s) + 1 - k
  <2>4. p \in 1..Len(s) /\ s[p] = 0
    OBVIOUS
  <2>5. ASSUME NEW j \in 1..Len(s), j > p PROVE s[j] # 0
    <3> DEFINE l == Len(s)
               q == l + 1 - j
    <3>1. l \in Nat /\ k \in 1..l /\ j \in 1..l /\ j > l + 1 - k
      BY <2>2, <2>5
    <3> HIDE DEF l
    <3>2. q \in 1..l /\ ~(k <= q) /\ l + 1 - q = j
      BY <3>1
    <3> HIDE DEF q
    <3>3. q \notin Zeros
      BY <2>3, <3>2
    <3>4. \A e \in 1..l : e \notin Zeros => s[l + 1 - e] # 0
      BY DEF l
    <3> HIDE DEF Zeros
    <3> QED  BY <3>2, <3>3, <3>4
  <2> QED  BY <2>4, <2>5
<1>2. ASSUME NEW C, NEW D, NEW b, Joins(C, s, D), Joins(D, b, x), \A i \in 1..Len(b) : b[i] # 0
      PROVE  /\ Len(C) \in Nat /\ Len(s) \in Nat /\ Len(b) \in Nat /\ Len(x) = (Len(C) + Len(s)) + Len(b)
             /\ Len(C) + z \in 1..Len(x) /\ x[Len(C) + z] = 0
             /\ \A i \in 1..Len(x) : i > Len(C) + z => x[i] # 0
  <2> DEFINE n == Len(C) + Len(s)
  <2>1. Len(C) \in Nat /\ Len(s) \in Nat /\ Len(D) = n /\ \A i \in 1..Len(s) : D[Len(C) + i] = s[i]
    BY <1>2 DEF Joins
  <2>2. /\ Len(b) \in Nat /\ Len(x) = Len(D) + Len(b)
        /\ \A i \in 1..Len(D) : x[i] = D[i]
        /\ \A i \in 1..Len(b) : x[Len(D) + i] = b[i]
    BY <1>2 DEF Joins
  <2>3. /\ Len(x) = n + Len(b)
        /\ \A i \in 1..n : x[i] = D[i]
        /\ \A i \in 1..Len(b) : x[n + i] = b[i]
    BY <2>1, <2>2
  <2>4. z \in 1..Len(s)
    OBVIOUS
  <2>5. Len(C) + z \in 1..n /\ Len(C) + z \in 1..Len(x)
    BY <2>1, <2>2, <2>3, <2>4
  <2>6. x[Len(C) + z] = 0
    <3>1. D[Len(C) + z] = 0
      BY <1>1, <2>1
    <3> HIDE DEF n
    <3> QED  BY <2>3, <2>5, <3>1
  <2>7. ASSUME NEW i \in 1..Len(x), i > Len(C) + z PROVE x[i] # 0
    <3>1. CASE i <= n
      <4> DEFINE q == i - Len(C)
      <4>1. q \in 1..Len(s) /\ q > z /\ i = Len(C) + q /\ i \in 1..n
        BY <2>1, <2>4, <2>7, <3>1
      <4> HIDE DEF q, n
      <4>2. s[q] # 0
        BY <1>1, <4>1
      <4>3. D[i] = s[q]
        BY <2>1, <4>1
      <4> QED  BY <2>3, <4>1, <4>2, <4>3
    <3>2. CASE ~(i <= n)
      <4> DEFINE q == i - n
      <4>1. q \in 1..Len(b) /\ i = n + q
        BY <2>1, <2>2, <2>3, <3>2
      <4> HIDE DEF q, n
      <4>2. x[i] = b[q]
        BY <2>3, <4>1
      <4> QED  BY <1>2, <4>1, <4>2
    <3> QED  BY <3>1, <3>2
  <2> QED  BY <2>1, <2>2, <2>3, <2>5, <2>6, <2>7
<1>3. /\ Len(T) \in Nat /\ Len(s) \in Nat /\ Len(w) \in Nat /\ Len(x) = (Len(T) + Len(s)) + Len(w)
      /\ Len(T) + z \in 1..Len(x) /\ x[Len(T) + z] = 0 /\ \A i \in 1..Len(x) : i > Len(T) + z => x[i] # 0
  BY <1>2
<1>4. /\ Len(U) \in Nat /\ Len(v) \in Nat /\ Len(x) = (Len(U) + Len(s)) + Len(v)
      /\ Len(U) + z \in 1..Len(x) /\ x[Len(U) + z] = 0 /\ \A i \in 1..Len(x) : i > Len(U) + z => x[i] # 0
  BY <1>2
<1>5. ~(Len(T) + z > Len(U) + z) /\ ~(Len(U) + z > Len(T) + z)
  BY <1>3, <1>4
<1>6. Len(T) = Len(U)
  BY <1>3, <1>4, <1>5
<1> QED  BY <1>3, <1>4, <1>6

\* The separator has a character that is no letter.
Delimited(r) == \E i \in DOMAIN r.separator : r.separator[i] = 0
\* The choices of words, and their texts.
WordChoices(r) == [1..r.words -> r.list]

\* What is chosen is shown, and the texts on the way are texts.
LEMMA ChoiceIs ==
    ASSUME NEW r, Joinable(r), NEW words \in WordChoices(r)
    PROVE  /\ r.words \in Nat \ {0} /\ Len(words) = r.words
           /\ \A n \in 1..r.words :
                 /\ words[n] \in Seq(Nat \ {0}) /\ Len(words[n]) \in 1..MaxWord /\ Len(words[n]) > 0
                 /\ Shown(r, words[n]) \in Seq(Int) /\ Len(Shown(r, words[n])) = Len(words[n])
                 /\ \A i \in 1..Len(Shown(r, words[n])) : Shown(r, words[n])[i] # 0
<1>1. /\ r.words \in Nat \ {0} /\ r.capitalize \in BOOLEAN
      /\ \A word \in r.list : word \in Seq(Nat \ {0}) /\ Len(word) \in 1..MaxWord
  BY DEF Joinable
<1>2. Len(words) = r.words
  <2>1. words \in Seq(r.list) /\ DOMAIN words = 1..r.words
    BY <1>1 DEF WordChoices
  <2> QED  BY <1>1, <2>1
<1>3. \A n \in 1..r.words : words[n] \in r.list
  BY DEF WordChoices
<1> SUFFICES ASSUME NEW n \in 1..r.words
             PROVE  /\ words[n] \in Seq(Nat \ {0}) /\ Len(words[n]) \in 1..MaxWord /\ Len(words[n]) > 0
                    /\ Shown(r, words[n]) \in Seq(Int) /\ Len(Shown(r, words[n])) = Len(words[n])
                    /\ \A i \in 1..Len(Shown(r, words[n])) : Shown(r, words[n])[i] # 0
  BY <1>1, <1>2
<1> DEFINE w == words[n]
<1>4. w \in Seq(Nat \ {0}) /\ Len(w) \in 1..MaxWord /\ Len(w) > 0
  BY <1>1, <1>3, WordAssumption
<1> HIDE DEF w
<1>5. /\ Shown(r, w) \in Seq(Int) /\ Len(Shown(r, w)) = Len(w)
      /\ \A i \in 1..Len(w) : Shown(r, w)[i] # 0
  BY <1>1, <1>4, ShownIs
<1>6. \A i \in 1..Len(Shown(r, w)) : Shown(r, w)[i] # 0
  BY <1>5
<1> QED  BY <1>4, <1>5, <1>6 DEF w

\* Each text is the one before it, the separator and a word.
LEMMA SpellingIs ==
    ASSUME NEW r, Joinable(r), NEW words \in WordChoices(r), NEW g, Spelling(g, r, words, r.words)
    PROVE  /\ g[1] = Shown(r, words[1])
           /\ \A n \in 2..r.words :
                 \E A : Joins(g[n - 1], r.separator, A) /\ Joins(A, Shown(r, words[n]), g[n])
<1> DEFINE m == r.words
           s == r.separator
           Bad == {n \in 1..m : g[n] \notin Seq(Int)}
<1>1. m \in Nat \ {0} /\ s \in Seq(Int) /\ \A n \in 1..m : Shown(r, words[n]) \in Seq(Int)
  BY ChoiceIs DEF Joinable
<1> DEFINE More(n) == g[n - 1] \o s \o Shown(r, words[n])
<1>7. \A n \in 1..m : g[n] = IF n = 1 THEN Shown(r, words[1]) ELSE More(n)
  BY DEF Spelling
<1>2. g[1] = Shown(r, words[1])
  <2>1. 1 \in 1..m
    BY <1>1
  <2> HIDE DEF More
  <2> QED  BY <1>7, <2>1
<1>3. \A n \in 2..m : g[n] = More(n)
  <2>1. \A n \in 2..m : n \in 1..m /\ n # 1
    BY <1>1
  <2> HIDE DEF More
  <2> QED  BY <1>7, <2>1
<1>4. ASSUME NEW n \in 2..m, g[n - 1] \in Seq(Int)
      PROVE  /\ g[n] \in Seq(Int)
             /\ \E A : Joins(g[n - 1], s, A) /\ Joins(A, Shown(r, words[n]), g[n])
  <2> DEFINE A == g[n - 1] \o s
             w == Shown(r, words[n])
  <2>1. Joins(g[n - 1], s, A) /\ w \in Seq(Int)
    BY <1>1, <1>4, TwoTexts
  <2>2. A \in Seq(Int)
    BY <2>1 DEF Joins
  <2>3. Joins(A, w, A \o w)
    <3> HIDE DEF A, w
    <3> QED  BY <2>1, <2>2, TwoTexts
  <2>4. g[n] = A \o w
    BY <1>3
  <2>5. g[n] \in Seq(Int)
    BY <2>3, <2>4 DEF Joins
  <2> QED  BY <2>1, <2>3, <2>4, <2>5
<1>5. Bad = {}
  <2> SUFFICES ASSUME Bad # {} PROVE FALSE
    OBVIOUS
  <2>1. PICK k \in Bad : \A n \in Bad : k <= n
    <3>1. Bad \in SUBSET Nat
      BY <1>1
    <3> HIDE DEF Bad
    <3> QED  BY <3>1, LeastOf
  <2>2. k # 1
    BY <1>1, <1>2, <2>1
  <2>3. k \in 2..m /\ k - 1 \in 1..m /\ ~(k <= k - 1)
    BY <1>1, <2>1, <2>2
  <2>4. g[k - 1] \in Seq(Int)
    BY <2>1, <2>3
  <2> QED  BY <1>4, <2>1, <2>3, <2>4
<1>6. \A n \in 2..m : g[n - 1] \in Seq(Int)
  <2>1. \A n \in 2..m : n - 1 \in 1..m
    BY <1>1
  <2> QED  BY <1>5, <2>1
<1> QED  BY <1>2, <1>4, <1>6

\* A text tells the words that were chosen, if the separator delimits them or their
\* lengths are known.
LEMMA TextTellsWords ==
    ASSUME NEW r, Joinable(r), NEW words \in WordChoices(r), NEW others \in WordChoices(r),
           Spelt(r, words) = Spelt(r, others),
           Delimited(r) \/ \A n \in 2..r.words : Len(words[n]) = Len(others[n])
    PROVE  words = others
<1> DEFINE m == r.words
           s == r.separator
<1>1. /\ m \in Nat \ {0} /\ Len(words) = m /\ Len(others) = m /\ r.capitalize \in BOOLEAN /\ s \in Seq(Int)
      /\ DOMAIN s = 1..Len(s)
  BY ChoiceIs DEF Joinable
<1>2. PICK g : Spelling(g, r, words, m) /\ Spelt(r, words) = g[m]
  BY <1>1, SpeltIs
<1>3. PICK h : Spelling(h, r, others, m) /\ Spelt(r, others) = h[m]
  BY <1>1, SpeltIs
<1>4. ASSUME NEW n \in 2..m, g[n] = h[n]
      PROVE  g[n - 1] = h[n - 1] /\ Shown(r, words[n]) = Shown(r, others[n])
  <2> DEFINE w == Shown(r, words[n])
             v == Shown(r, others[n])
  <2>1. PICK A : Joins(g[n - 1], s, A) /\ Joins(A, w, g[n])
    BY <1>2, SpellingIs
  <2>2. PICK B : Joins(h[n - 1], s, B) /\ Joins(B, v, g[n])
    BY <1>3, <1>4, SpellingIs
  <2>3. n \in 1..m
    BY <1>1
  <2>4. \A i \in 1..Len(w) : w[i] # 0
    BY <2>3, ChoiceIs
  <2>5. \A i \in 1..Len(v) : v[i] # 0
    BY <2>3, ChoiceIs
  <2>6. Len(w) = Len(words[n]) /\ Len(v) = Len(others[n])
    BY <2>3, ChoiceIs
  <2>7. Len(w) = Len(v)
    <3>1. CASE Delimited(r)
      <4>1. \E i \in 1..Len(s) : s[i] = 0
        BY <1>1, <3>1 DEF Delimited
      <4> HIDE DEF w, v, s
      <4> QED  BY <2>1, <2>2, <2>4, <2>5, <4>1, CutAtLast
    <3>2. CASE \A i \in 2..r.words : Len(words[i]) = Len(others[i])
      BY <2>6, <3>2
    <3> QED  BY <3>1, <3>2
  <2> HIDE DEF w, v, s
  <2>8. g[n - 1] = h[n - 1] /\ w = v
    BY <2>1, <2>2, <2>7, CutAtEnd
  <2> QED  BY <2>8 DEF w, v
<1> DEFINE Bad == {i \in 0..(m - 1) : g[m - i] # h[m - i]}
<1>5. Bad = {}
  <2> SUFFICES ASSUME Bad # {} PROVE FALSE
    OBVIOUS
  <2>1. PICK k \in Bad : \A i \in Bad : k <= i
    <3>1. Bad \in SUBSET Nat
      BY <1>1
    <3> HIDE DEF Bad
    <3> QED  BY <3>1, LeastOf
  <2>2. k # 0
    <3>1. g[m] = h[m]
      BY <1>2, <1>3
    <3>2. g[m - k] # h[m - k]
      OBVIOUS
    <3>3. k = 0 => m - k = m
      BY <1>1
    <3> HIDE DEF m
    <3> QED  BY <3>1, <3>2, <3>3
  <2> DEFINE n == m - (k - 1)
  <2>3. k - 1 \in 0..(m - 1) /\ ~(k <= k - 1) /\ n \in 2..m /\ n - 1 = m - k
    BY <1>1, <2>1, <2>2
  <2>4. g[n] = h[n]
    BY <2>1, <2>3
  <2>5. g[m - k] = h[m - k]
    <3> HIDE DEF n
    <3> QED  BY <1>4, <2>3, <2>4
  <2> QED  BY <2>1, <2>5
<1>6. ASSUME NEW n \in 1..m PROVE g[n] = h[n]
  <2>1. m - n \in 0..(m - 1) /\ m - (m - n) = n
    BY <1>1
  <2>2. g[m - (m - n)] = h[m - (m - n)]
    BY <1>5, <2>1
  <2> QED  BY <2>1, <2>2
<1>7. ASSUME NEW n \in 1..m PROVE Shown(r, words[n]) = Shown(r, others[n])
  <2>1. CASE n = 1
    <3>1. g[1] = Shown(r, words[1])
      BY <1>2, SpellingIs
    <3>2. h[1] = Shown(r, others[1])
      BY <1>3, SpellingIs
    <3> QED  BY <1>6, <2>1, <3>1, <3>2
  <2>2. CASE n # 1
    <3>1. n \in 2..m
      BY <1>1, <2>2
    <3> QED  BY <1>4, <1>6, <3>1
  <2> QED  BY <2>1, <2>2
<1>8. ASSUME NEW n \in 1..m PROVE words[n] = others[n]
  <2>1. words[n] \in Seq(Nat \ {0}) /\ Len(words[n]) > 0
    BY ChoiceIs
  <2>2. others[n] \in Seq(Nat \ {0}) /\ Len(others[n]) > 0
    BY ChoiceIs
  <2> QED  BY <1>1, <1>7, <2>1, <2>2, ShownTellsWords
<1>9. words = [n \in 1..m |-> words[n]] /\ others = [n \in 1..m |-> others[n]]
  BY DEF WordChoices
<1> QED  BY <1>8, <1>9

SpeltTexts(r) == {Spelt(r, words) : words \in WordChoices(r)}

\* What the tool claims of a passphrase is true of its texts.
LEMMA ClaimsAre ==
    ASSUME NEW r, Joinable(r)
    PROVE  /\ IsFiniteSet(SpeltTexts(r))
           /\ Delimited(r) => Cardinality(SpeltTexts(r)) = Pow(Cardinality(r.list), r.words)
           /\ ~Delimited(r) => Cardinality(SpeltTexts(r)) * Pow(MaxWord, r.words - 1)
                               >= Pow(Cardinality(r.list), r.words)
<1> DEFINE D == WordChoices(r)
           T == SpeltTexts(r)
           m == r.words
           claim == Pow(Cardinality(r.list), m)
           f == [words \in D |-> Spelt(r, words)]
<1>1. m \in Nat \ {0} /\ m \in Nat /\ m - 1 \in Nat /\ IsFiniteSet(r.list)
  BY DEF Joinable
<1>2. IsFiniteSet(D) /\ Cardinality(D) = claim
  BY <1>1, WordsCounted DEF WordChoices
<1>3. f \in Surjection(D, T)
  BY DEF SpeltTexts, Surjection
<1>4. IsFiniteSet(T)
  <2> HIDE DEF f, D, T
  <2> QED  BY <1>2, <1>3, FS_Surjection
<1>5. Cardinality(T) \in Nat
  BY <1>4, FS_CardinalityType
<1>6. ASSUME Delimited(r) PROVE Cardinality(T) = claim
  <2>1. \A a, b \in D : f[a] = f[b] => a = b
    <3> SUFFICES ASSUME NEW a \in D, NEW b \in D, f[a] = f[b] PROVE a = b
      OBVIOUS
    <3>1. Spelt(r, a) = Spelt(r, b)
      OBVIOUS
    <3> HIDE DEF f
    <3> QED  BY <1>6, <3>1, TextTellsWords
  <2> HIDE DEF f, D, T
  <2>2. f \in Injection(D, T)
    BY <1>3, <2>1 DEF Injection, IsInjective, Surjection
  <2>3. Cardinality(T) = Cardinality(D)
    BY <1>2, <1>3, <2>2, FS_Surjection
  <2> QED  BY <1>2, <2>3
<1>7. ASSUME ~Delimited(r) PROVE Cardinality(T) * Pow(MaxWord, m - 1) >= claim
  <2> DEFINE L == [1..(m - 1) -> 1..MaxWord]
             lens(words) == [n \in 1..(m - 1) |-> Len(words[n + 1])]
             h == [words \in D |-> <<Spelt(r, words), lens(words)>>]
  <2>1. IsFiniteSet(1..MaxWord) /\ Cardinality(1..MaxWord) = MaxWord /\ MaxWord \in Nat
    <3>1. MaxWord \in Nat \ {0}
      BY WordAssumption
    <3>2. IsFiniteSet(1..MaxWord) /\ Cardinality(1..MaxWord) = IF 1 > MaxWord THEN 0 ELSE MaxWord - 1 + 1
      BY <3>1, FS_Interval
    <3> QED  BY <3>1, <3>2
  <2>2. IsFiniteSet(L) /\ Cardinality(L) = Pow(MaxWord, m - 1)
    <3> DEFINE p == m - 1
    <3>1. p \in Nat
      BY <1>1
    <3> HIDE DEF p
    <3>2. IsFiniteSet([1..p -> 1..MaxWord]) /\ Cardinality([1..p -> 1..MaxWord]) = Pow(Cardinality(1..MaxWord), p)
      BY <2>1, <3>1, WordsCounted
    <3> QED  BY <2>1, <3>2 DEF p
  <2>3. \A words \in D : lens(words) \in L
    <3> SUFFICES ASSUME NEW words \in D PROVE lens(words) \in L
      OBVIOUS
    <3>1. \A n \in 1..m : Len(words[n]) \in 1..MaxWord
      BY ChoiceIs
    <3>2. \A n \in 1..(m - 1) : n + 1 \in 1..m
      BY <1>1
    <3> HIDE DEF D
    <3> QED  BY <3>1, <3>2
  <2>4. h \in [D -> T \X L]
    <3>1. \A words \in D : Spelt(r, words) \in T
      BY DEF SpeltTexts
    <3> HIDE DEF D, T, L, lens
    <3> QED  BY <2>3, <3>1
  <2>5. \A a, b \in D : h[a] = h[b] => a = b
    <3> SUFFICES ASSUME NEW a \in D, NEW b \in D, h[a] = h[b] PROVE a = b
      OBVIOUS
    <3>1. Spelt(r, a) = Spelt(r, b) /\ lens(a) = lens(b)
      <4> HIDE DEF lens
      <4>1. h[a][1] = Spelt(r, a) /\ h[a][2] = lens(a) /\ h[b][1] = Spelt(r, b) /\ h[b][2] = lens(b)
        OBVIOUS
      <4>2. h[a] = h[b]
        OBVIOUS
      <4> HIDE DEF h
      <4> QED  BY <4>1, <4>2
    <3>2. \A n \in 2..m : Len(a[n]) = Len(b[n])
      <4> SUFFICES ASSUME NEW n \in 2..m PROVE Len(a[n]) = Len(b[n])
        OBVIOUS
      <4> DEFINE p == n - 1
      <4>1. p \in 1..(m - 1) /\ p + 1 = n
        BY <1>1
      <4> HIDE DEF p, D, m
      <4>2. lens(a)[p] = Len(a[p + 1]) /\ lens(b)[p] = Len(b[p + 1])
        BY <4>1
      <4> HIDE DEF lens
      <4> QED  BY <3>1, <4>1, <4>2
    <3> HIDE DEF h, lens
    <3> QED  BY <3>1, <3>2, TextTellsWords
  <2> HIDE DEF h, D, T, L, lens, claim
  <2>6. h \in Injection(D, T \X L)
    BY <2>4, <2>5 DEF Injection, IsInjective
  <2>7. IsFiniteSet(T \X L) /\ Cardinality(T \X L) = Cardinality(T) * Cardinality(L)
    BY <1>4, <2>2, FS_Product
  <2>8. Cardinality(D) <= Cardinality(T \X L) /\ Cardinality(D) \in Nat /\ Cardinality(T \X L) \in Nat
    BY <1>2, <2>6, <2>7, FS_Injection, FS_CardinalityType
  <2> DEFINE p == Cardinality(T) * Pow(MaxWord, m - 1)
  <2>9. Cardinality(T \X L) = p
    BY <2>2, <2>7
  <2> HIDE DEF p
  <2>10. p >= claim
    BY <1>2, <2>8, <2>9
  <2> QED  BY <2>10 DEF p
<1> QED  BY <1>4, <1>6, <1>7

-----------------------------------------------------------------------------
(* What the generators claim.                                              *)

\* What ClaimIsTrue says of an input and what was made of it.
ClaimTrue(r, data) ==
    /\ r.tool = "password" => data.possibilities = Cardinality(Returned(r))
    /\ r.tool = "passphrase" =>
          IF data.exact THEN Cardinality(SpeltTexts(r)) = data.claim
          ELSE Cardinality(SpeltTexts(r)) * data.over >= data.claim

\* ClaimIsTrue, before a step and after it.
LEMMA ClaimedIs ==
    /\ ClaimIsTrue <=> (phase = "handled" => ClaimTrue(input, result.data))
    /\ ClaimIsTrue' <=> (phase' = "handled" => ClaimTrue(input', result'.data))
<1>1. \A words : Joined(words) = Spelt(input, words)
  BY DEF Joined, Word, Spelt, Shown
<1>2. {Joined(words) : words \in [1..input.words -> input.list]} = SpeltTexts(input)
  BY <1>1 DEF SpeltTexts, WordChoices
<1>3. (\A words : Joined(words) = Spelt(input, words))'
  BY DEF Joined, Word, Spelt, Shown
<1>4. {Joined(words) : words \in [1..input.words -> input.list]}' = SpeltTexts(input')
  BY <1>3 DEF SpeltTexts, WordChoices
<1>5. ClaimIsTrue <=> (phase = "handled" => ClaimTrue(input, result.data))
  <2> DEFINE texts == {Joined(words) : words \in [1..input.words -> input.list]}
  <2>1. ClaimIsTrue <=>
        (phase = "handled" =>
            /\ input.tool = "password" => result.data.possibilities = Cardinality(Returned(input))
            /\ input.tool = "passphrase" =>
                  IF result.data.exact THEN Cardinality(texts) = result.data.claim
                  ELSE Cardinality(texts) * result.data.over >= result.data.claim)
    BY DEF ClaimIsTrue
  <2>2. texts = SpeltTexts(input)
    BY <1>2
  <2> HIDE DEF texts
  <2> QED  BY <2>1, <2>2 DEF ClaimTrue
<1>6. ClaimIsTrue' <=> (phase' = "handled" => ClaimTrue(input', result'.data))
  <2> DEFINE texts == {Joined(words) : words \in [1..input.words -> input.list]}
  <2>1. ClaimIsTrue' <=>
        (phase' = "handled" =>
            /\ input'.tool = "password" => result'.data.possibilities = Cardinality(Returned(input'))
            /\ input'.tool = "passphrase" =>
                  IF result'.data.exact THEN Cardinality(texts') = result'.data.claim
                  ELSE Cardinality(texts') * result'.data.over >= result'.data.claim)
    BY DEF ClaimIsTrue
  <2>2. texts' = SpeltTexts(input')
    BY <1>4
  <2> HIDE DEF texts
  <2> QED  BY <2>1, <2>2 DEF ClaimTrue
<1> QED  BY <1>5, <1>6

\* What has been claimed is true, and neither generator awaits anything.
ClaimInv ==
    input.tool \in {"password", "passphrase"} =>
        /\ phase # "awaiting"
        /\ phase = "handled" => ClaimTrue(input, result.data)

\* Every step keeps it.
LEMMA ClaimStep ==
    ASSUME RuntimeInv, ClaimInv, [Next]_callVars
    PROVE  ClaimInv'
<1> SUFFICES ASSUME input'.tool \in {"password", "passphrase"}
             PROVE  /\ phase' # "awaiting"
                    /\ phase' = "handled" => ClaimTrue(input', result'.data)
  BY DEF ClaimInv
<1>1. input' = input
  BY DEF Next, callVars, Parse, Settle, Check, Abort, Structured, Regex, Password, Base64, Epoch, Chmod,
         Unfold, Parsed, FormatJson, Start, Enter, Return, RegexStart, NoMatch, TooMany, Match, OverBudget,
         PasswordStart, Drawn, Passphrase, Draw, Proceed, Leave
<1>2. /\ phase # "awaiting"
      /\ phase = "handled" => ClaimTrue(input, result.data)
  BY <1>1 DEF ClaimInv
<1>3. /\ input.tool = "password" => Drawable(input)
      /\ input.tool = "passphrase" => Joinable(input)
  BY <1>1, InputsAssumption DEF RuntimeInv, CallInv
<1>4. CASE PasswordStart \/ \E sample \in 0..(WordValues - 1) : Draw(sample)
  BY <1>4 DEF PasswordStart, Draw, Proceed
<1>5. CASE Drawn
  <2>1. CASE input.eachClass /\ ~EachClass(input.sizes, work)
    BY <1>5, <2>1 DEF Drawn, Proceed
  <2>2. CASE ~(input.eachClass /\ ~EachClass(input.sizes, work))
    <3>1. phase' = "handled" /\ input.tool = "password"
      BY <1>5, <2>2 DEF Drawn, Leave, Working
    <3>2. result' = Data([value |-> work, possibilities |-> Possibilities])
      BY <1>5, <2>2 DEF Drawn, Leave
    <3>3. result'.data.possibilities = Possibilities
      BY <3>2 DEF Data
    <3>4. Possibilities = Cardinality(Returned(input))
      BY <1>3, <3>1, PossibilitiesAre DEF Possibilities
    <3> QED  BY <1>1, <3>1, <3>3, <3>4 DEF ClaimTrue
  <2> QED  BY <2>1, <2>2
<1>6. CASE Passphrase
  <2> DEFINE claim == Pow(Cardinality(input.list), input.words)
             over == IF Delimited(input) THEN 1 ELSE Pow(MaxWord, input.words - 1)
             texts == SpeltTexts(input)
  <2>1. phase' = "handled" /\ input.tool = "passphrase"
    BY <1>6 DEF Passphrase, Begun, Leave
  <2>2. result' = Data([exact |-> Delimited(input), claim |-> claim, over |-> over])
    BY <1>6 DEF Passphrase, Leave, Delimited
  <2> HIDE DEF claim, over
  <2>3. result'.data.claim = claim /\ result'.data.over = over /\ (result'.data.exact <=> Delimited(input))
    BY <2>2, Zenon DEF Data
  <2>4. Delimited(input) => Cardinality(texts) = claim
    BY <1>3, <2>1, ClaimsAre DEF claim
  <2>5. ~Delimited(input) => Cardinality(texts) * over >= claim
    BY <1>3, <2>1, ClaimsAre DEF claim, over
  <2>6. IF result'.data.exact THEN Cardinality(texts) = result'.data.claim
        ELSE Cardinality(texts) * result'.data.over >= result'.data.claim
    <3> HIDE DEF texts
    <3> QED  BY <2>3, <2>4, <2>5
  <2> QED  BY <1>1, <2>1, <2>6 DEF ClaimTrue
<1>7. CASE Parse \/ Check
  <2>1. phase' \in {"parsed", "settled"}
    BY <1>7 DEF Parse, Check, Settle
  <2> QED  BY <2>1
<1>8. CASE Abort \/ UNCHANGED callVars
  <2>1. UNCHANGED <<input, phase, work, result>>
    BY <1>8 DEF Abort, callVars
  <2> QED  BY <1>2, <2>1
<1>9. ~(Structured \/ Regex \/ Base64 \/ Epoch \/ Chmod \/ Unfold \/ Parsed)
  BY <1>1, <1>2 DEF Structured, Regex, Base64, Epoch, Chmod, Unfold, Parsed, FormatJson, Start, Enter, Return,
         RegexStart, NoMatch, TooMany, Match, OverBudget, Begun, Working
<1> QED  BY <1>4, <1>5, <1>6, <1>7, <1>8, <1>9 DEF Next, Password

-----------------------------------------------------------------------------
\* Every call of a local tool keeps to the invariant: the search of the regular
\* expression tool has skipped and repeated no match up to its lastIndex, and an
\* aborted caller that is answered is answered with an error (runtime.ts, compute.ts).
THEOREM RuntimeCorrect == Spec => []RuntimeInv
  BY RuntimeInit, RuntimeStep, PTL DEF Spec

\* The regular expression tool reports the matches of the text, each once and in
\* order, whatever the text, the matches, the flags and the cap: its loop over
\* exec() and lastIndex neither skips nor repeats one, and `truncated' says
\* whether there was one more (regex in compute.ts).
THEOREM RegexExact == Spec => []MatchesAreExact
<1>1. RuntimeInv => MatchesAreExact
  BY DEF RuntimeInv, RegexInv, MatchesAreExact
<1> QED  BY <1>1, RuntimeCorrect, PTL

\* What the converters print is what was meant: Base64 accepts exactly the encodings
\* and loses no byte, the seconds and milliseconds of an epoch are one number, and
\* each bit of a mode is what the last clause that touches it says (bytes.ts,
\* encoding.ts, time.ts, chmod.ts), for every input that the schemas let through.
THEOREM ConversionsExact == Spec => []ConversionsAreExact
<1>1. Init => ConvertInv
  BY DEF Init, CallInit, ConvertInv, ConversionsAreExact
<1>2. RuntimeInv /\ ConvertInv /\ [Next]_callVars => ConvertInv'
  BY ConvertStep
<1>3. RuntimeInv /\ ConvertInv => ConversionsAreExact
  <2>1. ASSUME RuntimeInv, ConvertInv PROVE ConversionsAreExact
    BY <2>1 DEF ConvertInv, ConversionsAreExact, Converters
  <2> QED  BY <2>1
<1> QED  BY <1>1, <1>2, <1>3, RuntimeCorrect, PTL DEF Spec

\* What the workbench prints of a JSON text says what the text said, every key,
\* string and digit of it: the stand-in for __proto__ is no key of the text, the
\* tokens of the numbers are none of its strings, and each is put back where it
\* stood, but for a string that ends like a token (structured.ts), for every text,
\* every budget and both targets.
THEOREM JsonKept == Spec => []JsonSurvives
<1>1. Init => JsonInv
  BY DEF Init, CallInit, JsonInv, JsonSurvives
<1>2. RuntimeInv /\ JsonInv /\ [Next]_callVars => JsonInv'
  BY JsonStep
<1>3. JsonInv => JsonSurvives
  BY DEF JsonInv, JsonSurvives
<1> QED  BY <1>1, <1>2, <1>3, RuntimeCorrect, PTL DEF Spec

\* A YAML text is converted exactly when JSON can say it and it keeps to the budgets,
\* and then to its full unfolding, node by node in the order of the text: an alias
\* used twice is no circle, a circle never gets through, and a text is called invalid
\* only for a circle, an alias without an anchor or a repeated key (yamlValue() in
\* structured.ts), for every document and all budgets.
THEOREM YamlUnfolds == Spec => []YamlIsUnfolded
<1>1. Init => YamlInv
  BY DEF Init, CallInit, YamlInv, YamlIsUnfolded
<1>2. RuntimeInv /\ YamlInv /\ [Next]_callVars => YamlInv'
  BY YamlStep
<1>3. YamlInv => YamlIsUnfolded
  BY DEF YamlInv, YamlIsUnfolded
<1> QED  BY <1>1, <1>2, <1>3, RuntimeCorrect, PTL DEF Spec

\* What the header analyzer reports of any text is true of its header section and of
\* nothing else: each Received field above the first empty line is a hop, in its
\* order and with the time that its own folded lines told last; delays are between
\* neighbours that both have a time, and add up; what is counted is there; and a
\* call that was aborted while the headers were parsed shows nothing (email.ts of
\* tool-core), for any number of lines, fields and folds and both limits.
THEOREM HeadersTrue == Spec => []HeadersAreTrue
<1>1. Init => HeadersInv
  BY DEF Init, CallInit, HeadersInv
<1>2. RuntimeInv /\ HeadersInv /\ [Next]_callVars => HeadersInv'
  BY HeadersStep
<1>3. RuntimeInv /\ HeadersInv => HeadersAreTrue
  BY ReportedIs DEF RuntimeInv, CallInv, HeadersInv
<1> QED  BY <1>1, <1>2, <1>3, RuntimeCorrect, PTL DEF Spec

\* The generator is fair: whatever the classes and the length, every character of
\* the alphabet is chosen by equally many of the random words that are kept, and a
\* password that is returned has the length and the classes asked for (randomIndex()
\* and the loop in password.ts).
THEOREM PasswordsAreFair == Spec => []DrawsAreFair
<1>1. Init => PasswordInv
  BY DEF Init, CallInit, PasswordInv, DrawsAreFair
<1>2. RuntimeInv /\ PasswordInv /\ [Next]_callVars => PasswordInv'
  BY PasswordStep
<1>3. PasswordInv => DrawsAreFair
  BY DEF PasswordInv, DrawsAreFair
<1> QED  BY <1>1, <1>2, <1>3, RuntimeCorrect, PTL DEF Spec

\* What the generators say of their randomness is true: every character is as likely
\* as any other, the number of passwords counted is that of the values the loop can
\* return, and a passphrase has the entropy it claims: exactly, when the separator
\* keeps its words apart, or at least (password.ts), for all classes, lengths, word
\* lists and separators.
THEOREM EntropyTrue == Spec => []EntropyIsTrue
<1>1. Init => ClaimInv
  BY DEF Init, CallInit, ClaimInv
<1>2. RuntimeInv /\ ClaimInv /\ [Next]_callVars => ClaimInv'
  BY ClaimStep
<1>3. ClaimInv => ClaimIsTrue
  BY ClaimedIs DEF ClaimInv, ClaimTrue
<1>4. Spec => []ClaimIsTrue
  BY <1>1, <1>2, <1>3, RuntimeCorrect, PTL DEF Spec
<1>5. DrawsAreFair /\ ClaimIsTrue => EntropyIsTrue
  BY DEF EntropyIsTrue
<1> QED  BY <1>4, <1>5, PasswordsAreFair, PTL

\* A caller that has aborted is shown no result of any tool, however late its
\* abort was (validated() in runtime.ts).
THEOREM AbortedSeeNothing == Spec => [](phase = "settled" /\ aborted => result.kind = "error")
<1>1. RuntimeInv => (phase = "settled" /\ aborted => result.kind = "error")
  BY DEF RuntimeInv, CallInv
<1> QED  BY <1>1, RuntimeCorrect, PTL
=============================================================================

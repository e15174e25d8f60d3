-------------------------- MODULE PasswordGenerator --------------------------
(***************************************************************************)
(* The password and passphrase generator (password.ts): values drawn from  *)
(* random words, and the entropy the tool claims for them.  The claim is   *)
(* kept as the number of possibilities whose logarithm is shown.           *)
(***************************************************************************)
EXTENDS ToolCall, FiniteSetsExt, SequencesExt, Integers

CONSTANTS
    WordValues,     \* 0x1_0000_0000: values of a random 32-bit word
    MaxWord         \* 8: the length of the longest word in the list

ASSUME WordAssumption == {WordValues, MaxWord} \subseteq Nat \ {0}

\* The power that ** and Math.log2 are used for.
Pow(base, n) ==
    LET power[i \in 0..n] == IF i = 0 THEN 1 ELSE base * power[i - 1] IN power[n]

-----------------------------------------------------------------------------
(* Passwords: input.sizes are the sizes of the classes that were chosen    *)

Total(sizes) == SumFunction(sizes)

\* Mutant of Bound: no sample is thrown away.
BoundNone(size) == WordValues

\* Samples from here on are thrown away by randomIndex().
Bound(size) == (WordValues \div size) * size

\* The class of the character at an index of the alphabet, which is the classes
\* one after the other.
ClassAt(sizes, index) ==
    CHOOSE c \in DOMAIN sizes :
        /\ index >= Total(SubSeq(sizes, 1, c - 1)) /\ index < Total(SubSeq(sizes, 1, c))

EachClass(sizes, value) == {ClassAt(sizes, value[i]) : i \in DOMAIN value} = DOMAIN sizes

\* Inclusion and exclusion over the classes that are missing.
ValidCount(sizes, length) ==
    SumFunction([missing \in SUBSET DOMAIN sizes |->
        (IF Cardinality(missing) % 2 = 0 THEN 1 ELSE -1)
        * Pow(Total(sizes) - SumFunctionOnSet(sizes, missing), length)])

Possibilities ==
    IF input.eachClass THEN ValidCount(input.sizes, input.length) ELSE Pow(Total(input.sizes), input.length)

PasswordStart == Begun("password") /\ Proceed(<<>>)

\* One random word: too high a sample is drawn again.
Draw(sample) ==
    /\ Working("password")
    /\ Len(work) < input.length
    /\ sample < Bound(Total(input.sizes))
    /\ Proceed(Append(work, sample % Total(input.sizes)))

\* A whole value: it is thrown away if a class is missing from it.
Drawn ==
    /\ Working("password")
    /\ Len(work) = input.length
    /\ IF input.eachClass /\ ~EachClass(input.sizes, work) THEN Proceed(<<>>)
       ELSE Leave(Data([value |-> work, possibilities |-> Possibilities]))

-----------------------------------------------------------------------------
(* Passphrases: input.list is the word list.  A character is a number, 0   *)
(* for no letter, n for a small letter and -n for its capital.             *)

Word(word) == IF input.capitalize THEN <<-word[1]>> \o Tail(word) ELSE word
Joined(words) ==
    LET text[n \in 1..Len(words)] ==
            IF n = 1 THEN Word(words[1]) ELSE text[n - 1] \o input.separator \o Word(words[n])
    IN  text[Len(words)]

\* The claim is that of `claim' possibilities divided by `over', but of one at least.
Passphrase ==
    /\ Begun("passphrase")
    /\ LET delimited == \E i \in DOMAIN input.separator : input.separator[i] = 0
       IN  Leave(Data([exact |-> delimited, claim |-> Pow(Cardinality(input.list), input.words),
                       over |-> IF delimited THEN 1 ELSE Pow(MaxWord, input.words - 1)]))

-----------------------------------------------------------------------------

\* What the schema lets through: some class is chosen, and all of them together are
\* far smaller than a random word.  The words of the list have small letters only.
Drawable(r) ==
    /\ r.sizes \in Seq(Nat) /\ Total(r.sizes) \in 1..WordValues
    /\ r.length \in Nat /\ r.eachClass \in BOOLEAN
Joinable(r) ==
    /\ IsFiniteSet(r.list) /\ r.words \in Nat \ {0}
    /\ \A word \in r.list : word \in Seq(Nat \ {0}) /\ Len(word) \in 1..MaxWord
    /\ r.separator \in Seq(Int) /\ r.capitalize \in BOOLEAN

\* The random words that choose an index, and the values the loop can return.
Hits(size, index) == {s \in 0..(Bound(size) - 1) : s % size = index}
Returned(r) ==
    {v \in [1..r.length -> 0..(Total(r.sizes) - 1)] : r.eachClass => EachClass(r.sizes, v)}

\* Every index is hit by equally many random words, and every value has the classes
\* it must have (randomIndex() and the loop in password.ts).
DrawsAreFair ==
    phase = "handled" /\ input.tool = "password" =>
        /\ result.data.value \in Returned(input)
        /\ \A index \in 0..(Total(input.sizes) - 1) :
              LET hits == Cardinality(Hits(Total(input.sizes), index))
              IN  hits = Cardinality(Hits(Total(input.sizes), 0)) /\ hits > 0

\* The number of possibilities is that of the values the loop can return; a
\* passphrase called exact is told apart from every other choice of words, and
\* one that may not be has at least the possibilities claimed (password.ts).
ClaimIsTrue ==
    phase = "handled" =>
        /\ input.tool = "password" => result.data.possibilities = Cardinality(Returned(input))
        /\ input.tool = "passphrase" =>
              LET texts == {Joined(words) : words \in [1..input.words -> input.list]}
              IN  IF result.data.exact THEN Cardinality(texts) = result.data.claim
                  ELSE Cardinality(texts) * result.data.over >= result.data.claim

\* What the tool says of its randomness is true (password.ts): no character is
\* likelier than another, and the entropy it shows is there.
EntropyIsTrue == DrawsAreFair /\ ClaimIsTrue

=============================================================================

----------------------------- MODULE Conversions -----------------------------
(***************************************************************************)
(* The tools that convert between two notations: Base64 (bytes.ts,         *)
(* encoding.ts), epoch times (time.ts) and file modes (chmod.ts).          *)
(***************************************************************************)
EXTENDS ToolCall, SequencesExt, Integers

CONSTANTS
    Utf8,               \* the sequences of bytes that TextDecoder accepts
    MaxMillis,          \* the range of Date
    FirstYear, LastYear \* the first and the last millisecond of the years 0000 to 9999

-----------------------------------------------------------------------------
(* Base64.  A text is its digits, 0..63, the number of '=' after them and  *)
(* the alphabet that digits 62 and 63 are written in.                      *)

\* encodeBase64() without padding.
Digits(bytes) ==
    LET Byte(i) == IF i <= Len(bytes) THEN bytes[i] ELSE 0
        Digit(d) ==     \* digit d, from 0, of its group of three bytes
            LET first == 3 * (d \div 4)
            IN  CASE d % 4 = 0 -> Byte(first + 1) \div 4
                  [] d % 4 = 1 -> (Byte(first + 1) % 4) * 16 + Byte(first + 2) \div 16
                  [] d % 4 = 2 -> (Byte(first + 2) % 16) * 4 + Byte(first + 3) \div 64
                  [] d % 4 = 3 -> Byte(first + 3) % 64
    IN  [i \in 1..((4 * Len(bytes) + 2) \div 3) |-> Digit(i - 1)]

Needed(digits) == (4 - (Len(digits) % 4)) % 4

Encoded(bytes, alphabet, padding) ==
    [digits |-> Digits(bytes), pads |-> IF padding THEN Needed(Digits(bytes)) ELSE 0, alphabet |-> alphabet]

\* External: atob(), which drops the bits that do not fill a byte.
Bytes(digits) ==
    [i \in 1..((3 * Len(digits)) \div 4) |->
        LET first == 4 * ((i - 1) \div 3)
            Digit(d) == IF first + d <= Len(digits) THEN digits[first + d] ELSE 0
        IN  CASE i % 3 = 1 -> Digit(1) * 4 + Digit(2) \div 16
              [] i % 3 = 2 -> (Digit(2) % 16) * 16 + Digit(3) \div 4
              [] i % 3 = 0 -> (Digit(3) % 4) * 64 + Digit(4)]

\* Mutant of Refused: the bits that are left over are not looked at.
RefusedLoosely(text, alphabet) ==
    \/ text.pads > 2 \/ Len(text.digits) % 4 = 1
    \/ \E i \in DOMAIN text.digits : text.digits[i] > 61 /\ text.alphabet # alphabet
    \/ text.pads > 0 /\ text.pads # Needed(text.digits)

\* decodeBase64() refuses a foreign digit, a wrong length or padding, and digits
\* that the bytes would not be encoded to again.
Refused(text, alphabet) ==
    \/ text.pads > 2 \/ Len(text.digits) % 4 = 1
    \/ \E i \in DOMAIN text.digits : text.digits[i] > 61 /\ text.alphabet # alphabet
    \/ text.pads > 0 /\ text.pads # Needed(text.digits)
    \/ Digits(Bytes(text.digits)) # text.digits

NotUtf8(bytes) == bytes \notin Utf8

Base64 ==
    /\ Begun("base64")
    /\ Leave(IF input.encode THEN Data(Encoded(input.bytes, input.alphabet, input.padding))
             ELSE IF Refused(input.text, input.alphabet) \/ (input.utf8 /\ NotUtf8(Bytes(input.text.digits)))
             THEN Fault("INVALID_INPUT")
             ELSE Data(Bytes(input.text.digits)))

-----------------------------------------------------------------------------
(* Epoch times.  A number is its sign, its whole part and the digits of    *)
(* its fraction.                                                           *)

\* epochMillis(): the fraction is padded to three digits.
Millis(number, unit) ==
    LET Digit(i) == IF i <= Len(number.fraction) THEN number.fraction[i] ELSE 0
        size == IF unit = "milliseconds" THEN number.whole
                ELSE number.whole * 1000 + Digit(1) * 100 + Digit(2) * 10 + Digit(3)
    IN  IF number.negative THEN -size ELSE size

\* secondsString(): zeros at the end of the fraction are dropped.
Seconds(millis) ==
    LET size == IF millis < 0 THEN -millis ELSE millis
        three == <<(size % 1000) \div 100, (size % 100) \div 10, size % 10>>
        kept == CHOOSE n \in 0..3 : (n = 0 \/ three[n] # 0) /\ \A i \in (n + 1)..3 : three[i] = 0
    IN  [negative |-> millis < 0, whole |-> size \div 1000, fraction |-> SubSeq(three, 1, kept)]

\* zonedInstant() knows no year beyond four digits and no offset with seconds.
Epoch ==
    /\ Begun("epoch")
    /\ LET millis == Millis(input.number, input.unit)
       IN  \/ Leave(IF millis > MaxMillis \/ millis < -MaxMillis THEN Fault("INVALID_INPUT")
                    ELSE IF millis \notin FirstYear..LastYear THEN Fault("UNSUPPORTED")
                    ELSE Data([seconds |-> Seconds(millis), milliseconds |-> millis]))
           \/ millis \in FirstYear..LastYear /\ Leave(Fault("UNSUPPORTED"))

-----------------------------------------------------------------------------
(* File modes.  A mode is the set of its bits, <<who, permission>>; "bit"  *)
(* is setuid, setgid or the sticky bit.                                    *)

Who == {"u", "g", "o"}
Named(clause, who) ==
    {<<who, p>> : p \in clause.permissions \cap {"r", "w", "x"}}
    \cup IF (IF who = "o" THEN "t" ELSE "s") \in clause.permissions THEN {<<who, "bit">>} ELSE {}

Apply(mode, clause) ==
    LET bits == UNION {Named(clause, who) : who \in clause.targets}
    IN  CASE clause.operator = "+" -> mode \cup bits
          [] clause.operator = "-" -> mode \ bits
          [] clause.operator = "=" -> (mode \ (clause.targets \X {"r", "w", "x", "bit"})) \cup bits

\* The nine letters: for each of owner, group and others whether it reads and
\* writes, and one letter for "executes" and the bit.
Letters(mode) ==
    [who \in Who |->
        [read |-> <<who, "r">> \in mode, write |-> <<who, "w">> \in mode,
         last |-> LET bit == IF who = "o" THEN "t" ELSE "s"
                      capital == IF who = "o" THEN "T" ELSE "S"
                  IN  IF <<who, "bit">> \in mode THEN IF <<who, "x">> \in mode THEN bit ELSE capital
                      ELSE IF <<who, "x">> \in mode THEN "x" ELSE "-"]]

\* The loop over the clauses.
ModeAfter(base, clauses) ==
    LET after[n \in 0..Len(clauses)] == IF n = 0 THEN base ELSE Apply(after[n - 1], clauses[n])
    IN  after[Len(clauses)]

Chmod ==
    /\ Begun("chmod")
    /\ LET mode == ModeAfter(input.base, input.clauses)
       IN  Leave(Data([mode |-> mode, letters |-> Letters(mode)]))

-----------------------------------------------------------------------------
(* What the converters are for                                             *)

\* The number that a fraction is the digits of, and the power of ten it is over.
Power(n) == <<1, 10, 100, 1000>>[n + 1]
Value(digits) ==
    LET upTo[n \in 0..Len(digits)] == IF n = 0 THEN 0 ELSE 10 * upTo[n - 1] + digits[n]
    IN  upTo[Len(digits)]

\* What the schemas of these tools let through.
Convertible(r) ==
    CASE r.tool = "base64" ->
            /\ r.alphabet \in {"standard", "url-safe"}
            /\ r.encode => r.bytes \in Seq(0..255) /\ r.padding \in BOOLEAN
            /\ ~r.encode => /\ r.text \in [digits : Seq(0..63), pads : Nat, alphabet : {"standard", "url-safe"}]
                           /\ r.utf8 \in BOOLEAN
      [] r.tool = "epoch" ->
            /\ r.number \in [negative : BOOLEAN, whole : Nat, fraction : Seq(0..9)]
            /\ Len(r.number.fraction) <= 3
            /\ r.unit = "seconds" \/ (r.unit = "milliseconds" /\ r.number.fraction = <<>>)
      [] r.tool = "chmod" ->
            /\ r.base \subseteq Who \X {"r", "w", "x", "bit"}
            /\ r.clauses \in Seq([targets : SUBSET Who, operator : {"+", "-", "="},
                                  permissions : SUBSET {"r", "w", "x", "s", "t"}])

\* What the converters print is what was meant, at every edge.  Base64 is refused
\* exactly when it is no encoding, padded or not, of the bytes it stands for, and
\* what is encoded is decoded to the same bytes.  The seconds and milliseconds of
\* an epoch are one number, also a negative or a fractional one, the seconds in
\* their shortest form.  Each bit of a mode is what the last clause that touches it
\* says, or else the base, and the letters tell all twelve bits.
Base64IsExact ==
    LET raw == input.text.digits
        Over == IF Len(raw) % 4 = 2 THEN 16 ELSE IF Len(raw) % 4 = 3 THEN 4 ELSE 1
        canonical == /\ Len(raw) % 4 # 1
                     /\ raw # <<>> => raw[Len(raw)] % Over = 0
                     /\ input.text.pads = 0 \/ (input.text.pads < 3 /\ (input.text.pads + Len(raw)) % 4 = 0)
                     /\ input.text.alphabet = input.alphabet \/ \A i \in DOMAIN raw : raw[i] < 62
    IN  IF input.encode
        THEN ~Refused(result.data, input.alphabet) /\ Bytes(result.data.digits) = input.bytes
        ELSE IF result.kind = "result"
        THEN canonical /\ input.text \in {[Encoded(result.data, input.alphabet, p) EXCEPT !.alphabet = input.text.alphabet] : p \in BOOLEAN}
        ELSE ~canonical \/ (input.utf8 /\ NotUtf8(Bytes(raw)))

EpochIsExact ==
    result.kind = "result" =>
        LET n == input.number
            thousandths == IF input.unit = "seconds" THEN 1000 ELSE 1
            s == result.data.seconds
        IN  /\ Millis(s, "seconds") = result.data.milliseconds
            /\ s.negative => result.data.milliseconds < 0
            /\ s.fraction # <<>> => s.fraction[Len(s.fraction)] # 0
            /\ result.data.milliseconds * Power(Len(n.fraction))
               = (IF n.negative THEN -1 ELSE 1) * thousandths
                 * (n.whole * Power(Len(n.fraction)) + Value(n.fraction))

ModeIsExact ==
    LET Touches(c, bit) ==
            bit[1] \in c.targets /\ (c.operator = "=" \/ bit \in Named(c, bit[1]))
        Meant(bit) ==
            LET touching == {i \in DOMAIN input.clauses : Touches(input.clauses[i], bit)}
            IN  IF touching = {} THEN bit \in input.base
                ELSE LET c == input.clauses[CHOOSE i \in touching : \A j \in touching : j <= i]
                     IN  c.operator # "-" /\ bit \in Named(c, bit[1])
        Shown(bit) ==
            LET l == result.data.letters[bit[1]]
            IN  CASE bit[2] = "r" -> l.read
                  [] bit[2] = "w" -> l.write
                  [] bit[2] = "x" -> l.last \in {"x", "s", "t"}
                  [] bit[2] = "bit" -> l.last \notin {"x", "-"}
    IN  \A bit \in Who \X {"r", "w", "x", "bit"} :
            (bit \in result.data.mode <=> Meant(bit)) /\ (Shown(bit) <=> Meant(bit))

ConversionsAreExact ==
    phase = "handled" =>
        /\ input.tool = "base64" => Base64IsExact
        /\ input.tool = "epoch" => EpochIsExact
        /\ input.tool = "chmod" => ModeIsExact

=============================================================================

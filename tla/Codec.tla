-------------------------------- MODULE Codec --------------------------------
(***************************************************************************)
(* The pure functions of utils/helper.h: strpos, base62 of numbers, base64 *)
(* of bytes, and the rmid made of two numbers in base62.                   *)
(*                                                                         *)
(* A character is its code.  In base64 texts a character is its place in   *)
(* base64_chars, and Pad, '=', is none of them.  base62_encode finds the   *)
(* number of digits with logarithms in doubles, which are exact for every  *)
(* number of the size that occurs but two: the quotient for 62^3 and 62^6  *)
(* comes out just below 3 and 6.                                           *)
(***************************************************************************)
EXTENDS Integers, SequencesExt

CONSTANT BASE_STRING    \* the digits (62 of them in the program)

ASSUME DigitsAssumption ==
    BASE_STRING \in Seq(Nat) /\ IsInjective(BASE_STRING) /\ Len(BASE_STRING) > 1

Base == Len(BASE_STRING)
npos == -1

\* Positions count from 0, as in the program.
strpos(haystack, needle) ==
    LET hits == {i \in 0 .. Len(haystack) - Len(needle) :
                   SubSeq(haystack, i + 1, i + Len(needle)) = needle}
    IN  IF needle = <<>> \/ hits = {} THEN npos ELSE Min(hits)

\* pow(62, t).
Pow[t \in Nat] == IF t = 0 THEN 1 ELSE Base * Pow[t - 1]

\* floor(log10(num) / log10(62)), and -1 for the minus infinity of num = 0.
TopPlace(num) ==
    IF num = 0 THEN -1
    ELSE IF num \in {Pow[3], Pow[6]} THEN CHOOSE t \in 2 .. 5 : Pow[t + 1] = num
    ELSE CHOOSE t \in 0 .. num : Pow[t] <= num /\ num < Pow[t + 1]

\* substr(a, 1) is the digit, or nothing when a is the length of the alphabet.
Digit(a) == IF a < Base THEN <<BASE_STRING[a + 1]>> ELSE <<>>

PutDigit(state, t) ==
    LET a == state.num \div Pow[t]
    IN  [num |-> state.num - a * Pow[t], out |-> state.out \o Digit(a)]

Downwards(top) == [n \in 1 .. top + 1 |-> top + 1 - n]

base62_encode(num) ==
    FoldLeft(PutDigit, [num |-> num, out |-> <<>>], Downwards(TopPlace(num))).out

AddDigit(sum, c) == sum * Base + strpos(BASE_STRING, <<c>>)

\* The sum of the digits by their weights.
base62_decode(str) == FoldLeft(AddDigit, 0, str)

\* Milliseconds since 1970 and a number between 10000 and 50000.
createRmidCookie(ms, random) == base62_encode(ms) \o base62_encode(random)

------------------------------------------------------------------------------
(* base64 *)

Pad == 64

is_base64(c) == c \in 0 .. 63

Sextets(b1, b2, b3) ==
    <<b1 \div 4, (b1 % 4) * 16 + b2 \div 16, (b2 % 16) * 4 + b3 \div 64, b3 % 64>>

\* With the width of unsigned char.
Octets(c1, c2, c3, c4) ==
    <<(c1 * 4 + ((c2 \div 16) % 4)) % 256,
      ((c2 % 16) * 16 + ((c3 \div 4) % 16)) % 256,
      ((c3 % 4) * 64 + c4) % 256>>

base64_encode(bytes) ==
    LET i    == Len(bytes) % 3
        full == Len(bytes) \div 3
        b(n) == IF n <= Len(bytes) THEN bytes[n] ELSE 0
        group(k) == Sextets(b(3 * k - 2), b(3 * k - 1), b(3 * k))
    IN  FlattenSeq([k \in 1 .. full |-> group(k)])
          \o (IF i = 0 THEN <<>>
              ELSE SubSeq(group(full + 1), 1, i + 1) \o [n \in 1 .. 3 - i |-> Pad])

\* Mutant: the last group gives as many bytes as it has characters.
TailBytesAll(i) == i

TailBytes(i) == i - 1

\* Decoding ends at the first character that is not one of base64.  The characters a
\* last group lacks are looked up as '\0', not found, and npos is cut to 255.
base64_decode(text) ==
    LET ends == {n \in 1 .. Len(text) : ~is_base64(text[n])}
        len  == IF ends = {} THEN Len(text) ELSE Min(ends) - 1
        i    == len % 4
        full == len \div 4
        c(n) == IF n <= len THEN text[n] ELSE 255
        group(k) == Octets(c(4 * k - 3), c(4 * k - 2), c(4 * k - 1), c(4 * k))
    IN  FlattenSeq([k \in 1 .. full |-> group(k)])
          \o (IF i = 0 THEN <<>> ELSE SubSeq(group(full + 1), 1, TailBytes(i)))

==============================================================================

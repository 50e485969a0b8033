----------------------------- MODULE MCExchange -----------------------------
(***************************************************************************)
(* An instance of Exchange, and beside it, from the same initial state,    *)
(* the inputs of the pure functions of Codec: a number that is counted up  *)
(* and a text of bytes that grows.                                         *)
(***************************************************************************)
EXTENDS Exchange

CONSTANTS SampleBytes, MaxBytes   \* bytes, and how many of them base64 is tried on

ASSUME SampleAssumption == SampleBytes \subseteq Char /\ MaxBytes \in Nat

VARIABLES num, bytes

\* "vPh", the first digits of BASE_STRING.
MCDigits  == <<118, 80, 104>>

MCKeys    == {<<117>>, <<117, 105>>}                        \* u, ui
MCTexts   == {<<>>, <<120>>, <<61, 38>>, <<32, 37, 43>>}    \* nothing, x, =&, space % +
MCJunk    == {<<>>, <<Eq>>, <<117, 105, 100>>, <<117, Eq, 120, Percent, 52>>,
               <<119, Eq, Percent, 122, 33>>}   \* nothing, =, uid, u=x%4, w=%z!
\* aa, ba and t_42; and an a as long as mapping_ku6.h has room for, and longer.
MCForeign == {<<<<97, 97>>, <<97, Eq, 49>>>>, <<<<98, 97>>, <<50>>>>, <<<<116, 95, 52, 50>>, <<51>>>>}
               \cup {<<A, [n \in 1 .. len |-> 98]>> : len \in {46, 47}}
MCUids    == {<<>>, <<117>>}
MCTimes   == {<<49>>, <<50>>}
MCMs      == {Pow[6] + 1}
MCRandoms == {Pow[2], Pow[3] - 1}
MCPixel   == <<71, 73, 70, 0>>

MCInit == Init /\ num = 0 /\ bytes = <<>>

Sampling == num > 0 \/ bytes # <<>>

Count ==
    /\ vars = <<"page", Path, <<>>, <<>>, <<<<>>>>, <<>>, wire, <<>>, 0>>
    /\ bytes = <<>> /\ num < Pow[7] - 1
    /\ num' = num + 1
    /\ UNCHANGED <<vars, bytes>>

Grow ==
    /\ vars = <<"page", Path, <<>>, <<>>, <<<<>>>>, <<>>, wire, <<>>, 0>>
    /\ num = 0 /\ Len(bytes) < MaxBytes
    /\ \E b \in SampleBytes : bytes' = Append(bytes, b)
    /\ UNCHANGED <<vars, num>>

\* Parameters are put into the first request, which has the cookies of no host in it.
Exchanging ==
    /\ ~Sampling
    /\ Next
    /\ url' # Path => jar' = <<>> /\ exchanges <= 1
    /\ UNCHANGED <<num, bytes>>

MCNext == Exchanging \/ Count \/ Grow

MCSpec == MCInit /\ [][MCNext]_<<vars, num, bytes>>

\* base62 and base64, each against its inverse.  A number comes back, but for the two
\* whose logarithm is rounded down; and every rmid has seven and three digits, as the
\* comments in createRmidCookie say, so that no two pairs of numbers give the same one.
\* Bytes come back whatever the length of the last group, and also when some or all of
\* the padding has been lost.
CodesComeBack ==
    LET text == base64_encode(bytes)
    IN  /\ num \notin {Pow[3], Pow[6]} => base62_decode(base62_encode(num)) = num
        /\ num \in Pow[6] + 1 .. Pow[7] - 1 =>
              \A random \in Randoms :
                 LET rmid == createRmidCookie(num, random)
                 IN  Len(rmid) = 10 /\ RmidOf(rmid) = <<num, random>>
        /\ base64_decode(text) = bytes
        /\ Len(text) % 4 = 0
        /\ \A n \in 0 .. Len(text) :
              (\A m \in n + 1 .. Len(text) : text[m] = Pad) =>
                 base64_decode(SubSeq(text, 1, n)) = bytes

==============================================================================

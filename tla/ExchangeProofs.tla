--------------------------- MODULE ExchangeProofs ---------------------------
(***************************************************************************)
(* Proofs about Exchange and the functions it is made of.                  *)
(***************************************************************************)
EXTENDS MCExchange, SequenceTheorems, FiniteSetTheorems, WellFoundedInduction, TLAPS

------------------------------------------------------------------------------
(* Induction and recursion.  A predicate on numbers is the set of the numbers   *)
(* that satisfy it.                                                             *)

\* A non-empty set of numbers has a least one.
LEMMA LeastNumber ==
    ASSUME NEW B, B \subseteq Nat, B # {}
    PROVE  \E n \in B : \A m \in B : n <= m
<1> DEFINE R == OpToRel(<, Nat)
<1>1. IsWellFoundedOn(R, Nat)
  BY NatLessThanWellFounded
<1>2. PICK n \in B : \A m \in B : ~ (<<m, n>> \in R)
  <2> HIDE DEF R
  <2> QED BY <1>1, WFMin
<1>3. \A m \in B : ~ (m < n)
  BY <1>2 DEF OpToRel
<1> QED
  BY <1>3

\* Induction.
LEMMA Induct ==
    ASSUME NEW S, 0 \in S, \A n \in Nat : n \in S => n + 1 \in S
    PROVE  \A n \in Nat : n \in S
<1> DEFINE B == {n \in Nat : n \notin S}
<1>1. CASE B = {}
  BY <1>1
<1>2. CASE B # {}
  <2>1. PICK n \in B : \A m \in B : n <= m
    <3> HIDE DEF B
    <3>1. B \subseteq Nat
      BY DEF B
    <3> QED
      BY <1>2, <3>1, LeastNumber
  <2>2. n # 0 /\ n - 1 \in Nat /\ n - 1 \notin B
    BY <2>1
  <2> QED
    BY <2>1, <2>2
<1> QED
  BY <1>1, <1>2

\* Induction up to a bound.
LEMMA InductUpTo ==
    ASSUME NEW N \in Nat, NEW S, 0 \in S, \A n \in 0 .. N - 1 : n \in S => n + 1 \in S
    PROVE  \A n \in 0 .. N : n \in S
<1> DEFINE V == {n \in Nat : n <= N => n \in S}
<1>1. 0 \in V
  OBVIOUS
<1>2. \A n \in Nat : n \in V => n + 1 \in V
  OBVIOUS
<1>3. \A n \in Nat : n \in V
  <2> HIDE DEF V
  <2> QED BY <1>1, <1>2, Induct
<1> QED
  BY <1>3

\* Induction from the end to the beginning.
LEMMA InductBack ==
    ASSUME NEW N \in Nat, NEW S,
           \A p \in 1 .. N : (\A q \in p + 1 .. N : q \in S) => p \in S
    PROVE  \A p \in 1 .. N : p \in S
<1> DEFINE B == {k \in 0 .. N - 1 : N - k \notin S}
<1>1. CASE B = {}
  <2>1. \A p \in 1 .. N : N - p \in 0 .. N - 1 /\ N - (N - p) = p
    OBVIOUS
  <2> QED BY <1>1, <2>1
<1>2. CASE B # {}
  <2>1. PICK k \in B : \A m \in B : k <= m
    <3>1. B \subseteq Nat
      OBVIOUS
    <3> HIDE DEF B
    <3> QED BY <1>2, <3>1, LeastNumber
  <2> DEFINE p == N - k
  <2>2. p \in 1 .. N /\ p \notin S
    BY <2>1
  <2>3. \A q \in p + 1 .. N : N - q \in 0 .. N - 1 /\ N - (N - q) = q /\ ~ (k <= N - q)
    BY <2>1
  <2>4. \A q \in p + 1 .. N : q \in S
    BY <2>1, <2>3
  <2> QED BY <2>2, <2>4
<1> QED
  BY <1>1, <1>2

\* Min and Max of a set of numbers.
LEMMA MinOf ==
    ASSUME NEW s, s \subseteq Nat, s # {}
    PROVE  Min(s) \in s /\ \A y \in s : Min(s) <= y
<1>1. \E x \in s : \A y \in s : x <= y
  BY LeastNumber
<1> QED
  BY <1>1 DEF Min

LEMMA MaxOf ==
    ASSUME NEW n \in Nat, NEW s \in SUBSET (1 .. n), s # {}
    PROVE  Max(s) \in s /\ \A y \in s : y <= Max(s)
<1> DEFINE B == {n - y : y \in s}
<1>1. B \subseteq Nat /\ B # {}
  <2>1. PICK y : y \in s
    OBVIOUS
  <2>2. n - y \in B
    BY <2>1
  <2>3. \A z \in s : n - z \in Nat
    OBVIOUS
  <2> QED
    BY <2>2, <2>3
<1>2. PICK m \in B : \A k \in B : m <= k
  <2> HIDE DEF B
  <2> QED BY <1>1, LeastNumber
<1>3. PICK x \in s : m = n - x
  BY <1>2
<1>4. ASSUME NEW y \in s PROVE x >= y
  <2>1. n - y \in B
    OBVIOUS
  <2>2. m <= n - y
    BY <1>2, <2>1
  <2> QED
    BY <1>3, <2>2
<1>5. \E z \in s : \A y \in s : z >= y
  BY <1>4
<1>6. Max(s) \in s /\ \A y \in s : Max(s) >= y
  BY <1>5 DEF Max
<1> QED
  BY <1>6

\* Of the numbers up to k, k is the greatest, and the others are those up to k - 1.
LEMMA MaxOfInterval ==
    ASSUME NEW k \in Nat, k > 0
    PROVE  Max(1 .. k) = k /\ (1 .. k) \ {k} = 1 .. k - 1
<1>1. Max(1 .. k) \in 1 .. k /\ \A y \in 1 .. k : y <= Max(1 .. k)
  <2>1. 1 .. k \in SUBSET (1 .. k) /\ k \in 1 .. k
    OBVIOUS
  <2>2. 1 .. k # {}
    BY <2>1
  <2> QED
    BY <2>1, <2>2, MaxOf
<1> QED
  BY <1>1

\* The recursion of FoldLeft is well defined: it takes the greatest index first.
Steps(n, X) == [1 .. n -> [X -> X]]
IsFold(f, n, X, base, H) ==
    /\ f \in [SUBSET (1 .. n) -> X]
    /\ \A s \in SUBSET (1 .. n) :
          f[s] = IF s = {} THEN base ELSE H[Max(s)][f[s \ {Max(s)}]]

LEMMA FoldExists ==
    ASSUME NEW n \in Nat, NEW X, NEW base \in X, NEW H \in Steps(n, X)
    PROVE  \E f : IsFold(f, n, X, base, H)
<1> USE DEF Steps, IsFold
<1> DEFINE Good(k, f) == /\ f \in [SUBSET (1 .. k) -> X]
                         /\ \A s \in SUBSET (1 .. k) :
                              f[s] = IF s = {} THEN base ELSE H[Max(s)][f[s \ {Max(s)}]]
           S == {k \in 0 .. n : \E f : Good(k, f)}
<1>1. 0 \in S
  <2> DEFINE f == [s \in SUBSET (1 .. 0) |-> base]
  <2>1. \A s \in SUBSET (1 .. 0) : s = {}
    OBVIOUS
  <2>2. Good(0, f)
    BY <2>1
  <2> HIDE DEF Good, f
  <2> QED
    BY <2>2
<1>2. ASSUME NEW k \in 0 .. n - 1, k \in S PROVE k + 1 \in S
  <2> DEFINE j == k + 1
  <2>1. PICK f : Good(k, f)
    BY <1>2
  <2> DEFINE g == [s \in SUBSET (1 .. j) |-> IF j \in s THEN H[j][f[s \ {j}]] ELSE f[s]]
  <2>2. j \in 1 .. n /\ \A s \in SUBSET (1 .. j) : s \ {j} \in SUBSET (1 .. k)
    OBVIOUS
  <2>3. \A s \in SUBSET (1 .. j) : j \notin s => s \in SUBSET (1 .. k)
    OBVIOUS
  <2>4. g \in [SUBSET (1 .. j) -> X]
    BY <2>1, <2>2, <2>3
  <2>5. ASSUME NEW s \in SUBSET (1 .. j)
        PROVE  g[s] = IF s = {} THEN base ELSE H[Max(s)][g[s \ {Max(s)}]]
    <3>1. CASE j \in s
      <4>1. Max(s) = j
        <5>1. s # {} /\ j \in Nat
          BY <3>1
        <5>2. Max(s) \in s /\ \A y \in s : y <= Max(s)
          BY <5>1, MaxOf
        <5>3. Max(s) \in 1 .. j /\ j <= Max(s)
          BY <3>1, <5>2
        <5> QED
          BY <5>3
      <4>2. s \ {j} \in SUBSET (1 .. j) /\ j \notin s \ {j}
        OBVIOUS
      <4>3. g[s \ {j}] = f[s \ {j}] /\ g[s] = H[j][f[s \ {j}]]
        BY <3>1, <4>2
      <4> QED
        BY <3>1, <4>1, <4>3
    <3>2. CASE j \notin s
      <4>1. g[s] = f[s] /\ s \in SUBSET (1 .. k)
        BY <2>3, <3>2
      <4>2. CASE s = {}
        BY <2>1, <4>1, <4>2
      <4>3. CASE s # {}
        <5> DEFINE m == Max(s)
        <5>1. s \ {m} \in SUBSET (1 .. k) /\ s \ {m} \in SUBSET (1 .. j) /\ j \notin s \ {m}
          BY <3>2, <4>1
        <5>2. g[s \ {m}] = f[s \ {m}]
          BY <5>1
        <5>3. f[s] = H[m][f[s \ {m}]]
          BY <2>1, <4>1, <4>3
        <5> HIDE DEF m
        <5>4. g[s] = H[m][g[s \ {m}]]
          BY <4>1, <5>2, <5>3
        <5> QED
          BY <4>3, <5>4 DEF m
      <4> QED
        BY <4>2, <4>3
    <3> QED
      BY <3>1, <3>2
  <2>6. Good(j, g)
    <3> HIDE DEF g
    <3> QED BY <2>4, <2>5
  <2> HIDE DEF Good, g
  <2> QED
    BY <2>6
<1>3. \A k \in 0 .. n : k \in S
  <2> HIDE DEF S
  <2> QED BY <1>1, <1>2, InductUpTo
<1>4. PICK f : Good(n, f)
  <2> HIDE DEF Good
  <2> QED BY <1>3
<1> QED
  BY <1>4

\* A walk that goes on to a later place each time it does not stop is well defined.
IsWalk(f, n, X, stop, val, nxt, H) ==
    /\ f \in [1 .. n -> X]
    /\ \A p \in 1 .. n : f[p] = IF p \in stop THEN val[p] ELSE H[p][f[nxt[p]]]

LEMMA WalkExists ==
    ASSUME NEW n \in Nat, NEW X, NEW stop, NEW val, NEW nxt, NEW H,
           \A p \in 1 .. n : p \in stop => val[p] \in X,
           \A p \in 1 .. n : p \notin stop => nxt[p] \in p + 1 .. n /\ H[p] \in [X -> X]
    PROVE  \E f : IsWalk(f, n, X, stop, val, nxt, H)
<1> DEFINE Good(k, f) == /\ f \in [n - k + 1 .. n -> X]
                         /\ \A p \in n - k + 1 .. n :
                              f[p] = IF p \in stop THEN val[p] ELSE H[p][f[nxt[p]]]
           S == {k \in 0 .. n : \E f : Good(k, f)}
<1>1. 0 \in S
  <2> DEFINE f == [p \in n - 0 + 1 .. n |-> 0]
  <2>1. Good(0, f)
    OBVIOUS
  <2> QED
    BY <2>1
<1>2. ASSUME NEW k \in 0 .. n - 1, k \in S PROVE k + 1 \in S
  <2>1. PICK f : Good(k, f)
    BY <1>2
  <2> DEFINE q == n - k
             g == [p \in q .. n |-> IF p = q THEN IF q \in stop THEN val[q] ELSE H[q][f[nxt[q]]]
                                    ELSE f[p]]
  <2>2. q \in 1 .. n /\ n - (k + 1) + 1 = q /\ n - k + 1 = q + 1
    OBVIOUS
  <2>3. g \in [q .. n -> X]
    BY <2>1, <2>2
  <2>4. \A p \in q + 1 .. n : g[p] = f[p]
    BY <2>2
  <2>5. ASSUME NEW p \in q .. n
        PROVE  g[p] = IF p \in stop THEN val[p] ELSE H[p][g[nxt[p]]]
    <3>1. p \notin stop => nxt[p] \in q + 1 .. n
      BY <2>2
    <3>2. p \notin stop => g[nxt[p]] = f[nxt[p]]
      BY <2>4, <3>1
    <3>3. CASE p = q
      BY <3>2, <3>3
    <3>4. CASE p # q
      <4>1. p \in q + 1 .. n
        BY <2>2, <3>4
      <4>2. g[p] = f[p] /\ f[p] = IF p \in stop THEN val[p] ELSE H[p][f[nxt[p]]]
        BY <2>1, <2>2, <2>4, <4>1
      <4> HIDE DEF g
      <4> QED
        BY <3>2, <4>2
    <3> QED
      BY <3>3, <3>4
  <2>6. Good(k + 1, g)
    <3> HIDE DEF g
    <3> QED BY <2>2, <2>3, <2>5
  <2> HIDE DEF Good, g
  <2> QED
    BY <2>6
<1>3. \A k \in 0 .. n : k \in S
  <2> HIDE DEF S
  <2> QED BY <1>1, <1>2, InductUpTo
<1>4. PICK f : Good(n, f)
  BY <1>3
<1>5. n - n + 1 = 1
  OBVIOUS
<1> QED
  BY <1>4, <1>5 DEF IsWalk

------------------------------------------------------------------------------
(* The jar: setCookie, add_header and send_headers *)

\* The line a handler makes of a call.
Line(c) == setCookie(c.name, c.value, Lifetime, c.attrs, FALSE)

Jars ==
    {f \in UNION {[D -> CookieText] : D \in SUBSET CookieName} :
       IsFiniteSet(DOMAIN f) /\ (A \in DOMAIN f => f[A] # <<>>)}

Calls ==
    {c \in [name : CookieName, value : CookieText, attrs : SUBSET Domain] :
       c.name = A => c.value # <<>>}

LEMMA JarIs ==
    ASSUME NEW f \in Jars
    PROVE  /\ f = [x \in DOMAIN f |-> f[x]] /\ IsFiniteSet(DOMAIN f)
           /\ DOMAIN f \subseteq CookieName /\ \A x \in DOMAIN f : f[x] \in CookieText
           /\ A \in DOMAIN f => f[A] # <<>>
BY DEF Jars

LEMMA JarIf ==
    ASSUME NEW D \in SUBSET CookieName, NEW f \in [D -> CookieText], IsFiniteSet(D),
           A \in D => f[A] # <<>>
    PROVE  f \in Jars
BY DEF Jars

\* A call keeps a jar a jar.
LEMMA PutKeepsJar ==
    ASSUME NEW f \in Jars, NEW c \in Calls
    PROVE  Put(f, c) \in Jars
<1>0. /\ c.name \in CookieName /\ c.value \in CookieText /\ (c.name = A => c.value # <<>>)
  BY DEF Calls
<1>1. CASE c.value = <<>>
  <2> DEFINE D == DOMAIN f \ {c.name}
             g == [x \in D |-> f[x]]
  <2>1. IsFiniteSet(D) /\ D \in SUBSET CookieName
    BY JarIs, FS_Subset
  <2>2. g \in [D -> CookieText] /\ (A \in D => g[A] # <<>>)
    BY JarIs
  <2>3. Put(f, c) = g
    BY <1>1 DEF Put, Restrict
  <2> HIDE DEF D, g
  <2> QED
    BY <2>1, <2>2, <2>3, JarIf
<1>2. CASE c.value # <<>>
  <2> DEFINE D == {c.name} \cup DOMAIN f
             g == [x \in D |-> IF x = c.name THEN c.value ELSE f[x]]
  <2>1. IsFiniteSet(D)
    BY JarIs, FS_AddElement
  <2>2. g \in [D -> CookieText] /\ (A \in D => g[A] # <<>>) /\ D \in SUBSET CookieName
    BY JarIs, <1>0, <1>2
  <2>3. Put(f, c) = g
    BY <1>2 DEF Put, Assign
  <2> HIDE DEF D, g
  <2> QED
    BY <2>1, <2>2, <2>3, JarIf
<1> QED
  BY <1>1, <1>2

\* A browser does with the line of a call what the call means.
LEMMA LineIsCall ==
    ASSUME NEW f, NEW c \in Calls
    PROVE  Store(f, Line(c)) = Put(f, c)
<1>1. c.name # <<>> /\ Lifetime \in Nat /\ ~ (Lifetime > MaxExpire) /\ MaxExpire \in Nat
  BY AnswerAssumption, ExpireAssumption DEF Calls, CookieName
<1> QED
  BY <1>1 DEF Store, Line, setCookie, Put, Forever

\* The calls one after the other.
LEMMA PutChain ==
    ASSUME NEW f \in Jars, NEW calls \in Seq(Calls)
    PROVE  \E g \in [0 .. Len(calls) -> Jars] :
              /\ g[0] = f /\ FoldLeft(Put, f, calls) = g[Len(calls)]
              /\ \A i \in 1 .. Len(calls) : g[i] = Put(g[i - 1], calls[i])
<1> DEFINE n == Len(calls)
           iter[s \in SUBSET DOMAIN calls] ==
             IF s = {} THEN f ELSE LET x == Max(s) IN Put(iter[s \ {x}], calls[x])
           H == [i \in 1 .. n |-> [c \in Jars |-> Put(c, calls[i])]]
<1>0. n \in Nat /\ DOMAIN calls = 1 .. n /\ \A i \in 1 .. n : calls[i] \in Calls
  OBVIOUS
<1>1. FoldLeft(Put, f, calls) = iter[1 .. n]
  BY <1>0 DEF FoldLeft, MapThenFoldSet
<1>2. PICK h : IsFold(h, n, Jars, f, H)
  <2>1. H \in Steps(n, Jars)
    BY <1>0, PutKeepsJar DEF Steps
  <2> HIDE DEF H, n
  <2> QED
    BY <1>0, <2>1, FoldExists
<1>3. iter = [s \in SUBSET (1 .. n) |->
                IF s = {} THEN f ELSE LET x == Max(s) IN Put(iter[s \ {x}], calls[x])]
  <2>1. ASSUME NEW s \in SUBSET (1 .. n), s # {}
        PROVE  h[s] = Put(h[s \ {Max(s)}], calls[Max(s)])
    <3>1. Max(s) \in 1 .. n
      BY <1>0, <2>1, MaxOf
    <3>2. h[s \ {Max(s)}] \in Jars /\ h[s] = H[Max(s)][h[s \ {Max(s)}]]
      BY <1>2, <2>1 DEF IsFold
    <3> QED
      BY <3>1, <3>2
  <2>2. h = [s \in SUBSET (1 .. n) |->
               IF s = {} THEN f ELSE LET x == Max(s) IN Put(h[s \ {x}], calls[x])]
    BY <1>2, <2>1 DEF IsFold
  <2>3. \E k : k = [s \in SUBSET DOMAIN calls |->
                      IF s = {} THEN f ELSE LET x == Max(s) IN Put(k[s \ {x}], calls[x])]
    BY <1>0, <2>2
  <2> QED
    BY <1>0, <2>3
<1> HIDE DEF iter, H
<1> DEFINE g == [i \in 0 .. n |-> iter[1 .. i]]
           S == {i \in 0 .. n : g[i] \in Jars}
<1>4. g[0] = f
  <2>1. 1 .. 0 = {}
    OBVIOUS
  <2>2. iter[{}] = f
    BY <1>3
  <2> QED
    BY <1>0, <2>1, <2>2
<1>5. ASSUME NEW i \in 1 .. n PROVE g[i] = Put(g[i - 1], calls[i])
  <2>1. i \in Nat /\ i > 0 /\ 1 .. i \in SUBSET (1 .. n) /\ i \in 1 .. i /\ i - 1 \in 0 .. n
    BY <1>0
  <2>2. Max(1 .. i) = i /\ (1 .. i) \ {i} = 1 .. i - 1
    BY <2>1, MaxOfInterval
  <2>3. iter[1 .. i] = Put(iter[1 .. i - 1], calls[i])
    BY <1>3, <2>1, <2>2
  <2> QED
    BY <2>1, <2>3
<1>6. \A i \in 0 .. n : i \in S
  <2>1. 0 \in S
    BY <1>0, <1>4
  <2>2. ASSUME NEW i \in 0 .. n - 1, i \in S PROVE i + 1 \in S
    <3>1. i + 1 \in 1 .. n /\ i + 1 \in 0 .. n /\ (i + 1) - 1 = i /\ g[i] \in Jars
      BY <1>0, <2>2
    <3>2. g[i + 1] = Put(g[i], calls[i + 1]) /\ calls[i + 1] \in Calls
      BY <1>0, <1>5, <3>1
    <3>3. g[i + 1] \in Jars
      <4> HIDE DEF g
      <4> QED BY <3>1, <3>2, PutKeepsJar
    <3> QED
      BY <3>1, <3>3
  <2> HIDE DEF S, n
  <2> QED
    BY <1>0, <2>1, <2>2, InductUpTo
<1>7. g \in [0 .. n -> Jars] /\ FoldLeft(Put, f, calls) = g[n]
  BY <1>0, <1>1, <1>6
<1> QED
  <2> HIDE DEF g
  <2> QED BY <1>4, <1>5, <1>7

Lines == {Line(c) : c \in Calls}

LEMMA StoreKeepsJar ==
    ASSUME NEW f \in Jars, NEW line \in Lines
    PROVE  Store(f, line) \in Jars
BY LineIsCall, PutKeepsJar DEF Lines

\* The lines one after the other.
LEMMA StoreChain ==
    ASSUME NEW f \in Jars, NEW lines \in Seq(Lines)
    PROVE  \E g \in [0 .. Len(lines) -> Jars] :
              /\ g[0] = f /\ FoldLeft(Store, f, lines) = g[Len(lines)]
              /\ \A i \in 1 .. Len(lines) : g[i] = Store(g[i - 1], lines[i])
<1> DEFINE n == Len(lines)
           iter[s \in SUBSET DOMAIN lines] ==
             IF s = {} THEN f ELSE LET x == Max(s) IN Store(iter[s \ {x}], lines[x])
           H == [i \in 1 .. n |-> [c \in Jars |-> Store(c, lines[i])]]
<1>0. n \in Nat /\ DOMAIN lines = 1 .. n /\ \A i \in 1 .. n : lines[i] \in Lines
  OBVIOUS
<1>1. FoldLeft(Store, f, lines) = iter[1 .. n]
  BY <1>0 DEF FoldLeft, MapThenFoldSet
<1>2. PICK h : IsFold(h, n, Jars, f, H)
  <2>1. H \in Steps(n, Jars)
    BY <1>0, StoreKeepsJar DEF Steps
  <2> HIDE DEF H, n
  <2> QED
    BY <1>0, <2>1, FoldExists
<1>3. iter = [s \in SUBSET (1 .. n) |->
                IF s = {} THEN f ELSE LET x == Max(s) IN Store(iter[s \ {x}], lines[x])]
  <2>1. ASSUME NEW s \in SUBSET (1 .. n), s # {}
        PROVE  h[s] = Store(h[s \ {Max(s)}], lines[Max(s)])
    <3>1. Max(s) \in 1 .. n
      BY <1>0, <2>1, MaxOf
    <3>2. h[s \ {Max(s)}] \in Jars /\ h[s] = H[Max(s)][h[s \ {Max(s)}]]
      BY <1>2, <2>1 DEF IsFold
    <3> QED
      BY <3>1, <3>2
  <2>2. h = [s \in SUBSET (1 .. n) |->
               IF s = {} THEN f ELSE LET x == Max(s) IN Store(h[s \ {x}], lines[x])]
    BY <1>2, <2>1 DEF IsFold
  <2>3. \E k : k = [s \in SUBSET DOMAIN lines |->
                      IF s = {} THEN f ELSE LET x == Max(s) IN Store(k[s \ {x}], lines[x])]
    BY <1>0, <2>2
  <2> QED
    BY <1>0, <2>3
<1> HIDE DEF iter, H
<1> DEFINE g == [i \in 0 .. n |-> iter[1 .. i]]
           S == {i \in 0 .. n : g[i] \in Jars}
<1>4. g[0] = f
  <2>1. 1 .. 0 = {}
    OBVIOUS
  <2>2. iter[{}] = f
    BY <1>3
  <2> QED
    BY <1>0, <2>1, <2>2
<1>5. ASSUME NEW i \in 1 .. n PROVE g[i] = Store(g[i - 1], lines[i])
  <2>1. i \in Nat /\ i > 0 /\ 1 .. i \in SUBSET (1 .. n) /\ i \in 1 .. i /\ i - 1 \in 0 .. n
    BY <1>0
  <2>2. Max(1 .. i) = i /\ (1 .. i) \ {i} = 1 .. i - 1
    BY <2>1, MaxOfInterval
  <2>3. iter[1 .. i] = Store(iter[1 .. i - 1], lines[i])
    BY <1>3, <2>1, <2>2
  <2> QED
    BY <2>1, <2>3
<1>6. \A i \in 0 .. n : i \in S
  <2>1. 0 \in S
    BY <1>0, <1>4
  <2>2. ASSUME NEW i \in 0 .. n - 1, i \in S PROVE i + 1 \in S
    <3>1. i + 1 \in 1 .. n /\ i + 1 \in 0 .. n /\ (i + 1) - 1 = i /\ g[i] \in Jars
      BY <1>0, <2>2
    <3>2. g[i + 1] = Store(g[i], lines[i + 1]) /\ lines[i + 1] \in Lines
      BY <1>0, <1>5, <3>1
    <3>3. g[i + 1] \in Jars
      <4> HIDE DEF g
      <4> QED BY <3>1, <3>2, StoreKeepsJar
    <3> QED
      BY <3>1, <3>3
  <2> HIDE DEF S, n
  <2> QED
    BY <1>0, <2>1, <2>2, InductUpTo
<1>7. g \in [0 .. n -> Jars] /\ FoldLeft(Store, f, lines) = g[n]
  BY <1>0, <1>1, <1>6
<1> QED
  <2> HIDE DEF g
  <2> QED BY <1>4, <1>5, <1>7

\* What the headers of a response may hold, and a response.
HeaderNames  == {"Set-Cookie", "Cache-control", "Expires", "Content-Length"}
HeaderValues == Lines \cup {"no-cache,must-revalidate", "0"} \cup Nat
Reps ==
    [status : Nat, headers : UNION {[D -> HeaderValues] : D \in SUBSET HeaderNames},
     cookies : Seq(Lines), type : {"", "image/gif"}, content : Seq(Char)]

\* set_cookie adds the line to the cookies, and puts it under the headers too.
LEMMA AddCookieIs ==
    ASSUME NEW r \in Reps, NEW c \in Calls
    PROVE  /\ AddCookie(r, c) \in Reps
           /\ AddCookie(r, c) = [r EXCEPT !.cookies = Append(@, Line(c)),
                                          !.headers = Assign(@, "Set-Cookie", Line(c))]
<1> DEFINE q == [r EXCEPT !.cookies = Append(@, Line(c)),
                          !.headers = Assign(@, "Set-Cookie", Line(c))]
<1>1. AddCookie(r, c) = q
  BY DEF AddCookie, add_header, Line, Reps
<1>2. Line(c) \in Lines
  BY DEF Lines
<1> HIDE DEF Line
<1>3. PICK D \in SUBSET HeaderNames : r.headers \in [D -> HeaderValues]
  BY DEF Reps
<1>4. Assign(r.headers, "Set-Cookie", Line(c)) \in [{"Set-Cookie"} \cup D -> HeaderValues]
  BY <1>2, <1>3 DEF Assign, HeaderValues
<1>5. Assign(r.headers, "Set-Cookie", Line(c)) \in UNION {[E -> HeaderValues] : E \in SUBSET HeaderNames}
  <2>1. {"Set-Cookie"} \cup D \in SUBSET HeaderNames
    BY DEF HeaderNames
  <2> QED
    BY <1>4, <2>1
<1>6. Append(r.cookies, Line(c)) \in Seq(Lines)
  <2>1. r.cookies \in Seq(Lines)
    BY DEF Reps
  <2> QED BY <1>2, <2>1, AppendProperties
<1>7. q \in Reps
  BY <1>5, <1>6 DEF Reps
<1> QED
  BY <1>1, <1>7

LEMMA AddCookieKeeps ==
    ASSUME NEW r \in Reps, NEW c \in Calls
    PROVE  AddCookie(r, c) \in Reps
BY AddCookieIs

\* The cookies of a response, added one after the other.
LEMMA CookieChain ==
    ASSUME NEW r \in Reps, NEW calls \in Seq(Calls)
    PROVE  \E g \in [0 .. Len(calls) -> Reps] :
              /\ g[0] = r /\ FoldLeft(AddCookie, r, calls) = g[Len(calls)]
              /\ \A i \in 1 .. Len(calls) : g[i] = AddCookie(g[i - 1], calls[i])
<1> DEFINE n == Len(calls)
           iter[s \in SUBSET DOMAIN calls] ==
             IF s = {} THEN r ELSE LET x == Max(s) IN AddCookie(iter[s \ {x}], calls[x])
           H == [i \in 1 .. n |-> [c \in Reps |-> AddCookie(c, calls[i])]]
<1>0. n \in Nat /\ DOMAIN calls = 1 .. n /\ \A i \in 1 .. n : calls[i] \in Calls
  OBVIOUS
<1>1. FoldLeft(AddCookie, r, calls) = iter[1 .. n]
  BY <1>0 DEF FoldLeft, MapThenFoldSet
<1>2. PICK h : IsFold(h, n, Reps, r, H)
  <2>1. H \in Steps(n, Reps)
    BY <1>0, AddCookieKeeps DEF Steps
  <2> HIDE DEF H, n
  <2> QED
    BY <1>0, <2>1, FoldExists
<1>3. iter = [s \in SUBSET (1 .. n) |->
                IF s = {} THEN r ELSE LET x == Max(s) IN AddCookie(iter[s \ {x}], calls[x])]
  <2>1. ASSUME NEW s \in SUBSET (1 .. n), s # {}
        PROVE  h[s] = AddCookie(h[s \ {Max(s)}], calls[Max(s)])
    <3>1. Max(s) \in 1 .. n
      BY <1>0, <2>1, MaxOf
    <3>2. h[s \ {Max(s)}] \in Reps /\ h[s] = H[Max(s)][h[s \ {Max(s)}]]
      BY <1>2, <2>1 DEF IsFold
    <3> QED
      BY <3>1, <3>2
  <2>2. h = [s \in SUBSET (1 .. n) |->
               IF s = {} THEN r ELSE LET x == Max(s) IN AddCookie(h[s \ {x}], calls[x])]
    BY <1>2, <2>1 DEF IsFold
  <2>3. \E k : k = [s \in SUBSET DOMAIN calls |->
                      IF s = {} THEN r ELSE LET x == Max(s) IN AddCookie(k[s \ {x}], calls[x])]
    BY <1>0, <2>2
  <2> QED
    BY <1>0, <2>3
<1> HIDE DEF iter, H
<1> DEFINE g == [i \in 0 .. n |-> iter[1 .. i]]
           S == {i \in 0 .. n : g[i] \in Reps}
<1>4. g[0] = r
  <2>1. 1 .. 0 = {}
    OBVIOUS
  <2>2. iter[{}] = r
    BY <1>3
  <2> QED
    BY <1>0, <2>1, <2>2
<1>5. ASSUME NEW i \in 1 .. n PROVE g[i] = AddCookie(g[i - 1], calls[i])
  <2>1. i \in Nat /\ i > 0 /\ 1 .. i \in SUBSET (1 .. n) /\ i \in 1 .. i /\ i - 1 \in 0 .. n
    BY <1>0
  <2>2. Max(1 .. i) = i /\ (1 .. i) \ {i} = 1 .. i - 1
    BY <2>1, MaxOfInterval
  <2>3. iter[1 .. i] = AddCookie(iter[1 .. i - 1], calls[i])
    BY <1>3, <2>1, <2>2
  <2> QED
    BY <2>1, <2>3
<1>6. \A i \in 0 .. n : i \in S
  <2>1. 0 \in S
    BY <1>0, <1>4
  <2>2. ASSUME NEW i \in 0 .. n - 1, i \in S PROVE i + 1 \in S
    <3>1. i + 1 \in 1 .. n /\ i + 1 \in 0 .. n /\ (i + 1) - 1 = i /\ g[i] \in Reps
      BY <1>0, <2>2
    <3>2. g[i + 1] = AddCookie(g[i], calls[i + 1]) /\ calls[i + 1] \in Calls
      BY <1>0, <1>5, <3>1
    <3>3. g[i + 1] \in Reps
      <4> HIDE DEF g
      <4> QED BY <3>1, <3>2, AddCookieKeeps
    <3> QED
      BY <3>1, <3>3
  <2> HIDE DEF S, n
  <2> QED
    BY <1>0, <2>1, <2>2, InductUpTo
<1>7. g \in [0 .. n -> Reps] /\ FoldLeft(AddCookie, r, calls) = g[n]
  BY <1>0, <1>1, <1>6
<1> QED
  <2> HIDE DEF g
  <2> QED BY <1>4, <1>5, <1>7

\* The lines of some calls: the last one first, and then all.
Told(calls) ==
    (IF calls = <<>> THEN <<>> ELSE <<Line(calls[Len(calls)])>>)
       \o [i \in 1 .. Len(calls) |-> Line(calls[i])]

\* The cookies of a response, and the last of them among the headers.
LEMMA CookiesOnTheWire ==
    ASSUME NEW r \in Reps, r.cookies = <<>>, "Set-Cookie" \notin DOMAIN r.headers,
           NEW calls \in Seq(Calls), NEW status
    PROVE  SetCookieLines(send_headers(set_status(SetCookies(r, calls), status, <<>>))) = Told(calls)
<1> DEFINE n == Len(calls)
<1>1. PICK g \in [0 .. n -> Reps] :
         /\ g[0] = r /\ FoldLeft(AddCookie, r, calls) = g[n]
         /\ \A i \in 1 .. n : g[i] = AddCookie(g[i - 1], calls[i])
  BY CookieChain
<1>2. n \in Nat /\ \A i \in 1 .. n : calls[i] \in Calls
  OBVIOUS
<1> DEFINE Good(i) ==
             /\ g[i].cookies = [j \in 1 .. i |-> Line(calls[j])]
             /\ "Set-Cookie" \in DOMAIN g[i].headers <=> i > 0
             /\ i > 0 => g[i].headers["Set-Cookie"] = Line(calls[i])
           S == {i \in 0 .. n : Good(i)}
<1>3. 0 \in S
  BY <1>1, <1>2
<1>4. ASSUME NEW i \in 0 .. n - 1, i \in S PROVE i + 1 \in S
  <2> DEFINE line == Line(calls[i + 1])
  <2>1. i + 1 \in 1 .. n /\ i \in 0 .. n /\ g[i] \in Reps /\ calls[i + 1] \in Calls
    BY <1>1, <1>2
  <2>2. g[i + 1] = AddCookie(g[i], calls[i + 1])
    <3>1. (i + 1) - 1 = i
      OBVIOUS
    <3> QED BY <1>1, <2>1, <3>1
  <2>3. g[i + 1] = [g[i] EXCEPT !.cookies = Append(@, line),
                                !.headers = Assign(@, "Set-Cookie", line)]
    BY <2>1, <2>2, AddCookieIs
  <2>4. /\ g[i + 1].cookies = Append(g[i].cookies, line)
        /\ g[i + 1].headers = Assign(g[i].headers, "Set-Cookie", line)
    <3> HIDE DEF line
    <3> QED BY <2>1, <2>3 DEF Reps
  <2>5. Append([j \in 1 .. i |-> Line(calls[j])], line) = [j \in 1 .. i + 1 |-> Line(calls[j])]
    <3> DEFINE s == [j \in 1 .. i |-> Line(calls[j])]
               t == [j \in 1 .. i + 1 |-> Line(calls[j])]
    <3>1. \A j \in 1 .. i + 1 : Line(calls[j]) \in Lines
      BY <1>2, <2>1 DEF Lines
    <3> HIDE DEF Line
    <3>2. s \in Seq(Lines) /\ Len(s) = i /\ t \in Seq(Lines) /\ Len(t) = i + 1 /\ line \in Lines
      BY <2>1, <3>1
    <3>3. \A j \in 1 .. i + 1 : Append(s, line)[j] = t[j]
      BY <3>2, AppendProperties
    <3>4. Append(s, line) \in Seq(Lines) /\ Len(Append(s, line)) = i + 1
      BY <3>2, AppendProperties
    <3> DEFINE u == Append(s, line)
    <3>5. u \in Seq(Lines) /\ t \in Seq(Lines) /\ Len(u) = Len(t)
          /\ \A j \in 1 .. Len(u) : u[j] = t[j]
      BY <3>2, <3>3, <3>4
    <3>6. u = t
      <4> HIDE DEF u, t
      <4> QED BY <3>5, SeqEqual
    <3> QED
      BY <3>6
  <2>6. Good(i)
    BY <1>4
  <2>7. g[i + 1].cookies = [j \in 1 .. i + 1 |-> Line(calls[j])]
    <3> HIDE DEF line
    <3> QED BY <2>4, <2>5, <2>6
  <2>8. "Set-Cookie" \in DOMAIN g[i + 1].headers /\ g[i + 1].headers["Set-Cookie"] = line
    <3> HIDE DEF line
    <3> QED BY <2>4 DEF Assign
  <2> QED
    BY <2>1, <2>7, <2>8
<1>5. Good(n) /\ g[n] \in Reps
  <2>1. \A i \in 0 .. n : i \in S
    <3> HIDE DEF S, n
    <3> QED BY <1>2, <1>3, <1>4, InductUpTo
  <2> QED
    BY <1>1, <1>2, <2>1
<1> DEFINE w == send_headers(set_status(g[n], status, <<>>))
<1>6. w.headers = g[n].headers /\ w.cookies = g[n].cookies
  BY <1>5 DEF send_headers, set_status, Reps
<1>7. calls = <<>> <=> ~ (n > 0)
  OBVIOUS
<1>8. SetCookieLines(w) = (IF calls = <<>> THEN <<>> ELSE <<Line(calls[n])>>)
                             \o [i \in 1 .. n |-> Line(calls[i])]
  <2> HIDE DEF w, n
  <2> QED BY <1>5, <1>6, <1>7 DEF SetCookieLines
<1> QED
  BY <1>1, <1>8 DEF SetCookies, Told

\* Two jars that differ in at most one name.
Agree(f, g, x) ==
    DOMAIN f \ {x} = DOMAIN g \ {x} /\ \A y \in DOMAIN f \ {x} : f[y] = g[y]

LEMMA PutAgrees ==
    ASSUME NEW f, NEW g, NEW x, Agree(f, g, x), NEW c
    PROVE  Agree(Put(f, c), Put(g, c), x)
BY DEF Agree, Put, Restrict, Assign

LEMMA PutSettles ==
    ASSUME NEW f \in Jars, NEW g \in Jars, NEW c, Agree(f, g, c.name)
    PROVE  Put(f, c) = Put(g, c)
BY DEF Agree, Put, Restrict, Assign

LEMMA PutTouchesOne ==
    ASSUME NEW f, NEW c
    PROVE  Agree(Put(f, c), f, c.name)
BY DEF Agree, Put, Restrict, Assign

\* Setting the last cookie also before all others changes nothing in the end.
LEMMA LastTwice ==
    ASSUME NEW f \in Jars, NEW calls \in Seq(Calls), calls # <<>>
    PROVE  FoldLeft(Store, f, <<Line(calls[Len(calls)])>>
                                 \o [i \in 1 .. Len(calls) |-> Line(calls[i])])
              = FoldLeft(Put, f, calls)
<1> DEFINE n == Len(calls)
           c == calls[n]
           map == [i \in 1 .. n |-> Line(calls[i])]
           lines == <<Line(c)>> \o map
<1>1. n \in Nat /\ n > 0 /\ \A i \in 1 .. n : calls[i] \in Calls
  OBVIOUS
<1>2. /\ lines \in Seq(Lines) /\ Len(lines) = n + 1 /\ lines[1] = Line(c)
      /\ \A i \in 1 .. n : lines[i + 1] = Line(calls[i])
  <2>0. c \in Calls
    BY <1>1
  <2>1. /\ Line(c) \in Lines /\ \A i \in 1 .. n : Line(calls[i]) \in Lines
    BY <1>1, <2>0 DEF Lines
  <2> HIDE DEF Line, c
  <2>2. map \in Seq(Lines) /\ Len(map) = n /\ \A i \in 1 .. n : map[i] = Line(calls[i])
    BY <1>1, <2>1
  <2> HIDE DEF map, n
  <2>3. <<Line(c)>> \in Seq(Lines) /\ Len(<<Line(c)>>) = 1 /\ <<Line(c)>>[1] = Line(c)
    BY <2>1
  <2>4. /\ lines \in Seq(Lines) /\ Len(lines) = 1 + n
        /\ \A i \in 1 .. 1 + n : lines[i] = IF i <= 1 THEN <<Line(c)>>[i] ELSE map[i - 1]
    BY <2>2, <2>3, ConcatProperties
  <2> HIDE DEF lines
  <2>5. lines[1] = Line(c)
    BY <1>1, <2>3, <2>4
  <2>6. ASSUME NEW i \in 1 .. n PROVE lines[i + 1] = Line(calls[i])
    <3>1. i + 1 \in 1 .. 1 + n /\ ~ (i + 1 <= 1) /\ (i + 1) - 1 = i
      BY <1>1
    <3> QED BY <2>2, <2>4, <3>1
  <2> QED
    BY <1>1, <2>4, <2>5, <2>6
<1>3. PICK g \in [0 .. n -> Jars] :
         /\ g[0] = f /\ FoldLeft(Put, f, calls) = g[n]
         /\ \A i \in 1 .. n : g[i] = Put(g[i - 1], calls[i])
  BY PutChain
<1>4. PICK h \in [0 .. n + 1 -> Jars] :
         /\ h[0] = f /\ FoldLeft(Store, f, lines) = h[n + 1]
         /\ \A i \in 1 .. n + 1 : h[i] = Store(h[i - 1], lines[i])
  <2> HIDE DEF lines, n
  <2>1. \E h \in [0 .. Len(lines) -> Jars] :
           /\ h[0] = f /\ FoldLeft(Store, f, lines) = h[Len(lines)]
           /\ \A i \in 1 .. Len(lines) : h[i] = Store(h[i - 1], lines[i])
    BY <1>2, StoreChain
  <2> QED BY <1>2, <2>1
<1> HIDE DEF lines, map, n, c
<1>5. h[1] = Put(f, c) /\ \A i \in 1 .. n : h[i + 1] = Put(h[i], calls[i])
  <2>1. c \in Calls
    BY <1>1 DEF c
  <2>2. h[1] = Store(h[1 - 1], lines[1])
    BY <1>1, <1>4
  <2>3. ASSUME NEW i \in 1 .. n PROVE h[i + 1] = Put(h[i], calls[i])
    <3>1. i + 1 \in 1 .. n + 1 /\ (i + 1) - 1 = i
      BY <1>1
    <3>2. h[i + 1] = Store(h[i], Line(calls[i]))
      BY <1>2, <1>4, <3>1
    <3> QED BY <1>1, <3>2, LineIsCall
  <2>4. h[1] = Store(f, Line(c))
    BY <1>2, <1>4, <2>2
  <2> QED
    BY <2>1, <2>3, <2>4, LineIsCall
<1> DEFINE S == {i \in 0 .. n : Agree(h[i + 1], g[i], c.name)}
<1>6. \A i \in 0 .. n : i \in S
  <2>1. 0 \in S
    BY <1>1, <1>3, <1>5, PutTouchesOne
  <2>2. ASSUME NEW i \in 0 .. n - 1, i \in S PROVE i + 1 \in S
    <3>1. i + 1 \in 1 .. n /\ (i + 1) - 1 = i /\ i + 1 \in 0 .. n
      BY <1>1
    <3>2. g[i + 1] = Put(g[i], calls[i + 1]) /\ h[(i + 1) + 1] = Put(h[i + 1], calls[i + 1])
      BY <1>3, <1>5, <3>1
    <3>3. Agree(h[(i + 1) + 1], g[i + 1], c.name)
      BY <2>2, <3>2, PutAgrees
    <3> QED
      BY <3>1, <3>3
  <2> HIDE DEF S
  <2> QED
    BY <1>1, <2>1, <2>2, InductUpTo
<1>7. h[n + 1] = g[n]
  <2>1. n \in 1 .. n /\ n - 1 \in 0 .. n /\ n \in 0 .. n + 1 /\ (n - 1) + 1 = n
    BY <1>1
  <2>2. h[n + 1] = Put(h[n], c) /\ g[n] = Put(g[n - 1], c)
    BY <1>3, <1>5, <2>1 DEF c
  <2>3. Agree(h[n], g[n - 1], c.name)
    BY <1>6, <2>1
  <2>4. h[n] \in Jars /\ g[n - 1] \in Jars
    BY <1>3, <1>4, <2>1
  <2> QED
    BY <2>2, <2>3, <2>4, PutSettles
<1> QED
  BY <1>3, <1>4, <1>7 DEF lines, map, c, n

------------------------------------------------------------------------------
(* base62 *)

\* The powers are well defined, and what they are.
LEMMA PowIs ==
    /\ Base \in Nat /\ Base > 1
    /\ Pow \in [Nat -> Nat] /\ Pow[0] = 1 /\ \A t \in Nat : Pow[t + 1] = Base * Pow[t]
<1> DEFINE Good(k, f) ==
             /\ f \in [0 .. k -> Nat] /\ f[0] = 1
             /\ \A i \in 0 .. k - 1 : f[i + 1] = Base * f[i]
           E(k) == CHOOSE f : Good(k, f)
           pow == [t \in Nat |-> E(t)[t]]
<1>1. Base \in Nat /\ Base > 1
  BY DigitsAssumption DEF Base
<1>2. \A k \in Nat : \E f : Good(k, f)
  <2> DEFINE S == {k \in Nat : \E f : Good(k, f)}
  <2>1. 0 \in S
    <3> DEFINE f == [i \in 0 .. 0 |-> 1]
    <3>1. Good(0, f)
      OBVIOUS
    <3> HIDE DEF Good, f
    <3> QED BY <3>1
  <2>2. ASSUME NEW k \in Nat, k \in S PROVE k + 1 \in S
    <3>1. PICK f : Good(k, f)
      BY <2>2
    <3> DEFINE g == [i \in 0 .. k + 1 |-> IF i = k + 1 THEN Base * f[k] ELSE f[i]]
    <3>2. /\ g \in [0 .. k + 1 -> Nat] /\ g[0] = 1
      BY <1>1, <3>1
    <3>3. ASSUME NEW i \in 0 .. (k + 1) - 1 PROVE g[i + 1] = Base * g[i]
      <4>1. CASE i = k
        BY <4>1
      <4>2. CASE i # k
        BY <3>1, <4>2
      <4> QED BY <4>1, <4>2
    <3>4. Good(k + 1, g)
      <4> HIDE DEF g
      <4> QED BY <3>2, <3>3
    <3> HIDE DEF Good, g
    <3> QED BY <3>4
  <2>3. \A k \in Nat : k \in S
    <3> HIDE DEF S
    <3> QED BY <2>1, <2>2, Induct
  <2> QED BY <2>3
<1>3. ASSUME NEW k \in Nat PROVE Good(k, E(k))
  <2> HIDE DEF Good
  <2> QED BY <1>2
<1>4. ASSUME NEW t \in Nat PROVE E(t + 1)[t] = E(t)[t]
  <2> DEFINE f == E(t)
             g == E(t + 1)
             S == {i \in 0 .. t : f[i] = g[i]}
  <2>1. Good(t, f) /\ Good(t + 1, g)
    <3> HIDE DEF Good, E
    <3>1. t + 1 \in Nat
      OBVIOUS
    <3> QED BY <1>3, <3>1
  <2> HIDE DEF E, f, g
  <2>2. 0 \in S
    BY <2>1
  <2>3. ASSUME NEW i \in 0 .. t - 1, i \in S PROVE i + 1 \in S
    <3>1. f[i + 1] = Base * f[i] /\ g[i + 1] = Base * g[i]
      BY <2>1
    <3> QED BY <2>3, <3>1
  <2>4. \A i \in 0 .. t : i \in S
    <3> HIDE DEF S
    <3> QED BY <2>2, <2>3, InductUpTo
  <2>5. g[t] = f[t]
    BY <2>4
  <2> QED BY <2>5 DEF f, g
<1>5. ASSUME NEW t \in Nat PROVE pow[t] \in Nat /\ pow[t + 1] = Base * pow[t]
  <2>1. Good(t, E(t)) /\ Good(t + 1, E(t + 1)) /\ E(t + 1)[t] = E(t)[t]
    <3> HIDE DEF Good, E
    <3>1. t + 1 \in Nat
      OBVIOUS
    <3> QED BY <1>3, <1>4, <3>1
  <2> HIDE DEF E
  <2>2. E(t)[t] \in Nat /\ E(t + 1)[t + 1] = Base * E(t + 1)[t]
    BY <2>1
  <2> QED BY <2>1, <2>2
<1>6. pow[0] = 1
  <2>1. Good(0, E(0))
    BY <1>3
  <2> HIDE DEF E
  <2> QED BY <2>1
<1>7. pow = [t \in Nat |-> IF t = 0 THEN 1 ELSE Base * pow[t - 1]]
  <2>1. ASSUME NEW t \in Nat PROVE pow[t] = IF t = 0 THEN 1 ELSE Base * pow[t - 1]
    <3>1. CASE t = 0
      BY <1>6, <3>1
    <3>2. CASE t # 0
      <4>1. t - 1 \in Nat /\ (t - 1) + 1 = t
        BY <3>2
      <4>2. pow[(t - 1) + 1] = Base * pow[t - 1]
        BY <1>5, <4>1
      <4> HIDE DEF pow
      <4> QED BY <3>2, <4>1, <4>2
    <3> QED BY <3>1, <3>2
  <2>2. pow = [t \in Nat |-> pow[t]]
    OBVIOUS
  <2> HIDE DEF pow
  <2> QED BY <2>1, <2>2
<1>8. Pow = [t \in Nat |-> IF t = 0 THEN 1 ELSE Base * Pow[t - 1]]
  <2> HIDE DEF pow
  <2>1. \E f : f = [t \in Nat |-> IF t = 0 THEN 1 ELSE Base * f[t - 1]]
    BY <1>7
  <2> QED BY <2>1 DEF Pow
<1> DEFINE S == {t \in Nat : Pow[t] \in Nat}
<1>9. \A t \in Nat : Pow[t + 1] = Base * Pow[t]
  <2>1. \A t \in Nat : t + 1 \in Nat /\ t + 1 # 0 /\ (t + 1) - 1 = t
    OBVIOUS
  <2> QED BY <1>8, <2>1
<1>10. Pow[0] = 1
  BY <1>8
<1>11. \A t \in Nat : t \in S
  <2>1. 0 \in S
    BY <1>10
  <2>2. \A t \in Nat : t \in S => t + 1 \in S
    BY <1>1, <1>9
  <2> HIDE DEF S
  <2> QED BY <2>1, <2>2, Induct
<1> QED
  BY <1>1, <1>8, <1>9, <1>10, <1>11

\* They grow, and faster than the exponent.
LEMMA PowGrows ==
    ASSUME NEW t \in Nat
    PROVE  Pow[t] \in Nat /\ Pow[t] > t /\ Pow[t] < Pow[t + 1]
<1> DEFINE S == {k \in Nat : Pow[k] > k}
<1>1. \A k \in Nat : Pow[k] \in Nat /\ Pow[k + 1] = Base * Pow[k]
  BY PowIs
<1>2. 0 \in S
  BY PowIs
<1>3. ASSUME NEW p \in Nat, p > 0 PROVE Base * p >= p + p
  <2>1. Base \in Nat /\ Base >= 2
    BY PowIs
  <2>2. \A b \in Nat : b >= 2 => b * p >= 2 * p
    BY <1>3
  <2> QED BY <2>1, <2>2
<1>4. ASSUME NEW k \in Nat, k \in S PROVE k + 1 \in S
  <2>1. Pow[k] \in Nat /\ Pow[k] > k /\ Pow[k + 1] >= Pow[k] + Pow[k] /\ Pow[k + 1] \in Nat
    BY <1>1, <1>3, <1>4
  <2> QED BY <2>1
<1>5. \A k \in Nat : k \in S
  <2> HIDE DEF S
  <2> QED BY <1>2, <1>4, Induct
<1>6. Pow[t] \in Nat /\ Pow[t] > t
  BY <1>1, <1>5
<1>7. Pow[t + 1] >= Pow[t] + Pow[t] /\ Pow[t + 1] \in Nat
  BY <1>1, <1>3, <1>6
<1> QED
  BY <1>6, <1>7

LEMMA PowMonotone ==
    ASSUME NEW a \in Nat, NEW b \in Nat, a <= b
    PROVE  Pow[a] <= Pow[b] /\ (a < b => Pow[a] < Pow[b])
<1> DEFINE S == {d \in Nat : Pow[a] <= Pow[a + d] /\ (d > 0 => Pow[a] < Pow[a + d])}
<1>1. 0 \in S
  BY PowGrows
<1>2. ASSUME NEW d \in Nat, d \in S PROVE d + 1 \in S
  <2>1. a + d \in Nat /\ a + (d + 1) = (a + d) + 1
    OBVIOUS
  <2>2. Pow[a + d] < Pow[(a + d) + 1] /\ Pow[a + d] \in Nat /\ Pow[a] \in Nat /\ Pow[(a + d) + 1] \in Nat
    BY <2>1, PowGrows
  <2> QED BY <1>2, <2>1, <2>2
<1>3. \A d \in Nat : d \in S
  <2> HIDE DEF S
  <2> QED BY <1>1, <1>2, Induct
<1>4. b - a \in Nat /\ a + (b - a) = b /\ (a < b => b - a > 0)
  OBVIOUS
<1> QED
  BY <1>3, <1>4

\* The place of the first digit.
LEMMA TopPlaceIs ==
    ASSUME NEW number \in Nat, number \notin {Pow[3], Pow[6]}
    PROVE  \/ number = 0 /\ TopPlace(number) = -1
           \/ /\ number > 0 /\ TopPlace(number) \in Nat
              /\ Pow[TopPlace(number)] <= number /\ number < Pow[TopPlace(number) + 1]
<1>1. CASE number = 0
  BY <1>1 DEF TopPlace
<1>2. CASE number # 0
  <2> DEFINE B == {t \in Nat : number < Pow[t + 1]}
  <2>1. number \in B
    <3>1. number < Pow[number] /\ Pow[number] < Pow[number + 1] /\ Pow[number] \in Nat /\ Pow[number + 1] \in Nat
      BY PowGrows
    <3> QED BY <3>1
  <2>2. PICK t \in B : \A m \in B : t <= m
    <3>1. B \subseteq Nat /\ B # {}
      BY <2>1
    <3> HIDE DEF B
    <3> QED BY <3>1, LeastNumber
  <2>3. Pow[t] <= number
    <3>1. CASE t = 0
      BY <1>2, <3>1, PowIs
    <3>2. CASE t # 0
      <4>1. t - 1 \in Nat /\ (t - 1) + 1 = t /\ t - 1 \notin B
        BY <2>2, <3>2
      <4>2. Pow[t] \in Nat
        BY PowGrows
      <4> QED BY <4>1, <4>2
    <3> QED BY <3>1, <3>2
  <2>4. t \in 0 .. number
    <3>1. t \in Nat /\ t < Pow[t] /\ Pow[t] \in Nat
      BY PowGrows
    <3> QED BY <2>3, <3>1
  <2>5. \E u \in 0 .. number : Pow[u] <= number /\ number < Pow[u + 1]
    BY <2>2, <2>3, <2>4
  <2>6. TopPlace(number) = CHOOSE u \in 0 .. number : Pow[u] <= number /\ number < Pow[u + 1]
    BY <1>2 DEF TopPlace
  <2>7. /\ TopPlace(number) \in 0 .. number
        /\ Pow[TopPlace(number)] <= number /\ number < Pow[TopPlace(number) + 1]
    BY <2>5, <2>6
  <2> QED
    BY <1>2, <2>7
<1> QED
  BY <1>1, <1>2

Digits == {BASE_STRING[n] : n \in 1 .. Base}
DigitStates == [num : Nat, out : Seq(Digits)]

\* What a step of base62_encode does.
LEMMA PutDigitIs ==
    ASSUME NEW state \in DigitStates, NEW t \in Nat
    PROVE  LET a == state.num \div Pow[t]
           IN  /\ a \in Nat /\ PutDigit(state, t) \in DigitStates
               /\ state.num = a * Pow[t] + PutDigit(state, t).num
               /\ PutDigit(state, t).num < Pow[t]
               /\ state.num < Base * Pow[t] =>
                     /\ a < Base
                     /\ PutDigit(state, t).out = Append(state.out, BASE_STRING[a + 1])
<1> DEFINE w == Pow[t]
           n == state.num
           a == n \div w
           next == PutDigit(state, t)
<1>1. w \in Nat /\ w > 0 /\ n \in Nat /\ Base \in Nat /\ state.out \in Seq(Digits)
  <2>1. w \in Nat /\ w > t
    BY PowGrows
  <2>2. w > 0 /\ Base \in Nat
    <3> HIDE DEF w
    <3> QED BY <2>1, PowIs
  <2>3. n \in Nat /\ state.out \in Seq(Digits)
    BY DEF DigitStates
  <2> QED BY <2>1, <2>2, <2>3
<1>2. next.num = n - a * w /\ next.out = state.out \o Digit(a) /\ next = [num |-> next.num, out |-> next.out]
  BY DEF PutDigit
<1> HIDE DEF w, n, next
<1>3. a \in Nat /\ a * w <= n /\ n < a * w + w /\ a * w \in Nat
  BY <1>1
<1>4. n < Base * w => a < Base
  BY <1>1
<1> HIDE DEF a
<1>5. a < Base => Digit(a) = <<BASE_STRING[a + 1]>> /\ BASE_STRING[a + 1] \in Digits
  BY <1>1, <1>3 DEF Digit, Digits
<1>6. Digit(a) \in Seq(Digits)
  BY <1>5 DEF Digit
<1>7. next.num \in Nat /\ n = a * w + next.num /\ next.num < w
  <2> DEFINE aw == a * w
  <2>1. aw \in Nat /\ aw <= n /\ n < aw + w /\ next.num = n - aw
    BY <1>2, <1>3
  <2> HIDE DEF aw
  <2>2. next.num \in Nat /\ n = aw + next.num /\ next.num < w
    BY <1>1, <2>1
  <2> QED BY <2>2 DEF aw
<1>8. next.out \in Seq(Digits)
  BY <1>1, <1>2, <1>6, ConcatProperties
<1>9. next \in DigitStates
  BY <1>2, <1>7, <1>8 DEF DigitStates
<1>10. a < Base => next.out = Append(state.out, BASE_STRING[a + 1])
  BY <1>1, <1>2, <1>5, AppendIsConcat
<1> QED
  BY <1>3, <1>4, <1>7, <1>9, <1>10 DEF a, n, w, next

LEMMA PutDigitKeeps ==
    ASSUME NEW state \in DigitStates, NEW t \in Nat
    PROVE  PutDigit(state, t) \in DigitStates
BY PutDigitIs

\* The digits one after the other.
LEMMA EncodeChain ==
    ASSUME NEW state \in DigitStates, NEW places \in Seq(Nat)
    PROVE  \E g \in [0 .. Len(places) -> DigitStates] :
              /\ g[0] = state /\ FoldLeft(PutDigit, state, places) = g[Len(places)]
              /\ \A i \in 1 .. Len(places) : g[i] = PutDigit(g[i - 1], places[i])
<1> DEFINE n == Len(places)
           iter[s \in SUBSET DOMAIN places] ==
             IF s = {} THEN state ELSE LET x == Max(s) IN PutDigit(iter[s \ {x}], places[x])
           H == [i \in 1 .. n |-> [c \in DigitStates |-> PutDigit(c, places[i])]]
<1>0. n \in Nat /\ DOMAIN places = 1 .. n /\ \A i \in 1 .. n : places[i] \in Nat
  OBVIOUS
<1>1. FoldLeft(PutDigit, state, places) = iter[1 .. n]
  BY <1>0 DEF FoldLeft, MapThenFoldSet
<1>2. PICK h : IsFold(h, n, DigitStates, state, H)
  <2>1. H \in Steps(n, DigitStates)
    BY <1>0, PutDigitKeeps DEF Steps
  <2> HIDE DEF H, n
  <2> QED
    BY <1>0, <2>1, FoldExists
<1>3. iter = [s \in SUBSET (1 .. n) |->
                IF s = {} THEN state ELSE LET x == Max(s) IN PutDigit(iter[s \ {x}], places[x])]
  <2>1. ASSUME NEW s \in SUBSET (1 .. n), s # {}
        PROVE  h[s] = PutDigit(h[s \ {Max(s)}], places[Max(s)])
    <3>1. Max(s) \in 1 .. n
      BY <1>0, <2>1, MaxOf
    <3>2. h[s \ {Max(s)}] \in DigitStates /\ h[s] = H[Max(s)][h[s \ {Max(s)}]]
      BY <1>2, <2>1 DEF IsFold
    <3> QED
      BY <3>1, <3>2
  <2>2. h = [s \in SUBSET (1 .. n) |->
               IF s = {} THEN state ELSE LET x == Max(s) IN PutDigit(h[s \ {x}], places[x])]
    BY <1>2, <2>1 DEF IsFold
  <2>3. \E k : k = [s \in SUBSET DOMAIN places |->
                      IF s = {} THEN state ELSE LET x == Max(s) IN PutDigit(k[s \ {x}], places[x])]
    BY <1>0, <2>2
  <2> QED
    BY <1>0, <2>3
<1> HIDE DEF iter, H
<1> DEFINE g == [i \in 0 .. n |-> iter[1 .. i]]
           S == {i \in 0 .. n : g[i] \in DigitStates}
<1>4. g[0] = state
  <2>1. 1 .. 0 = {}
    OBVIOUS
  <2>2. iter[{}] = state
    BY <1>3
  <2> QED
    BY <1>0, <2>1, <2>2
<1>5. ASSUME NEW i \in 1 .. n PROVE g[i] = PutDigit(g[i - 1], places[i])
  <2>1. i \in Nat /\ i > 0 /\ 1 .. i \in SUBSET (1 .. n) /\ i \in 1 .. i /\ i - 1 \in 0 .. n
    BY <1>0
  <2>2. Max(1 .. i) = i /\ (1 .. i) \ {i} = 1 .. i - 1
    BY <2>1, MaxOfInterval
  <2>3. iter[1 .. i] = PutDigit(iter[1 .. i - 1], places[i])
    BY <1>3, <2>1, <2>2
  <2> QED
    BY <2>1, <2>3
<1>6. \A i \in 0 .. n : i \in S
  <2>1. 0 \in S
    BY <1>0, <1>4
  <2>2. ASSUME NEW i \in 0 .. n - 1, i \in S PROVE i + 1 \in S
    <3>1. i + 1 \in 1 .. n /\ i + 1 \in 0 .. n /\ (i + 1) - 1 = i /\ g[i] \in DigitStates
      BY <1>0, <2>2
    <3>2. g[i + 1] = PutDigit(g[i], places[i + 1]) /\ places[i + 1] \in Nat
      BY <1>0, <1>5, <3>1
    <3>3. g[i + 1] \in DigitStates
      <4> HIDE DEF g
      <4> QED BY <3>1, <3>2, PutDigitKeeps
    <3> QED
      BY <3>1, <3>3
  <2> HIDE DEF S, n
  <2> QED
    BY <1>0, <2>1, <2>2, InductUpTo
<1>7. g \in [0 .. n -> DigitStates] /\ FoldLeft(PutDigit, state, places) = g[n]
  BY <1>0, <1>1, <1>6
<1> QED
  <2> HIDE DEF g
  <2> QED BY <1>4, <1>5, <1>7

LEMMA SubSeqOne ==
    ASSUME NEW V, NEW s \in Seq(V), NEW i \in 1 .. Len(s)
    PROVE  SubSeq(s, i, i) = <<s[i]>>
<1>1. i \in i .. Len(s) /\ i + 1 > i /\ i \in Int /\ i + 1 \in Int /\ s[i] \in V
  OBVIOUS
<1>2. SubSeq(s, i, i) = <<s[i]>> \o SubSeq(s, i + 1, i)
  BY <1>1, SubSeqRecursiveFirst
<1>3. SubSeq(s, i + 1, i) = <<>>
  BY <1>1, SubSeqEmpty
<1>4. <<s[i]>> \in Seq(V)
  BY <1>1
<1> QED
  BY <1>2, <1>3, <1>4, ConcatEmptySeq

\* strpos gives the place of a digit.
LEMMA PlaceOfDigit ==
    ASSUME NEW a \in 0 .. Base - 1
    PROVE  strpos(BASE_STRING, <<BASE_STRING[a + 1]>>) = a
<1> DEFINE c == BASE_STRING[a + 1]
           hits == {i \in 0 .. Len(BASE_STRING) - Len(<<c>>) :
                      SubSeq(BASE_STRING, i + 1, i + Len(<<c>>)) = <<c>>}
<1>1. Base \in Nat /\ Base = Len(BASE_STRING) /\ BASE_STRING \in Seq(Nat) /\ DOMAIN BASE_STRING = 1 .. Base
  BY DigitsAssumption DEF Base
<1>2. a + 1 \in 1 .. Base /\ c \in Nat
  BY <1>1
<1>3. Len(<<c>>) = 1 /\ <<c>> # <<>>
  OBVIOUS
<1>4. ASSUME NEW i \in 0 .. Base - 1
      PROVE  SubSeq(BASE_STRING, i + 1, i + 1) = <<BASE_STRING[i + 1]>>
  <2>1. i + 1 \in 1 .. Base
    BY <1>1
  <2> QED BY <1>1, <2>1, SubSeqOne
<1>5. \A i \in 0 .. Base - 1 : BASE_STRING[i + 1] = c => i = a
  <2>1. \A i \in 0 .. Base - 1 : i + 1 \in 1 .. Base
    BY <1>1
  <2> QED BY <1>1, <1>2, <2>1, DigitsAssumption DEF IsInjective
<1> HIDE DEF c
<1>6. ASSUME NEW i \in 0 .. Base - 1
      PROVE  SubSeq(BASE_STRING, i + 1, i + 1) = <<c>> <=> i = a
  <2>1. <<BASE_STRING[i + 1]>> = <<c>> <=> BASE_STRING[i + 1] = c
    OBVIOUS
  <2> QED BY <1>4, <1>5, <2>1 DEF c
<1>7. hits = {a}
  BY <1>1, <1>3, <1>6
<1>8. Min({a}) = a
  BY DEF Min
<1> QED
  BY <1>3, <1>7, <1>8 DEF strpos, c

\* A digit more.
LEMMA AddDigitIs ==
    ASSUME NEW sum \in Nat, NEW a \in 0 .. Base - 1
    PROVE  AddDigit(sum, BASE_STRING[a + 1]) = sum * Base + a
BY PlaceOfDigit DEF AddDigit

LEMMA AddDigitKeeps ==
    ASSUME NEW sum \in Nat, NEW c \in Digits
    PROVE  AddDigit(sum, c) \in Nat
<1>1. Base \in Nat
  BY PowIs
<1>2. PICK n \in 1 .. Base : c = BASE_STRING[n]
  BY DEF Digits
<1>3. n - 1 \in 0 .. Base - 1 /\ (n - 1) + 1 = n
  BY <1>1
<1>4. AddDigit(sum, c) = sum * Base + (n - 1)
  BY <1>2, <1>3, AddDigitIs
<1>5. sum * Base \in Nat
  BY <1>1
<1> QED
  BY <1>3, <1>4, <1>5

\* The sum digit by digit.
LEMMA DecodeChain ==
    ASSUME NEW sum \in Nat, NEW str \in Seq(Digits)
    PROVE  \E g \in [0 .. Len(str) -> Nat] :
              /\ g[0] = sum /\ FoldLeft(AddDigit, sum, str) = g[Len(str)]
              /\ \A i \in 1 .. Len(str) : g[i] = AddDigit(g[i - 1], str[i])
<1> DEFINE n == Len(str)
           iter[s \in SUBSET DOMAIN str] ==
             IF s = {} THEN sum ELSE LET x == Max(s) IN AddDigit(iter[s \ {x}], str[x])
           H == [i \in 1 .. n |-> [c \in Nat |-> AddDigit(c, str[i])]]
<1>0. n \in Nat /\ DOMAIN str = 1 .. n /\ \A i \in 1 .. n : str[i] \in Digits
  OBVIOUS
<1>1. FoldLeft(AddDigit, sum, str) = iter[1 .. n]
  BY <1>0 DEF FoldLeft, MapThenFoldSet
<1>2. PICK h : IsFold(h, n, Nat, sum, H)
  <2>1. H \in Steps(n, Nat)
    BY <1>0, AddDigitKeeps DEF Steps
  <2> HIDE DEF H, n
  <2> QED
    BY <1>0, <2>1, FoldExists
<1>3. iter = [s \in SUBSET (1 .. n) |->
                IF s = {} THEN sum ELSE LET x == Max(s) IN AddDigit(iter[s \ {x}], str[x])]
  <2>1. ASSUME NEW s \in SUBSET (1 .. n), s # {}
        PROVE  h[s] = AddDigit(h[s \ {Max(s)}], str[Max(s)])
    <3>1. Max(s) \in 1 .. n
      BY <1>0, <2>1, MaxOf
    <3>2. h[s \ {Max(s)}] \in Nat /\ h[s] = H[Max(s)][h[s \ {Max(s)}]]
      BY <1>2, <2>1 DEF IsFold
    <3> QED
      BY <3>1, <3>2
  <2>2. h = [s \in SUBSET (1 .. n) |->
               IF s = {} THEN sum ELSE LET x == Max(s) IN AddDigit(h[s \ {x}], str[x])]
    BY <1>2, <2>1 DEF IsFold
  <2>3. \E k : k = [s \in SUBSET DOMAIN str |->
                      IF s = {} THEN sum ELSE LET x == Max(s) IN AddDigit(k[s \ {x}], str[x])]
    BY <1>0, <2>2
  <2> QED
    BY <1>0, <2>3
<1> HIDE DEF iter, H
<1> DEFINE g == [i \in 0 .. n |-> iter[1 .. i]]
           S == {i \in 0 .. n : g[i] \in Nat}
<1>4. g[0] = sum
  <2>1. 1 .. 0 = {}
    OBVIOUS
  <2>2. iter[{}] = sum
    BY <1>3
  <2> QED
    BY <1>0, <2>1, <2>2
<1>5. ASSUME NEW i \in 1 .. n PROVE g[i] = AddDigit(g[i - 1], str[i])
  <2>1. i \in Nat /\ i > 0 /\ 1 .. i \in SUBSET (1 .. n) /\ i \in 1 .. i /\ i - 1 \in 0 .. n
    BY <1>0
  <2>2. Max(1 .. i) = i /\ (1 .. i) \ {i} = 1 .. i - 1
    BY <2>1, MaxOfInterval
  <2>3. iter[1 .. i] = AddDigit(iter[1 .. i - 1], str[i])
    BY <1>3, <2>1, <2>2
  <2> QED
    BY <2>1, <2>3
<1>6. \A i \in 0 .. n : i \in S
  <2>1. 0 \in S
    BY <1>0, <1>4
  <2>2. ASSUME NEW i \in 0 .. n - 1, i \in S PROVE i + 1 \in S
    <3>1. i + 1 \in 1 .. n /\ i + 1 \in 0 .. n /\ (i + 1) - 1 = i /\ g[i] \in Nat
      BY <1>0, <2>2
    <3>2. g[i + 1] = AddDigit(g[i], str[i + 1]) /\ str[i + 1] \in Digits
      BY <1>0, <1>5, <3>1
    <3>3. g[i + 1] \in Nat
      <4> HIDE DEF g
      <4> QED BY <3>1, <3>2, AddDigitKeeps
    <3> QED
      BY <3>1, <3>3
  <2> HIDE DEF S, n
  <2> QED
    BY <1>0, <2>1, <2>2, InductUpTo
<1>7. g \in [0 .. n -> Nat] /\ FoldLeft(AddDigit, sum, str) = g[n]
  BY <1>0, <1>1, <1>6
<1> QED
  <2> HIDE DEF g
  <2> QED BY <1>4, <1>5, <1>7

LEMMA DecodeAppend ==
    ASSUME NEW str \in Seq(Digits), NEW c \in Digits
    PROVE  /\ base62_decode(str) \in Nat
           /\ base62_decode(Append(str, c)) = AddDigit(base62_decode(str), c)
<1> DEFINE n == Len(str)
           long == Append(str, c)
           zero == 0
<1>0. zero \in Nat
  OBVIOUS
<1> HIDE DEF zero
<1>1. n \in Nat /\ long \in Seq(Digits) /\ Len(long) = n + 1 /\ long[n + 1] = c
      /\ \A i \in 1 .. n : long[i] = str[i]
  BY AppendProperties
<1>2. PICK g \in [0 .. n -> Nat] :
         /\ g[0] = zero /\ FoldLeft(AddDigit, zero, str) = g[n]
         /\ \A i \in 1 .. n : g[i] = AddDigit(g[i - 1], str[i])
  BY <1>0, DecodeChain
<1>3. PICK h \in [0 .. n + 1 -> Nat] :
         /\ h[0] = zero /\ FoldLeft(AddDigit, zero, long) = h[n + 1]
         /\ \A i \in 1 .. n + 1 : h[i] = AddDigit(h[i - 1], long[i])
  <2> HIDE DEF long
  <2>1. \E h \in [0 .. Len(long) -> Nat] :
           /\ h[0] = zero /\ FoldLeft(AddDigit, zero, long) = h[Len(long)]
           /\ \A i \in 1 .. Len(long) : h[i] = AddDigit(h[i - 1], long[i])
    BY <1>0, <1>1, DecodeChain
  <2> QED BY <1>1, <2>1
<1> DEFINE S == {i \in 0 .. n : g[i] = h[i]}
<1> HIDE DEF n, long
<1>4. \A i \in 0 .. n : i \in S
  <2>1. 0 \in S
    BY <1>1, <1>2, <1>3
  <2>2. ASSUME NEW i \in 0 .. n - 1, i \in S PROVE i + 1 \in S
    <3>1. i + 1 \in 1 .. n /\ i + 1 \in 1 .. n + 1 /\ (i + 1) - 1 = i /\ i + 1 \in 0 .. n
      BY <1>1
    <3>2. g[i + 1] = AddDigit(g[i], str[i + 1]) /\ h[i + 1] = AddDigit(h[i], long[i + 1])
      BY <1>2, <1>3, <3>1
    <3>3. long[i + 1] = str[i + 1] /\ g[i] = h[i]
      BY <1>1, <2>2, <3>1
    <3> QED BY <3>1, <3>2, <3>3
  <2> HIDE DEF S
  <2> QED BY <1>1, <2>1, <2>2, InductUpTo
<1>5. g[n] = h[n] /\ g[n] \in Nat
  BY <1>1, <1>2, <1>4
<1>6. h[n + 1] = AddDigit(h[n], c)
  <2>1. n + 1 \in 1 .. n + 1 /\ (n + 1) - 1 = n
    BY <1>1
  <2> QED BY <1>1, <1>3, <2>1
<1> QED
  BY <1>2, <1>3, <1>5, <1>6 DEF base62_decode, long, zero

LEMMA DecodeEmpty == base62_decode(<<>>) = 0
<1> DEFINE zero == 0
           str == <<>>
<1>1. zero \in Nat /\ str \in Seq(Digits) /\ Len(str) = zero
  OBVIOUS
<1> HIDE DEF zero, str
<1>2. FoldLeft(AddDigit, zero, str) = zero
  <2>1. PICK g \in [0 .. Len(str) -> Nat] : g[0] = zero /\ FoldLeft(AddDigit, zero, str) = g[Len(str)]
    BY <1>1, DecodeChain
  <2> QED BY <1>1, <2>1 DEF zero
<1> QED
  BY <1>2 DEF base62_decode, zero, str

\* A number has a digit for each place up to the first, and decoding gives it back.
LEMMA EncodeIs ==
    ASSUME NEW number \in Nat, number \notin {Pow[3], Pow[6]}
    PROVE  /\ base62_encode(number) \in Seq(Digits)
           /\ Len(base62_encode(number)) = TopPlace(number) + 1
           /\ base62_decode(base62_encode(number)) = number
<1> DEFINE n == TopPlace(number) + 1
           places == Downwards(TopPlace(number))
           state == [num |-> number, out |-> <<>>]
<1>1. n \in Nat /\ TopPlace(number) \in Int /\ number < Pow[n]
  <2>1. CASE number = 0 /\ TopPlace(number) = -1
    BY <2>1, PowIs
  <2>2. CASE TopPlace(number) \in Nat /\ number < Pow[TopPlace(number) + 1]
    BY <2>2
  <2> QED BY <2>1, <2>2, TopPlaceIs
<1>2. places = [i \in 1 .. n |-> n - i]
  <2>1. n \in Nat /\ TopPlace(number) + 1 = n /\ TopPlace(number) \in Int
    BY <1>1
  <2> QED BY <2>1 DEF Downwards
<1> HIDE DEF n, places
<1>3. places \in Seq(Nat) /\ Len(places) = n /\ \A i \in 1 .. n : places[i] = n - i
  <2>1. \A i \in 1 .. n : n - i \in Nat
    BY <1>1
  <2> QED BY <1>1, <1>2, <2>1
<1>4. state \in DigitStates /\ state.num = number /\ state.out = <<>>
  BY DEF DigitStates
<1> HIDE DEF state
<1>5. PICK g \in [0 .. n -> DigitStates] :
         /\ g[0] = state /\ FoldLeft(PutDigit, state, places) = g[n]
         /\ \A i \in 1 .. n : g[i] = PutDigit(g[i - 1], places[i])
  <2>1. \E g \in [0 .. Len(places) -> DigitStates] :
         /\ g[0] = state /\ FoldLeft(PutDigit, state, places) = g[Len(places)]
         /\ \A i \in 1 .. Len(places) : g[i] = PutDigit(g[i - 1], places[i])
    BY <1>3, <1>4, EncodeChain
  <2> QED BY <1>3, <2>1
<1> DEFINE Good(i) ==
             /\ Len(g[i].out) = i /\ g[i].num < Pow[n - i]
             /\ number = base62_decode(g[i].out) * Pow[n - i] + g[i].num
           S == {i \in 0 .. n : Good(i)}
<1>6. 0 \in S
  <2>1. g[0].num = number /\ g[0].out = <<>> /\ n - 0 = n /\ Pow[n] \in Nat
    <3>1. g[0].num = number /\ g[0].out = <<>>
      BY <1>4, <1>5
    <3>2. n \in Nat
      BY <1>1
    <3>3. n - 0 = n
      BY <3>2
    <3>4. Pow[n] \in Nat
      BY <3>2, PowGrows
    <3> QED BY <3>1, <3>3, <3>4
  <2>2. base62_decode(g[0].out) = 0
    BY <2>1, DecodeEmpty
  <2> QED BY <1>1, <2>1, <2>2
<1>7. ASSUME NEW i \in 0 .. n - 1, i \in S PROVE i + 1 \in S
  <2> DEFINE t == n - (i + 1)
             now == g[i]
             next == g[i + 1]
             a == now.num \div Pow[t]
  <2>1. t \in Nat /\ n - i = t + 1 /\ i + 1 \in 1 .. n /\ (i + 1) - 1 = i /\ i \in 0 .. n
    BY <1>1
  <2>2. next = PutDigit(now, t) /\ now \in DigitStates /\ now.out \in Seq(Digits) /\ now.num \in Nat
    BY <1>3, <1>5, <2>1 DEF DigitStates
  <2>3. Pow[n - i] = Base * Pow[t] /\ Pow[t] \in Nat /\ Base \in Nat
    BY <2>1, PowIs
  <2>4. Good(i)
    BY <1>7
  <2> HIDE DEF t, now, next
  <2>5. now.num < Base * Pow[t] /\ number = base62_decode(now.out) * (Base * Pow[t]) + now.num /\ Len(now.out) = i
    BY <2>3, <2>4 DEF now
  <2>6. /\ a \in Nat /\ now.num = a * Pow[t] + next.num /\ next.num < Pow[t]
        /\ a < Base /\ next.out = Append(now.out, BASE_STRING[a + 1]) /\ next \in DigitStates
    BY <2>1, <2>2, <2>5, PutDigitIs DEF t
  <2> HIDE DEF a
  <2>7. BASE_STRING[a + 1] \in Digits /\ a \in 0 .. Base - 1
    BY <2>3, <2>6 DEF Digits
  <2>8. Len(next.out) = i + 1
    BY <2>2, <2>5, <2>6, <2>7, AppendProperties
  <2>9. base62_decode(now.out) \in Nat /\ base62_decode(next.out) = base62_decode(now.out) * Base + a
    BY <2>2, <2>6, <2>7, DecodeAppend, AddDigitIs
  <2>10. number = base62_decode(next.out) * Pow[t] + next.num
    <3>1. \A v, b, w, x, r \in Nat : v * (b * w) + (x * w + r) = (v * b + x) * w + r
      OBVIOUS
    <3>2. next.num \in Nat
      BY <2>6 DEF DigitStates
    <3> QED BY SMTT(40), <2>3, <2>5, <2>6, <2>9, <3>1, <3>2
  <2>11. i + 1 \in 0 .. n
    BY <2>1
  <2> QED
    BY <2>6, <2>8, <2>10, <2>11 DEF next, t
<1>8. Good(n) /\ g[n] \in DigitStates
  <2>1. \A i \in 0 .. n : i \in S
    <3> HIDE DEF S
    <3> QED BY <1>1, <1>6, <1>7, InductUpTo
  <2> QED BY <1>1, <1>5, <2>1
<1>9. g[n].num = 0 /\ g[n].num \in Nat /\ Pow[n - n] = 1
  <2>1. n - n = 0 /\ Pow[0] = 1 /\ g[n].num \in Nat
    BY <1>1, <1>8, PowIs DEF DigitStates
  <2> QED BY <1>8, <2>1
<1>10. base62_encode(number) = g[n].out /\ g[n].out \in Seq(Digits)
  BY <1>5, <1>8 DEF base62_encode, places, state, DigitStates
<1>11. base62_decode(g[n].out) \in Nat /\ number = base62_decode(g[n].out)
  <2>1. base62_decode(g[n].out) \in Nat
    <3>1. BASE_STRING[1] \in Digits
      <4>1. 1 \in 1 .. Base
        BY PowIs
      <4> QED BY <4>1 DEF Digits
    <3> QED BY <1>10, <3>1, DecodeAppend
  <2> QED BY <1>8, <1>9, <2>1
<1> QED
  BY <1>8, <1>10, <1>11 DEF n

\* An rmid has seven digits and three, and tells its two numbers.
LEMMA RmidIs ==
    ASSUME NEW ms \in Pow[6] + 1 .. Pow[7] - 1, NEW random \in Pow[2] .. Pow[3] - 1
    PROVE  /\ createRmidCookie(ms, random) \in Seq(Digits)
           /\ Len(createRmidCookie(ms, random)) = 10
           /\ RmidOf(createRmidCookie(ms, random)) = <<ms, random>>
<1>1. \A t \in 0 .. 10 : Pow[t] \in Nat
  BY PowGrows
<1>2. /\ Pow[3] < Pow[6] /\ Pow[3] \in Nat /\ Pow[6] \in Nat /\ Pow[2] \in Nat /\ Pow[7] \in Nat
  BY <1>1, PowMonotone
<1>3. ms \in Nat /\ random \in Nat /\ ms > 0 /\ random > 0
  <2>1. Pow[2] > 2
    BY PowGrows
  <2> QED BY <1>2, <2>1
<1>4. ms \notin {Pow[3], Pow[6]} /\ random \notin {Pow[3], Pow[6]}
  BY <1>2, <1>3
<1>5. ASSUME NEW number \in Nat, NEW t \in Nat, number > 0, number \notin {Pow[3], Pow[6]},
             Pow[t] <= number, number < Pow[t + 1]
      PROVE  TopPlace(number) = t
  <2> DEFINE u == TopPlace(number)
  <2>1. u \in Nat /\ Pow[u] <= number /\ number < Pow[u + 1]
    BY <1>5, TopPlaceIs
  <2> HIDE DEF u
  <2>2. Pow[u] \in Nat /\ Pow[u + 1] \in Nat /\ Pow[t] \in Nat /\ Pow[t + 1] \in Nat
    BY <2>1, PowGrows
  <2>3. ~ (u < t)
    <3>1. u + 1 \in Nat /\ (u < t => Pow[u + 1] <= Pow[t])
      BY <2>1, PowMonotone
    <3> QED BY <1>5, <2>1, <2>2, <3>1
  <2>4. ~ (t < u)
    <3>1. t + 1 \in Nat /\ (t < u => Pow[t + 1] <= Pow[u])
      BY <2>1, PowMonotone
    <3> QED BY <1>5, <2>1, <2>2, <3>1
  <2> QED BY <2>1, <2>3, <2>4 DEF u
<1>6. TopPlace(ms) = 6 /\ TopPlace(random) = 2
  <2>1. Pow[6] <= ms /\ ms < Pow[6 + 1] /\ Pow[2] <= random /\ random < Pow[2 + 1]
    BY <1>2, <1>3
  <2> QED BY <1>3, <1>4, <1>5, <2>1
<1> DEFINE s == base62_encode(ms)
           r == base62_encode(random)
<1>7. /\ s \in Seq(Digits) /\ Len(s) = 7 /\ base62_decode(s) = ms
      /\ r \in Seq(Digits) /\ Len(r) = 3 /\ base62_decode(r) = random
  <2>1. /\ s \in Seq(Digits) /\ Len(s) = TopPlace(ms) + 1 /\ base62_decode(s) = ms
    BY <1>3, <1>4, EncodeIs
  <2>2. /\ r \in Seq(Digits) /\ Len(r) = TopPlace(random) + 1 /\ base62_decode(r) = random
    BY <1>3, <1>4, EncodeIs
  <2> HIDE DEF s, r
  <2> QED BY <1>6, <2>1, <2>2
<1> HIDE DEF s, r
<1>8. s \o r \in Seq(Digits) /\ Len(s \o r) = 10
  <2>1. s \in Seq(Digits) /\ r \in Seq(Digits) /\ Len(s) = 7 /\ Len(r) = 3
    BY <1>7
  <2>2. s \o r \in Seq(Digits) /\ Len(s \o r) = Len(s) + Len(r)
    BY <2>1, ConcatProperties
  <2> QED BY <2>1, <2>2
<1>9. SubSeq(s \o r, 1, 7) = s /\ SubSeq(s \o r, 8, 10) = r
  <2>1. s \in Seq(Digits) /\ r \in Seq(Digits) /\ Len(s) = 7 /\ Len(r) = 3
    BY <1>7
  <2>2. SubSeq(s \o r, 1, 7) = SubSeq(s, 1, 7) /\ SubSeq(s, 1, 7) = s
    <3>1. 1 \in 1 .. Len(s) /\ 7 \in 1 .. Len(s)
      BY <2>1
    <3>2. SubSeq(s \o r, 1, 7) = SubSeq(s, 1, 7)
      BY <2>1, <3>1, SubSeqOfConcat1
    <3>3. SubSeq(s, 1, Len(s)) = s
      BY <2>1, SubSeqFull
    <3> QED BY <2>1, <3>2, <3>3
  <2>3. SubSeq(s \o r, 8, 10) = SubSeq(r, 1, 3) /\ SubSeq(r, 1, 3) = r
    <3>1. 8 \in Len(s) + 1 .. Len(s) + Len(r) /\ 10 \in Len(s) + 1 .. Len(s) + Len(r)
      BY <2>1
    <3>2. SubSeq(s \o r, 8, 10) = SubSeq(r, 8 - Len(s), 10 - Len(s))
      BY <2>1, <3>1, SubSeqOfConcat2
    <3>3. SubSeq(r, 1, Len(r)) = r
      BY <2>1, SubSeqFull
    <3>4. 8 - Len(s) = 1 /\ 10 - Len(s) = 3
      BY <2>1
    <3> QED BY <2>1, <3>2, <3>3, <3>4
  <2> QED BY <2>2, <2>3
<1> QED
  BY <1>7, <1>8, <1>9 DEF createRmidCookie, RmidOf, s, r

------------------------------------------------------------------------------
(* base64 *)

\* FlattenSeq puts the sequences one behind the other.
LEMMA FlattenChain ==
    ASSUME NEW V, NEW seqs \in Seq(Seq(V))
    PROVE  \E g \in [0 .. Len(seqs) -> Seq(V)] :
              /\ g[0] = <<>> /\ FlattenSeq(seqs) = g[Len(seqs)]
              /\ \A i \in 1 .. Len(seqs) : g[i] = g[i - 1] \o seqs[i]
<1> DEFINE n == Len(seqs)
           flatten[i \in 1 .. Len(seqs)] == IF i = 1 THEN seqs[i] ELSE flatten[i - 1] \o seqs[i]
           Good(k, f) == /\ f \in [1 .. k -> Seq(V)]
                         /\ \A i \in 1 .. k : f[i] = IF i = 1 THEN seqs[i] ELSE f[i - 1] \o seqs[i]
           R == {k \in 0 .. n : \E f : Good(k, f)}
<1>1. n \in Nat /\ \A i \in 1 .. n : seqs[i] \in Seq(V)
  OBVIOUS
<1>2. \A k \in 0 .. n : k \in R
  <2>1. 0 \in R
    <3> DEFINE f == [i \in 1 .. 0 |-> <<>>]
    <3>1. Good(0, f)
      OBVIOUS
    <3> HIDE DEF Good, f
    <3> QED BY <1>1, <3>1
  <2>2. ASSUME NEW k \in 0 .. n - 1, k \in R PROVE k + 1 \in R
    <3>1. PICK f : Good(k, f)
      BY <2>2
    <3> DEFINE e == IF k = 0 THEN seqs[1] ELSE f[k] \o seqs[k + 1]
               g == [i \in 1 .. k + 1 |-> IF i = k + 1 THEN e ELSE f[i]]
    <3>2. k + 1 \in 1 .. n /\ (k # 0 => k \in 1 .. k) /\ seqs[k + 1] \in Seq(V)
      BY <1>1
    <3>3. e \in Seq(V)
      <4>1. CASE k = 0
        BY <3>2, <4>1
      <4>2. CASE k # 0
        <5>1. f[k] \in Seq(V)
          BY <3>1, <3>2, <4>2
        <5> QED BY <3>2, <4>2, <5>1, ConcatProperties
      <4> QED BY <4>1, <4>2
    <3>4. ASSUME NEW i \in 1 .. k + 1
          PROVE  g[i] = IF i = 1 THEN seqs[i] ELSE g[i - 1] \o seqs[i]
      <4>1. CASE i = k + 1
        <5>1. g[i] = e /\ (i = 1 <=> k = 0) /\ i - 1 = k
          BY <4>1
        <5>2. k # 0 => g[k] = f[k]
          BY <3>2
        <5> QED BY <4>1, <5>1, <5>2
      <4>2. CASE i # k + 1
        <5>1. i \in 1 .. k /\ g[i] = f[i] /\ (i # 1 => g[i - 1] = f[i - 1])
          BY <4>2
        <5> HIDE DEF g
        <5> QED BY <3>1, <5>1
      <4> QED BY <4>1, <4>2
    <3>5. g \in [1 .. k + 1 -> Seq(V)]
      <4> HIDE DEF e
      <4> QED BY <3>1, <3>3
    <3>6. Good(k + 1, g)
      <4> HIDE DEF g
      <4> QED BY <3>4, <3>5
    <3>7. k + 1 \in 0 .. n
      BY <3>2
    <3> HIDE DEF Good, g
    <3> QED BY <3>6, <3>7
  <2> HIDE DEF R, n
  <2> QED BY <1>1, <2>1, <2>2, InductUpTo
<1>3. flatten = [i \in 1 .. n |-> IF i = 1 THEN seqs[i] ELSE flatten[i - 1] \o seqs[i]]
  <2>1. PICK f : Good(n, f)
    <3> HIDE DEF Good
    <3> QED BY <1>1, <1>2
  <2>2. f = [i \in 1 .. n |-> IF i = 1 THEN seqs[i] ELSE f[i - 1] \o seqs[i]]
    BY <2>1
  <2>3. \E h : h = [i \in 1 .. Len(seqs) |-> IF i = 1 THEN seqs[i] ELSE h[i - 1] \o seqs[i]]
    BY <2>2
  <2> QED BY <2>3
<1> HIDE DEF flatten
<1> DEFINE g == [i \in 0 .. n |-> IF i = 0 THEN <<>> ELSE flatten[i]]
           S == {i \in 0 .. n : g[i] \in Seq(V) /\ (i # 0 => g[i] = g[i - 1] \o seqs[i])}
<1>4. \A i \in 0 .. n : i \in S
  <2>1. 0 \in S
    BY <1>1
  <2>2. ASSUME NEW i \in 0 .. n - 1, i \in S PROVE i + 1 \in S
    <3>1. /\ i + 1 \in 1 .. n /\ i + 1 \in 0 .. n /\ (i + 1) - 1 = i /\ i \in 0 .. n
          /\ seqs[i + 1] \in Seq(V)
      BY <1>1
    <3>2. g[i + 1] = flatten[i + 1] /\ g[0] = <<>> /\ (i # 0 => g[i] = flatten[i])
      BY <1>1, <3>1
    <3> HIDE DEF g
    <3>3. g[i] \in Seq(V)
      BY <2>2
    <3>4. g[i + 1] = g[i] \o seqs[i + 1]
      <4>1. CASE i = 0
        <5>1. flatten[1] = seqs[1]
          BY <1>3, <3>1, <4>1
        <5>2. <<>> \o seqs[1] = seqs[1]
          BY <3>1, <4>1, ConcatEmptySeq
        <5>3. i + 1 = 1
          BY <4>1
        <5> QED BY <3>2, <4>1, <5>1, <5>2, <5>3
      <4>2. CASE i # 0
        <5>1. i + 1 # 1
          BY <3>1, <4>2
        <5>2. flatten[i + 1] = flatten[(i + 1) - 1] \o seqs[i + 1]
          BY <1>3, <3>1, <5>1
        <5> QED BY <3>1, <3>2, <4>2, <5>2
      <4> QED BY <4>1, <4>2
    <3>5. g[i + 1] \in Seq(V)
      BY <3>1, <3>3, <3>4, ConcatProperties
    <3> QED BY <3>1, <3>4, <3>5
  <2> HIDE DEF S, n
  <2> QED BY <1>1, <2>1, <2>2, InductUpTo
<1>5. g \in [0 .. n -> Seq(V)] /\ g[0] = <<>>
  <2>1. g = [i \in 0 .. n |-> g[i]] /\ g[0] = <<>>
    BY <1>1
  <2> HIDE DEF g, n
  <2>2. \A i \in 0 .. n : g[i] \in Seq(V)
    BY <1>4
  <2> QED BY <2>1, <2>2
<1>6. ASSUME NEW i \in 1 .. n PROVE g[i] = g[i - 1] \o seqs[i]
  <2>1. i \in S /\ i # 0
    <3> HIDE DEF S
    <3> QED BY <1>1, <1>4
  <2> QED BY <2>1
<1>7. FlattenSeq(seqs) = g[n]
  <2>1. CASE n = 0
    BY <2>1 DEF FlattenSeq
  <2>2. CASE n # 0
    <3>1. FlattenSeq(seqs) = flatten[n]
      BY <2>2 DEF FlattenSeq, flatten
    <3> QED BY <1>1, <2>2, <3>1
  <2> QED BY <2>1, <2>2
<1> QED
  <2> HIDE DEF g
  <2> QED BY <1>5, <1>6, <1>7

\* If they all have the same length, each is found at its multiple.
LEMMA FlattenGroups ==
    ASSUME NEW V, NEW seqs \in Seq(Seq(V)), NEW w \in Nat,
           \A i \in 1 .. Len(seqs) : Len(seqs[i]) = w
    PROVE  /\ FlattenSeq(seqs) \in Seq(V) /\ Len(FlattenSeq(seqs)) = w * Len(seqs)
           /\ \A k \in 1 .. Len(seqs), j \in 1 .. w :
                 FlattenSeq(seqs)[w * (k - 1) + j] = seqs[k][j]
<1> DEFINE n == Len(seqs)
<1>1. n \in Nat /\ \A i \in 1 .. n : seqs[i] \in Seq(V) /\ Len(seqs[i]) = w
  OBVIOUS
<1>2. PICK g \in [0 .. n -> Seq(V)] :
         /\ g[0] = <<>> /\ FlattenSeq(seqs) = g[n]
         /\ \A i \in 1 .. n : g[i] = g[i - 1] \o seqs[i]
  BY FlattenChain
<1> HIDE DEF n
<1> DEFINE Good(i) == /\ Len(g[i]) = w * i
                      /\ \A k \in 1 .. i, j \in 1 .. w : g[i][w * (k - 1) + j] = seqs[k][j]
           S == {i \in 0 .. n : Good(i)}
<1>3. 0 \in S
  BY <1>1, <1>2
<1>4. ASSUME NEW i \in 0 .. n - 1, i \in S PROVE i + 1 \in S
  <2>1. /\ i + 1 \in 1 .. n /\ i + 1 \in 0 .. n /\ (i + 1) - 1 = i /\ i \in 0 .. n
    BY <1>1
  <2>2. /\ g[i] \in Seq(V) /\ seqs[i + 1] \in Seq(V) /\ Len(seqs[i + 1]) = w
        /\ g[i + 1] = g[i] \o seqs[i + 1]
    BY <1>1, <1>2, <2>1
  <2>3. Good(i)
    BY <1>4
  <2>4. w * i \in Nat /\ w * (i + 1) = w * i + w
    OBVIOUS
  <2> DEFINE v == w * i
  <2>5. v \in Nat /\ Len(g[i]) = v
    BY <2>3, <2>4
  <2> HIDE DEF v
  <2>51. /\ Len(g[i + 1]) = v + w
         /\ \A p \in 1 .. v + w : g[i + 1][p] = IF p <= v THEN g[i][p] ELSE seqs[i + 1][p - v]
    <3> DEFINE e == g[i]
               d == seqs[i + 1]
    <3>1. e \in Seq(V) /\ d \in Seq(V) /\ Len(e) = v /\ Len(d) = w /\ g[i + 1] = e \o d
      BY <2>2, <2>5
    <3> HIDE DEF e, d
    <3>2. /\ Len(e \o d) = Len(e) + Len(d)
          /\ \A p \in 1 .. Len(e) + Len(d) :
                (e \o d)[p] = IF p <= Len(e) THEN e[p] ELSE d[p - Len(e)]
      BY <3>1, ConcatProperties
    <3>3. /\ Len(g[i + 1]) = v + w
          /\ \A p \in 1 .. v + w : g[i + 1][p] = IF p <= v THEN e[p] ELSE d[p - v]
      BY <3>1, <3>2
    <3> QED BY <3>3 DEF e, d
  <2>6. ASSUME NEW k \in 1 .. i + 1, NEW j \in 1 .. w
        PROVE  g[i + 1][w * (k - 1) + j] = seqs[k][j]
    <3> DEFINE p == w * (k - 1) + j
    <3>1. CASE k <= i
      <4> DEFINE u == w * (k - 1)
      <4>1. u \in Nat /\ u + w <= v
        <5>1. w * (k - 1) + w = w * k /\ w * (k - 1) \in Nat
          OBVIOUS
        <5>2. w * k <= w * i
          BY <3>1
        <5> QED BY <5>1, <5>2 DEF v
      <4>2. p \in 1 .. v + w /\ p <= v
        <5>1. p = u + j
          OBVIOUS
        <5> HIDE DEF u, p
        <5> QED BY <2>5, <4>1, <5>1
      <4>3. k \in 1 .. i
        BY <3>1
      <4> HIDE DEF p
      <4>4. g[i + 1][p] = g[i][p]
        BY <2>51, <4>2
      <4> QED BY <2>3, <4>3, <4>4 DEF p
    <3>2. CASE ~ (k <= i)
      <4>1. k = i + 1 /\ k - 1 = i
        BY <3>2
      <4>2. p = v + j
        BY <4>1 DEF v
      <4> HIDE DEF p
      <4>3. p \in 1 .. v + w /\ ~ (p <= v) /\ p - v = j
        BY <2>5, <4>2
      <4>4. g[i + 1][p] = seqs[i + 1][j]
        BY <2>51, <4>3
      <4> QED BY <4>1, <4>4 DEF p
    <3> QED BY <3>1, <3>2
  <2> QED
    BY <2>1, <2>4, <2>51, <2>6 DEF v
<1>5. Good(n) /\ g[n] \in Seq(V)
  <2>1. \A i \in 0 .. n : i \in S
    <3> HIDE DEF S
    <3> QED BY <1>1, <1>3, <1>4, InductUpTo
  <2> HIDE DEF Good
  <2> QED BY <1>1, <1>2, <2>1
<1> QED
  BY <1>2, <1>5 DEF n

\* Base64 characters, and these and the padding.
Sextet == 0 .. 63
Code   == 0 .. 64

\* The bits of three bytes: an octet depends on two sextets only.
LEMMA SextetsToOctets ==
    ASSUME NEW b1 \in Char, NEW b2 \in Char, NEW b3 \in Char, NEW x \in Char, NEW y \in Char
    PROVE  LET s == Sextets(b1, b2, b3)
           IN  /\ s \in Seq(Sextet) /\ Len(s) = 4
               /\ Octets(s[1], s[2], s[3], s[4]) = <<b1, b2, b3>>
               /\ Octets(s[1], s[2], s[3], y)[2] = b2
               /\ Octets(s[1], s[2], s[3], y)[1] = b1
               /\ Octets(s[1], s[2], x, y)[1] = b1
<1> DEFINE s == Sextets(b1, b2, b3)
<1>1. /\ b1 \in 0 .. 255 /\ b2 \in 0 .. 255 /\ b3 \in 0 .. 255
  BY DEF Char
<1>2. /\ s[1] = b1 \div 4 /\ s[2] = (b1 % 4) * 16 + (b2 \div 16)
      /\ s[3] = (b2 % 16) * 4 + (b3 \div 64) /\ s[4] = b3 % 64
      /\ s = <<s[1], s[2], s[3], s[4]>>
  BY DEF Sextets
<1> HIDE DEF s
<1>3. s[1] \in 0 .. 63 /\ s[2] \in 0 .. 63 /\ s[3] \in 0 .. 63 /\ s[4] \in 0 .. 63
  BY <1>1, <1>2
<1>4. (s[1] * 4 + ((s[2] \div 16) % 4)) % 256 = b1
  BY <1>1, <1>2
<1>5. ((s[2] % 16) * 16 + ((s[3] \div 4) % 16)) % 256 = b2
  BY <1>1, <1>2
<1>6. ((s[3] % 4) * 64 + s[4]) % 256 = b3
  BY <1>1, <1>2
<1>7. s \in Seq(Sextet) /\ Len(s) = 4
  <2>1. \A a, b, c, d \in Sextet : <<a, b, c, d>> \in Seq(Sextet) /\ Len(<<a, b, c, d>>) = 4
    OBVIOUS
  <2> DEFINE t == <<s[1], s[2], s[3], s[4]>>
  <2>2. t \in Seq(Sextet) /\ Len(t) = 4
    BY <1>3, <2>1 DEF Sextet
  <2>3. s = t
    BY <1>2
  <2> HIDE DEF t
  <2> QED BY <2>2, <2>3
<1> QED
  BY <1>4, <1>5, <1>6, <1>7 DEF Octets, s

ByteAt(data, n) == IF n <= Len(data) THEN data[n] ELSE 0
Group(data, k) == Sextets(ByteAt(data, 3 * k - 2), ByteAt(data, 3 * k - 1), ByteAt(data, 3 * k))
Tail64(data) ==
    SubSeq(Group(data, (Len(data) \div 3) + 1), 1, (Len(data) % 3) + 1)
       \o [n \in 1 .. 3 - (Len(data) % 3) |-> Pad]

LEMMA GroupIs ==
    ASSUME NEW data \in Seq(Char), NEW k \in Nat \ {0}
    PROVE  /\ ByteAt(data, 3 * k - 2) \in Char /\ ByteAt(data, 3 * k - 1) \in Char
           /\ ByteAt(data, 3 * k) \in Char
           /\ Group(data, k) \in Seq(Sextet) /\ Len(Group(data, k)) = 4
<1>1. \A n \in Nat \ {0} : ByteAt(data, n) \in Char
  <2>1. 0 \in Char
    BY DEF Char
  <2>2. \A n \in Nat \ {0} : n <= Len(data) => data[n] \in Char
    OBVIOUS
  <2> QED BY <2>1, <2>2 DEF ByteAt
<1>2. 3 * k - 2 \in Nat \ {0} /\ 3 * k - 1 \in Nat \ {0} /\ 3 * k \in Nat \ {0}
  OBVIOUS
<1>3. /\ ByteAt(data, 3 * k - 2) \in Char /\ ByteAt(data, 3 * k - 1) \in Char
      /\ ByteAt(data, 3 * k) \in Char
  BY <1>1, <1>2
<1> QED
  BY <1>3, SextetsToOctets DEF Group

\* The tail of a text: what is left of the bytes, and padding up to four.
LEMMA TailIs ==
    ASSUME NEW data \in Seq(Char), Len(data) % 3 # 0
    PROVE  LET i == Len(data) % 3
               group == Group(data, (Len(data) \div 3) + 1)
           IN  /\ Tail64(data) \in Seq(Code) /\ Len(Tail64(data)) = 4
               /\ \A j \in 1 .. 4 : Tail64(data)[j] = IF j <= i + 1 THEN group[j] ELSE Pad
<1> DEFINE i == Len(data) % 3
           group == Group(data, (Len(data) \div 3) + 1)
           front == SubSeq(group, 1, i + 1)
           pads == [n \in 1 .. 3 - i |-> Pad]
<1>1. i \in 1 .. 2 /\ Len(data) \div 3 + 1 \in Nat \ {0}
  OBVIOUS
<1>2. group \in Seq(Sextet) /\ Len(group) = 4
  BY <1>1, GroupIs
<1> HIDE DEF i, group
<1>3. group \in Seq(Code) /\ Pad \in Code
  <2>1. Sextet \subseteq Code
    BY DEF Sextet, Code
  <2>2. Pad \in Code
    BY DEF Pad, Code
  <2> QED BY <1>2, <2>1, <2>2, SeqMonotonic
<1>4. front \in Seq(Code) /\ Len(front) = i + 1 /\ \A j \in 1 .. i + 1 : front[j] = group[j]
  <2>1. 1 \in Int /\ i + 1 \in Int /\ \A j \in 1 .. i + 1 : group[j] \in Code
    <3>1. \A j \in 1 .. i + 1 : j \in 1 .. Len(group)
      BY <1>1, <1>2
    <3> QED BY <1>1, <1>3, <3>1, ElementOfSeq
  <2>2. /\ front \in Seq(Code) /\ Len(front) = IF 1 <= i + 1 THEN (i + 1) - 1 + 1 ELSE 0
        /\ \A j \in 1 .. (i + 1) - 1 + 1 : front[j] = group[1 + j - 1]
    BY <2>1, SubSeqProperties
  <2>3. 1 <= i + 1 /\ (i + 1) - 1 + 1 = i + 1 /\ \A j \in 1 .. i + 1 : 1 + j - 1 = j
    BY <1>1
  <2> HIDE DEF front
  <2> QED BY <2>2, <2>3
<1>5. pads \in Seq(Code) /\ Len(pads) = 3 - i /\ \A j \in 1 .. 3 - i : pads[j] = Pad
  <2>1. 3 - i \in Nat
    BY <1>1
  <2> QED BY <1>3, <2>1
<1> HIDE DEF front, pads
<1>6. /\ front \o pads \in Seq(Code) /\ Len(front \o pads) = Len(front) + Len(pads)
      /\ \A j \in 1 .. Len(front) + Len(pads) :
            (front \o pads)[j] = IF j <= Len(front) THEN front[j] ELSE pads[j - Len(front)]
  BY <1>4, <1>5, ConcatProperties
<1>7. Len(front) + Len(pads) = 4
  BY <1>1, <1>4, <1>5
<1>8. ASSUME NEW j \in 1 .. 4
      PROVE  (front \o pads)[j] = IF j <= i + 1 THEN group[j] ELSE Pad
  <2>1. CASE j <= i + 1
    BY <1>1, <1>4, <1>6, <1>7, <2>1
  <2>2. CASE ~ (j <= i + 1)
    <3>1. j - (i + 1) \in 1 .. 3 - i
      BY <1>1, <2>2
    <3> QED BY <1>4, <1>5, <1>6, <1>7, <2>2, <3>1
  <2> QED BY <2>1, <2>2
<1>9. Tail64(data) = front \o pads
  BY DEF Tail64, front, pads, group, i
<1> QED
  BY <1>6, <1>7, <1>8, <1>9 DEF i, group

\* The text of some bytes, character by character.
LEMMA TextIs ==
    ASSUME NEW data \in Seq(Char)
    PROVE  LET i    == Len(data) % 3
               full == Len(data) \div 3
               text == base64_encode(data)
           IN  /\ text \in Seq(Code) /\ Len(text) = 4 * full + (IF i = 0 THEN 0 ELSE 4)
               /\ \A k \in 1 .. full, j \in 1 .. 4 : text[4 * (k - 1) + j] = Group(data, k)[j]
               /\ i # 0 => \A j \in 1 .. 4 : text[4 * full + j] =
                                                IF j <= i + 1 THEN Group(data, full + 1)[j] ELSE Pad
<1> DEFINE i    == Len(data) % 3
           full == Len(data) \div 3
           text == base64_encode(data)
           groups == [k \in 1 .. full |-> Group(data, k)]
           front == FlattenSeq(groups)
           rest == IF i = 0 THEN <<>> ELSE Tail64(data)
<1>1. i \in 0 .. 2 /\ full \in Nat
  OBVIOUS
<1>2. text = front \o rest
  BY DEF base64_encode, Group, ByteAt, Tail64
<1>3. groups \in Seq(Seq(Code)) /\ Len(groups) = full
      /\ \A k \in 1 .. full : groups[k] = Group(data, k) /\ Len(groups[k]) = 4
  <2>1. \A k \in 1 .. full : Group(data, k) \in Seq(Code) /\ Len(Group(data, k)) = 4
    <3>1. Sextet \subseteq Code
      BY DEF Sextet, Code
    <3>2. \A k \in 1 .. full : Group(data, k) \in Seq(Sextet) /\ Len(Group(data, k)) = 4
      BY <1>1, GroupIs
    <3> QED BY <3>1, <3>2, SeqMonotonic
  <2> HIDE DEF full
  <2> QED BY <1>1, <2>1
<1>4. /\ rest \in Seq(Code) /\ Len(rest) = IF i = 0 THEN 0 ELSE 4
      /\ i # 0 => \A j \in 1 .. 4 : rest[j] = IF j <= i + 1 THEN Group(data, full + 1)[j] ELSE Pad
  <2>1. CASE i = 0
    <3>1. rest = <<>>
      BY <2>1
    <3> HIDE DEF rest, i
    <3> QED BY <2>1, <3>1
  <2>2. CASE i # 0
    <3>1. rest = Tail64(data)
      BY <2>2
    <3>2. /\ Tail64(data) \in Seq(Code) /\ Len(Tail64(data)) = 4
          /\ \A j \in 1 .. 4 : Tail64(data)[j] = IF j <= i + 1 THEN Group(data, full + 1)[j] ELSE Pad
      BY <2>2, TailIs
    <3> HIDE DEF rest, i, full
    <3> QED BY <2>2, <3>1, <3>2
  <2> QED BY <2>1, <2>2
<1> HIDE DEF i, full, groups, rest, text
<1>5. /\ front \in Seq(Code) /\ Len(front) = 4 * full
      /\ \A k \in 1 .. full, j \in 1 .. 4 : front[4 * (k - 1) + j] = groups[k][j]
  <2> DEFINE w == 4
  <2>1. w \in Nat /\ \A k \in 1 .. Len(groups) : Len(groups[k]) = w
    BY <1>3
  <2> HIDE DEF w
  <2>2. /\ FlattenSeq(groups) \in Seq(Code) /\ Len(FlattenSeq(groups)) = w * Len(groups)
        /\ \A k \in 1 .. Len(groups), j \in 1 .. w :
              FlattenSeq(groups)[w * (k - 1) + j] = groups[k][j]
    BY ZenonT(40), <1>3, <2>1, FlattenGroups
  <2> QED BY <1>3, <2>2 DEF w
<1> HIDE DEF front
<1>6. front \in Seq(Code) /\ rest \in Seq(Code)
  BY <1>4, <1>5
<1>7. Len(front) = 4 * full /\ Len(rest) = IF i = 0 THEN 0 ELSE 4
  BY <1>4, <1>5
<1>8. /\ text \in Seq(Code) /\ Len(text) = Len(front) + Len(rest)
      /\ \A p \in 1 .. Len(front) + Len(rest) :
            text[p] = IF p <= Len(front) THEN front[p] ELSE rest[p - Len(front)]
  BY <1>2, <1>6, ConcatProperties
<1>9. ASSUME NEW k \in 1 .. full, NEW j \in 1 .. 4
      PROVE  text[4 * (k - 1) + j] = Group(data, k)[j]
  <2> DEFINE p == 4 * (k - 1) + j
  <2>1. p \in 1 .. Len(front) + Len(rest) /\ p <= Len(front)
    BY <1>1, <1>7
  <2>2. front[p] = Group(data, k)[j]
    BY <1>3, <1>5
  <2> HIDE DEF p
  <2>3. text[p] = front[p]
    BY <1>8, <2>1
  <2> QED BY <2>2, <2>3 DEF p
<1>10. ASSUME i # 0, NEW j \in 1 .. 4
       PROVE  text[4 * full + j] = IF j <= i + 1 THEN Group(data, full + 1)[j] ELSE Pad
  <2> DEFINE p == 4 * full + j
  <2>1. p \in 1 .. Len(front) + Len(rest) /\ ~ (p <= Len(front)) /\ p - Len(front) = j
    BY <1>1, <1>7, <1>10
  <2> HIDE DEF p
  <2>2. text[p] = rest[j]
    BY <1>8, <2>1
  <2> QED BY <1>4, <1>10, <2>2 DEF p
<1>11. Len(text) = 4 * full + (IF i = 0 THEN 0 ELSE 4)
  BY <1>7, <1>8
<1>12. text \in Seq(Code)
  BY <1>8
<1> QED
  BY <1>9, <1>10, <1>11, <1>12 DEF i, full, text

CharAt(text, len, n) == IF n <= len THEN text[n] ELSE 255
Ungroup(text, len, k) ==
    Octets(CharAt(text, len, 4 * k - 3), CharAt(text, len, 4 * k - 2),
           CharAt(text, len, 4 * k - 1), CharAt(text, len, 4 * k))

\* Decoding, once the place of the first character that is not of base64 is known.
LEMMA DecodeIs ==
    ASSUME NEW text \in Seq(Code), NEW len \in 0 .. Len(text),
           \A n \in 1 .. len : text[n] # Pad, \A n \in len + 1 .. Len(text) : text[n] = Pad
    PROVE  base64_decode(text) =
              FlattenSeq([k \in 1 .. len \div 4 |-> Ungroup(text, len, k)])
                \o (IF len % 4 = 0 THEN <<>>
                    ELSE SubSeq(Ungroup(text, len, (len \div 4) + 1), 1, (len % 4) - 1))
<1> DEFINE ends == {n \in 1 .. Len(text) : ~is_base64(text[n])}
           cut  == IF ends = {} THEN Len(text) ELSE Min(ends) - 1
<1>1. Len(text) \in Nat /\ \A n \in 1 .. Len(text) : text[n] \in Code
  BY ElementOfSeq
<1>2. \A n \in 1 .. Len(text) : ~is_base64(text[n]) <=> text[n] = Pad
  <2>1. \A c \in Code : ~is_base64(c) <=> c = Pad
    BY DEF is_base64, Code, Pad
  <2> QED BY <1>1, <2>1
<1>3. ends = len + 1 .. Len(text)
  BY <1>1, <1>2
<1> HIDE DEF ends
<1>4. cut = len
  <2>1. CASE len = Len(text)
    <3>1. ends = {}
      BY <1>1, <1>3, <2>1
    <3> QED BY <2>1, <3>1
  <2>2. CASE len # Len(text)
    <3>1. len + 1 \in ends /\ ends \subseteq Nat
      BY <1>1, <1>3, <2>2
    <3>2. Min(ends) \in ends /\ \A y \in ends : Min(ends) <= y
      BY <3>1, MinOf
    <3>3. Min(ends) = len + 1
      BY <1>1, <1>3, <3>1, <3>2
    <3> QED BY <3>1, <3>3
  <2> QED BY <2>1, <2>2
<1>5. base64_decode(text) =
         FlattenSeq([k \in 1 .. cut \div 4 |-> Ungroup(text, cut, k)])
           \o (IF cut % 4 = 0 THEN <<>>
               ELSE SubSeq(Ungroup(text, cut, (cut \div 4) + 1), 1, (cut % 4) - 1))
  BY DEF base64_decode, Ungroup, CharAt, TailBytes, cut, ends
<1> QED
  <2> HIDE DEF cut
  <2> QED BY <1>4, <1>5

\* Bytes come back, with as much of the padding as is left.
LEMMA Base64ComesBack ==
    ASSUME NEW data \in Seq(Char), NEW m \in 0 .. Len(base64_encode(data)),
           \A p \in m + 1 .. Len(base64_encode(data)) : base64_encode(data)[p] = Pad
    PROVE  /\ base64_decode(SubSeq(base64_encode(data), 1, m)) = data
           /\ Len(base64_encode(data)) % 4 = 0
<1> DEFINE n == Len(data)
           i    == n % 3
           full == n \div 3
           text == base64_encode(data)
           len  == 4 * full + (IF i = 0 THEN 0 ELSE i + 1)
           sub  == SubSeq(text, 1, m)
<1>1. n \in Nat /\ i \in 0 .. 2 /\ full \in Nat /\ n = 3 * full + i /\ \A p \in 1 .. n : data[p] \in Char
  OBVIOUS
<1>2. /\ text \in Seq(Code) /\ Len(text) = 4 * full + (IF i = 0 THEN 0 ELSE 4)
      /\ \A k \in 1 .. full, j \in 1 .. 4 : text[4 * (k - 1) + j] = Group(data, k)[j]
      /\ i # 0 => \A j \in 1 .. 4 : text[4 * full + j] =
                                       IF j <= i + 1 THEN Group(data, full + 1)[j] ELSE Pad
  BY TextIs
<1>3. m \in 0 .. Len(text) /\ \A p \in m + 1 .. Len(text) : text[p] = Pad
  OBVIOUS
<1> HIDE DEF n, i, full, text
<1>4. len \in Nat /\ len <= Len(text) /\ len \div 4 = full /\ len % 4 = IF i = 0 THEN 0 ELSE i + 1
  <2>1. CASE i = 0
    <3>1. len = 4 * full /\ Len(text) = 4 * full
      BY <1>1, <1>2, <2>1
    <3> HIDE DEF len
    <3> QED BY <1>1, <2>1, <3>1
  <2>2. CASE i # 0
    <3>1. len = 4 * full + (i + 1) /\ Len(text) = 4 * full + 4
      BY <1>1, <1>2, <2>2
    <3> HIDE DEF len
    <3> QED BY <1>1, <2>2, <3>1
  <2> QED BY <2>1, <2>2
<1>5. ASSUME NEW k \in Nat \ {0}, NEW j \in 1 .. 4 PROVE Group(data, k)[j] # Pad
  <2>1. Group(data, k)[j] \in Sextet
    BY GroupIs, ElementOfSeq
  <2>2. \A x \in Sextet : x # Pad
    BY DEF Sextet, Pad
  <2> QED BY <2>1, <2>2
<1>6. ASSUME NEW p \in 1 .. len PROVE text[p] # Pad
  <2>1. CASE p <= 4 * full
    <3> DEFINE k == ((p - 1) \div 4) + 1
               j == ((p - 1) % 4) + 1
    <3>1. k \in 1 .. full /\ j \in 1 .. 4 /\ p = 4 * (k - 1) + j
      BY <1>1, <1>4, <2>1
    <3> HIDE DEF k, j
    <3>2. text[p] = Group(data, k)[j]
      BY <1>2, <3>1
    <3>3. k \in Nat \ {0}
      BY <1>1, <3>1
    <3> QED BY <1>5, <3>1, <3>2, <3>3
  <2>2. CASE ~ (p <= 4 * full)
    <3> DEFINE j == p - 4 * full
    <3>1. i # 0 /\ j \in 1 .. 4 /\ j <= i + 1 /\ p = 4 * full + j
      BY <1>1, <1>4, <2>2
    <3> HIDE DEF j
    <3>2. text[p] = Group(data, full + 1)[j]
      BY <1>2, <3>1
    <3>3. full + 1 \in Nat \ {0}
      BY <1>1
    <3> QED BY <1>5, <3>1, <3>2, <3>3
  <2> QED BY <2>1, <2>2
<1>7. ASSUME NEW p \in len + 1 .. Len(text) PROVE text[p] = Pad
  <2> DEFINE j == p - 4 * full
  <2>1. i # 0 /\ j \in 1 .. 4 /\ ~ (j <= i + 1) /\ p = 4 * full + j
    <3>1. Len(text) = IF i = 0 THEN 4 * full ELSE 4 * full + 4
      BY <1>1, <1>2
    <3>2. len = IF i = 0 THEN 4 * full ELSE 4 * full + i + 1
      BY <1>1
    <3> HIDE DEF len
    <3> QED BY <1>1, <3>1, <3>2
  <2> HIDE DEF j
  <2> QED BY <1>2, <2>1
<1> HIDE DEF len
<1>8. len <= m
  <2> SUFFICES ASSUME len > m PROVE FALSE
    BY <1>3, <1>4
  <2>1. len \in m + 1 .. Len(text) /\ len \in 1 .. len
    BY <1>3, <1>4
  <2> QED BY <1>3, <1>6, <2>1
<1>9. sub \in Seq(Code) /\ Len(sub) = m /\ \A p \in 1 .. m : sub[p] = text[p]
  <2>1. \A p \in 1 .. m : text[p] \in Code
    <3>1. \A p \in 1 .. m : p \in 1 .. Len(text)
      BY <1>3
    <3> QED BY <1>2, <3>1, ElementOfSeq
  <2>2. m \in Int /\ 1 \in Int /\ m \in Nat
    BY <1>3
  <2>3. /\ sub \in Seq(Code) /\ Len(sub) = IF 1 <= m THEN m - 1 + 1 ELSE 0
        /\ \A p \in 1 .. m - 1 + 1 : sub[p] = text[1 + p - 1]
    BY <2>1, <2>2, SubSeqProperties
  <2> HIDE DEF sub
  <2>4. m - 1 + 1 = m /\ \A p \in 1 .. m : 1 + p - 1 = p
    BY <2>2
  <2> QED BY <2>2, <2>3, <2>4
<1> HIDE DEF sub
<1>10. /\ len \in 0 .. Len(sub) /\ \A p \in 1 .. len : sub[p] # Pad /\ sub[p] = text[p]
       /\ \A p \in len + 1 .. Len(sub) : sub[p] = Pad
  <2>1. len \in 0 .. Len(sub) /\ \A p \in 1 .. len : p \in 1 .. m
    BY <1>3, <1>4, <1>8, <1>9
  <2>2. \A p \in len + 1 .. Len(sub) : p \in 1 .. m /\ p \in len + 1 .. Len(text)
    BY <1>3, <1>4, <1>8, <1>9
  <2> QED BY <1>6, <1>7, <1>9, <2>1, <2>2
<1> DEFINE groups == [k \in 1 .. full |-> Ungroup(sub, len, k)]
           front == FlattenSeq(groups)
           rest  == IF i = 0 THEN <<>> ELSE SubSeq(Ungroup(sub, len, full + 1), 1, i)
<1>11. base64_decode(sub) = front \o rest
  <2>1. base64_decode(sub) =
              FlattenSeq([k \in 1 .. len \div 4 |-> Ungroup(sub, len, k)])
                \o (IF len % 4 = 0 THEN <<>>
                    ELSE SubSeq(Ungroup(sub, len, (len \div 4) + 1), 1, (len % 4) - 1))
    BY <1>9, <1>10, DecodeIs
  <2>2. len \div 4 = full
    BY <1>4
  <2>3. CASE i = 0
    <3>1. len % 4 = 0
      BY <1>4, <2>3
    <3> QED BY <2>1, <2>2, <2>3, <3>1
  <2>4. CASE i # 0
    <3>1. len % 4 # 0 /\ (len % 4) - 1 = i
      BY <1>1, <1>4, <2>4
    <3> QED BY <2>1, <2>2, <2>4, <3>1
  <2> QED BY <2>3, <2>4
<1>12. ASSUME NEW p \in Nat \ {0}, p <= len PROVE CharAt(sub, len, p) = text[p]
  <2>1. p \in 1 .. len
    BY <1>4, <1>12
  <2> QED BY <1>10, <1>12, <2>1 DEF CharAt
<1>13. ASSUME NEW k \in 1 .. full
       PROVE  Ungroup(sub, len, k) = <<data[3 * k - 2], data[3 * k - 1], data[3 * k]>>
  <2>1. /\ 4 * k - 3 \in Nat \ {0} /\ 4 * k - 2 \in Nat \ {0} /\ 4 * k - 1 \in Nat \ {0}
        /\ 4 * k \in Nat \ {0} /\ k \in Nat \ {0} /\ 4 * k <= len
    BY <1>1 DEF len
  <2>2. 4 * k - 3 <= len /\ 4 * k - 2 <= len /\ 4 * k - 1 <= len
    BY <1>4, <2>1
  <2>3. /\ 4 * (k - 1) + 1 = 4 * k - 3 /\ 4 * (k - 1) + 2 = 4 * k - 2
        /\ 4 * (k - 1) + 3 = 4 * k - 1 /\ 4 * (k - 1) + 4 = 4 * k
    BY <1>1
  <2> DEFINE s == Group(data, k)
  <2>4. text[4 * k - 3] = s[1] /\ text[4 * k - 2] = s[2] /\ text[4 * k - 1] = s[3] /\ text[4 * k] = s[4]
    BY <1>2, <2>3
  <2>5. /\ ByteAt(data, 3 * k - 2) = data[3 * k - 2] /\ ByteAt(data, 3 * k - 1) = data[3 * k - 1]
        /\ ByteAt(data, 3 * k) = data[3 * k]
    BY <1>1 DEF ByteAt, n
  <2>6. Octets(s[1], s[2], s[3], s[4]) = <<ByteAt(data, 3 * k - 2), ByteAt(data, 3 * k - 1),
                                           ByteAt(data, 3 * k)>>
    <3>1. /\ ByteAt(data, 3 * k - 2) \in Char /\ ByteAt(data, 3 * k - 1) \in Char
          /\ ByteAt(data, 3 * k) \in Char /\ 0 \in Char
      BY <2>1, GroupIs DEF Char
    <3> QED BY <3>1, SextetsToOctets DEF Group
  <2>7. Ungroup(sub, len, k) = Octets(s[1], s[2], s[3], s[4])
    BY <1>12, <2>1, <2>2, <2>4 DEF Ungroup
  <2> HIDE DEF s
  <2> QED BY <2>5, <2>6, <2>7
<1>14. /\ front \in Seq(Char) /\ Len(front) = 3 * full
       /\ \A p \in 1 .. 3 * full : front[p] = data[p]
  <2> DEFINE w == 3
  <2>1. /\ groups \in Seq(Seq(Char)) /\ Len(groups) = full
        /\ \A k \in 1 .. full : groups[k] = <<data[3 * k - 2], data[3 * k - 1], data[3 * k]>>
    <3>1. \A k \in 1 .. full : groups[k] = <<data[3 * k - 2], data[3 * k - 1], data[3 * k]>>
      BY <1>13
    <3>2. \A a, b, c \in Char : <<a, b, c>> \in Seq(Char)
      OBVIOUS
    <3>3. \A k \in 1 .. full : 3 * k - 2 \in 1 .. n /\ 3 * k - 1 \in 1 .. n /\ 3 * k \in 1 .. n
      BY <1>1
    <3>4. \A k \in 1 .. full : groups[k] \in Seq(Char)
      <4> HIDE DEF groups
      <4> QED BY ZenonT(40), <1>1, <3>1, <3>2, <3>3
    <3>5. groups \in [1 .. full -> Seq(Char)]
      BY <3>4
    <3>6. groups \in Seq(Seq(Char)) /\ Len(groups) = full
      <4> HIDE DEF groups
      <4> QED BY <1>1, <3>5
    <3> QED BY <3>1, <3>6
  <2> HIDE DEF groups
  <2>2. w \in Nat /\ \A k \in 1 .. Len(groups) : Len(groups[k]) = w
    <3>1. \A a, b, c : Len(<<a, b, c>>) = w
      OBVIOUS
    <3> QED BY <2>1, <3>1
  <2> HIDE DEF w
  <2>3. /\ front \in Seq(Char) /\ Len(front) = w * Len(groups)
        /\ \A k \in 1 .. Len(groups), j \in 1 .. w : front[w * (k - 1) + j] = groups[k][j]
    BY <2>1, <2>2, FlattenGroups
  <2> HIDE DEF front
  <2>4. /\ Len(front) = 3 * full
        /\ \A k \in 1 .. full, j \in 1 .. 3 : front[3 * (k - 1) + j] = groups[k][j]
    BY <2>1, <2>3 DEF w
  <2>5. ASSUME NEW p \in 1 .. 3 * full PROVE front[p] = data[p]
    <3> DEFINE k == ((p - 1) \div 3) + 1
               j == ((p - 1) % 3) + 1
    <3>1. k \in 1 .. full /\ j \in 1 .. 3 /\ p = 3 * (k - 1) + j
      BY <1>1
    <3> HIDE DEF k, j
    <3>2. front[p] = groups[k][j]
      BY <2>4, <3>1
    <3>3. (j = 1 => p = 3 * k - 2) /\ (j = 2 => p = 3 * k - 1) /\ (j = 3 => p = 3 * k)
      BY <1>1, <3>1
    <3>4. groups[k] = <<data[3 * k - 2], data[3 * k - 1], data[3 * k]>>
      BY <2>1, <3>1
    <3>5. j = 1 \/ j = 2 \/ j = 3
      BY <3>1
    <3> QED BY <3>2, <3>3, <3>4, <3>5
  <2> QED BY <2>3, <2>4, <2>5
<1>15. /\ rest \in Seq(Char) /\ Len(rest) = i
       /\ \A p \in 1 .. i : rest[p] = data[3 * full + p]
  <2>1. CASE i = 0
    <3>1. rest = <<>>
      BY <2>1
    <3> HIDE DEF rest
    <3> QED BY <2>1, <3>1
  <2>2. CASE i # 0
    <3> DEFINE k == full + 1
               s == Group(data, k)
               o == Ungroup(sub, len, k)
    <3>1. /\ k \in Nat \ {0} /\ len = 4 * full + i + 1 /\ i \in 1 .. 2
          /\ 4 * k - 3 = 4 * full + 1 /\ 4 * k - 2 = 4 * full + 2 /\ 4 * k - 1 = 4 * full + 3 /\ 4 * k = 4 * full + 4
          /\ 3 * k - 2 = 3 * full + 1 /\ 3 * k - 1 = 3 * full + 2
          /\ 4 * full + 1 \in Nat \ {0} /\ 4 * full + 2 \in Nat \ {0} /\ 4 * full + 3 \in Nat \ {0}
          /\ 4 * full + 4 \in Nat \ {0} /\ 4 * full + 1 <= len /\ 4 * full + 2 <= len
          /\ ~ (4 * full + 4 <= len) /\ (i = 2 => 4 * full + 3 <= len) /\ (i = 1 => ~ (4 * full + 3 <= len))
      BY <1>1, <2>2 DEF len
    <3>2. text[4 * full + 1] = s[1] /\ text[4 * full + 2] = s[2] /\ (i = 2 => text[4 * full + 3] = s[3])
      <4>1. 1 \in 1 .. 4 /\ 2 \in 1 .. 4 /\ 3 \in 1 .. 4 /\ 1 <= i + 1 /\ 2 <= i + 1 /\ (i = 2 => 3 <= i + 1)
        BY <1>1, <2>2
      <4> QED BY <1>2, <2>2, <4>1
    <3>3. /\ CharAt(sub, len, 4 * k - 3) = s[1] /\ CharAt(sub, len, 4 * k - 2) = s[2]
          /\ CharAt(sub, len, 4 * k) = 255
          /\ CharAt(sub, len, 4 * k - 1) = IF i = 2 THEN s[3] ELSE 255
      <4>1. CharAt(sub, len, 4 * k - 3) = s[1] /\ CharAt(sub, len, 4 * k - 2) = s[2]
        BY <1>12, <3>1, <3>2
      <4>2. CharAt(sub, len, 4 * k) = 255
        BY <3>1 DEF CharAt
      <4>3. CASE i = 2
        <5>1. CharAt(sub, len, 4 * full + 3) = text[4 * full + 3]
          BY <1>12, <3>1, <4>3
        <5> QED BY <3>1, <3>2, <4>1, <4>2, <4>3, <5>1
      <4>4. CASE i = 1
        BY <3>1, <4>1, <4>2, <4>4 DEF CharAt
      <4> QED BY <3>1, <4>3, <4>4
    <3> DEFINE b1 == ByteAt(data, 3 * k - 2)
               b2 == ByteAt(data, 3 * k - 1)
               b3 == ByteAt(data, 3 * k)
    <3>4. b1 = data[3 * full + 1] /\ (i = 2 => b2 = data[3 * full + 2])
      BY <1>1, <3>1 DEF ByteAt, n
    <3>5. b1 \in Char /\ b2 \in Char /\ b3 \in Char /\ 255 \in Char
      <4>1. b1 \in Char /\ b2 \in Char /\ b3 \in Char
        <5> HIDE DEF k
        <5> QED BY <3>1, GroupIs
      <4> QED BY <4>1 DEF Char
    <3>6. s = Sextets(b1, b2, b3)
      BY DEF Group
    <3> HIDE DEF k, b1, b2, b3
    <3>7. /\ Octets(s[1], s[2], s[3], 255)[2] = b2 /\ Octets(s[1], s[2], s[3], 255)[1] = b1
          /\ Octets(s[1], s[2], 255, 255)[1] = b1
      <4> DEFINE x == 255
      <4>1. x \in Char
        BY <3>5
      <4> HIDE DEF x
      <4>2. LET t == Sextets(b1, b2, b3)
            IN  /\ Octets(t[1], t[2], t[3], x)[2] = b2 /\ Octets(t[1], t[2], t[3], x)[1] = b1
                /\ Octets(t[1], t[2], x, x)[1] = b1
        BY <3>5, <4>1, SextetsToOctets
      <4> QED BY <3>6, <4>2 DEF x
    <3>8. o = Octets(s[1], s[2], IF i = 2 THEN s[3] ELSE 255, 255)
      BY <3>3 DEF Ungroup
    <3>9. o[1] = b1 /\ (i = 2 => o[2] = b2)
      <4> HIDE DEF o, s
      <4>1. i = 1 \/ i = 2
        BY <3>1
      <4> QED BY <3>7, <3>8, <4>1
    <3>10. rest = SubSeq(o, 1, i)
      BY <2>2 DEF k
    <3> HIDE DEF o, s, rest
    <3>11. \A p \in 1 .. i : o[p] \in Char
      <4>1. \A p \in 1 .. i : p = 1 \/ (i = 2 /\ p = 2)
        BY SMTT(40), <3>1
      <4> QED BY <3>5, <3>9, <4>1
    <3>12. 1 \in Int /\ i \in Int
      BY <3>1
    <3>13. /\ rest \in Seq(Char) /\ Len(rest) = IF 1 <= i THEN i - 1 + 1 ELSE 0
           /\ \A p \in 1 .. i - 1 + 1 : rest[p] = o[1 + p - 1]
      BY <3>10, <3>11, <3>12, SubSeqProperties
    <3>14. 1 <= i /\ i - 1 + 1 = i /\ \A p \in 1 .. i : 1 + p - 1 = p
      BY <3>1
    <3>15. ASSUME NEW p \in 1 .. i PROVE rest[p] = data[3 * full + p]
      <4>1. rest[p] = o[p]
        BY <3>13, <3>14
      <4>2. p = 1 \/ (i = 2 /\ p = 2)
        BY SMTT(40), <3>1
      <4> QED BY <3>4, <3>9, <4>1, <4>2
    <3> QED BY <3>13, <3>14, <3>15
  <2> QED BY <2>1, <2>2
<1> HIDE DEF front, rest
<1>16. front \o rest = data
  <2>1. /\ front \o rest \in Seq(Char) /\ Len(front \o rest) = Len(front) + Len(rest)
        /\ \A p \in 1 .. Len(front) + Len(rest) :
              (front \o rest)[p] = IF p <= Len(front) THEN front[p] ELSE rest[p - Len(front)]
    BY <1>14, <1>15, ConcatProperties
  <2>2. Len(front) + Len(rest) = n
    BY <1>1, <1>14, <1>15
  <2>3. ASSUME NEW p \in 1 .. n PROVE (front \o rest)[p] = data[p]
    <3>1. CASE p <= 3 * full
      <4>1. p \in 1 .. 3 * full
        BY <1>1, <3>1
      <4> QED BY <1>14, <2>1, <2>2, <3>1, <4>1
    <3>2. CASE ~ (p <= 3 * full)
      <4>1. p - 3 * full \in 1 .. i /\ 3 * full + (p - 3 * full) = p
        BY <1>1, <3>2
      <4> QED BY <1>14, <1>15, <2>1, <2>2, <3>2, <4>1
    <3> QED BY <3>1, <3>2
  <2> QED BY <2>1, <2>2, <2>3, SeqEqual DEF n
<1>17. Len(text) % 4 = 0
  <2>1. Len(text) = 4 * full \/ Len(text) = 4 * full + 4
    BY <1>1, <1>2
  <2> QED BY <1>1, <2>1
<1> QED
  BY <1>11, <1>16, <1>17 DEF sub, text

------------------------------------------------------------------------------
(* The codes *)

\* What is encoded: a number, and bytes.
Samples == num \in Nat /\ bytes \in Seq(Char)

LEMMA SamplesComeBack == ASSUME Samples PROVE CodesComeBack
<1> DEFINE text == base64_encode(bytes)
<1>1. num \notin {Pow[3], Pow[6]} => base62_decode(base62_encode(num)) = num
  BY EncodeIs DEF Samples
<1>2. ASSUME num \in Pow[6] + 1 .. Pow[7] - 1, NEW random \in Randoms
      PROVE  /\ Len(createRmidCookie(num, random)) = 10
             /\ RmidOf(createRmidCookie(num, random)) = <<num, random>>
  <2>1. random \in Pow[2] .. Pow[3] - 1
    BY NumberAssumption
  <2> QED BY <1>2, <2>1, RmidIs
<1>3. text \in Seq(Code) /\ Len(text) \in Nat
  BY TextIs DEF Samples
<1>4. ASSUME NEW n \in 0 .. Len(text), \A m \in n + 1 .. Len(text) : text[m] = Pad
      PROVE  base64_decode(SubSeq(text, 1, n)) = bytes /\ Len(text) % 4 = 0
  BY <1>4, Base64ComesBack DEF Samples
<1>5. base64_decode(text) = bytes /\ Len(text) % 4 = 0
  <2> HIDE DEF text
  <2>1. SubSeq(text, 1, Len(text)) = text
    BY <1>3, SubSeqFull
  <2>2. Len(text) \in 0 .. Len(text) /\ \A m \in Len(text) + 1 .. Len(text) : text[m] = Pad
    BY <1>3
  <2>3. base64_decode(SubSeq(text, 1, Len(text))) = bytes /\ Len(text) % 4 = 0
    BY <1>4, <2>2
  <2> QED BY <2>1, <2>3
<1> HIDE DEF text
<1> QED
  BY <1>1, <1>2, <1>4, <1>5 DEF CodesComeBack, text

\* base62_encode and base62_decode, createRmidCookie, base64_encode and base64_decode:
\* numbers of up to seven digits, the pairs of numbers of rmids, and bytes of any length come
\* back, for any alphabet.
THEOREM CodesComeBackAlways == MCSpec => []CodesComeBack
<1>1. MCInit => Samples
  BY DEF MCInit, Samples
<1>2. Samples /\ [MCNext]_<<vars, num, bytes>> => Samples'
  <2> SUFFICES ASSUME Samples, [MCNext]_<<vars, num, bytes>> PROVE Samples'
    OBVIOUS
  <2>1. CASE Exchanging
    BY <2>1 DEF Exchanging, Samples
  <2>2. CASE Count
    BY <2>2 DEF Count, Samples
  <2>3. CASE Grow
    BY <2>3, SampleAssumption DEF Grow, Samples
  <2>4. CASE UNCHANGED <<vars, num, bytes>>
    BY <2>4 DEF Samples
  <2> QED BY <2>1, <2>2, <2>3, <2>4 DEF MCNext
<1> QED
  BY <1>1, <1>2, SamplesComeBack, PTL DEF MCSpec

------------------------------------------------------------------------------
(* The answers *)

LEMMA GifIs == Gif = Pixel
<1> DEFINE text == base64_encode(Pixel)
<1>1. Pixel \in Seq(Char)
  BY AnswerAssumption
<1>2. text \in Seq(Code) /\ Len(text) \in Nat
  BY <1>1, TextIs
<1>3. SubSeq(text, 1, Len(text)) = text
  <2> HIDE DEF text
  <2> QED BY <1>2, SubSeqFull
<1>4. Len(text) \in 0 .. Len(text) /\ \A m \in Len(text) + 1 .. Len(text) : text[m] = Pad
  <2> HIDE DEF text
  <2> QED BY <1>2
<1>5. base64_decode(SubSeq(text, 1, Len(text))) = Pixel
  BY <1>1, <1>4, Base64ComesBack
<1> HIDE DEF text
<1> QED
  BY <1>3, <1>5 DEF Gif, text

LEMMA GifResponseIs ==
    /\ GifResponse \in Reps /\ GifResponse.cookies = <<>> /\ GifResponse.content = Pixel
    /\ DOMAIN GifResponse.headers = {"Cache-control", "Expires", "Content-Length"}
    /\ GifResponse.headers["Content-Length"] = Len(Pixel)
<1> DEFINE r1 == set_mime_type([NewResponse EXCEPT !.content = Pixel], "image/gif")
           h1 == Assign(<<>>, "Cache-control", "no-cache,must-revalidate")
           h2 == Assign(h1, "Expires", "0")
           h3 == Assign(h2, "Content-Length", Len(Pixel))
           Resp(h) == [status |-> 0, headers |-> h, cookies |-> <<>>, type |-> "image/gif",
                       content |-> Pixel]
<1>1. r1 = Resp(<<>>)
  <2> DEFINE R(st, h, c, t, x) == [status |-> st, headers |-> h, cookies |-> c, type |-> t, content |-> x]
             Holding(r, x) == [r EXCEPT !.content = x]
             Typed(r, t) == [r EXCEPT !.type = t]
  <2>1. \A st, h, c, t, x, y : Holding(R(st, h, c, t, x), y) = R(st, h, c, t, y)
    OBVIOUS
  <2>2. \A st, h, c, t, x, y : Typed(R(st, h, c, t, x), y) = R(st, h, c, y, x)
    OBVIOUS
  <2>3. NewResponse = R(0, <<>>, <<>>, "", <<>>) /\ Resp(<<>>) = R(0, <<>>, <<>>, "image/gif", Pixel)
    BY DEF NewResponse
  <2>4. r1 = Typed(Holding(NewResponse, Pixel), "image/gif")
    BY DEF set_mime_type
  <2> HIDE DEF R, Holding, Typed, Resp, r1
  <2> DEFINE zero == 0
             none == <<>>
             blank == ""
             gif == "image/gif"
  <2>5. /\ NewResponse = R(zero, none, none, blank, none) /\ Resp(none) = R(zero, none, none, gif, Pixel)
        /\ r1 = Typed(Holding(NewResponse, Pixel), gif)
    BY <2>3, <2>4
  <2> HIDE DEF zero, none, blank, gif
  <2>6. r1 = Resp(none)
    BY <2>1, <2>2, <2>5
  <2> QED BY <2>6 DEF none
<1>2. \A h, key, value : key \notin {"Set-Cookie", "Content-Type"} =>
         add_header(Resp(h), key, value) = Resp(Assign(h, key, value))
  BY DEF add_header
<1>3. GifResponse = Resp(h3)
  <2>1. add_header(r1, "Cache-control", "no-cache,must-revalidate") = Resp(h1)
    BY <1>1, <1>2
  <2>2. add_header(Resp(h1), "Expires", "0") = Resp(h2)
    BY <1>2
  <2>3. add_header(Resp(h2), "Content-Length", Len(Pixel)) = Resp(h3)
    BY <1>2
  <2> HIDE DEF Resp, r1, h1, h2, h3
  <2>4. GifResponse = add_header(add_header(add_header(r1, "Cache-control", "no-cache,must-revalidate"),
                                            "Expires", "0"), "Content-Length", Len(Pixel))
    BY GifIs DEF GifResponse, r1
  <2> QED BY <2>1, <2>2, <2>3, <2>4
<1> DEFINE D == {"Cache-control", "Expires", "Content-Length"}
<1>4. h3 \in [D -> HeaderValues] /\ h3["Content-Length"] = Len(Pixel)
  <2>1. Len(Pixel) \in HeaderValues
    <3>1. Len(Pixel) \in Nat
      BY AnswerAssumption
    <3> QED BY <3>1 DEF HeaderValues
  <2>2. "0" \in HeaderValues /\ "no-cache,must-revalidate" \in HeaderValues
    BY DEF HeaderValues
  <2>3. h1 \in [{"Cache-control"} -> HeaderValues]
    <3>1. DOMAIN <<>> = {}
      OBVIOUS
    <3> QED BY <2>2, <3>1 DEF Assign
  <2> HIDE DEF h1
  <2>4. h2 \in [{"Cache-control", "Expires"} -> HeaderValues]
    BY <2>2, <2>3 DEF Assign
  <2> HIDE DEF h2
  <2> QED BY <2>1, <2>4 DEF Assign
<1> HIDE DEF h3
<1>5. D \in SUBSET HeaderNames
  BY DEF HeaderNames
<1>6. Resp(h3) \in Reps
  <2>1. h3 \in UNION {[E -> HeaderValues] : E \in SUBSET HeaderNames}
    BY <1>4, <1>5
  <2>2. 0 \in Nat /\ <<>> \in Seq(Lines) /\ "image/gif" \in {"", "image/gif"} /\ Pixel \in Seq(Char)
    BY AnswerAssumption
  <2> QED BY <2>1, <2>2 DEF Reps
<1>7. /\ Resp(h3).cookies = <<>> /\ Resp(h3).content = Pixel /\ Resp(h3).headers = h3
  OBVIOUS
<1> HIDE DEF Resp
<1> QED
  BY <1>3, <1>4, <1>6, <1>7

\* The names, and what the handlers put under them.
LEMMA NamesAre ==
    /\ {A, Amz, T} \subseteq CookieName /\ A # Amz /\ A # T /\ Amz # T
<1>1. A # Amz /\ A # T /\ Amz # T
  <2>1. Len(A) = 1 /\ Len(Amz) = 3 /\ Len(T) = 3 /\ Amz[1] # T[1]
    BY DEF A, Amz, T
  <2> QED BY <2>1
<1>2. {97, 109, 122, 116, 95, 52} \subseteq Char \ (Whitespace \cup {0, Semi, Eq})
  BY DEF Char, Whitespace, Semi, Eq
<1>3. /\ A \in Seq({97, 109, 122, 116, 95, 52}) /\ Amz \in Seq({97, 109, 122, 116, 95, 52})
      /\ T \in Seq({97, 109, 122, 116, 95, 52}) /\ A # <<>> /\ Amz # <<>> /\ T # <<>>
  BY DEF A, Amz, T
<1> QED
  <2> DEFINE small == {97, 109, 122, 116, 95, 52}
             large == Char \ (Whitespace \cup {0, Semi, Eq})
  <2>1. small \subseteq large /\ A \in Seq(small) /\ Amz \in Seq(small) /\ T \in Seq(small)
    BY <1>2, <1>3
  <2>2. CookieName = Seq(large) \ {<<>>}
    BY DEF CookieName
  <2> HIDE DEF small, large
  <2>3. Seq(small) \subseteq Seq(large)
    BY <2>1, SeqMonotonic
  <2> QED BY <1>1, <1>3, <2>1, <2>2, <2>3

LEMMA RmidIsText ==
    ASSUME NEW ms \in Ms, NEW random \in Randoms
    PROVE  /\ createRmidCookie(ms, random) \in CookieText /\ createRmidCookie(ms, random) # <<>>
           /\ RmidOf(createRmidCookie(ms, random)) = <<ms, random>>
           /\ Len(createRmidCookie(ms, random)) = 10
<1> DEFINE r == createRmidCookie(ms, random)
<1>1. ms \in Pow[6] + 1 .. Pow[7] - 1 /\ random \in Pow[2] .. Pow[3] - 1
  BY NumberAssumption
<1>2. r \in Seq(Digits) /\ Len(r) = 10 /\ RmidOf(r) = <<ms, random>>
  BY <1>1, RmidIs
<1>3. Digits \subseteq Char \ (Whitespace \cup {0, Semi})
  <2> DEFINE large == Char \ (Whitespace \cup {0, Semi})
  <2>1. BASE_STRING \in Seq(large)
    BY CookieAssumption DEF CookieText
  <2> HIDE DEF large
  <2>2. \A n \in 1 .. Len(BASE_STRING) : BASE_STRING[n] \in large
    BY <2>1, ElementOfSeq
  <2> QED BY <2>2 DEF Digits, Base, large
<1> HIDE DEF r
<1>4. r # <<>>
  <2>1. Len(r) = 10 /\ Len(<<>>) = 0
    BY <1>2
  <2> QED BY SMTT(40), <2>1
<1>5. r \in CookieText
  BY <1>2, <1>3, SeqMonotonic DEF CookieText
<1> QED
  BY <1>2, <1>4, <1>5 DEF r

\* mapping.h asks for cookies it has a name and a text for, and never for an empty rmid.
LEMMA MappingCallsAre == MappingCalls \subseteq Seq(Calls)
<1> DEFINE C1 == {<<Call(A, createRmidCookie(ms, random), Domain)>> : ms \in Ms, random \in Randoms}
           C2 == {<<Call(Amz, uid, Domain)>> : uid \in Uids}
           C3 == {<<Call(T, time, {})>> : time \in Times}
<1>1. \A name \in CookieName, value \in CookieText, attrs \in SUBSET Domain :
         (name = A => value # <<>>) => Call(name, value, attrs) \in Calls
  BY DEF Call, Calls
<1>2. \A c \in Calls : <<c>> \in Seq(Calls)
  OBVIOUS
<1>3. A \in CookieName /\ Amz \in CookieName /\ T \in CookieName /\ A # Amz /\ A # T
  BY NamesAre
<1>4. C1 \subseteq Seq(Calls)
  <2> SUFFICES ASSUME NEW c \in C1 PROVE c \in Seq(Calls)
    OBVIOUS
  <2>0. PICK ms \in Ms, random \in Randoms : c = <<Call(A, createRmidCookie(ms, random), Domain)>>
    OBVIOUS
  <2>1. createRmidCookie(ms, random) \in CookieText /\ createRmidCookie(ms, random) # <<>>
    BY RmidIsText
  <2>2. Domain \in SUBSET Domain
    OBVIOUS
  <2>3. Call(A, createRmidCookie(ms, random), Domain) \in Calls
    BY <1>1, <1>3, <2>1, <2>2
  <2> QED BY <1>2, <2>0, <2>3
<1>5. C2 \subseteq Seq(Calls)
  <2> SUFFICES ASSUME NEW uid \in Uids PROVE <<Call(Amz, uid, Domain)>> \in Seq(Calls)
    OBVIOUS
  <2>1. uid \in CookieText /\ Domain \in SUBSET Domain
    BY CookieAssumption
  <2>2. Call(Amz, uid, Domain) \in Calls
    BY <1>1, <1>3, <2>1
  <2> QED BY <1>2, <2>2
<1>6. C3 \subseteq Seq(Calls)
  <2> SUFFICES ASSUME NEW time \in Times PROVE <<Call(T, time, {})>> \in Seq(Calls)
    OBVIOUS
  <2>1. time \in CookieText /\ {} \in SUBSET Domain
    BY CookieAssumption
  <2>2. Call(T, time, {}) \in Calls
    BY <1>1, <1>3, <2>1
  <2> QED BY <1>2, <2>2
<1>7. \A c \in MappingCalls : \E c1 \in {<<>>} \cup C1, c2 \in {<<>>} \cup C2, c3 \in {<<>>} \cup C3 :
         c = c1 \o c2 \o c3
  <2> DEFINE X1 == {<<>>} \cup (IF Cookie(A) # <<>> THEN {} ELSE C1)
             X2 == {<<>>} \cup (IF Cookie(Amz) # <<>> THEN {} ELSE C2)
             X3 == {<<>>} \cup C3
  <2>1. MappingCalls = {c1 \o c2 \o c3 : c1 \in X1, c2 \in X2, c3 \in X3}
    BY DEF MappingCalls
  <2> HIDE DEF C1, C2, C3
  <2>2. X1 \subseteq {<<>>} \cup C1 /\ X2 \subseteq {<<>>} \cup C2 /\ X3 \subseteq {<<>>} \cup C3
    OBVIOUS
  <2> HIDE DEF X1, X2, X3
  <2>3. \A c \in MappingCalls : \E c1 \in X1, c2 \in X2, c3 \in X3 : c = c1 \o c2 \o c3
    BY <2>1
  <2> QED BY ZenonT(40), <2>2, <2>3
<1> HIDE DEF C1, C2, C3
<1>8. <<>> \in Seq(Calls)
  OBVIOUS
<1>9. \A c1, c2, c3 \in Seq(Calls) : c1 \o c2 \o c3 \in Seq(Calls)
  BY ConcatProperties
<1> QED
  <2>1. {<<>>} \cup C1 \subseteq Seq(Calls) /\ {<<>>} \cup C2 \subseteq Seq(Calls)
        /\ {<<>>} \cup C3 \subseteq Seq(Calls)
    BY <1>4, <1>5, <1>6, <1>8
  <2>2. ASSUME NEW c \in MappingCalls PROVE c \in Seq(Calls)
    <3>1. PICK c1 \in {<<>>} \cup C1, c2 \in {<<>>} \cup C2, c3 \in {<<>>} \cup C3 : c = c1 \o c2 \o c3
      BY <1>7
    <3>2. c1 \in Seq(Calls) /\ c2 \in Seq(Calls) /\ c3 \in Seq(Calls)
      BY <2>1
    <3> QED BY <1>9, <3>1, <3>2
  <2> QED BY <2>2

\* What the redirect of mapping_ku6.h holds.
LEMMA RedirectIs ==
    ASSUME NEW location
    PROVE  LET w == send_headers(add_header(set_status(GifResponse, 302, <<>>), "Location", location))
           IN  /\ SetCookieLines(w) = <<>> /\ w.body = Pixel /\ w.content_length_n = Len(Pixel)
               /\ w.headers["Location"] = location /\ w.headers["Content-Length"] = Len(Pixel)
<1> DEFINE r == GifResponse
           q == set_status(r, 302, <<>>)
           p == add_header(q, "Location", location)
           w == send_headers(p)
<1>1. /\ r \in Reps /\ r.cookies = <<>> /\ r.content = Pixel
      /\ DOMAIN r.headers = {"Cache-control", "Expires", "Content-Length"}
      /\ r.headers["Content-Length"] = Len(Pixel)
  BY GifResponseIs
<1> HIDE DEF r
<1>2. q \in Reps /\ q.headers = r.headers /\ q.cookies = r.cookies /\ q.content = r.content
  <2> DEFINE H == UNION {[D -> HeaderValues] : D \in SUBSET HeaderNames}
             C == Seq(Lines)
             B == Seq(Char)
             K == {"", "image/gif"}
  <2>1. Reps = [status : Nat, headers : H, cookies : C, type : K, content : B]
    BY DEF Reps
  <2> HIDE DEF H, C, B, K
  <2>2. 302 \in Nat /\ r.content \in B
    BY <1>1, <2>1
  <2>3. q = [r EXCEPT !.status = 302, !.content = r.content]
    BY <1>1, <2>1 DEF set_status
  <2> HIDE DEF q
  <2> QED BY ZenonT(40), <1>1, <2>1, <2>2, <2>3
<1> HIDE DEF q
<1>3. /\ p.headers = Assign(q.headers, "Location", location)
      /\ p.cookies = q.cookies /\ p.content = q.content
  BY <1>2 DEF add_header, Reps
<1> HIDE DEF p
<1>4. /\ w.headers = p.headers /\ w.cookies = <<>> /\ w.body = Pixel /\ w.content_length_n = Len(Pixel)
  BY <1>1, <1>2, <1>3 DEF send_headers
<1> HIDE DEF w
<1>5. /\ "Set-Cookie" \notin DOMAIN w.headers /\ w.headers["Location"] = location
      /\ w.headers["Content-Length"] = Len(Pixel)
  BY <1>1, <1>2, <1>3, <1>4 DEF Assign
<1>6. SetCookieLines(w) = <<>>
  <2>1. SetCookieLines(w) = <<>> \o <<>>
    BY <1>4, <1>5 DEF SetCookieLines
  <2> QED BY <2>1
<1> QED
  BY <1>4, <1>5, <1>6 DEF w, p, q, r

\* And that an answer of mapping.h is never taken for one.
LEMMA NoLocation ==
    ASSUME NEW calls \in Seq(Calls), NEW status
    PROVE  "Location" \notin DOMAIN send_headers(set_status(SetCookies(GifResponse, calls), status, <<>>)).headers
<1> DEFINE r == SetCookies(GifResponse, calls)
<1>1. r \in Reps
  <2>1. GifResponse \in Reps
    BY GifResponseIs
  <2>2. PICK g \in [0 .. Len(calls) -> Reps] : FoldLeft(AddCookie, GifResponse, calls) = g[Len(calls)]
    BY <2>1, CookieChain
  <2> QED BY <2>2 DEF SetCookies
<1> HIDE DEF r
<1>2. send_headers(set_status(r, status, <<>>)).headers = r.headers
  BY <1>1 DEF send_headers, set_status, Reps
<1>3. DOMAIN r.headers \subseteq HeaderNames
  BY <1>1 DEF Reps
<1>4. "Location" \notin HeaderNames
  BY DEF HeaderNames
<1> QED
  BY <1>2, <1>3, <1>4 DEF r

------------------------------------------------------------------------------
(* The browser's cookies *)

\* The inductive invariant: what is in the jar are cookies, and an answer on its way
\* says what the handler has asked for.
LinesAsAsked == stage = "answered" => asked \in Seq(Calls) /\ SetCookieLines(wire) = Told(asked)
JarInv == stage \in {"page", "sent", "answered", "lost"} /\ jar \in Jars /\ LinesAsAsked

LEMMA ToldNothing == Told(<<>>) = <<>>
<1>1. [i \in 1 .. Len(<<>>) |-> Line(<<>>[i])] = <<>>
  OBVIOUS
<1> QED
  BY <1>1 DEF Told

LEMMA ToldIsDone ==
    ASSUME NEW f \in Jars, NEW calls \in Seq(Calls)
    PROVE  FoldLeft(Store, f, Told(calls)) = FoldLeft(Put, f, calls) /\ FoldLeft(Put, f, calls) \in Jars
<1>1. FoldLeft(Put, f, calls) \in Jars
  <2>1. PICK g \in [0 .. Len(calls) -> Jars] : FoldLeft(Put, f, calls) = g[Len(calls)]
    BY PutChain
  <2> QED BY <2>1
<1>2. CASE calls = <<>>
  <2> DEFINE none == <<>>
  <2>1. none \in Seq(Calls) /\ none \in Seq(Lines) /\ Len(none) = 0
    OBVIOUS
  <2>2. Told(calls) = none /\ calls = none
    BY <1>2, ToldNothing
  <2> HIDE DEF none
  <2>3. FoldLeft(Put, f, none) = f
    <3>1. PICK g \in [0 .. Len(none) -> Jars] : g[0] = f /\ FoldLeft(Put, f, none) = g[Len(none)]
      BY ZenonT(40), <2>1, PutChain
    <3> QED BY <2>1, <3>1
  <2>4. FoldLeft(Store, f, none) = f
    <3>1. PICK g \in [0 .. Len(none) -> Jars] : g[0] = f /\ FoldLeft(Store, f, none) = g[Len(none)]
      BY ZenonT(40), <2>1, StoreChain
    <3> QED BY <2>1, <3>1
  <2> QED BY <1>1, <2>2, <2>3, <2>4
<1>3. CASE calls # <<>>
  BY <1>1, <1>3, LastTwice DEF Told
<1> QED
  BY <1>2, <1>3

LEMMA JarInit == Init => JarInv
<1> SUFFICES ASSUME Init PROVE JarInv
  OBVIOUS
<1>1. stage = "page" /\ jar = <<>>
  BY DEF Init
<1>2. <<>> \in [{} -> CookieText] /\ IsFiniteSet({}) /\ {} \in SUBSET CookieName
  BY FS_EmptySet
<1>3. <<>> \in Jars
  <2> DEFINE none == <<>>
             D == {}
  <2>1. none \in [D -> CookieText] /\ IsFiniteSet(D) /\ D \in SUBSET CookieName /\ A \notin D
    BY <1>2
  <2> HIDE DEF none, D
  <2>2. none \in Jars
    BY <2>1, JarIf
  <2> QED BY <2>2 DEF none
<1> QED
  BY <1>1, <1>3 DEF JarInv, LinesAsAsked

LEMMA JarStep == JarInv /\ [Next]_vars => JarInv'
<1> SUFFICES ASSUME JarInv, [Next]_vars PROVE JarInv'
  OBVIOUS
<1> USE DEF JarInv
<1>1. ASSUME NEW key \in Keys, NEW text \in Texts, PutParam(key, text) PROVE JarInv'
  BY <1>1 DEF PutParam, LinesAsAsked
<1>2. ASSUME NEW param \in Junk, PutJunk(param) PROVE JarInv'
  BY <1>2 DEF PutJunk, LinesAsAsked
<1>3. ASSUME NEW c \in Foreign, SetForeign(c) PROVE JarInv'
  <2>1. stage' = "page"
    BY <1>3 DEF SetForeign
  <2>2. jar' \in Jars
    <3> DEFINE D == {c[1]} \cup DOMAIN jar
    <3>1. c[1] \in CookieName /\ c[2] \in CookieText /\ (c[1] = A => c[2] # <<>>)
      BY CookieAssumption
    <3>2. /\ IsFiniteSet(DOMAIN jar) /\ DOMAIN jar \subseteq CookieName
          /\ \A x \in DOMAIN jar : jar[x] \in CookieText
          /\ A \in DOMAIN jar => jar[A] # <<>>
      BY JarIs
    <3>3. jar' = [k \in D |-> IF k = c[1] THEN c[2] ELSE jar[k]]
      BY <1>3 DEF SetForeign, Assign
    <3>4. IsFiniteSet(D)
      BY <3>2, FS_AddElement
    <3>5. D \in SUBSET CookieName /\ jar' \in [D -> CookieText]
      BY <3>1, <3>2, <3>3
    <3>6. A \in D => jar'[A] # <<>>
      BY <3>1, <3>2, <3>3
    <3> HIDE DEF D
    <3> QED BY <3>4, <3>5, <3>6, JarIf
  <2> QED BY <2>1, <2>2 DEF LinesAsAsked
<1>4. ASSUME Send PROVE JarInv'
  BY <1>4 DEF Send, LinesAsAsked
<1>5. ASSUME Ku6 PROVE JarInv'
  <2>1. PICK ms \in Ms, random \in Randoms :
          wire' = send_headers(add_header(set_status(GifResponse, 302, <<>>), "Location",
                                          [dspid |-> 100026, dspuid |-> Ku6Rmid(ms, random)]))
    BY <1>5 DEF Ku6
  <2>2. SetCookieLines(wire') = <<>>
    BY <2>1, RedirectIs
  <2>3. stage' = "answered" /\ asked' = <<>> /\ jar' = jar
    BY <1>5 DEF Ku6
  <2>4. asked' \in Seq(Calls) /\ SetCookieLines(wire') = Told(asked')
    BY <2>2, <2>3, ToldNothing
  <2> QED BY <2>3, <2>4 DEF LinesAsAsked
<1>6. ASSUME MappingAnswers PROVE JarInv'
  <2>1. PICK calls \in MappingCalls, status \in {200, 302} :
          /\ asked' = calls
          /\ wire' = send_headers(set_status(SetCookies(GifResponse, calls), status, <<>>))
    BY <1>6 DEF MappingAnswers
  <2>2. calls \in Seq(Calls)
    BY MappingCallsAre
  <2>3. GifResponse \in Reps /\ GifResponse.cookies = <<>> /\ "Set-Cookie" \notin DOMAIN GifResponse.headers
    BY GifResponseIs
  <2>4. SetCookieLines(wire') = Told(asked')
    <3>1. SetCookieLines(send_headers(set_status(SetCookies(GifResponse, calls), status, <<>>))) = Told(calls)
      BY <2>2, <2>3, CookiesOnTheWire
    <3> QED BY <2>1, <3>1
  <2>5. stage' = "answered" /\ jar' = jar
    BY <1>6 DEF MappingAnswers
  <2> QED BY <2>1, <2>2, <2>4, <2>5 DEF LinesAsAsked
<1>7. ASSUME Receive PROVE JarInv'
  <2>1. stage = "answered" /\ stage' = "page" /\ jar' = FoldLeft(Store, jar, SetCookieLines(wire))
    BY <1>7 DEF Receive
  <2>2. asked \in Seq(Calls) /\ SetCookieLines(wire) = Told(asked)
    BY <2>1 DEF LinesAsAsked
  <2>3. jar' \in Jars
    BY <2>1, <2>2, ToldIsDone
  <2> QED BY <2>1, <2>3 DEF LinesAsAsked
<1>8. ASSUME Ku6Overflows PROVE JarInv'
  BY <1>8 DEF Ku6Overflows, LinesAsAsked
<1>9. ASSUME GiveUp PROVE JarInv'
  BY <1>9 DEF GiveUp, LinesAsAsked
<1>10. CASE UNCHANGED vars
  BY <1>10 DEF vars, LinesAsAsked
<1> QED
  BY <1>1, <1>2, <1>3, <1>4, <1>5, <1>6, <1>7, <1>8, <1>9, <1>10 DEF Next

\* What stands in the jar are cookies a browser can send, and the Set-Cookie lines of an
\* answer are, one by one, those the handler asked set_cookie for, with the last one
\* also in front: add_header keeps it in the map of headers too.
THEOREM LinesAsAskedAlways == Spec => []JarInv
<1> QED
  BY JarInit, JarStep, PTL DEF Spec

\* setCookie, add_header and send_headers: the jar ends as if the handler's calls had been
\* carried out one after the other, for any calls mapping.h makes.
THEOREM JarIsAsAsked == Spec => JarAsAsked
<1>1. JarInv /\ [Next]_vars => [stage = "answered" => jar' = FoldLeft(Put, jar, asked)]_vars
  <2> SUFFICES ASSUME JarInv, Next, stage = "answered", ~UNCHANGED vars
               PROVE  jar' = FoldLeft(Put, jar, asked)
    OBVIOUS
  <2>1. Receive
    BY DEF Next, PutParam, PutJunk, SetForeign, Send, Ku6, Ku6Overflows, MappingAnswers, GiveUp
  <2>2. jar' = FoldLeft(Store, jar, Told(asked)) /\ asked \in Seq(Calls) /\ jar \in Jars
    BY <2>1 DEF Receive, JarInv, LinesAsAsked
  <2> QED BY <2>2, ToldIsDone
<1> QED
  BY <1>1, LinesAsAskedAlways, PTL DEF Spec, JarAsAsked

------------------------------------------------------------------------------
(* Texts that are put together and taken apart *)

\* Where each of some sequences begins when they are laid one behind the other.
Laid(b, seqs, flat) ==
    /\ b \in [0 .. Len(seqs) -> Nat] /\ b[0] = 0 /\ Len(flat) = b[Len(seqs)]
    /\ \A n \in 1 .. Len(seqs) : b[n] = b[n - 1] + Len(seqs[n])
    /\ \A n \in 1 .. Len(seqs) : \A j \in 1 .. Len(seqs[n]) :
          b[n - 1] + j \in 1 .. Len(flat) /\ flat[b[n - 1] + j] = seqs[n][j]
    /\ \A p \in 1 .. Len(flat) : \E n \in 1 .. Len(seqs) : p - b[n - 1] \in 1 .. Len(seqs[n])

LEMMA FlattenPlaces ==
    ASSUME NEW V, NEW seqs \in Seq(Seq(V))
    PROVE  FlattenSeq(seqs) \in Seq(V) /\ \E b : Laid(b, seqs, FlattenSeq(seqs))
<1> DEFINE n == Len(seqs)
<1>1. n \in Nat /\ \A i \in 1 .. n : seqs[i] \in Seq(V) /\ Len(seqs[i]) \in Nat
  OBVIOUS
<1>2. PICK g \in [0 .. n -> Seq(V)] :
         /\ g[0] = <<>> /\ FlattenSeq(seqs) = g[n]
         /\ \A i \in 1 .. n : g[i] = g[i - 1] \o seqs[i]
  BY FlattenChain
<1> DEFINE b == [i \in 0 .. n |-> Len(g[i])]
           Good(i) == /\ \A k \in 1 .. i : \A j \in 1 .. Len(seqs[k]) :
                            b[k - 1] + j \in 1 .. b[i] /\ g[i][b[k - 1] + j] = seqs[k][j]
                      /\ \A p \in 1 .. b[i] : \E k \in 1 .. i : p - b[k - 1] \in 1 .. Len(seqs[k])
           S == {i \in 0 .. n : Good(i)}
<1> HIDE DEF n
<1>3. b \in [0 .. n -> Nat] /\ b[0] = 0
  BY <1>1, <1>2
<1>4. ASSUME NEW i \in 1 .. n
      PROVE  /\ i - 1 \in 0 .. n /\ b[i - 1] \in Nat /\ b[i] = b[i - 1] + Len(seqs[i])
             /\ \A p \in 1 .. b[i] :
                   g[i][p] = IF p <= b[i - 1] THEN g[i - 1][p] ELSE seqs[i][p - b[i - 1]]
  <2>1. i - 1 \in 0 .. n /\ i \in 0 .. n
    BY <1>1
  <2>2. g[i - 1] \in Seq(V) /\ seqs[i] \in Seq(V) /\ b[i - 1] = Len(g[i - 1]) /\ b[i] = Len(g[i])
    BY <1>1, <1>2, <2>1
  <2>3. g[i] = g[i - 1] \o seqs[i]
    BY <1>2
  <2>4. /\ Len(g[i]) = Len(g[i - 1]) + Len(seqs[i])
        /\ \A p \in 1 .. Len(g[i - 1]) + Len(seqs[i]) :
              g[i][p] = IF p <= Len(g[i - 1]) THEN g[i - 1][p] ELSE seqs[i][p - Len(g[i - 1])]
    <3> DEFINE x == g[i - 1]
               y == seqs[i]
    <3>1. x \in Seq(V) /\ y \in Seq(V) /\ g[i] = x \o y
      BY <2>2, <2>3
    <3> HIDE DEF x, y
    <3>2. /\ Len(x \o y) = Len(x) + Len(y)
          /\ \A p \in 1 .. Len(x) + Len(y) :
                (x \o y)[p] = IF p <= Len(x) THEN x[p] ELSE y[p - Len(x)]
      BY <3>1, ConcatProperties
    <3> QED BY <3>1, <3>2 DEF x, y
  <2> HIDE DEF b
  <2> QED BY <1>3, <2>1, <2>2, <2>4
<1> HIDE DEF b
<1>5. 0 \in S
  BY <1>1, <1>3
<1>6. ASSUME NEW i \in 0 .. n - 1, i \in S PROVE i + 1 \in S
  <2> DEFINE m == i + 1
  <2>1. m \in 1 .. n /\ m - 1 = i /\ m \in 0 .. n /\ i \in Nat
    BY <1>1
  <2>2. /\ b[i] \in Nat /\ b[m] = b[i] + Len(seqs[m]) /\ Len(seqs[m]) \in Nat
        /\ \A p \in 1 .. b[m] : g[m][p] = IF p <= b[i] THEN g[i][p] ELSE seqs[m][p - b[i]]
    <3> HIDE DEF m
    <3> QED BY <1>1, <1>4, <2>1
  <2>3. Good(i)
    BY <1>6
  <2>4. ASSUME NEW k \in 1 .. m, NEW j \in 1 .. Len(seqs[k])
        PROVE  b[k - 1] + j \in 1 .. b[m] /\ g[m][b[k - 1] + j] = seqs[k][j]
    <3>1. CASE k = m
      <4>1. b[k - 1] = b[i] /\ j \in 1 .. Len(seqs[m])
        BY <2>1, <3>1
      <4> HIDE DEF m
      <4>2. b[i] + j \in 1 .. b[m] /\ ~ (b[i] + j <= b[i]) /\ (b[i] + j) - b[i] = j
        BY <2>2, <4>1
      <4> QED BY <2>2, <3>1, <4>1, <4>2
    <3>2. CASE k # m
      <4>1. k \in 1 .. i
        BY <2>1, <3>2
      <4>2. b[k - 1] + j \in 1 .. b[i] /\ g[i][b[k - 1] + j] = seqs[k][j]
        BY <2>3, <4>1
      <4> DEFINE p == b[k - 1] + j
      <4> HIDE DEF p, m
      <4>3. p \in 1 .. b[i] /\ g[i][p] = seqs[k][j]
        BY <4>2 DEF p
      <4>4. p \in 1 .. b[m] /\ p <= b[i]
        BY <2>2, <4>3
      <4>5. g[m][p] = g[i][p]
        BY <2>2, <4>4
      <4> QED BY <4>3, <4>4, <4>5 DEF p
    <3> QED BY <3>1, <3>2
  <2>5. ASSUME NEW p \in 1 .. b[m] PROVE \E k \in 1 .. m : p - b[k - 1] \in 1 .. Len(seqs[k])
    <3>1. CASE p <= b[i]
      <4>1. PICK k \in 1 .. i : p - b[k - 1] \in 1 .. Len(seqs[k])
        <5> HIDE DEF m
        <5> QED BY <2>2, <2>3, <3>1
      <4> QED BY <2>1, <4>1
    <3>2. CASE ~ (p <= b[i])
      <4>1. p - b[i] \in 1 .. Len(seqs[m])
        <5> HIDE DEF m
        <5> QED BY <2>2, <3>2
      <4>2. m \in 1 .. m /\ b[m - 1] = b[i]
        BY <2>1
      <4> HIDE DEF m
      <4> QED BY <4>1, <4>2
    <3> QED BY <3>1, <3>2
  <2> HIDE DEF m
  <2>6. Good(m)
    BY <2>4, <2>5
  <2> QED BY <2>1, <2>6 DEF m
<1>7. Good(n)
  <2>1. \A i \in 0 .. n : i \in S
    <3> HIDE DEF S
    <3> QED BY <1>1, <1>5, <1>6, InductUpTo
  <2> HIDE DEF Good
  <2> QED BY <1>1, <2>1
<1>8. g[n] \in Seq(V) /\ Len(g[n]) = b[n]
  BY <1>1, <1>2 DEF b
<1>9. Laid(b, seqs, g[n])
  BY <1>3, <1>4, <1>7, <1>8 DEF Laid, n
<1> QED
  BY <1>2, <1>8, <1>9

\* The rest of a sequence from a place on.
Rest(s, e) == SubSeq(s, e, Len(s))

LEMMA RestIs ==
    ASSUME NEW V, NEW s \in Seq(V), NEW e \in 1 .. Len(s) + 1
    PROVE  /\ Rest(s, e) \in Seq(V) /\ Len(Rest(s, e)) = Len(s) + 1 - e
           /\ \A p \in 1 .. Len(s) + 1 - e : Rest(s, e)[p] = s[e + p - 1]
<1> DEFINE n == Len(s)
<1>1. n \in Nat /\ e \in Int /\ n \in Int /\ \A p \in e .. n : s[p] \in V
  OBVIOUS
<1>2. /\ SubSeq(s, e, n) \in Seq(V) /\ Len(SubSeq(s, e, n)) = IF e <= n THEN n - e + 1 ELSE 0
      /\ \A p \in 1 .. n - e + 1 : SubSeq(s, e, n)[p] = s[e + p - 1]
  <2> HIDE DEF n
  <2> QED BY <1>1, SubSeqProperties
<1>3. n - e + 1 = n + 1 - e /\ e <= n + 1
  BY <1>1
<1> QED
  BY <1>1, <1>2, <1>3 DEF Rest

LEMMA RestHead ==
    ASSUME NEW V, NEW s \in Seq(V), NEW e \in 1 .. Len(s)
    PROVE  Rest(s, e) = <<s[e]>> \o Rest(s, e + 1)
<1> DEFINE n == Len(s)
           x == <<s[e]>>
           y == Rest(s, e + 1)
<1>1. n \in Nat /\ e \in 1 .. n + 1 /\ e + 1 \in 1 .. n + 1 /\ s[e] \in V /\ e \in 1 .. n
  OBVIOUS
<1>2. /\ Rest(s, e) \in Seq(V) /\ Len(Rest(s, e)) = n + 1 - e
      /\ \A p \in 1 .. n + 1 - e : Rest(s, e)[p] = s[e + p - 1]
  BY <1>1, RestIs
<1>3. /\ y \in Seq(V) /\ Len(y) = n - e /\ \A p \in 1 .. n - e : y[p] = s[e + p]
  <2>1. /\ y \in Seq(V) /\ Len(y) = n + 1 - (e + 1)
        /\ \A p \in 1 .. n + 1 - (e + 1) : y[p] = s[(e + 1) + p - 1]
    BY <1>1, RestIs
  <2>2. n + 1 - (e + 1) = n - e /\ \A p \in 1 .. n - e : (e + 1) + p - 1 = e + p
    BY <1>1
  <2> HIDE DEF y, n
  <2> QED BY <2>1, <2>2
<1>4. x \in Seq(V) /\ Len(x) = 1 /\ x[1] = s[e]
  BY <1>1
<1> HIDE DEF n, x, y
<1>5. /\ x \o y \in Seq(V) /\ Len(x \o y) = Len(x) + Len(y)
      /\ \A p \in 1 .. Len(x) + Len(y) : (x \o y)[p] = IF p <= Len(x) THEN x[p] ELSE y[p - Len(x)]
  BY <1>3, <1>4, ConcatProperties
<1>6. Len(x) + Len(y) = n + 1 - e
  BY <1>1, <1>3, <1>4
<1>7. ASSUME NEW p \in 1 .. n + 1 - e PROVE (x \o y)[p] = s[e + p - 1]
  <2>1. CASE p = 1
    BY <1>1, <1>4, <1>5, <1>6, <2>1
  <2>2. CASE p # 1
    <3>1. ~ (p <= 1) /\ p - 1 \in 1 .. n - e /\ e + (p - 1) = e + p - 1
      BY <1>1, <2>2
    <3>2. (x \o y)[p] = y[p - 1]
      BY <1>4, <1>5, <1>6, <3>1
    <3> QED BY <1>3, <3>1, <3>2
  <2> QED BY <2>1, <2>2
<1>8. Rest(s, e) = x \o y
  BY <1>2, <1>5, <1>6, <1>7, SeqEqual
<1> QED
  BY <1>8 DEF x, y

LEMMA RestEmpty ==
    ASSUME NEW V, NEW s \in Seq(V)
    PROVE  Rest(s, Len(s) + 1) = <<>> /\ Rest(s, 1) = s
<1> DEFINE e == Len(s) + 1
<1>1. e \in 1 .. Len(s) + 1 /\ Len(s) + 1 - e = 0
  OBVIOUS
<1>2. Rest(s, e) \in Seq(V) /\ Len(Rest(s, e)) = Len(s) + 1 - e
  <2> HIDE DEF e
  <2> QED BY <1>1, RestIs
<1>3. Rest(s, e) = <<>>
  <2> HIDE DEF e
  <2> QED BY <1>1, <1>2, EmptySeq
<1>4. Rest(s, 1) = s
  BY SubSeqFull DEF Rest
<1> QED
  BY <1>3, <1>4

\* copy_headers: the walk over the parts of nginx' list visits each header once, in order.
LEMMA HeaderWalkIs ==
    ASSUME NEW V, NEW list \in Seq(Seq(V)), list # <<>>
    PROVE  HeaderWalk(list) = FlattenSeq(list)
<1> DEFINE n == Len(list)
           flat == FlattenSeq(list)
           L == Len(flat)
           From[at \in (DOMAIN list) \X (Nat \ {0})] ==
             LET p == at[1]
                 i == at[2]
             IN  IF i <= Len(list[p]) THEN <<list[p][i]>> \o From[<<p, i + 1>>]
                 ELSE IF p = Len(list) THEN <<>>
                 ELSE From[<<p + 1, PartFirst>>]
<1>1. /\ n \in Nat /\ n # 0 /\ DOMAIN list = 1 .. n
      /\ \A p \in 1 .. n : list[p] \in Seq(V) /\ Len(list[p]) \in Nat
  OBVIOUS
<1>2. flat \in Seq(V) /\ L \in Nat
  BY FlattenPlaces
<1>3. PICK b : Laid(b, list, flat)
  BY FlattenPlaces
<1>4. HeaderWalk(list) = From[<<1, 1>>]
  BY DEF HeaderWalk
<1> HIDE DEF flat
<1> DEFINE E(p, i) == IF i <= Len(list[p]) THEN b[p - 1] + i ELSE b[p] + 1
<1>5. /\ \A p \in 1 .. n : b[p - 1] \in Nat /\ b[p] \in Nat /\ b[p] = b[p - 1] + Len(list[p])
      /\ b[0] = 0 /\ b[n] = L
      /\ \A p \in 1 .. n : \A j \in 1 .. Len(list[p]) :
            b[p - 1] + j \in 1 .. L /\ flat[b[p - 1] + j] = list[p][j]
  <2>1. /\ b \in [0 .. n -> Nat] /\ b[0] = 0 /\ b[n] = L
        /\ \A p \in 1 .. n : b[p] = b[p - 1] + Len(list[p])
        /\ \A p \in 1 .. n : \A j \in 1 .. Len(list[p]) :
              b[p - 1] + j \in 1 .. L /\ flat[b[p - 1] + j] = list[p][j]
    BY <1>3 DEF Laid
  <2> HIDE DEF n, L
  <2>2. \A p \in 1 .. n : p - 1 \in 0 .. n /\ p \in 0 .. n
    BY <1>1
  <2> QED BY <2>1, <2>2
<1> HIDE DEF n, L
<1>6. \A p \in 1 .. n : b[p] <= L
  <2> DEFINE S == {k \in 0 .. n - 1 : b[n - k] <= L}
  <2>1. 0 \in S
    BY <1>1, <1>2, <1>5
  <2>2. ASSUME NEW k \in 0 .. (n - 1) - 1, k \in S PROVE k + 1 \in S
    <3> DEFINE p == n - k
    <3>1. p \in 1 .. n /\ n - (k + 1) = p - 1 /\ k + 1 \in 0 .. n - 1 /\ b[p] <= L
      BY <1>1, <2>2
    <3> HIDE DEF p
    <3>2. b[p - 1] <= L
      <4>1. b[p - 1] \in Nat /\ b[p] = b[p - 1] + Len(list[p]) /\ Len(list[p]) \in Nat
        BY <1>1, <1>5, <3>1
      <4> QED BY <1>2, <3>1, <4>1
    <3> QED BY <3>1, <3>2
  <2>3. n - 1 \in Nat
    BY <1>1
  <2>4. \A k \in 0 .. n - 1 : k \in S
    <3> HIDE DEF S, n
    <3> DEFINE N == n - 1
    <3> HIDE DEF N
    <3>1. N \in Nat /\ \A k \in 0 .. N - 1 : k \in S => k + 1 \in S
      BY <2>2, <2>3 DEF N
    <3>2. \A k \in 0 .. N : k \in S
      BY <2>1, <3>1, InductUpTo
    <3> QED BY <3>2 DEF N
  <2>5. \A p \in 1 .. n : n - p \in 0 .. n - 1 /\ n - (n - p) = p
    BY <1>1
  <2> QED BY <2>4, <2>5
<1>7. ASSUME NEW p \in 1 .. n, NEW i \in Nat \ {0}
      PROVE  /\ E(p, i) \in 1 .. L + 1
             /\ i <= Len(list[p]) => /\ E(p, i) \in 1 .. L /\ flat[E(p, i)] = list[p][i]
                                     /\ E(p, i + 1) = E(p, i) + 1
             /\ ~ (i <= Len(list[p])) /\ p = n => E(p, i) = L + 1
             /\ ~ (i <= Len(list[p])) /\ p # n => p + 1 \in 1 .. n /\ E(p + 1, 1) = E(p, i)
  <2>1. /\ b[p - 1] \in Nat /\ b[p] \in Nat /\ b[p] = b[p - 1] + Len(list[p])
        /\ Len(list[p]) \in Nat /\ b[p] <= L /\ b[n] = L
        /\ \A j \in 1 .. Len(list[p]) : b[p - 1] + j \in 1 .. L /\ flat[b[p - 1] + j] = list[p][j]
    BY <1>1, <1>5, <1>6
  <2>2. CASE i <= Len(list[p])
    <3>1. E(p, i) = b[p - 1] + i /\ i \in 1 .. Len(list[p])
      BY <2>1, <2>2
    <3>2. E(p, i + 1) = b[p - 1] + i + 1
      <4>1. CASE i + 1 <= Len(list[p])
        <5>1. E(p, i + 1) = b[p - 1] + (i + 1)
          BY <4>1
        <5> DEFINE c == b[p - 1]
        <5>2. c \in Nat
          BY <2>1
        <5> HIDE DEF c
        <5>3. c + (i + 1) = c + i + 1
          BY <5>2
        <5> QED BY <5>1, <5>3 DEF c
      <4>2. CASE ~ (i + 1 <= Len(list[p]))
        <5>1. i = Len(list[p]) /\ E(p, i + 1) = b[p] + 1
          BY <2>1, <2>2, <4>2
        <5> HIDE DEF E
        <5> QED BY <2>1, <5>1
      <4> QED BY <4>1, <4>2
    <3> HIDE DEF E
    <3>3. E(p, i) \in 1 .. L /\ flat[E(p, i)] = list[p][i]
      BY <2>1, <3>1
    <3>4. E(p, i + 1) = E(p, i) + 1 /\ E(p, i) \in 1 .. L + 1
      BY SMTT(40), <1>2, <2>1, <3>1, <3>2, <3>3
    <3> QED BY <2>2, <3>3, <3>4
  <2>3. CASE ~ (i <= Len(list[p])) /\ p = n
    BY SMTT(40), <1>2, <2>1, <2>3
  <2>4. CASE ~ (i <= Len(list[p])) /\ p # n
    <3>1. p + 1 \in 1 .. n /\ (p + 1) - 1 = p
      BY <1>1, <2>4
    <3>2. b[p + 1] = b[p] + Len(list[p + 1]) /\ Len(list[p + 1]) \in Nat
      BY <1>1, <1>5, <3>1
    <3>3. E(p + 1, 1) = b[p] + 1
      BY SMTT(40), <2>1, <3>1, <3>2
    <3>4. E(p, i) = b[p] + 1
      BY <2>4
    <3> HIDE DEF E
    <3> QED BY SMTT(40), <1>2, <2>1, <2>4, <3>1, <3>3, <3>4
  <2> QED BY <2>2, <2>3, <2>4
<1> HIDE DEF E
<1> DEFINE Ats == (DOMAIN list) \X (Nat \ {0})
           Walks(f) == \A p \in 1 .. n, i \in Nat \ {0} :
                          f[<<p, i>>] = IF i <= Len(list[p]) THEN <<list[p][i]>> \o f[<<p, i + 1>>]
                                        ELSE IF p = n THEN <<>> ELSE f[<<p + 1, 1>>]
           g == [at \in Ats |-> Rest(flat, E(at[1], at[2]))]
<1>8. ASSUME NEW p \in 1 .. n, NEW i \in Nat \ {0}
      PROVE  Rest(flat, E(p, i)) =
                IF i <= Len(list[p]) THEN <<list[p][i]>> \o Rest(flat, E(p, i + 1))
                ELSE IF p = n THEN <<>> ELSE Rest(flat, E(p + 1, 1))
  <2>1. CASE i <= Len(list[p])
    <3> DEFINE e == E(p, i)
    <3>1. e \in 1 .. L /\ flat[e] = list[p][i] /\ E(p, i + 1) = e + 1
      BY <1>7, <2>1
    <3> HIDE DEF e
    <3>2. Rest(flat, e) = <<flat[e]>> \o Rest(flat, e + 1)
      BY <1>2, <3>1, RestHead DEF L
    <3> QED BY <2>1, <3>1, <3>2 DEF e
  <2>2. CASE ~ (i <= Len(list[p])) /\ p = n
    BY <1>2, <1>7, <2>2, RestEmpty DEF L
  <2>3. CASE ~ (i <= Len(list[p])) /\ p # n
    BY <1>7, <2>3
  <2> QED BY <2>1, <2>2, <2>3
<1>9. g = [at \in (DOMAIN list) \X (Nat \ {0}) |->
             LET p == at[1]
                 i == at[2]
             IN  IF i <= Len(list[p]) THEN <<list[p][i]>> \o g[<<p, i + 1>>]
                 ELSE IF p = Len(list) THEN <<>>
                 ELSE g[<<p + 1, PartFirst>>]]
  <2>1. \A p \in 1 .. n, i \in Nat \ {0} : g[<<p, i>>] = Rest(flat, E(p, i))
    BY <1>1
  <2>2. ASSUME NEW at \in Ats
        PROVE  g[at] = LET p == at[1]
                           i == at[2]
                       IN  IF i <= Len(list[p]) THEN <<list[p][i]>> \o g[<<p, i + 1>>]
                           ELSE IF p = Len(list) THEN <<>>
                           ELSE g[<<p + 1, PartFirst>>]
    <3> DEFINE p == at[1]
               i == at[2]
    <3>1. p \in 1 .. n /\ i \in Nat \ {0} /\ at = <<p, i>> /\ i + 1 \in Nat \ {0} /\ 1 \in Nat \ {0}
      BY <1>1
    <3> HIDE DEF p, i, g
    <3>2. /\ g[at] = Rest(flat, E(p, i)) /\ g[<<p, i + 1>>] = Rest(flat, E(p, i + 1))
          /\ p + 1 \in 1 .. n => g[<<p + 1, 1>>] = Rest(flat, E(p + 1, 1))
      BY <2>1, <3>1
    <3>3. p # n => p + 1 \in 1 .. n
      BY <1>1, <3>1
    <3>4. g[at] = IF i <= Len(list[p]) THEN <<list[p][i]>> \o g[<<p, i + 1>>]
                  ELSE IF p = n THEN <<>> ELSE g[<<p + 1, 1>>]
      BY <1>8, <3>1, <3>2, <3>3
    <3> QED BY <3>4 DEF p, i, n, PartFirst
  <2>3. g = [at \in Ats |-> g[at]]
    OBVIOUS
  <2> HIDE DEF g
  <2> QED BY <2>2, <2>3
<1>10. From = [at \in (DOMAIN list) \X (Nat \ {0}) |->
             LET p == at[1]
                 i == at[2]
             IN  IF i <= Len(list[p]) THEN <<list[p][i]>> \o From[<<p, i + 1>>]
                 ELSE IF p = Len(list) THEN <<>>
                 ELSE From[<<p + 1, PartFirst>>]]
  <2> HIDE DEF g
  <2> QED BY <1>9
<1> HIDE DEF g, From
<1>11. Walks(From)
  <2> SUFFICES ASSUME NEW p \in 1 .. n, NEW i \in Nat \ {0}
               PROVE  From[<<p, i>>] = IF i <= Len(list[p]) THEN <<list[p][i]>> \o From[<<p, i + 1>>]
                                       ELSE IF p = n THEN <<>> ELSE From[<<p + 1, 1>>]
    OBVIOUS
  <2>1. <<p, i>> \in (DOMAIN list) \X (Nat \ {0})
    BY <1>1
  <2> QED BY <1>10, <2>1 DEF PartFirst, n
<1> DEFINE M(p, i) == (L + 1 - E(p, i)) + (n - p)
           S == {m \in Nat : \A p \in 1 .. n, i \in Nat \ {0} :
                               M(p, i) = m => From[<<p, i>>] = Rest(flat, E(p, i))}
<1>12. ASSUME NEW p \in 1 .. n, NEW i \in Nat \ {0},
              \A q \in 1 .. n, j \in Nat \ {0} :
                 M(q, j) + 1 = M(p, i) => From[<<q, j>>] = Rest(flat, E(q, j))
       PROVE  From[<<p, i>>] = Rest(flat, E(p, i))
  <2>0. n \in Nat /\ L \in Nat /\ p \in Nat /\ i + 1 \in Nat \ {0} /\ 1 \in Nat \ {0}
    BY <1>1, <1>2
  <2>1. CASE i <= Len(list[p])
    <3>1. E(p, i + 1) = E(p, i) + 1 /\ E(p, i) \in 1 .. L
      BY <1>7, <2>1
    <3>2. M(p, i + 1) + 1 = M(p, i)
      BY <2>0, <3>1
    <3>3. From[<<p, i + 1>>] = Rest(flat, E(p, i + 1))
      BY <1>12, <2>0, <3>2
    <3> QED BY <1>8, <1>11, <2>1, <3>3
  <2>2. CASE ~ (i <= Len(list[p])) /\ p = n
    BY <1>8, <1>11, <2>2
  <2>3. CASE ~ (i <= Len(list[p])) /\ p # n
    <3>1. p + 1 \in 1 .. n /\ E(p + 1, 1) = E(p, i) /\ E(p, i) \in 1 .. L + 1
      BY <1>7, <2>3
    <3>2. M(p + 1, 1) + 1 = M(p, i)
      <4>1. M(p + 1, 1) = (L + 1 - E(p, i)) + (n - (p + 1))
        BY <3>1
      <4> DEFINE e == E(p, i)
      <4>2. e \in Nat
        BY <2>0, <3>1
      <4> HIDE DEF e
      <4>3. (L + 1 - e) + (n - (p + 1)) + 1 = (L + 1 - e) + (n - p)
        BY <2>0, <4>2
      <4> QED BY <4>1, <4>3 DEF e
    <3>3. From[<<p + 1, 1>>] = Rest(flat, E(p + 1, 1))
      BY <1>12, <2>0, <3>1, <3>2
    <3> QED BY <1>8, <1>11, <2>3, <3>3
  <2> QED BY <2>1, <2>2, <2>3
<1>13. \A p \in 1 .. n, i \in Nat \ {0} : M(p, i) \in Nat
  <2> SUFFICES ASSUME NEW p \in 1 .. n, NEW i \in Nat \ {0} PROVE M(p, i) \in Nat
    OBVIOUS
  <2>1. E(p, i) \in 1 .. L + 1
    BY <1>7
  <2> QED BY SMTT(40), <1>1, <1>2, <2>1
<1> HIDE DEF M
<1>14. 0 \in S
  <2> SUFFICES ASSUME NEW p \in 1 .. n, NEW i \in Nat \ {0}, M(p, i) = 0
               PROVE  From[<<p, i>>] = Rest(flat, E(p, i))
    OBVIOUS
  <2>1. \A q \in 1 .. n, j \in Nat \ {0} : M(q, j) + 1 # M(p, i)
    BY <1>13
  <2> QED BY <1>12, <2>1
<1>15. ASSUME NEW m \in Nat, m \in S PROVE m + 1 \in S
  <2> SUFFICES ASSUME NEW p \in 1 .. n, NEW i \in Nat \ {0}, M(p, i) = m + 1
               PROVE  From[<<p, i>>] = Rest(flat, E(p, i))
    OBVIOUS
  <2>1. ASSUME NEW q \in 1 .. n, NEW j \in Nat \ {0}, M(q, j) + 1 = M(p, i) PROVE M(q, j) = m
    <3>1. M(q, j) \in Nat
      BY <1>13
    <3> QED BY <2>1, <3>1
  <2> QED BY <1>12, <1>15, <2>1
<1>16. From[<<1, 1>>] = Rest(flat, E(1, 1))
  <2>1. \A m \in Nat : m \in S
    <3> HIDE DEF S
    <3> QED BY <1>14, <1>15, Induct
  <2>2. 1 \in 1 .. n /\ 1 \in Nat \ {0}
    BY <1>1
  <2> QED BY <1>13, <2>1, <2>2
<1>17. E(1, 1) = 1
  <2>1. 1 \in 1 .. n /\ b[1] = b[0] + Len(list[1]) /\ Len(list[1]) \in Nat /\ b[1 - 1] = 0
    BY <1>1, <1>5
  <2> QED BY <1>5, <2>1 DEF E
<1> QED
  BY <1>2, <1>4, <1>16, <1>17, RestEmpty DEF flat

------------------------------------------------------------------------------
(* The Cookie header *)

\* Where a name stands in a header, and where it is the name of a cookie.
NameHits(header, name) ==
    {i \in 1 .. Len(header) - Len(name) + 1 : SubSeq(header, i, i + Len(name) - 1) = name}
CookieHits(header, name, ends) ==
    {i \in NameHits(header, name) : NameBegins(header, i) /\ i + Len(name) \in ends}

LEMMA HitIs ==
    ASSUME NEW header \in Seq(Char), NEW name \in Seq(Char), name # <<>>,
           NEW i \in 1 .. Len(header) - Len(name) + 1
    PROVE  SubSeq(header, i, i + Len(name) - 1) = name
              <=> \A j \in 1 .. Len(name) : header[i + j - 1] = name[j]
<1> DEFINE w == Len(name)
           m == i + w - 1
           sub == SubSeq(header, i, m)
<1>1. w \in Nat /\ w >= 1 /\ Len(header) \in Nat /\ i \in Int /\ m \in Int /\ i <= m /\ m <= Len(header)
  BY EmptySeq
<1>2. \A p \in i .. m : header[p] \in Char
  <2>1. \A p \in i .. m : p \in 1 .. Len(header)
    BY <1>1
  <2> QED BY <2>1, ElementOfSeq
<1>3. /\ sub \in Seq(Char) /\ Len(sub) = IF i <= m THEN m - i + 1 ELSE 0
      /\ \A p \in 1 .. m - i + 1 : sub[p] = header[i + p - 1]
  <2> HIDE DEF m, w
  <2> QED BY <1>1, <1>2, SubSeqProperties
<1>4. m - i + 1 = w
  BY <1>1
<1> HIDE DEF sub, m
<1>5. sub \in Seq(Char) /\ Len(sub) = w /\ \A p \in 1 .. w : sub[p] = header[i + p - 1]
  BY <1>1, <1>3, <1>4
<1>6. sub = name => \A j \in 1 .. w : header[i + j - 1] = name[j]
  BY <1>5
<1>7. (\A j \in 1 .. w : header[i + j - 1] = name[j]) => sub = name
  <2> SUFFICES ASSUME \A j \in 1 .. w : header[i + j - 1] = name[j] PROVE sub = name
    OBVIOUS
  <2>1. Len(sub) = Len(name) /\ \A p \in 1 .. Len(sub) : sub[p] = name[p]
    BY <1>5
  <2> QED BY <1>5, <2>1, SeqEqual
<1> QED
  BY <1>6, <1>7 DEF sub, m

\* The loop of getCookie and cookieExists finds the first of the names of cookies: what it
\* passes over when a name does not end as asked cannot hold another beginning.
LEMMA AfterNameIs ==
    ASSUME NEW header \in Seq(Char), NEW name \in CookieText, name # <<>>, NEW ends
    PROVE  AfterName(header, name, ends) =
              IF CookieHits(header, name, ends) = {} THEN 0
              ELSE Min(CookieHits(header, name, ends)) + Len(name)
<1> DEFINE L == Len(header)
           w == Len(name)
           hits == NameHits(header, name)
           good == CookieHits(header, name, ends)
           Hits(pos) == {i \in pos .. Len(header) - Len(name) + 1 :
                           SubSeq(header, i, i + Len(name) - 1) = name}
           From[pos \in 1 .. Len(header) + 2] ==
             IF Hits(pos) = {} THEN 0
             ELSE LET at    == Min(Hits(pos))
                      after == at + Len(name)
                  IN  IF ~NameBegins(header, at) THEN From[at + 1]
                      ELSE IF after \in ends THEN after ELSE From[after + 1]
           GoodFrom(pos) == {i \in good : i >= pos}
           Result(pos) == IF GoodFrom(pos) = {} THEN 0 ELSE Min(GoodFrom(pos)) + w
<1>1. L \in Nat /\ w \in Nat /\ w >= 1
  BY EmptySeq DEF CookieText
<1>2. name \in Seq(Char) /\ \A j \in 1 .. w : name[j] \in Char \ (Whitespace \cup {0, Semi})
  <2> DEFINE X == Char \ (Whitespace \cup {0, Semi})
  <2>1. name \in Seq(X) /\ X \subseteq Char
    BY DEF CookieText
  <2> HIDE DEF X
  <2>2. name \in Seq(Char) /\ \A j \in 1 .. w : name[j] \in X
    BY <2>1, SeqMonotonic, ElementOfSeq
  <2> QED BY <2>2 DEF X
<1>3. AfterName(header, name, ends) = From[1]
  BY DEF AfterName
<1>4. /\ hits \subseteq 1 .. L - w + 1
      /\ \A i \in hits : \A j \in 1 .. w : header[i + j - 1] = name[j]
      /\ good \subseteq hits
      /\ \A i \in hits : i \in good <=> NameBegins(header, i) /\ i + w \in ends
  <2>1. \A i \in hits : \A j \in 1 .. w : header[i + j - 1] = name[j]
    BY <1>2, HitIs DEF NameHits
  <2> QED BY <2>1 DEF NameHits, CookieHits
<1>5. \A pos \in 1 .. L + 2 : Hits(pos) = {i \in hits : i >= pos}
  <2>1. \A pos \in 1 .. L + 2, i \in Int : i \in pos .. L - w + 1 <=> i \in 1 .. L - w + 1 /\ i >= pos
    BY <1>1
  <2>2. \A pos \in 1 .. L + 2 : \A i \in pos .. L - w + 1 : i \in Int
    BY <1>1
  <2> QED BY <1>1, <2>1, <2>2 DEF NameHits
<1> HIDE DEF hits, good, Hits, L, w
<1>6. \A i \in hits : i \in Nat /\ i >= 1 /\ i <= L - w + 1
  <2>1. \A i \in 1 .. L - w + 1 : i \in Nat /\ i >= 1 /\ i <= L - w + 1
    BY <1>1
  <2> QED BY <1>4, <2>1
<1>7. ASSUME NEW pos \in 1 .. L + 2, Hits(pos) # {}
      PROVE  /\ Min(Hits(pos)) \in hits /\ Min(Hits(pos)) >= pos
             /\ \A i \in hits : i >= pos => i >= Min(Hits(pos))
             /\ Min(Hits(pos)) \in Nat
             /\ Min(Hits(pos)) + 1 \in pos + 1 .. L + 2 /\ Min(Hits(pos)) + w + 1 \in pos + 1 .. L + 2
  <2> DEFINE at == Min(Hits(pos))
  <2>1. Hits(pos) \subseteq Nat
    BY <1>5, <1>6
  <2>2. at \in Hits(pos) /\ \A y \in Hits(pos) : at <= y
    BY <1>7, <2>1, MinOf
  <2> HIDE DEF at
  <2>3. at \in hits /\ at >= pos /\ at \in Nat /\ at <= L - w + 1
    BY <1>5, <1>6, <2>2
  <2>4. \A i \in hits : i >= pos => i >= at
    BY <1>1, <1>4, <1>5, <2>2, <2>3
  <2>5. at + 1 \in pos + 1 .. L + 2 /\ at + w + 1 \in pos + 1 .. L + 2
    BY <1>1, <2>3
  <2> QED BY <2>3, <2>4, <2>5 DEF at
<1>8. ASSUME NEW pos \in 1 .. L + 2
      PROVE  Result(pos) =
               IF Hits(pos) = {} THEN 0
               ELSE LET at    == Min(Hits(pos))
                        after == at + w
                    IN  IF ~NameBegins(header, at) THEN Result(at + 1)
                        ELSE IF after \in ends THEN after ELSE Result(after + 1)
  <2>1. CASE Hits(pos) = {}
    <3>1. GoodFrom(pos) = {}
      BY <1>4, <1>5, <2>1
    <3> QED BY <2>1, <3>1
  <2>2. CASE Hits(pos) # {}
    <3> DEFINE at == Min(Hits(pos))
    <3>1. at \in hits /\ at >= pos /\ at \in Nat /\ \A i \in hits : i >= pos => i >= at
      BY <1>7, <2>2
    <3> HIDE DEF at
    <3>2. \A i \in good : i \in hits /\ i \in Nat
      BY <1>1, <1>4
    <3>3. CASE ~NameBegins(header, at)
      <4>1. at \notin good
        BY <1>4, <3>1, <3>3
      <4>2. GoodFrom(pos) = GoodFrom(at + 1)
        BY <3>1, <3>2, <4>1
      <4> QED BY <2>2, <3>3, <4>2 DEF at
    <3>4. CASE NameBegins(header, at) /\ at + w \in ends
      <4>1. at \in good
        BY <1>4, <3>1, <3>4
      <4>2. at \in GoodFrom(pos) /\ GoodFrom(pos) \subseteq Nat /\ \A i \in GoodFrom(pos) : at <= i
        BY <3>1, <3>2, <4>1
      <4>3. Min(GoodFrom(pos)) \in GoodFrom(pos) /\ \A i \in GoodFrom(pos) : Min(GoodFrom(pos)) <= i
        <5> HIDE DEF GoodFrom
        <5> QED BY <4>2, MinOf
      <4>4. Min(GoodFrom(pos)) = at
        <5> HIDE DEF GoodFrom
        <5> QED BY <3>1, <4>2, <4>3
      <4>5. Result(pos) = at + w
        <5> HIDE DEF GoodFrom
        <5> QED BY <4>2, <4>4
      <4> QED BY <2>2, <3>4, <4>5 DEF at
    <3>5. CASE NameBegins(header, at) /\ ~ (at + w \in ends)
      <4>1. at \notin good
        BY <1>4, <3>1, <3>5
      <4>2. ASSUME NEW i \in good, i >= pos PROVE i >= at + w + 1
        <5> SUFFICES ASSUME ~ (i >= at + w + 1) PROVE FALSE
          OBVIOUS
        <5> DEFINE j == i - at
        <5>1. i \in Nat /\ i > at /\ j \in 1 .. w /\ at + j - 1 = i - 1 /\ i # 1
          BY <1>1, <3>1, <3>2, <4>1, <4>2
        <5>2. header[i - 1] = name[j]
          <6> HIDE DEF j
          <6> QED BY <1>4, <3>1, <5>1
        <5>3. header[i - 1] \in Whitespace \cup {Semi}
          BY <1>4, <3>2, <5>1 DEF NameBegins
        <5> HIDE DEF j
        <5>4. name[j] \notin Whitespace \cup {Semi}
          BY <1>2, <5>1
        <5> QED BY <5>2, <5>3, <5>4
      <4>3. GoodFrom(pos) = GoodFrom(at + w + 1)
        <5>1. \A i \in good : i >= at + w + 1 => i >= pos
          BY <1>1, <3>1, <3>2
        <5> QED BY <4>2, <5>1
      <4> QED BY <2>2, <3>5, <4>3 DEF at
    <3> QED BY <3>3, <3>4, <3>5
  <2> QED BY <2>1, <2>2
<1> HIDE DEF Result
<1> DEFINE g == [pos \in 1 .. L + 2 |-> Result(pos)]
<1>9. ASSUME NEW pos \in 1 .. L + 2
      PROVE  g[pos] = IF Hits(pos) = {} THEN 0
                      ELSE LET at    == Min(Hits(pos))
                               after == at + w
                           IN  IF ~NameBegins(header, at) THEN g[at + 1]
                               ELSE IF after \in ends THEN after ELSE g[after + 1]
  <2>1. CASE Hits(pos) = {}
    BY <1>8, <2>1
  <2>2. CASE Hits(pos) # {}
    <3> DEFINE at == Min(Hits(pos))
    <3>1. at + 1 \in 1 .. L + 2 /\ (at + w) + 1 \in 1 .. L + 2
      BY <1>1, <1>7, <2>2
    <3>2. g[at + 1] = Result(at + 1) /\ g[(at + w) + 1] = Result((at + w) + 1)
      <4> HIDE DEF at
      <4> QED BY <3>1
    <3>3. Result(pos) = IF ~NameBegins(header, at) THEN Result(at + 1)
                        ELSE IF at + w \in ends THEN at + w ELSE Result((at + w) + 1)
      BY <1>8, <2>2
    <3>4. g[pos] = Result(pos)
      OBVIOUS
    <3> HIDE DEF at, g
    <3> QED BY <2>2, <3>2, <3>3, <3>4 DEF at
  <2> QED BY <2>1, <2>2
<1>10. From = [pos \in 1 .. L + 2 |->
                IF Hits(pos) = {} THEN 0
                ELSE LET at    == Min(Hits(pos))
                         after == at + w
                     IN  IF ~NameBegins(header, at) THEN From[at + 1]
                         ELSE IF after \in ends THEN after ELSE From[after + 1]]
  <2>1. g = [pos \in 1 .. L + 2 |->
                IF Hits(pos) = {} THEN 0
                ELSE LET at    == Min(Hits(pos))
                         after == at + w
                     IN  IF ~NameBegins(header, at) THEN g[at + 1]
                         ELSE IF after \in ends THEN after ELSE g[after + 1]]
    <3>1. g = [pos \in 1 .. L + 2 |-> g[pos]]
      OBVIOUS
    <3> HIDE DEF g
    <3> QED BY <1>9, <3>1
  <2> HIDE DEF g
  <2> QED BY <2>1 DEF L, w
<1> HIDE DEF From, g
<1> DEFINE S == {k \in 0 .. L + 2 : \A pos \in 1 .. L + 2 : pos > (L + 2) - k => From[pos] = Result(pos)}
<1>11. 0 \in S
  BY <1>1
<1>12. ASSUME NEW k \in 0 .. (L + 2) - 1, k \in S PROVE k + 1 \in S
  <2> SUFFICES ASSUME NEW pos \in 1 .. L + 2, pos > (L + 2) - (k + 1) PROVE From[pos] = Result(pos)
    BY <1>1
  <2>1. \A q \in pos + 1 .. L + 2 : From[q] = Result(q)
    <3>1. \A q \in pos + 1 .. L + 2 : q \in 1 .. L + 2 /\ q > (L + 2) - k
      BY <1>1
    <3> QED BY <1>12, <3>1
  <2>2. CASE Hits(pos) = {}
    BY <1>8, <1>10, <2>2
  <2>3. CASE Hits(pos) # {}
    <3> DEFINE at == Min(Hits(pos))
    <3>1. at + 1 \in pos + 1 .. L + 2 /\ (at + w) + 1 \in pos + 1 .. L + 2
      BY <1>1, <1>7, <2>3
    <3>2. From[at + 1] = Result(at + 1) /\ From[(at + w) + 1] = Result((at + w) + 1)
      <4> HIDE DEF at
      <4> QED BY <2>1, <3>1
    <3>3. Result(pos) = IF ~NameBegins(header, at) THEN Result(at + 1)
                        ELSE IF at + w \in ends THEN at + w ELSE Result((at + w) + 1)
      BY <1>8, <2>3
    <3>4. From[pos] = IF ~NameBegins(header, at) THEN From[at + 1]
                      ELSE IF at + w \in ends THEN at + w ELSE From[(at + w) + 1]
      BY <1>10, <2>3
    <3> HIDE DEF at
    <3> QED BY <3>2, <3>3, <3>4
  <2> QED BY <2>2, <2>3
<1>13. From[1] = Result(1)
  <2> DEFINE N == L + 2
  <2>1. N \in Nat /\ 1 \in 1 .. N /\ 1 > N - N
    BY <1>1
  <2>2. \A k \in 0 .. N : k \in S
    <3> HIDE DEF S, N
    <3>1. \A k \in 0 .. N - 1 : k \in S => k + 1 \in S
      BY <1>12 DEF N
    <3> QED BY <1>11, <2>1, <3>1, InductUpTo
  <2> QED BY <2>1, <2>2
<1>14. GoodFrom(1) = good
  BY <1>4, <1>6
<1>15. Result(1) = IF good = {} THEN 0 ELSE Min(good) + w
  <2> HIDE DEF GoodFrom
  <2> QED BY <1>14 DEF Result
<1> QED
  BY <1>3, <1>13, <1>15 DEF good, w

\* The browser's order of its cookies has each name at one place.
LEMMA OrderIs ==
    ASSUME jar \in Jars, NEW order \in SetToSeqs(DOMAIN jar)
    PROVE  /\ order \in Seq(DOMAIN jar) /\ order \in Seq(CookieName)
           /\ \A i, j \in 1 .. Len(order) : order[i] = order[j] => i = j
           /\ \A name \in DOMAIN jar : \E i \in 1 .. Len(order) : order[i] = name
<1> DEFINE D == DOMAIN jar
           k == Cardinality(D)
<1>1. IsFiniteSet(D) /\ D \subseteq CookieName
  BY JarIs
<1>2. k \in Nat
  BY <1>1, FS_CardinalityType
<1>3. order \in [1 .. k -> D] /\ \A i, j \in 1 .. k : i # j => order[i] # order[j]
  BY DEF SetToSeqs
<1>4. Cardinality(1 .. k) = k
  <2> HIDE DEF k
  <2>1. 1 \in Int /\ k \in Int
    BY <1>2
  <2>2. Cardinality(1 .. k) = IF 1 > k THEN 0 ELSE k - 1 + 1
    BY <2>1, FS_Interval
  <2> QED BY <1>2, <2>2
<1> HIDE DEF D
<1>5. order \in Seq(D) /\ Len(order) = k
  <2> HIDE DEF k
  <2> QED BY <1>2, <1>3
<1>6. \A name \in D : \E i \in 1 .. k : order[i] = name
  <2>1. order \in Injection(1 .. k, D)
    <3> HIDE DEF k
    <3> QED BY <1>3 DEF Injection, IsInjective
  <2>2. order \in Surjection(1 .. k, D)
    BY <1>1, <1>4, <2>1, FS_Injection
  <2> HIDE DEF k
  <2> QED BY <2>2 DEF Surjection
<1>7. order \in Seq(CookieName)
  BY <1>1, <1>5, SeqMonotonic
<1> QED
  BY <1>3, <1>5, <1>6, <1>7 DEF D

\* One cookie in a header.
Segment(sep, name, value) == sep \o name \o <<Eq>> \o value

IsSegment(s, sep, name, value) ==
    LET d == Len(sep)
        w == Len(name)
    IN  /\ s \in Seq(Char) /\ Len(s) = d + w + 1 + Len(value)
        /\ \A j \in 1 .. d : s[j] = sep[j]
        /\ \A j \in 1 .. w : s[d + j] = name[j]
        /\ s[d + w + 1] = Eq
        /\ \A j \in 1 .. Len(value) : s[d + w + 1 + j] = value[j]

LEMMA SegmentIs ==
    ASSUME NEW sep \in Seq(Char), NEW name \in Seq(Char), NEW value \in Seq(Char)
    PROVE  IsSegment(Segment(sep, name, value), sep, name, value)
<1> DEFINE d == Len(sep)
           w == Len(name)
           v == Len(value)
           x == sep \o name
           y == x \o <<Eq>>
           s == y \o value
<1>1. d \in Nat /\ w \in Nat /\ v \in Nat /\ <<Eq>> \in Seq(Char) /\ Len(<<Eq>>) = 1 /\ <<Eq>>[1] = Eq
  BY DEF Eq, Char
<1>2. /\ x \in Seq(Char) /\ Len(x) = d + w
      /\ \A p \in 1 .. d + w : x[p] = IF p <= d THEN sep[p] ELSE name[p - d]
  BY ConcatProperties
<1> HIDE DEF x, d, w, v
<1> DEFINE e == <<Eq>>
<1>3. /\ y \in Seq(Char) /\ Len(y) = d + w + 1
      /\ \A p \in 1 .. d + w + 1 : y[p] = IF p <= d + w THEN x[p] ELSE Eq
  <2>1. e \in Seq(Char) /\ Len(e) = 1 /\ e[1] = Eq
    BY <1>1
  <2> HIDE DEF e
  <2>2. /\ x \o e \in Seq(Char) /\ Len(x \o e) = Len(x) + Len(e)
        /\ \A p \in 1 .. Len(x) + Len(e) : (x \o e)[p] = IF p <= Len(x) THEN x[p] ELSE e[p - Len(x)]
    BY <1>2, <2>1, ConcatProperties
  <2>3. \A p \in 1 .. d + w + 1 : ~ (p <= d + w) => p - (d + w) = 1
    BY <1>1
  <2>4. y = x \o e
    BY DEF e
  <2> HIDE DEF y
  <2> QED BY <1>1, <1>2, <2>1, <2>2, <2>3, <2>4
<1> HIDE DEF y
<1>4. /\ s \in Seq(Char) /\ Len(s) = (d + w + 1) + v
      /\ \A p \in 1 .. (d + w + 1) + v : s[p] = IF p <= d + w + 1 THEN y[p] ELSE value[p - (d + w + 1)]
  <2>1. /\ y \o value \in Seq(Char) /\ Len(y \o value) = Len(y) + Len(value)
        /\ \A p \in 1 .. Len(y) + Len(value) :
              (y \o value)[p] = IF p <= Len(y) THEN y[p] ELSE value[p - Len(y)]
    BY <1>3, ConcatProperties
  <2> QED BY <1>3, <2>1 DEF v
<1> HIDE DEF s
<1>5. \A j \in 1 .. d : s[j] = sep[j]
  <2> SUFFICES ASSUME NEW j \in 1 .. d PROVE s[j] = sep[j]
    OBVIOUS
  <2>1. /\ j \in 1 .. (d + w + 1) + v /\ j <= d + w + 1 /\ j \in 1 .. d + w + 1 /\ j <= d + w
        /\ j \in 1 .. d + w /\ j <= d
    BY <1>1
  <2> QED BY <1>2, <1>3, <1>4, <2>1
<1>6. \A j \in 1 .. w : s[d + j] = name[j]
  <2> SUFFICES ASSUME NEW j \in 1 .. w PROVE s[d + j] = name[j]
    OBVIOUS
  <2> DEFINE p == d + j
  <2>1. /\ p \in 1 .. (d + w + 1) + v /\ p <= d + w + 1 /\ p \in 1 .. d + w + 1 /\ p <= d + w
        /\ p \in 1 .. d + w /\ ~ (p <= d) /\ p - d = j
    BY <1>1
  <2> HIDE DEF p
  <2>2. s[p] = name[j]
    BY <1>2, <1>3, <1>4, <2>1
  <2> QED BY <2>2 DEF p
<1>7. s[d + w + 1] = Eq
  <2> DEFINE p == d + w + 1
  <2>1. p \in 1 .. (d + w + 1) + v /\ p <= d + w + 1 /\ p \in 1 .. d + w + 1 /\ ~ (p <= d + w)
    BY <1>1
  <2> HIDE DEF p
  <2>2. s[p] = Eq
    BY <1>3, <1>4, <2>1
  <2> QED BY <2>2 DEF p
<1>8. \A j \in 1 .. v : s[d + w + 1 + j] = value[j]
  <2> SUFFICES ASSUME NEW j \in 1 .. v PROVE s[d + w + 1 + j] = value[j]
    OBVIOUS
  <2> DEFINE p == d + w + 1 + j
  <2>1. p \in 1 .. (d + w + 1) + v /\ ~ (p <= d + w + 1) /\ p - (d + w + 1) = j
    BY <1>1
  <2> HIDE DEF p
  <2>2. s[p] = value[j]
    BY <1>4, <2>1
  <2> QED BY <2>2 DEF p
<1>9. s = Segment(sep, name, value)
  BY DEF s, y, x, Segment
<1> QED
  BY <1>4, <1>5, <1>6, <1>7, <1>8, <1>9 DEF d, w, v, IsSegment

\* A name and a value alone.
Pair(name, value) == name \o <<Eq>> \o value

LEMMA PairIs ==
    ASSUME NEW name \in Seq(Char), NEW value \in Seq(Char)
    PROVE  /\ Pair(name, value) \in Seq(Char)
           /\ Len(Pair(name, value)) = Len(name) + 1 + Len(value)
           /\ \A j \in 1 .. Len(name) : Pair(name, value)[j] = name[j]
           /\ Pair(name, value)[Len(name) + 1] = Eq
           /\ \A j \in 1 .. Len(value) : Pair(name, value)[Len(name) + 1 + j] = value[j]
<1> DEFINE none == <<>>
           d == Len(none)
           s == Segment(none, name, value)
           w == Len(name)
           v == Len(value)
<1>1. none \in Seq(Char) /\ d = 0 /\ w \in Nat /\ v \in Nat
  OBVIOUS
<1>2. s = Pair(name, value)
  <2>1. none \o name = name
    BY ConcatEmptySeq
  <2> HIDE DEF none
  <2> QED BY <2>1 DEF Segment, Pair
<1> HIDE DEF none
<1>3. /\ s \in Seq(Char) /\ Len(s) = d + w + 1 + v
      /\ \A j \in 1 .. w : s[d + j] = name[j]
      /\ s[d + w + 1] = Eq
      /\ \A j \in 1 .. v : s[d + w + 1 + j] = value[j]
  <2>1. IsSegment(s, none, name, value)
    BY <1>1, SegmentIs
  <2> HIDE DEF s
  <2> QED BY <2>1 DEF IsSegment
<1> HIDE DEF s, d, w, v
<1>4. /\ d + w + 1 + v = w + 1 + v /\ d + w + 1 = w + 1
      /\ \A j \in 1 .. w : d + j = j
      /\ \A j \in 1 .. v : d + w + 1 + j = w + 1 + j
  BY <1>1
<1>5. /\ s \in Seq(Char) /\ Len(s) = w + 1 + v
      /\ \A j \in 1 .. w : s[j] = name[j]
      /\ s[w + 1] = Eq
      /\ \A j \in 1 .. v : s[w + 1 + j] = value[j]
  BY <1>3, <1>4
<1> QED
  BY <1>2, <1>5 DEF w, v

\* The header of some cookies: at[n] is where the n-th name begins.
Value(order, n) == jar[order[n]]
LastOf(at, order, n) == at[n] + Len(order[n]) + Len(Value(order, n))

CookieAt(at, order, header, n) ==
    /\ at[n] \in Nat \ {0}
    /\ \A j \in 1 .. Len(order[n]) : header[at[n] + j - 1] = order[n][j]
    /\ header[at[n] + Len(order[n])] = Eq
    /\ \A j \in 1 .. Len(Value(order, n)) : header[at[n] + Len(order[n]) + j] = Value(order, n)[j]
    /\ at[n] = 1 \/ (at[n] - 1 \in 1 .. Len(header) /\ header[at[n] - 1] = Space)
    /\ LastOf(at, order, n) <= Len(header)
    /\ LastOf(at, order, n) # Len(header) => header[LastOf(at, order, n) + 1] = Semi

Gaps(at, order, header) ==
    \A p \in 1 .. Len(header) : header[p] \in Whitespace \cup {Semi} =>
       \/ header[p] = Space /\ \E n \in 1 .. Len(order) : at[n] = p + 1
       \/ header[p] = Semi /\ header[p + 1] = Space

Written(at, order, header) ==
    /\ \A n \in 1 .. Len(order) : CookieAt(at, order, header, n)
    /\ Len(order) # 0 => at[1] = 1
    /\ Len(order) = 0 => header = <<>>
    /\ Gaps(at, order, header)

LEMMA HeaderIsWritten ==
    ASSUME jar \in Jars, NEW order \in SetToSeqs(DOMAIN jar)
    PROVE  CookieHeader(order) \in Seq(Char) /\ \E at : Written(at, order, CookieHeader(order))
<1> DEFINE m == Len(order)
           Sep(n) == IF n = 1 THEN <<>> ELSE <<Semi, Space>>
           segs == [n \in 1 .. m |-> Segment(Sep(n), order[n], Value(order, n))]
           header == FlattenSeq(segs)
           L == Len(header)
<1>1. order \in Seq(DOMAIN jar) /\ order \in Seq(CookieName) /\ m \in Nat /\ DOMAIN order = 1 .. m
  BY OrderIs
<1>2. ASSUME NEW n \in 1 .. m
      PROVE  /\ order[n] \in Seq(Char) /\ Len(order[n]) \in Nat /\ Len(order[n]) # 0
             /\ Value(order, n) \in Seq(Char) /\ Len(Value(order, n)) \in Nat
             /\ \A j \in 1 .. Len(order[n]) : order[n][j] \notin Whitespace \cup {Semi}
             /\ \A j \in 1 .. Len(Value(order, n)) : Value(order, n)[j] \notin Whitespace \cup {Semi}
  <2>1. order[n] \in CookieName /\ order[n] \in DOMAIN jar
    BY <1>1, ElementOfSeq
  <2>2. Value(order, n) \in CookieText
    BY <2>1, JarIs DEF Value
  <2> DEFINE X == Char \ (Whitespace \cup {0, Semi})
             Y == Char \ (Whitespace \cup {0, Semi, Eq})
             x == order[n]
             y == Value(order, n)
  <2>3. X \subseteq Char /\ Y \subseteq X /\ x \in Seq(Y) /\ x # <<>> /\ y \in Seq(X)
    BY <2>1, <2>2 DEF CookieName, CookieText
  <2> HIDE DEF X, Y, x, y
  <2>4. x \in Seq(X) /\ x \in Seq(Char) /\ y \in Seq(Char)
    BY <2>3, SeqMonotonic
  <2>5. Len(x) \in Nat /\ Len(x) # 0 /\ Len(y) \in Nat
    BY <2>3, <2>4, EmptySeq
  <2>6. (\A j \in 1 .. Len(x) : x[j] \in X) /\ (\A j \in 1 .. Len(y) : y[j] \in X)
    BY <2>3, <2>4, ElementOfSeq
  <2>7. \A c \in X : c \notin Whitespace \cup {Semi}
    BY DEF X
  <2> QED BY <2>4, <2>5, <2>6, <2>7 DEF x, y
<1>3. \A n : Sep(n) \in Seq(Char) /\ Len(Sep(n)) = IF n = 1 THEN 0 ELSE 2
  <2>1. Semi \in Char /\ Space \in Char
    BY DEF Semi, Space, Char
  <2>2. <<Semi, Space>> \in Seq(Char) /\ Len(<<Semi, Space>>) = 2 /\ <<>> \in Seq(Char) /\ Len(<<>>) = 0
    BY <2>1
  <2> QED BY <2>2
<1>4. \A n : n # 1 => Sep(n)[1] = Semi /\ Sep(n)[2] = Space
  OBVIOUS
<1>5. CookieHeader(order) = header
  BY <1>1 DEF CookieHeader, Segment, Value
<1> HIDE DEF m, Sep
<1>6. ASSUME NEW n \in 1 .. m
      PROVE  LET s == segs[n]
                 d == Len(Sep(n))
                 w == Len(order[n])
             IN  /\ s \in Seq(Char) /\ Len(s) = d + w + 1 + Len(Value(order, n))
                 /\ \A j \in 1 .. d : s[j] = Sep(n)[j]
                 /\ \A j \in 1 .. w : s[d + j] = order[n][j]
                 /\ s[d + w + 1] = Eq
                 /\ \A j \in 1 .. Len(Value(order, n)) : s[d + w + 1 + j] = Value(order, n)[j]
  <2>1. segs[n] = Segment(Sep(n), order[n], Value(order, n))
    OBVIOUS
  <2>2. order[n] \in Seq(Char) /\ Value(order, n) \in Seq(Char) /\ Sep(n) \in Seq(Char)
    BY <1>2, <1>3
  <2> DEFINE x == Sep(n)
             y == order[n]
             z == Value(order, n)
  <2>3. x \in Seq(Char) /\ y \in Seq(Char) /\ z \in Seq(Char) /\ segs[n] = Segment(x, y, z)
    BY <2>1, <2>2
  <2> HIDE DEF segs, x, y, z
  <2>4. LET s == Segment(x, y, z)
            d == Len(x)
            w == Len(y)
        IN  /\ s \in Seq(Char) /\ Len(s) = d + w + 1 + Len(z)
            /\ \A j \in 1 .. d : s[j] = x[j]
            /\ \A j \in 1 .. w : s[d + j] = y[j]
            /\ s[d + w + 1] = Eq
            /\ \A j \in 1 .. Len(z) : s[d + w + 1 + j] = z[j]
    <3>1. IsSegment(Segment(x, y, z), x, y, z)
      BY <2>3, SegmentIs
    <3> QED BY <3>1 DEF IsSegment
  <2> QED BY <2>3, <2>4 DEF x, y, z
<1>7. segs \in Seq(Seq(Char)) /\ Len(segs) = m
  <2>1. \A n \in 1 .. m : segs[n] \in Seq(Char)
    BY <1>6
  <2>2. segs \in [1 .. m -> Seq(Char)]
    BY <2>1
  <2> HIDE DEF segs
  <2> QED BY <1>1, <2>2
<1> HIDE DEF segs
<1>8. header \in Seq(Char) /\ L \in Nat
  BY <1>7, FlattenPlaces
<1>9. PICK b : Laid(b, segs, header)
  BY <1>7, FlattenPlaces
<1> HIDE DEF header
<1>10. /\ b[0] = 0 /\ b[m] = L /\ \A n \in 1 .. m : b[n - 1] \in Nat /\ b[n] \in Nat
       /\ \A n \in 1 .. m : b[n] = b[n - 1] + Len(segs[n])
       /\ \A n \in 1 .. m : \A j \in 1 .. Len(segs[n]) :
             b[n - 1] + j \in 1 .. L /\ header[b[n - 1] + j] = segs[n][j]
       /\ \A p \in 1 .. L : \E n \in 1 .. m : p - b[n - 1] \in 1 .. Len(segs[n])
  <2>1. /\ b \in [0 .. m -> Nat] /\ b[0] = 0 /\ L = b[m]
        /\ \A n \in 1 .. m : b[n] = b[n - 1] + Len(segs[n])
        /\ \A n \in 1 .. m : \A j \in 1 .. Len(segs[n]) :
              b[n - 1] + j \in 1 .. L /\ header[b[n - 1] + j] = segs[n][j]
        /\ \A p \in 1 .. L : \E n \in 1 .. m : p - b[n - 1] \in 1 .. Len(segs[n])
    BY <1>7, <1>9 DEF Laid
  <2>2. \A n \in 1 .. m : n - 1 \in 0 .. m /\ n \in 0 .. m
    BY <1>1
  <2> HIDE DEF L
  <2> QED BY <2>1, <2>2
<1> HIDE DEF L
<1> DEFINE at == [n \in 1 .. m |-> b[n - 1] + Len(Sep(n)) + 1]
           Lies(n, B, d, w, v) ==
              /\ B \in Nat /\ w \in Nat \ {0} /\ v \in Nat /\ d = (IF n = 1 THEN 0 ELSE 2)
              /\ at[n] = B + d + 1 /\ b[n] = B + (d + w + 1 + v) /\ b[n] <= L /\ (n = 1 => B = 0)
              /\ \A j \in 1 .. d : header[B + j] = Sep(n)[j] /\ B + j \in 1 .. L
              /\ \A j \in 1 .. w : header[B + (d + j)] = order[n][j]
              /\ header[B + (d + w + 1)] = Eq
              /\ \A j \in 1 .. v : header[B + (d + w + 1 + j)] = Value(order, n)[j]
<1>11. ASSUME NEW n \in 1 .. m
       PROVE  Lies(n, b[n - 1], Len(Sep(n)), Len(order[n]), Len(Value(order, n)))
  <2> DEFINE B == b[n - 1]
             d == Len(Sep(n))
             w == Len(order[n])
             v == Len(Value(order, n))
  <2>0. B = b[n - 1] /\ d = Len(Sep(n)) /\ w = Len(order[n]) /\ v = Len(Value(order, n))
    OBVIOUS
  <2> HIDE DEF B, d, w, v
  <2>1. B \in Nat /\ w \in Nat \ {0} /\ v \in Nat /\ d = IF n = 1 THEN 0 ELSE 2
    BY <1>2, <1>3, <1>10, <2>0
  <2>2. /\ Len(segs[n]) = d + w + 1 + v /\ \A j \in 1 .. d : segs[n][j] = Sep(n)[j]
        /\ \A j \in 1 .. w : segs[n][d + j] = order[n][j]
        /\ segs[n][d + w + 1] = Eq
        /\ \A j \in 1 .. v : segs[n][d + w + 1 + j] = Value(order, n)[j]
    BY <1>6, <2>0
  <2>3. d \in Nat
    BY <2>1
  <2>4. /\ b[n] = B + (d + w + 1 + v)
        /\ \A j \in 1 .. d + w + 1 + v : B + j \in 1 .. L /\ header[B + j] = segs[n][j]
    BY <1>10, <2>0, <2>2
  <2>5. at[n] = B + d + 1
    BY <2>0
  <2>6. b[n] <= L
    <3>1. d + w + 1 + v \in 1 .. d + w + 1 + v
      BY <2>1, <2>3
    <3> DEFINE k == d + w + 1 + v
    <3>2. B + k \in 1 .. L
      <4> HIDE DEF k
      <4> QED BY <2>4, <3>1 DEF k
    <3> HIDE DEF k
    <3>3. b[n] = B + k
      BY <2>4 DEF k
    <3> QED BY <3>2, <3>3
  <2>7. /\ \A j \in 1 .. d : j \in 1 .. d + w + 1 + v
        /\ \A j \in 1 .. w : d + j \in 1 .. d + w + 1 + v
        /\ d + w + 1 \in 1 .. d + w + 1 + v
        /\ \A j \in 1 .. v : d + w + 1 + j \in 1 .. d + w + 1 + v
    BY <2>1, <2>3
  <2>8. n = 1 => B = 0
    BY <1>10, <2>0
  <2> HIDE DEF at
  <2> DEFINE K == 1 .. d + w + 1 + v
  <2>9. /\ \A j \in 1 .. d : j \in K
        /\ \A j \in 1 .. w : d + j \in K
        /\ d + w + 1 \in K
        /\ \A j \in 1 .. v : d + w + 1 + j \in K
    BY <2>7
  <2>10. \A j \in K : B + j \in 1 .. L /\ header[B + j] = segs[n][j]
    BY <2>4
  <2> HIDE DEF K
  <2>11. \A j \in 1 .. d : header[B + j] = Sep(n)[j] /\ B + j \in 1 .. L
    BY <2>2, <2>9, <2>10
  <2>12. \A j \in 1 .. w : header[B + (d + j)] = order[n][j]
    <3> SUFFICES ASSUME NEW j \in 1 .. w PROVE header[B + (d + j)] = order[n][j]
      OBVIOUS
    <3> DEFINE k == d + j
    <3>1. k \in K /\ segs[n][k] = order[n][j]
      BY <2>2, <2>9
    <3> HIDE DEF k
    <3>2. header[B + k] = order[n][j]
      BY <2>10, <3>1
    <3> QED BY <3>2 DEF k
  <2>13. header[B + (d + w + 1)] = Eq
    <3> DEFINE k == d + w + 1
    <3>1. k \in K /\ segs[n][k] = Eq
      BY <2>2, <2>9
    <3> HIDE DEF k
    <3>2. header[B + k] = Eq
      BY <2>10, <3>1
    <3> QED BY <3>2 DEF k
  <2>14. \A j \in 1 .. v : header[B + (d + w + 1 + j)] = Value(order, n)[j]
    <3> SUFFICES ASSUME NEW j \in 1 .. v PROVE header[B + (d + w + 1 + j)] = Value(order, n)[j]
      OBVIOUS
    <3> DEFINE k == d + w + 1 + j
    <3>1. k \in K /\ segs[n][k] = Value(order, n)[j]
      BY <2>2, <2>9
    <3> HIDE DEF k
    <3>2. header[B + k] = Value(order, n)[j]
      BY <2>10, <3>1
    <3> QED BY <3>2 DEF k
  <2> QED BY <2>0, <2>1, <2>4, <2>5, <2>6, <2>8, <2>11, <2>12, <2>13, <2>14
<1>12. ASSUME NEW n \in 1 .. m
       PROVE  CookieAt(at, order, header, n)
  <2> DEFINE B == b[n - 1]
             d == Len(Sep(n))
             w == Len(order[n])
             v == Len(Value(order, n))
  <2>1. /\ B \in Nat /\ w \in Nat \ {0} /\ v \in Nat /\ d = (IF n = 1 THEN 0 ELSE 2)
        /\ at[n] = B + d + 1 /\ b[n] = B + (d + w + 1 + v) /\ b[n] <= L /\ (n = 1 => B = 0)
        /\ \A j \in 1 .. d : header[B + j] = Sep(n)[j] /\ B + j \in 1 .. L
        /\ \A j \in 1 .. w : header[B + (d + j)] = order[n][j]
        /\ header[B + (d + w + 1)] = Eq
        /\ \A j \in 1 .. v : header[B + (d + w + 1 + j)] = Value(order, n)[j]
    <3>1. Lies(n, B, d, w, v)
      BY <1>11
    <3> HIDE DEF at, B, d, w, v
    <3> QED BY <3>1
  <2>2. LastOf(at, order, n) = at[n] + w + v
    BY DEF LastOf
  <2> HIDE DEF at, B, d, w, v
  <2>3. d \in Nat /\ at[n] \in Nat \ {0}
    BY <2>1
  <2>4. /\ \A j \in 1 .. w : at[n] + j - 1 = B + (d + j)
        /\ at[n] + w = B + (d + w + 1)
        /\ \A j \in 1 .. v : at[n] + w + j = B + (d + w + 1 + j)
        /\ at[n] + w + v = b[n]
    BY <2>1, <2>3
  <2>5. at[n] = 1 \/ (at[n] - 1 \in 1 .. L /\ header[at[n] - 1] = Space)
    <3>1. CASE n = 1
      BY <2>1, <3>1
    <3>2. CASE n # 1
      <4>1. d = 2 /\ at[n] - 1 = B + 2 /\ 2 \in 1 .. d
        BY <2>1, <3>2
      <4>2. header[B + 2] = Sep(n)[2] /\ B + 2 \in 1 .. L
        BY <2>1, <4>1
      <4> QED BY <1>4, <3>2, <4>1, <4>2
    <3> QED BY <3>1, <3>2
  <2>6. ASSUME b[n] # L PROVE header[b[n] + 1] = Semi
    <3> DEFINE k == n + 1
    <3>1. k \in 1 .. m /\ k # 1 /\ k - 1 = n
      BY <1>1, <1>10, <2>6
    <3> HIDE DEF k
    <3>2. \A j \in 1 .. Len(Sep(k)) : header[b[k - 1] + j] = Sep(k)[j]
      <4>1. Lies(k, b[k - 1], Len(Sep(k)), Len(order[k]), Len(Value(order, k)))
        BY <1>11, <3>1
      <4> QED BY <4>1
    <3>3. 1 \in 1 .. Len(Sep(k)) /\ Sep(k)[1] = Semi
      BY <1>3, <1>4, <3>1
    <3> QED BY <3>1, <3>2, <3>3
  <2>7. \A j \in 1 .. w : header[at[n] + j - 1] = order[n][j]
    BY <2>1, <2>4
  <2>8. header[at[n] + w] = Eq /\ \A j \in 1 .. v : header[at[n] + w + j] = Value(order, n)[j]
    BY <2>1, <2>4
  <2>9. LastOf(at, order, n) = b[n]
    BY <2>2, <2>4
  <2> QED BY <2>1, <2>3, <2>5, <2>6, <2>7, <2>8, <2>9 DEF CookieAt, L, w, v
<1>13. Gaps(at, order, header)
  <2> SUFFICES ASSUME NEW p \in 1 .. L, header[p] \in Whitespace \cup {Semi}
               PROVE  \/ header[p] = Space /\ \E n \in 1 .. m : at[n] = p + 1
                      \/ header[p] = Semi /\ header[p + 1] = Space
    BY DEF Gaps, L, m
  <2>1. PICK n \in 1 .. m : p - b[n - 1] \in 1 .. Len(segs[n])
    BY <1>10
  <2> DEFINE B == b[n - 1]
             d == Len(Sep(n))
             w == Len(order[n])
             v == Len(Value(order, n))
             j == p - B
  <2>2. /\ B \in Nat /\ w \in Nat \ {0} /\ v \in Nat /\ d = (IF n = 1 THEN 0 ELSE 2)
        /\ at[n] = B + d + 1
        /\ \A i \in 1 .. d : header[B + i] = Sep(n)[i] /\ B + i \in 1 .. L
        /\ \A i \in 1 .. w : header[B + (d + i)] = order[n][i]
        /\ header[B + (d + w + 1)] = Eq
        /\ \A i \in 1 .. v : header[B + (d + w + 1 + i)] = Value(order, n)[i]
    <3>1. Lies(n, B, d, w, v)
      BY <1>11
    <3> HIDE DEF at, B, d, w, v
    <3> QED BY <3>1
  <2>3. j \in 1 .. d + w + 1 + v
    BY <1>6, <2>1
  <2>4. p = B + j
    BY <1>8, <2>2
  <2>5. /\ \A i \in 1 .. w : order[n][i] \notin Whitespace \cup {Semi}
        /\ \A i \in 1 .. v : Value(order, n)[i] \notin Whitespace \cup {Semi}
    BY <1>2
  <2> HIDE DEF at, B, d, w, v, j
  <2>6. d \in Nat /\ j \in Nat
    BY <2>2, <2>3
  <2>7. CASE j <= d
    <3>1. n # 1 /\ d = 2 /\ (j = 1 \/ j = 2) /\ 1 \in 1 .. d /\ 2 \in 1 .. d
      BY <2>2, <2>3, <2>6, <2>7
    <3>2. header[B + 1] = Semi /\ header[B + 2] = Space
      BY <1>4, <2>2, <3>1
    <3>3. CASE j = 1
      <4>1. p + 1 = B + 2 /\ p = B + 1
        BY <2>2, <2>4, <3>3
      <4> QED BY <3>2, <4>1
    <3>4. CASE j = 2
      <4>1. p = B + 2 /\ at[n] = p + 1
        BY <2>2, <2>4, <3>1, <3>4
      <4> QED BY <3>2, <4>1
    <3> QED BY <3>1, <3>3, <3>4
  <2>8. CASE ~ (j <= d) /\ j <= d + w
    <3> DEFINE i == j - d
    <3>1. i \in 1 .. w /\ B + (d + i) = p
      BY <2>2, <2>3, <2>4, <2>6, <2>8
    <3> HIDE DEF i
    <3> QED BY <2>2, <2>5, <3>1
  <2>9. CASE ~ (j <= d + w) /\ j <= d + w + 1
    <3>1. B + (d + w + 1) = p
      BY <2>2, <2>3, <2>4, <2>6, <2>9
    <3>2. Eq \notin Whitespace \cup {Semi}
      BY DEF Eq, Whitespace, Semi
    <3> QED BY <2>2, <3>1, <3>2
  <2>10. CASE ~ (j <= d + w + 1)
    <3> DEFINE i == j - (d + w + 1)
    <3>1. i \in 1 .. v /\ B + (d + w + 1 + i) = p
      BY <2>2, <2>3, <2>4, <2>6, <2>10
    <3> HIDE DEF i
    <3> QED BY <2>2, <2>5, <3>1
  <2> QED BY <2>2, <2>6, <2>7, <2>8, <2>9, <2>10
<1>14. m # 0 => at[1] = 1
  <2> SUFFICES ASSUME m # 0 PROVE at[1] = 1
    OBVIOUS
  <2>1. 1 \in 1 .. m
    BY <1>1
  <2> QED BY <1>3, <1>10, <2>1
<1>15. m = 0 => header = <<>>
  <2> SUFFICES ASSUME m = 0 PROVE header = <<>>
    OBVIOUS
  <2>1. Len(header) = 0
    BY <1>10 DEF L
  <2> QED BY <1>8, <2>1, EmptySeq
<1>16. Written(at, order, header)
  <2> HIDE DEF at
  <2> QED BY <1>12, <1>13, <1>14, <1>15 DEF Written, m
<1> QED
  <2> HIDE DEF at
  <2> QED BY <1>5, <1>8, <1>16

\* The names and values of the cookies that are sent.
LEMMA SentAre ==
    ASSUME jar \in Jars, NEW order \in SetToSeqs(DOMAIN jar), NEW n \in 1 .. Len(order)
    PROVE  /\ order[n] \in Seq(Char) /\ Len(order[n]) \in Nat /\ Len(order[n]) # 0
           /\ order[n] \in DOMAIN jar
           /\ Value(order, n) \in Seq(Char) /\ Len(Value(order, n)) \in Nat
           /\ \A j \in 1 .. Len(order[n]) : order[n][j] # Eq
           /\ \A j \in 1 .. Len(Value(order, n)) : Value(order, n)[j] # Semi
<1>1. order[n] \in CookieName /\ order[n] \in DOMAIN jar
  BY OrderIs, ElementOfSeq
<1>2. Value(order, n) \in CookieText
  BY <1>1, JarIs DEF Value
<1> DEFINE X == Char \ (Whitespace \cup {0, Semi})
           Y == Char \ (Whitespace \cup {0, Semi, Eq})
           x == order[n]
           y == Value(order, n)
<1>3. X \subseteq Char /\ Y \subseteq Char /\ x \in Seq(Y) /\ x # <<>> /\ y \in Seq(X)
  BY <1>1, <1>2 DEF CookieName, CookieText
<1>4. (\A c \in X : c # Semi) /\ (\A c \in Y : c # Eq)
  BY DEF X, Y
<1> HIDE DEF X, Y, x, y
<1>5. x \in Seq(Char) /\ y \in Seq(Char)
  BY <1>3, SeqMonotonic
<1>6. Len(x) \in Nat /\ Len(x) # 0 /\ Len(y) \in Nat
  BY <1>3, <1>5, EmptySeq
<1>7. (\A j \in 1 .. Len(x) : x[j] \in Y) /\ (\A j \in 1 .. Len(y) : y[j] \in X)
  BY <1>3, ElementOfSeq
<1> QED BY <1>1, <1>4, <1>5, <1>6, <1>7 DEF x, y

\* A name that is asked for.
LEMMA NameIs ==
    ASSUME NEW name \in CookieName
    PROVE  /\ name \in Seq(Char) /\ name \in CookieText /\ name # <<>>
           /\ Len(name) \in Nat /\ Len(name) >= 1
           /\ \A j \in 1 .. Len(name) : name[j] # Eq /\ name[j] \notin Whitespace \cup {Semi}
<1> DEFINE X == Char \ (Whitespace \cup {0, Semi})
           Y == Char \ (Whitespace \cup {0, Semi, Eq})
<1>1. name \in Seq(Y) /\ name # <<>> /\ Y \subseteq X /\ Y \subseteq Char /\ CookieText = Seq(X)
  BY DEF CookieName, CookieText
<1>2. \A c \in Y : c # Eq /\ c \notin Whitespace \cup {Semi}
  BY DEF Y
<1> HIDE DEF X, Y
<1>3. name \in Seq(Char) /\ name \in CookieText
  BY <1>1, SeqMonotonic
<1>4. \A j \in 1 .. Len(name) : name[j] \in Y
  BY <1>1, ElementOfSeq
<1>5. Len(name) \in Nat /\ Len(name) >= 1
  BY <1>1, EmptySeq
<1> QED
  BY <1>1, <1>2, <1>3, <1>4, <1>5

\* A name of a cookie stands in the header where that cookie was written, and nowhere else:
\* not in a longer name, nor in a value.
LEMMA HitsAre ==
    ASSUME jar \in Jars, NEW order \in SetToSeqs(DOMAIN jar), NEW header \in Seq(Char),
           NEW at, Written(at, order, header), NEW name \in CookieName, NEW i
    PROVE  i \in CookieHits(header, name, Places(header, Eq))
              <=> \E n \in 1 .. Len(order) : order[n] = name /\ i = at[n]
<1> DEFINE L == Len(header)
           w == Len(name)
<1>1. L \in Nat /\ w \in Nat /\ w >= 1 /\ DOMAIN header = 1 .. L /\ Len(order) \in Nat
  BY NameIs, OrderIs
<1>2. ASSUME NEW n \in 1 .. Len(order), order[n] = name, i = at[n]
      PROVE  i \in CookieHits(header, name, Places(header, Eq))
  <2> DEFINE v == Len(Value(order, n))
  <2>1. CookieAt(at, order, header, n) /\ v \in Nat
    BY SentAre DEF Written
  <2>2. /\ i \in Nat \ {0} /\ i + w + v <= L
        /\ \A j \in 1 .. w : header[i + j - 1] = name[j]
        /\ header[i + w] = Eq /\ (i = 1 \/ header[i - 1] = Space)
    BY <1>2, <2>1 DEF CookieAt, LastOf
  <2> HIDE DEF v
  <2>3. i \in 1 .. L - w + 1 /\ i + w \in 1 .. L
    BY <1>1, <2>1, <2>2
  <2>4. SubSeq(header, i, i + w - 1) = name
    BY <2>2, <2>3, NameIs, HitIs
  <2>5. NameBegins(header, i)
    BY <2>2 DEF NameBegins, Whitespace, Space
  <2>6. i + w \in Places(header, Eq)
    BY <1>1, <2>2, <2>3 DEF Places
  <2> QED BY <2>3, <2>4, <2>5, <2>6 DEF CookieHits, NameHits
<1>3. ASSUME i \in CookieHits(header, name, Places(header, Eq))
      PROVE  \E n \in 1 .. Len(order) : order[n] = name /\ i = at[n]
  <2>1. /\ i \in 1 .. L - w + 1 /\ SubSeq(header, i, i + w - 1) = name
        /\ NameBegins(header, i) /\ i + w \in Places(header, Eq)
    BY <1>3 DEF CookieHits, NameHits
  <2>2. \A j \in 1 .. w : header[i + j - 1] = name[j]
    BY <2>1, NameIs, HitIs
  <2>3. i + w \in 1 .. L /\ header[i + w] = Eq
    BY <1>1, <2>1 DEF Places
  <2>4. \E n \in 1 .. Len(order) : i = at[n]
    <3>1. CASE i = 1
      <4>1. Len(order) # 0
        <5>1. header # <<>>
          BY <1>1, <2>3
        <5> QED BY <5>1 DEF Written
      <4>2. at[1] = 1 /\ 1 \in 1 .. Len(order)
        BY <1>1, <4>1 DEF Written
      <4> QED BY <3>1, <4>2
    <3>2. CASE i # 1
      <4> DEFINE p == i - 1
      <4>1. p \in 1 .. L /\ header[p] \in Whitespace \cup {Semi} /\ p + 1 = i /\ i + 1 - 1 = i
        BY <1>1, <2>1, <3>2 DEF NameBegins
      <4>2. header[i] = name[1] /\ name[1] \notin Whitespace \cup {Semi}
        <5>1. 1 \in 1 .. w
          BY <1>1
        <5> QED BY <2>2, <4>1, <5>1, NameIs
      <4> HIDE DEF p
      <4>3. Space \in Whitespace
        BY DEF Space, Whitespace
      <4>4. \/ header[p] = Space /\ \E n \in 1 .. Len(order) : at[n] = p + 1
            \/ header[p] = Semi /\ header[p + 1] = Space
        BY <4>1 DEF Written, Gaps
      <4> QED BY <4>1, <4>2, <4>3, <4>4
    <3> QED BY <3>1, <3>2
  <2>5. PICK n \in 1 .. Len(order) : i = at[n]
    BY <2>4
  <2> DEFINE x == order[n]
             u == Len(x)
  <2>6. x \in Seq(Char) /\ u \in Nat /\ \A j \in 1 .. u : x[j] # Eq
    BY SentAre
  <2>7. (\A j \in 1 .. u : header[i + j - 1] = x[j]) /\ header[i + u] = Eq
    BY <2>5 DEF Written, CookieAt
  <2>8. \A j \in 1 .. w : name[j] # Eq
    BY NameIs
  <2> HIDE DEF x, u, w
  <2>9. ~ (u < w)
    <3> SUFFICES ASSUME u < w PROVE FALSE
      OBVIOUS
    <3>1. u + 1 \in 1 .. w /\ i + (u + 1) - 1 = i + u
      BY <1>1, <2>1, <2>6
    <3> QED BY <2>2, <2>7, <2>8, <3>1
  <2>10. ~ (w < u)
    <3> SUFFICES ASSUME w < u PROVE FALSE
      OBVIOUS
    <3>1. w + 1 \in 1 .. u /\ i + (w + 1) - 1 = i + w
      BY <1>1, <2>1, <2>6
    <3> QED BY <2>3, <2>6, <2>7, <3>1
  <2>11. u = w
    BY <1>1, <2>6, <2>9, <2>10
  <2>12. x = name
    <3>1. Len(x) = Len(name) /\ \A j \in 1 .. Len(x) : x[j] = name[j]
      BY <2>2, <2>7, <2>11 DEF u, w
    <3> QED BY <2>6, <3>1, NameIs, SeqEqual
  <2> QED BY <2>5, <2>12 DEF x
<1> QED
  BY <1>2, <1>3

\* find: the first place from a place on, if there is one.
Found(s, c, from, f) ==
    \/ f = 0 /\ \A p \in from .. Len(s) : s[p] # c
    \/ f \in from .. Len(s) /\ s[f] = c /\ \A p \in from .. f - 1 : s[p] # c

LEMMA FindIs ==
    ASSUME NEW s, NEW c, NEW from \in Nat \ {0}, Len(s) \in Nat
    PROVE  Found(s, c, from, Find(s, c, from))
<1> DEFINE I == {i \in from .. Len(s) : s[i] = c}
           f == Find(s, c, from)
<1>1. f = IF I # {} THEN Min(I) ELSE 0
  BY DEF Find, SelectInSubSeq
<1>2. I \subseteq Nat
  OBVIOUS
<1>3. CASE I = {}
  BY <1>1, <1>3 DEF Found
<1>4. CASE I # {}
  <2>1. f \in I /\ \A y \in I : f <= y
    <3> HIDE DEF I
    <3> QED BY <1>1, <1>2, <1>4, MinOf
  <2> HIDE DEF f
  <2>2. \A p \in from .. f - 1 : p \in from .. Len(s) /\ ~ (f <= p)
    BY <2>1
  <2> QED BY <2>1, <2>2 DEF Found, f
<1> QED
  BY <1>3, <1>4

\* A part of a text.
LEMMA SliceIs ==
    ASSUME NEW S, NEW s \in Seq(S), NEW i \in Nat \ {0}, NEW m \in Nat, i <= m + 1, m <= Len(s)
    PROVE  /\ SubSeq(s, i, m) \in Seq(S) /\ Len(SubSeq(s, i, m)) = m - i + 1
           /\ \A p \in 1 .. m - i + 1 : SubSeq(s, i, m)[p] = s[i + p - 1]
<1>1. \A p \in i .. m : s[p] \in S
  <2>1. \A p \in i .. m : p \in 1 .. Len(s)
    OBVIOUS
  <2> QED BY <2>1, ElementOfSeq
<1>2. i \in Int /\ m \in Int
  OBVIOUS
<1>3. /\ SubSeq(s, i, m) \in Seq(S)
      /\ Len(SubSeq(s, i, m)) = IF i <= m THEN m - i + 1 ELSE 0
      /\ \A p \in 1 .. m - i + 1 : SubSeq(s, i, m)[p] = s[i + p - 1]
  BY <1>1, <1>2, SubSeqProperties
<1> QED
  BY <1>3

\* getCookie and cookieExists read each cookie as it was written.
LEMMA CookieIsRead ==
    ASSUME jar \in Jars, NEW order \in SetToSeqs(DOMAIN jar), NEW header \in Seq(Char),
           NEW at, Written(at, order, header), NEW name \in CookieName
    PROVE  /\ getCookie(header, name) = get_header(jar, name)
           /\ cookieExists(header, name) <=> name \in DOMAIN jar
           /\ name \in DOMAIN jar => cookieExists(header, name \o <<Eq>> \o jar[name])
<1> DEFINE L == Len(header)
           w == Len(name)
           ends == Places(header, Eq)
           hits == CookieHits(header, name, ends)
           pos == AfterName(header, name, ends)
<1>1. L \in Nat /\ w \in Nat /\ w >= 1 /\ DOMAIN header = 1 .. L /\ Len(order) \in Nat
  BY NameIs, OrderIs
<1>2. pos = IF hits = {} THEN 0 ELSE Min(hits) + w
  BY NameIs, AfterNameIs
<1>3. \A i : i \in hits <=> \E n \in 1 .. Len(order) : order[n] = name /\ i = at[n]
  BY HitsAre
<1>4. hits # {} => Min(hits) \in hits /\ Min(hits) \in Nat /\ Min(hits) >= 1
  <2>1. \A i \in hits : i \in Nat /\ i >= 1
    BY <1>1 DEF CookieHits, NameHits
  <2> HIDE DEF hits
  <2> QED BY <2>1, MinOf
<1>5. cookieExists(header, name) <=> pos # 0
  <2>1. ~Contains(name, Eq)
    BY NameIs DEF Contains
  <2> QED BY <2>1 DEF cookieExists
<1> HIDE DEF hits, pos, L, w, ends
<1>6. CASE name \notin DOMAIN jar
  <2>1. hits = {}
    BY <1>3, <1>6, SentAre
  <2>2. pos = 0
    BY <1>2, <2>1
  <2>3. getCookie(header, name) = <<>> /\ get_header(jar, name) = <<>>
    BY <1>6, <2>2 DEF getCookie, get_header, pos, ends
  <2> QED BY <1>5, <1>6, <2>2, <2>3
<1>7. CASE name \in DOMAIN jar
  <2>1. hits # {}
    <3>1. PICK k \in 1 .. Len(order) : order[k] = name
      BY <1>7, OrderIs
    <3> QED BY <1>3, <3>1
  <2>2. PICK n \in 1 .. Len(order) : order[n] = name /\ Min(hits) = at[n]
    BY <1>3, <1>4, <2>1
  <2> DEFINE i == at[n]
             value == jar[name]
             v == Len(value)
             l == pos + v
  <2>3. i \in Nat /\ i >= 1 /\ pos = i + w
    BY <1>2, <1>4, <2>1, <2>2
  <2>4. value \in Seq(Char) /\ v \in Nat /\ \A j \in 1 .. v : value[j] # Semi
    BY <2>2, SentAre DEF Value
  <2>5. /\ \A j \in 1 .. w : header[i + j - 1] = name[j]
        /\ header[pos] = Eq
        /\ \A j \in 1 .. v : header[pos + j] = value[j]
        /\ i = 1 \/ header[i - 1] = Space
        /\ l <= L /\ (l # L => header[l + 1] = Semi)
    <3>1. CookieAt(at, order, header, n)
      BY DEF Written
    <3>2. Value(order, n) = value
      BY <2>2 DEF Value
    <3> QED BY <2>2, <2>3, <3>1, <3>2 DEF CookieAt, LastOf, w, L
  <2> HIDE DEF i, value, v
  <2>6. pos \in Nat /\ pos >= 2 /\ l \in Nat /\ pos + 1 \in Nat \ {0}
    BY <1>1, <2>3, <2>4
  <2>7. cookieExists(header, name)
    BY <1>5, <2>6
  <2>8. getCookie(header, name) = value
    <3> DEFINE end == Find(header, Semi, pos + 1)
               last == IF end = 0 THEN L ELSE end - 1
    <3>1. Found(header, Semi, pos + 1, end)
      BY <1>1, <2>6, FindIs DEF L
    <3> HIDE DEF end
    <3>2. last = l
      <4>1. CASE end = 0
        <5> SUFFICES ASSUME l # L PROVE FALSE
          BY <4>1
        <5>1. l + 1 \in pos + 1 .. L /\ header[l + 1] = Semi
          BY <1>1, <2>4, <2>5, <2>6
        <5>2. end \notin pos + 1 .. L
          BY <2>6, <4>1
        <5>3. \A p \in pos + 1 .. L : header[p] # Semi
          BY <3>1, <5>2 DEF Found, L
        <5> QED BY <5>1, <5>3
      <4>2. CASE end # 0
        <5>1. end \in pos + 1 .. L /\ header[end] = Semi /\ \A p \in pos + 1 .. end - 1 : header[p] # Semi
          BY <3>1, <4>2 DEF Found, L
        <5>2. ~ (end <= l)
          <6> SUFFICES ASSUME end <= l PROVE FALSE
            OBVIOUS
          <6>1. end - pos \in 1 .. v /\ pos + (end - pos) = end
            BY <2>4, <2>6, <5>1
          <6> QED BY <2>4, <2>5, <5>1, <6>1
        <5>3. ~ (end > l + 1)
          <6> SUFFICES ASSUME end > l + 1 PROVE FALSE
            OBVIOUS
          <6>1. l + 1 \in pos + 1 .. end - 1 /\ l # L
            BY <1>1, <2>4, <2>6, <5>1
          <6> QED BY <2>5, <5>1, <6>1
        <5>4. end - 1 = l
          BY <2>6, <5>1, <5>2, <5>3
        <5> QED BY <4>2, <5>4
      <4> QED BY <4>1, <4>2
    <3>3. getCookie(header, name) = SubSeq(header, pos + 1, last)
      <4>1. getCookie(header, name) = IF pos = 0 THEN <<>> ELSE SubSeq(header, pos + 1, last)
        BY DEF getCookie, pos, ends, end, L
      <4>2. pos # 0
        BY <2>6
      <4> QED BY <4>1, <4>2
    <3> DEFINE from == pos + 1
               sub == SubSeq(header, from, l)
    <3>4. from \in Nat \ {0} /\ from <= l + 1 /\ l - from + 1 = v
      BY <2>4, <2>6
    <3>5. \A p : p \in 1 .. v => from + p - 1 = pos + p
      BY <2>4, <2>6
    <3> HIDE DEF from, l
    <3>6. /\ sub \in Seq(Char) /\ Len(sub) = v
          /\ \A p \in 1 .. v : sub[p] = header[from + p - 1]
      <4>1. l <= Len(header)
        BY <2>5 DEF L
      <4>2. /\ sub \in Seq(Char) /\ Len(sub) = l - from + 1
            /\ \A p \in 1 .. l - from + 1 : sub[p] = header[from + p - 1]
        BY <2>6, <3>4, <4>1, SliceIs
      <4> QED BY <3>4, <4>2
    <3> HIDE DEF sub
    <3>7. \A p \in 1 .. v : sub[p] = value[p]
      BY <2>5, <3>5, <3>6
    <3>8. sub = value
      BY <2>4, <3>6, <3>7, SeqEqual DEF v
    <3> QED BY <3>2, <3>3, <3>8 DEF sub, from
  <2>9. cookieExists(header, name \o <<Eq>> \o jar[name])
    <3> DEFINE whole == Pair(name, value)
               length == w + 1 + v
               where == Places(header, Semi) \cup {Len(header) + 1}
               found == CookieHits(header, whole, where)
               after == AfterName(header, whole, where)
    <3>1. whole = name \o <<Eq>> \o jar[name]
      BY DEF Pair, value
    <3>2. /\ whole \in Seq(Char) /\ Len(whole) = length
          /\ \A j \in 1 .. w : whole[j] = name[j]
          /\ whole[w + 1] = Eq
          /\ \A j \in 1 .. v : whole[w + 1 + j] = value[j]
      BY ZenonT(40), <2>4, NameIs, PairIs DEF w, v
    <3> HIDE DEF whole
    <3>3. whole \in CookieText /\ whole # <<>>
      <4> DEFINE X == Char \ (Whitespace \cup {0, Semi})
      <4>1. name \in Seq(X) /\ value \in Seq(X) /\ <<Eq>> \in Seq(X)
        <5>1. Eq \in X
          BY DEF Eq, Char, Whitespace, Semi
        <5>2. value \in CookieText
          BY <1>7, JarIs DEF value
        <5> QED BY <5>1, <5>2, NameIs DEF CookieText
      <4>2. CookieText = Seq(X)
        BY DEF CookieText
      <4> HIDE DEF X
      <4>3. whole \in Seq(X)
        BY <3>1, <4>1, ConcatProperties DEF value
      <4>4. Len(whole) # 0
        BY <1>1, <2>4, <3>2
      <4> QED BY <3>2, <4>2, <4>3, <4>4, EmptySeq
    <3>4. Contains(whole, Eq)
      <4>1. w + 1 \in 1 .. length
        BY <1>1, <2>4
      <4> QED BY <3>2, <4>1 DEF Contains
    <3>5. i \in found
      <4>1. i \in 1 .. Len(header) - Len(whole) + 1
        <5>1. Len(whole) = length /\ Len(header) = L
          BY <3>2 DEF L
        <5>2. pos + v <= L
          BY <2>5
        <5>3. i \in 1 .. L - length + 1
          BY <1>1, <2>3, <2>4, <5>2
        <5> QED BY <5>1, <5>3
      <4>2. ASSUME NEW j \in 1 .. length
            PROVE  header[i + j - 1] = whole[j]
        <5>1. CASE j <= w
          <6>1. j \in 1 .. w
            BY <5>1
          <6> QED BY <2>5, <3>2, <6>1
        <5>2. CASE j = w + 1
          <6>1. i + j - 1 = pos
            BY <1>1, <2>3, <5>2
          <6> QED BY <2>5, <3>2, <5>2, <6>1
        <5>3. CASE j > w + 1
          <6> DEFINE k == j - (w + 1)
          <6>1. k \in 1 .. v /\ i + j - 1 = pos + k /\ j = w + 1 + k
            BY <1>1, <2>3, <2>4, <5>3
          <6> HIDE DEF k
          <6> QED BY <2>5, <3>2, <6>1
        <5> QED BY <1>1, <5>1, <5>2, <5>3
      <4>3. SubSeq(header, i, i + Len(whole) - 1) = whole
        <5> HIDE DEF length
        <5> QED BY <3>2, <3>3, <4>1, <4>2, HitIs
      <4>4. NameBegins(header, i)
        BY <2>5 DEF NameBegins, Whitespace, Space
      <4>5. i + Len(whole) = l + 1
        BY <1>1, <2>3, <2>4, <3>2
      <4>6. l + 1 \in where
        <5>1. CASE l = L
          BY <5>1 DEF L
        <5>2. CASE l # L
          <6>1. l + 1 \in 1 .. L /\ header[l + 1] = Semi
            BY <1>1, <2>5, <2>6, <5>2
          <6> QED BY <1>1, <6>1 DEF Places
        <5> QED BY <5>1, <5>2
      <4> QED BY <4>1, <4>3, <4>4, <4>5, <4>6 DEF CookieHits, NameHits
    <3>6. after = IF found = {} THEN 0 ELSE Min(found) + Len(whole)
      <4> HIDE DEF where
      <4> QED BY <3>3, AfterNameIs
    <3>7. found \subseteq Nat
      BY <1>1, <3>2 DEF CookieHits, NameHits
    <3> HIDE DEF found, after, where
    <3>8. Min(found) \in Nat
      BY <3>5, <3>7, MinOf
    <3>9. after # 0
      BY <1>1, <2>4, <3>2, <3>5, <3>6, <3>8
    <3>10. cookieExists(header, whole)
      BY <3>4, <3>9 DEF cookieExists, after, where
    <3> QED BY <3>1, <3>10
  <2> QED BY <1>7, <2>7, <2>8, <2>9 DEF get_header, value
<1> QED
  BY <1>6, <1>7

------------------------------------------------------------------------------
(* The headers of a request *)

HeaderLines == [key : {"Host", "Cookie"}, value : Seq(Char), hash : {0, 1}]
HeaderMaps  == UNION {[D -> Seq(Char)] : D \in SUBSET {"Host", "Cookie"}}

LEMMA CopyHeaderKeeps ==
    ASSUME NEW map \in HeaderMaps, NEW h \in HeaderLines
    PROVE  copy_header(map, h) \in HeaderMaps
<1> DEFINE names == {"Host", "Cookie"}
           D == DOMAIN map
           E == {h.key} \cup D
<1>1. h.key \in names /\ h.value \in Seq(Char)
  BY DEF HeaderLines
<1>2. D \in SUBSET names /\ \A k \in D : map[k] \in Seq(Char)
  BY DEF HeaderMaps
<1>3. Assign(map, h.key, h.value) \in [E -> Seq(Char)]
  BY <1>1, <1>2 DEF Assign
<1>4. Assign(map, h.key, h.value) \in HeaderMaps
  <2>1. E \in SUBSET names
    BY <1>1, <1>2
  <2> HIDE DEF E, D
  <2> QED BY <1>3, <2>1 DEF HeaderMaps
<1> QED
  BY <1>4 DEF copy_header

\* The headers, copied one after the other.
LEMMA HeaderChain ==
    ASSUME NEW map \in HeaderMaps, NEW list \in Seq(HeaderLines)
    PROVE  \E g \in [0 .. Len(list) -> HeaderMaps] :
              /\ g[0] = map /\ FoldLeft(copy_header, map, list) = g[Len(list)]
              /\ \A i \in 1 .. Len(list) : g[i] = copy_header(g[i - 1], list[i])
<1> DEFINE n == Len(list)
           iter[s \in SUBSET DOMAIN list] ==
             IF s = {} THEN map ELSE LET x == Max(s) IN copy_header(iter[s \ {x}], list[x])
           H == [i \in 1 .. n |-> [c \in HeaderMaps |-> copy_header(c, list[i])]]
<1>0. n \in Nat /\ DOMAIN list = 1 .. n /\ \A i \in 1 .. n : list[i] \in HeaderLines
  OBVIOUS
<1>1. FoldLeft(copy_header, map, list) = iter[1 .. n]
  BY <1>0 DEF FoldLeft, MapThenFoldSet
<1>2. PICK h : IsFold(h, n, HeaderMaps, map, H)
  <2>1. H \in Steps(n, HeaderMaps)
    BY <1>0, CopyHeaderKeeps DEF Steps
  <2> HIDE DEF H, n
  <2> QED
    BY <1>0, <2>1, FoldExists
<1>3. iter = [s \in SUBSET (1 .. n) |->
                IF s = {} THEN map ELSE LET x == Max(s) IN copy_header(iter[s \ {x}], list[x])]
  <2>1. ASSUME NEW s \in SUBSET (1 .. n), s # {}
        PROVE  h[s] = copy_header(h[s \ {Max(s)}], list[Max(s)])
    <3>1. Max(s) \in 1 .. n
      BY <1>0, <2>1, MaxOf
    <3>2. h[s \ {Max(s)}] \in HeaderMaps /\ h[s] = H[Max(s)][h[s \ {Max(s)}]]
      BY <1>2, <2>1 DEF IsFold
    <3> QED
      BY <3>1, <3>2
  <2>2. h = [s \in SUBSET (1 .. n) |->
               IF s = {} THEN map ELSE LET x == Max(s) IN copy_header(h[s \ {x}], list[x])]
    BY <1>2, <2>1 DEF IsFold
  <2>3. \E k : k = [s \in SUBSET DOMAIN list |->
                      IF s = {} THEN map ELSE LET x == Max(s) IN copy_header(k[s \ {x}], list[x])]
    BY <1>0, <2>2
  <2> QED
    BY <1>0, <2>3
<1> HIDE DEF iter, H
<1> DEFINE g == [i \in 0 .. n |-> iter[1 .. i]]
           S == {i \in 0 .. n : g[i] \in HeaderMaps}
<1>4. g[0] = map
  <2>1. 1 .. 0 = {}
    OBVIOUS
  <2>2. iter[{}] = map
    BY <1>3
  <2> QED
    BY <1>0, <2>1, <2>2
<1>5. ASSUME NEW i \in 1 .. n PROVE g[i] = copy_header(g[i - 1], list[i])
  <2>1. i \in Nat /\ i > 0 /\ 1 .. i \in SUBSET (1 .. n) /\ i \in 1 .. i /\ i - 1 \in 0 .. n
    BY <1>0
  <2>2. Max(1 .. i) = i /\ (1 .. i) \ {i} = 1 .. i - 1
    BY <2>1, MaxOfInterval
  <2>3. iter[1 .. i] = copy_header(iter[1 .. i - 1], list[i])
    BY <1>3, <2>1, <2>2
  <2> QED
    BY <2>1, <2>3
<1>6. \A i \in 0 .. n : i \in S
  <2>1. 0 \in S
    BY <1>0, <1>4
  <2>2. ASSUME NEW i \in 0 .. n - 1, i \in S PROVE i + 1 \in S
    <3>1. i + 1 \in 1 .. n /\ i + 1 \in 0 .. n /\ (i + 1) - 1 = i /\ g[i] \in HeaderMaps
      BY <1>0, <2>2
    <3>2. g[i + 1] = copy_header(g[i], list[i + 1]) /\ list[i + 1] \in HeaderLines
      BY <1>0, <1>5, <3>1
    <3>3. g[i + 1] \in HeaderMaps
      <4> HIDE DEF g
      <4> QED BY <3>1, <3>2, CopyHeaderKeeps
    <3> QED
      BY <3>1, <3>3
  <2> HIDE DEF S, n
  <2> QED
    BY <1>0, <2>1, <2>2, InductUpTo
<1>7. g \in [0 .. n -> HeaderMaps] /\ FoldLeft(copy_header, map, list) = g[n]
  BY <1>0, <1>1, <1>6
<1> QED
  <2> HIDE DEF g
  <2> QED BY <1>4, <1>5, <1>7

\* A list in two parts is walked as one.
LEMMA PartsAreOne ==
    ASSUME NEW V, NEW list \in Seq(V), NEW size \in 1 .. Len(list) - 1
    PROVE  HeaderWalk(<<SubSeq(list, 1, size), SubSeq(list, size + 1, Len(list))>>) = list
<1> DEFINE n == Len(list)
           x == SubSeq(list, 1, size)
           y == SubSeq(list, size + 1, n)
           seqs == <<x, y>>
<1>1. n \in Nat /\ size \in Nat /\ size <= n
  OBVIOUS
<1>2. x \in Seq(V) /\ Len(x) = size /\ \A p \in 1 .. size : x[p] = list[p]
  <2> DEFINE one == 1
  <2>1. one \in Nat \ {0} /\ one <= size + 1 /\ size - one + 1 = size
        /\ \A p \in 1 .. size : one + p - 1 = p
    BY <1>1
  <2> HIDE DEF one
  <2> DEFINE s == SubSeq(list, one, size)
  <2>2. /\ s \in Seq(V) /\ Len(s) = size - one + 1
        /\ \A p \in 1 .. size - one + 1 : s[p] = list[one + p - 1]
    BY <1>1, <2>1, SliceIs
  <2>3. s = x
    BY DEF one
  <2> HIDE DEF s, x
  <2> QED BY <2>1, <2>2, <2>3
<1>3. y \in Seq(V) /\ Len(y) = n - size /\ \A p \in 1 .. n - size : y[p] = list[size + p]
  <2> DEFINE from == size + 1
  <2>1. from \in Nat \ {0} /\ from <= n + 1 /\ n - from + 1 = n - size
        /\ \A p \in 1 .. n - size : from + p - 1 = size + p
    BY <1>1
  <2> HIDE DEF from
  <2> DEFINE s == SubSeq(list, from, n)
  <2>2. /\ s \in Seq(V) /\ Len(s) = n - from + 1
        /\ \A p \in 1 .. n - from + 1 : s[p] = list[from + p - 1]
    <3> HIDE DEF n
    <3>1. n <= Len(list)
      BY DEF n
    <3> QED BY <1>1, <2>1, <3>1, SliceIs
  <2>3. s = y
    BY DEF from
  <2> HIDE DEF s, y
  <2> QED BY <2>1, <2>2, <2>3
<1> HIDE DEF x, y
<1>4. seqs \in Seq(Seq(V)) /\ seqs # <<>> /\ Len(seqs) = 2 /\ seqs[1] = x /\ seqs[2] = y
  BY <1>2, <1>3
<1> HIDE DEF seqs
<1>5. HeaderWalk(seqs) = FlattenSeq(seqs)
  BY <1>4, HeaderWalkIs
<1>6. PICK g \in [0 .. Len(seqs) -> Seq(V)] :
         /\ g[0] = <<>> /\ FlattenSeq(seqs) = g[Len(seqs)]
         /\ \A i \in 1 .. Len(seqs) : g[i] = g[i - 1] \o seqs[i]
  BY <1>4, FlattenChain
<1>7. g[1] = <<>> \o x /\ g[2] = g[1] \o y
  <2>1. 1 \in 1 .. 2 /\ 2 \in 1 .. 2 /\ 1 - 1 = 0 /\ 2 - 1 = 1
    OBVIOUS
  <2>2. g[1] = g[1 - 1] \o seqs[1] /\ g[2] = g[2 - 1] \o seqs[2]
    BY <1>4, <1>6, <2>1
  <2> QED BY <1>4, <1>6, <2>1, <2>2
<1>8. FlattenSeq(seqs) = x \o y
  BY <1>2, <1>4, <1>6, <1>7, ConcatEmptySeq
<1>9. x \o y = list
  <2> DEFINE z == x \o y
  <2>1. /\ z \in Seq(V) /\ Len(z) = Len(x) + Len(y)
        /\ \A p \in 1 .. Len(x) + Len(y) : z[p] = IF p <= Len(x) THEN x[p] ELSE y[p - Len(x)]
    BY <1>2, <1>3, ConcatProperties
  <2> HIDE DEF z
  <2>2. Len(z) = n
    BY <1>1, <1>2, <1>3, <2>1
  <2>3. ASSUME NEW p \in 1 .. n PROVE z[p] = list[p]
    <3>1. z[p] = IF p <= size THEN x[p] ELSE y[p - size]
      BY <1>1, <1>2, <1>3, <2>1
    <3>2. CASE p <= size
      BY <1>2, <3>1, <3>2
    <3>3. CASE ~ (p <= size)
      <4>1. p - size \in 1 .. n - size /\ size + (p - size) = p
        BY <1>1, <3>3
      <4> QED BY <1>3, <3>1, <3>3, <4>1
    <3> QED BY <3>2, <3>3
  <2>4. z = list
    BY <2>1, <2>2, <2>3, SeqEqual
  <2> QED BY <2>4 DEF z
<1> QED
  BY <1>5, <1>8, <1>9 DEF seqs, x, y

LEMMA PartIsOne ==
    ASSUME NEW V, NEW list \in Seq(V)
    PROVE  HeaderWalk(<<list>>) = list
<1> DEFINE seqs == <<list>>
<1>1. seqs \in Seq(Seq(V)) /\ seqs # <<>> /\ Len(seqs) = 1 /\ seqs[1] = list
  OBVIOUS
<1> HIDE DEF seqs
<1>2. HeaderWalk(seqs) = FlattenSeq(seqs)
  BY <1>1, HeaderWalkIs
<1>3. PICK g \in [0 .. Len(seqs) -> Seq(V)] :
         /\ g[0] = <<>> /\ FlattenSeq(seqs) = g[Len(seqs)]
         /\ \A i \in 1 .. Len(seqs) : g[i] = g[i - 1] \o seqs[i]
  BY <1>1, FlattenChain
<1>4. g[1] = <<>> \o list
  <2>1. 1 \in 1 .. 1 /\ 1 - 1 = 0
    OBVIOUS
  <2>2. g[1] = g[1 - 1] \o seqs[1]
    BY <1>1, <1>3, <2>1
  <2> QED BY <1>1, <1>3, <2>1, <2>2
<1> QED
  BY <1>1, <1>2, <1>3, <1>4, ConcatEmptySeq DEF seqs

\* Host, a Cookie header that was taken out, and perhaps one that was not.
HostLine    == Header("Host", <<104>>, 1)
RemovedLine == Header("Cookie", <<>>, 0)

LEMMA LinesAre ==
    ASSUME NEW header \in Seq(Char)
    PROVE  /\ HostLine \in HeaderLines /\ RemovedLine \in HeaderLines
           /\ Header("Cookie", header, 1) \in HeaderLines
<1>1. <<104>> \in Seq(Char) /\ <<>> \in Seq(Char)
  BY DEF Char
<1> QED
  BY <1>1 DEF HostLine, RemovedLine, Header, HeaderLines

LEMMA HeadersCopied ==
    ASSUME NEW header \in Seq(Char)
    PROVE  /\ get_header(FoldLeft(copy_header, <<>>, <<HostLine, RemovedLine>>), "Cookie") = <<>>
           /\ get_header(FoldLeft(copy_header, <<>>,
                                  <<HostLine, RemovedLine, Header("Cookie", header, 1)>>), "Cookie") = header
<1> DEFINE none == <<>>
           cookie == Header("Cookie", header, 1)
           two == <<HostLine, RemovedLine>>
           three == <<HostLine, RemovedLine, cookie>>
<1>1. none \in HeaderMaps /\ DOMAIN none = {}
  <2>1. none \in [{} -> Seq(Char)] /\ {} \in SUBSET {"Host", "Cookie"}
    OBVIOUS
  <2> QED BY <2>1 DEF HeaderMaps
<1>2. HostLine \in HeaderLines /\ RemovedLine \in HeaderLines /\ cookie \in HeaderLines
  BY LinesAre
<1>3. /\ HostLine.key = "Host" /\ HostLine.hash = 1 /\ RemovedLine.hash = 0
      /\ cookie.key = "Cookie" /\ cookie.value = header /\ cookie.hash = 1
  BY DEF HostLine, RemovedLine, Header
<1> HIDE DEF cookie
<1>4. /\ two \in Seq(HeaderLines) /\ Len(two) = 2 /\ two[1] = HostLine /\ two[2] = RemovedLine
      /\ three \in Seq(HeaderLines) /\ Len(three) = 3 /\ three[1] = HostLine /\ three[2] = RemovedLine
      /\ three[3] = cookie
  BY <1>2
<1> HIDE DEF two, three, none
<1>5. ASSUME NEW map
      PROVE  /\ copy_header(map, RemovedLine) = map
             /\ copy_header(map, HostLine) = Assign(map, "Host", HostLine.value)
             /\ copy_header(map, cookie) = Assign(map, "Cookie", header)
  BY <1>3 DEF copy_header
<1>6. "Cookie" \notin DOMAIN Assign(none, "Host", HostLine.value)
  BY <1>1 DEF Assign
<1>7. get_header(FoldLeft(copy_header, none, two), "Cookie") = <<>>
  <2>1. PICK g \in [0 .. Len(two) -> HeaderMaps] :
          /\ g[0] = none /\ FoldLeft(copy_header, none, two) = g[Len(two)]
          /\ \A i \in 1 .. Len(two) : g[i] = copy_header(g[i - 1], two[i])
    BY <1>1, <1>4, HeaderChain
  <2>2. 1 \in 1 .. 2 /\ 2 \in 1 .. 2 /\ 1 - 1 = 0 /\ 2 - 1 = 1
    OBVIOUS
  <2>3. g[1] = copy_header(g[1 - 1], two[1]) /\ g[2] = copy_header(g[2 - 1], two[2])
    BY <1>4, <2>1, <2>2
  <2>4. g[1] = copy_header(none, HostLine) /\ g[2] = copy_header(g[1], RemovedLine)
    BY <1>4, <2>1, <2>2, <2>3
  <2>5. FoldLeft(copy_header, none, two) = Assign(none, "Host", HostLine.value)
    BY <1>4, <1>5, <2>1, <2>4
  <2> QED BY <1>6, <2>5 DEF get_header
<1>8. get_header(FoldLeft(copy_header, none, three), "Cookie") = header
  <2>1. PICK g \in [0 .. Len(three) -> HeaderMaps] :
          /\ g[0] = none /\ FoldLeft(copy_header, none, three) = g[Len(three)]
          /\ \A i \in 1 .. Len(three) : g[i] = copy_header(g[i - 1], three[i])
    BY <1>1, <1>4, HeaderChain
  <2>2. 3 \in 1 .. 3
    OBVIOUS
  <2>3. g[3] = copy_header(g[3 - 1], cookie)
    BY <1>4, <2>1, <2>2
  <2>4. FoldLeft(copy_header, none, three) = Assign(g[3 - 1], "Cookie", header)
    BY <1>4, <1>5, <2>1, <2>3
  <2>5. "Cookie" \in DOMAIN Assign(g[3 - 1], "Cookie", header)
        /\ Assign(g[3 - 1], "Cookie", header)["Cookie"] = header
    BY DEF Assign
  <2> QED BY <2>4, <2>5 DEF get_header
<1> QED
  BY <1>7, <1>8 DEF none, two, three, cookie

\* The inductive invariant: a request on its way has the cookies of the jar in its header,
\* in some order, and a redirect on its way is as it should be.
Sent ==
    stage = "sent" =>
       /\ sentJar = jar
       /\ \E order \in SetToSeqs(DOMAIN jar) :
             get_header(copy_headers(parts), "Cookie") = CookieHeader(order)
CookieInv == JarInv /\ Sent /\ RedirectedAsOneself

LEMMA SendSends ==
    ASSUME jar \in Jars, Send
    PROVE  \E order \in SetToSeqs(DOMAIN jar) :
              get_header(copy_headers(parts'), "Cookie") = CookieHeader(order)
<1> DEFINE Tail3(order) == IF jar = <<>> THEN <<>> ELSE <<Header("Cookie", CookieHeader(order), 1)>>
           List(order) == <<HostLine, RemovedLine>> \o Tail3(order)
           Split2(list, size) == <<SubSeq(list, 1, size), SubSeq(list, size + 1, Len(list))>>
<1>1. PICK order \in SetToSeqs(DOMAIN jar) :
         \E size \in 1 .. Len(List(order)) :
            parts' = IF size = Len(List(order)) THEN <<List(order)>> ELSE Split2(List(order), size)
  BY DEF Send, HostLine, RemovedLine
<1> DEFINE header == CookieHeader(order)
           list == List(order)
<1>2. header \in Seq(Char) /\ \E at : Written(at, order, header)
  BY HeaderIsWritten
<1>3. list = IF jar = <<>> THEN <<HostLine, RemovedLine>>
             ELSE <<HostLine, RemovedLine, Header("Cookie", header, 1)>>
  <2> DEFINE two == <<HostLine, RemovedLine>>
             cookie == Header("Cookie", header, 1)
             three == <<HostLine, RemovedLine, cookie>>
             one == <<cookie>>
  <2>1. HostLine \in HeaderLines /\ RemovedLine \in HeaderLines /\ cookie \in HeaderLines
    BY <1>2, LinesAre
  <2> HIDE DEF cookie
  <2>2. /\ two \in Seq(HeaderLines) /\ three \in Seq(HeaderLines) /\ one \in Seq(HeaderLines)
        /\ Len(two) = 2 /\ Len(three) = 3 /\ Len(one) = 1
        /\ two[1] = three[1] /\ two[2] = three[2] /\ one[1] = three[3]
    BY <2>1
  <2> HIDE DEF two, three, one
  <2>3. two \o <<>> = two
    BY <2>2, ConcatEmptySeq
  <2>4. two \o one = three
    <3> DEFINE z == two \o one
    <3>1. /\ z \in Seq(HeaderLines) /\ Len(z) = Len(two) + Len(one)
          /\ \A p \in 1 .. Len(two) + Len(one) : z[p] = IF p <= Len(two) THEN two[p] ELSE one[p - Len(two)]
      BY <2>2, ConcatProperties
    <3> HIDE DEF z
    <3>2. Len(z) = 3 /\ z[1] = three[1] /\ z[2] = three[2] /\ z[3] = three[3]
      BY <2>2, <3>1
    <3>3. \A p \in 1 .. 3 : p = 1 \/ p = 2 \/ p = 3
      OBVIOUS
    <3>4. z = three
      BY <2>2, <3>1, <3>2, <3>3, SeqEqual
    <3> QED BY <3>4 DEF z
  <2>5. list = IF jar = <<>> THEN two \o <<>> ELSE two \o one
    BY DEF two, one, cookie
  <2> QED BY <2>3, <2>4, <2>5 DEF two, three, cookie
<1> HIDE DEF list, header
<1>4. list \in Seq(HeaderLines)
  BY <1>2, <1>3, LinesAre
<1>5. HeaderWalk(parts') = list
  <2>1. PICK size \in 1 .. Len(list) : parts' = IF size = Len(list) THEN <<list>> ELSE Split2(list, size)
    BY <1>1 DEF list
  <2>2. CASE size = Len(list)
    BY <1>4, <2>1, <2>2, PartIsOne
  <2>3. CASE size # Len(list)
    <3>1. size \in 1 .. Len(list) - 1
      BY <1>4, <2>3
    <3> QED BY <1>4, <2>1, <2>3, <3>1, PartsAreOne
  <2> QED BY <2>2, <2>3
<1>6. get_header(copy_headers(parts'), "Cookie") = IF jar = <<>> THEN <<>> ELSE header
  BY <1>2, <1>3, <1>5, HeadersCopied DEF copy_headers
<1>7. jar = <<>> => header = <<>>
  <2> SUFFICES ASSUME jar = <<>> PROVE header = <<>>
    OBVIOUS
  <2>1. DOMAIN jar = {} /\ order \in Seq(DOMAIN jar)
    BY OrderIs
  <2>2. Len(order) = 0
    <3>1. Len(order) \in Nat /\ \A i \in 1 .. Len(order) : order[i] \in {}
      BY <2>1, ElementOfSeq
    <3> QED BY <3>1
  <2> QED BY <1>2, <2>2 DEF Written
<1>8. get_header(copy_headers(parts'), "Cookie") = CookieHeader(order)
  BY <1>6, <1>7 DEF header
<1> QED
  BY <1>8

\* What the handlers read.
LEMMA SentIsRead ==
    ASSUME jar \in Jars, Sent, stage = "sent", NEW name \in CookieName
    PROVE  LET header == get_header(copy_headers(parts), "Cookie")
           IN  /\ getCookie(header, name) = get_header(sentJar, name)
               /\ cookieExists(header, name) <=> name \in DOMAIN sentJar
               /\ name \in DOMAIN sentJar => cookieExists(header, name \o <<Eq>> \o sentJar[name])
<1> DEFINE header == get_header(copy_headers(parts), "Cookie")
<1>1. PICK order \in SetToSeqs(DOMAIN jar) : header = CookieHeader(order)
  BY DEF Sent
<1>2. sentJar = jar
  BY DEF Sent
<1>3. header \in Seq(Char) /\ \E at : Written(at, order, header)
  BY <1>1, HeaderIsWritten
<1> HIDE DEF header
<1>4. PICK at : Written(at, order, header)
  BY <1>3
<1>5. /\ getCookie(header, name) = get_header(jar, name)
      /\ cookieExists(header, name) <=> name \in DOMAIN jar
      /\ name \in DOMAIN jar => cookieExists(header, name \o <<Eq>> \o jar[name])
  BY <1>3, <1>4, CookieIsRead
<1> QED
  BY <1>2, <1>5 DEF header

\* The rmid a browser is redirected under is its own if it has one.
LEMMA Ku6RmidIs ==
    ASSUME JarInv, Sent, stage = "sent", NEW ms \in Ms, NEW random \in Randoms
    PROVE  IF A \in DOMAIN sentJar THEN Ku6Rmid(ms, random) = sentJar[A]
           ELSE Len(Ku6Rmid(ms, random)) = 10 /\ RmidOf(Ku6Rmid(ms, random)) \in Ms \X Randoms
<1>1. Cookie(A) = get_header(sentJar, A) /\ sentJar = jar /\ jar \in Jars
  <2>1. A \in CookieName /\ jar \in Jars
    BY NamesAre DEF JarInv
  <2>2. getCookie(get_header(copy_headers(parts), "Cookie"), A) = get_header(sentJar, A)
    BY <2>1, SentIsRead
  <2> QED BY <2>1, <2>2 DEF Cookie, Sent
<1>2. CASE A \in DOMAIN sentJar
  <2>1. sentJar[A] # <<>> /\ Cookie(A) = sentJar[A]
    BY <1>1, <1>2, JarIs DEF get_header
  <2> QED BY <1>2, <2>1 DEF Ku6Rmid
<1>3. CASE A \notin DOMAIN sentJar
  <2>1. Cookie(A) = <<>>
    BY <1>1, <1>3 DEF get_header
  <2>2. Ku6Rmid(ms, random) = createRmidCookie(ms, random)
    BY <2>1 DEF Ku6Rmid
  <2>3. RmidOf(createRmidCookie(ms, random)) = <<ms, random>> /\ Len(createRmidCookie(ms, random)) = 10
    BY RmidIsText
  <2> QED BY <1>3, <2>2, <2>3
<1> QED BY <1>2, <1>3

LEMMA CookieInit == Init => CookieInv
<1> SUFFICES ASSUME Init PROVE CookieInv
  OBVIOUS
<1>1. stage = "page"
  BY DEF Init
<1> QED
  BY <1>1, JarInit DEF CookieInv, Sent, RedirectedAsOneself

LEMMA CookieStep == CookieInv /\ [Next]_vars => CookieInv'
<1> SUFFICES ASSUME CookieInv, [Next]_vars PROVE CookieInv'
  OBVIOUS
<1>0. JarInv' /\ JarInv /\ Sent /\ RedirectedAsOneself /\ jar \in Jars
  BY JarStep DEF CookieInv, JarInv
<1> SUFFICES Sent' /\ RedirectedAsOneself'
  BY <1>0 DEF CookieInv
<1>1. ASSUME stage' = "page" PROVE Sent' /\ RedirectedAsOneself'
  BY <1>1 DEF Sent, RedirectedAsOneself
<1>2. ASSUME NEW key \in Keys, NEW text \in Texts, PutParam(key, text) PROVE stage' = "page"
  BY <1>2 DEF PutParam
<1>3. ASSUME NEW param \in Junk, PutJunk(param) PROVE stage' = "page"
  BY <1>3 DEF PutJunk
<1>4. ASSUME NEW c \in Foreign, SetForeign(c) PROVE stage' = "page"
  BY <1>4 DEF SetForeign
<1>5. ASSUME Receive PROVE stage' = "page"
  BY <1>5 DEF Receive
<1>6. ASSUME Send PROVE Sent' /\ RedirectedAsOneself'
  <2>1. stage' = "sent" /\ sentJar' = jar' /\ jar' = jar
    BY <1>6 DEF Send
  <2>2. \E order \in SetToSeqs(DOMAIN jar) :
           get_header(copy_headers(parts'), "Cookie") = CookieHeader(order)
    BY <1>0, <1>6, SendSends
  <2>3. (\E order \in SetToSeqs(DOMAIN jar) :
           get_header(copy_headers(parts), "Cookie") = CookieHeader(order))'
    BY <2>1, <2>2 DEF CookieHeader
  <2> QED BY <2>1, <2>3 DEF Sent, RedirectedAsOneself
<1>7. ASSUME Ku6 PROVE Sent' /\ RedirectedAsOneself'
  <2>1. stage = "sent" /\ stage' = "answered" /\ sentJar' = sentJar
    BY <1>7 DEF Ku6
  <2>2. PICK ms \in Ms, random \in Randoms :
          wire' = send_headers(add_header(set_status(GifResponse, 302, <<>>), "Location",
                                          [dspid |-> 100026, dspuid |-> Ku6Rmid(ms, random)]))
    BY <1>7 DEF Ku6
  <2> DEFINE location == [dspid |-> 100026, dspuid |-> Ku6Rmid(ms, random)]
  <2>3. location.dspuid = Ku6Rmid(ms, random)
    OBVIOUS
  <2> HIDE DEF location
  <2>4. /\ SetCookieLines(wire') = <<>> /\ wire'.body = Pixel /\ wire'.content_length_n = Len(Pixel)
        /\ wire'.headers["Location"] = location /\ wire'.headers["Content-Length"] = Len(Pixel)
    BY <2>2, RedirectIs DEF location
  <2>5. IF A \in DOMAIN sentJar THEN Ku6Rmid(ms, random) = sentJar[A]
        ELSE RmidOf(Ku6Rmid(ms, random)) \in Ms \X Randoms
    BY <1>0, <2>1, Ku6RmidIs
  <2>6. RedirectedAsOneself'
    BY <2>1, <2>3, <2>4, <2>5 DEF RedirectedAsOneself, SetCookieLines
  <2> QED BY <2>1, <2>6 DEF Sent
<1>8. ASSUME MappingAnswers PROVE Sent' /\ RedirectedAsOneself'
  <2>1. stage' = "answered"
    BY <1>8 DEF MappingAnswers
  <2>2. PICK calls \in MappingCalls, status \in {200, 302} :
          wire' = send_headers(set_status(SetCookies(GifResponse, calls), status, <<>>))
    BY <1>8 DEF MappingAnswers
  <2>3. calls \in Seq(Calls)
    BY MappingCallsAre
  <2>4. "Location" \notin DOMAIN wire'.headers
    BY <2>2, <2>3, NoLocation
  <2> QED BY <2>1, <2>4 DEF Sent, RedirectedAsOneself
<1>9. ASSUME Ku6Overflows PROVE Sent' /\ RedirectedAsOneself'
  <2>1. stage = "sent" /\ stage' = "lost" /\ sentJar' = sentJar
    BY <1>9 DEF Ku6Overflows
  <2>2. PICK ms \in Ms, random \in Randoms : LocationBytes(Ku6Rmid(ms, random)) > l_buffer
    BY <1>9 DEF Ku6Overflows
  <2> DEFINE rmid == Ku6Rmid(ms, random)
  <2>3. IF A \in DOMAIN sentJar THEN rmid = sentJar[A] ELSE Len(rmid) = 10
    BY <1>0, <2>1, Ku6RmidIs
  <2>4. A \in DOMAIN sentJar => Len(sentJar[A]) \in Nat
    BY <1>0, <2>1, JarIs DEF Sent, CookieText
  <2> DEFINE size == Len(rmid)
  <2>5. 43 + size + 10 + 1 > 100 /\ (A \in DOMAIN sentJar => size = Len(sentJar[A]))
                                /\ (A \notin DOMAIN sentJar => size = 10)
    BY <2>2, <2>3 DEF LocationBytes, l_buffer
  <2> HIDE DEF rmid, size
  <2>6. A \in DOMAIN sentJar
    BY <2>5
  <2>7. Len(sentJar[A]) > 46
    BY <2>4, <2>5, <2>6
  <2> QED BY <2>1, <2>6, <2>7 DEF Sent, RedirectedAsOneself
<1>10. ASSUME GiveUp PROVE stage' = "page"
  BY <1>10 DEF GiveUp
<1>11. CASE UNCHANGED vars
  <2>1. /\ stage' = stage /\ jar' = jar /\ sentJar' = sentJar /\ parts' = parts /\ wire' = wire
    BY <1>11 DEF vars
  <2>2. Sent'
    BY <1>0, <2>1 DEF Sent, CookieHeader
  <2>3. RedirectedAsOneself'
    BY <1>0, <2>1 DEF RedirectedAsOneself
  <2> QED BY <2>2, <2>3
<1> QED
  BY <1>1, <1>2, <1>3, <1>4, <1>5, <1>6, <1>7, <1>8, <1>9, <1>10, <1>11 DEF Next

\* The Cookie header a handler finds is the jar, in the browser's order, however nginx has
\* split the list of headers, and what was redirected was redirected as itself.
LEMMA CookieInvAlways == Spec => []CookieInv
<1> QED
  BY CookieInit, CookieStep, PTL DEF Spec

\* copy_headers, getCookie and cookieExists against the jar, for any names and values of
\* cookies, in any number and any order.
THEOREM CookiesAreAlwaysRead == Spec => []CookiesAreRead
<1>1. CookieInv => CookiesAreRead
  <2> SUFFICES ASSUME CookieInv, stage = "sent", NEW name \in {A, Amz, T}
               PROVE  LET header == get_header(copy_headers(parts), "Cookie")
                      IN  /\ getCookie(header, name) = get_header(sentJar, name)
                          /\ cookieExists(header, name) <=> name \in DOMAIN sentJar
                          /\ name \in DOMAIN sentJar =>
                                cookieExists(header, name \o <<Eq>> \o sentJar[name])
    BY DEF CookiesAreRead
  <2>1. jar \in Jars /\ Sent /\ name \in CookieName
    BY NamesAre DEF CookieInv, JarInv
  <2> QED BY <2>1, SentIsRead
<1> QED
  BY <1>1, CookieInvAlways, PTL

\* mapping_ku6::handle: a browser that has an rmid of at most 46 bytes is redirected under
\* it, one that has none under an rmid that tells apart the two numbers it was made of, and
\* neither is lost to the buffer of the Location: only an a of more than 46 bytes, which
\* another host has set, can overflow it.
THEOREM AlwaysRedirectedAsOneself == Spec => []RedirectedAsOneself
<1>1. CookieInv => RedirectedAsOneself
  BY DEF CookieInv
<1> QED
  BY <1>1, CookieInvAlways, PTL

------------------------------------------------------------------------------
(* Percent decoding *)

Results == [ok : BOOLEAN, out : Seq(Char)]

\* The walk of url_decode over its input.
Cut(in, p) == in[p] = Percent /\ p + 2 > Len(in)
DecodeWalk(in, f) ==
    /\ f \in [1 .. Len(in) + 1 -> Results]
    /\ \A p \in 1 .. Len(in) + 1 :
          f[p] = IF p > Len(in) THEN Decoded(<<>>)
                 ELSE IF Cut(in, p) THEN Failed
                 ELSE Behind(DecodedAt(in, p), f[IF in[p] = Percent THEN p + 3 ELSE p + 1])

LEMMA HexIs ==
    ASSUME NEW c \in Char
    PROVE  hex_to_byte(c) \in Int
BY DEF hex_to_byte, Char

LEMMA DecodedAtIs ==
    ASSUME NEW in \in Seq(Char), NEW p \in 1 .. Len(in), ~Cut(in, p)
    PROVE  DecodedAt(in, p) \in Char
<1>1. in[p] \in Char /\ Len(in) \in Nat
  BY ElementOfSeq
<1>2. CASE in[p] = Percent
  <2>1. p + 1 \in 1 .. Len(in) /\ (p + 1) + 1 \in 1 .. Len(in)
    BY <1>1, <1>2 DEF Cut
  <2> DEFINE x == hex_to_byte(in[p + 1])
             y == hex_to_byte(in[(p + 1) + 1])
  <2>2. in[p + 1] \in Char /\ in[(p + 1) + 1] \in Char
    BY <2>1, ElementOfSeq
  <2>3. x \in Int /\ y \in Int
    BY <2>2, HexIs
  <2>4. DecodedAt(in, p) = (x * 16 + y) % 256
    BY <1>2 DEF DecodedAt, hexstr_to_char
  <2> HIDE DEF x, y
  <2> DEFINE z == x * 16 + y
  <2>5. z \in Int
    BY <2>3
  <2> HIDE DEF z
  <2>6. (z % 256) \in 0 .. 255
    BY <2>5
  <2> QED BY <2>4, <2>6 DEF z, Char
<1>3. CASE in[p] # Percent
  BY <1>1, <1>3 DEF DecodedAt, Space, Char
<1> QED
  BY <1>2, <1>3

LEMMA BehindIs ==
    ASSUME NEW c \in Char, NEW r \in Results
    PROVE  Behind(c, r) \in Results
<1>1. r.ok \in BOOLEAN /\ r.out \in Seq(Char)
  BY DEF Results
<1>2. <<c>> \o r.out \in Seq(Char)
  BY <1>1, ConcatProperties
<1> QED
  BY <1>1, <1>2 DEF Results, Behind

LEMMA UrlDecodeWalks ==
    ASSUME NEW in \in Seq(Char)
    PROVE  \E f : DecodeWalk(in, f) /\ url_decode(in) = f[1]
<1> DEFINE L == Len(in)
           n == L + 1
           stop == {p \in 1 .. n : p > L \/ Cut(in, p)}
           val == [p \in 1 .. n |-> IF p > L THEN Decoded(<<>>) ELSE Failed]
           nxt == [p \in 1 .. n |-> IF in[p] = Percent THEN p + 3 ELSE p + 1]
           H == [p \in 1 .. n |-> [r \in Results |-> Behind(DecodedAt(in, p), r)]]
           From[i \in 1 .. Len(in) + 1] ==
             IF i > Len(in) THEN Decoded(<<>>)
             ELSE IF in[i] = Percent /\ i + 2 > Len(in) THEN Failed
             ELSE Behind(DecodedAt(in, i), From[IF in[i] = Percent THEN i + 3 ELSE i + 1])
<1>1. L \in Nat /\ n \in Nat
  OBVIOUS
<1>2. url_decode(in) = From[1]
  BY DEF url_decode
<1>3. Decoded(<<>>) \in Results /\ Failed \in Results
  BY DEF Decoded, Failed, Results
<1>4. \A p \in 1 .. n : p \in stop => val[p] \in Results
  BY <1>3
<1>5. ASSUME NEW p \in 1 .. n, p \notin stop
      PROVE  p \in 1 .. L /\ ~Cut(in, p) /\ nxt[p] \in p + 1 .. n /\ H[p] \in [Results -> Results]
  <2>1. p \in 1 .. L /\ ~Cut(in, p)
    BY <1>1, <1>5
  <2>2. nxt[p] \in p + 1 .. n
    BY <1>1, <2>1 DEF Cut
  <2>3. DecodedAt(in, p) \in Char
    BY <2>1, DecodedAtIs
  <2>4. H[p] \in [Results -> Results]
    BY <2>3, BehindIs
  <2> QED BY <2>1, <2>2, <2>4
<1>6. PICK f : IsWalk(f, n, Results, stop, val, nxt, H)
  <2> HIDE DEF n, stop, val, nxt, H
  <2> QED BY <1>1, <1>4, <1>5, WalkExists
<1>7. ASSUME NEW p \in 1 .. n
      PROVE  f[p] = IF p > L THEN Decoded(<<>>)
                    ELSE IF Cut(in, p) THEN Failed
                    ELSE Behind(DecodedAt(in, p), f[IF in[p] = Percent THEN p + 3 ELSE p + 1])
  <2>1. f[p] = IF p \in stop THEN val[p] ELSE H[p][f[nxt[p]]]
    BY <1>6 DEF IsWalk
  <2>2. CASE p \in stop
    BY <2>1, <2>2
  <2>3. CASE p \notin stop
    <3>1. nxt[p] \in 1 .. n /\ ~ (p > L) /\ ~Cut(in, p)
      BY <1>1, <1>5, <2>3
    <3>2. f[nxt[p]] \in Results
      BY <1>6, <3>1 DEF IsWalk
    <3>3. H[p][f[nxt[p]]] = Behind(DecodedAt(in, p), f[nxt[p]])
      BY <3>2
    <3> QED BY <2>1, <2>3, <3>1, <3>3
  <2> QED BY <2>2, <2>3
<1>8. f \in [1 .. n -> Results]
  BY <1>6 DEF IsWalk
<1>9. DecodeWalk(in, f)
  BY <1>7, <1>8 DEF DecodeWalk
<1>10. f = [i \in 1 .. Len(in) + 1 |->
             IF i > Len(in) THEN Decoded(<<>>)
             ELSE IF in[i] = Percent /\ i + 2 > Len(in) THEN Failed
             ELSE Behind(DecodedAt(in, i), f[IF in[i] = Percent THEN i + 3 ELSE i + 1])]
  BY <1>7, <1>8 DEF Cut
<1>11. \E h : h = [i \in 1 .. Len(in) + 1 |->
             IF i > Len(in) THEN Decoded(<<>>)
             ELSE IF in[i] = Percent /\ i + 2 > Len(in) THEN Failed
             ELSE Behind(DecodedAt(in, i), h[IF in[i] = Percent THEN i + 3 ELSE i + 1])]
  BY <1>10
<1>12. From = [i \in 1 .. Len(in) + 1 |->
             IF i > Len(in) THEN Decoded(<<>>)
             ELSE IF in[i] = Percent /\ i + 2 > Len(in) THEN Failed
             ELSE Behind(DecodedAt(in, i), From[IF in[i] = Percent THEN i + 3 ELSE i + 1])]
  BY <1>11
<1> HIDE DEF From
<1>13. \A p \in 1 .. n : f[p] = From[p]
  <2> DEFINE S == {p \in 1 .. n : f[p] = From[p]}
  <2>1. ASSUME NEW p \in 1 .. n, \A q \in p + 1 .. n : q \in S
        PROVE  p \in S
    <3> DEFINE m == IF in[p] = Percent THEN p + 3 ELSE p + 1
    <3>1. From[p] = IF p > L THEN Decoded(<<>>)
                    ELSE IF Cut(in, p) THEN Failed ELSE Behind(DecodedAt(in, p), From[m])
      BY <1>12 DEF Cut
    <3>2. f[p] = IF p > L THEN Decoded(<<>>)
                 ELSE IF Cut(in, p) THEN Failed ELSE Behind(DecodedAt(in, p), f[m])
      BY <1>7
    <3>3. ~ (p > L) /\ ~Cut(in, p) => m \in p + 1 .. n
      BY <1>1 DEF Cut
    <3> HIDE DEF m
    <3>4. ~ (p > L) /\ ~Cut(in, p) => f[m] = From[m]
      BY <2>1, <3>3
    <3> QED BY <3>1, <3>2, <3>4
  <2> HIDE DEF S, n
  <2>2. \A p \in 1 .. n : p \in S
    BY <1>1, <2>1, InductBack
  <2> QED BY <2>2 DEF S
<1>14. 1 \in 1 .. n
  BY <1>1
<1> QED
  BY <1>2, <1>9, <1>13, <1>14

\* What a character is escaped by.
LEMMA EscapedIs ==
    ASSUME NEW c \in Char
    PROVE  /\ Escaped(c) \in Seq(Char) /\ Len(Escaped(c)) >= 1
           /\ \A j \in 1 .. Len(Escaped(c)) :
                 Escaped(c)[j] # Amp /\ (c # Eq => Escaped(c)[j] # Eq)
<1>1. CASE c \in Unescaped
  <2>1. Escaped(c) = <<c>>
    BY <1>1 DEF Escaped
  <2>2. c # Amp
    BY <1>1 DEF Unescaped, Amp, Eq
  <2> QED BY <2>1, <2>2
<1>2. CASE c \notin Unescaped /\ c = Space
  <2>1. Escaped(c) = <<Plus>>
    BY <1>2 DEF Escaped
  <2>2. Plus # Amp /\ Plus # Eq /\ Plus \in Char
    BY DEF Plus, Amp, Eq, Char
  <2> QED BY <2>1, <2>2
<1>3. CASE c \notin Unescaped /\ c # Space
  <2> DEFINE x == HexDigit(c \div 16)
             y == HexDigit(c % 16)
  <2>1. Escaped(c) = <<Percent, x, y>>
    BY <1>3 DEF Escaped
  <2>2. (c \div 16) \in 0 .. 15 /\ (c % 16) \in 0 .. 15
    BY DEF Char
  <2>3. \A n \in 0 .. 15 : HexDigit(n) \in Char /\ HexDigit(n) # Amp /\ HexDigit(n) # Eq
    BY DEF HexDigit, Char, Amp, Eq
  <2>4. x \in Char /\ x # Amp /\ x # Eq /\ y \in Char /\ y # Amp /\ y # Eq
    BY <2>2, <2>3
  <2>5. Percent \in Char /\ Percent # Amp /\ Percent # Eq
    BY DEF Percent, Char, Amp, Eq
  <2> HIDE DEF x, y
  <2> QED BY <2>1, <2>4, <2>5
<1> QED
  BY <1>1, <1>2, <1>3

\* hexstr_to_char against the digits of a byte.
LEMMA HexComesBack ==
    ASSUME NEW c \in Char
    PROVE  (hex_to_byte(HexDigit(c \div 16)) * 16 + hex_to_byte(HexDigit(c % 16))) % 256 = c
<1> DEFINE x == c \div 16
           y == c % 16
<1>1. x \in 0 .. 15 /\ y \in 0 .. 15 /\ c = x * 16 + y /\ c \in 0 .. 255
  BY DEF Char
<1>2. \A n \in 0 .. 15 : hex_to_byte(HexDigit(n)) = n
  BY DEF hex_to_byte, HexDigit
<1> HIDE DEF x, y
<1>3. hex_to_byte(HexDigit(x)) * 16 + hex_to_byte(HexDigit(y)) = c
  BY <1>1, <1>2
<1>4. c % 256 = c
  BY <1>1
<1> QED
  BY <1>3, <1>4 DEF x, y

Escapes(text) == [n \in DOMAIN text |-> Escaped(text[n])]

LEMMA EscapesAre ==
    ASSUME NEW text \in Seq(Char)
    PROVE  /\ Escapes(text) \in Seq(Seq(Char)) /\ Len(Escapes(text)) = Len(text)
           /\ \A n \in 1 .. Len(text) : text[n] \in Char /\ Escapes(text)[n] = Escaped(text[n])
<1>1. DOMAIN text = 1 .. Len(text) /\ Len(text) \in Nat /\ \A n \in 1 .. Len(text) : text[n] \in Char
  BY ElementOfSeq
<1>2. \A n \in 1 .. Len(text) : Escaped(text[n]) \in Seq(Char)
  BY <1>1, EscapedIs
<1> QED
  BY <1>1, <1>2 DEF Escapes

\* An escaped text has no '&', and a '=' only where the text has one.
LEMMA EscapeIs ==
    ASSUME NEW text \in Seq(Char)
    PROVE  /\ Escape(text) \in Seq(Char) /\ ~Contains(Escape(text), Amp)
           /\ ~Contains(text, Eq) => ~Contains(Escape(text), Eq)
<1> DEFINE segs == Escapes(text)
           flat == FlattenSeq(segs)
<1>1. /\ segs \in Seq(Seq(Char)) /\ Len(segs) = Len(text)
      /\ \A n \in 1 .. Len(text) : text[n] \in Char /\ segs[n] = Escaped(text[n])
  BY EscapesAre
<1>2. Escape(text) = flat
  BY DEF Escape, Escapes
<1> HIDE DEF segs
<1>3. flat \in Seq(Char) /\ \E b : Laid(b, segs, flat)
  BY <1>1, FlattenPlaces
<1>4. PICK b : Laid(b, segs, flat)
  BY <1>3
<1> HIDE DEF flat
<1>5. ASSUME NEW p \in 1 .. Len(flat)
      PROVE  flat[p] # Amp /\ (~Contains(text, Eq) => flat[p] # Eq)
  <2>1. PICK n \in 1 .. Len(segs) : p - b[n - 1] \in 1 .. Len(segs[n])
    BY <1>4 DEF Laid
  <2> DEFINE j == p - b[n - 1]
  <2>2. b[n - 1] \in Nat
    <3>1. n - 1 \in 0 .. Len(segs)
      BY <1>1
    <3> QED BY <1>4, <3>1 DEF Laid
  <2>3. b[n - 1] + j = p /\ j \in 1 .. Len(segs[n])
    BY <1>3, <2>1, <2>2
  <2>4. flat[b[n - 1] + j] = segs[n][j]
    <3> HIDE DEF j
    <3> QED BY <1>4, <2>3 DEF Laid
  <2> HIDE DEF j
  <2>5. flat[p] = Escaped(text[n])[j] /\ text[n] \in Char /\ j \in 1 .. Len(Escaped(text[n]))
    BY <1>1, <2>1, <2>3, <2>4
  <2>6. ~Contains(text, Eq) => text[n] # Eq
    BY <1>1, <2>1 DEF Contains
  <2> QED BY <2>5, <2>6, EscapedIs
<1> QED
  BY <1>2, <1>3, <1>5 DEF Contains

\* url_decode gives an escaped text back.
LEMMA EscapeComesBack ==
    ASSUME NEW text \in Seq(Char)
    PROVE  url_decode(Escape(text)) = Decoded(text)
<1> DEFINE segs == Escapes(text)
           in == FlattenSeq(segs)
           L == Len(in)
           N == Len(text)
<1>1. /\ segs \in Seq(Seq(Char)) /\ Len(segs) = N /\ N \in Nat
      /\ \A n \in 1 .. N : text[n] \in Char /\ segs[n] = Escaped(text[n])
  BY EscapesAre
<1>2. Escape(text) = in
  BY DEF Escape, Escapes
<1> HIDE DEF segs
<1>3. in \in Seq(Char) /\ \E b : Laid(b, segs, in)
  BY <1>1, FlattenPlaces
<1>4. PICK b : Laid(b, segs, in)
  BY <1>3
<1> HIDE DEF in
<1>5. PICK f : DecodeWalk(in, f) /\ url_decode(in) = f[1]
  BY <1>3, UrlDecodeWalks
<1>6. L \in Nat /\ b \in [0 .. N -> Nat] /\ b[0] = 0 /\ b[N] = L
  BY <1>1, <1>3, <1>4 DEF Laid
<1> HIDE DEF L, N
<1> DEFINE At(n) == b[n - 1] + 1
           S == {n \in 1 .. N + 1 : f[At(n)] = Decoded(Rest(text, n))}
<1>7. N + 1 \in S
  <2>1. At(N + 1) = L + 1 /\ L + 1 \in 1 .. L + 1 /\ L + 1 > L
    BY <1>1, <1>6
  <2>2. f[L + 1] = Decoded(<<>>)
    BY <1>5, <2>1 DEF DecodeWalk, L
  <2>3. Rest(text, N + 1) = <<>>
    BY RestEmpty DEF N
  <2>4. N + 1 \in 1 .. N + 1
    BY <1>1
  <2> QED BY <2>1, <2>2, <2>3, <2>4
<1>8. ASSUME NEW n \in 1 .. N, n + 1 \in S PROVE n \in S
  <2> DEFINE c == text[n]
             p == At(n)
             w == Len(segs[n])
  <2>1. /\ c \in Char /\ segs[n] = Escaped(c) /\ b[n - 1] \in Nat /\ b[n] \in Nat
        /\ b[n] = b[n - 1] + w /\ w \in Nat
        /\ \A j \in 1 .. w : b[n - 1] + j \in 1 .. L /\ in[b[n - 1] + j] = segs[n][j]
    <3>1. n - 1 \in 0 .. N /\ n \in 0 .. N
      BY <1>1
    <3>2. c \in Char /\ segs[n] = Escaped(c) /\ b[n - 1] \in Nat /\ b[n] \in Nat
      BY <1>1, <1>6, <3>1
    <3>3. w \in Nat
      BY <3>2, EscapedIs
    <3>4. n \in 1 .. Len(segs)
      BY <1>1
    <3>5. b[n] = b[n - 1] + Len(segs[n])
      BY <1>4, <3>4 DEF Laid
    <3>6. \A j \in 1 .. Len(segs[n]) :
             b[n - 1] + j \in 1 .. Len(in) /\ in[b[n - 1] + j] = segs[n][j]
      BY <1>4, <3>4 DEF Laid
    <3> QED BY <3>2, <3>3, <3>5, <3>6 DEF L
  <2>2. p \in Nat /\ p >= 1 /\ At(n + 1) = p + w
    <3>1. (n + 1) - 1 = n
      BY <1>1
    <3>2. At(n + 1) = b[n] + 1
      BY <3>1
    <3> HIDE DEF w
    <3> QED BY <2>1, <3>2
  <2>3. f[p + w] = Decoded(Rest(text, n + 1))
    BY <1>8, <2>2
  <2> HIDE DEF c, w
  <2>4. Behind(c, Decoded(Rest(text, n + 1))) = Decoded(Rest(text, n))
    <3>1. Rest(text, n) = <<c>> \o Rest(text, n + 1)
      BY RestHead DEF c, N
    <3> QED BY <3>1 DEF Behind, Decoded
  <2>5. \A j \in 1 .. w : b[n - 1] + j = p + j - 1
    BY <2>1
  <2> HIDE DEF At, p
  <2>6. \A j \in 1 .. w : p + j - 1 \in 1 .. L /\ in[p + j - 1] = segs[n][j]
    BY <2>1, <2>5
  <2>7. ASSUME p \in 1 .. L, ~Cut(in, p), DecodedAt(in, p) = c,
               w = IF in[p] = Percent THEN 3 ELSE 1
        PROVE  f[p] = Decoded(Rest(text, n))
    <3>1. p \in 1 .. Len(in) + 1 /\ ~ (p > Len(in))
      BY <1>6, <2>7 DEF L
    <3>2. f[p] = Behind(DecodedAt(in, p), f[IF in[p] = Percent THEN p + 3 ELSE p + 1])
      BY <1>5, <2>7, <3>1 DEF DecodeWalk
    <3>3. p + w = IF in[p] = Percent THEN p + 3 ELSE p + 1
      BY <2>7
    <3> QED BY <2>3, <2>4, <2>7, <3>2, <3>3
  <2>8. CASE c \in Unescaped
    <3>1. segs[n] = <<c>> /\ c # Percent /\ c # Plus
      <4>1. segs[n] = <<c>>
        BY <2>1, <2>8 DEF Escaped
      <4>2. c # Percent /\ c # Plus
        BY <2>8 DEF Unescaped, Percent, Plus, Eq
      <4> QED BY <4>1, <4>2
    <3>2. w = 1 /\ 1 \in 1 .. w /\ p + 1 - 1 = p
      BY <2>2, <3>1 DEF w
    <3>3. p \in 1 .. L /\ in[p] = c
      <4>1. segs[n][1] = c
        BY <3>1
      <4> QED BY <2>6, <3>2, <4>1
    <3>4. ~Cut(in, p) /\ DecodedAt(in, p) = c
      BY <3>1, <3>3 DEF Cut, DecodedAt
    <3>5. f[p] = Decoded(Rest(text, n))
      BY <2>7, <3>1, <3>2, <3>3, <3>4
    <3> QED BY <1>1, <3>5 DEF p
  <2>9. CASE c \notin Unescaped /\ c = Space
    <3>1. segs[n] = <<Plus>> /\ Plus # Percent
      BY <2>1, <2>9 DEF Escaped, Percent, Plus
    <3>2. w = 1 /\ 1 \in 1 .. w /\ p + 1 - 1 = p
      BY <2>2, <3>1 DEF w
    <3>3. p \in 1 .. L /\ in[p] = Plus
      <4>1. segs[n][1] = Plus
        BY <3>1
      <4> QED BY <2>6, <3>2, <4>1
    <3>4. ~Cut(in, p) /\ DecodedAt(in, p) = c
      BY <2>9, <3>1, <3>3 DEF Cut, DecodedAt
    <3>5. f[p] = Decoded(Rest(text, n))
      BY <2>7, <3>1, <3>2, <3>3, <3>4
    <3> QED BY <1>1, <3>5 DEF p
  <2>10. CASE c \notin Unescaped /\ c # Space
    <3> DEFINE x == HexDigit(c \div 16)
               y == HexDigit(c % 16)
    <3>1. segs[n] = <<Percent, x, y>>
      BY <2>1, <2>10 DEF Escaped
    <3>2. (hex_to_byte(x) * 16 + hex_to_byte(y)) % 256 = c
      BY <2>1, HexComesBack
    <3> HIDE DEF x, y
    <3>3. w = 3 /\ segs[n][1] = Percent /\ segs[n][2] = x /\ segs[n][3] = y
      BY <3>1 DEF w
    <3>4. /\ 1 \in 1 .. w /\ 2 \in 1 .. w /\ 3 \in 1 .. w
          /\ p + 1 - 1 = p /\ p + 2 - 1 = p + 1 /\ p + 3 - 1 = (p + 1) + 1 /\ (p + 1) + 1 = p + 2
      BY <2>2, <3>3
    <3>5. /\ p \in 1 .. L /\ in[p] = Percent /\ in[p + 1] = x /\ in[(p + 1) + 1] = y
          /\ p + 2 \in 1 .. L
      BY <2>6, <3>3, <3>4
    <3>6. ~Cut(in, p)
      <4>1. ~ (p + 2 > Len(in))
        BY <1>6, <2>2, <3>5 DEF L
      <4> QED BY <4>1 DEF Cut
    <3>7. DecodedAt(in, p) = c
      BY <3>2, <3>5 DEF DecodedAt, hexstr_to_char
    <3>8. f[p] = Decoded(Rest(text, n))
      BY <2>7, <3>3, <3>5, <3>6, <3>7
    <3> QED BY <1>1, <3>8 DEF p
  <2> QED BY <2>8, <2>9, <2>10
<1>9. \A n \in 1 .. N + 1 : n \in S
  <2>1. ASSUME NEW n \in 1 .. N + 1, \A q \in n + 1 .. N + 1 : q \in S
        PROVE  n \in S
    <3>1. CASE n = N + 1
      BY <1>7, <3>1
    <3>2. CASE n # N + 1
      <4>1. n \in 1 .. N /\ n + 1 \in n + 1 .. N + 1
        BY <1>1, <3>2
      <4> QED BY <1>8, <2>1, <4>1
    <3> QED BY <3>1, <3>2
  <2> DEFINE M == N + 1
  <2>2. M \in Nat
    BY <1>1
  <2> HIDE DEF S, M
  <2>3. \A n \in 1 .. M : n \in S
    BY <2>1, <2>2, InductBack DEF M
  <2> QED BY <2>3 DEF M
<1>10. f[1] = Decoded(text)
  <2>1. 1 \in 1 .. N + 1 /\ At(1) = 1
    BY <1>1, <1>6
  <2>2. f[1] = Decoded(Rest(text, 1))
    BY <1>9, <2>1
  <2> QED BY <2>2, RestEmpty
<1> QED
  BY <1>2, <1>5, <1>10

LEMMA UrlDecodeEmpty == url_decode(<<>>) = Decoded(<<>>)
<1> DEFINE in == <<>>
<1>1. in \in Seq(Char) /\ Len(in) = 0
  OBVIOUS
<1> HIDE DEF in
<1>2. PICK f : DecodeWalk(in, f) /\ url_decode(in) = f[1]
  BY <1>1, UrlDecodeWalks
<1>3. f[1] = Decoded(<<>>)
  <2>1. 1 \in 1 .. Len(in) + 1 /\ 1 > Len(in)
    BY <1>1
  <2> QED BY <1>2, <2>1 DEF DecodeWalk
<1> QED
  BY <1>2, <1>3 DEF in

LEMMA UrlDecodeIs ==
    ASSUME NEW in \in Seq(Char)
    PROVE  url_decode(in) \in Results
<1>1. PICK f : DecodeWalk(in, f) /\ url_decode(in) = f[1]
  BY UrlDecodeWalks
<1>2. 1 \in 1 .. Len(in) + 1
  OBVIOUS
<1> QED
  BY <1>1, <1>2 DEF DecodeWalk

------------------------------------------------------------------------------
(* The parameters of a query *)

\* The loop of set_query_param.
Amper(query, p) == Find(query, Amp, p)
PieceTo(query, p, m) == <<SubSeq(query, p, m)>>
PieceWalk(query, f) ==
    /\ f \in [1 .. Len(query) + 1 -> Seq(Seq(Char))]
    /\ \A p \in 1 .. Len(query) + 1 :
          f[p] = IF Amper(query, p) = 0 THEN PieceTo(query, p, Len(query))
                 ELSE PieceTo(query, p, Amper(query, p) - 1) \o f[Amper(query, p) + 1]

LEMMA AmperIs ==
    ASSUME NEW query \in Seq(Char), NEW p \in 1 .. Len(query) + 1
    PROVE  /\ Found(query, Amp, p, Amper(query, p))
           /\ Amper(query, p) # 0 => Amper(query, p) \in p .. Len(query)
<1>1. p \in Nat \ {0} /\ Len(query) \in Nat
  OBVIOUS
<1>2. Found(query, Amp, p, Amper(query, p))
  BY <1>1, FindIs DEF Amper
<1> QED
  BY <1>2 DEF Found

LEMMA PieceIs ==
    ASSUME NEW query \in Seq(Char), NEW p \in 1 .. Len(query) + 1, NEW m \in Nat,
           p <= m + 1, m <= Len(query)
    PROVE  SubSeq(query, p, m) \in Seq(Char) /\ PieceTo(query, p, m) \in Seq(Seq(Char))
<1>1. p \in Nat \ {0}
  OBVIOUS
<1>2. SubSeq(query, p, m) \in Seq(Char)
  BY <1>1, SliceIs
<1> QED
  BY <1>2 DEF PieceTo

LEMMA PiecesWalk ==
    ASSUME NEW query \in Seq(Char)
    PROVE  \E f : PieceWalk(query, f) /\ Pieces(query) = f[1]
<1> DEFINE L == Len(query)
           n == L + 1
           V == Seq(Seq(Char))
           stop == {p \in 1 .. n : Amper(query, p) = 0}
           val == [p \in 1 .. n |-> PieceTo(query, p, L)]
           nxt == [p \in 1 .. n |-> Amper(query, p) + 1]
           H == [p \in 1 .. n |-> [r \in V |-> PieceTo(query, p, Amper(query, p) - 1) \o r]]
           From[curr \in 1 .. Len(query) + 1] ==
             LET end_param == Find(query, Amp, curr)
             IN  IF end_param = 0 THEN <<SubSeq(query, curr, Len(query))>>
                 ELSE <<SubSeq(query, curr, end_param - 1)>> \o From[end_param + 1]
<1>1. L \in Nat /\ n \in Nat
  OBVIOUS
<1>2. Pieces(query) = From[1]
  BY DEF Pieces
<1>3. \A p \in 1 .. n : p \in stop => val[p] \in V
  <2> SUFFICES ASSUME NEW p \in 1 .. n PROVE PieceTo(query, p, L) \in V
    OBVIOUS
  <2>1. L \in Nat /\ p <= L + 1 /\ L <= Len(query) /\ p \in 1 .. Len(query) + 1
    BY <1>1
  <2> HIDE DEF L
  <2> QED BY <2>1, PieceIs
<1>4. ASSUME NEW p \in 1 .. n, p \notin stop
      PROVE  nxt[p] \in p + 1 .. n /\ H[p] \in [V -> V]
  <2> DEFINE e == Amper(query, p)
             m == e - 1
  <2>1. e \in p .. L
    BY <1>4, AmperIs
  <2>2. m \in Nat /\ p <= m + 1 /\ m <= Len(query) /\ e + 1 \in p + 1 .. n
    BY <1>1, <2>1
  <2>3. PieceTo(query, p, m) \in V
    <3> HIDE DEF m
    <3> QED BY <2>2, PieceIs
  <2> DEFINE piece == PieceTo(query, p, m)
  <2>4. \A r \in V : piece \o r \in V
    <3> DEFINE U == Seq(Char)
    <3>1. piece \in Seq(U) /\ V = Seq(U)
      BY <2>3
    <3> HIDE DEF piece, U, V
    <3>2. \A r \in Seq(U) : piece \o r \in Seq(U)
      BY <3>1, ConcatProperties
    <3> QED BY <3>1, <3>2
  <2> HIDE DEF V
  <2> QED BY <2>2, <2>4
<1>5. PICK f : IsWalk(f, n, V, stop, val, nxt, H)
  <2> HIDE DEF n, V, stop, val, nxt, H
  <2> QED BY <1>1, <1>3, <1>4, WalkExists
<1>6. ASSUME NEW p \in 1 .. n
      PROVE  f[p] = IF Amper(query, p) = 0 THEN PieceTo(query, p, L)
                    ELSE PieceTo(query, p, Amper(query, p) - 1) \o f[Amper(query, p) + 1]
  <2>1. f[p] = IF p \in stop THEN val[p] ELSE H[p][f[nxt[p]]]
    BY <1>5 DEF IsWalk
  <2>2. CASE p \in stop
    BY <2>1, <2>2
  <2>3. CASE p \notin stop
    <3>1. nxt[p] \in 1 .. n
      BY <1>1, <1>4, <2>3
    <3>2. f[nxt[p]] \in V
      <4> HIDE DEF n, V, stop, val, nxt, H
      <4> QED BY <1>5, <3>1 DEF IsWalk
    <3>3. H[p][f[nxt[p]]] = PieceTo(query, p, Amper(query, p) - 1) \o f[nxt[p]]
      <4> HIDE DEF V
      <4> QED BY <3>2
    <3> QED BY <2>1, <2>3, <3>3
  <2> QED BY <2>2, <2>3
<1>7. f \in [1 .. n -> V]
  BY <1>5 DEF IsWalk
<1>8. PieceWalk(query, f)
  BY <1>6, <1>7 DEF PieceWalk
<1>9. f = [curr \in 1 .. Len(query) + 1 |->
             LET end_param == Find(query, Amp, curr)
             IN  IF end_param = 0 THEN <<SubSeq(query, curr, Len(query))>>
                 ELSE <<SubSeq(query, curr, end_param - 1)>> \o f[end_param + 1]]
  BY <1>6, <1>7 DEF Amper, PieceTo
<1>10. \E h : h = [curr \in 1 .. Len(query) + 1 |->
             LET end_param == Find(query, Amp, curr)
             IN  IF end_param = 0 THEN <<SubSeq(query, curr, Len(query))>>
                 ELSE <<SubSeq(query, curr, end_param - 1)>> \o h[end_param + 1]]
  BY <1>9
<1>11. From = [curr \in 1 .. Len(query) + 1 |->
             LET end_param == Find(query, Amp, curr)
             IN  IF end_param = 0 THEN <<SubSeq(query, curr, Len(query))>>
                 ELSE <<SubSeq(query, curr, end_param - 1)>> \o From[end_param + 1]]
  BY <1>10
<1> HIDE DEF From
<1>12. \A p \in 1 .. n : f[p] = From[p]
  <2> DEFINE S == {p \in 1 .. n : f[p] = From[p]}
  <2>1. ASSUME NEW p \in 1 .. n, \A q \in p + 1 .. n : q \in S
        PROVE  p \in S
    <3> DEFINE e == Amper(query, p)
    <3>1. From[p] = IF e = 0 THEN PieceTo(query, p, L) ELSE PieceTo(query, p, e - 1) \o From[e + 1]
      BY <1>11 DEF Amper, PieceTo
    <3>2. f[p] = IF e = 0 THEN PieceTo(query, p, L) ELSE PieceTo(query, p, e - 1) \o f[e + 1]
      BY <1>6
    <3>3. e # 0 => e \in p .. L
      BY AmperIs
    <3> HIDE DEF e
    <3>4. e # 0 => e + 1 \in p + 1 .. n
      BY <1>1, <3>3
    <3>5. e # 0 => f[e + 1] = From[e + 1]
      BY <2>1, <3>4
    <3> QED BY <3>1, <3>2, <3>5
  <2> HIDE DEF S, n
  <2>2. \A p \in 1 .. n : p \in S
    BY <1>1, <2>1, InductBack
  <2> QED BY <2>2 DEF S
<1>13. 1 \in 1 .. n
  BY <1>1
<1> QED
  BY <1>2, <1>8, <1>12, <1>13

LEMMA PiecesAre ==
    ASSUME NEW query \in Seq(Char)
    PROVE  Pieces(query) \in Seq(Seq(Char))
<1>1. PICK f : PieceWalk(query, f) /\ Pieces(query) = f[1]
  BY PiecesWalk
<1>2. 1 \in 1 .. Len(query) + 1
  OBVIOUS
<1> QED
  BY <1>1, <1>2 DEF PieceWalk

\* A text without '&' is one parameter.
LEMMA OnePiece ==
    ASSUME NEW param \in Seq(Char), ~Contains(param, Amp)
    PROVE  Pieces(param) = <<param>>
<1>1. PICK f : PieceWalk(param, f) /\ Pieces(param) = f[1]
  BY PiecesWalk
<1>2. 1 \in 1 .. Len(param) + 1 /\ Len(param) \in Nat
  OBVIOUS
<1>3. Amper(param, 1) = 0
  <2> DEFINE one == 1
             e == Amper(param, one)
  <2>1. one \in 1 .. Len(param) + 1
    BY <1>2
  <2>2. Found(param, Amp, one, e)
    <3> HIDE DEF one
    <3> QED BY <2>1, AmperIs
  <2>3. \A p \in one .. Len(param) : param[p] # Amp
    BY DEF Contains
  <2> HIDE DEF e
  <2>4. e = 0
    BY <2>2, <2>3 DEF Found
  <2> QED BY <2>4 DEF e
<1>4. f[1] = PieceTo(param, 1, Len(param))
  BY <1>1, <1>2, <1>3 DEF PieceWalk
<1> QED
  BY <1>1, <1>4, SubSeqFull DEF PieceTo

\* And behind an '&' it is one more.
LEMMA OneMorePiece ==
    ASSUME NEW query \in Seq(Char), NEW param \in Seq(Char), ~Contains(param, Amp)
    PROVE  Pieces(query \o <<Amp>> \o param) = Pieces(query) \o <<param>>
<1> DEFINE L == Len(query)
           d == Len(param)
           head == query \o <<Amp>>
           s == head \o param
           M == Len(s)
<1>1. L \in Nat /\ d \in Nat /\ <<Amp>> \in Seq(Char)
  BY DEF Amp, Char
<1>2. /\ s \in Seq(Char) /\ M = L + 1 + d
      /\ \A p \in 1 .. L : s[p] = query[p]
      /\ s[L + 1] = Amp
      /\ \A p \in 1 .. d : s[L + 1 + p] = param[p]
  <2> DEFINE one == <<Amp>>
  <2>1. one \in Seq(Char) /\ Len(one) = 1 /\ one[1] = Amp
    BY <1>1
  <2>2. head = query \o one
    OBVIOUS
  <2> HIDE DEF one, head, L, d
  <2>3. /\ head \in Seq(Char) /\ Len(head) = Len(query) + Len(one)
        /\ \A p \in 1 .. Len(query) + Len(one) :
              head[p] = IF p <= Len(query) THEN query[p] ELSE one[p - Len(query)]
    BY <2>1, <2>2, ConcatProperties
  <2>4. /\ Len(head) = L + 1
        /\ \A p \in 1 .. L + 1 : head[p] = IF p <= L THEN query[p] ELSE Amp
    <3>1. \A p \in 1 .. L + 1 : ~ (p <= L) => p - L = 1
      BY <1>1
    <3> QED BY <2>1, <2>3, <3>1 DEF L
  <2>5. /\ s \in Seq(Char) /\ Len(s) = Len(head) + Len(param)
        /\ \A p \in 1 .. Len(head) + Len(param) :
              s[p] = IF p <= Len(head) THEN head[p] ELSE param[p - Len(head)]
    <3>1. head \in Seq(Char)
      BY <2>3
    <3>2. /\ head \o param \in Seq(Char) /\ Len(head \o param) = Len(head) + Len(param)
          /\ \A p \in 1 .. Len(head) + Len(param) :
                (head \o param)[p] = IF p <= Len(head) THEN head[p] ELSE param[p - Len(head)]
      BY <3>1, ConcatProperties
    <3>3. s = head \o param
      OBVIOUS
    <3> HIDE DEF s
    <3> QED BY <3>2, <3>3
  <2> HIDE DEF s
  <2>6. /\ Len(s) = L + 1 + d
        /\ \A p \in 1 .. L + 1 + d : s[p] = IF p <= L + 1 THEN head[p] ELSE param[p - (L + 1)]
    BY <2>4, <2>5 DEF d
  <2>7. \A p \in 1 .. L : s[p] = query[p]
    BY <1>1, <2>4, <2>6
  <2>8. s[L + 1] = Amp
    <3> DEFINE p == L + 1
    <3>1. p \in 1 .. L + 1 + d /\ p <= L + 1 /\ ~ (p <= L) /\ p \in 1 .. L + 1
      BY <1>1
    <3> HIDE DEF p
    <3>2. s[p] = Amp
      BY <2>4, <2>6, <3>1
    <3> QED BY <3>2 DEF p
  <2>9. \A p \in 1 .. d : s[L + 1 + p] = param[p]
    <3> SUFFICES ASSUME NEW k \in 1 .. d PROVE s[L + 1 + k] = param[k]
      OBVIOUS
    <3> DEFINE p == L + 1 + k
    <3>1. p \in 1 .. L + 1 + d /\ ~ (p <= L + 1) /\ p - (L + 1) = k
      BY <1>1
    <3> HIDE DEF p
    <3>2. s[p] = param[k]
      BY <2>6, <3>1
    <3> QED BY <3>2 DEF p
  <2> QED BY <2>5, <2>6, <2>7, <2>8, <2>9
<1>3. PICK f : PieceWalk(query, f) /\ Pieces(query) = f[1]
  BY PiecesWalk
<1> HIDE DEF s, head
<1>4. PICK g : PieceWalk(s, g) /\ Pieces(s) = g[1]
  BY <1>2, PiecesWalk
<1> DEFINE last == <<param>>
<1>5. last \in Seq(Seq(Char))
  OBVIOUS
<1> HIDE DEF last
<1> HIDE DEF M, L, d
\* The last parameter.
<1>6. g[L + 2] = last
  <2> DEFINE from == L + 2
             e == Amper(s, from)
  <2>1. from \in 1 .. M + 1 /\ from \in Nat \ {0} /\ from <= M + 1 /\ M - from + 1 = d /\ M \in Nat
    BY <1>1, <1>2
  <2>2. Found(s, Amp, from, e)
    <3> HIDE DEF from
    <3> QED BY <1>2, <2>1, AmperIs DEF M
  <2>3. \A p \in from .. M : s[p] # Amp
    <3> SUFFICES ASSUME NEW p \in from .. M PROVE s[p] # Amp
      OBVIOUS
    <3> DEFINE k == p - (L + 1)
    <3>1. k \in 1 .. d /\ L + 1 + k = p
      BY <1>1, <1>2
    <3> HIDE DEF k
    <3>2. s[p] = param[k] /\ param[k] # Amp
      BY <1>2, <3>1 DEF Contains, d
    <3> QED BY <3>2
  <2> HIDE DEF from, e
  <2>4. e = 0
    BY <2>2, <2>3 DEF Found, M
  <2>5. g[from] = PieceTo(s, from, M)
    BY <1>4, <2>1, <2>4 DEF PieceWalk, M, e
  <2> DEFINE sub == SubSeq(s, from, M)
  <2>6. /\ sub \in Seq(Char) /\ Len(sub) = M - from + 1
        /\ \A p \in 1 .. M - from + 1 : sub[p] = s[from + p - 1]
    <3>1. M <= Len(s)
      BY <2>1 DEF M
    <3>2. s \in Seq(Char) /\ from \in Nat \ {0} /\ M \in Nat /\ from <= M + 1
      BY <1>2, <2>1
    <3> QED BY <3>1, <3>2, SliceIs
  <2> HIDE DEF sub
  <2>7. \A p \in 1 .. d : from + p - 1 = L + 1 + p
    BY <1>1 DEF from
  <2>8. sub = param
    <3>1. Len(sub) = Len(param) /\ \A p \in 1 .. Len(sub) : sub[p] = param[p]
      BY ZenonT(40), <1>2, <2>1, <2>6, <2>7 DEF d
    <3> QED BY <2>6, <3>1, SeqEqual
  <2> QED BY <2>5, <2>8 DEF PieceTo, sub, from, last
\* A part that lies before the '&' is the same in both.
<1>7. ASSUME NEW p \in 1 .. L + 1, NEW m \in 0 .. L, p <= m + 1
      PROVE  PieceTo(s, p, m) = PieceTo(query, p, m) /\ PieceTo(query, p, m) \in Seq(Seq(Char))
  <2> DEFINE x == SubSeq(s, p, m)
             y == SubSeq(query, p, m)
  <2>1. p \in Nat \ {0} /\ m \in Nat /\ m <= M /\ m <= L
    BY <1>1, <1>2
  <2>2. x \in Seq(Char) /\ Len(x) = m - p + 1 /\ \A k \in 1 .. m - p + 1 : x[k] = s[p + k - 1]
    BY <1>2, <1>7, <2>1, SliceIs DEF M
  <2>3. y \in Seq(Char) /\ Len(y) = m - p + 1 /\ \A k \in 1 .. m - p + 1 : y[k] = query[p + k - 1]
    BY <1>7, <2>1, SliceIs DEF L
  <2>4. \A k \in 1 .. m - p + 1 : p + k - 1 \in 1 .. L
    BY <1>1, <2>1
  <2> HIDE DEF x, y
  <2>5. x = y
    <3>1. \A k \in 1 .. Len(x) : x[k] = y[k]
      BY <1>2, <2>2, <2>3, <2>4
    <3>2. Len(x) = Len(y)
      BY <2>2, <2>3
    <3> QED BY <2>2, <2>3, <3>1, <3>2, SeqEqual
  <2> QED BY <2>3, <2>5 DEF PieceTo, x, y
<1> DEFINE S == {p \in 1 .. L + 1 : g[p] = f[p] \o last}
<1>8. ASSUME NEW p \in 1 .. L + 1, \A q \in p + 1 .. L + 1 : q \in S
      PROVE  p \in S
  <2> DEFINE e == Amper(query, p)
             h == Amper(s, p)
  <2>1. p \in 1 .. M + 1
    BY <1>1, <1>2
  <2>2. Found(query, Amp, p, e) /\ (e # 0 => e \in p .. L)
    BY AmperIs DEF L
  <2>3. Found(s, Amp, p, h) /\ (h # 0 => h \in p .. M)
    BY <1>2, <2>1, AmperIs DEF M
  <2>4. f[p] = IF e = 0 THEN PieceTo(query, p, L) ELSE PieceTo(query, p, e - 1) \o f[e + 1]
    BY <1>3 DEF PieceWalk, L
  <2>5. g[p] = IF h = 0 THEN PieceTo(s, p, M) ELSE PieceTo(s, p, h - 1) \o g[h + 1]
    BY <1>4, <2>1 DEF PieceWalk, M
  <2> HIDE DEF e, h
  <2>6. h # 0
    <3>1. L + 1 \in p .. M /\ s[L + 1] = Amp
      BY <1>1, <1>2
    <3>2. h = 0 => \A q \in p .. M : s[q] # Amp
      <4>1. h = 0 => h \notin p .. M
        OBVIOUS
      <4> QED BY <2>3, <4>1 DEF Found, M
    <3> QED BY <3>1, <3>2
  <2>7. h \in p .. M /\ s[h] = Amp /\ \A q \in p .. h - 1 : s[q] # Amp
    BY <2>3, <2>6 DEF Found, M
  <2>8. CASE e = 0
    <3>1. \A q \in p .. L : query[q] # Amp
      <4>1. e \notin p .. L
        BY <2>8
      <4> QED BY <2>2, <4>1 DEF Found, L
    <3>2. ~ (h <= L)
      <4> SUFFICES ASSUME h <= L PROVE FALSE
        OBVIOUS
      <4>1. h \in p .. L /\ h \in 1 .. L
        BY <1>1, <2>7
      <4> QED BY <1>2, <2>7, <3>1, <4>1
    <3>3. ~ (h > L + 1)
      <4> SUFFICES ASSUME h > L + 1 PROVE FALSE
        OBVIOUS
      <4>1. L + 1 \in p .. h - 1
        BY <1>1, <2>7
      <4> QED BY <1>2, <2>7, <4>1
    <3>4. h = L + 1 /\ h - 1 = L /\ h + 1 = L + 2
      BY <1>1, <2>7, <3>2, <3>3
    <3>5. PieceTo(s, p, L) = PieceTo(query, p, L)
      <4>1. L \in 0 .. L /\ p <= L + 1
        BY <1>1
      <4> QED BY <1>7, <4>1
    <3>6. g[p] = PieceTo(query, p, L) \o last
      BY <1>6, <2>5, <2>6, <3>4, <3>5
    <3> QED BY <2>4, <2>8, <3>6
  <2>9. CASE e # 0
    <3>1. e \in p .. L /\ query[e] = Amp /\ \A q \in p .. e - 1 : query[q] # Amp
      BY <2>2, <2>9 DEF Found, L
    <3>2. e \in 1 .. L /\ s[e] = Amp
      BY <1>1, <1>2, <3>1
    <3>3. ~ (h < e)
      <4> SUFFICES ASSUME h < e PROVE FALSE
        OBVIOUS
      <4>1. h \in p .. e - 1 /\ h \in 1 .. L
        BY <1>1, <2>7, <3>1
      <4> QED BY <1>2, <2>7, <3>1, <4>1
    <3>4. ~ (e < h)
      <4> SUFFICES ASSUME e < h PROVE FALSE
        OBVIOUS
      <4>1. e \in p .. h - 1
        BY <1>1, <2>7, <3>1
      <4> QED BY <2>7, <3>2, <4>1
    <3>5. h = e
      BY <1>1, <2>7, <3>1, <3>3, <3>4
    <3> DEFINE piece == PieceTo(query, p, e - 1)
               rest == f[e + 1]
    <3>6. e + 1 \in p + 1 .. L + 1 /\ e + 1 \in 1 .. L + 1 /\ e - 1 \in 0 .. L /\ p <= (e - 1) + 1
      BY <1>1, <3>1
    <3>7. g[e + 1] = rest \o last
      BY <1>8, <3>6
    <3>8. PieceTo(s, p, e - 1) = piece /\ piece \in Seq(Seq(Char))
      BY <1>7, <3>6
    <3>9. rest \in Seq(Seq(Char))
      BY <1>3, <3>6 DEF PieceWalk, L
    <3>10. g[p] = piece \o (rest \o last)
      BY <2>5, <2>6, <3>5, <3>7, <3>8
    <3>11. f[p] = piece \o rest
      BY <2>4, <2>9
    <3> HIDE DEF piece, rest
    <3>12. (piece \o rest) \o last = piece \o (rest \o last)
      BY SMTT(40), <1>5, <3>8, <3>9, ConcatAssociative
    <3> QED BY <3>10, <3>11, <3>12
  <2> QED BY <2>8, <2>9
<1>9. 1 \in S
  <2> DEFINE N == L + 1
  <2>1. N \in Nat /\ 1 \in 1 .. N
    BY <1>1
  <2> HIDE DEF S, N
  <2>2. \A p \in 1 .. N : p \in S
    BY <1>8, <2>1, InductBack DEF N
  <2> QED BY <2>1, <2>2
<1> QED
  BY <1>3, <1>4, <1>9 DEF s, head, last

ParamMaps == UNION {[D -> Seq(Char)] : D \in SUBSET Seq(Char)}

\* add_param does nothing, or puts one value under one key.
LEMMA AddParamIs ==
    ASSUME NEW param \in Seq(Char)
    PROVE  \/ \A params : add_param(params, param) = params
           \/ \E key, value \in Seq(Char) : \A params : add_param(params, param) = Assign(params, key, value)
<1> DEFINE L == Len(param)
           split == Split(param)
           bare  == split = 0 \/ split >= Len(param)
           left  == SubSeq(param, 1, IF split = 0 THEN Len(param) ELSE split - 1)
           right == SubSeq(param, split + 1, Len(param))
           key   == url_decode(left)
           value == IF bare THEN Decoded(<<>>) ELSE url_decode(right)
<1>1. \A params : add_param(params, param) =
                     IF key.ok /\ value.ok THEN Assign(params, key.out, value.out) ELSE params
  BY DEF add_param
<1>2. L \in Nat
  OBVIOUS
<1>3. split = 0 \/ split \in 1 .. L
  <2> DEFINE one == 1
  <2>1. one \in Nat \ {0}
    OBVIOUS
  <2> HIDE DEF one
  <2>2. Found(param, Eq, one, Find(param, Eq, one))
    BY <1>2, <2>1, FindIs
  <2>3. split = Find(param, Eq, one)
    BY DEF Split, one
  <2> HIDE DEF split
  <2> QED BY <2>2, <2>3 DEF Found, one
<1> HIDE DEF split
<1>4. left \in Seq(Char)
  <2> DEFINE m == IF split = 0 THEN Len(param) ELSE split - 1
             one == 1
  <2>1. one \in Nat \ {0} /\ m \in Nat /\ one <= m + 1 /\ m <= Len(param)
    BY <1>2, <1>3
  <2> HIDE DEF one, m
  <2>2. SubSeq(param, one, m) \in Seq(Char)
    BY <2>1, SliceIs
  <2> QED BY <2>2 DEF one, m
<1>5. ~bare => right \in Seq(Char)
  <2> SUFFICES ASSUME ~bare PROVE right \in Seq(Char)
    OBVIOUS
  <2> DEFINE from == split + 1
             m == Len(param)
  <2>1. from \in Nat \ {0} /\ m \in Nat /\ from <= m + 1 /\ m <= Len(param)
    BY <1>2, <1>3
  <2> HIDE DEF from, m
  <2>2. SubSeq(param, from, m) \in Seq(Char)
    BY <2>1, SliceIs
  <2> QED BY <2>2 DEF from, m
<1>6. key \in Results
  BY <1>4, UrlDecodeIs
<1>7. value \in Results
  <2>1. Decoded(<<>>) \in Results
    BY DEF Decoded, Results
  <2> QED BY <1>5, <2>1, UrlDecodeIs
<1> HIDE DEF key, value
<1>8. key.ok \in BOOLEAN /\ key.out \in Seq(Char) /\ value.ok \in BOOLEAN /\ value.out \in Seq(Char)
  BY <1>6, <1>7 DEF Results
<1> DEFINE k == key.out
           v == value.out
<1>9. CASE key.ok /\ value.ok
  <2>1. \A params : add_param(params, param) = Assign(params, k, v)
    BY <1>1, <1>9
  <2>2. k \in Seq(Char) /\ v \in Seq(Char)
    BY <1>8
  <2> HIDE DEF k, v
  <2> QED BY <2>1, <2>2
<1>10. CASE ~ (key.ok /\ value.ok)
  BY <1>1, <1>10
<1> QED
  BY <1>9, <1>10

LEMMA AddParamKeeps ==
    ASSUME NEW params \in ParamMaps, NEW param \in Seq(Char)
    PROVE  add_param(params, param) \in ParamMaps
<1>1. CASE add_param(params, param) = params
  BY <1>1
<1>2. ASSUME NEW key \in Seq(Char), NEW value \in Seq(Char),
             add_param(params, param) = Assign(params, key, value)
      PROVE  add_param(params, param) \in ParamMaps
  <2> DEFINE D == DOMAIN params
             E == {key} \cup D
  <2>1. D \in SUBSET Seq(Char) /\ \A k \in D : params[k] \in Seq(Char)
    BY DEF ParamMaps
  <2>2. Assign(params, key, value) \in [E -> Seq(Char)] /\ E \in SUBSET Seq(Char)
    BY <2>1 DEF Assign
  <2> HIDE DEF E
  <2> QED BY <1>2, <2>2 DEF ParamMaps
<1> QED
  BY <1>1, <1>2, AddParamIs

\* The parameters, added one after the other.
LEMMA ParamChain ==
    ASSUME NEW params \in ParamMaps, NEW pieces \in Seq(Seq(Char))
    PROVE  \E g \in [0 .. Len(pieces) -> ParamMaps] :
              /\ g[0] = params /\ FoldLeft(add_param, params, pieces) = g[Len(pieces)]
              /\ \A i \in 1 .. Len(pieces) : g[i] = add_param(g[i - 1], pieces[i])
<1> DEFINE n == Len(pieces)
           iter[s \in SUBSET DOMAIN pieces] ==
             IF s = {} THEN params ELSE LET x == Max(s) IN add_param(iter[s \ {x}], pieces[x])
           H == [i \in 1 .. n |-> [c \in ParamMaps |-> add_param(c, pieces[i])]]
<1>0. n \in Nat /\ DOMAIN pieces = 1 .. n /\ \A i \in 1 .. n : pieces[i] \in Seq(Char)
  OBVIOUS
<1>1. FoldLeft(add_param, params, pieces) = iter[1 .. n]
  BY <1>0 DEF FoldLeft, MapThenFoldSet
<1>2. PICK h : IsFold(h, n, ParamMaps, params, H)
  <2>1. H \in Steps(n, ParamMaps)
    BY <1>0, AddParamKeeps DEF Steps
  <2> HIDE DEF H, n
  <2> QED
    BY <1>0, <2>1, FoldExists
<1>3. iter = [s \in SUBSET (1 .. n) |->
                IF s = {} THEN params ELSE LET x == Max(s) IN add_param(iter[s \ {x}], pieces[x])]
  <2>1. ASSUME NEW s \in SUBSET (1 .. n), s # {}
        PROVE  h[s] = add_param(h[s \ {Max(s)}], pieces[Max(s)])
    <3>1. Max(s) \in 1 .. n
      BY <1>0, <2>1, MaxOf
    <3>2. h[s \ {Max(s)}] \in ParamMaps /\ h[s] = H[Max(s)][h[s \ {Max(s)}]]
      BY <1>2, <2>1 DEF IsFold
    <3> QED
      BY <3>1, <3>2
  <2>2. h = [s \in SUBSET (1 .. n) |->
               IF s = {} THEN params ELSE LET x == Max(s) IN add_param(h[s \ {x}], pieces[x])]
    BY <1>2, <2>1 DEF IsFold
  <2>3. \E k : k = [s \in SUBSET DOMAIN pieces |->
                      IF s = {} THEN params ELSE LET x == Max(s) IN add_param(k[s \ {x}], pieces[x])]
    BY <1>0, <2>2
  <2> QED
    BY <1>0, <2>3
<1> HIDE DEF iter, H
<1> DEFINE g == [i \in 0 .. n |-> iter[1 .. i]]
           S == {i \in 0 .. n : g[i] \in ParamMaps}
<1>4. g[0] = params
  <2>1. 1 .. 0 = {}
    OBVIOUS
  <2>2. iter[{}] = params
    BY <1>3
  <2> QED
    BY <1>0, <2>1, <2>2
<1>5. ASSUME NEW i \in 1 .. n PROVE g[i] = add_param(g[i - 1], pieces[i])
  <2>1. i \in Nat /\ i > 0 /\ 1 .. i \in SUBSET (1 .. n) /\ i \in 1 .. i /\ i - 1 \in 0 .. n
    BY <1>0
  <2>2. Max(1 .. i) = i /\ (1 .. i) \ {i} = 1 .. i - 1
    BY <2>1, MaxOfInterval
  <2>3. iter[1 .. i] = add_param(iter[1 .. i - 1], pieces[i])
    BY <1>3, <2>1, <2>2
  <2> QED
    BY <2>1, <2>3
<1>6. \A i \in 0 .. n : i \in S
  <2>1. 0 \in S
    BY <1>0, <1>4
  <2>2. ASSUME NEW i \in 0 .. n - 1, i \in S PROVE i + 1 \in S
    <3>1. i + 1 \in 1 .. n /\ i + 1 \in 0 .. n /\ (i + 1) - 1 = i /\ g[i] \in ParamMaps
      BY <1>0, <2>2
    <3>2. g[i + 1] = add_param(g[i], pieces[i + 1]) /\ pieces[i + 1] \in Seq(Char)
      BY <1>0, <1>5, <3>1
    <3>3. g[i + 1] \in ParamMaps
      <4> HIDE DEF g
      <4> QED BY <3>1, <3>2, AddParamKeeps
    <3> QED
      BY <3>1, <3>3
  <2> HIDE DEF S, n
  <2> QED
    BY <1>0, <2>1, <2>2, InductUpTo
<1>7. g \in [0 .. n -> ParamMaps] /\ FoldLeft(add_param, params, pieces) = g[n]
  BY <1>0, <1>1, <1>6
<1> QED
  <2> HIDE DEF g
  <2> QED BY <1>4, <1>5, <1>7

\* The parameters of a query.
ParamsOf(query) == FoldLeft(add_param, <<>>, Pieces(query))

LEMMA NoParams == <<>> \in ParamMaps /\ DOMAIN <<>> = {}
<1>1. <<>> \in [{} -> Seq(Char)] /\ {} \in SUBSET Seq(Char)
  OBVIOUS
<1> QED
  BY <1>1 DEF ParamMaps

LEMMA OneParam ==
    ASSUME NEW param \in Seq(Char), ~Contains(param, Amp)
    PROVE  ParamsOf(param) = add_param(<<>>, param)
<1> DEFINE none == <<>>
           pieces == <<param>>
<1>1. none \in ParamMaps /\ pieces \in Seq(Seq(Char)) /\ Len(pieces) = 1 /\ pieces[1] = param
  BY NoParams
<1>2. ParamsOf(param) = FoldLeft(add_param, none, pieces)
  BY OnePiece DEF ParamsOf
<1> HIDE DEF none, pieces
<1>3. PICK g \in [0 .. Len(pieces) -> ParamMaps] :
         /\ g[0] = none /\ FoldLeft(add_param, none, pieces) = g[Len(pieces)]
         /\ \A i \in 1 .. Len(pieces) : g[i] = add_param(g[i - 1], pieces[i])
  BY <1>1, ParamChain
<1>4. 1 \in 1 .. 1 /\ 1 - 1 = 0
  OBVIOUS
<1>5. g[1] = add_param(g[1 - 1], pieces[1])
  BY <1>1, <1>3, <1>4
<1>6. g[1] = add_param(none, param)
  BY <1>1, <1>3, <1>4, <1>5
<1> QED
  BY <1>1, <1>2, <1>3, <1>6 DEF none

LEMMA OneMoreParam ==
    ASSUME NEW query \in Seq(Char), NEW param \in Seq(Char), ~Contains(param, Amp)
    PROVE  ParamsOf(query \o <<Amp>> \o param) = add_param(ParamsOf(query), param)
<1> DEFINE none == <<>>
           short == Pieces(query)
           n == Len(short)
           long == short \o <<param>>
<1>1. none \in ParamMaps /\ short \in Seq(Seq(Char)) /\ n \in Nat
  BY NoParams, PiecesAre
<1>2. ParamsOf(query \o <<Amp>> \o param) = FoldLeft(add_param, none, long)
  BY OneMorePiece DEF ParamsOf
<1>3. ParamsOf(query) = FoldLeft(add_param, none, short)
  BY DEF ParamsOf
<1> HIDE DEF none, short
<1>4. /\ long \in Seq(Seq(Char)) /\ Len(long) = n + 1 /\ long[n + 1] = param
      /\ \A i \in 1 .. n : long[i] = short[i]
  <2> DEFINE one == <<param>>
             U == Seq(Char)
  <2>1. one \in Seq(U) /\ short \in Seq(U) /\ Len(one) = 1 /\ one[1] = param /\ long = short \o one
    BY <1>1
  <2> HIDE DEF one, U, long, n
  <2>2. /\ short \o one \in Seq(U) /\ Len(short \o one) = Len(short) + Len(one)
        /\ \A p \in 1 .. Len(short) + Len(one) :
              (short \o one)[p] = IF p <= Len(short) THEN short[p] ELSE one[p - Len(short)]
    BY <2>1, ConcatProperties
  <2>3. /\ long \in Seq(U) /\ Len(long) = n + 1
        /\ \A p \in 1 .. n + 1 : long[p] = IF p <= n THEN short[p] ELSE one[p - n]
    BY <2>1, <2>2 DEF n
  <2>4. long[n + 1] = param
    <3> DEFINE p == n + 1
    <3>1. p \in 1 .. n + 1 /\ ~ (p <= n) /\ p - n = 1
      BY <1>1
    <3> HIDE DEF p
    <3>2. long[p] = param
      BY <2>1, <2>3, <3>1
    <3> QED BY <3>2 DEF p
  <2>5. \A i \in 1 .. n : i \in 1 .. n + 1 /\ i <= n
    BY <1>1
  <2> QED BY <2>3, <2>4, <2>5 DEF U
<1> HIDE DEF long, n
<1>5. PICK g \in [0 .. n -> ParamMaps] :
         /\ g[0] = none /\ FoldLeft(add_param, none, short) = g[n]
         /\ \A i \in 1 .. n : g[i] = add_param(g[i - 1], short[i])
  BY <1>1, ParamChain DEF n
<1>6. PICK h \in [0 .. n + 1 -> ParamMaps] :
         /\ h[0] = none /\ FoldLeft(add_param, none, long) = h[n + 1]
         /\ \A i \in 1 .. n + 1 : h[i] = add_param(h[i - 1], long[i])
  <2>1. \E h \in [0 .. Len(long) -> ParamMaps] :
           /\ h[0] = none /\ FoldLeft(add_param, none, long) = h[Len(long)]
           /\ \A i \in 1 .. Len(long) : h[i] = add_param(h[i - 1], long[i])
    BY <1>1, <1>4, ParamChain
  <2> QED BY <1>4, <2>1
<1> DEFINE S == {i \in 0 .. n : g[i] = h[i]}
<1>7. \A i \in 0 .. n : i \in S
  <2>1. 0 \in S
    BY <1>1, <1>5, <1>6
  <2>2. ASSUME NEW i \in 0 .. n - 1, i \in S PROVE i + 1 \in S
    <3>1. i + 1 \in 1 .. n /\ i + 1 \in 1 .. n + 1 /\ (i + 1) - 1 = i /\ i + 1 \in 0 .. n
      BY <1>1
    <3>2. g[i + 1] = add_param(g[i], short[i + 1]) /\ h[i + 1] = add_param(h[i], long[i + 1])
      BY <1>5, <1>6, <3>1
    <3>3. long[i + 1] = short[i + 1] /\ g[i] = h[i]
      BY <1>4, <2>2, <3>1
    <3> QED BY <3>1, <3>2, <3>3
  <2> HIDE DEF S
  <2> QED BY <1>1, <2>1, <2>2, InductUpTo
<1>8. g[n] = h[n]
  BY <1>1, <1>7
<1>9. h[n + 1] = add_param(h[n], param)
  <2>1. n + 1 \in 1 .. n + 1 /\ (n + 1) - 1 = n
    BY <1>1
  <2> QED BY <1>4, <1>6, <2>1
<1> QED
  BY <1>2, <1>3, <1>5, <1>6, <1>8, <1>9

\* A key and a text, escaped.
ParamText(key, text) == Escape(key) \o <<Eq>> \o Escape(text)

LEMMA ParamTextIs ==
    ASSUME NEW key \in Seq(Char), NEW text \in Seq(Char), ~Contains(key, Eq)
    PROVE  /\ ParamText(key, text) \in Seq(Char) /\ ~Contains(ParamText(key, text), Amp)
           /\ \A params : add_param(params, ParamText(key, text)) = Assign(params, key, text)
<1> DEFINE x == Escape(key)
           y == Escape(text)
           w == Len(x)
           v == Len(y)
           param == ParamText(key, text)
           L == w + 1 + v
<1>1. /\ x \in Seq(Char) /\ y \in Seq(Char) /\ w \in Nat /\ v \in Nat
      /\ ~Contains(x, Amp) /\ ~Contains(x, Eq) /\ ~Contains(y, Amp)
  BY EscapeIs
<1>2. url_decode(x) = Decoded(key) /\ url_decode(y) = Decoded(text)
  BY EscapeComesBack
<1>3. param = Pair(x, y)
  BY DEF ParamText, Pair
<1> HIDE DEF x, y, param
<1>4. /\ param \in Seq(Char) /\ Len(param) = L
      /\ \A j \in 1 .. w : param[j] = x[j]
      /\ param[w + 1] = Eq
      /\ \A j \in 1 .. v : param[w + 1 + j] = y[j]
  BY ZenonT(40), <1>1, <1>3, PairIs
<1>5. ~Contains(param, Amp)
  <2> SUFFICES ASSUME NEW j \in 1 .. L PROVE param[j] # Amp
    BY <1>4 DEF Contains
  <2>1. CASE j <= w
    <3>1. j \in 1 .. w
      BY <2>1
    <3> QED BY <1>1, <1>4, <3>1 DEF Contains, w
  <2>2. CASE j = w + 1
    BY <1>4, <2>2 DEF Eq, Amp
  <2>3. CASE j > w + 1
    <3> DEFINE k == j - (w + 1)
    <3>1. k \in 1 .. v /\ j = w + 1 + k
      BY <1>1, <2>3
    <3> HIDE DEF k
    <3> QED BY <1>1, <1>4, <3>1 DEF Contains, v
  <2> QED BY <1>1, <2>1, <2>2, <2>3
<1>6. Split(param) = w + 1
  <2> DEFINE one == 1
             f == Find(param, Eq, one)
  <2>1. one \in Nat \ {0} /\ Len(param) \in Nat
    BY <1>1, <1>4
  <2> HIDE DEF one
  <2>2. Found(param, Eq, one, f)
    BY <2>1, FindIs
  <2>3. f = Split(param)
    BY DEF Split, one
  <2> HIDE DEF f
  <2>4. w + 1 \in one .. L /\ param[w + 1] = Eq
    BY <1>1, <1>4 DEF one
  <2>5. f # 0
    <3>1. f = 0 => f \notin one .. L
      BY DEF one
    <3>2. f = 0 => \A p \in one .. L : param[p] # Eq
      BY <1>4, <2>2, <3>1 DEF Found
    <3> QED BY <2>4, <3>2
  <2>6. f \in one .. L /\ param[f] = Eq /\ \A p \in one .. f - 1 : param[p] # Eq
    BY <1>4, <2>2, <2>5 DEF Found
  <2>7. ~ (f <= w)
    <3> SUFFICES ASSUME f <= w PROVE FALSE
      OBVIOUS
    <3>1. f \in 1 .. w
      BY <1>1, <2>6 DEF one
    <3> QED BY <1>1, <1>4, <2>6, <3>1 DEF Contains, w
  <2>8. ~ (f > w + 1)
    <3> SUFFICES ASSUME f > w + 1 PROVE FALSE
      OBVIOUS
    <3>1. w + 1 \in one .. f - 1
      BY <1>1, <2>6 DEF one
    <3> QED BY <1>4, <2>6, <3>1
  <2>9. f = w + 1
    BY <1>1, <2>6, <2>7, <2>8 DEF one
  <2> QED BY <2>3, <2>9
<1>7. SubSeq(param, 1, w) = x
  <2> DEFINE one == 1
             sub == SubSeq(param, one, w)
  <2>1. one \in Nat \ {0} /\ w \in Nat /\ one <= w + 1 /\ w <= Len(param) /\ w - one + 1 = w
        /\ \A p \in 1 .. w : one + p - 1 = p
    BY <1>1, <1>4
  <2> HIDE DEF one, w
  <2>2. /\ sub \in Seq(Char) /\ Len(sub) = w - one + 1
        /\ \A p \in 1 .. w - one + 1 : sub[p] = param[one + p - 1]
    BY <1>4, <2>1, SliceIs
  <2> HIDE DEF sub
  <2>3. Len(sub) = Len(x) /\ \A p \in 1 .. Len(sub) : sub[p] = x[p]
    <3>1. Len(sub) = w /\ \A p \in 1 .. w : sub[p] = param[p]
      BY <2>1, <2>2
    <3>2. \A p \in 1 .. w : param[p] = x[p]
      BY <1>4
    <3> QED BY <3>1, <3>2 DEF w
  <2>4. sub = x
    BY <1>1, <2>2, <2>3, SeqEqual
  <2> QED BY <2>4 DEF sub, one
<1>8. SubSeq(param, w + 1 + 1, Len(param)) = y
  <2> DEFINE from == w + 1 + 1
             sub == SubSeq(param, from, L)
  <2>1. from \in Nat \ {0} /\ L \in Nat /\ from <= L + 1 /\ L <= Len(param)
    BY <1>1, <1>4
  <2>2. L - from + 1 = v /\ \A p \in 1 .. v : from + p - 1 = w + 1 + p
    BY <1>1
  <2> HIDE DEF from, L, w, v
  <2>3. /\ sub \in Seq(Char) /\ Len(sub) = L - from + 1
        /\ \A p \in 1 .. L - from + 1 : sub[p] = param[from + p - 1]
    BY <1>4, <2>1, SliceIs
  <2> HIDE DEF sub
  <2>4. Len(sub) = Len(y) /\ \A p \in 1 .. Len(sub) : sub[p] = y[p]
    BY <1>4, <2>2, <2>3 DEF v
  <2>5. sub = y
    BY <1>1, <2>3, <2>4, SeqEqual
  <2> QED BY <1>4, <2>5 DEF sub, from
<1>9. ASSUME NEW params PROVE add_param(params, param) = Assign(params, key, text)
  <2> DEFINE split == Split(param)
             bare  == split = 0 \/ split >= Len(param)
             k     == url_decode(SubSeq(param, 1, IF split = 0 THEN Len(param) ELSE split - 1))
             value == IF bare THEN Decoded(<<>>) ELSE url_decode(SubSeq(param, split + 1, Len(param)))
  <2>1. add_param(params, param) = IF k.ok /\ value.ok THEN Assign(params, k.out, value.out) ELSE params
    BY DEF add_param
  <2>2. split = w + 1 /\ split # 0 /\ split - 1 = w
    BY <1>1, <1>6
  <2>3. k = Decoded(key)
    <3> HIDE DEF split
    <3> QED BY <1>2, <1>7, <2>2
  <2>4. value = Decoded(text)
    <3>1. CASE ~bare
      <4> HIDE DEF split
      <4> QED BY <1>2, <1>8, <2>2, <3>1
    <3>2. CASE bare
      <4>1. v = 0
        BY <1>1, <1>4, <2>2, <3>2
      <4>2. y = <<>>
        BY <1>1, <4>1, EmptySeq
      <4>3. Decoded(text) = Decoded(<<>>)
        BY <1>2, <4>2, UrlDecodeEmpty
      <4> QED BY <3>2, <4>3
    <3> QED BY <3>1, <3>2
  <2> HIDE DEF k, value
  <2> QED BY <2>1, <2>3, <2>4 DEF Decoded
<1> QED
  BY <1>4, <1>5, <1>9 DEF param

\* A url with a query.
Asking(query) == Path \o <<Quest>> \o query

LEMMA AskingIs ==
    ASSUME NEW query \in Seq(Char)
    PROVE  /\ Asking(query) \in Seq(Char) /\ Asking(query) # Path
           /\ set_query_param(Asking(query)) = ParamsOf(query)
<1> DEFINE pre == Path \o <<Quest>>
           u == pre \o query
           n == Len(query)
<1>1. n \in Nat /\ pre \in Seq(Char) /\ Len(pre) = 2 /\ pre[1] # Quest /\ pre[2] = Quest
  BY DEF Path, Quest, Char
<1> HIDE DEF pre
<1>2. /\ u \in Seq(Char) /\ Len(u) = 2 + n
      /\ \A p \in 1 .. 2 + n : u[p] = IF p <= 2 THEN pre[p] ELSE query[p - 2]
  <2>1. /\ pre \o query \in Seq(Char) /\ Len(pre \o query) = Len(pre) + Len(query)
        /\ \A p \in 1 .. Len(pre) + Len(query) :
              (pre \o query)[p] = IF p <= Len(pre) THEN pre[p] ELSE query[p - Len(pre)]
    BY <1>1, ConcatProperties
  <2> QED BY <1>1, <2>1
<1>3. Asking(query) = u
  BY DEF Asking, pre
<1> HIDE DEF u, n
<1>4. u # Path
  <2>1. Len(Path) = 1
    BY DEF Path
  <2>2. Len(u) # 1
    BY <1>1, <1>2
  <2> QED BY <2>1, <2>2
<1>5. u[1] # Quest /\ u[2] = Quest /\ \A p \in 1 .. n : u[2 + p] = query[p]
  <2>1. 1 \in 1 .. 2 + n /\ 2 \in 1 .. 2 + n
    BY <1>1
  <2>2. \A p \in 1 .. n : 2 + p \in 1 .. 2 + n /\ ~ (2 + p <= 2) /\ (2 + p) - 2 = p
    BY <1>1
  <2> QED BY <1>1, <1>2, <2>1, <2>2
<1>6. Find(u, Quest, 1) = 2
  <2> DEFINE one == 1
             f == Find(u, Quest, one)
  <2>1. one \in Nat \ {0} /\ Len(u) \in Nat
    BY <1>1, <1>2
  <2> HIDE DEF one
  <2>2. Found(u, Quest, one, f)
    BY <2>1, FindIs
  <2> HIDE DEF f
  <2>3. 2 \in one .. Len(u)
    BY <1>1, <1>2 DEF one
  <2>4. f # 0
    <3>1. f = 0 => f \notin one .. Len(u)
      BY DEF one
    <3>2. f = 0 => \A p \in one .. Len(u) : u[p] # Quest
      BY <2>2, <3>1 DEF Found
    <3> QED BY <1>5, <2>3, <3>2
  <2>5. f \in one .. Len(u) /\ u[f] = Quest /\ \A p \in one .. f - 1 : u[p] # Quest
    BY <2>2, <2>4 DEF Found
  <2>6. f # 1
    BY <1>5, <2>5
  <2>7. ~ (f > 2)
    <3> SUFFICES ASSUME f > 2 PROVE FALSE
      OBVIOUS
    <3>1. 2 \in one .. f - 1
      BY <2>1, <2>5 DEF one
    <3> QED BY <1>5, <2>5, <3>1
  <2>8. f = 2
    BY <2>1, <2>5, <2>6, <2>7 DEF one
  <2> QED BY <2>8 DEF f, one
<1>7. SubSeq(u, 2 + 1, Len(u)) = query
  <2> DEFINE from == 2 + 1
             m == Len(u)
             sub == SubSeq(u, from, m)
  <2>1. from \in Nat \ {0} /\ m \in Nat /\ from <= m + 1 /\ m <= Len(u)
    BY <1>1, <1>2
  <2>2. m - from + 1 = n /\ \A p \in 1 .. n : from + p - 1 = 2 + p
    BY <1>1, <1>2
  <2> HIDE DEF from, m
  <2>3. /\ sub \in Seq(Char) /\ Len(sub) = m - from + 1
        /\ \A p \in 1 .. m - from + 1 : sub[p] = u[from + p - 1]
    BY <1>2, <2>1, SliceIs
  <2> HIDE DEF sub
  <2>4. Len(sub) = Len(query) /\ \A p \in 1 .. Len(sub) : sub[p] = query[p]
    BY <1>5, <2>2, <2>3 DEF n
  <2>5. sub = query
    BY <2>3, <2>4, SeqEqual
  <2> QED BY <2>5 DEF sub, from, m
<1>8. set_query_param(u) = ParamsOf(query)
  <2> DEFINE pos == Find(u, Quest, 1)
  <2>1. set_query_param(u) = IF pos = 0 THEN <<>>
                             ELSE FoldLeft(add_param, <<>>, Pieces(SubSeq(u, pos + 1, Len(u))))
    BY DEF set_query_param
  <2>2. pos = 2
    BY <1>6
  <2> HIDE DEF pos
  <2>3. pos # 0 /\ SubSeq(u, pos + 1, Len(u)) = query
    BY <1>7, <2>2
  <2> QED BY <2>1, <2>3 DEF ParamsOf
<1> QED
  BY <1>2, <1>3, <1>4, <1>8

LEMMA NotAsking == set_query_param(Path) = <<>>
<1> DEFINE one == 1
           f == Find(Path, Quest, one)
<1>1. one \in Nat \ {0} /\ Len(Path) = 1 /\ Path[1] # Quest
  BY DEF Path, Quest
<1>2. Found(Path, Quest, one, f)
  <2> HIDE DEF one
  <2>1. Len(Path) \in Nat
    BY <1>1
  <2> QED BY <1>1, <2>1, FindIs
<1> HIDE DEF f
<1>3. f = 0
  BY <1>1, <1>2 DEF Found
<1> QED
  BY <1>3 DEF set_query_param, f

\* The inductive invariant: the url is a path, or a path and a query that means what is given.
Means(query, map) ==
    \A key \in Keys : get_query_param(ParamsOf(query), key) = get_query_param(map, key)
UrlInv ==
    \/ url = Path /\ given = <<>>
    \/ \E query \in Seq(Char) : url = Asking(query) /\ Means(query, given)

\* One more parameter, whatever it means.
LEMMA ExtendMeans ==
    ASSUME UrlInv, NEW param \in Seq(Char), ~Contains(param, Amp), Extend(param), NEW map,
           \A params : \A key \in Keys :
              get_query_param(params, key) = get_query_param(given, key) =>
                 get_query_param(add_param(params, param), key) = get_query_param(map, key)
    PROVE  \E query \in Seq(Char) : url' = Asking(query) /\ Means(query, map)
<1>1. CASE url = Path /\ given = <<>>
  <2>1. url' = Asking(param)
    BY <1>1 DEF Extend, Asking
  <2>2. ParamsOf(param) = add_param(<<>>, param)
    BY OneParam
  <2>3. Means(param, map)
    BY <1>1, <2>2 DEF Means
  <2> QED BY <2>1, <2>3
<1>2. ASSUME NEW query \in Seq(Char), url = Asking(query), Means(query, given)
      PROVE  \E q \in Seq(Char) : url' = Asking(q) /\ Means(q, map)
  <2> DEFINE pre == Path \o <<Quest>>
             amp == <<Amp>>
             more == query \o amp \o param
  <2>1. pre \in Seq(Char) /\ amp \in Seq(Char)
    BY DEF Path, Quest, Amp, Char
  <2>2. url' = (pre \o query) \o amp \o param
    BY <1>2, AskingIs DEF Extend, Asking
  <2> HIDE DEF pre
  <2>3. more \in Seq(Char) /\ (pre \o query) \o amp \o param = pre \o more
    <3> HIDE DEF amp
    <3>1. query \o amp \in Seq(Char) /\ more \in Seq(Char)
      BY <2>1, ConcatProperties
    <3>2. (pre \o query) \o amp = pre \o (query \o amp)
      BY <2>1, ConcatAssociative
    <3>3. (pre \o (query \o amp)) \o param = pre \o ((query \o amp) \o param)
      BY SMTT(40), <2>1, <3>1, ConcatAssociative
    <3> QED BY <3>1, <3>2, <3>3
  <2>4. ParamsOf(more) = add_param(ParamsOf(query), param)
    BY OneMoreParam
  <2> HIDE DEF more
  <2>5. url' = Asking(more)
    BY <2>2, <2>3 DEF Asking, pre
  <2>6. Means(more, map)
    BY <1>2, <2>4 DEF Means
  <2> QED BY <2>3, <2>5, <2>6
<1> QED
  BY <1>1, <1>2 DEF UrlInv

LEMMA UrlInit == Init => UrlInv
BY DEF Init, UrlInv

LEMMA UrlStep == UrlInv /\ [Next]_vars => UrlInv'
<1> SUFFICES ASSUME UrlInv, [Next]_vars PROVE UrlInv'
  OBVIOUS
<1>0. ASSUME url' = url, given' = given PROVE UrlInv'
  BY <1>0 DEF UrlInv, Means
<1>1. ASSUME NEW query \in Seq(Char), url' = Asking(query), Means(query, given') PROVE UrlInv'
  BY <1>1 DEF UrlInv, Means
<1>2. ASSUME NEW key \in Keys, NEW text \in Texts, PutParam(key, text) PROVE UrlInv'
  <2> DEFINE param == ParamText(key, text)
  <2>1. key \in Seq(Char) /\ text \in Seq(Char) /\ ~Contains(key, Eq)
    BY ParamAssumption
  <2>2. Extend(param) /\ given' = Assign(given, key, text)
    BY <1>2 DEF PutParam, ParamText
  <2>3. /\ param \in Seq(Char) /\ ~Contains(param, Amp)
        /\ \A params : add_param(params, param) = Assign(params, key, text)
    BY <2>1, ParamTextIs
  <2> HIDE DEF param
  <2>4. ASSUME NEW params, NEW k \in Keys, get_query_param(params, k) = get_query_param(given, k)
        PROVE  get_query_param(add_param(params, param), k) = get_query_param(given', k)
    <3>1. add_param(params, param) = Assign(params, key, text)
      BY <2>3
    <3>2. get_query_param(Assign(params, key, text), k) = IF k = key THEN text ELSE get_query_param(params, k)
      BY DEF get_query_param, Assign
    <3>3. get_query_param(Assign(given, key, text), k) = IF k = key THEN text ELSE get_query_param(given, k)
      BY DEF get_query_param, Assign
    <3> QED BY <2>2, <2>4, <3>1, <3>2, <3>3
  <2> DEFINE map == given'
  <2>5. \A params : \A k \in Keys : get_query_param(params, k) = get_query_param(given, k) =>
              get_query_param(add_param(params, param), k) = get_query_param(map, k)
    BY <2>4
  <2> HIDE DEF map
  <2>6. \E query \in Seq(Char) : url' = Asking(query) /\ Means(query, map)
    BY <2>2, <2>3, <2>5, ExtendMeans
  <2> QED BY <1>1, <2>6 DEF map
<1>3. ASSUME NEW param \in Junk, PutJunk(param) PROVE UrlInv'
  <2>1. param \in Seq(Char) /\ ~Contains(param, Amp) /\ Keys \cap DOMAIN add_param(<<>>, param) = {}
    BY ParamAssumption
  <2>2. Extend(param) /\ given' = given
    BY <1>3 DEF PutJunk
  <2>3. ASSUME NEW params, NEW k \in Keys, get_query_param(params, k) = get_query_param(given, k)
        PROVE  get_query_param(add_param(params, param), k) = get_query_param(given, k)
    <3>1. CASE \A f : add_param(f, param) = f
      BY <2>3, <3>1
    <3>2. ASSUME NEW key \in Seq(Char), NEW value \in Seq(Char),
                 \A f : add_param(f, param) = Assign(f, key, value)
          PROVE  get_query_param(add_param(params, param), k) = get_query_param(given, k)
      <4>1. add_param(<<>>, param) = Assign(<<>>, key, value)
        BY <3>2
      <4>2. key \in DOMAIN Assign(<<>>, key, value)
        BY DEF Assign
      <4>3. k # key
        BY <2>1, <4>1, <4>2
      <4>4. get_query_param(Assign(params, key, value), k) = get_query_param(params, k)
        BY <4>3 DEF get_query_param, Assign
      <4> QED BY <2>3, <3>2, <4>4
    <3> QED BY <2>1, <3>1, <3>2, AddParamIs
  <2>4. \E query \in Seq(Char) : url' = Asking(query) /\ Means(query, given)
    BY <2>1, <2>2, <2>3, ExtendMeans
  <2> QED BY <1>1, <2>2, <2>4
<1>4. ASSUME NEW c \in Foreign, SetForeign(c) PROVE UrlInv'
  BY <1>0, <1>4 DEF SetForeign
<1>5. ASSUME Send PROVE UrlInv'
  BY <1>0, <1>5 DEF Send
<1>6. ASSUME Ku6 PROVE UrlInv'
  BY <1>0, <1>6 DEF Ku6
<1>7. ASSUME MappingAnswers PROVE UrlInv'
  BY <1>0, <1>7 DEF MappingAnswers
<1>8. ASSUME Receive PROVE UrlInv'
  BY <1>8 DEF Receive, UrlInv
<1>9. ASSUME Ku6Overflows PROVE UrlInv'
  BY <1>0, <1>9 DEF Ku6Overflows
<1>10. ASSUME GiveUp PROVE UrlInv'
  BY <1>10 DEF GiveUp, UrlInv
<1>11. CASE UNCHANGED vars
  BY <1>0, <1>11 DEF vars
<1> QED
  BY <1>2, <1>3, <1>4, <1>5, <1>6, <1>7, <1>8, <1>9, <1>10, <1>11 DEF Next

\* copy_uri: every parameter that a page has escaped is read as it was meant, the last one
\* of a key if there are several, for any keys without '=', any texts, and whatever else
\* stands between the '&' that names no key or cannot be decoded.
THEOREM ParamsAreAlwaysRead == Spec => []ParamsAreRead
<1>1. UrlInv => ParamsAreRead
  <2> SUFFICES ASSUME UrlInv, NEW key \in Keys
               PROVE  get_query_param(set_query_param(url), key) = get_query_param(given, key)
    BY DEF ParamsAreRead
  <2>1. CASE url = Path /\ given = <<>>
    BY <2>1, NotAsking
  <2>2. ASSUME NEW query \in Seq(Char), url = Asking(query), Means(query, given)
        PROVE  get_query_param(set_query_param(url), key) = get_query_param(given, key)
    BY <2>2, AskingIs DEF Means
  <2> QED BY <2>1, <2>2 DEF UrlInv
<1> QED
  BY <1>1, UrlInit, UrlStep, PTL DEF Spec

==============================================================================

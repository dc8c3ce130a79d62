--------------------------- MODULE SequenceLemmas ---------------------------
(***************************************************************************)
(* What the proofs need to know of numbers and sequences.  The library's   *)
(* induction theorems cannot be used, since their parameter is an          *)
(* operator; in their place LeastNat takes the set of the numbers for      *)
(* which a claim fails, and gives its least.                               *)
(***************************************************************************)
EXTENDS Kept, Integers, FiniteSetTheorems, SequenceTheorems, TLAPS

(* A set of naturals that is bounded and not empty has a least element:    *)
(* strict inclusion is well founded on the intervals that end in it.       *)
LEMMA LeastNat ==
    ASSUME NEW n \in Nat, NEW T, T \subseteq 1 .. n, T # {}
    PROVE  \E x \in T : \A y \in T : x <= y
  <1> DEFINE S == 1 .. n
             R == StrictSubsetOrdering(S)
             Upto == {1 .. x : x \in T}
  <1>1. IsFiniteSet(S)
    BY FS_Interval
  <1>2. IsWellFoundedOn(R, SUBSET S)
    <2>1. FiniteSubsetsOf(S) = SUBSET S
      BY <1>1, FS_FiniteSubsetsOfFinite
    <2>2. IsWellFoundedOn(StrictSubsetOrdering(S), FiniteSubsetsOf(S))
      BY FS_StrictSubsetOrderingWellFounded
    <2>3. QED BY <2>1, <2>2
  <1>3. Upto \subseteq SUBSET S /\ Upto # {}
    <2>1. \A x \in T : x \in Nat /\ x <= n
      OBVIOUS
    <2>2. \A x \in T : 1 .. x \subseteq S
      BY <2>1
    <2> HIDE DEF S
    <2>3. QED BY <2>2
  <1>4. PICK I \in Upto : \A J \in Upto : ~(<<J, I>> \in R)
    <2> HIDE DEF Upto, R, S
    <2> QED BY <1>2, <1>3, WFMin
  <1>5. PICK x \in T : I = 1 .. x
    BY <1>4
  <1>6. ASSUME NEW y \in T PROVE x <= y
    <2> SUFFICES ASSUME y < x PROVE FALSE
      OBVIOUS
    <2>1. 1 .. y \subseteq 1 .. x /\ 1 .. y # 1 .. x
      <3>1. x \in 1 .. x /\ x \notin 1 .. y
        OBVIOUS
      <3>2. QED BY <3>1
    <2>2. <<1 .. y, I>> \in R
      BY <2>1, <1>3, <1>5 DEF StrictSubsetOrdering
    <2>3. QED BY <2>2, <1>4
  <1>7. QED BY <1>6

(* Strong induction: P is the set of the numbers for which a claim holds.  *)
LEMMA StrongInduction ==
    ASSUME NEW n \in Nat, NEW P, \A k \in 0 .. n : 0 .. k - 1 \subseteq P => k \in P
    PROVE  \A k \in 0 .. n : k \in P
  <1> DEFINE bad == {k \in 1 .. n : k \notin P}
  <1>1. 0 \in P
    <2>1. 0 .. 0 - 1 \subseteq P /\ 0 \in 0 .. n
      OBVIOUS
    <2> QED  BY <2>1
  <1>2. bad = {}
    <2> SUFFICES ASSUME bad # {} PROVE FALSE
      OBVIOUS
    <2>1. PICK x \in bad : \A y \in bad : x <= y
      <3>1. bad \subseteq 1 .. n
        OBVIOUS
      <3> HIDE DEF bad
      <3> QED  BY <3>1, LeastNat
    <2>2. x \in 1 .. n /\ x \notin P
      OBVIOUS
    <2>3. ASSUME NEW y \in 0 .. x - 1 PROVE y \in P
      <3>1. CASE y = 0
        BY <1>1, <3>1
      <3>2. CASE y # 0
        <4>1. y \in 1 .. n /\ ~(x <= y)
          BY <2>2, <3>2
        <4> QED  BY <2>1, <4>1
      <3> QED  BY <3>1, <3>2
    <2>4. x \in 0 .. n
      BY <2>2
    <2> QED  BY <2>2, <2>3, <2>4
  <1>3. ASSUME NEW k \in 0 .. n PROVE k \in P
    <2>1. k = 0 \/ k \in 1 .. n
      OBVIOUS
    <2> QED  BY <1>1, <1>2, <2>1
  <1> QED  BY <1>3

(* Two functions that agree at a place when they agree at all before it.   *)
Alike(f, g, n) == \A k \in 0 .. n : (\A j \in 0 .. k - 1 : f[j] = g[j]) => f[k] = g[k]

(* They agree.                                                             *)
LEMMA SameUpTo ==
    ASSUME NEW n \in Nat, NEW f, NEW g, Alike(f, g, n)
    PROVE  f[n] = g[n]
  <1> DEFINE P == {k \in 0 .. n : f[k] = g[k]}
  <1>1. ASSUME NEW k \in 0 .. n, 0 .. k - 1 \subseteq P PROVE k \in P
    <2>1. \A j \in 0 .. k - 1 : f[j] = g[j]
      BY <1>1
    <2> QED  BY <2>1 DEF Alike
  <1>2. \A k \in 0 .. n : k \in P
    <2> HIDE DEF P
    <2> QED  BY <1>1, StrongInduction
  <1> QED  BY <1>2

(* A function of which the value at k is made by step from its value at an *)
(* earlier place, given by to.                                             *)
Solves(f, n, z, to, step) ==
    /\ f[0] = z
    /\ \A k \in 1 .. n : f[k] = step[k][f[to[k]]]

(* There is one, whatever set D the values are in.                         *)
LEMMA Recursion ==
    ASSUME NEW n \in Nat, NEW D, NEW z \in D,
           NEW to \in [1 .. n -> 0 .. n], \A k \in 1 .. n : to[k] < k,
           NEW step \in [1 .. n -> [D -> D]]
    PROVE  \E f \in [0 .. n -> D] : Solves(f, n, z, to, step)
  <1> DEFINE Has(m) == \E f \in [0 .. m -> D] : Solves(f, m, z, to, step)
             bad == {m \in 1 .. n : ~Has(m)}
  <1>1. Has(0)
    <2> DEFINE f == [k \in 0 .. 0 |-> z]
    <2>1. f \in [0 .. 0 -> D] /\ f[0] = z /\ 1 .. 0 = {}
      OBVIOUS
    <2> HIDE DEF f
    <2> QED  BY <2>1 DEF Solves
  <1>2. ASSUME NEW m \in 1 .. n, Has(m - 1) PROVE Has(m)
    <2>1. PICK f \in [0 .. m - 1 -> D] : Solves(f, m - 1, z, to, step)
      BY <1>2
    <2>2. to[m] \in 0 .. m - 1
      OBVIOUS
    <2>3. f[to[m]] \in D /\ step[m] \in [D -> D]
      BY <2>1, <2>2
    <2>4. PICK v \in D : v = step[m][f[to[m]]]
      BY <2>3
    <2> DEFINE g == [k \in 0 .. m |-> IF k = m THEN v ELSE f[k]]
    <2>5. g \in [0 .. m -> D]
      <3>1. \A k \in 0 .. m : k # m => k \in 0 .. m - 1
        OBVIOUS
      <3> QED  BY <2>1, <2>4, <3>1
    <2>6. g[m] = v /\ \A k \in 0 .. m - 1 : g[k] = f[k]
      <3>1. m \in 0 .. m /\ \A k \in 0 .. m - 1 : k \in 0 .. m /\ k # m
        OBVIOUS
      <3> QED  BY <3>1
    <2> HIDE DEF g
    <2>7. g[0] = z
      <3>1. 0 \in 0 .. m - 1
        OBVIOUS
      <3> QED  BY <2>1, <2>6, <3>1 DEF Solves
    <2>8. ASSUME NEW k \in 1 .. m PROVE g[k] = step[k][g[to[k]]]
      <3>1. CASE k = m
        BY <2>2, <2>4, <2>6, <3>1
      <3>2. CASE k # m
        <4>1. k \in 1 .. m - 1 /\ k \in 0 .. m - 1 /\ k \in 1 .. n
          BY <3>2
        <4>2. to[k] \in 0 .. n /\ to[k] < k
          BY <4>1
        <4>3. to[k] \in 0 .. m - 1
          BY <4>1, <4>2
        <4> QED  BY <2>1, <2>6, <4>1, <4>3 DEF Solves
      <3> QED  BY <3>1, <3>2
    <2>9. Solves(g, m, z, to, step)
      BY <2>7, <2>8 DEF Solves
    <2> QED  BY <2>5, <2>9
  <1>3. bad = {}
    <2> SUFFICES ASSUME bad # {} PROVE FALSE
      OBVIOUS
    <2>1. PICK x \in bad : \A y \in bad : x <= y
      <3>1. bad \subseteq 1 .. n
        OBVIOUS
      <3> HIDE DEF bad
      <3> QED  BY <3>1, LeastNat
    <2>2. x \in 1 .. n /\ ~Has(x)
      OBVIOUS
    <2>3. Has(x - 1)
      <3>1. CASE x = 1
        BY <1>1, <3>1
      <3>2. CASE x # 1
        <4>1. x - 1 \in 1 .. n /\ ~(x <= x - 1)
          BY <2>2, <3>2
        <4> QED  BY <2>1, <4>1
      <3> QED  BY <3>1, <3>2
    <2> HIDE DEF Has, bad
    <2> QED  BY <1>2, <2>2, <2>3
  <1>4. Has(n)
    <2>1. CASE n = 0
      BY <1>1, <2>1
    <2>2. CASE n # 0
      <3>1. n \in 1 .. n
        BY <2>2
      <3> QED  BY <1>3, <3>1
    <2> QED  BY <2>1, <2>2
  <1> QED  BY <1>4

-----------------------------------------------------------------------------
(* Quotient and remainder of a division, ...                               *)
LEMMA Division ==
    ASSUME NEW n \in Nat, NEW d \in Nat \ {0}
    PROVE  /\ n \div d \in Nat /\ n % d \in 0 .. d - 1
           /\ n = d * (n \div d) + (n % d)
  <1>1. n = d * (n \div d) + (n % d)
    OBVIOUS
  <1>2. n % d \in 0 .. d - 1
    OBVIOUS
  <1>3. PICK q \in Int : q = n \div d
    OBVIOUS
  <1>4. q < 0 => d * q + d <= 0
    <2> SUFFICES ASSUME q < 0 PROVE d * q + d <= 0
      OBVIOUS
    <2>1. PICK e \in Nat : q = -1 - e
      <3>1. -1 - q \in Nat /\ q = -1 - (-1 - q)
        OBVIOUS
      <3> QED  BY <3>1
    <2>2. d * q = -d - d * e
      BY <2>1
    <2>3. d * e \in Nat
      OBVIOUS
    <2> QED  BY <2>2, <2>3
  <1>5. PICK D \in Int : D = d * q
    OBVIOUS
  <1>6. n = D + (n % d)
    BY <1>1, <1>3, <1>5
  <1>7. ~(q < 0)
    BY <1>2, <1>4, <1>5, <1>6
  <1> QED  BY <1>1, <1>2, <1>3, <1>7

(* ... which are the only ones.                                            *)
LEMMA Quotient ==
    ASSUME NEW d \in Nat \ {0}, NEW p \in Nat, NEW q \in Nat,
           NEW r \in 0 .. d - 1, NEW s \in 0 .. d - 1, d * p + r = d * q + s
    PROVE  p = q /\ r = s
  <1>1. \A x \in Nat, y \in Nat : x < y => d * x + d <= d * y
    <2> TAKE x \in Nat, y \in Nat
    <2> HAVE x < y
    <2>1. PICK e \in Nat : y = (x + 1) + e
      <3>1. y - (x + 1) \in Nat /\ y = (x + 1) + (y - (x + 1))
        OBVIOUS
      <3> QED  BY <3>1
    <2>2. d * y = (d * x + d) + d * e
      BY <2>1
    <2>3. d * e \in Nat /\ d * x \in Nat
      OBVIOUS
    <2> QED  BY <2>2, <2>3
  <1>2. PICK P \in Nat, Q \in Nat : P = d * p /\ Q = d * q
    OBVIOUS
  <1>3. ~(p < q)
    <2>1. p < q => P + d <= Q
      BY <1>1, <1>2
    <2>2. P + r = Q + s
      BY <1>2
    <2> QED  BY <2>1, <2>2
  <1>4. ~(q < p)
    <2>1. q < p => Q + d <= P
      BY <1>1, <1>2
    <2>2. P + r = Q + s
      BY <1>2
    <2> QED  BY <2>1, <2>2
  <1>5. p = q
    BY <1>3, <1>4
  <1>6. P = Q /\ P + r = Q + s
    BY <1>2, <1>5
  <1> QED  BY <1>5, <1>6

(* Multiples do not count, ...                                             *)
LEMMA Multiples ==
    ASSUME NEW d \in Nat \ {0}, NEW x \in Nat, NEW k \in Nat
    PROVE  (d * k + x) % d = x % d
  <1>1. PICK p \in Nat, r \in 0 .. d - 1 : r = x % d /\ x = d * p + r
    BY Division
  <1>2. PICK n \in Nat : n = d * k + x
    OBVIOUS
  <1>3. PICK q \in Nat, s \in 0 .. d - 1 : s = n % d /\ n = d * q + s
    BY Division
  <1>4. n = d * (k + p) + r
    <2>1. d * (k + p) = d * k + d * p
      OBVIOUS
    <2>2. PICK K \in Nat, P \in Nat : K = d * k /\ P = d * p
      OBVIOUS
    <2> QED  BY <1>1, <1>2, <2>1, <2>2
  <1>5. k + p \in Nat
    OBVIOUS
  <1>6. r = s
    BY <1>3, <1>4, <1>5, Quotient
  <1> QED  BY <1>1, <1>2, <1>3, <1>6

(* One step of the evaluation of a numeral to base y, modulo d.            *)
Horner(x, y, c, d) == (x * y + c) % d

(* ... and a remainder may be taken at each step.                          *)
LEMMA HornerModulo ==
    ASSUME NEW d \in Nat \ {0}, NEW x \in Nat, NEW y \in Nat, NEW c \in Nat
    PROVE  Horner(x % d, y, c, d) = Horner(x, y, c, d)
  <1>1. PICK p \in Nat, r \in 0 .. d - 1 : r = x % d /\ x = d * p + r
    BY Division
  <1>2. PICK k \in Nat, z \in Nat : k = p * y /\ z = r * y + c
    OBVIOUS
  <1>3. x * y + c = d * k + z
    <2>1. x * y = (d * p) * y + r * y
      BY <1>1
    <2>2. (d * p) * y = d * (p * y)
      OBVIOUS
    <2>3. PICK A \in Nat, B \in Nat : A = d * k /\ B = r * y
      BY <1>2
    <2> QED  BY <1>2, <2>1, <2>2, <2>3
  <1>4. (d * k + z) % d = z % d
    BY Multiples
  <1>5. ((x % d) * y + c) % d = (x * y + c) % d
    BY <1>1, <1>2, <1>3, <1>4
  <1> QED  BY <1>5 DEF Horner

-----------------------------------------------------------------------------
(* The elements of a sequence with another before it.                      *)
LEMMA ConsElements ==
    ASSUME NEW S, NEW s \in Seq(S), NEW x \in S, NEW n \in Nat, n = Len(s)
    PROVE  /\ <<x>> \o s \in Seq(S) /\ Len(<<x>> \o s) = n + 1
           /\ (<<x>> \o s)[1] = x
           /\ \A k \in 1 .. n : (<<x>> \o s)[k + 1] = s[k]
  <1>1. PICK c \in Seq(S), m \in Nat : c = <<x>> /\ m = Len(c) /\ m = 1 /\ c[1] = x
    <2>1. <<x>> \in Seq(S) /\ Len(<<x>>) = 1 /\ <<x>>[1] = x
      OBVIOUS
    <2> QED  BY <2>1
  <1>2. /\ c \o s \in Seq(S) /\ Len(c \o s) = m + n
        /\ \A k \in 1 .. m + n : (c \o s)[k] = IF k <= m THEN c[k] ELSE s[k - m]
    BY <1>1, ConcatProperties
  <1>3. m + n = n + 1 /\ 1 \in 1 .. m + n /\ 1 <= m
        /\ \A k \in 1 .. n : k + 1 \in 1 .. m + n /\ ~(k + 1 <= m) /\ (k + 1) - m = k
    BY <1>1
  <1> QED  BY <1>1, <1>2, <1>3

-----------------------------------------------------------------------------
(* Sequences                                                               *)

(* A sequence is its head before its tail, ...                             *)
LEMMA HeadAndTail ==
    ASSUME NEW S, NEW s \in Seq(S), s # <<>>
    PROVE  s = <<Head(s)>> \o Tail(s)
  <1>1. PICK n \in Nat \ {0} : n = Len(s)
    BY EmptySeq
  <1>2. Head(s) \in S /\ Head(s) = s[1] /\ <<Head(s)>> \in Seq(S)
    BY HeadTailProperties
  <1>3. /\ Tail(s) \in Seq(S) /\ Len(Tail(s)) = n - 1
        /\ \A i \in 1 .. n - 1 : Tail(s)[i] = s[i + 1]
    BY <1>1, HeadTailProperties
  <1>4. Len(<<Head(s)>>) = 1 /\ <<Head(s)>>[1] = Head(s)
    OBVIOUS
  <1> DEFINE c == <<Head(s)>> \o Tail(s)
  <1>5. /\ c \in Seq(S) /\ Len(c) = 1 + (n - 1)
        /\ \A i \in 1 .. 1 + (n - 1) :
              c[i] = IF i <= 1 THEN <<Head(s)>>[i] ELSE Tail(s)[i - 1]
    BY <1>2, <1>3, <1>4, ConcatProperties
  <1> HIDE DEF c
  <1>6. 1 + (n - 1) = n
    BY <1>1
  <1>7. ASSUME NEW i \in 1 .. n PROVE s[i] = c[i]
    <2>1. CASE i = 1
      BY <1>2, <1>4, <1>5, <1>6, <2>1
    <2>2. CASE i # 1
      <3>1. i - 1 \in 1 .. n - 1 /\ (i - 1) + 1 = i /\ ~(i <= 1)
        BY <2>2
      <3> QED  BY <1>3, <1>5, <1>6, <3>1
    <2> QED  BY <2>1, <2>2
  <1>8. s = c
    BY <1>1, <1>5, <1>6, <1>7, SeqEqual
  <1> QED  BY <1>8 DEF c

(* ... and an element before a sequence is its head.                       *)
LEMMA HeadTailOfCons ==
    ASSUME NEW S, NEW x \in S, NEW u \in Seq(S)
    PROVE  /\ <<x>> \o u # <<>>
           /\ Head(<<x>> \o u) = x
           /\ Tail(<<x>> \o u) = u
  <1> DEFINE c == <<x>> \o u
  <1>1. PICK n \in Nat : n = Len(u)
    BY LenProperties
  <1>2. <<x>> \in Seq(S) /\ Len(<<x>>) = 1 /\ <<x>>[1] = x
    OBVIOUS
  <1>3. /\ c \in Seq(S) /\ Len(c) = 1 + n
        /\ \A i \in 1 .. 1 + n : c[i] = IF i <= 1 THEN <<x>>[i] ELSE u[i - 1]
    BY <1>1, <1>2, ConcatProperties
  <1> HIDE DEF c
  <1>4. c # <<>>
    BY <1>1, <1>3
  <1>5. Head(c) = x
    <2>1. 1 \in 1 .. 1 + n
      BY <1>1
    <2> QED  BY <1>2, <1>3, <1>4, <2>1
  <1>6. /\ Tail(c) \in Seq(S) /\ Len(Tail(c)) = n
        /\ \A i \in 1 .. n : Tail(c)[i] = c[i + 1]
    <2>1. (1 + n) - 1 = n
      BY <1>1
    <2> QED  BY <1>3, <1>4, <2>1, HeadTailProperties
  <1>7. ASSUME NEW i \in 1 .. n PROVE Tail(c)[i] = u[i]
    <2>1. i + 1 \in 1 .. 1 + n /\ ~(i + 1 <= 1) /\ (i + 1) - 1 = i
      BY <1>1
    <2> QED  BY <1>3, <1>6, <2>1
  <1>8. Tail(c) = u
    BY <1>1, <1>6, <1>7, SeqEqual
  <1> QED  BY <1>4, <1>5, <1>8 DEF c

-----------------------------------------------------------------------------
(* Kept                                                                    *)

(* F gives, for each of the first n elements of s, what is kept up to it.  *)
Keeping(F, s, T, n) ==
    /\ F[0] = <<>>
    /\ \A k \in 1 .. n : F[k] = IF s[k] \in T THEN Append(F[k - 1], s[k]) ELSE F[k - 1]

(* There is such a function, ...                                           *)
LEMMA KeepingExists ==
    ASSUME NEW S, NEW s \in Seq(S), NEW T
    PROVE  \E F \in [0 .. Len(s) -> Seq(S)] :
              Keeping(F, s, T, Len(s)) /\ \A k \in 0 .. Len(s) : Len(F[k]) <= k
  <1> DEFINE Has(n) == \E F \in [0 .. n -> Seq(S)] :
                           Keeping(F, s, T, n) /\ \A k \in 0 .. n : Len(F[k]) <= k
             bad == {n \in 1 .. Len(s) : ~Has(n)}
  <1>1. Len(s) \in Nat /\ \A k \in 1 .. Len(s) : s[k] \in S
    BY LenProperties, ElementOfSeq
  <1>2. Has(0)
    <2> DEFINE F == [k \in 0 .. 0 |-> <<>>]
    <2>1. <<>> \in Seq(S) /\ Len(<<>>) = 0
      OBVIOUS
    <2>2. F \in [0 .. 0 -> Seq(S)]
      BY <2>1
    <2>3. F[0] = <<>> /\ \A k \in 0 .. 0 : Len(F[k]) <= k
      BY <2>1
    <2>4. Keeping(F, s, T, 0)
      BY <2>3 DEF Keeping
    <2> QED  BY <2>2, <2>3, <2>4
  <1>3. ASSUME NEW n \in 1 .. Len(s), Has(n - 1) PROVE Has(n)
    <2>1. PICK F \in [0 .. n - 1 -> Seq(S)] :
              Keeping(F, s, T, n - 1) /\ \A k \in 0 .. n - 1 : Len(F[k]) <= k
      BY <1>3
    <2> DEFINE last == IF s[n] \in T THEN Append(F[n - 1], s[n]) ELSE F[n - 1]
               G == [k \in 0 .. n |-> IF k = n THEN last ELSE F[k]]
    <2>2. n - 1 \in 0 .. n - 1 /\ n \in Nat /\ s[n] \in S
      BY <1>1
    <2>3. F[n - 1] \in Seq(S) /\ Len(F[n - 1]) <= n - 1
      BY <2>1, <2>2
    <2>4. last \in Seq(S) /\ Len(last) <= n
      BY <2>2, <2>3, AppendProperties, LenProperties
    <2> HIDE DEF last
    <2>5. G \in [0 .. n -> Seq(S)] /\ \A k \in 0 .. n : Len(G[k]) <= k
      <3>1. ASSUME NEW k \in 0 .. n PROVE G[k] \in Seq(S) /\ Len(G[k]) <= k
        <4>1. CASE k = n
          BY <2>4, <4>1
        <4>2. CASE k # n
          <5>1. k \in 0 .. n - 1
            BY <2>2, <4>2
          <5> QED  BY <2>1, <4>2, <5>1
        <4> QED  BY <4>1, <4>2
      <3>2. G = [k \in 0 .. n |-> G[k]]
        OBVIOUS
      <3> HIDE DEF G
      <3> QED  BY <3>1, <3>2
    <2>6. Keeping(G, s, T, n)
      <3>1. G[0] = <<>>
        BY <2>1, <2>2 DEF Keeping
      <3>2. ASSUME NEW k \in 1 .. n
            PROVE  G[k] = IF s[k] \in T THEN Append(G[k - 1], s[k]) ELSE G[k - 1]
        <4>1. k - 1 \in 0 .. n /\ k - 1 # n
          BY <2>2
        <4>2. G[k - 1] = F[k - 1]
          BY <4>1
        <4>3. CASE k = n
          BY <4>2, <4>3 DEF last
        <4>4. CASE k # n
          <5>1. k \in 1 .. n - 1
            BY <2>2, <4>4
          <5>2. G[k] = F[k]
            BY <4>4
          <5> HIDE DEF G
          <5> QED  BY <2>1, <4>2, <5>1, <5>2 DEF Keeping
        <4> QED  BY <4>3, <4>4
      <3> QED  BY <3>1, <3>2 DEF Keeping
    <2> QED  BY <2>5, <2>6
  <1> HIDE DEF Has
  <1>4. bad = {}
    <2> SUFFICES ASSUME bad # {} PROVE FALSE
      OBVIOUS
    <2>1. PICK x \in bad : \A y \in bad : x <= y
      <3> HIDE DEF bad
      <3>1. bad \subseteq 1 .. Len(s)
        BY DEF bad
      <3> QED  BY <1>1, <3>1, LeastNat
    <2>2. x \in 1 .. Len(s) /\ ~Has(x)
      OBVIOUS
    <2>3. Has(x - 1)
      <3>1. CASE x = 1
        BY <1>2, <3>1
      <3>2. CASE x # 1
        <4>1. x - 1 \in 1 .. Len(s) /\ ~(x <= x - 1)
          BY <1>1, <2>2, <3>2
        <4> QED  BY <2>1, <4>1
      <3> QED  BY <3>1, <3>2
    <2> QED  BY <1>3, <2>2, <2>3
  <1>5. Has(Len(s))
    <2>1. CASE Len(s) = 0
      BY <1>2, <2>1
    <2>2. CASE Len(s) # 0
      <3>1. Len(s) \in 1 .. Len(s)
        BY <1>1, <2>2
      <3> QED  BY <1>4, <3>1
    <2> QED  BY <2>1, <2>2
  <1> QED  BY <1>5 DEF Has

(* ... and all such functions end the same.                                *)
LEMMA KeepingUnique ==
    ASSUME NEW s, NEW T, NEW n \in Nat, NEW F, NEW G, Keeping(F, s, T, n), Keeping(G, s, T, n)
    PROVE  F[n] = G[n]
  <1> DEFINE bad == {k \in 1 .. n : F[k] # G[k]}
  <1>1. bad = {}
    <2> SUFFICES ASSUME bad # {} PROVE FALSE
      OBVIOUS
    <2>1. PICK x \in bad : \A y \in bad : x <= y
      <3>1. bad \subseteq 1 .. n
        OBVIOUS
      <3> HIDE DEF bad
      <3> QED  BY <3>1, LeastNat
    <2>2. x \in 1 .. n /\ F[x] # G[x]
      OBVIOUS
    <2>3. F[x - 1] = G[x - 1]
      <3>1. CASE x = 1
        BY <3>1 DEF Keeping
      <3>2. CASE x # 1
        <4>1. x - 1 \in 1 .. n /\ ~(x <= x - 1)
          BY <2>2, <3>2
        <4> QED  BY <2>1, <4>1
      <3> QED  BY <3>1, <3>2
    <2> QED  BY <2>2, <2>3 DEF Keeping
  <1>2. CASE n = 0
    BY <1>2 DEF Keeping
  <1>3. CASE n # 0
    <2>1. n \in 1 .. n
      BY <1>3
    <2> QED  BY <1>1, <2>1
  <1> QED  BY <1>2, <1>3

(* What Kept is.                                                           *)
LEMMA KeptIs ==
    ASSUME NEW S, NEW s \in Seq(S), NEW T, NEW F, Keeping(F, s, T, Len(s))
    PROVE  Kept(s, T) = F[Len(s)] /\ Kept(s, T) \in Seq(S) /\ Len(Kept(s, T)) <= Len(s)
  <1> DEFINE Step(f) == [n \in 0 .. Len(s) |->
                           IF n = 0 THEN <<>>
                           ELSE IF s[n] \in T THEN Append(f[n - 1], s[n]) ELSE f[n - 1]]
             kept == CHOOSE f : f = Step(f)
  <1>1. Len(s) \in Nat
    BY LenProperties
  <1>2. PICK G \in [0 .. Len(s) -> Seq(S)] :
            Keeping(G, s, T, Len(s)) /\ \A k \in 0 .. Len(s) : Len(G[k]) <= k
    BY KeepingExists
  <1>3. G = Step(G)
    <2>1. ASSUME NEW n \in 0 .. Len(s)
          PROVE  G[n] = IF n = 0 THEN <<>>
                        ELSE IF s[n] \in T THEN Append(G[n - 1], s[n]) ELSE G[n - 1]
      <3>1. CASE n = 0
        BY <1>2, <3>1 DEF Keeping
      <3>2. CASE n # 0
        <4>1. n \in 1 .. Len(s)
          BY <1>1, <3>2
        <4> QED  BY <1>2, <3>2, <4>1 DEF Keeping
      <3> QED  BY <3>1, <3>2
    <2>2. G = [n \in 0 .. Len(s) |-> G[n]]
      OBVIOUS
    <2> QED  BY <2>1, <2>2
  <1>4. kept = Step(kept)
    <2> HIDE DEF Step
    <2> QED  BY <1>3
  <1>5. Keeping(kept, s, T, Len(s))
    <2> HIDE DEF kept
    <2>1. 0 \in 0 .. Len(s) /\ \A n \in 1 .. Len(s) : n \in 0 .. Len(s) /\ n # 0
      BY <1>1
    <2>2. \A n \in 0 .. Len(s) : kept[n] = IF n = 0 THEN <<>>
                 ELSE IF s[n] \in T THEN Append(kept[n - 1], s[n]) ELSE kept[n - 1]
      BY <1>4
    <2> QED  BY <2>1, <2>2 DEF Keeping
  <1>6. Kept(s, T) = kept[Len(s)]
    BY DEF Kept
  <1> HIDE DEF kept
  <1>7. Kept(s, T) = F[Len(s)] /\ Kept(s, T) = G[Len(s)]
    BY <1>1, <1>2, <1>5, <1>6, KeepingUnique
  <1>8. Len(s) \in 0 .. Len(s)
    BY <1>1
  <1> QED  BY <1>2, <1>7, <1>8

(* It is a sequence, and not longer.                                       *)
LEMMA KeptSeq ==
    ASSUME NEW S, NEW s \in Seq(S), NEW T
    PROVE  Kept(s, T) \in Seq(S) /\ Len(Kept(s, T)) <= Len(s)
  BY KeepingExists, KeptIs

(* What is kept of a sequence and of another behind it.                    *)
LEMMA KeptConcat ==
    ASSUME NEW S, NEW s \in Seq(S), NEW t \in Seq(S), NEW T
    PROVE  Kept(s \o t, T) = Kept(s, T) \o Kept(t, T)
  <1>1. PICK F \in [0 .. Len(s) -> Seq(S)] : Keeping(F, s, T, Len(s))
    BY KeepingExists
  <1>2. PICK G \in [0 .. Len(t) -> Seq(S)] : Keeping(G, t, T, Len(t))
    BY KeepingExists
  <1>3. Len(s) \in Nat /\ Len(t) \in Nat
    BY LenProperties
  <1>4. PICK m \in Nat, n \in Nat : m = Len(s) /\ n = Len(t)
    BY <1>3
  <1>5. /\ s \o t \in Seq(S)
        /\ Len(s \o t) = m + n
        /\ \A k \in 1 .. m + n : (s \o t)[k] = IF k <= m THEN s[k] ELSE t[k - m]
    BY <1>4, ConcatProperties
  <1>6. \A k \in 1 .. n : t[k] \in S
    BY <1>4, ElementOfSeq
  <1> DEFINE H == [k \in 0 .. m + n |-> IF k <= m THEN F[k] ELSE F[m] \o G[k - m]]
  <1>7. F[m] \in Seq(S) /\ \A k \in 0 .. n : G[k] \in Seq(S)
    <2>1. m \in 0 .. Len(s) /\ \A k \in 0 .. n : k \in 0 .. Len(t)
      BY <1>4
    <2> QED  BY <2>1
  <1>8. F[m] \o G[0] = F[m]
    BY <1>2, <1>7, ConcatEmptySeq DEF Keeping
  <1>9. \A k \in 0 .. m : k \in 0 .. m + n /\ H[k] = F[k]
    BY <1>4
  <1>10. \A k \in 0 .. n : m + k \in 0 .. m + n /\ H[m + k] = F[m] \o G[k]
    <2> TAKE k \in 0 .. n
    <2>1. m + k \in 0 .. m + n /\ (m + k) - m = k
      BY <1>4
    <2>2. CASE k = 0
      <3>1. m + k = m /\ m \in 0 .. m + n /\ m <= m
        BY <1>4, <2>2
      <3>2. H[m] = F[m]
        BY <3>1
      <3> HIDE DEF H
      <3> QED  BY <1>8, <2>1, <2>2, <3>1, <3>2
    <2>3. CASE k # 0
      <3>1. ~(m + k <= m)
        BY <1>4, <2>3
      <3> QED  BY <2>1, <3>1
    <2> QED  BY <2>2, <2>3
  <1> HIDE DEF H
  <1>11. Keeping(H, s \o t, T, m + n)
    <2>1. H[0] = <<>>
      <3>1. 0 \in 0 .. m
        BY <1>4
      <3> QED  BY <1>1, <1>9, <3>1 DEF Keeping
    <2>2. ASSUME NEW k \in 1 .. m + n
          PROVE  H[k] = IF (s \o t)[k] \in T THEN Append(H[k - 1], (s \o t)[k])
                        ELSE H[k - 1]
      <3>1. CASE k <= m
        <4>1. k \in 1 .. m /\ k \in 0 .. m /\ k - 1 \in 0 .. m
          BY <1>4, <3>1
        <4>2. H[k] = F[k] /\ H[k - 1] = F[k - 1] /\ (s \o t)[k] = s[k]
          BY <1>5, <1>9, <3>1, <4>1
        <4> QED  BY <1>1, <1>4, <4>1, <4>2 DEF Keeping
      <3>2. CASE ~(k <= m)
        <4>1. PICK j \in 1 .. n : j = k - m
          <5>1. \A i \in 1 .. m + n : ~(i <= m) => i - m \in 1 .. n
            OBVIOUS
          <5> QED  BY <5>1, <3>2
        <4>2. j \in 0 .. n /\ j - 1 \in 0 .. n /\ k = m + j /\ k - 1 = m + (j - 1)
          BY <1>4, <4>1
        <4>3. H[k] = F[m] \o G[j] /\ H[k - 1] = F[m] \o G[j - 1] /\ (s \o t)[k] = t[j]
          BY <1>5, <1>10, <3>2, <4>1, <4>2
        <4>4. G[j] = IF t[j] \in T THEN Append(G[j - 1], t[j]) ELSE G[j - 1]
          BY <1>2, <1>4 DEF Keeping
        <4>5. F[m] \o Append(G[j - 1], t[j]) = Append(F[m] \o G[j - 1], t[j])
          <5>1. t[j] \in S /\ G[j - 1] \in Seq(S) /\ <<t[j]>> \in Seq(S)
            BY <1>6, <1>7, <4>2
          <5>2. Append(G[j - 1], t[j]) = G[j - 1] \o <<t[j]>>
            BY <5>1, AppendIsConcat
          <5>3. F[m] \o G[j - 1] \in Seq(S)
            BY <1>7, <5>1, ConcatProperties
          <5>4. Append(F[m] \o G[j - 1], t[j]) = (F[m] \o G[j - 1]) \o <<t[j]>>
            BY <5>1, <5>3, AppendIsConcat
          <5>5. (F[m] \o G[j - 1]) \o <<t[j]>> = F[m] \o (G[j - 1] \o <<t[j]>>)
            <6>1. PICK a \in Seq(S), b \in Seq(S), c \in Seq(S) :
                      a = F[m] /\ b = G[j - 1] /\ c = <<t[j]>>
              BY <1>7, <5>1
            <6>2. (a \o b) \o c = a \o (b \o c)
              BY ConcatAssociative
            <6> QED  BY <6>1, <6>2
          <5> QED  BY <5>2, <5>4, <5>5
        <4> QED  BY <4>3, <4>4, <4>5
      <3> QED  BY <3>1, <3>2
    <2> QED  BY <2>1, <2>2 DEF Keeping
  <1>12. Kept(s \o t, T) = H[m + n]
    BY <1>5, <1>11, KeptIs
  <1>13. Kept(s, T) = F[m] /\ Kept(t, T) = G[n]
    BY <1>1, <1>2, <1>4, KeptIs
  <1>14. n \in 0 .. n
    BY <1>4
  <1> QED  BY <1>10, <1>12, <1>13, <1>14

(* What is kept of nothing, and of a single element.                       *)
LEMMA KeptEmpty ==
    ASSUME NEW T
    PROVE  Kept(<<>>, T) = <<>>
  <1> DEFINE F == [k \in 0 .. 0 |-> <<>>]
  <1>1. <<>> \in Seq({}) /\ Len(<<>>) = 0
    OBVIOUS
  <1>2. F[0] = <<>> /\ 1 .. 0 = {}
    OBVIOUS
  <1> HIDE DEF F
  <1>3. Keeping(F, <<>>, T, 0)
    BY <1>2 DEF Keeping
  <1> QED  BY <1>1, <1>2, <1>3, KeptIs

(* Of one element, itself or nothing is kept.                              *)
LEMMA KeptOne ==
    ASSUME NEW x, NEW T
    PROVE  Kept(<<x>>, T) = IF x \in T THEN <<x>> ELSE <<>>
  <1> DEFINE one == IF x \in T THEN Append(<<>>, x) ELSE <<>>
             F == [k \in 0 .. 1 |-> IF k = 0 THEN <<>> ELSE one]
  <1>1. <<x>> \in Seq({x}) /\ Len(<<x>>) = 1 /\ <<x>>[1] = x
    OBVIOUS
  <1>2. F[0] = <<>> /\ F[1] = one
    OBVIOUS
  <1>3. Append(<<>>, x) = <<x>>
    OBVIOUS
  <1>4. Keeping(F, <<x>>, T, 1)
    <2> HIDE DEF F
    <2>1. \A k \in 1 .. 1 : k = 1 /\ k - 1 = 0
      OBVIOUS
    <2> QED  BY <1>1, <1>2, <2>1 DEF Keeping
  <1> HIDE DEF F
  <1>5. Kept(<<x>>, T) = F[1]
    BY <1>1, <1>4, KeptIs
  <1> QED  BY <1>2, <1>3, <1>5

(* An element that is put behind a sequence is kept behind what was kept.  *)
LEMMA KeptAppend ==
    ASSUME NEW S, NEW s \in Seq(S), NEW x \in S, NEW T
    PROVE  Kept(Append(s, x), T) =
               IF x \in T THEN Append(Kept(s, T), x) ELSE Kept(s, T)
  <1>1. <<x>> \in Seq(S) /\ Append(s, x) = s \o <<x>>
    BY AppendIsConcat
  <1>2. Kept(Append(s, x), T) = Kept(s, T) \o (IF x \in T THEN <<x>> ELSE <<>>)
    <2>1. Kept(s \o <<x>>, T) = Kept(s, T) \o Kept(<<x>>, T)
      <3>1. PICK c \in Seq(S) : c = <<x>>
        BY <1>1
      <3>2. Kept(s \o c, T) = Kept(s, T) \o Kept(c, T)
        BY KeptConcat
      <3> QED  BY <3>1, <3>2
    <2>2. Kept(<<x>>, T) = IF x \in T THEN <<x>> ELSE <<>>
      BY KeptOne
    <2> QED  BY <1>1, <2>1, <2>2
  <1>3. Kept(s, T) \in Seq(S)
    BY KeepingExists, KeptIs
  <1>4. Append(Kept(s, T), x) = Kept(s, T) \o <<x>> /\ Kept(s, T) \o <<>> = Kept(s, T)
    BY <1>3, AppendIsConcat, ConcatEmptySeq
  <1> QED  BY <1>2, <1>4

(* The first element of a sequence, and what is kept behind it.            *)
LEMMA KeptTail ==
    ASSUME NEW S, NEW s \in Seq(S), s # <<>>, NEW T
    PROVE  Kept(s, T) = IF Head(s) \in T THEN <<Head(s)>> \o Kept(Tail(s), T)
                        ELSE Kept(Tail(s), T)
  <1>1. Head(s) \in S /\ Tail(s) \in Seq(S) /\ <<Head(s)>> \in Seq(S)
    BY HeadTailProperties
  <1>2. s = <<Head(s)>> \o Tail(s)
    BY HeadAndTail
  <1>3. Kept(s, T) = (IF Head(s) \in T THEN <<Head(s)>> ELSE <<>>) \o Kept(Tail(s), T)
    <2>1. PICK c \in Seq(S), u \in Seq(S) : c = <<Head(s)>> /\ u = Tail(s)
      BY <1>1
    <2>2. Kept(c \o u, T) = Kept(c, T) \o Kept(u, T)
      BY KeptConcat
    <2>3. Kept(<<Head(s)>>, T) = IF Head(s) \in T THEN <<Head(s)>> ELSE <<>>
      BY KeptOne
    <2>4. c \o u = s
      BY <1>2, <2>1
    <2>5. Kept(s, T) = Kept(<<Head(s)>>, T) \o Kept(Tail(s), T)
      BY <2>1, <2>2, <2>4
    <2> QED  BY <2>3, <2>5
  <1>4. Kept(Tail(s), T) \in Seq(S)
    BY <1>1, KeepingExists, KeptIs
  <1> QED  BY <1>3, <1>4, ConcatEmptySeq

(* Two sequences of the same length, with pairs of R at their places.      *)
Resembles(s, t, R) ==
    Len(s) = Len(t) /\ \A k \in 1 .. Len(s) : <<s[k], t[k]>> \in R

(* An element is in T when the one that it resembles is.                   *)
Faithful(R, S, T) == \A p, q \in S : <<p, q>> \in R => (p \in T <=> q \in T)

(* Sequences that resemble each other do so with one more element.         *)
LEMMA ResemblesAppend ==
    ASSUME NEW S, NEW s \in Seq(S), NEW t \in Seq(S), NEW p \in S, NEW q \in S, NEW R,
           Resembles(s, t, R), <<p, q>> \in R
    PROVE  Resembles(Append(s, p), Append(t, q), R)
  <1>1. PICK n \in Nat : n = Len(s) /\ n = Len(t)
    BY LenProperties DEF Resembles
  <1>2. /\ Len(Append(s, p)) = n + 1 /\ Len(Append(t, q)) = n + 1
        /\ \A k \in 1 .. n : Append(s, p)[k] = s[k] /\ Append(t, q)[k] = t[k]
        /\ Append(s, p)[n + 1] = p /\ Append(t, q)[n + 1] = q
    <2>1. /\ Len(Append(s, p)) = Len(s) + 1 /\ Append(s, p)[Len(s) + 1] = p
          /\ \A k \in 1 .. Len(s) : Append(s, p)[k] = s[k]
      BY AppendProperties
    <2>2. /\ Len(Append(t, q)) = Len(t) + 1 /\ Append(t, q)[Len(t) + 1] = q
          /\ \A k \in 1 .. Len(t) : Append(t, q)[k] = t[k]
      BY AppendProperties
    <2> QED  BY <1>1, <2>1, <2>2
  <1>3. \A k \in 1 .. n : <<s[k], t[k]>> \in R
    BY <1>1 DEF Resembles
  <1>4. \A k \in 1 .. n + 1 : k \in 1 .. n \/ k = n + 1
    BY <1>1
  <1> QED  BY <1>2, <1>3, <1>4 DEF Resembles

(* What is kept of them resembles each other.                              *)
LEMMA KeptResembles ==
    ASSUME NEW S, NEW s \in Seq(S), NEW t \in Seq(S), NEW T, NEW R,
           Resembles(s, t, R), Faithful(R, S, T)
    PROVE  Resembles(Kept(s, T), Kept(t, T), R)
  <1>1. PICK n \in Nat : n = Len(s) /\ n = Len(t)
    BY LenProperties DEF Resembles
  <1>2. PICK F \in [0 .. n -> Seq(S)] : Keeping(F, s, T, n)
    <2>1. \E f \in [0 .. Len(s) -> Seq(S)] : Keeping(f, s, T, Len(s))
      BY KeepingExists
    <2> QED  BY <1>1, <2>1
  <1>3. PICK G \in [0 .. n -> Seq(S)] : Keeping(G, t, T, n)
    <2>1. \E f \in [0 .. Len(t) -> Seq(S)] : Keeping(f, t, T, Len(t))
      BY KeepingExists
    <2> QED  BY <1>1, <2>1
  <1> DEFINE P == {k \in 0 .. n : Resembles(F[k], G[k], R)}
  <1>4. ASSUME NEW k \in 0 .. n, 0 .. k - 1 \subseteq P PROVE k \in P
    <2>1. CASE k = 0
      <3>1. F[k] = <<>> /\ G[k] = <<>>
        BY <1>2, <1>3, <2>1 DEF Keeping
      <3>2. Resembles(<<>>, <<>>, R)
        BY DEF Resembles
      <3> QED  BY <3>1, <3>2
    <2>2. CASE k # 0
      <3>1. k \in 1 .. n /\ k - 1 \in 0 .. k - 1 /\ k - 1 \in 0 .. n
        BY <2>2
      <3>2. Resembles(F[k - 1], G[k - 1], R)
        BY <1>4, <3>1
      <3>3. /\ F[k] = IF s[k] \in T THEN Append(F[k - 1], s[k]) ELSE F[k - 1]
            /\ G[k] = IF t[k] \in T THEN Append(G[k - 1], t[k]) ELSE G[k - 1]
        BY <1>2, <1>3, <3>1 DEF Keeping
      <3>4. s[k] \in S /\ t[k] \in S /\ <<s[k], t[k]>> \in R
        BY <1>1, <3>1, ElementOfSeq DEF Resembles
      <3>5. s[k] \in T <=> t[k] \in T
        BY <3>4 DEF Faithful
      <3>6. PICK u \in Seq(S), v \in Seq(S), p \in S, q \in S :
                u = F[k - 1] /\ v = G[k - 1] /\ p = s[k] /\ q = t[k]
        BY <1>2, <1>3, <3>1, <3>4
      <3>7. Resembles(u, v, R) /\ Resembles(Append(u, p), Append(v, q), R)
        BY <3>2, <3>4, <3>6, ResemblesAppend
      <3>8. Resembles(F[k], G[k], R)
        BY <3>3, <3>5, <3>6, <3>7
      <3> QED  BY <3>8
    <2> QED  BY <2>1, <2>2
  <1>5. n \in P
    <2>1. n \in 0 .. n
      BY <1>1
    <2> HIDE DEF P
    <2> QED  BY <1>4, <2>1, StrongInduction
  <1>6. Kept(s, T) = F[n] /\ Kept(t, T) = G[n]
    BY <1>1, <1>2, <1>3, KeptIs
  <1> QED  BY <1>5, <1>6
=============================================================================

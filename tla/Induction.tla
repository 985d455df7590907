------------------------------- MODULE Induction -------------------------------
(***************************************************************************)
(* Numbers and sequences: induction for sets of numbers, which the proofs  *)
(* about recursive functions rest on, what products and quotients are, and *)
(* the parts of a sequence.                                                *)
(***************************************************************************)
EXTENDS Integers, Sequences, FiniteSets, FiniteSetTheorems, SequenceTheorems,
        WellFoundedInduction, TLAPS

\* Every set of numbers that is not empty has a least one.
LEMMA LeastNumber ==
    ASSUME NEW T \in SUBSET Nat, T # {}
    PROVE  \E m \in T : \A k \in T : m <= k
  <1> DEFINE upTo == {0 .. m : m \in T}
  <1>1. upTo \subseteq FiniteSubsetsOf(Nat) /\ upTo # {}
    <2>1. \A m \in T : 0 .. m \in SUBSET Nat /\ IsFiniteSet(0 .. m)
      BY FS_Interval
    <2> QED
      BY <2>1 DEF FiniteSubsetsOf
  <1>2. PICK least \in upTo : \A s \in upTo : ~ (<<s, least>> \in StrictSubsetOrdering(Nat))
    <2> HIDE DEF upTo
    <2> QED
      BY <1>1, WFMin, FS_StrictSubsetOrderingWellFounded, Zenon
  <1>3. PICK m \in T : least = 0 .. m
    BY <1>2
  <1>4. ASSUME NEW k \in T, k < m PROVE FALSE
    <2>1. 0 .. k \in upTo /\ 0 .. k \subseteq 0 .. m /\ m \in 0 .. m /\ m \notin 0 .. k
      BY <1>4
    <2>2. <<0 .. k, 0 .. m>> \in StrictSubsetOrdering(Nat)
      BY <2>1, Z3 DEF StrictSubsetOrdering
    <2> QED
      BY <1>2, <1>3, <2>1, <2>2
  <1> QED
    BY <1>3, <1>4

\* What holds of 0 and of the successor of every number below n that it holds
\* of, holds up to n.
LEMMA UpTo ==
    ASSUME NEW n \in Nat, NEW P, 0 \in P, \A k \in 1 .. n : k - 1 \in P => k \in P
    PROVE  \A k \in 0 .. n : k \in P
  <1> SUFFICES ASSUME NEW j \in 0 .. n, j \notin P
               PROVE  FALSE
    OBVIOUS
  <1> DEFINE T == {k \in 0 .. n : k \notin P}
  <1>1. T \in SUBSET Nat /\ T # {}
    OBVIOUS
  <1>2. PICK m \in T : \A k \in T : m <= k
    <2> HIDE DEF T
    <2> QED
      BY <1>1, LeastNumber
  <1>3. m \in 1 .. n /\ m - 1 \notin T /\ m - 1 \in 0 .. n
    BY <1>2
  <1> QED
    BY <1>2, <1>3

\* A set of numbers up to n that is not empty has a greatest one.
LEMMA GreatestNumber ==
    ASSUME NEW n \in Nat, NEW T \in SUBSET (0 .. n), T # {}
    PROVE  \E m \in T : \A k \in T : k <= m
  <1> DEFINE U == {n - k : k \in T}
  <1>1. U \in SUBSET Nat /\ U # {}
    <2>1. \A k \in T : n - k \in Nat
      OBVIOUS
    <2>2. PICK k \in T : TRUE
      OBVIOUS
    <2>3. n - k \in U
      BY <2>2
    <2> QED
      BY <2>1, <2>3
  <1>2. PICK u \in U : \A k \in U : u <= k
    <2> HIDE DEF U
    <2> QED
      BY <1>1, LeastNumber
  <1>3. PICK m \in T : u = n - m
    BY <1>2
  <1>4. \A k \in T : n - m <= n - k
    BY <1>2, <1>3
  <1> QED
    BY <1>3, <1>4

\* How each of n values follows from the one before, and a sequence of values that
\* do.
Successors(T, n) == [1 .. n -> [T -> T]]
Chained(T, n, first, step) ==
    \E f \in [0 .. n -> T] : f[0] = first /\ \A k \in 1 .. n : f[k] = step[k][f[k - 1]]

\* A function of the numbers up to n given by its first value and by how each value
\* follows from the one before.
LEMMA Recursion ==
    ASSUME NEW T, NEW n \in Nat, NEW first \in T, NEW step \in Successors(T, n)
    PROVE  Chained(T, n, first, step)
  <1> USE DEF Successors
  <1> DEFINE Good(m) == \E f \in [0 .. m -> T] :
                           f[0] = first /\ \A k \in 1 .. m : f[k] = step[k][f[k - 1]]
  <1> DEFINE P == {m \in 0 .. n : Good(m)}
  <1>1. 0 \in P
    <2>1. PICK f : f = [k \in 0 .. 0 |-> first]
      OBVIOUS
    <2>2. f \in [0 .. 0 -> T] /\ f[0] = first
      BY <2>1
    <2>3. Good(0)
      BY <2>2
    <2> QED
      BY <2>3
  <1>2. ASSUME NEW m \in 1 .. n, m - 1 \in P PROVE m \in P
    <2>1. PICK f \in [0 .. m - 1 -> T] :
             f[0] = first /\ \A k \in 1 .. m - 1 : f[k] = step[k][f[k - 1]]
      BY <1>2
    <2>2. m - 1 \in 0 .. m - 1 /\ 0 \in 0 .. m - 1 /\ m # 0
      OBVIOUS
    <2>3. PICK last \in T : last = step[m][f[m - 1]]
      BY <2>1, <2>2
    <2>4. PICK g : g = [k \in 0 .. m |-> IF k = m THEN last ELSE f[k]]
      OBVIOUS
    <2>5. g \in [0 .. m -> T]
      <3>1. ASSUME NEW k \in 0 .. m PROVE (IF k = m THEN last ELSE f[k]) \in T
        <4>1. k = m \/ k \in 0 .. m - 1
          OBVIOUS
        <4> QED
          BY <2>1, <2>3, <4>1
      <3> QED
        BY <2>4, <3>1
    <2>6. g[0] = first
      BY <2>1, <2>2, <2>4
    <2>7. ASSUME NEW k \in 1 .. m PROVE g[k] = step[k][g[k - 1]]
      <3>1. k - 1 \in 0 .. m /\ k - 1 # m /\ k \in 0 .. m
        OBVIOUS
      <3>2. g[k - 1] = f[k - 1]
        BY <2>4, <3>1
      <3>3. CASE k = m
        BY <2>3, <2>4, <3>1, <3>2, <3>3
      <3>4. CASE k # m
        <4>1. k \in 1 .. m - 1
          BY <3>4
        <4> QED
          BY <2>1, <2>4, <3>1, <3>2, <3>4, <4>1
      <3> QED
        BY <3>3, <3>4
    <2>8. Good(m)
      BY <2>5, <2>6, <2>7
    <2>9. m \in 0 .. n
      OBVIOUS
    <2> HIDE DEF Good
    <2> QED
      BY <2>8, <2>9
  <1>3. \A m \in 0 .. n : m \in P
    <2> HIDE DEF P
    <2>1. \A m \in 1 .. n : m - 1 \in P => m \in P
      BY <1>2
    <2> QED
      BY <1>1, <2>1, UpTo
  <1>4. Good(n)
    BY <1>3
  <1> QED
    BY <1>4 DEF Chained

\* The same for all numbers.
Unending(T, first, step) ==
    \E f \in [Nat -> T] : f[0] = first /\ \A k \in Nat \ {0} : f[k] = step[k][f[k - 1]]

LEMMA UnendingRecursion ==
    ASSUME NEW T, NEW first \in T, NEW step \in [Nat \ {0} -> [T -> T]]
    PROVE  Unending(T, first, step)
  <1> DEFINE Is(n, f) == f \in [0 .. n -> T] /\ f[0] = first
                         /\ \A k \in 1 .. n : f[k] = step[k][f[k - 1]]
             upTo(n) == CHOOSE f : Is(n, f)
  <1>1. ASSUME NEW n \in Nat PROVE Is(n, upTo(n))
    <2>1. PICK next : next = [k \in 1 .. n |-> step[k]]
      OBVIOUS
    <2>2. next \in Successors(T, n)
      BY <2>1 DEF Successors
    <2>3. Chained(T, n, first, next)
      BY <2>2, Recursion
    <2>4. \E f : Is(n, f)
      BY <2>1, <2>3 DEF Chained
    <2> HIDE DEF Is
    <2> QED
      BY <2>4
  <1>2. ASSUME NEW n \in Nat, NEW m \in 0 .. n PROVE \A k \in 0 .. m : upTo(n)[k] = upTo(m)[k]
    <2> DEFINE P == {k \in 0 .. m : upTo(n)[k] = upTo(m)[k]}
    <2>1. Is(n, upTo(n)) /\ Is(m, upTo(m))
      <3> HIDE DEF Is, upTo
      <3>1. m \in Nat
        OBVIOUS
      <3> QED
        BY <1>1, <3>1
    <2> HIDE DEF upTo
    <2>2. 0 \in P
      BY <2>1
    <2>3. ASSUME NEW k \in 1 .. m, k - 1 \in P PROVE k \in P
      BY <2>1, <2>3
    <2>4. \A k \in 0 .. m : k \in P
      <3> HIDE DEF P
      <3> QED
        BY <2>2, <2>3, UpTo
    <2> QED
      BY <2>4
  <1> DEFINE f == [n \in Nat |-> upTo(n)[n]]
  <1>3. f \in [Nat -> T]
    <2>1. ASSUME NEW n \in Nat PROVE upTo(n)[n] \in T
      <3>1. Is(n, upTo(n))
        BY <1>1
      <3> HIDE DEF upTo
      <3> QED
        BY <3>1
    <2> HIDE DEF upTo
    <2> QED
      BY <2>1
  <1>4. f[0] = first
    <2>1. Is(0, upTo(0))
      BY <1>1
    <2> HIDE DEF upTo
    <2> QED
      BY <2>1
  <1>5. ASSUME NEW k \in Nat \ {0} PROVE f[k] = step[k][f[k - 1]]
    <2>1. Is(k, upTo(k))
      BY <1>1
    <2>2. upTo(k)[k - 1] = upTo(k - 1)[k - 1]
      <3> HIDE DEF upTo, f
      <3>1. k \in Nat /\ k - 1 \in 0 .. k /\ k - 1 \in 0 .. k - 1
        OBVIOUS
      <3> QED
        BY <1>2, <3>1
    <2>3. f[k] = upTo(k)[k] /\ f[k - 1] = upTo(k - 1)[k - 1]
      <3>1. k \in Nat /\ k - 1 \in Nat
        OBVIOUS
      <3> HIDE DEF upTo
      <3>2. \A n \in Nat : f[n] = upTo(n)[n]
        OBVIOUS
      <3> HIDE DEF f
      <3> QED
        BY <3>1, <3>2
    <2> HIDE DEF upTo, f
    <2> QED
      BY <2>1, <2>2, <2>3
  <1> HIDE DEF f
  <1> QED
    BY <1>3, <1>4, <1>5 DEF Unending

\* Values that follow from one another from the first place on.
Successive(T, n, first, step) ==
    \E f \in [1 .. n -> T] : f[1] = first /\ \A k \in 2 .. n : f[k] = step[k][f[k - 1]]

\* There is such a function of the numbers from 1 on.
LEMMA RecursionFromOne ==
    ASSUME NEW T, NEW n \in Nat \ {0}, NEW first \in T, NEW step \in [2 .. n -> [T -> T]]
    PROVE  Successive(T, n, first, step)
  <1>1. PICK m \in Nat : n = m + 1
    <2>1. n - 1 \in Nat /\ n = (n - 1) + 1
      OBVIOUS
    <2> QED
      BY <2>1
  <1>2. PICK after : after = [k \in 1 .. m |-> step[k + 1]]
    OBVIOUS
  <1>3. after \in Successors(T, m)
    <2>1. \A k \in 1 .. m : k + 1 \in 2 .. n
      BY <1>1
    <2> QED
      BY <1>2, <2>1 DEF Successors
  <1>4. Chained(T, m, first, after)
    BY <1>3, Recursion
  <1>5. PICK g \in [0 .. m -> T] : g[0] = first /\ \A k \in 1 .. m : g[k] = after[k][g[k - 1]]
    BY <1>4 DEF Chained
  <1>6. PICK f : f = [k \in 1 .. n |-> g[k - 1]]
    OBVIOUS
  <1>7. f \in [1 .. n -> T] /\ f[1] = first
    <2>1. \A k \in 1 .. n : k - 1 \in 0 .. m
      BY <1>1
    <2>2. 1 \in 1 .. n /\ 1 - 1 = 0
      OBVIOUS
    <2> QED
      BY <1>5, <1>6, <2>1, <2>2
  <1>8. ASSUME NEW k \in 2 .. n PROVE f[k] = step[k][f[k - 1]]
    <2>1. k - 1 \in 1 .. m /\ (k - 1) + 1 = k /\ k \in 1 .. n /\ k - 1 \in 1 .. n
      BY <1>1
    <2>2. g[k - 1] = after[k - 1][g[(k - 1) - 1]] /\ after[k - 1] = step[k]
      BY <1>2, <1>5, <2>1
    <2>3. f[k] = g[k - 1] /\ f[k - 1] = g[(k - 1) - 1]
      BY <1>6, <2>1
    <2> QED
      BY <2>2, <2>3
  <1> QED
    BY <1>7, <1>8 DEF Successive

\* Multiplying by a number keeps an order.
LEMMA Multiples ==
    ASSUME NEW w \in Nat, NEW a \in Nat, NEW b \in Nat, a <= b
    PROVE  w * a <= w * b /\ w * a \in Nat /\ w * b \in Nat
  <1>1. PICK d \in Nat : b = a + d
    <2>1. b - a \in Nat /\ b = a + (b - a)
      OBVIOUS
    <2> QED
      BY <2>1
  <1>2. w * b = w * a + w * d
    BY <1>1, SMT
  <1>3. w * a \in Nat /\ w * d \in Nat
    BY SMT
  <1> QED
    BY <1>2, <1>3

\* What division and remainder are.
LEMMA Divided ==
    ASSUME NEW p \in Nat \ {0}, NEW q \in Nat, NEW r \in Nat, r < p
    PROVE  (p * q + r) \div p = q /\ (p * q + r) % p = r
  <1>1. PICK a \in Nat : a = p * q + r
    <2>1. p * q \in Nat
      BY SMT
    <2> QED
      BY <2>1
  <1>2. PICK u \in Nat, v \in Nat : u = a \div p /\ v = a % p
    OBVIOUS
  <1>3. a = p * u + v /\ v < p
    BY <1>2, SMT
  <1>4. CASE u < q
    <2>1. p * (u + 1) <= p * q /\ p * q \in Nat
      BY <1>4, Multiples
    <2>2. p * (u + 1) = p * u + p /\ p * u \in Nat
      BY SMT
    <2> QED
      BY <1>1, <1>3, <2>1, <2>2
  <1>5. CASE q < u
    <2>1. p * (q + 1) <= p * u /\ p * u \in Nat
      BY <1>5, Multiples
    <2>2. p * (q + 1) = p * q + p /\ p * q \in Nat
      BY SMT
    <2> QED
      BY <1>1, <1>3, <2>1, <2>2
  <1>6. CASE u = q
    <2>1. p * u \in Nat
      BY SMT
    <2>2. p * u + v = p * u + r
      BY <1>1, <1>3, <1>6
    <2>3. v = r
      BY <2>1, <2>2
    <2> QED
      BY <1>1, <1>2, <1>6, <2>3
  <1> QED
    BY <1>4, <1>5, <1>6

\* Dividing twice.
LEMMA DividedTwice ==
    ASSUME NEW a \in Nat, NEW p \in Nat \ {0}, NEW s \in Nat \ {0}
    PROVE  /\ a \div (p * s) = (a \div s) \div p
           /\ a \div s \in Nat /\ p * s \in Nat \ {0}
  <1>1. PICK u \in Nat, v \in Nat : u = a \div s /\ v = a % s /\ a = s * u + v /\ v < s
    <2>1. a \div s \in Nat /\ a % s \in Nat /\ a = s * (a \div s) + (a % s) /\ a % s < s
      BY SMT
    <2> QED
      BY <2>1
  <1>2. PICK q \in Nat, r \in Nat : q = u \div p /\ r = u % p /\ u = p * q + r /\ r < p
    <2>1. u \div p \in Nat /\ u % p \in Nat /\ u = p * (u \div p) + (u % p) /\ u % p < p
      BY SMT
    <2> QED
      BY <2>1
  <1>3. PICK t \in Nat \ {0} : t = p * s
    <2>1. p * s \in Nat /\ p * s # 0
      BY SMT
    <2> QED
      BY <2>1
  <1>4. a = t * q + (s * r + v)
    <2>1. s * u = s * (p * q) + s * r
      BY <1>2, SMT
    <2>2. s * (p * q) = t * q
      BY <1>3, SMT
    <2>3. PICK x \in Nat, y \in Nat, z \in Nat : x = s * r /\ y = t * q /\ z = s * u
      <3>1. s * r \in Nat /\ t * q \in Nat /\ s * u \in Nat
        BY SMT
      <3> QED
        BY <3>1
    <2>4. z = y + x /\ a = z + v
      BY <1>1, <2>1, <2>2, <2>3
    <2>5. a = y + (x + v)
      BY <2>4
    <2> QED
      BY <2>3, <2>5
  <1>5. s * r + v \in Nat /\ s * r + v < t
    <2>1. s * (r + 1) <= s * p /\ s * r \in Nat
      <3>1. r + 1 \in Nat /\ p \in Nat /\ r + 1 <= p /\ s \in Nat
        BY <1>2
      <3>2. s * (r + 1) <= s * p
        BY <3>1, Multiples
      <3>3. s * r \in Nat
        BY SMT
      <3> QED
        BY <3>2, <3>3
    <2>2. s * (r + 1) = s * r + s /\ s * p = t
      BY <1>3, SMT
    <2> QED
      BY <1>1, <2>1, <2>2
  <1>6. a \div t = q
    <2>1. PICK w \in Nat : w = s * r + v /\ w < t
      BY <1>5
    <2>2. (t * q + w) \div t = q
      BY <2>1, Divided
    <2> QED
      BY <1>4, <2>1, <2>2
  <1> QED
    BY <1>1, <1>2, <1>3, <1>6

\* Shifting out seven bits.
LEMMA SevenLess ==
    ASSUME NEW k \in Nat
    PROVE  /\ k \div 128 \in Nat /\ k % 128 \in 0 .. 127
           /\ k = 128 * (k \div 128) + (k % 128)
           /\ k > 0 => k \div 128 < k
           /\ k >= 128 => k \div 128 > 0
  BY SMT

\* The first elements of a sequence.
LEMMA Firsts ==
    ASSUME NEW S, NEW s \in Seq(S), NEW k \in 0 .. Len(s)
    PROVE  /\ SubSeq(s, 1, k) \in Seq(S) /\ Len(SubSeq(s, 1, k)) = k
           /\ \A i \in 1 .. k : SubSeq(s, 1, k)[i] = s[i]
           /\ k # 0 => SubSeq(s, 1, k) = Append(SubSeq(s, 1, k - 1), s[k])
  <1>1. PICK n \in Nat : n = Len(s)
    BY LenProperties
  <1>2. \A i \in 1 .. n : s[i] \in S
    BY <1>1, ElementOfSeq
  <1>3. ASSUME NEW j \in 0 .. n
        PROVE  /\ SubSeq(s, 1, j) \in Seq(S) /\ Len(SubSeq(s, 1, j)) = j
               /\ \A i \in 1 .. j : SubSeq(s, 1, j)[i] = s[i]
    <2>1. 1 \in Int /\ j \in Int /\ \A i \in 1 .. j : s[i] \in S
      BY <1>2
    <2>2. /\ SubSeq(s, 1, j) \in Seq(S)
          /\ Len(SubSeq(s, 1, j)) = IF 1 <= j THEN j - 1 + 1 ELSE 0
          /\ \A i \in 1 .. j - 1 + 1 : SubSeq(s, 1, j)[i] = s[1 + i - 1]
      BY <2>1, SubSeqProperties
    <2>3. \A i \in 1 .. j : i \in 1 .. j - 1 + 1 /\ 1 + i - 1 = i
      OBVIOUS
    <2> QED
      BY <2>2, <2>3
  <1>4. CASE k # 0
    <2>1. k \in 0 .. n /\ k - 1 \in 0 .. n /\ (k - 1) + 1 = k /\ k \in 1 .. n
      BY <1>1, <1>4
    <2>2. PICK a \in Seq(S) : a = SubSeq(s, 1, k - 1) /\ Len(a) = k - 1
             /\ \A i \in 1 .. k - 1 : a[i] = s[i]
      BY <1>3, <2>1
    <2>3. PICK b \in Seq(S) : b = SubSeq(s, 1, k) /\ Len(b) = k
             /\ \A i \in 1 .. k : b[i] = s[i]
      BY <1>3, <2>1
    <2>4. PICK last \in S : last = s[k]
      BY <1>2, <2>1
    <2>5. /\ Append(a, last) \in Seq(S) /\ Len(Append(a, last)) = Len(a) + 1
          /\ \A i \in 1 .. Len(a) : Append(a, last)[i] = a[i]
          /\ Append(a, last)[Len(a) + 1] = last
      BY AppendProperties
    <2>6. PICK c \in Seq(S) : c = Append(a, last) /\ Len(c) = k
             /\ (\A i \in 1 .. k - 1 : c[i] = a[i]) /\ c[k] = last
      BY <2>1, <2>2, <2>5
    <2>7. ASSUME NEW i \in 1 .. k PROVE b[i] = c[i]
      <3>1. i = k \/ i \in 1 .. k - 1
        BY <2>1
      <3> QED
        BY <2>2, <2>3, <2>4, <2>6, <3>1
    <2>8. b = c
      BY <2>3, <2>6, <2>7, SeqEqual
    <2> QED
      BY <2>2, <2>3, <2>4, <2>6, <2>8
  <1> QED
    BY <1>1, <1>3, <1>4

\* A value in front of a sequence.
LEMMA OneInFront ==
    ASSUME NEW B, NEW x \in B, NEW s \in Seq(B)
    PROVE  /\ <<x>> \o s \in Seq(B)
           /\ Len(<<x>> \o s) = Len(s) + 1 /\ Len(s) \in Nat
           /\ (<<x>> \o s)[1] = x
           /\ \A i \in 1 .. Len(s) : (<<x>> \o s)[i + 1] = s[i]
  <1>1. PICK one : one = <<x>>
    OBVIOUS
  <1>2. one \in Seq(B) /\ Len(one) = 1 /\ one[1] = x
    BY <1>1
  <1>3. PICK n \in Nat : n = Len(s)
    BY LenProperties
  <1>4. PICK c : c = one \o s
    OBVIOUS
  <1>5. /\ c \in Seq(B) /\ Len(c) = 1 + n
        /\ \A i \in 1 .. 1 + n : c[i] = IF i <= 1 THEN one[i] ELSE s[i - 1]
    <2>1. one \o s \in Seq(B) /\ Len(one \o s) = Len(one) + Len(s)
      BY <1>2, ConcatProperties
    <2>2. \A i \in 1 .. Len(one) + Len(s) :
             (one \o s)[i] = IF i <= Len(one) THEN one[i] ELSE s[i - Len(one)]
      BY <1>2, ConcatProperties
    <2> QED
      BY <1>2, <1>3, <1>4, <2>1, <2>2
  <1>6. c[1] = x
    <2>1. 1 \in 1 .. 1 + n
      OBVIOUS
    <2> QED
      BY <1>2, <1>5, <2>1
  <1>7. \A i \in 1 .. n : c[i + 1] = s[i]
    <2> SUFFICES ASSUME NEW i \in 1 .. n PROVE c[i + 1] = s[i]
      OBVIOUS
    <2>1. i + 1 \in 1 .. 1 + n /\ ~(i + 1 <= 1) /\ (i + 1) - 1 = i
      OBVIOUS
    <2> QED
      BY <1>5, <2>1
  <1> QED
    BY <1>1, <1>3, <1>4, <1>5, <1>6, <1>7

\* Dividing and multiplying: which digits fit.
LEMMA DigitFits ==
    ASSUME NEW a \in Nat, NEW b \in Nat \ {0}, NEW d \in Nat
    PROVE  d > a \div b <=> d * b > a
  <1>1. PICK q \in Nat, r \in Nat : q = a \div b /\ r = a % b
    OBVIOUS
  <1>2. a = b * q + r /\ r < b
    BY <1>1, SMT
  <1>3. CASE d <= q
    <2>1. b * d <= b * q /\ b * q \in Nat /\ b * d \in Nat
      BY <1>3, Multiples
    <2>2. d * b = b * d
      BY SMT
    <2> QED
      BY <1>1, <1>2, <1>3, <2>1, <2>2
  <1>4. CASE d > q
    <2>1. b * (q + 1) <= b * d /\ b * d \in Nat
      BY <1>4, Multiples
    <2>2. d * b = b * d /\ b * (q + 1) = b * q + b /\ b * q \in Nat
      BY SMT
    <2> QED
      BY <1>1, <1>2, <1>4, <2>1, <2>2
  <1> QED
    BY <1>3, <1>4

\* A number below the divisor is what is left of it.
LEMMA NoMore ==
    ASSUME NEW a \in Nat, NEW b \in Nat \ {0}, a < b
    PROVE  a % b = a
  BY SMT

\* Two values and two values.
LEMMA PairAndPair ==
    ASSUME NEW B, NEW a \in B, NEW b \in B, NEW c \in B, NEW d \in B
    PROVE  <<a, b>> \o <<c, d>> = <<a, b, c, d>>
  <1>1. PICK s, t, u : s = <<a, b>> /\ t = <<c, d>> /\ u = s \o t
    OBVIOUS
  <1>2. s \in Seq(B) /\ Len(s) = 2 /\ t \in Seq(B) /\ Len(t) = 2
    BY <1>1
  <1>3. /\ u \in Seq(B) /\ Len(u) = Len(s) + Len(t)
        /\ \A k \in 1 .. Len(s) + Len(t) : u[k] = IF k <= Len(s) THEN s[k] ELSE t[k - Len(s)]
    BY <1>1, <1>2, ConcatProperties
  <1>4. Len(u) = 4 /\ \A k \in 1 .. 4 : u[k] = IF k <= 2 THEN s[k] ELSE t[k - 2]
    BY <1>2, <1>3
  <1>5. u[1] = s[1] /\ u[2] = s[2] /\ u[3] = t[1] /\ u[4] = t[2]
    BY <1>4
  <1>6. PICK v : v = <<a, b, c, d>>
    OBVIOUS
  <1>7. v \in Seq(B) /\ Len(v) = 4
    BY <1>6
  <1>8. u[1] = v[1] /\ u[2] = v[2] /\ u[3] = v[3] /\ u[4] = v[4]
    BY <1>1, <1>5, <1>6
  <1>9. \A k \in 1 .. 4 : u[k] = v[k]
    BY <1>8
  <1> QED
    BY <1>1, <1>3, <1>4, <1>6, <1>7, <1>9, SeqEqual

\* A part of the first bytes is a part of all.
LEMMA PartOfFirst ==
    ASSUME NEW S, NEW s \in Seq(S), NEW n \in 0 .. Len(s), NEW a \in Nat \ {0}, NEW e \in 0 .. n
    PROVE  SubSeq(SubSeq(s, 1, n), a, e) = SubSeq(s, a, e)
  <1>1. PICK N \in Nat : N = Len(s) /\ n <= N
    BY LenProperties
  <1>2. n \in Nat /\ e \in Nat /\ e <= n
    OBVIOUS
  <1>3. CASE e < a
    BY <1>2, <1>3, SubSeqEmpty
  <1>4. CASE ~(e < a)
    <2>1. 1 \in 1 .. Len(s) /\ n \in 1 .. Len(s)
      BY <1>1, <1>2, <1>4
    <2>2. a \in 1 .. n - 1 + 1 /\ e \in 1 .. n - 1 + 1
      BY <1>2, <1>4
    <2>3. SubSeq(SubSeq(s, 1, n), a, e) = SubSeq(s, 1 + a - 1, 1 + e - 1)
      BY <2>1, <2>2, SubSeqOfSubSeq
    <2>4. 1 + a - 1 = a /\ 1 + e - 1 = e
      BY <1>2
    <2> QED
      BY <2>3, <2>4
  <1> QED
    BY <1>3, <1>4
===============================================================================

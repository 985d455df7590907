------------------------------ MODULE Hpack_proofs -----------------------------
(***************************************************************************)
(* Theorems about Hpack: for every list of headers, every size of a field  *)
(* and every change of the table's size that the code allows, encoder and  *)
(* decoder keep in step, and what comes out is what went in.               *)
(***************************************************************************)
EXTENDS Hpack, SequenceTheorems, Induction

Tables == {t \in [entries: Seq(Fields), maxSize: Nat] : Total(t.entries) <= t.maxSize}
-------------------------------------------------------------------------------
(***************************************************************************)
(* The recursive functions exist.                                          *)
(***************************************************************************)

\* The sums of the sizes, one field after the other.
LEMMA SumsStep ==
    ASSUME NEW entries \in Seq(Fields)
    PROVE  /\ Sums(entries) \in [0 .. Len(entries) -> Nat]
           /\ Sums(entries)[0] = 0
           /\ \A k \in 1 .. Len(entries) :
                 Sums(entries)[k] = Sums(entries)[k - 1] + Size(entries[k])
  <1>0. PICK n \in Nat : n = Len(entries)
    OBVIOUS
  <1> DEFINE Rec(f, m) == f = [k \in 0 .. m |-> IF k = 0 THEN 0 ELSE f[k - 1] + Size(entries[k])]
             P == {m \in 0 .. n : \E f : Rec(f, m)}
  <1>1. 0 \in P
    <2>1. Rec([k \in 0 .. 0 |-> 0], 0)
      OBVIOUS
    <2>2. 0 \in 0 .. n
      BY <1>0
    <2> HIDE DEF Rec
    <2> QED
      BY <2>1, <2>2, Zenon
  <1>2. ASSUME NEW m \in 1 .. n, m - 1 \in P
        PROVE  m \in P
    <2>1. PICK f : Rec(f, m - 1)
      BY <1>2
    <2> DEFINE g == [k \in 0 .. m |-> IF k = m THEN f[m - 1] + Size(entries[m]) ELSE f[k]]
    <2>2. Rec(g, m)
      <3>1. \A k \in 0 .. m : g[k] = IF k = 0 THEN 0 ELSE g[k - 1] + Size(entries[k])
        BY <2>1
      <3>2. g = [k \in 0 .. m |-> g[k]]
        OBVIOUS
      <3> HIDE DEF g
      <3> QED
        BY <3>1, <3>2
    <2>3. m \in 0 .. n
      BY <1>0
    <2> HIDE DEF Rec
    <2> QED
      BY <2>2, <2>3, Zenon
  <1>3. n \in P
    <2>1. n \in 0 .. n
      BY <1>0
    <2> HIDE DEF P
    <2> QED
      BY <1>0, <1>1, <1>2, <2>1, UpTo
  <1>4. PICK f : Rec(f, n)
    BY <1>3
  <1>5. Sums(entries) = CHOOSE g : Rec(g, n)
    BY <1>0 DEF Sums
  <1>6. Rec(Sums(entries), n)
    <2> HIDE DEF Rec
    <2> QED
      BY <1>4, <1>5, Zenon
  <1> DEFINE Q == {k \in 0 .. n : Sums(entries)[k] \in Nat}
  <1>7. \A k \in 1 .. n : Sums(entries)[k] = Sums(entries)[k - 1] + Size(entries[k])
    BY <1>6
  <1>8. \A k \in 0 .. n : k \in Q
    <2>1. 0 \in Q
      BY <1>6
    <2>2. ASSUME NEW k \in 1 .. n, k - 1 \in Q PROVE k \in Q
      <3>1. entries[k] \in Fields
        BY <1>0
      <3>2. Size(entries[k]) \in Nat
        BY <3>1, HpackAssumption
      <3> QED
        BY <1>7, <2>2, <3>2
    <2> HIDE DEF Q
    <2> QED
      BY <2>1, <2>2, UpTo
  <1> QED
    BY <1>0, <1>6, <1>7, <1>8

\* A block is encoded one field after the other.
LEMMA EncodeStep ==
    ASSUME NEW t, NEW list, Len(list) \in Nat
    PROVE  /\ EncodeSteps(t, list)[0] = [block |-> <<>>, table |-> t]
           /\ \A k \in 1 .. Len(list) :
                 EncodeSteps(t, list)[k] = EncodeNext(EncodeSteps(t, list)[k - 1], list[k])
  <1>0. PICK n \in Nat : n = Len(list)
    OBVIOUS
  <1> DEFINE start == [block |-> <<>>, table |-> t]
  <1> DEFINE Rec(f, m) == f = [k \in 0 .. m |-> IF k = 0 THEN start
                                                ELSE EncodeNext(f[k - 1], list[k])]
             P == {m \in 0 .. n : \E f : Rec(f, m)}
  <1> HIDE DEF start
  <1>1. 0 \in P
    <2>1. Rec([k \in 0 .. 0 |-> start], 0)
      OBVIOUS
    <2>2. 0 \in 0 .. n
      BY <1>0
    <2> HIDE DEF Rec
    <2> QED
      BY <2>1, <2>2, Zenon
  <1>2. ASSUME NEW m \in 1 .. n, m - 1 \in P
        PROVE  m \in P
    <2>1. PICK f : Rec(f, m - 1)
      BY <1>2
    <2> DEFINE g == [k \in 0 .. m |-> IF k = m THEN EncodeNext(f[m - 1], list[m]) ELSE f[k]]
    <2>2. Rec(g, m)
      <3>1. \A k \in 0 .. m : g[k] = IF k = 0 THEN start
                                     ELSE EncodeNext(g[k - 1], list[k])
        BY <2>1
      <3>2. g = [k \in 0 .. m |-> g[k]]
        OBVIOUS
      <3> HIDE DEF g
      <3> QED
        BY <3>1, <3>2
    <2>3. m \in 0 .. n
      BY <1>0
    <2> HIDE DEF Rec
    <2> QED
      BY <2>2, <2>3, Zenon
  <1>3. n \in P
    <2>1. n \in 0 .. n
      BY <1>0
    <2> HIDE DEF P
    <2> QED
      BY <1>0, <1>1, <1>2, <2>1, UpTo
  <1>4. PICK f : Rec(f, n)
    BY <1>3
  <1>5. EncodeSteps(t, list) = CHOOSE g : Rec(g, n)
    BY <1>0 DEF EncodeSteps, start
  <1>6. Rec(EncodeSteps(t, list), n)
    <2> HIDE DEF Rec
    <2> QED
      BY <1>4, <1>5, Zenon
  <1>7. EncodeSteps(t, list)[0] = start
    BY <1>0, <1>6
  <1>8. \A k \in 1 .. n : EncodeSteps(t, list)[k] = EncodeNext(EncodeSteps(t, list)[k - 1], list[k])
    BY <1>6
  <1> QED
    BY <1>0, <1>7, <1>8 DEF start

\* A block is decoded one instruction after the other.
LEMMA DecodeStep ==
    ASSUME NEW t, NEW block, Len(block) \in Nat
    PROVE  /\ DecodeSteps(t, block)[0] = [ok |-> TRUE, list |-> <<>>, table |-> t]
           /\ \A k \in 1 .. Len(block) :
                 DecodeSteps(t, block)[k] = DecodeNext(DecodeSteps(t, block)[k - 1], block[k])
  <1>0. PICK n \in Nat : n = Len(block)
    OBVIOUS
  <1> DEFINE start == [ok |-> TRUE, list |-> <<>>, table |-> t]
  <1> DEFINE Rec(f, m) == f = [k \in 0 .. m |-> IF k = 0 THEN start
                                                ELSE DecodeNext(f[k - 1], block[k])]
             P == {m \in 0 .. n : \E f : Rec(f, m)}
  <1> HIDE DEF start
  <1>1. 0 \in P
    <2>1. Rec([k \in 0 .. 0 |-> start], 0)
      OBVIOUS
    <2>2. 0 \in 0 .. n
      BY <1>0
    <2> HIDE DEF Rec
    <2> QED
      BY <2>1, <2>2, Zenon
  <1>2. ASSUME NEW m \in 1 .. n, m - 1 \in P
        PROVE  m \in P
    <2>1. PICK f : Rec(f, m - 1)
      BY <1>2
    <2> DEFINE g == [k \in 0 .. m |-> IF k = m THEN DecodeNext(f[m - 1], block[m]) ELSE f[k]]
    <2>2. Rec(g, m)
      <3>1. \A k \in 0 .. m : g[k] = IF k = 0 THEN start
                                     ELSE DecodeNext(g[k - 1], block[k])
        BY <2>1
      <3>2. g = [k \in 0 .. m |-> g[k]]
        OBVIOUS
      <3> HIDE DEF g
      <3> QED
        BY <3>1, <3>2
    <2>3. m \in 0 .. n
      BY <1>0
    <2> HIDE DEF Rec
    <2> QED
      BY <2>2, <2>3, Zenon
  <1>3. n \in P
    <2>1. n \in 0 .. n
      BY <1>0
    <2> HIDE DEF P
    <2> QED
      BY <1>0, <1>1, <1>2, <2>1, UpTo
  <1>4. PICK f : Rec(f, n)
    BY <1>3
  <1>5. DecodeSteps(t, block) = CHOOSE g : Rec(g, n)
    BY <1>0 DEF DecodeSteps, start
  <1>6. Rec(DecodeSteps(t, block), n)
    <2> HIDE DEF Rec
    <2> QED
      BY <1>4, <1>5, Zenon
  <1>7. DecodeSteps(t, block)[0] = start
    BY <1>0, <1>6
  <1>8. \A k \in 1 .. n : DecodeSteps(t, block)[k] = DecodeNext(DecodeSteps(t, block)[k - 1], block[k])
    BY <1>6
  <1> QED
    BY <1>0, <1>7, <1>8 DEF start
-------------------------------------------------------------------------------
(***************************************************************************)
(* The dynamic table                                                       *)
(***************************************************************************)

\* One list of entries starts another.
LEMMA Prefix ==
    ASSUME NEW s \in Seq(Fields), NEW t \in Seq(Fields)
    PROVE  IsPrefix(s, t) <=> /\ Len(s) <= Len(t)
                              /\ \A i \in 1 .. Len(s) : s[i] = t[i]
  <1>1. CASE Len(s) <= Len(t)
    <2>1. /\ SubSeq(s, 1, Len(s)) \in Seq(Fields) /\ Len(SubSeq(s, 1, Len(s))) = Len(s)
          /\ \A i \in 1 .. Len(s) : SubSeq(s, 1, Len(s))[i] = s[i]
      OBVIOUS
    <2>2. /\ SubSeq(t, 1, Len(s)) \in Seq(Fields) /\ Len(SubSeq(t, 1, Len(s))) = Len(s)
          /\ \A i \in 1 .. Len(s) : SubSeq(t, 1, Len(s))[i] = t[i]
      BY <1>1
    <2>3. SubSeq(s, 1, Len(s)) = SubSeq(t, 1, Len(s)) <=> \A i \in 1 .. Len(s) : s[i] = t[i]
      <3>1. ASSUME \A i \in 1 .. Len(s) : s[i] = t[i]
            PROVE  SubSeq(s, 1, Len(s)) = SubSeq(t, 1, Len(s))
        BY <2>1, <2>2, <3>1, SeqEqual
      <3> QED
        BY <2>1, <2>2, <3>1
    <2> QED
      BY <1>1, <2>3 DEF IsPrefix
  <1>2. CASE ~ (Len(s) <= Len(t))
    BY <1>2 DEF IsPrefix
  <1> QED
    BY <1>1, <1>2

\* The newest entries of a list.
LEMMA NewestEntries ==
    ASSUME NEW e \in Seq(Fields), NEW k \in 0 .. Len(e)
    PROVE  /\ SubSeq(e, 1, k) \in Seq(Fields)
           /\ Len(SubSeq(e, 1, k)) = k
           /\ \A i \in 1 .. k : SubSeq(e, 1, k)[i] = e[i]
  OBVIOUS

\* Lists that start alike have the same sums.
LEMMA SumsOfPrefix ==
    ASSUME NEW a \in Seq(Fields), NEW b \in Seq(Fields), IsPrefix(a, b)
    PROVE  \A k \in 0 .. Len(a) : Sums(a)[k] = Sums(b)[k]
  <1>0. PICK n \in Nat : n = Len(a)
    OBVIOUS
  <1>1. n <= Len(b) /\ Len(b) \in Nat /\ \A i \in 1 .. n : a[i] = b[i]
    BY <1>0, Prefix
  <1>2. /\ Sums(a)[0] = 0 /\ Sums(b)[0] = 0
        /\ \A k \in 1 .. n : /\ Sums(a)[k] = Sums(a)[k - 1] + Size(a[k])
                             /\ Sums(b)[k] = Sums(b)[k - 1] + Size(b[k])
    <2>1. \A k \in 1 .. n : k \in 1 .. Len(b)
      BY <1>1
    <2> QED
      BY <1>0, <2>1, SumsStep
  <1> DEFINE P == {k \in 0 .. n : Sums(a)[k] = Sums(b)[k]}
  <1>3. 0 \in P
    BY <1>0, <1>2
  <1>4. ASSUME NEW k \in 1 .. n, k - 1 \in P PROVE k \in P
    BY <1>1, <1>2, <1>4
  <1>5. \A k \in 0 .. n : k \in P
    <2> HIDE DEF P
    <2> QED
      BY <1>0, <1>3, <1>4, UpTo
  <1> QED
    BY <1>0, <1>5

\* What fits is a number of the newest entries, as many as the limit takes.
LEMMA FitFacts ==
    ASSUME NEW e \in Seq(Fields), NEW limit \in Nat
    PROVE  \E k \in 0 .. Len(e) :
              /\ Fit(e, limit) = SubSeq(e, 1, k)
              /\ Sums(e)[k] <= limit
              /\ \A j \in 0 .. Len(e) : Sums(e)[j] <= limit => j <= k
  <1>0. PICK n \in Nat : n = Len(e)
    OBVIOUS
  <1> DEFINE kept == {k \in 0 .. n : Sums(e)[k] <= limit}
             most == CHOOSE k \in kept : \A j \in kept : j <= k
  <1>1. kept \in SUBSET (0 .. n) /\ kept # {}
    <2>1. Sums(e)[0] = 0 /\ 0 \in 0 .. n
      BY <1>0, SumsStep
    <2>2. 0 \in kept
      BY <2>1
    <2> QED
      BY <2>2
  <1>2. Fit(e, limit) = SubSeq(e, 1, most)
    BY <1>0 DEF Fit
  <1>3. most \in kept /\ \A j \in kept : j <= most
    <2> HIDE DEF kept
    <2>1. \E k \in kept : \A j \in kept : j <= k
      BY <1>0, <1>1, GreatestNumber
    <2> QED
      BY <2>1, Zenon
  <1> HIDE DEF most
  <1> QED
    BY <1>0, <1>2, <1>3

\* What fits starts the list, and fits.
LEMMA FitFits ==
    ASSUME NEW e \in Seq(Fields), NEW limit \in Nat
    PROVE  /\ Fit(e, limit) \in Seq(Fields)
           /\ IsPrefix(Fit(e, limit), e)
           /\ Total(Fit(e, limit)) <= limit
           /\ Total(Fit(e, limit)) \in Nat
  <1>1. PICK k \in 0 .. Len(e) : Fit(e, limit) = SubSeq(e, 1, k) /\ Sums(e)[k] <= limit
    BY FitFacts
  <1>2. /\ Fit(e, limit) \in Seq(Fields) /\ Len(Fit(e, limit)) = k
        /\ \A i \in 1 .. k : Fit(e, limit)[i] = e[i]
    BY <1>1, NewestEntries
  <1>3. k <= Len(e) /\ k \in Nat
    OBVIOUS
  <1>4. IsPrefix(Fit(e, limit), e)
    BY <1>2, <1>3, Prefix
  <1>5. Total(Fit(e, limit)) = Sums(e)[k] /\ Sums(e)[k] \in Nat
    <2>1. Sums(Fit(e, limit))[k] = Sums(e)[k]
      BY <1>2, <1>3, <1>4, SumsOfPrefix
    <2> QED
      BY <1>2, <2>1, SumsStep DEF Total
  <1> QED
    BY <1>1, <1>2, <1>4, <1>5

\* Of the longer list as many entries fit a limit that is no smaller.
LEMMA FitPrefix ==
    ASSUME NEW a \in Seq(Fields), NEW b \in Seq(Fields), IsPrefix(a, b),
           NEW la \in Nat, NEW lb \in Nat, la <= lb
    PROVE  IsPrefix(Fit(a, la), Fit(b, lb))
  <1>1. PICK k \in 0 .. Len(a) : Fit(a, la) = SubSeq(a, 1, k) /\ Sums(a)[k] <= la
    BY FitFacts
  <1>2. PICK m \in 0 .. Len(b) : /\ Fit(b, lb) = SubSeq(b, 1, m)
                                 /\ \A j \in 0 .. Len(b) : Sums(b)[j] <= lb => j <= m
    BY FitFacts
  <1>3. Len(a) <= Len(b) /\ Len(a) \in Nat /\ Len(b) \in Nat /\ \A i \in 1 .. Len(a) : a[i] = b[i]
    BY Prefix
  <1>4. Sums(b)[k] <= lb /\ k \in 0 .. Len(b)
    <2>1. Sums(a)[k] = Sums(b)[k] /\ Sums(a)[k] \in Nat
      BY SumsOfPrefix, SumsStep
    <2> QED
      BY <1>1, <1>3, <2>1
  <1>5. k <= m
    BY <1>2, <1>4
  <1>6. /\ Fit(a, la) \in Seq(Fields) /\ Len(Fit(a, la)) = k
        /\ Fit(b, lb) \in Seq(Fields) /\ Len(Fit(b, lb)) = m
        /\ \A i \in 1 .. k : Fit(a, la)[i] = a[i]
        /\ \A i \in 1 .. m : Fit(b, lb)[i] = b[i]
    BY <1>1, <1>2, NewestEntries
  <1>7. \A i \in 1 .. k : Fit(a, la)[i] = Fit(b, lb)[i]
    BY <1>3, <1>5, <1>6
  <1> QED
    BY <1>5, <1>6, <1>7, Prefix

\* An entry in front adds its size.
LEMMA FrontAdds ==
    ASSUME NEW f \in Fields, NEW e \in Seq(Fields)
    PROVE  /\ <<f>> \o e \in Seq(Fields)
           /\ Len(<<f>> \o e) = Len(e) + 1
           /\ (<<f>> \o e)[1] = f
           /\ \A i \in 1 .. Len(e) : (<<f>> \o e)[i + 1] = e[i]
           /\ Total(<<f>> \o e) = Size(f) + Total(e)
           /\ Total(e) \in Nat
  <1>0. PICK n \in Nat : n = Len(e)
    OBVIOUS
  <1>1. PICK w : w = <<f>> \o e
    OBVIOUS
  <1>2. /\ w \in Seq(Fields) /\ Len(w) = n + 1 /\ w[1] = f
        /\ \A i \in 1 .. n : w[i + 1] = e[i]
    BY <1>0, <1>1
  <1>3. /\ Sums(w)[0] = 0 /\ Sums(e)[0] = 0
        /\ \A k \in 1 .. n + 1 : Sums(w)[k] = Sums(w)[k - 1] + Size(w[k])
        /\ \A k \in 1 .. n : Sums(e)[k] = Sums(e)[k - 1] + Size(e[k])
        /\ \A k \in 0 .. n : Sums(e)[k] \in Nat
    <2>1. \A s \in Seq(Fields) : /\ Sums(s) \in [0 .. Len(s) -> Nat] /\ Sums(s)[0] = 0
                                 /\ \A k \in 1 .. Len(s) : Sums(s)[k] = Sums(s)[k - 1] + Size(s[k])
      BY SumsStep
    <2> QED
      BY <1>0, <1>2, <2>1
  <1>4. Size(f) \in Nat /\ \A i \in 1 .. n : Size(e[i]) \in Nat
    BY <1>0, HpackAssumption
  <1> DEFINE P == {k \in 0 .. n : Sums(w)[k + 1] = Size(f) + Sums(e)[k]}
  <1>5. 0 \in P
    <2>1. Sums(w)[1] = Sums(w)[1 - 1] + Size(w[1])
      BY <1>3
    <2> QED
      BY <1>2, <1>3, <1>4, <2>1
  <1>6. ASSUME NEW k \in 1 .. n, k - 1 \in P PROVE k \in P
    <2>1. Sums(w)[k + 1] = Sums(w)[k] + Size(w[k + 1]) /\ (k - 1) + 1 = k
      <3>1. k + 1 \in 1 .. n + 1 /\ (k + 1) - 1 = k
        OBVIOUS
      <3> QED
        BY <1>3, <3>1
    <2>2. Sums(w)[k] = Size(f) + Sums(e)[k - 1] /\ Sums(e)[k - 1] \in Nat /\ k - 1 \in 0 .. n
      BY <1>3, <1>6, <2>1
    <2>3. Sums(w)[k + 1] = Size(f) + Sums(e)[k]
      <3>1. /\ Sums(e)[k] = Sums(e)[k - 1] + Size(e[k]) /\ w[k + 1] = e[k]
            /\ Size(e[k]) \in Nat /\ Size(f) \in Nat
        BY <1>2, <1>3, <1>4
      <3>2. Sums(w)[k + 1] = (Size(f) + Sums(e)[k - 1]) + Size(e[k])
        BY <2>1, <2>2, <3>1
      <3> QED
        BY <2>2, <3>1, <3>2
    <2> QED
      BY <2>3
  <1>7. n \in P
    <2>1. n \in 0 .. n
      BY <1>0
    <2> HIDE DEF P
    <2> QED
      BY <1>0, <1>5, <1>6, <2>1, UpTo
  <1>8. Total(w) = Size(f) + Total(e) /\ Total(e) \in Nat
    BY <1>0, <1>2, <1>3, <1>7 DEF Total
  <1> QED
    BY <1>0, <1>1, <1>2, <1>8

\* The decoder's table starts with the encoder's entries, and has the room.
InStep(e, d) == IsPrefix(e.entries, d.entries) /\ e.maxSize <= d.maxSize

\* No entries are of no size.
LEMMA NoEntries == <<>> \in Seq(Fields) /\ Len(<<>>) = 0 /\ Total(<<>>) = 0
  <1>1. <<>> \in Seq(Fields) /\ Len(<<>>) = 0
    OBVIOUS
  <1> QED
    BY <1>1, SumsStep DEF Total

\* A table is made empty.
LEMMA EmptyIsTable == EmptyTable \in Tables
  BY NoEntries, HpackAssumption DEF Tables, EmptyTable

\* insert keeps the size of the table and does not exceed it.
LEMMA InsertedIsTable ==
    ASSUME NEW t \in Tables, NEW f \in Fields
    PROVE  Inserted(t, f) \in Tables /\ Inserted(t, f).maxSize = t.maxSize
  <1>1. /\ t.entries \in Seq(Fields) /\ t.maxSize \in Nat /\ Size(f) \in Nat
        /\ t = [entries |-> t.entries, maxSize |-> t.maxSize]
    BY HpackAssumption DEF Tables
  <1>2. CASE Size(f) > t.maxSize
    <2>1. Inserted(t, f) = [entries |-> <<>>, maxSize |-> t.maxSize]
      BY <1>1, <1>2 DEF Inserted
    <2> QED
      BY <1>1, <2>1, NoEntries DEF Tables
  <1>3. CASE ~ (Size(f) > t.maxSize)
    <2>1. PICK kept : kept = Fit(t.entries, t.maxSize - Size(f))
      OBVIOUS
    <2>2. t.maxSize - Size(f) \in Nat
      BY <1>1, <1>3
    <2>3. kept \in Seq(Fields) /\ Total(kept) <= t.maxSize - Size(f)
      BY <1>1, <2>1, <2>2, FitFits
    <2>4. PICK w : w = <<f>> \o kept
      OBVIOUS
    <2>5. w \in Seq(Fields) /\ Total(w) = Size(f) + Total(kept) /\ Total(kept) \in Nat
      BY <2>3, <2>4, FrontAdds
    <2>6. Inserted(t, f) = [t EXCEPT !.entries = w]
      BY <1>3, <2>1, <2>4 DEF Inserted
    <2>7. Inserted(t, f) = [entries |-> w, maxSize |-> t.maxSize]
      BY <1>1, <2>6
    <2>8. Total(w) <= t.maxSize
      BY <1>1, <2>3, <2>5
    <2> QED
      BY <1>1, <2>5, <2>7, <2>8 DEF Tables
  <1> QED
    BY <1>2, <1>3

\* set_max_size does not leave more than the table's new size.
LEMMA ResizedIsTable ==
    ASSUME NEW t \in Tables, NEW size \in Nat
    PROVE  Resized(t, size) \in Tables /\ Resized(t, size).maxSize = size
           /\ IsPrefix(Resized(t, size).entries, t.entries)
  <1>1. t.entries \in Seq(Fields)
    BY DEF Tables
  <1> QED
    BY <1>1, FitFits DEF Resized, Tables

\* Tables in step stay so when both insert a field: what the larger one keeps
\* of the field and the entries starts with what the smaller one keeps.
LEMMA InsertedInStep ==
    ASSUME NEW e \in Tables, NEW d \in Tables, NEW f \in Fields, InStep(e, d)
    PROVE  InStep(Inserted(e, f), Inserted(d, f))
  <1>1. /\ e.entries \in Seq(Fields) /\ e.maxSize \in Nat
        /\ d.entries \in Seq(Fields) /\ d.maxSize \in Nat
        /\ Size(f) \in Nat /\ e.maxSize <= d.maxSize /\ IsPrefix(e.entries, d.entries)
    BY HpackAssumption DEF Tables, InStep
  <1>2. /\ Inserted(e, f).maxSize = e.maxSize /\ Inserted(d, f).maxSize = d.maxSize
        /\ Inserted(e, f) \in Tables /\ Inserted(d, f) \in Tables
    BY InsertedIsTable
  <1>3. Inserted(e, f).entries \in Seq(Fields) /\ Inserted(d, f).entries \in Seq(Fields)
    BY <1>2 DEF Tables
  <1>4. CASE Size(f) > e.maxSize
    <2>1. Inserted(e, f).entries = <<>>
      BY <1>4 DEF Inserted, Tables
    <2>2. IsPrefix(<<>>, Inserted(d, f).entries)
      <3>1. PICK s, w : s = <<>> /\ w = Inserted(d, f).entries
        OBVIOUS
      <3>2. s \in Seq(Fields) /\ Len(s) = 0 /\ w \in Seq(Fields)
        BY <1>3, <3>1, NoEntries
      <3>3. Len(s) <= Len(w) /\ \A i \in 1 .. Len(s) : s[i] = w[i]
        BY <3>2
      <3>4. IsPrefix(s, w)
        BY <3>2, <3>3, Prefix
      <3> QED
        BY <3>1, <3>4
    <2> QED
      BY <1>1, <1>2, <2>1, <2>2 DEF InStep
  <1>5. CASE ~ (Size(f) > e.maxSize)
    <2>1. PICK a, b : /\ a = Fit(e.entries, e.maxSize - Size(f))
                      /\ b = Fit(d.entries, d.maxSize - Size(f))
      OBVIOUS
    <2>2. /\ e.maxSize - Size(f) \in Nat /\ d.maxSize - Size(f) \in Nat
          /\ e.maxSize - Size(f) <= d.maxSize - Size(f) /\ ~ (Size(f) > d.maxSize)
      BY <1>1, <1>5
    <2>3. a \in Seq(Fields) /\ b \in Seq(Fields) /\ IsPrefix(a, b)
      BY <1>1, <2>1, <2>2, FitFits, FitPrefix
    <2>4. Inserted(e, f).entries = <<f>> \o a /\ Inserted(d, f).entries = <<f>> \o b
      BY <1>5, <2>1, <2>2 DEF Inserted, Tables
    <2>5. /\ Len(a) <= Len(b) /\ Len(a) \in Nat /\ Len(b) \in Nat
          /\ \A i \in 1 .. Len(a) : a[i] = b[i]
      BY <2>3, Prefix
    <2>6. PICK v, w : v = <<f>> \o a /\ w = <<f>> \o b
      OBVIOUS
    <2>7. /\ v \in Seq(Fields) /\ Len(v) = Len(a) + 1 /\ v[1] = f
          /\ \A i \in 1 .. Len(a) : v[i + 1] = a[i]
          /\ w \in Seq(Fields) /\ Len(w) = Len(b) + 1 /\ w[1] = f
          /\ \A i \in 1 .. Len(b) : w[i + 1] = b[i]
      BY <2>3, <2>6, FrontAdds
    <2>8. \A i \in 1 .. Len(v) : v[i] = w[i]
      <3>1. ASSUME NEW i \in 1 .. Len(v), i # 1 PROVE v[i] = w[i]
        <4>1. i - 1 \in 1 .. Len(a) /\ i - 1 \in 1 .. Len(b) /\ (i - 1) + 1 = i
          BY <2>5, <2>7, <3>1
        <4> QED
          BY <2>5, <2>7, <4>1
      <3> QED
        BY <2>7, <3>1
    <2>9. IsPrefix(v, w)
      BY <2>5, <2>7, <2>8, Prefix
    <2> QED
      BY <1>1, <1>2, <2>4, <2>6, <2>9 DEF InStep
  <1> QED
    BY <1>4, <1>5

\* A size for both brings tables in step whose entries are.
LEMMA ResizedInStep ==
    ASSUME NEW e \in Tables, NEW d \in Tables, NEW size \in Nat, IsPrefix(e.entries, d.entries)
    PROVE  InStep(Resized(e, size), Resized(d, size))
  <1>1. e.entries \in Seq(Fields) /\ d.entries \in Seq(Fields)
    BY DEF Tables
  <1> QED
    BY <1>1, FitPrefix DEF Resized, InStep

\* A size for the encoder alone leaves its entries among the decoder's.
LEMMA ResizedAlone ==
    ASSUME NEW e \in Tables, NEW d \in Tables, NEW size \in Nat, IsPrefix(e.entries, d.entries)
    PROVE  IsPrefix(Resized(e, size).entries, d.entries)
  <1>1. PICK kept : kept = Resized(e, size).entries
    OBVIOUS
  <1>2. /\ e.entries \in Seq(Fields) /\ d.entries \in Seq(Fields) /\ kept \in Seq(Fields)
        /\ IsPrefix(kept, e.entries)
    BY <1>1, ResizedIsTable DEF Tables
  <1>3. /\ Len(kept) <= Len(e.entries) /\ \A i \in 1 .. Len(kept) : kept[i] = e.entries[i]
        /\ Len(e.entries) <= Len(d.entries)
        /\ \A i \in 1 .. Len(e.entries) : e.entries[i] = d.entries[i]
        /\ Len(kept) \in Nat /\ Len(e.entries) \in Nat /\ Len(d.entries) \in Nat
    BY <1>2, Prefix
  <1>4. Len(kept) <= Len(d.entries) /\ \A i \in 1 .. Len(kept) : kept[i] = d.entries[i]
    BY <1>3
  <1> QED
    BY <1>1, <1>2, <1>4, Prefix
-------------------------------------------------------------------------------
(***************************************************************************)
(* One field                                                               *)
(***************************************************************************)

\* find gives an index that fits, or none.
LEMMA NewestFits ==
    ASSUME NEW n \in Nat, NEW at \in SUBSET (1 .. n)
    PROVE  Newest(at) = 0 \/ Newest(at) \in at
  <1>1. CASE at = {}
    BY <1>1 DEF Newest
  <1>2. CASE at # {}
    <2>1. at \in SUBSET Nat
      OBVIOUS
    <2>2. \E k \in at : \A j \in at : k <= j
      BY <1>2, <2>1, LeastNumber
    <2>3. Newest(at) = CHOOSE k \in at : \A j \in at : k <= j
      BY <1>2 DEF Newest
    <2> QED
      BY <2>2, <2>3, Zenon
  <1> QED
    BY <1>1, <1>2

\* The representation of a field means that field to a decoder whose table
\* starts with the encoder's entries, whether it is then to be indexed or not.
LEMMA RepresentsField ==
    ASSUME NEW e \in Tables, NEW d \in Tables, NEW f \in Fields, NEW i,
           IsPrefix(e.entries, d.entries),
           i = Represent(e, f) \/ i = Unindexed(e, f)
    PROVE  /\ Resolves(d, i) /\ FieldOf(d, i) = f
           /\ i.op = IF f \in StaticFields THEN "Static"
                     ELSE IF FindField(e, f) # 0 THEN "Indexed"
                     ELSE IF i = Represent(e, f) THEN "Literal" ELSE "Unindexed"
  <1>0. PICK m \in Nat, n \in Nat : m = Len(e.entries) /\ n = Len(d.entries)
    BY DEF Tables
  <1>1. /\ e.entries \in Seq(Fields) /\ d.entries \in Seq(Fields) /\ m <= n
        /\ DOMAIN e.entries = 1 .. m
        /\ \A k \in 1 .. m : d.entries[k] = e.entries[k]
    BY <1>0, Prefix DEF Tables
  <1>2. CASE f \in StaticFields
    <2>1. i = [op |-> "Static", at |-> 0, field |-> f]
      BY <1>2 DEF Represent, Unindexed
    <2> QED
      BY <1>0, <1>2, <2>1 DEF Resolves, FieldOf
  <1>3. CASE f \notin StaticFields /\ FindField(e, f) # 0
    <2>1. PICK k \in 1 .. m : k = FindField(e, f) /\ e.entries[k] = f
      BY <1>1, <1>3, NewestFits DEF FindField
    <2>2. i = [op |-> "Indexed", at |-> k, field |-> <<>>]
      BY <1>3, <2>1 DEF Represent, Unindexed
    <2>3. d.entries[k] = f /\ k <= n
      BY <1>1, <2>1
    <2> QED
      BY <1>0, <1>3, <2>2, <2>3 DEF Resolves, FieldOf
  <1>4. CASE f \notin StaticFields /\ ~ (FindField(e, f) # 0)
    <2>0. PICK op : /\ op = IF i = Represent(e, f) THEN "Literal" ELSE "Unindexed"
                    /\ op \in {"Literal", "Unindexed"}
      OBVIOUS
    <2>1. CASE f.name \in StaticNames \/ FindName(e, f) = 0
      <3>1. i = [op |-> op, at |-> 0, field |-> f]
        <4>1. Represent(e, f) = [op |-> "Literal", at |-> 0, field |-> f]
          BY <1>4, <2>1 DEF Represent
        <4> QED
          BY <2>0, <4>1 DEF Unindexed
      <3> QED
        BY <1>0, <1>4, <2>0, <3>1 DEF Resolves, FieldOf
    <2>2. CASE ~ (f.name \in StaticNames \/ FindName(e, f) = 0)
      <3>1. PICK k \in 1 .. m : k = FindName(e, f) /\ e.entries[k].name = f.name
        BY <1>1, <2>2, NewestFits DEF FindName
      <3>2. i = [op |-> op, at |-> k, field |-> f.value]
        <4>1. Represent(e, f) = [op |-> "Literal", at |-> k, field |-> f.value]
          BY <1>4, <2>2, <3>1 DEF Represent
        <4> QED
          BY <2>0, <4>1 DEF Unindexed
      <3>3. d.entries[k].name = f.name /\ k <= n /\ k # 0
        BY <1>1, <3>1
      <3>4. [name |-> f.name, value |-> f.value] = f
        BY HpackAssumption
      <3> QED
        BY <1>0, <1>4, <2>0, <3>2, <3>3, <3>4 DEF Resolves, FieldOf
    <2> QED
      BY <2>1, <2>2
  <1> QED
    BY <1>2, <1>3, <1>4

\* A field that is encoded comes out of a table in step, and leaves the tables
\* in step; a field of the static table leaves them alone.
LEMMA FieldCarried ==
    ASSUME NEW e \in Tables, NEW d \in Tables, NEW f \in Fields, InStep(e, d),
           NEW i, NEW e2, i = EncodeHeader(e, f).instr, e2 = EncodeHeader(e, f).table
    PROVE  /\ Resolves(d, i) /\ FieldOf(d, i) = f /\ i.op # "Update"
           /\ e2 \in Tables /\ e2.maxSize = e.maxSize
           /\ DecodeHeader(d, i) \in Tables /\ DecodeHeader(d, i).maxSize = d.maxSize
           /\ InStep(e2, DecodeHeader(d, i))
           /\ f \in StaticFields => e2 = e
  <1>1. i = Represent(e, f) /\ e2 = IF i.op = "Literal" THEN Inserted(e, f) ELSE e
    BY DEF EncodeHeader
  <1>2. /\ Resolves(d, i) /\ FieldOf(d, i) = f
        /\ i.op \in {"Static", "Indexed", "Literal"}
        /\ f \in StaticFields => i.op = "Static"
    BY <1>1, RepresentsField DEF InStep
  <1>3. CASE i.op = "Literal"
    <2>1. e2 = Inserted(e, f) /\ DecodeHeader(d, i) = Inserted(d, f)
      BY <1>1, <1>2, <1>3 DEF DecodeHeader
    <2> QED
      BY <1>2, <1>3, <2>1, InsertedIsTable, InsertedInStep
  <1>4. CASE i.op # "Literal"
    <2>1. e2 = e /\ DecodeHeader(d, i) = d
      BY <1>1, <1>2, <1>4 DEF DecodeHeader
    <2> QED
      BY <1>2, <2>1
  <1> QED
    BY <1>3, <1>4

\* A field that is not to be indexed comes out and leaves the tables alone.
LEMMA UnindexedCarried ==
    ASSUME NEW e \in Tables, NEW d \in Tables, NEW f \in Fields, IsPrefix(e.entries, d.entries),
           NEW i, i = Unindexed(e, f)
    PROVE  /\ Resolves(d, i) /\ FieldOf(d, i) = f /\ i.op # "Update"
           /\ DecodeHeader(d, i) = d
  <1>1. Represent(e, f).op \in {"Static", "Indexed", "Literal"}
        /\ i = [Represent(e, f) EXCEPT !.op = IF @ = "Literal" THEN "Unindexed" ELSE @]
    BY RepresentsField DEF Unindexed
  <1>2. i.op \in {"Static", "Indexed", "Unindexed"}
    BY <1>1 DEF Represent
  <1>3. Resolves(d, i) /\ FieldOf(d, i) = f
    BY RepresentsField
  <1> QED
    BY <1>2, <1>3 DEF DecodeHeader

\* A size update is taken up to the default size.
LEMMA UpdateCarried ==
    ASSUME NEW e \in Tables, NEW d \in Tables, NEW size \in 0 .. TableSize,
           IsPrefix(e.entries, d.entries), NEW i, i = SizeUpdate(size)
    PROVE  /\ Resolves(d, i) /\ i.op = "Update"
           /\ DecodeHeader(d, i) \in Tables
           /\ Resized(e, size) \in Tables
           /\ InStep(Resized(e, size), DecodeHeader(d, i))
  <1>1. i = [op |-> "Update", at |-> size, field |-> <<>>] /\ size \in Nat /\ size <= TableSize
    BY HpackAssumption DEF SizeUpdate
  <1>2. Resolves(d, i) /\ DecodeHeader(d, i) = Resized(d, size)
    BY <1>1 DEF Resolves, DecodeHeader
  <1> QED
    BY <1>1, <1>2, ResizedIsTable, ResizedInStep
-------------------------------------------------------------------------------
(***************************************************************************)
(* A block                                                                 *)
(***************************************************************************)

\* A table is in step with itself.
LEMMA OwnStep == \A t \in Tables : InStep(t, t)
  BY Prefix DEF Tables, InStep

\* A block has one instruction for each field, made with the table that the
\* fields before have left.
LEMMA EncodedBlock ==
    ASSUME NEW t \in Tables, NEW list \in Seq(Fields)
    PROVE  \E X : \E es \in [0 .. Len(list) -> Tables], block \in Seq(X) :
              /\ EncodeBlock(t, list) = [block |-> block, table |-> es[Len(list)]]
              /\ Len(block) = Len(list) /\ es[0] = t
              /\ \A k \in 1 .. Len(list) : /\ block[k] = EncodeHeader(es[k - 1], list[k]).instr
                                           /\ es[k] = EncodeHeader(es[k - 1], list[k]).table
  <1>0. PICK n \in Nat : n = Len(list)
    OBVIOUS
  <1>1. PICK s : s = EncodeSteps(t, list)
    OBVIOUS
  <1>2. /\ s[0] = [block |-> <<>>, table |-> t]
        /\ \A k \in 1 .. n : s[k] = EncodeNext(s[k - 1], list[k])
    BY <1>0, <1>1, EncodeStep
  <1> DEFINE Instr(k) == EncodeHeader(s[k - 1].table, list[k]).instr
             X == {Instr(k) : k \in 1 .. n}
             Good(k) == /\ s[k] = [block |-> s[k].block, table |-> s[k].table]
                        /\ s[k].table \in Tables
                        /\ s[k].block \in Seq(X) /\ Len(s[k].block) = k
                        /\ \A j \in 1 .. k : s[k].block[j] = Instr(j)
             P == {k \in 0 .. n : Good(k)}
  <1>3. 0 \in P
    <2>1. <<>> \in Seq(X) /\ Len(<<>>) = 0
      OBVIOUS
    <2>2. 0 \in 0 .. n
      BY <1>0
    <2>3. Good(0)
      <3> HIDE DEF X, Instr
      <3>1. s[0].block = <<>> /\ s[0].table = t
        BY <1>2
      <3> QED
        BY <1>2, <2>1, <3>1
    <2> QED
      BY <2>2, <2>3
  <1>4. ASSUME NEW k \in 1 .. n, k - 1 \in P PROVE k \in P
    <2>1. Good(k - 1)
      BY <1>4
    <2>2. PICK b, e : b = s[k - 1].block /\ e = s[k - 1].table
      OBVIOUS
    <2>3. s[k] = [block |-> Append(b, Instr(k)), table |-> EncodeHeader(e, list[k]).table]
      BY <1>2, <2>2 DEF EncodeNext
    <2>4. EncodeHeader(e, list[k]).table \in Tables
      <3>1. list[k] \in Fields /\ e \in Tables
        BY <1>0, <2>1, <2>2
      <3> QED
        BY <3>1, OwnStep, FieldCarried
    <2>5. b \in Seq(X) /\ Len(b) = k - 1 /\ \A j \in 1 .. k - 1 : b[j] = Instr(j)
      BY <2>1, <2>2
    <2>6. Instr(k) \in X
      OBVIOUS
    <2> HIDE DEF X, Instr
    <2>7. /\ Append(b, Instr(k)) \in Seq(X) /\ Len(Append(b, Instr(k))) = k
          /\ \A j \in 1 .. k : Append(b, Instr(k))[j] = Instr(j)
      BY <2>5, <2>6
    <2>8. Good(k)
      <3>1. s[k].block = Append(b, Instr(k)) /\ s[k].table = EncodeHeader(e, list[k]).table
        BY <2>3
      <3> QED
        BY <2>3, <2>4, <2>7, <3>1
    <2> QED
      BY <2>8
  <1>5. \A k \in 0 .. n : k \in P
    <2> HIDE DEF P
    <2> QED
      BY <1>0, <1>3, <1>4, UpTo
  <1> DEFINE es == [k \in 0 .. n |-> s[k].table]
  <1>6. (\A k \in 0 .. n : Good(k)) /\ n \in 0 .. n /\ 0 \in 0 .. n /\ Good(n)
    <2> HIDE DEF Good
    <2>1. \A k \in 0 .. n : Good(k)
      BY <1>5
    <2>2. n \in 0 .. n /\ 0 \in 0 .. n
      BY <1>0
    <2> QED
      BY <2>1, <2>2
  <1>7. es \in [0 .. n -> Tables] /\ es[0] = t
    <2>1. \A k \in 0 .. n : s[k].table \in Tables
      BY <1>6
    <2>2. s[0].table = t
      BY <1>2
    <2> QED
      BY <1>6, <2>1, <2>2
  <1>8. EncodeBlock(t, list) = [block |-> s[n].block, table |-> es[n]]
    <2>1. EncodeBlock(t, list) = s[n]
      BY <1>0, <1>1 DEF EncodeBlock
    <2> QED
      BY <1>6, <2>1
  <1>9. \A k \in 1 .. n : /\ s[n].block[k] = EncodeHeader(es[k - 1], list[k]).instr
                          /\ es[k] = EncodeHeader(es[k - 1], list[k]).table
    <2>1. ASSUME NEW k \in 1 .. n
          PROVE  /\ s[n].block[k] = EncodeHeader(es[k - 1], list[k]).instr
                 /\ es[k] = EncodeHeader(es[k - 1], list[k]).table
      <3>1. es[k - 1] = s[k - 1].table /\ es[k] = s[k].table
        OBVIOUS
      <3>2. s[k].table = EncodeHeader(s[k - 1].table, list[k]).table
        <4>1. s[k] = [block |-> Append(s[k - 1].block, Instr(k)),
                      table |-> EncodeHeader(s[k - 1].table, list[k]).table]
          BY <1>2 DEF EncodeNext
        <4> QED
          BY <4>1
      <3> QED
        BY <1>6, <3>1, <3>2
    <2> QED
      BY <2>1
  <1> HIDE DEF es, X, Instr
  <1>a. PICK block \in Seq(X) : block = s[n].block
    BY <1>6
  <1>b. es \in [0 .. Len(list) -> Tables]
    BY <1>0, <1>7
  <1>c. /\ EncodeBlock(t, list) = [block |-> block, table |-> es[Len(list)]]
        /\ Len(block) = Len(list) /\ es[0] = t
        /\ \A k \in 1 .. Len(list) : /\ block[k] = EncodeHeader(es[k - 1], list[k]).instr
                                     /\ es[k] = EncodeHeader(es[k - 1], list[k]).table
    BY <1>0, <1>6, <1>7, <1>8, <1>9, <1>a
  <1> QED
    BY <1>b, <1>c, Zenon

\* The steps of a block that is decoded from the table d.
LEMMA DecodeTrace ==
    ASSUME NEW X, NEW block \in Seq(X), NEW d
    PROVE  \E s : /\ s = DecodeSteps(d, block)
                 /\ s[0] = [ok |-> TRUE, list |-> <<>>, table |-> d]
                 /\ \A k \in 1 .. Len(block) : s[k] = DecodeNext(s[k - 1], block[k])
  <1>1. /\ DecodeSteps(d, block)[0] = [ok |-> TRUE, list |-> <<>>, table |-> d]
        /\ \A k \in 1 .. Len(block) :
              DecodeSteps(d, block)[k] = DecodeNext(DecodeSteps(d, block)[k - 1], block[k])
    BY DecodeStep
  <1> QED
    BY <1>1

\* The instructions of a block resolve, one after the other, to the fields of a
\* list, behind a number of size updates: before the k-th of them the decoder's
\* table is one of good[k - 1].
Leads(block, skip, list, good) ==
    \A k \in 1 .. Len(block) : \A t \in good[k - 1] :
       /\ Resolves(t, block[k]) /\ DecodeHeader(t, block[k]) \in good[k]
       /\ block[k].op = "Update" <=> k <= skip
       /\ k > skip => FieldOf(t, block[k]) = list[k - skip]

\* Such a block decodes to that list.
LEMMA DecodedBlock ==
    ASSUME NEW X, NEW block \in Seq(X), NEW list \in Seq(Fields), NEW skip \in {0, 1},
           Len(block) = skip + Len(list), NEW good, NEW d \in good[0],
           Leads(block, skip, list, good)
    PROVE  DecodeBlock(d, block).list = list /\ DecodeBlock(d, block).table \in good[Len(block)]
  <1>0. PICK n \in Nat : n = Len(block) /\ n = skip + Len(list) /\ Len(list) \in Nat
    OBVIOUS
  <1>1. PICK s : /\ s = DecodeSteps(d, block)
                 /\ s[0] = [ok |-> TRUE, list |-> <<>>, table |-> d]
                 /\ \A k \in 1 .. Len(block) : s[k] = DecodeNext(s[k - 1], block[k])
    BY DecodeTrace
  <1>2. /\ s[0] = [ok |-> TRUE, list |-> <<>>, table |-> d]
        /\ \A k \in 1 .. n : s[k] = DecodeNext(s[k - 1], block[k])
    BY <1>0, <1>1
  <1> DEFINE Done(k) == IF k < skip THEN 0 ELSE k - skip
             Good(k) == /\ s[k].ok = TRUE /\ s[k].table \in good[k]
                        /\ s[k].list \in Seq(Fields) /\ Len(s[k].list) = Done(k)
                        /\ \A j \in 1 .. Done(k) : s[k].list[j] = list[j]
             P == {k \in 0 .. n : Good(k)}
  <1>3. 0 \in P
    <2>1. s[0].ok = TRUE /\ s[0].list = <<>> /\ s[0].table = d
      BY <1>2
    <2>2. Done(0) = 0 /\ 0 \in 0 .. n
      BY <1>0
    <2>3. Good(0)
      BY <2>1, <2>2, NoEntries
    <2> QED
      BY <2>2, <2>3
  <1>4. ASSUME NEW k \in 1 .. n, k - 1 \in P PROVE k \in P
    <2>1. Good(k - 1)
      BY <1>4
    <2>2. PICK t, l, i : t = s[k - 1].table /\ l = s[k - 1].list /\ i = block[k]
      OBVIOUS
    <2>3. t \in good[k - 1] /\ l \in Seq(Fields) /\ Len(l) = Done(k - 1)
          /\ \A j \in 1 .. Done(k - 1) : l[j] = list[j]
      BY <2>1, <2>2
    <2>4. Resolves(t, i) /\ DecodeHeader(t, i) \in good[k]
          /\ (i.op = "Update" <=> k <= skip)
          /\ (k > skip => FieldOf(t, i) = list[k - skip])
      <3>1. k \in 1 .. Len(block)
        BY <1>0
      <3> QED
        BY <2>2, <2>3, <3>1 DEF Leads
    <2>5. s[k] = [ok    |-> TRUE,
                  list  |-> IF i.op = "Update" THEN l ELSE Append(l, FieldOf(t, i)),
                  table |-> DecodeHeader(t, i)]
      BY <1>2, <2>1, <2>2, <2>4 DEF DecodeNext
    <2>6. CASE k <= skip
      <3>1. Done(k) = 0 /\ Done(k - 1) = 0
        BY <2>6
      <3>2. s[k].ok = TRUE /\ s[k].list = l /\ s[k].table = DecodeHeader(t, i)
        BY <2>4, <2>5, <2>6
      <3>3. Good(k)
        BY <2>3, <2>4, <3>1, <3>2
      <3> QED
        BY <3>3
    <2>7. CASE k > skip
      <3>1. Done(k) = k - skip /\ Done(k - 1) = (k - skip) - 1 /\ k - skip \in 1 .. Len(list)
        BY <1>0, <2>7
      <3>2. list[k - skip] \in Fields
        BY <3>1
      <3>3. s[k].ok = TRUE /\ s[k].list = Append(l, list[k - skip])
            /\ s[k].table = DecodeHeader(t, i)
        BY <2>4, <2>5, <2>7
      <3>4. Good(k)
        BY <2>3, <2>4, <3>1, <3>2, <3>3
      <3> QED
        BY <3>4
    <2>8. k <= skip \/ k > skip
      OBVIOUS
    <2> HIDE DEF P
    <2> QED
      BY <2>6, <2>7, <2>8, Zenon
  <1>5. n \in P
    <2>1. n \in 0 .. n
      BY <1>0
    <2> HIDE DEF P
    <2> QED
      BY <1>0, <1>3, <1>4, <2>1, UpTo
  <1>6. DecodeBlock(d, block) = s[n]
    BY <1>0, <1>1 DEF DecodeBlock
  <1>7. Done(n) = Len(list)
    BY <1>0
  <1>8. s[n].list = list
    BY <1>5, <1>7, SeqEqual
  <1> QED
    BY <1>0, <1>5, <1>6, <1>8

\* A block comes out of a table in step and leaves the tables in step.
LEMMA BlockInStep ==
    ASSUME NEW e \in Tables, NEW list \in Seq(Fields),
           NEW block, block = EncodeBlock(e, list).block,
           NEW e2, e2 = EncodeBlock(e, list).table
    PROVE  /\ e2 \in Tables /\ e2.maxSize = e.maxSize
           /\ (\A k \in DOMAIN list : list[k] \in StaticFields) => e2 = e
           /\ \A d \in Tables : InStep(e, d) =>
                 /\ DecodeBlock(d, block).list = list
                 /\ DecodeBlock(d, block).table \in Tables
                 /\ DecodeBlock(d, block).table.maxSize = d.maxSize
                 /\ InStep(e2, DecodeBlock(d, block).table)
  <1>0. PICK n \in Nat : n = Len(list) /\ DOMAIN list = 1 .. n
    OBVIOUS
  <1>1. PICK X : \E es \in [0 .. Len(list) -> Tables], b \in Seq(X) :
              /\ EncodeBlock(e, list) = [block |-> b, table |-> es[Len(list)]]
              /\ Len(b) = Len(list) /\ es[0] = e
              /\ \A k \in 1 .. Len(list) : /\ b[k] = EncodeHeader(es[k - 1], list[k]).instr
                                           /\ es[k] = EncodeHeader(es[k - 1], list[k]).table
    BY EncodedBlock, Zenon
  <1>2. PICK es \in [0 .. Len(list) -> Tables], b \in Seq(X) :
              /\ EncodeBlock(e, list) = [block |-> b, table |-> es[Len(list)]]
              /\ Len(b) = Len(list) /\ es[0] = e
              /\ \A k \in 1 .. Len(list) : /\ b[k] = EncodeHeader(es[k - 1], list[k]).instr
                                           /\ es[k] = EncodeHeader(es[k - 1], list[k]).table
    BY <1>1
  <1>a. /\ es \in [0 .. n -> Tables] /\ es[0] = e /\ Len(b) = n
        /\ \A k \in 1 .. n : b[k] = EncodeHeader(es[k - 1], list[k]).instr
        /\ \A k \in 1 .. n : es[k] = EncodeHeader(es[k - 1], list[k]).table
    BY <1>0, <1>2
  <1>3. block = b /\ e2 = es[n] /\ n \in 0 .. n
    BY <1>0, <1>2
  <1>4. /\ \A k \in 0 .. n : es[k].maxSize = e.maxSize
        /\ (\A k \in 1 .. n : list[k] \in StaticFields) => es[n] = e
    <2>1. ASSUME NEW k \in 1 .. n
          PROVE  /\ es[k].maxSize = es[k - 1].maxSize
                 /\ list[k] \in StaticFields => es[k] = es[k - 1]
      <3>1. es[k - 1] \in Tables /\ list[k] \in Fields
        BY <1>0, <1>a
      <3>2. es[k] = EncodeHeader(es[k - 1], list[k]).table
        BY <1>a
      <3> QED
        BY <3>1, <3>2, OwnStep, FieldCarried
    <2> DEFINE P == {k \in 0 .. n : es[k].maxSize = e.maxSize}
               Q == {k \in 0 .. n : es[k] = e}
    <2>2. 0 \in P /\ 0 \in Q
      BY <1>0, <1>a
    <2>3. ASSUME NEW k \in 1 .. n
          PROVE  /\ k - 1 \in P => k \in P
                 /\ list[k] \in StaticFields /\ k - 1 \in Q => k \in Q
      BY <2>1
    <2>4. \A k \in 0 .. n : k \in P
      <3> HIDE DEF P, Q
      <3> QED
        BY <1>0, <2>2, <2>3, UpTo
    <2>5. ASSUME \A k \in 1 .. n : list[k] \in StaticFields PROVE n \in Q
      <3>1. \A k \in 1 .. n : k - 1 \in Q => k \in Q
        BY <2>3, <2>5
      <3> HIDE DEF P, Q
      <3> QED
        BY <1>3, <2>2, <3>1, UpTo
    <2> QED
      BY <2>4, <2>5
  <1>5. ASSUME NEW d \in Tables, InStep(e, d)
        PROVE  /\ DecodeBlock(d, block).list = list
               /\ DecodeBlock(d, block).table \in Tables
               /\ DecodeBlock(d, block).table.maxSize = d.maxSize
               /\ InStep(e2, DecodeBlock(d, block).table)
    <2> DEFINE good == [k \in 0 .. n |-> {t \in Tables : InStep(es[k], t) /\ t.maxSize = d.maxSize}]
    <2>1. d \in good[0]
      BY <1>0, <1>a, <1>5
    <2>2. ASSUME NEW k \in 1 .. n, NEW t \in good[k - 1]
          PROVE  /\ Resolves(t, b[k]) /\ b[k].op # "Update"
                 /\ FieldOf(t, b[k]) = list[k]
                 /\ DecodeHeader(t, b[k]) \in good[k]
      <3>1. t \in Tables /\ InStep(es[k - 1], t) /\ t.maxSize = d.maxSize
        OBVIOUS
      <3>2. es[k - 1] \in Tables /\ list[k] \in Fields
        <4> HIDE DEF good
        <4>1. k - 1 \in 0 .. n /\ k \in 1 .. Len(list)
          BY <1>0
        <4> QED
          BY <1>a, <4>1
      <3>3. /\ Resolves(t, b[k]) /\ b[k].op # "Update" /\ FieldOf(t, b[k]) = list[k]
            /\ DecodeHeader(t, b[k]) \in Tables /\ DecodeHeader(t, b[k]).maxSize = t.maxSize
            /\ InStep(es[k], DecodeHeader(t, b[k]))
        <4> HIDE DEF good
        <4>1. b[k] = EncodeHeader(es[k - 1], list[k]).instr
              /\ es[k] = EncodeHeader(es[k - 1], list[k]).table
          BY <1>a
        <4> QED
          BY <3>1, <3>2, <4>1, FieldCarried
      <3>4. DecodeHeader(t, b[k]) \in good[k]
        BY <3>1, <3>3
      <3> QED
        BY <3>3, <3>4
    <2>3. DecodeBlock(d, b).list = list /\ DecodeBlock(d, b).table \in good[n]
      <3>1. PICK skip \in {0, 1} : skip = 0
        OBVIOUS
      <3>2. Len(b) = skip + Len(list) /\ Len(b) = n
        BY <1>0, <1>a, <3>1
      <3> HIDE DEF good
      <3>3. Leads(b, skip, list, good)
        <4>1. \A k \in 1 .. Len(b) : k \in 1 .. n /\ k > skip /\ ~ (k <= skip) /\ k - skip = k
          BY <3>1, <3>2
        <4> QED
          BY <2>2, <4>1 DEF Leads
      <3> QED
        BY <2>1, <3>2, <3>3, DecodedBlock
    <2>4. \A t \in good[n] : t \in Tables /\ InStep(es[n], t) /\ t.maxSize = d.maxSize
      BY <1>3
    <2> HIDE DEF good
    <2> QED
      BY <1>3, <2>3, <2>4
  <1> QED
    BY <1>0, <1>a, <1>3, <1>4, <1>5

\* A block that starts with a size for both tables,
Updated(e, size, list) == <<SizeUpdate(size)>> \o EncodeBlock(Resized(e, size), list).block

\* brings them in step.
LEMMA UpdatedInStep ==
    ASSUME NEW e \in Tables, NEW d \in Tables, NEW list \in Seq(Fields),
           NEW size \in 0 .. TableSize, IsPrefix(e.entries, d.entries)
    PROVE  \E t \in Tables :
              /\ DecodeBlock(d, Updated(e, size, list)).list = list
              /\ DecodeBlock(d, Updated(e, size, list)).table = t
              /\ InStep(EncodeBlock(Resized(e, size), list).table, t)
  <1>b. PICK block, e2, whole : /\ block = EncodeBlock(Resized(e, size), list).block
                                /\ e2 = EncodeBlock(Resized(e, size), list).table
                                /\ whole = <<SizeUpdate(size)>> \o block
                                /\ whole = Updated(e, size, list)
    BY DEF Updated
  <1>0. PICK n \in Nat, r \in Tables : n = Len(list) /\ r = Resized(e, size)
    BY UpdateCarried
  <1>1. PICK X : \E es \in [0 .. Len(list) -> Tables], b \in Seq(X) :
              /\ EncodeBlock(r, list) = [block |-> b, table |-> es[Len(list)]]
              /\ Len(b) = Len(list) /\ es[0] = r
              /\ \A k \in 1 .. Len(list) : /\ b[k] = EncodeHeader(es[k - 1], list[k]).instr
                                           /\ es[k] = EncodeHeader(es[k - 1], list[k]).table
    BY EncodedBlock, Zenon
  <1>2. PICK es \in [0 .. Len(list) -> Tables], b \in Seq(X) :
              /\ EncodeBlock(r, list) = [block |-> b, table |-> es[Len(list)]]
              /\ Len(b) = Len(list) /\ es[0] = r
              /\ \A k \in 1 .. Len(list) : /\ b[k] = EncodeHeader(es[k - 1], list[k]).instr
                                           /\ es[k] = EncodeHeader(es[k - 1], list[k]).table
    BY <1>1
  <1>3. /\ es \in [0 .. n -> Tables] /\ es[0] = r /\ Len(b) = n
        /\ \A k \in 1 .. n : b[k] = EncodeHeader(es[k - 1], list[k]).instr
        /\ \A k \in 1 .. n : es[k] = EncodeHeader(es[k - 1], list[k]).table
        /\ block = b /\ e2 = es[n]
    BY <1>0, <1>2, <1>b
  <1>4. PICK i, Y : i = SizeUpdate(size) /\ Y = X \cup {i}
    OBVIOUS
  <1>5. /\ whole \in Seq(Y) /\ Len(whole) = 1 + n /\ whole[1] = i
        /\ \A k \in 1 .. n : whole[k + 1] = b[k]
    <2>1. i \in Y /\ b \in Seq(Y) /\ Len(b) = n
      <3>1. X \subseteq Y
        BY <1>4
      <3> QED
        BY <1>3, <1>4, <3>1
    <2>2. PICK w : w = <<i>> \o b
      OBVIOUS
    <2>3. /\ w \in Seq(Y) /\ Len(w) = 1 + n /\ w[1] = i
          /\ \A k \in 1 .. n : w[k + 1] = b[k]
      BY <2>1, <2>2
    <2>4. whole = w
      BY <1>3, <1>4, <1>b, <2>2
    <2> QED
      BY <2>3, <2>4
  <1> DEFINE good == [k \in 0 .. n + 1 |-> IF k = 0 THEN {d}
                                           ELSE {t \in Tables : InStep(es[k - 1], t)}]
  <1>6. /\ good[0] = {d}
        /\ \A k \in 1 .. n + 1 : good[k] = {t \in Tables : InStep(es[k - 1], t)}
    BY <1>0
  <1> HIDE DEF good
  <1>7. Resolves(d, i) /\ i.op = "Update" /\ DecodeHeader(d, i) \in good[1]
    <2>1. /\ Resolves(d, i) /\ i.op = "Update" /\ DecodeHeader(d, i) \in Tables
          /\ InStep(r, DecodeHeader(d, i))
      BY <1>0, <1>4, UpdateCarried
    <2>2. good[1] = {t \in Tables : InStep(r, t)}
      <3>1. 1 \in 1 .. n + 1 /\ 1 - 1 = 0
        BY <1>0
      <3> QED
        BY <1>3, <1>6, <3>1
    <2> QED
      BY <2>1, <2>2
  <1>8. ASSUME NEW k \in 2 .. n + 1, NEW t \in good[k - 1]
        PROVE  /\ Resolves(t, whole[k]) /\ whole[k].op # "Update"
               /\ FieldOf(t, whole[k]) = list[k - 1]
               /\ DecodeHeader(t, whole[k]) \in good[k]
    <2>1. k - 1 \in 1 .. n /\ k - 1 \in 1 .. n + 1 /\ k \in 1 .. n + 1 /\ (k - 1) - 1 \in 0 .. n
          /\ (k - 1) + 1 = k /\ k - 1 \in 1 .. Len(list)
      BY <1>0
    <2>2. t \in Tables /\ InStep(es[(k - 1) - 1], t)
      BY <1>6, <2>1
    <2>3. es[(k - 1) - 1] \in Tables /\ list[k - 1] \in Fields
      BY <1>3, <2>1
    <2>4. whole[k] = EncodeHeader(es[(k - 1) - 1], list[k - 1]).instr
          /\ es[k - 1] = EncodeHeader(es[(k - 1) - 1], list[k - 1]).table
      <3>1. whole[(k - 1) + 1] = b[k - 1]
        BY <1>5, <2>1
      <3> QED
        BY <1>3, <2>1, <3>1
    <2>5. /\ Resolves(t, whole[k]) /\ whole[k].op # "Update"
          /\ FieldOf(t, whole[k]) = list[k - 1]
          /\ DecodeHeader(t, whole[k]) \in Tables
          /\ InStep(es[k - 1], DecodeHeader(t, whole[k]))
      <3>1. PICK a, a2, f, j : /\ a = es[(k - 1) - 1] /\ a2 = es[k - 1]
                               /\ f = list[k - 1] /\ j = whole[k]
        OBVIOUS
      <3>2. /\ a \in Tables /\ f \in Fields /\ t \in Tables /\ InStep(a, t)
            /\ j = EncodeHeader(a, f).instr /\ a2 = EncodeHeader(a, f).table
        BY <2>2, <2>3, <2>4, <3>1
      <3>3. /\ Resolves(t, j) /\ j.op # "Update" /\ FieldOf(t, j) = f
            /\ DecodeHeader(t, j) \in Tables /\ InStep(a2, DecodeHeader(t, j))
        BY <3>2, FieldCarried
      <3> QED
        BY <3>1, <3>3
    <2>6. DecodeHeader(t, whole[k]) \in good[k]
      BY <1>6, <2>1, <2>5
    <2> QED
      BY <2>5, <2>6
  <1>9. DecodeBlock(d, whole).list = list /\ DecodeBlock(d, whole).table \in good[n + 1]
    <2>0. PICK skip \in {0, 1} : skip = 1
      OBVIOUS
    <2>1. Leads(whole, skip, list, good)
      <3>1. ASSUME NEW k \in 1 .. Len(whole), NEW t \in good[k - 1]
            PROVE  /\ Resolves(t, whole[k]) /\ DecodeHeader(t, whole[k]) \in good[k]
                   /\ whole[k].op = "Update" <=> k <= skip
                   /\ k > skip => FieldOf(t, whole[k]) = list[k - skip]
        <4>1. CASE k = 1
          <5>1. t = d /\ whole[k] = i /\ k <= skip /\ ~ (k > skip)
            BY <1>5, <1>6, <2>0, <4>1
          <5> QED
            BY <1>7, <4>1, <5>1
        <4>2. CASE k # 1
          <5>1. k \in 2 .. n + 1 /\ k > skip /\ ~ (k <= skip) /\ k - skip = k - 1
            BY <1>0, <1>5, <2>0, <4>2
          <5> QED
            BY <1>8, <5>1
        <4> QED
          BY <4>1, <4>2
      <3> QED
        BY <3>1 DEF Leads
    <2>4. d \in good[0] /\ Len(whole) = skip + Len(list) /\ Len(whole) = n + 1
      BY <1>0, <1>5, <1>6, <2>0
    <2>6. whole \in Seq(Y)
      BY <1>5
    <2>5. DecodeBlock(d, whole).list = list /\ DecodeBlock(d, whole).table \in good[Len(whole)]
      <3>1. PICK w : w = whole
        OBVIOUS
      <3>2. /\ Leads(w, skip, list, good) /\ w \in Seq(Y) /\ Len(w) = skip + Len(list)
            /\ d \in good[0]
        BY <2>1, <2>4, <2>6, <3>1
      <3>3. DecodeBlock(d, w).list = list /\ DecodeBlock(d, w).table \in good[Len(w)]
        BY <3>2, DecodedBlock
      <3> QED
        BY <3>1, <3>3
    <2> QED
      BY <2>4, <2>5
  <1>10. good[n + 1] = {t \in Tables : InStep(e2, t)}
    <2>1. n + 1 \in 1 .. n + 1 /\ (n + 1) - 1 = n
      BY <1>0
    <2> QED
      BY <1>3, <1>6, <2>1
  <1> QED
    BY <1>9, <1>10, <1>b

\* A block of fields that are not to be indexed leaves the tables alone.
LEMMA UnindexedInStep ==
    ASSUME NEW e \in Tables, NEW d \in Tables, NEW list \in Seq(Fields),
           IsPrefix(e.entries, d.entries),
           NEW block, block = [k \in DOMAIN list |-> Unindexed(e, list[k])]
    PROVE  DecodeBlock(d, block).list = list /\ DecodeBlock(d, block).table = d
  <1>0. PICK n \in Nat : n = Len(list) /\ DOMAIN list = 1 .. n
    OBVIOUS
  <1>1. PICK X : X = {Unindexed(e, list[k]) : k \in 1 .. n}
    OBVIOUS
  <1>2. block \in Seq(X) /\ Len(block) = n /\ \A k \in 1 .. n : block[k] = Unindexed(e, list[k])
    <2>1. block \in [1 .. n -> X]
      BY <1>0, <1>1
    <2> QED
      BY <1>0, <2>1
  <1> DEFINE good == [k \in 0 .. n |-> {d}]
  <1>3. \A k \in 0 .. n : good[k] = {d}
    OBVIOUS
  <1> HIDE DEF good
  <1>9. PICK skip \in {0, 1} : skip = 0
    OBVIOUS
  <1>4. ASSUME NEW k \in 1 .. Len(block), NEW t \in good[k - 1]
        PROVE  /\ Resolves(t, block[k]) /\ DecodeHeader(t, block[k]) \in good[k]
               /\ block[k].op = "Update" <=> k <= skip
               /\ k > skip => FieldOf(t, block[k]) = list[k - skip]
    <2>1. /\ k \in 1 .. n /\ k - 1 \in 0 .. n /\ k \in 0 .. n /\ k \in 1 .. Len(list)
          /\ k - skip = k /\ k > skip /\ ~ (k <= skip)
      BY <1>0, <1>2, <1>9
    <2>2. t = d /\ good[k] = {d} /\ list[k] \in Fields
      BY <1>3, <2>1
    <2>3. /\ Resolves(d, block[k]) /\ FieldOf(d, block[k]) = list[k] /\ block[k].op # "Update"
          /\ DecodeHeader(d, block[k]) = d
      BY <1>2, <2>1, <2>2, UnindexedCarried
    <2> QED
      BY <2>1, <2>2, <2>3
  <1>6. d \in good[0] /\ good[n] = {d} /\ Len(block) = skip + Len(list)
    BY <1>0, <1>2, <1>3, <1>9
  <1>8. Leads(block, skip, list, good)
    BY <1>4 DEF Leads
  <1>10. block \in Seq(X)
    BY <1>2
  <1>7. DecodeBlock(d, block).list = list /\ DecodeBlock(d, block).table \in good[Len(block)]
    <2>1. PICK w : w = block
      OBVIOUS
    <2>2. /\ Leads(w, skip, list, good) /\ w \in Seq(X) /\ Len(w) = skip + Len(list)
          /\ d \in good[0]
      BY <1>6, <1>8, <1>10, <2>1
    <2>3. DecodeBlock(d, w).list = list /\ DecodeBlock(d, w).table \in good[Len(w)]
      BY <2>2, DecodedBlock
    <2> QED
      BY <2>1, <2>3
  <1> QED
    BY <1>2, <1>6, <1>7
-------------------------------------------------------------------------------
(***************************************************************************)
(* What is under way                                                       *)
(***************************************************************************)

\* The decoder's table starts with the encoder's entries.  This library's table
\* never has more than the default size, which the decoder's keeps; another
\* library tells of the size before it inserts.
Sync(who, e, d) ==
    /\ IsPrefix(e.entries, d.entries)
    /\ who = "This" => e.maxSize <= TableSize /\ d.maxSize = TableSize

\* A block brings the list to every decoder in step with the encoder before the
\* block, and leaves it in step with the encoder after it, as it leaves one that
\* may refuse the list.
Carries(who, e, block, e2, list) ==
    \A d \in Tables : Sync(who, e, d) =>
       /\ DecodeBlock(d, block).list = list
       /\ DecodeBlock(d, block).table \in Tables
       /\ Sync(who, e2, DecodeBlock(d, block).table)
       /\ list \in RefusedLists => Sync(who, e2, d)

\* Fields of the static table touch no dynamic one: a server may refuse a list
\* of them without decoding it.
RefusedStatic == \A list \in RefusedLists : \A k \in DOMAIN list : list[k] \in StaticFields

\* A size that the decoding end announces is no more than the default, which its
\* decoder keeps.
SizesUpToDefault == \A size \in SettingsSizes : size <= TableSize

\* send_headers: the blocks of this library's encoder.
LEMMA ThisCarries ==
    ASSUME RefusedStatic, NEW e \in Tables, NEW list \in Seq(Fields),
           NEW r, r = EncodeBlock(e, list)
    PROVE  r.table \in Tables /\ Carries("This", e, r.block, r.table, list)
  <1>1. PICK block, e2 : block = r.block /\ e2 = r.table
    OBVIOUS
  <1>2. /\ e2 \in Tables /\ e2.maxSize = e.maxSize
        /\ (\A k \in DOMAIN list : list[k] \in StaticFields) => e2 = e
        /\ \A d \in Tables : InStep(e, d) =>
              /\ DecodeBlock(d, block).list = list
              /\ DecodeBlock(d, block).table \in Tables
              /\ DecodeBlock(d, block).table.maxSize = d.maxSize
              /\ InStep(e2, DecodeBlock(d, block).table)
    BY <1>1, BlockInStep
  <1>3. ASSUME NEW d \in Tables, Sync("This", e, d)
        PROVE  /\ DecodeBlock(d, block).list = list
               /\ DecodeBlock(d, block).table \in Tables
               /\ Sync("This", e2, DecodeBlock(d, block).table)
               /\ list \in RefusedLists => Sync("This", e2, d)
    <2>1. InStep(e, d) /\ d.maxSize = TableSize /\ e.maxSize <= TableSize
      BY <1>3 DEF Sync, InStep
    <2>2. PICK t : t = DecodeBlock(d, block).table
      OBVIOUS
    <2>3. /\ DecodeBlock(d, block).list = list /\ t \in Tables /\ t.maxSize = TableSize
          /\ InStep(e2, t)
      BY <1>2, <2>1, <2>2
    <2>4. Sync("This", e2, t)
      BY <1>2, <2>1, <2>3 DEF Sync, InStep
    <2>5. list \in RefusedLists => Sync("This", e2, d)
      BY <1>2, <1>3 DEF RefusedStatic
    <2> QED
      BY <2>2, <2>3, <2>4, <2>5
  <1> QED
    BY <1>1, <1>2, <1>3 DEF Carries

\* The blocks of another encoder that indexes nothing.
LEMMA UnindexedCarries ==
    ASSUME NEW e \in Tables, NEW list \in Seq(Fields),
           NEW block, block = [k \in DOMAIN list |-> Unindexed(e, list[k])]
    PROVE  Carries("Other", e, block, e, list)
  <1>1. ASSUME NEW d \in Tables, Sync("Other", e, d)
        PROVE  DecodeBlock(d, block).list = list /\ DecodeBlock(d, block).table = d
    BY <1>1, UnindexedInStep DEF Sync
  <1> HIDE DEF Sync
  <1> QED
    BY <1>1 DEF Carries

\* The blocks of another encoder that has changed the size of its table.
LEMMA UpdatedCarries ==
    ASSUME RefusedStatic, NEW e \in Tables, NEW list \in Seq(Fields),
           NEW size \in 0 .. TableSize
    PROVE  /\ EncodeBlock(Resized(e, size), list).table \in Tables
           /\ Carries("Other", e, Updated(e, size, list),
                      EncodeBlock(Resized(e, size), list).table, list)
  <1>0. size \in Nat /\ Resized(e, size) \in Tables
    BY ResizedIsTable, HpackAssumption
  <1>1. PICK e2, whole : /\ e2 = EncodeBlock(Resized(e, size), list).table
                         /\ whole = Updated(e, size, list)
    OBVIOUS
  <1>2. /\ e2 \in Tables
        /\ (\A k \in DOMAIN list : list[k] \in StaticFields) => e2 = Resized(e, size)
    BY <1>0, <1>1, BlockInStep
  <1>3. ASSUME NEW d \in Tables, Sync("Other", e, d)
        PROVE  /\ DecodeBlock(d, whole).list = list
               /\ DecodeBlock(d, whole).table \in Tables
               /\ Sync("Other", e2, DecodeBlock(d, whole).table)
               /\ list \in RefusedLists => Sync("Other", e2, d)
    <2>1. IsPrefix(e.entries, d.entries)
      BY <1>3 DEF Sync
    <2>2. PICK t \in Tables : /\ DecodeBlock(d, whole).list = list
                              /\ DecodeBlock(d, whole).table = t
                              /\ InStep(e2, t)
      BY <1>1, <2>1, UpdatedInStep
    <2>3. IsPrefix(Resized(e, size).entries, d.entries)
      BY <1>0, <2>1, ResizedAlone
    <2>4. list \in RefusedLists => e2 = Resized(e, size)
      BY <1>2 DEF RefusedStatic
    <2> QED
      BY <2>2, <2>3, <2>4 DEF Sync, InStep
  <1> QED
    BY <1>1, <1>2, <1>3 DEF Carries
-------------------------------------------------------------------------------
(***************************************************************************)
(* The inductive invariant: what came out is the first part of what went   *)
(* in, and the blocks under way lead from the decoder's table to the       *)
(* encoder's, es[k] being what the encoder's was before the k-th of them.  *)
(***************************************************************************)
UnderWay(es) ==
    /\ \A k \in 1 .. Len(frames) + 1 : es[k] \in Tables
    /\ Sync(sender, es[1], decoder)
    /\ es[Len(frames) + 1] = encoder
    /\ \A k \in 1 .. Len(frames) :
          Carries(sender, es[k], frames[k], es[k + 1], encoded[Len(decoded) + k])

IInv ==
    /\ sender \in {"This", "Other"}
    /\ decoder \in Tables
    /\ \E blocks : frames \in Seq(blocks)
    /\ encoded \in Seq(HeaderLists) /\ decoded \in Seq(HeaderLists)
    /\ Len(encoded) = Len(decoded) + Len(frames)
    /\ \A k \in 1 .. Len(decoded) : decoded[k] = encoded[k]
    /\ \E es : UnderWay(es)

\* Nothing is under way at first and the tables are empty.
LEMMA InitIInv == Init => IInv
  <1> SUFFICES ASSUME Init PROVE IInv
    OBVIOUS
  <1>1. /\ frames = <<>> /\ encoded = <<>> /\ decoded = <<>>
        /\ encoder = EmptyTable /\ decoder = EmptyTable /\ sender \in {"This", "Other"}
        /\ EmptyTable \in Tables
    BY EmptyIsTable DEF Init
  <1>2. Sync(sender, EmptyTable, EmptyTable)
    <2>1. EmptyTable.maxSize = TableSize /\ TableSize <= TableSize
      BY HpackAssumption DEF EmptyTable
    <2>2. IsPrefix(EmptyTable.entries, EmptyTable.entries)
      BY <1>1, OwnStep DEF InStep
    <2> QED
      BY <2>1, <2>2 DEF Sync
  <1>3. Len(frames) = 0 /\ Len(encoded) = 0 /\ Len(decoded) = 0
        /\ frames \in Seq({}) /\ encoded \in Seq(HeaderLists) /\ decoded \in Seq(HeaderLists)
    BY <1>1
  <1>4. PICK es : es = [k \in {1} |-> EmptyTable]
    OBVIOUS
  <1>5. UnderWay(es)
    BY <1>1, <1>2, <1>3, <1>4 DEF UnderWay
  <1> QED
    BY <1>1, <1>3, <1>5 DEF IInv

\* A block that is sent leads on from the encoder's table to the next.
LEMMA SentIInv ==
    ASSUME IInv, NEW block, NEW table \in Tables, NEW list \in HeaderLists,
           frames' = Append(frames, block), encoder' = table,
           encoded' = Append(encoded, list), UNCHANGED <<sender, decoder, decoded>>,
           Carries(sender, encoder, block, table, list)
    PROVE  IInv'
  <1>1. PICK es, X : UnderWay(es) /\ frames \in Seq(X)
    BY DEF IInv
  <1>2. PICK n \in Nat, m \in Nat : /\ n = Len(frames) /\ m = Len(decoded)
                                    /\ Len(encoded) = m + n
    BY <1>1 DEF IInv
  <1>3. /\ frames' \in Seq(X \cup {block}) /\ Len(frames') = n + 1
        /\ \A k \in 1 .. n : frames'[k] = frames[k]
        /\ frames'[n + 1] = block
    <2>1. frames \in Seq(X \cup {block}) /\ block \in X \cup {block}
      BY <1>1
    <2> QED
      BY <1>2, <2>1
  <1>4. /\ encoded' \in Seq(HeaderLists) /\ Len(encoded') = m + n + 1
        /\ \A k \in 1 .. m + n : encoded'[k] = encoded[k]
        /\ encoded'[m + n + 1] = list
    <2>1. PICK p \in Nat : p = m + n
      BY <1>2
    <2>2. encoded \in Seq(HeaderLists) /\ Len(encoded) = p
      BY <1>2, <2>1 DEF IInv
    <2>3. /\ encoded' \in Seq(HeaderLists) /\ Len(encoded') = p + 1
          /\ \A k \in 1 .. p : encoded'[k] = encoded[k]
          /\ encoded'[p + 1] = list
      BY <2>2
    <2> QED
      BY <2>1, <2>3
  <1> DEFINE es2 == [k \in 1 .. n + 2 |-> IF k = n + 2 THEN table ELSE es[k]]
  <1>5. (\A k \in 1 .. n + 1 : es2[k] = es[k]) /\ es2[n + 2] = table
    BY <1>2
  <1> HIDE DEF es2
  <1>6. UnderWay(es2)'
    <2>1. \A k \in 1 .. n + 2 : es2[k] \in Tables
      <3>1. \A k \in 1 .. n + 1 : es[k] \in Tables
        BY <1>1, <1>2 DEF UnderWay
      <3>2. \A k \in 1 .. n + 2 : k \in 1 .. n + 1 \/ k = n + 2
        BY <1>2
      <3> QED
        BY <1>5, <3>1, <3>2
    <2>2. Sync(sender, es2[1], decoder)
      <3>1. 1 \in 1 .. n + 1
        BY <1>2
      <3> QED
        BY <1>1, <1>5, <3>1 DEF UnderWay
    <2>3. ASSUME NEW k \in 1 .. n + 1
          PROVE  Carries(sender, es2[k], frames'[k], es2[k + 1], encoded'[m + k])
      <3>1. CASE k = n + 1
        <4>1. es2[k] = encoder /\ es2[k + 1] = table /\ encoded'[m + k] = list /\ frames'[k] = block
          <5>1. es[n + 1] = encoder
            BY <1>1, <1>2 DEF UnderWay
          <5>2. k \in 1 .. n + 1 /\ k + 1 = n + 2 /\ m + k = m + n + 1
            BY <1>2, <3>1
          <5> QED
            BY <1>3, <1>4, <1>5, <3>1, <5>1, <5>2
        <4> QED
          BY <4>1
      <3>2. CASE k # n + 1
        <4>1. k \in 1 .. n /\ k \in 1 .. n + 1 /\ k + 1 \in 1 .. n + 1 /\ m + k \in 1 .. m + n
          BY <1>2, <3>2
        <4>2. Carries(sender, es[k], frames[k], es[k + 1], encoded[m + k])
          BY <1>1, <1>2, <4>1 DEF UnderWay
        <4> QED
          BY <1>3, <1>4, <1>5, <4>1, <4>2
      <3> QED
        BY <3>1, <3>2
    <2>4. (n + 1) + 1 = n + 2
      BY <1>2
    <2> QED
      BY <1>2, <1>3, <1>5, <2>1, <2>2, <2>3, <2>4 DEF UnderWay
  <1>7. Len(encoded') = Len(decoded') + Len(frames')
        /\ \A k \in 1 .. Len(decoded') : decoded'[k] = encoded'[k]
    BY <1>2, <1>3, <1>4 DEF IInv
  <1> QED
    BY <1>3, <1>4, <1>6, <1>7 DEF IInv

\* The encoder's table takes another size, up to the default, behind what is
\* under way.
LEMMA ResizedIInv ==
    ASSUME IInv, NEW size \in Nat, size <= TableSize,
           encoder' = Resized(encoder, size),
           UNCHANGED <<sender, decoder, frames, encoded, decoded>>
    PROVE  IInv'
  <1>1. PICK es : UnderWay(es)
    BY DEF IInv
  <1>2. PICK n \in Nat : n = Len(frames)
    BY DEF IInv
  <1>3. encoder \in Tables /\ encoder' \in Tables /\ es[n + 1] = encoder
    <2>1. n + 1 \in 1 .. n + 1
      BY <1>2
    <2> QED
      BY <1>1, <1>2, <2>1, ResizedIsTable DEF UnderWay
  <1>4. ASSUME NEW d \in Tables, Sync(sender, encoder, d)
        PROVE  Sync(sender, encoder', d)
    <2>1. IsPrefix(encoder'.entries, d.entries)
      BY <1>3, <1>4, ResizedAlone DEF Sync
    <2>2. encoder'.maxSize = size
      BY <1>3, ResizedIsTable
    <2> QED
      BY <1>4, <2>1, <2>2 DEF Sync
  <1>10. PICK table : table = encoder'
    OBVIOUS
  <1> DEFINE es2 == [k \in 1 .. n + 1 |-> IF k = n + 1 THEN table ELSE es[k]]
  <1>5. (\A k \in 1 .. n : es2[k] = es[k]) /\ es2[n + 1] = encoder'
    BY <1>2, <1>10
  <1> HIDE DEF es2
  <1>6. UnderWay(es2)'
    <2>1. \A k \in 1 .. n + 1 : es2[k] \in Tables
      <3>1. \A k \in 1 .. n : es[k] \in Tables
        BY <1>1, <1>2 DEF UnderWay
      <3>2. \A k \in 1 .. n + 1 : k \in 1 .. n \/ k = n + 1
        BY <1>2
      <3> QED
        BY <1>3, <1>5, <3>1, <3>2
    <2>2. Sync(sender, es2[1], decoder)
      <3>1. Sync(sender, es[1], decoder) /\ decoder \in Tables
        BY <1>1 DEF UnderWay, IInv
      <3>2. CASE n = 0
        BY <1>3, <1>4, <1>5, <3>1, <3>2
      <3>3. CASE n # 0
        <4>1. 1 \in 1 .. n
          BY <1>2, <3>3
        <4> QED
          BY <1>5, <3>1, <4>1
      <3> QED
        BY <3>2, <3>3
    <2>3. ASSUME NEW k \in 1 .. n
          PROVE  Carries(sender, es2[k], frames[k], es2[k + 1], encoded[Len(decoded) + k])
      <3>0. PICK list : list = encoded[Len(decoded) + k]
        OBVIOUS
      <3>1. Carries(sender, es[k], frames[k], es[k + 1], list) /\ es2[k] = es[k]
        BY <1>1, <1>2, <1>5, <3>0 DEF UnderWay
      <3>2. CASE k = n
        <4>1. es[k + 1] = encoder /\ es2[k + 1] = encoder'
          BY <1>3, <1>5, <3>2
        <4>2. Carries(sender, es[k], frames[k], encoder', list)
          BY <1>4, <3>1, <4>1 DEF Carries
        <4> QED
          BY <3>0, <3>1, <4>1, <4>2
      <3>3. CASE k # n
        <4>1. k + 1 \in 1 .. n
          BY <1>2, <3>3
        <4> QED
          BY <1>5, <3>0, <3>1, <4>1
      <3> QED
        BY <3>2, <3>3
    <2>4. \A k \in 1 .. Len(frames') + 1 : es2[k] \in Tables
      BY <1>2, <2>1
    <2>5. Sync(sender', es2[1], decoder')
      BY <2>2
    <2>6. es2[Len(frames') + 1] = encoder'
      BY <1>2, <1>5
    <2>7. \A k \in 1 .. Len(frames') :
             Carries(sender', es2[k], frames'[k], es2[k + 1], encoded'[Len(decoded') + k])
      BY <1>2, <2>3
    <2> QED
      BY <2>4, <2>5, <2>6, <2>7 DEF UnderWay
  <1>7. /\ frames' = frames /\ encoded' = encoded /\ decoded' = decoded
        /\ sender' = sender /\ decoder' = decoder
    OBVIOUS
  <1>8. PICK X : frames' \in Seq(X)
    BY <1>7 DEF IInv
  <1>9. /\ sender' \in {"This", "Other"} /\ decoder' \in Tables
        /\ encoded' \in Seq(HeaderLists) /\ decoded' \in Seq(HeaderLists)
        /\ Len(encoded') = Len(decoded') + Len(frames')
        /\ \A k \in 1 .. Len(decoded') : decoded'[k] = encoded'[k]
    BY <1>7 DEF IInv
  <1> QED
    BY <1>6, <1>8, <1>9 DEF IInv

\* A block that is handled, decoded or refused, brings its list.
LEMMA HandledIInv ==
    ASSUME IInv, frames # <<>>, frames' = Tail(frames), NEW list, NEW d \in Tables,
           list = encoded[Len(decoded) + 1],
           decoded' = Append(decoded, list), decoder' = d,
           UNCHANGED <<sender, encoder, encoded>>,
           \A e2 : \A e \in Tables :
              Sync(sender, e, decoder) /\ Carries(sender, e, Head(frames), e2, list) =>
                 Sync(sender, e2, d)
    PROVE  IInv'
  <1>1. PICK es, X : UnderWay(es) /\ frames \in Seq(X)
    BY DEF IInv
  <1>2. PICK n \in Nat, m \in Nat : /\ n = Len(frames) /\ m = Len(decoded)
                                    /\ Len(encoded) = m + n /\ n >= 1
    <2>1. Len(frames) \in Nat /\ Len(decoded) \in Nat /\ Len(encoded) = Len(decoded) + Len(frames)
      BY <1>1 DEF IInv
    <2>2. Len(frames) # 0
      BY <1>1
    <2> QED
      BY <2>1, <2>2
  <1>3. /\ frames' \in Seq(X) /\ Len(frames') = n - 1
        /\ \A k \in 1 .. n - 1 : frames'[k] = frames[k + 1]
        /\ Head(frames) = frames[1]
    BY <1>1, <1>2
  <1>4. list \in HeaderLists
    <2>1. encoded \in Seq(HeaderLists) /\ m + 1 \in 1 .. Len(encoded)
      BY <1>2 DEF IInv
    <2> QED
      BY <1>2, <2>1
  <1>5. /\ decoded' \in Seq(HeaderLists) /\ Len(decoded') = m + 1
        /\ \A k \in 1 .. m : decoded'[k] = decoded[k]
        /\ decoded'[m + 1] = list
    <2>1. decoded \in Seq(HeaderLists) /\ Len(decoded) = m
      BY <1>2 DEF IInv
    <2> QED
      BY <1>4, <2>1
  <1> DEFINE es2 == [k \in 1 .. n |-> es[k + 1]]
  <1>6. \A k \in 1 .. n : es2[k] = es[k + 1]
    OBVIOUS
  <1> HIDE DEF es2
  <1>7. UnderWay(es2)'
    <2>1. \A k \in 1 .. n : es2[k] \in Tables
      <3>1. \A k \in 1 .. n : k + 1 \in 1 .. n + 1
        BY <1>2
      <3> QED
        BY <1>1, <1>2, <1>6, <3>1 DEF UnderWay
    <2>2. Sync(sender, es2[1], d)
      <3>1. 1 \in 1 .. n /\ 1 \in 1 .. n + 1 /\ 1 + 1 = 2
        BY <1>2
      <3>2. es[1] \in Tables /\ Sync(sender, es[1], decoder)
        BY <1>1, <1>2, <3>1 DEF UnderWay
      <3>3. Carries(sender, es[1], frames[1], es[2], encoded[Len(decoded) + 1])
        BY <1>1, <1>2, <3>1 DEF UnderWay
      <3>4. Carries(sender, es[1], Head(frames), es[2], list)
        BY <1>3, <3>3
      <3>5. es2[1] = es[2]
        BY <1>6, <3>1
      <3> QED
        BY <3>2, <3>4, <3>5
    <2>3. es2[n] = encoder
      <3>1. n \in 1 .. n
        BY <1>2
      <3> QED
        BY <1>1, <1>2, <1>6, <3>1 DEF UnderWay
    <2>4. ASSUME NEW k \in 1 .. n - 1
          PROVE  Carries(sender, es2[k], frames'[k], es2[k + 1], encoded[(m + 1) + k])
      <3>1. k \in 1 .. n /\ k + 1 \in 1 .. n /\ m + (k + 1) = (m + 1) + k
        BY <1>2
      <3>2. Carries(sender, es[k + 1], frames[k + 1], es[(k + 1) + 1], encoded[m + (k + 1)])
        BY <1>1, <1>2, <3>1 DEF UnderWay
      <3> QED
        BY <1>3, <1>6, <3>1, <3>2
    <2>5. (n - 1) + 1 = n
      BY <1>2
    <2> QED
      BY <1>3, <1>5, <2>1, <2>2, <2>3, <2>4, <2>5 DEF UnderWay
  <1>8. /\ Len(encoded') = Len(decoded') + Len(frames')
        /\ \A k \in 1 .. Len(decoded') : decoded'[k] = encoded'[k]
    <2>1. \A k \in 1 .. m + 1 : decoded'[k] = encoded[k]
      <3>1. ASSUME NEW k \in 1 .. m + 1 PROVE decoded'[k] = encoded[k]
        <4>1. CASE k = m + 1
          BY <1>2, <1>5, <4>1
        <4>2. CASE k # m + 1
          <5>1. k \in 1 .. m
            BY <1>2, <4>2
          <5> QED
            BY <1>2, <1>5, <5>1 DEF IInv
        <4> QED
          BY <4>1, <4>2
      <3> QED
        BY <3>1
    <2> QED
      BY <1>2, <1>3, <1>5, <2>1
  <1> QED
    BY <1>3, <1>5, <1>7, <1>8 DEF IInv

\* The next block under way carries the next list.
LEMMA NextBlock ==
    ASSUME IInv, frames # <<>>
    PROVE  \E e \in Tables : \E e2 :
              /\ Sync(sender, e, decoder)
              /\ Carries(sender, e, Head(frames), e2, encoded[Len(decoded) + 1])
  <1>1. PICK es, X : UnderWay(es) /\ frames \in Seq(X)
    BY DEF IInv
  <1>2. 1 \in 1 .. Len(frames) /\ 1 \in 1 .. Len(frames) + 1 /\ Head(frames) = frames[1]
    BY <1>1
  <1>3. es[1] \in Tables /\ Sync(sender, es[1], decoder)
    BY <1>1, <1>2 DEF UnderWay
  <1>4. Carries(sender, es[1], frames[1], es[1 + 1], encoded[Len(decoded) + 1])
    BY <1>1, <1>2 DEF UnderWay
  <1> QED
    BY <1>2, <1>3, <1>4

\* Every step keeps it.
LEMMA NextIInv ==
    ASSUME RefusedStatic, SizesUpToDefault, IInv, [Next]_vars
    PROVE  IInv'
  <1>1. encoder \in Tables /\ decoder \in Tables
    <2>1. PICK es, X : UnderWay(es) /\ frames \in Seq(X)
      BY DEF IInv
    <2>2. Len(frames) + 1 \in 1 .. Len(frames) + 1
      BY <2>1
    <2> QED
      BY <2>1, <2>2 DEF UnderWay, IInv
  <1>2. HeaderLists \subseteq Seq(Fields) /\ OtherLists \subseteq HeaderLists
    BY HpackAssumption
  <1>3. ASSUME NEW list \in HeaderLists, SendHeaders(list) PROVE IInv'
    <2>1. PICK r : r = EncodeBlock(encoder, list)
      OBVIOUS
    <2>2. PICK block, table : block = r.block /\ table = r.table
      OBVIOUS
    <2>3. table \in Tables /\ Carries("This", encoder, block, table, list)
      BY <1>1, <1>2, <1>3, <2>1, <2>2, ThisCarries
    <2>4. /\ sender = "This" /\ frames' = Append(frames, block) /\ encoder' = table
          /\ encoded' = Append(encoded, list) /\ UNCHANGED <<sender, decoder, decoded>>
      BY <1>3, <2>1, <2>2 DEF SendHeaders
    <2> QED
      BY <2>3, <2>4, SentIInv
  <1>4. ASSUME NEW list \in OtherLists, SendUnindexed(list) PROVE IInv'
    <2>1. PICK block : block = [k \in DOMAIN list |-> Unindexed(encoder, list[k])]
      OBVIOUS
    <2>2. Carries("Other", encoder, block, encoder, list)
      BY <1>1, <1>2, <2>1, UnindexedCarries
    <2>3. /\ sender = "Other" /\ frames' = Append(frames, block) /\ encoder' = encoder
          /\ encoded' = Append(encoded, list) /\ UNCHANGED <<sender, decoder, decoded>>
      BY <1>4, <2>1 DEF SendUnindexed, SendOther
    <2> QED
      BY <1>1, <1>2, <2>2, <2>3, SentIInv
  <1>5. ASSUME NEW size \in UpdateSizes, NEW list \in OtherLists, SendUpdated(size, list)
        PROVE  IInv'
    <2>0. size \in 0 .. TableSize
      BY HpackAssumption
    <2>1. PICK block, table : /\ block = Updated(encoder, size, list)
                              /\ table = EncodeBlock(Resized(encoder, size), list).table
      OBVIOUS
    <2>2. table \in Tables /\ Carries("Other", encoder, block, table, list)
      BY <1>1, <1>2, <2>0, <2>1, UpdatedCarries
    <2>3. /\ sender = "Other" /\ frames' = Append(frames, block) /\ encoder' = table
          /\ encoded' = Append(encoded, list) /\ UNCHANGED <<sender, decoder, decoded>>
      BY <1>5, <2>1 DEF SendUpdated, SendOther, Updated
    <2> QED
      BY <1>2, <2>2, <2>3, SentIInv
  <1>6. ASSUME NEW size \in SettingsSizes, RecvSettings(size) PROVE IInv'
    BY <1>6, HpackAssumption, ResizedIInv DEF RecvSettings, SizesUpToDefault
  <1>7. CASE RecvHeaders
    <2>1. PICK r, list, d : /\ r = DecodeBlock(decoder, Head(frames))
                            /\ list = encoded[Len(decoded) + 1] /\ d = r.table
      OBVIOUS
    <2>2. d \in Tables /\ r.list = list
      BY <1>1, <1>7, <2>1, NextBlock DEF Carries, RecvHeaders
    <2>3. \A e2 : \A e \in Tables :
             Sync(sender, e, decoder) /\ Carries(sender, e, Head(frames), e2, list) =>
                Sync(sender, e2, d)
      BY <1>1, <2>1 DEF Carries
    <2>4. /\ frames # <<>> /\ frames' = Tail(frames) /\ decoder' = d
          /\ decoded' = Append(decoded, list) /\ UNCHANGED <<sender, encoder, encoded>>
      BY <1>7, <2>1, <2>2 DEF RecvHeaders
    <2> QED
      BY <2>1, <2>2, <2>3, <2>4, HandledIInv
  <1>8. CASE RefuseHeaders
    <2>1. PICK list : list = encoded[Len(decoded) + 1]
      OBVIOUS
    <2>2. PICK d \in Tables : d = decoder
      BY <1>1
    <2>3. \A e2 : \A e \in Tables :
             Sync(sender, e, decoder) /\ Carries(sender, e, Head(frames), e2, list) =>
                Sync(sender, e2, d)
      BY <1>1, <1>8, <2>1, <2>2 DEF Carries, RefuseHeaders
    <2>4. /\ frames # <<>> /\ frames' = Tail(frames) /\ decoder' = d
          /\ decoded' = Append(decoded, list) /\ UNCHANGED <<sender, encoder, encoded>>
      BY <1>8, <2>1, <2>2 DEF RefuseHeaders
    <2> QED
      BY <2>1, <2>3, <2>4, HandledIInv
  <1>9. CASE UNCHANGED vars
    BY <1>9 DEF vars, IInv, UnderWay
  <1> QED
    BY <1>3, <1>4, <1>5, <1>6, <1>7, <1>8, <1>9 DEF Next
-------------------------------------------------------------------------------
(***************************************************************************)
(* The theorems                                                            *)
(***************************************************************************)

\* The invariant holds of every behaviour.
LEMMA IInvHolds == ASSUME RefusedStatic, SizesUpToDefault PROVE Spec => []IInv
  <1>1. IInv /\ [Next]_vars => IInv'
    BY NextIInv
  <1> QED
    BY <1>1, InitIInv, PTL DEF Spec

\* What the invariant says of the two tables.
LEMMA IInvFacts == IInv => TypeOK /\ TablesInStep
  <1> SUFFICES ASSUME IInv PROVE TypeOK /\ TablesInStep
    OBVIOUS
  <1>1. PICK es, X : UnderWay(es) /\ frames \in Seq(X)
    BY DEF IInv
  <1>2. Len(frames) \in Nat /\ Len(encoded) \in Nat /\ Len(decoded) \in Nat
    BY <1>1 DEF IInv
  <1>3. encoder \in Tables /\ decoder \in Tables
    <2>1. Len(frames) + 1 \in 1 .. Len(frames) + 1
      BY <1>2
    <2> QED
      BY <1>1, <2>1 DEF UnderWay, IInv
  <1>4. TypeOK
    BY <1>2, <1>3 DEF TypeOK, IInv, Tables
  <1>5. ASSUME frames = <<>> PROVE IsPrefix(encoder.entries, decoder.entries)
    <2>1. Len(frames) + 1 = 1
      BY <1>5
    <2> QED
      BY <1>1, <2>1 DEF UnderWay, Sync
  <1> QED
    BY <1>4, <1>5 DEF TablesInStep

\* Neither table ever holds more than its size allows, whatever is inserted,
\* evicted and resized, and every block under way is still to come out.
THEOREM TypeCorrect == ASSUME RefusedStatic, SizesUpToDefault PROVE Spec => []TypeOK
  <1>1. IInv => TypeOK
    BY IInvFacts
  <1> QED
    BY <1>1, IInvHolds, PTL

\* With nothing under way the encoder's entries are the newest of the decoder's,
\* so that every index encode_header may write names the same field in
\* decode_header: for every order of insertions, evictions, SETTINGS that make
\* the encoder's table smaller or larger again, and size updates.
THEOREM TablesInStepHolds ==
    ASSUME RefusedStatic, SizesUpToDefault PROVE Spec => []TablesInStep
  <1>1. IInv => TablesInStep
    BY IInvFacts
  <1> QED
    BY <1>1, IInvHolds, PTL

\* Every step sends lists, or brings the next of them, or does neither.
LEMMA StepRefines ==
    ASSUME IInv, IInv', [Next]_vars
    PROVE  [Channel!Next]_<<encoded, decoded>>
  <1>0. /\ encoded \in Seq(HeaderLists) /\ decoded \in Seq(HeaderLists)
        /\ encoded' \in Seq(HeaderLists) /\ decoded' \in Seq(HeaderLists)
        /\ Len(encoded) \in Nat /\ Len(decoded) \in Nat
    BY DEF IInv
  <1>1. ASSUME NEW list, encoded' = Append(encoded, list), decoded' = decoded
        PROVE  Channel!Send
    <2>0. PICK X, n : X = HeaderLists \cup {list} /\ n = Len(encoded) /\ n \in Nat
      BY <1>0
    <2>1. encoded \in Seq(X) /\ list \in X
      BY <1>0, <2>0
    <2>2. /\ encoded' \in Seq(X) /\ Len(encoded') = n + 1
          /\ \A k \in 1 .. n : encoded'[k] = encoded[k]
      BY <1>1, <2>0, <2>1
    <2>3. SubSeq(encoded', 1, n) = encoded
      <3>1. /\ SubSeq(encoded', 1, n) \in Seq(X)
            /\ Len(SubSeq(encoded', 1, n)) = n
            /\ \A k \in 1 .. n : SubSeq(encoded', 1, n)[k] = encoded'[k]
        BY <2>0, <2>1, <2>2, SubSeqProperties
      <3> QED
        BY <2>0, <2>1, <2>2, <3>1, SeqEqual
    <2> QED
      BY <1>1, <2>0, <2>2, <2>3 DEF Channel!Send
  <1>2. ASSUME NEW list, decoded' = Append(decoded, list), encoded' = encoded
        PROVE  Channel!Receive
    <2>1. PICK m \in Nat, n \in Nat : m = Len(decoded) /\ n = Len(decoded')
      BY <1>0
    <2>2. n = m + 1
      <3>1. PICK X : decoded \in Seq(X) /\ list \in X
        <4>1. decoded \in Seq(HeaderLists \cup {list}) /\ list \in HeaderLists \cup {list}
          BY <1>0
        <4> QED
          BY <4>1
      <3> QED
        BY <1>2, <2>1, <3>1
    <2>3. /\ n <= Len(encoded)
          /\ \A k \in 1 .. n : decoded'[k] = encoded[k]
      <3>1. Len(encoded') = Len(decoded') + Len(frames') /\ \E X : frames' \in Seq(X)
            /\ \A k \in 1 .. Len(decoded') : decoded'[k] = encoded'[k]
        BY DEF IInv
      <3>2. Len(frames') \in Nat
        BY <3>1
      <3> QED
        BY <1>0, <1>2, <2>1, <3>1, <3>2
    <2>4. decoded' = SubSeq(encoded, 1, n)
      <3>1. /\ SubSeq(encoded, 1, n) \in Seq(HeaderLists)
            /\ Len(SubSeq(encoded, 1, n)) = n
            /\ \A k \in 1 .. n : SubSeq(encoded, 1, n)[k] = encoded[k]
        BY <1>0, <2>1, <2>3, SubSeqProperties
      <3> QED
        BY <1>0, <2>1, <2>3, <3>1, SeqEqual
    <2> QED
      BY <1>2, <2>1, <2>2, <2>3, <2>4 DEF Channel!Receive
  <1>3. \/ \E list : encoded' = Append(encoded, list) /\ decoded' = decoded
        \/ \E list : decoded' = Append(decoded, list) /\ encoded' = encoded
        \/ UNCHANGED <<encoded, decoded>>
    BY DEF Next, SendHeaders, SendUnindexed, SendUpdated, SendOther, RecvSettings, RecvHeaders,
           RefuseHeaders, vars
  <1> QED
    BY <1>1, <1>2, <1>3 DEF Channel!Next

\* The header lists that come out are those that went in, in order and each
\* once, as long as a list the server refuses undecoded is of the static table
\* alone and no SETTINGS_HEADER_TABLE_SIZE is above the default: header
\* compression implements the channel of Fifo.
THEOREM HeadersArriveHolds == ASSUME RefusedStatic, SizesUpToDefault PROVE Spec => HeadersArrive
  <1>1. Init => Channel!Init
    BY DEF Init, Channel!Init
  <1>2. IInv /\ IInv' /\ [Next]_vars => [Channel!Next]_<<encoded, decoded>>
    BY StepRefines
  <1> QED
    BY <1>1, <1>2, IInvHolds, PTL DEF Spec, HeadersArrive, Channel!Spec
===============================================================================

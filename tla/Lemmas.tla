------------------------------- MODULE Lemmas -------------------------------
(* What the proofs of several components need: the induction over the turns  *)
(* of a loop, what searching a list, inserting there and removing from there *)
(* return, division, and the mean of two colours with weights.               *)
EXTENDS Integers, SequencesExt, SequenceTheorems, FiniteSetTheorems, WellFoundedInduction, TLAPS

-----------------------------------------------------------------------------
(* Induction over the natural numbers, stated with a set                     *)

(* A set of numbers that is not empty has a least one.                       *)
LEMMA LeastNatural ==
  ASSUME NEW T, T \subseteq Nat, T # {}
  PROVE  \E n \in T : \A m \in T : n <= m
<1> DEFINE R == {ss \in Nat \X Nat : ss[1] < ss[2]}
<1>1. IsWellFoundedOn(R, Nat)
  BY NatLessThanWellFounded DEF OpToRel
<1>2. PICK n \in T : \A m \in T : <<m, n>> \notin R
  <2> HIDE DEF R
  <2> QED
    BY <1>1, WFMin
<1>3. ASSUME NEW m \in T PROVE n <= m
  <2>1. ~(m < n)
    BY <1>2, m \in Nat, n \in Nat
  <2>2. QED
    BY <2>1
<1>4. QED
  BY <1>2, <1>3

(* A set that holds 0 and with each number the next one holds them all.      *)
LEMMA SetInduction ==
  ASSUME NEW T, 0 \in T, \A n \in Nat : n \in T => n + 1 \in T
  PROVE  Nat \subseteq T
<1> SUFFICES ASSUME Nat \ T # {} PROVE FALSE
  OBVIOUS
<1>1. PICK n \in Nat \ T : \A m \in Nat \ T : n <= m
  BY LeastNatural
<1>2. n # 0
  OBVIOUS
<1>3. n - 1 \in Nat /\ n - 1 \in T
  BY <1>1, <1>2
<1>4. QED
  BY <1>3

-----------------------------------------------------------------------------
(* The first place of a key in a list, and what inserting and removing there *)
(* leaves                                                                    *)

Place(keys, k) == SelectInSeq(keys, LAMBDA x : x = k)

(* The search returns a place of the key, and the first one.                 *)
LEMMA PlaceOf ==
  ASSUME NEW X, NEW keys \in Seq(X), NEW k, Contains(keys, k)
  PROVE  /\ Place(keys, k) \in 1..Len(keys)
         /\ keys[Place(keys, k)] = k
         /\ \A j \in 1..Len(keys) : keys[j] = k => Place(keys, k) <= j
<1> DEFINE I == {i \in 1..Len(keys) : keys[i] = k}
<1>1. I # {} /\ I \subseteq Nat
  BY LenProperties DEF Contains
<1>2. \E i \in I : \A j \in I : i <= j
  BY <1>1, LeastNatural
<1>3. Min(I) \in I /\ \A j \in I : Min(I) <= j
  BY <1>2 DEF Min
<1>4. Place(keys, k) = Min(I)
  BY <1>1 DEF Place, SelectInSeq
<1>5. QED
  BY <1>3, <1>4

(* A list into which a key is inserted still holds what it held.             *)
LEMMA Inserted ==
  ASSUME NEW X, NEW keys \in Seq(X), NEW i \in 1..Len(keys), NEW k \in X
  PROVE  /\ InsertAt(keys, i, k) \in Seq(X)
         /\ \A x : Contains(keys, x) => Contains(InsertAt(keys, i, k), x)
<1> DEFINE a == SubSeq(keys, 1, i - 1)
           b == SubSeq(keys, i, Len(keys))
<1>1. /\ a \in Seq(X) /\ Len(a) = i - 1
      /\ \A j \in 1..(i - 1) : a[j] = keys[j]
  BY LenProperties, ElementOfSeq, SubSeqProperties
<1>2. /\ b \in Seq(X) /\ Len(b) = Len(keys) - i + 1
      /\ \A j \in 1..(Len(keys) - i + 1) : b[j] = keys[i + j - 1]
  BY LenProperties, ElementOfSeq, SubSeqProperties
<1>3. <<k>> \in Seq(X) /\ Len(<<k>>) = 1
  OBVIOUS
<1> DEFINE u == a \o <<k>>
           s == u \o b
<1> HIDE DEF a, b
<1>4. /\ u \in Seq(X) /\ Len(u) = i
      /\ \A j \in 1..(i - 1) : u[j] = keys[j]
  BY <1>1, <1>3, ConcatProperties
<1>5. InsertAt(keys, i, k) = s
  BY DEF InsertAt, a, b
<1> HIDE DEF u, s
<1>6. /\ s \in Seq(X)
      /\ Len(s) = Len(keys) + 1
      /\ \A j \in 1..(i - 1) : s[j] = keys[j]
      /\ \A j \in i..Len(keys) : s[j + 1] = keys[j]
  <2>1. Len(keys) \in Nat
    BY LenProperties
  <2>2. /\ s \in Seq(X)
        /\ Len(s) = Len(u) + Len(b)
        /\ \A j \in 1..(Len(u) + Len(b)) :
             s[j] = IF j <= Len(u) THEN u[j] ELSE b[j - Len(u)]
    BY <1>2, <1>4, ConcatProperties DEF s
  <2>3. Len(u) + Len(b) = Len(keys) + 1
    BY <1>2, <1>4, <2>1
  <2>4. ASSUME NEW j \in i..Len(keys)
        PROVE  s[j + 1] = keys[j]
    <3>1. s[j + 1] = b[j + 1 - i]
      BY <1>4, <2>1, <2>2, <2>3
    <3>2. j + 1 - i \in 1..(Len(keys) - i + 1) /\ i + (j + 1 - i) - 1 = j
      BY <2>1
    <3>3. b[j + 1 - i] = keys[i + (j + 1 - i) - 1]
      BY <1>2, <3>2
    <3>4. QED
      BY <3>1, <3>2, <3>3
  <2>5. ASSUME NEW j \in 1..(i - 1)
        PROVE  s[j] = keys[j]
    BY <1>4, <2>1, <2>2, <2>3
  <2>6. QED
    BY <2>2, <2>3, <2>4, <2>5
<1>7. ASSUME NEW x, Contains(keys, x)
      PROVE  Contains(InsertAt(keys, i, k), x)
  <2>1. PICK j \in 1..Len(keys) : keys[j] = x
    BY <1>7 DEF Contains
  <2>2. Len(keys) \in Nat
    BY LenProperties
  <2>3. CASE j < i
    <3>1. j \in 1..Len(s) /\ s[j] = x
      BY <1>6, <2>1, <2>2, <2>3
    <3>2. QED
      BY <1>5, <3>1 DEF Contains
  <2>4. CASE ~(j < i)
    <3>1. j + 1 \in 1..Len(s) /\ s[j + 1] = x
      BY <1>6, <2>1, <2>2, <2>4
    <3>2. QED
      BY <1>5, <3>1 DEF Contains
  <2>5. QED
    BY <2>3, <2>4
<1>8. QED
  BY <1>5, <1>6, <1>7

(* Unlocking leaves the list as it was but for the first k.                  *)
LEMMA Removed ==
  ASSUME NEW X, NEW keys \in Seq(X), NEW k, Contains(keys, k)
  PROVE  /\ RemoveFirst(keys, k) \in Seq(X)
         /\ Len(RemoveFirst(keys, k)) = Len(keys) - 1
         /\ \A j \in 1..(Len(keys) - 1) :
              RemoveFirst(keys, k)[j] = IF j < Place(keys, k) THEN keys[j] ELSE keys[j + 1]
         /\ keys[1] = k => RemoveFirst(keys, k) = Tail(keys)
<1> DEFINE p == Place(keys, k)
           a == SubSeq(keys, 1, p - 1)
           b == SubSeq(keys, p + 1, Len(keys))
<1>0. Len(keys) \in Nat /\ p \in 1..Len(keys)
  BY LenProperties, PlaceOf
<1>1. RemoveFirst(keys, k) = a \o b
  BY DEF RemoveFirst, RemoveAt, Place, Contains
<1> HIDE DEF p
<1>2. /\ a \in Seq(X) /\ Len(a) = p - 1
      /\ \A j \in 1..(p - 1) : a[j] = keys[j]
  BY <1>0, ElementOfSeq, SubSeqProperties
<1>3. /\ b \in Seq(X) /\ Len(b) = Len(keys) - p
      /\ \A j \in 1..(Len(keys) - p) : b[j] = keys[p + j]
  <2>1. \A j \in (p + 1)..Len(keys) : keys[j] \in X
    BY <1>0, ElementOfSeq
  <2>2. /\ b \in Seq(X)
        /\ Len(b) = IF p + 1 <= Len(keys) THEN Len(keys) - (p + 1) + 1 ELSE 0
        /\ \A j \in 1..(Len(keys) - (p + 1) + 1) : b[j] = keys[(p + 1) + j - 1]
    BY <1>0, <2>1, SubSeqProperties
  <2>3. QED
    BY <1>0, <2>2
<1> HIDE DEF a, b
<1>4. /\ a \o b \in Seq(X)
      /\ Len(a \o b) = Len(keys) - 1
      /\ \A j \in 1..(Len(keys) - 1) : (a \o b)[j] = IF j <= p - 1 THEN a[j] ELSE b[j - (p - 1)]
  <2>1. /\ a \o b \in Seq(X)
        /\ Len(a \o b) = Len(a) + Len(b)
        /\ \A j \in 1..(Len(a) + Len(b)) :
             (a \o b)[j] = IF j <= Len(a) THEN a[j] ELSE b[j - Len(a)]
    BY <1>2, <1>3, ConcatProperties
  <2>2. Len(a) + Len(b) = Len(keys) - 1
    BY <1>0, <1>2, <1>3
  <2>3. QED
    BY <1>2, <2>1, <2>2
<1>5. ASSUME NEW j \in 1..(Len(keys) - 1)
      PROVE  (a \o b)[j] = IF j < p THEN keys[j] ELSE keys[j + 1]
  BY <1>0, <1>2, <1>3, <1>4
<1>6. ASSUME keys[1] = k PROVE a \o b = Tail(keys)
  <2>1. p = 1
    <3>1. p <= 1
      BY <1>0, <1>6, PlaceOf, 1 \in 1..Len(keys) DEF p
    <3>2. QED
      BY <1>0, <3>1
  <2>2. keys # << >>
    BY <1>0, EmptySeq
  <2>3. /\ Tail(keys) \in Seq(X) /\ Len(Tail(keys)) = Len(keys) - 1
        /\ \A j \in 1..(Len(keys) - 1) : Tail(keys)[j] = keys[j + 1]
    BY <2>2, HeadTailProperties
  <2>4. ASSUME NEW j \in 1..(Len(keys) - 1) PROVE (a \o b)[j] = keys[j + 1]
    <3>1. ~(j < p)
      BY <1>0, <2>1
    <3>2. QED
      BY <1>5, <3>1
  <2>5. QED
    BY <1>4, <2>3, <2>4, SeqEqual
<1>7. QED
  BY <1>1, <1>4, <1>5, <1>6 DEF p

-----------------------------------------------------------------------------
(* The elements of a finite set in a row, and of two lists in a row          *)

(* Every element of a finite set is in the list of its elements.             *)
LEMMA InARow ==
  ASSUME NEW S, IsFiniteSet(S)
  PROVE  SetToSeq(S) \in Seq(S) /\ \A x \in S : Contains(SetToSeq(S), x)
<1> DEFINE n == Cardinality(S)
           s == SetToSeq(S)
<1>1. n \in Nat /\ \E f \in [1..n -> S] : IsInjective(f)
  BY FS_CardinalityType DEF ExistsBijection, Bijection, Injection, IsInjective
<1>2. s \in [1..n -> S] /\ IsInjective(s)
  BY <1>1 DEF SetToSeq
<1> HIDE DEF s
<1>3. s \in Surjection(1..n, S)
  <2>1. s \in Injection(1..n, S)
    BY <1>2 DEF Injection, IsInjective
  <2>2. Cardinality(1..n) = n
    BY <1>1, FS_Interval
  <2> HIDE DEF n
  <2>3. QED
    BY <2>1, <2>2, FS_Injection DEF n
<1>4. s \in Seq(S) /\ Len(s) = n
  BY <1>1, <1>2
<1>5. ASSUME NEW x \in S PROVE Contains(s, x)
  <2>1. PICK i \in 1..n : s[i] = x
    BY <1>3 DEF Surjection
  <2>2. QED
    BY <1>4, <2>1 DEF Contains
<1>6. QED
  BY <1>4, <1>5 DEF s

(* What one of two lists holds, the two in a row hold.                       *)
LEMMA InBoth ==
  ASSUME NEW X, NEW s \in Seq(X), NEW t \in Seq(X), NEW x,
         Contains(s, x) \/ Contains(t, x)
  PROVE  Contains(s \o t, x)
<1>1. /\ Len(s) \in Nat /\ Len(t) \in Nat
      /\ Len(s \o t) = Len(s) + Len(t)
      /\ \A i \in 1..(Len(s) + Len(t)) :
           (s \o t)[i] = IF i <= Len(s) THEN s[i] ELSE t[i - Len(s)]
  BY LenProperties, ConcatProperties
<1>2. CASE Contains(s, x)
  <2>1. PICK i \in 1..Len(s) : s[i] = x
    BY <1>2 DEF Contains
  <2>2. i \in 1..Len(s \o t) /\ (s \o t)[i] = x
    BY <1>1, <2>1
  <2>3. QED
    BY <2>2 DEF Contains
<1>3. CASE Contains(t, x)
  <2>1. PICK i \in 1..Len(t) : t[i] = x
    BY <1>3 DEF Contains
  <2>2. Len(s) + i \in 1..(Len(s) + Len(t)) /\ ~(Len(s) + i <= Len(s)) /\ Len(s) + i - Len(s) = i
    BY <1>1, <2>1
  <2>3. Len(s) + i \in 1..Len(s \o t) /\ (s \o t)[Len(s) + i] = x
    BY <1>1, <2>1, <2>2
  <2>4. QED
    BY <2>3 DEF Contains
<1>4. QED
  BY <1>2, <1>3

-----------------------------------------------------------------------------
(* Division                                                                  *)

(* Euclidean division, the only fact about \div and % that is used.          *)
LEMMA Division ==
  ASSUME NEW a \in Nat, NEW b \in Nat \ {0}
  PROVE  /\ a \div b \in Nat /\ a % b \in 0 .. b - 1
         /\ a = b * (a \div b) + (a % b)
BY SMT

(* A product of numbers is a number.                                         *)
LEMMA Product == \A m, n \in Nat : m * n \in Nat
BY SMT

(* A factor that grows makes a product grow.                                 *)
LEMMA ProductUp ==
  ASSUME NEW p \in Nat, NEW q \in Nat, NEW b \in Nat, p <= q
  PROVE  b * p <= b * q
BY SMT

(* A number below b times q has a quotient by b below q.                     *)
LEMMA QuotientBelow ==
  ASSUME NEW x \in Nat, NEW q \in Nat, NEW b \in Nat \ {0}, x < b * q
  PROVE  x \div b < q
<1>1. x \div b \in Nat /\ x % b \in 0 .. b - 1 /\ x = b * (x \div b) + (x % b)
  BY Division
<1> DEFINE p == x \div b
           r == x % b
<1>2. SUFFICES ASSUME q <= p PROVE FALSE
  BY <1>1
<1>3. b * q <= b * p
  BY <1>1, <1>2, ProductUp
<1>4. b * q \in Nat /\ b * p \in Nat
  BY <1>1, Product
<1> HIDE DEF p, r
<1>5. x = b * p + r /\ r >= 0 /\ r \in Nat
  BY <1>1 DEF p, r
<1>6. QED
  BY <1>3, <1>4, <1>5, SMT

(* A larger number has no smaller quotient.                                  *)
LEMMA QuotientGrows ==
  ASSUME NEW x \in Nat, NEW y \in Nat, NEW b \in Nat \ {0}, x <= y
  PROVE  x \div b <= y \div b
<1> DEFINE p == x \div b
           q == y \div b
           r == y % b
<1>1. /\ p \in Nat /\ q \in Nat /\ r \in 0 .. b - 1
      /\ y = b * q + r
  BY Division
<1>2. b * q \in Nat /\ b * (q + 1) = b * q + b /\ q + 1 \in Nat
  BY <1>1, Product, SMT
<1> HIDE DEF q, r
<1>3. x < b * (q + 1)
  BY <1>1, <1>2
<1>4. x \div b < q + 1
  BY <1>2, <1>3, QuotientBelow
<1>5. QED
  BY <1>1, <1>4

(* A multiple has its factor as quotient, and what is added below the        *)
(* divisor is the rest.                                                      *)
LEMMA QuotientExact ==
  ASSUME NEW q \in Nat, NEW b \in Nat \ {0}, NEW r \in 0 .. b - 1
  PROVE  (b * q + r) \div b = q /\ (b * q + r) % b = r
<1> DEFINE x == b * q + r
           p == x \div b
           t == x % b
<1>1. x \in Nat /\ b * q \in Nat /\ b * (q + 1) = b * q + b
  BY Product, SMT
<1>2. p \in Nat /\ t \in 0 .. b - 1 /\ x = b * p + t
  BY <1>1, Division
<1>3. x < b * (q + 1) /\ q + 1 \in Nat
  BY <1>1
<1>4. p < q + 1
  BY <1>1, <1>3, QuotientBelow
<1>5. p = q
  <2> HIDE DEF p, t
  <2>1. SUFFICES ASSUME p < q PROVE FALSE
    BY <1>2, <1>4
  <2>2. b * (p + 1) <= b * q
    BY <1>2, <2>1, ProductUp
  <2>3. b * (p + 1) = b * p + b /\ b * p \in Nat
    BY <1>2, Product, SMT
  <2>4. QED
    BY <1>1, <1>2, <2>2, <2>3
<1>6. t = r
  <2> HIDE DEF p, t
  <2>1. b * q + r = b * q + t
    BY <1>2, <1>5
  <2>2. QED
    BY <1>1, <1>2, <2>1
<1>7. QED
  BY <1>5, <1>6

-----------------------------------------------------------------------------
(* The mean of two colours: of w parts, e are of the second one              *)

Mean(w, e, from, to) == ((w - e) * from + e * to) \div w

(* How many parts of w belong to step i of d.                                *)
PartOf(w, i, d) == (i * w) \div d

(* A step before the last has fewer than all parts, a later step no fewer.   *)
LEMMA Parts ==
  ASSUME NEW w \in Nat \ {0}, NEW d \in Nat, NEW i \in Nat, NEW j \in Nat,
         i <= j, j < d
  PROVE  /\ PartOf(w, i, d) \in 0 .. w - 1 /\ PartOf(w, j, d) \in 0 .. w - 1
         /\ PartOf(w, i, d) <= PartOf(w, j, d)
         /\ PartOf(w, 0, d) = 0
<1>1. d \in Nat \ {0} /\ i * w \in Nat /\ j * w \in Nat
  BY Product
<1>2. i * w <= j * w /\ j * w < d * w
  BY SMT
<1>3. /\ PartOf(w, i, d) \in Nat /\ PartOf(w, j, d) \in Nat
      /\ PartOf(w, i, d) <= PartOf(w, j, d)
  BY <1>1, <1>2, Division, QuotientGrows DEF PartOf
<1>4. PartOf(w, j, d) < w
  BY <1>1, <1>2, QuotientBelow DEF PartOf
<1>5. PartOf(w, 0, d) = 0
  <2>1. d * 0 + 0 = 0 * w /\ 0 \in 0 .. d - 1
    BY <1>1
  <2>2. QED
    BY <1>1, <2>1, QuotientExact DEF PartOf
<1>6. QED
  BY <1>3, <1>4, <1>5

(* With more parts of the second colour the mean does not move away from it. *)
LEMMA MeanApproaches ==
  ASSUME NEW w \in Nat \ {0}, NEW e \in 0 .. w - 1, NEW f \in 0 .. w - 1, e <= f,
         NEW from \in Nat, NEW to \in Nat
  PROVE  /\ Mean(w, e, from, to) \in Nat /\ Mean(w, f, from, to) \in Nat
         /\ from <= to => Mean(w, e, from, to) <= Mean(w, f, from, to)
         /\ from <= to => Mean(w, f, from, to) <= to
         /\ to <= from => Mean(w, f, from, to) <= Mean(w, e, from, to)
         /\ to <= from => to <= Mean(w, f, from, to)
<1> DEFINE sum(n) == (w - n) * from + n * to
<1>1. ASSUME NEW n \in 0 .. w - 1 PROVE sum(n) \in Nat
  <2>1. w - n \in Nat /\ n \in Nat
    OBVIOUS
  <2>2. QED
    BY <2>1, Product
<1>2. sum(e) \in Nat /\ sum(f) \in Nat
  BY <1>1
<1>3. /\ Mean(w, e, from, to) \in Nat /\ Mean(w, f, from, to) \in Nat
      /\ Mean(w, e, from, to) = sum(e) \div w /\ Mean(w, f, from, to) = sum(f) \div w
  BY <1>2, Division DEF Mean
<1>4. ASSUME NEW n \in 0 .. w - 1
      PROVE  sum(n) = w * from + n * (to - from) /\ sum(n) = w * to + (w - n) * (from - to)
  BY SMT
<1>5. w * to \in Nat /\ w * from \in Nat /\ (w * to) \div w = to
  <2>1. w * to \in Nat /\ w * from \in Nat
    BY Product
  <2>2. w * to + 0 = w * to /\ 0 \in 0 .. w - 1
    BY <2>1
  <2>3. QED
    BY <2>1, <2>2, QuotientExact
<1>6. CASE from <= to
  <2>1. to - from \in Nat
    BY <1>6
  <2>2. e * (to - from) <= f * (to - from) /\ (w - f) * (to - from) \in Nat
    BY <2>1, Product, SMT
  <2>3. sum(e) <= sum(f)
    BY <1>2, <1>4, <1>5, <2>1, <2>2, Product
  <2>4. sum(f) <= w * to
    <3>1. (w - f) * (from - to) = 0 - ((w - f) * (to - from))
      BY SMT
    <3>2. sum(f) = w * to + (w - f) * (from - to)
      BY <1>4
    <3> HIDE DEF sum
    <3>3. QED
      BY <1>2, <1>5, <2>2, <3>1, <3>2
  <2> HIDE DEF sum
  <2>5. Mean(w, e, from, to) <= Mean(w, f, from, to) /\ Mean(w, f, from, to) <= to
    BY <1>2, <1>3, <1>5, <2>3, <2>4, QuotientGrows
  <2>6. from = to => to <= Mean(w, f, from, to) /\ Mean(w, e, from, to) >= Mean(w, f, from, to)
    <3>1. SUFFICES ASSUME from = to
                   PROVE  Mean(w, e, from, to) = to /\ Mean(w, f, from, to) = to
      BY <1>3
    <3>2. sum(e) = w * to /\ sum(f) = w * to
      BY <3>1, SMT DEF sum
    <3>3. QED
      BY <1>3, <1>5, <3>2
  <2>7. QED
    BY <1>3, <1>6, <2>5, <2>6
<1>7. CASE to < from
  <2>1. from - to \in Nat
    BY <1>7
  <2>2. e * (from - to) <= f * (from - to) /\ (w - f) * (from - to) \in Nat
    BY <2>1, Product, SMT
  <2>3. sum(f) <= sum(e)
    <3>1. e * (to - from) = 0 - e * (from - to) /\ f * (to - from) = 0 - f * (from - to)
      BY SMT
    <3>2. sum(e) = w * from + e * (to - from) /\ sum(f) = w * from + f * (to - from)
      BY <1>4
    <3>3. e * (from - to) \in Nat /\ f * (from - to) \in Nat
      BY <2>1, Product
    <3> HIDE DEF sum
    <3>4. QED
      BY <1>2, <1>5, <2>2, <3>1, <3>2, <3>3
  <2>4. w * to <= sum(f)
    BY <1>2, <1>4, <1>5, <2>2
  <2> HIDE DEF sum
  <2>5. Mean(w, f, from, to) <= Mean(w, e, from, to) /\ to <= Mean(w, f, from, to)
    BY <1>2, <1>3, <1>5, <2>3, <2>4, QuotientGrows
  <2>6. QED
    BY <1>3, <1>7, <2>5
<1>8. QED
  BY <1>6, <1>7

(* With no part of the second colour, and of two equal ones, the mean is the *)
(* first; and the mean of two colours lies between them.                     *)
LEMMA MeanBetween ==
  ASSUME NEW w \in Nat \ {0}, NEW e \in 0 .. w - 1, NEW from \in Nat, NEW to \in Nat
  PROVE  /\ Mean(w, 0, from, to) = from
         /\ from = to => Mean(w, e, from, to) = from
         /\ Mean(w, e, from, to) \in Nat
         /\ Mean(w, e, from, to) <= from \/ Mean(w, e, from, to) <= to
<1>1. Mean(w, 0, from, to) = from
  <2>1. w * from + 0 = (w - 0) * from + 0 * to
    BY SMT
  <2>2. (w * from + 0) \div w = from
    BY QuotientExact, 0 \in 0 .. w - 1
  <2>3. QED
    BY <2>1, <2>2 DEF Mean
<1>2. 0 \in 0 .. w - 1 /\ 0 <= e
  OBVIOUS
<1>3. /\ Mean(w, e, from, to) \in Nat
      /\ from <= to => Mean(w, 0, from, to) <= Mean(w, e, from, to)
      /\ from <= to => Mean(w, e, from, to) <= to
      /\ to <= from => Mean(w, e, from, to) <= Mean(w, 0, from, to)
  BY <1>2, MeanApproaches
<1>4. QED
  BY <1>1, <1>3
=============================================================================

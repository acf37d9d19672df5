------------------------------ MODULE DataFacts ------------------------------
(***************************************************************************)
(* Facts about the data the models compute with: greatest and least        *)
(* elements, lists flattened and folded, and sorted enumerations.          *)
(*                                                                         *)
(* Induction is over sets: the numbers for which a statement holds are a   *)
(* set that contains 0 and the successor of each of its members.           *)
(***************************************************************************)
EXTENDS Integers, Sequences, FiniteSets, FiniteSetsExt, SequencesExt,
        FiniteSetTheorems, SequenceTheorems, WellFoundedInduction, TLAPS

\* Induction, for a set of numbers.
LEMMA NatSetInduction ==
  ASSUME NEW T, 0 \in T, \A n \in Nat : n \in T => n + 1 \in T
  PROVE  \A n \in Nat : n \in T
<1>1. IsWellFoundedOn(OpToRel(<, Nat), Nat)
  BY NatLessThanWellFounded
<1> DEFINE Bad == Nat \ T
<1>2. SUFFICES ASSUME Bad # {} PROVE FALSE
  OBVIOUS
<1>3. PICK x \in Bad : \A y \in Bad : ~(<<y, x>> \in OpToRel(<, Nat))
  <2>1. Bad \subseteq Nat
    OBVIOUS
  <2> HIDE DEF Bad
  <2> QED
    BY <1>1, <1>2, <2>1, WFMin
<1>4. x \in Nat /\ x # 0
  BY <1>3
<1>5. x - 1 \in Nat /\ x - 1 < x /\ (x - 1) + 1 = x
  BY <1>4
<1>6. x - 1 \notin Bad
  BY <1>3, <1>4, <1>5 DEF OpToRel
<1> QED
  BY <1>3, <1>5, <1>6

\* A finite set of integers has a greatest element, and Max is one.
LEMMA MaxOfFinite ==
  ASSUME NEW S, IsFiniteSet(S), S # {}, \A x \in S : x \in Int
  PROVE  Max(S) \in S /\ \A y \in S : Max(S) >= y
<1> DEFINE Greatest(X) == \E m \in X : \A y \in X : m >= y
           T == {n \in Nat : \A X \in SUBSET S : Cardinality(X) = n => X = {} \/ Greatest(X)}
<1>1. 0 \in T
  <2> SUFFICES ASSUME NEW X \in SUBSET S, Cardinality(X) = 0 PROVE X = {}
    OBVIOUS
  <2> QED
    BY FS_Subset, FS_EmptySet
<1>2. ASSUME NEW n \in Nat, n \in T PROVE n + 1 \in T
  <2> SUFFICES ASSUME NEW X \in SUBSET S, Cardinality(X) = n + 1, X # {}
               PROVE  Greatest(X)
    OBVIOUS
  <2>1. PICK x : x \in X
    OBVIOUS
  <2>2. IsFiniteSet(X)
    BY FS_Subset
  <2>3. Cardinality(X \ {x}) = Cardinality(X) - 1
    BY <2>1, <2>2, FS_RemoveElement
  <2>4. X \ {x} = {} \/ Greatest(X \ {x})
    BY <1>2, <2>3
  <2>5. CASE X \ {x} = {}
    BY <2>1, <2>5
  <2>6. CASE Greatest(X \ {x})
    <3>1. PICK m \in X \ {x} : \A y \in X \ {x} : m >= y
      BY <2>6
    <3>2. m \in Int /\ x \in Int /\ \A y \in X : y \in Int
      BY <2>1, <3>1
    <3>3. CASE m >= x
      BY <3>1, <3>2, <3>3
    <3>4. CASE x > m
      BY <2>1, <3>1, <3>2, <3>4
    <3> QED
      BY <3>2, <3>3, <3>4
  <2> QED
    BY <2>4, <2>5, <2>6
<1>3. \A n \in Nat : n \in T
  <2> HIDE DEF T
  <2> QED
    BY <1>1, <1>2, NatSetInduction
<1>4. Greatest(S)
  BY <1>3, FS_CardinalityType
<1> QED
  BY <1>4 DEF Max

\* A set of numbers has a least element, and Min is one.
LEMMA MinOfNats ==
  ASSUME NEW S \in SUBSET Nat, S # {}
  PROVE  Min(S) \in S /\ \A y \in S : Min(S) <= y
<1> DEFINE T == {n \in Nat : \A k \in 0 .. n : k \notin S}
<1>1. \E x \in S : \A y \in S : x <= y
  <2> SUFFICES ASSUME \A x \in S : \E y \in S : ~(x <= y) PROVE FALSE
    OBVIOUS
  <2>1. 0 \in T
    <3>1. 0 \notin S
      OBVIOUS
    <3> QED
      BY <3>1
  <2>2. ASSUME NEW n \in Nat, n \in T PROVE n + 1 \in T
    <3>1. \A y \in S : y \in Nat /\ ~(y \in 0 .. n)
      BY <2>2
    <3>2. \A y \in S : n + 1 <= y
      BY <3>1
    <3>3. n + 1 \notin S
      BY <3>2
    <3> QED
      BY <3>1, <3>3
  <2>3. \A n \in Nat : n \in T
    <3> HIDE DEF T
    <3> QED
      BY <2>1, <2>2, NatSetInduction
  <2>4. PICK s \in S : s \in Nat
    OBVIOUS
  <2>5. s \in T
    BY <2>3, <2>4
  <2> QED
    BY <2>4, <2>5
<1> QED
  BY <1>1 DEF Min

LEMMA MinOfTwo ==
  ASSUME NEW a \in Int, NEW b \in Int
  PROVE  Min({a, b}) = IF a <= b THEN a ELSE b
<1> DEFINE m == Min({a, b})
<1>1. \E x \in {a, b} : \A y \in {a, b} : x <= y
  OBVIOUS
<1>2. m \in {a, b} /\ \A y \in {a, b} : m <= y
  BY <1>1 DEF Min
<1> HIDE DEF m
<1>3. m <= a /\ m <= b /\ (m = a \/ m = b)
  BY <1>2
<1>5. m = IF a <= b THEN a ELSE b
  BY <1>3
<1> QED
  BY <1>5 DEF m

LEMMA TimesGrows ==
  ASSUME NEW a \in Nat, NEW b \in Nat, NEW s \in Nat, a <= b
  PROVE  a * s <= b * s /\ a * s \in Nat /\ b * s \in Nat
<1>1. PICK c \in Nat : b = a + c
  <2>1. b - a \in Nat /\ b = a + (b - a)
    OBVIOUS
  <2> QED
    BY <2>1
<1>2. a * s \in Nat /\ c * s \in Nat
  OBVIOUS
<1>3. (a + c) * s = a * s + c * s
  OBVIOUS
<1> QED
  BY <1>1, <1>2, <1>3

LEMMA TimesNext ==
  ASSUME NEW a \in Nat, NEW s \in Nat
  PROVE  (a + 1) * s = a * s + s /\ a * s \in Nat
OBVIOUS

\* As many parts of s as hold n.
LEMMA RoundUp ==
  ASSUME NEW n \in Nat \ {0}, NEW s \in Nat \ {0}, NEW b, b = (n + s - 1) \div s
  PROVE  b \in Nat \ {0} /\ n <= b * s /\ (b - 1) * s < n
<1> DEFINE x == n + s - 1
           r == x % s
<1>1. x \in Nat /\ b \in Int /\ r \in 0 .. s - 1 /\ x = s * b + r
  OBVIOUS
<1> HIDE DEF r
<1>2. s * b = b * s /\ (b - 1) * s = b * s - s
  BY <1>1
<1>3. n <= b * s /\ (b - 1) * s < n
  BY <1>1, <1>2
<1>4. b > 0
  <2> SUFFICES ASSUME b <= 0 PROVE FALSE
    BY <1>1
  <2>1. -b \in Nat
    BY <1>1
  <2>2. (-b) * s \in Nat /\ (-b) * s = -(b * s)
    BY <1>1, <2>1
  <2> QED
    BY <1>1, <1>3, <2>2
<1> QED
  BY <1>1, <1>3, <1>4

\* Fractions a / b, c / d and e / f compared as they are here.
LEMMA FractionsOrdered ==
  ASSUME NEW a \in Nat, NEW b \in Nat \ {0}, NEW c \in Nat, NEW d \in Nat \ {0},
         NEW e \in Nat, NEW f \in Nat \ {0}, a * d >= c * b, c * f >= e * d
  PROVE  a * f >= e * b /\ (a * d > c * b \/ c * f > e * d => a * f > e * b)
<1> DEFINE x == a * d
           y == c * b
           z == c * f
           w == e * d
<1>1. x \in Nat /\ y \in Nat /\ z \in Nat /\ w \in Nat /\ x >= y /\ z >= w
  OBVIOUS
<1>2. (a * f) * d = x * f /\ (e * b) * d = w * b /\ y * f = z * b
  OBVIOUS
<1> HIDE DEF x, y, z, w
<1>3. x * f >= y * f /\ z * b >= w * b
  BY <1>1, TimesGrows
<1>4. (x > y => x * f > y * f) /\ (z > w => z * b > w * b)
  <2>1. ASSUME x > y PROVE x * f > y * f
    <3>1. x >= y + 1 /\ y + 1 \in Nat
      BY <1>1, <2>1
    <3>2. x * f >= (y + 1) * f
      BY <1>1, <3>1, TimesGrows
    <3>3. (y + 1) * f = y * f + f /\ y * f \in Nat
      BY <1>1, TimesNext
    <3> QED
      BY <1>1, <3>2, <3>3
  <2>2. ASSUME z > w PROVE z * b > w * b
    <3>1. z >= w + 1 /\ w + 1 \in Nat
      BY <1>1, <2>2
    <3>2. z * b >= (w + 1) * b
      BY <1>1, <3>1, TimesGrows
    <3>3. (w + 1) * b = w * b + b /\ w * b \in Nat
      BY <1>1, TimesNext
    <3> QED
      BY <1>1, <3>2, <3>3
  <2> QED
    BY <2>1, <2>2
<1> DEFINE p == a * f
           q == e * b
<1>5. p \in Nat /\ q \in Nat /\ p * d = x * f /\ q * d = w * b
  BY <1>2
<1>6. x * f \in Nat /\ y * f \in Nat /\ z * b \in Nat /\ w * b \in Nat /\ y * f = z * b
  BY <1>1, <1>2
<1> HIDE DEF p, q
<1>7. p * d >= q * d
  BY <1>3, <1>5, <1>6
<1>8. p >= q
  <2> SUFFICES ASSUME q > p PROVE FALSE
    BY <1>5
  <2>1. q >= p + 1 /\ p + 1 \in Nat
    BY <1>5
  <2>2. q * d >= (p + 1) * d
    BY <1>5, <2>1, TimesGrows
  <2>3. (p + 1) * d = p * d + d /\ p * d \in Nat /\ q * d \in Nat
    BY <1>5, TimesNext
  <2> QED
    BY <1>7, <2>2, <2>3
<1>9. x > y \/ z > w => p # q
  <2>1. x > y \/ z > w => p * d > q * d
    BY <1>3, <1>4, <1>5, <1>6
  <2>2. p * d \in Nat
    BY <1>5
  <2> QED
    BY <2>1, <2>2
<1> QED
  BY <1>5, <1>8, <1>9 DEF p, q, x, y, z, w

-----------------------------------------------------------------------------
(* Lists.                                                                  *)

LEMMA ConcatRange ==
  ASSUME NEW V, NEW s \in Seq(V), NEW t \in Seq(V)
  PROVE  ToSet(s \o t) = ToSet(s) \cup ToSet(t)
<1>1. /\ Len(s) \in Nat /\ Len(t) \in Nat
      /\ DOMAIN s = 1 .. Len(s) /\ DOMAIN t = 1 .. Len(t)
      /\ DOMAIN (s \o t) = 1 .. Len(s) + Len(t)
      /\ \A i \in 1 .. Len(s) + Len(t) : (s \o t)[i] = IF i <= Len(s) THEN s[i] ELSE t[i - Len(s)]
  BY ConcatProperties, LenProperties
<1>2. ASSUME NEW j \in 1 .. Len(t) PROVE j + Len(s) \in 1 .. Len(s) + Len(t) /\ (s \o t)[j + Len(s)] = t[j]
  <2>1. j + Len(s) \in 1 .. Len(s) + Len(t) /\ ~(j + Len(s) <= Len(s)) /\ (j + Len(s)) - Len(s) = j
    BY <1>1
  <2> QED
    BY <1>1, <2>1
<1>3. ASSUME NEW i \in 1 .. Len(s) PROVE i \in 1 .. Len(s) + Len(t) /\ (s \o t)[i] = s[i]
  BY <1>1
<1>4. ASSUME NEW i \in 1 .. Len(s) + Len(t) PROVE (s \o t)[i] \in ToSet(s) \cup ToSet(t)
  <2>1. CASE i <= Len(s)
    BY <1>1, <2>1 DEF ToSet
  <2>2. CASE ~(i <= Len(s))
    <3>1. i - Len(s) \in 1 .. Len(t)
      BY <1>1, <2>2
    <3> QED
      BY <1>1, <2>2, <3>1 DEF ToSet
  <2> QED
    BY <2>1, <2>2
<1>5. ToSet(s \o t) \subseteq ToSet(s) \cup ToSet(t)
  BY <1>1, <1>4 DEF ToSet
<1>6. ToSet(s) \subseteq ToSet(s \o t)
  BY <1>1, <1>3 DEF ToSet
<1>7. ToSet(t) \subseteq ToSet(s \o t)
  BY <1>1, <1>2 DEF ToSet
<1> QED
  BY <1>5, <1>6, <1>7

LEMMA FrontAndLast ==
  ASSUME NEW V, NEW s \in Seq(V)
  PROVE  /\ s # <<>> => /\ Front(s) \in Seq(V) /\ Last(s) \in V
                        /\ s = Append(Front(s), Last(s))
         /\ \A x \in V : Front(Append(s, x)) = s /\ Last(Append(s, x)) = x
<1>1. ASSUME NEW x \in V PROVE Front(Append(s, x)) = s /\ Last(Append(s, x)) = x
  BY AppendProperties, LenProperties DEF Front, Last
<1>2. CASE s # <<>>
  <2>1. PICK r \in Seq(V), x \in V : s = Append(r, x)
    BY <1>2, SequenceEmptyOrAppend
  <2>2. Front(Append(r, x)) = r /\ Last(Append(r, x)) = x
    BY AppendProperties, LenProperties DEF Front, Last
  <2> QED
    BY <1>1, <2>1, <2>2
<1> QED
  BY <1>1, <1>2

LEMMA AppendLast ==
  ASSUME NEW V, NEW s \in Seq(V), NEW x \in V
  PROVE  Append(s, x) # <<>> /\ Front(Append(s, x)) = s /\ Last(Append(s, x)) = x
<1>1. Append(s, x) # <<>>
  BY AppendProperties
<1> QED
  BY <1>1, FrontAndLast

\* One value for each member of a list.
Repeat(s, g) == [j \in DOMAIN s |-> g]

LEMMA Repeated ==
  ASSUME NEW V, NEW y \in Seq(V), NEW z \in Seq(V), NEW g
  PROVE  Repeat(y \o z, g) = Repeat(y, g) \o Repeat(z, g)
<1> DEFINE m == Len(y)
           n == Len(z)
           S == {g}
           a == [j \in 1 .. m |-> g]
           b == [j \in 1 .. n |-> g]
           c == [j \in 1 .. m + n |-> g]
<1>1. m \in Nat /\ n \in Nat /\ DOMAIN y = 1 .. m /\ DOMAIN z = 1 .. n /\ Len(y \o z) = m + n
      /\ DOMAIN (y \o z) = 1 .. m + n
  <2>1. y \o z \in Seq(V) /\ Len(y \o z) = Len(y) + Len(z)
    BY ConcatProperties
  <2> QED
    BY <2>1, LenProperties
<1> HIDE DEF m, n
<1>2. /\ a \in Seq(S) /\ b \in Seq(S) /\ c \in Seq(S)
      /\ Len(a) = m /\ Len(b) = n /\ Len(c) = m + n
  BY <1>1
<1>3. /\ \A j \in 1 .. m : a[j] = g
      /\ \A j \in 1 .. n : b[j] = g
      /\ \A j \in 1 .. m + n : c[j] = g
  OBVIOUS
<1> HIDE DEF a, b, c, S
<1>4. /\ a \o b \in Seq(S) /\ Len(a \o b) = Len(a) + Len(b)
      /\ \A j \in 1 .. Len(a) + Len(b) :
            (a \o b)[j] = IF j <= Len(a) THEN a[j] ELSE b[j - Len(a)]
  BY <1>2, ConcatProperties
<1>5. ASSUME NEW j \in 1 .. m + n PROVE (a \o b)[j] = c[j]
  <2>1. CASE j <= m
    BY <1>1, <1>2, <1>3, <1>4, <2>1
  <2>2. CASE ~(j <= m)
    <3>1. j - m \in 1 .. n
      BY <1>1, <2>2
    <3> QED
      BY <1>2, <1>3, <1>4, <2>2, <3>1
  <2> QED
    BY <2>1, <2>2
<1>6. a \o b = c
  BY <1>2, <1>4, <1>5, SeqEqual
<1> QED
  BY <1>1, <1>6 DEF a, b, c, Repeat

\* A prefix that is longer by one.
LEMMA PrefixAppend ==
  ASSUME NEW V, NEW s \in Seq(V), NEW k \in Nat, k < Len(s)
  PROVE  /\ SubSeq(s, 1, k) \in Seq(V) /\ Len(SubSeq(s, 1, k)) = k
         /\ s[k + 1] \in V
         /\ SubSeq(s, 1, k + 1) = Append(SubSeq(s, 1, k), s[k + 1])
<1> DEFINE p == SubSeq(s, 1, k)
           q == SubSeq(s, 1, k + 1)
<1>1. Len(s) \in Nat /\ \A i \in 1 .. Len(s) : s[i] \in V
  BY LenProperties, ElementOfSeq
<1>2. p \in Seq(V) /\ Len(p) = k /\ \A i \in 1 .. k : p[i] = s[i]
  <2>1. \A i \in 1 .. k : s[i] \in V
    BY <1>1
  <2>2. /\ p \in Seq(V) /\ Len(p) = IF 1 <= k THEN k - 1 + 1 ELSE 0
        /\ \A i \in 1 .. k - 1 + 1 : p[i] = s[1 + i - 1]
    BY <2>1, SubSeqProperties
  <2> HIDE DEF p
  <2>3. Len(p) = k /\ k - 1 + 1 = k
    BY <2>2
  <2>4. \A i \in 1 .. k : 1 + i - 1 = i
    OBVIOUS
  <2> QED
    BY <2>2, <2>3, <2>4
<1>3. q \in Seq(V) /\ Len(q) = k + 1 /\ \A i \in 1 .. k + 1 : q[i] = s[i]
  <2>1. \A i \in 1 .. k + 1 : s[i] \in V
    BY <1>1
  <2>2. /\ q \in Seq(V) /\ Len(q) = IF 1 <= k + 1 THEN (k + 1) - 1 + 1 ELSE 0
        /\ \A i \in 1 .. (k + 1) - 1 + 1 : q[i] = s[1 + i - 1]
    BY <2>1, SubSeqProperties
  <2> HIDE DEF q
  <2>3. Len(q) = k + 1 /\ (k + 1) - 1 + 1 = k + 1
    BY <2>2
  <2>4. \A i \in 1 .. k + 1 : 1 + i - 1 = i
    OBVIOUS
  <2> QED
    BY <2>2, <2>3, <2>4
<1>4. k + 1 \in 1 .. Len(s) /\ s[k + 1] \in V
  BY <1>1
<1> HIDE DEF p, q
<1>5. /\ Append(p, s[k + 1]) \in Seq(V) /\ Len(Append(p, s[k + 1])) = k + 1
      /\ \A i \in 1 .. k : Append(p, s[k + 1])[i] = p[i]
      /\ Append(p, s[k + 1])[k + 1] = s[k + 1]
  BY <1>2, <1>4, AppendProperties
<1>6. \A i \in 1 .. k + 1 : q[i] = Append(p, s[k + 1])[i]
  <2> SUFFICES ASSUME NEW i \in 1 .. k + 1 PROVE q[i] = Append(p, s[k + 1])[i]
    OBVIOUS
  <2>1. i \in 1 .. k \/ i = k + 1
    OBVIOUS
  <2> QED
    BY <1>2, <1>3, <1>5, <2>1
<1>7. q = Append(p, s[k + 1])
  BY <1>3, <1>5, <1>6, SeqEqual
<1> QED
  BY <1>2, <1>4, <1>7 DEF p, q

\* A run of a list.
LEMMA Part ==
  ASSUME NEW V, NEW s \in Seq(V), NEW m \in Int, NEW n \in Int, m >= 1, n <= Len(s), n >= m - 1
  PROVE  /\ SubSeq(s, m, n) \in Seq(V) /\ Len(SubSeq(s, m, n)) = n - m + 1
         /\ \A x \in 1 .. n - m + 1 : SubSeq(s, m, n)[x] = s[m + x - 1]
<1>1. Len(s) \in Nat /\ \A x \in 1 .. Len(s) : s[x] \in V
  BY LenProperties, ElementOfSeq
<1>2. \A x \in m .. n : s[x] \in V
  <2>1. \A x \in m .. n : x \in 1 .. Len(s)
    BY <1>1
  <2> QED
    BY <1>1, <2>1
<1>3. /\ SubSeq(s, m, n) \in Seq(V)
      /\ Len(SubSeq(s, m, n)) = IF m <= n THEN n - m + 1 ELSE 0
      /\ \A x \in 1 .. n - m + 1 : SubSeq(s, m, n)[x] = s[m + x - 1]
  BY <1>2, SubSeqProperties
<1>4. ~(m <= n) => n - m + 1 = 0
  OBVIOUS
<1> QED
  BY <1>3, <1>4

\* A function applied to each member of a list.
Mapped(F, s) == [k \in DOMAIN s |-> F[s[k]]]

LEMMA MappedAppend ==
  ASSUME NEW F, NEW V, NEW s \in Seq(V), NEW x \in V
  PROVE  /\ Mapped(F, s) \in Seq({F[v] : v \in V}) /\ Len(Mapped(F, s)) = Len(s)
         /\ Mapped(F, Append(s, x)) = Append(Mapped(F, s), F[x])
<1> DEFINE U == {F[v] : v \in V}
           n == Len(s)
           r == Append(s, x)
           p == Mapped(F, s)
           q == Mapped(F, r)
<1>1. n \in Nat /\ DOMAIN s = 1 .. n /\ \A k \in 1 .. n : s[k] \in V
  BY LenProperties, ElementOfSeq
<1>2. /\ r \in Seq(V) /\ DOMAIN r = 1 .. n + 1 /\ r[n + 1] = x
      /\ \A k \in 1 .. n : r[k] = s[k]
  BY AppendProperties, LenProperties
<1>3. p = [k \in 1 .. n |-> F[s[k]]] /\ q = [k \in 1 .. n + 1 |-> F[r[k]]]
  <2> HIDE DEF n, r
  <2> QED
    BY <1>1, <1>2 DEF Mapped
<1>11. F[x] \in U /\ \A v \in V : F[v] \in U
  OBVIOUS
<1> HIDE DEF n, r, p, q, U
<1>4. \A k \in 1 .. n : F[s[k]] \in U
  BY <1>1, <1>11
<1>5. p \in Seq(U) /\ Len(p) = n
  BY <1>1, <1>3, <1>4
<1>6. \A k \in 1 .. n + 1 : F[r[k]] \in U
  <2> SUFFICES ASSUME NEW k \in 1 .. n + 1 PROVE F[r[k]] \in U
    OBVIOUS
  <2>1. k \in 1 .. n \/ k = n + 1
    BY <1>1
  <2> QED
    BY <1>1, <1>2, <1>11, <2>1
<1>7. q \in Seq(U) /\ Len(q) = n + 1
  BY <1>1, <1>3, <1>6
<1>8. /\ Append(p, F[x]) \in Seq(U) /\ Len(Append(p, F[x])) = n + 1
      /\ \A k \in 1 .. n : Append(p, F[x])[k] = p[k]
      /\ Append(p, F[x])[n + 1] = F[x]
  BY <1>5, <1>11, AppendProperties
<1>9. \A k \in 1 .. n + 1 : q[k] = Append(p, F[x])[k]
  <2> SUFFICES ASSUME NEW k \in 1 .. n + 1 PROVE q[k] = Append(p, F[x])[k]
    OBVIOUS
  <2>1. k \in 1 .. n \/ k = n + 1
    BY <1>1
  <2> QED
    BY <1>1, <1>2, <1>3, <1>8, <2>1
<1>10. q = Append(p, F[x])
  BY <1>7, <1>8, <1>9, SeqEqual
<1> QED
  BY <1>5, <1>10 DEF n, p, q, r, U

-----------------------------------------------------------------------------
(* FlattenSeq.                                                             *)

\* What the recursion of FlattenSeq says of f.
Flattens(f, q) ==
  f = [i \in 1 .. Len(q) |-> IF i = 1 THEN q[i] ELSE f[i - 1] \o q[i]]

\* There is such a function, so that CHOOSE finds one.
LEMMA FlattenDefined ==
  ASSUME NEW V, NEW q \in Seq(Seq(V)), q # <<>>
  PROVE  \E f : Flattens(f, q) /\ FlattenSeq(q) = f[Len(q)]
<1> DEFINE First(f, n) == f = [i \in 1 .. n |-> IF i = 1 THEN q[i] ELSE f[i - 1] \o q[i]]
           T == {n \in Nat : \E f : First(f, n)}
<1>1. 0 \in T
  <2>1. First(<<>>, 0)
    OBVIOUS
  <2> QED
    BY <2>1
<1>2. ASSUME NEW n \in Nat, n \in T PROVE n + 1 \in T
  <2>1. PICK f : First(f, n)
    BY <1>2
  <2> DEFINE g == [i \in 1 .. n + 1 |-> IF i = n + 1 THEN IF i = 1 THEN q[i] ELSE f[n] \o q[i]
                                         ELSE f[i]]
  <2>2. ASSUME NEW i \in 1 .. n + 1
        PROVE  g[i] = IF i = 1 THEN q[i] ELSE g[i - 1] \o q[i]
    <3>1. CASE i = n + 1
      BY <3>1
    <3>2. CASE i # n + 1
      <4>1. i \in 1 .. n
        BY <3>2
      <4>2. f[i] = IF i = 1 THEN q[i] ELSE f[i - 1] \o q[i]
        BY <2>1, <4>1
      <4>3. i # 1 => i - 1 \in 1 .. n /\ i - 1 # n + 1
        BY <4>1
      <4> QED
        BY <3>2, <4>1, <4>2, <4>3
    <3> QED
      BY <3>1, <3>2
  <2>3. First(g, n + 1)
    BY <2>2
  <2>4. \E h : First(h, n + 1)
    <3> HIDE DEF g
    <3> QED
      BY <2>3
  <2>5. n + 1 \in Nat
    OBVIOUS
  <2> HIDE DEF First
  <2> QED
    BY <2>4, <2>5
<1>3. \A n \in Nat : n \in T
  <2> HIDE DEF T
  <2> QED
    BY <1>1, <1>2, NatSetInduction
<1>4. Len(q) \in Nat /\ Len(q) # 0
  BY EmptySeq
<1>5. \E f : First(f, Len(q))
  BY <1>3, <1>4
<1> DEFINE c == CHOOSE f : First(f, Len(q))
<1>6. First(c, Len(q))
  BY <1>5
<1>7. FlattenSeq(q) = c[Len(q)]
  BY <1>4 DEF FlattenSeq
<1> QED
  BY <1>6, <1>7 DEF Flattens

LEMMA FlattenEmpty == FlattenSeq(<<>>) = <<>>
BY DEF FlattenSeq

\* Flattening yields a list, and goes on from the left.
LEMMA FlattenAppend ==
  ASSUME NEW V, NEW q \in Seq(Seq(V)), NEW x \in Seq(V)
  PROVE  /\ FlattenSeq(q) \in Seq(V)
         /\ FlattenSeq(Append(q, x)) = FlattenSeq(q) \o x
<1> DEFINE r == Append(q, x)
<1>1. /\ r \in Seq(Seq(V)) /\ r # <<>> /\ Len(r) = Len(q) + 1 /\ r[Len(q) + 1] = x
      /\ Len(q) \in Nat /\ \A i \in 1 .. Len(q) : r[i] = q[i]
  BY AppendProperties
<1>2. PICK h : Flattens(h, r) /\ FlattenSeq(r) = h[Len(r)]
  <2> HIDE DEF r
  <2> QED
    BY <1>1, FlattenDefined
<1>3. CASE q = <<>>
  <2>1. h[1] = x
    BY <1>1, <1>2, <1>3 DEF Flattens
  <2>2. <<>> \o x = x /\ <<>> \in Seq(V)
    BY ConcatEmptySeq, EmptySeq
  <2>3. Len(r) = 1
    BY <1>1, <1>3, EmptySeq
  <2>4. FlattenSeq(r) = x /\ FlattenSeq(q) = <<>>
    BY <1>2, <1>3, <2>1, <2>3, FlattenEmpty
  <2> QED
    BY <2>2, <2>4
<1>4. CASE q # <<>>
  <2>1. PICK f : Flattens(f, q) /\ FlattenSeq(q) = f[Len(q)]
    BY <1>4, FlattenDefined
  <2> DEFINE T == {n \in Nat : n \in 1 .. Len(q) => f[n] = h[n] /\ f[n] \in Seq(V)}
  <2>2. 0 \in T
    OBVIOUS
  <2>3. ASSUME NEW n \in Nat, n \in T PROVE n + 1 \in T
    <3> SUFFICES ASSUME n + 1 \in 1 .. Len(q)
                 PROVE  f[n + 1] = h[n + 1] /\ f[n + 1] \in Seq(V)
      OBVIOUS
    <3>1. q[n + 1] \in Seq(V) /\ r[n + 1] = q[n + 1] /\ n + 1 \in 1 .. Len(r)
      BY <1>1, ElementOfSeq
    <3>2. CASE n = 0
      BY <1>1, <1>2, <2>1, <3>1, <3>2 DEF Flattens
    <3>3. CASE n # 0
      <4>1. f[n] = h[n] /\ f[n] \in Seq(V)
        BY <2>3, <3>3
      <4>2. f[n + 1] = f[n] \o q[n + 1]
        <5>1. f[n + 1] = IF n + 1 = 1 THEN q[n + 1] ELSE f[(n + 1) - 1] \o q[n + 1]
          BY <2>1 DEF Flattens
        <5>2. n + 1 # 1 /\ (n + 1) - 1 = n
          BY <3>3
        <5> QED
          BY <5>1, <5>2
      <4>3. h[n + 1] = h[n] \o r[n + 1]
        <5>1. h[n + 1] = IF n + 1 = 1 THEN r[n + 1] ELSE h[(n + 1) - 1] \o r[n + 1]
          BY <1>2, <3>1 DEF Flattens
        <5>2. n + 1 # 1 /\ (n + 1) - 1 = n
          BY <3>3
        <5> QED
          BY <5>1, <5>2
      <4>4. f[n] \o q[n + 1] \in Seq(V)
        BY <3>1, <4>1, ConcatProperties
      <4> QED
        BY <3>1, <4>1, <4>2, <4>3, <4>4
    <3> QED
      BY <3>2, <3>3
  <2>4. \A n \in Nat : n \in T
    <3> HIDE DEF T
    <3> QED
      BY <2>2, <2>3, NatSetInduction
  <2>5. f[Len(q)] = h[Len(q)] /\ f[Len(q)] \in Seq(V)
    BY <1>1, <1>4, <2>4, EmptySeq
  <2>6. h[Len(q) + 1] = h[Len(q)] \o x
    <3>1. Len(q) + 1 \in 1 .. Len(r) /\ Len(q) + 1 # 1
      BY <1>1, <1>4, EmptySeq
    <3>2. h[Len(q) + 1] = h[(Len(q) + 1) - 1] \o r[Len(q) + 1]
      BY <1>2, <3>1 DEF Flattens
    <3> QED
      BY <1>1, <3>2
  <2> QED
    BY <1>1, <1>2, <2>1, <2>5, <2>6
<1> QED
  BY <1>3, <1>4

\* Induction over lists, for a set of lists.
LEMMA SeqSetInduction ==
  ASSUME NEW V, NEW T, <<>> \in T,
         \A q \in Seq(V), x \in V : q \in T => Append(q, x) \in T
  PROVE  \A q \in Seq(V) : q \in T
<1> DEFINE N == {n \in Nat : \A q \in Seq(V) : Len(q) = n => q \in T}
<1>1. 0 \in N
  <2> SUFFICES ASSUME NEW q \in Seq(V), Len(q) = 0 PROVE q \in T
    OBVIOUS
  <2>1. q = <<>>
    BY EmptySeq
  <2> QED
    BY <2>1
<1>2. ASSUME NEW n \in Nat, n \in N PROVE n + 1 \in N
  <2> SUFFICES ASSUME NEW q \in Seq(V), Len(q) = n + 1 PROVE q \in T
    OBVIOUS
  <2>1. q # <<>>
    BY EmptySeq
  <2>2. PICK r \in Seq(V), x \in V : q = Append(r, x)
    BY <2>1, SequenceEmptyOrAppend
  <2>3. Len(q) = Len(r) + 1 /\ Len(r) \in Nat
    BY <2>2, AppendProperties, LenProperties
  <2>4. Len(r) = n
    BY <2>3
  <2> QED
    BY <1>2, <2>2, <2>4
<1>3. \A n \in Nat : n \in N
  <2> HIDE DEF N
  <2> QED
    BY <1>1, <1>2, NatSetInduction
<1> QED
  BY <1>3, LenProperties

\* The members of what was flattened are those of its parts.
LEMMA FlattenRange ==
  ASSUME NEW V
  PROVE  \A q \in Seq(Seq(V)) :
            ToSet(FlattenSeq(q)) = UNION {ToSet(q[a]) : a \in DOMAIN q}
<1> DEFINE T == {q \in Seq(Seq(V)) :
                    ToSet(FlattenSeq(q)) = UNION {ToSet(q[a]) : a \in DOMAIN q}}
<1>1. <<>> \in T
  BY FlattenEmpty, EmptySeq DEF ToSet
<1>2. ASSUME NEW q \in Seq(Seq(V)), NEW x \in Seq(V), q \in T PROVE Append(q, x) \in T
  <2>1. /\ FlattenSeq(q) \in Seq(V)
        /\ FlattenSeq(Append(q, x)) = FlattenSeq(q) \o x
    BY FlattenAppend
  <2>2. ToSet(FlattenSeq(q) \o x) = ToSet(FlattenSeq(q)) \cup ToSet(x)
    BY <2>1, ConcatRange
  <2>3. UNION {ToSet(Append(q, x)[a]) : a \in DOMAIN Append(q, x)}
           = (UNION {ToSet(q[a]) : a \in DOMAIN q}) \cup ToSet(x)
    <3>1. /\ DOMAIN q = 1 .. Len(q) /\ Len(q) \in Nat
          /\ DOMAIN Append(q, x) = 1 .. Len(q) + 1
          /\ \A a \in 1 .. Len(q) : Append(q, x)[a] = q[a]
          /\ Append(q, x)[Len(q) + 1] = x
      BY AppendProperties, LenProperties
    <3>2. DOMAIN Append(q, x) = DOMAIN q \cup {Len(q) + 1}
      BY <3>1
    <3> HIDE DEF T
    <3> QED
      BY <3>1, <3>2
  <2>4. Append(q, x) \in Seq(Seq(V))
    BY AppendProperties
  <2> QED
    BY <1>2, <2>1, <2>2, <2>3, <2>4
<1>3. \A q \in Seq(Seq(V)) : q \in T
  <2> HIDE DEF T
  <2> QED
    BY <1>1, <1>2, SeqSetInduction
<1> QED
  BY <1>3

\* Part a of q stands in what was flattened, after off other members.
Slice(q, a, off) ==
  /\ off \in Nat /\ off + Len(q[a]) <= Len(FlattenSeq(q))
  /\ \A j \in 1 .. Len(q[a]) : FlattenSeq(q)[off + j] = q[a][j]

LEMMA FlattenSlice ==
  ASSUME NEW V
  PROVE  \A q \in Seq(Seq(V)) : \A a \in 1 .. Len(q) : \E off : Slice(q, a, off)
<1> DEFINE T == {q \in Seq(Seq(V)) : \A a \in 1 .. Len(q) : \E off : Slice(q, a, off)}
<1>1. <<>> \in T
  BY EmptySeq
<1>2. ASSUME NEW q \in Seq(Seq(V)), NEW x \in Seq(V), q \in T PROVE Append(q, x) \in T
  <2> DEFINE r == Append(q, x)
             w == FlattenSeq(q)
  <2>1. w \in Seq(V) /\ FlattenSeq(r) = w \o x
    BY FlattenAppend
  <2>2. /\ r \in Seq(Seq(V)) /\ Len(r) = Len(q) + 1 /\ r[Len(q) + 1] = x /\ Len(q) \in Nat
        /\ \A i \in 1 .. Len(q) : r[i] = q[i]
    BY AppendProperties, LenProperties
  <2>3. /\ Len(w) \in Nat /\ Len(x) \in Nat /\ Len(w \o x) = Len(w) + Len(x)
        /\ \A i \in 1 .. Len(w) + Len(x) : (w \o x)[i] = IF i <= Len(w) THEN w[i] ELSE x[i - Len(w)]
    BY <2>1, ConcatProperties, LenProperties
  <2>4. ASSUME NEW a \in 1 .. Len(q) PROVE \E off : Slice(r, a, off)
    <3>1. PICK off : Slice(q, a, off)
      BY <1>2
    <3>2. r[a] = q[a] /\ Len(q[a]) \in Nat
      BY <2>2, ElementOfSeq, LenProperties
    <3>3. off \in Nat /\ off + Len(q[a]) <= Len(w)
      BY <3>1 DEF Slice
    <3>4. ASSUME NEW j \in 1 .. Len(q[a]) PROVE (w \o x)[off + j] = q[a][j]
      <4>1. off + j \in 1 .. Len(w)
        BY <2>3, <3>2, <3>3
      <4>2. w[off + j] = q[a][j]
        BY <3>1 DEF Slice
      <4> QED
        BY <2>3, <4>1, <4>2
    <3>5. off + Len(r[a]) <= Len(FlattenSeq(r))
      BY <2>1, <2>3, <3>2, <3>3
    <3>6. Slice(r, a, off)
      <4> HIDE DEF r
      <4> QED
        BY <2>1, <3>2, <3>3, <3>4, <3>5 DEF Slice
    <3> QED
      BY <3>6
  <2>5. Slice(r, Len(q) + 1, Len(w))
    <3>1. ASSUME NEW j \in 1 .. Len(x) PROVE (w \o x)[Len(w) + j] = x[j]
      <4>1. Len(w) + j \in 1 .. Len(w) + Len(x) /\ ~(Len(w) + j <= Len(w)) /\ (Len(w) + j) - Len(w) = j
        BY <2>3
      <4> QED
        BY <2>3, <4>1
    <3> HIDE DEF r, w
    <3> QED
      BY <2>1, <2>2, <2>3, <3>1 DEF Slice
  <2>6. ASSUME NEW a \in 1 .. Len(r) PROVE \E off : Slice(r, a, off)
    <3> HIDE DEF r, w
    <3>1. a \in 1 .. Len(q) \/ a = Len(q) + 1
      BY <2>2
    <3> QED
      BY <2>4, <2>5, <3>1
  <2> QED
    BY <2>2, <2>6
<1>3. \A q \in Seq(Seq(V)) : q \in T
  <2> HIDE DEF T
  <2> QED
    BY <1>1, <1>2, SeqSetInduction
<1> QED
  BY <1>3

-----------------------------------------------------------------------------
(* FoldLeft goes over the set of indices, and takes the greatest first.    *)

LEMMA PrefixFacts ==
  ASSUME NEW k \in Nat
  PROVE  /\ Max(1 .. k + 1) = k + 1 /\ (1 .. k + 1) \ {k + 1} = 1 .. k /\ 1 .. k + 1 # {}
         /\ 1 .. 0 = {}
<1>1. IsFiniteSet(1 .. k + 1)
  BY FS_Interval
<1>2. 1 .. k + 1 # {} /\ k + 1 \in 1 .. k + 1
  OBVIOUS
<1>3. Max(1 .. k + 1) \in 1 .. k + 1 /\ \A y \in 1 .. k + 1 : Max(1 .. k + 1) >= y
  BY <1>1, <1>2, MaxOfFinite
<1>4. Max(1 .. k + 1) = k + 1
  BY <1>2, <1>3
<1> QED
  BY <1>2, <1>4

\* What the recursion of FoldLeft says of f, for a function G.
Folds(f, q, b, G) ==
  f = [s \in SUBSET DOMAIN q |-> IF s = {} THEN b ELSE G[<<f[s \ {Max(s)}], q[Max(s)]>>]]

\* There is such a function, and its values are of the type of G's.
LEMMA FoldDefined ==
  ASSUME NEW V, NEW P, NEW q \in Seq(P), NEW b \in V, NEW G \in [V \X P -> V]
  PROVE  \E f : Folds(f, q, b, G) /\ \A s \in SUBSET DOMAIN q : f[s] \in V
<1> DEFINE D == DOMAIN q
           Small(n) == {s \in SUBSET D : Cardinality(s) <= n}
           First(f, n) ==
              /\ f = [s \in Small(n) |-> IF s = {} THEN b ELSE G[<<f[s \ {Max(s)}], q[Max(s)]>>]]
              /\ \A s \in Small(n) : f[s] \in V
           T == {n \in Nat : \E f : First(f, n)}
<1>1. D = 1 .. Len(q) /\ Len(q) \in Nat /\ IsFiniteSet(D) /\ Cardinality(D) = Len(q)
  BY LenProperties, FS_Interval
<1>2. ASSUME NEW s \in SUBSET D, s # {}
      PROVE  /\ IsFiniteSet(s) /\ Max(s) \in s /\ q[Max(s)] \in P
             /\ Cardinality(s \ {Max(s)}) = Cardinality(s) - 1 /\ Cardinality(s) \in Nat
  <2>1. IsFiniteSet(s)
    BY <1>1, FS_Subset
  <2>2. \A x \in s : x \in Int
    BY <1>1
  <2>3. Max(s) \in s
    BY <1>2, <2>1, <2>2, MaxOfFinite
  <2>4. q[Max(s)] \in P
    BY <1>1, <2>3, ElementOfSeq
  <2>5. Cardinality(s \ {Max(s)}) = Cardinality(s) - 1 /\ Cardinality(s) \in Nat
    BY <2>1, <2>3, FS_RemoveElement, FS_CardinalityType
  <2> QED
    BY <2>1, <2>3, <2>4, <2>5
<1> HIDE DEF D
<1>3. 0 \in T
  <2> DEFINE g == [s \in Small(0) |-> b]
  <2>1. ASSUME NEW s \in Small(0) PROVE s = {}
    <3>1. IsFiniteSet(s) /\ Cardinality(s) \in Nat
      BY <1>1, FS_Subset, FS_CardinalityType
    <3> QED
      BY <3>1, FS_EmptySet
  <2>2. First(g, 0)
    BY <2>1
  <2>3. \E h : First(h, 0)
    <3> HIDE DEF g
    <3> QED
      BY <2>2
  <2> HIDE DEF First
  <2> QED
    BY <2>3
<1>4. ASSUME NEW n \in Nat, n \in T PROVE n + 1 \in T
  <2>1. PICK f : First(f, n)
    BY <1>4
  <2> DEFINE g == [s \in Small(n + 1) |-> IF s = {} THEN b ELSE G[<<f[s \ {Max(s)}], q[Max(s)]>>]]
  <2>2. ASSUME NEW s \in Small(n + 1), s # {} PROVE s \ {Max(s)} \in Small(n)
    <3> DEFINE z == s \ {Max(s)}
    <3>1. s \in SUBSET D /\ Cardinality(s) <= n + 1
      OBVIOUS
    <3>2. Cardinality(z) = Cardinality(s) - 1 /\ Cardinality(s) \in Nat
      BY <1>2, <2>2, <3>1
    <3>3. z \in SUBSET D
      BY <3>1
    <3> HIDE DEF z
    <3>4. Cardinality(z) <= n
      BY <3>1, <3>2
    <3>5. z \in Small(n)
      BY <3>3, <3>4
    <3> QED
      BY <3>5 DEF z
  <2>3. ASSUME NEW s \in Small(n) PROVE s \in Small(n + 1) /\ g[s] = f[s]
    <3>1. s \in Small(n + 1)
      <4>1. IsFiniteSet(s) /\ Cardinality(s) \in Nat
        BY <1>1, FS_Subset, FS_CardinalityType
      <4> QED
        BY <4>1
    <3>2. f[s] = IF s = {} THEN b ELSE G[<<f[s \ {Max(s)}], q[Max(s)]>>]
      BY <2>1
    <3> QED
      BY <3>1, <3>2
  <2>4. ASSUME NEW s \in Small(n + 1)
        PROVE  /\ g[s] = IF s = {} THEN b ELSE G[<<g[s \ {Max(s)}], q[Max(s)]>>]
               /\ g[s] \in V
    <3>1. CASE s = {}
      BY <3>1
    <3>2. CASE s # {}
      <4>1. s \ {Max(s)} \in Small(n) /\ q[Max(s)] \in P
        BY <1>2, <2>2, <3>2
      <4>2. g[s \ {Max(s)}] = f[s \ {Max(s)}] /\ f[s \ {Max(s)}] \in V
        <5> HIDE DEF g, Small
        <5> QED
          BY <2>1, <2>3, <4>1
      <4>3. g[s] = G[<<f[s \ {Max(s)}], q[Max(s)]>>]
        BY <3>2
      <4>4. g[s] \in V
        <5> HIDE DEF g
        <5> QED
          BY <4>1, <4>2, <4>3
      <4> QED
        BY <3>2, <4>2, <4>3, <4>4
    <3> QED
      BY <3>1, <3>2
  <2>5. First(g, n + 1)
    <3>1. g = [s \in Small(n + 1) |-> IF s = {} THEN b ELSE G[<<g[s \ {Max(s)}], q[Max(s)]>>]]
      <4> HIDE DEF Small
      <4> QED
        BY <2>4
    <3> HIDE DEF g
    <3> QED
      BY <2>4, <3>1
  <2>6. \E h : First(h, n + 1)
    <3> HIDE DEF g
    <3> QED
      BY <2>5
  <2>7. n + 1 \in Nat
    OBVIOUS
  <2> HIDE DEF First
  <2> QED
    BY <2>6, <2>7
<1>5. \A n \in Nat : n \in T
  <2> HIDE DEF T
  <2> QED
    BY <1>3, <1>4, NatSetInduction
<1>6. PICK f : First(f, Len(q))
  BY <1>1, <1>5
<1>7. Small(Len(q)) = SUBSET D
  <2>1. ASSUME NEW s \in SUBSET D PROVE Cardinality(s) <= Len(q)
    BY <1>1, FS_Subset
  <2> QED
    BY <2>1
<1>8. Folds(f, q, b, G) /\ \A s \in SUBSET D : f[s] \in V
  <2> HIDE DEF Small
  <2> QED
    BY <1>6, <1>7 DEF Folds, D
<1> QED
  BY <1>8 DEF D

-----------------------------------------------------------------------------
(* A finite set in the order of a relation.                                *)

StrictOrder(S, R) ==
  /\ \A a \in S : <<a, a>> \notin R
  /\ \A a, b \in S : a # b => <<a, b>> \in R \/ <<b, a>> \in R
  /\ \A a, b, c \in S : <<a, b>> \in R /\ <<b, c>> \in R => <<a, c>> \in R

Sorted(q, S, R) ==
  /\ q \in [1 .. Cardinality(S) -> S]
  /\ \A i, j \in 1 .. Cardinality(S) : i < j => <<q[i], q[j]>> \in R

LEMMA LastInOrder ==
  ASSUME NEW S, IsFiniteSet(S), S # {}, NEW R, StrictOrder(S, R)
  PROVE  \E m \in S : \A y \in S : y = m \/ <<y, m>> \in R
<1> DEFINE Greatest(X) == \E m \in X : \A y \in X : y = m \/ <<y, m>> \in R
           T == {n \in Nat : \A X \in SUBSET S : Cardinality(X) = n => X = {} \/ Greatest(X)}
<1>1. 0 \in T
  <2> SUFFICES ASSUME NEW X \in SUBSET S, Cardinality(X) = 0 PROVE X = {}
    OBVIOUS
  <2> QED
    BY FS_Subset, FS_EmptySet
<1>2. ASSUME NEW n \in Nat, n \in T PROVE n + 1 \in T
  <2> SUFFICES ASSUME NEW X \in SUBSET S, Cardinality(X) = n + 1, X # {}
               PROVE  Greatest(X)
    OBVIOUS
  <2>1. PICK x : x \in X
    OBVIOUS
  <2>2. IsFiniteSet(X)
    BY FS_Subset
  <2>3. Cardinality(X \ {x}) = Cardinality(X) - 1
    BY <2>1, <2>2, FS_RemoveElement
  <2>4. X \ {x} = {} \/ Greatest(X \ {x})
    BY <1>2, <2>3
  <2>5. CASE X \ {x} = {}
    BY <2>1, <2>5
  <2>6. CASE Greatest(X \ {x})
    <3>1. PICK m \in X \ {x} : \A y \in X \ {x} : y = m \/ <<y, m>> \in R
      BY <2>6
    <3>2. CASE <<x, m>> \in R
      BY <3>1, <3>2
    <3>3. CASE <<m, x>> \in R
      <4>1. \A y \in X : y = x \/ <<y, x>> \in R
        BY <2>1, <3>1, <3>3 DEF StrictOrder
      <4> QED
        BY <2>1, <4>1
    <3> QED
      BY <2>1, <3>1, <3>2, <3>3 DEF StrictOrder
  <2> QED
    BY <2>4, <2>5, <2>6
<1>3. \A n \in Nat : n \in T
  <2> HIDE DEF T
  <2> QED
    BY <1>1, <1>2, NatSetInduction
<1> QED
  BY <1>3, FS_CardinalityType

LEMMA SortedExists ==
  ASSUME NEW S, IsFiniteSet(S), NEW R, StrictOrder(S, R)
  PROVE  \E q : Sorted(q, S, R)
<1> DEFINE T == {n \in Nat : \A X \in SUBSET S : Cardinality(X) = n => \E q : Sorted(q, X, R)}
<1>1. 0 \in T
  <2> SUFFICES ASSUME NEW X \in SUBSET S, Cardinality(X) = 0 PROVE \E q : Sorted(q, X, R)
    OBVIOUS
  <2>1. Sorted(<<>>, X, R)
    BY DEF Sorted
  <2> QED
    BY <2>1
<1>2. ASSUME NEW n \in Nat, n \in T PROVE n + 1 \in T
  <2> SUFFICES ASSUME NEW X \in SUBSET S, Cardinality(X) = n + 1
               PROVE  \E q : Sorted(q, X, R)
    OBVIOUS
  <2>1. IsFiniteSet(X) /\ X # {}
    BY FS_Subset, FS_EmptySet
  <2>2. StrictOrder(X, R)
    BY DEF StrictOrder
  <2>3. PICK m \in X : \A y \in X : y = m \/ <<y, m>> \in R
    BY <2>1, <2>2, LastInOrder
  <2>4. Cardinality(X \ {m}) = n
    <3>1. Cardinality(X \ {m}) = Cardinality(X) - 1
      BY <2>1, FS_RemoveElement
    <3>2. (n + 1) - 1 = n
      OBVIOUS
    <3> QED
      BY <3>1, <3>2
  <2>5. PICK q : Sorted(q, X \ {m}, R)
    BY <1>2, <2>4
  <2> DEFINE r == [i \in 1 .. n + 1 |-> IF i = n + 1 THEN m ELSE q[i]]
  <2> DEFINE Y == X \ {m}
  <2> HIDE DEF Y
  <2>0. q \in [1 .. n -> Y]
    BY <2>4, <2>5 DEF Sorted, Y
  <2>6. ASSUME NEW i \in 1 .. n PROVE r[i] = q[i] /\ q[i] \in X /\ <<q[i], m>> \in R
    <3>1. q[i] \in Y
      BY <2>0
    <3>2. i \in 1 .. n + 1 /\ i # n + 1
      OBVIOUS
    <3> QED
      BY <2>3, <3>1, <3>2 DEF Y
  <2>7. r \in [1 .. n + 1 -> X] /\ r[n + 1] = m
    <3>1. n + 1 \in 1 .. n + 1
      OBVIOUS
    <3>2. r[n + 1] = m
      BY <3>1
    <3>3. ASSUME NEW i \in 1 .. n + 1 PROVE r[i] \in X
      <4>1. i = n + 1 \/ i \in 1 .. n
        OBVIOUS
      <4> HIDE DEF r
      <4> QED
        BY <2>6, <3>2, <4>1
    <3> QED
      BY <3>2, <3>3
  <2>8. ASSUME NEW i \in 1 .. n + 1, NEW j \in 1 .. n + 1, i < j PROVE <<r[i], r[j]>> \in R
    <3>1. i \in 1 .. n
      BY <2>8
    <3>2. CASE j = n + 1
      BY <2>6, <2>7, <3>1, <3>2
    <3>3. CASE j \in 1 .. n
      BY <2>4, <2>5, <2>6, <2>8, <3>1, <3>3 DEF Sorted
    <3> QED
      BY <3>2, <3>3
  <2>9. Sorted(r, X, R)
    <3> HIDE DEF r
    <3> QED
      BY <2>7, <2>8 DEF Sorted
  <2> HIDE DEF r
  <2> QED
    BY <2>9
<1>3. \A n \in Nat : n \in T
  <2> HIDE DEF T
  <2> QED
    BY <1>1, <1>2, NatSetInduction
<1> QED
  BY <1>3, FS_CardinalityType

\* A list in order holds every member of the set once.
LEMMA SortedOnto ==
  ASSUME NEW S, IsFiniteSet(S), NEW R, StrictOrder(S, R), NEW q, Sorted(q, S, R)
  PROVE  /\ q \in Seq(S) /\ Len(q) = Cardinality(S) /\ ToSet(q) = S
         /\ \A i, j \in 1 .. Len(q) : i # j => q[i] # q[j]
<1> DEFINE n == Cardinality(S)
<1>1. n \in Nat /\ IsFiniteSet(1 .. n) /\ Cardinality(1 .. n) = n
  BY FS_CardinalityType, FS_Interval
<1>2. q \in [1 .. n -> S] /\ DOMAIN q = 1 .. n
  BY DEF Sorted
<1>3. q \in Seq(S) /\ Len(q) = n
  BY <1>1, <1>2
<1>4. \A i, j \in 1 .. n : i # j => q[i] # q[j]
  <2> SUFFICES ASSUME NEW i \in 1 .. n, NEW j \in 1 .. n, i # j, q[i] = q[j] PROVE FALSE
    OBVIOUS
  <2>1. i < j \/ j < i
    BY <1>1
  <2> QED
    BY <1>2, <2>1 DEF Sorted, StrictOrder
<1>5. q \in Injection(1 .. n, S)
  BY <1>2, <1>4 DEF Injection, IsInjective
<1>6. q \in Surjection(1 .. n, S)
  BY <1>1, <1>5, FS_Injection
<1>7. ToSet(q) = S
  BY <1>2, <1>6 DEF Surjection, ToSet
<1> QED
  BY <1>3, <1>4, <1>7
=============================================================================

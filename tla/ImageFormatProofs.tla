--------------------------- MODULE ImageFormatProofs ---------------------------
(* What the image format promises to everybody who reads or writes it: the  *)
(* slices of the bitmap lie end to end, and the used sectors of a block     *)
(* file, counted from any bit of it on, come one after the other.           *)
EXTENDS ImageFormat, FiniteSetTheorems, TLAPS

\* Division of naturals, by what it leaves.
LEMMA DivBelow ==
  ASSUME NEW x \in Nat, NEW a \in Nat \ {0}
  PROVE  /\ x \div a \in Nat
         /\ (x \div a) * a <= x
         /\ x < (x \div a) * a + a
  OBVIOUS

\* The products of the geometry grow with their factors.
LEMMA MulMono ==
  ASSUME NEW x \in Int, NEW y \in Int, NEW a \in Nat, x <= y
  PROVE  x * a <= y * a
  OBVIOUS

VolumeType(v) == v.lg \in Nat \ {0} /\ v.used \subseteq Int

\* There are just enough block files for the bitmap.
LEMMA BlocksType ==
  ASSUME NEW v, VolumeType(v)
  PROVE  /\ Blocks(v) \in Nat \ {0}
         /\ \A f \in Nat : f < Blocks(v) => f * ALLOCLG < v.lg
         /\ v.lg <= Blocks(v) * ALLOCLG
  <1> DEFINE b == Blocks(v)
  <1>1. b \in Nat /\ b * ALLOCLG <= v.lg + ALLOCLG - 1 /\ v.lg + ALLOCLG - 1 < b * ALLOCLG + ALLOCLG
    <2>1. PICK x \in Nat : x = v.lg + ALLOCLG - 1
      BY FormatAssumption DEF VolumeType
    <2>2. /\ x \div ALLOCLG \in Nat
          /\ (x \div ALLOCLG) * ALLOCLG <= x /\ x < (x \div ALLOCLG) * ALLOCLG + ALLOCLG
      BY DivBelow, FormatAssumption
    <2>3. b = x \div ALLOCLG
      BY <2>1 DEF Blocks
    <2>4. QED
      BY <2>1, <2>2, <2>3
  <1> HIDE DEF b
  <1>2. b # 0
    BY <1>1, FormatAssumption DEF VolumeType
  <1>3. ASSUME NEW f \in Nat, f < b PROVE f * ALLOCLG < v.lg
    <2>1. (f + 1) * ALLOCLG <= b * ALLOCLG
      BY <1>1, <1>3, MulMono, FormatAssumption
    <2>2. (f + 1) * ALLOCLG = f * ALLOCLG + ALLOCLG
      BY FormatAssumption
    <2>3. QED
      BY <1>1, <2>1, <2>2, FormatAssumption DEF VolumeType
  <1>4. QED
    BY <1>1, <1>2, <1>3, FormatAssumption DEF b, VolumeType

\* The slices lie end to end.
LEMMA SliceType ==
  ASSUME NEW v, VolumeType(v), NEW f \in Nat, f < Blocks(v)
  PROVE  /\ Lg(v, f) \in 1 .. ALLOCLG
         /\ FirstOf(f) \in Nat
         /\ Lg(v, f) * Byte \in Nat /\ Lg(v, f) * Byte <= ALLOCLG * Byte
         /\ FirstOf(f) + Lg(v, f) * Byte <= v.lg * Byte
         /\ f + 1 < Blocks(v) => FirstOf(f + 1) = FirstOf(f) + Lg(v, f) * Byte
         /\ FirstOf(f) + Lg(v, f) * Byte <= FirstOf(f + 1)
  <1> DEFINE a == f * ALLOCLG
             g == Lg(v, f)
  <1>1. a \in Nat /\ a < v.lg /\ v.lg \in Nat
    BY BlocksType, FormatAssumption DEF VolumeType
  <1>2. g = IF v.lg - a > ALLOCLG THEN ALLOCLG ELSE v.lg - a
    BY DEF Lg
  <1>3. g \in 1 .. ALLOCLG /\ a + g <= v.lg
    BY <1>1, <1>2, FormatAssumption
  <1>4. ASSUME f + 1 < Blocks(v) PROVE g = ALLOCLG
    <2>1. (f + 1) * ALLOCLG < v.lg
      BY <1>4, BlocksType
    <2>2. (f + 1) * ALLOCLG = a + ALLOCLG
      BY FormatAssumption
    <2>3. QED
      BY <1>1, <1>2, <2>1, <2>2, FormatAssumption
  <1>5. FirstOf(f) = a * Byte /\ FirstOf(f + 1) = (a + ALLOCLG) * Byte
    <2>1. (f + 1) * ALLOCLG = a + ALLOCLG
      BY FormatAssumption
    <2>2. QED
      BY <2>1 DEF FirstOf
  <1> HIDE DEF a, g
  <1>6. /\ a * Byte \in Nat /\ g * Byte \in Nat
        /\ (a + g) * Byte = a * Byte + g * Byte
        /\ (a + ALLOCLG) * Byte = a * Byte + ALLOCLG * Byte
    BY <1>1, <1>3, FormatAssumption
  <1>7. (a + g) * Byte <= v.lg * Byte /\ g * Byte <= ALLOCLG * Byte
    BY <1>1, <1>3, MulMono, FormatAssumption
  <1>8. /\ g \in 1 .. ALLOCLG /\ FirstOf(f) \in Nat /\ g * Byte \in Nat
        /\ g * Byte <= ALLOCLG * Byte
        /\ FirstOf(f) + g * Byte <= v.lg * Byte
        /\ f + 1 < Blocks(v) => FirstOf(f + 1) = FirstOf(f) + g * Byte
        /\ FirstOf(f) + g * Byte <= FirstOf(f + 1)
    BY <1>3, <1>4, <1>5, <1>6, <1>7, FormatAssumption
  <1>9. QED
    BY <1>8 DEF g

\* The used sectors of a block file are finitely many, in its slice.
LEMMA UsedType ==
  ASSUME NEW v, VolumeType(v), NEW f \in Nat, f < Blocks(v)
  PROVE  /\ UsedIn(v, f) \subseteq Nat
         /\ IsFiniteSet(UsedIn(v, f))
         /\ Cardinality(UsedIn(v, f)) \in Nat
         /\ \A s \in UsedIn(v, f) : s >= FirstOf(f) /\ s < FirstOf(f) + Lg(v, f) * Byte
  <1>1. FirstOf(f) \in Nat /\ Lg(v, f) * Byte \in Nat
    BY SliceType
  <1>2. IsFiniteSet(Slice(v, f)) /\ Slice(v, f) \subseteq Nat
    <2> DEFINE a == FirstOf(f)
               b == FirstOf(f) + Lg(v, f) * Byte - 1
    <2>1. a \in Nat /\ b \in Int
      BY <1>1
    <2>2. Slice(v, f) = a .. b
      BY DEF Slice
    <2> HIDE DEF a, b
    <2>3. QED
      BY <2>1, <2>2, FS_Interval
  <1>3. IsFiniteSet(UsedIn(v, f))
    BY <1>2, FS_Subset DEF UsedIn
  <1>4. \A s \in UsedIn(v, f) : s >= FirstOf(f) /\ s < FirstOf(f) + Lg(v, f) * Byte
    BY <1>1 DEF UsedIn, Slice
  <1>5. QED
    BY <1>2, <1>3, <1>4, FS_CardinalityType DEF UsedIn

--------------------------------------------------------------------------------
(* The k-th member of a finite set of numbers.                             *)

Under(S, s) == {t \in S : t < s}

\* The members under a bound are at most all.
LEMMA UnderFinite ==
  ASSUME NEW S, IsFiniteSet(S), NEW s
  PROVE  /\ IsFiniteSet(Under(S, s))
         /\ Cardinality(Under(S, s)) \in Nat
         /\ Cardinality(Under(S, s)) <= Cardinality(S)
  BY FS_Subset, FS_CardinalityType DEF Under

\* A member counts once.
LEMMA UnderNext ==
  ASSUME NEW S, IsFiniteSet(S), S \subseteq Int, NEW s \in Int
  PROVE  Cardinality(Under(S, s + 1)) =
           IF s \in S THEN Cardinality(Under(S, s)) + 1 ELSE Cardinality(Under(S, s))
  <1>0. ASSUME NEW t \in S PROVE t < s + 1 <=> t < s \/ t = s
    <2>1. t \in Int
      OBVIOUS
    <2>2. QED
      BY <2>1
  <1>3. ~(s < s)
    OBVIOUS
  <1>1. CASE s \in S
    <2>1. Under(S, s + 1) = Under(S, s) \cup {s}
      BY <1>0, <1>1, Zenon DEF Under
    <2>2. s \notin Under(S, s)
      BY <1>3, Zenon DEF Under
    <2>3. QED
      BY <1>1, <2>1, <2>2, UnderFinite, FS_AddElement
  <1>2. CASE s \notin S
    <2>1. Under(S, s + 1) = Under(S, s)
      BY <1>0, <1>2, Zenon DEF Under
    <2>2. QED
      BY <1>2, <2>1
  <1>4. QED
    BY <1>1, <1>2

\* A higher bound has no fewer members under it.
LEMMA UnderMono ==
  ASSUME NEW S, IsFiniteSet(S), S \subseteq Int, NEW s \in Int, NEW t \in Int, s <= t
  PROVE  Cardinality(Under(S, s)) <= Cardinality(Under(S, t))
  <1>0. ASSUME NEW x \in S, x < s PROVE x < t
    <2>1. x \in Int
      OBVIOUS
    <2>2. QED
      BY <2>1, <1>0
  <1>1. Under(S, s) \subseteq Under(S, t)
    BY <1>0, Zenon DEF Under
  <1>2. QED
    BY <1>1, UnderFinite, FS_Subset

\* The rank of a member is its own.
LEMMA RankUnique ==
  ASSUME NEW S, IsFiniteSet(S), S \subseteq Int, NEW s \in S, NEW t \in S,
         Cardinality(Under(S, s)) = Cardinality(Under(S, t))
  PROVE  s = t
  <1>1. ASSUME NEW x \in S, NEW y \in S, x < y
        PROVE  Cardinality(Under(S, x)) < Cardinality(Under(S, y))
    <2>0. x \in Int /\ y \in Int
      OBVIOUS
    <2>1. Cardinality(Under(S, x + 1)) = Cardinality(Under(S, x)) + 1
      BY <2>0, UnderNext
    <2>4. x + 1 \in Int /\ x + 1 <= y
      BY <2>0, <1>1
    <2>2. Cardinality(Under(S, x + 1)) <= Cardinality(Under(S, y))
      BY <2>0, <2>4, UnderMono
    <2>3. QED
      BY <2>1, <2>2, UnderFinite
  <1>2. s \in Int /\ t \in Int
    OBVIOUS
  <1>3. Cardinality(Under(S, s)) \in Nat
    BY UnderFinite
  <1>4. ~(s < t) /\ ~(t < s)
    BY <1>1, <1>3
  <1>5. QED
    BY <1>2, <1>4

\* The member with k - 1 others under it is the k-th.
LEMMA KthIs ==
  ASSUME NEW S, IsFiniteSet(S), S \subseteq Int, NEW s \in S, NEW k \in Int,
         Cardinality(Under(S, s)) = k - 1
  PROVE  Kth(S, k) = s
  <1>1. \A x \in S : Cardinality(Under(S, x)) = k - 1 => x = s
    BY RankUnique
  <1>2. Kth(S, k) = CHOOSE x \in S : Cardinality(Under(S, x)) = k - 1
    BY DEF Kth, Under
  <1>3. QED
    BY <1>1, <1>2

--------------------------------------------------------------------------------
(* The units of a block file and the used sectors before a sector.          *)

Size(v, f) == Cardinality(UsedIn(v, f))
Rank(v, f, s) == Cardinality(Under(UsedIn(v, f), s))

Kind(v, f, k) == IF k = 1 THEN "header" ELSE IF k = Size(v, f) + 2 THEN "end" ELSE "sector"
DataOf(v, f, k) == IF k \in 2 .. Size(v, f) + 1 THEN Kth(UsedIn(v, f), k - 1) ELSE 0

\* The rank goes up by one at every used sector.
LEMMA RankNext ==
  ASSUME NEW v, VolumeType(v), NEW f \in Nat, f < Blocks(v), NEW s \in Int
  PROVE  /\ Rank(v, f, s) \in Nat /\ Rank(v, f, s) <= Size(v, f)
         /\ Rank(v, f, s + 1) = IF s \in UsedIn(v, f) THEN Rank(v, f, s) + 1 ELSE Rank(v, f, s)
  <1> DEFINE S == UsedIn(v, f)
  <1>1. IsFiniteSet(S) /\ S \subseteq Int
    BY UsedType
  <1> HIDE DEF S
  <1>2. /\ Cardinality(Under(S, s)) \in Nat /\ Cardinality(Under(S, s)) <= Cardinality(S)
        /\ Cardinality(Under(S, s + 1)) =
             IF s \in S THEN Cardinality(Under(S, s)) + 1 ELSE Cardinality(Under(S, s))
    BY <1>1, UnderFinite, UnderNext
  <1>3. QED
    BY <1>2 DEF Rank, Size, S

\* The used sectors in ascending order.
LEMMA RankKth ==
  ASSUME NEW v, VolumeType(v), NEW f \in Nat, f < Blocks(v), NEW s \in UsedIn(v, f)
  PROVE  Kth(UsedIn(v, f), Rank(v, f, s) + 1) = s
  <1> DEFINE S == UsedIn(v, f)
             k == Rank(v, f, s) + 1
  <1>1. IsFiniteSet(S) /\ S \subseteq Int /\ s \in Int
    BY UsedType
  <1>2. k \in Int /\ Cardinality(Under(S, s)) = k - 1
    BY <1>1, RankNext DEF Rank
  <1> HIDE DEF S, k
  <1>3. s \in S
    BY DEF S
  <1>4. Kth(S, k) = s
    BY <1>1, <1>2, <1>3, KthIs
  <1>5. QED
    BY <1>4 DEF S, k

\* The rank is 0 at the beginning of a slice, and all at its end.
LEMMA RankEnds ==
  ASSUME NEW v, VolumeType(v), NEW f \in Nat, f < Blocks(v)
  PROVE  /\ Size(v, f) \in Nat
         /\ Rank(v, f, FirstOf(f)) = 0
         /\ Rank(v, f, FirstOf(f) + Lg(v, f) * Byte) = Size(v, f)
  <1>1. UsedIn(v, f) \subseteq Nat
    BY UsedType
  <1>2. FirstOf(f) \in Nat /\ FirstOf(f) + Lg(v, f) * Byte \in Nat
    BY SliceType
  <1>3. ASSUME NEW s \in UsedIn(v, f) PROVE ~(s < FirstOf(f)) /\ s < FirstOf(f) + Lg(v, f) * Byte
    BY <1>1, <1>2, UsedType
  <1>4. Under(UsedIn(v, f), FirstOf(f)) = {}
    BY <1>3, Zenon DEF Under
  <1>5. Under(UsedIn(v, f), FirstOf(f) + Lg(v, f) * Byte) = UsedIn(v, f)
    BY <1>3, Zenon DEF Under
  <1>6. Size(v, f) \in Nat
    BY UsedType DEF Size
  <1>7. QED
    BY <1>4, <1>5, <1>6, FS_EmptySet DEF Rank, Size

--------------------------------------------------------------------------------
(* The bit of a sector is found from the one before.                        *)

\* A set of naturals has a least member.
LEMMA Least ==
  ASSUME NEW T, T \subseteq Nat, T # {}
  PROVE  \E x \in T : \A y \in T : x <= y
  <1>1. PICK x \in T : \A y \in T : ~(<<y, x>> \in OpToRel(<, Nat))
    BY NatLessThanWellFounded, WFMin
  <1>2. \A y \in T : ~(y < x)
    BY <1>1 DEF OpToRel
  <1>3. QED
    BY <1>2

\* There is a member of every rank.
LEMMA KthExists ==
  ASSUME NEW v, VolumeType(v), NEW f \in Nat, f < Blocks(v), NEW k \in Nat, k < Size(v, f)
  PROVE  \E s \in UsedIn(v, f) : Rank(v, f, s) = k
  <1> DEFINE T == {x \in Nat : Rank(v, f, x) > k}
  <1>1. /\ FirstOf(f) \in Nat /\ Lg(v, f) * Byte \in Nat
        /\ Rank(v, f, FirstOf(f) + Lg(v, f) * Byte) = Size(v, f)
        /\ Size(v, f) \in Nat
    BY SliceType, RankEnds
  <1>2. FirstOf(f) + Lg(v, f) * Byte \in T
    BY <1>1
  <1>3. PICK x \in T : \A y \in T : x <= y
    <2>1. T # {} /\ T \subseteq Nat
      BY <1>2
    <2> HIDE DEF T
    <2>2. QED
      BY <2>1, Least
  <1>4. x \in Nat /\ Rank(v, f, x) > k
    OBVIOUS
  <1>5. x # 0
    <2>1. Under(UsedIn(v, f), 0) = {}
      <3>1. \A s \in UsedIn(v, f) : ~(s < 0)
        BY UsedType
      <3>2. QED
        BY <3>1 DEF Under
    <2>2. Rank(v, f, 0) = 0
      BY <2>1, FS_EmptySet DEF Rank
    <2>3. QED
      BY <1>4, <2>2
  <1> DEFINE w == x - 1
  <1>6. w \in Nat /\ w + 1 = x /\ ~(x <= w)
    BY <1>4, <1>5
  <1>7. ~(Rank(v, f, w) > k)
    BY <1>3, <1>6
  <1> HIDE DEF w
  <1>8. /\ Rank(v, f, w) \in Nat
        /\ Rank(v, f, w + 1) = IF w \in UsedIn(v, f) THEN Rank(v, f, w) + 1 ELSE Rank(v, f, w)
    BY <1>6, RankNext
  <1>9. w \in UsedIn(v, f) /\ Rank(v, f, w) = k
    BY <1>4, <1>6, <1>7, <1>8
  <1>10. QED
    BY <1>9

\* A finite set of natural numbers has a bound.
LEMMA HasBound ==
  ASSUME NEW S, IsFiniteSet(S), S \subseteq Nat
  PROVE  \E b \in Nat : \A s \in S : s < b
  <1> DEFINE free(R) == ~ \E b \in Nat : \A s \in R : s < b
             K == {k \in Nat : \E R \in SUBSET S : Cardinality(R) = k /\ free(R)}
  <1> SUFFICES ASSUME free(S) PROVE FALSE
    OBVIOUS
  <1>1. Cardinality(S) \in K
    BY FS_CardinalityType
  <1>2. PICK k \in K : \A y \in K : k <= y
    <2>1. K # {} /\ K \subseteq Nat
      BY <1>1
    <2> HIDE DEF K
    <2>2. QED
      BY <2>1, Least
  <1>3. PICK R \in SUBSET S : Cardinality(R) = k /\ free(R)
    OBVIOUS
  <1>4. IsFiniteSet(R)
    BY FS_Subset
  <1>5. PICK r \in R : r \in Nat
    <2>1. R # {}
      BY <1>3
    <2>2. QED
      BY <2>1
  <1> DEFINE Q == R \ {r}
  <1>6. Cardinality(Q) = k - 1 /\ Q \in SUBSET S
    BY <1>3, <1>4, <1>5, FS_RemoveElement
  <1>7. k - 1 \in Nat
    <2>1. k \in Nat /\ k # 0
      BY <1>3, <1>4, <1>5, FS_EmptySet
    <2>2. QED
      BY <2>1
  <1>8. ~free(Q)
    <2>1. k - 1 \notin K
      <3>1. \A y \in K : k <= y
        BY <1>2
      <3>2. k \in Nat /\ ~(k <= k - 1)
        OBVIOUS
      <3> HIDE DEF K
      <3>3. QED
        BY <3>1, <3>2
    <2>2. QED
      BY <1>6, <1>7, <2>1
  <1>9. PICK b \in Nat : \A s \in Q : s < b
    BY <1>8
  <1>10. PICK c \in Nat : r < c /\ b <= c
    <2>1. CASE r < b
      BY <2>1
    <2>2. CASE ~(r < b)
      <3>1. r + 1 \in Nat /\ r < r + 1 /\ b <= r + 1
        BY <1>5, <2>2
      <3>2. QED
        BY <3>1
    <2>3. QED
      BY <2>1, <2>2
  <1>11. ASSUME NEW s \in R PROVE s < c
    <2>1. CASE s = r
      BY <1>10, <2>1
    <2>2. CASE s # r
      <3>1. s \in Nat /\ s < b
        BY <1>9, <2>2
      <3>2. QED
        BY <1>10, <3>1
    <2>3. QED
      BY <2>1, <2>2
  <1>12. QED
    BY <1>3, <1>11

\* A set of n numbers has a first, a second, and so on to the n-th.
LEMMA KthIn ==
  ASSUME NEW S, IsFiniteSet(S), S \subseteq Nat, NEW k \in Nat \ {0}, k <= Cardinality(S)
  PROVE  Kth(S, k) \in S /\ Cardinality(Under(S, Kth(S, k))) = k - 1
  <1> DEFINE rank(x) == Cardinality(Under(S, x))
             T == {x \in Nat : rank(x) >= k}
  <1>1. PICK b \in Nat : \A s \in S : s < b
    BY HasBound
  <1>2. Under(S, b) = S /\ Under(S, 0) = {}
    <2>1. \A s \in S : s < b /\ ~(s < 0)
      BY <1>1
    <2>2. QED
      BY <2>1 DEF Under
  <1>3. b \in T
    <2>1. rank(b) = Cardinality(S) /\ Cardinality(S) \in Nat
      BY <1>2, FS_CardinalityType
    <2>2. QED
      BY <2>1
  <1>4. PICK x \in T : \A y \in T : x <= y
    <2>1. T # {} /\ T \subseteq Nat
      BY <1>3
    <2> HIDE DEF T
    <2>2. QED
      BY <2>1, Least
  <1>5. x \in Nat /\ rank(x) >= k
    OBVIOUS
  <1>6. x # 0
    <2>1. rank(0) = 0
      BY <1>2, FS_EmptySet
    <2>2. QED
      BY <1>5, <2>1
  <1> DEFINE w == x - 1
  <1>7. w \in Nat /\ w + 1 = x /\ ~(x <= w)
    BY <1>5, <1>6
  <1>8. ~(rank(w) >= k)
    BY <1>4, <1>7
  <1> HIDE DEF w
  <1>9. rank(w) \in Nat /\ rank(w + 1) = IF w \in S THEN rank(w) + 1 ELSE rank(w)
    <2>1. w \in Int /\ S \subseteq Int
      BY <1>7
    <2>2. QED
      BY <2>1, UnderFinite, UnderNext
  <1>10. w \in S /\ rank(w) = k - 1
    BY <1>5, <1>7, <1>8, <1>9
  <1>11. Kth(S, k) = w
    <2>1. S \subseteq Int /\ k \in Int
      OBVIOUS
    <2>2. QED
      BY <1>10, <2>1, KthIs
  <1>12. QED
    BY <1>10, <1>11

\* What is found from x on is not before x, and only the first can be at x.
LEMMA KthFrom ==
  ASSUME NEW S, IsFiniteSet(S), S \subseteq Nat, NEW k \in Nat \ {0}, k <= Cardinality(S),
         NEW x \in Nat, \A s \in S : s >= x
  PROVE  /\ Kth(S, k) \in Nat /\ Kth(S, k) >= x
         /\ k > 1 => Kth(S, k) > x
  <1>1. Kth(S, k) \in S /\ Cardinality(Under(S, Kth(S, k))) = k - 1
    BY KthIn
  <1>2. ASSUME Kth(S, k) = x PROVE ~(k > 1)
    <2>1. Under(S, x) = {}
      <3>1. \A s \in S : s \in Nat /\ ~(s < x)
        OBVIOUS
      <3>2. QED
        BY <3>1 DEF Under
    <2>2. k - 1 = 0
      BY <1>1, <1>2, <2>1, FS_EmptySet
    <2>3. QED
      BY <2>2
  <1>3. PICK y \in Nat : y = Kth(S, k) /\ y >= x
    BY <1>1
  <1>4. k > 1 => y > x
    BY <1>2, <1>3
  <1>5. QED
    BY <1>3, <1>4

\* Sets matched one to one have the same size.
LEMMA Bijected ==
  ASSUME NEW S, NEW T, IsFiniteSet(S), NEW F \in [S -> T],
         \A a, b \in S : F[a] = F[b] => a = b,
         \A t \in T : \E s \in S : F[s] = t
  PROVE  IsFiniteSet(T) /\ Cardinality(T) = Cardinality(S)
  <1>1. F \in Bijection(S, T)
    BY DEF Bijection, Injection, Surjection, IsInjective
  <1>2. ExistsBijection(S, T)
    BY <1>1 DEF ExistsBijection
  <1>3. QED
    BY <1>2, FS_Bijection

\* The bits of a block file from x on.
BitsFrom(v, f, x) == {s - FirstOf(f) : s \in UsedIn(v, f)} \ 0 .. x - 1

\* The bits from x on are those of the used sectors from FirstOf(f) + x on.
LEMMA BitsFromIs ==
  ASSUME NEW v, VolumeType(v), NEW f \in Nat, f < Blocks(v), NEW x \in Nat
  PROVE  /\ \A s \in UsedIn(v, f) : s \in Int /\ s - FirstOf(f) \in Nat
         /\ \A s \in UsedIn(v, f) : s - FirstOf(f) \in BitsFrom(v, f, x) <=> s >= FirstOf(f) + x
         /\ \A c \in BitsFrom(v, f, x) :
              \E s \in UsedIn(v, f) : c = s - FirstOf(f) /\ s >= FirstOf(f) + x
         /\ IsFiniteSet(BitsFrom(v, f, x))
  <1>1. FirstOf(f) \in Nat
    BY SliceType
  <1>2. \A s \in UsedIn(v, f) : s \in Int /\ s >= FirstOf(f)
    BY UsedType
  <1>3. \A s \in UsedIn(v, f) : s - FirstOf(f) \in Nat
    BY <1>1, <1>2
  <1>4. \A s \in UsedIn(v, f) : s - FirstOf(f) \notin 0 .. x - 1 <=> s >= FirstOf(f) + x
    BY <1>1, <1>2
  <1>5. IsFiniteSet({s - FirstOf(f) : s \in UsedIn(v, f)})
    <2> DEFINE S == UsedIn(v, f)
               T == {s - FirstOf(f) : s \in S}
               F == [s \in S |-> s - FirstOf(f)]
    <2>1. IsFiniteSet(S)
      BY UsedType
    <2>2. F \in [S -> T] /\ \A t \in T : \E s \in S : F[s] = t
      OBVIOUS
    <2>3. \A a, b \in S : F[a] = F[b] => a = b
      BY <1>1, <1>2
    <2> HIDE DEF S, T, F
    <2>4. IsFiniteSet(T)
      BY <2>1, <2>2, <2>3, Bijected
    <2>5. QED
      BY <2>4 DEF T, S
  <1>6. IsFiniteSet(BitsFrom(v, f, x))
    BY <1>5, FS_Subset DEF BitsFrom
  <1>7. \A s \in UsedIn(v, f) : s - FirstOf(f) \in BitsFrom(v, f, x) <=> s >= FirstOf(f) + x
    BY <1>4 DEF BitsFrom
  <1>8. ASSUME NEW c \in BitsFrom(v, f, x)
        PROVE  \E s \in UsedIn(v, f) : c = s - FirstOf(f) /\ s >= FirstOf(f) + x
    <2>1. PICK s \in UsedIn(v, f) : c = s - FirstOf(f)
      BY DEF BitsFrom
    <2>2. QED
      BY <1>7, <2>1
  <1>9. QED
    BY <1>2, <1>3, <1>6, <1>7, <1>8

\* The bits under that of s are the sectors between.
LEMMA BitsUnder ==
  ASSUME NEW v, VolumeType(v), NEW f \in Nat, f < Blocks(v), NEW x \in Nat,
         NEW s \in UsedIn(v, f), s >= FirstOf(f) + x
  PROVE  Cardinality(Under(BitsFrom(v, f, x), s - FirstOf(f))) =
           Rank(v, f, s) - Rank(v, f, FirstOf(f) + x)
  <1> DEFINE F == FirstOf(f)
             S == UsedIn(v, f)
             B == {t \in S : F + x <= t /\ t < s}
             C == Under(BitsFrom(v, f, x), s - F)
  <1>1. F \in Nat /\ IsFiniteSet(S) /\ S \subseteq Int /\ s \in Int /\ s \in S
    BY SliceType, UsedType
  <1>2. /\ \A t \in S : t - F \in BitsFrom(v, f, x) <=> t >= F + x
        /\ \A c \in BitsFrom(v, f, x) : \E t \in S : c = t - F /\ t >= F + x
    BY BitsFromIs
  <1>3. IsFiniteSet(B)
    BY <1>1, FS_Subset
  <1>4. Cardinality(C) = Cardinality(B)
    <2> DEFINE g == [t \in B |-> t - F]
    <2>1. ASSUME NEW t \in B PROVE t - F \in C
      <3>1. t \in S /\ t \in Int /\ t >= F + x /\ t < s
        BY <1>1
      <3>2. t - F < s - F
        BY <1>1, <3>1
      <3>3. t - F \in BitsFrom(v, f, x)
        BY <1>2, <3>1
      <3>4. QED
        BY <3>2, <3>3 DEF Under
    <2>2. g \in [B -> C]
      BY <2>1
    <2>3. \A a, b \in B : g[a] = g[b] => a = b
      BY <1>1
    <2>4. ASSUME NEW c \in C PROVE \E t \in B : g[t] = c
      <3>1. c \in BitsFrom(v, f, x) /\ c < s - F
        BY DEF Under
      <3>2. PICK t \in S : c = t - F /\ t >= F + x
        BY <1>2, <3>1
      <3>3. t \in Int /\ t < s /\ F + x <= t
        BY <1>1, <3>1, <3>2
      <3>4. t \in B
        BY <3>3
      <3>5. QED
        BY <3>2, <3>4
    <2> HIDE DEF g, B, C
    <2>5. QED
      BY <1>3, <2>2, <2>3, <2>4, Bijected
  <1>5. Under(S, s) = Under(S, F + x) \cup B /\ Under(S, F + x) \cap B = {}
    <2>1. ASSUME NEW t \in S PROVE (t < s <=> t < F + x \/ (F + x <= t /\ t < s)) /\ ~(t < F + x /\ F + x <= t)
      <3>1. t \in Int
        BY <1>1
      <3>2. QED
        BY <1>1, <3>1
    <2>2. QED
      BY <2>1, Zenon DEF Under
  <1> HIDE DEF B, C
  <1>6. /\ IsFiniteSet(Under(S, F + x)) /\ Cardinality(Under(S, F + x)) \in Nat
        /\ Cardinality(B) \in Nat
    BY <1>1, <1>3, UnderFinite, FS_CardinalityType
  <1>7. Cardinality(Under(S, s)) = Cardinality(Under(S, F + x)) + Cardinality(B)
    <2> DEFINE U == Under(S, F + x)
    <2>0. IsFiniteSet(U) /\ Cardinality(U) \in Nat /\ U \cap B = {} /\ Under(S, s) = U \cup B
      BY <1>5, <1>6
    <2> HIDE DEF U
    <2>1. Cardinality(U \cup B) = Cardinality(U) + Cardinality(B) - Cardinality(U \cap B)
      BY <1>3, <2>0, FS_Union
    <2>2. Cardinality(U \cap B) = 0
      BY <2>0, FS_EmptySet
    <2>3. Cardinality(U \cup B) = Cardinality(U) + Cardinality(B)
      BY <1>6, <2>0, <2>1, <2>2
    <2>4. QED
      BY <2>0, <2>3 DEF U
  <1>8. Cardinality(C) = Cardinality(Under(S, s)) - Cardinality(Under(S, F + x))
    BY <1>4, <1>6, <1>7
  <1>9. QED
    BY <1>8 DEF C, Rank

\* The j-th bit from x on is that of the sector j places after those before x.
LEMMA BitKth ==
  ASSUME NEW v, VolumeType(v), NEW f \in Nat, f < Blocks(v), NEW x \in Nat,
         NEW j \in Nat \ {0}, Rank(v, f, FirstOf(f) + x) + j <= Size(v, f)
  PROVE  \E s \in UsedIn(v, f) :
           /\ s \in Int /\ s >= FirstOf(f) + x /\ s < FirstOf(f) + Lg(v, f) * Byte
           /\ Rank(v, f, s) = Rank(v, f, FirstOf(f) + x) + j - 1
           /\ Kth(BitsFrom(v, f, x), j) = s - FirstOf(f)
  <1> DEFINE p == FirstOf(f) + x
             m == Rank(v, f, p)
             A == BitsFrom(v, f, x)
  <1>1. p \in Int /\ m \in Nat /\ Size(v, f) \in Nat /\ FirstOf(f) \in Nat
    BY SliceType, RankNext, RankEnds
  <1>2. m + j - 1 \in Nat /\ m + j - 1 < Size(v, f)
    BY <1>1
  <1>3. PICK s \in UsedIn(v, f) : Rank(v, f, s) = m + j - 1
    BY <1>2, KthExists
  <1>4. s \in Int /\ s < FirstOf(f) + Lg(v, f) * Byte
    BY UsedType
  <1>5. s >= p
    <2> SUFFICES ASSUME ~(s >= p) PROVE FALSE
      OBVIOUS
    <2>1. s + 1 \in Int /\ s + 1 <= p
      BY <1>1, <1>4
    <2>2. Rank(v, f, s + 1) = Rank(v, f, s) + 1
      BY <1>4, RankNext
    <2>3. Rank(v, f, s + 1) <= m
      <3>1. IsFiniteSet(UsedIn(v, f)) /\ UsedIn(v, f) \subseteq Int
        BY UsedType
      <3>2. Cardinality(Under(UsedIn(v, f), s + 1)) <= Cardinality(Under(UsedIn(v, f), p))
        BY <1>1, <2>1, <3>1, UnderMono
      <3>3. QED
        BY <3>2 DEF Rank
    <2>4. Rank(v, f, s + 1) = m + j
      BY <1>1, <1>3, <2>2
    <2>5. QED
      BY <1>1, <2>3, <2>4
  <1>6. /\ IsFiniteSet(A) /\ s - FirstOf(f) \in A /\ A \subseteq Int
    BY <1>5, BitsFromIs
  <1>7. Cardinality(Under(A, s - FirstOf(f))) = j - 1
    <2>1. Cardinality(Under(A, s - FirstOf(f))) = Rank(v, f, s) - m
      BY <1>5, BitsUnder
    <2>2. QED
      BY <1>1, <1>3, <2>1
  <1> HIDE DEF A
  <1>8. Kth(A, j) = s - FirstOf(f)
    <2>1. PICK c : c = s - FirstOf(f)
      OBVIOUS
    <2>2. j \in Int /\ c \in A /\ Cardinality(Under(A, c)) = j - 1
      BY <1>6, <1>7, <2>1
    <2>3. Kth(A, j) = c
      BY <1>6, <2>2, KthIs
    <2>4. QED
      BY <2>1, <2>3
  <1>9. QED
    BY <1>3, <1>4, <1>5, <1>8 DEF A

\* The sectors of an earlier block file lie before those of a later one.
LEMMA SlicesApart ==
  ASSUME NEW v, VolumeType(v), NEW f \in Nat, NEW g \in Nat, f < g, g < Blocks(v),
         NEW s \in UsedIn(v, f)
  PROVE  s \in Nat /\ s < FirstOf(g)
  <1>1. Blocks(v) \in Nat
    BY BlocksType
  <1>2. f < Blocks(v)
    BY <1>1
  <1>3. s \in Nat /\ s < FirstOf(f) + Lg(v, f) * Byte
    BY <1>2, UsedType
  <1>4. FirstOf(f) \in Nat /\ Lg(v, f) * Byte \in Nat /\ FirstOf(f) + Lg(v, f) * Byte <= FirstOf(f + 1)
    BY <1>2, SliceType
  <1>5. FirstOf(f + 1) <= FirstOf(g) /\ FirstOf(f + 1) \in Int /\ FirstOf(g) \in Int
    <2>1. f + 1 \in Int /\ g \in Int /\ f + 1 <= g /\ ALLOCLG \in Nat /\ Byte \in Nat
      BY FormatAssumption
    <2>2. (f + 1) * ALLOCLG <= g * ALLOCLG /\ (f + 1) * ALLOCLG \in Int /\ g * ALLOCLG \in Int
      BY <2>1, MulMono
    <2>3. ((f + 1) * ALLOCLG) * Byte <= (g * ALLOCLG) * Byte
      BY <2>1, <2>2, MulMono
    <2>4. QED
      BY <2>1, <2>2, <2>3 DEF FirstOf
  <1>6. QED
    BY <1>3, <1>4, <1>5

\* Below n groups of a is below n * a.
LEMMA DivBounds ==
  ASSUME NEW x \in Nat, NEW a \in Nat \ {0}, NEW n \in Nat
  PROVE  /\ x \div a < n => x < n * a
         /\ x < n * a => x \div a < n
  <1> DEFINE q == x \div a
  <1>1. q \in Nat /\ q * a <= x /\ x < q * a + a
    BY DivBelow
  <1> HIDE DEF q
  <1>2. ASSUME q < n PROVE x < n * a
    <2>1. (q + 1) * a <= n * a
      BY <1>1, <1>2, MulMono
    <2>2. (q + 1) * a = q * a + a /\ q * a \in Nat /\ n * a \in Nat
      BY <1>1
    <2>3. QED
      BY <1>1, <2>1, <2>2
  <1>3. ASSUME x < n * a, ~(q < n) PROVE FALSE
    <2>1. n * a <= q * a
      BY <1>1, <1>3, MulMono
    <2>2. q * a \in Nat /\ n * a \in Nat
      BY <1>1
    <2>3. QED
      BY <1>1, <1>3, <2>1, <2>2
  <1>4. QED
    BY <1>2, <1>3 DEF q

\* A used sector of the volume belongs to one of its block files.
LEMMA InABlockFile ==
  ASSUME NEW v, VolumeType(v), NEW s \in Nat, s \in v.used, s < v.lg * Byte
  PROVE  \E f \in 0 .. Blocks(v) - 1 : s \in UsedIn(v, f)
  <1> DEFINE t == s \div Byte
             f == t \div ALLOCLG
             p == f * ALLOCLG
             g == Lg(v, f)
  <1>1. Byte \in Nat \ {0} /\ ALLOCLG \in Nat \ {0} /\ v.lg \in Nat /\ Blocks(v) \in Nat /\ v.lg <= Blocks(v) * ALLOCLG
    BY FormatAssumption, BlocksType DEF VolumeType
  <1>2. t \in Nat /\ t * Byte <= s /\ t < v.lg
    BY <1>1, DivBelow, DivBounds
  <1> HIDE DEF t
  <1>3. f \in Nat /\ p <= t /\ t < p + ALLOCLG
    BY <1>1, <1>2, DivBelow
  <1>4. f < Blocks(v)
    <2>1. Blocks(v) * ALLOCLG \in Nat
      BY <1>1
    <2>2. t < Blocks(v) * ALLOCLG
      BY <1>1, <1>2, <2>1
    <2>3. QED
      BY <1>1, <1>2, <2>2, DivBounds
  <1>5. g = IF v.lg - p > ALLOCLG THEN ALLOCLG ELSE v.lg - p
    BY DEF Lg
  <1>6. FirstOf(f) = p * Byte
    BY DEF FirstOf
  <1> HIDE DEF f
  <1>7. p \in Nat
    BY <1>1, <1>3
  <1> HIDE DEF p, g
  <1>8. g \in Nat /\ t < p + g
    BY <1>1, <1>2, <1>3, <1>5, <1>7
  <1>9. p * Byte <= s
    <2>1. p * Byte <= t * Byte
      BY <1>1, <1>2, <1>3, <1>7, MulMono
    <2>2. p * Byte \in Nat /\ t * Byte \in Nat
      BY <1>1, <1>2, <1>7
    <2>3. QED
      BY <1>2, <2>1, <2>2
  <1>10. s < p * Byte + g * Byte
    <2>1. s < (p + g) * Byte
      BY <1>1, <1>7, <1>8, DivBounds DEF t
    <2>2. (p + g) * Byte = p * Byte + g * Byte
      BY <1>1, <1>7, <1>8
    <2>3. QED
      BY <2>1, <2>2
  <1>11. s \in p * Byte .. p * Byte + g * Byte - 1
    <2>1. p * Byte \in Nat /\ g * Byte \in Nat
      BY <1>1, <1>7, <1>8
    <2>2. QED
      BY <1>9, <1>10, <2>1
  <1>12. s \in UsedIn(v, f)
    BY <1>6, <1>11 DEF UsedIn, Slice, g
  <1>13. f \in 0 .. Blocks(v) - 1
    BY <1>1, <1>3, <1>4
  <1>14. QED
    BY <1>12, <1>13

================================================================================

-------------------------- MODULE GgmlAllocProofs --------------------------
(***************************************************************************)
(* Theorems about GgmlAlloc, for any graphs, sizes, alignment and limits   *)
(* on chunks.                                                              *)
(*                                                                         *)
(* Sound says of the state of the walk that the free blocks of a chunk and *)
(* the pieces in use tile it.  Each operation on blocks is shown to keep   *)
(* the tiling, then each step of the walk, then each loop: a loop is a     *)
(* recursive function, whose value is followed through sets of states the  *)
(* steps do not leave (LoopExists).                                        *)
(*                                                                         *)
(* Alive and Counted say whom the memory belongs to in time: the counts    *)
(* are the uses the walk has still before it, what is let go nobody will   *)
(* read, and two tensors with memory in common have it in turn.            *)
(***************************************************************************)
EXTENDS GgmlAlloc, FiniteSetTheorems, SequenceTheorems, WellFoundedInduction, TLAPS

-----------------------------------------------------------------------------
(* Numbers.                                                                *)

\* A set of numbers has a smallest one.
LEMMA Smallest ==
    ASSUME NEW S, S \subseteq Nat, S # {}
    PROVE  \E x \in S : \A y \in S : x <= y
<1> DEFINE T == {0 .. n - 1 : n \in S}
<1>1. T \subseteq FiniteSubsetsOf(Nat) /\ T # {}
  <2>1. \A n \in S : IsFiniteSet(0 .. n - 1) /\ 0 .. n - 1 \subseteq Nat
    BY FS_Interval
  <2> QED BY <2>1 DEF FiniteSubsetsOf
<1>2. IsWellFoundedOn(StrictSubsetOrdering(Nat), FiniteSubsetsOf(Nat))
  BY FS_StrictSubsetOrderingWellFounded
<1> HIDE DEF T
<1>3. \E x \in T : \A y \in T : ~ (<<y, x>> \in StrictSubsetOrdering(Nat))
  BY <1>1, <1>2, WFMin
<1>4. PICK n \in S : \A m \in S : ~ (<<0 .. m - 1, 0 .. n - 1>> \in StrictSubsetOrdering(Nat))
  BY <1>3 DEF T
<1>5. ASSUME NEW m \in S, m < n PROVE FALSE
  <2>1. 0 .. m - 1 \subseteq 0 .. n - 1 /\ m \in 0 .. n - 1 /\ m \notin 0 .. m - 1
    BY <1>5
  <2>2. <<0 .. m - 1, 0 .. n - 1>> \in StrictSubsetOrdering(Nat)
    BY <2>1 DEF StrictSubsetOrdering
  <2> QED BY <2>2, <1>4
<1> QED BY <1>5

\* A bounded set of numbers has a largest one.
LEMMA Largest ==
    ASSUME NEW S, S \subseteq Nat, S # {}, NEW b \in Nat, \A x \in S : x <= b
    PROVE  \E x \in S : \A y \in S : x >= y
<1> DEFINE T == {b - x : x \in S}
<1>1. T \subseteq Nat /\ T # {}
  <2>1. \A x \in S : b - x \in Nat
    OBVIOUS
  <2> QED BY <2>1
<1>2. \E t \in T : \A u \in T : t <= u
  <2> HIDE DEF T
  <2> QED BY <1>1, Smallest
<1>3. PICK x \in S : \A u \in T : b - x <= u
  BY <1>2
<1>4. \A y \in S : b - x <= b - y
  BY <1>3
<1> QED BY <1>4

LEMMA MinIn == ASSUME NEW S, S \subseteq Nat, S # {} PROVE Min(S) \in S /\ \A y \in S : Min(S) <= y
BY Smallest DEF Min

LEMMA MaxIn ==
    ASSUME NEW S, NEW b \in Nat, S \subseteq 0 .. b, S # {}
    PROVE  Max(S) \in S /\ \A y \in S : Max(S) >= y
<1>1. \E x \in S : \A y \in S : x >= y
  <2>1. S \subseteq Nat /\ \A x \in S : x <= b
    OBVIOUS
  <2> QED BY <2>1, Largest
<1> QED BY <1>1 DEF Max

\* A set with 0 that with a number up to n has the next one has all of them.
LEMMA UpTo ==
    ASSUME NEW n \in Nat, NEW A, 0 \in A, \A k \in 1 .. n : k - 1 \in A => k \in A
    PROVE  0 .. n \subseteq A
<1> DEFINE S == {k \in 0 .. n : k \notin A}
<1>1. ASSUME S # {} PROVE FALSE
  <2>1. S \subseteq Nat
    OBVIOUS
  <2> HIDE DEF S
  <2>2. PICK k \in S : \A y \in S : k <= y
    BY <1>1, <2>1, Smallest
  <2>3. k \in 1 .. n /\ k \notin A
    BY <2>2 DEF S
  <2>4. k - 1 \notin S
    BY <2>2, <2>3
  <2> QED BY <2>3, <2>4 DEF S
<1> QED BY <1>1

\* aligned_offset(n) is the smallest multiple of the alignment that is not below n.
LEMMA Aligned ==
    ASSUME NEW n \in Nat
    PROVE  /\ aligned_offset(n) \in Nat /\ aligned_offset(n) >= n
           /\ aligned_offset(n) < n + Alignment
           /\ \E q \in Nat : aligned_offset(n) = q * Alignment
<1> DEFINE A == Alignment
           r == n % A
           q == n \div A
<1>1. A \in Nat /\ A > 0
  BY AllocAssumption
<1>2. r \in 0 .. A - 1 /\ q \in Nat /\ n = q * A + r
  BY <1>1
<1>3. aligned_offset(n) = n + ((A - r) % A)
  BY DEF aligned_offset
<1> HIDE DEF A, r, q
<1>4. CASE r = 0
  <2>1. A % A = 0 /\ A - r = A
    BY <1>1, <1>4
  <2>2. aligned_offset(n) = n
    BY <1>1, <1>2, <1>3, <1>4, <2>1
  <2>3. n = q * A
    BY <1>1, <1>2, <1>4
  <2> QED BY <1>1, <1>2, <2>2, <2>3 DEF A
<1>5. CASE r # 0
  <2>1. (A - r) % A = A - r
    BY <1>1, <1>2, <1>5
  <2>2. aligned_offset(n) = n + A - r
    BY <1>1, <1>2, <1>3, <2>1
  <2>3. (q + 1) * A = q * A + A
    BY <1>1, <1>2
  <2>4. aligned_offset(n) = (q + 1) * A /\ q + 1 \in Nat
    BY <1>1, <1>2, <2>2, <2>3
  <2>5. \E p \in Nat : aligned_offset(n) = p * Alignment
    BY <2>4 DEF A
  <2> QED BY <1>1, <1>2, <1>5, <2>2, <2>5 DEF A
<1> QED BY <1>4, <1>5

LEMMA AlignedMultiple ==
    ASSUME NEW n \in Nat, NEW q \in Nat, n = q * Alignment
    PROVE  aligned_offset(n) = n
<1> DEFINE A == Alignment
<1>1. A \in Nat /\ A > 0
  BY AllocAssumption
<1>2. PICK p \in Nat : aligned_offset(n) = p * A
  BY Aligned
<1>3. aligned_offset(n) \in Nat /\ n <= aligned_offset(n) /\ aligned_offset(n) < n + A
  BY Aligned
<1>0. n = q * A
  OBVIOUS
<1> HIDE DEF A
<1>4. (p - q) * A = aligned_offset(n) - n /\ p - q \in Int
  <2>1. (p - q) * A = p * A - q * A
    BY <1>1, <1>2
  <2> QED BY <2>1, <1>0, <1>1, <1>2
<1>5. CASE p - q >= 1
  <2>1. (p - q) * A >= A
    BY <1>1, <1>4, <1>5
  <2> QED BY <1>1, <1>3, <1>4, <2>1
<1>6. CASE p - q <= -1
  <2>1. (p - q) * A <= -A
    BY <1>1, <1>4, <1>6
  <2> QED BY <1>1, <1>3, <1>4, <2>1
<1>7. CASE p = q
  BY <1>0, <1>2, <1>7
<1> QED BY <1>4, <1>5, <1>6, <1>7

LEMMA AlignedMonotone ==
    ASSUME NEW m \in Nat, NEW n \in Nat, m <= n
    PROVE  /\ aligned_offset(m) <= aligned_offset(n)
           /\ aligned_offset(aligned_offset(n) - aligned_offset(m))
                  = aligned_offset(n) - aligned_offset(m)
<1> DEFINE A == Alignment
           x == aligned_offset(m)
           y == aligned_offset(n)
<1>1. A \in Nat /\ A > 0
  BY AllocAssumption
<1>2. PICK p \in Nat : x = p * A
  BY Aligned
<1>3. PICK q \in Nat : y = q * A
  BY Aligned
<1>4. x \in Nat /\ y \in Nat /\ x < m + A /\ n <= y
  BY Aligned
<1> HIDE DEF x, y
<1>5. (q - p) * A = y - x /\ q - p \in Int
  <2> HIDE DEF A
  <2>1. (q - p) * A = q * A - p * A
    BY <1>1, <1>2
  <2> QED BY <2>1, <1>1, <1>2, <1>3
<1>6. q - p >= 0
  <2>1. CASE q - p <= -1
    <3> HIDE DEF A
    <3>1. (q - p) * A <= -A
      BY <1>1, <1>5, <2>1
    <3> QED BY <1>1, <1>4, <1>5, <3>1
  <2> QED BY <1>5, <2>1
<1>7. (q - p) * A >= 0
  <2> HIDE DEF A
  <2> QED BY <1>1, <1>5, <1>6
<1>8. aligned_offset(y - x) = y - x
  <2>1. y - x \in Nat /\ q - p \in Nat /\ y - x = (q - p) * A
    BY <1>4, <1>5, <1>6, <1>7
  <2> QED BY <2>1, AlignedMultiple DEF A
<1> QED BY <1>4, <1>5, <1>7, <1>8 DEF x, y

-----------------------------------------------------------------------------
(* Intervals that make up a chunk.                                         *)

Tiling(P) ==
    /\ P \subseteq Nat \X Nat
    /\ \A x \in P : x[1] < x[2]
    /\ \A x \in P : x[1] = 0 \/ \E y \in P : y[2] = x[1]
    /\ \A x, y \in P : x = y \/ x[2] <= y[1] \/ y[2] <= x[1]

\* A piece may be cut in two.
LEMMA SplitTiles ==
    ASSUME NEW P, Tiling(P), NEW a \in Nat, NEW b \in Nat, NEW c \in Nat,
           <<a, c>> \in P, a < b, b < c
    PROVE  Tiling((P \ {<<a, c>>}) \cup {<<a, b>>, <<b, c>>})
<1> DEFINE Q == (P \ {<<a, c>>}) \cup {<<a, b>>, <<b, c>>}
<1>1. \A x \in P : x = <<a, c>> \/ x[2] <= a \/ c <= x[1]
  BY DEF Tiling
<1>2. Q \subseteq Nat \X Nat /\ \A x \in Q : x[1] < x[2]
  BY DEF Tiling
<1>3. ASSUME NEW x \in Q PROVE x[1] = 0 \/ \E y \in Q : y[2] = x[1]
  <2>1. CASE x = <<b, c>>
    <3>1. <<a, b>> \in Q /\ <<a, b>>[2] = b
      OBVIOUS
    <3> QED BY <2>1, <3>1
  <2>2. CASE x # <<b, c>>
    <3>1. PICK z \in P : z[1] = x[1]
      <4>1. CASE x = <<a, b>>
        BY <4>1
      <4>2. CASE x \in P
        BY <4>2
      <4> QED BY <2>2, <4>1, <4>2
    <3>2. CASE z[1] = 0
      BY <3>1, <3>2
    <3>3. CASE z[1] # 0
      <4>1. PICK y \in P : y[2] = z[1]
        BY <3>3 DEF Tiling
      <4>2. CASE y = <<a, c>>
        <5>1. <<b, c>> \in Q /\ <<b, c>>[2] = c
          OBVIOUS
        <5> QED BY <3>1, <4>1, <4>2, <5>1
      <4>3. CASE y # <<a, c>>
        BY <3>1, <4>1, <4>3
      <4> QED BY <4>2, <4>3
    <3> QED BY <3>2, <3>3
  <2> QED BY <2>1, <2>2
<1>4. ASSUME NEW x \in Q, NEW y \in Q PROVE x = y \/ x[2] <= y[1] \/ y[2] <= x[1]
  <2>1. CASE x \in P /\ y \in P
    BY <2>1 DEF Tiling
  <2>2. ASSUME NEW u \in P, u # <<a, c>>, NEW v \in {<<a, b>>, <<b, c>>}
        PROVE  u[2] <= v[1] \/ v[2] <= u[1]
    <3>1. u[2] <= a \/ c <= u[1]
      BY <1>1, <2>2
    <3>2. u[1] \in Nat /\ u[2] \in Nat
      BY <1>2 DEF Tiling
    <3> QED BY <3>1, <3>2
  <2>3. CASE x \in {<<a, b>>, <<b, c>>} /\ y \in {<<a, b>>, <<b, c>>}
    BY <2>3
  <2>4. x \in {<<a, b>>, <<b, c>>} \/ (x \in P /\ x # <<a, c>>)
    OBVIOUS
  <2>5. y \in {<<a, b>>, <<b, c>>} \/ (y \in P /\ y # <<a, c>>)
    OBVIOUS
  <2> QED BY <2>1, <2>2, <2>3, <2>4, <2>5
<1> HIDE DEF Q
<1>5. Tiling(Q)
  BY <1>2, <1>3, <1>4 DEF Tiling
<1> QED BY <1>5 DEF Q

\* Two pieces that touch may be joined.
LEMMA JoinTiles ==
    ASSUME NEW P, Tiling(P), NEW a, NEW b, NEW c, <<a, b>> \in P, <<b, c>> \in P
    PROVE  /\ Tiling((P \ {<<a, b>>, <<b, c>>}) \cup {<<a, c>>})
           /\ <<a, c>> \notin P
<1> DEFINE Q == (P \ {<<a, b>>, <<b, c>>}) \cup {<<a, c>>}
<1>1. a \in Nat /\ b \in Nat /\ c \in Nat /\ a < b /\ b < c
  <2>1. <<a, b>> \in Nat \X Nat /\ <<b, c>> \in Nat \X Nat
    BY DEF Tiling
  <2>2. <<a, b>>[1] < <<a, b>>[2] /\ <<b, c>>[1] < <<b, c>>[2]
    BY DEF Tiling
  <2> QED BY <2>1, <2>2
<1>2. \A x \in P : /\ x = <<a, b>> \/ x[2] <= a \/ b <= x[1]
                   /\ x = <<b, c>> \/ x[2] <= b \/ c <= x[1]
  BY DEF Tiling
<1>3. \A x \in P : x \in Nat \X Nat /\ x[1] < x[2]
  BY DEF Tiling
<1>4. \A x \in P : x = <<a, b>> \/ x = <<b, c>> \/ x[2] <= a \/ c <= x[1]
  <2> SUFFICES ASSUME NEW x \in P PROVE x = <<a, b>> \/ x = <<b, c>> \/ x[2] <= a \/ c <= x[1]
    OBVIOUS
  <2>1. x[1] \in Nat /\ x[2] \in Nat /\ x[1] < x[2]
    BY <1>3
  <2> QED BY <1>1, <1>2, <2>1
<1>5. <<a, c>> \notin P
  BY <1>1, <1>4
<1>6. Q \subseteq Nat \X Nat /\ \A x \in Q : x[1] < x[2]
  BY <1>1, <1>3
<1>7. ASSUME NEW x \in Q PROVE x[1] = 0 \/ \E y \in Q : y[2] = x[1]
  <2>1. PICK z \in P : z[1] = x[1] /\ z # <<b, c>>
    <3>1. CASE x = <<a, c>>
      BY <1>1, <3>1
    <3>2. CASE x \in P
      BY <3>2, <1>1, <1>4, <1>5
    <3> QED BY <3>1, <3>2
  <2>2. CASE z[1] = 0
    BY <2>1, <2>2
  <2>3. CASE z[1] # 0
    <3>1. PICK y \in P : y[2] = z[1]
      BY <2>3 DEF Tiling
    <3>2. CASE y = <<b, c>>
      <4>1. <<a, c>> \in Q /\ <<a, c>>[2] = c
        OBVIOUS
      <4> QED BY <2>1, <3>1, <3>2, <4>1
    <3>3. CASE y = <<a, b>>
      <4>1. z[1] = b
        BY <3>1, <3>3
      <4>2. z \in Nat \X Nat /\ z[1] < z[2]
        BY <1>3
      <4> QED BY <1>1, <1>4, <2>1, <4>1, <4>2
    <3>4. CASE y # <<b, c>> /\ y # <<a, b>>
      BY <2>1, <3>1, <3>4
    <3> QED BY <3>2, <3>3, <3>4
  <2> QED BY <2>2, <2>3
<1>8. ASSUME NEW x \in Q, NEW y \in Q PROVE x = y \/ x[2] <= y[1] \/ y[2] <= x[1]
  <2>1. CASE x \in P /\ y \in P
    BY <2>1 DEF Tiling
  <2>2. CASE x = <<a, c>> /\ y \in P
    BY <1>4, <2>2, <1>5
  <2>3. CASE x \in P /\ y = <<a, c>>
    BY <1>4, <2>3, <1>5
  <2> QED BY <2>1, <2>2, <2>3
<1> HIDE DEF Q
<1>9. Tiling(Q)
  BY <1>6, <1>7, <1>8 DEF Tiling
<1> QED BY <1>5, <1>9 DEF Q

-----------------------------------------------------------------------------
(* Lists.                                                                  *)

LEMMA InsertAtIs ==
    ASSUME NEW S, NEW s \in Seq(S), NEW p \in 1 .. Len(s) + 1, NEW e \in S
    PROVE  LET n == InsertAt(s, p, e)
           IN  /\ n \in Seq(S) /\ Len(n) = Len(s) + 1
               /\ \A j \in 1 .. Len(s) + 1 :
                     n[j] = IF j < p THEN s[j] ELSE IF j = p THEN e ELSE s[j - 1]
<1>1. /\ SubSeq(s, 1, p - 1) \in Seq(S) /\ Len(SubSeq(s, 1, p - 1)) = p - 1
      /\ \A j \in 1 .. p - 1 : SubSeq(s, 1, p - 1)[j] = s[j]
  OBVIOUS
<1>2. /\ SubSeq(s, p, Len(s)) \in Seq(S) /\ Len(SubSeq(s, p, Len(s))) = Len(s) - p + 1
      /\ \A j \in 1 .. Len(s) - p + 1 : SubSeq(s, p, Len(s))[j] = s[p + j - 1]
  OBVIOUS
<1> DEFINE x == SubSeq(s, 1, p - 1)
           y == SubSeq(s, p, Len(s))
<1>3. InsertAt(s, p, e) = x \o <<e>> \o y
  BY DEF InsertAt
<1>4. Len(s) \in Nat
  OBVIOUS
<1> HIDE DEF x, y
<1>5. x \in Seq(S) /\ Len(x) = p - 1 /\ y \in Seq(S) /\ Len(y) = Len(s) - p + 1
  BY <1>1, <1>2 DEF x, y
<1>6. /\ x \o <<e>> \o y \in Seq(S) /\ Len(x \o <<e>> \o y) = Len(s) + 1
      /\ \A j \in 1 .. Len(s) + 1 :
            (x \o <<e>> \o y)[j] = IF j < p THEN x[j] ELSE IF j = p THEN e ELSE y[j - p]
  <2> DEFINE u == x \o <<e>>
  <2>1. /\ u \in Seq(S) /\ Len(u) = p
        /\ \A j \in 1 .. p : u[j] = IF j < p THEN x[j] ELSE e
    BY <1>4, <1>5
  <2> HIDE DEF u
  <2>2. Len(u) \in Nat /\ Len(y) \in Nat /\ Len(u) + Len(y) = Len(s) + 1
    BY <1>4, <1>5, <2>1
  <2>3. u \in Seq(S) /\ y \in Seq(S)
    BY <1>5, <2>1
  <2>4. u \o y \in Seq(S) /\ Len(u \o y) = Len(s) + 1
    BY <2>2, <2>3
  <2>5. \A j \in 1 .. Len(s) + 1 : (u \o y)[j] = IF j <= Len(u) THEN u[j] ELSE y[j - Len(u)]
    BY <2>2, <2>3
  <2>7. \A j \in 1 .. Len(s) + 1 :
            (u \o y)[j] = IF j < p THEN x[j] ELSE IF j = p THEN e ELSE y[j - p]
    <3> SUFFICES ASSUME NEW j \in 1 .. Len(s) + 1
                 PROVE  (u \o y)[j] = IF j < p THEN x[j] ELSE IF j = p THEN e ELSE y[j - p]
      OBVIOUS
    <3>1. (u \o y)[j] = IF j <= p THEN u[j] ELSE y[j - p]
      BY <2>1, <2>5
    <3>2. j <= p => u[j] = IF j < p THEN x[j] ELSE e
      BY <1>4, <2>1
    <3>3. j \in Int /\ p \in Int
      BY <1>4
    <3> HIDE DEF u
    <3> QED BY <3>1, <3>2, <3>3
  <2> QED BY <2>4, <2>7 DEF u
<1>7. ASSUME NEW j \in 1 .. Len(s) + 1, j > p PROVE y[j - p] = s[j - 1]
  <2>1. j - p \in 1 .. Len(s) - p + 1 /\ p + (j - p) - 1 = j - 1
    BY <1>4, <1>7
  <2> QED BY <1>2, <2>1 DEF y
<1>8. ASSUME NEW j \in 1 .. Len(s) + 1, j < p PROVE x[j] = s[j]
  BY <1>1, <1>4, <1>8 DEF x
<1> QED BY <1>3, <1>4, <1>6, <1>7, <1>8

LEMMA RemoveAtIs ==
    ASSUME NEW S, NEW s \in Seq(S), NEW p \in 1 .. Len(s)
    PROVE  LET n == RemoveAt(s, p)
           IN  /\ n \in Seq(S) /\ Len(n) = Len(s) - 1
               /\ \A j \in 1 .. Len(s) - 1 : n[j] = IF j < p THEN s[j] ELSE s[j + 1]
<1>1. /\ SubSeq(s, 1, p - 1) \in Seq(S) /\ Len(SubSeq(s, 1, p - 1)) = p - 1
      /\ \A j \in 1 .. p - 1 : SubSeq(s, 1, p - 1)[j] = s[j]
  OBVIOUS
<1>2. /\ SubSeq(s, p + 1, Len(s)) \in Seq(S) /\ Len(SubSeq(s, p + 1, Len(s))) = Len(s) - p
      /\ \A j \in 1 .. Len(s) - p : SubSeq(s, p + 1, Len(s))[j] = s[p + j]
  OBVIOUS
<1> DEFINE x == SubSeq(s, 1, p - 1)
           y == SubSeq(s, p + 1, Len(s))
<1>3. RemoveAt(s, p) = x \o y
  BY DEF RemoveAt
<1>4. Len(s) \in Nat
  OBVIOUS
<1> HIDE DEF x, y
<1>5. x \in Seq(S) /\ Len(x) = p - 1 /\ y \in Seq(S) /\ Len(y) = Len(s) - p
  BY <1>1, <1>2 DEF x, y
<1>6. /\ x \o y \in Seq(S) /\ Len(x \o y) = Len(s) - 1
      /\ \A j \in 1 .. Len(s) - 1 : (x \o y)[j] = IF j < p THEN x[j] ELSE y[j - p + 1]
  <2>0. Len(x) \in Nat /\ Len(y) \in Nat /\ Len(x) + Len(y) = Len(s) - 1
    BY <1>4, <1>5
  <2>1. x \o y \in Seq(S) /\ Len(x \o y) = Len(s) - 1
    BY <1>5, <2>0
  <2>2. \A j \in 1 .. Len(s) - 1 :
            (x \o y)[j] = IF j <= Len(x) THEN x[j] ELSE y[j - Len(x)]
    BY <1>5, <2>0
  <2>3. \A j \in 1 .. Len(s) - 1 : (j <= Len(x) <=> j < p) /\ j - Len(x) = j - p + 1
    BY <1>4, <1>5
  <2> QED BY <2>1, <2>2, <2>3
<1>7. ASSUME NEW j \in 1 .. Len(s) - 1, j >= p PROVE y[j - p + 1] = s[j + 1]
  <2>1. j - p + 1 \in 1 .. Len(s) - p /\ p + (j - p + 1) = j + 1
    BY <1>4, <1>7
  <2> QED BY <1>2, <2>1 DEF y
<1>8. ASSUME NEW j \in 1 .. Len(s) - 1, j < p PROVE x[j] = s[j]
  BY <1>1, <1>4, <1>8 DEF x
<1> QED BY <1>3, <1>4, <1>6, <1>7, <1>8

-----------------------------------------------------------------------------
(* The free blocks of a chunk.                                             *)

Block == [offset : Nat, size : Nat \ {0}]

Span(b) == <<b.offset, End(b)>>
Blocks(free) == {Span(free[k]) : k \in DOMAIN free}

Ordered(free) == \A j, k \in DOMAIN free : j < k => End(free[j]) < free[k].offset

LEMMA BlockIs ==
    ASSUME NEW b \in Block
    PROVE  /\ b.offset \in Nat /\ b.size \in Nat /\ b.size > 0
           /\ End(b) = b.offset + b.size /\ End(b) \in Nat /\ b.offset < End(b)
BY DEF Block, End

\* n is the list with block b in place of the k-th.
With(n, free, k, b) ==
    /\ n \in Seq(Block) /\ DOMAIN n = DOMAIN free
    /\ \A j \in DOMAIN free : n[j] = IF j = k THEN b ELSE free[j]

\* b fits in place of the k-th block.
FitsAt(free, k, b) ==
    /\ \A j \in DOMAIN free : j < k => End(free[j]) < b.offset
    /\ \A j \in DOMAIN free : k < j => End(b) < free[j].offset

LEMMA ReplaceBlock ==
    ASSUME NEW free \in Seq(Block), Ordered(free), NEW k \in DOMAIN free, NEW b \in Block,
           FitsAt(free, k, b), NEW n, With(n, free, k, b)
    PROVE  /\ n \in Seq(Block) /\ Ordered(n)
           /\ Blocks(n) = (Blocks(free) \ {Span(free[k])}) \cup {Span(b)}
<1>0. /\ \A j \in DOMAIN free : j < k => End(free[j]) < b.offset
      /\ \A j \in DOMAIN free : k < j => End(b) < free[j].offset
  BY DEF FitsAt
<1>1. n \in Seq(Block) /\ DOMAIN n = DOMAIN free /\ DOMAIN free \subseteq Nat
  BY DEF With
<1>2. \A j \in DOMAIN free : n[j] = IF j = k THEN b ELSE free[j]
  BY DEF With
<1>3. Ordered(n)
  BY <1>0, <1>1, <1>2 DEF Ordered
<1>4. ASSUME NEW j \in DOMAIN free, j # k PROVE Span(free[j]) # Span(free[k])
  <2>1. free[j] \in Block /\ free[k] \in Block
    BY <1>1
  <2>2. End(free[j]) < free[k].offset \/ End(free[k]) < free[j].offset
    BY <1>1, <1>4 DEF Ordered
  <2>3. free[j].offset # free[k].offset
    BY <2>1, <2>2, BlockIs
  <2> QED BY <2>3 DEF Span
<1>5. Blocks(n) = (Blocks(free) \ {Span(free[k])}) \cup {Span(b)}
  BY <1>1, <1>2, <1>4 DEF Blocks
<1> QED BY <1>1, <1>3, <1>5

LEMMA RemoveBlock ==
    ASSUME NEW free \in Seq(Block), Ordered(free), NEW k \in DOMAIN free
    PROVE  LET n == RemoveAt(free, k)
           IN  /\ n \in Seq(Block) /\ Ordered(n) /\ Len(n) = Len(free) - 1
               /\ Blocks(n) = Blocks(free) \ {Span(free[k])}
               /\ \A j \in 1 .. Len(free) - 1 : n[j] = IF j < k THEN free[j] ELSE free[j + 1]
<1> DEFINE n == RemoveAt(free, k)
<1>0. Len(free) \in Nat /\ DOMAIN free = 1 .. Len(free) /\ k \in 1 .. Len(free)
  OBVIOUS
<1>1. /\ n \in Seq(Block) /\ Len(n) = Len(free) - 1
      /\ \A j \in 1 .. Len(free) - 1 : n[j] = IF j < k THEN free[j] ELSE free[j + 1]
  BY <1>0, RemoveAtIs
<1> HIDE DEF n
<1>2. DOMAIN n = 1 .. Len(free) - 1
  BY <1>1
<1>3. Ordered(n)
  <2> SUFFICES ASSUME NEW h \in DOMAIN n, NEW j \in DOMAIN n, h < j
               PROVE  End(n[h]) < n[j].offset
    BY DEF Ordered
  <2>1. /\ h \in 1 .. Len(free) - 1 /\ j \in 1 .. Len(free) - 1
        /\ {h, j, h + 1, j + 1} \subseteq DOMAIN free
    BY <1>0, <1>2
  <2>2. CASE j < k
    <3>1. n[h] = free[h] /\ n[j] = free[j]
      BY <1>0, <1>1, <2>1, <2>2
    <3> QED BY <2>1, <3>1 DEF Ordered
  <2>3. CASE ~ (j < k) /\ h < k
    <3>1. n[h] = free[h] /\ n[j] = free[j + 1] /\ h < j + 1
      BY <1>0, <1>1, <2>1, <2>3
    <3> QED BY <2>1, <3>1 DEF Ordered
  <2>4. CASE ~ (h < k)
    <3>1. n[h] = free[h + 1] /\ n[j] = free[j + 1] /\ h + 1 < j + 1
      BY <1>0, <1>1, <2>1, <2>4
    <3> QED BY <2>1, <3>1 DEF Ordered
  <2> QED BY <2>2, <2>3, <2>4
<1>4. ASSUME NEW j \in DOMAIN free, j # k PROVE Span(free[j]) # Span(free[k])
  <2>1. free[j] \in Block /\ free[k] \in Block
    BY <1>1
  <2>2. End(free[j]) < free[k].offset \/ End(free[k]) < free[j].offset
    BY <1>0, <1>4 DEF Ordered
  <2>3. free[j].offset # free[k].offset
    BY <2>1, <2>2, BlockIs
  <2> QED BY <2>3 DEF Span
<1>5. ASSUME NEW j \in DOMAIN free, j # k PROVE \E m \in DOMAIN n : n[m] = free[j]
  <2>1. CASE j < k
    <3>1. j \in 1 .. Len(free) - 1
      BY <1>0, <2>1
    <3> QED BY <1>1, <1>2, <2>1, <3>1
  <2>2. CASE j > k
    <3>1. j - 1 \in 1 .. Len(free) - 1 /\ ~ (j - 1 < k) /\ (j - 1) + 1 = j
      BY <1>0, <2>2
    <3> QED BY <1>1, <1>2, <3>1
  <2> QED BY <1>0, <1>5, <2>1, <2>2
<1>6. ASSUME NEW m \in DOMAIN n PROVE \E j \in DOMAIN free : j # k /\ n[m] = free[j]
  <2>1. CASE m < k
    BY <1>0, <1>1, <1>2, <2>1
  <2>2. CASE ~ (m < k)
    <3>1. m + 1 \in DOMAIN free /\ m + 1 # k
      BY <1>0, <1>2, <2>2
    <3> QED BY <1>1, <1>2, <2>2, <3>1
  <2> QED BY <2>1, <2>2
<1>7. Blocks(n) = Blocks(free) \ {Span(free[k])}
  BY <1>4, <1>5, <1>6 DEF Blocks
<1> QED BY <1>1, <1>3, <1>7 DEF n

\* The blocks before an offset are the first ones.
LEMMA Before ==
    ASSUME NEW free \in Seq(Block), Ordered(free), NEW o \in Nat
    PROVE  LET D == {k \in DOMAIN free : free[k].offset < o}
           IN  Cardinality(D) \in 0 .. Len(free) /\ D = 1 .. Cardinality(D)
<1> DEFINE D == {k \in DOMAIN free : free[k].offset < o}
<1>1. Len(free) \in Nat /\ DOMAIN free = 1 .. Len(free) /\ \A k \in DOMAIN free : free[k] \in Block
  OBVIOUS
<1>2. ASSUME NEW k \in D, NEW j \in 1 .. k PROVE j \in D
  <2>1. CASE j = k
    BY <2>1
  <2>2. CASE j < k
    <3>1. j \in DOMAIN free /\ k \in DOMAIN free /\ free[k].offset < o
      BY <1>1
    <3>2. End(free[j]) < free[k].offset
      BY <2>2, <3>1 DEF Ordered
    <3>3. free[j].offset < o
      BY <1>1, <3>1, <3>2, BlockIs
    <3> QED BY <3>1, <3>3
  <2>3. k \in Nat /\ j \in Nat /\ j <= k
    BY <1>1
  <2> QED BY <2>1, <2>2, <2>3
<1>3. D \subseteq 1 .. Len(free)
  BY <1>1
<1> HIDE DEF D
<1>4. ASSUME D = {} PROVE Cardinality(D) \in 0 .. Len(free) /\ D = 1 .. Cardinality(D)
  <2>1. Cardinality(D) = 0
    BY <1>4, FS_EmptySet
  <2> QED BY <1>1, <1>4, <2>1
<1>5. ASSUME D # {} PROVE Cardinality(D) \in 0 .. Len(free) /\ D = 1 .. Cardinality(D)
  <2>1. D \subseteq 0 .. Len(free)
    BY <1>1, <1>3
  <2>2. Max(D) \in D /\ \A y \in D : Max(D) >= y
    BY <1>1, <1>5, <2>1, MaxIn
  <2>3. D = 1 .. Max(D)
    <3>1. 1 .. Max(D) \subseteq D
      BY <1>2, <2>2
    <3>2. \A y \in D : y \in 1 .. Len(free) /\ Max(D) \in 1 .. Len(free) /\ y <= Max(D)
      BY <1>3, <2>2
    <3>3. D \subseteq 1 .. Max(D)
      BY <1>1, <3>2
    <3> QED BY <3>1, <3>3
  <2>4. Max(D) \in 1 .. Len(free)
    BY <1>3, <2>2
  <2>5. Cardinality(1 .. Max(D)) = Max(D)
    BY <2>4, FS_Interval
  <2>6. Cardinality(D) = Max(D)
    BY <2>3, <2>5
  <2> QED BY <1>1, <2>3, <2>4, <2>6
<1>6. Cardinality(D) \in 0 .. Len(free) /\ D = 1 .. Cardinality(D)
  BY <1>4, <1>5
<1> QED BY <1>6 DEF D

\* A block that touches no other is put between them.
LEMMA InsertBlock ==
    ASSUME NEW free \in Seq(Block), Ordered(free), NEW b \in Block,
           \A k \in DOMAIN free : End(free[k]) < b.offset \/ End(b) < free[k].offset
    PROVE  LET n == insert_block(free, b.offset, b.size)
           IN  /\ n \in Seq(Block) /\ Ordered(n)
               /\ Blocks(n) = Blocks(free) \cup {Span(b)}
<1> DEFINE D == {k \in DOMAIN free : free[k].offset < b.offset}
           p == Cardinality(D) + 1
           n == InsertAt(free, p, b)
<1>1. Len(free) \in Nat /\ DOMAIN free = 1 .. Len(free) /\ \A k \in DOMAIN free : free[k] \in Block
  OBVIOUS
<1>2. b.offset \in Nat /\ b = [offset |-> b.offset, size |-> b.size]
  BY DEF Block
<1>3. insert_block(free, b.offset, b.size) = n
  BY <1>2 DEF insert_block
<1>4. Cardinality(D) \in 0 .. Len(free) /\ D = 1 .. Cardinality(D)
  BY <1>2, Before
<1>5. \A k \in DOMAIN free : k < p <=> free[k].offset < b.offset
  <2> SUFFICES ASSUME NEW k \in DOMAIN free PROVE k < p <=> free[k].offset < b.offset
    OBVIOUS
  <2>1. k \in D <=> k \in 1 .. Cardinality(D)
    BY <1>4
  <2> HIDE DEF D
  <2>2. k \in D <=> k < p
    BY <1>1, <1>4, <2>1
  <2> QED BY <2>2 DEF D
<1>6. p \in 1 .. Len(free) + 1
  <2> HIDE DEF D
  <2> QED BY <1>1, <1>4
<1> HIDE DEF p
<1>7. /\ n \in Seq(Block) /\ Len(n) = Len(free) + 1
      /\ \A j \in 1 .. Len(free) + 1 :
            n[j] = IF j < p THEN free[j] ELSE IF j = p THEN b ELSE free[j - 1]
  BY <1>1, <1>6, InsertAtIs
<1> HIDE DEF n
<1>8. DOMAIN n = 1 .. Len(free) + 1
  BY <1>7
<1>9. \A k \in DOMAIN free : IF k < p THEN End(free[k]) < b.offset ELSE End(b) < free[k].offset
  <2> SUFFICES ASSUME NEW k \in DOMAIN free
               PROVE  IF k < p THEN End(free[k]) < b.offset ELSE End(b) < free[k].offset
    OBVIOUS
  <2>1. free[k] \in Block
    BY <1>1
  <2> QED BY <1>5, <2>1, BlockIs
<1>10. ASSUME NEW j \in DOMAIN n, NEW k \in DOMAIN n, j < k PROVE End(n[j]) < n[k].offset
  <2>1. j \in Nat /\ k \in Nat /\ p \in Nat
    BY <1>1, <1>6, <1>8
  <2>2. CASE k < p
    BY <1>1, <1>6, <1>7, <1>8, <1>10, <2>1, <2>2 DEF Ordered
  <2>3. CASE k = p
    BY <1>1, <1>6, <1>7, <1>8, <1>9, <1>10, <2>1, <2>3
  <2>4. CASE k > p
    <3>1. n[k] = free[k - 1] /\ k - 1 \in DOMAIN free /\ k - 1 >= p
      BY <1>1, <1>6, <1>7, <1>8, <2>1, <2>4
    <3>2. CASE j < p
      <4>1. n[j] = free[j] /\ j \in DOMAIN free /\ j < k - 1
        BY <1>1, <1>6, <1>7, <1>8, <2>1, <2>4, <3>2
      <4> QED BY <3>1, <4>1 DEF Ordered
    <3>3. CASE j = p
      <4>1. n[j] = b
        BY <1>6, <1>7, <1>8, <3>3
      <4>2. ~ (k - 1 < p)
        BY <2>1, <3>1
      <4> QED BY <1>9, <3>1, <4>1, <4>2
    <3>4. CASE j > p
      <4>1. n[j] = free[j - 1] /\ j - 1 \in DOMAIN free /\ j - 1 < k - 1
        BY <1>1, <1>6, <1>7, <1>8, <1>10, <2>1, <3>4
      <4> QED BY <3>1, <4>1 DEF Ordered
    <3> QED BY <2>1, <3>2, <3>3, <3>4
  <2> QED BY <2>1, <2>2, <2>3, <2>4
<1>11. Ordered(n)
  BY <1>10 DEF Ordered
<1>12. ASSUME NEW k \in DOMAIN free PROVE \E m \in DOMAIN n : n[m] = free[k]
  <2>1. CASE k < p
    BY <1>1, <1>7, <1>8, <2>1
  <2>2. CASE k >= p
    <3>1. k + 1 \in 1 .. Len(free) + 1 /\ ~ (k + 1 < p) /\ k + 1 # p /\ (k + 1) - 1 = k
      BY <1>1, <1>6, <2>2
    <3>2. n[k + 1] = free[k]
      BY <1>7, <3>1
    <3> QED BY <1>8, <3>1, <3>2
  <2> QED BY <1>1, <1>6, <2>1, <2>2
<1>13. ASSUME NEW m \in DOMAIN n PROVE n[m] = b \/ \E k \in DOMAIN free : n[m] = free[k]
  <2>1. CASE m < p
    BY <1>1, <1>6, <1>7, <1>8, <2>1
  <2>2. CASE m > p
    <3>1. n[m] = free[m - 1] /\ m - 1 \in DOMAIN free
      BY <1>1, <1>6, <1>7, <1>8, <2>2
    <3> QED BY <3>1
  <2>3. CASE m = p
    BY <1>6, <1>7, <1>8, <2>3
  <2> QED BY <1>1, <1>6, <1>8, <2>1, <2>2, <2>3
<1>14. p \in DOMAIN n /\ n[p] = b
  BY <1>6, <1>7, <1>8
<1>15. Blocks(n) = Blocks(free) \cup {Span(b)}
  BY <1>12, <1>13, <1>14 DEF Blocks
<1> QED BY <1>3, <1>7, <1>11, <1>15

\* A block that was given a later end and the next one, which begins there, are joined.
LEMMA MergeBlocks ==
    ASSUME NEW free \in Seq(Block), Ordered(free), NEW k \in 1 .. Len(free) - 1,
           NEW x \in Block, x.offset = free[k].offset, End(x) = free[k + 1].offset
    PROVE  LET n == Merge([free EXCEPT ![k] = x], k)
           IN  /\ n \in Seq(Block) /\ Ordered(n)
               /\ Blocks(n) = (Blocks(free) \ {Span(free[k]), Span(free[k + 1])})
                                  \cup {<<x.offset, End(free[k + 1])>>}
<1> DEFINE y == free[k + 1]
           b == [offset |-> x.offset, size |-> x.size + y.size]
           m == [free EXCEPT ![k] = x]
           f == [m EXCEPT ![k].size = @ + m[k + 1].size]
           r == RemoveAt(free, k + 1)
<1>1. /\ Len(free) \in Nat /\ DOMAIN free = 1 .. Len(free) /\ k \in DOMAIN free
      /\ k + 1 \in DOMAIN free /\ y \in Block
  OBVIOUS
<1>2. m \in Seq(Block) /\ Len(m) = Len(free) /\ m[k] = x /\ m[k + 1] = y
      /\ \A j \in DOMAIN free : j # k => m[j] = free[j]
  BY <1>1
<1>3. b \in Block /\ Span(b) = <<x.offset, End(y)>>
  <2>1. x.size \in Nat /\ x.size > 0 /\ y.size \in Nat /\ y.size > 0 /\ x.offset \in Nat
    BY <1>1 DEF Block
  <2>2. End(b) = End(x) + y.size
    BY <2>1 DEF End
  <2>3. End(b) = End(y)
    BY <2>2 DEF End
  <2> QED BY <2>1, <2>3 DEF Block, Span
<1>4. f \in Seq(Block) /\ Len(f) = Len(free) /\ \A j \in DOMAIN free : f[j] = IF j = k THEN b ELSE free[j]
  <2>1. f = [m EXCEPT ![k] = b]
    <3>1. x = [offset |-> x.offset, size |-> x.size]
      BY DEF Block
    <3>2. [x EXCEPT !.size = @ + y.size] = b
      BY <3>1
    <3> HIDE DEF b, m
    <3> QED BY <1>1, <1>2, <3>2
  <2> HIDE DEF b, m, f
  <2> QED BY <1>1, <1>2, <1>3, <2>1
<1>5. Merge(m, k) = RemoveAt(f, k + 1)
  <2>1. k \in 1 .. Len(m) - 1 /\ End(m[k]) = m[k + 1].offset
    BY <1>2
  <2> HIDE DEF m
  <2> QED BY <2>1 DEF Merge
<1> HIDE DEF b, m, f
<1>6. /\ r \in Seq(Block) /\ Ordered(r) /\ Len(r) = Len(free) - 1
      /\ Blocks(r) = Blocks(free) \ {Span(free[k + 1])}
      /\ \A j \in 1 .. Len(free) - 1 : r[j] = IF j < k + 1 THEN free[j] ELSE free[j + 1]
  BY <1>1, RemoveBlock
<1>7. /\ RemoveAt(f, k + 1) \in Seq(Block) /\ Len(RemoveAt(f, k + 1)) = Len(free) - 1
      /\ \A j \in 1 .. Len(free) - 1 : RemoveAt(f, k + 1)[j] = IF j < k + 1 THEN f[j] ELSE f[j + 1]
  BY <1>1, <1>4, RemoveAtIs
<1> HIDE DEF r
<1> DEFINE q == [r EXCEPT ![k] = b]
           u == RemoveAt(f, k + 1)
<1>8. u = q
  <2>0. DOMAIN r = 1 .. Len(free) - 1
    BY <1>6
  <2>1. q \in Seq(Block) /\ DOMAIN q = 1 .. Len(free) - 1
        /\ \A j \in 1 .. Len(free) - 1 : q[j] = IF j = k THEN b ELSE r[j]
    BY <1>3, <1>6, <2>0
  <2>2. u \in Seq(Block) /\ DOMAIN u = 1 .. Len(free) - 1
    BY <1>7
  <2> HIDE DEF u, q
  <2>3. ASSUME NEW j \in 1 .. Len(free) - 1 PROVE u[j] = q[j]
    <3>1. u[j] = IF j < k + 1 THEN f[j] ELSE f[j + 1]
      BY <1>7 DEF u
    <3>2. j \in DOMAIN free /\ j + 1 \in DOMAIN free
      BY <1>1
    <3>3. CASE j = k
      BY <1>1, <1>4, <2>1, <3>1, <3>2, <3>3
    <3>4. CASE j < k
      <4>1. u[j] = free[j] /\ q[j] = r[j] /\ r[j] = free[j]
        BY <1>1, <1>4, <1>6, <2>1, <3>1, <3>2, <3>4
      <4> QED BY <4>1
    <3>5. CASE j > k
      <4>1. ~ (j < k + 1) /\ j # k /\ j + 1 # k
        BY <1>1, <3>5
      <4>2. u[j] = free[j + 1] /\ q[j] = r[j] /\ r[j] = free[j + 1]
        BY <1>4, <1>6, <2>1, <3>1, <3>2, <4>1
      <4> QED BY <4>2
    <3> QED BY <1>1, <3>3, <3>4, <3>5
  <2> QED BY <2>1, <2>2, <2>3
<1>9. k \in DOMAIN r /\ r[k] = free[k] /\ DOMAIN r = 1 .. Len(free) - 1
  BY <1>1, <1>6
<1>10. ASSUME NEW j \in DOMAIN r, j < k PROVE End(r[j]) < b.offset
  <2>1. r[j] = free[j] /\ j \in DOMAIN free
    BY <1>1, <1>6, <1>9, <1>10
  <2>2. End(free[j]) < free[k].offset
    BY <1>1, <1>10, <2>1 DEF Ordered
  <2> QED BY <2>1, <2>2 DEF b
<1>11. ASSUME NEW j \in DOMAIN r, k < j PROVE End(b) < r[j].offset
  <2>1. r[j] = free[j + 1] /\ j + 1 \in DOMAIN free /\ k + 1 < j + 1
    BY <1>1, <1>6, <1>9, <1>11
  <2>2. End(y) < free[j + 1].offset
    BY <1>1, <2>1 DEF Ordered
  <2>3. End(b) = End(y)
    BY <1>3 DEF Span
  <2> QED BY <2>1, <2>2, <2>3
<1>12. /\ q \in Seq(Block) /\ Ordered(q)
       /\ Blocks(q) = (Blocks(r) \ {Span(free[k])}) \cup {Span(b)}
  <2>0. q = [r EXCEPT ![k] = b]
    OBVIOUS
  <2> HIDE DEF q
  <2>1. /\ q \in Seq(Block) /\ Ordered(q)
        /\ Blocks(q) = (Blocks(r) \ {Span(r[k])}) \cup {Span(b)}
    <3>1. FitsAt(r, k, b)
      BY <1>10, <1>11 DEF FitsAt
    <3>2. With(q, r, k, b)
      BY <1>3, <1>6, <1>9, <2>0 DEF With
    <3>3. r \in Seq(Block) /\ Ordered(r) /\ k \in DOMAIN r /\ b \in Block
      BY <1>3, <1>6, <1>9
    <3> QED BY <3>1, <3>2, <3>3, ReplaceBlock
  <2> QED BY <1>9, <2>1
<1>13. Merge([free EXCEPT ![k] = x], k) = q
  BY <1>5, <1>8 DEF m
<1> QED BY <1>3, <1>6, <1>12, <1>13

\* Memory is given back: with the other pieces the free blocks still make up the chunk.
LEMMA FreedTiles ==
    ASSUME NEW free \in Seq(Block), Ordered(free), NEW o \in Nat, NEW z \in Nat, z > 0, NEW R,
           Tiling(Blocks(free) \cup R \cup {<<o, o + z>>}), Blocks(free) \cap R = {},
           <<o, o + z>> \notin Blocks(free), <<o, o + z>> \notin R
    PROVE  /\ Freed(free, o, z) \in Seq(Block) /\ Ordered(Freed(free, o, z))
           /\ Tiling(Blocks(Freed(free, o, z)) \cup R) /\ Blocks(Freed(free, o, z)) \cap R = {}
<1> DEFINE B == Blocks(free)
           x == <<o, o + z>>
           P == B \cup R \cup {x}
           ends(k)  == End(free[k]) = o
           touching == {k \in DOMAIN free : ends(k) \/ o + z = free[k].offset}
           k == Min(touching)
           n == Freed(free, o, z)
<1> SUFFICES n \in Seq(Block) /\ Ordered(n) /\ Tiling(Blocks(n) \cup R) /\ Blocks(n) \cap R = {}
  OBVIOUS
<1>1. /\ Len(free) \in Nat /\ DOMAIN free = 1 .. Len(free)
      /\ \A j \in DOMAIN free : free[j] \in Block
  OBVIOUS
<1>2. ASSUME NEW j \in DOMAIN free
      PROVE  /\ Span(free[j]) \in B /\ Span(free[j]) = <<free[j].offset, End(free[j])>>
             /\ free[j].offset \in Nat /\ End(free[j]) \in Nat /\ free[j].offset < End(free[j])
             /\ End(free[j]) <= o \/ o + z <= free[j].offset
  <2>1. Span(free[j]) \in B /\ Span(free[j]) = <<free[j].offset, End(free[j])>>
    BY DEF Blocks, Span
  <2>2. free[j].offset \in Nat /\ End(free[j]) \in Nat /\ free[j].offset < End(free[j])
    BY <1>1, BlockIs
  <2>3. Span(free[j]) = x \/ Span(free[j])[2] <= x[1] \/ x[2] <= Span(free[j])[1]
    BY <2>1 DEF Tiling
  <2>4. Span(free[j]) # x
    BY <2>1
  <2> QED BY <2>1, <2>2, <2>3, <2>4
<1>3. n = IF touching = {} THEN insert_block(free, o, z)
          ELSE IF ends(k) THEN Merge([free EXCEPT ![k].size = @ + z], k)
          ELSE Merge([free EXCEPT ![k] = [offset |-> o, size |-> @.size + z]], k - 1)
  BY DEF Freed
<1>4. Tiling(P) /\ B \cap R = {} /\ x \notin B /\ x \notin R /\ x \in P /\ B \subseteq P
  OBVIOUS
<1> HIDE DEF n, P, B
<1>5. CASE touching = {}
  <2> DEFINE b == [offset |-> o, size |-> z]
  <2>1. b \in Block /\ b.offset = o /\ b.size = z /\ End(b) = o + z /\ Span(b) = x
    BY DEF Block, End, Span
  <2>3. n = insert_block(free, b.offset, b.size)
    BY <1>3, <1>5, <2>1
  <2> HIDE DEF b
  <2>2. ASSUME NEW j \in DOMAIN free PROVE End(free[j]) < b.offset \/ End(b) < free[j].offset
    <3>1. End(free[j]) # o /\ o + z # free[j].offset
      BY <1>5
    <3>2. /\ End(free[j]) \in Nat /\ free[j].offset \in Nat
          /\ End(free[j]) <= o \/ o + z <= free[j].offset
      BY <1>2
    <3>3. End(free[j]) < o \/ o + z < free[j].offset
      BY <3>1, <3>2
    <3> QED BY <2>1, <3>3
  <2>4. n \in Seq(Block) /\ Ordered(n) /\ Blocks(n) = Blocks(free) \cup {Span(b)}
    BY <2>1, <2>2, <2>3, InsertBlock
  <2>5. Blocks(n) \cup R = P /\ Blocks(n) \cap R = {}
    BY <1>4, <2>1, <2>4 DEF P, B
  <2> QED BY <1>4, <2>4, <2>5
<1>6. CASE touching # {}
  <2> DEFINE y == free[k]
             w == <<y.offset, End(y)>>
  <2>1. k \in touching /\ \A j \in touching : k <= j
    <3>1. touching \subseteq Nat
      BY <1>1
    <3> HIDE DEF touching
    <3> QED BY <1>6, <3>1, MinIn
  <2>2. k \in DOMAIN free /\ k \in 1 .. Len(free) /\ y \in Block
    BY <1>1, <2>1
  <2> HIDE DEF k
  <2>3. y.offset \in Nat /\ y.size \in Nat /\ y.size > 0 /\ End(y) = y.offset + y.size
    BY <2>2, BlockIs
  <2>4. w \in B /\ w = Span(y)
    BY <1>2, <2>2
  <2>5. CASE ends(k)
    <3> DEFINE b == [offset |-> y.offset, size |-> y.size + z]
               u == <<y.offset, o + z>>
    <3>1. b \in Block /\ b.offset = y.offset /\ End(b) = o + z /\ Span(b) = u
      <4>1. b.offset = y.offset /\ b.size = y.size + z /\ End(y) = o
        BY <2>5
      <4>2. b \in Block
        <5>1. y.size + z \in Nat \ {0}
          BY <2>3
        <5> HIDE DEF y
        <5> QED BY <2>3, <5>1 DEF Block
      <4> HIDE DEF b
      <4>3. End(b) = o + z
        BY <2>3, <4>1 DEF End
      <4> QED BY <4>1, <4>2, <4>3 DEF Span
    <3>2. n = Merge([free EXCEPT ![k] = b], k)
      <4>1. y = [offset |-> y.offset, size |-> y.size]
        BY <2>2 DEF Block
      <4>2. [y EXCEPT !.size = @ + z] = b
        BY <4>1
      <4> HIDE DEF b
      <4> QED BY <1>3, <1>6, <2>2, <2>5, <4>2
    <3> HIDE DEF b
    <3>3. w = <<y.offset, o>>
      BY <2>5
    <3> DEFINE Q == (P \ {w, x}) \cup {u}
    <3>4. Tiling(Q) /\ u \notin P
      BY <1>4, <2>4, <3>3, JoinTiles DEF P
    <3>5. CASE k \in 1 .. Len(free) - 1 /\ o + z = free[k + 1].offset
      <4> DEFINE v == free[k + 1]
                 q == <<y.offset, End(v)>>
      <4>1. k + 1 \in DOMAIN free /\ Span(v) = <<o + z, End(v)>> /\ Span(v) \in B
        BY <1>1, <1>2, <3>5
      <4>2. /\ n \in Seq(Block) /\ Ordered(n)
            /\ Blocks(n) = (Blocks(free) \ {Span(free[k]), Span(free[k + 1])})
                               \cup {<<b.offset, End(free[k + 1])>>}
        BY <3>1, <3>2, <3>5, MergeBlocks
      <4>3. Blocks(n) = (B \ {w, Span(v)}) \cup {q}
        BY <2>4, <3>1, <4>2 DEF B
      <4>4. Span(v) # w /\ Span(v) # x
        BY <1>4, <2>3, <3>3, <4>1
      <4>5. u \in Q /\ Span(v) \in Q
        BY <1>4, <4>1, <4>4
      <4> HIDE DEF Q, u, v
      <4>6. Tiling((Q \ {u, Span(v)}) \cup {q}) /\ q \notin Q
        BY <3>4, <4>1, <4>5, JoinTiles DEF u
      <4>7. u # w
        BY <2>4, <1>4, <3>4
      <4>8. Blocks(n) \cup R = (Q \ {u, Span(v)}) \cup {q}
        BY <1>4, <2>4, <3>4, <4>1, <4>3, <4>4 DEF Q, P
      <4>9. Blocks(n) \cap R = {}
        <5>1. q \notin R
          BY <4>6, <1>4, <2>4 DEF Q, P
        <5> QED BY <1>4, <4>3, <5>1
      <4> QED BY <4>2, <4>6, <4>8, <4>9
    <3>6. CASE ~ (k \in 1 .. Len(free) - 1 /\ o + z = free[k + 1].offset)
      <4> DEFINE m == [free EXCEPT ![k] = b]
      <4>1. With(m, free, k, b) /\ Len(m) = Len(free) /\ m[k] = b
            /\ (k \in 1 .. Len(free) - 1 => m[k + 1] = free[k + 1])
        BY <1>1, <2>2, <3>1 DEF With
      <4>2. n = m
        <5> HIDE DEF m
        <5> QED BY <3>1, <3>2, <3>6, <4>1 DEF Merge, m
      <4> HIDE DEF m
      <4>3. ASSUME NEW j \in DOMAIN free, j < k PROVE End(free[j]) < b.offset
        BY <2>2, <3>1, <4>3 DEF Ordered
      <4>4. ASSUME NEW j \in DOMAIN free, k < j PROVE End(b) < free[j].offset
        <5>1. End(y) < free[j].offset
          BY <2>2, <4>4 DEF Ordered
        <5>2. o + z <= free[j].offset
          BY <1>2, <2>5, <5>1
        <5>3. CASE o + z = free[j].offset
          <6>1. k + 1 < j
            BY <1>1, <2>2, <3>6, <4>4, <5>3
          <6>2. k + 1 \in DOMAIN free
            BY <1>1, <2>2, <6>1
          <6>3. End(free[k + 1]) < free[j].offset /\ End(y) < free[k + 1].offset
            BY <1>1, <2>2, <6>1, <6>2 DEF Ordered
          <6>4. o + z <= free[k + 1].offset
            BY <1>2, <2>5, <6>2, <6>3
          <6> QED BY <1>2, <5>3, <6>2, <6>3, <6>4
        <5> QED BY <1>2, <3>1, <5>2, <5>3
      <4>5. FitsAt(free, k, b)
        BY <4>3, <4>4 DEF FitsAt
      <4>6. n \in Seq(Block) /\ Ordered(n)
            /\ Blocks(n) = (Blocks(free) \ {Span(free[k])}) \cup {Span(b)}
        BY <2>2, <3>1, <4>1, <4>2, <4>5, ReplaceBlock
      <4>7. Blocks(n) \cup R = Q
        BY <1>4, <2>4, <3>1, <4>6 DEF P, B
      <4>8. Blocks(n) \cap R = {}
        BY <1>4, <3>1, <3>4, <4>6 DEF P, B
      <4> QED BY <3>4, <4>6, <4>7, <4>8
    <3> QED BY <3>5, <3>6
  <2>6. CASE ~ ends(k)
    <3> DEFINE b == [offset |-> o, size |-> y.size + z]
               u == <<o, End(y)>>
               m == [free EXCEPT ![k] = b]
    <3>1. o + z = y.offset
      BY <2>1, <2>6
    <3>2. b \in Block /\ b.offset = o /\ End(b) = End(y) /\ Span(b) = u
      <4>1. b.offset = o /\ b.size = y.size + z
        OBVIOUS
      <4>2. b \in Block
        <5>1. y.size + z \in Nat \ {0}
          BY <2>3
        <5> HIDE DEF y
        <5> QED BY <2>3, <5>1 DEF Block
      <4> HIDE DEF b
      <4>3. End(b) = End(y)
        BY <2>3, <3>1, <4>1 DEF End
      <4> QED BY <4>1, <4>2, <4>3 DEF Span
    <3>3. n = Merge(m, k - 1)
      <4>1. m = [free EXCEPT ![k] = [offset |-> o, size |-> @.size + z]]
        BY <2>2
      <4> HIDE DEF m
      <4> QED BY <1>3, <1>6, <2>6, <4>1
    <3> HIDE DEF b
    <3>4. With(m, free, k, b) /\ Len(m) = Len(free) /\ m[k] = b
          /\ (k - 1 \in 1 .. Len(free) - 1 => m[k - 1] = free[k - 1])
      BY <1>1, <2>2, <3>2 DEF With
    <3> HIDE DEF m
    <3>5. ASSUME NEW j \in DOMAIN free, j < k PROVE End(free[j]) < b.offset
      <4>1. End(free[j]) < y.offset
        BY <2>2, <3>5 DEF Ordered
      <4>2. j \notin touching
        BY <1>1, <2>1, <2>2, <3>5
      <4>3. End(free[j]) # o
        BY <4>2
      <4>4. /\ free[j].offset \in Nat /\ End(free[j]) \in Nat
            /\ free[j].offset < End(free[j])
            /\ End(free[j]) <= o \/ o + z <= free[j].offset
        BY <1>2
      <4>5. End(free[j]) < o + z
        BY <3>1, <4>1
      <4>6. End(free[j]) < o
        BY <4>3, <4>4, <4>5
      <4> QED BY <3>2, <4>6
    <3>6. n = m
      <4>1. CASE k - 1 \in 1 .. Len(free) - 1
        <5>1. k - 1 \in DOMAIN free /\ k - 1 < k /\ (k - 1) + 1 = k
          BY <1>1, <2>2, <4>1
        <5>2. End(m[k - 1]) # m[(k - 1) + 1].offset
          <6>1. End(free[k - 1]) < b.offset
            BY <3>5, <5>1
          <6>2. m[k - 1] = free[k - 1] /\ m[(k - 1) + 1] = b
            BY <3>4, <4>1, <5>1
          <6>3. End(free[k - 1]) \in Nat /\ b.offset \in Nat
            BY <1>2, <3>2, <5>1
          <6> QED BY <6>1, <6>2, <6>3
        <5> QED BY <3>3, <5>2 DEF Merge
      <4>2. CASE k - 1 \notin 1 .. Len(free) - 1
        BY <3>3, <3>4, <4>2 DEF Merge
      <4> QED BY <4>1, <4>2
    <3>7. ASSUME NEW j \in DOMAIN free, k < j PROVE End(b) < free[j].offset
      BY <2>2, <3>2, <3>7 DEF Ordered
    <3>8. FitsAt(free, k, b)
      BY <3>5, <3>7 DEF FitsAt
    <3>9. n \in Seq(Block) /\ Ordered(n)
          /\ Blocks(n) = (Blocks(free) \ {Span(free[k])}) \cup {Span(b)}
      BY <2>2, <3>2, <3>4, <3>6, <3>8, ReplaceBlock
    <3>10. Tiling((P \ {x, w}) \cup {u}) /\ u \notin P
      BY <1>4, <2>4, <3>1, JoinTiles DEF P
    <3>11. Blocks(n) \cup R = (P \ {x, w}) \cup {u}
      <4>1. Blocks(n) = (B \ {w}) \cup {u}
        BY <2>4, <3>2, <3>9 DEF B
      <4> HIDE DEF u, w, x
      <4> QED BY <1>4, <2>4, <4>1 DEF P
    <3>12. Blocks(n) \cap R = {}
      BY <1>4, <3>2, <3>9, <3>10 DEF P, B
    <3> QED BY <3>9, <3>10, <3>11, <3>12
  <2> QED BY <2>5, <2>6
<1> QED BY <1>5, <1>6

-----------------------------------------------------------------------------
(* Taking memory.                                                          *)

ChunkType == [free : Seq(Block), max_size : Nat]

\* Block k of chunk c has `size' bytes.
Fits(cs, c, k, size) ==
    c \in DOMAIN cs /\ k \in DOMAIN cs[c].free /\ cs[c].free[k].size >= size

LEMMA BestFitFits ==
    ASSUME NEW c \in ChunkType, NEW size \in Nat, Fitting(c, size) # {}
    PROVE  BestFit(c, size) \in Fitting(c, size)
<1> DEFINE F == Fitting(c, size)
           S == {c.free[k].size : k \in F}
           T == {k \in F : \A j \in F : c.free[k].size <= c.free[j].size}
<1>1. /\ Len(c.free) \in Nat /\ DOMAIN c.free = 1 .. Len(c.free)
      /\ \A k \in DOMAIN c.free : c.free[k] \in Block
  BY DEF ChunkType
<1>2. F \subseteq 1 .. Len(c.free) - 1 /\ F # {}
  BY DEF Fitting
<1> HIDE DEF F
<1>3. \A k \in F : c.free[k].size \in Nat
  BY <1>1, <1>2, BlockIs
<1>4. S \subseteq Nat /\ S # {}
  BY <1>2, <1>3
<1>5. \E x \in S : \A y \in S : x <= y
  <2> HIDE DEF S
  <2> QED BY <1>4, Smallest
<1>6. PICK k \in F : \A j \in F : c.free[k].size <= c.free[j].size
  BY <1>5
<1>7. T # {} /\ T \subseteq 0 .. Len(c.free)
  <2>1. k \in T
    BY <1>6
  <2>2. T \subseteq F
    OBVIOUS
  <2>3. F \subseteq 0 .. Len(c.free)
    <3>1. 1 .. Len(c.free) - 1 \subseteq 0 .. Len(c.free)
      BY <1>1
    <3> QED BY <1>2, <3>1
  <2> HIDE DEF T
  <2> QED BY <2>1, <2>2, <2>3
<1>8. Max(T) \in T
  <2> HIDE DEF T
  <2> QED BY <1>1, <1>7, MaxIn
<1>9. BestFit(c, size) = Max(T)
  BY DEF BestFit, F
<1> QED BY <1>8, <1>9 DEF F

LEMMA FindBlockFits ==
    ASSUME NEW cs \in Seq(ChunkType), NEW size \in Nat,
           \E c \in DOMAIN cs : Fitting(cs[c], size) # {} \/ LastFits(cs[c], size)
    PROVE  LET found == FindBlock(cs, size) IN Fits(cs, found[1], found[2], size)
<1> DEFINE inner == {c \in DOMAIN cs : Fitting(cs[c], size) # {}}
           last  == {c \in DOMAIN cs : LastFits(cs[c], size)}
           R(c)  == Reuse(cs[c], size)
           best  == Min({c \in last : ~\E d \in last : BetterReuse(R(d), R(c))})
           found == FindBlock(cs, size)
<1>1. found = IF inner # {} THEN <<Max(inner), BestFit(cs[Max(inner)], size)>>
              ELSE <<best, Len(cs[best].free)>>
  BY DEF FindBlock
<1>2. /\ Len(cs) \in Nat /\ DOMAIN cs = 1 .. Len(cs) /\ \A c \in DOMAIN cs : cs[c] \in ChunkType
  OBVIOUS
<1>3. \A c \in DOMAIN cs : Len(cs[c].free) \in Nat /\ DOMAIN cs[c].free = 1 .. Len(cs[c].free)
                           /\ cs[c].max_size \in Nat
                           /\ \A k \in DOMAIN cs[c].free : cs[c].free[k] \in Block
  BY <1>2 DEF ChunkType
<1> HIDE DEF found
<1>4. CASE inner # {}
  <2>1. Max(inner) \in inner
    <3>1. inner \subseteq 0 .. Len(cs)
      BY <1>2
    <3> HIDE DEF inner
    <3> QED BY <1>2, <1>4, <3>1, MaxIn
  <2>2. BestFit(cs[Max(inner)], size) \in Fitting(cs[Max(inner)], size)
    BY <1>2, <2>1, BestFitFits
  <2>3. found = <<Max(inner), BestFit(cs[Max(inner)], size)>>
    BY <1>1, <1>4
  <2> DEFINE m == Max(inner)
             k == BestFit(cs[Max(inner)], size)
  <2>4. m \in DOMAIN cs /\ k \in 1 .. Len(cs[m].free) - 1 /\ cs[m].free[k].size >= size
    BY <2>1, <2>2 DEF Fitting
  <2>5. k \in DOMAIN cs[m].free
    BY <1>3, <2>4
  <2> HIDE DEF m, k
  <2>6. Fits(cs, m, k, size)
    BY <2>4, <2>5 DEF Fits
  <2> QED BY <2>3, <2>6 DEF m, k, found
<1>5. CASE inner = {}
  <2>1. last # {} /\ last \subseteq DOMAIN cs
    BY <1>5
  <2>2. ASSUME NEW c \in last
        PROVE  R(c) \in Int /\ Len(cs[c].free) \in DOMAIN cs[c].free
               /\ cs[c].free[Len(cs[c].free)].size >= size
    <3>1. cs[c].free # <<>> /\ Last(cs[c].free).size >= size /\ c \in DOMAIN cs
      BY DEF LastFits
    <3>2. Last(cs[c].free) = cs[c].free[Len(cs[c].free)]
      BY DEF Last
    <3>3. Len(cs[c].free) \in DOMAIN cs[c].free
      <4>1. Len(cs[c].free) # 0
        BY <1>2, <3>1 DEF ChunkType
      <4> QED BY <1>3, <3>1, <4>1
    <3>4. Last(cs[c].free) \in Block
      BY <1>3, <3>1, <3>2, <3>3
    <3>5. Last(cs[c].free).offset \in Nat /\ cs[c].max_size \in Nat
      BY <1>3, <3>1, <3>4, BlockIs
    <3> QED BY <3>1, <3>2, <3>3, <3>5 DEF Reuse
  <2> HIDE DEF R, last
  <2>3. \E c \in last : ~\E d \in last : BetterReuse(R(d), R(c))
    <3>1. CASE \E c \in last : R(c) >= 0
      <4> DEFINE S == {R(c) : c \in {e \in last : R(e) >= 0}}
      <4>1. S \subseteq Nat /\ S # {}
        BY <2>2, <3>1
      <4>2. \E x \in S : \A y \in S : x <= y
        <5> HIDE DEF S
        <5> QED BY <4>1, Smallest
      <4>3. PICK c \in last : R(c) >= 0 /\ \A e \in last : R(e) >= 0 => R(c) <= R(e)
        BY <4>2
      <4>4. ASSUME NEW d \in last, BetterReuse(R(d), R(c)) PROVE FALSE
        BY <2>2, <4>3, <4>4 DEF BetterReuse
      <4> QED BY <4>4
    <3>2. CASE \A c \in last : R(c) < 0
      <4> DEFINE S == {0 - R(c) : c \in last}
      <4>1. S \subseteq Nat /\ S # {}
        BY <2>1, <2>2, <3>2
      <4>2. \E x \in S : \A y \in S : x <= y
        <5> HIDE DEF S
        <5> QED BY <4>1, Smallest
      <4>3. PICK c \in last : \A e \in last : 0 - R(c) <= 0 - R(e)
        BY <4>2
      <4>4. ASSUME NEW d \in last, BetterReuse(R(d), R(c)) PROVE FALSE
        BY <2>2, <3>2, <4>3, <4>4 DEF BetterReuse
      <4> QED BY <4>4
    <3> QED BY <2>2, <3>1, <3>2
  <2> DEFINE T == {c \in last : ~\E d \in last : BetterReuse(R(d), R(c))}
  <2>4. T # {} /\ T \subseteq Nat
    BY <1>2, <2>1, <2>3
  <2>5. best \in last
    <3>1. Min(T) \in T
      <4> HIDE DEF T
      <4> QED BY <2>4, MinIn
    <3>2. best = Min(T)
      BY DEF R, last
    <3> QED BY <3>1, <3>2
  <2>6. found = <<best, Len(cs[best].free)>>
    BY <1>1, <1>5
  <2> HIDE DEF best
  <2>7. Fits(cs, best, Len(cs[best].free), size)
    BY <2>1, <2>2, <2>5 DEF Fits
  <2> QED BY <2>6, <2>7 DEF found
<1> QED BY <1>4, <1>5

\* What is taken from a block is a piece of the chunk, and what is left of the block.
LEMMA TakeTiles ==
    ASSUME NEW c \in ChunkType, Ordered(c.free), NEW k \in DOMAIN c.free, NEW z \in Nat, z > 0,
           c.free[k].size >= z, NEW R,
           Tiling(Blocks(c.free) \cup R), Blocks(c.free) \cap R = {}
    PROVE  LET o == c.free[k].offset
               d == Take(c, k, z)
           IN  /\ d \in ChunkType /\ Ordered(d.free)
               /\ d.max_size >= c.max_size /\ d.max_size >= o + z /\ o \in Nat
               /\ <<o, o + z>> \notin R
               /\ Tiling(Blocks(d.free) \cup (R \cup {<<o, o + z>>}))
               /\ Blocks(d.free) \cap (R \cup {<<o, o + z>>}) = {}
<1> DEFINE free == c.free
           y == free[k]
           o == y.offset
           x == <<o, o + z>>
           w == <<o, End(y)>>
           B == Blocks(free)
           d == Take(c, k, z)
<1>1. free \in Seq(Block) /\ y \in Block /\ c.max_size \in Nat
  BY DEF ChunkType
<1>2. o \in Nat /\ y.size \in Nat /\ y.size >= z /\ End(y) = o + y.size /\ w = Span(y)
  BY <1>1, BlockIs DEF Span
<1>3. w \in B /\ Tiling(B \cup R) /\ B \cap R = {} /\ Ordered(free)
  BY <1>2 DEF Blocks
<1>4. /\ d.free = IF y.size = z THEN RemoveAt(free, k)
                  ELSE [free EXCEPT ![k] = [offset |-> o + z, size |-> y.size - z]]
      /\ d.max_size = Max({c.max_size, o + z})
      /\ d = [free |-> d.free, max_size |-> d.max_size]
  BY DEF Take
<1>5. d.max_size \in Nat /\ d.max_size >= c.max_size /\ d.max_size >= o + z
  <2> DEFINE S == {c.max_size, o + z}
  <2>1. S \subseteq 0 .. c.max_size + o + z /\ c.max_size + o + z \in Nat /\ S # {}
    <3>1. c.max_size \in Nat /\ o \in Nat
      BY <1>1, <1>2
    <3> HIDE DEF o
    <3> QED BY <3>1
  <2>2. Max(S) \in S /\ \A e \in S : Max(S) >= e
    <3> HIDE DEF S
    <3> QED BY <2>1, MaxIn
  <2> QED BY <1>1, <1>2, <1>4, <2>2
<1> SUFFICES /\ d.free \in Seq(Block) /\ Ordered(d.free) /\ x \notin R
             /\ Tiling(Blocks(d.free) \cup (R \cup {x})) /\ Blocks(d.free) \cap (R \cup {x}) = {}
  <2> HIDE DEF d, free, B
  <2> QED BY <1>2, <1>4, <1>5 DEF ChunkType, d, free
<1> HIDE DEF d, free, B
<1>6. CASE y.size = z
  <2>1. /\ d.free \in Seq(Block) /\ Ordered(d.free) /\ Blocks(d.free) = B \ {w}
    <3>1. free \in Seq(Block) /\ Ordered(free) /\ k \in DOMAIN free
      BY <1>1, <1>3 DEF free
    <3>2. LET n == RemoveAt(free, k)
          IN  /\ n \in Seq(Block) /\ Ordered(n)
              /\ Blocks(n) = Blocks(free) \ {Span(free[k])}
      BY <3>1, RemoveBlock
    <3> QED BY <1>2, <1>4, <1>6, <3>2 DEF B
  <2>2. x = w
    BY <1>2, <1>6
  <2> QED BY <1>3, <2>1, <2>2
<1>7. CASE y.size # z
  <2> DEFINE b == [offset |-> o + z, size |-> y.size - z]
             u == <<o + z, End(y)>>
             n == d.free
             P == B \cup R
             Q == (P \ {w}) \cup {x, u}
  <2>1. b \in Block /\ b.offset = o + z /\ End(b) = End(y) /\ Span(b) = u
    <3>1. b.offset = o + z /\ b.size = y.size - z
      OBVIOUS
    <3>2. b \in Block
      <4>1. y.size - z \in Nat \ {0} /\ o + z \in Nat
        BY <1>2, <1>7
      <4> HIDE DEF o, y
      <4> QED BY <4>1 DEF Block
    <3> HIDE DEF b
    <3>3. End(b) = End(y)
      BY <1>2, <3>1 DEF End
    <3> QED BY <3>1, <3>2, <3>3 DEF Span
  <2>2. n = [free EXCEPT ![k] = b]
    BY <1>4, <1>7
  <2>3. k \in DOMAIN free
    BY DEF free
  <2> HIDE DEF b, n
  <2>4. With(n, free, k, b)
    BY <1>1, <2>1, <2>2, <2>3 DEF With
  <2>5. FitsAt(free, k, b)
    <3>1. ASSUME NEW j \in DOMAIN free, j < k PROVE End(free[j]) < b.offset
      <4>1. End(free[j]) < o
        BY <1>3, <2>3, <3>1 DEF Ordered
      <4>2. free[j] \in Block
        BY <1>1
      <4> QED BY <1>2, <2>1, <4>1, <4>2, BlockIs
    <3>2. ASSUME NEW j \in DOMAIN free, k < j PROVE End(b) < free[j].offset
      BY <1>3, <2>1, <2>3, <3>2 DEF Ordered
    <3> QED BY <3>1, <3>2 DEF FitsAt
  <2>6. n \in Seq(Block) /\ Ordered(n) /\ Blocks(n) = (Blocks(free) \ {Span(free[k])}) \cup {Span(b)}
    <3>1. free \in Seq(Block) /\ Ordered(free) /\ k \in DOMAIN free /\ b \in Block
      BY <1>1, <1>3, <2>1, <2>3
    <3> QED BY <2>4, <2>5, <3>1, ReplaceBlock
  <2>7. Blocks(n) = (B \ {w}) \cup {u}
    BY <1>2, <2>1, <2>6 DEF B
  <2>8. Tiling(Q)
    <3>1. o \in Nat /\ o + z \in Nat /\ End(y) \in Nat /\ o < o + z /\ o + z < End(y)
      BY <1>2, <1>7
    <3>2. w \in P /\ Tiling(P)
      BY <1>3
    <3> HIDE DEF P, o, y
    <3> QED BY <3>1, <3>2, SplitTiles
  <2>9. x \notin P
    <3>1. w \in P /\ Tiling(P)
      BY <1>3
    <3> HIDE DEF P
    <3>2. x \in P => x = w \/ x[2] <= w[1] \/ w[2] <= x[1]
      BY <3>1 DEF Tiling
    <3> QED BY <1>2, <1>7, <3>2
  <2>10. u \notin P
    <3>1. w \in P /\ Tiling(P)
      BY <1>3
    <3> HIDE DEF P
    <3>2. u \in P => u = w \/ u[2] <= w[1] \/ w[2] <= u[1]
      BY <3>1 DEF Tiling
    <3> QED BY <1>2, <1>7, <3>2
  <2>11. x # u
    BY <1>2
  <2>12. Blocks(n) \cup (R \cup {x}) = Q
    <3> HIDE DEF x, u, w
    <3> QED BY <1>3, <2>7
  <2>13. Blocks(n) \cap (R \cup {x}) = {} /\ x \notin R
    <3> HIDE DEF x, u, w
    <3> QED BY <1>3, <2>7, <2>9, <2>10, <2>11
  <2> QED BY <2>6, <2>8, <2>12, <2>13 DEF n
<1> QED BY <1>6, <1>7

\* The free blocks of a chunk are in order and do not touch, and with the pieces R that
\* are in use they make up the chunk.
ChunkSound(c, R) ==
    /\ Ordered(c.free)
    /\ Tiling(Blocks(c.free) \cup R)
    /\ Blocks(c.free) \cap R = {}

\* With `z' bytes taken at address a the chunks cs, R[c] in use in chunk c, have become n.
Taken(cs, R, z, n, a) ==
    /\ n \in Seq(ChunkType) /\ Len(n) >= Len(cs)
    /\ a.chunk \in DOMAIN n /\ a.offset \in Nat
    /\ <<a.offset, a.offset + z>> \notin R[a.chunk]
    /\ \A c \in DOMAIN n :
           /\ ChunkSound(n[c], IF c = a.chunk THEN R[c] \cup {<<a.offset, a.offset + z>>}
                               ELSE R[c])
           /\ c \in DOMAIN cs => n[c].max_size >= cs[c].max_size
    /\ n[a.chunk].max_size >= a.offset + z

LEMMA NewChunkSound ==
    ASSUME NEW cs \in Seq(ChunkType), NEW z \in Nat, z > 0, z <= Endless
    PROVE  LET n == new_chunk(cs, z)
           IN  /\ n \in Seq(ChunkType) /\ Len(n) = Len(cs) + 1
               /\ \A c \in DOMAIN cs : n[c] = cs[c]
               /\ ChunkSound(n[Len(cs) + 1], {})
               /\ LastFits(n[Len(cs) + 1], z)
<1> DEFINE y == IF Len(cs) = MaxChunks - 1 THEN Endless ELSE Max({z, MaxChunkSize})
           b == [offset |-> 0, size |-> y]
           f == <<b>>
           e == [free |-> f, max_size |-> 0]
           n == new_chunk(cs, z)
<1>1. y \in Nat /\ y >= z
  <2> DEFINE S == {z, MaxChunkSize}
  <2>1. MaxChunkSize \in Nat /\ Endless \in Nat
    BY AllocAssumption
  <2>2. S \subseteq 0 .. z + MaxChunkSize /\ z + MaxChunkSize \in Nat /\ S # {} /\ z \in S
    BY <2>1
  <2>3. Max(S) \in S /\ \A x \in S : Max(S) >= x
    <3> HIDE DEF S
    <3> QED BY <2>2, MaxIn
  <2> QED BY <2>1, <2>2, <2>3
<1>2. n = Append(cs, e)
  BY DEF new_chunk
<1> HIDE DEF y, n
<1>3. b \in Block /\ b.offset = 0 /\ b.size = y
  BY <1>1 DEF Block
<1>4. End(b) = y /\ Span(b) = <<0, y>>
  BY <1>1, <1>3 DEF End, Span
<1> HIDE DEF b
<1>5. f \in Seq(Block) /\ DOMAIN f = {1} /\ f[1] = b /\ Len(f) = 1 /\ f # <<>> /\ Last(f) = b
  BY <1>3 DEF Last
<1> HIDE DEF f
<1>6. e \in ChunkType /\ e.free = f
  BY <1>5 DEF ChunkType
<1> HIDE DEF e
<1>7. n \in Seq(ChunkType) /\ Len(n) = Len(cs) + 1 /\ n[Len(cs) + 1] = e
      /\ \A c \in DOMAIN cs : n[c] = cs[c]
  BY <1>2, <1>6
<1>8. Blocks(f) = {<<0, y>>}
  BY <1>4, <1>5 DEF Blocks
<1>9. Tiling({<<0, y>>})
  BY <1>1 DEF Tiling
<1>10. ChunkSound(e, {})
  <2>1. Ordered(f)
    BY <1>5 DEF Ordered
  <2> QED BY <1>6, <1>8, <1>9, <2>1 DEF ChunkSound
<1>11. LastFits(e, z)
  BY <1>1, <1>3, <1>5, <1>6 DEF LastFits
<1> QED BY <1>7, <1>10, <1>11 DEF n

\* Memory is taken from free memory only, and the rest of it is kept.
LEMMA AllocTakes ==
    ASSUME NEW cs \in Seq(ChunkType), NEW bytes \in Nat, bytes > 0,
           bytes + Alignment <= Endless, NEW R,
           \A c \in DOMAIN cs : ChunkSound(cs[c], R[c]), R[Len(cs) + 1] = {}
    PROVE  Taken(cs, R, aligned_offset(bytes), dyn_tallocr_alloc(cs, bytes).chunks,
                 dyn_tallocr_alloc(cs, bytes).addr)
<1> DEFINE z     == aligned_offset(bytes)
           fits(s) == \E c \in DOMAIN s : Fitting(s[c], z) # {} \/ LastFits(s[c], z)
           ready == IF fits(cs) THEN cs ELSE new_chunk(cs, z)
           found == FindBlock(ready, z)
           c     == found[1]
           k     == found[2]
           new   == dyn_tallocr_alloc(cs, bytes)
           n     == [ready EXCEPT ![c] = Take(ready[c], k, z)]
           a     == [chunk |-> c, offset |-> ready[c].free[k].offset]
<1>1. z \in Nat /\ z > 0 /\ z <= Endless
  <2>1. Alignment \in Nat /\ Endless \in Nat
    BY AllocAssumption
  <2>2. aligned_offset(bytes) \in Nat /\ aligned_offset(bytes) >= bytes
        /\ aligned_offset(bytes) < bytes + Alignment
    BY Aligned
  <2> HIDE DEF z
  <2>3. z \in Nat /\ z >= bytes /\ z < bytes + Alignment
    BY <2>2 DEF z
  <2> QED BY <2>1, <2>3
<1>2. new = [addr |-> a, chunks |-> n]
  BY DEF dyn_tallocr_alloc
<1> HIDE DEF z, new
<1>3. /\ ready \in Seq(ChunkType) /\ Len(ready) >= Len(cs) /\ fits(ready)
      /\ \A d \in DOMAIN ready : ChunkSound(ready[d], R[d])
      /\ \A d \in DOMAIN cs : d \in DOMAIN ready /\ ready[d] = cs[d]
  <2>0. Len(cs) \in Nat /\ DOMAIN cs = 1 .. Len(cs)
    OBVIOUS
  <2>1. CASE fits(cs)
    <3>1. ready = cs
      BY <2>1
    <3> HIDE DEF ready
    <3> QED BY <2>0, <2>1, <3>1
  <2>2. CASE ~fits(cs)
    <3>1. ready = new_chunk(cs, z)
      BY <2>2
    <3> HIDE DEF ready
    <3>2. /\ ready \in Seq(ChunkType) /\ Len(ready) = Len(cs) + 1
          /\ \A d \in DOMAIN cs : ready[d] = cs[d]
          /\ ChunkSound(ready[Len(cs) + 1], {})
          /\ LastFits(ready[Len(cs) + 1], z)
      BY <1>1, <3>1, NewChunkSound
    <3>3. DOMAIN ready = 1 .. Len(cs) + 1
      BY <3>2
    <3>4. fits(ready)
      BY <2>0, <3>2, <3>3
    <3>5. ASSUME NEW d \in DOMAIN ready PROVE ChunkSound(ready[d], R[d])
      <4>1. d \in DOMAIN cs \/ d = Len(cs) + 1
        BY <2>0, <3>3
      <4> QED BY <3>2, <4>1
    <3> QED BY <2>0, <3>2, <3>3, <3>4, <3>5
  <2> QED BY <2>1, <2>2
<1> HIDE DEF ready
<1>4. Fits(ready, c, k, z)
  BY <1>1, <1>3, FindBlockFits
<1> HIDE DEF c, k
<1>5. c \in DOMAIN ready /\ k \in DOMAIN ready[c].free /\ ready[c].free[k].size >= z
      /\ ready[c] \in ChunkType /\ ChunkSound(ready[c], R[c])
  BY <1>3, <1>4 DEF Fits
<1> DEFINE o == ready[c].free[k].offset
           d == Take(ready[c], k, z)
<1>6. /\ d \in ChunkType /\ Ordered(d.free)
      /\ d.max_size >= ready[c].max_size /\ d.max_size >= o + z /\ o \in Nat
      /\ <<o, o + z>> \notin R[c]
      /\ Tiling(Blocks(d.free) \cup (R[c] \cup {<<o, o + z>>}))
      /\ Blocks(d.free) \cap (R[c] \cup {<<o, o + z>>}) = {}
  <2>1. /\ Ordered(ready[c].free) /\ Tiling(Blocks(ready[c].free) \cup R[c])
        /\ Blocks(ready[c].free) \cap R[c] = {}
    BY <1>5 DEF ChunkSound
  <2> QED BY <1>1, <1>5, <2>1, TakeTiles
<1>7. a.chunk = c /\ a.offset = o /\ n = [ready EXCEPT ![c] = d]
  OBVIOUS
<1> HIDE DEF d, n, a, o
<1>8. n \in Seq(ChunkType) /\ Len(n) = Len(ready) /\ DOMAIN n = DOMAIN ready /\ n[c] = d
      /\ \A e \in DOMAIN n : e # c => n[e] = ready[e]
  BY <1>3, <1>5, <1>6, <1>7
<1>9. ChunkSound(n[c], R[c] \cup {<<o, o + z>>})
  BY <1>6, <1>8 DEF ChunkSound
<1>10. \A e \in DOMAIN n :
          /\ ChunkSound(n[e], IF e = c THEN R[e] \cup {<<o, o + z>>} ELSE R[e])
          /\ e \in DOMAIN cs => n[e].max_size >= cs[e].max_size
  <2> SUFFICES ASSUME NEW e \in DOMAIN n
               PROVE  /\ ChunkSound(n[e], IF e = c THEN R[e] \cup {<<o, o + z>>} ELSE R[e])
                      /\ e \in DOMAIN cs => n[e].max_size >= cs[e].max_size
    OBVIOUS
  <2>1. ready[e].max_size \in Nat
    <3>1. ready[e] \in ChunkType
      BY <1>3, <1>8
    <3> QED BY <3>1 DEF ChunkType
  <2>2. CASE e = c
    <3>1. e \in DOMAIN cs => n[e].max_size >= cs[e].max_size
      BY <1>3, <1>6, <1>8, <2>2
    <3> QED BY <1>9, <2>2, <3>1
  <2>3. CASE e # c
    <3>1. n[e] = ready[e]
      BY <1>8, <2>3
    <3>2. e \in DOMAIN cs => n[e].max_size >= cs[e].max_size
      BY <1>3, <2>1, <3>1
    <3> QED BY <1>3, <1>8, <2>3, <3>1, <3>2
  <2> QED BY <2>2, <2>3
<1>11. Taken(cs, R, z, n, a)
  BY <1>3, <1>5, <1>6, <1>7, <1>8, <1>10 DEF Taken
<1> QED BY <1>2, <1>11 DEF z, new

\* The `z' bytes at address a are in use, and R else in their chunk.
InUse(cs, a, z, R) ==
    /\ cs \in Seq(ChunkType) /\ a.chunk \in DOMAIN cs /\ a.offset \in Nat
    /\ ChunkSound(cs[a.chunk], R \cup {<<a.offset, a.offset + z>>})
    /\ <<a.offset, a.offset + z>> \notin R

\* n are the chunks cs when R is all that is in use in chunk c.
Returned(cs, n, c, R) ==
    /\ n \in Seq(ChunkType) /\ Len(n) = Len(cs) /\ DOMAIN n = DOMAIN cs
    /\ ChunkSound(n[c], R)
    /\ \A d \in DOMAIN cs : n[d].max_size = cs[d].max_size
    /\ \A d \in DOMAIN cs : d # c => n[d] = cs[d]

\* Memory in use is given back.
LEMMA FreeBytesSound ==
    ASSUME NEW cs, NEW a, NEW bytes \in Nat, bytes > 0, NEW R,
           InUse(cs, a, aligned_offset(bytes), R)
    PROVE  Returned(cs, free_bytes(cs, a, bytes), a.chunk, R)
<1> DEFINE z == aligned_offset(bytes)
           o == a.offset
           x == <<o, o + z>>
           c == a.chunk
           free == cs[c].free
           f == Freed(free, o, z)
           e == [cs[c] EXCEPT !.free = f]
           n == free_bytes(cs, a, bytes)
<1>1. z \in Nat /\ z > 0
  <2>1. aligned_offset(bytes) \in Nat /\ aligned_offset(bytes) >= bytes
    BY Aligned
  <2> HIDE DEF z
  <2>2. z \in Nat /\ z >= bytes
    BY <2>1 DEF z
  <2> QED BY <2>2
<1>0. /\ cs \in Seq(ChunkType) /\ c \in DOMAIN cs /\ o \in Nat
      /\ ChunkSound(cs[c], R \cup {x}) /\ x \notin R
  BY DEF InUse
<1>2. cs[c] \in ChunkType /\ free \in Seq(Block)
  <2>1. cs[c] \in ChunkType
    BY <1>0
  <2> QED BY <2>1 DEF ChunkType
<1>3. n = [cs EXCEPT ![c] = e]
  BY DEF free_bytes
<1> HIDE DEF z, n
<1>4. ChunkSound(cs[c], R \cup {x}) /\ x \notin R
  BY <1>0
<1>5. /\ Ordered(free) /\ Tiling(Blocks(free) \cup R \cup {x})
      /\ Blocks(free) \cap R = {} /\ x \notin Blocks(free)
  <2>1. Blocks(free) \cup (R \cup {x}) = Blocks(free) \cup R \cup {x}
    OBVIOUS
  <2> QED BY <1>4, <2>1 DEF ChunkSound
<1>6. o \in Nat
  BY <1>0
<1> HIDE DEF free, o, f
<1>7. /\ f \in Seq(Block) /\ Ordered(f)
      /\ Tiling(Blocks(f) \cup R) /\ Blocks(f) \cap R = {}
  <2>1. free \in Seq(Block) /\ x \notin R /\ Tiling(Blocks(free) \cup R \cup {x})
    BY <1>2, <1>4, <1>5
  <2> HIDE DEF x
  <2>2. Tiling(Blocks(free) \cup R \cup {<<o, o + z>>}) /\ <<o, o + z>> \notin R
        /\ <<o, o + z>> \notin Blocks(free)
    BY <2>1, <1>5 DEF x
  <2> QED BY <1>1, <1>5, <1>6, <2>1, <2>2, FreedTiles DEF f
<1>8. e \in ChunkType /\ e.free = f /\ e.max_size = cs[c].max_size
  BY <1>2, <1>7 DEF ChunkType
<1> HIDE DEF e
<1>9. n \in Seq(ChunkType) /\ Len(n) = Len(cs) /\ n[c] = e
      /\ \A d \in DOMAIN cs : d # c => n[d] = cs[d]
  BY <1>0, <1>3, <1>8
<1>10. ChunkSound(e, R)
  BY <1>7, <1>8 DEF ChunkSound
<1>12. \A d \in DOMAIN cs : n[d].max_size = cs[d].max_size
  BY <1>8, <1>9
<1>13. DOMAIN n = DOMAIN cs
  BY <1>0, <1>9
<1> QED BY <1>9, <1>10, <1>12, <1>13 DEF n, Returned

-----------------------------------------------------------------------------
(* The tensors of a graph.                                                 *)

\* A graph has been built.
Setting == g \in Graphs /\ batch \in Batches

\* The memory a tensor gets.
Room(t) == aligned_offset(AllocSize(t))

LEMMA GraphIs ==
    ASSUME Setting
    PROVE  /\ g.leafs \in Seq(Tensors) /\ g.nodes \in Seq(Tensors)
           /\ Tensors \subseteq ToSet(g.leafs) \cup ToSet(g.nodes)
           /\ g.src \in [Tensors -> Seq(Tensors)]
           /\ \A t \in Tensors : g.view[t] \in Tensors \cup {0}
           /\ \A t \in Tensors : g.size[t] \in Nat /\ g.size[t] > 0 /\ g.extra[t] \in Nat
           /\ \A t \in g.inplace : \A p \in ToSet(g.src[t]) :
                  g.size[p] = g.size[t] => g.extra[t] <= g.extra[p]
<1>1. IsGraph(g)
  BY GraphAssumption DEF Setting
<1> QED BY <1>1 DEF IsGraph, Tensors

LEMMA Rooms ==
    ASSUME Setting, NEW t \in Tensors
    PROVE  /\ AllocSize(t) \in Nat /\ AllocSize(t) > 0
           /\ AllocSize(t) + Alignment <= Endless
           /\ Room(t) \in Nat /\ Room(t) > 0 /\ AllocSize(t) <= Room(t)
<1>1. batch \in Nat /\ batch > 0
  BY AllocAssumption DEF Setting
<1>2. g.size[t] \in Nat /\ g.size[t] > 0 /\ g.extra[t] \in Nat
  BY GraphIs
<1>3. g.size[t] * batch \in Nat /\ g.size[t] * batch > 0
  BY <1>1, <1>2
<1>4. AllocSize(t) \in Nat /\ AllocSize(t) > 0
  BY <1>2, <1>3 DEF AllocSize
<1>5. AllocSize(t) + Alignment <= Endless
  BY GraphAssumption DEF Setting, AllocSize, Tensors
<1>6. Room(t) \in Nat /\ AllocSize(t) <= Room(t)
  BY <1>4, Aligned DEF Room
<1> QED BY <1>4, <1>5, <1>6

HashType == [n_children : Int, n_views : Int, allocated : BOOLEAN,
             addr : [chunk : Nat, offset : Nat]]
StateType == [chunks : Seq(ChunkType), hash : [Tensors -> HashType]]

\* A tensor has, or had, memory.
Placed(s, t) == s.hash[t].addr.chunk # 0

\* The piece of its chunk a tensor has, and the pieces in use in a chunk.
Piece(s, t) == <<s.hash[t].addr.offset, s.hash[t].addr.offset + Room(t)>>
Holds(s, t, c) == s.hash[t].allocated /\ s.hash[t].addr.chunk = c
HeldIn(s, c) == {Piece(s, t) : t \in {u \in Tensors : Holds(s, u, c)}}

\* The memory of a tensor is within what its chunk has grown to.
Within(s, t) ==
    /\ s.hash[t].addr.chunk \in DOMAIN s.chunks
    /\ s.hash[t].addr.offset + Room(t) <= s.chunks[s.hash[t].addr.chunk].max_size

\* What holds while addresses are given.
Sound(s) ==
    /\ s \in StateType
    /\ \A c \in DOMAIN s.chunks : ChunkSound(s.chunks[c], HeldIn(s, c))
    /\ \A c \in DOMAIN s.chunks : \A t, u \in Tensors :
           Holds(s, t, c) /\ Holds(s, u, c) /\ Piece(s, t) = Piece(s, u) => t = u
    /\ \A t \in Tensors : Placed(s, t) => Within(s, t)
    /\ \A t \in Tensors : s.hash[t].allocated => Placed(s, t)

\* No tensor loses its address.
Keeps(s, n) == \A t \in Tensors : Placed(s, t) => Placed(n, t)

LEMMA SoundIs ==
    ASSUME NEW s, Sound(s), NEW t \in Tensors
    PROVE  /\ s.chunks \in Seq(ChunkType) /\ s.hash[t] \in HashType
           /\ s.hash[t].addr.chunk \in Nat /\ s.hash[t].addr.offset \in Nat
           /\ s.hash[t].addr \in [chunk : Nat, offset : Nat]
           /\ s.hash[t].n_children \in Int /\ s.hash[t].n_views \in Int
           /\ s.hash[t].allocated \in BOOLEAN
           /\ s.hash[t].allocated =>
                  s.hash[t].addr.chunk \in DOMAIN s.chunks
<1>1. s.chunks \in Seq(ChunkType) /\ s.hash[t] \in HashType
  BY DEF Sound, StateType
<1>2. s.hash[t].allocated => s.hash[t].addr.chunk \in DOMAIN s.chunks
  BY DEF Sound, Within
<1> QED BY <1>1, <1>2 DEF HashType

\* Counting children and views does not touch the memory.
LEMMA CountsSound ==
    ASSUME NEW s, Sound(s), NEW n \in StateType, n.chunks = s.chunks,
           \A t \in Tensors : /\ n.hash[t].allocated = s.hash[t].allocated
                              /\ n.hash[t].addr = s.hash[t].addr
    PROVE  Sound(n) /\ Keeps(s, n)
<1>1. \A t \in Tensors : Piece(n, t) = Piece(s, t) /\ (Placed(n, t) <=> Placed(s, t))
  BY DEF Piece, Placed
<1>2. \A t \in Tensors : \A c : Holds(n, t, c) <=> Holds(s, t, c)
  BY DEF Holds
<1>3. \A c : HeldIn(n, c) = HeldIn(s, c)
  BY <1>1, <1>2 DEF HeldIn
<1>4. \A t \in Tensors : Within(s, t) => Within(n, t)
  BY DEF Within
<1>5. \A c \in DOMAIN n.chunks : ChunkSound(n.chunks[c], HeldIn(n, c))
  BY <1>3 DEF Sound
<1>6. \A c \in DOMAIN n.chunks : \A t, u \in Tensors :
           Holds(n, t, c) /\ Holds(n, u, c) /\ Piece(n, t) = Piece(n, u) => t = u
  BY <1>1, <1>2 DEF Sound
<1>7. \A t \in Tensors : Placed(n, t) => Within(n, t)
  BY <1>1, <1>4 DEF Sound
<1>8. \A t \in Tensors : n.hash[t].allocated => Placed(n, t)
  BY <1>1 DEF Sound
<1> QED BY <1>1, <1>5, <1>6, <1>7, <1>8 DEF Sound, Keeps

\* A tensor is given memory that is free.
LEMMA NewSound ==
    ASSUME Setting, NEW s, Sound(s), NEW t \in Tensors, ~s.hash[t].allocated,
           NEW n, NEW a, a \in [chunk : Nat, offset : Nat],
           Taken(s.chunks, [c \in Nat |-> HeldIn(s, c)], Room(t), n, a),
           NEW r, r \in StateType, r.chunks = n,
           r.hash[t].allocated, r.hash[t].addr = a,
           \A u \in Tensors : u # t => r.hash[u] = s.hash[u]
    PROVE  Sound(r) /\ Keeps(s, r) /\ Placed(r, t)
<1> DEFINE R == [c \in Nat |-> HeldIn(s, c)]
           x == <<a.offset, a.offset + Room(t)>>
<1>1. /\ s.chunks \in Seq(ChunkType) /\ n \in Seq(ChunkType)
      /\ DOMAIN s.chunks = 1 .. Len(s.chunks) /\ DOMAIN n = 1 .. Len(n)
      /\ Len(s.chunks) \in Nat /\ Len(n) \in Nat /\ Len(n) >= Len(s.chunks)
  BY DEF Sound, StateType, Taken
<1>2. DOMAIN s.chunks \subseteq DOMAIN n /\ DOMAIN n \subseteq Nat /\ DOMAIN n \subseteq Nat \ {0}
  BY <1>1
<1>3. a.chunk \in DOMAIN n /\ a.offset \in Nat
  BY DEF Taken
<1>4. x \notin HeldIn(s, a.chunk)
  BY <1>2, <1>3 DEF Taken
<1>5. \A c \in DOMAIN n : ChunkSound(n[c], IF c = a.chunk THEN HeldIn(s, c) \cup {x}
                                           ELSE HeldIn(s, c))
  <2> SUFFICES ASSUME NEW c \in DOMAIN n
               PROVE  ChunkSound(n[c], IF c = a.chunk THEN HeldIn(s, c) \cup {x}
                                       ELSE HeldIn(s, c))
    OBVIOUS
  <2>1. R[c] = HeldIn(s, c)
    BY <1>2
  <2>2. ChunkSound(n[c], IF c = a.chunk THEN R[c] \cup {x} ELSE R[c])
    BY DEF Taken
  <2> QED BY <2>1, <2>2
<1>6. Piece(r, t) = x /\ \A c : Holds(r, t, c) <=> c = a.chunk
  BY DEF Piece, Holds
<1>7. ASSUME NEW u \in Tensors, u # t
      PROVE  /\ Piece(r, u) = Piece(s, u) /\ (Placed(r, u) <=> Placed(s, u))
             /\ \A c : Holds(r, u, c) <=> Holds(s, u, c)
  BY <1>7 DEF Piece, Placed, Holds
<1>8. \A c : ~Holds(s, t, c)
  BY DEF Holds
<1>9. \A c : HeldIn(r, c) = IF c = a.chunk THEN HeldIn(s, c) \cup {x} ELSE HeldIn(s, c)
  <2> SUFFICES ASSUME NEW c
               PROVE  HeldIn(r, c) = IF c = a.chunk THEN HeldIn(s, c) \cup {x} ELSE HeldIn(s, c)
    OBVIOUS
  <2> HIDE DEF x
  <2>1. ASSUME NEW e \in HeldIn(r, c)
        PROVE  e \in HeldIn(s, c) \/ (c = a.chunk /\ e = x)
    <3>1. PICK u \in Tensors : Holds(r, u, c) /\ e = Piece(r, u)
      BY <2>1 DEF HeldIn
    <3>2. CASE u = t
      BY <1>6, <3>1, <3>2
    <3>3. CASE u # t
      <4>1. Holds(s, u, c) /\ e = Piece(s, u)
        BY <1>7, <3>1, <3>3
      <4> QED BY <4>1 DEF HeldIn
    <3> QED BY <3>2, <3>3
  <2>2. ASSUME NEW e \in HeldIn(s, c) PROVE e \in HeldIn(r, c)
    <3>1. PICK u \in Tensors : Holds(s, u, c) /\ e = Piece(s, u)
      BY <2>2 DEF HeldIn
    <3> QED BY <1>7, <1>8, <3>1 DEF HeldIn
  <2>3. c = a.chunk => x \in HeldIn(r, c)
    BY <1>6 DEF HeldIn
  <2> QED BY <2>1, <2>2, <2>3
<1> HIDE DEF x
<1>10. \A c \in DOMAIN r.chunks : ChunkSound(r.chunks[c], HeldIn(r, c))
  BY <1>5, <1>9
<1>11. ASSUME NEW c \in DOMAIN r.chunks, NEW u \in Tensors, NEW v \in Tensors,
              Holds(r, u, c), Holds(r, v, c), Piece(r, u) = Piece(r, v)
       PROVE  u = v
  <2>1. ASSUME NEW w \in Tensors, w # t, Holds(r, w, c)
        PROVE  Holds(s, w, c) /\ Piece(s, w) \in HeldIn(s, c) /\ c \in DOMAIN s.chunks
    <3>1. Holds(s, w, c)
      BY <1>7, <2>1
    <3> QED BY <3>1, SoundIs DEF HeldIn, Holds
  <2>2. CASE u = t /\ v # t
    BY <1>4, <1>6, <1>7, <1>11, <2>1, <2>2
  <2>3. CASE u # t /\ v = t
    BY <1>4, <1>6, <1>7, <1>11, <2>1, <2>3
  <2>4. CASE u # t /\ v # t
    BY <1>7, <1>11, <2>1, <2>4 DEF Sound
  <2> QED BY <2>2, <2>3, <2>4
<1>12. Placed(r, t) /\ Within(r, t)
  BY <1>2, <1>3 DEF Placed, Within, Taken
<1>13. ASSUME NEW u \in Tensors, Placed(r, u) PROVE Within(r, u)
  <2>1. CASE u = t
    BY <1>12, <2>1
  <2>2. CASE u # t
    <3> DEFINE c == s.hash[u].addr.chunk
               o == s.hash[u].addr.offset
    <3>1. c \in DOMAIN s.chunks /\ o + Room(u) <= s.chunks[c].max_size /\ r.hash[u] = s.hash[u]
      BY <1>7, <1>13, <2>2 DEF Sound, Within
    <3>2. o \in Nat /\ Room(u) \in Nat
      BY SoundIs, Rooms
    <3>3. n[c].max_size >= s.chunks[c].max_size /\ c \in DOMAIN n
      BY <1>2, <3>1 DEF Taken
    <3>4. n[c].max_size \in Nat /\ s.chunks[c].max_size \in Nat
      <4>1. n[c] \in ChunkType /\ s.chunks[c] \in ChunkType
        BY <1>1, <3>1, <3>3
      <4> QED BY <4>1 DEF ChunkType
    <3>5. o + Room(u) <= n[c].max_size
      <4> HIDE DEF o, c
      <4> QED BY <3>1, <3>2, <3>3, <3>4
    <3> QED BY <3>1, <3>3, <3>5 DEF Within
  <2> QED BY <2>1, <2>2
<1>14. ASSUME NEW u \in Tensors, r.hash[u].allocated PROVE Placed(r, u)
  BY <1>7, <1>12, <1>14 DEF Sound
<1>15. Keeps(s, r)
  BY <1>7, <1>12 DEF Keeps
<1> QED BY <1>10, <1>11, <1>12, <1>13, <1>14, <1>15 DEF Sound

\* A tensor's memory is given back.
LEMMA FreeSound ==
    ASSUME Setting, NEW s, Sound(s), NEW t \in Tensors, s.hash[t].allocated,
           NEW h \in [Tensors -> HashType],
           ~h[t].allocated, h[t].addr = s.hash[t].addr,
           \A u \in Tensors : u # t => h[u] = s.hash[u]
    PROVE  LET r == [chunks |-> free_bytes(s.chunks, s.hash[t].addr, AllocSize(t)), hash |-> h]
           IN  Sound(r) /\ Keeps(s, r)
<1> DEFINE a == s.hash[t].addr
           x == Piece(s, t)
           cs == s.chunks
           n == free_bytes(cs, a, AllocSize(t))
           R == HeldIn(s, a.chunk) \ {x}
           r == [chunks |-> n, hash |-> h]
<1>1. /\ cs \in Seq(ChunkType) /\ a.chunk \in DOMAIN cs /\ a.offset \in Nat
      /\ AllocSize(t) \in Nat /\ AllocSize(t) > 0
  BY SoundIs, Rooms
<1>2. x = <<a.offset, a.offset + aligned_offset(AllocSize(t))>>
  BY DEF Piece, Room
<1>3. x \in HeldIn(s, a.chunk) /\ x \notin R /\ HeldIn(s, a.chunk) = R \cup {x}
  BY DEF HeldIn, Holds
<1>4. ChunkSound(cs[a.chunk], R \cup {x})
  BY <1>1, <1>3 DEF Sound
<1> HIDE DEF R
<1>5. Returned(cs, n, a.chunk, R)
  <2>1. InUse(cs, a, aligned_offset(AllocSize(t)), R)
    BY <1>1, <1>2, <1>3, <1>4 DEF InUse
  <2> QED BY <1>1, <2>1, FreeBytesSound
<1> HIDE DEF n
<1>6. r.chunks = n /\ r.hash = h /\ r \in StateType /\ DOMAIN n = DOMAIN cs
  BY <1>1, <1>5 DEF StateType, Returned
<1> HIDE DEF r
<1>7. ASSUME NEW u \in Tensors
      PROVE  /\ Piece(r, u) = Piece(s, u) /\ (Placed(r, u) <=> Placed(s, u))
             /\ \A c : Holds(r, u, c) <=> Holds(s, u, c) /\ u # t
             /\ r.hash[u].addr = s.hash[u].addr
  BY <1>6 DEF Piece, Placed, Holds
<1>8. \A u \in Tensors : Holds(s, u, a.chunk) /\ Piece(s, u) = x => u = t
  BY <1>1 DEF Sound, Holds
<1> HIDE DEF x
<1>9. HeldIn(r, a.chunk) = R
  BY <1>7, <1>8 DEF HeldIn, R, x
<1>10. \A c : c # a.chunk => HeldIn(r, c) = HeldIn(s, c)
  <2>1. \A c, u : c # a.chunk => (Holds(s, u, c) => u # t)
    BY DEF Holds
  <2> QED BY <1>7, <2>1 DEF HeldIn
<1>11. \A c \in DOMAIN r.chunks : ChunkSound(r.chunks[c], HeldIn(r, c))
  <2> SUFFICES ASSUME NEW c \in DOMAIN r.chunks PROVE ChunkSound(r.chunks[c], HeldIn(r, c))
    OBVIOUS
  <2>1. CASE c = a.chunk
    BY <1>5, <1>6, <1>9, <2>1 DEF Returned
  <2>2. CASE c # a.chunk
    <3>1. HeldIn(r, c) = HeldIn(s, c) /\ r.chunks[c] = s.chunks[c] /\ c \in DOMAIN s.chunks
      BY <1>5, <1>6, <1>10, <2>2 DEF Returned
    <3> QED BY <3>1 DEF Sound
  <2> QED BY <2>1, <2>2
<1>12. \A c \in DOMAIN r.chunks : \A u, v \in Tensors :
           Holds(r, u, c) /\ Holds(r, v, c) /\ Piece(r, u) = Piece(r, v) => u = v
  BY <1>6, <1>7 DEF Sound
<1>13. \A u \in Tensors : Placed(r, u) => Within(r, u)
  BY <1>5, <1>6, <1>7 DEF Sound, Within, Returned
<1>14. \A u \in Tensors : r.hash[u].allocated => Placed(r, u)
  BY <1>6, <1>7 DEF Sound
<1> QED BY <1>6, <1>7, <1>11, <1>12, <1>13, <1>14 DEF Sound, Keeps, r, n

\* A piece in use is cut, and its second part is given back.
LEMMA CutSound ==
    ASSUME NEW cs \in Seq(ChunkType), NEW a, a.chunk \in DOMAIN cs, NEW o \in Nat, a.offset = o,
           NEW m \in Nat, NEW z \in Nat, 0 < m, m < z, NEW R,
           ChunkSound(cs[a.chunk], R \cup {<<o, o + z>>}), <<o, o + z>> \notin R,
           NEW b, b.chunk = a.chunk, b.offset = o + m
    PROVE  InUse(cs, b, z - m, R \cup {<<o, o + m>>}) /\ <<o, o + m>> \notin R
<1> DEFINE B == Blocks(cs[a.chunk].free)
           x == <<o, o + z>>
           y == <<o, o + m>>
           w == <<o + m, o + z>>
           P == B \cup (R \cup {x})
           Q == (P \ {x}) \cup {y, w}
<1>1. Ordered(cs[a.chunk].free) /\ Tiling(P) /\ B \cap (R \cup {x}) = {}
  BY DEF ChunkSound
<1>2. x \in P
  OBVIOUS
<1> HIDE DEF B, P
<1>3. Tiling(Q)
  <2>1. o + m \in Nat /\ o + z \in Nat /\ o < o + m /\ o + m < o + z
    OBVIOUS
  <2> QED BY <1>1, <1>2, <2>1, SplitTiles
<1>4. y \notin P
  <2>1. y \in P => y = x \/ y[2] <= x[1] \/ x[2] <= y[1]
    BY <1>1, <1>2 DEF Tiling
  <2> QED BY <2>1
<1>5. w \notin P
  <2>1. w \in P => w = x \/ w[2] <= x[1] \/ x[2] <= w[1]
    BY <1>1, <1>2 DEF Tiling
  <2> QED BY <2>1
<1>6. w # y
  OBVIOUS
<1>7. w = <<b.offset, b.offset + (z - m)>>
  OBVIOUS
<1>8. b.chunk \in DOMAIN cs /\ b.offset \in Nat
  OBVIOUS
<1> HIDE DEF x, y, w
<1>9. x \notin R
  BY DEF x
<1>10. B \cup ((R \cup {y}) \cup {w}) = Q
  BY <1>1, <1>9 DEF P
<1>11. B \cap ((R \cup {y}) \cup {w}) = {} /\ w \notin R \cup {y} /\ y \notin R
  BY <1>1, <1>4, <1>5, <1>6 DEF P
<1> HIDE DEF Q
<1>12. ChunkSound(cs[b.chunk], (R \cup {y}) \cup {w})
  BY <1>1, <1>3, <1>10, <1>11 DEF ChunkSound, B
<1>13. InUse(cs, b, z - m, R \cup {y})
  BY <1>7, <1>8, <1>11, <1>12 DEF InUse
<1> QED BY <1>11, <1>13 DEF y

\* The memory of tensor p becomes tensor t's, and what t does not need is given back.
LEMMA ReuseSound ==
    ASSUME Setting, NEW s, Sound(s), NEW t \in Tensors, NEW p \in Tensors, p # t,
           s.hash[p].allocated, ~s.hash[t].allocated, AllocSize(t) <= AllocSize(p),
           NEW h \in [Tensors -> HashType],
           h[t].allocated, h[t].addr = s.hash[p].addr,
           ~h[p].allocated, h[p].addr = s.hash[p].addr,
           \A u \in Tensors : u # t /\ u # p => h[u] = s.hash[u]
    PROVE  LET r == [chunks |-> free_extra_space(s.chunks, t, p, s.hash[p].addr), hash |-> h]
           IN  Sound(r) /\ Keeps(s, r) /\ Placed(r, t)
<1> DEFINE a == s.hash[p].addr
           c == a.chunk
           o == a.offset
           x == Piece(s, p)
           y == <<o, o + Room(t)>>
           cs == s.chunks
           n == free_extra_space(cs, t, p, a)
           R == HeldIn(s, c) \ {x}
           r == [chunks |-> n, hash |-> h]
<1>1. cs \in Seq(ChunkType) /\ c \in DOMAIN cs /\ o \in Nat
  BY SoundIs
<1>2. /\ Room(t) \in Nat /\ Room(t) > 0 /\ Room(p) \in Nat
      /\ AllocSize(t) \in Nat /\ AllocSize(p) \in Nat
  BY Rooms
<1>3. /\ Room(t) <= Room(p)
      /\ aligned_offset(Room(p) - Room(t)) = Room(p) - Room(t)
  BY <1>2, AlignedMonotone DEF Room
<1>4. x = <<o, o + Room(p)>>
  BY DEF Piece
<1>5. x \in HeldIn(s, c) /\ x \notin R /\ HeldIn(s, c) = R \cup {x}
  BY DEF HeldIn, Holds
<1>6. ChunkSound(cs[c], R \cup {x})
  BY <1>1, <1>5 DEF Sound
<1> HIDE DEF R, x, o, n
<1>7. n = IF Room(p) <= Room(t) THEN cs
          ELSE free_bytes(cs, [a EXCEPT !.offset = @ + Room(t)], Room(p) - Room(t))
  BY DEF n, free_extra_space, Room
<1>8. a \in [chunk : Nat, offset : Nat]
  BY SoundIs
<1> HIDE DEF cs, a, c, y
<1>9. Returned(cs, n, c, R \cup {y}) /\ y \notin R
  <2>1. CASE Room(p) <= Room(t)
    <3>1. n = cs /\ y = x
      BY <1>2, <1>3, <1>4, <1>7, <2>1 DEF y
    <3> QED BY <1>1, <1>5, <1>6, <3>1 DEF Returned
  <2>2. CASE ~(Room(p) <= Room(t))
    <3> DEFINE b == [a EXCEPT !.offset = @ + Room(t)]
               d == Room(p) - Room(t)
    <3>1. n = free_bytes(cs, b, d)
      BY <1>7, <2>2
    <3>2. b.chunk = c /\ b.offset = o + Room(t)
      BY <1>8 DEF c, o
    <3>3. d \in Nat /\ d > 0 /\ Room(t) < Room(p)
      BY <1>2, <2>2
    <3> HIDE DEF b
    <3>4. InUse(cs, b, d, R \cup {y}) /\ y \notin R
      <4>1. ChunkSound(cs[a.chunk], R \cup {<<o, o + Room(p)>>}) /\ <<o, o + Room(p)>> \notin R
        BY <1>4, <1>5, <1>6 DEF c
      <4>2. a.chunk \in DOMAIN cs /\ a.offset = o /\ b.chunk = a.chunk
        BY <1>1, <3>2 DEF c, o
      <4> HIDE DEF d
      <4>3. InUse(cs, b, Room(p) - Room(t), R \cup {<<o, o + Room(t)>>})
            /\ <<o, o + Room(t)>> \notin R
        BY <1>1, <1>2, <3>2, <3>3, <4>1, <4>2, CutSound
      <4> QED BY <4>3 DEF y, d
    <3>5. aligned_offset(d) = d
      BY <1>3
    <3> HIDE DEF d
    <3>6. Returned(cs, free_bytes(cs, b, d), b.chunk, R \cup {y})
      BY <3>3, <3>4, <3>5, FreeBytesSound
    <3> QED BY <3>1, <3>2, <3>4, <3>6
  <2> QED BY <2>1, <2>2
<1>10. r.chunks = n /\ r.hash = h /\ r \in StateType /\ DOMAIN n = DOMAIN cs
  BY <1>9 DEF StateType, Returned
<1> HIDE DEF r
<1>11. /\ Piece(r, t) = y /\ Placed(r, t)
       /\ \A e : (Holds(r, t, e) <=> e = c) /\ ~Holds(r, p, e) /\ ~Holds(s, t, e)
       /\ \A e : Holds(s, p, e) <=> e = c
  <2>1. c # 0
    BY DEF c, a, Sound, Placed
  <2> QED BY <1>10, <2>1 DEF Piece, Placed, Holds, y, a, c, o
<1>12. ASSUME NEW u \in Tensors, u # t
       PROVE  /\ Piece(r, u) = Piece(s, u) /\ (Placed(r, u) <=> Placed(s, u))
              /\ r.hash[u].addr = s.hash[u].addr
              /\ \A e : Holds(r, u, e) <=> (Holds(s, u, e) /\ u # p)
  <2>1. r.hash[u].addr = s.hash[u].addr
    BY <1>10, <1>12
  <2>2. \A e : Holds(r, u, e) <=> (Holds(s, u, e) /\ u # p)
    BY <1>10, <1>12, <2>1 DEF Holds
  <2> QED BY <2>1, <2>2 DEF Piece, Placed
<1>13. \A u \in Tensors : Holds(s, u, c) /\ Piece(s, u) = x => u = p
  BY <1>1, <1>11 DEF Sound, x, cs
<1>14. HeldIn(r, c) = R \cup {y}
  <2>1. ASSUME NEW e \in HeldIn(r, c) PROVE e \in R \cup {y}
    <3>1. PICK u \in Tensors : Holds(r, u, c) /\ e = Piece(r, u)
      BY <2>1 DEF HeldIn
    <3>2. CASE u = t
      BY <1>11, <3>1, <3>2
    <3>3. CASE u # t
      <4>1. Holds(s, u, c) /\ u # p /\ e = Piece(s, u)
        BY <1>12, <3>1, <3>3
      <4>2. e \in HeldIn(s, c) /\ e # x
        BY <1>13, <4>1 DEF HeldIn
      <4> QED BY <4>2 DEF R
    <3> QED BY <3>2, <3>3
  <2>2. ASSUME NEW e \in R PROVE e \in HeldIn(r, c)
    <3>1. PICK u \in Tensors : Holds(s, u, c) /\ e = Piece(s, u)
      BY <2>2 DEF HeldIn, R
    <3>2. u # p /\ u # t
      BY <1>11, <3>1, <1>5 DEF x
    <3>3. Holds(r, u, c) /\ e = Piece(r, u)
      BY <1>12, <3>1, <3>2
    <3> QED BY <3>3 DEF HeldIn
  <2>3. y \in HeldIn(r, c)
    BY <1>11 DEF HeldIn
  <2> QED BY <2>1, <2>2, <2>3
<1>15. \A e : e # c => HeldIn(r, e) = HeldIn(s, e)
  <2> SUFFICES ASSUME NEW e, e # c PROVE HeldIn(r, e) = HeldIn(s, e)
    OBVIOUS
  <2>1. \A u \in Tensors : (Holds(r, u, e) <=> Holds(s, u, e))
                           /\ (Holds(r, u, e) => Piece(r, u) = Piece(s, u))
    BY <1>11, <1>12
  <2> QED BY <2>1 DEF HeldIn
<1>16. \A e \in DOMAIN r.chunks : ChunkSound(r.chunks[e], HeldIn(r, e))
  <2> SUFFICES ASSUME NEW e \in DOMAIN r.chunks PROVE ChunkSound(r.chunks[e], HeldIn(r, e))
    OBVIOUS
  <2>1. CASE e = c
    BY <1>9, <1>10, <1>14, <2>1 DEF Returned
  <2>2. CASE e # c
    <3>1. HeldIn(r, e) = HeldIn(s, e) /\ r.chunks[e] = s.chunks[e] /\ e \in DOMAIN s.chunks
      BY <1>9, <1>10, <1>15, <2>2 DEF Returned, cs
    <3> QED BY <3>1 DEF Sound
  <2> QED BY <2>1, <2>2
<1>17. ASSUME NEW e \in DOMAIN r.chunks, NEW u \in Tensors, NEW v \in Tensors,
              Holds(r, u, e), Holds(r, v, e), Piece(r, u) = Piece(r, v)
       PROVE  u = v
  <2>1. ASSUME NEW q \in Tensors, q # t, Holds(r, q, e), e = c PROVE Piece(r, q) # y
    <3>1. Holds(s, q, c) /\ q # p /\ Piece(r, q) = Piece(s, q)
      BY <1>12, <2>1
    <3>2. Piece(s, q) \in R
      BY <1>13, <3>1 DEF HeldIn, R
    <3> QED BY <1>9, <3>1, <3>2
  <2>2. CASE u = t /\ v # t
    BY <1>11, <1>17, <2>1, <2>2
  <2>3. CASE u # t /\ v = t
    BY <1>11, <1>17, <2>1, <2>3
  <2>4. CASE u # t /\ v # t
    <3>1. Holds(s, u, e) /\ Holds(s, v, e) /\ Piece(s, u) = Piece(s, v)
      BY <1>12, <1>17, <2>4
    <3> QED BY <1>10, <3>1 DEF Sound, cs
  <2> QED BY <2>2, <2>3, <2>4
<1>18. \A e \in DOMAIN cs : n[e].max_size = cs[e].max_size
  BY <1>9 DEF Returned
<1>19. Within(r, t)
  <2>1. o + Room(p) <= cs[c].max_size
    BY DEF Sound, Within, c, o, a, cs
  <2>2. cs[c].max_size \in Nat
    <3>1. cs[c] \in ChunkType
      BY <1>1
    <3> QED BY <3>1 DEF ChunkType
  <2>3. o + Room(t) <= n[c].max_size
    BY <1>1, <1>2, <1>3, <1>18, <2>1, <2>2
  <2> QED BY <1>1, <1>10, <2>3 DEF Within, c, o, a
<1>20. ASSUME NEW u \in Tensors, Placed(r, u) PROVE Within(r, u)
  <2>1. CASE u = t
    BY <1>19, <2>1
  <2>2. CASE u # t
    <3>1. Within(s, u) /\ r.hash[u].addr = s.hash[u].addr
      BY <1>12, <1>20, <2>2 DEF Sound
    <3> QED BY <1>10, <1>18, <3>1 DEF Within, cs
  <2> QED BY <2>1, <2>2
<1>21. \A u \in Tensors : r.hash[u].allocated => Placed(r, u)
  <2> SUFFICES ASSUME NEW u \in Tensors, r.hash[u].allocated PROVE Placed(r, u)
    OBVIOUS
  <2>1. CASE u = t
    BY <1>11, <2>1
  <2>2. CASE u # t
    <3>1. u # p /\ s.hash[u].allocated
      BY <1>10, <2>2
    <3> QED BY <1>12, <2>2, <3>1 DEF Sound
  <2> QED BY <2>1, <2>2
<1>22. Keeps(s, r)
  BY <1>11, <1>12 DEF Keeps
<1> QED BY <1>10, <1>11, <1>16, <1>17, <1>20, <1>21, <1>22 DEF Sound, r, n, cs, a

-----------------------------------------------------------------------------
(* The steps of the walk.                                                  *)

LEMMA ViewIs ==
    ASSUME Setting, NEW t \in Tensors
    PROVE  /\ Root(t) \in Tensors
           /\ IsView(t) => g.view[t] \in Tensors
BY GraphIs DEF Root, IsView

LEMMA HashIs ==
    ASSUME NEW s, Sound(s)
    PROVE  s.hash \in [Tensors -> HashType] /\ s.chunks \in Seq(ChunkType)
           /\ s = [chunks |-> s.chunks, hash |-> s.hash]
BY DEF Sound, StateType

\* In r, other than in s, tensor t has memory: new memory or a source's.
Gives(s, t, r) ==
    /\ r.hash[t].allocated
    /\ \A u \in Tensors :
           /\ r.hash[u].n_children = s.hash[u].n_children
           /\ r.hash[u].n_views = s.hash[u].n_views
           /\ u # t => r.hash[u].addr = s.hash[u].addr
    /\ \A u \in Tensors :
           \/ u = t
           \/ r.hash[u].allocated = s.hash[u].allocated
           \/ /\ u \in ToSet(g.src[t]) /\ CanReuse(s, t, u)
              /\ ~r.hash[u].allocated /\ r.hash[t].addr = s.hash[u].addr

\* A tensor that is not a view and has no data elsewhere gets an address.
LEMMA AllocateNodeSound ==
    ASSUME Setting, NEW s, Sound(s), NEW t \in Tensors
    PROVE  LET r == allocate_node(s, t)
           IN  /\ Sound(r) /\ Keeps(s, r) /\ (t \in Planned => Placed(r, t))
               /\ IF is_allocated(s, t) \/ IsView(t) THEN r = s
                  ELSE ~s.hash[t].allocated /\ Gives(s, t, r)
<1> DEFINE reused == {k \in DOMAIN g.src[t] : CanReuse(s, t, g.src[t][k])}
           p == g.src[t][Min(reused)]
           new == dyn_tallocr_alloc(s.chunks, AllocSize(t))
           h1 == [s.hash EXCEPT ![t].allocated = TRUE, ![t].addr = s.hash[p].addr,
                                ![p].allocated = FALSE]
           h2 == [s.hash EXCEPT ![t].allocated = TRUE, ![t].addr = new.addr]
           x == free_extra_space(s.chunks, t, p, s.hash[p].addr)
           r == allocate_node(s, t)
<1>1. r = IF is_allocated(s, t) \/ IsView(t) THEN s
          ELSE IF reused # {} THEN [chunks |-> x, hash |-> h1]
          ELSE [chunks |-> new.chunks, hash |-> h2]
  BY DEF allocate_node
<1>2. s.hash \in [Tensors -> HashType] /\ s.chunks \in Seq(ChunkType)
  BY HashIs
<1>3. CASE is_allocated(s, t) \/ IsView(t)
  <2>1. r = s
    BY <1>1, <1>3
  <2>2. t \in Planned => Placed(s, t)
    BY <1>3 DEF Planned, is_allocated, is_own, Sound
  <2> HIDE DEF r
  <2> QED BY <1>3, <2>1, <2>2 DEF Keeps, r
<1>4. CASE ~(is_allocated(s, t) \/ IsView(t)) /\ reused # {}
  <2>1. r = [chunks |-> x, hash |-> h1]
    BY <1>1, <1>4
  <2>2. /\ DOMAIN g.src[t] \subseteq Nat
        /\ \A k \in DOMAIN g.src[t] : g.src[t][k] \in Tensors
        /\ \A k \in DOMAIN g.src[t] : g.src[t][k] \in ToSet(g.src[t])
    <3>1. g.src[t] \in Seq(Tensors)
      BY GraphIs
    <3> QED BY <3>1 DEF ToSet
  <2>3. Min(reused) \in reused
    <3>1. reused \subseteq Nat /\ reused # {}
      BY <1>4, <2>2
    <3> HIDE DEF reused
    <3> QED BY <3>1, MinIn
  <2>4. p \in Tensors /\ CanReuse(s, t, p) /\ p \in ToSet(g.src[t])
    BY <2>2, <2>3
  <2>5. ~s.hash[t].allocated
    BY <1>4 DEF is_allocated, is_own
  <2> HIDE DEF p, r
  <2>6. s.hash[p].allocated /\ g.size[p] = g.size[t] /\ t \in g.inplace
    BY <2>4 DEF CanReuse, is_own
  <2>7. p # t
    BY <2>5, <2>6
  <2>8. AllocSize(t) <= AllocSize(p)
    <3>1. g.extra[t] <= g.extra[p]
      BY <2>4, <2>6, GraphIs
    <3>2. g.extra[t] \in Nat /\ g.extra[p] \in Nat /\ g.size[t] \in Nat
      BY <2>4, GraphIs
    <3>3. batch \in Nat
      BY AllocAssumption DEF Setting
    <3>4. g.size[t] * batch \in Nat
      BY <3>2, <3>3
    <3> QED BY <2>6, <3>1, <3>2, <3>4 DEF AllocSize
  <2>9. /\ h1 \in [Tensors -> HashType]
        /\ h1[t].allocated /\ h1[t].addr = s.hash[p].addr
        /\ ~h1[p].allocated /\ h1[p].addr = s.hash[p].addr
        /\ \A u \in Tensors : u # t /\ u # p => h1[u] = s.hash[u]
        /\ h1[t].n_children = s.hash[t].n_children /\ h1[t].n_views = s.hash[t].n_views
        /\ h1[p].n_children = s.hash[p].n_children /\ h1[p].n_views = s.hash[p].n_views
    <3>1. s.hash[t] \in HashType /\ s.hash[p] \in HashType
      BY <1>2, <2>4
    <3> DEFINE ht == [s.hash[t] EXCEPT !.allocated = TRUE, !.addr = s.hash[p].addr]
               hp == [s.hash[p] EXCEPT !.allocated = FALSE]
    <3>2. ht \in HashType /\ ht.allocated = TRUE /\ ht.addr = s.hash[p].addr
          /\ ht.n_children = s.hash[t].n_children /\ ht.n_views = s.hash[t].n_views
      BY <3>1 DEF HashType
    <3>3. hp \in HashType /\ hp.allocated = FALSE /\ hp.addr = s.hash[p].addr
          /\ hp.n_children = s.hash[p].n_children /\ hp.n_views = s.hash[p].n_views
      BY <3>1 DEF HashType
    <3>4. h1 = [[s.hash EXCEPT ![t] = ht] EXCEPT ![p] = hp]
      BY <1>2, <2>4, <2>7, <3>1 DEF HashType
    <3> HIDE DEF ht, hp, h1
    <3> QED BY <1>2, <2>4, <2>7, <3>2, <3>3, <3>4
  <2> HIDE DEF h1
  <2>10. LET q == [chunks |-> x, hash |-> h1]
         IN  Sound(q) /\ Keeps(s, q) /\ Placed(q, t)
    BY <2>4, <2>5, <2>6, <2>7, <2>8, <2>9, ReuseSound
  <2>11. r.hash = h1
    BY <2>1 DEF r
  <2>12. Gives(s, t, r)
    <3>1. \A u \in Tensors :
             /\ h1[u].n_children = s.hash[u].n_children
             /\ h1[u].n_views = s.hash[u].n_views
             /\ u # t => h1[u].addr = s.hash[u].addr
      BY <2>9
    <3>2. \A u \in Tensors : u = t \/ u = p \/ h1[u].allocated = s.hash[u].allocated
      BY <2>9
    <3> QED BY <2>4, <2>9, <2>11, <3>1, <3>2 DEF Gives
  <2> QED BY <1>4, <2>1, <2>5, <2>10, <2>12 DEF r
<1>5. CASE ~(is_allocated(s, t) \/ IsView(t)) /\ reused = {}
  <2>1. r = [chunks |-> new.chunks, hash |-> h2]
    BY <1>1, <1>5
  <2>2. ~s.hash[t].allocated
    BY <1>5 DEF is_allocated, is_own
  <2> DEFINE R == [c \in Nat |-> HeldIn(s, c)]
             b == AllocSize(t)
  <2>3. b \in Nat /\ b > 0 /\ b + Alignment <= Endless
    BY Rooms
  <2>4. \A c \in DOMAIN s.chunks : ChunkSound(s.chunks[c], R[c])
    <3>1. DOMAIN s.chunks \subseteq Nat
      BY <1>2
    <3> QED BY <3>1 DEF Sound
  <2>5. R[Len(s.chunks) + 1] = {}
    <3>1. Len(s.chunks) \in Nat /\ Len(s.chunks) + 1 \notin DOMAIN s.chunks
      BY <1>2
    <3>2. \A u \in Tensors : ~Holds(s, u, Len(s.chunks) + 1)
      BY <3>1, SoundIs DEF Holds
    <3>3. HeldIn(s, Len(s.chunks) + 1) = {}
      BY <3>2 DEF HeldIn
    <3> QED BY <3>1, <3>3
  <2> HIDE DEF R, b
  <2>6. Taken(s.chunks, R, aligned_offset(b), dyn_tallocr_alloc(s.chunks, b).chunks,
              dyn_tallocr_alloc(s.chunks, b).addr)
    BY <1>2, <2>3, <2>4, <2>5, AllocTakes
  <2>7. Taken(s.chunks, R, Room(t), new.chunks, new.addr)
    BY <2>6 DEF Room, b
  <2>8. new.addr \in [chunk : Nat, offset : Nat]
    <3>1. new.addr = [chunk |-> new.addr.chunk, offset |-> new.addr.offset]
      BY DEF dyn_tallocr_alloc
    <3> HIDE DEF new
    <3>2. new.addr.chunk \in DOMAIN new.chunks /\ new.addr.offset \in Nat
          /\ new.chunks \in Seq(ChunkType)
      BY <2>7 DEF Taken
    <3>3. new.addr.chunk \in Nat
      BY <3>2
    <3> QED BY <3>1, <3>2, <3>3
  <2> HIDE DEF new, r
  <2>9. /\ h2 \in [Tensors -> HashType] /\ h2[t].allocated /\ h2[t].addr = new.addr
        /\ \A u \in Tensors : u # t => h2[u] = s.hash[u]
        /\ h2[t].n_children = s.hash[t].n_children /\ h2[t].n_views = s.hash[t].n_views
    <3>1. s.hash[t] \in HashType
      BY <1>2
    <3> DEFINE ht == [s.hash[t] EXCEPT !.allocated = TRUE, !.addr = new.addr]
    <3>2. ht \in HashType /\ ht.allocated = TRUE /\ ht.addr = new.addr
          /\ ht.n_children = s.hash[t].n_children /\ ht.n_views = s.hash[t].n_views
      BY <2>8, <3>1 DEF HashType
    <3>3. h2 = [s.hash EXCEPT ![t] = ht]
      BY <1>2, <3>1 DEF HashType
    <3> HIDE DEF ht, h2
    <3> QED BY <1>2, <3>2, <3>3
  <2> HIDE DEF h2
  <2>10. r.chunks = new.chunks /\ r.hash = h2 /\ r \in StateType
    <3>1. new.chunks \in Seq(ChunkType)
      BY <2>7 DEF Taken
    <3> QED BY <2>1, <2>9, <3>1 DEF StateType
  <2>11. Taken(s.chunks, [c \in Nat |-> HeldIn(s, c)], Room(t), new.chunks, new.addr)
    BY <2>7 DEF R
  <2>12. Sound(r) /\ Keeps(s, r) /\ Placed(r, t)
    BY <2>2, <2>8, <2>9, <2>10, <2>11, NewSound
  <2>13. Gives(s, t, r)
    BY <2>9, <2>10 DEF Gives
  <2> QED BY <1>5, <2>2, <2>12, <2>13 DEF r
<1> QED BY <1>3, <1>4, <1>5

LEMMA AllocateInputSound ==
    ASSUME Setting, NEW s, Sound(s), NEW t \in Tensors
    PROVE  Sound(allocate_input(s, t)) /\ Keeps(s, allocate_input(s, t))
BY AllocateNodeSound DEF allocate_input, Keeps

\* The counts of one tensor are changed.
LEMMA CountSound ==
    ASSUME NEW s, Sound(s), NEW t \in Tensors, NEW c \in Int, NEW v \in Int, NEW r,
           r = [s EXCEPT !.hash[t].n_children = c] \/ r = [s EXCEPT !.hash[t].n_views = v]
    PROVE  Sound(r) /\ Keeps(s, r)
<1>1. s.hash \in [Tensors -> HashType] /\ s.hash[t] \in HashType /\ s.chunks \in Seq(ChunkType)
      /\ s = [chunks |-> s.chunks, hash |-> s.hash]
  BY HashIs
<1>2. PICK e \in HashType : /\ e.allocated = s.hash[t].allocated /\ e.addr = s.hash[t].addr
                            /\ r = [chunks |-> s.chunks, hash |-> [s.hash EXCEPT ![t] = e]]
  <2>1. CASE r = [s EXCEPT !.hash[t].n_children = c]
    <3> DEFINE e == [s.hash[t] EXCEPT !.n_children = c]
    <3>1. e \in HashType /\ e.allocated = s.hash[t].allocated /\ e.addr = s.hash[t].addr
      BY <1>1 DEF HashType
    <3>2. r = [chunks |-> s.chunks, hash |-> [s.hash EXCEPT ![t] = e]]
      BY <1>1, <2>1
    <3> QED BY <3>1, <3>2
  <2>2. CASE r = [s EXCEPT !.hash[t].n_views = v]
    <3> DEFINE e == [s.hash[t] EXCEPT !.n_views = v]
    <3>1. e \in HashType /\ e.allocated = s.hash[t].allocated /\ e.addr = s.hash[t].addr
      BY <1>1 DEF HashType
    <3>2. r = [chunks |-> s.chunks, hash |-> [s.hash EXCEPT ![t] = e]]
      BY <1>1, <2>2
    <3> QED BY <3>1, <3>2
  <2> QED BY <2>1, <2>2
<1>3. r.chunks = s.chunks /\ r.hash = [s.hash EXCEPT ![t] = e] /\ r \in StateType
  BY <1>1, <1>2 DEF StateType
<1>4. \A u \in Tensors : r.hash[u].allocated = s.hash[u].allocated
                         /\ r.hash[u].addr = s.hash[u].addr
  BY <1>1, <1>2, <1>3
<1> QED BY <1>3, <1>4, CountsSound

LEMMA FreeNodeSound ==
    ASSUME Setting, NEW s, Sound(s), NEW t \in Tensors, is_own(s, t)
    PROVE  Sound(free_node(s, t)) /\ Keeps(s, free_node(s, t))
<1>1. CASE t \in g.output
  BY <1>1 DEF free_node, Keeps
<1>2. CASE t \notin g.output
  <2> DEFINE h == [s.hash EXCEPT ![t].allocated = FALSE]
             r == [chunks |-> free_bytes(s.chunks, s.hash[t].addr, AllocSize(t)), hash |-> h]
  <2>1. free_node(s, t) = r
    BY <1>2 DEF free_node
  <2>2. s.hash \in [Tensors -> HashType] /\ s.hash[t] \in HashType
    BY HashIs
  <2>3. /\ h \in [Tensors -> HashType] /\ ~h[t].allocated /\ h[t].addr = s.hash[t].addr
        /\ \A u \in Tensors : u # t => h[u] = s.hash[u]
    <3> DEFINE e == [s.hash[t] EXCEPT !.allocated = FALSE]
    <3>1. e \in HashType /\ e.allocated = FALSE /\ e.addr = s.hash[t].addr
      BY <2>2 DEF HashType
    <3>2. h = [s.hash EXCEPT ![t] = e]
      BY <2>2
    <3> HIDE DEF e, h
    <3> QED BY <2>2, <3>1, <3>2
  <2>4. s.hash[t].allocated
    BY DEF is_own
  <2> HIDE DEF h
  <2>5. Sound(r) /\ Keeps(s, r)
    BY <2>3, <2>4, FreeSound
  <2> QED BY <2>1, <2>5
<1> QED BY <1>1, <1>2

LEMMA UpdateParentSound ==
    ASSUME Setting, NEW s, Sound(s), NEW p \in Tensors
    PROVE  Sound(update_parent(s, p)) /\ Keeps(s, update_parent(s, p))
<1> DEFINE read == [s EXCEPT !.hash[p].n_children = @ - 1]
           seen == IF Unused(read, p) /\ IsView(p)
                   THEN [read EXCEPT !.hash[g.view[p]].n_views = @ - 1] ELSE read
<1>1. update_parent(s, p) =
          IF Unused(read, p) /\ Unused(seen, Root(p)) /\ is_own(seen, Root(p))
          THEN free_node(seen, Root(p)) ELSE seen
  BY DEF update_parent
<1>2. Sound(read) /\ Keeps(s, read)
  <2>1. s.hash[p].n_children - 1 \in Int
    BY SoundIs
  <2>2. read = [s EXCEPT !.hash[p].n_children = s.hash[p].n_children - 1]
    BY HashIs
  <2> HIDE DEF read
  <2>3. 0 \in Int
    OBVIOUS
  <2> QED BY <2>1, <2>2, <2>3, CountSound
<1> HIDE DEF read
<1>3. Sound(seen) /\ Keeps(read, seen)
  <2>1. CASE Unused(read, p) /\ IsView(p)
    <3> DEFINE v == g.view[p]
    <3>1. v \in Tensors
      BY <2>1, ViewIs
    <3>2. read.hash[v].n_views - 1 \in Int
      BY <1>2, <3>1, SoundIs
    <3>3. seen = [read EXCEPT !.hash[v].n_views = read.hash[v].n_views - 1]
      BY <1>2, <2>1, <3>1, HashIs
    <3> HIDE DEF seen, v
    <3>4. 0 \in Int
      OBVIOUS
    <3> QED BY <1>2, <3>1, <3>2, <3>3, <3>4, CountSound
  <2>2. CASE ~(Unused(read, p) /\ IsView(p))
    BY <1>2, <2>2 DEF Keeps
  <2> QED BY <2>1, <2>2
<1> HIDE DEF seen
<1>4. is_own(seen, Root(p)) =>
          Sound(free_node(seen, Root(p))) /\ Keeps(seen, free_node(seen, Root(p)))
  BY <1>3, ViewIs, FreeNodeSound
<1> DEFINE r == update_parent(s, p)
<1>5. Sound(r) /\ Keeps(seen, r)
  BY <1>1, <1>3, <1>4 DEF Keeps
<1> HIDE DEF r
<1>6. Keeps(s, r)
  BY <1>2, <1>3, <1>5 DEF Keeps
<1> QED BY <1>5, <1>6 DEF r

-----------------------------------------------------------------------------
(* The order of the graph.                                                 *)

\* The tensors that have their values before node k is computed.
Past(k) == ToSet(g.leafs) \cup {g.nodes[j] : j \in 1 .. k - 1}

\* Node k reads the memory of t.
ReadAt(t, k) == \E p \in ToSet(g.src[g.nodes[k]]) : Root(p) = t

\* From node k on nobody needs the memory of t.
Dead(t, k) == t \notin g.output /\ \A m \in DOMAIN g.nodes : m >= k => ~ReadAt(t, m)

LEMMA OrderIs ==
    ASSUME Setting
    PROVE  /\ g.input \subseteq ToSet(g.leafs)
           /\ \A t \in ToSet(g.leafs) : t \notin g.inplace /\ g.view[t] = 0
           /\ \A t \in Tensors : Len(g.src[t]) <= GGML_MAX_SRC
           /\ \A t \in Tensors : g.view[t] # 0 => g.view[g.view[t]] = 0
           /\ \A k \in DOMAIN g.nodes :
                  /\ g.nodes[k] \notin Past(k)
                  /\ ToSet(g.src[g.nodes[k]]) \subseteq Past(k)
                  /\ g.view[g.nodes[k]] = 0 \/ g.view[g.nodes[k]] \in Past(k)
<1>1. IsGraph(g)
  BY GraphAssumption DEF Setting
<1>2. /\ g.input \subseteq ToSet(g.leafs)
      /\ \A t \in ToSet(g.leafs) : t \notin g.inplace /\ g.view[t] = 0
      /\ \A t \in Tensors : Len(g.src[t]) <= GGML_MAX_SRC
      /\ \A t \in Tensors : g.view[t] # 0 => g.view[g.view[t]] = 0
      /\ 0 \notin Tensors
      /\ \A k \in DOMAIN g.nodes :
             /\ g.nodes[k] \notin Past(k)
             /\ ToSet(g.src[g.nodes[k]]) \cup {g.view[g.nodes[k]]} \subseteq Past(k) \cup {0}
  BY <1>1 DEF IsGraph, Tensors, Past
<1>3. ASSUME NEW k \in DOMAIN g.nodes
      PROVE  ToSet(g.src[g.nodes[k]]) \subseteq Past(k)
  <2>1. g.src[g.nodes[k]] \in Seq(Tensors)
    BY GraphIs
  <2>2. ToSet(g.src[g.nodes[k]]) \subseteq Tensors
    BY <2>1 DEF ToSet
  <2> QED BY <1>2, <2>2
<1> QED BY <1>2, <1>3

LEMMA PastGrows ==
    ASSUME Setting, NEW j \in Nat, NEW k \in Nat, j <= k
    PROVE  Past(j) \subseteq Past(k) /\ Past(k + 1) = Past(k) \cup {g.nodes[m] : m \in {k} \ {0}}
<1>1. 1 .. j - 1 \subseteq 1 .. k - 1
  OBVIOUS
<1>2. 1 .. (k + 1) - 1 = (1 .. k - 1) \cup ({k} \ {0})
  OBVIOUS
<1> QED BY <1>1, <1>2 DEF Past

\* A node is there once, and is no leaf.
LEMMA NodesOnce ==
    ASSUME Setting, NEW j \in DOMAIN g.nodes
    PROVE  /\ g.nodes[j] \notin ToSet(g.leafs)
           /\ \A k \in DOMAIN g.nodes : g.nodes[k] = g.nodes[j] => k = j
           /\ \A k \in Nat : g.nodes[j] \in Past(k) <=> j < k
<1>1. g.nodes \in Seq(Tensors)
  BY GraphIs
<1>2. \A k \in DOMAIN g.nodes : k \in Nat /\ k > 0
  BY <1>1
<1>3. g.nodes[j] \notin ToSet(g.leafs)
  BY OrderIs DEF Past
<1>4. ASSUME NEW k \in DOMAIN g.nodes, NEW m \in DOMAIN g.nodes, g.nodes[k] = g.nodes[m]
      PROVE  ~(k < m)
  <2>1. ASSUME k < m PROVE FALSE
    <3>1. k \in 1 .. m - 1
      BY <1>2, <2>1
    <3>2. g.nodes[m] \in Past(m)
      BY <1>4, <3>1 DEF Past
    <3> QED BY <3>2, OrderIs
  <2> QED BY <2>1
<1>5. \A k \in DOMAIN g.nodes : g.nodes[k] = g.nodes[j] => k = j
  BY <1>2, <1>4
<1>6. ASSUME NEW k \in Nat, j < k PROVE g.nodes[j] \in Past(k)
  <2>1. j \in 1 .. k - 1
    BY <1>2, <1>6
  <2> QED BY <2>1 DEF Past
<1>7. ASSUME NEW k \in Nat, g.nodes[j] \in Past(k) PROVE j < k
  <2>1. PICK m \in 1 .. k - 1 : g.nodes[m] = g.nodes[j]
    BY <1>3, <1>7 DEF Past
  <2>2. CASE m \in DOMAIN g.nodes
    BY <1>5, <2>1, <2>2
  <2>3. CASE m \notin DOMAIN g.nodes
    <3>1. j < m
      BY <1>1, <2>1, <2>3
    <3> QED BY <1>2, <2>1, <3>1
  <2> QED BY <2>2, <2>3
<1> QED BY <1>3, <1>5, <1>6, <1>7

\* The memory a source is in belongs to a tensor that has its value too.
LEMMA RootsPast ==
    ASSUME Setting, NEW k \in DOMAIN g.nodes, NEW p \in ToSet(g.src[g.nodes[k]])
    PROVE  /\ p \in Tensors /\ Root(p) \in Tensors /\ Root(p) \in Past(k) /\ ~IsView(Root(p))
           /\ p \in Past(k)
<1>1. p \in Past(k) /\ k \in Nat /\ k > 0
  <2>1. g.nodes \in Seq(Tensors)
    BY GraphIs
  <2> QED BY <2>1, OrderIs
<1>2. p \in Tensors
  <2>1. g.nodes[k] \in Tensors
    BY GraphIs
  <2>2. g.src[g.nodes[k]] \in Seq(Tensors)
    BY <2>1, GraphIs
  <2> QED BY <2>2 DEF ToSet
<1>3. CASE g.view[p] = 0
  BY <1>1, <1>2, <1>3 DEF Root, IsView
<1>4. CASE g.view[p] # 0
  <2>1. Root(p) = g.view[p] /\ ~IsView(Root(p))
    BY <1>2, <1>4, OrderIs DEF Root, IsView
  <2>2. p \notin ToSet(g.leafs)
    BY <1>4, OrderIs
  <2>3. PICK j \in 1 .. k - 1 : g.nodes[j] = p
    BY <1>1, <2>2 DEF Past
  <2>4. j \in DOMAIN g.nodes /\ j <= k /\ j \in Nat
    <3>1. g.nodes \in Seq(Tensors)
      BY GraphIs
    <3> QED BY <1>1, <2>3, <3>1
  <2>5. g.view[p] \in Past(j)
    BY <1>4, <2>3, <2>4, OrderIs
  <2>6. Past(j) \subseteq Past(k)
    BY <1>1, <2>4, PastGrows
  <2>7. Root(p) \in Tensors
    BY <1>2, ViewIs
  <2> QED BY <1>1, <1>2, <2>1, <2>5, <2>6, <2>7
<1> QED BY <1>3, <1>4

-----------------------------------------------------------------------------
(* The uses of a tensor.                                                   *)

\* The places where t is a source, when node k has let go of j of its sources.
Uses(t, k, j) ==
    {x \in {g.nodes[m] : m \in k .. Len(g.nodes)} \X (1 .. GGML_MAX_SRC) :
        /\ x[2] \in DOMAIN g.src[x[1]] /\ g.src[x[1]][x[2]] = t
        /\ x[1] = g.nodes[k] => x[2] > j}

\* The views of t that are still a source somewhere.
ViewsUsed(t, k, j) == {v \in Nodes : g.view[v] = t /\ Uses(v, k, j) # {}}

\* The counts of children are exact, and no view that is used is left out.
Counted(s, k, j) ==
    \A t \in Tensors :
        /\ s.hash[t].n_children = Cardinality(Uses(t, k, j))
        /\ s.hash[t].n_views >= Cardinality(ViewsUsed(t, k, j))

LEMMA NodesFinite ==
    ASSUME Setting
    PROVE  IsFiniteSet(Nodes) /\ IsFiniteSet(Nodes \X (1 .. GGML_MAX_SRC))
<1>1. IsFiniteSet(Nodes)
  <2>1. g.nodes \in Seq(Tensors)
    BY GraphIs
  <2> DEFINE n == Len(g.nodes)
  <2>2. n \in Nat /\ DOMAIN g.nodes = 1 .. n
    BY <2>1
  <2>3. IsFiniteSet(1 .. n)
    BY <2>2, FS_Interval
  <2> DEFINE f == [k \in 1 .. n |-> g.nodes[k]]
  <2>4. f \in Surjection(1 .. n, Nodes)
    BY <2>1, <2>2 DEF Surjection, Nodes, ToSet
  <2> HIDE DEF f
  <2> QED BY <2>3, <2>4, FS_Surjection
<1>2. IsFiniteSet(1 .. GGML_MAX_SRC)
  <2>1. PICK a, b \in Int : a = 1 /\ b = GGML_MAX_SRC
    BY DEF GGML_MAX_SRC
  <2>2. IsFiniteSet(a .. b)
    BY FS_Interval
  <2> QED BY <2>1, <2>2
<1> DEFINE F == 1 .. GGML_MAX_SRC
<1> HIDE DEF F
<1>3. IsFiniteSet(Nodes \X F)
  BY <1>1, <1>2, FS_Product DEF F
<1> QED BY <1>1, <1>3 DEF F

LEMMA UsesFinite ==
    ASSUME Setting, NEW t, NEW k \in Nat \ {0}, NEW j
    PROVE  /\ IsFiniteSet(Uses(t, k, j)) /\ IsFiniteSet(ViewsUsed(t, k, j))
           /\ Cardinality(Uses(t, k, j)) \in Nat /\ Cardinality(ViewsUsed(t, k, j)) \in Nat
<1>1. {g.nodes[m] : m \in k .. Len(g.nodes)} \subseteq Nodes
  <2>1. g.nodes \in Seq(Tensors)
    BY GraphIs
  <2> QED BY <2>1 DEF Nodes, ToSet
<1>2. Uses(t, k, j) \subseteq Nodes \X (1 .. GGML_MAX_SRC)
  BY <1>1 DEF Uses
<1>3. ViewsUsed(t, k, j) \subseteq Nodes
  BY DEF ViewsUsed
<1>4. IsFiniteSet(Uses(t, k, j))
  BY <1>2, NodesFinite, FS_Subset
<1>5. IsFiniteSet(ViewsUsed(t, k, j))
  BY <1>3, NodesFinite, FS_Subset
<1> QED BY <1>4, <1>5, FS_CardinalityType

\* Before the walk.
LEMMA UsesAtFirst ==
    ASSUME Setting
    PROVE  /\ \A t \in Tensors : CountUses[t].n_children = Cardinality(Uses(t, 1, 0))
           /\ \A t \in Tensors : CountUses[t].n_views >= Cardinality(ViewsUsed(t, 1, 0))
<1> DEFINE M == 1 .. GGML_MAX_SRC
           C(t) == {x \in Nodes \X M : x[2] \in DOMAIN g.src[x[1]] /\ g.src[x[1]][x[2]] = t}
           V(t) == {v \in Nodes : g.view[v] = t}
<1>1. CountUses = [t \in Tensors |-> [NoHash EXCEPT !.n_children = Cardinality(C(t)),
                                                    !.n_views = Cardinality(V(t))]]
  BY DEF CountUses
<1>2. {g.nodes[m] : m \in 1 .. Len(g.nodes)} = Nodes
  <2>1. g.nodes \in Seq(Tensors)
    BY GraphIs
  <2> QED BY <2>1 DEF Nodes, ToSet
<1>3. \A y \in M : y > 0
  BY DEF GGML_MAX_SRC
<1>4. \A t : Uses(t, 1, 0) = C(t)
  <2> SUFFICES ASSUME NEW t PROVE Uses(t, 1, 0) = C(t)
    OBVIOUS
  <2>1. Uses(t, 1, 0) = {x \in Nodes \X M : /\ x[2] \in DOMAIN g.src[x[1]]
                                            /\ g.src[x[1]][x[2]] = t
                                            /\ x[1] = g.nodes[1] => x[2] > 0}
    BY <1>2 DEF Uses
  <2>2. \A x \in Nodes \X M : x[2] \in M
    OBVIOUS
  <2> QED BY <1>3, <2>1, <2>2
<1>5. ASSUME NEW t \in Tensors PROVE Cardinality(V(t)) >= Cardinality(ViewsUsed(t, 1, 0))
  <2>1. ViewsUsed(t, 1, 0) \subseteq V(t)
    BY DEF ViewsUsed
  <2>2. V(t) \subseteq Nodes
    OBVIOUS
  <2>3. IsFiniteSet(V(t))
    <3> HIDE DEF V
    <3> QED BY <2>2, NodesFinite, FS_Subset
  <2>4. Cardinality(V(t)) \in Nat /\ Cardinality(ViewsUsed(t, 1, 0)) \in Nat
        /\ Cardinality(ViewsUsed(t, 1, 0)) <= Cardinality(V(t))
    <3> HIDE DEF V
    <3>1. IsFiniteSet(ViewsUsed(t, 1, 0))
      BY <2>1, <2>3, FS_Subset
    <3> QED BY <2>1, <2>3, <3>1, FS_Subset, FS_CardinalityType
  <2> HIDE DEF V
  <2> QED BY <2>4
<1> HIDE DEF C, V, M
<1>6. ASSUME NEW t \in Tensors
      PROVE  CountUses[t].n_children = Cardinality(C(t)) /\ CountUses[t].n_views = Cardinality(V(t))
  BY <1>1 DEF NoHash
<1> QED BY <1>4, <1>5, <1>6

\* Node k lets go of its source j.
LEMMA UseDone ==
    ASSUME Setting, NEW k \in DOMAIN g.nodes, NEW t, t = g.nodes[k],
           NEW j \in 1 .. Len(g.src[t]), NEW p, p = g.src[t][j]
    PROVE  /\ <<t, j>> \in Uses(p, k, j - 1)
           /\ Uses(p, k, j) = Uses(p, k, j - 1) \ {<<t, j>>}
           /\ \A q : q # p => Uses(q, k, j) = Uses(q, k, j - 1)
<1>1. g.nodes \in Seq(Tensors) /\ t \in Tensors
  BY GraphIs
<1>2. g.src[t] \in Seq(Tensors) /\ Len(g.src[t]) <= GGML_MAX_SRC
  BY <1>1, GraphIs, OrderIs
<1>3. /\ k \in Nat /\ k > 0 /\ Len(g.nodes) \in Nat /\ k \in k .. Len(g.nodes)
      /\ j \in Nat /\ j \in DOMAIN g.src[t] /\ j \in 1 .. GGML_MAX_SRC
  BY <1>1, <1>2 DEF GGML_MAX_SRC
<1> DEFINE A == {g.nodes[m] : m \in k .. Len(g.nodes)} \X (1 .. GGML_MAX_SRC)
           U(q, n) == {x \in A : /\ x[2] \in DOMAIN g.src[x[1]] /\ g.src[x[1]][x[2]] = q
                                 /\ x[1] = t => x[2] > n}
<1>4. \A q, n : Uses(q, k, n) = U(q, n)
  BY DEF Uses
<1>5. <<t, j>> \in A
  BY <1>3
<1>6. \A x \in A : x = <<x[1], x[2]>> /\ x[2] \in Nat
  BY DEF GGML_MAX_SRC
<1> HIDE DEF A
<1>7. <<t, j>> \in U(p, j - 1)
  BY <1>3, <1>5
<1>8. ASSUME NEW q, NEW x \in U(q, j - 1) PROVE x \in U(q, j) \/ (x = <<t, j>> /\ q = p)
  <2>1. x \in A /\ x = <<x[1], x[2]>> /\ x[2] \in Nat
    BY <1>6
  <2>2. CASE x[1] = t /\ x[2] = j
    BY <2>1, <2>2
  <2>3. CASE x[1] # t \/ x[2] # j
    <3>1. x[1] = t => x[2] > j
      BY <1>3, <2>1, <2>3
    <3> QED BY <3>1
  <2> QED BY <2>2, <2>3
<1>9. ASSUME NEW q, NEW x \in U(q, j) PROVE x \in U(q, j - 1) /\ x # <<t, j>>
  <2>1. x[2] \in Nat
    BY <1>6
  <2>2. x[1] = t => x[2] > j - 1
    BY <1>3, <2>1
  <2>3. x # <<t, j>>
    BY <1>3
  <2> QED BY <2>2, <2>3
<1>10. \A q : U(q, j) \subseteq U(q, j - 1) /\ <<t, j>> \notin U(q, j)
  BY <1>9
<1>11. \A q : U(q, j - 1) \subseteq U(q, j) \cup (IF q = p THEN {<<t, j>>} ELSE {})
  BY <1>8
<1> HIDE DEF U
<1>12. U(p, j) = U(p, j - 1) \ {<<t, j>>}
  BY <1>10, <1>11
<1>13. \A q : q # p => U(q, j) = U(q, j - 1)
  BY <1>10, <1>11
<1> QED BY <1>4, <1>7, <1>12, <1>13

\* Node k is done.
LEMMA UsesOver ==
    ASSUME Setting, NEW k \in DOMAIN g.nodes, NEW q
    PROVE  Uses(q, k, Len(g.src[g.nodes[k]])) = Uses(q, k + 1, 0)
<1> DEFINE t == g.nodes[k]
           n == Len(g.src[t])
<1>1. g.nodes \in Seq(Tensors) /\ t \in Tensors
  BY GraphIs
<1>2. g.src[t] \in Seq(Tensors) /\ DOMAIN g.src[t] = 1 .. n /\ n \in Nat
  BY <1>1, GraphIs
<1>3. k \in Nat /\ k > 0 /\ Len(g.nodes) \in Nat
  BY <1>1
<1>4. ASSUME NEW x \in Uses(q, k, n) PROVE x \in Uses(q, k + 1, 0)
  <2>1. PICK m \in k .. Len(g.nodes), y \in 1 .. GGML_MAX_SRC : x = <<g.nodes[m], y>>
    BY DEF Uses
  <2>2. y \in DOMAIN g.src[g.nodes[m]] /\ g.src[g.nodes[m]][y] = q
        /\ (g.nodes[m] = t => y > n)
    BY <2>1 DEF Uses
  <2>3. m # k
    BY <1>2, <2>2
  <2>4. m \in k + 1 .. Len(g.nodes)
    BY <1>3, <2>3
  <2>5. y > 0
    BY DEF GGML_MAX_SRC
  <2> HIDE DEF t, n
  <2> QED BY <2>1, <2>2, <2>4, <2>5 DEF Uses
<1>5. ASSUME NEW x \in Uses(q, k + 1, 0) PROVE x \in Uses(q, k, n)
  <2>1. PICK m \in k + 1 .. Len(g.nodes), y \in 1 .. GGML_MAX_SRC : x = <<g.nodes[m], y>>
    BY DEF Uses
  <2>2. y \in DOMAIN g.src[g.nodes[m]] /\ g.src[g.nodes[m]][y] = q
    BY <2>1 DEF Uses
  <2>3. m \in k .. Len(g.nodes) /\ m # k /\ m \in DOMAIN g.nodes
    BY <1>1, <1>3
  <2>4. g.nodes[m] # g.nodes[k]
    BY <2>3, NodesOnce
  <2> HIDE DEF n
  <2> QED BY <2>1, <2>2, <2>3, <2>4 DEF Uses
<1> QED BY <1>4, <1>5

\* A tensor that neither is used nor has a view that is used.
LEMMA NotRead ==
    ASSUME Setting, NEW t \in Tensors, NEW k \in Nat \ {0}, NEW j \in Nat,
           Uses(t, k, j) = {}, ViewsUsed(t, k, j) = {}
    PROVE  \A m \in DOMAIN g.nodes : m > k \/ (m = k /\ j = 0) => ~ReadAt(t, m)
<1> SUFFICES ASSUME NEW m \in DOMAIN g.nodes, m > k \/ (m = k /\ j = 0), ReadAt(t, m)
             PROVE  FALSE
  OBVIOUS
<1>1. g.nodes \in Seq(Tensors) /\ g.nodes[m] \in Tensors
  BY GraphIs
<1>2. g.src[g.nodes[m]] \in Seq(Tensors) /\ Len(g.src[g.nodes[m]]) <= GGML_MAX_SRC
  BY <1>1, GraphIs, OrderIs
<1>3. m \in k .. Len(g.nodes)
  BY <1>1
<1>4. PICK p \in ToSet(g.src[g.nodes[m]]) : Root(p) = t
  BY DEF ReadAt
<1>5. PICK y \in DOMAIN g.src[g.nodes[m]] : g.src[g.nodes[m]][y] = p
  BY <1>4 DEF ToSet
<1>6. y \in 1 .. GGML_MAX_SRC /\ y > 0
  BY <1>2, <1>5 DEF GGML_MAX_SRC
<1>7. g.nodes[m] = g.nodes[k] => j = 0
  <2>1. CASE m = k
    BY <2>1
  <2>2. CASE m # k
    <3>1. m > k /\ k \in DOMAIN g.nodes
      BY <1>1, <2>2
    <3> QED BY <2>2, <3>1, NodesOnce
  <2> QED BY <2>1, <2>2
<1>8. <<g.nodes[m], y>> \in Uses(p, k, j)
  BY <1>3, <1>5, <1>6, <1>7 DEF Uses
<1>9. CASE g.view[p] = 0
  BY <1>4, <1>8, <1>9 DEF Root, IsView
<1>10. CASE g.view[p] # 0
  <2>1. p \in Tensors
    BY RootsPast
  <2>2. p \notin ToSet(g.leafs)
    BY <1>10, OrderIs
  <2>3. p \in Nodes
    BY <2>1, <2>2, GraphIs DEF Nodes
  <2>4. g.view[p] = t
    BY <1>4, <1>10 DEF Root, IsView
  <2> QED BY <1>8, <2>3, <2>4 DEF ViewsUsed
<1> QED BY <1>9, <1>10

-----------------------------------------------------------------------------
(* Memory is handed on when its last owner is done with it.                *)

\* Tensor u may have memory that t had, at the same address if `same'.
Yields(t, u, same) ==
    /\ t \notin g.output
    /\ \E k \in DOMAIN g.nodes :
           /\ g.nodes[k] = u /\ t \in Past(k)
           /\ \A m \in DOMAIN g.nodes :
                  ReadAt(t, m) => m < k \/ (m = k /\ u \in g.inplace /\ same)

\* Two pieces have memory in common.
Meet(a, y, b, z) ==
    /\ a.chunk = b.chunk
    /\ a.offset < b.offset + z /\ b.offset < a.offset + y

InTurn(t, a, y, u, b, z) ==
    t # u /\ Meet(a, y, b, z) =>
        Yields(t, u, a.offset = b.offset) \/ Yields(u, t, a.offset = b.offset)

\* Behind the nodes before k.
Alive(s, k) ==
    /\ \A t \in Tensors : Placed(s, t) => t \in Past(k)
    /\ \A t \in Tensors : Placed(s, t) /\ ~s.hash[t].allocated => Dead(t, k)
    /\ \A t, u \in Tensors : Placed(s, t) /\ Placed(s, u) =>
           InTurn(t, s.hash[t].addr, Room(t), u, s.hash[u].addr, Room(u))

\* Before a node is walked over only leafs have memory.
Fresh(s) ==
    /\ \A t \in Tensors : /\ s.hash[t].n_children = CountUses[t].n_children
                          /\ s.hash[t].n_views = CountUses[t].n_views
    /\ \A t \in Tensors : Placed(s, t) => s.hash[t].allocated /\ t \in ToSet(g.leafs)

\* Tensors that are allocated at the same time have no memory in common.
LEMMA HeldApart ==
    ASSUME Setting, NEW s, Sound(s), NEW t \in Tensors, NEW u \in Tensors, t # u,
           s.hash[t].allocated, s.hash[u].allocated
    PROVE  ~Meet(s.hash[t].addr, Room(t), s.hash[u].addr, Room(u))
<1> DEFINE c == s.hash[t].addr.chunk
<1> SUFFICES ASSUME s.hash[u].addr.chunk = c,
                    s.hash[t].addr.offset < s.hash[u].addr.offset + Room(u),
                    s.hash[u].addr.offset < s.hash[t].addr.offset + Room(t)
             PROVE  FALSE
  BY DEF Meet
<1>1. c \in DOMAIN s.chunks /\ Holds(s, t, c) /\ Holds(s, u, c)
  BY SoundIs DEF Holds
<1> HIDE DEF c
<1>2. Piece(s, t) \in HeldIn(s, c) /\ Piece(s, u) \in HeldIn(s, c) /\ Piece(s, t) # Piece(s, u)
  BY <1>1 DEF HeldIn, Sound
<1>3. Tiling(Blocks(s.chunks[c].free) \cup HeldIn(s, c))
  BY <1>1 DEF Sound, ChunkSound
<1>4. Piece(s, t)[2] <= Piece(s, u)[1] \/ Piece(s, u)[2] <= Piece(s, t)[1]
  BY <1>2, <1>3 DEF Tiling
<1>5. /\ s.hash[t].addr.offset \in Nat /\ s.hash[u].addr.offset \in Nat
      /\ Room(t) \in Nat /\ Room(u) \in Nat
  BY SoundIs, Rooms
<1> QED BY <1>4, <1>5 DEF Piece

LEMMA DeadLater ==
    ASSUME Setting, NEW t, NEW k \in Nat, Dead(t, k)
    PROVE  Dead(t, k + 1)
<1>1. \A m \in DOMAIN g.nodes : m \in Nat
  BY GraphIs
<1> QED BY <1>1 DEF Dead

\* Node k gets its memory.
LEMMA AllocateNodeAlive ==
    ASSUME Setting, NEW s, Sound(s), NEW k \in DOMAIN g.nodes, NEW t, t = g.nodes[k],
           Alive(s, k), Counted(s, k, 0)
    PROVE  Alive(allocate_node(s, t), k + 1) /\ Counted(allocate_node(s, t), k, 0)
<1> DEFINE r == allocate_node(s, t)
<1>1. t \in Tensors /\ k \in Nat /\ k > 0 /\ k \in k .. Len(g.nodes)
  BY GraphIs
<1>2. /\ Sound(r) /\ Keeps(s, r)
      /\ IF is_allocated(s, t) \/ IsView(t) THEN r = s
         ELSE ~s.hash[t].allocated /\ Gives(s, t, r)
  BY <1>1, AllocateNodeSound
<1> HIDE DEF r
<1>3. Past(k) \subseteq Past(k + 1) /\ t \in Past(k + 1) /\ t \notin Past(k)
  BY <1>1, PastGrows, NodesOnce
<1>4. CASE is_allocated(s, t) \/ IsView(t)
  <2>1. r = s
    BY <1>2, <1>4
  <2>2. Alive(s, k + 1)
    BY <1>1, <1>3, DeadLater DEF Alive
  <2> QED BY <2>1, <2>2 DEF r
<1>5. CASE ~(is_allocated(s, t) \/ IsView(t))
  <2>1. ~s.hash[t].allocated /\ Gives(s, t, r)
    BY <1>2, <1>5
  <2>2. ~Placed(s, t)
    BY <1>1, <1>3 DEF Alive
  <2>11. \A u \in Tensors :
            /\ r.hash[u].n_children = s.hash[u].n_children
            /\ r.hash[u].n_views = s.hash[u].n_views
            /\ u # t => r.hash[u].addr = s.hash[u].addr
    BY <2>1 DEF Gives
  <2>3. \A u \in Tensors : u # t => /\ r.hash[u].addr = s.hash[u].addr
                                    /\ Placed(r, u) <=> Placed(s, u)
    BY <2>11 DEF Placed
  <2>4. Counted(r, k, 0)
    BY <2>11 DEF Counted
  <2>5. \A u \in Tensors : Placed(r, u) => u \in Past(k + 1)
    BY <1>3, <2>3 DEF Alive
  \* The tensor whose memory is taken over is read by node k only.
  <2>6. ASSUME NEW p \in Tensors, p # t, p \in ToSet(g.src[t]), CanReuse(s, t, p)
        PROVE  /\ Dead(p, k + 1) /\ t \in g.inplace
               /\ \A m \in DOMAIN g.nodes : ReadAt(p, m) => m <= k
    <3>1. /\ p \notin g.output /\ s.hash[p].n_children = 1 /\ s.hash[p].n_views = 0
          /\ t \in g.inplace
      BY <2>6 DEF CanReuse
    <3>2. Cardinality(Uses(p, k, 0)) = 1 /\ Cardinality(ViewsUsed(p, k, 0)) = 0
      <4>1. 0 >= Cardinality(ViewsUsed(p, k, 0)) /\ Cardinality(Uses(p, k, 0)) = 1
        BY <3>1 DEF Counted
      <4>2. Cardinality(ViewsUsed(p, k, 0)) \in Nat
        BY <1>1, UsesFinite
      <4> QED BY <4>1, <4>2
    <3>3. ViewsUsed(p, k, 0) = {}
      BY <1>1, <3>2, UsesFinite, FS_EmptySet
    <3>4. PICK j \in 1 .. Len(g.src[t]) : g.src[t][j] = p
      <4>1. g.src[t] \in Seq(Tensors)
        BY <1>1, GraphIs
      <4> QED BY <2>6, <4>1 DEF ToSet
    <3>5. j \in Nat /\ Len(g.src[t]) \in Nat
      <4>1. g.src[t] \in Seq(Tensors)
        BY <1>1, GraphIs
      <4> QED BY <4>1
    <3>6. <<t, j>> \in Uses(p, k, j - 1)
      BY <3>4, UseDone
    <3>7. <<t, j>> \in Uses(p, k, 0)
      <4>1. j \in 1 .. GGML_MAX_SRC /\ j > 0
        BY <3>6 DEF Uses, GGML_MAX_SRC
      <4> QED BY <3>6, <4>1 DEF Uses
    <3>8. Uses(p, k, 0) = {<<t, j>>}
      <4>1. PICK x : Uses(p, k, 0) = {x}
        <5>1. IsFiniteSet(Uses(p, k, 0)) /\ Cardinality(Uses(p, k, 0)) = 1
          BY <1>1, <3>2, UsesFinite
        <5> QED BY <5>1, FS_Singleton
      <4> QED BY <3>7, <4>1
    <3>9. Uses(p, k, j) = {}
      <4>1. Uses(p, k, j) \subseteq Uses(p, k, 0)
        <5>1. \A y \in 1 .. GGML_MAX_SRC : y > 0
          BY DEF GGML_MAX_SRC
        <5> QED BY <5>1 DEF Uses
      <4>2. <<t, j>> \notin Uses(p, k, j)
        BY <3>5 DEF Uses
      <4> QED BY <3>8, <4>1, <4>2
    <3>10. ViewsUsed(p, k, j) = {}
      <4>1. ASSUME NEW v PROVE Uses(v, k, j) \subseteq Uses(v, k, 0)
        <5>1. \A y \in 1 .. GGML_MAX_SRC : y > 0
          BY DEF GGML_MAX_SRC
        <5> QED BY <5>1 DEF Uses
      <4> QED BY <3>3, <4>1 DEF ViewsUsed
    <3>11. \A m \in DOMAIN g.nodes : m > k => ~ReadAt(p, m)
      BY <1>1, <3>5, <3>9, <3>10, NotRead
    <3>12. \A m \in DOMAIN g.nodes : m \in Nat
      BY GraphIs
    <3>13. \A m \in DOMAIN g.nodes : ReadAt(p, m) => m <= k
      BY <1>1, <3>11, <3>12
    <3>14. \A m \in DOMAIN g.nodes : m >= k + 1 => ~ReadAt(p, m)
      BY <1>1, <3>11, <3>12
    <3> QED BY <3>1, <3>13, <3>14 DEF Dead
  <2>7. ASSUME NEW u \in Tensors, Placed(r, u), ~r.hash[u].allocated
        PROVE  Dead(u, k + 1)
    <3>1. u # t /\ Placed(s, u)
      BY <2>1, <2>3, <2>7 DEF Gives
    <3>2. CASE r.hash[u].allocated = s.hash[u].allocated
      BY <1>1, <2>7, <3>1, <3>2, DeadLater DEF Alive
    <3>3. CASE r.hash[u].allocated # s.hash[u].allocated
      BY <2>1, <2>6, <3>1, <3>3 DEF Gives
    <3> QED BY <3>2, <3>3
  \* What t has, no other tensor holds, and those that had it have yielded it.
  <2>8. ASSUME NEW u \in Tensors, u # t, Placed(r, u), Placed(r, t),
               Meet(r.hash[u].addr, Room(u), r.hash[t].addr, Room(t))
        PROVE  Yields(u, t, r.hash[u].addr.offset = r.hash[t].addr.offset)
    <3>1. ~r.hash[u].allocated
      BY <1>1, <1>2, <2>1, <2>8, HeldApart DEF Gives
    <3>2. Placed(s, u) /\ u \in Past(k)
      BY <2>3, <2>8 DEF Alive
    <3>3. CASE r.hash[u].allocated = s.hash[u].allocated
      <4>1. Dead(u, k)
        BY <3>1, <3>2, <3>3 DEF Alive
      <4>2. \A m \in DOMAIN g.nodes : m \in Nat
        BY GraphIs
      <4>3. \A m \in DOMAIN g.nodes : ReadAt(u, m) => m < k
        BY <1>1, <4>1, <4>2 DEF Dead
      <4> QED BY <3>2, <4>1, <4>3 DEF Yields, Dead
    <3>4. CASE r.hash[u].allocated # s.hash[u].allocated
      <4>1. u \in ToSet(g.src[t]) /\ CanReuse(s, t, u) /\ r.hash[t].addr = s.hash[u].addr
        BY <2>1, <2>8, <3>4 DEF Gives
      <4>2. r.hash[u].addr.offset = r.hash[t].addr.offset
        BY <2>3, <2>8, <4>1
      <4>3. /\ Dead(u, k + 1) /\ t \in g.inplace
            /\ \A m \in DOMAIN g.nodes : ReadAt(u, m) => m <= k
        BY <2>6, <2>8, <4>1
      <4>4. \A m \in DOMAIN g.nodes : m \in Nat
        BY GraphIs
      <4>5. \A m \in DOMAIN g.nodes : ReadAt(u, m) => m < k \/ m = k
        BY <1>1, <4>3, <4>4
      <4> QED BY <3>2, <4>2, <4>3, <4>5 DEF Yields, Dead
    <3> QED BY <3>3, <3>4
  <2>9. ASSUME NEW u \in Tensors, NEW v \in Tensors, Placed(r, u), Placed(r, v)
        PROVE  InTurn(u, r.hash[u].addr, Room(u), v, r.hash[v].addr, Room(v))
    <3>1. CASE u # t /\ v # t
      BY <2>3, <2>9, <3>1 DEF Alive
    <3>2. CASE u # t /\ v = t
      BY <2>8, <2>9, <3>2 DEF InTurn
    <3>3. CASE u = t /\ v # t
      BY <2>8, <2>9, <3>3 DEF InTurn, Meet
    <3>4. CASE u = v
      BY <3>4 DEF InTurn
    <3> QED BY <3>1, <3>2, <3>3, <3>4
  <2>10. Alive(r, k + 1)
    BY <2>5, <2>7, <2>9 DEF Alive
  <2> QED BY <2>4, <2>10 DEF r
<1> QED BY <1>4, <1>5

\* In r the count of source p is one less than in s, and what nobody uses any more is freed.
Lets(s, p, r) ==
    /\ \A u \in Tensors : r.hash[u].addr = s.hash[u].addr
    /\ \A u \in Tensors :
           r.hash[u].n_children = IF u = p THEN s.hash[p].n_children - 1 ELSE s.hash[u].n_children
    /\ \A u \in Tensors :
           \/ r.hash[u].n_views = s.hash[u].n_views
           \/ /\ IsView(p) /\ u = g.view[p] /\ r.hash[p].n_children = 0
              /\ r.hash[u].n_views = s.hash[u].n_views - 1
    /\ \A u \in Tensors :
           \/ r.hash[u].allocated = s.hash[u].allocated
           \/ /\ ~r.hash[u].allocated /\ u \notin g.output
              /\ r.hash[u].n_children = 0 /\ r.hash[u].n_views = 0

LEMMA UpdateParentLets ==
    ASSUME Setting, NEW s, Sound(s), NEW p \in Tensors
    PROVE  Lets(s, p, update_parent(s, p))
<1> DEFINE read == [s EXCEPT !.hash[p].n_children = @ - 1]
           seen == IF Unused(read, p) /\ IsView(p)
                   THEN [read EXCEPT !.hash[g.view[p]].n_views = @ - 1] ELSE read
           w == Root(p)
           r == update_parent(s, p)
<1>1. r = IF Unused(read, p) /\ Unused(seen, w) /\ is_own(seen, w) THEN free_node(seen, w) ELSE seen
  BY DEF update_parent
<1>2. /\ s.hash \in [Tensors -> HashType] /\ s = [chunks |-> s.chunks, hash |-> s.hash]
      /\ s.hash[p] \in HashType /\ w \in Tensors
  BY HashIs, ViewIs
<1> DEFINE e == [s.hash[p] EXCEPT !.n_children = s.hash[p].n_children - 1]
<1>3. read = [chunks |-> s.chunks, hash |-> [s.hash EXCEPT ![p] = e]]
  <2>1. read = [s EXCEPT !.hash = [s.hash EXCEPT ![p] = e]]
    BY Zenon
  <2> HIDE DEF read, e
  <2> QED BY <1>2, <2>1
<1>12. read.hash = [s.hash EXCEPT ![p] = e] /\ read = [chunks |-> s.chunks, hash |-> read.hash]
  <2> HIDE DEF read, e
  <2> QED BY <1>3
<1> HIDE DEF read
<1>4. /\ read.hash[p].n_children = s.hash[p].n_children - 1
      /\ read.hash[p].n_views = s.hash[p].n_views
      /\ read.hash[p].allocated = s.hash[p].allocated
      /\ read.hash[p].addr = s.hash[p].addr
      /\ \A u \in Tensors : u # p => read.hash[u] = s.hash[u]
  <2>1. /\ e.n_children = s.hash[p].n_children - 1 /\ e.n_views = s.hash[p].n_views
        /\ e.allocated = s.hash[p].allocated /\ e.addr = s.hash[p].addr
    BY <1>2 DEF HashType
  <2>2. read.hash = [s.hash EXCEPT ![p] = e]
    BY <1>12
  <2> HIDE DEF e
  <2>3. read.hash[p] = e /\ \A u \in Tensors : u # p => read.hash[u] = s.hash[u]
    BY <1>2, <2>2
  <2> QED BY <2>1, <2>3
<1>5. /\ DOMAIN read.hash = Tensors
      /\ \A u \in Tensors : DOMAIN read.hash[u] = {"n_children", "n_views", "allocated", "addr"}
  <2>1. \A u \in Tensors : DOMAIN s.hash[u] = {"n_children", "n_views", "allocated", "addr"}
    BY <1>2 DEF HashType
  <2>2. DOMAIN read.hash = Tensors
    <3> HIDE DEF e
    <3> QED BY <1>2, <1>12
  <2>3. DOMAIN read.hash[p] = DOMAIN s.hash[p]
    <3>1. DOMAIN e = DOMAIN s.hash[p]
      OBVIOUS
    <3> HIDE DEF e
    <3> QED BY <1>2, <1>12, <3>1
  <2> QED BY <1>4, <2>1, <2>2, <2>3
<1> HIDE DEF e
<1>6. /\ DOMAIN seen.hash = Tensors
      /\ \A u \in Tensors : /\ seen.hash[u].n_children = read.hash[u].n_children
                            /\ seen.hash[u].allocated = read.hash[u].allocated
                            /\ seen.hash[u].addr = read.hash[u].addr
                            /\ "allocated" \in DOMAIN seen.hash[u]
      /\ \A u \in Tensors :
             \/ seen.hash[u].n_views = read.hash[u].n_views
             \/ /\ IsView(p) /\ u = g.view[p] /\ read.hash[p].n_children = 0
                /\ seen.hash[u].n_views = read.hash[u].n_views - 1
  <2>1. CASE Unused(read, p) /\ IsView(p)
    <3> DEFINE v == g.view[p]
               f == [read.hash[v] EXCEPT !.n_views = @ - 1]
    <3>1. v \in Tensors
      BY <2>1, ViewIs
    <3>2. seen.hash = [read.hash EXCEPT ![v] = f]
      <4>1. seen = [read EXCEPT !.hash[v].n_views = @ - 1]
        BY <2>1
      <4> QED BY <1>12, <4>1
    <3>3. /\ f.n_children = read.hash[v].n_children /\ f.allocated = read.hash[v].allocated
          /\ f.addr = read.hash[v].addr /\ f.n_views = read.hash[v].n_views - 1
          /\ "allocated" \in DOMAIN f
      <4>1. DOMAIN read.hash[v] = {"n_children", "n_views", "allocated", "addr"}
        BY <1>5, <3>1
      <4> QED BY <4>1
    <3> HIDE DEF f, seen
    <3>4. /\ DOMAIN seen.hash = Tensors /\ seen.hash[v] = f
          /\ \A u \in Tensors : u # v => seen.hash[u] = read.hash[u]
      BY <1>5, <3>1, <3>2
    <3>5. read.hash[p].n_children = 0
      BY <2>1 DEF Unused
    <3> QED BY <1>5, <2>1, <3>3, <3>4, <3>5
  <2>2. CASE ~(Unused(read, p) /\ IsView(p))
    <3>1. seen = read
      BY <2>2
    <3> QED BY <1>5, <3>1
  <2> QED BY <2>1, <2>2
<1> HIDE DEF seen
<1>7. /\ \A u \in Tensors : seen.hash[u].addr = s.hash[u].addr
      /\ \A u \in Tensors : seen.hash[u].n_children
                = IF u = p THEN s.hash[p].n_children - 1 ELSE s.hash[u].n_children
      /\ \A u \in Tensors : seen.hash[u].allocated = s.hash[u].allocated
      /\ \A u \in Tensors : read.hash[u].n_views = s.hash[u].n_views
  BY <1>4, <1>6
<1>8. \A u \in Tensors :
         \/ seen.hash[u].n_views = s.hash[u].n_views
         \/ /\ IsView(p) /\ u = g.view[p] /\ seen.hash[p].n_children = 0
            /\ seen.hash[u].n_views = s.hash[u].n_views - 1
  BY <1>6, <1>7
<1>9. CASE Unused(read, p) /\ Unused(seen, w) /\ is_own(seen, w) /\ w \notin g.output
  <2> DEFINE f == [seen.hash[w] EXCEPT !.allocated = FALSE]
  <2>1. r.hash = [seen.hash EXCEPT ![w] = f]
    BY <1>1, <1>9 DEF free_node
  <2>2. /\ ~f.allocated /\ f.n_children = seen.hash[w].n_children
        /\ f.n_views = seen.hash[w].n_views /\ f.addr = seen.hash[w].addr
    BY <1>2, <1>6
  <2> HIDE DEF f, r
  <2>3. r.hash[w] = f /\ \A u \in Tensors : u # w => r.hash[u] = seen.hash[u]
    BY <1>2, <1>6, <2>1
  <2>4. f.n_children = 0 /\ f.n_views = 0
    BY <1>9, <2>2 DEF Unused
  <2>5. \A u \in Tensors : /\ r.hash[u].n_children = seen.hash[u].n_children
                           /\ r.hash[u].n_views = seen.hash[u].n_views
                           /\ r.hash[u].addr = seen.hash[u].addr
    BY <2>2, <2>3
  <2>6. \A u \in Tensors :
           \/ r.hash[u].allocated = seen.hash[u].allocated
           \/ /\ ~r.hash[u].allocated /\ u \notin g.output
              /\ r.hash[u].n_children = 0 /\ r.hash[u].n_views = 0
    BY <1>9, <2>2, <2>3, <2>4
  <2>7. Lets(s, p, r)
    BY <1>7, <1>8, <2>5, <2>6 DEF Lets
  <2> QED BY <2>7 DEF r
<1>10. CASE ~(Unused(read, p) /\ Unused(seen, w) /\ is_own(seen, w) /\ w \notin g.output)
  <2>1. r = seen
    BY <1>1, <1>10 DEF free_node
  <2> HIDE DEF r
  <2>2. Lets(s, p, r)
    BY <1>7, <1>8, <2>1 DEF Lets
  <2> QED BY <2>2 DEF r
<1> QED BY <1>9, <1>10

LEMMA OneLess == \A a, b, c \in Int : a >= b /\ c <= b - 1 => a - 1 >= c
OBVIOUS

\* Node k lets go of its source j.
LEMMA UpdateParentAlive ==
    ASSUME Setting, NEW s, Sound(s), NEW k \in DOMAIN g.nodes, NEW t, t = g.nodes[k],
           NEW j \in 1 .. Len(g.src[t]), NEW p, p = g.src[t][j],
           Alive(s, k + 1), Counted(s, k, j - 1)
    PROVE  Alive(update_parent(s, p), k + 1) /\ Counted(update_parent(s, p), k, j)
<1> DEFINE r == update_parent(s, p)
<1>1. t \in Tensors /\ k \in Nat \ {0}
  BY GraphIs
<1>2. p \in Tensors /\ j \in Nat
  <2>1. g.src[t] \in Seq(Tensors)
    BY <1>1, GraphIs
  <2> QED BY <2>1
<1>3. Lets(s, p, r)
  BY <1>2, UpdateParentLets
<1> HIDE DEF r
<1>4. /\ <<t, j>> \in Uses(p, k, j - 1)
      /\ Uses(p, k, j) = Uses(p, k, j - 1) \ {<<t, j>>}
      /\ \A q : q # p => Uses(q, k, j) = Uses(q, k, j - 1)
  BY UseDone
<1>5. Cardinality(Uses(p, k, j)) = Cardinality(Uses(p, k, j - 1)) - 1
  <2> DEFINE U == Uses(p, k, j - 1)
  <2>1. IsFiniteSet(U) /\ <<t, j>> \in U /\ Uses(p, k, j) = U \ {<<t, j>>}
    BY <1>1, <1>4, UsesFinite
  <2> HIDE DEF U
  <2>2. Cardinality(U \ {<<t, j>>}) = Cardinality(U) - 1
    BY <2>1, FS_RemoveElement
  <2> QED BY <2>1, <2>2 DEF U
<1>6. ASSUME NEW u \in Tensors
      PROVE  r.hash[u].n_children = Cardinality(Uses(u, k, j))
  <2>1. s.hash[u].n_children = Cardinality(Uses(u, k, j - 1))
    BY DEF Counted
  <2>2. r.hash[u].n_children
            = IF u = p THEN s.hash[p].n_children - 1 ELSE s.hash[u].n_children
    BY <1>3 DEF Lets
  <2> QED BY <1>4, <1>5, <2>1, <2>2
<1>7. ASSUME NEW u \in Tensors
      PROVE  r.hash[u].n_views >= Cardinality(ViewsUsed(u, k, j))
  <2>1. s.hash[u].n_views >= Cardinality(ViewsUsed(u, k, j - 1)) /\ s.hash[u].n_views \in Int
    BY SoundIs DEF Counted
  <2>2. ViewsUsed(u, k, j) \subseteq ViewsUsed(u, k, j - 1)
    BY <1>4 DEF ViewsUsed
  <2>3. /\ IsFiniteSet(ViewsUsed(u, k, j - 1)) /\ IsFiniteSet(ViewsUsed(u, k, j))
        /\ Cardinality(ViewsUsed(u, k, j - 1)) \in Nat /\ Cardinality(ViewsUsed(u, k, j)) \in Nat
    BY <1>1, UsesFinite
  <2>4. CASE r.hash[u].n_views = s.hash[u].n_views
    <3>1. Cardinality(ViewsUsed(u, k, j)) <= Cardinality(ViewsUsed(u, k, j - 1))
      BY <2>2, <2>3, FS_Subset
    <3> QED BY <2>1, <2>3, <2>4, <3>1
  <2>5. CASE r.hash[u].n_views # s.hash[u].n_views
    <3>1. /\ IsView(p) /\ u = g.view[p] /\ r.hash[p].n_children = 0
          /\ r.hash[u].n_views = s.hash[u].n_views - 1
      BY <1>3, <2>5 DEF Lets
    <3>2. Uses(p, k, j) = {}
      <4>1. Cardinality(Uses(p, k, j)) = 0
        BY <1>2, <1>6, <3>1
      <4> QED BY <1>1, <4>1, UsesFinite, FS_EmptySet
    <3>3. p \in Nodes
      <4>1. p \notin ToSet(g.leafs)
        BY <3>1, OrderIs DEF IsView
      <4> QED BY <1>2, <4>1, GraphIs DEF Nodes
    <3>4. p \in ViewsUsed(u, k, j - 1) /\ p \notin ViewsUsed(u, k, j)
      BY <1>4, <3>1, <3>2, <3>3 DEF ViewsUsed
    <3>5. ViewsUsed(u, k, j) \subseteq ViewsUsed(u, k, j - 1) \ {p}
      BY <2>2, <3>4
    <3> DEFINE W == ViewsUsed(u, k, j - 1)
    <3>6. IsFiniteSet(W \ {p}) /\ Cardinality(W \ {p}) = Cardinality(W) - 1
      BY <2>3, <3>4, FS_RemoveElement
    <3>7. Cardinality(ViewsUsed(u, k, j)) <= Cardinality(W \ {p})
      BY <3>5, <3>6, FS_Subset
    <3>8. Cardinality(ViewsUsed(u, k, j)) <= Cardinality(W) - 1
      BY <3>6, <3>7
    <3>9. s.hash[u].n_views >= Cardinality(W)
      BY <2>1
    <3> HIDE DEF W
    <3>10. Cardinality(W) \in Int
      BY <2>3 DEF W
    <3>11. s.hash[u].n_views \in Int /\ Cardinality(ViewsUsed(u, k, j)) \in Int
      BY <2>1, <2>3
    <3>12. s.hash[u].n_views - 1 >= Cardinality(ViewsUsed(u, k, j))
      BY <3>8, <3>9, <3>10, <3>11, OneLess
    <3> QED BY <3>1, <3>12
  <2> QED BY <2>4, <2>5
<1>8. Counted(r, k, j)
  BY <1>6, <1>7 DEF Counted
<1>9. \A u \in Tensors : r.hash[u].addr = s.hash[u].addr /\ (Placed(r, u) <=> Placed(s, u))
  BY <1>3 DEF Lets, Placed
<1>10. ASSUME NEW u \in Tensors, Placed(r, u), ~r.hash[u].allocated PROVE Dead(u, k + 1)
  <2>1. CASE r.hash[u].allocated = s.hash[u].allocated
    BY <1>9, <1>10, <2>1 DEF Alive
  <2>2. CASE r.hash[u].allocated # s.hash[u].allocated
    <3>1. u \notin g.output /\ r.hash[u].n_children = 0 /\ r.hash[u].n_views = 0
      BY <1>3, <2>2 DEF Lets
    <3>2. Cardinality(Uses(u, k, j)) = 0
      BY <1>6, <3>1
    <3>3. Cardinality(ViewsUsed(u, k, j)) = 0
      <4>1. 0 >= Cardinality(ViewsUsed(u, k, j)) /\ Cardinality(ViewsUsed(u, k, j)) \in Nat
        BY <1>1, <1>7, <3>1, UsesFinite
      <4> QED BY <4>1
    <3>4. Uses(u, k, j) = {} /\ ViewsUsed(u, k, j) = {}
      <4>1. IsFiniteSet(Uses(u, k, j)) /\ IsFiniteSet(ViewsUsed(u, k, j))
        BY <1>1, UsesFinite
      <4> QED BY <3>2, <3>3, <4>1, FS_EmptySet
    <3>5. \A m \in DOMAIN g.nodes : m > k => ~ReadAt(u, m)
      BY <1>1, <1>2, <3>4, NotRead
    <3>6. \A m \in DOMAIN g.nodes : m \in Nat
      BY GraphIs
    <3>7. \A m \in DOMAIN g.nodes : m >= k + 1 => ~ReadAt(u, m)
      BY <1>1, <3>5, <3>6
    <3> QED BY <3>1, <3>7 DEF Dead
  <2> QED BY <2>1, <2>2
<1>11. Alive(r, k + 1)
  BY <1>9, <1>10 DEF Alive
<1> QED BY <1>8, <1>11 DEF r

\* A leaf takes over nothing.
LEMMA AllocateLeafFresh ==
    ASSUME Setting, NEW s, Sound(s), Fresh(s), NEW t \in ToSet(g.leafs)
    PROVE  Fresh(allocate_node(s, t))
<1> DEFINE r == allocate_node(s, t)
<1>1. t \in Tensors /\ t \notin g.inplace
  BY GraphIs, OrderIs DEF ToSet
<1>2. IF is_allocated(s, t) \/ IsView(t) THEN r = s ELSE ~s.hash[t].allocated /\ Gives(s, t, r)
  BY <1>1, AllocateNodeSound
<1> HIDE DEF r
<1>3. CASE r = s
  BY <1>3 DEF r
<1>4. CASE Gives(s, t, r)
  <2>1. \A u \in Tensors : u # t => r.hash[u].allocated = s.hash[u].allocated
    BY <1>1, <1>4 DEF Gives, CanReuse
  <2>2. \A u \in Tensors : u # t => (Placed(r, u) <=> Placed(s, u))
    BY <1>4 DEF Gives, Placed
  <2>3. \A u \in Tensors : Placed(r, u) => r.hash[u].allocated /\ u \in ToSet(g.leafs)
    BY <1>4, <2>1, <2>2 DEF Fresh, Gives
  <2>4. Fresh(r)
    BY <1>4, <2>3 DEF Fresh, Gives
  <2> QED BY <2>4 DEF r
<1> QED BY <1>2, <1>3, <1>4

LEMMA AllocateInputFresh ==
    ASSUME Setting, NEW s, Sound(s), Fresh(s), NEW t
    PROVE  Fresh(allocate_input(s, t))
BY OrderIs, AllocateLeafFresh DEF allocate_input

\* The walk begins: what has memory is allocated, and the counts are what there is.
LEMMA FreshAlive ==
    ASSUME Setting, NEW s, Sound(s), Fresh(s)
    PROVE  Alive(s, 1) /\ Counted(s, 1, 0)
<1>1. Counted(s, 1, 0)
  BY UsesAtFirst DEF Counted, Fresh
<1>2. \A t \in Tensors : Placed(s, t) => s.hash[t].allocated /\ t \in Past(1)
  BY DEF Fresh, Past
<1>3. ASSUME NEW t \in Tensors, NEW u \in Tensors, Placed(s, t), Placed(s, u)
      PROVE  InTurn(t, s.hash[t].addr, Room(t), u, s.hash[u].addr, Room(u))
  BY <1>2, <1>3, HeldApart DEF InTurn
<1>4. Alive(s, 1)
  BY <1>2, <1>3 DEF Alive
<1> QED BY <1>1, <1>4

-----------------------------------------------------------------------------
(* The loops.                                                              *)

\* F[k] is what step k of a loop does, and it goes from X[k - 1] to X[k].
Steps(n, X, F) == \A k \in 1 .. n : \A x \in X[k - 1] : F[k][x] \in X[k]

\* f[k] is the state behind k steps of a loop that begins in s.
Loop(n, F, s, f) == f = [k \in 0 .. n |-> IF k = 0 THEN s ELSE F[k][f[k - 1]]]

\* A loop whose steps keep to the sets X has a result, in the last of them.
LEMMA LoopExists ==
    ASSUME NEW n \in Nat, NEW X, NEW F, NEW s, s \in X[0], Steps(n, X, F)
    PROVE  \E f : Loop(n, F, s, f) /\ \A k \in 0 .. n : f[k] \in X[k]
<1> DEFINE A == {m \in 0 .. n :
                    \E f : /\ f = [k \in 0 .. m |-> IF k = 0 THEN s ELSE F[k][f[k - 1]]]
                           /\ \A k \in 0 .. m : f[k] \in X[k]}
<1>1. 0 \in A
  <2> DEFINE f == [k \in 0 .. 0 |-> s]
  <2>1. f = [k \in 0 .. 0 |-> IF k = 0 THEN s ELSE F[k][f[k - 1]]]
    OBVIOUS
  <2>2. \A k \in 0 .. 0 : f[k] \in X[k]
    OBVIOUS
  <2> HIDE DEF f
  <2> QED BY <2>1, <2>2
<1>2. ASSUME NEW m \in 1 .. n, m - 1 \in A PROVE m \in A
  <2>1. PICK f : /\ f = [k \in 0 .. m - 1 |-> IF k = 0 THEN s ELSE F[k][f[k - 1]]]
                 /\ \A k \in 0 .. m - 1 : f[k] \in X[k]
    BY <1>2
  <2> DEFINE h == [k \in 0 .. m |-> IF k = m THEN F[m][f[m - 1]] ELSE f[k]]
  <2>2. \A k \in 0 .. m : k = m \/ k \in 0 .. m - 1
    OBVIOUS
  <2>3. \A k \in 0 .. m - 1 : h[k] = f[k]
    OBVIOUS
  <2>4. h[m] = F[m][f[m - 1]] /\ m # 0 /\ m - 1 \in 0 .. m - 1
    OBVIOUS
  <2>5. DOMAIN h = 0 .. m /\ h = [k \in 0 .. m |-> h[k]]
    OBVIOUS
  <2> HIDE DEF h
  <2>6. ASSUME NEW k \in 0 .. m
        PROVE  h[k] = (IF k = 0 THEN s ELSE F[k][h[k - 1]]) /\ h[k] \in X[k]
    <3>1. CASE k = m
      <4>1. h[m - 1] = f[m - 1] /\ f[m - 1] \in X[m - 1]
        BY <2>1, <2>3, <2>4
      <4> QED BY <2>4, <3>1, <4>1 DEF Steps
    <3>2. CASE k \in 0 .. m - 1
      <4>1. f[k] = IF k = 0 THEN s ELSE F[k][f[k - 1]]
        BY <2>1, <3>2
      <4>2. k # 0 => k - 1 \in 0 .. m - 1
        BY <3>2
      <4> QED BY <2>1, <2>3, <3>2, <4>1, <4>2
    <3> QED BY <2>2, <3>1, <3>2
  <2>7. h = [k \in 0 .. m |-> IF k = 0 THEN s ELSE F[k][h[k - 1]]]
    BY <2>5, <2>6
  <2> QED BY <2>6, <2>7
<1>3. 0 .. n \subseteq A
  <2> HIDE DEF A
  <2> QED BY <1>1, <1>2, UpTo
<1>4. n \in A
  BY <1>3
<1> QED BY <1>4 DEF Loop

\* The tensors of a list that need an address have one behind the loop.
LEMMA AllocateAllSound ==
    ASSUME Setting, NEW s, Sound(s), NEW ts \in Seq(Tensors), NEW Y, s \in Y[0],
           \A k \in 1 .. Len(ts) : \A x \in Y[k - 1] : Sound(x) => allocate_node(x, ts[k]) \in Y[k]
    PROVE  LET r == ForEach(allocate_node, s, ts)
           IN  /\ Sound(r) /\ Keeps(s, r) /\ r \in Y[Len(ts)]
               /\ \A k \in DOMAIN ts : ts[k] \in Planned => Placed(r, ts[k])
<1> DEFINE n == Len(ts)
           X == [k \in 0 .. n |-> {x \in StateType : /\ Sound(x) /\ Keeps(s, x) /\ x \in Y[k]
                                               /\ \A j \in 1 .. k : ts[j] \in Planned => Placed(x, ts[j])}]
           F == [k \in 1 .. n |-> [x \in X[k - 1] |-> allocate_node(x, ts[k])]]
           after[k \in 0 .. n] == IF k = 0 THEN s ELSE allocate_node(after[k - 1], ts[k])
<1>1. n \in Nat /\ DOMAIN ts = 1 .. n /\ \A k \in 1 .. n : ts[k] \in Tensors
  OBVIOUS
<1>2. s \in X[0]
  BY <1>1 DEF Sound, Keeps
<1>3. ASSUME NEW k \in 1 .. n, NEW x \in X[k - 1] PROVE allocate_node(x, ts[k]) \in X[k]
  <2> DEFINE r == allocate_node(x, ts[k])
  <2>1. Sound(x) /\ Keeps(s, x) /\ x \in Y[k - 1]
        /\ \A j \in 1 .. k - 1 : ts[j] \in Planned => Placed(x, ts[j])
    BY <1>1
  <2>2. Sound(r) /\ Keeps(x, r) /\ (ts[k] \in Planned => Placed(r, ts[k]))
    BY <1>1, <2>1, AllocateNodeSound
  <2>5. r \in Y[k]
    BY <2>1
  <2> HIDE DEF r
  <2>3. r \in StateType /\ Keeps(s, r)
    BY <2>1, <2>2 DEF Sound, Keeps
  <2>4. ASSUME NEW j \in 1 .. k, ts[j] \in Planned PROVE Placed(r, ts[j])
    <3>1. j \in 1 .. k - 1 \/ j = k
      BY <1>1
    <3>2. ts[j] \in Tensors
      BY <1>1
    <3> QED BY <2>1, <2>2, <2>4, <3>1, <3>2 DEF Keeps
  <2> QED BY <1>1, <2>5, <2>2, <2>3, <2>4 DEF r
<1> HIDE DEF X, n
<1>4. ASSUME NEW k \in 1 .. n, NEW x \in X[k - 1] PROVE F[k][x] = allocate_node(x, ts[k])
  OBVIOUS
<1>5. Steps(n, X, F)
  BY <1>3, <1>4 DEF Steps
<1> HIDE DEF F
<1>6. PICK f : Loop(n, F, s, f) /\ \A k \in 0 .. n : f[k] \in X[k]
  BY <1>1, <1>2, <1>5, LoopExists
<1>7. f = [k \in 0 .. n |-> IF k = 0 THEN s ELSE allocate_node(f[k - 1], ts[k])]
  <2>1. ASSUME NEW k \in 0 .. n
        PROVE  (IF k = 0 THEN s ELSE F[k][f[k - 1]])
                   = IF k = 0 THEN s ELSE allocate_node(f[k - 1], ts[k])
    <3>1. CASE k # 0
      <4>1. k \in 1 .. n /\ k - 1 \in 0 .. n
        BY <1>1, <3>1
      <4> QED BY <1>4, <1>6, <3>1, <4>1
    <3> QED BY <3>1
  <2> QED BY <1>6, <2>1 DEF Loop
<1>8. after = [k \in 0 .. n |-> IF k = 0 THEN s ELSE allocate_node(after[k - 1], ts[k])]
  BY <1>7
<1>9. ForEach(allocate_node, s, ts) = after[n]
  BY DEF ForEach, n
<1> HIDE DEF after
<1>10. 0 .. n \subseteq {k \in 0 .. n : after[k] \in X[k]}
  <2> DEFINE A == {k \in 0 .. n : after[k] \in X[k]}
  <2>1. 0 \in A
    BY <1>1, <1>2, <1>8
  <2>2. ASSUME NEW k \in 1 .. n, k - 1 \in A PROVE k \in A
    <3>1. k \in 0 .. n /\ k # 0
      BY <1>1
    <3>2. after[k] = allocate_node(after[k - 1], ts[k])
      BY <1>8, <3>1
    <3>3. after[k - 1] \in X[k - 1]
      BY <2>2
    <3> QED BY <1>3, <3>1, <3>2, <3>3
  <2> HIDE DEF A
  <2>3. 0 .. n \subseteq A
    BY <1>1, <2>1, <2>2, UpTo
  <2> QED BY <2>3 DEF A
<1>11. after[n] \in X[n]
  BY <1>1, <1>10
<1> QED BY <1>1, <1>9, <1>11 DEF X

\* The inputs among the tensors of a list.
LEMMA AllocateInputAllSound ==
    ASSUME Setting, NEW s, Sound(s), NEW ts \in Seq(Tensors), NEW Y, s \in Y[0],
           \A k \in 1 .. Len(ts) : \A x \in Y[k - 1] : Sound(x) => allocate_input(x, ts[k]) \in Y[k]
    PROVE  LET r == ForEach(allocate_input, s, ts)
           IN  Sound(r) /\ Keeps(s, r) /\ r \in Y[Len(ts)]
<1> DEFINE n == Len(ts)
           X == [k \in 0 .. n |-> {x \in StateType : Sound(x) /\ Keeps(s, x) /\ x \in Y[k]}]
           F == [k \in 1 .. n |-> [x \in X[k - 1] |-> allocate_input(x, ts[k])]]
           after[k \in 0 .. n] == IF k = 0 THEN s ELSE allocate_input(after[k - 1], ts[k])
<1>1. n \in Nat /\ DOMAIN ts = 1 .. n /\ \A k \in 1 .. n : ts[k] \in Tensors
  OBVIOUS
<1>2. s \in X[0]
  BY <1>1 DEF Sound, Keeps
<1>3. ASSUME NEW k \in 1 .. n, NEW x \in X[k - 1] PROVE allocate_input(x, ts[k]) \in X[k]
  <2> DEFINE r == allocate_input(x, ts[k])
  <2>1. Sound(x) /\ Keeps(s, x) /\ x \in Y[k - 1]
    BY <1>1
  <2>2. Sound(r) /\ Keeps(x, r)
    BY <1>1, <2>1, AllocateInputSound
  <2>5. r \in Y[k]
    BY <2>1
  <2> HIDE DEF r
  <2>3. r \in StateType /\ Keeps(s, r)
    BY <2>1, <2>2 DEF Sound, Keeps
  <2> QED BY <1>1, <2>5, <2>2, <2>3 DEF r
<1> HIDE DEF X, n
<1>4. ASSUME NEW k \in 1 .. n, NEW x \in X[k - 1] PROVE F[k][x] = allocate_input(x, ts[k])
  OBVIOUS
<1>5. Steps(n, X, F)
  BY <1>3, <1>4 DEF Steps
<1> HIDE DEF F
<1>6. PICK f : Loop(n, F, s, f) /\ \A k \in 0 .. n : f[k] \in X[k]
  BY <1>1, <1>2, <1>5, LoopExists
<1>7. f = [k \in 0 .. n |-> IF k = 0 THEN s ELSE allocate_input(f[k - 1], ts[k])]
  <2>1. ASSUME NEW k \in 0 .. n
        PROVE  (IF k = 0 THEN s ELSE F[k][f[k - 1]])
                   = IF k = 0 THEN s ELSE allocate_input(f[k - 1], ts[k])
    <3>1. CASE k # 0
      <4>1. k \in 1 .. n /\ k - 1 \in 0 .. n
        BY <1>1, <3>1
      <4> QED BY <1>4, <1>6, <3>1, <4>1
    <3> QED BY <3>1
  <2> QED BY <1>6, <2>1 DEF Loop
<1>8. after = [k \in 0 .. n |-> IF k = 0 THEN s ELSE allocate_input(after[k - 1], ts[k])]
  BY <1>7
<1>9. ForEach(allocate_input, s, ts) = after[n]
  BY DEF ForEach, n
<1> HIDE DEF after
<1>10. 0 .. n \subseteq {k \in 0 .. n : after[k] \in X[k]}
  <2> DEFINE A == {k \in 0 .. n : after[k] \in X[k]}
  <2>1. 0 \in A
    BY <1>1, <1>2, <1>8
  <2>2. ASSUME NEW k \in 1 .. n, k - 1 \in A PROVE k \in A
    <3>1. k \in 0 .. n /\ k # 0
      BY <1>1
    <3>2. after[k] = allocate_input(after[k - 1], ts[k])
      BY <1>8, <3>1
    <3>3. after[k - 1] \in X[k - 1]
      BY <2>2
    <3> QED BY <1>3, <3>1, <3>2, <3>3
  <2> HIDE DEF A
  <2>3. 0 .. n \subseteq A
    BY <1>1, <2>1, <2>2, UpTo
  <2> QED BY <2>3 DEF A
<1>11. after[n] \in X[n]
  BY <1>1, <1>10
<1> QED BY <1>1, <1>9, <1>11 DEF X

LEMMA AllocateInputsSound ==
    ASSUME Setting, NEW s, Sound(s), NEW t \in Tensors
    PROVE  /\ Sound(allocate_inputs(s, t)) /\ Keeps(s, allocate_inputs(s, t))
           /\ Fresh(s) => Fresh(allocate_inputs(s, t))
<1> DEFINE ts == <<t>> \o g.src[t]
           F == {x \in StateType : Fresh(s) => Fresh(x)}
           Y == [k \in 0 .. Len(ts) |-> F]
<1>1. ts \in Seq(Tensors) /\ Len(ts) \in Nat
  <2>1. g.src[t] \in Seq(Tensors)
    BY GraphIs
  <2> QED BY <2>1
<1>2. s \in F
  BY DEF Sound
<1>3. allocate_inputs(s, t) = ForEach(allocate_input, s, ts)
  BY DEF allocate_inputs
<1> HIDE DEF ts
<1>4. ASSUME NEW k \in 1 .. Len(ts), NEW x \in F, Sound(x)
      PROVE  allocate_input(x, ts[k]) \in F
  <2>1. ts[k] \in Tensors
    BY <1>1
  <2>2. allocate_input(x, ts[k]) \in StateType
    BY <1>4, <2>1, AllocateInputSound DEF Sound
  <2> QED BY <1>4, <2>2, AllocateInputFresh
<1> HIDE DEF F
<1>5. \A k \in 1 .. Len(ts) : k - 1 \in 0 .. Len(ts) /\ k \in 0 .. Len(ts)
  BY <1>1
<1>6. /\ s \in Y[0] /\ Y[Len(ts)] = F
      /\ \A k \in 1 .. Len(ts) : \A x \in Y[k - 1] : Sound(x) => allocate_input(x, ts[k]) \in Y[k]
  BY <1>1, <1>2, <1>4, <1>5
<1> HIDE DEF Y
<1>7. LET r == ForEach(allocate_input, s, ts) IN Sound(r) /\ Keeps(s, r) /\ r \in F
  BY <1>1, <1>6, AllocateInputAllSound
<1> QED BY <1>3, <1>7 DEF F

\* The inputs among the nodes and their sources.
LEMMA AllocateInputsAllSound ==
    ASSUME Setting, NEW s, Sound(s), NEW ts \in Seq(Tensors), NEW Y, s \in Y[0],
           \A k \in 1 .. Len(ts) : \A x \in Y[k - 1] : Sound(x) => allocate_inputs(x, ts[k]) \in Y[k]
    PROVE  LET r == ForEach(allocate_inputs, s, ts)
           IN  Sound(r) /\ Keeps(s, r) /\ r \in Y[Len(ts)]
<1> DEFINE n == Len(ts)
           X == [k \in 0 .. n |-> {x \in StateType : Sound(x) /\ Keeps(s, x) /\ x \in Y[k]}]
           F == [k \in 1 .. n |-> [x \in X[k - 1] |-> allocate_inputs(x, ts[k])]]
           after[k \in 0 .. n] == IF k = 0 THEN s ELSE allocate_inputs(after[k - 1], ts[k])
<1>1. n \in Nat /\ DOMAIN ts = 1 .. n /\ \A k \in 1 .. n : ts[k] \in Tensors
  OBVIOUS
<1>2. s \in X[0]
  BY <1>1 DEF Sound, Keeps
<1>3. ASSUME NEW k \in 1 .. n, NEW x \in X[k - 1] PROVE allocate_inputs(x, ts[k]) \in X[k]
  <2> DEFINE r == allocate_inputs(x, ts[k])
  <2>1. Sound(x) /\ Keeps(s, x) /\ x \in Y[k - 1]
    BY <1>1
  <2>2. Sound(r) /\ Keeps(x, r)
    BY <1>1, <2>1, AllocateInputsSound
  <2>5. r \in Y[k]
    BY <2>1
  <2> HIDE DEF r
  <2>3. r \in StateType /\ Keeps(s, r)
    BY <2>1, <2>2 DEF Sound, Keeps
  <2> QED BY <1>1, <2>5, <2>2, <2>3 DEF r
<1> HIDE DEF X, n
<1>4. ASSUME NEW k \in 1 .. n, NEW x \in X[k - 1] PROVE F[k][x] = allocate_inputs(x, ts[k])
  OBVIOUS
<1>5. Steps(n, X, F)
  BY <1>3, <1>4 DEF Steps
<1> HIDE DEF F
<1>6. PICK f : Loop(n, F, s, f) /\ \A k \in 0 .. n : f[k] \in X[k]
  BY <1>1, <1>2, <1>5, LoopExists
<1>7. f = [k \in 0 .. n |-> IF k = 0 THEN s ELSE allocate_inputs(f[k - 1], ts[k])]
  <2>1. ASSUME NEW k \in 0 .. n
        PROVE  (IF k = 0 THEN s ELSE F[k][f[k - 1]])
                   = IF k = 0 THEN s ELSE allocate_inputs(f[k - 1], ts[k])
    <3>1. CASE k # 0
      <4>1. k \in 1 .. n /\ k - 1 \in 0 .. n
        BY <1>1, <3>1
      <4> QED BY <1>4, <1>6, <3>1, <4>1
    <3> QED BY <3>1
  <2> QED BY <1>6, <2>1 DEF Loop
<1>8. after = [k \in 0 .. n |-> IF k = 0 THEN s ELSE allocate_inputs(after[k - 1], ts[k])]
  BY <1>7
<1>9. ForEach(allocate_inputs, s, ts) = after[n]
  BY DEF ForEach, n
<1> HIDE DEF after
<1>10. 0 .. n \subseteq {k \in 0 .. n : after[k] \in X[k]}
  <2> DEFINE A == {k \in 0 .. n : after[k] \in X[k]}
  <2>1. 0 \in A
    BY <1>1, <1>2, <1>8
  <2>2. ASSUME NEW k \in 1 .. n, k - 1 \in A PROVE k \in A
    <3>1. k \in 0 .. n /\ k # 0
      BY <1>1
    <3>2. after[k] = allocate_inputs(after[k - 1], ts[k])
      BY <1>8, <3>1
    <3>3. after[k - 1] \in X[k - 1]
      BY <2>2
    <3> QED BY <1>3, <3>1, <3>2, <3>3
  <2> HIDE DEF A
  <2>3. 0 .. n \subseteq A
    BY <1>1, <2>1, <2>2, UpTo
  <2> QED BY <2>3 DEF A
<1>11. after[n] \in X[n]
  BY <1>1, <1>10
<1> QED BY <1>1, <1>9, <1>11 DEF X

\* The sources of a node are let go.
LEMMA UpdateParentAllSound ==
    ASSUME Setting, NEW s, Sound(s), NEW ts \in Seq(Tensors), NEW Y, s \in Y[0],
           \A k \in 1 .. Len(ts) : \A x \in Y[k - 1] : Sound(x) => update_parent(x, ts[k]) \in Y[k]
    PROVE  LET r == ForEach(update_parent, s, ts)
           IN  Sound(r) /\ Keeps(s, r) /\ r \in Y[Len(ts)]
<1> DEFINE n == Len(ts)
           X == [k \in 0 .. n |-> {x \in StateType : Sound(x) /\ Keeps(s, x) /\ x \in Y[k]}]
           F == [k \in 1 .. n |-> [x \in X[k - 1] |-> update_parent(x, ts[k])]]
           after[k \in 0 .. n] == IF k = 0 THEN s ELSE update_parent(after[k - 1], ts[k])
<1>1. n \in Nat /\ DOMAIN ts = 1 .. n /\ \A k \in 1 .. n : ts[k] \in Tensors
  OBVIOUS
<1>2. s \in X[0]
  BY <1>1 DEF Sound, Keeps
<1>3. ASSUME NEW k \in 1 .. n, NEW x \in X[k - 1] PROVE update_parent(x, ts[k]) \in X[k]
  <2> DEFINE r == update_parent(x, ts[k])
  <2>1. Sound(x) /\ Keeps(s, x) /\ x \in Y[k - 1]
    BY <1>1
  <2>2. Sound(r) /\ Keeps(x, r)
    BY <1>1, <2>1, UpdateParentSound
  <2>5. r \in Y[k]
    BY <2>1
  <2> HIDE DEF r
  <2>3. r \in StateType /\ Keeps(s, r)
    BY <2>1, <2>2 DEF Sound, Keeps
  <2> QED BY <1>1, <2>5, <2>2, <2>3 DEF r
<1> HIDE DEF X, n
<1>4. ASSUME NEW k \in 1 .. n, NEW x \in X[k - 1] PROVE F[k][x] = update_parent(x, ts[k])
  OBVIOUS
<1>5. Steps(n, X, F)
  BY <1>3, <1>4 DEF Steps
<1> HIDE DEF F
<1>6. PICK f : Loop(n, F, s, f) /\ \A k \in 0 .. n : f[k] \in X[k]
  BY <1>1, <1>2, <1>5, LoopExists
<1>7. f = [k \in 0 .. n |-> IF k = 0 THEN s ELSE update_parent(f[k - 1], ts[k])]
  <2>1. ASSUME NEW k \in 0 .. n
        PROVE  (IF k = 0 THEN s ELSE F[k][f[k - 1]])
                   = IF k = 0 THEN s ELSE update_parent(f[k - 1], ts[k])
    <3>1. CASE k # 0
      <4>1. k \in 1 .. n /\ k - 1 \in 0 .. n
        BY <1>1, <3>1
      <4> QED BY <1>4, <1>6, <3>1, <4>1
    <3> QED BY <3>1
  <2> QED BY <1>6, <2>1 DEF Loop
<1>8. after = [k \in 0 .. n |-> IF k = 0 THEN s ELSE update_parent(after[k - 1], ts[k])]
  BY <1>7
<1>9. ForEach(update_parent, s, ts) = after[n]
  BY DEF ForEach, n
<1> HIDE DEF after
<1>10. 0 .. n \subseteq {k \in 0 .. n : after[k] \in X[k]}
  <2> DEFINE A == {k \in 0 .. n : after[k] \in X[k]}
  <2>1. 0 \in A
    BY <1>1, <1>2, <1>8
  <2>2. ASSUME NEW k \in 1 .. n, k - 1 \in A PROVE k \in A
    <3>1. k \in 0 .. n /\ k # 0
      BY <1>1
    <3>2. after[k] = update_parent(after[k - 1], ts[k])
      BY <1>8, <3>1
    <3>3. after[k - 1] \in X[k - 1]
      BY <2>2
    <3> QED BY <1>3, <3>1, <3>2, <3>3
  <2> HIDE DEF A
  <2>3. 0 .. n \subseteq A
    BY <1>1, <2>1, <2>2, UpTo
  <2> QED BY <2>3 DEF A
<1>11. after[n] \in X[n]
  BY <1>1, <1>10
<1> QED BY <1>1, <1>9, <1>11 DEF X

\* Before a tensor has an address.
LEMMA UsesSound ==
    ASSUME Setting
    PROVE  Sound([chunks |-> <<>>, hash |-> CountUses])
<1> DEFINE s == [chunks |-> <<>>, hash |-> CountUses]
           C(t) == Cardinality({x \in Nodes \X (1 .. GGML_MAX_SRC) :
                                   x[2] \in DOMAIN g.src[x[1]] /\ g.src[x[1]][x[2]] = t})
           V(t) == Cardinality({v \in Nodes : g.view[v] = t})
<1>1. IsFiniteSet(Nodes) /\ IsFiniteSet(Nodes \X (1 .. GGML_MAX_SRC))
  BY NodesFinite
<1>3. \A t \in Tensors : C(t) \in Int /\ V(t) \in Int
  <2> SUFFICES ASSUME NEW t \in Tensors PROVE C(t) \in Int /\ V(t) \in Int
    OBVIOUS
  <2>1. IsFiniteSet({x \in Nodes \X (1 .. GGML_MAX_SRC) :
                       x[2] \in DOMAIN g.src[x[1]] /\ g.src[x[1]][x[2]] = t})
    BY <1>1, FS_Subset
  <2>2. IsFiniteSet({v \in Nodes : g.view[v] = t})
    BY <1>1, FS_Subset
  <2> QED BY <2>1, <2>2, FS_CardinalityType
<1> HIDE DEF C, V
<1>4. CountUses = [t \in Tensors |-> [NoHash EXCEPT !.n_children = C(t), !.n_views = V(t)]]
  BY DEF CountUses, C, V
<1>5. NoHash \in HashType /\ ~NoHash.allocated /\ NoHash.addr.chunk = 0
  BY DEF NoHash, NoAddr, HashType
<1>6. ASSUME NEW t \in Tensors
      PROVE  CountUses[t] \in HashType /\ ~CountUses[t].allocated /\ CountUses[t].addr.chunk = 0
  <2>1. CountUses[t] = [NoHash EXCEPT !.n_children = C(t), !.n_views = V(t)]
    BY <1>4
  <2>2. C(t) \in Int /\ V(t) \in Int
    BY <1>3
  <2> QED BY <1>5, <2>1, <2>2 DEF HashType
<1>7. CountUses \in [Tensors -> HashType]
  <2>1. CountUses = [t \in Tensors |-> CountUses[t]]
    BY <1>4
  <2> QED BY <1>6, <2>1
<1>8. s.chunks = <<>> /\ s.hash = CountUses /\ s \in StateType /\ DOMAIN s.chunks = {}
  <2>1. <<>> \in Seq(ChunkType) /\ DOMAIN <<>> = {}
    OBVIOUS
  <2> QED BY <1>7, <2>1 DEF StateType
<1> HIDE DEF s
<1>9. \A t \in Tensors : ~Placed(s, t) /\ ~s.hash[t].allocated
  BY <1>6, <1>8 DEF Placed
<1>10. Sound(s)
  BY <1>8, <1>9 DEF Sound
<1> QED BY <1>10 DEF s

LEMMA UsesFresh ==
    ASSUME Setting
    PROVE  Fresh([chunks |-> <<>>, hash |-> CountUses])
<1> DEFINE s == [chunks |-> <<>>, hash |-> CountUses]
<1>1. \A t \in Tensors : CountUses[t].addr.chunk = 0
  BY DEF CountUses, NoHash, NoAddr
<1>2. s.hash = CountUses
  OBVIOUS
<1> HIDE DEF s
<1>3. Fresh(s)
  BY <1>1, <1>2 DEF Fresh, Placed
<1> QED BY <1>3 DEF s

\* Behind the leafs and the inputs.
LEMMA BegunSound ==
    ASSUME Setting
    PROVE  /\ Sound(Begun) /\ Alive(Begun, 1) /\ Counted(Begun, 1, 0)
           /\ \A t \in Planned : t \in Past(1) => Placed(Begun, t)
<1> DEFINE s == [chunks |-> <<>>, hash |-> CountUses]
           u == ForEach(allocate_node, s, g.leafs)
           F == {x \in StateType : Fresh(x)}
           Y == [k \in Nat |-> F]
<1>1. g.leafs \in Seq(Tensors) /\ g.nodes \in Seq(Tensors)
  BY GraphIs
<1>2. Sound(s) /\ s \in F
  BY UsesSound, UsesFresh DEF Sound
<1> HIDE DEF s
<1>3. ASSUME NEW k \in 1 .. Len(g.leafs), NEW x \in F, Sound(x)
      PROVE  allocate_node(x, g.leafs[k]) \in F
  <2>1. g.leafs[k] \in ToSet(g.leafs) /\ g.leafs[k] \in Tensors
    BY <1>1 DEF ToSet
  <2>2. allocate_node(x, g.leafs[k]) \in StateType
    BY <1>3, <2>1, AllocateNodeSound DEF Sound
  <2> QED BY <1>3, <2>1, <2>2, AllocateLeafFresh
<1>4. ASSUME NEW k \in 1 .. Len(g.nodes), NEW x \in F, Sound(x)
      PROVE  allocate_inputs(x, g.nodes[k]) \in F
  <2>1. g.nodes[k] \in Tensors
    BY <1>1
  <2> QED BY <1>4, <2>1, AllocateInputsSound DEF Sound
<1> HIDE DEF F
<1>5. /\ s \in Y[0] /\ Y[Len(g.leafs)] = F /\ Y[Len(g.nodes)] = F /\ Y[0] = F
      /\ \A k \in 1 .. Len(g.leafs) : Y[k - 1] = F /\ Y[k] = F
      /\ \A k \in 1 .. Len(g.nodes) : Y[k - 1] = F /\ Y[k] = F
  <2>1. Len(g.leafs) \in Nat /\ Len(g.nodes) \in Nat
    BY <1>1
  <2> QED BY <1>2, <2>1
<1> HIDE DEF Y
<1>6. /\ Sound(u) /\ u \in F
      /\ \A k \in DOMAIN g.leafs : g.leafs[k] \in Planned => Placed(u, g.leafs[k])
  <2>1. \A k \in 1 .. Len(g.leafs) : \A x \in Y[k - 1] : Sound(x) => allocate_node(x, g.leafs[k]) \in Y[k]
    BY <1>3, <1>5
  <2> QED BY <1>1, <1>2, <1>5, <2>1, AllocateAllSound
<1>7. Begun = ForEach(allocate_inputs, u, g.nodes)
  BY DEF Begun, s
<1> HIDE DEF u
<1>8. Sound(Begun) /\ Keeps(u, Begun) /\ Begun \in F
  <2>1. \A k \in 1 .. Len(g.nodes) : \A x \in Y[k - 1] : Sound(x) => allocate_inputs(x, g.nodes[k]) \in Y[k]
    BY <1>4, <1>5
  <2> QED BY <1>1, <1>5, <1>6, <1>7, <2>1, AllocateInputsAllSound
<1>9. Alive(Begun, 1) /\ Counted(Begun, 1, 0)
  BY <1>8, FreshAlive DEF F
<1>10. Past(1) = ToSet(g.leafs)
  BY DEF Past
<1>11. ASSUME NEW t \in Planned, t \in Past(1) PROVE Placed(Begun, t)
  <2>1. PICK k \in DOMAIN g.leafs : g.leafs[k] = t
    BY <1>10, <1>11 DEF ToSet
  <2>2. t \in Tensors
    BY DEF Planned
  <2> QED BY <1>6, <1>8, <2>1, <2>2 DEF Keeps
<1> QED BY <1>8, <1>9, <1>11

\* What node k reads is still there.
LEMMA SourcesStay ==
    ASSUME Setting, NEW s, Sound(s), NEW k \in DOMAIN g.nodes, NEW p \in ToSet(g.src[g.nodes[k]]),
           Alive(s, k), \A q \in Planned : q \in Past(k) => Placed(s, q)
    PROVE  allocate_node(s, p) = s
<1>1. p \in Tensors /\ p \in Past(k)
  BY RootsPast
<1>2. k \in Nat
  BY GraphIs
<1>3. is_allocated(s, p) \/ IsView(p)
  <2> SUFFICES ASSUME p \notin g.external, ~s.hash[p].allocated, ~IsView(p)
               PROVE  FALSE
    BY DEF is_allocated, is_own
  <2>1. Placed(s, p)
    BY <1>1 DEF Planned
  <2>2. Dead(p, k)
    BY <1>1, <2>1 DEF Alive
  <2>3. ReadAt(p, k)
    BY DEF ReadAt, Root
  <2> QED BY <1>2, <2>2, <2>3 DEF Dead
<1> QED BY <1>3 DEF allocate_node

\* Behind node k.
LEMMA NodeDoneSound ==
    ASSUME Setting, NEW s, Sound(s), NEW k \in DOMAIN g.nodes, NEW t, t = g.nodes[k],
           Alive(s, k), Counted(s, k, 0), \A q \in Planned : q \in Past(k) => Placed(s, q)
    PROVE  LET r == NodeDone(s, t)
           IN  /\ Sound(r) /\ Alive(r, k + 1) /\ Counted(r, k + 1, 0)
               /\ \A q \in Planned : q \in Past(k + 1) => Placed(r, q)
<1> DEFINE u == ForEach(allocate_node, s, g.src[t])
           v == allocate_node(s, t)
           r == NodeDone(s, t)
           n == Len(g.src[t])
<1>1. t \in Tensors /\ k \in Nat /\ k > 0 /\ g.src[t] \in Seq(Tensors) /\ n \in Nat
  <2>1. t \in Tensors /\ k \in Nat /\ k > 0
    BY GraphIs
  <2> QED BY <2>1, GraphIs
<1>2. u = s
  <2> DEFINE Y == [j \in 0 .. n |-> {s}]
  <2>1. ASSUME NEW j \in 1 .. n PROVE allocate_node(s, g.src[t][j]) = s
    <3>1. g.src[t][j] \in ToSet(g.src[g.nodes[k]])
      BY <1>1 DEF ToSet
    <3> QED BY <3>1, SourcesStay
  <2>2. /\ s \in Y[0] /\ Y[n] = {s}
        /\ \A j \in 1 .. n : Y[j - 1] = {s} /\ Y[j] = {s}
    BY <1>1
  <2> HIDE DEF Y
  <2>3. \A j \in 1 .. n : \A x \in Y[j - 1] : Sound(x) => allocate_node(x, g.src[t][j]) \in Y[j]
    BY <2>1, <2>2
  <2>4. u \in Y[n]
    BY <1>1, <2>2, <2>3, AllocateAllSound
  <2> QED BY <2>2, <2>4
<1> HIDE DEF u
<1>3. /\ Sound(v) /\ Keeps(s, v) /\ (t \in Planned => Placed(v, t))
      /\ Alive(v, k + 1) /\ Counted(v, k, 0)
  BY <1>1, AllocateNodeSound, AllocateNodeAlive
<1>4. r = ForEach(update_parent, v, g.src[t])
  BY <1>2 DEF NodeDone, u
<1> HIDE DEF v, r
<1> DEFINE A(j) == {x \in StateType : Alive(x, k + 1) /\ Counted(x, k, j)}
           Y == [j \in 0 .. n |-> A(j)]
<1>5. v \in A(0)
  BY <1>3 DEF Sound
<1>6. ASSUME NEW j \in 1 .. n, NEW x \in A(j - 1), Sound(x)
      PROVE  update_parent(x, g.src[t][j]) \in A(j)
  <2>1. g.src[t][j] \in Tensors
    BY <1>1
  <2>2. update_parent(x, g.src[t][j]) \in StateType
    BY <1>6, <2>1, UpdateParentSound DEF Sound
  <2> QED BY <1>6, <2>2, UpdateParentAlive
<1> HIDE DEF A
<1>7. v \in Y[0] /\ Y[n] = A(n) /\ \A j \in 1 .. n : Y[j - 1] = A(j - 1) /\ Y[j] = A(j)
  BY <1>1, <1>5
<1> HIDE DEF Y
<1>8. \A j \in 1 .. n : \A x \in Y[j - 1] : Sound(x) => update_parent(x, g.src[t][j]) \in Y[j]
  BY <1>6, <1>7
<1>9. Sound(r) /\ Keeps(v, r) /\ r \in A(n)
  <2> DEFINE ts == g.src[t]
             w == ForEach(update_parent, v, ts)
  <2>1. /\ ts \in Seq(Tensors) /\ Sound(v) /\ v \in Y[0]
        /\ \A j \in 1 .. Len(ts) : \A x \in Y[j - 1] : Sound(x) => update_parent(x, ts[j]) \in Y[j]
    BY <1>1, <1>3, <1>7, <1>8
  <2>2. Y[Len(ts)] = A(n) /\ r = w
    BY <1>4, <1>7
  <2> HIDE DEF ts, n
  <2>3. Sound(w) /\ Keeps(v, w) /\ w \in Y[Len(ts)]
    BY <2>1, UpdateParentAllSound
  <2> HIDE DEF w
  <2> QED BY <2>2, <2>3
<1>10. Alive(r, k + 1) /\ Counted(r, k, n)
  BY <1>9 DEF A
<1>11. Counted(r, k + 1, 0)
  <2>1. \A q : Uses(q, k, n) = Uses(q, k + 1, 0)
    BY UsesOver
  <2>2. \A q : ViewsUsed(q, k, n) = ViewsUsed(q, k + 1, 0)
    BY <2>1 DEF ViewsUsed
  <2> QED BY <1>10, <2>1, <2>2 DEF Counted
<1>12. ASSUME NEW q \in Planned, q \in Past(k + 1) PROVE Placed(r, q)
  <2>1. q \in Tensors
    BY DEF Planned
  <2>2. q \in Past(k) \/ q = t
    BY <1>1, <1>12, PastGrows
  <2> QED BY <1>3, <1>9, <2>1, <2>2 DEF Keeps
<1> QED BY <1>9, <1>10, <1>11, <1>12 DEF r

-----------------------------------------------------------------------------
(* The invariant.                                                          *)

Memory == [chunks |-> chunks, hash |-> hash]

\* The tensors that have been walked over have an address, and what is let go has been
\* read for the last time.
WalkSound ==
    /\ Sound(Memory) /\ Alive(Memory, i) /\ Counted(Memory, i, 0)
    /\ \A t \in Planned : t \in Past(i) => Placed(Memory, t)

\* What was planned for tensor t lies within the buffer.
PlanFits(t) ==
    /\ plan[t].addr.chunk \in DOMAIN buffer
    /\ plan[t].addr.offset \in Nat /\ plan[t].size_max \in Nat
    /\ plan[t].addr.offset + plan[t].size_max <= buffer[plan[t].addr.chunk]

\* Two tensors have memory in common one behind the other only.
PlanInTurn ==
    \A t, u \in Planned :
        InTurn(t, plan[t].addr, plan[t].size_max, u, plan[u].addr, plan[u].size_max)

PlanSound == PlanInTurn /\ \A t \in Planned : PlanFits(t)

\* A tensor that has been computed and will be read holds its value.
Kept == \A t \in Tensors : ~IsView(t) /\ t \in Past(i) /\ ~Dead(t, i) => t \in intact

\* The assumption about outputs: none is a view.
OutputsOwn == \A G \in Graphs : \A t \in G.output : G.view[t] = 0

AllocInv ==
    /\ g \in Graphs /\ i \in Nat \ {0} /\ buffer \in Seq(Nat)
    /\ pc \in {"idle", "built", "alloc", "run"}
    /\ pc # "idle" => batch \in Batches
    /\ pc = "alloc" => WalkSound
    /\ plan # <<>> => PlanSound
    /\ pc = "run" => PlanSound /\ Kept /\ \A t \in Planned : AllocSize(t) <= plan[t].size_max
    /\ OutputsOwn => misread = {}

LEMMA InitInv == ASSUME Init PROVE AllocInv
<1>1. g \in Graphs /\ i = 1 /\ buffer = <<>> /\ pc = "idle" /\ plan = <<>> /\ misread = {}
  BY DEF Init
<1>2. i \in Nat \ {0} /\ buffer \in Seq(Nat)
  BY <1>1
<1> QED BY <1>1, <1>2 DEF AllocInv

\* What is only about the graph.
LEMMA SameGraph ==
    ASSUME UNCHANGED g
    PROVE  /\ Tensors' = Tensors /\ Planned' = Planned /\ Nodes' = Nodes
           /\ \A t : IsView(t)' <=> IsView(t)
           /\ \A k : Past(k)' = Past(k)
           /\ \A t, k : Dead(t, k)' <=> Dead(t, k)
           /\ \A t, a, y, u, b, z : InTurn(t, a, y, u, b, z)' <=> InTurn(t, a, y, u, b, z)
<1>1. Tensors' = Tensors /\ Planned' = Planned /\ Nodes' = Nodes
      /\ \A t : IsView(t)' <=> IsView(t)
  BY DEF Tensors, Planned, IsView, Nodes
<1>2. \A k : Past(k)' = Past(k)
  BY DEF Past
<1>3. \A t, k : ReadAt(t, k)' <=> ReadAt(t, k)
  BY DEF ReadAt, Root, IsView
<1>4. \A t, k : Dead(t, k)' <=> Dead(t, k)
  BY <1>3 DEF Dead
<1>5. \A t, a, y, u, b, z : InTurn(t, a, y, u, b, z)' <=> InTurn(t, a, y, u, b, z)
  BY <1>2, <1>3 DEF InTurn, Meet, Yields
<1> QED BY <1>1, <1>2, <1>4, <1>5

\* While the graph and the batch are the same, the walk is about the memory only.
LEMMA SoundLater ==
    ASSUME UNCHANGED <<g, batch>>, Sound(Memory')
    PROVE  Sound(Memory)'
<1>1. Tensors' = Tensors
  BY DEF Tensors
<1>2. \A t : Room(t)' = Room(t)
  BY DEF Room, AllocSize
<1>3. \A t : Piece(Memory, t)' = Piece(Memory', t)
  BY <1>2 DEF Piece
<1>4. \A c : HeldIn(Memory, c)' = HeldIn(Memory', c)
  BY <1>1, <1>3 DEF HeldIn, Holds
<1>5. \A t : Within(Memory, t)' <=> Within(Memory', t)
  BY <1>2 DEF Within
<1>6. StateType' = StateType
  BY <1>1 DEF StateType
<1>7. Sound(Memory)' <=>
        /\ Memory' \in StateType'
        /\ \A c \in DOMAIN Memory'.chunks : ChunkSound(Memory'.chunks[c], HeldIn(Memory, c)')
        /\ \A c \in DOMAIN Memory'.chunks : \A t, u \in Tensors' :
               Holds(Memory', t, c) /\ Holds(Memory', u, c)
                   /\ Piece(Memory, t)' = Piece(Memory, u)' => t = u
        /\ \A t \in Tensors' : Placed(Memory', t) => Within(Memory, t)'
        /\ \A t \in Tensors' : Memory'.hash[t].allocated => Placed(Memory', t)
  BY DEF Sound, Holds, Placed
<1> QED BY <1>1, <1>3, <1>4, <1>5, <1>6, <1>7 DEF Sound

LEMMA AliveLater ==
    ASSUME UNCHANGED <<g, batch>>, Alive(Memory', i'), Counted(Memory', i', 0)
    PROVE  Alive(Memory, i)' /\ Counted(Memory, i, 0)'
<1>1. Tensors' = Tensors /\ \A t : Room(t)' = Room(t)
  BY DEF Tensors, Room, AllocSize
<1>2. Past(i)' = Past(i') /\ \A t : Dead(t, i)' <=> Dead(t, i')
  BY DEF Past, Dead, ReadAt, Root, IsView
<1>3. \A t, u : InTurn(t, Memory.hash[t].addr, Room(t), u, Memory.hash[u].addr, Room(u))'
            <=> InTurn(t, Memory'.hash[t].addr, Room(t), u, Memory'.hash[u].addr, Room(u))
  BY <1>1 DEF InTurn, Meet, Yields, Past, ReadAt, Root, IsView
<1>4. \A t : Uses(t, i, 0)' = Uses(t, i', 0) /\ ViewsUsed(t, i, 0)' = ViewsUsed(t, i', 0)
  BY DEF Uses, ViewsUsed, Nodes
<1>5. Alive(Memory, i)' <=>
        /\ \A t \in Tensors' : Placed(Memory', t) => t \in Past(i)'
        /\ \A t \in Tensors' : Placed(Memory', t) /\ ~Memory'.hash[t].allocated => Dead(t, i)'
        /\ \A t, u \in Tensors' : Placed(Memory', t) /\ Placed(Memory', u) =>
               InTurn(t, Memory.hash[t].addr, Room(t), u, Memory.hash[u].addr, Room(u))'
  BY DEF Alive, Placed
<1>6. Counted(Memory, i, 0)' <=>
        \A t \in Tensors' :
            /\ Memory'.hash[t].n_children = Cardinality(Uses(t, i, 0)')
            /\ Memory'.hash[t].n_views >= Cardinality(ViewsUsed(t, i, 0)')
  BY DEF Counted
<1>7. Alive(Memory, i)'
  BY <1>1, <1>2, <1>3, <1>5 DEF Alive
<1>8. Counted(Memory, i, 0)'
  BY <1>1, <1>4, <1>6 DEF Counted
<1> QED BY <1>7, <1>8

\* Less memory than planned for is shared in turn too.
LEMMA InTurnLess ==
    ASSUME NEW t, NEW a, NEW y \in Nat, NEW y2 \in Nat, y <= y2,
           NEW u, NEW b, NEW z \in Nat, NEW z2 \in Nat, z <= z2,
           a.offset \in Nat, b.offset \in Nat, InTurn(t, a, y2, u, b, z2)
    PROVE  InTurn(t, a, y, u, b, z)
<1>1. Meet(a, y, b, z) => Meet(a, y2, b, z2)
  BY DEF Meet
<1> QED BY <1>1 DEF InTurn

LEMMA PlanLater ==
    ASSUME UNCHANGED g,
           \A t, u \in Planned : InTurn(t, plan'[t].addr, plan'[t].size_max,
                                        u, plan'[u].addr, plan'[u].size_max)
    PROVE  PlanInTurn'
<1>1. \A t, u : InTurn(t, plan[t].addr, plan[t].size_max, u, plan[u].addr, plan[u].size_max)'
            <=> InTurn(t, plan'[t].addr, plan'[t].size_max, u, plan'[u].addr, plan'[u].size_max)
  BY DEF InTurn, Meet, Yields, Past, ReadAt, Root, IsView
<1>2. PlanInTurn' <=>
        \A t, u \in Planned' :
            InTurn(t, plan[t].addr, plan[t].size_max, u, plan[u].addr, plan[u].size_max)'
  BY DEF PlanInTurn
<1> QED BY <1>1, <1>2, SameGraph

LEMMA KeptLater ==
    ASSUME UNCHANGED g,
           \A t \in Tensors : ~IsView(t) /\ t \in Past(i') /\ ~Dead(t, i') => t \in intact'
    PROVE  Kept'
<1>1. Past(i)' = Past(i') /\ \A t : Dead(t, i)' <=> Dead(t, i')
  BY DEF Past, Dead, ReadAt, Root, IsView
<1> QED BY <1>1, SameGraph DEF Kept

LEMMA AllPast ==
    ASSUME Setting, NEW k \in Nat, ~(k <= Len(g.nodes))
    PROVE  Tensors \subseteq Past(k)
<1>1. g.leafs \in Seq(Tensors) /\ g.nodes \in Seq(Tensors)
      /\ Tensors \subseteq ToSet(g.leafs) \cup ToSet(g.nodes)
  BY GraphIs
<1>2. ASSUME NEW t \in ToSet(g.nodes) PROVE t \in Past(k)
  <2>1. PICK j \in DOMAIN g.nodes : g.nodes[j] = t
    BY <1>2 DEF ToSet
  <2>2. j \in 1 .. k - 1
    BY <1>1, <2>1
  <2> QED BY <2>1, <2>2 DEF Past
<1> QED BY <1>1, <1>2 DEF Past

\* Before a graph is computed its leafs hold their values.
LEMMA KeptAtFirst ==
    ASSUME Setting, UNCHANGED g, StartRun
    PROVE  Kept'
<1>1. i' = 1 /\ intact' = Tensors \ Nodes
  BY DEF StartRun
<1>2. Past(1) = ToSet(g.leafs)
  BY DEF Past
<1>3. ASSUME NEW t \in ToSet(g.leafs) PROVE t \notin Nodes
  <2> SUFFICES ASSUME t \in Nodes PROVE FALSE
    OBVIOUS
  <2>1. PICK j \in DOMAIN g.nodes : g.nodes[j] = t
    BY DEF Nodes, ToSet
  <2> QED BY <1>3, <2>1, NodesOnce
<1> QED BY <1>1, <1>2, <1>3, KeptLater

\* The buffer has room for every chunk when the plan is made.
LEMMA ReserveFits ==
    ASSUME AllocInv, ggml_gallocr_reserve
    PROVE  AllocInv'
<1>1. /\ pc = "alloc" /\ ~(i <= Len(g.nodes)) /\ pc' = "run" /\ i' = 1
      /\ UNCHANGED <<g, batch, chunks, hash, misread>> /\ StartRun
      /\ plan' = [t \in Planned |-> [addr |-> hash[t].addr, size_max |-> AllocSize(t)]]
      /\ buffer' = IF \E c \in DOMAIN chunks :
                          c > Len(buffer) \/ chunks[c].max_size > buffer[c]
                   THEN [c \in DOMAIN chunks |-> chunks[c].max_size] ELSE buffer
  <2>1. i \in Nat /\ Len(g.nodes) \in Nat
    <3>1. Setting
      BY DEF AllocInv, Setting, ggml_gallocr_reserve
    <3> QED BY <3>1, GraphIs DEF AllocInv
  <2> QED BY <2>1 DEF ggml_gallocr_reserve, StartRun
<1>2. Setting /\ g \in Graphs /\ batch \in Batches /\ buffer \in Seq(Nat)
  BY <1>1 DEF AllocInv, Setting
<1>3. Sound(Memory) /\ Alive(Memory, i) /\ \A t \in Planned : Placed(Memory, t)
  <2>1. WalkSound /\ i \in Nat
    BY <1>1 DEF AllocInv
  <2> QED BY <1>1, <1>2, <2>1, AllPast DEF WalkSound, Planned
<1>4. Memory.chunks = chunks /\ Memory.hash = hash
  BY DEF Memory
<1>5. /\ chunks \in Seq(ChunkType) /\ Len(chunks) \in Nat /\ DOMAIN chunks = 1 .. Len(chunks)
      /\ \A c \in DOMAIN chunks : chunks[c].max_size \in Nat
  <2>1. chunks \in Seq(ChunkType)
    BY <1>3, <1>4, HashIs
  <2>2. \A c \in DOMAIN chunks : chunks[c] \in ChunkType
    BY <2>1
  <2> QED BY <2>1, <2>2 DEF ChunkType
<1>6. /\ buffer' \in Seq(Nat)
      /\ \A c \in DOMAIN chunks : c \in DOMAIN buffer' /\ buffer'[c] \in Nat
                                  /\ chunks[c].max_size <= buffer'[c]
  <2>1. CASE \E c \in DOMAIN chunks : c > Len(buffer) \/ chunks[c].max_size > buffer[c]
    <3>1. buffer' = [c \in DOMAIN chunks |-> chunks[c].max_size]
      BY <1>1, <2>1
    <3>2. buffer' \in Seq(Nat)
      BY <1>5, <3>1
    <3> QED BY <1>5, <3>1, <3>2
  <2>2. CASE ~\E c \in DOMAIN chunks : c > Len(buffer) \/ chunks[c].max_size > buffer[c]
    <3>1. buffer' = buffer
      BY <1>1, <2>2
    <3>2. ASSUME NEW c \in DOMAIN chunks
          PROVE  c \in DOMAIN buffer /\ buffer[c] \in Nat /\ chunks[c].max_size <= buffer[c]
      <4>1. ~(c > Len(buffer)) /\ ~(chunks[c].max_size > buffer[c])
        BY <2>2
      <4>2. c \in DOMAIN buffer
        BY <1>2, <1>5, <4>1
      <4>3. buffer[c] \in Nat
        BY <1>2, <4>2
      <4> QED BY <1>5, <4>1, <4>2, <4>3
    <3> QED BY <1>2, <3>1, <3>2
  <2> QED BY <2>1, <2>2
<1>7. ASSUME NEW t \in Planned
      PROVE  /\ plan'[t].addr = hash[t].addr /\ plan'[t].size_max = AllocSize(t)
             /\ hash[t].addr.chunk \in DOMAIN buffer' /\ hash[t].addr.offset \in Nat
             /\ AllocSize(t) \in Nat
             /\ hash[t].addr.offset + AllocSize(t) <= buffer'[hash[t].addr.chunk]
  <2> DEFINE c == hash[t].addr.chunk
             o == hash[t].addr.offset
  <2>1. t \in Tensors
    BY DEF Planned
  <2>2. Within(Memory, t)
    BY <1>3, <2>1 DEF Sound
  <2>3. c \in DOMAIN chunks /\ o + Room(t) <= chunks[c].max_size
    BY <1>4, <2>2 DEF Within
  <2>4. o \in Nat
    BY <1>3, <1>4, <2>1, SoundIs
  <2>5. Room(t) \in Nat /\ AllocSize(t) \in Nat /\ AllocSize(t) <= Room(t)
    BY <1>2, <2>1, Rooms
  <2>6. plan'[t].addr = hash[t].addr /\ plan'[t].size_max = AllocSize(t)
    BY <1>1
  <2> HIDE DEF c, o
  <2>7. c \in DOMAIN buffer' /\ chunks[c].max_size <= buffer'[c] /\ buffer'[c] \in Nat
        /\ chunks[c].max_size \in Nat
    BY <1>5, <1>6, <2>3
  <2>8. o + AllocSize(t) <= buffer'[c]
    BY <2>3, <2>4, <2>5, <2>7
  <2> QED BY <2>4, <2>5, <2>6, <2>7, <2>8 DEF c, o
<1>8. Planned' = Planned /\ \A t \in Planned : AllocSize(t)' = AllocSize(t)
  BY <1>1 DEF Planned, Tensors, IsView, AllocSize
<1>9. (\A t \in Planned : PlanFits(t) /\ AllocSize(t) <= plan[t].size_max)'
  BY <1>7, <1>8 DEF PlanFits
<1>10. PlanInTurn'
  <2>1. ASSUME NEW t \in Planned, NEW u \in Planned
        PROVE  InTurn(t, plan'[t].addr, plan'[t].size_max, u, plan'[u].addr, plan'[u].size_max)
    <3>1. t \in Tensors /\ u \in Tensors
      BY DEF Planned
    <3>2. InTurn(t, hash[t].addr, Room(t), u, hash[u].addr, Room(u))
      BY <1>3, <1>4, <3>1 DEF Alive
    <3>3. /\ AllocSize(t) \in Nat /\ Room(t) \in Nat /\ AllocSize(t) <= Room(t)
          /\ AllocSize(u) \in Nat /\ Room(u) \in Nat /\ AllocSize(u) <= Room(u)
      BY <1>2, <3>1, Rooms
    <3>4. hash[t].addr.offset \in Nat /\ hash[u].addr.offset \in Nat
      BY <1>7
    <3>5. InTurn(t, hash[t].addr, AllocSize(t), u, hash[u].addr, AllocSize(u))
      BY <3>2, <3>3, <3>4, InTurnLess
    <3>6. /\ plan'[t].addr = hash[t].addr /\ plan'[t].size_max = AllocSize(t)
          /\ plan'[u].addr = hash[u].addr /\ plan'[u].size_max = AllocSize(u)
      BY <1>7
    <3> QED BY <3>5, <3>6
  <2> QED BY <1>1, <2>1, PlanLater
<1>11. Kept'
  BY <1>1, <1>2, KeptAtFirst
<1>12. pc' = "run" /\ g' \in Graphs /\ batch' \in Batches /\ i' \in Nat \ {0}
  BY <1>1, <1>2
<1>13. OutputsOwn => misread' = {}
  BY <1>1 DEF AllocInv
<1> QED BY <1>6, <1>9, <1>10, <1>11, <1>12, <1>13 DEF AllocInv, PlanSound, OutputsOwn

LEMMA PlanSame ==
    ASSUME UNCHANGED <<g, plan, buffer>>, PlanSound
    PROVE  PlanSound'
<1>1. PlanInTurn'
  BY PlanLater DEF PlanSound, PlanInTurn
<1> QED BY <1>1, SameGraph DEF PlanSound, PlanFits

LEMMA AllocNodeInv ==
    ASSUME AllocInv, AllocNode
    PROVE  AllocInv'
<1> DEFINE t == g.nodes[i]
           r == NodeDone(Memory, t)
<1>1. /\ pc = "alloc" /\ i <= Len(g.nodes) /\ i' = i + 1
      /\ UNCHANGED <<g, batch, pc, plan, buffer, misread>>
      /\ chunks' = r.chunks /\ hash' = r.hash
  BY DEF AllocNode, Memory
<1>2. Setting /\ WalkSound /\ i \in Nat \ {0}
  BY <1>1 DEF AllocInv, Setting
<1>3. i \in DOMAIN g.nodes
  BY <1>1, <1>2, GraphIs
<1>4. /\ Sound(r) /\ Alive(r, i + 1) /\ Counted(r, i + 1, 0)
      /\ \A q \in Planned : q \in Past(i + 1) => Placed(r, q)
  BY <1>2, <1>3, NodeDoneSound DEF WalkSound
<1>5. Memory' = r
  BY <1>1, <1>4, HashIs DEF Memory
<1> HIDE DEF r
<1>6. WalkSound'
  <2>1. Sound(Memory)'
    BY <1>1, <1>4, <1>5, SoundLater
  <2>2. Alive(Memory, i)' /\ Counted(Memory, i, 0)'
    BY <1>1, <1>4, <1>5, AliveLater
  <2>3. (\A q \in Planned : q \in Past(i) => Placed(Memory, q))'
    <3>1. Past(i)' = Past(i + 1)
      BY <1>1 DEF Past
    <3> QED BY <1>1, <1>4, <1>5, <3>1, SameGraph DEF Placed
  <2> QED BY <2>1, <2>2, <2>3 DEF WalkSound
<1>7. plan # <<>> => PlanSound'
  BY <1>1, PlanSame DEF AllocInv
<1> QED BY <1>1, <1>2, <1>6, <1>7 DEF AllocInv, OutputsOwn

\* Node k writes over memory of u only when u is not read any more, or is read by k in place.
LEMMA OverlapInTurn ==
    ASSUME Setting, PlanSound, \A q \in Planned : AllocSize(q) <= plan[q].size_max,
           NEW k \in DOMAIN g.nodes, NEW t, t = g.nodes[k], NEW u \in Tensors, u \in Past(k),
           NEW p \in Tensors, Root(p) = u, ~IsView(t), Overlap(t, p)
    PROVE  /\ u \notin g.output
           /\ \A m \in DOMAIN g.nodes :
                  ReadAt(u, m) => m < k \/ (m = k /\ t \in g.inplace /\ First(t) = First(p))
<1>1. t \in Tensors /\ k \in Nat /\ k > 0 /\ Root(t) = t
  BY GraphIs DEF Root
<1> DEFINE a == plan[t].addr
           b == plan[u].addr
<1>2. /\ t \in Planned /\ u \in Planned /\ First(t) = a.offset /\ First(p) = b.offset
      /\ a.chunk = b.chunk
      /\ a.offset < b.offset + AllocSize(u) /\ b.offset < a.offset + AllocSize(t)
  BY <1>1 DEF Overlap, First
<1>3. t # u
  BY OrderIs
<1>4. InTurn(u, b, plan[u].size_max, t, a, plan[t].size_max)
  BY <1>2 DEF PlanSound, PlanInTurn
<1>5. /\ AllocSize(t) \in Nat /\ plan[t].size_max \in Nat /\ AllocSize(t) <= plan[t].size_max
      /\ AllocSize(u) \in Nat /\ plan[u].size_max \in Nat /\ AllocSize(u) <= plan[u].size_max
      /\ a.offset \in Nat /\ b.offset \in Nat
  BY <1>1, <1>2, Rooms DEF PlanSound, PlanFits
<1>6. InTurn(u, b, AllocSize(u), t, a, AllocSize(t))
  BY <1>4, <1>5, InTurnLess
<1>7. Meet(b, AllocSize(u), a, AllocSize(t))
  BY <1>2 DEF Meet
<1> HIDE DEF a, b
<1>8. ~Yields(t, u, b.offset = a.offset)
  <2> SUFFICES ASSUME Yields(t, u, b.offset = a.offset) PROVE FALSE
    OBVIOUS
  <2>1. PICK j \in DOMAIN g.nodes : g.nodes[j] = u /\ t \in Past(j)
    BY DEF Yields
  <2>2. j \in Nat
    BY GraphIs
  <2>3. j < k
    BY <1>1, <2>1, NodesOnce
  <2>4. k < j
    BY <2>1, <2>2, NodesOnce
  <2> QED BY <1>1, <2>2, <2>3, <2>4
<1>9. Yields(u, t, b.offset = a.offset)
  BY <1>3, <1>6, <1>7, <1>8 DEF InTurn
<1>10. PICK j \in DOMAIN g.nodes :
           /\ g.nodes[j] = t
           /\ \A m \in DOMAIN g.nodes :
                  ReadAt(u, m) => m < j \/ (m = j /\ t \in g.inplace /\ b.offset = a.offset)
  BY <1>9 DEF Yields
<1>11. j = k
  BY <1>10, NodesOnce
<1> QED BY <1>2, <1>9, <1>10, <1>11 DEF Yields

\* An operation reads what is there, and what others will read stays.
LEMMA ExecInv ==
    ASSUME AllocInv, Exec
    PROVE  AllocInv'
<1> DEFINE t == g.nodes[i]
           wrong == {p \in ToSet(g.src[t]) :
                        \/ Root(p) \notin intact
                        \/ Overlap(t, p) /\ ~IsView(t)
                           /\ (t \notin g.inplace \/ First(t) # First(p))}
<1>1. /\ pc = "run" /\ i <= Len(g.nodes) /\ i' = i + 1
      /\ misread' = misread \cup {<<t, p>> : p \in wrong}
      /\ intact' = IF IsView(t) THEN intact ELSE {u \in intact : ~Overlap(t, u)} \cup {t}
      /\ UNCHANGED <<g, batch, pc, plan, buffer>>
  BY DEF Exec
<1>2. /\ Setting /\ PlanSound /\ Kept /\ i \in Nat \ {0}
      /\ \A q \in Planned : AllocSize(q) <= plan[q].size_max
  BY <1>1 DEF AllocInv, Setting
<1>3. i \in DOMAIN g.nodes /\ t \in Tensors
  BY <1>1, <1>2, GraphIs
<1> HIDE DEF t
<1>4. ASSUME NEW p \in ToSet(g.src[t]) PROVE p \notin wrong
  <2> DEFINE w == Root(p)
  <2>1. p \in Tensors /\ w \in Tensors /\ w \in Past(i) /\ ~IsView(w)
    BY <1>2, <1>3, RootsPast DEF t
  <2>2. ReadAt(w, i)
    BY DEF ReadAt, t
  <2>3. ~Dead(w, i)
    BY <1>2, <1>3, <2>2 DEF Dead
  <2>4. w \in intact
    BY <1>2, <2>1, <2>3 DEF Kept
  <2> HIDE DEF w
  <2>5. ASSUME Overlap(t, p), ~IsView(t) PROVE t \in g.inplace /\ First(t) = First(p)
    <3>1. ReadAt(w, i) => i < i \/ (i = i /\ t \in g.inplace /\ First(t) = First(p))
      BY <1>2, <1>3, <2>1, <2>5, OverlapInTurn DEF t, w
    <3> QED BY <1>2, <2>2, <3>1
  <2> QED BY <2>4, <2>5 DEF w
<1>5. misread' = misread
  <2>1. wrong = {}
    BY <1>4
  <2> HIDE DEF wrong
  <2> QED BY <1>1, <2>1
<1>6. ASSUME NEW u \in Tensors, ~IsView(u), u \in Past(i'), ~Dead(u, i') PROVE u \in intact'
  <2>1. CASE u = t
    BY <1>1, <1>6, <2>1
  <2>2. CASE u # t
    <3>1. u \in Past(i)
      BY <1>1, <1>2, <1>6, <2>2, PastGrows DEF t
    <3>2. ~Dead(u, i)
      BY <1>1, <1>2, <1>6, DeadLater
    <3>3. u \in intact
      BY <1>2, <1>6, <3>1, <3>2 DEF Kept
    <3>4. ASSUME ~IsView(t), Overlap(t, u) PROVE FALSE
      <4>1. Root(u) = u
        BY <1>6 DEF Root
      <4>2. /\ u \notin g.output
            /\ \A m \in DOMAIN g.nodes : ReadAt(u, m) => m < i \/ m = i
        BY <1>2, <1>3, <3>1, <3>4, <4>1, OverlapInTurn DEF t
      <4>3. \A m \in DOMAIN g.nodes : m \in Nat
        BY <1>2, GraphIs
      <4>4. Dead(u, i + 1)
        BY <1>2, <4>2, <4>3 DEF Dead
      <4> QED BY <1>1, <1>6, <4>4
    <3> QED BY <1>1, <3>3, <3>4
  <2> QED BY <2>1, <2>2
<1>7. Kept'
  BY <1>1, <1>6, KeptLater
<1>8. PlanSound'
  BY <1>1, <1>2, PlanSame
<1>9. (\A q \in Planned : AllocSize(q) <= plan[q].size_max)'
  BY <1>1, <1>2, SameGraph DEF AllocSize
<1>10. i' \in Nat \ {0}
  BY <1>1, <1>2
<1> QED BY <1>1, <1>2, <1>5, <1>7, <1>8, <1>9, <1>10 DEF AllocInv, OutputsOwn

\* Outputs that are no views are there when the graph has been computed.
LEMMA ComputedInv ==
    ASSUME AllocInv, Computed
    PROVE  AllocInv'
<1>1. /\ pc = "run" /\ ~(i <= Len(g.nodes)) /\ pc' = "idle"
      /\ misread' = misread \cup {<<0, t>> : t \in {t \in g.output : Root(t) \notin intact}}
      /\ UNCHANGED <<g, batch, i, plan, buffer>>
  <2>1. Len(g.nodes) \in Nat /\ i \in Nat
    <3>1. Setting
      BY DEF AllocInv, Setting, Computed
    <3> QED BY <3>1, GraphIs DEF AllocInv
  <2> QED BY <2>1 DEF Computed
<1>2. Setting /\ Kept /\ PlanSound /\ i \in Nat
  BY <1>1 DEF AllocInv, Setting
<1>3. ASSUME OutputsOwn PROVE misread' = {}
  <2>1. ASSUME NEW t \in g.output PROVE Root(t) \in intact
    <3>1. t \in Tensors
      <4>1. IsGraph(g)
        BY <1>2, GraphAssumption DEF Setting
      <4> QED BY <4>1 DEF IsGraph, Tensors
    <3>2. ~IsView(t) /\ Root(t) = t
      BY <1>2, <1>3 DEF OutputsOwn, Setting, IsView, Root
    <3>3. t \in Past(i) /\ ~Dead(t, i)
      BY <1>1, <1>2, <3>1, AllPast DEF Dead
    <3> QED BY <1>2, <3>1, <3>2, <3>3 DEF Kept
  <2> DEFINE lost == {t \in g.output : Root(t) \notin intact}
  <2>2. lost = {}
    BY <2>1
  <2>3. misread' = misread \cup {<<0, t>> : t \in lost}
    BY <1>1
  <2> HIDE DEF lost
  <2> QED BY <1>3, <2>2, <2>3 DEF AllocInv
<1>4. PlanSound'
  BY <1>1, <1>2, PlanSame
<1> QED BY <1>1, <1>3, <1>4 DEF AllocInv, OutputsOwn

LEMMA SameInv ==
    ASSUME AllocInv, UNCHANGED <<g, batch, pc, i, chunks, hash, plan, buffer, intact, misread>>
    PROVE  AllocInv'
<1>1. WalkSound => WalkSound'
  <2>1. Memory' = Memory
    BY DEF Memory
  <2>2. Sound(Memory) => Sound(Memory)'
    BY <2>1, SoundLater
  <2>3. Alive(Memory, i) /\ Counted(Memory, i, 0) => Alive(Memory, i)' /\ Counted(Memory, i, 0)'
    BY <2>1, AliveLater
  <2>4. Past(i)' = Past(i)
    BY DEF Past
  <2> QED BY <2>1, <2>2, <2>3, <2>4, SameGraph DEF WalkSound, Placed
<1>2. Kept => Kept'
  BY KeptLater DEF Kept
<1>3. PlanSound => PlanSound'
  BY PlanSame
<1> QED BY <1>1, <1>2, <1>3, SameGraph DEF AllocInv, AllocSize, OutputsOwn

\* A graph is given the plan there is, or the walk begins.
LEMMA AllocGraphInv ==
    ASSUME AllocInv, ggml_gallocr_alloc_graph
    PROVE  AllocInv'
<1>1. /\ Setting /\ pc = "built" /\ UNCHANGED <<g, batch, plan, buffer, misread>>
      /\ i \in Nat \ {0}
  BY DEF ggml_gallocr_alloc_graph, AllocInv, Setting
<1>2. plan # <<>> => PlanSound /\ PlanSound'
  BY <1>1, PlanSame DEF AllocInv
<1>3. CASE needs_realloc
  <2>1. pc' = "alloc" /\ i' = 1 /\ chunks' = Begun.chunks /\ hash' = Begun.hash
    BY <1>3 DEF ggml_gallocr_alloc_graph
  <2> DEFINE r == Begun
  <2>2. /\ Sound(r) /\ Alive(r, 1) /\ Counted(r, 1, 0)
        /\ \A t \in Planned : t \in Past(1) => Placed(r, t)
    BY <1>1, BegunSound
  <2>3. chunks' = r.chunks /\ hash' = r.hash
    BY <2>1
  <2> HIDE DEF r
  <2>4. Memory' = r
    BY <2>2, <2>3, HashIs DEF Memory
  <2>5. Sound(Memory)'
    BY <1>1, <2>2, <2>4, SoundLater
  <2>6. Alive(Memory, i)' /\ Counted(Memory, i, 0)'
    BY <1>1, <2>1, <2>2, <2>4, AliveLater
  <2>7. (\A t \in Planned : t \in Past(i) => Placed(Memory, t))'
    <3>1. Past(i)' = Past(1)
      BY <1>1, <2>1 DEF Past
    <3> QED BY <1>1, <2>2, <2>4, <3>1, SameGraph DEF Placed
  <2>8. WalkSound'
    BY <2>5, <2>6, <2>7 DEF WalkSound
  <2> QED BY <1>1, <1>2, <2>1, <2>8 DEF AllocInv, Setting, OutputsOwn
<1>4. CASE ~needs_realloc
  <2>1. pc' = "run" /\ i' = 1 /\ StartRun
    BY <1>4 DEF ggml_gallocr_alloc_graph, StartRun
  <2>2. plan # <<>> /\ \A t \in Planned : ~(AllocSize(t) > plan[t].size_max)
    BY <1>4 DEF needs_realloc
  <2>3. ASSUME NEW t \in Planned PROVE AllocSize(t) <= plan[t].size_max
    <3>1. plan[t].size_max \in Nat
      BY <1>2, <2>2 DEF PlanSound, PlanFits
    <3>2. AllocSize(t) \in Nat
      BY <1>1, Rooms DEF Planned
    <3> QED BY <2>2, <3>1, <3>2
  <2>4. (\A t \in Planned : AllocSize(t) <= plan[t].size_max)'
    BY <1>1, <2>3, SameGraph DEF AllocSize
  <2>5. Kept'
    BY <1>1, <2>1, KeptAtFirst
  <2> QED BY <1>1, <1>2, <2>1, <2>2, <2>4, <2>5 DEF AllocInv, Setting, OutputsOwn
<1> QED BY <1>3, <1>4

LEMMA NextInv == ASSUME AllocInv, [Next]_vars PROVE AllocInv'
<1>1. CASE UNCHANGED vars
  <2>1. UNCHANGED <<g, batch, pc, i, chunks, hash, plan, buffer, intact, misread>>
    BY <1>1 DEF vars
  <2> QED BY <2>1, SameInv
<1>2. ASSUME NEW b \in Batches, BuildGraph(b) PROVE AllocInv'
  <2>1. pc' = "built" /\ batch' = b /\ UNCHANGED <<g, i, plan, buffer, misread>>
    BY <1>2 DEF BuildGraph
  <2>2. PlanSound => PlanSound'
    BY <2>1, PlanSame
  <2> QED BY <2>1, <2>2 DEF AllocInv, OutputsOwn
<1>3. CASE ggml_gallocr_alloc_graph
  BY <1>3, AllocGraphInv
<1>4. CASE AllocNode
  BY <1>4, AllocNodeInv
<1>5. CASE ggml_gallocr_reserve
  BY <1>5, ReserveFits
<1>6. CASE Exec
  BY <1>6, ExecInv
<1>7. CASE Computed
  BY <1>7, ComputedInv
<1>8. CASE Finished
  <2>1. UNCHANGED <<g, batch, pc, i, chunks, hash, plan, buffer, intact, misread>>
    BY <1>8 DEF Finished, vars
  <2> QED BY <2>1, SameInv
<1> QED BY <1>1, <1>2, <1>3, <1>4, <1>5, <1>6, <1>7, <1>8 DEF Next

LEMMA AllocAlways == Spec => []AllocInv
<1>1. Init => AllocInv
  BY InitInv
<1>2. AllocInv /\ [Next]_vars => AllocInv'
  BY NextInv
<1> QED BY <1>1, <1>2, PTL DEF Spec

-----------------------------------------------------------------------------
(* The theorems.                                                           *)

\* While addresses are given, the free blocks of a chunk and the tensors allocated in it
\* make up the chunk without overlapping: dyn_tallocr_alloc gives nothing away twice and
\* free_bytes loses nothing, whatever the graphs, their sizes and the order of the frees.
THEOREM FreeBlocksAlwaysSound == Spec => []FreeBlocksSound
<1>1. AllocInv => FreeBlocksSound
  <2> SUFFICES ASSUME AllocInv, pc = "alloc", NEW c \in DOMAIN chunks
               PROVE  /\ \A k \in 1 .. Len(chunks[c].free) - 1 :
                             End(chunks[c].free[k]) < chunks[c].free[k + 1].offset
                      /\ \A x \in Pieces(c) : x[1] = 0 \/ \E y \in Pieces(c) : y[2] = x[1]
                      /\ \A x, y \in Pieces(c) : x = y \/ x[2] <= y[1] \/ y[2] <= x[1]
    BY DEF FreeBlocksSound
  <2>1. Sound(Memory) /\ Memory.chunks = chunks /\ Memory.hash = hash
    BY DEF AllocInv, WalkSound, Memory
  <2>2. ChunkSound(chunks[c], HeldIn(Memory, c))
    BY <2>1 DEF Sound
  <2>3. Pieces(c) = Blocks(chunks[c].free) \cup HeldIn(Memory, c)
    BY <2>1 DEF Pieces, Blocks, Span, HeldIn, Piece, Holds, Room
  <2>4. chunks[c].free \in Seq(Block)
    <3>1. chunks[c] \in ChunkType
      BY <2>1, HashIs
    <3> QED BY <3>1 DEF ChunkType
  <2>5. ASSUME NEW k \in 1 .. Len(chunks[c].free) - 1
        PROVE  End(chunks[c].free[k]) < chunks[c].free[k + 1].offset
    <3>1. k \in DOMAIN chunks[c].free /\ k + 1 \in DOMAIN chunks[c].free /\ k < k + 1
      BY <2>4
    <3> QED BY <2>2, <3>1 DEF ChunkSound, Ordered
  <2> QED BY <2>2, <2>3, <2>5 DEF ChunkSound, Tiling
<1> QED BY <1>1, AllocAlways, PTL

\* A graph that is computed lies within the buffer, also when ggml_gallocr_needs_realloc
\* let it have the plan of a graph with other sizes.
THEOREM GraphFitsBuffer == Spec => []FitsBuffer
<1>1. AllocInv => FitsBuffer
  <2> SUFFICES ASSUME AllocInv, pc = "run", NEW t \in Planned
               PROVE  /\ plan[t].addr.chunk \in DOMAIN buffer
                      /\ plan[t].addr.offset + AllocSize(t) <= buffer[plan[t].addr.chunk]
    BY DEF FitsBuffer
  <2>1. PlanFits(t) /\ AllocSize(t) <= plan[t].size_max
    BY DEF AllocInv, PlanSound
  <2>2. AllocSize(t) \in Nat
    BY Rooms DEF AllocInv, Setting, Planned
  <2>3. buffer[plan[t].addr.chunk] \in Nat
    BY <2>1 DEF AllocInv, PlanFits
  <2> QED BY <2>1, <2>2, <2>3 DEF PlanFits
<1> QED BY <1>1, AllocAlways, PTL

\* What an operation reads is there, and outputs are at the end, whatever the graphs and
\* the batch sizes: update_parent frees no memory that will be read, allocate_node takes
\* over none, and a plan that is used again has tensors share memory in turn only.  A view
\* does not keep the memory of its tensor, so an output must not be one.
THEOREM ReadsItsSourcesAlways ==
    ASSUME \A G \in Graphs : \A t \in G.output : G.view[t] = 0
    PROVE  Spec => []ReadsItsSources
<1>1. AllocInv => ReadsItsSources
  BY DEF AllocInv, OutputsOwn, ReadsItsSources
<1> QED BY <1>1, AllocAlways, PTL
=============================================================================

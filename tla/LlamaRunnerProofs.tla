------------------------- MODULE LlamaRunnerProofs -------------------------
(***************************************************************************)
(* Theorems about LlamaRunner over LlamaKVCache, for models without a      *)
(* sliding window and any requests, prompts, contexts, batch sizes and     *)
(* numbers of sequences.                                                   *)
(*                                                                         *)
(* Holds ties the runner's list to the cells: the used cells of a stream   *)
(* are positions 0 .. m - 1, each once, and the key that the copies still  *)
(* put off will bring there is that of the input at this place.  What a    *)
(* batch does to it is followed through the ubatches: split_equal takes    *)
(* the tokens of a sequence in order and all of them, find_slot finds      *)
(* empty cells for each ubatch, apply_ubatch adds the next positions, and  *)
(* what prepare tried is undone.  A loop is a recursive function, whose    *)
(* value is followed through sets of states (LoopExists).                  *)
(***************************************************************************)
EXTENDS LlamaRunner, FiniteSetTheorems, SequenceTheorems, WellFoundedInduction, TLAPS

-----------------------------------------------------------------------------
(* Numbers and loops.                                                      *)

\* A set of numbers has a smallest one.
LEMMA Smallest ==
    ASSUME NEW S, S \subseteq Nat, S # {}
    PROVE  \E x \in S : \A y \in S : x <= y
<1> DEFINE T == {0 .. n - 1 : n \in S}
<1>1. T \subseteq FiniteSubsetsOf(Nat) /\ T # {}
  <2>1. \A n \in S : IsFiniteSet(0 .. n - 1) /\ 0 .. n - 1 \subseteq Nat
    BY FS_Interval
  <2> QED BY <2>1 DEF FiniteSubsetsOf
<1>2. IsWellFoundedOn(StrictSubsetOrdering(Nat), FiniteSubsetsOf(Nat))
  BY FS_StrictSubsetOrderingWellFounded
<1> HIDE DEF T
<1>3. \E x \in T : \A y \in T : ~ (<<y, x>> \in StrictSubsetOrdering(Nat))
  BY <1>1, <1>2, WFMin
<1>4. PICK n \in S : \A m \in S : ~ (<<0 .. m - 1, 0 .. n - 1>> \in StrictSubsetOrdering(Nat))
  BY <1>3 DEF T
<1>5. ASSUME NEW m \in S, m < n PROVE FALSE
  <2>1. 0 .. m - 1 \subseteq 0 .. n - 1 /\ m \in 0 .. n - 1 /\ m \notin 0 .. m - 1
    BY <1>5
  <2>2. <<0 .. m - 1, 0 .. n - 1>> \in StrictSubsetOrdering(Nat)
    BY <2>1 DEF StrictSubsetOrdering
  <2> QED BY <2>2, <1>4
<1> QED BY <1>5

\* A bounded set of numbers has a largest one.
LEMMA Largest ==
    ASSUME NEW S, S \subseteq Nat, S # {}, NEW b \in Nat, \A x \in S : x <= b
    PROVE  \E x \in S : \A y \in S : x >= y
<1> DEFINE T == {b - x : x \in S}
<1>1. T \subseteq Nat /\ T # {}
  <2>1. \A x \in S : b - x \in Nat
    OBVIOUS
  <2> QED BY <2>1
<1>2. \E t \in T : \A u \in T : t <= u
  <2> HIDE DEF T
  <2> QED BY <1>1, Smallest
<1>3. PICK x \in S : \A u \in T : b - x <= u
  BY <1>2
<1>4. \A y \in S : b - x <= b - y
  BY <1>3
<1> QED BY <1>4

LEMMA MinIn == ASSUME NEW S, S \subseteq Nat, S # {} PROVE Min(S) \in S /\ \A y \in S : Min(S) <= y
BY Smallest DEF Min

LEMMA MaxIn ==
    ASSUME NEW S, NEW b \in Nat, S \subseteq 0 .. b, S # {}
    PROVE  Max(S) \in S /\ \A y \in S : Max(S) >= y
<1>1. \E x \in S : \A y \in S : x >= y
  <2>1. S \subseteq Nat /\ \A x \in S : x <= b
    OBVIOUS
  <2> QED BY <2>1, Largest
<1> QED BY <1>1 DEF Max

\* A set with 0 that with a number up to n has the next one has all of them.
LEMMA UpTo ==
    ASSUME NEW n \in Nat, NEW A, 0 \in A, \A k \in 1 .. n : k - 1 \in A => k \in A
    PROVE  0 .. n \subseteq A
<1> DEFINE S == {k \in 0 .. n : k \notin A}
<1>1. ASSUME S # {} PROVE FALSE
  <2>1. S \subseteq Nat
    OBVIOUS
  <2> HIDE DEF S
  <2>2. PICK k \in S : \A y \in S : k <= y
    BY <1>1, <2>1, Smallest
  <2>3. k \in 1 .. n /\ k \notin A
    BY <2>2 DEF S
  <2>4. k - 1 \notin S
    BY <2>2, <2>3
  <2> QED BY <2>3, <2>4 DEF S
<1> QED BY <1>1

\* F[k] is what step k of a loop does, and it goes from X[k - 1] to X[k].
Steps(n, X, F) == \A k \in 1 .. n : \A x \in X[k - 1] : F[k][x] \in X[k]

\* f[k] is the state behind k steps of a loop that begins in s.
Loop(n, F, s, f) == f = [k \in 0 .. n |-> IF k = 0 THEN s ELSE F[k][f[k - 1]]]

\* A loop whose steps keep to the sets X has a result, in the last of them.
LEMMA LoopExists ==
    ASSUME NEW n \in Nat, NEW X, NEW F, NEW s, s \in X[0], Steps(n, X, F)
    PROVE  \E f : Loop(n, F, s, f) /\ \A k \in 0 .. n : f[k] \in X[k]
<1> DEFINE A == {m \in 0 .. n :
                    \E f : /\ f = [k \in 0 .. m |-> IF k = 0 THEN s ELSE F[k][f[k - 1]]]
                           /\ \A k \in 0 .. m : f[k] \in X[k]}
<1>1. 0 \in A
  <2> DEFINE f == [k \in 0 .. 0 |-> s]
  <2>1. f = [k \in 0 .. 0 |-> IF k = 0 THEN s ELSE F[k][f[k - 1]]]
    OBVIOUS
  <2>2. \A k \in 0 .. 0 : f[k] \in X[k]
    OBVIOUS
  <2> HIDE DEF f
  <2> QED BY <2>1, <2>2
<1>2. ASSUME NEW m \in 1 .. n, m - 1 \in A PROVE m \in A
  <2>1. PICK f : /\ f = [k \in 0 .. m - 1 |-> IF k = 0 THEN s ELSE F[k][f[k - 1]]]
                 /\ \A k \in 0 .. m - 1 : f[k] \in X[k]
    BY <1>2
  <2> DEFINE h == [k \in 0 .. m |-> IF k = m THEN F[m][f[m - 1]] ELSE f[k]]
  <2>2. \A k \in 0 .. m : k = m \/ k \in 0 .. m - 1
    OBVIOUS
  <2>3. \A k \in 0 .. m - 1 : h[k] = f[k]
    OBVIOUS
  <2>4. h[m] = F[m][f[m - 1]] /\ m # 0 /\ m - 1 \in 0 .. m - 1
    OBVIOUS
  <2>5. DOMAIN h = 0 .. m /\ h = [k \in 0 .. m |-> h[k]]
    OBVIOUS
  <2> HIDE DEF h
  <2>6. ASSUME NEW k \in 0 .. m
        PROVE  h[k] = (IF k = 0 THEN s ELSE F[k][h[k - 1]]) /\ h[k] \in X[k]
    <3>1. CASE k = m
      <4>1. h[m - 1] = f[m - 1] /\ f[m - 1] \in X[m - 1]
        BY <2>1, <2>3, <2>4
      <4> QED BY <2>4, <3>1, <4>1 DEF Steps
    <3>2. CASE k \in 0 .. m - 1
      <4>1. f[k] = IF k = 0 THEN s ELSE F[k][f[k - 1]]
        BY <2>1, <3>2
      <4>2. k # 0 => k - 1 \in 0 .. m - 1
        BY <3>2
      <4> QED BY <2>1, <2>3, <3>2, <4>1, <4>2
    <3> QED BY <2>2, <3>1, <3>2
  <2>7. h = [k \in 0 .. m |-> IF k = 0 THEN s ELSE F[k][h[k - 1]]]
    BY <2>5, <2>6
  <2> QED BY <2>6, <2>7
<1>3. 0 .. n \subseteq A
  <2> HIDE DEF A
  <2> QED BY <1>1, <1>2, UpTo
<1>4. n \in A
  BY <1>3
<1> QED BY <1>4 DEF Loop

-----------------------------------------------------------------------------
(* Copies that are put off.                                                *)

Keys == [Stream -> [Cell -> Content]]

CopyStep(d, x) == [d EXCEPT ![x[2]] = d[x[1]]]
CopyLoop(data, copies, f) ==
    f = [k \in 0 .. Len(copies) |-> IF k = 0 THEN data ELSE CopyStep(f[k - 1], copies[k])]

LEMMA CopyAllIs ==
    ASSUME NEW data \in Keys, NEW copies \in Seq(Stream \X Stream)
    PROVE  \E f : /\ CopyLoop(data, copies, f) /\ CopyAll(data, copies) = f[Len(copies)]
                  /\ \A k \in 0 .. Len(copies) : f[k] \in Keys
<1> DEFINE n == Len(copies)
           X == [k \in 0 .. n |-> Keys]
           F == [k \in 1 .. n |-> [d \in Keys |-> CopyStep(d, copies[k])]]
           copied[k \in 0 .. n] == IF k = 0 THEN data ELSE [copied[k - 1] EXCEPT ![copies[k][2]] = copied[k - 1][copies[k][1]]]
<1>1. n \in Nat /\ \A k \in 1 .. n : copies[k] \in Stream \X Stream
  OBVIOUS
<1> HIDE DEF n
<1>2. ASSUME NEW k \in 1 .. n, NEW d \in Keys PROVE CopyStep(d, copies[k]) \in Keys
  <2>1. copies[k][1] \in Stream /\ copies[k][2] \in Stream
    BY <1>1
  <2> QED BY <2>1 DEF CopyStep, Keys
<1>3. Steps(n, X, F) /\ data \in X[0]
  BY <1>1, <1>2 DEF Steps
<1>4. \A k \in 0 .. n : X[k] = Keys
  OBVIOUS
<1>5. \A k \in 1 .. n, d \in Keys : F[k][d] = CopyStep(d, copies[k])
  OBVIOUS
<1> HIDE DEF X, F
<1>6. PICK f : Loop(n, F, data, f) /\ \A k \in 0 .. n : f[k] \in X[k]
  BY <1>1, <1>3, LoopExists
<1>7. ASSUME NEW k \in 0 .. n
      PROVE  (IF k = 0 THEN data ELSE F[k][f[k - 1]])
                 = IF k = 0 THEN data ELSE CopyStep(f[k - 1], copies[k])
  <2>1. CASE k # 0
    <3>1. k \in 1 .. n /\ k - 1 \in 0 .. n
      BY <1>1, <2>1
    <3> QED BY <1>4, <1>5, <1>6, <3>1
  <2> QED BY <2>1
<1>8. f = [k \in 0 .. n |-> IF k = 0 THEN data ELSE CopyStep(f[k - 1], copies[k])]
  BY <1>6, <1>7 DEF Loop
<1>9. copied = [k \in 0 .. n |-> IF k = 0 THEN data ELSE CopyStep(copied[k - 1], copies[k])]
  BY <1>8 DEF CopyStep
<1>10. CopyAll(data, copies) = copied[n]
  BY DEF CopyAll, n
<1> HIDE DEF copied
<1>11. 0 .. n \subseteq {k \in 0 .. n : copied[k] \in Keys}
  <2> DEFINE A == {k \in 0 .. n : copied[k] \in Keys}
  <2>1. 0 \in A
    BY <1>1, <1>9
  <2>2. ASSUME NEW k \in 1 .. n, k - 1 \in A PROVE k \in A
    <3>1. k \in 0 .. n /\ k # 0
      BY <1>1
    <3>2. copied[k] = CopyStep(copied[k - 1], copies[k])
      BY <1>9, <3>1
    <3> QED BY <1>2, <2>2, <3>1, <3>2
  <2> HIDE DEF A
  <2>3. 0 .. n \subseteq A
    BY <1>1, <2>1, <2>2, UpTo
  <2> QED BY <2>3 DEF A
<1>12. CopyLoop(data, copies, copied)
  BY <1>9 DEF CopyLoop, n
<1>13. \A k \in 0 .. Len(copies) : copied[k] \in Keys
  BY <1>11 DEF n
<1> QED BY <1>10, <1>12, <1>13 DEF n

LEMMA CopyAllTyped ==
    ASSUME NEW data \in Keys, NEW copies \in Seq(Stream \X Stream)
    PROVE  CopyAll(data, copies) \in Keys
<1>1. PICK f : CopyAll(data, copies) = f[Len(copies)] /\ \A k \in 0 .. Len(copies) : f[k] \in Keys
  BY CopyAllIs
<1>2. Len(copies) \in 0 .. Len(copies)
  OBVIOUS
<1> QED BY <1>1, <1>2

LEMMA CopyNone ==
    ASSUME NEW data \in Keys
    PROVE  CopyAll(data, <<>>) = data
<1>1. <<>> \in Seq(Stream \X Stream) /\ Len(<<>>) = 0
  OBVIOUS
<1>2. PICK f : CopyLoop(data, <<>>, f) /\ CopyAll(data, <<>>) = f[0]
  BY <1>1, CopyAllIs
<1> QED BY <1>1, <1>2 DEF CopyLoop

\* A copy put off comes after the ones before it.
LEMMA CopyAllAppend ==
    ASSUME NEW data \in Keys, NEW copies \in Seq(Stream \X Stream), NEW x \in Stream \X Stream
    PROVE  CopyAll(data, Append(copies, x)) = CopyStep(CopyAll(data, copies), x)
<1> DEFINE n == Len(copies)
           more == Append(copies, x)
<1>1. n \in Nat /\ Len(more) = n + 1 /\ more \in Seq(Stream \X Stream)
      /\ more[n + 1] = x /\ \A k \in 1 .. n : more[k] = copies[k]
  OBVIOUS
<1> HIDE DEF more
<1>2. PICK f : CopyLoop(data, copies, f) /\ CopyAll(data, copies) = f[n]
  BY CopyAllIs
<1>3. PICK g : CopyLoop(data, more, g) /\ CopyAll(data, more) = g[n + 1]
  BY <1>1, CopyAllIs
<1>4. g[0] = data /\ \A k \in 1 .. n + 1 : g[k] = CopyStep(g[k - 1], more[k])
  <2>1. \A k \in 0 .. n + 1 : g[k] = IF k = 0 THEN data ELSE CopyStep(g[k - 1], more[k])
    BY <1>1, <1>3 DEF CopyLoop
  <2>2. 0 \in 0 .. n + 1 /\ \A k \in 1 .. n + 1 : k \in 0 .. n + 1 /\ k # 0
    BY <1>1
  <2> QED BY <2>1, <2>2
<1>5. f[0] = data /\ \A k \in 1 .. n : f[k] = CopyStep(f[k - 1], copies[k])
  <2>1. \A k \in 0 .. n : f[k] = IF k = 0 THEN data ELSE CopyStep(f[k - 1], copies[k])
    BY <1>2 DEF CopyLoop
  <2>2. 0 \in 0 .. n /\ \A k \in 1 .. n : k \in 0 .. n /\ k # 0
    BY <1>1
  <2> QED BY <2>1, <2>2
<1> DEFINE A == {k \in 0 .. n : f[k] = g[k]}
<1> HIDE DEF n
<1>6. 0 \in A
  BY <1>1, <1>4, <1>5
<1>7. ASSUME NEW k \in 1 .. n, k - 1 \in A PROVE k \in A
  <2>1. k \in 1 .. n + 1 /\ k \in 0 .. n
    BY <1>1
  <2> QED BY <1>1, <1>4, <1>5, <1>7, <2>1
<1> HIDE DEF A
<1>8. n \in A
  <2>1. 0 .. n \subseteq A
    BY <1>1, <1>6, <1>7, UpTo
  <2> QED BY <1>1, <2>1
<1>9. g[n + 1] = CopyStep(g[n], x)
  <2>1. n + 1 \in 1 .. n + 1 /\ (n + 1) - 1 = n
    BY <1>1
  <2> QED BY <1>1, <1>4, <2>1
<1>10. CopyAll(data, more) = CopyStep(CopyAll(data, copies), x)
  BY <1>2, <1>3, <1>8, <1>9 DEF A
<1> QED BY <1>10 DEF more

-----------------------------------------------------------------------------
(* The cells of a stream.                                                  *)

\* Cells with no shift put off.
CellsType == [pos : [Cell -> -1 .. NumCtx - 1], shift : [Cell -> {0}], head : 0 .. Size]

\* The used cells are positions 0 .. m - 1, each once.
Fills(c, m) ==
    /\ \A i \in Cell : c.pos[i] < m
    /\ \A p \in 0 .. m - 1 : \E i \in Cell : c.pos[i] = p
    /\ \A i, j \in Cell : c.pos[i] = c.pos[j] /\ c.pos[i] # -1 => i = j

LEMMA Sizes ==
    /\ NumCtx \in Nat \ {0} /\ Size \in Nat \ {0} /\ NumCtx <= Size /\ Stream = Slot
    /\ Parallel \in Nat \ {0} /\ NUbatch \in Nat \ {0} /\ Cell \subseteq 0 .. Size
    /\ NSeqMax = Parallel /\ BatchSize \in Nat \ {0}
BY KVAssumption, LlamaAssumption, CacheAssumption DEF Stream, Slot, Cell

LEMMA CellsExcept ==
    ASSUME NEW p, NEW s, NEW h, NEW x, NEW y,
           NEW c, c = [pos |-> p, shift |-> s, head |-> h]
    PROVE  /\ [c EXCEPT !.pos = x, !.shift = y] = [pos |-> x, shift |-> y, head |-> h]
           /\ [c EXCEPT !.head = x] = [pos |-> p, shift |-> s, head |-> x]
           /\ [c EXCEPT !.pos = x, !.head = y] = [pos |-> x, shift |-> s, head |-> y]
           /\ [c EXCEPT !.pos = x] = [pos |-> x, shift |-> s, head |-> h]
<1>1. [c EXCEPT !.pos = x] = [pos |-> x, shift |-> s, head |-> h]
  OBVIOUS
<1>2. [[pos |-> x, shift |-> s, head |-> h] EXCEPT !.shift = y] = [pos |-> x, shift |-> y, head |-> h]
  OBVIOUS
<1>3. [[pos |-> x, shift |-> s, head |-> h] EXCEPT !.head = y] = [pos |-> x, shift |-> s, head |-> y]
  OBVIOUS
<1>4. [c EXCEPT !.head = x] = [pos |-> p, shift |-> s, head |-> x]
  OBVIOUS
<1> QED BY <1>1, <1>2, <1>3, <1>4

\* What seq_rm leaves of them.
LEMMA RmIs ==
    ASSUME NEW c \in CellsType, NEW p0 \in Nat, NEW p1 \in Int
    PROVE  LET r == seq_rm(c, p0, p1)
           IN  /\ r \in CellsType
               /\ \A i \in Cell : r.pos[i] = IF c.pos[i] >= p0 /\ (p1 < 0 \/ c.pos[i] < p1)
                                             THEN -1 ELSE c.pos[i]
<1> DEFINE freed == InRange(c, p0, p1)
           h == Min({c.head} \cup freed)
           pos == [i \in Cell |-> IF i \in freed THEN -1 ELSE c.pos[i]]
           shift == [i \in Cell |-> IF i \in freed THEN 0 ELSE c.shift[i]]
<1>1. c.head \in 0 .. Size /\ c.pos \in [Cell -> -1 .. NumCtx - 1] /\ c.shift \in [Cell -> {0}]
      /\ c = [pos |-> c.pos, shift |-> c.shift, head |-> c.head]
  BY DEF CellsType
<1>2. freed \subseteq Cell /\ \A i \in Cell : i \in freed <=> c.pos[i] >= p0 /\ (p1 < 0 \/ c.pos[i] < p1)
  BY <1>1 DEF InRange, Used
<1> HIDE DEF freed
<1>3. h \in 0 .. Size
  <2>1. {c.head} \cup freed \subseteq Nat /\ {c.head} \cup freed # {} /\ {c.head} \cup freed \subseteq 0 .. Size
    BY <1>1, <1>2, Sizes
  <2> QED BY <2>1, MinIn
<1> HIDE DEF h
<1>4. seq_rm(c, p0, p1) = [Cleared(c, freed) EXCEPT !.head = Min({@} \cup freed)]
  BY DEF seq_rm, freed
<1>5. Cleared(c, freed) = [pos |-> pos, shift |-> shift, head |-> c.head]
  <2>1. Cleared(c, freed) = [c EXCEPT !.pos = pos, !.shift = shift]
    BY <1>1 DEF Cleared
  <2> HIDE DEF pos, shift
  <2> QED BY <1>1, <2>1, CellsExcept
<1>6. seq_rm(c, p0, p1) = [pos |-> pos, shift |-> shift, head |-> h]
  BY <1>4, <1>5 DEF h
<1>7. pos \in [Cell -> -1 .. NumCtx - 1] /\ shift \in [Cell -> {0}]
  BY <1>1, Sizes
<1>8. \A i \in Cell : pos[i] = IF c.pos[i] >= p0 /\ (p1 < 0 \/ c.pos[i] < p1) THEN -1 ELSE c.pos[i]
  BY <1>2
<1> HIDE DEF pos, shift
<1> QED BY <1>3, <1>6, <1>7, <1>8 DEF CellsType

LEMMA RmTail ==
    ASSUME NEW c \in CellsType, NEW m \in Nat, Fills(c, m), NEW p \in 0 .. m
    PROVE  LET r == seq_rm(c, p, -1)
           IN  /\ r \in CellsType /\ Fills(r, p)
               /\ \A i \in Cell : r.pos[i] = IF c.pos[i] < p THEN c.pos[i] ELSE -1
<1> DEFINE r == seq_rm(c, p, -1)
<1>1. \A i \in Cell : c.pos[i] \in Int
  BY DEF CellsType
<1>2. r \in CellsType /\ \A i \in Cell : r.pos[i] = IF c.pos[i] >= p THEN -1 ELSE c.pos[i]
  BY RmIs
<1> HIDE DEF r
<1>3. \A i \in Cell : r.pos[i] = IF c.pos[i] < p THEN c.pos[i] ELSE -1
  BY <1>1, <1>2
<1>4. \A i \in Cell : r.pos[i] < p
  BY <1>1, <1>3
<1>5. ASSUME NEW q \in 0 .. p - 1 PROVE \E i \in Cell : r.pos[i] = q
  <2>0. q \in 0 .. m - 1
    OBVIOUS
  <2>1. PICK i \in Cell : c.pos[i] = q
    BY <2>0 DEF Fills
  <2> QED BY <1>3, <2>1
<1>6. \A i, j \in Cell : r.pos[i] = r.pos[j] /\ r.pos[i] # -1 => i = j
  BY <1>3 DEF Fills
<1> QED BY <1>2, <1>3, <1>4, <1>5, <1>6 DEF Fills, r

\* A full context is shifted: positions a to b are removed, those from b on move down.
LEMMA ShiftIs ==
    ASSUME NEW c \in CellsType, Fills(c, NumCtx), NEW a \in Nat, NEW b \in Nat, a < b, b <= NumCtx
    PROVE  LET d == b - a
               r == seq_add(seq_rm(c, a, b), b, NumCtx, -d)
           IN  /\ r.head \in 0 .. Size
               /\ r \in [pos : [Cell -> -1 .. NumCtx - 1], shift : [Cell -> -d .. 0], head : 0 .. Size]
               /\ Fills(r, NumCtx - d)
               /\ \A i \in Cell : r.pos[i] = IF c.pos[i] < a THEN c.pos[i]
                                             ELSE IF c.pos[i] < b THEN -1 ELSE c.pos[i] - d
               /\ \A i \in Cell : r.shift[i] = IF c.pos[i] >= b THEN -d ELSE 0
<1> DEFINE d == b - a
           s == seq_rm(c, a, b)
           r == seq_add(s, b, NumCtx, -d)
<1>1. \A i \in Cell : c.pos[i] \in -1 .. NumCtx - 1
  BY DEF CellsType
<1>2. s \in CellsType /\ \A i \in Cell : s.pos[i] = IF c.pos[i] >= a /\ c.pos[i] < b THEN -1 ELSE c.pos[i]
  <2>1. s \in CellsType /\ \A i \in Cell : s.pos[i] = IF c.pos[i] >= a /\ (b < 0 \/ c.pos[i] < b) THEN -1 ELSE c.pos[i]
    BY RmIs
  <2> HIDE DEF s
  <2> QED BY <2>1
<1>3. d \in Nat /\ d # 0 /\ d <= NumCtx /\ -d \in Int /\ -d # 0
  BY Sizes
<1> DEFINE moved == InRange(s, b, NumCtx)
           freed == {i \in moved : s.pos[i] + -d < 0}
           added == [s EXCEPT !.pos = [i \in Cell |-> IF i \in moved THEN @[i] + -d ELSE @[i]],
                              !.shift = [i \in Cell |-> IF i \in moved THEN @[i] + -d ELSE @[i]]]
<1>4. r = IF -d = 0 \/ b = NumCtx THEN s
          ELSE [Cleared(added, freed) EXCEPT !.head = IF freed = {} THEN 0 ELSE Min(freed)]
  BY DEF seq_add
<1> HIDE DEF r, s
<1>5. moved \subseteq Cell /\ \A i \in Cell : i \in moved <=> c.pos[i] >= b
  <2>1. \A i \in Cell : s.pos[i] \in Int
    BY <1>2 DEF CellsType
  <2>2. \A i \in Cell : i \in moved <=> s.pos[i] >= b /\ s.pos[i] < NumCtx
    BY <2>1, Sizes DEF InRange, Used
  <2>3. \A i \in Cell : s.pos[i] >= b /\ s.pos[i] < NumCtx <=> c.pos[i] >= b
    BY <1>1, <1>2, Sizes
  <2> QED BY <2>2, <2>3 DEF InRange, Used
<1>6. \A i \in moved : s.pos[i] = c.pos[i]
  BY <1>1, <1>2, <1>5
<1>7. freed = {}
  <2>1. \A i \in moved : s.pos[i] + -d >= 0
    BY <1>1, <1>5, <1>6
  <2>2. \A i \in moved : s.pos[i] \in Int
    BY <1>2, <1>5 DEF CellsType
  <2> HIDE DEF moved, d
  <2> QED BY <1>3, <2>1, <2>2
<1> HIDE DEF moved, freed
<1>8. s.pos \in [Cell -> -1 .. NumCtx - 1] /\ s.shift \in [Cell -> {0}] /\ s.head \in 0 .. Size
      /\ s = [pos |-> s.pos, shift |-> s.shift, head |-> s.head]
  BY <1>2 DEF CellsType
<1> DEFINE pos == [i \in Cell |-> IF i \in moved THEN s.pos[i] + -d ELSE s.pos[i]]
           shift == [i \in Cell |-> IF i \in moved THEN s.shift[i] + -d ELSE s.shift[i]]
<1>9. r.pos = pos /\ r.shift = shift /\ r.head \in 0 .. Size
      /\ r = [pos |-> r.pos, shift |-> r.shift, head |-> r.head]
  <2>1. CASE b = NumCtx
    <3>1. moved = {}
      BY <1>1, <1>5, <2>1
    <3>2. r = s
      BY <1>4, <2>1
    <3>3. pos = s.pos /\ shift = s.shift
      BY <1>8, <3>1
    <3> QED BY <1>8, <3>2, <3>3
  <2>2. CASE b # NumCtx
    <3>1. added = [pos |-> pos, shift |-> shift, head |-> s.head]
      <4>1. added = [s EXCEPT !.pos = pos, !.shift = shift]
        BY <1>8
      <4> HIDE DEF pos, shift, added
      <4> QED BY <1>8, <4>1, CellsExcept
    <3>2. Cleared(added, {}) = [pos |-> pos, shift |-> shift, head |-> s.head]
      BY <3>1 DEF Cleared
    <3>3. r = [Cleared(added, {}) EXCEPT !.head = 0]
      BY <1>3, <1>4, <1>7, <2>2
    <3> HIDE DEF pos, shift, added
    <3>4. r = [pos |-> pos, shift |-> shift, head |-> 0]
      BY <3>2, <3>3
    <3> QED BY <3>4, Sizes
  <2> QED BY <2>1, <2>2
<1>10. \A i \in Cell : r.pos[i] = IF c.pos[i] < a THEN c.pos[i]
                                 ELSE IF c.pos[i] < b THEN -1 ELSE c.pos[i] - d
  <2>1. ASSUME NEW i \in Cell
        PROVE  r.pos[i] = IF c.pos[i] < a THEN c.pos[i] ELSE IF c.pos[i] < b THEN -1 ELSE c.pos[i] - d
    <3>1. r.pos[i] = IF c.pos[i] >= b THEN s.pos[i] + -d ELSE s.pos[i]
      BY <1>5, <1>9
    <3>2. s.pos[i] = IF c.pos[i] >= a /\ c.pos[i] < b THEN -1 ELSE c.pos[i]
      BY <1>2
    <3>3. c.pos[i] \in Int
      BY <1>1
    <3> QED BY <3>1, <3>2, <3>3
  <2> QED BY <2>1
<1>11. \A i \in Cell : r.shift[i] = IF c.pos[i] >= b THEN -d ELSE 0
  <2>1. \A i \in Cell : s.shift[i] = 0
    BY <1>8
  <2> HIDE DEF d
  <2> QED BY <1>3, <1>5, <1>9, <2>1
<1> HIDE DEF pos, shift
<1>12. \A i \in Cell : r.pos[i] \in -1 .. NumCtx - 1 /\ r.shift[i] \in -d .. 0 /\ r.pos[i] < NumCtx - d
  <2>1. ASSUME NEW i \in Cell PROVE r.pos[i] \in -1 .. NumCtx - 1 /\ r.shift[i] \in -d .. 0 /\ r.pos[i] < NumCtx - d
    <3>1. c.pos[i] \in -1 .. NumCtx - 1
      BY <1>1
    <3> QED BY <1>3, <1>10, <1>11, <3>1, Sizes
  <2> QED BY <2>1
<1>13. r \in [pos : [Cell -> -1 .. NumCtx - 1], shift : [Cell -> -d .. 0], head : 0 .. Size]
  <2>1. DOMAIN r.pos = Cell /\ DOMAIN r.shift = Cell /\ r.pos = [i \in Cell |-> r.pos[i]] /\ r.shift = [i \in Cell |-> r.shift[i]]
    BY <1>9 DEF pos, shift
  <2>2. r.pos \in [Cell -> -1 .. NumCtx - 1] /\ r.shift \in [Cell -> -d .. 0]
    BY <1>12, <2>1
  <2> QED BY <1>9, <2>2
<1>14. ASSUME NEW p \in 0 .. NumCtx - d - 1 PROVE \E i \in Cell : r.pos[i] = p
  <2>1. CASE p < a
    <3>1. PICK i \in Cell : c.pos[i] = p
      BY Sizes DEF Fills
    <3> QED BY <1>10, <2>1, <3>1
  <2>2. CASE p >= a
    <3>1. p + d \in 0 .. NumCtx - 1 /\ p + d >= b
      BY <2>2, Sizes
    <3>2. PICK i \in Cell : c.pos[i] = p + d
      BY <3>1 DEF Fills
    <3>3. r.pos[i] = p
      BY <1>10, <3>1, <3>2
    <3> QED BY <3>3
  <2> QED BY <2>1, <2>2
<1>15. ASSUME NEW i \in Cell, NEW j \in Cell, r.pos[i] = r.pos[j], r.pos[i] # -1 PROVE i = j
  <2>1. c.pos[i] \in -1 .. NumCtx - 1 /\ c.pos[j] \in -1 .. NumCtx - 1
    BY <1>1
  <2>2. c.pos[i] = c.pos[j] /\ c.pos[i] # -1
    BY <1>3, <1>10, <1>15, <2>1
  <2> QED BY <2>2 DEF Fills
<1>16. Fills(r, NumCtx - d)
  BY <1>12, <1>14, <1>15 DEF Fills
<1> QED BY <1>9, <1>10, <1>11, <1>13, <1>16 DEF r, s

-----------------------------------------------------------------------------
(* Placing tokens.                                                         *)

EmptyIn(c) == {i \in Cell : c.pos[i] = -1}

LEMMA CellFinite == IsFiniteSet(Cell) /\ Cardinality(Cell) = Size
<1>1. Size \in Nat \ {0}
  BY Sizes
<1> QED BY <1>1, FS_Interval DEF Cell

\* There are at least as many empty cells as positions left.
LEMMA EmptyCount ==
    ASSUME NEW c \in CellsType, NEW m \in Nat, Fills(c, m)
    PROVE  /\ IsFiniteSet(EmptyIn(c)) /\ Cardinality(EmptyIn(c)) \in Nat
           /\ Cardinality(EmptyIn(c)) >= Size - m
<1> DEFINE U == {i \in Cell : c.pos[i] # -1}
           f == [i \in U |-> c.pos[i]]
<1>0. \A i \in Cell : c.pos[i] \in -1 .. NumCtx - 1
  BY DEF CellsType
<1>1. IsFiniteSet(U) /\ Cardinality(U) \in Nat
  <2>1. U \in SUBSET Cell
    OBVIOUS
  <2> HIDE DEF U
  <2> QED BY <2>1, CellFinite, FS_Subset, FS_CardinalityType
<1>2. \A i \in U : c.pos[i] \in 0 .. m - 1
  <2>1. ASSUME NEW i \in Cell, c.pos[i] # -1 PROVE c.pos[i] \in 0 .. m - 1
    <3>1. c.pos[i] < m
      BY DEF Fills
    <3>2. c.pos[i] \in -1 .. NumCtx - 1
      BY <1>0
    <3> QED BY <2>1, <3>1, <3>2, Sizes
  <2> QED BY <2>1
<1>3. f \in [U -> 0 .. m - 1]
  BY <1>2
<1>4. IsFiniteSet(0 .. m - 1) /\ Cardinality(0 .. m - 1) = m
  <2>1. 0 \in Int /\ m - 1 \in Int
    OBVIOUS
  <2> QED BY <2>1, FS_Interval
<1>5. ASSUME Cardinality(U) > m PROVE FALSE
  <2>1. \A x, y \in U : f[x] = f[y] => x = y
    BY DEF Fills
  <2>2. Cardinality(0 .. m - 1) < Cardinality(U)
    BY <1>1, <1>4, <1>5
  <2> HIDE DEF f, U
  <2>3. \E x, y \in U : x # y /\ f[x] = f[y]
    BY <1>1, <1>3, <1>4, <2>2, FS_PigeonHole
  <2> QED BY <2>1, <2>3
<1>6. EmptyIn(c) = Cell \ U /\ Cell \cap U = U
  BY DEF EmptyIn
<1>7. IsFiniteSet(EmptyIn(c)) /\ Cardinality(EmptyIn(c)) = Size - Cardinality(U)
  <2> HIDE DEF U
  <2> QED BY <1>6, CellFinite, FS_Difference
<1>8. Cardinality(EmptyIn(c)) \in Nat
  BY <1>7, FS_CardinalityType
<1> HIDE DEF U
<1> QED BY <1>1, <1>5, <1>7, <1>8, Sizes

\* The first n of a set are found one after the other.
LEMMA NearestExist ==
    ASSUME NEW S, IsFiniteSet(S), NEW n \in Nat, n <= Cardinality(S),
           NEW off, \A i \in S : off[i] \in Nat
    PROVE  \E q \in [1 .. n -> S] :
              \A k \in 1 .. n : LET R == S \ {q[j] : j \in 1 .. k - 1}
                                IN  q[k] \in R /\ \A j \in R : off[q[k]] <= off[j]
<1> DEFINE Good(q, k) == LET R == S \ {q[j] : j \in 1 .. k - 1}
                         IN  q[k] \in R /\ \A j \in R : off[q[k]] <= off[j]
           A == {m \in 0 .. n : \E q \in [1 .. m -> S] : \A k \in 1 .. m : Good(q, k)}
<1>1. 0 \in A
  <2> DEFINE q == [k \in 1 .. 0 |-> k]
  <2>1. q \in [1 .. 0 -> S] /\ \A k \in 1 .. 0 : Good(q, k)
    OBVIOUS
  <2> HIDE DEF q, Good
  <2>2. \E r \in [1 .. 0 -> S] : \A k \in 1 .. 0 : Good(r, k)
    BY <2>1
  <2>3. 0 \in 0 .. n
    OBVIOUS
  <2> QED BY <2>2, <2>3
<1>2. ASSUME NEW m \in 1 .. n, m - 1 \in A PROVE m \in A
  <2>1. PICK q \in [1 .. m - 1 -> S] : \A k \in 1 .. m - 1 : Good(q, k)
    BY <1>2
  <2> DEFINE R == S \ {q[j] : j \in 1 .. m - 1}
  <2>2. R # {}
    <3>1. SUFFICES ASSUME R = {} PROVE FALSE
      OBVIOUS
    <3>2. \A e \in S : \E j \in 1 .. m - 1 : q[j] = e
      BY <3>1
    <3> DEFINE g == [e \in S |-> CHOOSE j \in 1 .. m - 1 : q[j] = e]
    <3>3. \A e \in S : g[e] \in 1 .. m - 1 /\ q[g[e]] = e
      BY <3>2
    <3>4. g \in [S -> 1 .. m - 1]
      BY <3>3
    <3> HIDE DEF g
    <3>5. IsFiniteSet(1 .. m - 1) /\ Cardinality(1 .. m - 1) = m - 1
      <4>1. 1 \in Int /\ m - 1 \in Int
        OBVIOUS
      <4> QED BY <4>1, FS_Interval
    <3>6. Cardinality(1 .. m - 1) < Cardinality(S)
      <4>1. Cardinality(S) \in Nat
        BY FS_CardinalityType
      <4> QED BY <3>5, <4>1
    <3>7. \E x, y \in S : x # y /\ g[x] = g[y]
      BY <3>4, <3>5, <3>6, FS_PigeonHole
    <3> QED BY <3>3, <3>7
  <2>3. PICK e \in R : \A j \in R : off[e] <= off[j]
    <3> DEFINE V == {off[j] : j \in R}
    <3>1. V \subseteq Nat /\ V # {}
      BY <2>2
    <3> HIDE DEF V
    <3>2. \E v \in V : \A u \in V : v <= u
      BY <3>1, Smallest
    <3> QED BY <3>2 DEF V
  <2> DEFINE h == [k \in 1 .. m |-> IF k = m THEN e ELSE q[k]]
  <2>4. h \in [1 .. m -> S]
    OBVIOUS
  <2>5. h[m] = e /\ \A k \in 1 .. m - 1 : h[k] = q[k]
    OBVIOUS
  <2> HIDE DEF h
  <2>6. ASSUME NEW k \in 1 .. m PROVE Good(h, k)
    <3>1. {h[j] : j \in 1 .. k - 1} = {q[j] : j \in 1 .. k - 1}
      <4>1. \A j \in 1 .. k - 1 : j \in 1 .. m - 1
        OBVIOUS
      <4> QED BY <2>5, <4>1
    <3>2. CASE k = m
      BY <2>3, <2>5, <3>1, <3>2
    <3>3. CASE k # m
      <4>1. k \in 1 .. m - 1
        BY <3>3
      <4> QED BY <2>1, <2>5, <3>1, <4>1
    <3> QED BY <3>2, <3>3
  <2>7. m \in 0 .. n
    OBVIOUS
  <2> HIDE DEF Good
  <2> QED BY <2>4, <2>6, <2>7
<1> HIDE DEF A
<1>3. 0 .. n \subseteq A
  BY <1>1, <1>2, UpTo
<1>4. n \in A
  BY <1>3
<1> QED BY <1>4 DEF A

\* find_slot finds empty cells if there is room, each of them once.
LEMMA SlotFound ==
    ASSUME NEW c \in CellsType, NEW m \in Nat, Fills(c, m), NEW n \in Nat \ {0}, m + n <= Size
    PROVE  LET q == find_slot(c, 0, n)
           IN  q \in [1 .. n -> EmptyIn(c)] /\ \A j, k \in 1 .. n : q[j] = q[k] => j = k
<1> DEFINE start == IF c.head > Cardinality(Used(c)) + 2 * n THEN 0 ELSE c.head
           usable == {i \in Cell : CanUse(c, 0, i)}
           off == [i \in usable |-> (i - start) % Size]
           Near(q, k) == LET R == usable \ {q[j] : j \in 1 .. k - 1}
                         IN  q[k] \in R /\ \A j \in R : off[q[k]] <= off[j]
           Off(i) == (i - start) % Size
           Nearest(i, S) == i \in S /\ \A j \in S : Off(i) <= Off(j)
           found == CHOOSE q \in [1 .. n -> usable] :
                        \A k \in 1 .. n : Nearest(q[k], usable \ {q[j] : j \in 1 .. k - 1})
<1>1. usable = EmptyIn(c)
  BY DEF CanUse, is_masked_swa, EmptyIn
<1>2. start \in Int
  <2>1. c.head \in 0 .. Size
    BY DEF CellsType
  <2> QED BY <2>1, Sizes
<1>3. IsFiniteSet(usable) /\ n <= Cardinality(usable)
  <2> HIDE DEF usable
  <2>1. Cardinality(EmptyIn(c)) \in Nat /\ Cardinality(EmptyIn(c)) >= Size - m /\ IsFiniteSet(EmptyIn(c))
    BY EmptyCount
  <2> QED BY <1>1, <2>1, Sizes
<1>4. find_slot(c, 0, n) = IF n > Cardinality(usable) THEN <<>> ELSE found
  BY DEF find_slot
<1>5. find_slot(c, 0, n) = found
  <2>1. Cardinality(usable) \in Nat
    <3> HIDE DEF usable
    <3> QED BY <1>3, FS_CardinalityType
  <2>2. ~ (n > Cardinality(usable))
    <3> HIDE DEF usable
    <3> QED BY <1>3, <2>1
  <2> HIDE DEF found, usable
  <2> QED BY <1>4, <2>2
<1>6. \A i \in usable : off[i] \in Nat /\ off[i] = Off(i)
  <2>1. \A i \in Cell : i \in Int
    BY DEF Cell
  <2> HIDE DEF start
  <2> QED BY <1>2, <2>1, Sizes
<1> HIDE DEF usable, off, start
<1>7. \E q \in [1 .. n -> usable] : \A k \in 1 .. n : Near(q, k)
  <2>1. n \in Nat
    OBVIOUS
  <2> QED BY <1>3, <1>6, <2>1, NearestExist
<1>8. \E q \in [1 .. n -> usable] :
          \A k \in 1 .. n : Nearest(q[k], usable \ {q[j] : j \in 1 .. k - 1})
  <2>1. PICK q \in [1 .. n -> usable] : \A k \in 1 .. n : Near(q, k)
    BY <1>7
  <2>2. ASSUME NEW k \in 1 .. n PROVE Nearest(q[k], usable \ {q[j] : j \in 1 .. k - 1})
    <3>1. Near(q, k)
      BY <2>1
    <3> QED BY <1>6, <3>1
  <2> QED BY <2>2
<1>9. found \in [1 .. n -> usable] /\ \A k \in 1 .. n : Nearest(found[k], usable \ {found[j] : j \in 1 .. k - 1})
  <2> HIDE DEF Nearest
  <2> QED BY <1>8
<1> HIDE DEF found
<1>10. \A j, k \in 1 .. n : j < k => found[j] # found[k]
  <2>1. ASSUME NEW j \in 1 .. n, NEW k \in 1 .. n, j < k PROVE found[j] # found[k]
    <3>1. j \in 1 .. k - 1
      BY <2>1
    <3>2. found[k] \in usable \ {found[l] : l \in 1 .. k - 1}
      BY <1>9
    <3> QED BY <3>1, <3>2
  <2> QED BY <2>1
<1>11. \A j, k \in 1 .. n : found[j] = found[k] => j = k
  <2>1. \A j, k \in 1 .. n : j = k \/ j < k \/ k < j
    OBVIOUS
  <2> QED BY <1>10, <2>1
<1> QED BY <1>1, <1>5, <1>9, <1>11

\* Cells for n tokens, all different and empty in c.
Fit(q, n, c) == q \in [1 .. n -> EmptyIn(c)] /\ \A j, k \in 1 .. n : q[j] = q[k] => j = k

\* apply_ubatch puts the next positions into them.
LEMMA ApplyIs ==
    ASSUME NEW c \in CellsType, NEW n \in Nat \ {0}, NEW q, Fit(q, n, c),
           NEW p \in Nat, p + n <= NumCtx
    PROVE  LET r == apply_ubatch(c, q, p)
           IN  /\ r \in CellsType
               /\ \A i \in Cell : i \notin ToSet(q) => r.pos[i] = c.pos[i]
               /\ \A k \in 1 .. n : q[k] \in Cell /\ q[k] \in ToSet(q) /\ r.pos[q[k]] = p + k - 1
<1> DEFINE T == ToSet(q)
           lost == Max({-1} \cup {c.pos[i] : i \in T})
           at(i) == CHOOSE k \in 1 .. Len(q) : q[k] = i
           placed == [Cleared(c, T) EXCEPT !.pos = [i \in Cell |-> IF i \in T THEN p + at(i) - 1 ELSE @[i]]]
           purged == IF lost = -1 \/ seq_pos_min(placed) > lost THEN placed
                     ELSE seq_rm(placed, seq_pos_min(placed), lost + 1)
           r == apply_ubatch(c, q, p)
<1>1. q \in Seq(Cell) /\ Len(q) = n /\ DOMAIN q = 1 .. n
  <2>1. q \in [1 .. n -> Cell]
    BY DEF Fit, EmptyIn
  <2> QED BY <2>1
<1>2. /\ T \subseteq Cell /\ \A i \in T : c.pos[i] = -1 /\ \E k \in 1 .. n : q[k] = i
      /\ \A k \in 1 .. n : q[k] \in T
  BY <1>1 DEF ToSet, Fit, EmptyIn
<1> HIDE DEF T
<1>3. lost = -1
  <2>1. {c.pos[i] : i \in T} \subseteq {-1}
    BY <1>2
  <2>2. {-1} \cup {c.pos[i] : i \in T} = {-1}
    BY <2>1
  <2>3. Max({-1}) = -1
    BY DEF Max
  <2> QED BY <2>2, <2>3
<1>4. r = [purged EXCEPT !.head = Last(q) + 1]
  BY DEF apply_ubatch, T
<1>5. purged = placed
  BY <1>3
<1> HIDE DEF purged, lost, r
<1> DEFINE pos0 == [i \in Cell |-> IF i \in T THEN -1 ELSE c.pos[i]]
           pos == [i \in Cell |-> IF i \in T THEN p + at(i) - 1 ELSE pos0[i]]
           shift == [i \in Cell |-> IF i \in T THEN 0 ELSE c.shift[i]]
<1>6. c.head \in 0 .. Size /\ c.pos \in [Cell -> -1 .. NumCtx - 1] /\ c.shift \in [Cell -> {0}]
      /\ c = [pos |-> c.pos, shift |-> c.shift, head |-> c.head]
  BY DEF CellsType
<1>7. Cleared(c, T) = [pos |-> pos0, shift |-> shift, head |-> c.head]
  <2>1. Cleared(c, T) = [c EXCEPT !.pos = pos0, !.shift = shift]
    BY <1>6 DEF Cleared
  <2> HIDE DEF pos0, shift
  <2> QED BY <1>6, <2>1, CellsExcept
<1>8. placed = [pos |-> pos, shift |-> shift, head |-> c.head]
  <2>1. placed = [Cleared(c, T) EXCEPT !.pos = pos]
    BY <1>7
  <2> HIDE DEF pos, shift, pos0, placed
  <2>2. [[pos |-> pos0, shift |-> shift, head |-> c.head] EXCEPT !.pos = pos]
            = [pos |-> pos, shift |-> shift, head |-> c.head]
    OBVIOUS
  <2> QED BY <1>7, <2>1, <2>2
<1>9. r = [pos |-> pos, shift |-> shift, head |-> Last(q) + 1]
  <2> HIDE DEF pos, shift, pos0, placed
  <2> QED BY <1>4, <1>5, <1>8, CellsExcept
<1>10. Last(q) + 1 \in 0 .. Size
  <2>1. Last(q) = q[n] /\ n \in 1 .. n
    BY <1>1 DEF Last
  <2>2. q[n] \in Cell
    BY <1>2, <2>1
  <2>3. q[n] \in 0 .. Size - 1
    BY <2>2 DEF Cell
  <2> QED BY <2>1, <2>3, Sizes
<1>11. ASSUME NEW k \in 1 .. n PROVE at(q[k]) = k
  <2>1. at(q[k]) \in 1 .. n /\ q[at(q[k])] = q[k]
    BY <1>1
  <2> HIDE DEF at
  <2> QED BY <2>1 DEF Fit
<1>12. \A k \in 1 .. n : q[k] \in Cell /\ q[k] \in T /\ pos[q[k]] = p + k - 1
  <2> HIDE DEF at
  <2> QED BY <1>2, <1>11
<1>13. \A i \in Cell : i \notin T => pos[i] = c.pos[i]
  OBVIOUS
<1>14. pos \in [Cell -> -1 .. NumCtx - 1] /\ shift \in [Cell -> {0}]
  <2>1. ASSUME NEW i \in Cell PROVE pos[i] \in -1 .. NumCtx - 1
    <3>1. CASE i \in T
      <4>1. PICK k \in 1 .. n : q[k] = i
        BY <1>2, <3>1
      <4>2. pos[i] = p + k - 1
        BY <1>12, <4>1
      <4> HIDE DEF pos
      <4> QED BY <4>2, Sizes
    <3>2. CASE i \notin T
      <4> HIDE DEF pos
      <4> QED BY <1>6, <1>13, <3>2
    <3> QED BY <3>1, <3>2
  <2>2. pos \in [Cell -> -1 .. NumCtx - 1]
    <3>1. pos = [i \in Cell |-> pos[i]]
      OBVIOUS
    <3> HIDE DEF pos
    <3> QED BY <2>1, <3>1
  <2>3. \A i \in Cell : shift[i] \in {0}
    BY <1>6
  <2> QED BY <2>2, <2>3
<1> HIDE DEF pos, shift
<1>15. r \in CellsType
  BY <1>9, <1>10, <1>14 DEF CellsType
<1>16. r.pos = pos
  BY <1>9
<1> QED BY <1>12, <1>13, <1>15, <1>16 DEF r, T

\* Behind it the used cells are n positions more.
LEMMA ApplyFills ==
    ASSUME NEW c \in CellsType, NEW n \in Nat \ {0}, NEW q, Fit(q, n, c),
           NEW p \in Nat, p + n <= NumCtx, Fills(c, p)
    PROVE  Fills(apply_ubatch(c, q, p), p + n)
<1> DEFINE r == apply_ubatch(c, q, p)
<1>1. /\ \A i \in Cell : i \notin ToSet(q) => r.pos[i] = c.pos[i]
      /\ \A k \in 1 .. n : q[k] \in Cell /\ r.pos[q[k]] = p + k - 1
      /\ r \in CellsType
  <2>1. /\ r \in CellsType
        /\ \A i \in Cell : i \notin ToSet(q) => r.pos[i] = c.pos[i]
        /\ \A k \in 1 .. n : q[k] \in Cell /\ q[k] \in ToSet(q) /\ r.pos[q[k]] = p + k - 1
    BY ApplyIs
  <2> HIDE DEF r
  <2> QED BY <2>1
<1>2. \A i \in ToSet(q) : i \in EmptyIn(c) /\ \E k \in 1 .. n : q[k] = i
  <2>1. DOMAIN q = 1 .. n /\ \A k \in 1 .. n : q[k] \in EmptyIn(c)
    BY DEF Fit
  <2> QED BY <2>1 DEF ToSet
<1> HIDE DEF r
<1>3. \A i \in Cell : c.pos[i] \in -1 .. NumCtx - 1 /\ c.pos[i] < p
  BY DEF Fills, CellsType
<1>4. ASSUME NEW i \in Cell
      PROVE  \/ i \notin ToSet(q) /\ r.pos[i] = c.pos[i] /\ r.pos[i] < p
             \/ \E k \in 1 .. n : q[k] = i /\ r.pos[i] = p + k - 1
  BY <1>1, <1>2, <1>3
<1>5. \A i \in Cell : r.pos[i] < p + n
  <2>1. ASSUME NEW i \in Cell PROVE r.pos[i] < p + n
    <3>1. CASE r.pos[i] = c.pos[i] /\ r.pos[i] < p
      BY <1>3, <3>1
    <3>2. CASE \E k \in 1 .. n : q[k] = i /\ r.pos[i] = p + k - 1
      BY <3>2
    <3> QED BY <1>4, <3>1, <3>2
  <2> QED BY <2>1
<1>6. ASSUME NEW u \in 0 .. p + n - 1 PROVE \E i \in Cell : r.pos[i] = u
  <2>1. CASE u < p
    <3>1. u \in 0 .. p - 1
      BY <2>1
    <3>2. PICK i \in Cell : c.pos[i] = u
      BY <3>1 DEF Fills
    <3>3. i \notin ToSet(q)
      BY <1>2, <3>1, <3>2 DEF EmptyIn
    <3> QED BY <1>1, <3>2, <3>3
  <2>2. CASE u >= p
    <3>1. u - p + 1 \in 1 .. n /\ p + (u - p + 1) - 1 = u
      BY <2>2
    <3> QED BY <1>1, <3>1
  <2> QED BY <2>1, <2>2
<1>7. ASSUME NEW i \in Cell, NEW j \in Cell, r.pos[i] = r.pos[j], r.pos[i] # -1 PROVE i = j
  <2>1. CASE i \notin ToSet(q) /\ j \notin ToSet(q)
    <3>1. c.pos[i] = c.pos[j] /\ c.pos[i] # -1
      BY <1>1, <1>7, <2>1
    <3> QED BY <3>1 DEF Fills
  <2>2. CASE i \notin ToSet(q) /\ j \in ToSet(q)
    <3>1. r.pos[i] < p /\ r.pos[i] \in Int
      BY <1>1, <1>3, <2>2
    <3>2. PICK k \in 1 .. n : r.pos[j] = p + k - 1
      BY <1>1, <1>2, <2>2
    <3> QED BY <1>7, <3>1, <3>2
  <2>3. CASE i \in ToSet(q) /\ j \notin ToSet(q)
    <3>1. r.pos[j] < p /\ r.pos[j] \in Int
      BY <1>1, <1>3, <2>3
    <3>2. PICK k \in 1 .. n : r.pos[i] = p + k - 1
      BY <1>1, <1>2, <2>3
    <3> QED BY <1>7, <3>1, <3>2
  <2>4. CASE i \in ToSet(q) /\ j \in ToSet(q)
    <3>1. PICK k \in 1 .. n : q[k] = i /\ r.pos[i] = p + k - 1
      BY <1>1, <1>2, <2>4
    <3>2. PICK l \in 1 .. n : q[l] = j /\ r.pos[j] = p + l - 1
      BY <1>1, <1>2, <2>4
    <3>3. p + k - 1 = p + l - 1
      BY <1>7, <3>1, <3>2
    <3>4. k = l
      BY <3>3
    <3> QED BY <3>1, <3>2, <3>4
  <2> QED BY <2>1, <2>2, <2>3, <2>4
<1> QED BY <1>5, <1>6, <1>7 DEF Fills, r

-----------------------------------------------------------------------------
(* The ubatches.                                                           *)

IsBatch(b) ==
    /\ DOMAIN b \subseteq Stream
    /\ \A s \in DOMAIN b : /\ b[s].place \in Nat /\ b[s].pos \in Nat /\ b[s].toks \in Seq(Nat)
                           /\ b[s].pos + Len(b[s].toks) <= NumCtx

\* How many tokens of each sequence are in an ubatch.
DoneType(b) == {d \in [DOMAIN b -> Nat] : \A s \in DOMAIN b : d[s] <= Len(b[s].toks)}

\* u takes the next tokens of some of the sequences, behind d, and e are done then.
Splits(b, d, u, e) ==
    /\ u.n \in Nat \ {0}
    /\ DOMAIN u.part \subseteq DOMAIN b /\ DOMAIN u.part # {}
    /\ \A s \in DOMAIN u.part :
        /\ u.part[s] = [pos |-> b[s].pos + d[s],
                        toks |-> SubSeq(b[s].toks, d[s] + 1, d[s] + u.n)]
        /\ d[s] + u.n <= Len(b[s].toks)
    /\ e = [s \in DOMAIN b |-> IF s \in DOMAIN u.part THEN d[s] + u.n ELSE d[s]]

LEMMA NextSeqsIs ==
    ASSUME NEW b, IsBatch(b), NEW d, Left(b, d) # {}
    PROVE  /\ NextSeqs(b, d) \subseteq Left(b, d) /\ NextSeqs(b, d) # {}
           /\ IsFiniteSet(NextSeqs(b, d)) /\ Cardinality(NextSeqs(b, d)) \in Nat \ {0}
<1> DEFINE left == Left(b, d)
           first == CHOOSE s \in left : \A t \in left : b[s].place <= b[t].place
           Chain(n) == /\ first .. first + n - 1 \subseteq left
                       /\ \A s \in first .. first + n - 2 : b[s].place < b[s + 1].place
           B == Min({NSeqMax, NUbatch + 1})
           S == {n \in 1 .. B : Chain(n)}
<1>1. left \subseteq DOMAIN b /\ left # {} /\ left \subseteq Nat
  BY Sizes DEF Left, IsBatch, Slot
<1>2. \A s \in left : b[s].place \in Nat
  BY <1>1 DEF IsBatch
<1>3. NextSeqs(b, d) = first .. first + Max(S) - 1
  BY DEF NextSeqs
<1> HIDE DEF left
<1>4. first \in left
  <2> DEFINE V == {b[s].place : s \in left}
  <2>1. V \subseteq Nat /\ V # {}
    BY <1>1, <1>2
  <2> HIDE DEF V
  <2>2. PICK v \in V : \A u \in V : v <= u
    BY <2>1, Smallest
  <2>3. \E s \in left : \A t \in left : b[s].place <= b[t].place
    BY <2>2 DEF V
  <2> QED BY <2>3
<1>5. first \in Nat
  BY <1>1, <1>4
<1> HIDE DEF first
<1>6. B \in Nat \ {0}
  <2>1. {NSeqMax, NUbatch + 1} \subseteq Nat \ {0} /\ {NSeqMax, NUbatch + 1} \subseteq Nat
    BY Sizes
  <2>2. B \in {NSeqMax, NUbatch + 1}
    BY <2>1, MinIn
  <2> QED BY <2>1, <2>2
<1> HIDE DEF B
<1>7. 1 \in S
  <2>1. first .. first + 1 - 1 = {first} /\ first .. first + 1 - 2 = {}
    BY <1>5
  <2>2. Chain(1)
    BY <1>4, <2>1
  <2> HIDE DEF Chain
  <2> QED BY <1>6, <2>2
<1>8. Max(S) \in S
  <2>1. S \subseteq 0 .. B /\ B \in Nat
    BY <1>6
  <2> HIDE DEF S
  <2> QED BY <1>7, <2>1, MaxIn
<1>9. Max(S) \in 1 .. B /\ first .. first + Max(S) - 1 \subseteq left
  <2> DEFINE m == Max(S)
  <2>1. m \in S
    BY <1>8
  <2> HIDE DEF m
  <2>2. m \in 1 .. B /\ Chain(m)
    <3> HIDE DEF Chain
    <3> QED BY <2>1
  <2>3. first .. first + m - 1 \subseteq left
    BY <2>2
  <2>4. m \in 1 .. B
    <3> HIDE DEF Chain
    <3> QED BY <2>2
  <2> HIDE DEF Chain
  <2> QED BY <2>3, <2>4 DEF m
<1> HIDE DEF S, Chain
<1>10. first \in first .. first + Max(S) - 1
  BY <1>5, <1>6, <1>9
<1>11. IsFiniteSet(first .. first + Max(S) - 1) /\ Cardinality(first .. first + Max(S) - 1) = Max(S)
  <2> DEFINE h == first + Max(S) - 1
  <2>1. first \in Int /\ h \in Int /\ ~ (first > h) /\ h - first + 1 = Max(S)
    BY <1>5, <1>6, <1>9
  <2> HIDE DEF h
  <2>2. IsFiniteSet(first .. h) /\ Cardinality(first .. h) = Max(S)
    BY <2>1, FS_Interval
  <2> QED BY <2>2 DEF h
<1>12. Max(S) \in Nat \ {0}
  BY <1>6, <1>9
<1> QED BY <1>3, <1>9, <1>10, <1>11, <1>12 DEF left

LEMMA NextUbatchIs ==
    ASSUME NEW b, IsBatch(b), NEW d \in DoneType(b), Left(b, d) # {}
    PROVE  /\ Splits(b, d, NextUbatch(b, d), Take(b, d))
           /\ Take(b, d) \in DoneType(b)
           /\ \E s \in DOMAIN b : Take(b, d)[s] > d[s]
           /\ \A s \in DOMAIN b : Take(b, d)[s] >= d[s]
<1> DEFINE seqns == NextSeqs(b, d)
           x == NUbatch \div Cardinality(seqns)
           lens == {Len(b[s].toks) - d[s] : s \in seqns}
           n == Min({Max({1, x})} \cup lens)
           u == NextUbatch(b, d)
           e == Take(b, d)
<1>1. /\ seqns \subseteq Left(b, d) /\ seqns # {}
      /\ IsFiniteSet(seqns) /\ Cardinality(seqns) \in Nat \ {0}
  BY NextSeqsIs
<1>2. u = [n |-> n, part |-> [s \in seqns |->
                                 [pos |-> b[s].pos + d[s],
                                  toks |-> SubSeq(b[s].toks, d[s] + 1, d[s] + n)]]]
  BY DEF NextUbatch
<1> HIDE DEF seqns
<1>3. \A s \in seqns : s \in DOMAIN b /\ d[s] \in Nat /\ Len(b[s].toks) \in Nat /\ d[s] < Len(b[s].toks)
  BY <1>1 DEF Left, IsBatch, DoneType
<1>4. x \in Nat
  BY <1>1, Sizes
<1> HIDE DEF x
<1>5. Max({1, x}) \in Nat \ {0}
  <2>1. {1, x} \subseteq 0 .. x + 1 /\ x + 1 \in Nat /\ {1, x} # {}
    BY <1>4
  <2>2. Max({1, x}) \in {1, x} /\ \A y \in {1, x} : Max({1, x}) >= y
    BY <2>1, MaxIn
  <2> QED BY <1>4, <2>2
<1>6. lens \subseteq Nat \ {0}
  <2>1. \A s \in seqns : Len(b[s].toks) - d[s] \in Nat \ {0}
    BY <1>3
  <2> QED BY <2>1
<1>7. n \in Nat \ {0} /\ \A s \in seqns : n <= Len(b[s].toks) - d[s]
  <2> DEFINE S == {Max({1, x})} \cup lens
  <2>1. S \subseteq Nat \ {0} /\ S \subseteq Nat /\ S # {}
    BY <1>5, <1>6
  <2>2. n = Min(S)
    OBVIOUS
  <2>3. \A s \in seqns : Len(b[s].toks) - d[s] \in S
    OBVIOUS
  <2> HIDE DEF S, n, lens
  <2>4. n \in S /\ \A y \in S : n <= y
    BY <2>1, <2>2, MinIn
  <2> QED BY <2>1, <2>3, <2>4
<1> HIDE DEF n, u
<1>8. u.n = n /\ DOMAIN u.part = seqns
      /\ \A s \in seqns : u.part[s] = [pos |-> b[s].pos + d[s],
                                       toks |-> SubSeq(b[s].toks, d[s] + 1, d[s] + n)]
  BY <1>2
<1>9. e = [s \in DOMAIN b |-> IF s \in seqns THEN d[s] + n ELSE d[s]]
  BY <1>8 DEF Take, u
<1> HIDE DEF e
<1>10. seqns \subseteq DOMAIN b
  BY <1>3
<1>11. \A s \in seqns : d[s] + n <= Len(b[s].toks)
  BY <1>3, <1>7
<1>12. Splits(b, d, u, e)
  BY <1>1, <1>7, <1>8, <1>9, <1>10, <1>11 DEF Splits
<1>13. \A s \in DOMAIN b : d[s] \in Nat /\ d[s] <= Len(b[s].toks)
  BY DEF DoneType
<1>14. e \in DoneType(b)
  <2>1. \A s \in DOMAIN b : e[s] \in Nat /\ e[s] <= Len(b[s].toks)
    BY <1>7, <1>9, <1>11, <1>13
  <2> QED BY <1>9, <2>1 DEF DoneType
<1>15. \A s \in DOMAIN b : e[s] >= d[s] /\ (s \in seqns => e[s] > d[s])
  BY <1>7, <1>9, <1>13
<1> QED BY <1>1, <1>10, <1>12, <1>14, <1>15 DEF u, e

Tokens(b) == UNION {{s} \X DOMAIN b[s].toks : s \in DOMAIN b}
DoneTokens(b, d) == {x \in Tokens(b) : x[2] <= d[x[1]]}

LEMMA TokensFinite ==
    ASSUME NEW b, IsBatch(b)
    PROVE  IsFiniteSet(Tokens(b)) /\ Cardinality(Tokens(b)) \in Nat
<1> DEFINE All == Stream \X (1 .. NumCtx)
<1>1. IsFiniteSet(All)
  <2>1. IsFiniteSet(Stream) /\ IsFiniteSet(1 .. NumCtx)
    <3>1. 0 \in Int /\ 1 \in Int /\ NSeqMax - 1 \in Int /\ NumCtx \in Int
      BY Sizes
    <3> QED BY <3>1, FS_Interval DEF Stream
  <2> QED BY <2>1, FS_Product
<1>2. Tokens(b) \in SUBSET All
  <2>1. ASSUME NEW s \in DOMAIN b, NEW x \in {s} \X DOMAIN b[s].toks PROVE x \in All
    <3>1. b[s].toks \in Seq(Nat) /\ b[s].pos \in Nat /\ b[s].pos + Len(b[s].toks) <= NumCtx /\ s \in Stream
      BY DEF IsBatch
    <3>2. DOMAIN b[s].toks \subseteq 1 .. NumCtx
      <4>1. DOMAIN b[s].toks = 1 .. Len(b[s].toks) /\ Len(b[s].toks) \in Nat /\ Len(b[s].toks) <= NumCtx
        BY <3>1, Sizes
      <4> QED BY <4>1, Sizes
    <3> QED BY <3>1, <3>2
  <2> QED BY <2>1 DEF Tokens
<1> HIDE DEF All
<1> QED BY <1>1, <1>2, FS_Subset, FS_CardinalityType

\* While tokens are left, a step takes one more at least.
LEMMA TakeMore ==
    ASSUME NEW b, IsBatch(b), NEW d \in DoneType(b), Left(b, d) # {}
    PROVE  Cardinality(DoneTokens(b, Take(b, d))) > Cardinality(DoneTokens(b, d))
<1> DEFINE e == Take(b, d)
           D == DoneTokens(b, d)
           E == DoneTokens(b, e)
<1>1. \A s \in DOMAIN b : d[s] \in Nat /\ e[s] \in Nat /\ e[s] >= d[s] /\ e[s] <= Len(b[s].toks)
  <2>1. e \in DoneType(b) /\ \A s \in DOMAIN b : e[s] >= d[s]
    BY NextUbatchIs
  <2> HIDE DEF e
  <2> QED BY <2>1 DEF DoneType
<1>2. PICK s \in DOMAIN b : e[s] > d[s]
  BY NextUbatchIs
<1> HIDE DEF e
<1>3. \A x \in Tokens(b) : x[1] \in DOMAIN b /\ x[2] \in Nat
  <2>1. ASSUME NEW t \in DOMAIN b, NEW x \in {t} \X DOMAIN b[t].toks PROVE x[1] \in DOMAIN b /\ x[2] \in Nat
    <3>1. b[t].toks \in Seq(Nat)
      BY DEF IsBatch
    <3>2. x[1] = t /\ x[2] \in DOMAIN b[t].toks
      OBVIOUS
    <3> QED BY <3>1, <3>2
  <2> QED BY <2>1 DEF Tokens
<1>4. D \subseteq E
  <2>1. ASSUME NEW x \in D PROVE x \in E
    <3>1. x \in Tokens(b) /\ x[2] <= d[x[1]]
      BY DEF DoneTokens
    <3>2. x[1] \in DOMAIN b /\ x[2] \in Nat
      BY <1>3, <3>1
    <3>3. x[2] <= e[x[1]]
      BY <1>1, <3>1, <3>2
    <3> QED BY <3>1, <3>3 DEF DoneTokens
  <2> QED BY <2>1
<1>5. <<s, e[s]>> \in E /\ <<s, e[s]>> \notin D
  <2>1. e[s] \in DOMAIN b[s].toks
    <3>1. b[s].toks \in Seq(Nat)
      BY DEF IsBatch
    <3>2. e[s] \in 1 .. Len(b[s].toks)
      BY <1>1, <1>2
    <3> QED BY <3>1, <3>2
  <2>2. <<s, e[s]>> \in Tokens(b)
    BY <2>1 DEF Tokens
  <2>3. e[s] <= e[s] /\ ~ (e[s] <= d[s])
    BY <1>1, <1>2
  <2>4. <<s, e[s]>>[1] = s /\ <<s, e[s]>>[2] = e[s]
    OBVIOUS
  <2> QED BY <2>2, <2>3, <2>4 DEF DoneTokens
<1>6. E \in SUBSET Tokens(b)
  BY DEF DoneTokens
<1> HIDE DEF D, E
<1>7. IsFiniteSet(E) /\ IsFiniteSet(D) /\ Cardinality(E) \in Nat /\ Cardinality(D) \in Nat
  <2>1. IsFiniteSet(E)
    BY <1>6, TokensFinite, FS_Subset
  <2>2. D \in SUBSET E
    BY <1>4
  <2> QED BY <2>1, <2>2, FS_Subset, FS_CardinalityType
<1>8. Cardinality(D) <= Cardinality(E) /\ (Cardinality(E) = Cardinality(D) => E = D)
  <2>1. D \in SUBSET E
    BY <1>4
  <2> QED BY <1>7, <2>1, FS_Subset
<1> QED BY <1>5, <1>7, <1>8 DEF D, E, e

\* All tokens are in ubatches when there are as many ubatches as tokens.
LEMMA TakenAll ==
    ASSUME NEW b, IsBatch(b), NEW d \in DoneType(b),
           Cardinality(DoneTokens(b, d)) >= Cardinality(Tokens(b))
    PROVE  Left(b, d) = {}
<1>1. DoneTokens(b, d) \in SUBSET Tokens(b)
  BY DEF DoneTokens
<1>2. DoneTokens(b, d) = Tokens(b)
  <2>1. IsFiniteSet(Tokens(b)) /\ Cardinality(Tokens(b)) \in Nat
    BY TokensFinite
  <2>2. Cardinality(DoneTokens(b, d)) <= Cardinality(Tokens(b)) /\ IsFiniteSet(DoneTokens(b, d))
        /\ (Cardinality(Tokens(b)) = Cardinality(DoneTokens(b, d)) => Tokens(b) = DoneTokens(b, d))
    BY <1>1, <2>1, FS_Subset
  <2>3. Cardinality(DoneTokens(b, d)) \in Nat
    BY <2>2, FS_CardinalityType
  <2> QED BY <2>1, <2>2, <2>3
<1>3. ASSUME NEW s \in Left(b, d) PROVE FALSE
  <2>1. s \in DOMAIN b /\ d[s] < Len(b[s].toks) /\ d[s] \in Nat /\ b[s].toks \in Seq(Nat)
    BY DEF Left, DoneType, IsBatch
  <2>2. d[s] + 1 \in DOMAIN b[s].toks
    <3>1. d[s] + 1 \in 1 .. Len(b[s].toks)
      BY <2>1
    <3> QED BY <2>1, <3>1
  <2>3. <<s, d[s] + 1>> \in Tokens(b)
    BY <2>1, <2>2 DEF Tokens
  <2>4. <<s, d[s] + 1>> \in DoneTokens(b, d)
    BY <1>2, <2>3
  <2>5. <<s, d[s] + 1>>[2] <= d[<<s, d[s] + 1>>[1]]
    BY <2>4 DEF DoneTokens
  <2>6. d[s] + 1 <= d[s]
    BY <2>5
  <2> QED BY <2>1, <2>6
<1> QED BY <1>3

\* split_equal takes all tokens of every sequence, in order.
LEMMA SplitIs ==
    ASSUME NEW b, IsBatch(b)
    PROVE  \E N \in Nat : \E done :
              /\ DOMAIN split_equal(b) = 1 .. N /\ Len(split_equal(b)) = N
              /\ \A k \in 0 .. N : done[k] \in DoneType(b)
              /\ done[0] = [s \in DOMAIN b |-> 0]
              /\ \A k \in 1 .. N : Splits(b, done[k - 1], split_equal(b)[k], done[k])
              /\ \A s \in DOMAIN b : done[N][s] = Len(b[s].toks)
<1> DEFINE total == Cardinality(Tokens(b))
           zero == [s \in DOMAIN b |-> 0]
           X == [k \in 0 .. total |-> {d \in DoneType(b) : Left(b, d) = {} \/ Cardinality(DoneTokens(b, d)) >= k}]
           F == [k \in 1 .. total |-> [d \in DoneType(b) |-> Take(b, d)]]
           done[k \in 0 .. total] == IF k = 0 THEN zero ELSE Take(b, done[k - 1])
           S == {k \in 0 .. total : Left(b, done[k]) = {}}
           us == [k \in 1 .. Min(S) |-> NextUbatch(b, done[k - 1])]
<1>1. total \in Nat
  BY TokensFinite
<1>2. split_equal(b) = us
  BY DEF split_equal, Tokens
<1> HIDE DEF total
<1>3. zero \in X[0]
  <2>1. \A s \in DOMAIN b : 0 <= Len(b[s].toks)
    BY DEF IsBatch
  <2>2. zero \in DoneType(b)
    BY <2>1 DEF DoneType
  <2>3. Cardinality(DoneTokens(b, zero)) \in Nat
    <3>1. DoneTokens(b, zero) \in SUBSET Tokens(b)
      BY DEF DoneTokens
    <3> HIDE DEF zero
    <3> QED BY <3>1, TokensFinite, FS_Subset, FS_CardinalityType
  <2> HIDE DEF zero
  <2> QED BY <1>1, <2>2, <2>3
<1> HIDE DEF zero
<1>4. ASSUME NEW k \in 1 .. total, NEW d \in X[k - 1] PROVE Take(b, d) \in X[k] /\ d \in DoneType(b)
  <2>1. d \in DoneType(b) /\ (Left(b, d) = {} \/ Cardinality(DoneTokens(b, d)) >= k - 1)
    BY <1>1
  <2>2. CASE Left(b, d) = {}
    <3>1. Take(b, d) = d
      BY <2>2 DEF Take
    <3> QED BY <1>1, <2>1, <2>2, <3>1
  <2>3. CASE Left(b, d) # {}
    <3>1. Take(b, d) \in DoneType(b)
      BY <2>1, <2>3, NextUbatchIs
    <3>2. Cardinality(DoneTokens(b, Take(b, d))) > Cardinality(DoneTokens(b, d))
      BY <2>1, <2>3, TakeMore
    <3>3. Cardinality(DoneTokens(b, d)) \in Nat /\ Cardinality(DoneTokens(b, Take(b, d))) \in Nat
      <4>1. DoneTokens(b, d) \in SUBSET Tokens(b) /\ DoneTokens(b, Take(b, d)) \in SUBSET Tokens(b)
        BY DEF DoneTokens
      <4> QED BY <4>1, TokensFinite, FS_Subset, FS_CardinalityType
    <3>4. Cardinality(DoneTokens(b, Take(b, d))) >= k
      BY <1>1, <2>1, <2>3, <3>2, <3>3
    <3> QED BY <1>1, <2>1, <3>1, <3>4
  <2> QED BY <2>2, <2>3
<1>5. \A k \in 1 .. total, d \in DoneType(b) : F[k][d] = Take(b, d)
  OBVIOUS
<1>6. \A k \in 0 .. total : \A d \in X[k] : d \in DoneType(b) /\ (Left(b, d) = {} \/ Cardinality(DoneTokens(b, d)) >= k)
  OBVIOUS
<1> HIDE DEF X, F
<1>7. Steps(total, X, F)
  BY <1>4, <1>5 DEF Steps
<1>8. PICK f : Loop(total, F, zero, f) /\ \A k \in 0 .. total : f[k] \in X[k]
  BY <1>1, <1>3, <1>7, LoopExists
<1>9. ASSUME NEW k \in 0 .. total
      PROVE  (IF k = 0 THEN zero ELSE F[k][f[k - 1]]) = IF k = 0 THEN zero ELSE Take(b, f[k - 1])
  <2>1. CASE k # 0
    <3>1. k \in 1 .. total /\ k - 1 \in 0 .. total
      BY <1>1, <2>1
    <3> QED BY <1>5, <1>6, <1>8, <3>1
  <2> QED BY <2>1
<1>10. f = [k \in 0 .. total |-> IF k = 0 THEN zero ELSE Take(b, f[k - 1])]
  BY <1>8, <1>9 DEF Loop
<1>11. done = [k \in 0 .. total |-> IF k = 0 THEN zero ELSE Take(b, done[k - 1])]
  BY <1>10
<1> HIDE DEF done
<1>12. 0 .. total \subseteq {k \in 0 .. total : done[k] \in X[k]}
  <2> DEFINE A == {k \in 0 .. total : done[k] \in X[k]}
  <2>1. 0 \in A
    BY <1>1, <1>3, <1>11
  <2>2. ASSUME NEW k \in 1 .. total, k - 1 \in A PROVE k \in A
    <3>1. k \in 0 .. total /\ k # 0
      BY <1>1
    <3>2. done[k] = Take(b, done[k - 1])
      BY <1>11, <3>1
    <3> QED BY <1>4, <2>2, <3>1, <3>2
  <2> HIDE DEF A
  <2>3. 0 .. total \subseteq A
    BY <1>1, <2>1, <2>2, UpTo
  <2> QED BY <2>3 DEF A
<1>13. \A k \in 0 .. total : done[k] \in DoneType(b)
  BY <1>6, <1>12
<1>14. total \in S
  <2>1. total \in 0 .. total /\ done[total] \in X[total]
    BY <1>1, <1>12
  <2>2. done[total] \in DoneType(b)
        /\ (Left(b, done[total]) = {} \/ Cardinality(DoneTokens(b, done[total])) >= total)
    BY <1>6, <2>1
  <2>3. Left(b, done[total]) = {}
    BY <2>2, TakenAll DEF total
  <2> QED BY <2>1, <2>3
<1>15. Min(S) \in 0 .. total /\ Left(b, done[Min(S)]) = {} /\ \A k \in 0 .. total : k < Min(S) => Left(b, done[k]) # {}
  <2>1. S \subseteq Nat /\ S # {}
    BY <1>1, <1>14
  <2> DEFINE m == Min(S)
  <2> HIDE DEF S
  <2>2. m \in S /\ \A y \in S : m <= y
    BY <2>1, MinIn
  <2> HIDE DEF m
  <2>3. m \in 0 .. total /\ Left(b, done[m]) = {}
    BY <2>2 DEF S
  <2>4. ASSUME NEW k \in 0 .. total, k < m PROVE Left(b, done[k]) # {}
    <3>1. k \notin S
      BY <2>2, <2>3, <2>4
    <3> QED BY <3>1 DEF S
  <2> QED BY <2>3, <2>4 DEF m
<1> DEFINE N == Min(S)
<1>16. N \in Nat /\ N <= total /\ N \in 0 .. total
  BY <1>1, <1>15
<1> HIDE DEF S
<1>17. DOMAIN us = 1 .. N /\ Len(us) = N /\ \A k \in 1 .. N : us[k] = NextUbatch(b, done[k - 1])
  <2>1. us \in [1 .. N -> {us[k] : k \in 1 .. N}] /\ \A k \in 1 .. N : us[k] = NextUbatch(b, done[k - 1])
    OBVIOUS
  <2> HIDE DEF us, N
  <2> QED BY <1>16, <2>1
<1> HIDE DEF us
<1>18. ASSUME NEW k \in 1 .. N PROVE Splits(b, done[k - 1], us[k], done[k])
  <2>1. k - 1 \in 0 .. total /\ k - 1 < N /\ k \in 0 .. total /\ k # 0
    <3> HIDE DEF N
    <3> QED BY <1>1, <1>16
  <2>2. Left(b, done[k - 1]) # {} /\ done[k - 1] \in DoneType(b)
    BY <1>13, <1>15, <2>1
  <2>3. done[k] = Take(b, done[k - 1])
    BY <1>11, <2>1
  <2>4. us[k] = NextUbatch(b, done[k - 1])
    BY <1>17
  <2> QED BY <2>2, <2>3, <2>4, NextUbatchIs
<1>19. ASSUME NEW s \in DOMAIN b PROVE done[N][s] = Len(b[s].toks)
  <2>1. done[N] \in DoneType(b) /\ Left(b, done[N]) = {}
    BY <1>13, <1>15, <1>16
  <2>2. done[N][s] \in Nat /\ done[N][s] <= Len(b[s].toks) /\ ~ (done[N][s] < Len(b[s].toks))
    BY <2>1 DEF DoneType, Left
  <2>3. Len(b[s].toks) \in Nat
    BY DEF IsBatch
  <2> QED BY <2>2, <2>3
<1>20. \A k \in 0 .. N : done[k] \in DoneType(b)
  <2>1. \A k \in 0 .. N : k \in 0 .. total
    <3> HIDE DEF N
    <3> QED BY <1>1, <1>16
  <2> QED BY <1>13, <2>1
<1>21. done[0] = [s \in DOMAIN b |-> 0]
  BY <1>1, <1>11 DEF zero
<1> HIDE DEF N
<1> QED BY <1>2, <1>16, <1>17, <1>18, <1>19, <1>20, <1>21

-----------------------------------------------------------------------------
(* Placing the ubatches of a batch.                                        *)

CellsSet == [Stream -> CellsType]

\* The streams of the batch hold its tokens up to d.
Reached(b, d, now) == \A s \in DOMAIN b : Fills(now[s], b[s].pos + d[s])

\* An ubatch fits behind d; what its placement does.
LEMMA Room ==
    ASSUME NEW b, IsBatch(b), NEW d \in DoneType(b), NEW e, NEW u, Splits(b, d, u, e)
    PROVE  /\ u.n \in Nat \ {0} /\ DOMAIN u.part \subseteq DOMAIN b /\ DOMAIN b \subseteq Stream
           /\ \A s \in DOMAIN u.part : /\ b[s].pos + d[s] \in Nat /\ u.part[s].pos = b[s].pos + d[s]
                                       /\ b[s].pos + d[s] + u.n <= NumCtx
                                       /\ e[s] = d[s] + u.n
           /\ \A s \in DOMAIN b \ DOMAIN u.part : e[s] = d[s]
<1>1. u.n \in Nat \ {0} /\ DOMAIN u.part \subseteq DOMAIN b /\ DOMAIN b \subseteq Stream
  BY DEF Splits, IsBatch
<1>2. ASSUME NEW s \in DOMAIN u.part
      PROVE  b[s].pos + d[s] \in Nat /\ u.part[s].pos = b[s].pos + d[s] /\ b[s].pos + d[s] + u.n <= NumCtx
  <2>1. s \in DOMAIN b /\ d[s] + u.n <= Len(b[s].toks) /\ u.part[s].pos = b[s].pos + d[s]
    <3>1. /\ u.part[s] = [pos |-> b[s].pos + d[s],
                          toks |-> SubSeq(b[s].toks, d[s] + 1, d[s] + u.n)]
          /\ d[s] + u.n <= Len(b[s].toks)
      BY DEF Splits
    <3>2. u.part[s].pos = b[s].pos + d[s]
      BY <3>1
    <3> QED BY <1>1, <3>1, <3>2
  <2>2. d[s] \in Nat /\ b[s].pos \in Nat /\ b[s].toks \in Seq(Nat) /\ b[s].pos + Len(b[s].toks) <= NumCtx
    BY <2>1 DEF IsBatch, DoneType
  <2>3. Len(b[s].toks) \in Nat
    BY <2>2
  <2> QED BY <1>1, <2>1, <2>2, <2>3, Sizes
<1>3. \A s \in DOMAIN b : e[s] = IF s \in DOMAIN u.part THEN d[s] + u.n ELSE d[s]
  BY DEF Splits
<1> QED BY <1>1, <1>2, <1>3

LEMMA Finds ==
    ASSUME NEW b, IsBatch(b), NEW d \in DoneType(b), NEW e, NEW u, Splits(b, d, u, e),
           NEW now \in CellsSet, Reached(b, d, now), NEW s \in DOMAIN u.part
    PROVE  Fit(find_slot(now[s], 0, u.n), u.n, now[s])
<1>1. s \in DOMAIN b /\ now[s] \in CellsType
  BY Room DEF CellsSet
<1>2. Fills(now[s], b[s].pos + d[s])
  BY <1>1 DEF Reached
<1> DEFINE m == b[s].pos + d[s]
<1>3. m \in Nat /\ m + u.n <= Size /\ u.n \in Nat \ {0}
  BY Room, Sizes
<1> HIDE DEF m
<1> QED BY <1>1, <1>2, <1>3, SlotFound DEF Fit, m

LEMMA Applies ==
    ASSUME NEW b, IsBatch(b), NEW d \in DoneType(b), NEW e, NEW u, Splits(b, d, u, e),
           NEW now \in CellsSet, Reached(b, d, now),
           NEW idxs, \A s \in DOMAIN u.part : Fit(idxs[s], u.n, now[s])
    PROVE  LET r == ApplyAll(now, u, idxs)
           IN  /\ r \in CellsSet /\ Reached(b, e, r)
               /\ \A s \in Stream \ DOMAIN u.part : r[s] = now[s]
               /\ \A s \in DOMAIN u.part :
                   /\ \A i \in Cell : i \notin ToSet(idxs[s]) => r[s].pos[i] = now[s].pos[i]
                   /\ \A k \in 1 .. u.n : /\ idxs[s][k] \in Cell /\ idxs[s][k] \in ToSet(idxs[s])
                                          /\ r[s].pos[idxs[s][k]] = b[s].pos + d[s] + k - 1
<1> DEFINE r == ApplyAll(now, u, idxs)
<1>1. /\ u.n \in Nat \ {0} /\ DOMAIN u.part \subseteq DOMAIN b /\ DOMAIN b \subseteq Stream
      /\ \A s \in DOMAIN u.part : /\ b[s].pos + d[s] \in Nat /\ u.part[s].pos = b[s].pos + d[s]
                                  /\ b[s].pos + d[s] + u.n <= NumCtx
                                  /\ e[s] = d[s] + u.n
      /\ \A s \in DOMAIN b \ DOMAIN u.part : e[s] = d[s]
  BY Room
<1>2. \A s \in Stream : r[s] = IF s \in DOMAIN u.part THEN apply_ubatch(now[s], idxs[s], u.part[s].pos) ELSE now[s]
  BY DEF ApplyAll
<1>3. DOMAIN r = Stream /\ r = [s \in Stream |-> r[s]]
  BY DEF ApplyAll
<1> HIDE DEF r
<1>4. ASSUME NEW s \in DOMAIN u.part
      PROVE  /\ r[s] \in CellsType /\ Fills(r[s], b[s].pos + e[s])
             /\ \A i \in Cell : i \notin ToSet(idxs[s]) => r[s].pos[i] = now[s].pos[i]
             /\ \A k \in 1 .. u.n : /\ idxs[s][k] \in Cell /\ idxs[s][k] \in ToSet(idxs[s])
                                    /\ r[s].pos[idxs[s][k]] = b[s].pos + d[s] + k - 1
  <2> DEFINE p == b[s].pos + d[s]
             q == idxs[s]
             n == u.n
             c == now[s]
  <2>1. c \in CellsType /\ Fills(c, p) /\ s \in Stream
    BY <1>1 DEF CellsSet, Reached
  <2>2. p \in Nat /\ p + n <= NumCtx /\ n \in Nat \ {0} /\ Fit(q, n, c)
    BY <1>1
  <2>3. r[s] = apply_ubatch(c, q, p)
    BY <1>1, <1>2, <2>1
  <2>4. b[s].pos + e[s] = p + n
    <3>1. b[s].pos \in Nat /\ d[s] \in Nat
      BY <1>1 DEF IsBatch, DoneType
    <3> QED BY <1>1, <3>1
  <2> HIDE DEF p, q, n, c
  <2>5. Fills(apply_ubatch(c, q, p), p + n)
    BY <2>1, <2>2, ApplyFills
  <2>6. /\ apply_ubatch(c, q, p) \in CellsType
        /\ \A i \in Cell : i \notin ToSet(q) => apply_ubatch(c, q, p).pos[i] = c.pos[i]
        /\ \A k \in 1 .. n : q[k] \in Cell /\ q[k] \in ToSet(q) /\ apply_ubatch(c, q, p).pos[q[k]] = p + k - 1
    BY <2>1, <2>2, ApplyIs
  <2> QED BY <2>3, <2>4, <2>5, <2>6 DEF p, q, n, c
<1>5. \A s \in Stream \ DOMAIN u.part : r[s] = now[s] /\ r[s] \in CellsType
  BY <1>2 DEF CellsSet
<1>6. r \in CellsSet
  <2>1. \A s \in Stream : r[s] \in CellsType
    BY <1>4, <1>5
  <2> QED BY <1>3, <2>1 DEF CellsSet
<1>7. Reached(b, e, r)
  <2>1. ASSUME NEW s \in DOMAIN b PROVE Fills(r[s], b[s].pos + e[s])
    <3>1. CASE s \in DOMAIN u.part
      BY <1>4, <3>1
    <3>2. CASE s \notin DOMAIN u.part
      <4>1. r[s] = now[s] /\ e[s] = d[s] /\ Fills(now[s], b[s].pos + d[s])
        BY <1>1, <1>5, <3>2 DEF Reached
      <4> QED BY <4>1
    <3> QED BY <3>1, <3>2
  <2> QED BY <2>1 DEF Reached
<1> QED BY <1>4, <1>5, <1>6, <1>7 DEF r

\* The ubatches us of a batch, with what is done behind each.
Split(b, N, us, done) ==
    /\ N \in Nat /\ DOMAIN us = 1 .. N /\ Len(us) = N
    /\ \A k \in 0 .. N : done[k] \in DoneType(b)
    /\ done[0] = [s \in DOMAIN b |-> 0]
    /\ \A k \in 1 .. N : Splits(b, done[k - 1], us[k], done[k])
    /\ \A s \in DOMAIN b : done[N][s] = Len(b[s].toks)

\* The cells behind each of them, when they are placed in idxs.
Places(b, N, us, done, cells, idxs, placed) ==
    /\ placed[0] = cells
    /\ \A k \in 0 .. N : placed[k] \in CellsSet /\ Reached(b, done[k], placed[k])
    /\ \A k \in 1 .. N :
        /\ placed[k] = ApplyAll(placed[k - 1], us[k], idxs[k])
        /\ \A s \in DOMAIN us[k].part : Fit(idxs[k][s], us[k].n, placed[k - 1][s])

\* A cell keeps its position until an ubatch takes it.
LEMMA Untouched ==
    ASSUME NEW b, IsBatch(b), NEW N, NEW us, NEW done, Split(b, N, us, done),
           NEW cells, NEW idxs, NEW placed, Places(b, N, us, done, cells, idxs, placed),
           NEW m \in 0 .. N, NEW s \in Stream, NEW i \in Cell,
           \A k \in 1 .. m : s \in DOMAIN us[k].part => i \notin ToSet(idxs[k][s])
    PROVE  placed[m][s].pos[i] = cells[s].pos[i]
<1> DEFINE A == {k \in 0 .. m : placed[k][s].pos[i] = cells[s].pos[i]}
<1>0. m \in Nat /\ N \in Nat /\ \A k \in 1 .. m : k \in 1 .. N /\ k - 1 \in 0 .. N
  BY DEF Split
<1>1. 0 \in A
  BY <1>0 DEF Places
<1>2. ASSUME NEW k \in 1 .. m, k - 1 \in A PROVE k \in A
  <2>1. /\ placed[k] = ApplyAll(placed[k - 1], us[k], idxs[k])
        /\ \A t \in DOMAIN us[k].part : Fit(idxs[k][t], us[k].n, placed[k - 1][t])
        /\ placed[k - 1] \in CellsSet /\ Reached(b, done[k - 1], placed[k - 1])
    BY <1>0 DEF Places
  <2>2. done[k - 1] \in DoneType(b) /\ Splits(b, done[k - 1], us[k], done[k])
    BY <1>0 DEF Split
  <2> DEFINE r == ApplyAll(placed[k - 1], us[k], idxs[k])
  <2>3. /\ \A t \in Stream \ DOMAIN us[k].part : r[t] = placed[k - 1][t]
        /\ \A t \in DOMAIN us[k].part :
               \A j \in Cell : j \notin ToSet(idxs[k][t]) => r[t].pos[j] = placed[k - 1][t].pos[j]
    <3> HIDE DEF r
    <3> DEFINE d == done[k - 1]
               now == placed[k - 1]
               u == us[k]
               q == idxs[k]
    <3>1. d \in DoneType(b) /\ Splits(b, d, u, done[k]) /\ now \in CellsSet /\ Reached(b, d, now)
          /\ \A t \in DOMAIN u.part : Fit(q[t], u.n, now[t])
      BY <2>1, <2>2
    <3> HIDE DEF d, now, u, q
    <3>2. /\ \A t \in Stream \ DOMAIN u.part : ApplyAll(now, u, q)[t] = now[t]
          /\ \A t \in DOMAIN u.part :
                 \A j \in Cell : j \notin ToSet(q[t]) => ApplyAll(now, u, q)[t].pos[j] = now[t].pos[j]
      BY <3>1, Applies
    <3> QED BY <3>2 DEF d, now, u, q, r
  <2> HIDE DEF r
  <2>4. r[s].pos[i] = placed[k - 1][s].pos[i]
    <3>1. CASE s \in DOMAIN us[k].part
      BY <2>3, <3>1
    <3>2. CASE s \notin DOMAIN us[k].part
      BY <2>3, <3>2
    <3> QED BY <3>1, <3>2
  <2>5. placed[k - 1][s].pos[i] = cells[s].pos[i] /\ k \in 0 .. m
    BY <1>2
  <2> QED BY <2>1, <2>4, <2>5 DEF r
<1> HIDE DEF A
<1>3. 0 .. m \subseteq A
  BY <1>0, <1>1, <1>2, UpTo
<1>4. m \in A
  BY <1>0, <1>3
<1> QED BY <1>4 DEF A

Found(now, u) == [s \in DOMAIN u.part |-> find_slot(now[s], 0, u.n)]

\* The loop in which prepare places the ubatches, and what it found.
LEMMA PlacedIs ==
    ASSUME NEW b, IsBatch(b), NEW N, NEW us, NEW done, Split(b, N, us, done),
           NEW cells \in CellsSet, Reached(b, done[0], cells)
    PROVE  \E placed :
              /\ placed = [k \in 0 .. N |-> IF k = 0 THEN cells
                              ELSE ApplyAll(placed[k - 1], us[k], Found(placed[k - 1], us[k]))]
              /\ Places(b, N, us, done, cells,
                        [k \in 1 .. N |-> Found(placed[k - 1], us[k])], placed)
<1> DEFINE X == [k \in 0 .. N |-> {now \in CellsSet : Reached(b, done[k], now)}]
           F == [k \in 1 .. N |-> [now \in CellsSet |-> ApplyAll(now, us[k], Found(now, us[k]))]]
<1>1. N \in Nat /\ \A k \in 1 .. N : /\ Splits(b, done[k - 1], us[k], done[k])
                                     /\ done[k - 1] \in DoneType(b) /\ k - 1 \in 0 .. N /\ k \in 0 .. N
  BY DEF Split
<1>2. \A k \in 0 .. N : \A now \in X[k] : now \in CellsSet /\ Reached(b, done[k], now)
  OBVIOUS
<1>3. \A k \in 1 .. N, now \in CellsSet : F[k][now] = ApplyAll(now, us[k], Found(now, us[k]))
  OBVIOUS
<1>4. ASSUME NEW k \in 1 .. N, NEW now \in CellsSet, Reached(b, done[k - 1], now)
      PROVE  /\ \A s \in DOMAIN us[k].part : Fit(Found(now, us[k])[s], us[k].n, now[s])
             /\ ApplyAll(now, us[k], Found(now, us[k])) \in CellsSet
             /\ Reached(b, done[k], ApplyAll(now, us[k], Found(now, us[k])))
  <2> DEFINE d == done[k - 1]
             e == done[k]
             u == us[k]
             q == Found(now, u)
  <2>1. d \in DoneType(b) /\ Splits(b, d, u, e) /\ Reached(b, d, now)
    BY <1>1, <1>4
  <2> HIDE DEF d, e, u
  <2>2. \A s \in DOMAIN u.part : Fit(q[s], u.n, now[s])
    BY <2>1, Finds DEF Found
  <2> HIDE DEF q
  <2>3. ApplyAll(now, u, q) \in CellsSet /\ Reached(b, e, ApplyAll(now, u, q))
    BY <2>1, <2>2, Applies
  <2> QED BY <2>2, <2>3 DEF d, e, u, q
<1>5. cells \in X[0] /\ 0 \in 0 .. N
  BY <1>1
<1>6. \A k \in 0 .. N : \A now \in CellsSet : Reached(b, done[k], now) => now \in X[k]
  OBVIOUS
<1> HIDE DEF X, F
<1>7. Steps(N, X, F)
  <2>1. ASSUME NEW k \in 1 .. N, NEW x \in X[k - 1] PROVE F[k][x] \in X[k]
    <3>1. x \in CellsSet /\ Reached(b, done[k - 1], x)
      BY <1>1, <1>2
    <3>2. ApplyAll(x, us[k], Found(x, us[k])) \in X[k]
      BY <1>1, <1>4, <1>6, <3>1
    <3> QED BY <1>3, <3>1, <3>2
  <2> QED BY <2>1 DEF Steps
<1>8. PICK f : Loop(N, F, cells, f) /\ \A k \in 0 .. N : f[k] \in X[k]
  BY <1>1, <1>5, <1>7, LoopExists
<1>9. ASSUME NEW k \in 0 .. N
      PROVE  (IF k = 0 THEN cells ELSE F[k][f[k - 1]])
                 = IF k = 0 THEN cells ELSE ApplyAll(f[k - 1], us[k], Found(f[k - 1], us[k]))
  <2>1. CASE k # 0
    <3>1. k \in 1 .. N /\ k - 1 \in 0 .. N
      BY <1>1, <2>1
    <3>2. f[k - 1] \in CellsSet
      BY <1>2, <1>8, <3>1
    <3> QED BY <1>3, <2>1, <3>1, <3>2
  <2> QED BY <2>1
<1>10. f = [k \in 0 .. N |-> IF k = 0 THEN cells ELSE ApplyAll(f[k - 1], us[k], Found(f[k - 1], us[k]))]
  BY <1>8, <1>9 DEF Loop
<1>11. f[0] = cells /\ \A k \in 1 .. N : f[k] = ApplyAll(f[k - 1], us[k], Found(f[k - 1], us[k]))
  <2>1. \A k \in 0 .. N : f[k] = IF k = 0 THEN cells ELSE ApplyAll(f[k - 1], us[k], Found(f[k - 1], us[k]))
    BY <1>10
  <2>2. \A k \in 1 .. N : k \in 0 .. N /\ k # 0
    BY <1>1
  <2> QED BY <1>5, <2>1, <2>2
<1>12. \A k \in 0 .. N : f[k] \in CellsSet /\ Reached(b, done[k], f[k])
  BY <1>2, <1>8
<1> DEFINE idxs == [k \in 1 .. N |-> Found(f[k - 1], us[k])]
<1>13. ASSUME NEW k \in 1 .. N
       PROVE  /\ f[k] = ApplyAll(f[k - 1], us[k], idxs[k])
              /\ \A s \in DOMAIN us[k].part : Fit(idxs[k][s], us[k].n, f[k - 1][s])
  <2>1. idxs[k] = Found(f[k - 1], us[k])
    OBVIOUS
  <2> HIDE DEF idxs
  <2>2. f[k - 1] \in CellsSet /\ Reached(b, done[k - 1], f[k - 1])
    BY <1>1, <1>12
  <2> QED BY <1>4, <1>11, <2>1, <2>2
<1> HIDE DEF idxs
<1>14. Places(b, N, us, done, cells, idxs, f)
  BY <1>11, <1>12, <1>13 DEF Places
<1> QED BY <1>10, <1>14 DEF idxs

\* prepare finds cells for all ubatches, and leaves the positions as they were.
LEMMA PrepareIs ==
    ASSUME NEW b, IsBatch(b), NEW N, NEW us, NEW done, Split(b, N, us, done),
           NEW cells \in CellsSet, Reached(b, done[0], cells)
    PROVE  \E idxs, placed :
              /\ Places(b, N, us, done, cells, idxs, placed)
              /\ LET f == prepare(cells, 0, us)
                 IN  /\ f.ok /\ f.idxs = idxs /\ f.cells \in CellsSet
                     /\ \A s \in Stream, i \in Cell : f.cells[s].pos[i] = cells[s].pos[i]
<1> DEFINE Fnd(now, u) == [s \in DOMAIN u.part |-> find_slot(now[s], 0, u.n)]
           placed[k \in 0 .. Len(us)] ==
               IF k = 0 THEN cells ELSE ApplyAll(placed[k - 1], us[k], Fnd(placed[k - 1], us[k]))
           ok == \A k \in DOMAIN us : \A s \in DOMAIN us[k].part : Fnd(placed[k - 1], us[k])[s] # <<>>
           idxs == [k \in DOMAIN us |-> Fnd(placed[k - 1], us[k])]
           With(s) == {k \in DOMAIN us : s \in DOMAIN us[k].part}
           Took(s, i) == {k \in With(s) : i \in ToSet(idxs[k][s])}
           HeadAt(s) == LET k == Min(With(s)) IN placed[k - 1][s - Min(DOMAIN us[k].part)].head
           Pos(s, c) == [i \in Cell |-> IF Took(s, i) = {} THEN c.pos[i]
                                        ELSE placed[Min(Took(s, i)) - 1][s].pos[i]]
           Restored(s, c) ==
               [c EXCEPT !.pos = [i \in Cell |-> IF Took(s, i) = {} THEN @[i]
                                                 ELSE placed[Min(Took(s, i)) - 1][s].pos[i]],
                         !.head = LET k == Min(With(s))
                                  IN  placed[k - 1][s - Min(DOMAIN us[k].part)].head]
           back == [s \in Stream |-> IF With(s) = {} THEN cells[s]
                                     ELSE Restored(s, placed[Len(us)][s])]
           f == prepare(cells, 0, us)
<1>1. f = IF ~ok THEN [ok |-> FALSE] ELSE [ok |-> TRUE, idxs |-> idxs, cells |-> back]
  BY DEF prepare
<1> HIDE DEF f
<1>2. /\ N \in Nat /\ DOMAIN us = 1 .. N /\ Len(us) = N
      /\ \A k \in 1 .. N : /\ k - 1 \in 0 .. N /\ k \in 0 .. N /\ us[k].n \in Nat \ {0}
                           /\ DOMAIN us[k].part \subseteq Stream /\ DOMAIN us[k].part # {}
  <2>1. N \in Nat /\ DOMAIN us = 1 .. N /\ Len(us) = N
    BY DEF Split
  <2>2. \A k \in 1 .. N : k - 1 \in 0 .. N /\ k \in 0 .. N
    BY <2>1
  <2>3. \A k \in 1 .. N : us[k].n \in Nat \ {0} /\ DOMAIN us[k].part \subseteq DOMAIN b /\ DOMAIN us[k].part # {}
    BY DEF Split, Splits
  <2>4. DOMAIN b \subseteq Stream
    BY DEF IsBatch
  <2> QED BY <2>1, <2>2, <2>3, <2>4
<1>3. placed = [k \in 0 .. N |-> IF k = 0 THEN cells
                   ELSE ApplyAll(placed[k - 1], us[k], Found(placed[k - 1], us[k]))]
      /\ Places(b, N, us, done, cells, [k \in 1 .. N |-> Found(placed[k - 1], us[k])], placed)
  <2>1. PICK g : /\ g = [k \in 0 .. N |-> IF k = 0 THEN cells
                            ELSE ApplyAll(g[k - 1], us[k], Found(g[k - 1], us[k]))]
                 /\ Places(b, N, us, done, cells, [k \in 1 .. N |-> Found(g[k - 1], us[k])], g)
    BY PlacedIs
  <2>2. placed = [k \in 0 .. N |-> IF k = 0 THEN cells
                   ELSE ApplyAll(placed[k - 1], us[k], Found(placed[k - 1], us[k]))]
    BY <1>2, <2>1 DEF Found
  <2> HIDE DEF placed
  <2>3. placed = g
    <3>1. g[0] = placed[0]
      BY <1>2, <2>1, <2>2
    <3>2. ASSUME NEW k \in 1 .. N, g[k - 1] = placed[k - 1] PROVE g[k] = placed[k]
      <4>1. k \in 0 .. N /\ k # 0
        BY <1>2
      <4> QED BY <2>1, <2>2, <3>2, <4>1
    <3> DEFINE A == {k \in 0 .. N : g[k] = placed[k]}
    <3>3. 0 \in A /\ \A k \in 1 .. N : k - 1 \in A => k \in A
      BY <1>2, <3>1, <3>2
    <3> HIDE DEF A
    <3>4. 0 .. N \subseteq A
      BY <1>2, <3>3, UpTo
    <3>5. \A k \in 0 .. N : g[k] = placed[k]
      BY <3>4 DEF A
    <3> QED BY <2>1, <2>2, <3>5
  <2> QED BY <2>1, <2>2, <2>3
<1>4. idxs = [k \in 1 .. N |-> Found(placed[k - 1], us[k])]
  BY <1>2 DEF Found
<1> HIDE DEF placed
<1>5. Places(b, N, us, done, cells, idxs, placed)
  BY <1>3, <1>4
<1>6. ok
  <2>1. ASSUME NEW k \in 1 .. N, NEW s \in DOMAIN us[k].part
        PROVE  Fnd(placed[k - 1], us[k])[s] # <<>>
    <3>1. idxs[k] = Fnd(placed[k - 1], us[k])
      BY <1>2
    <3>2. Fit(idxs[k][s], us[k].n, placed[k - 1][s]) /\ us[k].n \in Nat \ {0}
      BY <1>2, <1>5 DEF Places
    <3>3. DOMAIN idxs[k][s] = 1 .. us[k].n /\ 1 \in 1 .. us[k].n
      BY <3>2 DEF Fit
    <3> DEFINE q == idxs[k][s]
    <3> HIDE DEF idxs, Fnd
    <3>4. q # <<>>
      <4> HIDE DEF q
      <4>1. 1 \notin DOMAIN <<>>
        OBVIOUS
      <4> QED BY <3>3, <4>1 DEF q
    <3> QED BY <3>1, <3>4 DEF q
  <2> HIDE DEF idxs, Fnd
  <2> QED BY <1>2, <2>1
<1> HIDE DEF ok, idxs
<1>7. f.ok /\ f.idxs = idxs /\ f.cells = back
  BY <1>1, <1>6
<1>8. \A k \in 0 .. N : placed[k] \in CellsSet
  BY <1>5 DEF Places
<1>9. ASSUME NEW s \in Stream, NEW i \in Cell, NEW m \in 0 .. N,
             \A k \in 1 .. m : k \notin Took(s, i)
      PROVE  placed[m][s].pos[i] = cells[s].pos[i]
  <2>1. ASSUME NEW k \in 1 .. m, s \in DOMAIN us[k].part PROVE i \notin ToSet(idxs[k][s])
    <3>1. k \in DOMAIN us
      BY <1>2
    <3> QED BY <1>9, <2>1, <3>1
  <2> HIDE DEF Took, With
  <2> QED BY <1>5, <2>1, Untouched
<1>10. \A s \in Stream, i \in Cell : Took(s, i) \subseteq With(s) /\ With(s) \subseteq 1 .. N /\ With(s) \subseteq Nat /\ Took(s, i) \subseteq Nat
  BY <1>2
<1>11. ASSUME NEW s \in Stream, NEW i \in Cell, With(s) # {}
       PROVE  Pos(s, placed[N][s])[i] = cells[s].pos[i]
  <2>1. CASE Took(s, i) = {}
    <3>1. placed[N][s].pos[i] = cells[s].pos[i]
      <4>1. N \in 0 .. N /\ \A k \in 1 .. N : k \notin Took(s, i)
        BY <1>2, <2>1
      <4> HIDE DEF Took
      <4> QED BY <1>9, <4>1
    <3> HIDE DEF Took
    <3> QED BY <2>1, <3>1
  <2>2. CASE Took(s, i) # {}
    <3> DEFINE j == Min(Took(s, i))
    <3>1. j \in Took(s, i) /\ \A y \in Took(s, i) : j <= y
      <4> HIDE DEF Took, With
      <4> QED BY <1>10, <2>2, MinIn
    <3>2. Pos(s, placed[N][s])[i] = placed[j - 1][s].pos[i]
      <4> HIDE DEF Took
      <4> QED BY <2>2
    <3>3. j \in 1 .. N
      <4> HIDE DEF Took, With, j
      <4> QED BY <1>10, <3>1
    <3> HIDE DEF j
    <3>4. j - 1 \in 0 .. N /\ \A k \in 1 .. j - 1 : k \notin Took(s, i)
      <4> HIDE DEF Took
      <4> QED BY <1>2, <3>1, <3>3
    <3> HIDE DEF Took, Pos
    <3> QED BY <1>9, <3>2, <3>4
  <2> HIDE DEF Took, Pos, With
  <2> QED BY <2>1, <2>2
<1>12. \A s \in Stream : cells[s] \in CellsType
  BY DEF CellsSet
<1>13. ASSUME NEW s \in Stream, With(s) # {}
       PROVE  HeadAt(s) \in 0 .. Size
  <2> DEFINE k == Min(With(s))
             m == Min(DOMAIN us[k].part)
  <2>1. k \in With(s)
    <3>0. With(s) \subseteq Nat
      BY <1>2
    <3> HIDE DEF With
    <3> QED BY <1>13, <3>0, MinIn
  <2>2. k \in 1 .. N /\ s \in DOMAIN us[k].part
    <3>1. k \in DOMAIN us /\ s \in DOMAIN us[k].part
      <4> HIDE DEF k
      <4> QED BY <2>1
    <3> QED BY <1>2, <3>1
  <2>3. HeadAt(s) = placed[k - 1][s - m].head
    OBVIOUS
  <2> HIDE DEF k, HeadAt
  <2>4. m \in DOMAIN us[k].part /\ \A y \in DOMAIN us[k].part : m <= y
    <3>1. DOMAIN us[k].part \subseteq Nat /\ DOMAIN us[k].part # {}
      BY <1>2, <2>2, Sizes DEF Slot
    <3> QED BY <3>1, MinIn
  <2> HIDE DEF m
  <2>5. s - m \in Stream
    <3>1. m \in Stream /\ m <= s
      BY <1>2, <2>2, <2>4
    <3>2. NSeqMax \in Nat /\ s \in 0 .. NSeqMax - 1 /\ m \in 0 .. NSeqMax - 1
      BY <3>1, Sizes DEF Stream
    <3>3. s - m \in 0 .. NSeqMax - 1
      BY <3>1, <3>2
    <3> QED BY <3>3 DEF Stream
  <2>6. placed[k - 1][s - m] \in CellsType
    BY <1>2, <1>8, <2>2, <2>5 DEF CellsSet
  <2> QED BY <2>3, <2>6 DEF CellsType
<1>14. ASSUME NEW s \in Stream
       PROVE  back[s] \in CellsType /\ \A i \in Cell : back[s].pos[i] = cells[s].pos[i]
  <2>1. CASE With(s) = {}
    <3> HIDE DEF With
    <3> QED BY <1>12, <2>1
  <2>2. CASE With(s) # {}
    <3> DEFINE c == placed[N][s]
    <3>1. c \in CellsType
      BY <1>2, <1>8 DEF CellsSet
    <3>2. back[s] = Restored(s, c)
      <4> HIDE DEF With, Restored
      <4> QED BY <1>2, <2>2
    <3> HIDE DEF back, c
    <3>3. Restored(s, c) = [c EXCEPT !.pos = Pos(s, c), !.head = HeadAt(s)]
      <4>1. c = [pos |-> c.pos, shift |-> c.shift, head |-> c.head]
        BY <3>1 DEF CellsType
      <4> HIDE DEF Took, With
      <4> QED BY <4>1
    <3> DEFINE P == Pos(s, c)
               H == HeadAt(s)
    <3>4. \A i \in Cell : P[i] = cells[s].pos[i]
      <4> HIDE DEF Pos, With
      <4> QED BY <1>11, <2>2 DEF c
    <3>5. P = [i \in Cell |-> P[i]]
      <4> HIDE DEF Took
      <4> QED OBVIOUS
    <3>6. H \in 0 .. Size
      <4> HIDE DEF HeadAt, With
      <4> QED BY <1>13, <2>2
    <3> HIDE DEF P, H, Restored, Pos, HeadAt, With, Took
    <3>7. P \in [Cell -> -1 .. NumCtx - 1]
      <4>1. \A i \in Cell : P[i] \in -1 .. NumCtx - 1
        BY <1>12, <3>4 DEF CellsType
      <4> QED BY <3>5, <4>1
    <3>8. back[s] = [pos |-> P, shift |-> c.shift, head |-> H]
      <4>1. c = [pos |-> c.pos, shift |-> c.shift, head |-> c.head]
        BY <3>1 DEF CellsType
      <4>2. back[s] = [c EXCEPT !.pos = P, !.head = H]
        BY <3>2, <3>3 DEF P, H
      <4> QED BY <4>1, <4>2, CellsExcept
    <3>9. c.shift \in [Cell -> {0}]
      BY <3>1 DEF CellsType
    <3> QED BY <3>4, <3>6, <3>7, <3>8, <3>9 DEF CellsType
  <2> HIDE DEF With
  <2> QED BY <2>1, <2>2
<1>15. back \in CellsSet
  <2>1. back = [s \in Stream |-> back[s]]
    <3> HIDE DEF With, Restored
    <3> QED OBVIOUS
  <2> HIDE DEF back
  <2> QED BY <1>14, <2>1 DEF CellsSet
<1> HIDE DEF back
<1>16. f.ok /\ f.idxs = idxs /\ f.cells \in CellsSet /\ \A s \in Stream, i \in Cell : f.cells[s].pos[i] = cells[s].pos[i]
  BY <1>7, <1>14, <1>15
<1> QED BY <1>5, <1>16 DEF f

-----------------------------------------------------------------------------
(* Computing a batch.                                                      *)

\* Cells behind a shift of the context.
ShiftedType == [pos : [Cell -> -1 .. NumCtx - 1], shift : [Cell -> -NumCtx .. 0], head : 0 .. Size]

\* The key in a used cell is the one of the text's token at its position.
Matches(c, d, t) ==
    \A i \in Cell : c.pos[i] # -1 => /\ d[i][2] = c.pos[i]
                                     /\ c.pos[i] < Len(t) => d[i][1] = t[c.pos[i] + 1]

LEMMA FillsSame ==
    ASSUME NEW c, NEW e, NEW m, Fills(c, m), \A i \in Cell : e.pos[i] = c.pos[i]
    PROVE  Fills(e, m)
BY DEF Fills

LEMMA CacheExcept ==
    ASSUME NEW a, NEW b, NEW c, NEW x, NEW y, NEW k, k = [cells |-> a, data |-> b, copies |-> c]
    PROVE  /\ [k EXCEPT !.cells = x] = [cells |-> x, data |-> b, copies |-> c]
           /\ [k EXCEPT !.cells = x, !.data = y] = [cells |-> x, data |-> y, copies |-> c]
           /\ [k EXCEPT !.cells = x, !.copies = y] = [cells |-> x, data |-> b, copies |-> y]
<1>1. [k EXCEPT !.cells = x] = [cells |-> x, data |-> b, copies |-> c]
  OBVIOUS
<1>2. [[cells |-> x, data |-> b, copies |-> c] EXCEPT !.data = y] = [cells |-> x, data |-> y, copies |-> c]
  OBVIOUS
<1>3. [[cells |-> x, data |-> b, copies |-> c] EXCEPT !.copies = y] = [cells |-> x, data |-> b, copies |-> y]
  OBVIOUS
<1> QED BY <1>1, <1>2, <1>3

LEMMA ShiftExcept ==
    ASSUME NEW p, NEW s, NEW h, NEW x, NEW c, c = [pos |-> p, shift |-> s, head |-> h]
    PROVE  [c EXCEPT !.shift = x] = [pos |-> p, shift |-> x, head |-> h]
OBVIOUS

\* Copies and shifts that were put off reach the data.
LEMMA UpdateIs ==
    ASSUME NEW k, k.cells \in [Stream -> ShiftedType], k.data \in Keys, k.copies \in Seq(Stream \X Stream),
           \A s \in Stream, i \in Cell :
               IF k.cells[s].pos[i] = -1 THEN k.cells[s].shift[i] = 0
               ELSE CopyAll(k.data, k.copies)[s][i][2] + k.cells[s].shift[i] = k.cells[s].pos[i]
    PROVE  LET u == update(k)
           IN  /\ u.cells \in CellsSet /\ u.data \in Keys /\ u.copies = <<>>
               /\ u = [cells |-> u.cells, data |-> u.data, copies |-> <<>>]
               /\ \A s \in Stream, i \in Cell :
                   /\ u.cells[s].pos[i] = k.cells[s].pos[i]
                   /\ u.data[s][i] = <<CopyAll(k.data, k.copies)[s][i][1],
                                       CopyAll(k.data, k.copies)[s][i][2] + k.cells[s].shift[i]>>
<1> DEFINE eff == CopyAll(k.data, k.copies)
           u == update(k)
           zero == [i \in Cell |-> 0]
<1>1. eff \in Keys
  BY CopyAllTyped
<1>2. u = [cells |-> [s \in Stream |-> [k.cells[s] EXCEPT !.shift = zero]],
           data |-> [s \in Stream |-> [i \in Cell |-> <<eff[s][i][1], eff[s][i][2] + k.cells[s].shift[i]>>]],
           copies |-> <<>>]
  BY DEF update
<1> HIDE DEF u, eff
<1>3. \A s \in Stream : /\ k.cells[s].pos \in [Cell -> -1 .. NumCtx - 1]
                        /\ k.cells[s].shift \in [Cell -> -NumCtx .. 0] /\ k.cells[s].head \in 0 .. Size
                        /\ k.cells[s] = [pos |-> k.cells[s].pos, shift |-> k.cells[s].shift, head |-> k.cells[s].head]
  BY DEF ShiftedType
<1>4. ASSUME NEW s \in Stream PROVE u.cells[s].pos = k.cells[s].pos /\ u.cells[s] \in CellsType
  <2> DEFINE c == k.cells[s]
             p == c.pos
             h == c.shift
             t == c.head
  <2>1. u.cells[s] = [c EXCEPT !.shift = zero]
    BY <1>2
  <2>2. c = [pos |-> p, shift |-> h, head |-> t] /\ p \in [Cell -> -1 .. NumCtx - 1] /\ t \in 0 .. Size
    BY <1>3
  <2>0. zero \in [Cell -> {0}]
    OBVIOUS
  <2> HIDE DEF c, zero, p, h, t
  <2>3. [c EXCEPT !.shift = zero] = [pos |-> p, shift |-> zero, head |-> t]
    BY <2>2, ShiftExcept
  <2>4. u.cells[s] = [pos |-> p, shift |-> zero, head |-> t]
    BY <2>1, <2>3
  <2>5. u.cells[s] \in CellsType
    BY <2>0, <2>2, <2>4 DEF CellsType
  <2>6. u.cells[s].pos = p
    BY <2>4
  <2> QED BY <2>5, <2>6 DEF c, p
<1>5. u.cells \in CellsSet
  <2>1. DOMAIN u.cells = Stream /\ u.cells = [s \in Stream |-> u.cells[s]]
    BY <1>2
  <2> QED BY <1>4, <2>1 DEF CellsSet
<1>6. \A s \in Stream, i \in Cell : u.cells[s].pos[i] = k.cells[s].pos[i]
  BY <1>4
<1>7. \A s \in Stream, i \in Cell : u.data[s][i] = <<eff[s][i][1], eff[s][i][2] + k.cells[s].shift[i]>>
  BY <1>2
<1>8. ASSUME NEW s \in Stream, NEW i \in Cell PROVE u.data[s][i] \in Content
  <2>1. eff[s][i] \in Nat \X (0 .. NumCtx - 1)
    BY <1>1 DEF Keys, Content
  <2>2. eff[s][i][1] \in Nat /\ eff[s][i][2] \in 0 .. NumCtx - 1
    BY <2>1
  <2>3. eff[s][i][2] + k.cells[s].shift[i] \in 0 .. NumCtx - 1
    <3>1. k.cells[s].pos[i] \in -1 .. NumCtx - 1
      BY <1>3
    <3>0. IF k.cells[s].pos[i] = -1 THEN k.cells[s].shift[i] = 0
          ELSE eff[s][i][2] + k.cells[s].shift[i] = k.cells[s].pos[i]
      BY DEF eff
    <3>2. CASE k.cells[s].pos[i] = -1
      <4>1. k.cells[s].shift[i] = 0
        BY <3>0, <3>2
      <4> QED BY <2>2, <4>1
    <3>3. CASE k.cells[s].pos[i] # -1
      <4>1. eff[s][i][2] + k.cells[s].shift[i] = k.cells[s].pos[i]
        BY <3>0, <3>3
      <4> QED BY <3>1, <3>3, <4>1, Sizes
    <3> QED BY <3>2, <3>3
  <2>4. u.data[s][i] = <<eff[s][i][1], eff[s][i][2] + k.cells[s].shift[i]>>
    BY <1>7
  <2> DEFINE x == eff[s][i][1]
             y == eff[s][i][2] + k.cells[s].shift[i]
  <2> HIDE DEF x, y
  <2>5. <<x, y>> \in Content
    BY <2>2, <2>3 DEF Content, x, y
  <2> QED BY <2>4, <2>5 DEF x, y
<1>9. u.data \in Keys
  <2>1. u.data = [s \in Stream |-> [i \in Cell |-> u.data[s][i]]]
    BY <1>2
  <2> QED BY <1>8, <2>1 DEF Keys
<1>10. u.copies = <<>> /\ u = [cells |-> u.cells, data |-> u.data, copies |-> <<>>]
  BY <1>2
<1> QED BY <1>5, <1>6, <1>7, <1>9, <1>10 DEF u, eff

\* A cache without anything put off.
CacheSet == [cells : CellsSet, data : Keys, copies : {<<>>}]

\* The texts end with the tokens of the batch.
IsText(b, texts) ==
    \A s \in DOMAIN b : /\ Len(texts[s]) = b[s].pos + Len(b[s].toks)
                        /\ \A j \in 1 .. Len(b[s].toks) : texts[s][b[s].pos + j] = b[s].toks[j]

\* An ubatch writes the keys of its tokens.
LEMMA WriteIs ==
    ASSUME NEW b, IsBatch(b), NEW texts, IsText(b, texts),
           NEW d \in DoneType(b), NEW e, NEW u, Splits(b, d, u, e),
           NEW k \in CacheSet, Reached(b, d, k.cells),
           NEW idxs, \A s \in DOMAIN u.part : Fit(idxs[s], u.n, k.cells[s]),
           \A s \in DOMAIN b : Matches(k.cells[s], k.data[s], texts[s])
    PROVE  LET r == Write(k, u, idxs)
           IN  /\ r \in CacheSet /\ Reached(b, e, r.cells) /\ r.cells = ApplyAll(k.cells, u, idxs)
               /\ \A s \in DOMAIN b : Matches(r.cells[s], r.data[s], texts[s])
               /\ \A s \in Stream \ DOMAIN b : r.data[s] = k.data[s]
<1> DEFINE r == Write(k, u, idxs)
           at(s, i) == CHOOSE l \in 1 .. u.n : idxs[s][l] = i
           cells == ApplyAll(k.cells, u, idxs)
           data == [s \in Stream |-> [i \in Cell |->
                       IF s \in DOMAIN u.part /\ i \in ToSet(idxs[s])
                       THEN <<u.part[s].toks[at(s, i)], u.part[s].pos + at(s, i) - 1>>
                       ELSE k.data[s][i]]]
<1>1. /\ k.cells \in CellsSet /\ k.data \in Keys
      /\ k = [cells |-> k.cells, data |-> k.data, copies |-> <<>>]
  BY DEF CacheSet
<1>2. r = [cells |-> cells, data |-> data, copies |-> <<>>]
  <2> DEFINE x == k.cells
             y == k.data
  <2>1. r = [k EXCEPT !.cells = cells, !.data = data]
    BY <1>1 DEF Write
  <2>2. k = [cells |-> x, data |-> y, copies |-> <<>>]
    BY <1>1
  <2> HIDE DEF cells, data, x, y, r
  <2> QED BY <2>1, <2>2, CacheExcept
<1> HIDE DEF r
<1>3. /\ u.n \in Nat \ {0} /\ DOMAIN u.part \subseteq DOMAIN b /\ DOMAIN b \subseteq Stream
      /\ \A s \in DOMAIN u.part : /\ b[s].pos + d[s] \in Nat /\ u.part[s].pos = b[s].pos + d[s]
                                  /\ b[s].pos + d[s] + u.n <= NumCtx
                                  /\ e[s] = d[s] + u.n
      /\ \A s \in DOMAIN b \ DOMAIN u.part : e[s] = d[s]
  BY Room
<1>4. /\ cells \in CellsSet /\ Reached(b, e, cells)
      /\ \A s \in Stream \ DOMAIN u.part : cells[s] = k.cells[s]
      /\ \A s \in DOMAIN u.part :
          /\ \A i \in Cell : i \notin ToSet(idxs[s]) => cells[s].pos[i] = k.cells[s].pos[i]
          /\ \A l \in 1 .. u.n : /\ idxs[s][l] \in Cell /\ idxs[s][l] \in ToSet(idxs[s])
                                 /\ cells[s].pos[idxs[s][l]] = b[s].pos + d[s] + l - 1
  <2> DEFINE now == k.cells
  <2>1. now \in CellsSet /\ Reached(b, d, now) /\ \A s \in DOMAIN u.part : Fit(idxs[s], u.n, now[s])
    BY <1>1
  <2> HIDE DEF now
  <2> QED BY <2>1, Applies DEF now
<1> HIDE DEF cells
\* The token in a cell that is taken.
<1>5. ASSUME NEW s \in DOMAIN u.part, NEW i \in ToSet(idxs[s])
      PROVE  \E l \in 1 .. u.n :
                /\ at(s, i) = l /\ i \in Cell /\ cells[s].pos[i] = b[s].pos + d[s] + l - 1
                /\ b[s].pos + d[s] + l <= NumCtx /\ b[s].pos + d[s] + l - 1 \in Nat
                /\ d[s] + l \in 1 .. Len(b[s].toks)
                /\ u.part[s].toks[l] = b[s].toks[d[s] + l]
                /\ texts[s][b[s].pos + d[s] + l] = b[s].toks[d[s] + l]
                /\ b[s].toks[d[s] + l] \in Nat
  <2> DEFINE l == at(s, i)
  <2>1. l \in 1 .. u.n /\ idxs[s][l] = i
    <3>1. \E j \in 1 .. u.n : idxs[s][j] = i
      <4>1. DOMAIN idxs[s] = 1 .. u.n
        BY DEF Fit
      <4> QED BY <4>1 DEF ToSet
    <3> QED BY <3>1
  <2> HIDE DEF l
  <2>2. s \in DOMAIN b /\ b[s].pos \in Nat /\ d[s] \in Nat /\ b[s].toks \in Seq(Nat)
    BY <1>3 DEF IsBatch, DoneType
  <2>3. /\ u.part[s] = [pos |-> b[s].pos + d[s], toks |-> SubSeq(b[s].toks, d[s] + 1, d[s] + u.n)]
        /\ d[s] + u.n <= Len(b[s].toks)
    BY DEF Splits
  <2>4. u.part[s].toks = SubSeq(b[s].toks, d[s] + 1, d[s] + u.n)
    <3> DEFINE x == SubSeq(b[s].toks, d[s] + 1, d[s] + u.n)
               y == b[s].pos + d[s]
               z == u.part[s]
    <3>1. z = [pos |-> y, toks |-> x]
      BY <2>3
    <3> HIDE DEF x, y, z
    <3>2. z.toks = x
      BY <3>1
    <3> QED BY <3>2 DEF x, z
  <2>5. d[s] + l \in 1 .. Len(b[s].toks)
    <3>1. Len(b[s].toks) \in Nat
      BY <2>2
    <3>2. d[s] \in Nat /\ l \in 1 .. u.n /\ u.n \in Nat /\ d[s] + u.n <= Len(b[s].toks)
      BY <1>3, <2>1, <2>2, <2>3
    <3> QED BY <3>1, <3>2
  <2>6. u.part[s].toks[l] = b[s].toks[d[s] + l]
    <3> DEFINE t == b[s].toks
               h == Len(t)
               g == d[s]
               n == u.n
               x == g + 1
               y == g + n
    <3>1. t \in Seq(Nat) /\ h \in Nat /\ h = Len(t)
      BY <2>2
    <3>2. g \in Nat /\ n \in Nat /\ l \in 1 .. n /\ g + n <= h
      BY <1>3, <2>1, <2>2, <2>3
    <3> HIDE DEF t, h, g, n
    <3>3. /\ x \in 1 .. h + 1 /\ y \in 0 .. h /\ l \in 1 .. y - x + 1
          /\ x + l - 1 = g + l /\ x \in Int /\ y \in Int
      <4>1. x \in Int /\ y \in Int /\ l \in Int
        BY <3>1, <3>2
      <4>2. x \in 1 .. h + 1 /\ y \in 0 .. h
        BY <3>1, <3>2
      <4>3. x + l - 1 = g + l
        BY <3>2
      <4>4. y - x + 1 = n
        BY <3>2
      <4> QED BY <3>2, <4>1, <4>2, <4>3, <4>4
    <3> HIDE DEF x, y
    <3>4. SubSeq(t, x, y)[l] = t[x + l - 1]
      BY <3>1, <3>3
    <3>5. u.part[s].toks = SubSeq(t, x, y)
      BY <2>4 DEF t, x, y, g, n
    <3> QED BY <3>3, <3>4, <3>5 DEF t, g
  <2>7. texts[s][b[s].pos + d[s] + l] = b[s].toks[d[s] + l]
    <3>1. texts[s][b[s].pos + (d[s] + l)] = b[s].toks[d[s] + l]
      BY <2>2, <2>5 DEF IsText
    <3>2. b[s].pos + (d[s] + l) = b[s].pos + d[s] + l
      BY <1>3, <2>1, <2>2
    <3> QED BY <3>1, <3>2
  <2>8. b[s].toks[d[s] + l] \in Nat
    BY <2>2, <2>5
  <2>9. i \in Cell /\ cells[s].pos[i] = b[s].pos + d[s] + l - 1
    BY <1>4, <2>1
  <2>10. b[s].pos + d[s] + l <= NumCtx /\ b[s].pos + d[s] + l - 1 \in Nat
    BY <1>3, <2>1, Sizes
  <2> QED BY <2>1, <2>5, <2>6, <2>7, <2>8, <2>9, <2>10 DEF l
<1>6. ASSUME NEW s \in DOMAIN u.part, NEW i \in ToSet(idxs[s])
      PROVE  /\ data[s][i] \in Content /\ data[s][i][2] = cells[s].pos[i]
             /\ data[s][i][1] = texts[s][cells[s].pos[i] + 1]
  <2>1. PICK l \in 1 .. u.n :
                /\ at(s, i) = l /\ i \in Cell /\ cells[s].pos[i] = b[s].pos + d[s] + l - 1
                /\ b[s].pos + d[s] + l <= NumCtx /\ b[s].pos + d[s] + l - 1 \in Nat
                /\ d[s] + l \in 1 .. Len(b[s].toks)
                /\ u.part[s].toks[l] = b[s].toks[d[s] + l]
                /\ texts[s][b[s].pos + d[s] + l] = b[s].toks[d[s] + l]
                /\ b[s].toks[d[s] + l] \in Nat
    BY <1>5
  <2>2. s \in Stream /\ data[s][i] = <<u.part[s].toks[at(s, i)], u.part[s].pos + at(s, i) - 1>>
    BY <1>3, <2>1
  <2> HIDE DEF data, at
  <2>3. data[s][i] = <<b[s].toks[d[s] + l], b[s].pos + d[s] + l - 1>>
    BY <1>3, <2>1, <2>2
  <2> DEFINE x == b[s].toks[d[s] + l]
             y == b[s].pos + d[s] + l - 1
             z == data[s][i]
  <2>4. x \in Nat /\ y \in Nat /\ y + 1 <= NumCtx /\ y \in 0 .. NumCtx - 1
        /\ y + 1 = b[s].pos + d[s] + l /\ texts[s][y + 1] = x /\ cells[s].pos[i] = y
    BY <1>3, <2>1, Sizes
  <2>5. z = <<x, y>>
    BY <2>3
  <2> HIDE DEF x, y, z
  <2> QED BY <2>4, <2>5 DEF Content, z
<1>7. \A s \in Stream, i \in Cell : s \notin DOMAIN u.part \/ i \notin ToSet(idxs[s]) => data[s][i] = k.data[s][i]
  <2> HIDE DEF at
  <2> QED OBVIOUS
<1>8. data = [s \in Stream |-> [i \in Cell |-> data[s][i]]]
  <2> HIDE DEF at
  <2> QED OBVIOUS
<1> HIDE DEF data, at
<1>9. data \in Keys
  <2>1. ASSUME NEW s \in Stream, NEW i \in Cell PROVE data[s][i] \in Content
    <3>1. CASE s \in DOMAIN u.part /\ i \in ToSet(idxs[s])
      BY <1>6, <3>1
    <3>2. CASE s \notin DOMAIN u.part \/ i \notin ToSet(idxs[s])
      BY <1>1, <1>7, <3>2 DEF Keys
    <3> QED BY <3>1, <3>2
  <2> QED BY <1>8, <2>1 DEF Keys
<1>10. ASSUME NEW s \in DOMAIN b, NEW i \in Cell, cells[s].pos[i] # -1
       PROVE  /\ data[s][i][2] = cells[s].pos[i]
              /\ cells[s].pos[i] < Len(texts[s]) => data[s][i][1] = texts[s][cells[s].pos[i] + 1]
  <2>1. s \in Stream /\ Matches(k.cells[s], k.data[s], texts[s])
    BY <1>3
  <2>2. CASE s \in DOMAIN u.part /\ i \in ToSet(idxs[s])
    BY <1>6, <2>2
  <2>3. CASE s \in DOMAIN u.part /\ i \notin ToSet(idxs[s])
    <3>1. cells[s].pos[i] = k.cells[s].pos[i] /\ data[s][i] = k.data[s][i]
      BY <1>4, <1>7, <2>1, <2>3
    <3> QED BY <1>10, <2>1, <3>1 DEF Matches
  <2>4. CASE s \notin DOMAIN u.part
    <3>1. cells[s].pos[i] = k.cells[s].pos[i] /\ data[s][i] = k.data[s][i]
      BY <1>4, <1>7, <2>1, <2>4
    <3> QED BY <1>10, <2>1, <3>1 DEF Matches
  <2> QED BY <2>2, <2>3, <2>4
<1>11. \A s \in DOMAIN b : Matches(cells[s], data[s], texts[s])
  BY <1>10 DEF Matches
<1>12. \A s \in Stream \ DOMAIN b : data[s] = k.data[s]
  <2>1. ASSUME NEW s \in Stream \ DOMAIN b PROVE data[s] = k.data[s]
    <3>1. \A i \in Cell : data[s][i] = k.data[s][i]
      BY <1>3, <1>7
    <3>2. data[s] \in [Cell -> Content] /\ k.data[s] \in [Cell -> Content]
      BY <1>1, <1>9 DEF Keys
    <3> QED BY <3>1, <3>2
  <2> QED BY <2>1
<1>13. r.cells = cells /\ r.data = data /\ r \in CacheSet
  BY <1>2, <1>4, <1>9 DEF CacheSet
<1> QED BY <1>4, <1>11, <1>12, <1>13 DEF r, cells

\* Behind it every token of the ubatch attends to its text.
LEMMA ReadsText ==
    ASSUME NEW b, IsBatch(b), NEW texts, IsText(b, texts),
           NEW d \in DoneType(b), NEW e, NEW u, Splits(b, d, u, e),
           NEW r \in CacheSet, Reached(b, e, r.cells),
           \A s \in DOMAIN b : Matches(r.cells[s], r.data[s], texts[s])
    PROVE  Misread(r, 0, u, texts) = {}
<1>1. /\ u.n \in Nat \ {0} /\ DOMAIN u.part \subseteq DOMAIN b /\ DOMAIN b \subseteq Stream
      /\ \A s \in DOMAIN u.part : /\ b[s].pos + d[s] \in Nat /\ u.part[s].pos = b[s].pos + d[s]
                                  /\ b[s].pos + d[s] + u.n <= NumCtx
                                  /\ e[s] = d[s] + u.n
  BY Room
<1>2. ASSUME NEW s \in DOMAIN u.part, NEW q \in u.part[s].pos .. u.part[s].pos + u.n - 1
      PROVE  Exact(r, 0, s, q, texts[s])
  <2> DEFINE c == r.cells[s]
             a == r.data[s]
             t == texts[s]
             m == b[s].pos + e[s]
  <2>1. s \in DOMAIN b /\ s \in Stream /\ c \in CellsType /\ Fills(c, m) /\ Matches(c, a, t)
    BY <1>1 DEF CacheSet, CellsSet, Reached
  <2>2. \A i \in Cell : a[i] \in Nat \X (0 .. NumCtx - 1) /\ c.pos[i] \in -1 .. NumCtx - 1
    BY <2>1 DEF CacheSet, Keys, Content, CellsType
  <2>3. q \in Nat /\ q < m /\ m <= Len(t) /\ m \in Nat /\ Len(t) \in Nat
    <3>1. b[s].pos \in Nat /\ d[s] \in Nat /\ e[s] = d[s] + u.n /\ u.n \in Nat \ {0} /\ u.part[s].pos = b[s].pos + d[s]
      BY <1>1, <2>1 DEF IsBatch, DoneType
    <3>2. Len(b[s].toks) \in Nat /\ Len(t) = b[s].pos + Len(b[s].toks) /\ d[s] + u.n <= Len(b[s].toks)
      <4>1. b[s].toks \in Seq(Nat)
        BY <2>1 DEF IsBatch
      <4>2. Len(t) = b[s].pos + Len(b[s].toks)
        BY <2>1 DEF IsText
      <4>3. d[s] + u.n <= Len(b[s].toks)
        BY DEF Splits
      <4> QED BY <4>1, <4>2, <4>3
    <3> DEFINE n == u.n
               h == Len(b[s].toks)
               l == Len(t)
               p == b[s].pos
               g == d[s]
               f == e[s]
               o == u.part[s].pos
    <3>3. p \in Nat /\ g \in Nat /\ f = g + n /\ n \in Nat \ {0} /\ o = p + g /\ h \in Nat
          /\ l = p + h /\ g + n <= h /\ q \in o .. o + n - 1
      BY <3>1, <3>2
    <3> HIDE DEF n, h, l, p, g, f, o, t
    <3>4. q \in Nat /\ q < p + f /\ p + f <= l /\ p + f \in Nat /\ l \in Nat
      BY <3>3
    <3> QED BY <3>4 DEF p, f, l
  <2> DEFINE seen == Visible(r, 0, s, q)
  <2>4. seen = {i \in Cell : c.pos[i] # -1 /\ c.pos[i] <= q}
    BY DEF Visible, Used, is_masked_swa
  <2>5. {p \in 0 .. q : ~ is_masked_swa(0, p, q)} = 0 .. q
    BY DEF is_masked_swa
  <2> HIDE DEF seen
  <2>6. Exact(r, 0, s, q, t) =
            (/\ {<<c.pos[i], a[i]>> : i \in seen} = {<<p, <<t[p + 1], p>>>> : p \in 0 .. q}
             /\ \A i, j \in seen : c.pos[i] = c.pos[j] => i = j)
    <3>1. Exact(r, 0, s, q, t) =
            (/\ {<<c.pos[i], a[i]>> : i \in seen}
                    = {<<p, <<t[p + 1], p>>>> : p \in {p \in 0 .. q : ~ is_masked_swa(0, p, q)}}
             /\ \A i, j \in seen : c.pos[i] = c.pos[j] => i = j)
      BY DEF Exact, seen
    <3> HIDE DEF c, a, t
    <3> QED BY <2>5, <3>1
  <2> HIDE DEF c, a, t, m
  <2>7. ASSUME NEW i \in seen PROVE c.pos[i] \in 0 .. q /\ a[i] = <<t[c.pos[i] + 1], c.pos[i]>>
    <3>1. i \in Cell /\ c.pos[i] # -1 /\ c.pos[i] <= q /\ c.pos[i] \in -1 .. NumCtx - 1
      BY <2>2, <2>4
    <3>2. c.pos[i] \in 0 .. q /\ c.pos[i] < Len(t)
      BY <2>3, <3>1, Sizes
    <3>3. a[i][2] = c.pos[i] /\ a[i][1] = t[c.pos[i] + 1]
      BY <2>1, <3>1, <3>2 DEF Matches
    <3>4. a[i] = <<a[i][1], a[i][2]>>
      BY <2>2, <3>1
    <3> QED BY <3>2, <3>3, <3>4
  <2>8. ASSUME NEW p \in 0 .. q PROVE \E i \in seen : c.pos[i] = p
    <3>1. p \in 0 .. m - 1
      BY <2>3
    <3>2. PICK i \in Cell : c.pos[i] = p
      BY <2>1, <3>1 DEF Fills
    <3> QED BY <2>4, <3>2
  <2>9. \A i, j \in seen : c.pos[i] = c.pos[j] => i = j
    BY <2>1, <2>4 DEF Fills
  <2>10. {<<c.pos[i], a[i]>> : i \in seen} = {<<p, <<t[p + 1], p>>>> : p \in 0 .. q}
    <3>1. \A i \in seen : \E p \in 0 .. q : <<c.pos[i], a[i]>> = <<p, <<t[p + 1], p>>>>
      BY <2>7
    <3>2. ASSUME NEW p \in 0 .. q PROVE \E i \in seen : <<c.pos[i], a[i]>> = <<p, <<t[p + 1], p>>>>
      <4>1. PICK i \in seen : c.pos[i] = p
        BY <2>8
      <4>2. a[i] = <<t[p + 1], p>>
        BY <2>7, <4>1
      <4> QED BY <4>1, <4>2
    <3> QED BY <3>1, <3>2
  <2> QED BY <2>6, <2>9, <2>10 DEF t
<1>3. \A s \in DOMAIN u.part : {q \in u.part[s].pos .. u.part[s].pos + u.n - 1 : ~ Exact(r, 0, s, q, texts[s])} = {}
  BY <1>2
<1> QED BY <1>3 DEF Misread

\* The cache x holds the texts in cells with the positions of now, and data for the
\* streams that are not in the batch.
Computed(b, texts, data, now, x) ==
    /\ x \in CacheSet
    /\ \A s \in DOMAIN b : Matches(x.cells[s], x.data[s], texts[s])
    /\ \A s \in Stream \ DOMAIN b : x.data[s] = data[s]
    /\ \A s \in Stream, i \in Cell : x.cells[s].pos[i] = now[s].pos[i]

LEMMA SameReached ==
    ASSUME NEW now, NEW cells, \A s \in Stream, i \in Cell : cells[s].pos[i] = now[s].pos[i],
           NEW b, IsBatch(b), NEW d, Reached(b, d, now)
    PROVE  Reached(b, d, cells)
<1>1. ASSUME NEW s \in DOMAIN b PROVE Fills(cells[s], b[s].pos + d[s])
  <2>1. s \in Stream
    BY DEF IsBatch
  <2>2. Fills(now[s], b[s].pos + d[s])
    BY DEF Reached
  <2> QED BY <2>1, <2>2, FillsSame
<1> QED BY <1>1 DEF Reached

LEMMA SameFit ==
    ASSUME NEW c, NEW e, \A i \in Cell : e.pos[i] = c.pos[i], NEW q, NEW n, Fit(q, n, c)
    PROVE  Fit(q, n, e)
<1>1. EmptyIn(e) = EmptyIn(c)
  BY DEF EmptyIn
<1> QED BY <1>1 DEF Fit

LEMMA ComputeStep ==
    ASSUME NEW b, IsBatch(b), NEW texts, IsText(b, texts), NEW data,
           NEW d \in DoneType(b), NEW e, NEW u, Splits(b, d, u, e),
           NEW now \in CellsSet, Reached(b, d, now),
           NEW idxs, \A s \in DOMAIN u.part : Fit(idxs[s], u.n, now[s]),
           NEW x, Computed(b, texts, data, now, x)
    PROVE  LET r == Write(x, u, idxs)
           IN  /\ Computed(b, texts, data, ApplyAll(now, u, idxs), r)
               /\ Misread(r, 0, u, texts) = {}
<1> DEFINE r == Write(x, u, idxs)
           there == ApplyAll(now, u, idxs)
<1>1. /\ x \in CacheSet /\ \A s \in DOMAIN b : Matches(x.cells[s], x.data[s], texts[s])
      /\ \A s \in Stream \ DOMAIN b : x.data[s] = data[s]
      /\ \A s \in Stream, i \in Cell : x.cells[s].pos[i] = now[s].pos[i]
  BY DEF Computed
<1>2. DOMAIN u.part \subseteq Stream
  BY Room
<1>3. x.cells \in CellsSet
  BY <1>1 DEF CacheSet
<1> DEFINE cells == x.cells
<1>4. Reached(b, d, cells) /\ \A s \in DOMAIN u.part : Fit(idxs[s], u.n, cells[s])
  <2>1. \A s \in Stream, i \in Cell : cells[s].pos[i] = now[s].pos[i]
    BY <1>1
  <2> HIDE DEF cells
  <2>2. Reached(b, d, cells)
    BY <2>1, SameReached
  <2>3. ASSUME NEW s \in DOMAIN u.part PROVE Fit(idxs[s], u.n, cells[s])
    <3>1. s \in Stream /\ Fit(idxs[s], u.n, now[s])
      BY <1>2
    <3> QED BY <2>1, <3>1, SameFit
  <2> QED BY <2>2, <2>3
<1>5. /\ r \in CacheSet /\ Reached(b, e, r.cells) /\ r.cells = ApplyAll(cells, u, idxs)
      /\ \A s \in DOMAIN b : Matches(r.cells[s], r.data[s], texts[s])
      /\ \A s \in Stream \ DOMAIN b : r.data[s] = x.data[s]
  <2> HIDE DEF r
  <2> QED BY <1>1, <1>4, WriteIs DEF r
<1> HIDE DEF r
<1>6. Misread(r, 0, u, texts) = {}
  BY <1>5, ReadsText
<1>7. /\ \A s \in Stream \ DOMAIN u.part : there[s] = now[s]
      /\ \A s \in DOMAIN u.part :
          /\ \A i \in Cell : i \notin ToSet(idxs[s]) => there[s].pos[i] = now[s].pos[i]
          /\ \A l \in 1 .. u.n : /\ idxs[s][l] \in Cell /\ idxs[s][l] \in ToSet(idxs[s])
                                 /\ there[s].pos[idxs[s][l]] = b[s].pos + d[s] + l - 1
  <2> HIDE DEF there
  <2> QED BY Applies DEF there
<1>8. /\ \A s \in Stream \ DOMAIN u.part : r.cells[s] = cells[s]
      /\ \A s \in DOMAIN u.part :
          /\ \A i \in Cell : i \notin ToSet(idxs[s]) => r.cells[s].pos[i] = cells[s].pos[i]
          /\ \A l \in 1 .. u.n : /\ idxs[s][l] \in Cell /\ idxs[s][l] \in ToSet(idxs[s])
                                 /\ r.cells[s].pos[idxs[s][l]] = b[s].pos + d[s] + l - 1
  <2> DEFINE here == r.cells
  <2>1. here = ApplyAll(cells, u, idxs) /\ cells \in CellsSet
    BY <1>3, <1>5
  <2> HIDE DEF here, cells
  <2> QED BY <1>4, <2>1, Applies DEF here
<1> HIDE DEF there
<1>9. ASSUME NEW s \in Stream, NEW i \in Cell PROVE r.cells[s].pos[i] = there[s].pos[i]
  <2>1. cells[s].pos[i] = now[s].pos[i]
    BY <1>1
  <2>2. CASE s \notin DOMAIN u.part
    <3> HIDE DEF cells
    <3> QED BY <1>7, <1>8, <2>1, <2>2
  <2>3. CASE s \in DOMAIN u.part /\ i \notin ToSet(idxs[s])
    <3> HIDE DEF cells
    <3> QED BY <1>7, <1>8, <2>1, <2>3
  <2>4. CASE s \in DOMAIN u.part /\ i \in ToSet(idxs[s])
    <3>1. PICK l \in 1 .. u.n : idxs[s][l] = i
      <4>1. DOMAIN idxs[s] = 1 .. u.n
        BY <2>4 DEF Fit
      <4> QED BY <2>4, <4>1 DEF ToSet
    <3> HIDE DEF cells
    <3> QED BY <1>7, <1>8, <2>4, <3>1
  <2> QED BY <2>2, <2>3, <2>4
<1>10. \A s \in Stream \ DOMAIN b : r.data[s] = data[s]
  BY <1>1, <1>5
<1> QED BY <1>5, <1>6, <1>9, <1>10 DEF r, there, Computed

LEMMA MatchesSame ==
    ASSUME NEW c, NEW e, \A i \in Cell : e.pos[i] = c.pos[i], NEW d, NEW t, Matches(c, d, t)
    PROVE  Matches(e, d, t)
BY DEF Matches

\* A batch is computed: its streams hold their texts, and every token attended to its own.
LEMMA DecodeIs ==
    ASSUME NEW b, IsBatch(b), NEW texts, IsText(b, texts),
           NEW N, NEW us, NEW done, Split(b, N, us, done),
           NEW k, NEW v, v = update(k), v \in CacheSet, Reached(b, done[0], v.cells),
           \A s \in DOMAIN b : Matches(v.cells[s], v.data[s], texts[s])
    PROVE  LET out == decode(k, 0, us, texts)
           IN  /\ out.ok /\ out.misread = {}
               /\ out.kv \in CacheSet /\ Reached(b, done[N], out.kv.cells)
               /\ \A s \in DOMAIN b : Matches(out.kv.cells[s], out.kv.data[s], texts[s])
               /\ \A s \in Stream \ DOMAIN b :
                   /\ out.kv.data[s] = v.data[s]
                   /\ \A i \in Cell : out.kv.cells[s].pos[i] = v.cells[s].pos[i]
<1> DEFINE cells == v.cells
           f == prepare(cells, 0, us)
           start == [v EXCEPT !.cells = f.cells]
           after[j \in 0 .. Len(us)] ==
               IF j = 0 THEN start ELSE Write(after[j - 1], us[j], f.idxs[j])
           out == decode(k, 0, us, texts)
<1>1. out = IF ~ f.ok THEN [kv |-> k, ok |-> FALSE, misread |-> {}]
            ELSE [kv |-> after[Len(us)], ok |-> TRUE,
                  misread |-> UNION {Misread(after[j], 0, us[j], texts) : j \in DOMAIN us}]
  BY DEF decode
<1> HIDE DEF out
<1>2. N \in Nat /\ DOMAIN us = 1 .. N /\ Len(us) = N /\ DOMAIN b \subseteq Stream
      /\ \A j \in 1 .. N : /\ Splits(b, done[j - 1], us[j], done[j])
                           /\ done[j - 1] \in DoneType(b) /\ j - 1 \in 0 .. N /\ j \in 0 .. N
  BY DEF Split, IsBatch
<1>3. cells \in CellsSet /\ v.data \in Keys /\ v = [cells |-> cells, data |-> v.data, copies |-> <<>>]
  BY DEF CacheSet
<1>4. PICK idxs, placed :
              /\ Places(b, N, us, done, cells, idxs, placed)
              /\ f.ok /\ f.idxs = idxs /\ f.cells \in CellsSet
              /\ \A s \in Stream, i \in Cell : f.cells[s].pos[i] = cells[s].pos[i]
  <2> HIDE DEF cells, f
  <2>1. Reached(b, done[0], cells)
    BY DEF cells
  <2> QED BY <1>3, <2>1, PrepareIs DEF f
<1>5. start \in CacheSet /\ start.data = v.data /\ start.cells = f.cells
  <2> DEFINE x == v.data
  <2>1. v = [cells |-> cells, data |-> x, copies |-> <<>>]
    BY <1>3
  <2> DEFINE z == f.cells
             o == <<>>
  <2>2. start = [cells |-> f.cells, data |-> x, copies |-> <<>>]
    <3>1. v = [cells |-> cells, data |-> x, copies |-> o]
      BY <2>1
    <3> HIDE DEF f, x, cells, z, o
    <3>2. [v EXCEPT !.cells = z] = [cells |-> z, data |-> x, copies |-> o]
      BY <3>1
    <3> QED BY <3>2 DEF z, o
  <2> HIDE DEF f, x, cells, start
  <2>3. start \in CacheSet
    BY <1>3, <1>4, <2>2 DEF CacheSet, x
  <2> QED BY <2>2, <2>3 DEF x
<1> HIDE DEF f, start
<1>6. Computed(b, texts, v.data, placed[0], start)
  <2>1. placed[0] = cells
    BY <1>4 DEF Places
  <2> DEFINE c == start.cells
             e == v.cells
             z == start.data
  <2>2. \A s \in Stream, i \in Cell : c[s].pos[i] = e[s].pos[i]
    BY <1>4, <1>5
  <2>3. \A s \in DOMAIN b : s \in Stream /\ Matches(e[s], z[s], texts[s])
    BY <1>2, <1>5
  <2> HIDE DEF c, e, z
  <2>4. \A s \in DOMAIN b : Matches(c[s], z[s], texts[s])
    BY <2>2, <2>3, MatchesSame
  <2>5. \A s \in Stream \ DOMAIN b : start.data[s] = v.data[s]
    BY <1>5
  <2> QED BY <1>5, <2>1, <2>2, <2>4, <2>5 DEF c, e, z, Computed
<1> DEFINE X == [j \in 0 .. N |-> {x \in CacheSet : Computed(b, texts, v.data, placed[j], x)}]
           F == [j \in 1 .. N |-> [x \in CacheSet |-> Write(x, us[j], idxs[j])]]
<1>7. ASSUME NEW j \in 1 .. N, NEW x, Computed(b, texts, v.data, placed[j - 1], x)
      PROVE  /\ Computed(b, texts, v.data, placed[j], Write(x, us[j], idxs[j]))
             /\ Misread(Write(x, us[j], idxs[j]), 0, us[j], texts) = {}
  <2> DEFINE d == done[j - 1]
             e == done[j]
             u == us[j]
             q == idxs[j]
             now == placed[j - 1]
             data == v.data
  <2>1. /\ placed[j] = ApplyAll(now, u, q) /\ now \in CellsSet /\ Reached(b, d, now)
        /\ \A s \in DOMAIN u.part : Fit(q[s], u.n, now[s])
    BY <1>2, <1>4 DEF Places
  <2>2. d \in DoneType(b) /\ Splits(b, d, u, e) /\ Computed(b, texts, data, now, x)
    BY <1>2, <1>7
  <2> HIDE DEF d, e, u, q, now, data
  <2>3. Computed(b, texts, data, ApplyAll(now, u, q), Write(x, u, q)) /\ Misread(Write(x, u, q), 0, u, texts) = {}
    BY <2>1, <2>2, ComputeStep
  <2> QED BY <2>1, <2>3 DEF u, q, now, data
<1>8. \A j \in 0 .. N : \A x : x \in X[j] <=> Computed(b, texts, v.data, placed[j], x)
  BY DEF Computed
<1>9. \A j \in 1 .. N, x \in CacheSet : F[j][x] = Write(x, us[j], idxs[j])
  OBVIOUS
<1>10. \A j \in 0 .. N : \A x \in X[j] : x \in CacheSet
  OBVIOUS
<1> HIDE DEF X, F
<1>11. Steps(N, X, F) /\ start \in X[0]
  <2>1. ASSUME NEW j \in 1 .. N, NEW x \in X[j - 1] PROVE F[j][x] \in X[j]
    <3>1. x \in CacheSet /\ Computed(b, texts, v.data, placed[j - 1], x)
      BY <1>2, <1>8, <1>10
    <3> QED BY <1>2, <1>7, <1>8, <1>9, <3>1
  <2>2. 0 \in 0 .. N
    BY <1>2
  <2> QED BY <1>6, <1>8, <2>1, <2>2 DEF Steps
<1>12. PICK g : Loop(N, F, start, g) /\ \A j \in 0 .. N : g[j] \in X[j]
  BY <1>2, <1>11, LoopExists
<1>13. ASSUME NEW j \in 0 .. N
       PROVE  (IF j = 0 THEN start ELSE F[j][g[j - 1]]) = IF j = 0 THEN start ELSE Write(g[j - 1], us[j], idxs[j])
  <2>1. CASE j # 0
    <3>1. j \in 1 .. N /\ j - 1 \in 0 .. N
      BY <1>2, <2>1
    <3> QED BY <1>9, <1>10, <1>12, <3>1
  <2> QED BY <2>1
<1>14. g = [j \in 0 .. N |-> IF j = 0 THEN start ELSE Write(g[j - 1], us[j], idxs[j])]
  BY <1>12, <1>13 DEF Loop
<1>15. after = [j \in 0 .. N |-> IF j = 0 THEN start ELSE Write(after[j - 1], us[j], idxs[j])]
  BY <1>2, <1>4, <1>14
<1> HIDE DEF after
<1>16. after[0] = start /\ \A j \in 1 .. N : after[j] = Write(after[j - 1], us[j], idxs[j])
  <2>1. \A j \in 0 .. N : after[j] = IF j = 0 THEN start ELSE Write(after[j - 1], us[j], idxs[j])
    BY <1>15
  <2>2. \A j \in 1 .. N : j \in 0 .. N /\ j # 0
    BY <1>2
  <2>3. 0 \in 0 .. N
    BY <1>2
  <2> QED BY <2>1, <2>2, <2>3
<1> DEFINE A == {j \in 0 .. N : Computed(b, texts, v.data, placed[j], after[j])}
<1>17. 0 .. N \subseteq A
  <2>1. 0 \in A
    BY <1>2, <1>6, <1>16
  <2>2. ASSUME NEW j \in 1 .. N, j - 1 \in A PROVE j \in A
    <3>1. Computed(b, texts, v.data, placed[j - 1], after[j - 1]) /\ j \in 0 .. N
      BY <1>2, <2>2
    <3> QED BY <1>7, <1>16, <3>1
  <2> HIDE DEF A
  <2> QED BY <1>2, <2>1, <2>2, UpTo
<1>18. \A j \in 0 .. N : Computed(b, texts, v.data, placed[j], after[j])
  BY <1>17
<1> HIDE DEF A
<1>19. \A j \in 1 .. N : Misread(after[j], 0, us[j], texts) = {}
  BY <1>2, <1>7, <1>16, <1>18
<1>20. out.ok /\ out.kv = after[N] /\ out.misread = {}
  <2>1. UNION {Misread(after[j], 0, us[j], texts) : j \in DOMAIN us} = {}
    BY <1>2, <1>19
  <2> QED BY <1>1, <1>2, <1>4, <2>1
<1>21. Computed(b, texts, v.data, placed[N], after[N])
  BY <1>2, <1>18
<1>22. /\ after[N] \in CacheSet
       /\ \A s \in DOMAIN b : Matches(after[N].cells[s], after[N].data[s], texts[s])
       /\ \A s \in Stream \ DOMAIN b : after[N].data[s] = v.data[s]
       /\ \A s \in Stream, i \in Cell : after[N].cells[s].pos[i] = placed[N][s].pos[i]
  BY <1>21 DEF Computed
<1>23. Reached(b, done[N], after[N].cells)
  <2>1. Reached(b, done[N], placed[N])
    BY <1>2, <1>4 DEF Places
  <2> DEFINE c == after[N].cells
             d == done[N]
             now == placed[N]
  <2>2. \A s \in Stream, i \in Cell : c[s].pos[i] = now[s].pos[i]
    BY <1>22
  <2> HIDE DEF c, d, now
  <2> QED BY <2>1, <2>2, SameReached DEF c, d, now
<1>24. ASSUME NEW s \in Stream \ DOMAIN b, NEW i \in Cell PROVE after[N].cells[s].pos[i] = v.cells[s].pos[i]
  <2>1. \A j \in 1 .. N : s \in DOMAIN us[j].part => i \notin ToSet(idxs[j][s])
    BY <1>2 DEF Splits
  <2>2. N \in 0 .. N
    BY <1>2
  <2>3. placed[N][s].pos[i] = cells[s].pos[i]
    <3> HIDE DEF cells
    <3> QED BY <1>4, <2>1, <2>2, Untouched
  <2> QED BY <1>22, <2>3
<1> QED BY <1>20, <1>22, <1>23, <1>24 DEF out

-----------------------------------------------------------------------------
(* The search for a cache slot.                                            *)

LEMMA CommonPrefix ==
    ASSUME NEW s, NEW t, Len(s) \in Nat, Len(t) \in Nat
    PROVE  LET n == countCommonPrefix(s, t)
           IN  n \in 0 .. Len(t) /\ n <= Len(s) /\ \A i \in 1 .. n : s[i] = t[i]
<1> DEFINE m == Lesser(Len(s), Len(t))
           S == {n \in 0 .. m : \A i \in 1 .. n : s[i] = t[i]}
<1>1. m \in 0 .. Len(t) /\ m <= Len(s)
  <2>1. CASE Len(s) <= Len(t)
    BY <2>1 DEF Lesser
  <2>2. CASE ~ (Len(s) <= Len(t))
    BY <2>2 DEF Lesser
  <2> QED BY <2>1, <2>2
<1> HIDE DEF m
<1>2. 0 \in S /\ S \subseteq 0 .. m /\ m \in Nat
  BY <1>1
<1>3. Max(S) \in S
  <2> HIDE DEF S
  <2> QED BY <1>2, MaxIn
<1> DEFINE n == Max(S)
<1>4. n \in 0 .. m /\ \A i \in 1 .. n : s[i] = t[i]
  <2>1. n \in S
    BY <1>3
  <2> HIDE DEF n
  <2> QED BY <2>1
<1>5. countCommonPrefix(s, t) = n
  BY DEF countCommonPrefix, m
<1> HIDE DEF n
<1> QED BY <1>1, <1>4, <1>5

\* There is a first slot for which f is smallest.
LEMMA LeastSlot ==
    ASSUME NEW S, S \subseteq Slot, S # {}, NEW f, \A s \in S : f[s] \in Nat
    PROVE  \E s \in S : \A t \in S : f[s] < f[t] \/ (f[s] = f[t] /\ s <= t)
<1> DEFINE V == {f[s] : s \in S}
<1>0. S \subseteq Nat
  BY CacheAssumption DEF Slot
<1>1. V \subseteq Nat /\ V # {}
  OBVIOUS
<1>2. \E v \in V : \A u \in V : v <= u
  <2> HIDE DEF V
  <2> QED BY <1>1, Smallest
<1>3. PICK x \in S : \A s \in S : f[x] <= f[s]
  BY <1>2
<1> DEFINE T == {s \in S : f[s] = f[x]}
<1>4. T \subseteq Nat /\ T # {}
  BY <1>0
<1>5. \E t \in T : \A u \in T : t <= u
  <2> HIDE DEF T
  <2> QED BY <1>4, Smallest
<1>6. PICK s \in T : \A u \in T : s <= u
  BY <1>5
<1>7. ASSUME NEW t \in S PROVE f[s] < f[t] \/ (f[s] = f[t] /\ s <= t)
  BY <1>6, <1>3
<1> QED BY <1>6, <1>7

LEMMA FirstSmallestIn ==
    ASSUME NEW S, S \subseteq Slot, S # {}, NEW f, \A s \in S : f[s] \in Nat
    PROVE  FirstSmallest(S, f) \in S
BY LeastSlot DEF FirstSmallest

LEMMA FirstLargestIn ==
    ASSUME NEW S, S \subseteq Slot, S # {}, NEW b \in Nat, NEW f, \A s \in S : f[s] \in 0 .. b
    PROVE  FirstLargest(S, f) \in S
<1> DEFINE h == [s \in S |-> b - f[s]]
<1>1. \A s \in S : h[s] \in Nat
  OBVIOUS
<1> HIDE DEF h
<1>2. \E s \in S : \A t \in S : h[s] < h[t] \/ (h[s] = h[t] /\ s <= t)
  BY <1>1, LeastSlot
<1>3. \E s \in S : \A t \in S : f[s] > f[t] \/ (f[s] = f[t] /\ s <= t)
  BY <1>2 DEF h
<1> QED BY <1>3 DEF FirstLargest

SlotsType == [Slot -> [Inputs : Seq(Nat), InUse : BOOLEAN, lastUsed : Nat]]

LEMMA PromptIs ==
    ASSUME NEW r \in Req
    PROVE  /\ Prompt[r] \in Seq(Nat) /\ Len(Prompt[r]) \in 1 .. NumCtx
           /\ NumKeep[r] \in 0 .. NumCtx - 1
BY LlamaAssumption

\* A prompt gets a slot that is free, and a prefix that is some slot's.
LEMMA FoundIs ==
    ASSUME slots \in SlotsType, Free(slots) # {}, NEW r \in Req
    PROVE  LET found == FoundSlot(r)
           IN  /\ found.slot \in Free(slots) /\ found.src \in Slot
               /\ found.numPast \in 0 .. Len(Prompt[r])
               /\ found.numPast <= Len(slots[found.src].Inputs)
               /\ \A j \in 1 .. found.numPast : slots[found.src].Inputs[j] = Prompt[r][j]
<1> DEFINE held == [s \in Slot |-> slots[s].Inputs]
           prompt == Prompt[r]
           common == [s \in Slot |-> countCommonPrefix(held[s], prompt)]
           used == [s \in Slot |-> slots[s].lastUsed]
           found == FoundSlot(r)
           Good(s) == /\ s \in Slot /\ common[s] \in 0 .. Len(prompt) /\ common[s] <= Len(slots[s].Inputs)
                      /\ \A j \in 1 .. common[s] : slots[s].Inputs[j] = prompt[j]
<1>1. Free(slots) \subseteq Slot
  BY DEF Free
<1>2. Len(prompt) \in Nat
  BY PromptIs
<1>3. \A s \in Slot : Len(held[s]) \in Nat /\ held[s] = slots[s].Inputs /\ used[s] \in Nat
  BY DEF SlotsType
<1>4. ASSUME NEW s \in Slot PROVE Good(s)
  <2> DEFINE h == held[s]
  <2>1. common[s] = countCommonPrefix(h, prompt) /\ Len(h) \in Nat /\ h = slots[s].Inputs
    BY <1>3
  <2> HIDE DEF h, common, prompt
  <2>2. LET n == countCommonPrefix(h, prompt)
        IN  n \in 0 .. Len(prompt) /\ n <= Len(h) /\ \A i \in 1 .. n : h[i] = prompt[i]
    BY <1>2, <2>1, CommonPrefix
  <2> QED BY <2>1, <2>2
<1>5. FirstLargest(Free(slots), common) \in Free(slots) /\ FirstLargest(Slot, common) \in Slot
      /\ FirstSmallest(Free(slots), used) \in Free(slots)
  <2>1. Slot # {} /\ \A s \in Slot : common[s] \in 0 .. Len(prompt)
    BY <1>1, <1>4
  <2> HIDE DEF common, prompt, used
  <2> QED BY <1>1, <1>2, <1>3, <2>1, FirstLargestIn, FirstSmallestIn
<1>6. found.slot \in Free(slots) /\ Good(found.src) /\ found.numPast = common[found.src]
  <2>1. CASE MultiUserCache
    <3> DEFINE longest == FirstLargest(Slot, common)
               oldest == FirstSmallest(Free(slots), used)
               whole == common[longest] = Len(held[longest]) /\ ~ slots[longest].InUse
    <3>1. found = [slot |-> IF whole THEN longest ELSE oldest, src |-> longest, numPast |-> common[longest]]
      BY <2>1 DEF FoundSlot, findBestCacheSlot
    <3>2. whole => longest \in Free(slots)
      BY <1>5 DEF Free
    <3>3. Good(longest) /\ oldest \in Free(slots)
      <4> HIDE DEF Good
      <4> QED BY <1>4, <1>5
    <3> HIDE DEF longest, oldest, whole, common, found
    <3>4. found.slot = (IF whole THEN longest ELSE oldest) /\ found.src = longest /\ found.numPast = common[longest]
      BY <3>1
    <3> QED BY <3>2, <3>3, <3>4
  <2>2. CASE ~ MultiUserCache
    <3> DEFINE longest == FirstLargest(Free(slots), common)
    <3>1. found = [slot |-> longest, src |-> longest, numPast |-> common[longest]]
      BY <2>2 DEF FoundSlot, findLongestCacheSlot
    <3>2. Good(longest) /\ longest \in Free(slots)
      <4> HIDE DEF Good
      <4> QED BY <1>1, <1>4, <1>5
    <3> HIDE DEF longest, common, found
    <3> QED BY <3>1, <3>2
  <2> QED BY <2>1, <2>2
<1> HIDE DEF found, common
<1> QED BY <1>6 DEF found

-----------------------------------------------------------------------------
(* The inductive invariant.                                                *)

\* Types, and what never happens: a misread token, or a batch that fails.
Typed ==
    /\ seqs \in [Slot -> Req \cup {None}]
    /\ seq \in [Req -> [state : {"new", "run", "done"}, inputs : Seq(Nat), cache : Slot, decoded : Nat]]
    /\ slots \in SlotsType
    /\ clock \in Nat
    /\ kv \in [{"base"} -> [cells : CellsSet, data : Keys, copies : Seq(Stream \X Stream)]]
    /\ died \in {"no", "partial copy"}
    /\ misread = {}

\* A sequence has one place, and the slots in use are those of the sequences.
Owned ==
    /\ \A i, j \in Slot : seqs[i] = seqs[j] /\ seqs[i] # None => i = j
    /\ \A r \in Live : seq[r].state = "run" /\ slots[seq[r].cache].InUse
    /\ \A r, q \in Live : seq[r].cache = seq[q].cache => r = q
    /\ \A s \in Slot : slots[s].InUse => \E r \in Live : seq[r].cache = s

\* c holds a slot's list when its data is d.  A slot that is not in use may hold more,
\* which a stop sequence took back from the list.
Holds(slot, c, d) ==
    \E m \in 0 .. NumCtx : /\ Len(slot.Inputs) <= m /\ (slot.InUse => m = Len(slot.Inputs))
                           /\ Fills(c, m) /\ Matches(c, d, slot.Inputs)

\* The data behind the copies that are put off.
Eff == CopyAll(kv["base"].data, kv["base"].copies)

AllHold == \A s \in Slot : Holds(slots[s], kv["base"].cells[s], Eff[s])

Inv == Typed /\ Owned /\ AllHold

LEMMA CachesIs == ASSUME NSwa = 0 PROVE Caches = {"base"} /\ Window("base") = 0
BY DEF Caches, Window

LEMMA KvIs ==
    ASSUME Typed
    PROVE  /\ kv["base"].cells \in CellsSet /\ kv["base"].data \in Keys
           /\ kv["base"].copies \in Seq(Stream \X Stream) /\ Eff \in Keys
           /\ kv["base"] = [cells |-> kv["base"].cells, data |-> kv["base"].data, copies |-> kv["base"].copies]
<1>1. kv["base"] \in [cells : CellsSet, data : Keys, copies : Seq(Stream \X Stream)]
  BY DEF Typed
<1> DEFINE k == kv["base"]
<1>2. k \in [cells : CellsSet, data : Keys, copies : Seq(Stream \X Stream)]
  BY <1>1
<1> HIDE DEF k
<1>3. /\ k.cells \in CellsSet /\ k.data \in Keys /\ k.copies \in Seq(Stream \X Stream)
      /\ k = [cells |-> k.cells, data |-> k.data, copies |-> k.copies]
  <2> DEFINE Q == Seq(Stream \X Stream)
  <2>1. k \in [cells : CellsSet, data : Keys, copies : Q]
    BY <1>2
  <2> HIDE DEF Q
  <2> QED BY <2>1 DEF Q
<1>4. CopyAll(k.data, k.copies) \in Keys
  BY <1>3, CopyAllTyped
<1> QED BY <1>3, <1>4 DEF k, Eff

LEMMA InitInv == ASSUME NSwa = 0, Init PROVE Inv
<1>1. kv = [c \in {"base"} |-> EmptyCache]
  BY CachesIs DEF Init
<1> DEFINE cells == [s \in Stream |-> EmptyCells]
           data == [s \in Stream |-> [i \in Cell |-> NoToken]]
<1>2. kv["base"] = [cells |-> cells, data |-> data, copies |-> <<>>]
  BY <1>1 DEF EmptyCache
<1>3. EmptyCells \in CellsType /\ \A i \in Cell : EmptyCells.pos[i] = -1
  <2> DEFINE p == [i \in Cell |-> -1]
             h == [i \in Cell |-> 0]
  <2>1. p \in [Cell -> -1 .. NumCtx - 1] /\ h \in [Cell -> {0}] /\ 0 \in 0 .. Size /\ \A i \in Cell : p[i] = -1
    BY Sizes
  <2>2. EmptyCells = [pos |-> p, shift |-> h, head |-> 0]
    BY DEF EmptyCells
  <2> HIDE DEF p, h
  <2> QED BY <2>1, <2>2 DEF CellsType
<1>4. cells \in CellsSet /\ \A s \in Stream : cells[s] = EmptyCells
  BY <1>3 DEF CellsSet
<1>5. data \in Keys
  <2>1. NoToken \in Content
    BY Sizes DEF NoToken, Content
  <2> QED BY <2>1 DEF Keys
<1> HIDE DEF cells, data
<1>6. Typed
  <2>1. seqs \in [Slot -> Req \cup {None}] /\ misread = {} /\ died \in {"no", "partial copy"} /\ clock \in Nat
    BY DEF Init
  <2>2. 0 \in Slot /\ \A r \in Req : Prompt[r] \in Seq(Nat)
    BY Sizes, LlamaAssumption DEF Slot
  <2>3. seq \in [Req -> [state : {"new", "run", "done"}, inputs : Seq(Nat), cache : Slot, decoded : Nat]]
    <3>1. seq = [r \in Req |-> [state |-> "new", inputs |-> Prompt[r], cache |-> 0, decoded |-> 0]]
      BY DEF Init
    <3> QED BY <2>2, <3>1
  <2>4. slots \in SlotsType
    <3>1. slots = [s \in Slot |-> [Inputs |-> <<>>, InUse |-> FALSE, lastUsed |-> 0]] /\ <<>> \in Seq(Nat)
      BY DEF Init
    <3> QED BY <3>1 DEF SlotsType
  <2>5. kv \in [{"base"} -> [cells : CellsSet, data : Keys, copies : Seq(Stream \X Stream)]]
    <3>1. EmptyCache = [cells |-> cells, data |-> data, copies |-> <<>>] /\ <<>> \in Seq(Stream \X Stream)
      BY DEF cells, data, EmptyCache
    <3> DEFINE Q == Seq(Stream \X Stream)
               o == <<>>
    <3>2. EmptyCache = [cells |-> cells, data |-> data, copies |-> o] /\ o \in Q
      BY <3>1
    <3> HIDE DEF Q, o
    <3>3. EmptyCache \in [cells : CellsSet, data : Keys, copies : Q]
      BY <1>4, <1>5, <3>2
    <3> QED BY <1>1, <3>3 DEF Q
  <2> QED BY <2>1, <2>3, <2>4, <2>5 DEF Typed
<1>7. Owned
  <2>1. Live = {} /\ \A s \in Slot : seqs[s] = None /\ ~ slots[s].InUse
    BY DEF Init, Live
  <2> QED BY <2>1 DEF Owned
<1>8. AllHold
  <2>1. ASSUME NEW s \in Slot PROVE Holds(slots[s], kv["base"].cells[s], Eff[s])
    <3>1. slots[s].Inputs = <<>> /\ Len(<<>>) = 0 /\ ~ slots[s].InUse
      BY DEF Init
    <3>2. kv["base"].cells[s] = EmptyCells
      BY <1>2, <1>4, Sizes
    <3>3. Fills(EmptyCells, 0) /\ Matches(EmptyCells, Eff[s], <<>>)
      BY <1>3 DEF Fills, Matches
    <3>4. 0 \in 0 .. NumCtx
      BY Sizes
    <3> QED BY <3>1, <3>2, <3>3, <3>4 DEF Holds
  <2> QED BY <2>1 DEF AllHold
<1> QED BY <1>6, <1>7, <1>8 DEF Inv

-----------------------------------------------------------------------------
(* A prompt gets its cache slot.                                           *)

CacheType == [cells : CellsSet, data : Keys, copies : Seq(Stream \X Stream)]

LEMMA CacheTypeIs ==
    ASSUME NEW a \in CellsSet, NEW b \in Keys, NEW c \in Seq(Stream \X Stream)
    PROVE  [cells |-> a, data |-> b, copies |-> c] \in CacheType
<1> DEFINE Q == Seq(Stream \X Stream)
<1>1. c \in Q
  OBVIOUS
<1> HIDE DEF Q
<1>2. [cells |-> a, data |-> b, copies |-> c] \in [cells : CellsSet, data : Keys, copies : Q]
  BY <1>1
<1> QED BY <1>2 DEF CacheType, Q

LEMMA RmCacheIs ==
    ASSUME NEW a, NEW b, NEW c, NEW s, NEW x, NEW k, k = [cells |-> a, data |-> b, copies |-> c]
    PROVE  [k EXCEPT !.cells[s] = x] = [cells |-> [a EXCEPT ![s] = x], data |-> b, copies |-> c]
OBVIOUS

LEMMA FreeSlot ==
    ASSUME Typed, Owned, NEW i \in Slot, seqs[i] = None
    PROVE  Free(slots) # {}
<1> DEFINE P == Slot \ {i}
<1>1. IsFiniteSet(Slot) /\ Cardinality(Slot) = Parallel /\ Parallel \in Nat \ {0}
  <2>1. 0 \in Int /\ Parallel - 1 \in Int /\ Parallel \in Nat \ {0}
    BY Sizes
  <2> QED BY <2>1, FS_Interval DEF Slot
<1>2. IsFiniteSet(P) /\ Cardinality(P) = Parallel - 1
  BY <1>1, FS_RemoveElement
<1>3. ASSUME Free(slots) = {} PROVE FALSE
  <2>1. \A s \in Slot : \E j \in P : seqs[j] # None /\ seq[seqs[j]].cache = s
    <3>1. ASSUME NEW s \in Slot PROVE \E j \in P : seqs[j] # None /\ seq[seqs[j]].cache = s
      <4>1. slots[s].InUse
        BY <1>3 DEF Free
      <4>2. PICK r \in Live : seq[r].cache = s
        BY <4>1 DEF Owned
      <4>3. PICK j \in Slot : seqs[j] = r /\ r # None
        BY DEF Live
      <4> QED BY <4>2, <4>3
    <3> QED BY <3>1
  <2> DEFINE f == [s \in Slot |-> CHOOSE j \in P : seqs[j] # None /\ seq[seqs[j]].cache = s]
  <2>2. \A s \in Slot : f[s] \in P /\ seq[seqs[f[s]]].cache = s
    BY <2>1
  <2>3. f \in [Slot -> P]
    BY <2>2
  <2> HIDE DEF f, P
  <2>4. \E x, y \in Slot : x # y /\ f[x] = f[y]
    BY <1>1, <1>2, <2>3, FS_PigeonHole
  <2> QED BY <2>2, <2>4
<1> QED BY <1>3

\* The copy of a prefix, before what is beyond it is removed.
LEMMA CopiedIs ==
    ASSUME NSwa = 0, Typed, AllHold, NEW found, found.slot \in Slot, found.src \in Slot,
           found.numPast \in Nat, found.numPast <= Len(slots[found.src].Inputs)
    PROVE  LET k == Copied(found)["base"]
               e == CopyAll(k.data, k.copies)
               x == IF Forks(found) THEN found.src ELSE found.slot
           IN  /\ k \in CacheType
               /\ \A s \in Slot \ {found.slot} : k.cells[s] = kv["base"].cells[s] /\ e[s] = Eff[s]
               /\ \E m \in 0 .. NumCtx :
                     /\ Len(slots[x].Inputs) <= m /\ Fills(k.cells[found.slot], m)
                     /\ Matches(k.cells[found.slot], e[found.slot], slots[x].Inputs)
<1> DEFINE k == Copied(found)["base"]
           e == CopyAll(k.data, k.copies)
           x == IF Forks(found) THEN found.src ELSE found.slot
           old == kv["base"]
           t == found.slot
           o == found.src
<1>1. /\ old.cells \in CellsSet /\ old.data \in Keys
      /\ old.copies \in Seq(Stream \X Stream) /\ Eff \in Keys /\ Eff = CopyAll(old.data, old.copies)
      /\ old = [cells |-> old.cells, data |-> old.data, copies |-> old.copies]
  BY KvIs DEF Eff
<1>2. \A s \in Slot : \E m \in 0 .. NumCtx :
          Len(slots[s].Inputs) <= m /\ Fills(old.cells[s], m) /\ Matches(old.cells[s], Eff[s], slots[s].Inputs)
  BY DEF AllHold, Holds
<1>3. CASE ~ Forks(found)
  <2>1. k = old /\ x = t
    BY <1>3 DEF Copied
  <2> HIDE DEF k, old, t, x
  <2>2. k \in CacheType /\ e = Eff
    BY <1>1, <2>1, CacheTypeIs
  <2> HIDE DEF e
  <2>3. t \in Slot
    BY DEF t
  <2> QED BY <1>2, <2>1, <2>2, <2>3 DEF k, e, x, t, old
<1>4. CASE Forks(found)
  <2> DEFINE rm == seq_rm(old.cells[t], 0, -1)
             a == old.cells
             b == old.data
             c == old.copies
  <2>1. KvCacheSeqRm(kv, t, 0, -1)["base"] = [old EXCEPT !.cells[t] = rm]
    BY CachesIs DEF KvCacheSeqRm
  <2>2. o # t /\ x = o /\ o \in Stream /\ t \in Stream
    BY <1>4, Sizes DEF Forks
  <2> HIDE DEF rm
  <2>3. old = [cells |-> a, data |-> b, copies |-> c]
    BY <1>1
  <2> DEFINE mid == KvCacheSeqRm(kv, t, 0, -1)
             k1 == mid["base"]
  <2>4. k1 = [cells |-> [a EXCEPT ![t] = rm], data |-> b, copies |-> c]
    <3> HIDE DEF old, a, b, c, t, mid
    <3> QED BY <2>1, <2>3, RmCacheIs DEF mid
  <2>5. k = seq_cp(k1, o, t)
    <3>1. Copied(found) = KvCacheSeqCp(mid, o, t)
      BY <1>4 DEF Copied
    <3> HIDE DEF mid
    <3>2. KvCacheSeqCp(mid, o, t)["base"] = seq_cp(mid["base"], o, t)
      BY CachesIs DEF KvCacheSeqCp
    <3> QED BY <3>1, <3>2
  <2>6. a \in CellsSet /\ b \in Keys /\ c \in Seq(Stream \X Stream) /\ Eff = CopyAll(b, c)
    BY <1>1
  <2> DEFINE y == <<o, t>>
             nc == Append(c, y)
             na == [[a EXCEPT ![t] = rm] EXCEPT ![t] = a[o]]
  <2>7. k = [cells |-> na, data |-> b, copies |-> nc]
    <3> DEFINE a1 == [a EXCEPT ![t] = rm]
    <3>1. k1 = [cells |-> a1, data |-> b, copies |-> c]
      BY <2>4
    <3>2. a1[o] = a[o]
      <4> HIDE DEF a, rm, o, t
      <4> QED BY <2>2, <2>6 DEF CellsSet
    <3> HIDE DEF k1, k, a, b, c, o, t, a1
    <3>3. k = [k1 EXCEPT !.cells[t] = a1[o], !.copies = nc]
      BY <2>5, <3>1 DEF seq_cp
    <3> HIDE DEF nc
    <3>4. k = [cells |-> [a1 EXCEPT ![t] = a1[o]], data |-> b, copies |-> nc]
      <4> DEFINE z == a1[o]
      <4>1. k = [k1 EXCEPT !.cells[t] = z, !.copies = nc]
        BY <3>3
      <4> HIDE DEF z
      <4>2. [k1 EXCEPT !.cells[t] = z] = [cells |-> [a1 EXCEPT ![t] = z], data |-> b, copies |-> c]
        BY <3>1, RmCacheIs
      <4>3. [[cells |-> [a1 EXCEPT ![t] = z], data |-> b, copies |-> c] EXCEPT !.copies = nc]
               = [cells |-> [a1 EXCEPT ![t] = z], data |-> b, copies |-> nc]
        OBVIOUS
      <4> QED BY <4>1, <4>2, <4>3 DEF z
    <3> QED BY <3>2, <3>4 DEF a1
  <2>8. na \in CellsSet /\ na[t] = a[o] /\ \A s \in Slot \ {t} : na[s] = a[s]
    <3>1. a[o] \in CellsType
      <4> HIDE DEF a, o
      <4> QED BY <2>2, <2>6 DEF CellsSet
    <3> HIDE DEF a, o, t, rm
    <3> QED BY <2>2, <2>6, <3>1, Sizes DEF CellsSet
  <2>9. y \in Stream \X Stream /\ nc \in Seq(Stream \X Stream) /\ CopyAll(b, nc) = CopyStep(Eff, y)
    <3>1. y \in Stream \X Stream
      BY <2>2
    <3> HIDE DEF y, b, c
    <3>2. nc \in Seq(Stream \X Stream)
      BY <2>6, <3>1
    <3> QED BY <2>6, <3>1, <3>2, CopyAllAppend
  <2> HIDE DEF a, b, c, na, nc, k, rm, o, t, x
  <2>10. k \in CacheType /\ k.cells = na /\ e = CopyStep(Eff, y)
    BY <2>6, <2>7, <2>8, <2>9, CacheTypeIs
  <2>11. e[t] = Eff[o] /\ \A s \in Slot \ {t} : e[s] = Eff[s]
    <3>1. e = [Eff EXCEPT ![t] = Eff[o]]
      BY <2>10 DEF CopyStep
    <3> HIDE DEF e
    <3> QED BY <1>1, <2>2, <3>1, Sizes DEF Keys
  <2> HIDE DEF e
  <2>12. PICK m \in 0 .. NumCtx :
            Len(slots[o].Inputs) <= m /\ Fills(a[o], m) /\ Matches(a[o], Eff[o], slots[o].Inputs)
    BY <1>2, <2>2, Sizes DEF a
  <2> QED BY <2>2, <2>8, <2>10, <2>11, <2>12 DEF k, e, x, t, a, old
<1> QED BY <1>3, <1>4

LEMMA RmIn ==
    ASSUME NEW a \in CellsSet, NEW s \in Stream, NEW c \in CellsType
    PROVE  /\ [a EXCEPT ![s] = c] \in CellsSet /\ [a EXCEPT ![s] = c][s] = c
           /\ \A t \in Stream \ {s} : [a EXCEPT ![s] = c][t] = a[t]
BY DEF CellsSet

\* The slot then holds the prefix of the prompt.
LEMMA PrefixIs ==
    ASSUME NSwa = 0, Typed, AllHold, NEW r \in Req, NEW found, found.slot \in Slot, found.src \in Slot,
           found.numPast \in Nat, found.numPast <= Len(slots[found.src].Inputs),
           \A j \in 1 .. found.numPast : slots[found.src].Inputs[j] = Prompt[r][j],
           NEW n \in Nat, n <= found.numPast, n < Len(Prompt[r])
    PROVE  LET k == PrefixOf(found, n)["base"]
               e == CopyAll(k.data, k.copies)
           IN  /\ k \in CacheType
               /\ \A s \in Slot \ {found.slot} : k.cells[s] = kv["base"].cells[s] /\ e[s] = Eff[s]
               /\ Fills(k.cells[found.slot], n)
               /\ Matches(k.cells[found.slot], e[found.slot], SubSeq(Prompt[r], 1, n))
<1> DEFINE k == PrefixOf(found, n)["base"]
           e == CopyAll(k.data, k.copies)
           k0 == Copied(found)["base"]
           e0 == CopyAll(k0.data, k0.copies)
           x == IF Forks(found) THEN found.src ELSE found.slot
           t == found.slot
           inputs == slots[x].Inputs
           old == kv["base"]
<1>1. /\ k0 \in CacheType
      /\ \A s \in Slot \ {t} : k0.cells[s] = old.cells[s] /\ e0[s] = Eff[s]
      /\ \E m \in 0 .. NumCtx : Len(inputs) <= m /\ Fills(k0.cells[t], m) /\ Matches(k0.cells[t], e0[t], inputs)
  BY CopiedIs
<1>2. inputs \in Seq(Nat) /\ n <= Len(inputs) /\ \A j \in 1 .. n : inputs[j] = Prompt[r][j]
  <2>1. x \in Slot
    OBVIOUS
  <2>2. inputs \in Seq(Nat)
    <3> HIDE DEF x
    <3> QED BY <2>1 DEF Typed, SlotsType
  <2>3. Len(inputs) \in Nat
    <3> HIDE DEF inputs
    <3> QED BY <2>2
  <2>4. x = found.src \/ found.numPast = 0
    BY DEF Forks
  <2>5. CASE x = found.src
    <3>1. n <= Len(inputs)
      <4> DEFINE h == Len(inputs)
                 g == found.numPast
      <4>1. h \in Nat /\ g \in Nat /\ g <= h /\ n <= g
        BY <2>3, <2>5
      <4> HIDE DEF h, g
      <4>2. n <= h
        BY <4>1
      <4> QED BY <4>2 DEF h
    <3>2. \A j \in 1 .. n : j \in 1 .. found.numPast
      OBVIOUS
    <3> QED BY <2>2, <2>5, <3>1, <3>2
  <2>6. CASE found.numPast = 0
    <3>1. n = 0
      BY <2>6
    <3> HIDE DEF inputs
    <3> QED BY <2>2, <2>3, <3>1
  <2> QED BY <2>4, <2>5, <2>6
<1> HIDE DEF k0, e0, inputs, x
<1> DEFINE a == k0.cells
           b == k0.data
           c == k0.copies
           rm == seq_rm(a[t], n, -1)
<1>3. a \in CellsSet /\ b \in Keys /\ c \in Seq(Stream \X Stream) /\ k0 = [cells |-> a, data |-> b, copies |-> c]
      /\ e0 = CopyAll(b, c)
  <2>0. e0 = CopyAll(b, c)
    BY DEF e0
  <2> DEFINE Q == Seq(Stream \X Stream)
  <2>1. k0 \in [cells : CellsSet, data : Keys, copies : Q]
    BY <1>1 DEF CacheType
  <2> HIDE DEF Q
  <2>2. a \in CellsSet /\ b \in Keys /\ c \in Q /\ k0 = [cells |-> a, data |-> b, copies |-> c]
    BY <2>1
  <2> QED BY <2>0, <2>2 DEF Q
<1>4. t \in Stream /\ a[t] \in CellsType
  BY <1>3, Sizes DEF CellsSet
<1>5. k = [cells |-> [a EXCEPT ![t] = rm], data |-> b, copies |-> c]
  <2>1. k = [k0 EXCEPT !.cells[t] = rm]
    BY CachesIs DEF PrefixOf, KvCacheSeqRm, k0
  <2> HIDE DEF k, a, b, c, t, rm
  <2> QED BY <1>3, <2>1, RmCacheIs
<1>6. PICK m \in 0 .. NumCtx : Len(inputs) <= m /\ Fills(a[t], m) /\ Matches(a[t], e0[t], inputs)
  BY <1>1
<1>7. /\ rm \in CellsType /\ Fills(rm, n)
      /\ \A i \in Cell : rm.pos[i] = IF a[t].pos[i] < n THEN a[t].pos[i] ELSE -1
  <2> DEFINE o == a[t]
  <2>0. Len(inputs) \in Nat
    BY <1>2
  <2>1. m \in Nat /\ n \in 0 .. m /\ o \in CellsType /\ Fills(o, m)
    BY <1>2, <1>4, <1>6, <2>0, Sizes
  <2> HIDE DEF o
  <2>2. LET q == seq_rm(o, n, -1)
        IN  /\ q \in CellsType /\ Fills(q, n)
            /\ \A i \in Cell : q.pos[i] = IF o.pos[i] < n THEN o.pos[i] ELSE -1
    BY <2>1, RmTail
  <2> QED BY <2>2 DEF o
<1> DEFINE na == [a EXCEPT ![t] = rm]
<1> HIDE DEF rm, a, b, c, t, k
<1>8. na \in CellsSet /\ na[t] = rm /\ \A s \in Stream \ {t} : na[s] = a[s]
  BY <1>3, <1>4, <1>7, RmIn
<1> HIDE DEF na
<1>9. k \in CacheType /\ k.cells = na /\ e = e0
  <2>1. k = [cells |-> na, data |-> b, copies |-> c]
    BY <1>5 DEF na
  <2>2. k \in CacheType
    BY <1>3, <1>8, <2>1, CacheTypeIs
  <2>3. k.cells = na /\ k.data = b /\ k.copies = c
    BY <2>1
  <2> QED BY <1>3, <2>2, <2>3
<1> HIDE DEF e
<1>10. \A s \in Slot \ {t} : k.cells[s] = old.cells[s] /\ e[s] = Eff[s]
  BY <1>1, <1>8, <1>9, Sizes DEF a
<1> DEFINE p == SubSeq(Prompt[r], 1, n)
<1>11. Len(p) = n /\ \A j \in 1 .. n : p[j] = Prompt[r][j]
  <2>1. Prompt[r] \in Seq(Nat) /\ Len(Prompt[r]) \in Nat
    BY PromptIs
  <2>2. n - 1 + 1 = n /\ n <= Len(Prompt[r])
    BY <2>1
  <2> QED BY <2>1, <2>2
<1> HIDE DEF p
<1>12. Matches(rm, e0[t], p)
  <2>1. ASSUME NEW i \in Cell, rm.pos[i] # -1
        PROVE  e0[t][i][2] = rm.pos[i] /\ (rm.pos[i] < Len(p) => e0[t][i][1] = p[rm.pos[i] + 1])
    <3> DEFINE q == a[t].pos[i]
    <3>1. rm.pos[i] = q /\ q < n /\ q # -1
      BY <1>7, <2>1
    <3>2. q \in -1 .. NumCtx - 1
      BY <1>4 DEF CellsType
    <3>3. e0[t][i][2] = q /\ (q < Len(inputs) => e0[t][i][1] = inputs[q + 1])
      BY <1>6, <3>1 DEF Matches
    <3> HIDE DEF q
    <3>0. Len(inputs) \in Nat
      BY <1>2
    <3>4. q \in Nat /\ q < Len(inputs) /\ q + 1 \in 1 .. n
      BY <1>2, <3>0, <3>1, <3>2, Sizes
    <3>5. inputs[q + 1] = Prompt[r][q + 1] /\ p[q + 1] = Prompt[r][q + 1]
      BY <1>2, <1>11, <3>4
    <3> QED BY <3>1, <3>3, <3>4, <3>5
  <2> QED BY <2>1 DEF Matches
<1> QED BY <1>7, <1>8, <1>9, <1>10, <1>12 DEF k, e, t, old, p

LEMMA FrameInv ==
    ASSUME Inv, UNCHANGED <<seqs, seq, slots, clock, kv, misread>>, died' \in {"no", "partial copy"}
    PROVE  Inv'
<1>1. Typed'
  BY DEF Inv, Typed
<1>2. Owned'
  <2>1. Live' = Live
    BY DEF Live
  <2> QED BY <2>1 DEF Inv, Owned
<1>3. AllHold'
  <2>1. Eff' = Eff
    BY DEF Eff
  <2>2. \A s \in Slot : Holds(slots[s], kv["base"].cells[s], Eff[s])
    BY DEF Inv, AllHold
  <2>3. \A s \in Slot : Holds(slots'[s], kv'["base"].cells[s], Eff'[s])
    BY <2>1, <2>2
  <2> QED BY <2>3 DEF AllHold
<1> QED BY <1>1, <1>2, <1>3 DEF Inv

LEMMA InsertInv ==
    ASSUME NSwa = 0, Inv, NEW r \in Req, Insert(r)
    PROVE  Inv'
<1>0. Typed /\ Owned /\ AllHold
  BY DEF Inv
<1>1. PICK i \in Slot : seqs[i] = None /\ LoadPrompt(r, i)
  BY DEF Insert
<1>2. seq[r].state = "new"
  BY DEF Insert
<1> DEFINE found == FoundSlot(r)
           n == IF r \in Embedding THEN 0 ELSE Lesser(found.numPast, Len(Prompt[r]) - 1)
           t == found.slot
           p == SubSeq(Prompt[r], 1, n)
           q == SubSeq(Prompt[r], n + 1, Len(Prompt[r]))
           slot == [Inputs |-> p, InUse |-> TRUE, lastUsed |-> clock]
<1>3. /\ t \in Free(slots) /\ found.src \in Slot
      /\ found.numPast \in 0 .. Len(Prompt[r])
      /\ found.numPast <= Len(slots[found.src].Inputs)
      /\ \A j \in 1 .. found.numPast : slots[found.src].Inputs[j] = Prompt[r][j]
  <2>1. Free(slots) # {}
    BY <1>0, <1>1, FreeSlot
  <2>2. slots \in SlotsType
    BY <1>0 DEF Typed
  <2> HIDE DEF found
  <2> QED BY <2>1, <2>2, FoundIs DEF found
<1>4. CASE Forks(found) /\ ~ IsFull(found.numPast)
  <2>1. died' = "partial copy" /\ UNCHANGED <<seqs, seq, slots, clock, kv, misread>>
    BY <1>1, <1>4 DEF LoadPrompt
  <2> QED BY <2>1, FrameInv
<1>5. CASE ~ (Forks(found) /\ ~ IsFull(found.numPast))
  <2>1. /\ kv' = PrefixOf(found, n)
        /\ slots' = [slots EXCEPT ![t] = slot]
        /\ seq' = [seq EXCEPT ![r].state = "run", ![r].cache = t, ![r].inputs = q]
        /\ seqs' = [seqs EXCEPT ![i] = r]
        /\ clock' = clock + 1
        /\ UNCHANGED <<died, misread>>
    BY <1>1, <1>5 DEF LoadPrompt
  <2>2. Prompt[r] \in Seq(Nat) /\ Len(Prompt[r]) \in 1 .. NumCtx
    BY PromptIs
  <2>3. n \in Nat /\ n <= found.numPast /\ n < Len(Prompt[r]) /\ found.numPast \in Nat
    <3> DEFINE h == Len(Prompt[r])
               g == found.numPast
    <3>1. h \in Nat \ {0} /\ g \in Nat
      BY <1>3, <2>2
    <3>2. n = IF r \in Embedding THEN 0 ELSE Lesser(g, h - 1)
      OBVIOUS
    <3> HIDE DEF h, g, n
    <3>3. n \in Nat /\ n <= g /\ n < h
      BY <3>1, <3>2 DEF Lesser
    <3> QED BY <3>1, <3>3 DEF h, g
  <2>4. t \in Slot /\ ~ slots[t].InUse
    BY <1>3 DEF Free
  <2> DEFINE k == kv'["base"]
             e == CopyAll(k.data, k.copies)
  <2>5. /\ k \in CacheType
        /\ \A s \in Slot \ {t} : k.cells[s] = kv["base"].cells[s] /\ e[s] = Eff[s]
        /\ Fills(k.cells[t], n) /\ Matches(k.cells[t], e[t], p)
    <3> DEFINE kk == PrefixOf(found, n)["base"]
               ee == CopyAll(kk.data, kk.copies)
    <3> HIDE DEF found, n
    <3>1. /\ kk \in CacheType
          /\ \A s \in Slot \ {t} : kk.cells[s] = kv["base"].cells[s] /\ ee[s] = Eff[s]
          /\ Fills(kk.cells[t], n) /\ Matches(kk.cells[t], ee[t], p)
      BY <1>0, <1>3, <2>3, <2>4, PrefixIs
    <3> QED BY <2>1, <3>1
  <2>6. p \in Seq(Nat) /\ Len(p) = n /\ q \in Seq(Nat) /\ n <= NumCtx
    <3> HIDE DEF n
    <3>1. n <= NumCtx /\ n <= Len(Prompt[r])
      BY <2>2, <2>3, Sizes
    <3>2. \A j \in 1 .. n : Prompt[r][j] \in Nat
      BY <2>2, <2>3
    <3>3. \A j \in n + 1 .. Len(Prompt[r]) : Prompt[r][j] \in Nat
      BY <2>2, <2>3
    <3>4. p \in Seq(Nat) /\ Len(p) = IF 1 <= n THEN n - 1 + 1 ELSE 0
      BY <2>3, <3>2, SubSeqProperties
    <3>5. q \in Seq(Nat)
      BY <2>2, <2>3, <3>3, SubSeqProperties
    <3> QED BY <2>3, <3>1, <3>4, <3>5
  <2> HIDE DEF found, n, p, q, t
  <2>7. slot \in [Inputs : Seq(Nat), InUse : BOOLEAN, lastUsed : Nat]
    <3>1. clock \in Nat
      BY <1>0 DEF Typed
    <3> QED BY <2>6, <3>1
  <2>8. slots'[t] = slot /\ \A s \in Slot \ {t} : slots'[s] = slots[s]
    <3> HIDE DEF slot
    <3>1. slots \in SlotsType
      BY <1>0 DEF Typed
    <3> QED BY <2>1, <2>4, <3>1 DEF SlotsType
  <2>9. /\ seq'[r].state = "run" /\ seq'[r].cache = t /\ \A x \in Req \ {r} : seq'[x] = seq[x]
        /\ seq'[r] \in [state : {"new", "run", "done"}, inputs : Seq(Nat), cache : Slot, decoded : Nat]
        /\ DOMAIN seq' = Req
    <3>1. seq \in [Req -> [state : {"new", "run", "done"}, inputs : Seq(Nat), cache : Slot, decoded : Nat]]
      BY <1>0 DEF Typed
    <3>2. seq' = [seq EXCEPT ![r] = [[[seq[r] EXCEPT !.state = "run"] EXCEPT !.cache = t] EXCEPT !.inputs = q]]
      BY <2>1, <3>1
    <3> DEFINE v == seq[r]
               w == [[[v EXCEPT !.state = "run"] EXCEPT !.cache = t] EXCEPT !.inputs = q]
    <3>3. v \in [state : {"new", "run", "done"}, inputs : Seq(Nat), cache : Slot, decoded : Nat]
      BY <3>1
    <3>4. seq'[r] = w /\ \A x \in Req \ {r} : seq'[x] = seq[x] /\ DOMAIN seq' = Req
      <4> HIDE DEF w
      <4>1. seq' = [seq EXCEPT ![r] = w]
        BY <3>2 DEF w
      <4> QED BY <3>1, <4>1
    <3>5. DOMAIN seq' = Req
      BY <3>1, <3>2
    <3> HIDE DEF v
    <3>6. w.state = "run" /\ w.cache = t
          /\ w \in [state : {"new", "run", "done"}, inputs : Seq(Nat), cache : Slot, decoded : Nat]
      BY <2>4, <2>6, <3>3
    <3> HIDE DEF w
    <3> QED BY <3>4, <3>5, <3>6
  <2>10. seqs'[i] = r /\ \A j \in Slot \ {i} : seqs'[j] = seqs[j]
    <3>1. seqs \in [Slot -> Req \cup {None}]
      BY <1>0 DEF Typed
    <3> QED BY <1>1, <2>1, <3>1
  <2>11. r # None /\ r \notin Live /\ Live' = Live \cup {r} /\ Live \subseteq Req
    <3>1. r # None
      BY LlamaAssumption
    <3>2. r \notin Live
      BY <1>0, <1>2 DEF Owned
    <3>3. Live' = {seqs'[j] : j \in Slot} \ {None}
      BY DEF Live
    <3>4. \A x : x \in Live' <=> x \in Live \/ x = r
      BY <1>1, <2>10, <3>1, <3>3 DEF Live
    <3>5. Live \subseteq Req
      BY <1>0 DEF Live, Typed
    <3> QED BY <3>1, <3>2, <3>4, <3>5
  <2>12. Typed'
    <3>1. seqs' \in [Slot -> Req \cup {None}]
      BY <1>0, <1>1, <2>1 DEF Typed
    <3>2. seq' \in [Req -> [state : {"new", "run", "done"}, inputs : Seq(Nat), cache : Slot, decoded : Nat]]
      <4>1. \A x \in Req : seq'[x] \in [state : {"new", "run", "done"}, inputs : Seq(Nat), cache : Slot, decoded : Nat]
        BY <1>0, <2>9 DEF Typed
      <4>2. seq' = [x \in Req |-> seq'[x]]
        BY <1>0, <2>1 DEF Typed
      <4> QED BY <4>1, <4>2
    <3>3. slots' \in SlotsType
      <4> HIDE DEF slot
      <4>1. slots \in SlotsType
        BY <1>0 DEF Typed
      <4> QED BY <2>1, <2>7, <4>1 DEF SlotsType
    <3>4. clock' \in Nat
      <4>1. clock \in Nat
        BY <1>0 DEF Typed
      <4>2. clock' = clock + 1
        BY <2>1
      <4> QED BY <4>1, <4>2
    <3>7. died' \in {"no", "partial copy"} /\ misread' = {}
      <4>1. died \in {"no", "partial copy"} /\ misread = {}
        BY <1>0 DEF Typed
      <4>2. died' = died /\ misread' = misread
        BY <2>1
      <4> QED BY <4>1, <4>2, Zenon
    <3>5. kv' \in [{"base"} -> CacheType]
      <4>1. kv' = [c \in {"base"} |-> kv'[c]]
        BY <2>1, CachesIs DEF PrefixOf, KvCacheSeqRm
      <4> QED BY <2>5, <4>1
    <3>6. kv' \in [{"base"} -> [cells : CellsSet, data : Keys, copies : Seq(Stream \X Stream)]]
      BY <3>5 DEF CacheType
    <3> QED BY <3>1, <3>2, <3>3, <3>4, <3>6, <3>7 DEF Typed
  <2>13. Owned'
    <3> HIDE DEF slot
    <3>0. slot.InUse = TRUE
      BY DEF slot
    <3>1. \A j, l \in Slot : seqs'[j] = seqs'[l] /\ seqs'[j] # None => j = l
      <4>1. \A j \in Slot : seqs[j] # r
        BY <2>11 DEF Live
      <4> QED BY <1>0, <2>10, <4>1 DEF Owned
    <3>2. \A x \in Live : seq[x].cache # t /\ x \in Req /\ x # r /\ seq[x].cache \in Slot
      <4>1. \A x \in Req : seq[x].cache \in Slot
        BY <1>0 DEF Typed
      <4> QED BY <1>0, <2>4, <2>11, <4>1 DEF Owned
    <3>3. \A x \in Live' : seq'[x].state = "run" /\ slots'[seq'[x].cache].InUse
      BY <1>0, <2>8, <2>9, <2>11, <3>0, <3>2 DEF Owned
    <3>4. \A x, y \in Live' : seq'[x].cache = seq'[y].cache => x = y
      BY <1>0, <2>9, <2>11, <3>2 DEF Owned
    <3>5. \A s \in Slot : slots'[s].InUse => \E x \in Live' : seq'[x].cache = s
      BY <1>0, <2>8, <2>9, <2>11, <3>2 DEF Owned
    <3> QED BY <3>1, <3>3, <3>4, <3>5 DEF Owned
  <2>14. AllHold'
    <3>1. Eff' = e
      BY DEF Eff
    <3>2. ASSUME NEW s \in Slot PROVE Holds(slots'[s], k.cells[s], e[s])
      <4>1. CASE s = t
        <5>1. slots'[s] = slot /\ slot.Inputs = p
          BY <2>8, <4>1
        <5>2. n \in 0 .. NumCtx /\ Len(p) <= n /\ n = Len(p)
          BY <2>3, <2>6
        <5> HIDE DEF slot, k, e
        <5> QED BY <2>5, <4>1, <5>1, <5>2 DEF Holds
      <4>2. CASE s # t
        <5>1. slots'[s] = slots[s] /\ k.cells[s] = kv["base"].cells[s] /\ e[s] = Eff[s]
          <6> HIDE DEF slot, k, e
          <6> QED BY <2>5, <2>8, <4>2
        <5> HIDE DEF slot, k, e
        <5> QED BY <1>0, <5>1 DEF AllHold
      <4> QED BY <4>1, <4>2
    <3> QED BY <3>1, <3>2 DEF AllHold
  <2> QED BY <2>12, <2>13, <2>14 DEF Inv
<1> QED BY <1>4, <1>5

-----------------------------------------------------------------------------
(* Sequences that leave their places.                                      *)

SequenceType == [state : {"new", "run", "done"}, inputs : Seq(Nat), cache : Slot, decoded : Nat]

LEMMA StoppedIs ==
    ASSUME NEW v \in SequenceType
    PROVE  [v EXCEPT !.state = "done", !.inputs = <<>>] \in SequenceType
<1> DEFINE Q == Seq(Nat)
<1>1. <<>> \in Q
  OBVIOUS
<1>2. v \in [state : {"new", "run", "done"}, inputs : Q, cache : Slot, decoded : Nat]
  BY DEF SequenceType
<1> HIDE DEF Q
<1>3. [v EXCEPT !.state = "done", !.inputs = <<>>]
          \in [state : {"new", "run", "done"}, inputs : Q, cache : Slot, decoded : Nat]
  BY <1>1, <1>2
<1> QED BY <1>3 DEF SequenceType, Q

LEMMA ReleasedIs ==
    ASSUME NEW v \in [Inputs : Seq(Nat), InUse : BOOLEAN, lastUsed : Nat]
    PROVE  /\ [v EXCEPT !.InUse = FALSE] \in [Inputs : Seq(Nat), InUse : BOOLEAN, lastUsed : Nat]
           /\ [v EXCEPT !.InUse = FALSE].Inputs = v.Inputs /\ [v EXCEPT !.InUse = FALSE].InUse = FALSE
<1> DEFINE Q == Seq(Nat)
<1>2. v \in [Inputs : Q, InUse : BOOLEAN, lastUsed : Nat]
  OBVIOUS
<1> HIDE DEF Q
<1>3. /\ [v EXCEPT !.InUse = FALSE] \in [Inputs : Q, InUse : BOOLEAN, lastUsed : Nat]
      /\ [v EXCEPT !.InUse = FALSE].Inputs = v.Inputs /\ [v EXCEPT !.InUse = FALSE].InUse = FALSE
  BY <1>2
<1> QED BY <1>3 DEF Q

LEMMA LeaveOwned ==
    ASSUME Typed, Owned, NEW R, R \subseteq Live, Finish(R),
           \A r \in Live \ R : /\ seq'[r].state = "run" /\ seq'[r].cache = seq[r].cache
                               /\ slots'[seq[r].cache].InUse,
           \A s \in Slot : slots'[s].InUse => slots[s].InUse /\ \A r \in R : seq[r].cache # s
    PROVE  Owned' /\ seqs' \in [Slot -> Req \cup {None}]
<1>1. seqs \in [Slot -> Req \cup {None}]
  BY DEF Typed
<1>2. seqs' = [i \in Slot |-> IF seqs[i] \in R THEN None ELSE seqs[i]]
  BY DEF Finish
<1>3. None \notin R
  BY DEF Live
<1>4. Live' = Live \ R
  <2>1. Live' = {seqs'[i] : i \in Slot} \ {None}
    BY DEF Live
  <2> QED BY <1>1, <1>2, <2>1 DEF Live
<1>5. \A i, j \in Slot : seqs'[i] = seqs'[j] /\ seqs'[i] # None => i = j
  BY <1>1, <1>2 DEF Owned
<1>6. \A r \in Live' : seq'[r].state = "run" /\ slots'[seq'[r].cache].InUse
  BY <1>4
<1>7. \A r, q \in Live' : seq'[r].cache = seq'[q].cache => r = q
  BY <1>4 DEF Owned
<1>8. ASSUME NEW s \in Slot, slots'[s].InUse PROVE \E r \in Live' : seq'[r].cache = s
  <2>1. PICK r \in Live : seq[r].cache = s
    BY <1>8 DEF Owned
  <2>2. r \notin R
    BY <1>8, <2>1
  <2> QED BY <1>4, <2>1, <2>2
<1> QED BY <1>1, <1>2, <1>5, <1>6, <1>7, <1>8 DEF Owned

LEMMA EndOnlyInv ==
    ASSUME NSwa = 0, Inv, EndOnly
    PROVE  Inv'
<1>0. Typed /\ Owned /\ AllHold
  BY DEF Inv
<1>1. /\ Finish(Ending)
      /\ seq' = [r \in Req |-> IF r \in Ending
                               THEN [seq[r] EXCEPT !.state = "done", !.inputs = <<>>]
                               ELSE seq[r]]
      /\ slots' = [s \in Slot |-> IF \E r \in Ending : seq[r].cache = s
                                  THEN [slots[s] EXCEPT !.InUse = FALSE] ELSE slots[s]]
      /\ clock' = clock /\ kv' = kv /\ died' = died /\ misread' = misread
  BY DEF EndOnly
<1>2. Ending = Live
  <2>1. Live \ Ending = {}
    BY DEF EndOnly, Batched
  <2>2. Ending \subseteq Live
    BY DEF Ending
  <2> QED BY <2>1, <2>2
<1>3. \A s \in Slot : slots[s] \in [Inputs : Seq(Nat), InUse : BOOLEAN, lastUsed : Nat]
  BY <1>0 DEF Typed, SlotsType
<1>4. ASSUME NEW s \in Slot
      PROVE  /\ slots'[s] \in [Inputs : Seq(Nat), InUse : BOOLEAN, lastUsed : Nat]
             /\ slots'[s].Inputs = slots[s].Inputs /\ slots'[s].InUse = FALSE
  <2>1. CASE \E r \in Ending : seq[r].cache = s
    <3>1. slots'[s] = [slots[s] EXCEPT !.InUse = FALSE]
      BY <1>1, <2>1
    <3>2. slots[s] \in [Inputs : Seq(Nat), InUse : BOOLEAN, lastUsed : Nat]
      BY <1>3
    <3> QED BY <3>1, <3>2, ReleasedIs
  <2>2. CASE ~ \E r \in Ending : seq[r].cache = s
    <3>1. slots'[s] = slots[s]
      BY <1>1, <2>2
    <3>2. ~ slots[s].InUse
      BY <1>0, <1>2, <2>2 DEF Owned
    <3>3. slots[s].InUse \in BOOLEAN
      BY <1>3
    <3> QED BY <1>3, <3>1, <3>2, <3>3
  <2> QED BY <2>1, <2>2
<1>5. Owned' /\ seqs' \in [Slot -> Req \cup {None}]
  BY <1>0, <1>1, <1>2, <1>4, LeaveOwned
<1>6. Typed'
  <2>1. seq' \in [Req -> SequenceType]
    <3>1. \A r \in Req : seq[r] \in SequenceType
      BY <1>0 DEF Typed, SequenceType
    <3>2. \A r \in Req : [seq[r] EXCEPT !.state = "done", !.inputs = <<>>] \in SequenceType
      BY <3>1, StoppedIs
    <3>3. \A r \in Req : seq'[r] \in SequenceType
      BY <1>1, <3>1, <3>2
    <3> QED BY <1>1, <3>3
  <2>2. slots' \in SlotsType
    BY <1>1, <1>4 DEF SlotsType
  <2>3. clock' \in Nat
    BY <1>0, <1>1 DEF Typed
  <2>4. died' \in {"no", "partial copy"} /\ misread' = {}
    BY <1>0, <1>1, Zenon DEF Typed
  <2>5. kv' \in [{"base"} -> [cells : CellsSet, data : Keys, copies : Seq(Stream \X Stream)]]
    BY <1>0, <1>1 DEF Typed
  <2> QED BY <1>5, <2>1, <2>2, <2>3, <2>4, <2>5, Zenon DEF Typed, SequenceType
<1>7. AllHold'
  <2>1. Eff' = Eff
    BY <1>1 DEF Eff
  <2>2. ASSUME NEW s \in Slot PROVE Holds(slots'[s], kv["base"].cells[s], Eff[s])
    BY <1>0, <1>4 DEF AllHold, Holds
  <2> QED BY <1>1, <2>1, <2>2 DEF AllHold
<1> QED BY <1>5, <1>6, <1>7 DEF Inv

-----------------------------------------------------------------------------
(* The batch.                                                              *)

LEMMA PartIs ==
    ASSUME NEW h \in Seq(Nat), NEW a \in Nat \ {0}, NEW b \in Nat, b <= Len(h), a <= b + 1
    PROVE  /\ SubSeq(h, a, b) \in Seq(Nat) /\ Len(SubSeq(h, a, b)) = b - a + 1
           /\ \A i \in 1 .. b - a + 1 : SubSeq(h, a, b)[i] = h[a + i - 1]
<1>1. \A i \in a .. b : h[i] \in Nat
  OBVIOUS
<1>2. /\ SubSeq(h, a, b) \in Seq(Nat) /\ Len(SubSeq(h, a, b)) = IF a <= b THEN b - a + 1 ELSE 0
      /\ \A i \in 1 .. b - a + 1 : SubSeq(h, a, b)[i] = h[a + i - 1]
  BY <1>1, SubSeqProperties
<1> QED BY <1>2

\* d elements are left out behind the first a.
LEMMA CutIs ==
    ASSUME NEW h \in Seq(Nat), NEW a \in Nat, NEW d \in Nat, a + d <= Len(h)
    PROVE  LET k == SubSeq(h, 1, a) \o SubSeq(h, a + d + 1, Len(h))
           IN  /\ k \in Seq(Nat) /\ Len(k) = Len(h) - d
               /\ \A i \in 1 .. a : k[i] = h[i]
               /\ \A i \in a + 1 .. Len(h) - d : k[i] = h[i + d]
<1> DEFINE x == SubSeq(h, 1, a)
           y == SubSeq(h, a + d + 1, Len(h))
           n == Len(h)
<1>0. n \in Nat
  OBVIOUS
<1>1. x \in Seq(Nat) /\ Len(x) = a /\ \A i \in 1 .. a : x[i] = h[i]
  <2>1. /\ x \in Seq(Nat) /\ Len(x) = a - 1 + 1
        /\ \A i \in 1 .. a - 1 + 1 : x[i] = h[1 + i - 1]
    BY <1>0, PartIs
  <2> HIDE DEF x
  <2> QED BY <2>1
<1>2. y \in Seq(Nat) /\ Len(y) = n - a - d /\ \A i \in 1 .. n - a - d : y[i] = h[a + d + i]
  <2> DEFINE c == a + d + 1
  <2>0. c \in Nat \ {0} /\ n <= Len(h) /\ c <= n + 1
    BY <1>0
  <2> HIDE DEF c
  <2>1. /\ SubSeq(h, c, n) \in Seq(Nat) /\ Len(SubSeq(h, c, n)) = n - c + 1
        /\ \A i \in 1 .. n - c + 1 : SubSeq(h, c, n)[i] = h[c + i - 1]
    BY <1>0, <2>0, PartIs
  <2> DEFINE z == SubSeq(h, c, n)
  <2>2. y = z
    BY DEF c
  <2> HIDE DEF y, z, n
  <2>3. z \in Seq(Nat) /\ Len(z) = n - c + 1 /\ \A i \in 1 .. n - c + 1 : z[i] = h[c + i - 1]
    BY <2>1 DEF z
  <2>4. n - c + 1 = n - a - d /\ \A i \in Nat : c + i - 1 = a + d + i
    BY <1>0 DEF c
  <2>5. ASSUME NEW i \in 1 .. n - a - d PROVE y[i] = h[a + d + i]
    <3>1. i \in 1 .. n - c + 1 /\ c + i - 1 = a + d + i
      BY <1>0 DEF c
    <3>2. z[i] = h[c + i - 1]
      BY <2>3, <3>1
    <3> QED BY <2>2, <3>1, <3>2
  <2> QED BY <2>2, <2>3, <2>4, <2>5
<1> HIDE DEF x, y, n
<1>9. x \in Seq(Nat) /\ y \in Seq(Nat)
  BY <1>1, <1>2
<1>3. /\ x \o y \in Seq(Nat) /\ Len(x \o y) = Len(x) + Len(y)
      /\ \A i \in 1 .. Len(x) + Len(y) : (x \o y)[i] = IF i <= Len(x) THEN x[i] ELSE y[i - Len(x)]
  BY <1>9, ConcatProperties
<1> DEFINE k == x \o y
<1> HIDE DEF k
<1>4. a + d <= n
  BY DEF n
<1>5. Len(x) + Len(y) = n - d
  BY <1>0, <1>1, <1>2
<1>6. /\ k \in Seq(Nat) /\ Len(k) = n - d
      /\ \A i \in 1 .. n - d : k[i] = IF i <= a THEN x[i] ELSE y[i - a]
  BY <1>1, <1>3, <1>5 DEF k
<1>7. \A i \in 1 .. a : k[i] = h[i]
  BY <1>0, <1>1, <1>4, <1>6
<1>8. ASSUME NEW i \in a + 1 .. n - d PROVE k[i] = h[i + d]
  <2>1. k[i] = y[i - a] /\ i - a \in 1 .. n - a - d
    BY <1>0, <1>4, <1>6, <1>8
  <2>2. y[i - a] = h[a + d + (i - a)]
    BY <1>2, <2>1
  <2>3. a + d + (i - a) = i + d
    BY <1>0
  <2> QED BY <2>1, <2>2, <2>3
<1> QED BY <1>6, <1>7, <1>8 DEF k, n, x, y

LEMMA LiveIs ==
    ASSUME NSwa = 0, Inv, NEW r \in Batched
    PROVE  /\ r \in Live /\ r \in Req /\ seq[r] \in SequenceType /\ seq[r].cache \in Slot
           /\ slots[seq[r].cache].InUse
           /\ Held(r) \in Seq(Nat) /\ Len(Held(r)) \in 0 .. NumCtx
           /\ Fills(kv["base"].cells[seq[r].cache], Len(Held(r)))
           /\ Matches(kv["base"].cells[seq[r].cache], Eff[seq[r].cache], Held(r))
<1>0. Typed /\ Owned /\ AllHold
  BY DEF Inv
<1>1. r \in Live
  BY DEF Batched
<1>2. r \in Req
  BY <1>0, <1>1 DEF Live, Typed
<1>3. seq[r] \in SequenceType
  BY <1>0, <1>2 DEF Typed, SequenceType
<1>4. seq[r].cache \in Slot
  BY <1>3 DEF SequenceType
<1>5. slots[seq[r].cache].InUse
  BY <1>0, <1>1 DEF Owned
<1>6. Held(r) \in Seq(Nat)
  BY <1>0, <1>4 DEF Typed, SlotsType, Held
<1>7. /\ Len(Held(r)) \in 0 .. NumCtx /\ Fills(kv["base"].cells[seq[r].cache], Len(Held(r)))
      /\ Matches(kv["base"].cells[seq[r].cache], Eff[seq[r].cache], Held(r))
  BY <1>0, <1>4, <1>5 DEF AllHold, Holds, Held
<1> QED BY <1>1, <1>2, <1>3, <1>4, <1>5, <1>6, <1>7

LEMMA DiscardedIs ==
    ASSUME NSwa = 0, Inv, NEW r \in Batched, Full(r)
    PROVE  Discarded(r) \in Nat \ {0} /\ NumKeep[r] \in Nat /\ NumKeep[r] + Discarded(r) <= NumCtx
<1>1. Len(Held(r)) = NumCtx /\ NumCtx \in Nat \ {0} /\ NumKeep[r] \in 0 .. NumCtx - 1
  BY LiveIs, Sizes, PromptIs DEF Full
<1> DEFINE n == NumCtx
           a == NumKeep[r]
           x == (n - a) \div 2
<1>2. x \in Nat /\ x <= n - a
  BY <1>1
<1>3. Discarded(r) = Greater(Greater(x, 1) - (n - Len(Held(r))), 0)
  BY DEF Discarded
<1> HIDE DEF n, a, x
<1>4. n - Len(Held(r)) = 0 /\ n \in Nat \ {0} /\ a \in 0 .. n - 1
  BY <1>1 DEF n, a
<1>5. Greater(x, 1) \in Nat \ {0} /\ Greater(x, 1) <= n - a
  BY <1>2, <1>4 DEF Greater
<1>6. Discarded(r) = Greater(x, 1)
  <2> DEFINE y == Greater(x, 1)
  <2>1. y \in Nat
    BY <1>5
  <2> HIDE DEF y
  <2>2. Greater(y - 0, 0) = y
    BY <2>1 DEF Greater
  <2> QED BY <1>3, <1>4, <2>2 DEF y
<1>7. Discarded(r) \in Nat \ {0} /\ a \in Nat /\ a + Discarded(r) <= n
  BY <1>4, <1>5, <1>6
<1> QED BY <1>7 DEF a, n

LEMMA KeptIs ==
    ASSUME NSwa = 0, Inv, NEW r \in Batched
    PROVE  /\ Kept(r) \in Seq(Nat) /\ Len(Kept(r)) \in 0 .. NumCtx
           /\ ~ Full(r) => Kept(r) = Held(r)
           /\ Full(r) => /\ Len(Kept(r)) = NumCtx - Discarded(r)
                         /\ \A i \in 1 .. NumKeep[r] : Kept(r)[i] = Held(r)[i]
                         /\ \A i \in NumKeep[r] + 1 .. NumCtx - Discarded(r) :
                                Kept(r)[i] = Held(r)[i + Discarded(r)]
<1>1. Held(r) \in Seq(Nat) /\ Len(Held(r)) \in 0 .. NumCtx
  BY LiveIs
<1>2. CASE ~ Full(r)
  <2>1. Kept(r) = Held(r)
    BY <1>2 DEF Kept
  <2> QED BY <1>1, <1>2, <2>1
<1>3. CASE Full(r)
  <2> DEFINE h == Held(r)
             a == NumKeep[r]
             d == Discarded(r)
  <2>1. a \in Nat /\ d \in Nat /\ d # 0 /\ a + d <= NumCtx /\ Len(h) = NumCtx /\ NumCtx \in Nat
    BY <1>3, DiscardedIs, Sizes DEF Full
  <2>2. Kept(r) = SubSeq(h, 1, a) \o SubSeq(h, a + d + 1, Len(h))
    BY <1>3 DEF Kept
  <2> HIDE DEF h, a, d
  <2>3. h \in Seq(Nat) /\ a \in Nat /\ d \in Nat /\ a + d <= Len(h)
    BY <1>1, <2>1 DEF h
  <2> DEFINE k == SubSeq(h, 1, a) \o SubSeq(h, a + d + 1, Len(h))
  <2>6. /\ k \in Seq(Nat) /\ Len(k) = Len(h) - d
        /\ \A i \in 1 .. a : k[i] = h[i]
        /\ \A i \in a + 1 .. Len(h) - d : k[i] = h[i + d]
    BY <2>3, CutIs
  <2> HIDE DEF k
  <2>4. /\ Kept(r) \in Seq(Nat) /\ Len(Kept(r)) = Len(h) - d
        /\ \A i \in 1 .. a : Kept(r)[i] = h[i]
        /\ \A i \in a + 1 .. Len(h) - d : Kept(r)[i] = h[i + d]
    BY <2>2, <2>6 DEF k
  <2>5. Len(h) - d = NumCtx - d /\ NumCtx - d \in 0 .. NumCtx
    BY <2>1
  <2> QED BY <1>3, <2>4, <2>5 DEF h, a, d
<1> QED BY <1>2, <1>3

\* What the sequence's slot holds after the batch, and the inputs of it that are in the batch.
LEMMA TextIs ==
    ASSUME NSwa = 0, Inv, NEW r \in Batched
    PROVE  /\ Taken(r) \in Seq(Nat) /\ Len(Taken(r)) \in Nat /\ Len(Taken(r)) <= Len(seq[r].inputs)
           /\ Len(Kept(r)) + Len(Taken(r)) <= NumCtx
           /\ Text(r) \in Seq(Nat) /\ Len(Text(r)) = Len(Kept(r)) + Len(Taken(r))
           /\ \A i \in 1 .. Len(Kept(r)) : Text(r)[i] = Kept(r)[i]
           /\ \A j \in 1 .. Len(Taken(r)) : Text(r)[Len(Kept(r)) + j] = Taken(r)[j]
<1>1. Kept(r) \in Seq(Nat) /\ Len(Kept(r)) \in 0 .. NumCtx
  BY KeptIs
<1> DEFINE x == seq[r].inputs
           k == Kept(r)
           S == {Len(x), BatchSize, NumCtx - Len(k)}
           n == Min(S)
           t == Taken(r)
<1>2. x \in Seq(Nat) /\ Len(x) \in Nat
  <2>1. x \in Seq(Nat)
    BY LiveIs DEF SequenceType
  <2> HIDE DEF x
  <2> QED BY <2>1
<1>3. S \subseteq Nat /\ S # {} /\ Len(x) \in S /\ NumCtx - Len(k) \in S
  <2> HIDE DEF x, k
  <2>1. Len(k) \in 0 .. NumCtx
    BY <1>1 DEF k
  <2> QED BY <1>2, <2>1, Sizes
<1>4. n \in Nat /\ n <= Len(x) /\ n <= NumCtx - Len(k)
  <2> HIDE DEF S
  <2>1. Min(S) \in S /\ \A y \in S : Min(S) <= y
    BY <1>3, MinIn
  <2> QED BY <1>3, <2>1
<1>5. t = SubSeq(x, 1, n)
  BY DEF Taken
<1> HIDE DEF x, n, t
<1>6. t \in Seq(Nat) /\ Len(t) = n
  <2>1. SubSeq(x, 1, n) \in Seq(Nat) /\ Len(SubSeq(x, 1, n)) = n - 1 + 1
    BY <1>2, <1>4, PartIs
  <2> QED BY <1>4, <1>5, <2>1
<1>7. Text(r) = k \o t
  BY DEF Text, t
<1> DEFINE w == k \o t
<1>8. /\ w \in Seq(Nat) /\ Len(w) = Len(k) + Len(t)
      /\ \A i \in 1 .. Len(k) + Len(t) : w[i] = IF i <= Len(k) THEN k[i] ELSE t[i - Len(k)]
  <2> HIDE DEF k
  <2>1. k \in Seq(Nat)
    BY <1>1 DEF k
  <2> QED BY <1>6, <2>1, ConcatProperties
<1> HIDE DEF k, w
<1>9. Len(k) \in Nat /\ Len(k) + n <= NumCtx
  BY <1>1, <1>4, Sizes DEF k
<1>10. \A i \in 1 .. Len(k) : w[i] = k[i]
  BY <1>4, <1>6, <1>8, <1>9
<1>11. ASSUME NEW j \in 1 .. Len(t) PROVE w[Len(k) + j] = t[j]
  <2>1. Len(k) + j \in 1 .. Len(k) + Len(t) /\ ~ (Len(k) + j <= Len(k)) /\ Len(k) + j - Len(k) = j
    BY <1>4, <1>6, <1>9
  <2> QED BY <1>8, <2>1
<1>12. /\ t \in Seq(Nat) /\ Len(t) \in Nat /\ Len(t) <= Len(x) /\ Len(k) + Len(t) <= NumCtx
       /\ w \in Seq(Nat) /\ Len(w) = Len(k) + Len(t)
  BY <1>4, <1>6, <1>8, <1>9
<1> QED BY <1>7, <1>10, <1>11, <1>12 DEF x, t, k, w

LEMMA PosMaxIs ==
    ASSUME NEW c, c.pos \in [Cell -> -1 .. NumCtx - 1], NEW m \in Nat, Fills(c, m)
    PROVE  seq_pos_max(c) = m - 1
<1>1. \A i \in Cell : c.pos[i] \in Int /\ c.pos[i] >= -1 /\ c.pos[i] < m
  BY Sizes DEF Fills
<1>2. CASE m = 0
  <2>1. Used(c) = {}
    BY <1>1, <1>2 DEF Used
  <2> QED BY <1>2, <2>1 DEF seq_pos_max
<1>3. CASE m # 0
  <2>1. m - 1 \in 0 .. m - 1 /\ m - 1 \in Nat
    BY <1>3
  <2>2. PICK i \in Cell : c.pos[i] = m - 1
    BY <2>1 DEF Fills
  <2>3. i \in Used(c)
    BY <2>1, <2>2 DEF Used
  <2>4. m - 1 \in Positions(c)
    BY <2>2, <2>3 DEF Positions
  <2>5. Positions(c) \subseteq 0 .. m - 1
    BY <1>1, <2>1 DEF Positions, Used
  <2>6. Max(Positions(c)) \in Positions(c) /\ \A y \in Positions(c) : Max(Positions(c)) >= y
    BY <2>1, <2>4, <2>5, MaxIn
  <2>7. Max(Positions(c)) = m - 1
    BY <2>1, <2>4, <2>5, <2>6
  <2> QED BY <2>3, <2>7 DEF seq_pos_max
<1> QED BY <1>2, <1>3

LEMMA InSlotIs ==
    ASSUME NSwa = 0, Inv
    PROVE  /\ DOMAIN Batch = {seq[r].cache : r \in Batched} /\ DOMAIN Batch \subseteq Stream
           /\ \A s \in DOMAIN Batch : InSlot(s) \in Batched /\ seq[InSlot(s)].cache = s
           /\ \A r \in Batched : seq[r].cache \in DOMAIN Batch /\ InSlot(seq[r].cache) = r
<1>1. DOMAIN Batch = {seq[r].cache : r \in Batched}
  BY DEF Batch
<1>2. \A r \in Batched : seq[r].cache \in Slot /\ r \in Live
  BY LiveIs
<1>3. ASSUME NEW r \in Batched PROVE InSlot(seq[r].cache) = r
  <2>1. \A q \in Batched : seq[q].cache = seq[r].cache => q = r
    BY <1>2 DEF Inv, Owned
  <2> QED BY <2>1 DEF InSlot
<1> QED BY <1>1, <1>2, <1>3, Sizes

LEMMA BatchIs ==
    ASSUME NSwa = 0, Inv, NEW s \in DOMAIN Batch
    PROVE  /\ Batch[s].place \in Nat /\ Batch[s].pos = Len(Kept(InSlot(s)))
           /\ Batch[s].toks = Taken(InSlot(s)) /\ Batch[s].text = Text(InSlot(s))
<1> DEFINE r == InSlot(s)
           p == CHOOSE i \in Slot : seqs[i] = r
<1>1. Batch[s] = [place |-> p, pos |-> Len(Kept(r)), toks |-> Taken(r), text |-> Text(r)]
  BY DEF Batch
<1>2. r \in Live
  <2>1. r \in Batched
    BY InSlotIs
  <2> HIDE DEF r
  <2> QED BY <2>1, LiveIs
<1>3. \E i \in Slot : seqs[i] = r
  <2> HIDE DEF r
  <2> QED BY <1>2 DEF Live
<1> HIDE DEF r
<1>4. p \in Slot
  BY <1>3
<1>5. p \in Nat
  <2> HIDE DEF p
  <2> QED BY <1>4 DEF Slot
<1> HIDE DEF p
<1> QED BY <1>1, <1>5 DEF r

LEMMA BatchOk ==
    ASSUME NSwa = 0, Inv
    PROVE  IsBatch(Batch) /\ IsText(Batch, [s \in DOMAIN Batch |-> Batch[s].text])
<1> DEFINE b == Batch
           texts == [s \in DOMAIN b |-> b[s].text]
<1>1. DOMAIN b \subseteq Stream
  BY InSlotIs
<1>2. ASSUME NEW s \in DOMAIN b
      PROVE  /\ b[s].place \in Nat /\ b[s].pos \in Nat /\ b[s].toks \in Seq(Nat)
             /\ b[s].pos + Len(b[s].toks) <= NumCtx
             /\ Len(texts[s]) = b[s].pos + Len(b[s].toks)
             /\ \A j \in 1 .. Len(b[s].toks) : texts[s][b[s].pos + j] = b[s].toks[j]
  <2> DEFINE r == InSlot(s)
  <2>1. /\ b[s].place \in Nat /\ b[s].pos = Len(Kept(r))
        /\ b[s].toks = Taken(r) /\ b[s].text = Text(r)
    BY BatchIs
  <2>2. r \in Batched
    BY InSlotIs
  <2>3. texts[s] = b[s].text
    OBVIOUS
  <2> HIDE DEF r, b, texts
  <2>4. Len(Kept(r)) \in 0 .. NumCtx
    BY <2>2, KeptIs
  <2>5. /\ Taken(r) \in Seq(Nat) /\ Len(Kept(r)) + Len(Taken(r)) <= NumCtx
        /\ Len(Text(r)) = Len(Kept(r)) + Len(Taken(r))
        /\ \A j \in 1 .. Len(Taken(r)) : Text(r)[Len(Kept(r)) + j] = Taken(r)[j]
    BY <2>2, TextIs
  <2> QED BY <2>1, <2>3, <2>4, <2>5
<1> HIDE DEF b, texts
<1>3. IsBatch(b)
  BY <1>1, <1>2 DEF IsBatch
<1>4. IsText(b, texts)
  BY <1>2 DEF IsText
<1> QED BY <1>3, <1>4 DEF b, texts

\* The cells of a sequence whose context has been shifted, if it was full: the cells hold what
\* is kept of the list, when the shift has reached the data.
LEMMA MovedIs ==
    ASSUME NSwa = 0, Inv, NEW r \in Batched
    PROVE  LET s == seq[r].cache
               c == kv["base"].cells[s]
               x == IF Full(r) THEN ShiftCacheSlot(c, r) ELSE c
           IN  /\ x \in ShiftedType /\ Fills(x, Len(Kept(r)))
               /\ \A i \in Cell :
                   /\ x.pos[i] = -1 => x.shift[i] = 0
                   /\ x.pos[i] # -1 => /\ Eff[s][i][2] + x.shift[i] = x.pos[i]
                                       /\ Eff[s][i][1] = Kept(r)[x.pos[i] + 1]
<1> DEFINE s == seq[r].cache
           c == kv["base"].cells[s]
           d == Eff[s]
           h == Held(r)
           k == Kept(r)
           x == IF Full(r) THEN ShiftCacheSlot(c, r) ELSE c
<1>1. /\ s \in Stream /\ h \in Seq(Nat) /\ Len(h) \in 0 .. NumCtx
      /\ Fills(c, Len(h)) /\ Matches(c, d, h)
  BY LiveIs, Sizes
<1>2. c \in CellsType
  <2>1. kv["base"].cells \in CellsSet
    BY KvIs DEF Inv
  <2> HIDE DEF s
  <2> QED BY <1>1, <2>1 DEF CellsSet
<1>3. \A i \in Cell : c.pos[i] \in -1 .. NumCtx - 1 /\ c.shift[i] = 0
  <2> HIDE DEF c
  <2> QED BY <1>2 DEF CellsType
<1>4. NumCtx \in Nat
  BY Sizes
<1>5. CASE ~ Full(r)
  <2>1. x = c /\ k = h
    BY <1>5, KeptIs
  <2>2. c \in ShiftedType
    <3> HIDE DEF c
    <3>1. 0 \in -NumCtx .. 0
      BY <1>4
    <3> QED BY <1>2, <3>1 DEF CellsType, ShiftedType
  <2> HIDE DEF s, c, d, h, k, x
  <2>3. ASSUME NEW i \in Cell
        PROVE  /\ c.pos[i] = -1 => c.shift[i] = 0
               /\ c.pos[i] # -1 => d[i][2] + c.shift[i] = c.pos[i] /\ d[i][1] = h[c.pos[i] + 1]
    <3>1. c.pos[i] < Len(h)
      BY <1>1 DEF Fills
    <3>2. c.pos[i] \in Int /\ c.shift[i] = 0
      BY <1>3, <1>4
    <3>3. c.pos[i] # -1 => d[i][2] = c.pos[i] /\ d[i][1] = h[c.pos[i] + 1]
      BY <1>1, <3>1 DEF Matches
    <3>4. c.pos[i] + 0 = c.pos[i]
      BY <3>2
    <3> QED BY <3>2, <3>3, <3>4
  <2> QED BY <1>1, <2>1, <2>2, <2>3 DEF s, c, d, h, k, x
<1>6. CASE Full(r)
  <2> DEFINE a == NumKeep[r]
             e == Discarded(r)
             b == a + e
  <2>1. a \in Nat /\ e \in Nat \ {0} /\ b \in Nat /\ a < b /\ b <= NumCtx /\ Len(h) = NumCtx /\ b - a = e
    BY <1>6, DiscardedIs DEF Full
  <2>2. x = seq_add(seq_rm(c, a, b), b, NumCtx, -e)
    BY <1>6, <2>1 DEF ShiftCacheSlot
  <2>3. /\ Len(k) = NumCtx - e
        /\ \A i \in 1 .. a : k[i] = h[i]
        /\ \A i \in a + 1 .. NumCtx - e : k[i] = h[i + e]
    BY <1>6, KeptIs
  <2> HIDE DEF s, c, d, h, k, x, a, e, b
  <2>4. Fills(c, NumCtx)
    BY <1>1, <2>1
  <2> DEFINE y == seq_add(seq_rm(c, a, b), b, NumCtx, -(b - a))
  <2>5. /\ y \in [pos : [Cell -> -1 .. NumCtx - 1], shift : [Cell -> -(b - a) .. 0], head : 0 .. Size]
        /\ Fills(y, NumCtx - (b - a))
        /\ \A i \in Cell : y.pos[i] = IF c.pos[i] < a THEN c.pos[i]
                                      ELSE IF c.pos[i] < b THEN -1 ELSE c.pos[i] - (b - a)
        /\ \A i \in Cell : y.shift[i] = IF c.pos[i] >= b THEN -(b - a) ELSE 0
    BY <1>2, <2>1, <2>4, ShiftIs
  <2>6. x = y
    BY <2>1, <2>2
  <2> HIDE DEF y
  <2>7. /\ x \in [pos : [Cell -> -1 .. NumCtx - 1], shift : [Cell -> -e .. 0], head : 0 .. Size]
        /\ Fills(x, NumCtx - e)
        /\ \A i \in Cell : x.pos[i] = IF c.pos[i] < a THEN c.pos[i]
                                      ELSE IF c.pos[i] < b THEN -1 ELSE c.pos[i] - e
        /\ \A i \in Cell : x.shift[i] = IF c.pos[i] >= b THEN -e ELSE 0
    BY <2>1, <2>5, <2>6
  <2>8. x \in ShiftedType
    <3>1. -e .. 0 \subseteq -NumCtx .. 0
      BY <1>4, <2>1 DEF b
    <3> QED BY <2>7, <3>1 DEF ShiftedType
  <2>9. ASSUME NEW i \in Cell
        PROVE  /\ x.pos[i] = -1 => x.shift[i] = 0
               /\ x.pos[i] # -1 => d[i][2] + x.shift[i] = x.pos[i] /\ d[i][1] = k[x.pos[i] + 1]
    <3> DEFINE p == c.pos[i]
    <3>1. p \in -1 .. NumCtx - 1
      BY <1>3
    <3>2. p # -1 => d[i][2] = p /\ d[i][1] = h[p + 1]
      <4>1. p # -1 => d[i][2] = p /\ (p < Len(h) => d[i][1] = h[p + 1])
        BY <1>1 DEF Matches
      <4>2. p < Len(h)
        BY <1>4, <2>1, <3>1
      <4> QED BY <4>1, <4>2
    <3>3. /\ x.pos[i] = IF p < a THEN p ELSE IF p < b THEN -1 ELSE p - e
          /\ x.shift[i] = IF p >= b THEN -e ELSE 0
      BY <2>7
    <3> HIDE DEF p
    <3>4. CASE p < a
      <4>1. x.pos[i] = p /\ x.shift[i] = 0
        BY <1>4, <2>1, <3>1, <3>3, <3>4
      <4>2. p # -1 => p + 1 \in 1 .. a /\ p + 0 = p
        BY <1>4, <2>1, <3>1, <3>4
      <4> QED BY <2>3, <3>2, <4>1, <4>2
    <3>5. CASE p >= a /\ p < b
      <4>1. x.pos[i] = -1 /\ x.shift[i] = 0
        BY <1>4, <2>1, <3>1, <3>3, <3>5
      <4> QED BY <4>1
    <3>6. CASE p >= b
      <4>1. x.pos[i] = p - e /\ x.shift[i] = -e
        BY <1>4, <2>1, <3>1, <3>3, <3>6
      <4>2. p # -1 /\ p + (-e) = p - e /\ p - e + 1 \in a + 1 .. NumCtx - e /\ p - e + 1 + e = p + 1 /\ p - e # -1
        BY <1>4, <2>1, <3>1, <3>6 DEF b
      <4>3. k[p - e + 1] = h[p - e + 1 + e]
        BY <2>3, <4>2
      <4> QED BY <3>2, <4>1, <4>2, <4>3
    <3> QED BY <1>4, <2>1, <3>1, <3>4, <3>5, <3>6
  <2> QED BY <2>3, <2>7, <2>8, <2>9 DEF s, c, d, h, k, x
<1> QED BY <1>5, <1>6

\* The cells when the contexts that were full have been shifted.
LEMMA ShiftedIs ==
    ASSUME NSwa = 0, Inv
    PROVE  LET k == ShiftedCaches["base"]
           IN  /\ k.cells \in [Stream -> ShiftedType]
               /\ k.data = kv["base"].data /\ k.copies = kv["base"].copies
               /\ \A r \in Batched :
                   /\ Fills(k.cells[seq[r].cache], Len(Kept(r)))
                   /\ \A i \in Cell : k.cells[seq[r].cache].pos[i] # -1 =>
                          Eff[seq[r].cache][i][1] = Kept(r)[k.cells[seq[r].cache].pos[i] + 1]
               /\ \A s \in Stream \ DOMAIN Batch : k.cells[s] = kv["base"].cells[s]
               /\ \A s \in Stream, i \in Cell :
                      IF k.cells[s].pos[i] = -1 THEN k.cells[s].shift[i] = 0
                      ELSE Eff[s][i][2] + k.cells[s].shift[i] = k.cells[s].pos[i]
<1> DEFINE w == kv["base"]
           cells == [s \in Stream |-> IF s \in DOMAIN Batch /\ Full(InSlot(s))
                                      THEN ShiftCacheSlot(w.cells[s], InSlot(s)) ELSE w.cells[s]]
           k == ShiftedCaches["base"]
<1>1. /\ w.cells \in CellsSet
      /\ w = [cells |-> w.cells, data |-> w.data, copies |-> w.copies]
  BY KvIs DEF Inv
<1>2. k = [cells |-> cells, data |-> w.data, copies |-> w.copies]
  <2>1. k = [w EXCEPT !.cells = cells]
    BY CachesIs DEF ShiftedCaches
  <2> DEFINE a == w.cells
             b == w.data
             c == w.copies
  <2>2. w = [cells |-> a, data |-> b, copies |-> c]
    BY <1>1
  <2> HIDE DEF w, cells, k, a, b, c
  <2>3. [w EXCEPT !.cells = cells] = [cells |-> cells, data |-> b, copies |-> c]
    BY <2>2
  <2> QED BY <2>1, <2>3 DEF a, b, c
<1>3. k.cells = cells /\ k.data = w.data /\ k.copies = w.copies
  <2> HIDE DEF cells, w, k
  <2> QED BY <1>2
<1>4. \A s \in Stream : cells[s] = IF s \in DOMAIN Batch /\ Full(InSlot(s))
                                   THEN ShiftCacheSlot(w.cells[s], InSlot(s)) ELSE w.cells[s]
  OBVIOUS
<1>5. cells = [s \in Stream |-> cells[s]]
  OBVIOUS
<1> HIDE DEF cells, k, w
<1>6. ASSUME NEW r \in Batched
      PROVE  /\ seq[r].cache \in Stream
             /\ cells[seq[r].cache] \in ShiftedType /\ Fills(cells[seq[r].cache], Len(Kept(r)))
             /\ \A i \in Cell :
                 /\ cells[seq[r].cache].pos[i] = -1 => cells[seq[r].cache].shift[i] = 0
                 /\ cells[seq[r].cache].pos[i] # -1 =>
                      /\ Eff[seq[r].cache][i][2] + cells[seq[r].cache].shift[i] = cells[seq[r].cache].pos[i]
                      /\ Eff[seq[r].cache][i][1] = Kept(r)[cells[seq[r].cache].pos[i] + 1]
  <2> DEFINE s == seq[r].cache
             c == w.cells[s]
             x == IF Full(r) THEN ShiftCacheSlot(c, r) ELSE c
  <2>1. /\ x \in ShiftedType /\ Fills(x, Len(Kept(r)))
        /\ \A i \in Cell :
            /\ x.pos[i] = -1 => x.shift[i] = 0
            /\ x.pos[i] # -1 => /\ Eff[s][i][2] + x.shift[i] = x.pos[i]
                                /\ Eff[s][i][1] = Kept(r)[x.pos[i] + 1]
    BY MovedIs DEF w
  <2>2. s \in DOMAIN Batch /\ InSlot(s) = r /\ s \in Stream
    BY InSlotIs
  <2> HIDE DEF s
  <2>3. cells[s] = x
    BY <1>4, <2>2
  <2> HIDE DEF x
  <2> QED BY <2>1, <2>2, <2>3 DEF s
<1>7. ASSUME NEW s \in Stream \ DOMAIN Batch
      PROVE  /\ cells[s] = w.cells[s] /\ cells[s] \in ShiftedType
             /\ \A i \in Cell : /\ cells[s].pos[i] = -1 => cells[s].shift[i] = 0
                                /\ cells[s].pos[i] # -1 => Eff[s][i][2] + cells[s].shift[i] = cells[s].pos[i]
  <2>1. cells[s] = w.cells[s]
    BY <1>4
  <2> DEFINE c == w.cells[s]
             d == Eff[s]
  <2>2. c \in CellsType
    BY <1>1 DEF CellsSet
  <2>3. \E t : Matches(c, d, t)
    BY Sizes DEF Inv, AllHold, Holds, w
  <2> HIDE DEF c, d
  <2>4. c \in ShiftedType
    <3>1. 0 \in -NumCtx .. 0
      BY Sizes
    <3> QED BY <2>2, <3>1 DEF CellsType, ShiftedType
  <2>5. ASSUME NEW i \in Cell PROVE c.shift[i] = 0 /\ (c.pos[i] # -1 => d[i][2] + c.shift[i] = c.pos[i])
    <3>1. c.shift[i] = 0 /\ c.pos[i] \in Int
      BY <2>2, Sizes DEF CellsType
    <3>2. c.pos[i] # -1 => d[i][2] = c.pos[i]
      BY <2>3 DEF Matches
    <3>3. c.pos[i] + 0 = c.pos[i]
      BY <3>1
    <3> QED BY <3>1, <3>2, <3>3
  <2> QED BY <2>1, <2>4, <2>5 DEF c, d
<1>8. \A s \in DOMAIN Batch : InSlot(s) \in Batched /\ seq[InSlot(s)].cache = s
  BY InSlotIs
<1>9. ASSUME NEW s \in Stream
      PROVE  /\ cells[s] \in ShiftedType
             /\ \A i \in Cell : IF cells[s].pos[i] = -1 THEN cells[s].shift[i] = 0
                                ELSE Eff[s][i][2] + cells[s].shift[i] = cells[s].pos[i]
  <2>1. CASE s \in DOMAIN Batch
    <3>1. InSlot(s) \in Batched /\ seq[InSlot(s)].cache = s
      BY <1>8, <2>1
    <3> QED BY <1>6, <3>1
  <2>2. CASE s \notin DOMAIN Batch
    BY <1>7, <2>2
  <2> QED BY <2>1, <2>2
<1>10. cells \in [Stream -> ShiftedType]
  BY <1>5, <1>9
<1> QED BY <1>3, <1>6, <1>7, <1>9, <1>10 DEF k, w

LEMMA AcceptedIs == ASSUME NSwa = 0, Inv PROVE Accepted
<1> DEFINE k == ShiftedCaches["base"]
<1>1. k.cells \in [Stream -> ShiftedType] /\ \A r \in Batched : Fills(k.cells[seq[r].cache], Len(Kept(r)))
  BY ShiftedIs
<1> HIDE DEF k
<1>2. ASSUME NEW s \in DOMAIN Batch
      PROVE  seq_pos_max(k.cells[s]) >= 0 => Batch[s].pos = seq_pos_max(k.cells[s]) + 1
  <2>1. InSlot(s) \in Batched /\ seq[InSlot(s)].cache = s /\ s \in Stream
    BY InSlotIs
  <2> DEFINE c == k.cells[s]
             m == Len(Kept(InSlot(s)))
  <2>2. Fills(c, m)
    BY <1>1, <2>1
  <2>3. m \in Nat
    BY <2>1, KeptIs, Sizes
  <2>4. c.pos \in [Cell -> -1 .. NumCtx - 1]
    BY <1>1, <2>1 DEF ShiftedType
  <2>5. Batch[s].pos = m
    BY BatchIs
  <2> HIDE DEF c, m
  <2>6. seq_pos_max(c) = m - 1
    BY <2>2, <2>3, <2>4, PosMaxIs
  <2> QED BY <2>3, <2>5, <2>6 DEF c
<1> QED BY <1>2 DEF Accepted, k

\* The cache when copies and shifts have reached the data.
LEMMA UpdatedIs ==
    ASSUME NSwa = 0, Inv
    PROVE  LET v == update(ShiftedCaches["base"])
           IN  /\ v \in CacheSet
               /\ \A r \in Batched :
                   /\ Fills(v.cells[seq[r].cache], Len(Kept(r)))
                   /\ Matches(v.cells[seq[r].cache], v.data[seq[r].cache], Text(r))
               /\ \A s \in Stream \ DOMAIN Batch :
                   /\ v.data[s] = Eff[s]
                   /\ \A i \in Cell : v.cells[s].pos[i] = kv["base"].cells[s].pos[i]
<1> DEFINE k == ShiftedCaches["base"]
           v == update(k)
<1>1. /\ k.cells \in [Stream -> ShiftedType]
      /\ k.data = kv["base"].data /\ k.copies = kv["base"].copies
      /\ \A r \in Batched :
          /\ Fills(k.cells[seq[r].cache], Len(Kept(r)))
          /\ \A i \in Cell : k.cells[seq[r].cache].pos[i] # -1 =>
                 Eff[seq[r].cache][i][1] = Kept(r)[k.cells[seq[r].cache].pos[i] + 1]
      /\ \A s \in Stream \ DOMAIN Batch : k.cells[s] = kv["base"].cells[s]
      /\ \A s \in Stream, i \in Cell :
             IF k.cells[s].pos[i] = -1 THEN k.cells[s].shift[i] = 0
             ELSE Eff[s][i][2] + k.cells[s].shift[i] = k.cells[s].pos[i]
  BY ShiftedIs
<1> HIDE DEF k
<1>2. k.data \in Keys /\ k.copies \in Seq(Stream \X Stream) /\ Eff \in Keys /\ CopyAll(k.data, k.copies) = Eff
      /\ kv["base"].cells \in CellsSet
  <2>1. kv["base"].data \in Keys /\ kv["base"].copies \in Seq(Stream \X Stream) /\ Eff \in Keys
        /\ kv["base"].cells \in CellsSet
    BY KvIs DEF Inv
  <2>2. CopyAll(k.data, k.copies) = Eff
    BY <1>1 DEF Eff
  <2> QED BY <1>1, <2>1, <2>2
<1>3. /\ v.cells \in CellsSet /\ v.data \in Keys /\ v.copies = <<>>
      /\ v = [cells |-> v.cells, data |-> v.data, copies |-> <<>>]
      /\ \A s \in Stream, i \in Cell :
          /\ v.cells[s].pos[i] = k.cells[s].pos[i]
          /\ v.data[s][i] = <<Eff[s][i][1], Eff[s][i][2] + k.cells[s].shift[i]>>
  <2>0. \A s \in Stream, i \in Cell :
            IF k.cells[s].pos[i] = -1 THEN k.cells[s].shift[i] = 0
            ELSE CopyAll(k.data, k.copies)[s][i][2] + k.cells[s].shift[i] = k.cells[s].pos[i]
    BY <1>1, <1>2
  <2>1. LET u == update(k)
        IN  /\ u.cells \in CellsSet /\ u.data \in Keys /\ u.copies = <<>>
            /\ u = [cells |-> u.cells, data |-> u.data, copies |-> <<>>]
            /\ \A s \in Stream, i \in Cell :
                /\ u.cells[s].pos[i] = k.cells[s].pos[i]
                /\ u.data[s][i] = <<CopyAll(k.data, k.copies)[s][i][1],
                                    CopyAll(k.data, k.copies)[s][i][2] + k.cells[s].shift[i]>>
    BY <1>1, <1>2, <2>0, UpdateIs
  <2> QED BY <1>2, <2>1
<1> HIDE DEF v
<1>4. v \in CacheSet
  <2> DEFINE a == v.cells
             b == v.data
             o == <<>>
  <2>1. v = [cells |-> a, data |-> b, copies |-> o] /\ a \in CellsSet /\ b \in Keys
    BY <1>3
  <2> HIDE DEF a, b, o
  <2>2. v \in [cells : CellsSet, data : Keys, copies : {o}]
    BY <2>1
  <2> QED BY <2>2 DEF CacheSet, o
<1>5. ASSUME NEW r \in Batched
      PROVE  /\ Fills(v.cells[seq[r].cache], Len(Kept(r)))
             /\ Matches(v.cells[seq[r].cache], v.data[seq[r].cache], Text(r))
  <2> DEFINE s == seq[r].cache
             c == v.cells[s]
             d == v.data[s]
             e == k.cells[s]
             n == Len(Kept(r))
  <2>1. s \in Stream
    BY InSlotIs
  <2>2. Fills(e, n) /\ \A i \in Cell : e.pos[i] # -1 => Eff[s][i][1] = Kept(r)[e.pos[i] + 1]
    BY <1>1
  <2>3. e.pos \in [Cell -> -1 .. NumCtx - 1]
    BY <1>1, <2>1 DEF ShiftedType
  <2>4. \A i \in Cell : IF e.pos[i] = -1 THEN e.shift[i] = 0
                        ELSE Eff[s][i][2] + e.shift[i] = e.pos[i]
    BY <1>1, <2>1
  <2>5. \A i \in Cell : c.pos[i] = e.pos[i] /\ d[i] = <<Eff[s][i][1], Eff[s][i][2] + e.shift[i]>>
    BY <1>3, <2>1
  <2>6. n \in Nat /\ \A i \in 1 .. n : Text(r)[i] = Kept(r)[i]
    BY KeptIs, TextIs, Sizes
  <2> HIDE DEF s, c, d, e, n
  <2>7. Fills(c, n)
    BY <2>2, <2>5, FillsSame
  <2>8. ASSUME NEW i \in Cell, c.pos[i] # -1 PROVE d[i][2] = c.pos[i] /\ d[i][1] = Text(r)[c.pos[i] + 1]
    <3>1. c.pos[i] = e.pos[i] /\ e.pos[i] \in -1 .. NumCtx - 1
      BY <2>3, <2>5
    <3>2. d[i][1] = Eff[s][i][1] /\ d[i][2] = Eff[s][i][2] + e.shift[i]
      BY <2>5
    <3>3. d[i][2] = e.pos[i]
      BY <2>4, <2>8, <3>1, <3>2
    <3>4. e.pos[i] < n
      BY <2>2 DEF Fills
    <3>5. e.pos[i] + 1 \in 1 .. n
      BY <2>6, <2>8, <3>1, <3>4, Sizes
    <3>6. d[i][1] = Kept(r)[e.pos[i] + 1]
      BY <2>2, <2>8, <3>1, <3>2
    <3> QED BY <2>6, <3>1, <3>3, <3>5, <3>6
  <2>9. Matches(c, d, Text(r))
    BY <2>8 DEF Matches
  <2> QED BY <2>7, <2>9 DEF s, c, d, n
<1>6. ASSUME NEW s \in Stream \ DOMAIN Batch
      PROVE  /\ v.data[s] = Eff[s]
             /\ \A i \in Cell : v.cells[s].pos[i] = kv["base"].cells[s].pos[i]
  <2>1. k.cells[s] = kv["base"].cells[s] /\ s \in Stream
    BY <1>1
  <2>2. \A i \in Cell : v.cells[s].pos[i] = kv["base"].cells[s].pos[i]
    BY <1>3, <2>1
  <2>3. kv["base"].cells[s] \in CellsType
    BY <1>2, <2>1 DEF CellsSet
  <2>4. \A i \in Cell : kv["base"].cells[s].shift[i] = 0
    BY <2>3 DEF CellsType
  <2> DEFINE x == v.data[s]
             y == Eff[s]
  <2>5. x \in [Cell -> Content] /\ y \in [Cell -> Content]
    BY <1>2, <1>3, <2>1 DEF Keys
  <2>6. \A i \in Cell : x[i] = <<y[i][1], y[i][2] + 0>>
    BY <1>3, <2>1, <2>4
  <2> HIDE DEF x, y
  <2>7. ASSUME NEW i \in Cell PROVE x[i] = y[i]
    <3> DEFINE z == y[i]
    <3>1. z \in Nat \X (0 .. NumCtx - 1)
      BY <2>5 DEF Content
    <3> HIDE DEF z
    <3>2. z = <<z[1], z[2]>> /\ z[2] + 0 = z[2]
      BY <3>1, Sizes
    <3>3. x[i] = <<z[1], z[2] + 0>>
      BY <2>6 DEF z
    <3> QED BY <3>2, <3>3 DEF z
  <2>8. x = y
    BY <2>5, <2>7
  <2> QED BY <2>2, <2>8 DEF x, y
<1> QED BY <1>4, <1>5, <1>6 DEF v, k

\* What llama_decode does with the batch.
LEMMA DecodedIs ==
    ASSUME NSwa = 0, Inv
    PROVE  LET out == Decoded["base"]
           IN  /\ out.ok /\ out.misread = {} /\ out.kv \in CacheSet
               /\ \A r \in Batched :
                   /\ Fills(out.kv.cells[seq[r].cache], Len(Text(r)))
                   /\ Matches(out.kv.cells[seq[r].cache], out.kv.data[seq[r].cache], Text(r))
               /\ \A s \in Stream \ DOMAIN Batch :
                   /\ out.kv.data[s] = Eff[s]
                   /\ \A i \in Cell : out.kv.cells[s].pos[i] = kv["base"].cells[s].pos[i]
<1> DEFINE b == Batch
           texts == [s \in DOMAIN b |-> b[s].text]
           us == split_equal(b)
           k == ShiftedCaches["base"]
           v == update(k)
           out == decode(k, 0, us, texts)
<1>1. Decoded["base"] = out
  BY CachesIs DEF Decoded
<1>2. IsBatch(b) /\ IsText(b, texts)
  BY BatchOk
<1>3. /\ v \in CacheSet
      /\ \A r \in Batched :
          /\ Fills(v.cells[seq[r].cache], Len(Kept(r)))
          /\ Matches(v.cells[seq[r].cache], v.data[seq[r].cache], Text(r))
      /\ \A s \in Stream \ DOMAIN b :
          /\ v.data[s] = Eff[s]
          /\ \A i \in Cell : v.cells[s].pos[i] = kv["base"].cells[s].pos[i]
  BY UpdatedIs
<1>4. \A s \in DOMAIN b : InSlot(s) \in Batched /\ seq[InSlot(s)].cache = s
  BY InSlotIs
<1>5. \A r \in Batched : seq[r].cache \in DOMAIN b /\ InSlot(seq[r].cache) = r
  BY InSlotIs
<1>6. \A s \in DOMAIN b : /\ b[s].pos = Len(Kept(InSlot(s))) /\ b[s].toks = Taken(InSlot(s))
                          /\ texts[s] = Text(InSlot(s))
  BY BatchIs
<1> HIDE DEF b, texts
<1>7. PICK N \in Nat : \E done :
              /\ DOMAIN us = 1 .. N /\ Len(us) = N
              /\ \A n \in 0 .. N : done[n] \in DoneType(b)
              /\ done[0] = [s \in DOMAIN b |-> 0]
              /\ \A n \in 1 .. N : Splits(b, done[n - 1], us[n], done[n])
              /\ \A s \in DOMAIN b : done[N][s] = Len(b[s].toks)
  BY <1>2, SplitIs
<1> HIDE DEF us, k
<1>8. PICK done : Split(b, N, us, done)
  BY <1>7 DEF Split
<1>9. \A s \in DOMAIN b : /\ done[0][s] = 0 /\ done[N][s] = Len(b[s].toks)
  BY <1>8 DEF Split
<1>10. \A r \in Batched : Len(Kept(r)) \in Nat
  BY KeptIs, Sizes
<1>11. \A r \in Batched : Len(Text(r)) = Len(Kept(r)) + Len(Taken(r))
  BY TextIs
<1> HIDE DEF v
<1>12. Reached(b, done[0], v.cells)
  <2>1. ASSUME NEW s \in DOMAIN b PROVE Fills(v.cells[s], b[s].pos + done[0][s])
    <3>1. Fills(v.cells[s], Len(Kept(InSlot(s))))
      BY <1>3, <1>4
    <3>2. b[s].pos + done[0][s] = Len(Kept(InSlot(s)))
      BY <1>4, <1>6, <1>9, <1>10
    <3> QED BY <3>1, <3>2
  <2> QED BY <2>1 DEF Reached
<1>13. \A s \in DOMAIN b : Matches(v.cells[s], v.data[s], texts[s])
  BY <1>3, <1>4, <1>6
<1>14. v = update(k)
  BY DEF v
<1>15. /\ out.ok /\ out.misread = {}
       /\ out.kv \in CacheSet /\ Reached(b, done[N], out.kv.cells)
       /\ \A s \in DOMAIN b : Matches(out.kv.cells[s], out.kv.data[s], texts[s])
       /\ \A s \in Stream \ DOMAIN b :
           /\ out.kv.data[s] = v.data[s]
           /\ \A i \in Cell : out.kv.cells[s].pos[i] = v.cells[s].pos[i]
  BY <1>2, <1>3, <1>8, <1>12, <1>13, <1>14, DecodeIs
<1> HIDE DEF out
<1>16. ASSUME NEW r \in Batched
       PROVE  /\ Fills(out.kv.cells[seq[r].cache], Len(Text(r)))
              /\ Matches(out.kv.cells[seq[r].cache], out.kv.data[seq[r].cache], Text(r))
  <2> DEFINE s == seq[r].cache
  <2>1. s \in DOMAIN b /\ InSlot(s) = r
    BY <1>5
  <2> HIDE DEF s
  <2>2. Fills(out.kv.cells[s], b[s].pos + done[N][s])
    BY <1>15, <2>1 DEF Reached
  <2>3. b[s].pos + done[N][s] = Len(Text(r))
    BY <1>6, <1>9, <1>11, <2>1
  <2>4. Matches(out.kv.cells[s], out.kv.data[s], Text(r))
    BY <1>6, <1>15, <2>1
  <2> QED BY <2>2, <2>3, <2>4 DEF s
<1>17. ASSUME NEW s \in Stream \ DOMAIN b
       PROVE  /\ out.kv.data[s] = Eff[s]
              /\ \A i \in Cell : out.kv.cells[s].pos[i] = kv["base"].cells[s].pos[i]
  BY <1>3, <1>15
<1> QED BY <1>1, <1>15, <1>16, <1>17 DEF b

-----------------------------------------------------------------------------
(* After the batch.                                                        *)

LEMMA PrefixMatches ==
    ASSUME NEW c \in CellsType, NEW d, NEW t \in Seq(Nat), Matches(c, d, t), NEW n \in Int, n <= Len(t)
    PROVE  LET p == SubSeq(t, 1, n)
           IN  /\ p \in Seq(Nat) /\ Len(p) \in Nat /\ Len(p) <= Len(t) /\ (n >= 0 => Len(p) = n)
               /\ Matches(c, d, p)
<1> DEFINE p == SubSeq(t, 1, n)
<1>1. \A i \in 1 .. n : t[i] \in Nat
  OBVIOUS
<1>2. /\ p \in Seq(Nat) /\ Len(p) = IF 1 <= n THEN n - 1 + 1 ELSE 0
      /\ \A i \in 1 .. n - 1 + 1 : p[i] = t[1 + i - 1]
  BY <1>1, SubSeqProperties
<1> HIDE DEF p
<1>3. Len(t) \in Nat
  OBVIOUS
<1>4. /\ Len(p) \in Nat /\ Len(p) <= Len(t) /\ (n >= 0 => Len(p) = n)
      /\ \A i \in 1 .. Len(p) : p[i] = t[i]
  BY <1>2, <1>3
<1>5. \A i \in Cell : c.pos[i] \in -1 .. NumCtx - 1
  BY DEF CellsType
<1>6. ASSUME NEW i \in Cell, c.pos[i] # -1
      PROVE  d[i][2] = c.pos[i] /\ (c.pos[i] < Len(p) => d[i][1] = p[c.pos[i] + 1])
  <2> DEFINE q == c.pos[i]
  <2>1. d[i][2] = q /\ (q < Len(t) => d[i][1] = t[q + 1])
    BY <1>6 DEF Matches
  <2>2. q \in -1 .. NumCtx - 1 /\ q # -1
    BY <1>5, <1>6
  <2> HIDE DEF q
  <2>3. ASSUME q < Len(p) PROVE d[i][1] = p[q + 1]
    <3>1. q + 1 \in 1 .. Len(p) /\ q < Len(t)
      BY <1>3, <1>4, <2>2, <2>3, Sizes
    <3> QED BY <1>4, <2>1, <3>1
  <2> QED BY <2>1, <2>3 DEF q
<1>7. Matches(c, d, p)
  BY <1>6 DEF Matches
<1> QED BY <1>2, <1>4, <1>7 DEF p

LEMMA OutcomeIs ==
    ASSUME NEW r, seq[r].decoded \in Nat, NEW x \in Outcomes(r)
    PROVE  x.ends \in BOOLEAN /\ (~ x.ends => x.token \in Nat) /\ (x.ends => x.cut \in Nat)
<1>1. CASE x \in [token : IF r \in Embedding THEN {} ELSE Vocab, ends : {FALSE}]
  <2>1. x.ends = FALSE /\ x.token \in Vocab
    BY <1>1
  <2> QED BY <2>1, LlamaAssumption
<1>2. CASE x \in [cut : 0 .. Lesser(MaxCut, seq[r].decoded), ends : {TRUE}]
  <2> DEFINE S == 0 .. Lesser(MaxCut, seq[r].decoded)
  <2>1. S \subseteq Nat
    BY LlamaAssumption DEF Lesser
  <2> HIDE DEF S
  <2>2. x.ends = TRUE /\ x.cut \in S
    BY <1>2 DEF S
  <2> QED BY <2>1, <2>2
<1> QED BY <1>1, <1>2 DEF Outcomes

LEMMA InputsIs ==
    ASSUME NEW v \in SequenceType, NEW x \in Seq(Nat), NEW n \in Nat
    PROVE  /\ [v EXCEPT !.inputs = x] \in SequenceType
           /\ [v EXCEPT !.inputs = x].state = v.state /\ [v EXCEPT !.inputs = x].cache = v.cache
           /\ [v EXCEPT !.inputs = x, !.decoded = n] \in SequenceType
           /\ [v EXCEPT !.inputs = x, !.decoded = n].state = v.state
           /\ [v EXCEPT !.inputs = x, !.decoded = n].cache = v.cache
<1> DEFINE Q == Seq(Nat)
<1>1. x \in Q
  OBVIOUS
<1>2. v \in [state : {"new", "run", "done"}, inputs : Q, cache : Slot, decoded : Nat]
  BY DEF SequenceType
<1> HIDE DEF Q
<1>3. /\ [v EXCEPT !.inputs = x] \in [state : {"new", "run", "done"}, inputs : Q, cache : Slot, decoded : Nat]
      /\ [v EXCEPT !.inputs = x].state = v.state /\ [v EXCEPT !.inputs = x].cache = v.cache
  BY <1>1, <1>2
<1>4. /\ [v EXCEPT !.inputs = x, !.decoded = n]
             \in [state : {"new", "run", "done"}, inputs : Q, cache : Slot, decoded : Nat]
      /\ [v EXCEPT !.inputs = x, !.decoded = n].state = v.state
      /\ [v EXCEPT !.inputs = x, !.decoded = n].cache = v.cache
  BY <1>1, <1>2
<1> QED BY <1>3, <1>4 DEF SequenceType, Q

\* A sequence after the batch.
LEMMA SequenceAfterIs ==
    ASSUME NSwa = 0, Inv, NEW r \in Batched, NEW o, r \in Sampled => o[r] \in Outcomes(r)
    PROVE  /\ SequenceAfter(r, o) \in SequenceType
           /\ ~ (r \in Sampled /\ o[r].ends) => /\ SequenceAfter(r, o).state = "run"
                                                /\ SequenceAfter(r, o).cache = seq[r].cache
<1> DEFINE v == seq[r]
<1>1. v \in SequenceType /\ r \in Live
  BY LiveIs
<1>2. v.state = "run"
  BY <1>1 DEF Inv, Owned
<1>3. v.inputs \in Seq(Nat) /\ v.decoded \in Nat
  BY <1>1 DEF SequenceType
<1>4. CASE r \notin Sampled
  <2> DEFINE x == v.inputs
             n == Len(Taken(r))
             q == SubSeq(x, n + 1, Len(x))
  <2>1. n \in Nat /\ n <= Len(x)
    BY TextIs
  <2>2. q \in Seq(Nat)
    <3> HIDE DEF x, n
    <3>1. n + 1 \in Nat \ {0} /\ Len(x) \in Nat /\ Len(x) <= Len(x) /\ n + 1 <= Len(x) + 1 /\ x \in Seq(Nat)
      BY <1>3, <2>1 DEF x
    <3> DEFINE a == n + 1
               b == Len(x)
    <3> HIDE DEF a
    <3>2. SubSeq(x, a, b) \in Seq(Nat)
      BY <3>1, PartIs DEF a
    <3> QED BY <3>2 DEF a
  <2>3. SequenceAfter(r, o) = [v EXCEPT !.inputs = q]
    BY <1>4 DEF SequenceAfter
  <2> DEFINE w == [v EXCEPT !.inputs = q]
  <2> HIDE DEF v, q
  <2>4. w \in SequenceType /\ w.state = v.state /\ w.cache = v.cache
    BY <1>1, <2>2, InputsIs
  <2> HIDE DEF w
  <2> QED BY <1>2, <2>3, <2>4 DEF v, w
<1>5. CASE r \in Sampled /\ o[r].ends
  <2>1. SequenceAfter(r, o) = [v EXCEPT !.state = "done", !.inputs = <<>>]
    BY <1>5 DEF SequenceAfter
  <2> HIDE DEF v
  <2> QED BY <1>1, <1>5, <2>1, StoppedIs
<1>6. CASE r \in Sampled /\ ~ o[r].ends
  <2> DEFINE q == <<o[r].token>>
             n == v.decoded + 1
  <2>1. o[r].token \in Nat
    <3>1. o[r] \in Outcomes(r) /\ seq[r].decoded \in Nat
      BY <1>3, <1>6
    <3> QED BY <1>6, <3>1, OutcomeIs
  <2>2. q \in Seq(Nat) /\ n \in Nat
    BY <1>3, <2>1
  <2>3. SequenceAfter(r, o) = [v EXCEPT !.inputs = q, !.decoded = n]
    BY <1>6 DEF SequenceAfter
  <2> DEFINE w == [v EXCEPT !.inputs = q, !.decoded = n]
  <2> HIDE DEF v, q, n
  <2>4. w \in SequenceType /\ w.state = v.state /\ w.cache = v.cache
    BY <1>1, <2>2, InputsIs
  <2> HIDE DEF w
  <2> QED BY <1>2, <2>3, <2>4 DEF v, w
<1> QED BY <1>4, <1>5, <1>6

\* A slot after the batch: a sequence that ends may leave more in the cells than in the list.
LEMMA SlotAfterIs ==
    ASSUME NSwa = 0, Inv, NEW r \in Batched, NEW o, r \in Sampled => o[r] \in Outcomes(r),
           NEW c \in CellsType, NEW d, Fills(c, Len(Text(r))), Matches(c, d, Text(r))
    PROVE  /\ SlotAfter(r, o) \in [Inputs : Seq(Nat), InUse : BOOLEAN, lastUsed : Nat]
           /\ SlotAfter(r, o).InUse = ~ (r \in Sampled /\ o[r].ends)
           /\ Holds(SlotAfter(r, o), c, d)
<1> DEFINE e == r \in Sampled /\ o[r].ends
           t == Text(r)
           n == Len(t) - (IF e THEN o[r].cut ELSE 0)
           p == SubSeq(t, 1, n)
           v == slots[seq[r].cache]
<1>1. /\ r \in Req /\ seq[r] \in SequenceType /\ seq[r].cache \in Slot
  BY LiveIs
<1>2. v \in [Inputs : Seq(Nat), InUse : BOOLEAN, lastUsed : Nat]
  <2>1. slots \in SlotsType
    BY DEF Inv, Typed
  <2> QED BY <1>1, <2>1 DEF SlotsType
<1>3. t \in Seq(Nat) /\ Len(t) \in 0 .. NumCtx
  <2>1. /\ t \in Seq(Nat) /\ Len(t) = Len(Kept(r)) + Len(Taken(r)) /\ Len(Kept(r)) + Len(Taken(r)) <= NumCtx
    BY TextIs
  <2> HIDE DEF t
  <2>2. Len(t) \in Nat
    BY <2>1
  <2> QED BY <2>1, <2>2, Sizes
<1>4. e => o[r].cut \in Nat
  <2>1. seq[r].decoded \in Nat
    BY <1>1 DEF SequenceType
  <2> QED BY <2>1, OutcomeIs
<1>5. SlotAfter(r, o) = [v EXCEPT !.Inputs = p, !.InUse = ~ e]
  BY DEF SlotAfter
<1>6. e \in BOOLEAN
  BY <1>1, OutcomeIs DEF SequenceType
<1> HIDE DEF e, t
<1>7. n \in Int /\ n <= Len(t) /\ (~ e => n = Len(t))
  BY <1>3, <1>4, Sizes
<1>8. Fills(c, Len(t)) /\ Matches(c, d, t)
  BY DEF t
<1> HIDE DEF n
<1>9. p \in Seq(Nat) /\ Len(p) \in Nat /\ Len(p) <= Len(t) /\ (n >= 0 => Len(p) = n) /\ Matches(c, d, p)
  BY <1>3, <1>7, <1>8, PrefixMatches
<1>10. ~ e => Len(t) = Len(p)
  BY <1>3, <1>7, <1>9, Sizes
<1> DEFINE w == [v EXCEPT !.Inputs = p, !.InUse = ~ e]
<1> HIDE DEF p, v
<1>11. w \in [Inputs : Seq(Nat), InUse : BOOLEAN, lastUsed : Nat] /\ w.Inputs = p /\ w.InUse = ~ e
  <2> DEFINE Q == Seq(Nat)
             f == ~ e
  <2>1. p \in Q /\ v \in [Inputs : Q, InUse : BOOLEAN, lastUsed : Nat] /\ f \in BOOLEAN
    BY <1>2, <1>6, <1>9
  <2> HIDE DEF Q, f, w
  <2>2. w = [v EXCEPT !.Inputs = p, !.InUse = f]
    BY DEF w, f
  <2>3. w \in [Inputs : Q, InUse : BOOLEAN, lastUsed : Nat] /\ w.Inputs = p /\ w.InUse = f
    BY <2>1, <2>2
  <2> QED BY <2>3 DEF Q, f
<1> HIDE DEF w
<1>12. Holds(w, c, d)
  BY <1>3, <1>8, <1>9, <1>10, <1>11 DEF Holds
<1> QED BY <1>5, <1>11, <1>12 DEF e, w

LEMMA HoldsSame ==
    ASSUME NEW x, NEW y, y.Inputs = x.Inputs, y.InUse => x.InUse,
           NEW c, NEW e, \A i \in Cell : e.pos[i] = c.pos[i], NEW d, Holds(x, c, d)
    PROVE  Holds(y, e, d)
<1>1. PICK m \in 0 .. NumCtx : /\ Len(x.Inputs) <= m /\ (x.InUse => m = Len(x.Inputs))
                               /\ Fills(c, m) /\ Matches(c, d, x.Inputs)
  BY DEF Holds
<1>2. Fills(e, m)
  BY <1>1, FillsSame
<1>3. Matches(e, d, x.Inputs)
  BY <1>1, MatchesSame
<1> QED BY <1>1, <1>2, <1>3 DEF Holds

LEMMA DecodeInv ==
    ASSUME NSwa = 0, Inv, Decode
    PROVE  Inv'
<1>0. Typed /\ Owned /\ AllHold
  BY DEF Inv
<1> DEFINE out == Decoded
           k == out["base"].kv
<1>1. /\ out["base"].ok /\ out["base"].misread = {} /\ k \in CacheSet
      /\ \A r \in Batched :
          /\ Fills(k.cells[seq[r].cache], Len(Text(r)))
          /\ Matches(k.cells[seq[r].cache], k.data[seq[r].cache], Text(r))
      /\ \A s \in Stream \ DOMAIN Batch :
          /\ k.data[s] = Eff[s]
          /\ \A i \in Cell : k.cells[s].pos[i] = kv["base"].cells[s].pos[i]
  BY DecodedIs
<1>2. DecodeSucceeds(out)
  <2>1. Accepted
    BY AcceptedIs
  <2> HIDE DEF out
  <2>2. \A c \in Caches : out[c].ok
    BY <1>1, CachesIs
  <2> QED BY <2>1, <2>2 DEF Decode, out
<1> HIDE DEF out
<1>3. PICK o \in {f \in [Sampled -> UNION {Outcomes(r) : r \in Sampled}] :
                     \A r \in Sampled : f[r] \in Outcomes(r)} :
        /\ Finish(Ending \cup {r \in Sampled : o[r].ends})
        /\ seq' = [r \in Req |->
                      IF r \in Ending
                      THEN [seq[r] EXCEPT !.state = "done", !.inputs = <<>>]
                      ELSE IF r \in Batched THEN SequenceAfter(r, o) ELSE seq[r]]
        /\ slots' = [s \in Slot |->
                        IF \E r \in Ending : seq[r].cache = s
                        THEN [slots[s] EXCEPT !.InUse = FALSE]
                        ELSE IF s \in DOMAIN Batch
                        THEN SlotAfter(InSlot(s), o)
                        ELSE slots[s]]
  BY <1>2 DEF DecodeSucceeds
<1>4. /\ kv' = [c \in {"base"} |-> out[c].kv] /\ misread' = {}
      /\ clock' = clock /\ died' = died
  <2>1. /\ kv' = [c \in Caches |-> out[c].kv]
        /\ misread' = UNION {{<<c>> \o x : x \in out[c].misread} : c \in Caches}
        /\ clock' = clock /\ died' = died
    BY <1>2 DEF DecodeSucceeds
  <2>2. Caches = {"base"}
    BY CachesIs
  <2>3. \A c \in Caches : out[c].misread = {}
    BY <1>1, <2>2
  <2>4. \A c \in Caches : {<<c>> \o x : x \in out[c].misread} = {}
    BY <2>3
  <2>5. misread' = {}
    BY <2>1, <2>4
  <2> QED BY <2>1, <2>2, <2>5
<1> DEFINE R == Ending \cup {r \in Sampled : o[r].ends}
<1>5. /\ Sampled \subseteq Batched /\ Batched \subseteq Live /\ Ending \subseteq Live
      /\ \A r \in Batched : r \notin Ending
      /\ \A r \in Live : r \in Ending \/ r \in Batched
      /\ \A r \in Sampled : o[r] \in Outcomes(r)
  BY <1>3 DEF Sampled, Batched, Ending
<1>6. \A r \in Batched : /\ r \in Req /\ seq[r] \in SequenceType /\ seq[r].cache \in Slot
                         /\ slots[seq[r].cache].InUse
  BY LiveIs
<1>7. \A r, q \in Live : seq[r].cache = seq[q].cache => r = q
  BY <1>0 DEF Owned
<1>8. ASSUME NEW r \in Batched
      PROVE  /\ SequenceAfter(r, o) \in SequenceType
             /\ r \notin R => SequenceAfter(r, o).state = "run" /\ SequenceAfter(r, o).cache = seq[r].cache
  <2>1. r \in Sampled => o[r] \in Outcomes(r)
    BY <1>5
  <2>2. r \notin R => ~ (r \in Sampled /\ o[r].ends)
    OBVIOUS
  <2> HIDE DEF R
  <2> QED BY <2>1, <2>2, SequenceAfterIs
<1>9. /\ DOMAIN Batch \subseteq Stream
      /\ \A s \in DOMAIN Batch : InSlot(s) \in Batched /\ seq[InSlot(s)].cache = s
      /\ \A r \in Batched : seq[r].cache \in DOMAIN Batch /\ InSlot(seq[r].cache) = r
  BY InSlotIs
<1>10. \A s \in Slot : slots[s] \in [Inputs : Seq(Nat), InUse : BOOLEAN, lastUsed : Nat]
  BY <1>0 DEF Typed, SlotsType
<1>11. k.cells \in CellsSet /\ k.data \in Keys /\ k.copies = <<>> /\ kv'["base"] = k
  <2>1. k \in [cells : CellsSet, data : Keys, copies : {<<>>}]
    BY <1>1 DEF CacheSet
  <2>2. kv'["base"] = k
    BY <1>4
  <2> HIDE DEF k
  <2> QED BY <2>1, <2>2
<1>12. Eff' = k.data
  <2>1. Eff' = CopyAll(k.data, k.copies)
    BY <1>11 DEF Eff
  <2> HIDE DEF k
  <2> QED BY <1>11, <2>1, CopyNone
<1> HIDE DEF k
<1>13. ASSUME NEW s \in Slot
       PROVE  /\ slots'[s] \in [Inputs : Seq(Nat), InUse : BOOLEAN, lastUsed : Nat]
              /\ Holds(slots'[s], k.cells[s], k.data[s])
              /\ slots'[s].InUse => /\ slots[s].InUse /\ \A r \in R : seq[r].cache # s
              /\ s \in DOMAIN Batch /\ InSlot(s) \notin R => slots'[s].InUse
  <2>1. CASE \E r \in Ending : seq[r].cache = s
    <3>1. slots'[s] = [slots[s] EXCEPT !.InUse = FALSE]
      BY <1>3, <2>1
    <3>2. slots[s] \in [Inputs : Seq(Nat), InUse : BOOLEAN, lastUsed : Nat]
      BY <1>10
    <3>3. /\ slots'[s] \in [Inputs : Seq(Nat), InUse : BOOLEAN, lastUsed : Nat]
          /\ slots'[s].Inputs = slots[s].Inputs /\ slots'[s].InUse = FALSE
      BY <3>1, <3>2, ReleasedIs
    <3>4. s \notin DOMAIN Batch
      BY <1>5, <1>7, <1>9, <2>1
    <3>5. k.data[s] = Eff[s] /\ \A i \in Cell : k.cells[s].pos[i] = kv["base"].cells[s].pos[i]
      BY <1>1, <3>4, Sizes
    <3>6. Holds(slots[s], kv["base"].cells[s], Eff[s])
      BY <1>0 DEF AllHold
    <3>7. Holds(slots'[s], k.cells[s], Eff[s])
      <4> DEFINE x == slots[s]
                 y == slots'[s]
                 c == kv["base"].cells[s]
                 e == k.cells[s]
      <4>1. y.Inputs = x.Inputs /\ (y.InUse => x.InUse)
        BY <3>3
      <4>2. \A i \in Cell : e.pos[i] = c.pos[i]
        BY <3>5
      <4>3. Holds(x, c, Eff[s])
        BY <3>6
      <4> HIDE DEF x, y, c, e
      <4>4. Holds(y, e, Eff[s])
        BY <4>1, <4>2, <4>3, HoldsSame
      <4> QED BY <4>4 DEF y, e
    <3> QED BY <3>3, <3>4, <3>5, <3>7
  <2>2. CASE ~ (\E r \in Ending : seq[r].cache = s) /\ s \in DOMAIN Batch
    <3> DEFINE r == InSlot(s)
               c == k.cells[s]
               d == k.data[s]
               v == SlotAfter(r, o)
    <3>1. slots'[s] = v
      BY <1>3, <2>2
    <3>2. r \in Batched /\ seq[r].cache = s
      BY <1>9, <2>2
    <3> HIDE DEF r
    <3>3. r \in Sampled => o[r] \in Outcomes(r)
      BY <1>5
    <3>4. Fills(c, Len(Text(r))) /\ Matches(c, d, Text(r))
      BY <1>1, <3>2
    <3>5. c \in CellsType
      BY <1>11, Sizes DEF CellsSet
    <3> HIDE DEF c, d
    <3>6. /\ v \in [Inputs : Seq(Nat), InUse : BOOLEAN, lastUsed : Nat]
          /\ v.InUse = ~ (r \in Sampled /\ o[r].ends)
          /\ Holds(v, c, d)
      BY <3>2, <3>3, <3>4, <3>5, SlotAfterIs
    <3> HIDE DEF v
    <3>7. r \notin Ending /\ slots[s].InUse
      BY <1>5, <1>6, <3>2
    <3>8. v.InUse <=> r \notin R
      BY <3>6, <3>7
    <3>9. \A q \in R : seq[q].cache = s => q = r
      BY <1>5, <1>7, <3>2
    <3> HIDE DEF R
    <3> QED BY <3>1, <3>6, <3>7, <3>8, <3>9 DEF c, d, r
  <2>3. CASE ~ (\E r \in Ending : seq[r].cache = s) /\ s \notin DOMAIN Batch
    <3>1. slots'[s] = slots[s]
      BY <1>3, <2>3
    <3>2. ~ slots[s].InUse
      BY <1>0, <1>5, <1>9, <2>3 DEF Owned
    <3>3. k.data[s] = Eff[s] /\ \A i \in Cell : k.cells[s].pos[i] = kv["base"].cells[s].pos[i]
      BY <1>1, <2>3, Sizes
    <3>4. Holds(slots[s], kv["base"].cells[s], Eff[s])
      BY <1>0 DEF AllHold
    <3>5. Holds(slots[s], k.cells[s], Eff[s])
      BY <3>3, <3>4, HoldsSame
    <3> QED BY <1>10, <2>3, <3>1, <3>2, <3>3, <3>5
  <2> QED BY <2>1, <2>2, <2>3
<1>14. \A r \in Live \ R : seq'[r].state = "run" /\ seq'[r].cache = seq[r].cache /\ slots'[seq[r].cache].InUse
  <2>1. ASSUME NEW r \in Live \ R
        PROVE  seq'[r].state = "run" /\ seq'[r].cache = seq[r].cache /\ slots'[seq[r].cache].InUse
    <3>1. r \in Batched /\ r \notin Ending
      BY <1>5
    <3>2. seq'[r] = SequenceAfter(r, o)
      BY <1>3, <1>6, <3>1
    <3> HIDE DEF R
    <3> QED BY <1>6, <1>8, <1>9, <1>13, <3>1, <3>2
  <2> QED BY <2>1
<1>15. Owned' /\ seqs' \in [Slot -> Req \cup {None}]
  <2>1. Finish(R) /\ R \subseteq Live
    BY <1>3, <1>5
  <2> HIDE DEF R
  <2>2. \A s \in Slot : slots'[s].InUse => slots[s].InUse /\ \A r \in R : seq[r].cache # s
    BY <1>13
  <2> QED BY <1>0, <1>14, <2>1, <2>2, LeaveOwned
<1>16. Typed'
  <2>1. seq' \in [Req -> SequenceType]
    <3>1. \A r \in Req : seq[r] \in SequenceType
      BY <1>0 DEF Typed, SequenceType
    <3>2. \A r \in Req : [seq[r] EXCEPT !.state = "done", !.inputs = <<>>] \in SequenceType
      BY <3>1, StoppedIs
    <3>3. \A r \in Req : seq'[r] \in SequenceType
      BY <1>3, <1>8, <3>1, <3>2
    <3> QED BY <1>3, <3>3
  <2>2. slots' \in SlotsType
    BY <1>3, <1>13 DEF SlotsType
  <2>3. clock' \in Nat
    BY <1>0, <1>4 DEF Typed
  <2>4. died' \in {"no", "partial copy"} /\ misread' = {}
    BY <1>0, <1>4, Zenon DEF Typed
  <2>5. kv' \in [{"base"} -> [cells : CellsSet, data : Keys, copies : Seq(Stream \X Stream)]]
    <3>1. k \in CacheType
      <4>1. <<>> \in Seq(Stream \X Stream)
        OBVIOUS
      <4> DEFINE a == k.cells
                 b == k.data
                 x == <<>>
      <4>2. k = [cells |-> a, data |-> b, copies |-> x]
        <5>1. k \in [cells : CellsSet, data : Keys, copies : {<<>>}]
          BY <1>1 DEF CacheSet
        <5> QED BY <5>1
      <4>3. a \in CellsSet /\ b \in Keys /\ x \in Seq(Stream \X Stream)
        BY <1>11, <4>1
      <4> HIDE DEF a, b, x
      <4> QED BY <4>2, <4>3, CacheTypeIs
    <3>2. kv' = [c \in {"base"} |-> k]
      BY <1>4 DEF k
    <3> QED BY <3>1, <3>2 DEF CacheType
  <2> QED BY <1>15, <2>1, <2>2, <2>3, <2>4, <2>5, Zenon DEF Typed, SequenceType
<1>17. AllHold'
  BY <1>11, <1>12, <1>13 DEF AllHold
<1> QED BY <1>15, <1>16, <1>17 DEF Inv

LEMMA NextInv == ASSUME NSwa = 0, Inv, [Next]_vars PROVE Inv'
<1>1. CASE UNCHANGED vars
  <2>1. UNCHANGED <<seqs, seq, slots, clock, kv, misread>> /\ died' = died
    BY <1>1 DEF vars
  <2>2. died' \in {"no", "partial copy"}
    BY <2>1, Zenon DEF Inv, Typed
  <2> QED BY <2>1, <2>2, FrameInv
<1>2. ASSUME NEW r \in Req, Insert(r) PROVE Inv'
  BY <1>2, InsertInv
<1>3. CASE EndOnly
  BY <1>3, EndOnlyInv
<1>4. CASE Decode
  BY <1>4, DecodeInv
<1>5. CASE Finished
  BY <1>1, <1>5 DEF Finished
<1> QED BY <1>1, <1>2, <1>3, <1>4, <1>5 DEF Next, processBatch

LEMMA Invariance == ASSUME NSwa = 0 PROVE Spec => []Inv
<1>1. Init => Inv
  BY InitInv
<1>2. Inv /\ [Next]_vars => Inv'
  BY NextInv
<1> QED BY <1>1, <1>2, PTL DEF Spec

-----------------------------------------------------------------------------
(* What follows.                                                           *)

LEMMA InvType == ASSUME NSwa = 0, Inv PROVE TypeOK
<1>1. /\ seqs \in [Slot -> Req \cup {None}]
      /\ seq \in [Req -> [state : {"new", "run", "done"}, inputs : Seq(Nat), cache : Slot,
                          decoded : Nat]]
      /\ slots \in [Slot -> [Inputs : Seq(Nat), InUse : BOOLEAN, lastUsed : Nat]]
      /\ clock \in Nat
  BY DEF Inv, Typed, SlotsType
<1>2. died \in {"no", "partial copy", "batch refused", "cache full"}
  BY Zenon DEF Inv, Typed
<1> DEFINE k == kv["base"]
<1>3. k.cells \in CellsSet /\ k.data \in Keys /\ k.copies \in Seq(Stream \X Stream)
  BY KvIs DEF Inv
<1>4. Caches = {"base"}
  BY CachesIs
<1>5. ASSUME NEW s \in Stream
      PROVE  /\ k.cells[s].pos \in [Cell -> -1 .. NumCtx - 1]
             /\ k.cells[s].shift \in [Cell -> -NumCtx .. 0]
             /\ k.cells[s].head \in 0 .. Size
             /\ k.data[s] \in [Cell -> Content]
  <2> DEFINE c == k.cells[s]
  <2>1. c \in CellsType /\ k.data[s] \in [Cell -> Content]
    BY <1>3 DEF CellsSet, Keys
  <2> HIDE DEF c
  <2>2. 0 \in -NumCtx .. 0
    BY Sizes
  <2>3. /\ c.pos \in [Cell -> -1 .. NumCtx - 1] /\ c.shift \in [Cell -> -NumCtx .. 0]
        /\ c.head \in 0 .. Size
    BY <2>1, <2>2 DEF CellsType
  <2> QED BY <2>1, <2>3 DEF c
<1> HIDE DEF k
<1>6. \A c \in Caches, s \in Stream :
        /\ kv[c].cells[s].pos \in [Cell -> -1 .. NumCtx - 1]
        /\ kv[c].cells[s].shift \in [Cell -> -NumCtx .. 0]
        /\ kv[c].cells[s].head \in 0 .. Size
        /\ kv[c].data[s] \in [Cell -> Content]
  BY <1>4, <1>5 DEF k
<1>7. \A c \in Caches : kv[c].copies \in Seq(Stream \X Stream)
  BY <1>3, <1>4 DEF k
<1> QED BY <1>1, <1>2, <1>6, <1>7, Zenon DEF TypeOK

LEMMA InvHolds == ASSUME NSwa = 0, Inv PROVE KvHoldsInputs
<1> DEFINE k == kv["base"]
           now == update(k)
<1>1. k.cells \in CellsSet /\ k.data \in Keys /\ k.copies \in Seq(Stream \X Stream) /\ Eff \in Keys
  BY KvIs DEF Inv
<1>2. CopyAll(k.data, k.copies) = Eff
  BY DEF Eff
<1> HIDE DEF k
<1>3. ASSUME NEW s \in Stream
      PROVE  /\ k.cells[s] \in ShiftedType
             /\ \A i \in Cell : /\ k.cells[s].shift[i] = 0 /\ k.cells[s].pos[i] \in Int
                                /\ k.cells[s].pos[i] # -1 => Eff[s][i][2] = k.cells[s].pos[i]
  <2> DEFINE c == k.cells[s]
             d == Eff[s]
  <2>1. c \in CellsType
    BY <1>1 DEF CellsSet
  <2>2. \E t : Matches(c, d, t)
    BY Sizes DEF Inv, AllHold, Holds, k
  <2> HIDE DEF c, d
  <2>3. 0 \in -NumCtx .. 0 /\ -1 .. NumCtx - 1 \subseteq Int
    BY Sizes
  <2>4. c \in ShiftedType
    BY <2>1, <2>3 DEF CellsType, ShiftedType
  <2>5. \A i \in Cell : c.shift[i] = 0 /\ c.pos[i] \in Int
    BY <2>1, <2>3 DEF CellsType
  <2>6. \A i \in Cell : c.pos[i] # -1 => d[i][2] = c.pos[i]
    BY <2>2 DEF Matches
  <2> QED BY <2>4, <2>5, <2>6 DEF c, d
<1>4. k.cells \in [Stream -> ShiftedType]
  BY <1>1, <1>3 DEF CellsSet
<1>5. \A s \in Stream, i \in Cell :
          IF k.cells[s].pos[i] = -1 THEN k.cells[s].shift[i] = 0
          ELSE CopyAll(k.data, k.copies)[s][i][2] + k.cells[s].shift[i] = k.cells[s].pos[i]
  <2>1. ASSUME NEW s \in Stream, NEW i \in Cell
        PROVE  IF k.cells[s].pos[i] = -1 THEN k.cells[s].shift[i] = 0
               ELSE CopyAll(k.data, k.copies)[s][i][2] + k.cells[s].shift[i] = k.cells[s].pos[i]
    <3> DEFINE p == k.cells[s].pos[i]
               h == k.cells[s].shift[i]
               x == Eff[s][i][2]
    <3>1. h = 0 /\ p \in Int /\ (p # -1 => x = p)
      BY <1>3
    <3>2. CopyAll(k.data, k.copies)[s][i][2] = x
      BY <1>2
    <3> HIDE DEF p, h, x
    <3>3. IF p = -1 THEN h = 0 ELSE x + h = p
      BY <3>1
    <3> QED BY <3>2, <3>3 DEF p, h
  <2> QED BY <2>1
<1>6. \A s \in Stream, i \in Cell :
          /\ now.cells[s].pos[i] = k.cells[s].pos[i]
          /\ now.data[s][i] = <<Eff[s][i][1], Eff[s][i][2] + k.cells[s].shift[i]>>
  <2>1. LET u == update(k)
        IN  /\ u.cells \in CellsSet /\ u.data \in Keys /\ u.copies = <<>>
            /\ u = [cells |-> u.cells, data |-> u.data, copies |-> <<>>]
            /\ \A s \in Stream, i \in Cell :
                /\ u.cells[s].pos[i] = k.cells[s].pos[i]
                /\ u.data[s][i] = <<CopyAll(k.data, k.copies)[s][i][1],
                                    CopyAll(k.data, k.copies)[s][i][2] + k.cells[s].shift[i]>>
    BY <1>1, <1>4, <1>5, UpdateIs
  <2> QED BY <1>2, <2>1
<1> HIDE DEF now
<1>7. ASSUME NEW s \in Slot, NEW n \in 1 .. NumCtx, n <= Len(slots[s].Inputs)
      PROVE  \E i \in Cell : /\ {j \in Cell : now.cells[s].pos[j] = n - 1} = {i}
                             /\ now.data[s][i] = <<slots[s].Inputs[n], n - 1>>
  <2> DEFINE c == k.cells[s]
             d == Eff[s]
             t == slots[s].Inputs
  <2>1. s \in Stream
    BY Sizes
  <2>2. Holds(slots[s], c, d)
    BY DEF Inv, AllHold, k
  <2>3. PICK m \in 0 .. NumCtx : Len(t) <= m /\ Fills(c, m) /\ Matches(c, d, t)
    BY <2>2 DEF Holds
  <2>4. t \in Seq(Nat)
    BY DEF Inv, Typed, SlotsType
  <2>5. \A i \in Cell : c.shift[i] = 0 /\ c.pos[i] \in Int
    BY <1>3, <2>1
  <2>6. \A i \in Cell : now.cells[s].pos[i] = c.pos[i] /\ now.data[s][i] = <<d[i][1], d[i][2] + c.shift[i]>>
    BY <1>6, <2>1
  <2> HIDE DEF c, d, t
  <2>7. Len(t) \in Nat /\ n <= Len(t)
    BY <1>7, <2>4 DEF t
  <2>8. n - 1 \in 0 .. m - 1 /\ n - 1 # -1 /\ n - 1 < Len(t) /\ n - 1 + 1 = n /\ n - 1 + 0 = n - 1
    BY <2>3, <2>7, Sizes
  <2>9. PICK i \in Cell : c.pos[i] = n - 1
    BY <2>3, <2>8 DEF Fills
  <2>10. \A j \in Cell : c.pos[j] = n - 1 => j = i
    BY <2>3, <2>8, <2>9 DEF Fills
  <2>11. d[i][2] = n - 1 /\ d[i][1] = t[n]
    BY <2>3, <2>8, <2>9 DEF Matches
  <2>12. {j \in Cell : now.cells[s].pos[j] = n - 1} = {i}
    BY <2>6, <2>9, <2>10
  <2>13. now.data[s][i] = <<t[n], n - 1>>
    BY <2>5, <2>6, <2>8, <2>11
  <2> QED BY <2>12, <2>13 DEF t
<1> QED BY <1>7 DEF KvHoldsInputs, now, k

\* Every variable keeps its type in a model without a sliding window: heads, positions and
\* shifts of the cells stay in their bounds through every copy, shift, removal and batch.
THEOREM TypesKept == ASSUME NSwa = 0 PROVE Spec => []TypeOK
<1>1. Inv => TypeOK
  BY InvType
<1> QED BY <1>1, Invariance, PTL

\* A slot's list says which inputs the KV cache holds, and it does: each in one cell, at its
\* place, with its key rotated for that position once copies and shifts have reached the data.
THEOREM KvHoldsWhatTheSlotSays == ASSUME NSwa = 0 PROVE Spec => []KvHoldsInputs
<1>1. Inv => KvHoldsInputs
  BY InvHolds
<1> QED BY <1>1, Invariance, PTL

\* Every token llama_decode evaluates attends to its own text, all of it and nothing else,
\* however the batch was split into ubatches and wherever their cells were found.
THEOREM EveryTokenAttendsToItsText == ASSUME NSwa = 0 PROVE Spec => []AttendsToText
<1>1. Inv => AttendsToText
  BY DEF Inv, Typed, AttendsToText
<1> QED BY <1>1, Invariance, PTL

\* A batch of the runner's goes on where the cache ends, and cells are found for all of it.
THEOREM NoBatchIsRefused == ASSUME NSwa = 0 PROVE Spec => []NeverRefused
<1>1. Inv => NeverRefused
  BY Zenon DEF Inv, Typed, NeverRefused
<1> QED BY <1>1, Invariance, PTL
=============================================================================

---------------------------- MODULE RunnerProofs ----------------------------
(***************************************************************************)
(* Theorems about Runner, for any requests and prompts, any number of      *)
(* slots and any context length.                                           *)
(*                                                                         *)
(* A permit is a place in seqs and a cache slot, so the invariant follows  *)
(* a request from its permit to the removal of its sequence (Lives), and   *)
(* the lock from its taking to its release (Locks).  Pending says which    *)
(* batch carries a sequence that is on its way into the cache: it is kept  *)
(* because forwardBatch looks at every slot once, and only after the batch *)
(* before has read its tokens.                                             *)
(***************************************************************************)
EXTENDS Runner, FiniteSetTheorems, SequenceTheorems, WellFoundedInduction, TLAPS

-----------------------------------------------------------------------------
(* The inductive invariant.                                                *)

Ptr == Req \X Nat

IsSequence(s) ==
    /\ s = [inputs |-> s.inputs, pendingInputs |-> s.pendingInputs,
            pendingResponses |-> s.pendingResponses, cache |-> s.cache,
            responses |-> s.responses, closed |-> s.closed, quit |-> s.quit,
            embedding |-> s.embedding, numPredicted |-> s.numPredicted,
            iBatch |-> s.iBatch, numPromptInputs |-> s.numPromptInputs,
            doneReason |-> s.doneReason, delivered |-> s.delivered]
    /\ s.inputs \in Seq(Ptr) /\ s.pendingInputs \in Seq(Ptr)
    /\ s.cache \in Slot /\ s.closed \in BOOLEAN /\ s.embedding \in BOOLEAN

IsBatch(w) ==
    /\ w = [pc |-> w.pc, seqs |-> w.seqs, batchInputs |-> w.batchInputs,
            outputs |-> w.outputs, after |-> w.after, tokens |-> w.tokens,
            next |-> w.next, iBatches |-> w.iBatches, idx |-> w.idx]
    /\ w.pc \in {"wait", "compute", "decode"}
    /\ w.seqs \in [Slot -> Req \cup {None}]
    /\ w.idx \in 0 .. Parallel

\* The variables have the types that the operations rely on.
Typed ==
    /\ handler \in [Req -> {"new", "acquire", "insert", "stream", "done", "gone", "failed"}]
    /\ permits \in Nat
    /\ seqs \in [Slot -> Req \cup {None}]
    /\ seq = [r \in Req |-> seq[r]] /\ \A r \in Req : IsSequence(seq[r])
    /\ text \in [Req -> Seq(Int)]
    /\ slots \in [Slot -> [Inputs : Seq(Ptr), InUse : BOOLEAN, lastUsed : Nat]]
    /\ clock \in Nat
    /\ nextSeq \in Nat
    /\ fwd = None \/ fwd \in ForwardType
    /\ prev \in Nat
    /\ started \in BOOLEAN
    /\ work = [id \in DOMAIN work |-> work[id]]
    /\ DOMAIN work \subseteq Nat \ {0} /\ IsFiniteSet(DOMAIN work)
    /\ \A id \in DOMAIN work : IsBatch(work[id])
    /\ model \in Models

\* Who holds the lock, and which batch has not read its tokens.
Locks ==
    /\ mu = Forward <=> fwd # None
    /\ \A id \in DOMAIN work : work[id].pc = "decode" <=> mu = id
    /\ \A id \in DOMAIN work : work[id].pc = "wait" => id = prev /\ ~started
    /\ fwd # None => ComputeStarted

\* Where a request is in its life: a sequence is in seqs until it is closed.
Fresh(r) ==
    /\ r \notin Live /\ ~seq[r].closed /\ seq[r].pendingInputs = <<>>
    /\ handler[r] # "new" =>
          /\ seq[r].inputs = [k \in 1 .. Len(text[r]) |-> <<r, k>>]
          /\ Len(text[r]) \in 1 .. NumCtx

Lives ==
    \A r \in Req :
       /\ handler[r] \in {"new", "acquire", "insert"} => Fresh(r)
       /\ r \in Live => /\ ~seq[r].closed
                        /\ handler[r] \in {"stream", "gone"}
                        /\ seq[r].pendingInputs = <<>> => seq[r].inputs # <<>>
       /\ seq[r].embedding => seq[r].closed

\* The sequence in slot i is carried by the batch that is built, or by the one that has
\* not read its tokens.
InBatch(i) ==
    LET pending == seq[seqs[i]].pendingInputs IN
    \/ fwd # None /\ ToSet(pending) \subseteq ToSet(fwd.inputs) /\ fwd.seqs[i] = seqs[i]
    \/ /\ prev \in DOMAIN work /\ work[prev].pc = "wait"
       /\ ToSet(pending) \subseteq ToSet(work[prev].batchInputs)
       /\ work[prev].seqs[i] = seqs[i]

\* The k-th slot forwardBatch has yet to look at.
Ahead(k) == (fwd.seqIdx + k) % Parallel

Pending ==
    /\ \A i \in Slot : seqs[i] # None /\ seq[seqs[i]].pendingInputs # <<>> => InBatch(i)
    /\ fwd # None =>
          /\ fwd.seqIdx >= -1 /\ fwd.resumeSeq >= -1 /\ fwd.left <= Parallel
          /\ \A k \in 1 .. fwd.left :
                LET i == Ahead(k) IN
                /\ fwd.seqs[i] = seqs[i]
                /\ seqs[i] # None => seq[seqs[i]].pendingInputs = <<>>

Inv == Typed /\ Locks /\ Lives /\ SlotPerPermit /\ Pending


-----------------------------------------------------------------------------
(* Numbers and sequences.                                                  *)

\* A set of numbers has a smallest one.
LEMMA Smallest ==
    ASSUME NEW S, S \subseteq Nat, S # {}
    PROVE  \E x \in S : \A y \in S : x <= y
<1> DEFINE T == {0 .. n - 1 : n \in S}
<1>1. T \subseteq FiniteSubsetsOf(Nat) /\ T # {}
  <2>1. \A n \in S : IsFiniteSet(0 .. n - 1) /\ 0 .. n - 1 \subseteq Nat
    BY FS_Interval
  <2> QED BY <2>1 DEF FiniteSubsetsOf
<1>2. IsWellFoundedOn(StrictSubsetOrdering(Nat), FiniteSubsetsOf(Nat))
  BY FS_StrictSubsetOrderingWellFounded
<1> HIDE DEF T
<1>3. \E x \in T : \A y \in T : ~ (<<y, x>> \in StrictSubsetOrdering(Nat))
  BY <1>1, <1>2, WFMin
<1>4. PICK n \in S : \A m \in S : ~ (<<0 .. m - 1, 0 .. n - 1>> \in StrictSubsetOrdering(Nat))
  BY <1>3 DEF T
<1>5. ASSUME NEW m \in S, m < n PROVE FALSE
  <2>1. 0 .. m - 1 \subseteq 0 .. n - 1 /\ m \in 0 .. n - 1 /\ m \notin 0 .. m - 1
    BY <1>5
  <2>2. <<0 .. m - 1, 0 .. n - 1>> \in StrictSubsetOrdering(Nat)
    BY <2>1 DEF StrictSubsetOrdering
  <2> QED BY <2>2, <1>4
<1> QED BY <1>5

\* A bounded set of numbers has a largest one.
LEMMA Largest ==
    ASSUME NEW S, S \subseteq Nat, S # {}, NEW b \in Nat, \A x \in S : x <= b
    PROVE  \E x \in S : \A y \in S : x >= y
<1> DEFINE T == {b - x : x \in S}
<1>1. T \subseteq Nat /\ T # {}
  <2>1. \A x \in S : b - x \in Nat
    OBVIOUS
  <2> QED BY <2>1
<1>2. \E t \in T : \A u \in T : t <= u
  <2> HIDE DEF T
  <2> QED BY <1>1, Smallest
<1>3. PICK x \in S : \A u \in T : b - x <= u
  BY <1>2
<1>4. \A y \in S : b - x <= b - y
  BY <1>3
<1> QED BY <1>4

\* The next slot, and those behind it, seen from the slot before and from itself.
LEMMA NextSlot ==
    ASSUME NEW a \in Int, a >= -1, NEW k \in Nat
    PROVE  /\ (a + 1) % Parallel \in Slot
           /\ (a + k + 1) % Parallel \in Slot
           /\ (((a + 1) % Parallel) + k) % Parallel = (a + k + 1) % Parallel
           /\ k \in 1 .. Parallel - 1 => (a + k + 1) % Parallel # (a + 1) % Parallel
<1> DEFINE P == Parallel
           x == (a + 1) % P
           q == (a + 1) \div P
           y == (x + k) % P
           u == (x + k) \div P
           z == (a + k + 1) % P
           v == (a + k + 1) \div P
<1>1. P \in Nat /\ P > 0
  BY CacheAssumption
<1>2. x \in 0 .. P - 1 /\ q \in Int /\ a + 1 = q * P + x
  BY <1>1
<1>3. y \in 0 .. P - 1 /\ u \in Int /\ x + k = u * P + y
  <2> HIDE DEF x
  <2> QED BY <1>1, <1>2
<1>4. z \in 0 .. P - 1 /\ v \in Int /\ a + k + 1 = v * P + z
  BY <1>1
<1> HIDE DEF P, x, q, y, u, z, v
<1>5. (q + u) * P + y = v * P + z
  <2>1. (q + u) * P = q * P + u * P
    BY <1>1, <1>2, <1>3
  <2> QED BY <2>1, <1>1, <1>2, <1>3, <1>4
<1>6. ASSUME NEW m \in Int, NEW n \in Int, NEW c \in 0 .. P - 1, NEW d \in 0 .. P - 1,
             m * P + c = n * P + d
      PROVE  m = n
  <2>1. (m - n) * P = d - c /\ m - n \in Int
    BY <1>1, <1>6
  <2>2. CASE m - n >= 1
    <3>1. (m - n) * P >= P
      BY <2>1, <2>2, <1>1
    <3> QED BY <3>1, <2>1, <1>1
  <2>3. CASE m - n <= -1
    <3>1. (m - n) * P <= -P
      BY <2>1, <2>3, <1>1
    <3> QED BY <3>1, <2>1, <1>1
  <2> QED BY <2>1, <2>2, <2>3
<1>7. q + u = v
  BY <1>5, <1>6, <1>2, <1>3, <1>4
<1>8. y = z
  BY <1>5, <1>7, <1>1, <1>2, <1>3, <1>4
<1>9. ASSUME k \in 1 .. P - 1, y = x PROVE FALSE
  <2>1. k = u * P
    BY <1>9, <1>3, <1>2, <1>1
  <2>2. CASE u >= 1
    <3>1. u * P >= P
      BY <2>2, <1>1, <1>3
    <3> QED BY <3>1, <2>1, <1>9, <1>1
  <2>3. CASE u <= 0
    <3>1. u * P <= 0
      BY <2>3, <1>1, <1>3
    <3> QED BY <3>1, <2>1, <1>9, <1>1
  <2> QED BY <2>2, <2>3, <1>3
<1> QED
  BY <1>1, <1>2, <1>3, <1>4, <1>8, <1>9 DEF Slot, P, x, y, z

\* What two lists contain together.
LEMMA ToSetConcat ==
    ASSUME NEW S, NEW s \in Seq(S), NEW t \in Seq(S)
    PROVE  ToSet(s \o t) = ToSet(s) \cup ToSet(t)
<1> DEFINE c == s \o t
<1>1. /\ Len(s) \in Nat /\ Len(t) \in Nat /\ Len(c) = Len(s) + Len(t)
      /\ DOMAIN s = 1 .. Len(s) /\ DOMAIN t = 1 .. Len(t) /\ DOMAIN c = 1 .. Len(s) + Len(t)
      /\ \A i \in 1 .. Len(s) + Len(t) : c[i] = IF i <= Len(s) THEN s[i] ELSE t[i - Len(s)]
  OBVIOUS
<1> HIDE DEF c
<1>2. ASSUME NEW i \in 1 .. Len(t) PROVE Len(s) + i \in DOMAIN c /\ c[Len(s) + i] = t[i]
  BY <1>1
<1>3. ASSUME NEW i \in DOMAIN c PROVE c[i] \in ToSet(s) \cup ToSet(t)
  BY <1>1 DEF ToSet
<1>4. ToSet(t) \subseteq ToSet(c)
  BY <1>1, <1>2 DEF ToSet
<1>5. ToSet(s) \subseteq ToSet(c)
  BY <1>1 DEF ToSet
<1>6. ToSet(c) \subseteq ToSet(s) \cup ToSet(t)
  BY <1>3 DEF ToSet
<1> QED BY <1>4, <1>5, <1>6 DEF c

\* A list without elements is empty.
LEMMA ToSetEmpty ==
    ASSUME NEW S, NEW s \in Seq(S)
    PROVE  ToSet(s) \subseteq ToSet(<<>>) => s = <<>>
<1>1. ToSet(<<>>) = {}
  BY DEF ToSet
<1>2. ASSUME s # <<>> PROVE s[1] \in ToSet(s)
  BY <1>2 DEF ToSet
<1> QED BY <1>1, <1>2

\* There is a new number for a batch.
LEMMA NewId ==
    ASSUME NEW D, IsFiniteSet(D), NEW n
    PROVE  LET id == Min((1 .. Cardinality(D) + 2) \ (D \cup {n}))
           IN  id \in Nat \ {0} /\ id \notin D \cup {n}
<1> DEFINE C == Cardinality(D)
           S == (1 .. C + 2) \ (D \cup {n})
<1>1. C \in Nat /\ IsFiniteSet(D \cup {n}) /\ Cardinality(D \cup {n}) <= C + 1
  <2>1. C \in Nat
    BY FS_CardinalityType
  <2>2. IsFiniteSet(D \cup {n}) /\ Cardinality(D \cup {n}) = IF n \in D THEN C ELSE C + 1
    BY FS_AddElement
  <2> QED BY <2>1, <2>2
<1>2. Cardinality(1 .. C + 2) = C + 2 /\ IsFiniteSet(1 .. C + 2)
  BY <1>1, FS_Interval
<1>3. ASSUME S = {} PROVE FALSE
  <2>1. 1 .. C + 2 \in SUBSET (D \cup {n})
    BY <1>3
  <2>2. C + 2 <= Cardinality(D \cup {n})
    BY <1>1, <1>2, <2>1, FS_Subset
  <2>3. Cardinality(D \cup {n}) \in Nat
    BY <1>1, FS_CardinalityType
  <2> QED BY <2>2, <2>3, <1>1
<1>4. S \subseteq Nat \ {0}
  BY <1>1
<1> HIDE DEF S
<1>5. \E x \in S : \A y \in S : x <= y
  BY <1>3, <1>4, Smallest
<1>6. Min(S) \in S
  BY <1>5 DEF Min
<1> QED BY <1>4, <1>6 DEF S

-----------------------------------------------------------------------------
(* The search for a cache slot.                                            *)

\* A common prefix is no longer than either list.
LEMMA CommonPrefix ==
    ASSUME NEW s, NEW t, Len(s) \in Nat, Len(t) \in Nat
    PROVE  countCommonPrefix(s, t) \in 0 .. Len(t)
<1> DEFINE m == Lesser(Len(s), Len(t))
           S == {n \in 0 .. m : \A i \in 1 .. n : s[i] = t[i]}
<1>1. m \in 0 .. Len(t)
  BY DEF Lesser
<1> HIDE DEF m
<1>2. 0 \in S /\ S \subseteq Nat /\ \A n \in S : n <= Len(t)
  BY <1>1
<1> HIDE DEF S
<1>3. \E x \in S : \A y \in S : x >= y
  BY <1>2, Largest
<1>4. Max(S) \in S
  BY <1>3 DEF Max
<1>5. countCommonPrefix(s, t) = Max(S)
  BY DEF countCommonPrefix, S, m
<1>6. \A n \in S : n \in 0 .. m
  BY DEF S
<1> QED BY <1>1, <1>4, <1>5, <1>6

\* There is a first slot for which f is smallest.
LEMMA LeastSlot ==
    ASSUME NEW S, S \subseteq Slot, S # {}, NEW f, \A s \in S : f[s] \in Nat
    PROVE  \E s \in S : \A t \in S : f[s] < f[t] \/ (f[s] = f[t] /\ s <= t)
<1> DEFINE V == {f[s] : s \in S}
<1>0. S \subseteq Nat
  BY CacheAssumption DEF Slot
<1>1. V \subseteq Nat /\ V # {}
  OBVIOUS
<1>2. \E v \in V : \A u \in V : v <= u
  <2> HIDE DEF V
  <2> QED BY <1>1, Smallest
<1>3. PICK x \in S : \A s \in S : f[x] <= f[s]
  BY <1>2
<1> DEFINE T == {s \in S : f[s] = f[x]}
<1>4. T \subseteq Nat /\ T # {}
  BY <1>0
<1>5. \E t \in T : \A u \in T : t <= u
  <2> HIDE DEF T
  <2> QED BY <1>4, Smallest
<1>6. PICK s \in T : \A u \in T : s <= u
  BY <1>5
<1>7. ASSUME NEW t \in S PROVE f[s] < f[t] \/ (f[s] = f[t] /\ s <= t)
  BY <1>6, <1>3
<1> QED BY <1>6, <1>7

\* The first of the slots for which f is smallest, or largest, is one of them.
LEMMA FirstSmallestIn ==
    ASSUME NEW S, S \subseteq Slot, S # {}, NEW f, \A s \in S : f[s] \in Nat
    PROVE  FirstSmallest(S, f) \in S
BY LeastSlot DEF FirstSmallest

LEMMA FirstLargestIn ==
    ASSUME NEW S, S \subseteq Slot, S # {}, NEW b \in Nat, NEW f, \A s \in S : f[s] \in 0 .. b
    PROVE  FirstLargest(S, f) \in S
<1> DEFINE h == [s \in S |-> b - f[s]]
<1>1. \A s \in S : h[s] \in Nat
  OBVIOUS
<1> HIDE DEF h
<1>2. \E s \in S : \A t \in S : h[s] < h[t] \/ (h[s] = h[t] /\ s <= t)
  BY <1>1, LeastSlot
<1>3. \E s \in S : \A t \in S : f[s] > f[t] \/ (f[s] = f[t] /\ s <= t)
  BY <1>2 DEF h
<1> QED BY <1>3 DEF FirstLargest

\* A prompt gets a slot that is free, and at least one of its inputs is left.
LEMMA LoadedSlot ==
    ASSUME NEW sl, NEW sh, NEW held, NEW prompt, NEW cachePrompt \in BOOLEAN, NEW canResume \in BOOLEAN,
           Free(sl) # {}, \A s \in Slot : Len(held[s]) \in Nat,
           Len(prompt) \in Nat \ {0}, \A s \in Slot : sl[s].lastUsed \in Nat
    PROVE  LET load == LoadCacheSlot(sl, sh, held, prompt, cachePrompt, canResume)
           IN  load.slot \in Free(sl) /\ load.numPast \in 0 .. Len(prompt) - 1
<1> DEFINE common == [s \in Slot |-> countCommonPrefix(held[s], prompt)]
           used == [s \in Slot |-> sl[s].lastUsed]
           load == LoadCacheSlot(sl, sh, held, prompt, cachePrompt, canResume)
           found == IF MultiUserCache THEN findBestCacheSlot(sl, held, prompt)
                    ELSE findLongestCacheSlot(sl, held, prompt)
           past == IF ~cachePrompt THEN 0 ELSE Lesser(found.numPast, Len(prompt) - 1)
<1>1. Free(sl) \subseteq Slot
  BY DEF Free
<1>2. \A s \in Slot : common[s] \in 0 .. Len(prompt) /\ used[s] \in Nat
  BY CommonPrefix
<1> HIDE DEF common, used
<1>3. FirstLargest(Free(sl), common) \in Free(sl) /\ FirstLargest(Slot, common) \in Slot
  <2>1. Len(prompt) \in Nat /\ Slot # {}
    BY <1>1
  <2> QED BY <1>1, <1>2, <2>1, FirstLargestIn
<1>4. FirstSmallest(Free(sl), used) \in Free(sl)
  BY <1>1, <1>2, FirstSmallestIn
<1>5. found.slot \in Free(sl) /\ found.numPast \in 0 .. Len(prompt)
  <2>1. CASE MultiUserCache
    <3> DEFINE longest == FirstLargest(Slot, common)
               oldest == FirstSmallest(Free(sl), used)
               whole == common[longest] = Len(held[longest]) /\ ~sl[longest].InUse
    <3>1. findBestCacheSlot(sl, held, prompt) =
             [slot |-> IF whole THEN longest ELSE oldest, src |-> longest, numPast |-> common[longest]]
      BY DEF findBestCacheSlot, common, used
    <3>2. whole => longest \in Free(sl)
      BY <1>3 DEF Free
    <3> HIDE DEF longest, oldest, whole
    <3>3. found = [slot |-> IF whole THEN longest ELSE oldest, src |-> longest, numPast |-> common[longest]]
      BY <2>1, <3>1
    <3>4. longest \in Slot /\ oldest \in Free(sl)
      BY <1>3, <1>4 DEF longest, oldest
    <3> QED BY <3>2, <3>3, <3>4, <1>2
  <2>2. CASE ~MultiUserCache
    <3> DEFINE longest == FirstLargest(Free(sl), common)
    <3>1. findLongestCacheSlot(sl, held, prompt) =
             [slot |-> longest, src |-> longest, numPast |-> common[longest]]
      BY DEF findLongestCacheSlot, common
    <3> HIDE DEF longest
    <3>2. found = [slot |-> longest, src |-> longest, numPast |-> common[longest]]
      BY <2>2, <3>1
    <3>3. longest \in Free(sl)
      BY <1>3 DEF longest
    <3> QED BY <3>2, <3>3, <1>1, <1>2
  <2> QED BY <2>1, <2>2
<1>6. load.slot = found.slot /\ load.numPast = IF canResume THEN past ELSE 0
  BY DEF LoadCacheSlot
<1> HIDE DEF found, load
<1>7. past \in 0 .. Len(prompt) - 1
  BY <1>5 DEF Lesser
<1> HIDE DEF past
<1> QED BY <1>5, <1>6, <1>7 DEF load

\* Whoever has a permit finds a free cache slot ...
LEMMA FreeSlot ==
    ASSUME Typed, SlotPerPermit, NEW r \in Req, handler[r] = "insert"
    PROVE  Free(slots) # {}
<1> DEFINE I == {q \in Req : handler[q] = "insert"}
<1>1. IsFiniteSet(Live) /\ IsFiniteSet(I) /\ Cardinality(Live) \in Nat /\ Cardinality(I) \in Nat
  <2>1. Live \in SUBSET Req /\ I \in SUBSET Req
    BY DEF Live
  <2>2. IsFiniteSet(Req)
    BY RunnerAssumption
  <2>3. IsFiniteSet(Live) /\ IsFiniteSet(I)
    BY <2>1, <2>2, FS_Subset
  <2> QED BY <2>3, FS_CardinalityType
<1>2. Cardinality(I) # 0
  BY <1>1, FS_EmptySet
<1>3. Cardinality(Live) < Parallel
  <2>1. permits + Cardinality(Live) + Cardinality(I) = Parallel /\ permits \in Nat
    BY DEF SlotPerPermit, Typed
  <2> HIDE DEF I
  <2> QED BY <2>1, <1>1, <1>2, CacheAssumption
<1>4. IsFiniteSet(Slot) /\ Cardinality(Slot) = Parallel
  BY CacheAssumption, FS_Interval DEF Slot
<1>5. ASSUME Free(slots) = {} PROVE FALSE
  <2>1. \A s \in Slot : \E q \in Live : seq[q].cache = s
    BY <1>5 DEF Free, SlotPerPermit
  <2> DEFINE f == [s \in Slot |-> CHOOSE q \in Live : seq[q].cache = s]
  <2>2. \A s \in Slot : f[s] \in Live /\ seq[f[s]].cache = s
    BY <2>1
  <2>3. f \in [Slot -> Live]
    BY <2>2
  <2> HIDE DEF f
  <2>4. \E x, y \in Slot : x # y /\ f[x] = f[y]
    BY <1>1, <1>3, <1>4, <2>3, FS_PigeonHole
  <2> QED BY <2>2, <2>4
<1> QED BY <1>5

-----------------------------------------------------------------------------
(* Steps that leave a part of the invariant alone.                         *)

\* Two states of a sequence that differ in its output only.
Alike(s, t) ==
    /\ IsSequence(s)
    /\ s.inputs = t.inputs /\ s.pendingInputs = t.pendingInputs
    /\ s.cache = t.cache /\ s.closed = t.closed /\ s.embedding = t.embedding
    /\ s.iBatch = t.iBatch

LEMMA PermitFrame ==
    ASSUME SlotPerPermit, permits' = permits, seqs' = seqs,
           \A r \in Req : handler'[r] = "insert" <=> handler[r] = "insert",
           \A r \in Live : seq'[r].cache = seq[r].cache,
           \A s \in Slot : slots'[s].InUse = slots[s].InUse
    PROVE  SlotPerPermit'
<1>1. Live' = Live
  BY DEF Live
<1>2. {r \in Req : handler'[r] = "insert"} = {r \in Req : handler[r] = "insert"}
  OBVIOUS
<1>3. permits' + Cardinality(Live') + Cardinality({r \in Req : handler'[r] = "insert"}) = Parallel
  BY <1>1, <1>2 DEF SlotPerPermit
<1>4. \A r, q \in Live' : seq'[r].cache = seq'[q].cache => r = q
  BY <1>1 DEF SlotPerPermit
<1>5. \A i, j \in Slot : seqs'[i] # None /\ seqs'[i] = seqs'[j] => i = j
  BY DEF SlotPerPermit
<1>6. \A s \in Slot : slots'[s].InUse <=> \E r \in Live' : seq'[r].cache = s
  BY <1>1 DEF SlotPerPermit
<1> QED BY <1>3, <1>4, <1>5, <1>6 DEF SlotPerPermit

LEMMA LivesFrame ==
    ASSUME Lives, seqs' = seqs, handler' = handler,
           \A r \in Req : /\ seq'[r].inputs = seq[r].inputs
                          /\ seq'[r].pendingInputs = seq[r].pendingInputs
                          /\ seq'[r].closed = seq[r].closed
                          /\ seq'[r].embedding = seq[r].embedding
                          /\ Len(text'[r]) = Len(text[r])
    PROVE  Lives'
<1>1. Live' = Live
  BY DEF Live
<1>2. ASSUME NEW r \in Req, Fresh(r) PROVE Fresh(r)'
  BY <1>1, <1>2 DEF Fresh
<1> QED BY <1>1, <1>2 DEF Lives

LEMMA PendingFrame ==
    ASSUME Typed, Pending, seqs' = seqs, fwd' = fwd, prev' = prev,
           \A i \in Slot : seqs[i] # None =>
              seq'[seqs[i]].pendingInputs = seq[seqs[i]].pendingInputs,
           prev \in DOMAIN work /\ work[prev].pc = "wait" =>
              /\ prev \in DOMAIN work' /\ work'[prev].pc = "wait"
              /\ work'[prev].batchInputs = work[prev].batchInputs
              /\ work'[prev].seqs = work[prev].seqs
    PROVE  Pending'
<1>1. ASSUME NEW i \in Slot, seqs'[i] # None, seq'[seqs'[i]].pendingInputs # <<>> PROVE InBatch(i)'
  BY <1>1 DEF Pending, InBatch
<1>2. ASSUME fwd' # None, NEW k \in 1 .. fwd'.left
      PROVE  /\ fwd'.seqs[Ahead(k)'] = seqs'[Ahead(k)']
             /\ seqs'[Ahead(k)'] # None => seq'[seqs'[Ahead(k)']].pendingInputs = <<>>
  <2>1. Ahead(k)' = Ahead(k)
    BY DEF Ahead
  <2>2. fwd.seqIdx \in Int /\ fwd.seqIdx >= -1 /\ k \in Nat /\ k >= 1 /\ fwd.left \in Nat
    BY <1>2 DEF Pending, Typed, ForwardType
  <2>3. Ahead(k) \in Slot
    <3>1. k - 1 \in Nat /\ fwd.seqIdx + (k - 1) + 1 = fwd.seqIdx + k
      BY <2>2
    <3> QED BY <2>2, <3>1, NextSlot DEF Ahead
  <2> QED BY <1>2, <2>1, <2>3 DEF Pending
<1> QED BY <1>1, <1>2 DEF Pending

\* Steps that change the output of sequences, or nothing of them.
LEMMA SeqTyped ==
    ASSUME Typed, NEW r \in Req, NEW s, IsSequence(s), seq' = [seq EXCEPT ![r] = s]
    PROVE  /\ seq' = [q \in Req |-> seq'[q]] /\ \A q \in Req : IsSequence(seq'[q])
           /\ seq'[r] = s /\ \A q \in Req \ {r} : seq'[q] = seq[q]
<1>1. DOMAIN seq = Req /\ seq = [q \in Req |-> seq[q]] /\ \A q \in Req : IsSequence(seq[q])
  BY DEF Typed
<1>2. seq' = [q \in Req |-> IF q = r THEN s ELSE seq[q]]
  BY <1>1
<1> QED BY <1>1, <1>2

\* A token is written.
LEMMA Written ==
    ASSUME text \in [Req -> Seq(Int)], NEW x, NEW k, NEW v \in Int,
           text' = [text EXCEPT ![x][k] = v]
    PROVE  text' \in [Req -> Seq(Int)] /\ \A r \in Req : Len(text'[r]) = Len(text[r])
<1>1. ASSUME NEW r \in Req PROVE text'[r] \in Seq(Int) /\ Len(text'[r]) = Len(text[r])
  <2>1. text[r] \in Seq(Int)
    OBVIOUS
  <2>2. CASE r # x
    <3>1. text'[r] = text[r]
      BY <2>2
    <3> QED BY <2>1, <3>1
  <2>3. CASE r = x
    <3>1. text'[r] = [text[r] EXCEPT ![k] = v]
      BY <2>3
    <3>2. CASE k \in 1 .. Len(text[r])
      BY <2>1, <3>1, <3>2, ExceptSeq
    <3>3. CASE k \notin 1 .. Len(text[r])
      <4>1. text'[r] = text[r]
        BY <2>1, <3>1, <3>3
      <4> QED BY <4>1, <2>1
    <3> QED BY <3>2, <3>3
  <2> QED BY <2>2, <2>3
<1>2. text' = [r \in Req |-> text'[r]]
  OBVIOUS
<1> QED BY <1>1, <1>2

-----------------------------------------------------------------------------
(* Removing a sequence.                                                    *)

\* Fields of no concern here, and the end of a sequence.
LEMMA OutputFields ==
    ASSUME NEW s, IsSequence(s), NEW x
    PROVE  /\ Alike([s EXCEPT !.pendingResponses = x], s)
           /\ Alike([s EXCEPT !.responses = x], s)
           /\ Alike([s EXCEPT !.doneReason = x], s)
<1>1. Alike([s EXCEPT !.pendingResponses = x], s)
  BY DEF Alike, IsSequence
<1>2. Alike([s EXCEPT !.responses = x], s)
  BY DEF Alike, IsSequence
<1>3. Alike([s EXCEPT !.doneReason = x], s)
  BY DEF Alike, IsSequence
<1> QED BY <1>1, <1>2, <1>3

LEMMA FlagFields ==
    ASSUME NEW s, IsSequence(s), NEW b, b \in BOOLEAN
    PROVE  /\ IsSequence([s EXCEPT !.closed = b]) /\ [s EXCEPT !.closed = b].closed = b
           /\ Alike([s EXCEPT !.quit = b], s)
           /\ IsSequence([s EXCEPT !.embedding = b]) /\ [s EXCEPT !.embedding = b].cache = s.cache
<1>1. IsSequence([s EXCEPT !.closed = b]) /\ [s EXCEPT !.closed = b].closed = b
  BY DEF IsSequence
<1>2. Alike([s EXCEPT !.quit = b], s)
  BY DEF IsSequence, Alike
<1>3. IsSequence([s EXCEPT !.embedding = b]) /\ [s EXCEPT !.embedding = b].cache = s.cache
  BY DEF IsSequence
<1> QED BY <1>1, <1>2, <1>3

LEMMA ClosedFields ==
    ASSUME NEW s, IsSequence(s), NEW x
    PROVE  LET t == [s EXCEPT !.doneReason = x, !.closed = TRUE]
           IN  IsSequence(t) /\ t.closed
<1> DEFINE u == [s EXCEPT !.doneReason = x]
<1>1. IsSequence(u)
  BY OutputFields DEF Alike
<1>2. [s EXCEPT !.doneReason = x, !.closed = TRUE] = [u EXCEPT !.closed = TRUE]
  OBVIOUS
<1> HIDE DEF u
<1>3. IsSequence([u EXCEPT !.closed = TRUE]) /\ [u EXCEPT !.closed = TRUE].closed
  BY <1>1, FlagFields
<1> QED BY <1>2, <1>3

\* Output is sent or dropped, nothing else changes.
LEMMA FlushFields ==
    ASSUME NEW s, IsSequence(s), NEW f \in flushPending(s)
    PROVE  Alike(f.seq, s)
<1>1. CASE s.pendingResponses = <<>>
  <2>1. f = [seq |-> s, ok |-> TRUE]
    BY <1>1 DEF flushPending
  <2> QED BY <2>1 DEF Alike
<1>2. CASE s.pendingResponses # <<>>
  <2> DEFINE cleared == [s EXCEPT !.pendingResponses = <<>>]
             sent == [cleared EXCEPT !.responses = Append(@, s.pendingResponses)]
  <2>1. f \in {[seq |-> sent, ok |-> TRUE], [seq |-> cleared, ok |-> FALSE]}
    BY <1>2 DEF flushPending
  <2>2. f.seq \in {sent, cleared}
    BY <2>1
  <2>3. Alike(cleared, s)
    BY OutputFields
  <2>4. Alike(sent, cleared)
    <3>1. sent = [cleared EXCEPT !.responses = Append(cleared.responses, s.pendingResponses)]
      OBVIOUS
    <3>2. IsSequence(cleared)
      BY <2>3 DEF Alike
    <3> HIDE DEF cleared, sent
    <3> QED BY <3>1, <3>2, OutputFields
  <2> HIDE DEF cleared, sent
  <2> QED BY <2>2, <2>3, <2>4 DEF Alike
<1> QED BY <1>1, <1>2

\* What the removal of the sequence in slot i does.
Removes(i) ==
    LET r == seqs[i] IN
    /\ seqs' = [seqs EXCEPT ![i] = None]
    /\ permits' = permits + 1
    /\ seq' = [q \in Req |-> seq'[q]]
    /\ \A q \in Req : IsSequence(seq'[q]) /\ (q # r => seq'[q] = seq[q])
    /\ seq'[r].closed
    /\ slots' \in [Slot -> [Inputs : Seq(Ptr), InUse : BOOLEAN, lastUsed : Nat]]
    /\ \A s \in Slot : IF s = seq[r].cache THEN ~slots'[s].InUse ELSE slots'[s] = slots[s]

LEMMA RemoveIs ==
    ASSUME Typed, NEW i \in Slot, seqs[i] # None, NEW s, IsSequence(s),
           s.cache = seq[seqs[i]].cache, NEW inputs \in Seq(Ptr), NEW reason,
           removeSequence(i, s, inputs, reason)
    PROVE  Removes(i)
<1> DEFINE r == seqs[i]
<1>1. r \in Req /\ s.cache \in Slot
  BY DEF Typed, IsSequence
<1>2. PICK f \in flushPending(s) :
         seq' = [seq EXCEPT ![r] = [f.seq EXCEPT !.doneReason = reason, !.closed = TRUE]]
  BY DEF removeSequence
<1>3. Alike(f.seq, s)
  BY FlushFields
<1> DEFINE t == [f.seq EXCEPT !.doneReason = reason, !.closed = TRUE]
<1>4. IsSequence(t) /\ t.closed
  BY <1>3, ClosedFields DEF Alike
<1> HIDE DEF t
<1>5. seq' = [seq EXCEPT ![r] = t]
  BY <1>2 DEF t
<1>6. /\ seq' = [q \in Req |-> seq'[q]] /\ \A q \in Req : IsSequence(seq'[q])
      /\ seq'[r] = t /\ \A q \in Req \ {r} : seq'[q] = seq[q]
  BY <1>1, <1>4, <1>5, SeqTyped
<1>7. /\ slots' = [slots EXCEPT ![s.cache].InUse = FALSE, ![s.cache].Inputs = inputs]
      /\ slots \in [Slot -> [Inputs : Seq(Ptr), InUse : BOOLEAN, lastUsed : Nat]]
  BY DEF removeSequence, Typed
<1>8. \A x \in Slot : slots'[x] = IF x = s.cache
                                    THEN [slots[x] EXCEPT !.InUse = FALSE, !.Inputs = inputs]
                                    ELSE slots[x]
  BY <1>1, <1>7
<1>9. /\ slots' \in [Slot -> [Inputs : Seq(Ptr), InUse : BOOLEAN, lastUsed : Nat]]
      /\ \A x \in Slot : IF x = s.cache THEN ~slots'[x].InUse ELSE slots'[x] = slots[x]
  <2>1. ASSUME NEW x \in Slot
        PROVE  /\ slots'[x] \in [Inputs : Seq(Ptr), InUse : BOOLEAN, lastUsed : Nat]
               /\ x = s.cache => slots'[x].InUse = FALSE
    <3>1. slots[x] \in [Inputs : Seq(Ptr), InUse : BOOLEAN, lastUsed : Nat]
      BY <1>7
    <3>2. CASE x = s.cache
      <4>1. slots'[x] = [slots[x] EXCEPT !.InUse = FALSE, !.Inputs = inputs]
        BY <1>8, <3>2
      <4>2. slots'[x] = [Inputs |-> inputs, InUse |-> FALSE, lastUsed |-> slots[x].lastUsed]
        BY <3>1, <4>1
      <4> QED BY <3>1, <4>2
    <3> QED BY <1>8, <3>1, <3>2
  <2>2. slots' = [x \in Slot |-> slots'[x]]
    BY <1>7
  <2> QED BY <1>8, <2>1, <2>2
<1> QED
  BY <1>4, <1>6, <1>9 DEF Removes, removeSequence

\* The place and the cache slot come back with the permit.
LEMMA RemovesPermit ==
    ASSUME Typed, SlotPerPermit, NEW i \in Slot, seqs[i] # None, Removes(i), handler' = handler
    PROVE  SlotPerPermit'
<1> DEFINE r == seqs[i]
           I == {q \in Req : handler[q] = "insert"}
<1>1. /\ seqs \in [Slot -> Req \cup {None}] /\ r \in Req /\ None \notin Req
      /\ seqs' = [seqs EXCEPT ![i] = None] /\ permits' = permits + 1 /\ permits \in Nat
      /\ \A j \in Slot \ {i} : seqs[j] # r
  BY RunnerAssumption DEF Typed, Removes, SlotPerPermit
<1>2. Live' = Live \ {r} /\ r \in Live
  BY <1>1 DEF Live
<1>3. permits' + Cardinality(Live') + Cardinality({q \in Req : handler'[q] = "insert"}) = Parallel
  <2>1. IsFiniteSet(Live) /\ IsFiniteSet(I)
    <3>1. Live \in SUBSET Req /\ I \in SUBSET Req
      BY DEF Live
    <3> QED BY <3>1, RunnerAssumption, FS_Subset
  <2>2. Cardinality(Live) \in Nat /\ Cardinality(I) \in Nat
    BY <2>1, FS_CardinalityType
  <2>3. Cardinality(Live \ {r}) = Cardinality(Live) - 1
    BY <1>2, <2>1, FS_RemoveElement
  <2>4. permits + Cardinality(Live) + Cardinality(I) = Parallel
    BY DEF SlotPerPermit
  <2> QED BY <1>1, <1>2, <2>2, <2>3, <2>4
<1>4. \A q \in Live' : q \in Live /\ q # r /\ q \in Req /\ seq'[q].cache = seq[q].cache
  BY <1>2 DEF Removes, Live
<1>5. \A p, q \in Live' : seq'[p].cache = seq'[q].cache => p = q
  BY <1>4 DEF SlotPerPermit
<1>6. \A j, k \in Slot : seqs'[j] # None /\ seqs'[j] = seqs'[k] => j = k
  BY <1>1 DEF SlotPerPermit
<1>7. ASSUME NEW s \in Slot PROVE slots'[s].InUse <=> \E q \in Live' : seq'[q].cache = s
  <2>1. CASE s = seq[r].cache
    <3>1. ~slots'[s].InUse
      BY <2>1 DEF Removes
    <3>2. \A q \in Live' : seq'[q].cache # s
      BY <2>1, <1>2, <1>4 DEF SlotPerPermit
    <3> QED BY <3>1, <3>2
  <2>2. CASE s # seq[r].cache
    <3>1. slots'[s].InUse = slots[s].InUse
      BY <2>2 DEF Removes
    <3>2. slots[s].InUse <=> \E q \in Live : seq[q].cache = s
      BY DEF SlotPerPermit
    <3>3. (\E q \in Live : seq[q].cache = s) <=> \E q \in Live' : seq'[q].cache = s
      BY <2>2, <1>2, <1>4
    <3> QED BY <3>1, <3>2, <3>3
  <2> QED BY <2>1, <2>2
<1> QED BY <1>3, <1>5, <1>6, <1>7 DEF SlotPerPermit

LEMMA RemovesLives ==
    ASSUME Typed, SlotPerPermit, Lives, NEW i \in Slot, seqs[i] # None, Removes(i),
           handler' = handler, \A r \in Req : Len(text'[r]) = Len(text[r])
    PROVE  Lives'
<1> DEFINE r == seqs[i]
<1>1. /\ seqs \in [Slot -> Req \cup {None}] /\ r \in Req /\ None \notin Req
      /\ seqs' = [seqs EXCEPT ![i] = None]
      /\ \A j \in Slot \ {i} : seqs[j] # r
  BY RunnerAssumption DEF Typed, Removes, SlotPerPermit
<1>2. Live' = Live \ {r} /\ r \in Live
  BY <1>1 DEF Live
<1>3. seq'[r].closed /\ \A q \in Req \ {r} : seq'[q] = seq[q]
  BY DEF Removes
<1>4. handler[r] \in {"stream", "gone"}
  BY <1>1, <1>2 DEF Lives
<1>5. ASSUME NEW q \in Req \ {r}, Fresh(q) PROVE Fresh(q)'
  BY <1>2, <1>3, <1>5 DEF Fresh
<1> QED BY <1>2, <1>3, <1>4, <1>5 DEF Lives

-----------------------------------------------------------------------------
(* The handlers.                                                           *)

\* How many inputs are kept, and what is left of a prompt.
LEMMA KeepBounds ==
    ASSUME NEW r \in Req
    PROVE  numKeep(r) \in 0 .. NumCtx - 1
<1>1. NumKeep[r] \in Int /\ Len(Prompt[r]) \in Nat /\ NumCtx \in Nat /\ NumCtx >= 1
  BY RunnerAssumption, CacheAssumption
<1> QED BY <1>1 DEF numKeep, Lesser

LEMMA PromptTyped ==
    ASSUME NEW r \in Req, Len(Prompt[r]) > NumCtx => r \in Truncate
    PROVE  LET prompt == IF Len(Prompt[r]) > NumCtx THEN Truncated(r) ELSE Prompt[r]
           IN  prompt \in Seq(Int) /\ Len(prompt) \in 1 .. NumCtx
<1> DEFINE all == Prompt[r]
           keep == numKeep(r)
<1>1. /\ all \in Seq(Int) /\ Len(all) \in Nat /\ Len(all) >= 1
      /\ NumCtx \in Nat /\ NumCtx >= 1
  <2>1. all \in Seq(Nat \ {Placeholder}) /\ all # <<>>
    BY RunnerAssumption
  <2>2. Nat \ {Placeholder} \subseteq Int
    OBVIOUS
  <2> QED BY <2>1, <2>2, SeqMonotonic, CacheAssumption
<1>2. keep \in 0 .. NumCtx - 1
  BY KeepBounds
<1> HIDE DEF all, keep
<1>3. CASE Len(all) > NumCtx
  <2> DEFINE d == Len(all) - NumCtx
             x == SubSeq(all, 1, keep)
             y == SubSeq(all, keep + d + 1, Len(all))
  <2>1. d \in Nat /\ d > 0 /\ Greater(Len(all) - NumCtx, 0) = d
    BY <1>1, <1>3 DEF Greater
  <2>2. Truncated(r) = x \o y
    BY <2>1 DEF Truncated, all, keep
  <2>3. x \in Seq(Int) /\ Len(x) = keep
    <3>1. \A i \in 1 .. keep : all[i] \in Int
      BY <1>1, <1>2, <1>3
    <3> QED BY <3>1, <1>2, SubSeqProperties
  <2>4. y \in Seq(Int) /\ Len(y) = NumCtx - keep
    <3>1. \A i \in keep + d + 1 .. Len(all) : all[i] \in Int
      BY <1>1, <1>2, <1>3, <2>1
    <3> HIDE DEF d
    <3>2. y \in Seq(Int) /\ Len(y) = IF keep + d + 1 <= Len(all) THEN Len(all) - (keep + d + 1) + 1 ELSE 0
      BY <3>1, <1>1, <1>2, <2>1, SubSeqProperties
    <3> QED BY <3>2, <1>1, <1>2, <2>1 DEF d
  <2> HIDE DEF x, y
  <2>5. Truncated(r) \in Seq(Int) /\ Len(Truncated(r)) = NumCtx
    <3>1. x \o y \in Seq(Int) /\ Len(x \o y) = Len(x) + Len(y)
      BY <2>3, <2>4, ConcatProperties
    <3> QED BY <2>2, <2>3, <2>4, <3>1, <1>1, <1>2
  <2> QED BY <1>1, <1>3, <2>5 DEF all
<1>4. CASE ~(Len(all) > NumCtx)
  BY <1>1, <1>4 DEF all
<1> QED BY <1>3, <1>4

LEMMA NewSequenceInv ==
    ASSUME Inv, NEW r \in Req, NewSequence(r), model' = model
    PROVE  Inv'
<1>0. Typed /\ Locks /\ Lives /\ SlotPerPermit /\ Pending
  BY DEF Inv
<1> USE DEF NewSequence, cacheVars, runVars
<1>1. Fresh(r)
  BY <1>0 DEF Lives
<1>2. /\ permits' = permits /\ seqs' = seqs /\ slots' = slots /\ fwd' = fwd /\ prev' = prev
      /\ work' = work /\ mu' = mu /\ started' = started /\ clock' = clock /\ nextSeq' = nextSeq
      /\ Live' = Live
  BY DEF Live
<1>3. handler' \in [Req -> {"new", "acquire", "insert", "stream", "done", "gone", "failed"}]
  BY <1>0 DEF Typed
<1>4. Locks'
  BY <1>0, <1>2 DEF Locks, ComputeStarted
<1>5. CASE UNCHANGED <<waiters, seq, text>> /\ handler' = [handler EXCEPT ![r] = "failed"]
  <2>1. Typed'
    BY <1>0, <1>2, <1>3, <1>5 DEF Typed
  <2>2. handler'[r] = "failed" /\ \A q \in Req \ {r} : handler'[q] = handler[q]
    BY <1>0, <1>5 DEF Typed
  <2>3. SlotPerPermit'
    <3>1. \A q \in Req : handler'[q] = "insert" <=> handler[q] = "insert"
      BY <2>2
    <3> QED BY <1>0, <1>2, <1>5, <3>1, PermitFrame
  <2>4. Lives'
    <3>1. ASSUME NEW q \in Req, Fresh(q), q # r PROVE Fresh(q)'
      BY <1>2, <1>5, <2>2, <3>1 DEF Fresh
    <3> QED BY <1>0, <1>1, <1>2, <1>5, <2>2, <3>1 DEF Lives, Fresh
  <2>5. Pending'
    BY <1>0, <1>2, <1>5, PendingFrame
  <2> QED BY <1>4, <2>1, <2>3, <2>4, <2>5 DEF Inv
<1>6. CASE ~(Len(Prompt[r]) > NumCtx /\ r \notin Truncate)
  <2> DEFINE prompt == IF Len(Prompt[r]) > NumCtx THEN Truncated(r) ELSE Prompt[r]
             inputs == [k \in 1 .. Len(prompt) |-> <<r, k>>]
             s == [seq[r] EXCEPT !.inputs = inputs, !.numPromptInputs = Len(prompt)]
  <2>1. prompt \in Seq(Int) /\ Len(prompt) \in 1 .. NumCtx
    BY <1>6, PromptTyped
  <2>2. /\ handler' = [handler EXCEPT ![r] = "acquire"]
        /\ text' = [text EXCEPT ![r] = prompt]
        /\ seq' = [seq EXCEPT ![r].inputs = inputs, ![r].numPromptInputs = Len(prompt)]
    BY <1>6
  <2> HIDE DEF prompt
  <2>3. inputs \in Seq(Ptr)
    <3>1. \A k \in 1 .. Len(prompt) : <<r, k>> \in Ptr
      BY <2>1 DEF Ptr
    <3> QED BY <2>1, <3>1
  <2> HIDE DEF inputs
  <2>4. /\ IsSequence(s) /\ s.inputs = inputs /\ s.pendingInputs = seq[r].pendingInputs
        /\ s.closed = seq[r].closed /\ s.embedding = seq[r].embedding
    <3> DEFINE u == [seq[r] EXCEPT !.inputs = inputs]
    <3>1. IsSequence(seq[r])
      BY <1>0 DEF Typed
    <3>2. /\ IsSequence(u) /\ u.inputs = inputs /\ u.pendingInputs = seq[r].pendingInputs
          /\ u.closed = seq[r].closed /\ u.embedding = seq[r].embedding
      BY <3>1, <2>3 DEF IsSequence
    <3>3. s = [u EXCEPT !.numPromptInputs = Len(prompt)]
      OBVIOUS
    <3> HIDE DEF u, s
    <3> QED BY <3>2, <3>3 DEF IsSequence
  <2>5. seq' = [seq EXCEPT ![r] = s]
    BY <1>0, <2>2 DEF Typed
  <2> HIDE DEF s
  <2>6. /\ seq' = [q \in Req |-> seq'[q]] /\ \A q \in Req : IsSequence(seq'[q])
        /\ seq'[r] = s /\ \A q \in Req \ {r} : seq'[q] = seq[q]
    BY <1>0, <2>4, <2>5, SeqTyped
  <2>7. /\ text' \in [Req -> Seq(Int)] /\ text'[r] = prompt
        /\ \A q \in Req \ {r} : text'[q] = text[q]
    BY <1>0, <2>1, <2>2 DEF Typed
  <2>8. handler'[r] = "acquire" /\ \A q \in Req \ {r} : handler'[q] = handler[q]
    BY <1>0, <2>2 DEF Typed
  <2>9. Typed'
    BY <1>0, <1>2, <1>3, <2>6, <2>7 DEF Typed
  <2>10. SlotPerPermit'
    <3>1. \A q \in Req : handler'[q] = "insert" <=> handler[q] = "insert"
      BY <2>8
    <3>2. \A q \in Live : seq'[q].cache = seq[q].cache
      BY <1>1, <2>6 DEF Fresh, Live
    <3> QED BY <1>0, <1>2, <3>1, <3>2, PermitFrame
  <2>11. Fresh(r)'
    <3>1. inputs = [k \in 1 .. Len(text'[r]) |-> <<r, k>>] /\ Len(text'[r]) \in 1 .. NumCtx
      BY <2>1, <2>7 DEF inputs
    <3> QED BY <1>1, <1>2, <2>4, <2>6, <3>1 DEF Fresh
  <2>12. Lives'
    <3>1. ASSUME NEW q \in Req, Fresh(q), q # r PROVE Fresh(q)'
      BY <1>2, <2>6, <2>7, <2>8, <3>1 DEF Fresh
    <3> QED BY <1>0, <1>1, <1>2, <2>4, <2>6, <2>8, <2>11, <3>1 DEF Lives, Fresh
  <2>13. Pending'
    <3>1. \A i \in Slot : seqs[i] # None => seq'[seqs[i]].pendingInputs = seq[seqs[i]].pendingInputs
      BY <1>0, <2>4, <2>6 DEF Typed
    <3> QED BY <1>0, <1>2, <3>1, PendingFrame
  <2> QED BY <1>4, <2>9, <2>10, <2>12, <2>13 DEF Inv
<1> QED BY <1>5, <1>6

LEMMA AcquireInv ==
    ASSUME Inv, NEW r \in Req, Acquire(r), model' = model
    PROVE  Inv'
<1>0. Typed /\ Locks /\ Lives /\ SlotPerPermit /\ Pending
  BY DEF Inv
<1> USE DEF Acquire, cacheVars, runVars
<1>1. Fresh(r)
  BY <1>0 DEF Lives
<1>2. /\ handler'[r] = "insert" /\ \A q \in Req \ {r} : handler'[q] = handler[q]
      /\ handler' \in [Req -> {"new", "acquire", "insert", "stream", "done", "gone", "failed"}]
  BY <1>0 DEF Typed
<1>3. Live' = Live
  BY DEF Live
<1>4. Typed'
  BY <1>0, <1>2 DEF Typed
<1>5. Locks'
  BY <1>0 DEF Locks, ComputeStarted
<1>6. Lives'
  <2>1. ASSUME NEW q \in Req, Fresh(q), handler[q] # "new" PROVE Fresh(q)'
    BY <1>3, <2>1 DEF Fresh
  <2>2. ASSUME NEW q \in Req, Fresh(q), q # r PROVE Fresh(q)'
    BY <1>2, <1>3, <2>2 DEF Fresh
  <2> QED BY <1>0, <1>1, <1>2, <1>3, <2>1, <2>2 DEF Lives, Fresh
<1>7. SlotPerPermit'
  <2> DEFINE I == {q \in Req : handler[q] = "insert"}
             J == {q \in Req : handler'[q] = "insert"}
  <2>1. J = I \cup {r} /\ r \notin I
    BY <1>2
  <2>2. IsFiniteSet(I) /\ IsFiniteSet(Live)
    <3>1. Live \in SUBSET Req /\ I \in SUBSET Req
      BY DEF Live
    <3> QED BY <3>1, RunnerAssumption, FS_Subset
  <2>3. Cardinality(J) = Cardinality(I) + 1 /\ Cardinality(I) \in Nat /\ Cardinality(Live) \in Nat
    BY <2>1, <2>2, FS_AddElement, FS_CardinalityType
  <2>4. permits + Cardinality(Live) + Cardinality(I) = Parallel /\ permits \in Nat
    BY <1>0 DEF SlotPerPermit, Typed
  <2>5. permits' + Cardinality(Live') + Cardinality(J) = Parallel
    <3> HIDE DEF I, J
    <3> QED BY <2>3, <2>4, <1>3
  <2> QED BY <1>0, <1>3, <2>5 DEF SlotPerPermit
<1>8. Pending'
  BY <1>0, PendingFrame
<1> QED BY <1>4, <1>5, <1>6, <1>7, <1>8 DEF Inv

\* The tokens of a list of inputs are as many.
LEMMA TokensLen ==
    ASSUME NEW inputs \in Seq(Ptr)
    PROVE  Len(Tokens(inputs)) = Len(inputs)
<1> DEFINE t == Tokens(inputs)
           T == {text[inputs[k][1]][inputs[k][2]] : k \in 1 .. Len(inputs)}
<1>1. Len(inputs) \in Nat /\ DOMAIN inputs = 1 .. Len(inputs)
  OBVIOUS
<1>2. t \in [1 .. Len(inputs) -> T]
  BY <1>1 DEF Tokens
<1> HIDE DEF t, T
<1>3. t \in Seq(T) /\ Len(t) = Len(inputs)
  BY <1>1, <1>2
<1> QED BY <1>3 DEF t

\* A sequence is put into slot i with cache slot c.
LEMMA InsertedPermit ==
    ASSUME Typed, Lives, SlotPerPermit, NEW r \in Req, handler[r] = "insert",
           NEW i \in Slot, seqs[i] = None, NEW c \in Free(slots),
           handler' = [handler EXCEPT ![r] = "stream"], permits' = permits,
           seqs' = [seqs EXCEPT ![i] = r],
           seq'[r].cache = c, \A q \in Req \ {r} : seq'[q] = seq[q],
           slots'[c].InUse, \A s \in Slot \ {c} : slots'[s] = slots[s]
    PROVE  SlotPerPermit' /\ Live' = Live \cup {r}
<1> DEFINE I == {q \in Req : handler[q] = "insert"}
           J == {q \in Req : handler'[q] = "insert"}
<1>1. /\ r \notin Live /\ c \in Slot /\ ~slots[c].InUse /\ Live \subseteq Req
      /\ seqs \in [Slot -> Req \cup {None}] /\ None \notin Req
  BY RunnerAssumption DEF Typed, Lives, Fresh, Free, Live
<1>2. Live' = Live \cup {r}
  BY <1>1 DEF Live
<1>3. J = I \ {r} /\ r \in I
  BY DEF Typed
<1>4. permits' + Cardinality(Live') + Cardinality(J) = Parallel
  <2>1. IsFiniteSet(I) /\ IsFiniteSet(Live)
    <3>1. Live \in SUBSET Req /\ I \in SUBSET Req
      BY DEF Live
    <3> QED BY <3>1, RunnerAssumption, FS_Subset
  <2>2. Cardinality(I) \in Nat /\ Cardinality(Live) \in Nat
    BY <2>1, FS_CardinalityType
  <2>3. Cardinality(J) = Cardinality(I) - 1
    BY <1>3, <2>1, FS_RemoveElement
  <2>4. Cardinality(Live') = Cardinality(Live) + 1
    BY <1>1, <1>2, <2>1, FS_AddElement
  <2>5. permits + Cardinality(Live) + Cardinality(I) = Parallel /\ permits \in Nat
    BY DEF SlotPerPermit, Typed
  <2> HIDE DEF I, J
  <2> QED BY <2>2, <2>3, <2>4, <2>5
<1>5. \A q \in Live : seq'[q].cache = seq[q].cache /\ seq[q].cache # c /\ seq[q].cache \in Slot
  BY <1>1 DEF SlotPerPermit, Typed, IsSequence
<1>6. \A p, q \in Live' : seq'[p].cache = seq'[q].cache => p = q
  BY <1>2, <1>5 DEF SlotPerPermit
<1>7. \A j, k \in Slot : seqs'[j] # None /\ seqs'[j] = seqs'[k] => j = k
  <2>1. \A j \in Slot : seqs[j] # r
    BY <1>1 DEF Live
  <2> QED BY <1>1, <2>1 DEF SlotPerPermit
<1>8. ASSUME NEW s \in Slot PROVE slots'[s].InUse <=> \E q \in Live' : seq'[q].cache = s
  <2>1. CASE s = c
    BY <2>1, <1>2
  <2>2. CASE s # c
    BY <2>2, <1>2, <1>5 DEF SlotPerPermit
  <2> QED BY <2>1, <2>2
<1> QED BY <1>2, <1>4, <1>6, <1>7, <1>8 DEF SlotPerPermit

\* A prompt of which the first n inputs need no evaluation gets place i and cache slot c.
Inserts(r, i, c, n) ==
    LET inputs == seq[r].inputs IN
    /\ seqs[i] = None
    /\ slots' = [slots EXCEPT ![c] = [Inputs |-> SubSeq(inputs, 1, n), InUse |-> TRUE,
                                      lastUsed |-> clock]]
    /\ seq' = [seq EXCEPT ![r].cache = c, ![r].inputs = SubSeq(inputs, n + 1, Len(inputs))]
    /\ seqs' = [seqs EXCEPT ![i] = r]

LEMMA InsertDoes ==
    ASSUME Typed, Lives, SlotPerPermit, NEW r \in Req, Insert(r)
    PROVE  /\ Fresh(r) /\ seq[r].inputs \in Seq(Ptr) /\ Len(seq[r].inputs) = Len(text[r])
           /\ Len(seq[r].inputs) \in Nat \ {0}
           /\ \E i \in Slot, c \in Free(slots), n \in 0 .. Len(seq[r].inputs) - 1 :
                 Inserts(r, i, c, n)
<1> DEFINE held == [s \in Slot |-> Tokens(slots[s].Inputs)]
           inputs == seq[r].inputs
           L(canResume) == LoadCacheSlot(slots, shared, held, Tokens(inputs), r \notin Embedding, canResume)
<1>1. PICK i \in Slot, canResume \in CanResume :
         /\ seqs[i] = None
         /\ slots' = [slots EXCEPT ![L(canResume).slot] =
                         [Inputs |-> SubSeq(inputs, 1, L(canResume).numPast),
                          InUse |-> TRUE, lastUsed |-> clock]]
         /\ seq' = [seq EXCEPT ![r].cache = L(canResume).slot,
                               ![r].inputs = SubSeq(inputs, L(canResume).numPast + 1, Len(inputs))]
         /\ seqs' = [seqs EXCEPT ![i] = r]
  BY DEF Insert
<1> DEFINE c == L(canResume).slot
           n == L(canResume).numPast
<1>2. Fresh(r) /\ handler[r] = "insert"
  BY DEF Lives, Insert
<1>3. inputs \in Seq(Ptr) /\ Len(inputs) = Len(text[r]) /\ Len(inputs) \in Nat \ {0}
  <2>1. inputs \in Seq(Ptr)
    BY DEF Typed, IsSequence
  <2>2. inputs = [k \in 1 .. Len(text[r]) |-> <<r, k>>] /\ Len(text[r]) \in Nat \ {0}
    BY <1>2, CacheAssumption DEF Fresh
  <2>3. DOMAIN inputs = 1 .. Len(text[r]) /\ DOMAIN inputs = 1 .. Len(inputs) /\ Len(inputs) \in Nat
    BY <2>1, <2>2
  <2> QED BY <2>1, <2>2, <2>3
<1>4. c \in Free(slots) /\ n \in 0 .. Len(inputs) - 1
  <2>1. Free(slots) # {}
    BY <1>2, FreeSlot
  <2>2. \A s \in Slot : Len(held[s]) \in Nat /\ slots[s].lastUsed \in Nat
    <3>1. \A s \in Slot : slots[s].Inputs \in Seq(Ptr) /\ slots[s].lastUsed \in Nat
      BY DEF Typed
    <3> QED BY <3>1, TokensLen
  <2>3. Len(Tokens(inputs)) = Len(inputs)
    BY <1>3, TokensLen
  <2>4. canResume \in BOOLEAN /\ (r \notin Embedding) \in BOOLEAN
    BY RunnerAssumption
  <2> HIDE DEF held, inputs
  <2> QED BY <1>3, <2>1, <2>2, <2>3, <2>4, LoadedSlot
<1>5. Inserts(r, i, c, n)
  <2> HIDE DEF L
  <2> QED BY <1>1 DEF Inserts
<1> HIDE DEF c, n
<1>6. \E a \in Slot, b \in Free(slots), m \in 0 .. Len(inputs) - 1 : Inserts(r, a, b, m)
  <2> HIDE DEF inputs
  <2> QED BY <1>4, <1>5
<1> QED BY <1>2, <1>3, <1>6

LEMMA InsertInv ==
    ASSUME Inv, NEW r \in Req, Insert(r), model' = model
    PROVE  Inv'
<1>0. Typed /\ Locks /\ Lives /\ SlotPerPermit /\ Pending
  BY DEF Inv
<1> DEFINE inputs == seq[r].inputs
<1>1. PICK i \in Slot, c \in Free(slots), n \in 0 .. Len(inputs) - 1 : Inserts(r, i, c, n)
  BY <1>0, InsertDoes
<1>2. Fresh(r) /\ handler[r] = "insert" /\ mu = None
  BY <1>0 DEF Lives, Insert
<1>3. inputs \in Seq(Ptr) /\ Len(inputs) \in Nat \ {0}
  BY <1>0, InsertDoes
<1>4. c \in Free(slots) /\ n \in 0 .. Len(inputs) - 1 /\ seqs[i] = None
  BY <1>1 DEF Inserts
<1> DEFINE x == SubSeq(inputs, 1, n)
           y == SubSeq(inputs, n + 1, Len(inputs))
<1>5. x \in Seq(Ptr) /\ y \in Seq(Ptr) /\ Len(y) = Len(inputs) - n
  <2>1. \A k \in 1 .. Len(inputs) : inputs[k] \in Ptr
    BY <1>3
  <2>2. 1 .. n \subseteq 1 .. Len(inputs) /\ n + 1 .. Len(inputs) \subseteq 1 .. Len(inputs)
    BY <1>3, <1>4
  <2> HIDE DEF inputs
  <2>3. x \in Seq(Ptr)
    BY <1>3, <1>4, <2>1, <2>2, SubSeqProperties
  <2>4. y \in Seq(Ptr) /\ Len(y) = IF n + 1 <= Len(inputs) THEN Len(inputs) - (n + 1) + 1 ELSE 0
    BY <1>3, <1>4, <2>1, <2>2, SubSeqProperties
  <2> QED BY <2>3, <2>4, <1>3, <1>4
<1> HIDE DEF x, y
<1>6. y # <<>>
  BY <1>3, <1>4, <1>5
<1> DEFINE s == [seq[r] EXCEPT !.cache = c, !.inputs = y]
<1>7. /\ slots' = [slots EXCEPT ![c] = [Inputs |-> x, InUse |-> TRUE, lastUsed |-> clock]]
      /\ seq' = [seq EXCEPT ![r] = s] /\ seqs' = [seqs EXCEPT ![i] = r]
  BY <1>0, <1>1 DEF Typed, Inserts, x, y
<1>8. c \in Slot
  BY <1>4 DEF Free
<1>9. /\ IsSequence(s) /\ s.cache = c /\ s.inputs = y /\ s.pendingInputs = seq[r].pendingInputs
      /\ s.closed = seq[r].closed /\ s.embedding = seq[r].embedding
  <2> DEFINE u == [seq[r] EXCEPT !.cache = c]
  <2>1. IsSequence(seq[r])
    BY <1>0 DEF Typed
  <2>2. /\ IsSequence(u) /\ u.cache = c /\ u.pendingInputs = seq[r].pendingInputs
        /\ u.closed = seq[r].closed /\ u.embedding = seq[r].embedding
    BY <2>1, <1>8 DEF IsSequence
  <2>3. s = [u EXCEPT !.inputs = y]
    OBVIOUS
  <2> HIDE DEF u, s
  <2> QED BY <2>2, <2>3, <1>5 DEF IsSequence
<1> HIDE DEF s
<1>10. /\ seq' = [q \in Req |-> seq'[q]] /\ \A q \in Req : IsSequence(seq'[q])
       /\ seq'[r] = s /\ \A q \in Req \ {r} : seq'[q] = seq[q]
  BY <1>0, <1>7, <1>9, SeqTyped
<1>11. /\ slots' \in [Slot -> [Inputs : Seq(Ptr), InUse : BOOLEAN, lastUsed : Nat]]
       /\ slots'[c].InUse /\ \A t \in Slot \ {c} : slots'[t] = slots[t]
  BY <1>0, <1>5, <1>7, <1>8 DEF Typed
<1>12. /\ handler' = [handler EXCEPT ![r] = "stream"] /\ permits' = permits /\ fwd' = fwd
       /\ prev' = prev /\ work' = work /\ mu' = mu /\ started' = started /\ text' = text
       /\ nextSeq' = nextSeq /\ clock' = clock + 1
  BY DEF Insert, runVars
<1>13. SlotPerPermit' /\ Live' = Live \cup {r}
  BY <1>0, <1>2, <1>4, <1>7, <1>9, <1>10, <1>11, <1>12, InsertedPermit
<1>14. Typed'
  <2>1. seqs' \in [Slot -> Req \cup {None}]
    BY <1>0, <1>7 DEF Typed
  <2>2. handler' \in [Req -> {"new", "acquire", "insert", "stream", "done", "gone", "failed"}]
    BY <1>0, <1>12 DEF Typed
  <2>3. clock' \in Nat
    BY <1>0, <1>12 DEF Typed
  <2>4. /\ text' = text /\ permits' = permits /\ nextSeq' = nextSeq /\ model' = model
        /\ fwd' = fwd /\ prev' = prev /\ work' = work /\ started' = started
    BY <1>12
  <2>5. /\ seq' = [q \in Req |-> seq'[q]] /\ \A q \in Req : IsSequence(seq'[q])
        /\ slots' \in [Slot -> [Inputs : Seq(Ptr), InUse : BOOLEAN, lastUsed : Nat]]
    BY <1>10, <1>11
  <2> QED BY <1>0, <2>1, <2>2, <2>3, <2>4, <2>5 DEF Typed
<1>15. Locks'
  BY <1>0, <1>12 DEF Locks, ComputeStarted
<1>16. Lives'
  <2>1. handler'[r] = "stream" /\ \A q \in Req \ {r} : handler'[q] = handler[q]
    BY <1>0, <1>12 DEF Typed
  <2>2. ASSUME NEW q \in Req, Fresh(q), q # r PROVE Fresh(q)'
    BY <1>10, <1>12, <1>13, <2>1, <2>2 DEF Fresh
  <2>3. ~seq'[r].closed /\ seq'[r].inputs # <<>> /\ seq'[r].embedding = seq[r].embedding
    BY <1>2, <1>6, <1>9, <1>10 DEF Fresh
  <2> QED BY <1>0, <1>2, <1>10, <1>13, <2>1, <2>2, <2>3 DEF Lives, Fresh
<1>17. Pending'
  <2>1. fwd = None
    BY <1>0, <1>2, NoneAssumption DEF Locks, Forward
  <2>2. ASSUME NEW j \in Slot, seqs'[j] # None, seq'[seqs'[j]].pendingInputs # <<>> PROVE InBatch(j)'
    <3>1. j # i
      BY <1>0, <1>2, <1>4, <1>7, <1>9, <1>10, <2>2 DEF Typed, Fresh
    <3>2. seqs'[j] = seqs[j] /\ seqs[j] \in Req /\ seqs[j] # r
      BY <1>0, <1>2, <1>7, <2>2, <3>1 DEF Typed, Fresh, Live
    <3>3. InBatch(j)
      BY <1>0, <1>10, <2>2, <3>2 DEF Pending
    <3> QED BY <1>10, <1>12, <2>1, <3>2, <3>3 DEF InBatch
  <2> QED BY <1>12, <2>1, <2>2 DEF Pending
<1> QED BY <1>13, <1>14, <1>15, <1>16, <1>17 DEF Inv

\* The sequence of r changes in its output only.
LEMMA AlikeInv ==
    ASSUME Inv, NEW r \in Req, NEW s, Alike(s, seq[r]), seq' = [seq EXCEPT ![r] = s],
           handler' = handler, permits' = permits, seqs' = seqs, slots' = slots,
           fwd' = fwd, prev' = prev, \A q \in Req : Len(text'[q]) = Len(text[q]),
           prev \in DOMAIN work /\ work[prev].pc = "wait" =>
              /\ prev \in DOMAIN work' /\ work'[prev].pc = "wait"
              /\ work'[prev].batchInputs = work[prev].batchInputs
              /\ work'[prev].seqs = work[prev].seqs
    PROVE  /\ seq' = [q \in Req |-> seq'[q]] /\ \A q \in Req : IsSequence(seq'[q])
           /\ Lives' /\ SlotPerPermit' /\ Pending'
<1>0. Typed /\ Lives /\ SlotPerPermit /\ Pending
  BY DEF Inv
<1>1. /\ seq' = [q \in Req |-> seq'[q]] /\ \A q \in Req : IsSequence(seq'[q])
      /\ seq'[r] = s /\ \A q \in Req \ {r} : seq'[q] = seq[q]
  BY <1>0, SeqTyped DEF Alike
<1>2. \A q \in Req : /\ seq'[q].inputs = seq[q].inputs
                     /\ seq'[q].pendingInputs = seq[q].pendingInputs
                     /\ seq'[q].closed = seq[q].closed
                     /\ seq'[q].embedding = seq[q].embedding
                     /\ seq'[q].cache = seq[q].cache
  BY <1>1 DEF Alike
<1>3. Lives'
  BY <1>0, <1>2, LivesFrame
<1>4. SlotPerPermit'
  BY <1>0, <1>2, PermitFrame DEF Live
<1>5. Pending'
  <2>1. \A i \in Slot : seqs[i] # None => seqs[i] \in Req
    BY <1>0 DEF Typed
  <2> QED BY <1>0, <1>2, <2>1, PendingFrame
<1> QED BY <1>1, <1>3, <1>4, <1>5

\* A request ends that is not in seqs, or its client leaves.
LEMMA EndedInv ==
    ASSUME Inv, NEW r \in Req, NEW h \in {"done", "gone"},
           handler' = [handler EXCEPT ![r] = h],
           h = "done" => r \notin Live,
           handler[r] \in {"acquire", "stream"},
           seq' = [q \in Req |-> seq'[q]], \A q \in Req : IsSequence(seq'[q]),
           \A q \in Req \ {r} : seq'[q] = seq[q],
           r \in Live => Alike(seq'[r], seq[r]),
           seq'[r].embedding => seq'[r].closed,
           UNCHANGED <<permits, seqs, text, cacheVars, runVars, mu, work, panicked, model>>
    PROVE  Inv'
<1>0. Typed /\ Locks /\ Lives /\ SlotPerPermit /\ Pending
  BY DEF Inv
<1> USE DEF cacheVars, runVars
<1>1. /\ handler'[r] = h /\ \A q \in Req \ {r} : handler'[q] = handler[q]
      /\ handler' \in [Req -> {"new", "acquire", "insert", "stream", "done", "gone", "failed"}]
  BY <1>0 DEF Typed
<1>2. Live' = Live
  BY DEF Live
<1>3. Typed'
  BY <1>0, <1>1 DEF Typed
<1>4. Locks'
  BY <1>0 DEF Locks, ComputeStarted
<1>5. \A q \in Live : Alike(seq'[q], seq[q])
  BY <1>3 DEF Alike, Live, Typed
<1>6. Lives'
  <2>1. ASSUME NEW q \in Req, Fresh(q), q # r PROVE Fresh(q)'
    BY <1>1, <1>2, <2>1 DEF Fresh
  <2>2. ASSUME r \in Live
        PROVE  ~seq'[r].closed /\ (seq'[r].pendingInputs = <<>> => seq'[r].inputs # <<>>) /\ h = "gone"
    BY <1>0, <1>5, <2>2 DEF Lives, Alike
  <2> QED BY <1>0, <1>1, <1>2, <2>1, <2>2 DEF Lives
<1>7. SlotPerPermit'
  <2>1. \A q \in Req : handler'[q] = "insert" <=> handler[q] = "insert"
    BY <1>1
  <2> QED BY <1>0, <1>5, <2>1, PermitFrame DEF Alike
<1>8. Pending'
  <2>1. \A i \in Slot : seqs[i] # None => seqs[i] \in Live
    BY <1>0 DEF Typed, Live
  <2> QED BY <1>0, <1>5, <2>1, PendingFrame DEF Alike
<1> QED BY <1>3, <1>4, <1>6, <1>7, <1>8 DEF Inv

LEMMA ReceiveInv ==
    ASSUME Inv, NEW r \in Req, Receive(r), model' = model
    PROVE  Inv'
<1>0. Typed /\ Locks /\ Lives /\ SlotPerPermit /\ Pending
  BY DEF Inv
<1> USE DEF Receive, cacheVars, runVars
<1>1. IsSequence(seq[r])
  BY <1>0 DEF Typed
<1>2. CASE seq[r].responses # <<>>
  <2> DEFINE d == seq[r].delivered \o Head(seq[r].responses)
             t == Tail(seq[r].responses)
             u == [seq[r] EXCEPT !.delivered = d]
             s == [u EXCEPT !.responses = t]
  <2>1. seq' = [seq EXCEPT ![r] = s]
    BY <1>0, <1>1, <1>2 DEF Typed, IsSequence
  <2> HIDE DEF d, t
  <2>2. Alike(u, seq[r])
    BY <1>1 DEF Alike, IsSequence
  <2> HIDE DEF u
  <2>3. Alike(s, u)
    <3>1. IsSequence(u)
      BY <2>2 DEF Alike
    <3> QED BY <3>1, OutputFields
  <2>4. Alike(s, seq[r])
    <3> HIDE DEF s
    <3> QED BY <2>2, <2>3 DEF Alike
  <2> HIDE DEF s
  <2>5. handler' = handler
    BY <1>2
  <2>6. /\ seq' = [q \in Req |-> seq'[q]] /\ \A q \in Req : IsSequence(seq'[q])
        /\ Lives' /\ SlotPerPermit' /\ Pending'
    BY <2>1, <2>4, <2>5, AlikeInv
  <2>7. Typed'
    BY <1>0, <2>5, <2>6 DEF Typed
  <2>8. Locks'
    BY <1>0 DEF Locks, ComputeStarted
  <2> QED BY <2>6, <2>7, <2>8 DEF Inv
<1>3. CASE seq[r].responses = <<>>
  <2>1. /\ seq[r].closed /\ handler' = [handler EXCEPT ![r] = "done"]
        /\ seq' = [seq EXCEPT ![r] = NoSequence] /\ handler[r] = "stream"
    BY <1>3
  <2>2. IsSequence(NoSequence) /\ NoSequence.embedding = FALSE
    BY CacheAssumption DEF NoSequence, IsSequence, Slot
  <2>3. /\ seq' = [q \in Req |-> seq'[q]] /\ \A q \in Req : IsSequence(seq'[q])
        /\ seq'[r] = NoSequence /\ \A q \in Req \ {r} : seq'[q] = seq[q]
    BY <1>0, <2>1, <2>2, SeqTyped
  <2>4. r \notin Live
    BY <1>0, <2>1 DEF Lives
  <2> QED BY <2>1, <2>2, <2>3, <2>4, EndedInv
<1> QED BY <1>2, <1>3

LEMMA ReceiveEmbeddingInv ==
    ASSUME Inv, NEW r \in Req, ReceiveEmbedding(r), model' = model
    PROVE  Inv'
<1>0. Typed /\ Lives
  BY DEF Inv
<1>1. r \notin Live /\ (seq[r].embedding => seq[r].closed)
  BY <1>0 DEF Lives, ReceiveEmbedding
<1>2. seq = [q \in Req |-> seq[q]] /\ (\A q \in Req : IsSequence(seq[q])) /\ seq' = seq
  BY <1>0 DEF Typed, ReceiveEmbedding
<1>3. seq' = [q \in Req |-> seq'[q]] /\ \A q \in Req : seq'[q] = seq[q]
  BY <1>2
<1> QED BY <1>1, <1>2, <1>3, EndedInv DEF ReceiveEmbedding

LEMMA DisconnectInv ==
    ASSUME Inv, NEW r \in Req, Disconnect(r), model' = model
    PROVE  Inv'
<1>0. Typed /\ Lives
  BY DEF Inv
<1>1. IsSequence(seq[r]) /\ (seq[r].embedding => seq[r].closed)
  BY <1>0 DEF Typed, Lives
<1>2. handler' = [handler EXCEPT ![r] = "gone"]
  BY DEF Disconnect
<1>3. CASE handler[r] = "acquire" /\ UNCHANGED seq
  <2>1. seq' = [q \in Req |-> seq'[q]] /\ \A q \in Req : seq'[q] = seq[q]
    BY <1>0, <1>3 DEF Typed
  <2>2. Alike(seq'[r], seq[r]) /\ \A q \in Req : IsSequence(seq'[q])
    BY <1>0, <1>1, <2>1 DEF Alike, Typed
  <2> QED BY <1>1, <1>2, <1>3, <2>1, <2>2, EndedInv DEF Disconnect
<1>4. CASE handler[r] = "stream" /\ seq' = [seq EXCEPT ![r].quit = TRUE]
  <2> DEFINE s == [seq[r] EXCEPT !.quit = TRUE]
  <2>1. seq' = [seq EXCEPT ![r] = s]
    BY <1>0, <1>4 DEF Typed
  <2>2. Alike(s, seq[r])
    BY <1>1, FlagFields
  <2> HIDE DEF s
  <2>3. /\ seq' = [q \in Req |-> seq'[q]] /\ \A q \in Req : IsSequence(seq'[q])
        /\ seq'[r] = s /\ \A q \in Req \ {r} : seq'[q] = seq[q]
    BY <1>0, <2>1, <2>2, SeqTyped DEF Alike
  <2>4. seq'[r].embedding => seq'[r].closed
    BY <1>1, <2>2, <2>3 DEF Alike
  <2> QED BY <1>2, <1>4, <2>2, <2>3, <2>4, EndedInv DEF Disconnect
<1> QED BY <1>3, <1>4 DEF Disconnect

-----------------------------------------------------------------------------
(* forwardBatch.                                                           *)

\* Nothing is on its way when a batch is begun.
LEMMA ForwardBeginInv ==
    ASSUME Inv, ForwardBegin, model' = model, panicked' = panicked
    PROVE  Inv'
<1>0. Typed /\ Locks /\ Lives /\ SlotPerPermit /\ Pending
  BY DEF Inv
<1> USE DEF ForwardBegin, cacheVars
<1> DEFINE f == [seqs |-> seqs, inputs |-> <<>>, outputs |-> <<>>, resumeSeq |-> -1,
                 seqIdx |-> nextSeq - 1, left |-> Parallel]
<1>1. /\ fwd' = f /\ mu' = Forward /\ fwd = None /\ mu = None /\ prev' = prev /\ started' = started
      /\ work' = work /\ seqs' = seqs /\ seq' = seq /\ slots' = slots /\ text' = text
      /\ handler' = handler /\ permits' = permits /\ clock' = clock /\ nextSeq' = nextSeq
      /\ ComputeStarted
  OBVIOUS
<1>2. f \in ForwardType /\ f # None
  <2>1. /\ seqs \in [Slot -> Req \cup {None}] /\ <<>> \in Seq(Req \X Nat) /\ -1 \in Int
        /\ nextSeq - 1 \in Int /\ Parallel \in Nat
    BY <1>0, CacheAssumption DEF Typed
  <2>2. f \in ForwardType
    BY <2>1 DEF ForwardType
  <2> HIDE DEF f
  <2> QED BY <2>2, NoneAssumption
<1>3. f.seqs = seqs /\ f.seqIdx = nextSeq - 1 /\ f.left = Parallel /\ f.resumeSeq = -1
  OBVIOUS
<1> HIDE DEF f
<1>4. Typed'
  BY <1>0, <1>1, <1>2 DEF Typed
<1>5. Locks'
  <2>1. \A id \in DOMAIN work : work[id].pc # "decode" /\ id # 0
    BY <1>0, <1>1, NoneAssumption DEF Locks, Typed
  <2> QED BY <1>0, <1>1, <1>2, <2>1 DEF Locks, ComputeStarted, Forward
<1>6. Lives'
  BY <1>0, <1>1, LivesFrame
<1>7. SlotPerPermit'
  BY <1>0, <1>1, PermitFrame
<1>8. Pending'
  <2>1. ~(prev \in DOMAIN work /\ work[prev].pc = "wait")
    BY <1>0, <1>1 DEF Locks, ComputeStarted, Typed
  <2>2. \A i \in Slot : seqs[i] # None => seq[seqs[i]].pendingInputs = <<>>
    BY <1>0, <1>1, <2>1 DEF Pending, InBatch
  <2>3. ASSUME NEW k \in 1 .. fwd'.left PROVE Ahead(k)' \in Slot
    <3>1. k - 1 \in Nat /\ nextSeq - 1 \in Int /\ nextSeq - 1 >= -1
          /\ (nextSeq - 1) + (k - 1) + 1 = (nextSeq - 1) + k
      BY <1>0, <1>1, <1>3, <2>3, CacheAssumption DEF Typed
    <3> QED BY <1>1, <1>3, <3>1, NextSlot DEF Ahead
  <2>4. fwd'.seqIdx >= -1 /\ fwd'.resumeSeq >= -1 /\ fwd'.left <= Parallel
    BY <1>0, <1>1, <1>3, CacheAssumption DEF Typed
  <2> QED BY <1>1, <1>3, <2>2, <2>3, <2>4 DEF Pending
<1> QED BY <1>4, <1>5, <1>6, <1>7, <1>8 DEF Inv

\* A batch that is built is handed on; an empty one carries nothing.
LEMMA ForwardEndInv ==
    ASSUME Inv, ForwardEnd, model' = model, panicked' = panicked
    PROVE  Inv'
<1>0. Typed /\ Locks /\ Lives /\ SlotPerPermit /\ Pending
  BY DEF Inv
<1> USE DEF ForwardEnd, cacheVars
<1>1. /\ mu = Forward /\ fwd # None /\ fwd \in ForwardType /\ fwd' = None /\ mu' = None
      /\ seqs' = seqs /\ seq' = seq /\ slots' = slots /\ text' = text
      /\ handler' = handler /\ permits' = permits /\ clock' = clock
  BY <1>0 DEF Locks, Typed
<1>2. nextSeq' \in Nat
  <2>1. fwd.resumeSeq \in Int /\ fwd.seqIdx \in Int /\ fwd.resumeSeq >= -1 /\ fwd.seqIdx >= -1
    BY <1>0, <1>1 DEF Pending, ForwardType
  <2>2. nextSeq' = IF fwd.resumeSeq # -1 THEN fwd.resumeSeq ELSE fwd.seqIdx + 1
    OBVIOUS
  <2> QED BY <2>1, <2>2
<1>3. Lives' /\ SlotPerPermit'
  BY <1>0, <1>1, LivesFrame, PermitFrame
<1>4. ~(prev \in DOMAIN work /\ work[prev].pc = "wait") /\ \A id \in DOMAIN work : work[id].pc = "compute"
  BY <1>0, <1>1 DEF Locks, ComputeStarted, Typed, Forward, IsBatch
<1>5. CASE fwd.inputs = <<>>
  <2>1. prev' = 0 /\ started' = started /\ work' = work
    BY <1>5
  <2>2. Typed'
    BY <1>0, <1>1, <1>2, <2>1 DEF Typed
  <2>3. Locks'
    BY <1>0, <1>1, <1>4, <2>1, NoneAssumption DEF Locks, Forward, Typed
  <2>4. ASSUME NEW i \in Slot, seqs[i] # None, seq[seqs[i]].pendingInputs # <<>> PROVE FALSE
    <3>1. ToSet(seq[seqs[i]].pendingInputs) \subseteq ToSet(<<>>)
      BY <1>0, <1>4, <1>5, <2>4 DEF Pending, InBatch
    <3>2. seq[seqs[i]].pendingInputs \in Seq(Ptr)
      BY <1>0, <2>4 DEF Typed, IsSequence
    <3> QED BY <2>4, <3>1, <3>2, ToSetEmpty
  <2>5. Pending'
    BY <1>1, <2>4 DEF Pending
  <2> QED BY <1>3, <2>2, <2>3, <2>5 DEF Inv
<1>6. CASE fwd.inputs # <<>>
  <2> DEFINE new == [pc |-> "wait", seqs |-> fwd.seqs, batchInputs |-> fwd.inputs,
                     outputs |-> fwd.outputs, after |-> prev, tokens |-> <<>>,
                     next |-> [i \in Slot |-> None], iBatches |-> [i \in Slot |-> -1],
                     idx |-> 0]
             id == Min((1 .. Cardinality(DOMAIN work) + 2) \ (DOMAIN work \cup {prev}))
  <2>1. /\ work' = [w \in DOMAIN work \cup {id} |-> IF w = id THEN new ELSE work[w]]
        /\ prev' = id /\ started' = FALSE
    BY <1>6
  <2>2. id \in Nat \ {0}
    BY <1>0, NewId DEF Typed
  <2> HIDE DEF id
  <2>3. IsBatch(new)
    BY <1>1, CacheAssumption DEF IsBatch, ForwardType
  <2>4. new.pc = "wait" /\ new.seqs = fwd.seqs /\ new.batchInputs = fwd.inputs
    OBVIOUS
  <2> HIDE DEF new
  <2>5. /\ DOMAIN work' = DOMAIN work \cup {id} /\ work'[id] = new
        /\ \A w \in DOMAIN work \ {id} : work'[w] = work[w]
        /\ work' = [w \in DOMAIN work' |-> work'[w]]
    BY <2>1
  <2>6. Typed'
    <3>1. IsFiniteSet(DOMAIN work')
      BY <1>0, <2>5, FS_AddElement DEF Typed
    <3>2. DOMAIN work' \subseteq Nat \ {0} /\ \A w \in DOMAIN work' : IsBatch(work'[w])
      BY <1>0, <2>2, <2>3, <2>5 DEF Typed
    <3>3. work' = [w \in DOMAIN work' |-> work'[w]] /\ prev' \in Nat /\ started' \in BOOLEAN
      BY <2>1, <2>2, <2>5
    <3> QED BY <1>0, <1>1, <1>2, <3>1, <3>2, <3>3 DEF Typed
  <2>7. Locks'
    <3>1. \A w \in DOMAIN work' : w # None
      BY <2>6, NoneAssumption DEF Typed
    <3>2. \A w \in DOMAIN work' : work'[w].pc # "decode" /\ (work'[w].pc = "wait" => w = id)
      BY <1>4, <2>4, <2>5
    <3>3. mu' = Forward <=> fwd' # None
      BY <1>1, NoneAssumption DEF Forward
    <3>4. \A w \in DOMAIN work' : work'[w].pc = "decode" <=> mu' = w
      BY <1>1, <3>1, <3>2
    <3>5. \A w \in DOMAIN work' : work'[w].pc = "wait" => w = prev' /\ ~started'
      BY <2>1, <3>2
    <3> QED BY <1>1, <3>3, <3>4, <3>5 DEF Locks
  <2>8. Pending'
    <3>1. ASSUME NEW i \in Slot, seqs[i] # None, seq[seqs[i]].pendingInputs # <<>> PROVE InBatch(i)'
      <4>1. ToSet(seq[seqs[i]].pendingInputs) \subseteq ToSet(fwd.inputs) /\ fwd.seqs[i] = seqs[i]
        BY <1>0, <1>4, <3>1 DEF Pending, InBatch
      <4> QED BY <1>1, <2>1, <2>4, <2>5, <4>1 DEF InBatch
    <3> QED BY <1>1, <3>1 DEF Pending
  <2> QED BY <1>3, <2>6, <2>7, <2>8 DEF Inv
<1> QED BY <1>5, <1>6

\* The computation of the latest batch has started.
LEMMA NotifyStartedInv ==
    ASSUME Inv, NotifyStarted, model' = model, panicked' = panicked
    PROVE  Inv'
<1>0. Typed /\ Locks /\ Lives /\ SlotPerPermit /\ Pending
  BY DEF Inv
<1> USE DEF NotifyStarted, cacheVars
<1>1. Typed'
  BY <1>0 DEF Typed
<1>2. Locks'
  BY <1>0 DEF Locks, ComputeStarted
<1>3. Lives' /\ SlotPerPermit' /\ Pending'
  BY <1>0, LivesFrame, PermitFrame, PendingFrame
<1> QED BY <1>1, <1>2, <1>3 DEF Inv

\* The cursor moves on: what was ahead of it but one is ahead of it now.
LEMMA Advanced ==
    ASSUME Typed, Pending, fwd # None, fwd.left > 0, NEW new \in ForwardType,
           new.seqIdx = fwd.seqIdx, new.left = fwd.left, Advance(new)
    PROVE  /\ fwd' \in ForwardType /\ fwd' # None
           /\ fwd'.seqIdx = Cursor /\ fwd'.left = fwd.left - 1
           /\ fwd'.seqs = new.seqs /\ fwd'.inputs = new.inputs
           /\ fwd'.resumeSeq = new.resumeSeq /\ fwd'.outputs = new.outputs
           /\ Cursor \in Slot /\ Cursor = Ahead(1)
           /\ \A k \in 1 .. fwd.left - 1 :
                 /\ Ahead(k)' = Ahead(k + 1) /\ Ahead(k + 1) \in Slot \ {Cursor}
                 /\ k + 1 \in 1 .. fwd.left
<1>1. /\ fwd.seqIdx \in Int /\ fwd.seqIdx >= -1 /\ fwd.left \in Nat /\ fwd.left <= Parallel
      /\ fwd \in ForwardType /\ Parallel \in Nat
  BY CacheAssumption DEF Typed, Pending, ForwardType
<1>2. Cursor \in Slot /\ Cursor = Ahead(1) /\ Cursor = (fwd.seqIdx + 1) % Parallel
  <2>1. (fwd.seqIdx + 1) % Parallel \in Slot
    BY <1>1, NextSlot
  <2> QED BY <2>1 DEF Cursor, Ahead
<1>3. fwd' = [seqs |-> new.seqs, inputs |-> new.inputs, outputs |-> new.outputs,
              resumeSeq |-> new.resumeSeq, seqIdx |-> Cursor, left |-> new.left - 1]
  <2> HIDE DEF Cursor
  <2>1. fwd' = [new EXCEPT !.seqIdx = Cursor, !.left = new.left - 1]
    BY DEF Advance
  <2> QED BY <2>1 DEF ForwardType
<1>4. /\ fwd' \in ForwardType /\ fwd'.seqIdx = Cursor /\ fwd'.left = fwd.left - 1
      /\ fwd'.seqs = new.seqs /\ fwd'.inputs = new.inputs /\ fwd'.resumeSeq = new.resumeSeq
      /\ fwd'.outputs = new.outputs
  <2>1. Cursor \in Int /\ new.left - 1 \in Nat
    BY <1>1, <1>2, CacheAssumption DEF Slot
  <2> HIDE DEF Cursor
  <2>2. fwd' \in ForwardType
    BY <1>3, <2>1 DEF ForwardType
  <2> QED BY <1>3, <2>2
<1>5. ASSUME NEW k \in 1 .. fwd.left - 1
      PROVE  /\ Ahead(k)' = Ahead(k + 1) /\ Ahead(k + 1) \in Slot \ {Cursor}
             /\ k + 1 \in 1 .. fwd.left
  <2>1. k \in Nat /\ k \in 1 .. Parallel - 1 /\ k + 1 \in 1 .. fwd.left
        /\ fwd.seqIdx + k + 1 = fwd.seqIdx + (k + 1)
    BY <1>1
  <2>2. /\ (fwd.seqIdx + k + 1) % Parallel \in Slot
        /\ (((fwd.seqIdx + 1) % Parallel) + k) % Parallel = (fwd.seqIdx + k + 1) % Parallel
        /\ (fwd.seqIdx + k + 1) % Parallel # (fwd.seqIdx + 1) % Parallel
    BY <1>1, <2>1, NextSlot
  <2>3. Ahead(k)' = (Cursor + k) % Parallel
    BY <1>4 DEF Ahead
  <2> QED BY <1>2, <2>1, <2>2, <2>3 DEF Ahead
<1>6. fwd' # None
  BY <1>4, NoneAssumption
<1> QED BY <1>2, <1>4, <1>5, <1>6

\* What is pending after the slot at the cursor has been looked at.
LEMMA SlotPending ==
    ASSUME Typed, Locks, Pending, fwd # None, fwd.left > 0, NEW new \in ForwardType,
           new.seqIdx = fwd.seqIdx, new.left = fwd.left, Advance(new),
           \A j \in Slot \ {Cursor} :
              /\ seqs'[j] = seqs[j] /\ new.seqs[j] = fwd.seqs[j]
              /\ seqs[j] # None => seq'[seqs[j]].pendingInputs = seq[seqs[j]].pendingInputs,
           ToSet(fwd.inputs) \subseteq ToSet(new.inputs), new.resumeSeq >= -1,
           seqs'[Cursor] # None /\ seq'[seqs'[Cursor]].pendingInputs # <<>> =>
              /\ ToSet(seq'[seqs'[Cursor]].pendingInputs) \subseteq ToSet(new.inputs)
              /\ new.seqs[Cursor] = seqs'[Cursor]
    PROVE  Pending'
<1>1. /\ fwd' # None /\ fwd'.seqIdx = Cursor /\ fwd'.left = fwd.left - 1
      /\ fwd'.seqs = new.seqs /\ fwd'.inputs = new.inputs /\ fwd'.resumeSeq = new.resumeSeq
      /\ Cursor \in Slot
      /\ \A k \in 1 .. fwd.left - 1 :
            /\ Ahead(k)' = Ahead(k + 1) /\ Ahead(k + 1) \in Slot \ {Cursor}
            /\ k + 1 \in 1 .. fwd.left
  BY Advanced
<1>2. ~(prev \in DOMAIN work /\ work[prev].pc = "wait")
  BY DEF Locks, ComputeStarted, Typed
<1> HIDE DEF Cursor
<1>3. ASSUME NEW i \in Slot, seqs'[i] # None, seq'[seqs'[i]].pendingInputs # <<>> PROVE InBatch(i)'
  <2>1. CASE i = Cursor
    BY <1>1, <1>3, <2>1 DEF InBatch
  <2>2. CASE i # Cursor
    <3>1. seqs'[i] = seqs[i] /\ seq'[seqs[i]].pendingInputs = seq[seqs[i]].pendingInputs /\ new.seqs[i] = fwd.seqs[i]
      BY <1>3, <2>2
    <3>2. InBatch(i)
      BY <1>3, <3>1 DEF Pending
    <3>3. ToSet(seq[seqs[i]].pendingInputs) \subseteq ToSet(fwd.inputs) /\ fwd.seqs[i] = seqs[i]
      BY <1>2, <3>2 DEF InBatch
    <3> QED BY <1>1, <3>1, <3>3 DEF InBatch
  <2> QED BY <2>1, <2>2
<1>4. ASSUME NEW k \in 1 .. fwd'.left
      PROVE  /\ fwd'.seqs[Ahead(k)'] = seqs'[Ahead(k)']
             /\ seqs'[Ahead(k)'] # None => seq'[seqs'[Ahead(k)']].pendingInputs = <<>>
  <2>1. Ahead(k)' = Ahead(k + 1) /\ Ahead(k + 1) \in Slot \ {Cursor} /\ k + 1 \in 1 .. fwd.left
    BY <1>1
  <2>2. /\ fwd.seqs[Ahead(k + 1)] = seqs[Ahead(k + 1)]
        /\ seqs[Ahead(k + 1)] # None => seq[seqs[Ahead(k + 1)]].pendingInputs = <<>>
    BY <2>1 DEF Pending
  <2> QED BY <1>1, <2>1, <2>2
<1>5. fwd'.seqIdx >= -1 /\ fwd'.resumeSeq >= -1 /\ fwd'.left <= Parallel
  <2>1. Cursor >= -1
    BY <1>1, CacheAssumption DEF Slot
  <2>2. fwd.left \in Nat /\ fwd.left <= Parallel /\ Parallel \in Nat
    BY CacheAssumption DEF Pending, Typed, ForwardType
  <2> QED BY <1>1, <2>1, <2>2
<1> QED BY <1>1, <1>3, <1>4, <1>5 DEF Pending

\* Inputs of r move between its list, the batch and the cache slot.
Moves(r, pending, inputs, cached) ==
    /\ seq' = [q \in Req |-> seq'[q]]
    /\ \A q \in Req : IsSequence(seq'[q]) /\ (q # r => seq'[q] = seq[q])
    /\ seq'[r].pendingInputs = pending /\ seq'[r].inputs = inputs
    /\ seq'[r].cache = seq[r].cache /\ seq'[r].closed = seq[r].closed
    /\ seq'[r].embedding = seq[r].embedding
    /\ slots' \in [Slot -> [Inputs : Seq(Ptr), InUse : BOOLEAN, lastUsed : Nat]]
    /\ slots'[seq[r].cache].Inputs = cached
    /\ \A s \in Slot : /\ slots'[s].InUse = slots[s].InUse
                       /\ s # seq[r].cache => slots'[s] = slots[s]

LEMMA MovesInv ==
    ASSUME Inv, NEW r \in Live, NEW pending, NEW inputs, NEW cached,
           Moves(r, pending, inputs, cached), pending # <<>> \/ inputs # <<>>,
           handler' = handler, permits' = permits, seqs' = seqs, text' = text
    PROVE  SlotPerPermit' /\ Lives'
<1>0. Typed /\ Lives /\ SlotPerPermit
  BY DEF Inv
<1>1. r \in Req /\ Live' = Live
  BY DEF Live
<1>2. \A q \in Req : seq'[q].cache = seq[q].cache
  BY <1>1 DEF Moves
<1>3. SlotPerPermit'
  BY <1>0, <1>2, PermitFrame DEF Moves, Live
<1>4. ASSUME NEW q \in Req, Fresh(q), q # r PROVE Fresh(q)'
  BY <1>1, <1>4 DEF Fresh, Moves
<1>5. ~Fresh(r)
  BY DEF Fresh
<1>6. Lives'
  <2>1. \A q \in Req \ {r} : seq'[q] = seq[q]
    BY DEF Moves
  <2>2. /\ seq'[r].closed = seq[r].closed /\ seq'[r].embedding = seq[r].embedding
        /\ seq'[r].pendingInputs = <<>> => seq'[r].inputs # <<>>
    BY DEF Moves
  <2> QED BY <1>0, <1>1, <1>4, <1>5, <2>1, <2>2 DEF Lives
<1> QED BY <1>3, <1>6

\* A cache slot gets other inputs.
LEMMA SlotInputs ==
    ASSUME Typed, NEW c \in Slot, NEW x \in Seq(Ptr), slots' = [slots EXCEPT ![c].Inputs = x]
    PROVE  /\ slots' \in [Slot -> [Inputs : Seq(Ptr), InUse : BOOLEAN, lastUsed : Nat]]
           /\ slots'[c].Inputs = x
           /\ \A s \in Slot : slots'[s].InUse = slots[s].InUse /\ (s # c => slots'[s] = slots[s])
<1>1. slots \in [Slot -> [Inputs : Seq(Ptr), InUse : BOOLEAN, lastUsed : Nat]]
  BY DEF Typed
<1> QED BY <1>1

\* The slot at the cursor is one that nothing has been done to yet.
LEMMA AtCursor ==
    ASSUME Inv, mu = Forward, fwd.left > 0
    PROVE  /\ fwd # None /\ fwd \in ForwardType /\ Cursor \in Slot
           /\ fwd.seqs[Cursor] = seqs[Cursor]
           /\ seqs[Cursor] # None =>
                 LET r == seqs[Cursor] IN
                 /\ r \in Live /\ IsSequence(seq[r]) /\ seq[r].cache \in Slot
                 /\ seq[r].pendingInputs = <<>> /\ seq[r].inputs # <<>>
                 /\ Inputs(r) \in Seq(Ptr) /\ Inputs(r) # <<>> /\ Cached(r) \in Seq(Ptr)
<1>0. Typed /\ Locks /\ Lives /\ Pending
  BY DEF Inv
<1>1. fwd # None /\ fwd \in ForwardType
  BY <1>0 DEF Locks, Typed
<1>2. fwd.seqIdx \in Int /\ fwd.seqIdx >= -1 /\ fwd.left \in Nat /\ 1 \in 1 .. fwd.left
  BY <1>0, <1>1 DEF Pending, ForwardType
<1>3. Cursor \in Slot /\ Cursor = Ahead(1)
  <2>1. (fwd.seqIdx + 1) % Parallel \in Slot
    BY <1>2, NextSlot
  <2> QED BY <2>1 DEF Cursor, Ahead
<1> HIDE DEF Cursor
<1>4. /\ fwd.seqs[Cursor] = seqs[Cursor]
      /\ seqs[Cursor] # None => seq[seqs[Cursor]].pendingInputs = <<>>
  BY <1>0, <1>1, <1>2, <1>3 DEF Pending
<1>5. ASSUME seqs[Cursor] # None
      PROVE  LET r == seqs[Cursor] IN
             /\ r \in Live /\ IsSequence(seq[r]) /\ seq[r].cache \in Slot
             /\ seq[r].pendingInputs = <<>> /\ seq[r].inputs # <<>>
             /\ Inputs(r) \in Seq(Ptr) /\ Inputs(r) # <<>> /\ Cached(r) \in Seq(Ptr)
  <2> DEFINE r == seqs[Cursor]
  <2>1. r \in Req /\ r \in Live
    BY <1>0, <1>3, <1>5 DEF Typed, Live
  <2> HIDE DEF r
  <2>2. IsSequence(seq[r]) /\ seq[r].cache \in Slot /\ seq[r].inputs \in Seq(Ptr)
    BY <1>0, <2>1 DEF Typed, IsSequence
  <2>3. seq[r].pendingInputs = <<>> /\ seq[r].inputs # <<>>
    BY <1>0, <1>4, <1>5, <2>1 DEF Lives, r
  <2>4. slots[seq[r].cache].Inputs \in Seq(Ptr)
    BY <1>0, <2>2 DEF Typed
  <2> DEFINE x == slots[seq[r].cache].Inputs
             y == seq[r].inputs
  <2>5. x \o y \in Seq(Ptr) /\ x \o y # <<>>
    <3>1. x \in Seq(Ptr) /\ y \in Seq(Ptr) /\ y # <<>>
      BY <2>2, <2>3, <2>4
    <3> HIDE DEF x, y
    <3>2. x \o y \in Seq(Ptr) /\ Len(x \o y) = Len(x) + Len(y) /\ Len(y) # 0 /\ Len(x) \in Nat /\ Len(y) \in Nat
      BY <3>1
    <3> QED BY <3>2
  <2>6. Inputs(r) \in Seq(Ptr) /\ Inputs(r) # <<>> /\ Cached(r) \in Seq(Ptr)
    BY <2>2, <2>3, <2>4, <2>5 DEF Inputs, Cached
  <2> QED BY <2>1, <2>2, <2>3, <2>6 DEF r
<1> QED BY <1>1, <1>3, <1>4, <1>5

\* What is shifted fits, with room for one more.
LEMMA ShiftedIs ==
    ASSUME NEW x \in Seq(Ptr), Len(x) = NumCtx, NEW keep \in 0 .. NumCtx - 1
    PROVE  LET d == ShiftDiscard(x, keep)
               z == Shifted(x, keep)
           IN  /\ d \in 1 .. NumCtx - keep /\ z \in Seq(Ptr) /\ Len(z) = NumCtx - d
               /\ \A k \in 1 .. Len(z) : z[k] = IF k <= keep THEN x[k] ELSE x[k + d]
<1> DEFINE d == ShiftDiscard(x, keep)
           t == (NumCtx - keep) \div 2
<1>1. NumCtx \in Nat /\ NumCtx >= 1 /\ keep \in Nat /\ keep < NumCtx
  BY CacheAssumption
<1>2. t \in Int
  BY <1>1
<1> HIDE DEF t
<1>3. d \in 1 .. NumCtx - keep
  <2>1. Greater(t, 1) \in Int /\ Greater(t, 1) >= 1
    BY <1>2 DEF Greater
  <2>2. d = Lesser(Greater(Greater(t, 1) - (NumCtx - Len(x)), 0), Len(x) - keep)
    BY DEF ShiftDiscard, t
  <2>3. Greater(Greater(t, 1) - (NumCtx - Len(x)), 0) = Greater(t, 1)
    <3>1. Greater(t, 1) - (NumCtx - Len(x)) = Greater(t, 1)
      BY <1>1, <2>1
    <3> QED BY <2>1, <3>1 DEF Greater
  <2> HIDE DEF d
  <2> QED BY <1>1, <2>1, <2>2, <2>3 DEF Lesser
<1> HIDE DEF d
<1> DEFINE y == SubSeq(x, 1, keep)
           z == SubSeq(x, keep + d + 1, Len(x))
<1>4. y \in Seq(Ptr) /\ Len(y) = keep /\ \A k \in 1 .. keep : y[k] = x[k]
  <2>1. \A i \in 1 .. keep : x[i] \in Ptr
    BY <1>1
  <2>2. /\ y \in Seq(Ptr) /\ Len(y) = IF 1 <= keep THEN keep - 1 + 1 ELSE 0
        /\ \A i \in 1 .. keep - 1 + 1 : y[i] = x[1 + i - 1]
    BY <1>1, <2>1, SubSeqProperties
  <2> QED BY <1>1, <2>2
<1>5. /\ z \in Seq(Ptr) /\ Len(z) = NumCtx - keep - d
      /\ \A k \in 1 .. NumCtx - keep - d : z[k] = x[keep + d + k]
  <2>1. keep + d + 1 \in Nat /\ keep + d + 1 >= 1 /\ keep + d <= Len(x)
    BY <1>1, <1>3
  <2>2. \A i \in keep + d + 1 .. Len(x) : x[i] \in Ptr
    BY <1>1, <2>1
  <2>3. /\ z \in Seq(Ptr) /\ Len(z) = IF keep + d + 1 <= Len(x) THEN Len(x) - (keep + d + 1) + 1 ELSE 0
        /\ \A i \in 1 .. Len(x) - (keep + d + 1) + 1 : z[i] = x[keep + d + 1 + i - 1]
    BY <1>1, <1>3, <2>1, <2>2, SubSeqProperties
  <2> QED BY <1>1, <1>3, <2>1, <2>3
<1> HIDE DEF y, z
<1>6. Shifted(x, keep) = y \o z
  BY DEF Shifted, y, z, d
<1> DEFINE s == y \o z
<1>7. /\ s \in Seq(Ptr) /\ Len(s) = Len(y) + Len(z)
      /\ \A k \in 1 .. Len(y) + Len(z) : s[k] = IF k <= Len(y) THEN y[k] ELSE z[k - Len(y)]
  BY <1>4, <1>5, ConcatProperties
<1> HIDE DEF s
<1>8. ASSUME NEW k \in 1 .. Len(s) PROVE s[k] = IF k <= keep THEN x[k] ELSE x[k + d]
  <2>1. k \in 1 .. keep \/ (k > keep /\ k - keep \in 1 .. NumCtx - keep - d)
    BY <1>1, <1>3, <1>4, <1>5, <1>7
  <2>2. CASE k \in 1 .. keep
    BY <1>1, <1>4, <1>5, <1>7, <2>2
  <2>3. CASE k > keep /\ k - keep \in 1 .. NumCtx - keep - d
    <3>1. s[k] = z[k - keep]
      BY <1>1, <1>4, <1>5, <1>7, <2>3
    <3>2. z[k - keep] = x[keep + d + (k - keep)] /\ keep + d + (k - keep) = k + d
      BY <1>1, <1>3, <1>5, <2>3
    <3> QED BY <1>1, <2>3, <3>1, <3>2
  <2> QED BY <2>1, <2>2, <2>3
<1>9. s \in Seq(Ptr) /\ Len(s) = NumCtx - d
  BY <1>1, <1>3, <1>4, <1>5, <1>7
<1>10. \A k \in 1 .. Len(s) : s[k] = IF k <= keep THEN x[k] ELSE x[k + d]
  BY <1>8
<1> QED BY <1>3, <1>6, <1>9, <1>10 DEF s, d

LEMMA ShiftedTyped ==
    ASSUME NEW x \in Seq(Ptr), Len(x) = NumCtx, NEW keep \in 0 .. NumCtx - 1
    PROVE  Shifted(x, keep) \in Seq(Ptr) /\ Len(Shifted(x, keep)) < NumCtx
<1> DEFINE d == ShiftDiscard(x, keep)
<1>1. /\ d \in 1 .. NumCtx - keep
      /\ Shifted(x, keep) \in Seq(Ptr) /\ Len(Shifted(x, keep)) = NumCtx - d
  BY ShiftedIs
<1>2. NumCtx \in Nat
  BY CacheAssumption
<1> HIDE DEF d
<1> QED BY <1>1, <1>2


\* A list is cut in two.
LEMMA Cut ==
    ASSUME NEW S, NEW x \in Seq(S), NEW n \in 0 .. Len(x)
    PROVE  /\ SubSeq(x, 1, n) \in Seq(S) /\ Len(SubSeq(x, 1, n)) = n
           /\ SubSeq(x, n + 1, Len(x)) \in Seq(S) /\ Len(SubSeq(x, n + 1, Len(x))) = Len(x) - n
<1>1. Len(x) \in Nat /\ n \in Nat /\ n <= Len(x)
  OBVIOUS
<1>2. \A i \in 1 .. n : x[i] \in S
  BY <1>1
<1>3. SubSeq(x, 1, n) \in Seq(S) /\ Len(SubSeq(x, 1, n)) = n
  BY <1>1, <1>2, SubSeqProperties
<1>4. \A i \in n + 1 .. Len(x) : x[i] \in S
  BY <1>1
<1>5. SubSeq(x, n + 1, Len(x)) \in Seq(S) /\ Len(SubSeq(x, n + 1, Len(x))) = Len(x) - n
  BY <1>1, <1>4, SubSeqProperties
<1> QED BY <1>3, <1>5

\* Two states of a sequence with the same cache slot, neither of them its end.
Keeps(t, s) ==
    /\ IsSequence(t) /\ t.cache = s.cache /\ t.closed = s.closed
    /\ t.embedding = s.embedding

\* Fields that count.
LEMMA CountFields ==
    ASSUME NEW s, IsSequence(s), NEW x
    PROVE  /\ LET t == [s EXCEPT !.iBatch = x]
              IN  Keeps(t, s) /\ t.inputs = s.inputs /\ t.pendingInputs = s.pendingInputs
           /\ Alike([s EXCEPT !.numPredicted = x], s)
<1>1. LET t == [s EXCEPT !.iBatch = x]
      IN  Keeps(t, s) /\ t.inputs = s.inputs /\ t.pendingInputs = s.pendingInputs
  BY DEF Keeps, IsSequence
<1>2. Alike([s EXCEPT !.numPredicted = x], s)
  BY DEF Alike, IsSequence
<1> QED BY <1>1, <1>2

\* Two states of a sequence with the same output, as with other inputs.
SameOut(t, s) ==
    /\ t.delivered = s.delivered /\ t.pendingResponses = s.pendingResponses
    /\ t.responses = s.responses /\ t.numPromptInputs = s.numPromptInputs

LEMMA OutputKept ==
    ASSUME NEW s, IsSequence(s), NEW x
    PROVE  /\ SameOut([s EXCEPT !.inputs = x], s) /\ SameOut([s EXCEPT !.pendingInputs = x], s)
           /\ SameOut([s EXCEPT !.cache = x], s) /\ SameOut([s EXCEPT !.iBatch = x], s)
           /\ SameOut([s EXCEPT !.numPredicted = x], s) /\ [s EXCEPT !.iBatch = x].iBatch = x
<1>1. SameOut([s EXCEPT !.inputs = x], s) /\ SameOut([s EXCEPT !.pendingInputs = x], s)
  BY DEF IsSequence, SameOut
<1>2. SameOut([s EXCEPT !.cache = x], s) /\ SameOut([s EXCEPT !.iBatch = x], s)
  BY DEF IsSequence, SameOut
<1>3. SameOut([s EXCEPT !.numPredicted = x], s) /\ [s EXCEPT !.iBatch = x].iBatch = x
  BY DEF IsSequence, SameOut
<1> QED BY <1>1, <1>2, <1>3

IsRecord(t) ==
    t = [inputs |-> t.inputs, pendingInputs |-> t.pendingInputs,
         pendingResponses |-> t.pendingResponses, cache |-> t.cache,
         responses |-> t.responses, closed |-> t.closed, quit |-> t.quit,
         embedding |-> t.embedding, numPredicted |-> t.numPredicted,
         iBatch |-> t.iBatch, numPromptInputs |-> t.numPromptInputs,
         doneReason |-> t.doneReason, delivered |-> t.delivered]

WithInputs(s, x) == [s EXCEPT !.inputs = x]
WithPending(s, x) == [s EXCEPT !.pendingInputs = x]

LEMMA RecordFields ==
    ASSUME NEW s, IsRecord(s), NEW x
    PROVE  /\ LET t == WithInputs(s, x) IN
              /\ IsRecord(t) /\ t.inputs = x /\ t.pendingInputs = s.pendingInputs
              /\ t.cache = s.cache /\ t.closed = s.closed /\ t.embedding = s.embedding
           /\ LET t == WithPending(s, x) IN
              /\ IsRecord(t) /\ t.inputs = s.inputs /\ t.pendingInputs = x
              /\ t.cache = s.cache /\ t.closed = s.closed /\ t.embedding = s.embedding
<1>1. LET t == WithInputs(s, x) IN
      /\ IsRecord(t) /\ t.inputs = x /\ t.pendingInputs = s.pendingInputs
      /\ t.cache = s.cache /\ t.closed = s.closed /\ t.embedding = s.embedding
  BY DEF IsRecord, WithInputs
<1>2. LET t == WithPending(s, x) IN
      /\ IsRecord(t) /\ t.inputs = s.inputs /\ t.pendingInputs = x
      /\ t.cache = s.cache /\ t.closed = s.closed /\ t.embedding = s.embedding
  BY DEF IsRecord, WithPending
<1> QED BY <1>1, <1>2

LEMMA InputFields ==
    ASSUME NEW s, IsSequence(s), NEW x, x \in Seq(Ptr)
    PROVE  /\ Keeps(WithInputs(s, x), s)
           /\ WithInputs(s, x).inputs = x /\ WithInputs(s, x).pendingInputs = s.pendingInputs
           /\ Keeps(WithPending(s, x), s)
           /\ WithPending(s, x).inputs = s.inputs /\ WithPending(s, x).pendingInputs = x
<1> DEFINE t == WithInputs(s, x)
           u == WithPending(s, x)
<1>1. IsRecord(s)
  BY DEF IsSequence, IsRecord
<1>2. /\ IsRecord(t) /\ t.inputs = x /\ t.pendingInputs = s.pendingInputs
      /\ t.cache = s.cache /\ t.closed = s.closed /\ t.embedding = s.embedding
  BY <1>1, RecordFields
<1>3. /\ IsRecord(u) /\ u.inputs = s.inputs /\ u.pendingInputs = x
      /\ u.cache = s.cache /\ u.closed = s.closed /\ u.embedding = s.embedding
  BY <1>1, RecordFields
<1> HIDE DEF t, u
<1>4. IsSequence(t)
  BY <1>2 DEF IsSequence, IsRecord
<1>5. IsSequence(u)
  BY <1>3 DEF IsSequence, IsRecord
<1>6. Keeps(t, s) /\ Keeps(u, s)
  BY <1>2, <1>3, <1>4, <1>5 DEF Keeps
<1> QED BY <1>2, <1>3, <1>6 DEF t, u

LEMMA Moved ==
    ASSUME Typed, NEW r \in Req, NEW s, Keeps(s, seq[r]), seq' = [seq EXCEPT ![r] = s],
           NEW x \in Seq(Ptr), slots' = [slots EXCEPT ![seq[r].cache].Inputs = x]
    PROVE  Moves(r, s.pendingInputs, s.inputs, x)
<1>1. /\ seq' = [q \in Req |-> seq'[q]] /\ \A q \in Req : IsSequence(seq'[q])
      /\ seq'[r] = s /\ \A q \in Req \ {r} : seq'[q] = seq[q]
  BY SeqTyped DEF Keeps
<1>2. seq[r].cache \in Slot
  BY DEF Typed, IsSequence
<1>3. /\ slots' \in [Slot -> [Inputs : Seq(Ptr), InUse : BOOLEAN, lastUsed : Nat]]
      /\ slots'[seq[r].cache].Inputs = x
      /\ \A c \in Slot : slots'[c].InUse = slots[c].InUse /\ (c # seq[r].cache => slots'[c] = slots[c])
  BY <1>2, SlotInputs
<1> QED BY <1>1, <1>3 DEF Moves, Keeps

\* A sequence gets a new list of inputs, and its cache slot too.
LEMMA NewInputs ==
    ASSUME Typed, NEW r \in Req, NEW x \in Seq(Ptr), NEW y \in Seq(Ptr),
           seq' = [seq EXCEPT ![r].inputs = x],
           slots' = [slots EXCEPT ![seq[r].cache].Inputs = y]
    PROVE  Moves(r, seq[r].pendingInputs, x, y)
<1> DEFINE s == WithInputs(seq[r], x)
<1>1. IsSequence(seq[r])
  BY DEF Typed
<1>2. Keeps(s, seq[r]) /\ s.inputs = x /\ s.pendingInputs = seq[r].pendingInputs
  BY <1>1, InputFields
<1>3. seq' = [seq EXCEPT ![r] = s]
  BY DEF Typed, WithInputs
<1> HIDE DEF s
<1>4. Moves(r, s.pendingInputs, s.inputs, y)
  BY <1>2, <1>3, Moved
<1> QED BY <1>2, <1>4

\* The parts of the invariant that depend neither on the cursor nor on the sequences.
LEMMA SlotRest ==
    ASSUME Typed, Locks, fwd # None, fwd' # None, fwd' \in ForwardType,
           seq' = [r \in Req |-> seq'[r]], \A r \in Req : IsSequence(seq'[r]),
           slots' \in [Slot -> [Inputs : Seq(Ptr), InUse : BOOLEAN, lastUsed : Nat]],
           seqs' \in [Slot -> Req \cup {None}], permits' \in Nat,
           UNCHANGED <<handler, text, clock, nextSeq, mu, prev, started, work, model>>
    PROVE  Typed' /\ Locks'
<1>1. Typed'
  BY DEF Typed
<1>2. Locks'
  BY DEF Locks, ComputeStarted
<1> QED BY <1>1, <1>2

\* Inputs of the sequence at the cursor move.
LEMMA CursorMoves ==
    ASSUME Inv, mu = Forward, fwd.left > 0, NEW r \in Live, r = seqs[Cursor],
           NEW pending, NEW inputs, NEW cached,
           Moves(r, pending, inputs, cached), pending # <<>> \/ inputs # <<>>,
           NEW new \in ForwardType, new.seqIdx = fwd.seqIdx, new.left = fwd.left, Advance(new),
           \A j \in Slot \ {Cursor} : new.seqs[j] = fwd.seqs[j],
           ToSet(fwd.inputs) \subseteq ToSet(new.inputs), new.resumeSeq >= -1,
           pending # <<>> => ToSet(pending) \subseteq ToSet(new.inputs) /\ new.seqs[Cursor] = r,
           UNCHANGED <<seqs, permits>>,
           UNCHANGED <<handler, text, clock, nextSeq, mu, prev, started, work, model>>
    PROVE  Inv'
<1>0. Typed /\ Locks /\ Lives /\ SlotPerPermit /\ Pending
  BY DEF Inv
<1>1. fwd # None /\ Cursor \in Slot
  BY AtCursor
<1>2. fwd' \in ForwardType /\ fwd' # None
  BY <1>0, <1>1, Advanced
<1>3. SlotPerPermit' /\ Lives'
  BY MovesInv
<1>4. Typed' /\ Locks'
  <2>1. /\ seq' = [q \in Req |-> seq'[q]] /\ \A q \in Req : IsSequence(seq'[q])
        /\ slots' \in [Slot -> [Inputs : Seq(Ptr), InUse : BOOLEAN, lastUsed : Nat]]
    BY DEF Moves
  <2>2. seqs' \in [Slot -> Req \cup {None}] /\ permits' \in Nat
    BY <1>0 DEF Typed
  <2> QED BY <1>0, <1>1, <1>2, <2>1, <2>2, SlotRest
<1> HIDE DEF Cursor
<1>5. \A j \in Slot \ {Cursor} : seqs[j] # None => seq'[seqs[j]].pendingInputs = seq[seqs[j]].pendingInputs
  <2>1. \A j \in Slot \ {Cursor} : seqs[j] # None => seqs[j] # r /\ seqs[j] \in Req
    BY <1>0, <1>1 DEF SlotPerPermit, Typed
  <2> QED BY <2>1 DEF Moves
<1>6. seq'[r].pendingInputs = pending
  BY DEF Moves
<1>7. Pending'
  BY <1>0, <1>1, <1>5, <1>6, SlotPending
<1> QED BY <1>3, <1>4, <1>7 DEF Inv

\* The batch that is built, with another list of sequences, inputs or place to resume.
LEMMA BatchFields ==
    ASSUME NEW f, f \in ForwardType, NEW c \in Slot
    PROVE  /\ LET g == [f EXCEPT !.resumeSeq = IF @ = -1 THEN c ELSE @] IN
              /\ g \in ForwardType /\ g.seqIdx = f.seqIdx /\ g.left = f.left /\ g.seqs = f.seqs
              /\ g.inputs = f.inputs /\ g.outputs = f.outputs
              /\ (g.resumeSeq = f.resumeSeq \/ g.resumeSeq = c)
           /\ LET g == [f EXCEPT !.seqs[c] = None] IN
              /\ g \in ForwardType /\ g.seqIdx = f.seqIdx /\ g.left = f.left
              /\ g.inputs = f.inputs /\ g.outputs = f.outputs /\ g.resumeSeq = f.resumeSeq
              /\ \A j \in Slot \ {c} : g.seqs[j] = f.seqs[j]
<1>1. f = [seqs |-> f.seqs, inputs |-> f.inputs, outputs |-> f.outputs,
           resumeSeq |-> f.resumeSeq, seqIdx |-> f.seqIdx, left |-> f.left]
  BY DEF ForwardType
<1>2. c \in Int
  BY CacheAssumption DEF Slot
<1>3. LET g == [f EXCEPT !.resumeSeq = IF @ = -1 THEN c ELSE @] IN
      /\ g \in ForwardType /\ g.seqIdx = f.seqIdx /\ g.left = f.left /\ g.seqs = f.seqs
      /\ g.inputs = f.inputs /\ g.outputs = f.outputs
      /\ (g.resumeSeq = f.resumeSeq \/ g.resumeSeq = c)
  <2> DEFINE n == IF f.resumeSeq = -1 THEN c ELSE f.resumeSeq
             g == [seqs |-> f.seqs, inputs |-> f.inputs, outputs |-> f.outputs,
                   resumeSeq |-> n, seqIdx |-> f.seqIdx, left |-> f.left]
  <2>1. n \in Int /\ (n = f.resumeSeq \/ n = c)
    BY <1>2 DEF ForwardType
  <2>2. [f EXCEPT !.resumeSeq = IF @ = -1 THEN c ELSE @] = g
    BY <1>1
  <2> HIDE DEF n
  <2>3. g \in ForwardType
    BY <2>1 DEF ForwardType
  <2> QED BY <2>1, <2>2, <2>3
<1>4. LET g == [f EXCEPT !.seqs[c] = None] IN
      /\ g \in ForwardType /\ g.seqIdx = f.seqIdx /\ g.left = f.left
      /\ g.inputs = f.inputs /\ g.outputs = f.outputs /\ g.resumeSeq = f.resumeSeq
      /\ \A j \in Slot \ {c} : g.seqs[j] = f.seqs[j]
  <2> DEFINE n == [f.seqs EXCEPT ![c] = None]
             g == [seqs |-> n, inputs |-> f.inputs, outputs |-> f.outputs,
                   resumeSeq |-> f.resumeSeq, seqIdx |-> f.seqIdx, left |-> f.left]
  <2>1. n \in [Slot -> Req \cup {None}] /\ \A j \in Slot \ {c} : n[j] = f.seqs[j]
    BY DEF ForwardType
  <2>2. [f EXCEPT !.seqs[c] = None] = g
    BY <1>1
  <2> HIDE DEF n
  <2>3. g \in ForwardType
    BY <2>1 DEF ForwardType
  <2> QED BY <2>1, <2>2, <2>3
<1> QED BY <1>3, <1>4

LEMMA SkipSlotInv ==
    ASSUME Inv, mu = Forward, fwd.left > 0, SkipSlot, UNCHANGED <<seqs, permits, shared>>,
           UNCHANGED <<handler, text, clock, nextSeq, mu, prev, started, work, model>>
    PROVE  Inv'
<1>0. Typed /\ Locks /\ Lives /\ SlotPerPermit /\ Pending
  BY DEF Inv
<1> DEFINE r == seqs[Cursor]
<1>1. /\ fwd # None /\ fwd \in ForwardType /\ Cursor \in Slot /\ fwd.seqs[Cursor] = r
      /\ fwd.resumeSeq >= -1 /\ Cursor \in Int /\ Cursor >= -1
  BY <1>0, AtCursor, CacheAssumption DEF Slot, Pending
<1>2. CASE r = None
  <2>1. Advance(fwd) /\ seq' = seq /\ slots' = slots
    BY <1>2, RunnerAssumption DEF SkipSlot
  <2>2. fwd' \in ForwardType /\ fwd' # None
    BY <1>0, <1>1, <2>1, Advanced
  <2>3. Typed' /\ Locks'
    BY <1>0, <1>1, <2>1, <2>2, SlotRest DEF Typed
  <2>4. Lives' /\ SlotPerPermit'
    BY <1>0, <2>1, LivesFrame, PermitFrame
  <2>5. Pending'
    <3> HIDE DEF Cursor
    <3> QED BY <1>0, <1>1, <1>2, <2>1, SlotPending
  <2> QED BY <2>3, <2>4, <2>5 DEF Inv
<1>3. CASE r # None
  <2> DEFINE new == [fwd EXCEPT !.resumeSeq = IF @ = -1 THEN Cursor ELSE @]
  <2>1. /\ r \in Live /\ Inputs(r) \in Seq(Ptr) /\ Inputs(r) # <<>> /\ Cached(r) \in Seq(Ptr)
        /\ seq[r].pendingInputs = <<>> /\ r \in Req
    BY <1>3, AtCursor DEF Live
  <2>2. /\ Advance(new) /\ seq' = [seq EXCEPT ![r].inputs = Inputs(r)]
        /\ slots' = [slots EXCEPT ![seq[r].cache].Inputs = Cached(r)]
    BY <1>3 DEF SkipSlot
  <2>3. Moves(r, <<>>, Inputs(r), Cached(r))
    <3> HIDE DEF r, new
    <3>1. Moves(r, seq[r].pendingInputs, Inputs(r), Cached(r))
      BY <1>0, <2>1, <2>2, NewInputs
    <3> QED BY <2>1, <3>1
  <2>4. /\ new \in ForwardType /\ new.seqIdx = fwd.seqIdx /\ new.left = fwd.left
        /\ new.seqs = fwd.seqs /\ new.inputs = fwd.inputs
        /\ (new.resumeSeq = fwd.resumeSeq \/ new.resumeSeq = Cursor)
    <3> HIDE DEF Cursor
    <3> QED BY <1>1, BatchFields
  <2> HIDE DEF new, r
  <2> QED BY <1>1, <2>1, <2>2, <2>3, <2>4, CursorMoves DEF r
<1> QED BY <1>2, <1>3

\* The sequence at the cursor is evaluated again from the next batch on.
LEMMA ReprocessInv ==
    ASSUME Inv, mu = Forward, fwd.left > 0, seqs[Cursor] # None, Reprocess(seqs[Cursor]),
           Len(Cached(seqs[Cursor])) = NumCtx, UNCHANGED <<seqs, permits>>,
           UNCHANGED <<handler, text, clock, nextSeq, mu, prev, started, work, model>>
    PROVE  Inv'
<1>0. Typed /\ Pending
  BY DEF Inv
<1> DEFINE r == seqs[Cursor]
           new == [fwd EXCEPT !.seqs[Cursor] = None]
           x == Shifted(Cached(r), numKeep(r))
           y == Inputs(r)
<1>1. /\ fwd # None /\ fwd \in ForwardType /\ Cursor \in Slot /\ fwd.resumeSeq >= -1
  BY <1>0, AtCursor DEF Pending
<1>2. /\ r \in Live /\ y \in Seq(Ptr) /\ y # <<>> /\ Cached(r) \in Seq(Ptr)
      /\ seq[r].pendingInputs = <<>> /\ r \in Req
  BY AtCursor DEF Live
<1>3. /\ Advance(new) /\ seq' = [seq EXCEPT ![r].inputs = x \o y]
      /\ slots' = [slots EXCEPT ![seq[r].cache].Inputs = <<>>]
  BY DEF Reprocess
<1>4. x \in Seq(Ptr)
  BY <1>2, KeepBounds, ShiftedTyped
<1>5. /\ new \in ForwardType /\ new.seqIdx = fwd.seqIdx /\ new.left = fwd.left
      /\ new.inputs = fwd.inputs /\ new.resumeSeq = fwd.resumeSeq
      /\ \A j \in Slot \ {Cursor} : new.seqs[j] = fwd.seqs[j]
  <2> HIDE DEF Cursor
  <2> QED BY <1>1, BatchFields
<1> HIDE DEF new, r, x, y
<1>6. x \o y \in Seq(Ptr) /\ x \o y # <<>>
  <2>1. x \o y \in Seq(Ptr) /\ Len(x \o y) = Len(x) + Len(y) /\ Len(y) # 0
        /\ Len(x) \in Nat /\ Len(y) \in Nat
    BY <1>2, <1>4
  <2> QED BY <2>1
<1> DEFINE z == x \o y
<1>7. Moves(r, <<>>, z, <<>>)
  <2>1. z \in Seq(Ptr) /\ <<>> \in Seq(Ptr) /\ seq' = [seq EXCEPT ![r].inputs = z]
    BY <1>3, <1>6
  <2> HIDE DEF z
  <2>2. Moves(r, seq[r].pendingInputs, z, <<>>)
    BY <1>0, <1>2, <1>3, <2>1, NewInputs
  <2> QED BY <1>2, <2>2
<1>8. z # <<>>
  BY <1>6
<1> HIDE DEF z
<1> QED BY <1>1, <1>2, <1>3, <1>5, <1>7, <1>8, CursorMoves DEF r

\* Inputs of the sequence at the cursor go into the batch.
Fills(r, cached, n, new) ==
    LET inputs == Inputs(r)
        taken == SubSeq(inputs, 1, n)
    IN  /\ n + Len(cached) <= NumCtx
        /\ taken \in Seq(Ptr) /\ Len(taken) = n
        /\ Moves(r, taken, SubSeq(inputs, n + 1, Len(inputs)), cached)
        /\ Advance(new)
        /\ new.seqIdx = fwd.seqIdx /\ new.left = fwd.left /\ new.seqs = fwd.seqs
        /\ new.inputs = fwd.inputs \o taken /\ new.resumeSeq = fwd.resumeSeq
        /\ SameOut(seq'[r], seq[r])
        /\ \E asking \in Seq(Ptr) : new.outputs = fwd.outputs \o asking
        /\ r \notin Embedding /\ n > 0 /\ n = Len(inputs) =>
              /\ new.outputs = fwd.outputs \o <<inputs[n]>>
              /\ seq'[r].iBatch = Len(fwd.outputs)

LEMMA FillDoes ==
    ASSUME Inv, mu = Forward, fwd.left > 0, seqs[Cursor] # None,
           NEW cached \in Seq(Ptr), Len(cached) < NumCtx, FillBatch(seqs[Cursor], cached),
           Len(fwd.inputs) < model.batchSize
    PROVE  \E n \in 0 .. Len(Inputs(seqs[Cursor])), new \in ForwardType :
              Fills(seqs[Cursor], cached, n, new)
<1>0. Typed /\ Pending
  BY DEF Inv
<1> DEFINE r == seqs[Cursor]
           inputs == Inputs(r)
           room == Lesser(model.batchSize - Len(fwd.inputs), NumCtx - Len(cached))
           n == Lesser(Len(inputs), room)
           taken == SubSeq(inputs, 1, n)
           rest == SubSeq(inputs, n + 1, Len(inputs))
           asking == IF r \in Embedding THEN taken
                     ELSE IF n > 0 /\ n = Len(inputs) THEN <<inputs[n]>> ELSE <<>>
           row == Len(fwd.outputs) + (IF r \in Embedding THEN n - 1 ELSE 0)
           new == [fwd EXCEPT !.inputs = @ \o taken, !.outputs = @ \o asking]
<1>1. fwd \in ForwardType
  BY AtCursor
<1>2. /\ r \in Live /\ IsSequence(seq[r]) /\ inputs \in Seq(Ptr) /\ inputs # <<>>
      /\ seq[r].pendingInputs = <<>> /\ r \in Req
  BY AtCursor DEF Live
<1>3. /\ seq' = [seq EXCEPT ![r].pendingInputs = @ \o taken, ![r].inputs = rest, ![r].iBatch = row]
      /\ slots' = [slots EXCEPT ![seq[r].cache].Inputs = cached]
      /\ Advance(new)
  BY DEF FillBatch
<1>4. n \in 0 .. Len(inputs) /\ n + Len(cached) <= NumCtx
  <2>1. model.batchSize \in Nat /\ NumCtx \in Nat /\ Len(fwd.inputs) \in Nat
    <3>1. Len(fwd.inputs) \in Nat
      BY <1>1 DEF ForwardType
    <3>2. model \in ModelType /\ NumCtx \in Nat
      BY <1>0, RunnerAssumption, CacheAssumption DEF Typed
    <3>3. model.batchSize \in Nat
      BY <3>2 DEF ModelType
    <3> QED BY <3>1, <3>2, <3>3
  <2>2. room \in Nat /\ room <= NumCtx - Len(cached) /\ Len(cached) \in Nat
    BY <2>1 DEF Lesser
  <2> HIDE DEF room, inputs
  <2> QED BY <1>2, <2>1, <2>2 DEF Lesser
<1> HIDE DEF n, inputs, r
<1>5. /\ taken \in Seq(Ptr) /\ Len(taken) = n /\ rest \in Seq(Ptr) /\ Len(rest) = Len(inputs) - n
  BY <1>2, <1>4, Cut
<1>7. asking \in Seq(Ptr)
  <2>1. n > 0 /\ n = Len(inputs) => inputs[n] \in Ptr
    BY <1>2, <1>4
  <2> QED BY <1>5, <2>1
<1>11. r \notin Embedding /\ n > 0 /\ n = Len(inputs) =>
          asking = <<inputs[n]>> /\ row = Len(fwd.outputs) + 0
  OBVIOUS
<1> HIDE DEF taken, rest, asking, row
<1>8. Moves(r, taken, rest, cached) /\ SameOut(seq'[r], seq[r]) /\ seq'[r].iBatch = row
  <2> DEFINE t == WithPending(seq[r], taken)
             u == WithInputs(t, rest)
             v == [u EXCEPT !.iBatch = row]
  <2>1. <<>> \o taken = taken
    BY <1>5
  <2>2. v = [seq[r] EXCEPT !.pendingInputs = @ \o taken, !.inputs = rest, !.iBatch = row]
    BY <1>2, <2>1 DEF WithPending, WithInputs, IsSequence
  <2>3. seq' = [seq EXCEPT ![r] = v]
    BY <1>0, <1>2, <1>3, <2>2 DEF Typed
  <2>4. Keeps(t, seq[r]) /\ t.pendingInputs = taken
    BY <1>2, <1>5, InputFields
  <2>9. SameOut(t, seq[r])
    BY <1>2, OutputKept DEF WithPending
  <2> HIDE DEF t
  <2>5. Keeps(u, t) /\ u.pendingInputs = taken /\ u.inputs = rest
    <3>1. IsSequence(t)
      BY <2>4 DEF Keeps
    <3> QED BY <1>5, <2>4, <3>1, InputFields
  <2>10. SameOut(u, t)
    BY <2>4, OutputKept DEF WithInputs, Keeps
  <2> HIDE DEF u
  <2>6. /\ Keeps(v, u) /\ v.inputs = u.inputs /\ v.pendingInputs = u.pendingInputs
        /\ SameOut(v, u) /\ v.iBatch = row
    <3>1. IsSequence(u)
      BY <2>5 DEF Keeps
    <3> QED BY <3>1, CountFields, OutputKept
  <2> HIDE DEF v
  <2>11. seq'[r] = v /\ SameOut(v, seq[r])
    <3>1. IsSequence(v)
      BY <2>6 DEF Keeps
    <3>2. seq'[r] = v
      BY <1>0, <1>2, <2>3, <3>1, SeqTyped
    <3> QED BY <2>6, <2>9, <2>10, <3>2 DEF SameOut
  <2>7. Keeps(v, seq[r]) /\ v.pendingInputs = taken /\ v.inputs = rest
    BY <2>4, <2>5, <2>6 DEF Keeps
  <2>8. Moves(r, v.pendingInputs, v.inputs, cached)
    BY <1>0, <1>2, <1>3, <2>3, <2>7, Moved
  <2> QED BY <2>6, <2>7, <2>8, <2>11
<1>9. /\ new \in ForwardType /\ new.seqIdx = fwd.seqIdx /\ new.left = fwd.left
      /\ new.seqs = fwd.seqs /\ new.inputs = fwd.inputs \o taken /\ new.resumeSeq = fwd.resumeSeq
      /\ new.outputs = fwd.outputs \o asking
  <2> DEFINE a == fwd.inputs \o taken
             b == fwd.outputs \o asking
             g == [seqs |-> fwd.seqs, inputs |-> a, outputs |-> b, resumeSeq |-> fwd.resumeSeq,
                   seqIdx |-> fwd.seqIdx, left |-> fwd.left]
  <2>1. fwd = [seqs |-> fwd.seqs, inputs |-> fwd.inputs, outputs |-> fwd.outputs,
               resumeSeq |-> fwd.resumeSeq, seqIdx |-> fwd.seqIdx, left |-> fwd.left]
    BY <1>1 DEF ForwardType
  <2>2. new = g
    <3>1. new = [fwd EXCEPT !.inputs = a, !.outputs = b]
      OBVIOUS
    <3> HIDE DEF new, a, b
    <3> QED BY <1>1, <3>1 DEF ForwardType
  <2>3. a \in Seq(Req \X Nat) /\ b \in Seq(Req \X Nat)
    BY <1>1, <1>5, <1>7 DEF ForwardType, Ptr
  <2> HIDE DEF a, b
  <2>4. g \in ForwardType
    BY <1>1, <2>3 DEF ForwardType
  <2> QED BY <2>2, <2>4 DEF a, b
<1> HIDE DEF new
<1>12. r \notin Embedding /\ n > 0 /\ n = Len(inputs) =>
          new.outputs = fwd.outputs \o <<inputs[n]>> /\ seq'[r].iBatch = Len(fwd.outputs)
  <2>1. Len(fwd.outputs) + 0 = Len(fwd.outputs)
    BY <1>1 DEF ForwardType
  <2> QED BY <1>8, <1>9, <1>11, <2>1
<1>10. Fills(r, cached, n, new)
  BY <1>3, <1>4, <1>5, <1>7, <1>8, <1>9, <1>12 DEF Fills, taken, rest, inputs
<1> QED BY <1>4, <1>9, <1>10 DEF r, inputs

LEMMA FillBatchInv ==
    ASSUME Inv, mu = Forward, fwd.left > 0, seqs[Cursor] # None,
           NEW cached \in Seq(Ptr), Len(cached) < NumCtx, FillBatch(seqs[Cursor], cached),
           Len(fwd.inputs) < model.batchSize, UNCHANGED <<seqs, permits>>,
           UNCHANGED <<handler, text, clock, nextSeq, mu, prev, started, work, model>>
    PROVE  Inv'
<1>0. Typed /\ Pending
  BY DEF Inv
<1> DEFINE r == seqs[Cursor]
           inputs == Inputs(r)
<1>1. /\ fwd \in ForwardType /\ Cursor \in Slot /\ fwd.seqs[Cursor] = r
      /\ fwd.resumeSeq >= -1
  BY <1>0, AtCursor DEF Pending
<1>2. r \in Live /\ inputs \in Seq(Ptr) /\ inputs # <<>>
  BY AtCursor
<1>3. PICK n \in 0 .. Len(inputs), new \in ForwardType : Fills(r, cached, n, new)
  BY FillDoes
<1> DEFINE taken == SubSeq(inputs, 1, n)
           rest == SubSeq(inputs, n + 1, Len(inputs))
<1> HIDE DEF inputs, r
<1>4. /\ taken \in Seq(Ptr) /\ Len(taken) = n /\ Len(rest) = Len(inputs) - n
  BY <1>2, Cut
<1>5. taken # <<>> \/ rest # <<>>
  <2>1. Len(inputs) \in Nat /\ Len(inputs) # 0 /\ n \in Nat
    BY <1>2
  <2> HIDE DEF taken, rest
  <2> QED BY <1>4, <2>1
<1> HIDE DEF taken, rest
<1>6. /\ Moves(r, taken, rest, cached) /\ Advance(new)
      /\ new.seqIdx = fwd.seqIdx /\ new.left = fwd.left /\ new.seqs = fwd.seqs
      /\ new.inputs = fwd.inputs \o taken /\ new.resumeSeq = fwd.resumeSeq
  BY <1>3 DEF Fills, taken, rest, inputs
<1>7. ToSet(new.inputs) = ToSet(fwd.inputs) \cup ToSet(taken)
  <2>1. fwd.inputs \in Seq(Ptr)
    BY <1>1 DEF ForwardType, Ptr
  <2> QED BY <1>4, <1>6, <2>1, ToSetConcat
<1> QED BY <1>1, <1>2, <1>5, <1>6, <1>7, CursorMoves DEF r

LEMMA AddInputsInv ==
    ASSUME Inv, mu = Forward, fwd.left > 0, AddInputs, UNCHANGED <<seqs, permits>>,
           UNCHANGED <<handler, text, clock, nextSeq, mu, prev, started, work, model>>
    PROVE  Inv'
<1> DEFINE r == seqs[Cursor]
<1>1. r # None /\ Len(fwd.inputs) < model.batchSize
  BY DEF AddInputs
<1>2. r \in Req /\ Cached(r) \in Seq(Ptr)
  BY <1>1, AtCursor DEF Live
<1>3. CASE Len(Cached(r)) < NumCtx /\ FillBatch(r, Cached(r))
  BY <1>1, <1>2, <1>3, FillBatchInv
<1>4. CASE Len(Cached(r)) = NumCtx /\ FillBatch(r, Shifted(Cached(r), numKeep(r)))
  <2>1. /\ Shifted(Cached(r), numKeep(r)) \in Seq(Ptr)
        /\ Len(Shifted(Cached(r), numKeep(r))) < NumCtx
    BY <1>2, <1>4, KeepBounds, ShiftedTyped
  <2> QED BY <1>1, <1>4, <2>1, FillBatchInv
<1>5. CASE Len(Cached(r)) = NumCtx /\ Reprocess(r)
  BY <1>1, <1>5, ReprocessInv
<1> QED BY <1>3, <1>4, <1>5 DEF AddInputs

LEMMA EndAtLimitInv ==
    ASSUME Inv, mu = Forward, fwd.left > 0, EndAtLimit,
           UNCHANGED <<handler, text, clock, nextSeq, mu, prev, started, work, model>>
    PROVE  Inv'
<1>0. Typed /\ Locks /\ Lives /\ SlotPerPermit /\ Pending
  BY DEF Inv
<1> DEFINE r == seqs[Cursor]
           new == [fwd EXCEPT !.seqs[Cursor] = None]
           held == slots[seq[r].cache].Inputs
<1>1. fwd # None /\ fwd \in ForwardType /\ Cursor \in Slot /\ fwd.resumeSeq >= -1
  BY <1>0, AtCursor DEF Pending
<1>2. r # None /\ removeSequence(Cursor, seq[r], held, "length") /\ Advance(new)
  BY DEF EndAtLimit
<1>3. /\ new \in ForwardType /\ new.seqIdx = fwd.seqIdx /\ new.left = fwd.left
      /\ new.inputs = fwd.inputs /\ new.resumeSeq = fwd.resumeSeq
      /\ \A j \in Slot \ {Cursor} : new.seqs[j] = fwd.seqs[j]
  <2> HIDE DEF Cursor
  <2> QED BY <1>1, BatchFields
<1> HIDE DEF new
<1>4. IsSequence(seq[r]) /\ seq[r].cache \in Slot
  BY <1>2, AtCursor
<1>5. held \in Seq(Ptr)
  BY <1>0, <1>4 DEF Typed
<1>6. fwd' \in ForwardType /\ fwd' # None
  BY <1>0, <1>1, <1>2, <1>3, Advanced
<1> HIDE DEF Cursor, held
<1>7. Removes(Cursor)
  BY <1>0, <1>1, <1>2, <1>4, <1>5, RemoveIs
<1>8. SlotPerPermit' /\ Lives'
  BY <1>0, <1>1, <1>2, <1>7, RemovesPermit, RemovesLives
<1>9. Typed' /\ Locks'
  <2>1. /\ seq' = [q \in Req |-> seq'[q]] /\ \A q \in Req : IsSequence(seq'[q])
        /\ slots' \in [Slot -> [Inputs : Seq(Ptr), InUse : BOOLEAN, lastUsed : Nat]]
        /\ seqs' = [seqs EXCEPT ![Cursor] = None] /\ permits' = permits + 1
    BY <1>7 DEF Removes
  <2>2. seqs' \in [Slot -> Req \cup {None}]
    BY <1>0, <2>1 DEF Typed
  <2>3. permits' \in Nat
    BY <1>0, <2>1 DEF Typed
  <2> QED BY <1>0, <1>1, <1>6, <2>1, <2>2, <2>3, SlotRest
<1>10. Pending'
  <2>1. seqs'[Cursor] = None /\ \A j \in Slot \ {Cursor} : seqs'[j] = seqs[j]
    BY <1>0, <1>1, <1>7 DEF Removes, Typed
  <2>2. \A j \in Slot \ {Cursor} : seqs[j] # None => seq'[seqs[j]] = seq[seqs[j]]
    BY <1>0, <1>1, <1>2, <1>7 DEF Removes, Typed, SlotPerPermit
  <2> QED BY <1>0, <1>1, <1>2, <1>3, <2>1, <2>2, SlotPending
<1> QED BY <1>8, <1>9, <1>10 DEF Inv

\* One slot of a batch, whatever is done to it.
LEMMA ForwardSlotInv ==
    ASSUME Inv, ForwardSlot, model' = model
    PROVE  Inv'
<1>1. /\ mu = Forward /\ fwd.left > 0
      /\ UNCHANGED <<handler, text, clock, nextSeq, mu, prev, started, work, model>>
  BY DEF ForwardSlot
<1>2. CASE SkipSlot /\ UNCHANGED <<seqs, permits, shared>>
  BY <1>1, <1>2, SkipSlotInv
<1>3. CASE EndAtLimit
  BY <1>1, <1>3, EndAtLimitInv
<1>4. CASE AddInputs /\ UNCHANGED <<seqs, permits>>
  BY <1>1, <1>4, AddInputsInv
<1> QED BY <1>2, <1>3, <1>4 DEF ForwardSlot

-----------------------------------------------------------------------------
(* computeBatch.                                                           *)

\* A batch is replaced by another one, or moves on.
LEMMA WorkTyped ==
    ASSUME Typed, NEW id \in DOMAIN work, NEW w, IsBatch(w), work' = [work EXCEPT ![id] = w]
    PROVE  /\ work' = [b \in DOMAIN work' |-> work'[b]] /\ DOMAIN work' = DOMAIN work
           /\ \A b \in DOMAIN work : IsBatch(work'[b])
           /\ work'[id] = w /\ \A b \in DOMAIN work \ {id} : work'[b] = work[b]
<1>1. work = [b \in DOMAIN work |-> work[b]] /\ \A b \in DOMAIN work : IsBatch(work[b])
  BY DEF Typed
<1>2. work' = [b \in DOMAIN work |-> IF b = id THEN w ELSE work[b]]
  BY <1>1
<1> QED BY <1>1, <1>2

\* The fields of a batch that change one by one.
LEMMA BatchMoves ==
    ASSUME NEW w, IsBatch(w), NEW x
    PROVE  /\ LET v == [w EXCEPT !.after = x] IN IsBatch(v) /\ v.seqs = w.seqs /\ v.pc = w.pc
           /\ LET v == [w EXCEPT !.tokens = x] IN IsBatch(v) /\ v.seqs = w.seqs /\ v.pc = w.pc
           /\ LET v == [w EXCEPT !.next = x] IN IsBatch(v) /\ v.seqs = w.seqs /\ v.pc = w.pc
           /\ LET v == [w EXCEPT !.iBatches = x] IN IsBatch(v) /\ v.seqs = w.seqs /\ v.pc = w.pc
           /\ x \in {"wait", "compute", "decode"} =>
              LET v == [w EXCEPT !.pc = x] IN IsBatch(v) /\ v.seqs = w.seqs /\ v.pc = x
           /\ x \in 0 .. Parallel =>
              LET v == [w EXCEPT !.idx = x] IN
              IsBatch(v) /\ v.seqs = w.seqs /\ v.pc = w.pc /\ v.batchInputs = w.batchInputs
<1>1. LET v == [w EXCEPT !.after = x] IN IsBatch(v) /\ v.seqs = w.seqs /\ v.pc = w.pc
  BY DEF IsBatch
<1>2. LET v == [w EXCEPT !.tokens = x] IN IsBatch(v) /\ v.seqs = w.seqs /\ v.pc = w.pc
  BY DEF IsBatch
<1>3. LET v == [w EXCEPT !.next = x] IN IsBatch(v) /\ v.seqs = w.seqs /\ v.pc = w.pc
  BY DEF IsBatch
<1>4. LET v == [w EXCEPT !.iBatches = x] IN IsBatch(v) /\ v.seqs = w.seqs /\ v.pc = w.pc
  BY DEF IsBatch
<1>5. ASSUME x \in {"wait", "compute", "decode"}
      PROVE  LET v == [w EXCEPT !.pc = x] IN IsBatch(v) /\ v.seqs = w.seqs /\ v.pc = x
  BY <1>5 DEF IsBatch
<1>6. ASSUME x \in 0 .. Parallel
      PROVE  LET v == [w EXCEPT !.idx = x] IN
             IsBatch(v) /\ v.seqs = w.seqs /\ v.pc = w.pc /\ v.batchInputs = w.batchInputs
  BY <1>6 DEF IsBatch
<1> QED BY <1>1, <1>2, <1>3, <1>4, <1>5, <1>6

\* A batch that has read its tokens.
Computed(w, x, y, z, u) ==
    [w EXCEPT !.pc = "compute", !.after = x, !.tokens = y, !.next = z, !.iBatches = u]

LEMMA BatchRead ==
    ASSUME NEW w, IsBatch(w), NEW x, NEW y, NEW z, NEW u
    PROVE  IsBatch(Computed(w, x, y, z, u)) /\ Computed(w, x, y, z, u).pc = "compute"
<1> DEFINE a == [w EXCEPT !.pc = "compute"]
           b == [a EXCEPT !.after = x]
           c == [b EXCEPT !.tokens = y]
           d == [c EXCEPT !.next = z]
           e == [d EXCEPT !.iBatches = u]
<1>1. Computed(w, x, y, z, u) = e
  BY DEF Computed
<1>2. IsBatch(a) /\ a.pc = "compute"
  BY BatchMoves
<1> HIDE DEF a
<1>3. IsBatch(b) /\ b.pc = a.pc
  BY <1>2, BatchMoves
<1> HIDE DEF b
<1>4. IsBatch(c) /\ c.pc = b.pc
  BY <1>3, BatchMoves
<1> HIDE DEF c
<1>5. IsBatch(d) /\ d.pc = c.pc
  BY <1>4, BatchMoves
<1> HIDE DEF d
<1>6. IsBatch(e) /\ e.pc = d.pc
  BY <1>5, BatchMoves
<1> HIDE DEF e
<1> QED BY <1>1, <1>2, <1>3, <1>4, <1>5, <1>6

\* A sequence whose inputs have been read, with the placeholder if none is left.
Sampling(s, r, n, m) ==
    [s EXCEPT !.pendingInputs = <<>>, !.numPredicted = m, !.inputs = <<<<r, n>>>>]

LEMMA SequenceRead ==
    ASSUME NEW s, IsSequence(s), NEW r \in Req, NEW n \in Nat, NEW m
    PROVE  /\ LET t == Sampling(s, r, n, m)
              IN  Keeps(t, s) /\ SameOut(t, s) /\ t.pendingInputs = <<>> /\ t.inputs = <<<<r, n>>>>
           /\ LET t == WithPending(s, <<>>)
              IN  Keeps(t, s) /\ SameOut(t, s) /\ t.pendingInputs = <<>> /\ t.inputs = s.inputs
<1> DEFINE x == <<<<r, n>>>>
           e == <<>>
           t == WithPending(s, e)
           u == [t EXCEPT !.numPredicted = m]
           v == WithInputs(u, x)
<1>1. x \in Seq(Ptr) /\ e \in Seq(Ptr)
  BY DEF Ptr
<1>2. WithPending(s, <<>>) = t
  OBVIOUS
<1>3. Sampling(s, r, n, m) = v
  BY DEF Sampling, WithPending, WithInputs
<1> HIDE DEF x, e
<1>4. Keeps(t, s) /\ SameOut(t, s) /\ t.pendingInputs = e /\ t.inputs = s.inputs
  BY <1>1, InputFields, OutputKept DEF WithPending
<1> HIDE DEF t
<1>5. Alike(u, t) /\ SameOut(u, t)
  <2>1. IsSequence(t)
    BY <1>4 DEF Keeps
  <2> QED BY <2>1, CountFields, OutputKept
<1> HIDE DEF u
<1>6. Keeps(v, u) /\ SameOut(v, u) /\ v.inputs = x /\ v.pendingInputs = u.pendingInputs
  <2>1. IsSequence(u)
    BY <1>5 DEF Alike
  <2>2. SameOut(WithInputs(u, x), u)
    BY <2>1, OutputKept DEF WithInputs
  <2> QED BY <1>1, <2>1, <2>2, InputFields
<1> HIDE DEF v
<1>7. Keeps(v, s) /\ SameOut(v, s) /\ v.inputs = x /\ v.pendingInputs = e
  BY <1>4, <1>5, <1>6 DEF Keeps, Alike, SameOut
<1> QED BY <1>2, <1>3, <1>4, <1>7 DEF x, e

\* What the reading of a batch does to the sequences it carries, those in `mine'.
Reads(mine) ==
    /\ seq' = [r \in Req |-> seq'[r]]
    /\ \A r \in Req : IF \E i \in mine : seqs[i] = r
                      THEN /\ Keeps(seq'[r], seq[r]) /\ SameOut(seq'[r], seq[r])
                           /\ seq'[r].pendingInputs = <<>>
                           /\ slots'[seq[r].cache].Inputs =
                                 slots[seq[r].cache].Inputs \o seq[r].pendingInputs
                           /\ IF seq[r].inputs = <<>>
                              THEN /\ seq'[r].inputs = <<<<r, Len(text[r]) + 1>>>>
                                   /\ Len(text'[r]) = Len(text[r]) + 1
                              ELSE seq'[r].inputs = seq[r].inputs /\ text'[r] = text[r]
                      ELSE seq'[r] = seq[r] /\ text'[r] = text[r]
    /\ text' \in [Req -> Seq(Int)]
    /\ slots' \in [Slot -> [Inputs : Seq(Ptr), InUse : BOOLEAN, lastUsed : Nat]]
    /\ \A s \in Slot : /\ slots'[s].InUse = slots[s].InUse
                       /\ (\A i \in mine : seq[seqs[i]].cache # s) => slots'[s] = slots[s]

LEMMA GatherReads ==
    ASSUME Inv, NEW id \in DOMAIN work, GatherInputs(id)
    PROVE  Reads(SameSequences(id))
<1>0. Typed /\ SlotPerPermit
  BY DEF Inv
<1> DEFINE mine == SameSequences(id)
           sampled == {i \in mine : seq[seqs[i]].inputs = <<>>}
           Is(S, r) == \E i \in S : seqs[i] = r
           next(r) == [seq[r] EXCEPT !.pendingInputs = <<>>,
                                     !.numPredicted = @ + 1,
                                     !.inputs = <<<<r, Len(text[r]) + 1>>>>]
           same(r) == [seq[r] EXCEPT !.pendingInputs = <<>>]
           after(r) == IF Is(sampled, r) THEN next(r) ELSE same(r)
           of(s) == CHOOSE j \in mine : seq[seqs[j]].cache = s
           pending(s) == seq[seqs[of(s)]].pendingInputs
<1>1. /\ seq' = [r \in Req |-> IF Is(mine, r) THEN after(r) ELSE seq[r]]
      /\ text' = [r \in Req |-> IF Is(sampled, r) THEN Append(text[r], Placeholder) ELSE text[r]]
      /\ slots' = [s \in Slot |-> IF \E i \in mine : seq[seqs[i]].cache = s
                                  THEN [slots[s] EXCEPT !.Inputs = @ \o pending(s)] ELSE slots[s]]
  BY DEF GatherInputs
<1>2. \A i \in mine : i \in Slot /\ seqs[i] \in Live
  BY <1>0 DEF SameSequences, Live, Typed
<1> HIDE DEF mine
<1>3. ASSUME NEW r \in Req
      PROVE  /\ Keeps(next(r), seq[r]) /\ SameOut(next(r), seq[r]) /\ next(r).pendingInputs = <<>>
             /\ next(r).inputs = <<<<r, Len(text[r]) + 1>>>>
             /\ Keeps(same(r), seq[r]) /\ SameOut(same(r), seq[r]) /\ same(r).pendingInputs = <<>>
             /\ same(r).inputs = seq[r].inputs
  <2>1. IsSequence(seq[r]) /\ Len(text[r]) + 1 \in Nat
    BY <1>0 DEF Typed
  <2> DEFINE m == seq[r].numPredicted + 1
             n == Len(text[r]) + 1
  <2>2. next(r) = Sampling(seq[r], r, n, m) /\ same(r) = WithPending(seq[r], <<>>)
    BY DEF Sampling, WithPending
  <2> HIDE DEF m, n, next, same
  <2>3. /\ Keeps(next(r), seq[r]) /\ SameOut(next(r), seq[r]) /\ next(r).pendingInputs = <<>>
        /\ next(r).inputs = <<<<r, n>>>>
    BY <2>1, <2>2, SequenceRead DEF n
  <2>4. /\ Keeps(same(r), seq[r]) /\ SameOut(same(r), seq[r]) /\ same(r).pendingInputs = <<>>
        /\ same(r).inputs = seq[r].inputs
    BY <2>1, <2>2, SequenceRead DEF n
  <2> QED BY <2>3, <2>4 DEF n
<1> HIDE DEF next, same
<1>4. ASSUME NEW r \in Req, Is(mine, r)
      PROVE  /\ Keeps(seq'[r], seq[r]) /\ SameOut(seq'[r], seq[r])
             /\ seq'[r].pendingInputs = <<>>
             /\ IF seq[r].inputs = <<>>
                THEN /\ seq'[r].inputs = <<<<r, Len(text[r]) + 1>>>>
                     /\ Len(text'[r]) = Len(text[r]) + 1
                ELSE seq'[r].inputs = seq[r].inputs /\ text'[r] = text[r]
  <2>1. CASE seq[r].inputs = <<>>
    <3>1. Is(sampled, r)
      BY <1>4, <2>1
    <3>2. seq'[r] = next(r) /\ text'[r] = Append(text[r], Placeholder)
      BY <1>1, <1>4, <3>1
    <3>3. text[r] \in Seq(Int) /\ Placeholder \in Int
      BY <1>0 DEF Typed, Placeholder
    <3>4. Len(text'[r]) = Len(text[r]) + 1
      BY <3>2, <3>3
    <3> QED BY <1>3, <2>1, <3>2, <3>4
  <2>2. CASE seq[r].inputs # <<>>
    <3>1. ~Is(sampled, r)
      BY <2>2
    <3>2. seq'[r] = same(r) /\ text'[r] = text[r]
      BY <1>1, <1>4, <3>1
    <3> QED BY <1>3, <2>2, <3>2
  <2> QED BY <2>1, <2>2
<1>5. ASSUME NEW r \in Req, ~Is(mine, r)
      PROVE  seq'[r] = seq[r] /\ text'[r] = text[r]
  BY <1>1, <1>5
<1>6. text' \in [Req -> Seq(Int)]
  <2>1. ASSUME NEW r \in Req PROVE text[r] \in Seq(Int) /\ Append(text[r], Placeholder) \in Seq(Int)
    BY <1>0 DEF Typed, Placeholder
  <2> QED BY <1>1, <2>1
<1>7. ASSUME NEW s \in Slot
      PROVE  /\ slots'[s] \in [Inputs : Seq(Ptr), InUse : BOOLEAN, lastUsed : Nat]
             /\ slots'[s].InUse = slots[s].InUse
             /\ \A i \in mine : seq[seqs[i]].cache = s =>
                   slots'[s].Inputs = slots[s].Inputs \o seq[seqs[i]].pendingInputs
             /\ (\A i \in mine : seq[seqs[i]].cache # s) => slots'[s] = slots[s]
  <2>1. slots[s] \in [Inputs : Seq(Ptr), InUse : BOOLEAN, lastUsed : Nat]
    BY <1>0 DEF Typed
  <2>2. CASE \E i \in mine : seq[seqs[i]].cache = s
    <3>1. of(s) \in mine /\ seq[seqs[of(s)]].cache = s
      BY <2>2
    <3> DEFINE p == pending(s)
               x == slots[s].Inputs
               y == x \o p
    <3>2. p \in Seq(Ptr)
      <4> HIDE DEF of
      <4>1. IsSequence(seq[seqs[of(s)]])
        BY <1>0, <1>2, <3>1 DEF Typed, Live
      <4> QED BY <4>1 DEF IsSequence
    <3>3. slots'[s] = [slots[s] EXCEPT !.Inputs = y]
      BY <1>1, <2>2
    <3>4. y \in Seq(Ptr)
      <4>1. x \in Seq(Ptr)
        BY <2>1
      <4> HIDE DEF x, p
      <4> QED BY <3>2, <4>1
    <3>5. ASSUME NEW i \in mine, seq[seqs[i]].cache = s
          PROVE  y = slots[s].Inputs \o seq[seqs[i]].pendingInputs
      <4> HIDE DEF of
      <4>1. seqs[i] = seqs[of(s)]
        BY <1>0, <1>2, <3>1, <3>5 DEF SlotPerPermit
      <4> QED BY <4>1
    <3> HIDE DEF y
    <3>6. slots'[s] = [Inputs |-> y, InUse |-> slots[s].InUse, lastUsed |-> slots[s].lastUsed]
      BY <2>1, <3>3
    <3>7. /\ slots'[s] \in [Inputs : Seq(Ptr), InUse : BOOLEAN, lastUsed : Nat]
          /\ slots'[s].InUse = slots[s].InUse /\ slots'[s].Inputs = y
      BY <2>1, <3>4, <3>6
    <3> QED BY <2>2, <3>5, <3>7
  <2>3. CASE ~\E i \in mine : seq[seqs[i]].cache = s
    <3>1. slots'[s] = slots[s]
      BY <1>1, <2>3
    <3> QED BY <2>1, <2>3, <3>1
  <2> QED BY <2>2, <2>3
<1>8. slots' = [s \in Slot |-> slots'[s]] /\ seq' = [r \in Req |-> seq'[r]]
  BY <1>1
<1>9. slots' \in [Slot -> [Inputs : Seq(Ptr), InUse : BOOLEAN, lastUsed : Nat]]
  BY <1>7, <1>8
<1>10. ASSUME NEW r \in Req, Is(mine, r)
       PROVE  slots'[seq[r].cache].Inputs = slots[seq[r].cache].Inputs \o seq[r].pendingInputs
  <2>1. seq[r].cache \in Slot
    BY <1>0 DEF Typed, IsSequence
  <2>2. PICK i \in mine : seqs[i] = r
    BY <1>10
  <2> QED BY <1>7, <2>1, <2>2
<1> HIDE DEF next, same, after, of, pending, sampled
<1> QED BY <1>4, <1>5, <1>6, <1>7, <1>8, <1>9, <1>10 DEF Reads, mine

LEMMA GatherInputsInv ==
    ASSUME Inv, NEW id \in DOMAIN work, GatherInputs(id), model' = model
    PROVE  Inv'
<1>0. Typed /\ Locks /\ Lives /\ SlotPerPermit /\ Pending
  BY DEF Inv
<1> DEFINE mine == SameSequences(id)
           w == work[id]
<1>1. Reads(mine)
  BY GatherReads
<1>2. /\ w.pc = "wait" /\ mu = None
      /\ UNCHANGED <<handler, permits, seqs, clock, nextSeq, fwd, prev, started, mu>>
  BY DEF GatherInputs, runVars
<1>3. /\ fwd = None /\ id = prev /\ ~started /\ IsBatch(w)
      /\ \A b \in DOMAIN work \ {id} : work[b].pc # "wait"
  BY <1>0, <1>2, NoneAssumption DEF Locks, Typed, Forward
<1> HIDE DEF mine
<1>4. /\ work' = [b \in DOMAIN work' |-> work'[b]] /\ DOMAIN work' = DOMAIN work
      /\ \A b \in DOMAIN work : IsBatch(work'[b])
      /\ work'[id].pc = "compute" /\ \A b \in DOMAIN work \ {id} : work'[b] = work[b]
  <2> DEFINE sampled == {i \in SameSequences(id) : seq[seqs[i]].inputs = <<>>}
             y == Tokens(w.batchInputs)
             z == [i \in Slot |-> IF i \in sampled THEN <<seqs[i], Len(text[seqs[i]]) + 1>> ELSE None]
             u == [i \in Slot |-> IF i \in sampled THEN seq[seqs[i]].iBatch ELSE -1]
             v == Computed(w, 0, y, z, u)
  <2>1. work' = [work EXCEPT ![id].pc = "compute", ![id].after = 0, ![id].tokens = y,
                             ![id].next = z, ![id].iBatches = u]
    BY DEF GatherInputs
  <2> HIDE DEF y, z, u
  <2>2. work' = [work EXCEPT ![id] = v]
    BY <1>0, <2>1 DEF Typed, Computed
  <2>3. IsBatch(v) /\ v.pc = "compute"
    BY <1>3, BatchRead
  <2> HIDE DEF v
  <2> QED BY <1>0, <2>2, <2>3, WorkTyped
<1>5. Typed'
  <2>1. seq' = [r \in Req |-> seq'[r]] /\ \A r \in Req : IsSequence(seq'[r])
    BY <1>0, <1>1 DEF Reads, Keeps, Typed
  <2> QED BY <1>0, <1>1, <1>2, <1>4, <2>1 DEF Typed, Reads
<1>6. Locks'
  <2>1. \A b \in DOMAIN work' : work'[b].pc # "wait"
    BY <1>3, <1>4
  <2>2. \A b \in DOMAIN work' : work'[b].pc = "decode" <=> mu = b
    BY <1>0, <1>2, <1>4 DEF Locks
  <2> QED BY <1>0, <1>2, <1>3, <2>1, <2>2 DEF Locks
<1>7. \A i \in mine : i \in Slot /\ seqs[i] \in Live
  BY <1>0 DEF mine, SameSequences, Live, Typed
<1>8. Lives'
  <2>1. Live' = Live
    BY <1>2 DEF Live
  <2>2. ASSUME NEW r \in Req, Fresh(r) PROVE Fresh(r)' /\ seq'[r] = seq[r]
    <3>1. ~\E i \in mine : seqs[i] = r
      BY <1>7, <2>2 DEF Fresh
    <3>2. seq'[r] = seq[r] /\ text'[r] = text[r]
      BY <1>1, <3>1 DEF Reads
    <3> QED BY <1>2, <2>1, <2>2, <3>2 DEF Fresh
  <2>3. ASSUME NEW r \in Req
        PROVE  /\ seq'[r].closed = seq[r].closed /\ seq'[r].embedding = seq[r].embedding
               /\ seq'[r] = seq[r] \/ seq'[r].inputs # <<>>
    <3>1. <<<<r, Len(text[r]) + 1>>>> # <<>>
      OBVIOUS
    <3> QED BY <1>1, <3>1 DEF Reads, Keeps
  <2> QED BY <1>0, <1>2, <2>1, <2>2, <2>3 DEF Lives
<1>9. SlotPerPermit'
  <2>1. \A r \in Live : seq'[r].cache = seq[r].cache
    BY <1>1 DEF Reads, Keeps, Live
  <2> QED BY <1>0, <1>1, <1>2, <2>1, PermitFrame DEF Reads
<1>10. Pending'
  <2>1. ASSUME NEW i \in Slot, seqs[i] # None, seq'[seqs[i]].pendingInputs # <<>> PROVE FALSE
    <3>1. seqs[i] \in Req
      BY <1>0, <2>1 DEF Typed
    <3>2. i \notin mine
      BY <1>1, <2>1, <3>1 DEF Reads
    <3>3. ~\E j \in mine : seqs[j] = seqs[i]
      BY <1>0, <1>7, <2>1, <3>2 DEF SlotPerPermit
    <3>4. seq'[seqs[i]] = seq[seqs[i]]
      BY <1>1, <3>1, <3>3 DEF Reads
    <3>5. work[id].seqs[i] = seqs[i]
      BY <1>0, <1>3, <2>1, <3>4 DEF Pending, InBatch
    <3> QED BY <2>1, <3>2, <3>5 DEF mine, SameSequences
  <2> QED BY <1>2, <1>3, <2>1 DEF Pending
<1> QED BY <1>5, <1>6, <1>8, <1>9, <1>10 DEF Inv

\* The loop over the slots moves on.
LEMMA DecodeRest ==
    ASSUME Typed, Locks, NEW id \in DOMAIN work, work[id].pc = "decode",
           work[id].idx < Parallel, work' = [work EXCEPT ![id].idx = work[id].idx + 1],
           UNCHANGED <<handler, clock, runVars, mu, model>>,
           seq' = [r \in Req |-> seq'[r]], \A r \in Req : IsSequence(seq'[r]),
           slots' \in [Slot -> [Inputs : Seq(Ptr), InUse : BOOLEAN, lastUsed : Nat]],
           seqs' \in [Slot -> Req \cup {None}], permits' \in Nat,
           text' \in [Req -> Seq(Int)]
    PROVE  Typed' /\ Locks'
<1> USE DEF runVars
<1> DEFINE n == work[id].idx + 1
           v == [work[id] EXCEPT !.idx = n]
<1>1. n \in 0 .. Parallel /\ IsBatch(work[id])
  BY CacheAssumption DEF Typed, IsBatch
<1>2. work' = [work EXCEPT ![id] = v]
  BY DEF Typed
<1> HIDE DEF n
<1>3. IsBatch(v) /\ v.pc = "decode"
  <2>1. IsBatch([work[id] EXCEPT !.idx = n]) /\ [work[id] EXCEPT !.idx = n].pc = work[id].pc
    BY <1>1, BatchMoves
  <2> QED BY <2>1
<1> HIDE DEF v
<1>4. /\ work' = [b \in DOMAIN work' |-> work'[b]] /\ DOMAIN work' = DOMAIN work
      /\ \A b \in DOMAIN work : IsBatch(work'[b])
      /\ work'[id] = v /\ \A b \in DOMAIN work \ {id} : work'[b] = work[b]
  BY <1>2, <1>3, WorkTyped
<1>5. Typed'
  BY <1>4 DEF Typed
<1>6. Locks'
  BY <1>3, <1>4 DEF Locks, ComputeStarted
<1> QED BY <1>5, <1>6

\* The output of a slot is decoded under the lock: no batch is being built, and the one
\* that has not read its tokens, if any, is another one.
LEMMA Decoding ==
    ASSUME Typed, Locks, NEW id \in DOMAIN work, work[id].pc = "decode",
           work' = [work EXCEPT ![id].idx = work[id].idx + 1]
    PROVE  /\ fwd = None
           /\ prev \in DOMAIN work /\ work[prev].pc = "wait" =>
                 /\ prev \in DOMAIN work' /\ work'[prev].pc = "wait"
                 /\ work'[prev].batchInputs = work[prev].batchInputs
                 /\ work'[prev].seqs = work[prev].seqs
<1>1. fwd = None
  BY DEF Locks, Typed, Forward
<1>2. DOMAIN work' = DOMAIN work /\ \A b \in DOMAIN work \ {id} : work'[b] = work[b]
  BY DEF Typed
<1> QED BY <1>1, <1>2

\* What is pending after a sequence has been removed.
LEMMA RemovesPending ==
    ASSUME Typed, SlotPerPermit, Pending, NEW i \in Slot, seqs[i] # None, Removes(i),
           fwd = None, fwd' = None, prev' = prev,
           prev \in DOMAIN work /\ work[prev].pc = "wait" =>
              /\ prev \in DOMAIN work' /\ work'[prev].pc = "wait"
              /\ work'[prev].batchInputs = work[prev].batchInputs
              /\ work'[prev].seqs = work[prev].seqs
    PROVE  Pending'
<1>1. ASSUME NEW j \in Slot, seqs'[j] # None, seq'[seqs'[j]].pendingInputs # <<>> PROVE InBatch(j)'
  <2>1. j # i /\ seqs'[j] = seqs[j]
    BY <1>1 DEF Removes, Typed
  <2>2. seq'[seqs[j]] = seq[seqs[j]]
    BY <1>1, <2>1 DEF Removes, Typed, SlotPerPermit
  <2>3. InBatch(j)
    BY <1>1, <2>1, <2>2 DEF Pending
  <2> QED BY <2>1, <2>2, <2>3 DEF InBatch
<1> QED BY <1>1 DEF Pending

LEMMA DecodeRemoves ==
    ASSUME Inv, NEW id \in DOMAIN work, work[id].pc = "decode",
           work[id].idx < Parallel, work' = [work EXCEPT ![id].idx = work[id].idx + 1],
           UNCHANGED <<handler, clock, runVars, mu, model>>,
           NEW i \in Slot, seqs[i] # None, Removes(i),
           text' \in [Req -> Seq(Int)], \A r \in Req : Len(text'[r]) = Len(text[r])
    PROVE  Inv'
<1>0. Typed /\ Locks /\ Lives /\ SlotPerPermit /\ Pending
  BY DEF Inv
<1>1. Removes(i)
  OBVIOUS
<1>2. SlotPerPermit' /\ Lives'
  BY <1>0, <1>1, RemovesPermit, RemovesLives
<1>3. Typed' /\ Locks'
  <2>1. /\ seq' = [q \in Req |-> seq'[q]] /\ \A q \in Req : IsSequence(seq'[q])
        /\ slots' \in [Slot -> [Inputs : Seq(Ptr), InUse : BOOLEAN, lastUsed : Nat]]
        /\ seqs' = [seqs EXCEPT ![i] = None] /\ permits' = permits + 1
    BY <1>1 DEF Removes
  <2>2. seqs' \in [Slot -> Req \cup {None}]
    BY <1>0, <2>1 DEF Typed
  <2>3. permits' \in Nat
    BY <1>0, <2>1 DEF Typed
  <2> QED BY <1>0, <2>1, <2>2, <2>3, DecodeRest
<1>4. Pending'
  <2>1. fwd' = fwd /\ prev' = prev
    BY DEF runVars
  <2> QED BY <1>0, <1>1, <2>1, Decoding, RemovesPending
<1> QED BY <1>2, <1>3, <1>4 DEF Inv

LEMMA DecodeAlike ==
    ASSUME Inv, NEW id \in DOMAIN work, work[id].pc = "decode",
           work[id].idx < Parallel, work' = [work EXCEPT ![id].idx = work[id].idx + 1],
           UNCHANGED <<handler, clock, runVars, mu, model>>,
           UNCHANGED <<seqs, slots, permits>>,
           NEW r \in Req, NEW s, Alike(s, seq[r]), seq' = [seq EXCEPT ![r] = s],
           text' \in [Req -> Seq(Int)], \A q \in Req : Len(text'[q]) = Len(text[q])
    PROVE  Inv'
<1>0. Typed /\ Locks
  BY DEF Inv
<1>1. fwd' = fwd /\ prev' = prev
  BY DEF runVars
<1>2. /\ seq' = [q \in Req |-> seq'[q]] /\ \A q \in Req : IsSequence(seq'[q])
      /\ Lives' /\ SlotPerPermit' /\ Pending'
  BY <1>0, <1>1, Decoding, AlikeInv
<1>3. Typed' /\ Locks'
  <2>1. /\ slots' \in [Slot -> [Inputs : Seq(Ptr), InUse : BOOLEAN, lastUsed : Nat]]
        /\ seqs' \in [Slot -> Req \cup {None}] /\ permits' \in Nat
    BY <1>0 DEF Typed
  <2> QED BY <1>0, <1>2, <2>1, DecodeRest
<1> QED BY <1>2, <1>3 DEF Inv

\* A prefix of a list, however long it is asked to be.
LEMMA PrefixTyped ==
    ASSUME NEW S, NEW x \in Seq(S), NEW n \in Int, n <= Len(x)
    PROVE  SubSeq(x, 1, n) \in Seq(S)
<1>1. CASE n >= 0
  <2>1. n \in 0 .. Len(x)
    BY <1>1
  <2> QED BY <2>1, Cut
<1>2. CASE n < 0
  <2>1. SubSeq(x, 1, n) = <<>>
    BY <1>2
  <2> QED BY <2>1
<1> QED BY <1>1, <1>2

\* Decoding a slot ends its sequence or changes no more than its output.
Decodes(i) ==
    \/ Removes(i)
    \/ /\ UNCHANGED <<seqs, slots, permits>>
       /\ \E s : Alike(s, seq[seqs[i]]) /\ seq' = [seq EXCEPT ![seqs[i]] = s]

LEMMA HitStopRemoves ==
    ASSUME Typed, NEW i \in Slot, seqs[i] # None, NEW s, Alike(s, seq[seqs[i]]), NEW k \in Nat,
           NEW tokenTruncated \in BOOLEAN, HitStop(i, s, k, tokenTruncated)
    PROVE  Removes(i)
<1> DEFINE held == slots[s.cache].Inputs
           tokenLen == Len(held) + 1 - k - (IF tokenTruncated \/ k = 0 THEN 1 ELSE 0)
           kept == SubSeq(s.pendingResponses, 1, Len(s.pendingResponses) - k)
           t == [s EXCEPT !.pendingResponses = kept]
           inputs == SubSeq(held, 1, tokenLen)
<1>1. removeSequence(i, t, inputs, "stop")
  BY DEF HitStop
<1>2. IsSequence(s) /\ s.cache = seq[seqs[i]].cache
  BY DEF Alike
<1> HIDE DEF kept
<1>3. Alike(t, s)
  BY <1>2, OutputFields
<1> HIDE DEF t
<1>4. inputs \in Seq(Ptr)
  <2>1. held \in Seq(Ptr)
    BY <1>2 DEF Typed, IsSequence
  <2> HIDE DEF held
  <2>2. Len(held) \in Nat /\ tokenLen \in Int /\ tokenLen <= Len(held)
    BY <2>1
  <2> HIDE DEF tokenLen
  <2> QED BY <2>1, <2>2, PrefixTyped
<1> HIDE DEF inputs
<1>5. IsSequence(t) /\ t.cache = seq[seqs[i]].cache
  BY <1>2, <1>3 DEF Alike
<1> QED BY <1>1, <1>4, <1>5, RemoveIs

LEMMA DecodeTokenDoes ==
    ASSUME Typed, NEW id \in DOMAIN work, NEW i \in Slot, seqs[i] # None, DecodeToken(id, i)
    PROVE  /\ text' \in [Req -> Seq(Int)] /\ \A q \in Req : Len(text'[q]) = Len(text[q])
           /\ Decodes(i)
<1> DEFINE r == seqs[i]
           ptr == work[id].next[i]
           row == work[id].outputs[work[id].iBatches[i] + 1]
           held == slots[seq[r].cache].Inputs
           p == Append(seq[r].pendingResponses, <<row[1], row[2] + 1>>)
           s == [seq[r] EXCEPT !.pendingResponses = p]
<1>1. r \in Req /\ IsSequence(seq[r])
  BY DEF Typed
<1>2. held \in Seq(Ptr)
  BY <1>1 DEF Typed, IsSequence
<1>3. text' \in [Req -> Seq(Int)] /\ \A q \in Req : Len(text'[q]) = Len(text[q])
  <2>1. \E v \in Int : text' = [text EXCEPT ![ptr[1]][ptr[2]] = v]
    <3>1. Eos \in Int /\ Vocab \subseteq Int
      BY RunnerAssumption DEF Eos
    <3> QED BY <3>1 DEF DecodeToken
  <2> HIDE DEF ptr
  <2> QED BY <2>1, Written DEF Typed
<1>4. Alike(s, seq[r])
  <2> HIDE DEF p
  <2> QED BY <1>1, OutputFields
<1>5. CASE removeSequence(i, seq[r], held, "stop")
  <2> HIDE DEF held
  <2>1. Removes(i)
    BY <1>1, <1>2, <1>5, RemoveIs
  <2> QED BY <1>3, <2>1 DEF Decodes
<1>6. ASSUME NEW k \in 0 .. Len(s.pendingResponses), NEW b \in BOOLEAN, HitStop(i, s, k, b)
      PROVE  Decodes(i)
  <2> HIDE DEF s
  <2>1. k \in Nat
    OBVIOUS
  <2> QED BY <1>4, <1>6, <2>1, HitStopRemoves DEF Decodes
<1>7. CASE seq' = [seq EXCEPT ![r] = s] /\ UNCHANGED <<seqs, slots, permits>>
  <2> HIDE DEF s
  <2>1. \E u : Alike(u, seq[seqs[i]]) /\ seq' = [seq EXCEPT ![seqs[i]] = u]
    BY <1>4, <1>7
  <2> QED BY <1>3, <1>7, <2>1 DEF Decodes
<1>8. ASSUME NEW f \in flushPending(s),
             IF f.ok THEN seq' = [seq EXCEPT ![r] = f.seq] /\ UNCHANGED <<seqs, slots, permits>>
                     ELSE removeSequence(i, f.seq, held, "closed")
      PROVE  Decodes(i)
  <2> HIDE DEF s
  <2>1. Alike(f.seq, s)
    BY <1>4, FlushFields DEF Alike
  <2>2. Alike(f.seq, seq[r])
    BY <1>4, <2>1 DEF Alike
  <2>3. CASE f.ok
    BY <1>8, <2>2, <2>3 DEF Decodes
  <2>4. CASE ~f.ok
    <3>1. IsSequence(f.seq) /\ f.seq.cache = seq[seqs[i]].cache
      BY <2>2 DEF Alike
    <3> HIDE DEF held
    <3> QED BY <1>2, <1>8, <2>4, <3>1, RemoveIs DEF Decodes
  <2> QED BY <2>3, <2>4
<1>9. s = [seq[r] EXCEPT !.pendingResponses = Append(@, <<row[1], row[2] + 1>>)]
  OBVIOUS
<1> HIDE DEF s, p
<1>10. \/ removeSequence(i, seq[r], held, "stop")
       \/ \E k \in 0 .. Len(s.pendingResponses), b \in BOOLEAN : HitStop(i, s, k, b)
       \/ seq' = [seq EXCEPT ![r] = s] /\ UNCHANGED <<seqs, slots, permits>>
       \/ \E f \in flushPending(s) :
             IF f.ok THEN seq' = [seq EXCEPT ![r] = f.seq] /\ UNCHANGED <<seqs, slots, permits>>
                     ELSE removeSequence(i, f.seq, held, "closed")
  BY <1>9 DEF DecodeToken
<1> QED BY <1>3, <1>5, <1>6, <1>7, <1>8, <1>10

LEMMA DecodeDoes ==
    ASSUME Typed, NEW id \in DOMAIN work, DecodeSlot(id)
    PROVE  LET i == work[id].idx IN
           /\ i \in Slot
           /\ text' \in [Req -> Seq(Int)] /\ \A q \in Req : Len(text'[q]) = Len(text[q])
           /\ UNCHANGED <<seqs, seq, slots, permits>> \/ (seqs[i] # None /\ Decodes(i))
<1> DEFINE i == work[id].idx
           r == seqs[i]
<1>1. i \in Slot
  BY CacheAssumption DEF DecodeSlot, Typed, IsBatch, Slot
<1>2. CASE UNCHANGED <<seqs, seq, slots, permits, text>>
  BY <1>1, <1>2 DEF Typed
<1>3. CASE /\ r # None /\ text' = text
           /\ removeSequence(i, [seq[r] EXCEPT !.embedding = TRUE], slots[seq[r].cache].Inputs, "stop")
  <2> DEFINE s == [seq[r] EXCEPT !.embedding = TRUE]
             held == slots[seq[r].cache].Inputs
  <2>1. IsSequence(seq[r]) /\ r \in Req
    BY <1>1, <1>3 DEF Typed
  <2>2. held \in Seq(Ptr)
    BY <2>1 DEF Typed, IsSequence
  <2>3. IsSequence(s) /\ s.cache = seq[r].cache
    BY <2>1, FlagFields
  <2> HIDE DEF s, held
  <2>4. removeSequence(i, s, held, "stop")
    BY <1>3 DEF s, held
  <2> HIDE DEF i
  <2>5. Removes(i)
    BY <1>1, <1>3, <2>2, <2>3, <2>4, RemoveIs
  <2> QED BY <1>1, <1>3, <2>5 DEF Decodes, Typed, i
<1>4. CASE r # None /\ DecodeToken(id, i)
  <2> HIDE DEF i
  <2> QED BY <1>1, <1>4, DecodeTokenDoes DEF i
<1> QED BY <1>2, <1>3, <1>4 DEF DecodeSlot

LEMMA DecodeSlotInv ==
    ASSUME Inv, NEW id \in DOMAIN work, DecodeSlot(id), model' = model
    PROVE  Inv'
<1>0. Typed /\ Locks /\ Lives /\ SlotPerPermit /\ Pending
  BY DEF Inv
<1> DEFINE i == work[id].idx
           r == seqs[i]
<1>1. /\ work[id].pc = "decode" /\ i < Parallel /\ work' = [work EXCEPT ![id].idx = i + 1]
      /\ UNCHANGED <<handler, clock, runVars, mu, model>>
  BY DEF DecodeSlot
<1>2. /\ i \in Slot
      /\ text' \in [Req -> Seq(Int)] /\ \A q \in Req : Len(text'[q]) = Len(text[q])
      /\ UNCHANGED <<seqs, seq, slots, permits>> \/ (r # None /\ Decodes(i))
  BY <1>0, DecodeDoes
<1>3. CASE UNCHANGED <<seqs, seq, slots, permits>>
  <2>1. fwd' = fwd /\ prev' = prev
    BY <1>1 DEF runVars
  <2>2. Typed' /\ Locks'
    <3>1. /\ seq' = [q \in Req |-> seq'[q]] /\ \A q \in Req : IsSequence(seq'[q])
          /\ slots' \in [Slot -> [Inputs : Seq(Ptr), InUse : BOOLEAN, lastUsed : Nat]]
          /\ seqs' \in [Slot -> Req \cup {None}] /\ permits' \in Nat
      BY <1>0, <1>3 DEF Typed
    <3> QED BY <1>0, <1>1, <1>2, <3>1, DecodeRest
  <2>3. Lives' /\ SlotPerPermit'
    BY <1>0, <1>1, <1>2, <1>3, LivesFrame, PermitFrame
  <2>4. Pending'
    BY <1>0, <1>1, <1>3, <2>1, Decoding, PendingFrame
  <2> QED BY <2>2, <2>3, <2>4 DEF Inv
<1>4. CASE r # None /\ Removes(i)
  <2> HIDE DEF i
  <2> QED BY <1>1, <1>2, <1>4, DecodeRemoves DEF i
<1>5. CASE /\ r # None /\ UNCHANGED <<seqs, slots, permits>>
           /\ \E s : Alike(s, seq[r]) /\ seq' = [seq EXCEPT ![r] = s]
  <2>1. r \in Req
    BY <1>0, <1>2, <1>5 DEF Typed
  <2> HIDE DEF r
  <2> QED BY <1>1, <1>2, <1>5, <2>1, DecodeAlike
<1> QED BY <1>2, <1>3, <1>4, <1>5 DEF Decodes

LEMMA DecodeBeginInv ==
    ASSUME Inv, NEW id \in DOMAIN work, DecodeBegin(id), model' = model
    PROVE  Inv'
<1>0. Typed /\ Locks /\ Lives /\ SlotPerPermit /\ Pending
  BY DEF Inv
<1> USE DEF DecodeBegin, cacheVars, runVars
<1> DEFINE v == [work[id] EXCEPT !.pc = "decode"]
<1>1. IsBatch(v) /\ v.pc = "decode"
  <2>1. IsBatch(work[id])
    BY <1>0 DEF Typed
  <2>2. IsBatch([work[id] EXCEPT !.pc = "decode"]) /\ [work[id] EXCEPT !.pc = "decode"].pc = "decode"
    BY <2>1 DEF IsBatch
  <2> QED BY <2>2
<1>2. work' = [work EXCEPT ![id] = v]
  BY <1>0 DEF Typed
<1> HIDE DEF v
<1>3. /\ work' = [b \in DOMAIN work' |-> work'[b]] /\ DOMAIN work' = DOMAIN work
      /\ \A b \in DOMAIN work : IsBatch(work'[b])
      /\ work'[id] = v /\ \A b \in DOMAIN work \ {id} : work'[b] = work[b]
  BY <1>0, <1>1, <1>2, WorkTyped
<1>4. Typed'
  BY <1>0, <1>3 DEF Typed
<1>5. mu = None /\ mu' = id /\ work[id].pc = "compute" /\ fwd' = None
      /\ \A b \in DOMAIN work : work[b].pc # "decode" /\ b # 0
  BY <1>0, NoneAssumption DEF Locks, Typed, Forward
<1>6. Locks'
  BY <1>0, <1>1, <1>3, <1>5 DEF Locks, Forward
<1>7. Lives' /\ SlotPerPermit'
  BY <1>0, LivesFrame, PermitFrame
<1>8. Pending'
  <2>1. prev \in DOMAIN work /\ work[prev].pc = "wait" => prev \in DOMAIN work' /\ work'[prev] = work[prev]
    BY <1>3, <1>5
  <2> QED BY <1>0, <2>1, PendingFrame
<1> QED BY <1>4, <1>6, <1>7, <1>8 DEF Inv

LEMMA DecodeEndInv ==
    ASSUME Inv, NEW id \in DOMAIN work, DecodeEnd(id), model' = model
    PROVE  Inv'
<1>0. Typed /\ Locks /\ Lives /\ SlotPerPermit /\ Pending
  BY DEF Inv
<1> USE DEF DecodeEnd, cacheVars, runVars
<1>1. /\ DOMAIN work' = DOMAIN work \ {id} /\ work' = [b \in DOMAIN work' |-> work'[b]]
      /\ \A b \in DOMAIN work \ {id} : work'[b] = work[b]
  OBVIOUS
<1>2. IsFiniteSet(DOMAIN work')
  BY <1>0, <1>1, FS_RemoveElement DEF Typed
<1>3. Typed'
  BY <1>0, <1>1, <1>2 DEF Typed
<1>4. /\ mu = id /\ mu' = None /\ work[id].pc = "decode" /\ fwd = None
      /\ \A b \in DOMAIN work : b # None
  BY <1>0, NoneAssumption DEF Locks, Typed, Forward
<1>5. Locks'
  BY <1>0, <1>1, <1>4, NoneAssumption DEF Locks, Forward
<1>6. Lives' /\ SlotPerPermit'
  BY <1>0, LivesFrame, PermitFrame
<1>7. Pending'
  <2>1. prev \in DOMAIN work /\ work[prev].pc = "wait" => prev \in DOMAIN work' /\ work'[prev] = work[prev]
    BY <1>1, <1>4
  <2> QED BY <1>0, <2>1, PendingFrame
<1> QED BY <1>3, <1>5, <1>6, <1>7 DEF Inv

-----------------------------------------------------------------------------
(* The theorems.                                                           *)

LEMMA InvInit == Init => Inv
<1> SUFFICES ASSUME Init PROVE Inv
  OBVIOUS
<1> USE DEF Init
<1>1. seqs = [i \in Slot |-> None] /\ Live = {} /\ Parallel \in Nat /\ Parallel >= 1
  BY CacheAssumption, RunnerAssumption DEF Live
<1>2. /\ IsSequence(NoSequence) /\ NoSequence.closed = FALSE /\ NoSequence.embedding = FALSE
      /\ NoSequence.pendingInputs = <<>>
  BY CacheAssumption DEF NoSequence, IsSequence, Slot
<1>3. \A r \in Req : seq[r] = NoSequence
  OBVIOUS
<1>4. Typed
  <2>1. handler \in [Req -> {"new", "acquire", "insert", "stream", "done", "gone", "failed"}]
    OBVIOUS
  <2>2. seq = [r \in Req |-> seq[r]] /\ \A r \in Req : IsSequence(seq[r])
    BY <1>2
  <2>3. text \in [Req -> Seq(Int)]
    OBVIOUS
  <2>4. slots \in [Slot -> [Inputs : Seq(Ptr), InUse : BOOLEAN, lastUsed : Nat]]
    OBVIOUS
  <2>5. DOMAIN work = {} /\ work = [id \in DOMAIN work |-> work[id]] /\ IsFiniteSet({})
    BY FS_EmptySet
  <2> QED BY <1>1, <2>1, <2>2, <2>3, <2>4, <2>5 DEF Typed
<1>5. Locks
  BY NoneAssumption DEF Locks, Forward
<1>6. Lives
  BY <1>1, <1>2, <1>3 DEF Lives, Fresh
<1>7. SlotPerPermit
  <2>1. {r \in Req : handler[r] = "insert"} = {}
    OBVIOUS
  <2>2. permits + Cardinality(Live) + Cardinality({r \in Req : handler[r] = "insert"}) = Parallel
    <3>1. Cardinality({}) = 0 /\ permits = Parallel
      BY FS_EmptySet
    <3>2. Cardinality(Live) = 0 /\ Cardinality({r \in Req : handler[r] = "insert"}) = 0
      BY <1>1, <2>1, <3>1
    <3> QED BY <1>1, <3>1, <3>2
  <2>3. \A s \in Slot : slots[s].InUse = FALSE
    OBVIOUS
  <2> QED BY <1>1, <2>2, <2>3 DEF SlotPerPermit
<1>8. Pending
  BY DEF Pending
<1> QED BY <1>4, <1>5, <1>6, <1>7, <1>8 DEF Inv

LEMMA InvNext == Inv /\ [Next]_vars => Inv'
<1> SUFFICES ASSUME Inv, [Next]_vars PROVE Inv'
  OBVIOUS
<1>1. ASSUME UNCHANGED vars PROVE Inv'
  <2> USE <1>1 DEF vars
  <2>0. Typed /\ Locks /\ Lives /\ SlotPerPermit /\ Pending
    BY DEF Inv
  <2>1. Typed' /\ Locks'
    BY <2>0 DEF Typed, Locks, ComputeStarted
  <2>2. Lives' /\ SlotPerPermit' /\ Pending'
    BY <2>0, LivesFrame, PermitFrame, PendingFrame
  <2> QED BY <2>1, <2>2 DEF Inv
<1>2. ASSUME NEW r \in Req, Handle(r) \/ Disconnect(r), model' = model PROVE Inv'
  BY <1>2, NewSequenceInv, AcquireInv, InsertInv, ReceiveInv, ReceiveEmbeddingInv,
     DisconnectInv DEF Handle
<1>3. ASSUME ForwardBatch, model' = model PROVE Inv'
  <2>1. CASE ForwardBegin
    BY <1>3, <2>1, ForwardBeginInv DEF ForwardBegin
  <2>2. CASE ForwardSlot
    BY <1>3, <2>2, ForwardSlotInv
  <2>3. CASE ForwardEnd
    BY <1>3, <2>3, ForwardEndInv DEF ForwardEnd
  <2> QED BY <1>3, <2>1, <2>2, <2>3 DEF ForwardBatch
<1>4. ASSUME NotifyStarted, model' = model PROVE Inv'
  BY <1>4, NotifyStartedInv DEF NotifyStarted
<1>5. ASSUME NEW id \in DOMAIN work, ComputeBatch(id), model' = model PROVE Inv'
  BY <1>5, GatherInputsInv, DecodeBeginInv, DecodeSlotInv, DecodeEndInv DEF ComputeBatch
<1> QED BY <1>1, <1>2, <1>3, <1>4, <1>5 DEF Next, Running, Finished

THEOREM InvHolds == Spec => []Inv
BY InvInit, InvNext, PTL DEF Spec

\* A permit of seqsSem stands for a free place in seqs and a free cache slot: whatever
\* forwardBatch and computeBatch remove while handlers insert, LoadCache never fails,
\* the search for an empty place never comes back empty, and no cache slot has two
\* sequences (completion, LoadCacheSlot and removeSequence).
THEOREM RunnerSlotPerPermit == Spec => []SlotPerPermit
<1>1. Inv => SlotPerPermit
  BY DEF Inv
<1> QED BY <1>1, InvHolds, PTL

\* forwardBatch never finds a sequence half way into a batch: what is pending is in the
\* batch it is building, or in the one computeBatch has not read the tokens of.
THEOREM RunnerPendingInOneBatch == Spec => []PendingInOneBatch
<1>1. Inv => PendingInOneBatch
  <2> SUFFICES ASSUME Inv, NEW r \in Live, seq[r].pendingInputs # <<>>
               PROVE  \/ fwd # None /\ ToSet(seq[r].pendingInputs) \subseteq ToSet(fwd.inputs)
                      \/ /\ prev \in DOMAIN work
                         /\ work[prev].pc = "wait"
                         /\ ToSet(seq[r].pendingInputs) \subseteq ToSet(work[prev].batchInputs)
    BY DEF PendingInOneBatch
  <2>1. PICK i \in Slot : seqs[i] = r
    BY DEF Live
  <2>2. seqs[i] # None
    BY <2>1, RunnerAssumption DEF Live
  <2>3. InBatch(i)
    BY <2>1, <2>2 DEF Inv, Pending
  <2> QED BY <2>1, <2>3 DEF InBatch
<1> QED BY <1>1, InvHolds, PTL

-----------------------------------------------------------------------------
(***************************************************************************)
(* The context of a sequence.                                              *)
(*                                                                         *)
(* HistoryOf takes a sequence apart: what its cache slot holds, what a     *)
(* batch in flight carries and what is left.  Lemmas about lists say what  *)
(* each operation does to the three; the rest follows from the invariant   *)
(* above, since sequences in seqs have cache slots of their own.           *)
(* A model without a KV cache is left out: its inputs are evaluated again  *)
(* for every token, and what is evaluated may outgrow the batch.           *)
(***************************************************************************)

\* c is what is left of the first n inputs of r when shifts discarded the oldest of
\* those behind the inputs to keep.
IsHistory(c, r, n) ==
    LET keep == Lesser(numKeep(r), n) IN
    /\ Len(c) <= n /\ Len(c) >= keep
    /\ \A k \in 1 .. Len(c) : c[k] = <<r, IF k <= keep THEN k ELSE n - Len(c) + k>>

\* An input is made for the token that is sampled next.
LEMMA HistoryAppend ==
    ASSUME NEW r \in Req, NEW n \in Nat, NEW c \in Seq(Ptr), IsHistory(c, r, n)
    PROVE  IsHistory(c \o <<<<r, n + 1>>>>, r, n + 1)
<1> DEFINE m == numKeep(r)
           e == <<<<r, n + 1>>>>
           d == c \o e
<1>1. m \in Nat /\ Len(c) \in Nat
  BY KeepBounds
<1>2. e \in Seq(Ptr) /\ Len(e) = 1 /\ e[1] = <<r, n + 1>>
  BY DEF Ptr
<1> HIDE DEF m, e
<1>3. /\ Len(d) = Len(c) + 1
      /\ \A k \in 1 .. Len(c) + 1 : d[k] = IF k <= Len(c) THEN c[k] ELSE e[k - Len(c)]
  <2>1. e \in Seq(Ptr)
    BY <1>2
  <2>2. /\ Len(c \o e) = Len(c) + Len(e)
        /\ \A k \in 1 .. Len(c) + Len(e) : (c \o e)[k] = IF k <= Len(c) THEN c[k] ELSE e[k - Len(c)]
    BY <2>1, ConcatProperties
  <2> HIDE DEF d
  <2>3. Len(d) = Len(c) + Len(e)
        /\ \A k \in 1 .. Len(c) + Len(e) : d[k] = IF k <= Len(c) THEN c[k] ELSE e[k - Len(c)]
    BY <2>2 DEF d
  <2> QED BY <1>2, <2>3
<1> HIDE DEF d
<1>4. /\ Len(c) <= n /\ Len(c) >= Lesser(m, n)
      /\ \A k \in 1 .. Len(c) : c[k] = <<r, IF k <= Lesser(m, n) THEN k ELSE n - Len(c) + k>>
  BY DEF IsHistory, m
<1>5. ASSUME NEW k \in 1 .. Len(c) + 1
      PROVE  d[k] = <<r, IF k <= Lesser(m, n + 1) THEN k ELSE (n + 1) - (Len(c) + 1) + k>>
  <2>1. CASE k = Len(c) + 1
    <3>1. d[k] = <<r, n + 1>>
      BY <1>1, <1>2, <1>3, <2>1
    <3>2. (IF k <= Lesser(m, n + 1) THEN k ELSE (n + 1) - (Len(c) + 1) + k) = n + 1
      BY <1>1, <1>4, <2>1 DEF Lesser
    <3> QED BY <3>1, <3>2
  <2>2. CASE k \in 1 .. Len(c)
    <3>1. d[k] = <<r, IF k <= Lesser(m, n) THEN k ELSE n - Len(c) + k>>
      BY <1>1, <1>3, <1>4, <2>2
    <3>2. (IF k <= Lesser(m, n) THEN k ELSE n - Len(c) + k)
             = IF k <= Lesser(m, n + 1) THEN k ELSE (n + 1) - (Len(c) + 1) + k
      BY <1>1, <1>4, <2>2 DEF Lesser
    <3> QED BY <3>1, <3>2
  <2> QED BY <1>1, <2>1, <2>2
<1>6. Len(d) <= n + 1 /\ Len(d) >= Lesser(m, n + 1)
  BY <1>1, <1>3, <1>4 DEF Lesser
<1> QED BY <1>3, <1>5, <1>6 DEF IsHistory, m, d, e

\* A full cache slot is shifted in front of what follows.
LEMMA HistoryShift ==
    ASSUME NEW r \in Req, NEW n \in Nat, NEW x \in Seq(Ptr), NEW y \in Seq(Ptr),
           Len(x) = NumCtx, Len(y) >= 1, IsHistory(x \o y, r, n)
    PROVE  LET c == Shifted(x, numKeep(r)) \o y
           IN  IsHistory(c, r, n) /\ Len(c) <= Len(y) + NumCtx - 1
<1> DEFINE m == numKeep(r)
           d == ShiftDiscard(x, m)
           z == Shifted(x, m)
           old == x \o y
           c == z \o y
<1>1. /\ m \in Nat /\ m < NumCtx /\ NumCtx \in Nat /\ Len(x) \in Nat /\ Len(y) \in Nat
  BY KeepBounds, CacheAssumption
<1>2. /\ d \in 1 .. NumCtx - m /\ z \in Seq(Ptr) /\ Len(z) = NumCtx - d
      /\ \A k \in 1 .. Len(z) : z[k] = IF k <= m THEN x[k] ELSE x[k + d]
  BY KeepBounds, ShiftedIs
<1> HIDE DEF m, d, z
<1>3. /\ Len(old) = NumCtx + Len(y)
      /\ \A k \in 1 .. NumCtx + Len(y) : old[k] = IF k <= NumCtx THEN x[k] ELSE y[k - NumCtx]
  BY ConcatProperties
<1>4. /\ Len(c) = Len(z) + Len(y)
      /\ \A k \in 1 .. Len(z) + Len(y) : c[k] = IF k <= Len(z) THEN z[k] ELSE y[k - Len(z)]
  BY <1>2, ConcatProperties
<1> HIDE DEF old, c
<1>5. /\ Len(old) <= n /\ Lesser(m, n) = m
      /\ \A k \in 1 .. Len(old) : old[k] = <<r, IF k <= m THEN k ELSE n - Len(old) + k>>
  <2>1. IsHistory(old, r, n)
    BY DEF old
  <2>2. Lesser(m, n) = m
    BY <1>1, <1>3, <2>1 DEF Lesser, IsHistory
  <2> QED BY <2>1, <2>2 DEF IsHistory, m
<1>6. ASSUME NEW k \in 1 .. Len(c) PROVE c[k] = IF k <= m THEN old[k] ELSE old[k + d]
  <2>1. CASE k <= Len(z)
    <3>1. c[k] = IF k <= m THEN x[k] ELSE x[k + d]
      BY <1>1, <1>2, <1>4, <2>1
    <3> QED BY <1>1, <1>2, <1>3, <1>4, <2>1, <3>1
  <2>2. CASE k > Len(z)
    <3>1. c[k] = y[k - Len(z)]
      <4>1. Len(z) \in Nat
        BY <1>1, <1>2
      <4>2. k \in 1 .. Len(z) + Len(y) /\ ~(k <= Len(z))
        BY <1>1, <1>4, <2>2, <4>1
      <4> QED BY <1>4, <4>2
    <3>2. k > m /\ k + d \in 1 .. NumCtx + Len(y) /\ ~(k + d <= NumCtx)
          /\ k + d - NumCtx = k - Len(z)
      BY <1>1, <1>2, <1>4, <2>2
    <3> DEFINE j == k + d
    <3>3. j \in 1 .. NumCtx + Len(y) /\ ~(j <= NumCtx) /\ j - NumCtx = k - Len(z)
      BY <1>1, <1>2, <1>4, <2>2, <3>2
    <3> HIDE DEF j
    <3>4. old[j] = y[j - NumCtx]
      BY <1>3, <3>3
    <3>5. old[j] = c[k]
      BY <3>1, <3>3, <3>4
    <3> QED BY <1>1, <1>2, <1>4, <3>2, <3>5 DEF j
  <2> QED BY <1>1, <1>2, <2>1, <2>2
<1>7. ASSUME NEW k \in 1 .. Len(c) PROVE c[k] = <<r, IF k <= m THEN k ELSE n - Len(c) + k>>
  <2>1. CASE k <= m
    <3>1. k \in 1 .. Len(old) /\ c[k] = old[k]
      BY <1>1, <1>2, <1>3, <1>4, <1>6, <2>1
    <3> QED BY <1>5, <2>1, <3>1
  <2>2. CASE k > m
    <3>1. k + d \in 1 .. Len(old) /\ c[k] = old[k + d] /\ ~(k + d <= m) /\ ~(k <= m)
      BY <1>1, <1>2, <1>3, <1>4, <1>6, <2>2
    <3>2. n - Len(old) + (k + d) = n - Len(c) + k
      BY <1>1, <1>2, <1>3, <1>4, <3>1
    <3>3. c[k] = <<r, n - Len(old) + (k + d)>>
      BY <1>5, <3>1
    <3> QED BY <3>1, <3>2, <3>3
  <2> QED BY <1>1, <2>1, <2>2
<1>8. Len(c) <= n /\ Len(c) >= m /\ Len(c) <= Len(y) + NumCtx - 1
  BY <1>1, <1>2, <1>3, <1>4, <1>5
<1>9. IsHistory(c, r, n)
  BY <1>5, <1>7, <1>8 DEF IsHistory, m
<1> QED BY <1>8, <1>9 DEF c, z, m

\* A prompt is its own history.
LEMMA HistoryPrompt ==
    ASSUME NEW r \in Req, NEW n \in Nat, NEW c \in Seq(Ptr),
           c = [k \in 1 .. n |-> <<r, k>>]
    PROVE  IsHistory(c, r, n) /\ Len(c) = n
<1>1. Len(c) = n /\ \A k \in 1 .. n : c[k] = <<r, k>>
  <2>1. DOMAIN c = 1 .. n /\ Len(c) \in Nat /\ DOMAIN c = 1 .. Len(c)
    OBVIOUS
  <2> QED BY <2>1
<1>2. numKeep(r) \in Nat
  BY KeepBounds
<1>3. Lesser(numKeep(r), n) <= n
  BY <1>2 DEF Lesser
<1>4. ASSUME NEW k \in 1 .. n
      PROVE  c[k] = <<r, IF k <= Lesser(numKeep(r), n) THEN k ELSE n - n + k>>
  BY <1>1
<1> QED BY <1>1, <1>3, <1>4 DEF IsHistory

\* A list cut in two and put together again.
LEMMA CutAgain ==
    ASSUME NEW x \in Seq(Ptr), NEW n \in 0 .. Len(x)
    PROVE  SubSeq(x, 1, n) \o SubSeq(x, n + 1, Len(x)) = x
<1>1. Len(x) \in Nat /\ 1 \in 1 .. Len(x) + 1 /\ n \in 1 - 1 .. Len(x) /\ Len(x) \in n .. Len(x)
  OBVIOUS
<1>2. SubSeq(x, 1, n) \o SubSeq(x, n + 1, Len(x)) = SubSeq(x, 1, Len(x))
  BY <1>1, ConcatAdjacentSubSeq
<1> QED BY <1>2, SubSeqFull

\* The cache slot holds h, p is on its way there and x is left to evaluate: together
\* they are the history of the n inputs of r, and what is cached fits the slot.
HistoryOf(r, n, h, p, x) ==
    /\ IsHistory(h \o p \o x, r, n)
    /\ Len(h) + Len(p) <= NumCtx
    /\ Len(h) + Len(p) + Len(x) <= NumCtx \/ Len(p) + Len(x) = 1

\* A new sequence, the first k inputs of which are in its cache slot.
LEMMA HistoryBegins ==
    ASSUME NEW r \in Req, NEW n \in 1 .. NumCtx, NEW c \in Seq(Ptr),
           c = [k \in 1 .. n |-> <<r, k>>], NEW k \in 0 .. n
    PROVE  HistoryOf(r, n, SubSeq(c, 1, k), <<>>, SubSeq(c, k + 1, Len(c)))
<1> DEFINE h == SubSeq(c, 1, k)
           x == SubSeq(c, k + 1, Len(c))
<1>1. n \in Nat /\ n <= NumCtx /\ NumCtx \in Nat
  BY CacheAssumption
<1>2. IsHistory(c, r, n) /\ Len(c) = n
  BY <1>1, HistoryPrompt
<1>3. h \in Seq(Ptr) /\ Len(h) = k /\ x \in Seq(Ptr) /\ Len(x) = n - k
  <2>1. k \in 0 .. Len(c)
    BY <1>2
  <2> QED BY <1>2, <2>1, Cut
<1>4. h \o x = c
  <2>1. k \in 0 .. Len(c)
    BY <1>2
  <2> QED BY <2>1, CutAgain
<1> HIDE DEF h, x
<1>5. h \o <<>> \o x = c
  BY <1>3, <1>4, ConcatEmptySeq
<1>6. Len(h) + Len(<<>>) <= NumCtx /\ Len(h) + Len(<<>>) + Len(x) <= NumCtx
  BY <1>1, <1>3
<1> QED BY <1>2, <1>5, <1>6 DEF HistoryOf, h, x

\* The first k inputs that are left go into a batch.
LEMMA HistoryFills ==
    ASSUME NEW r \in Req, NEW n \in Nat, NEW h \in Seq(Ptr), NEW x \in Seq(Ptr),
           HistoryOf(r, n, h, <<>>, x), NEW k \in 0 .. Len(x), k + Len(h) <= NumCtx
    PROVE  HistoryOf(r, n, h, SubSeq(x, 1, k), SubSeq(x, k + 1, Len(x)))
<1> DEFINE p == SubSeq(x, 1, k)
           y == SubSeq(x, k + 1, Len(x))
<1>1. p \in Seq(Ptr) /\ Len(p) = k /\ y \in Seq(Ptr) /\ Len(y) = Len(x) - k /\ p \o y = x
  <2>1. p \in Seq(Ptr) /\ Len(p) = k /\ y \in Seq(Ptr) /\ Len(y) = Len(x) - k
    BY Cut
  <2>2. p \o y = x
    BY CutAgain
  <2> QED BY <2>1, <2>2
<1> HIDE DEF p, y
<1>2. h \o <<>> \o x = h \o x /\ h \o p \o y = h \o x
  <2>1. h \o <<>> = h
    BY ConcatEmptySeq
  <2>2. h \o p \o y = h \o (p \o y)
    <3>1. p \in Seq(Ptr) /\ y \in Seq(Ptr)
      BY <1>1
    <3> QED BY <3>1, ConcatAssociative, SMT
  <2> QED BY <1>1, <2>1, <2>2
<1>3. IsHistory(h \o p \o y, r, n)
  BY <1>2 DEF HistoryOf
<1>4. Len(h) + Len(x) <= NumCtx \/ Len(x) = 1
  <2>1. Len(<<>>) = 0 /\ Len(h) \in Nat /\ Len(x) \in Nat
    OBVIOUS
  <2> QED BY <2>1 DEF HistoryOf
<1>5. Len(h) + Len(p) <= NumCtx /\ (Len(h) + Len(p) + Len(y) <= NumCtx \/ Len(p) + Len(y) = 1)
  <2>1. Len(h) \in Nat /\ Len(x) \in Nat /\ NumCtx \in Nat /\ k \in Nat
    BY CacheAssumption
  <2> QED BY <1>1, <1>4, <2>1
<1> QED BY <1>3, <1>5 DEF HistoryOf, p, y

\* A full cache slot is shifted: only the last input, a sampled one, is left.
LEMMA HistoryShifts ==
    ASSUME NEW r \in Req, NEW n \in Nat, NEW h \in Seq(Ptr), NEW x \in Seq(Ptr), x # <<>>,
           HistoryOf(r, n, h, <<>>, x), Len(h) = NumCtx
    PROVE  LET z == Shifted(h, numKeep(r)) IN
           /\ z \in Seq(Ptr) /\ Len(z) < NumCtx
           /\ HistoryOf(r, n, z, <<>>, x)
           /\ HistoryOf(r, n, <<>>, <<>>, z \o x)
<1> DEFINE z == Shifted(h, numKeep(r))
<1>1. z \in Seq(Ptr) /\ Len(z) < NumCtx /\ NumCtx \in Nat /\ Len(z) \in Nat
  <2>1. z \in Seq(Ptr) /\ Len(z) < NumCtx
    BY KeepBounds, ShiftedTyped
  <2> HIDE DEF z
  <2> QED BY <2>1, CacheAssumption
<1>2. Len(x) = 1
  <2>1. Len(<<>>) = 0 /\ Len(h) \in Nat /\ Len(x) \in Nat /\ Len(x) # 0
    OBVIOUS
  <2> QED BY <1>1, <2>1 DEF HistoryOf
<1>3. h \o <<>> \o x = h \o x
  BY ConcatEmptySeq
<1>4. IsHistory(h \o x, r, n)
  BY <1>3 DEF HistoryOf
<1>5. IsHistory(z \o x, r, n)
  BY <1>2, <1>4, HistoryShift
<1> HIDE DEF z
<1>6. z \o <<>> \o x = z \o x /\ <<>> \o <<>> \o (z \o x) = z \o x
      /\ Len(z \o x) = Len(z) + 1 /\ Len(<<>>) = 0
  <2>1. z \o x \in Seq(Ptr) /\ Len(z \o x) = Len(z) + Len(x)
    BY <1>1, ConcatProperties
  <2>2. <<>> \in Seq(Ptr)
    OBVIOUS
  <2>3. z \o <<>> = z /\ <<>> \o (z \o x) = z \o x /\ <<>> \o <<>> = <<>>
    BY <1>1, <2>1, <2>2, ConcatEmptySeq
  <2> QED BY <1>2, <2>1, <2>3
<1>7. HistoryOf(r, n, z, <<>>, x)
  <2>1. Len(z) + Len(<<>>) <= NumCtx /\ Len(<<>>) + Len(x) = 1
    BY <1>1, <1>2, <1>6
  <2> QED BY <1>5, <1>6, <2>1 DEF HistoryOf
<1>8. HistoryOf(r, n, <<>>, <<>>, z \o x)
  <2> DEFINE y == z \o x
  <2>1. IsHistory(<<>> \o <<>> \o y, r, n) /\ Len(y) = Len(z) + 1
    BY <1>5, <1>6
  <2> HIDE DEF y
  <2>2. Len(<<>>) + Len(<<>>) <= NumCtx /\ Len(<<>>) + Len(<<>>) + Len(y) <= NumCtx
    BY <1>1, <1>6, <2>1
  <2>3. HistoryOf(r, n, <<>>, <<>>, y)
    BY <2>1, <2>2 DEF HistoryOf
  <2> QED BY <2>3 DEF y
<1> QED BY <1>1, <1>7, <1>8 DEF z

\* A batch has read its tokens: what was pending is cached, and a sequence with nothing
\* left gets an input for the token that is sampled next.
LEMMA HistoryReads ==
    ASSUME NEW r \in Req, NEW n \in Nat, NEW h \in Seq(Ptr), NEW p \in Seq(Ptr),
           NEW x \in Seq(Ptr), HistoryOf(r, n, h, p, x)
    PROVE  /\ x # <<>> => HistoryOf(r, n, h \o p, <<>>, x)
           /\ x = <<>> => HistoryOf(r, n + 1, h \o p, <<>>, <<<<r, n + 1>>>>)
<1> DEFINE g == h \o p
           e == <<<<r, n + 1>>>>
<1>1. g \in Seq(Ptr) /\ Len(g) = Len(h) + Len(p) /\ Len(g) \in Nat
  <2>1. g \in Seq(Ptr) /\ Len(g) = Len(h) + Len(p)
    BY ConcatProperties
  <2> HIDE DEF g
  <2> QED BY <2>1
<1>2. e \in Seq(Ptr) /\ Len(e) = 1
  BY DEF Ptr
<1>3. IsHistory(g \o x, r, n) /\ Len(g) <= NumCtx
  BY <1>1 DEF HistoryOf
<1> HIDE DEF g, e
<1>4. g \o <<>> = g /\ Len(<<>>) = 0
  BY <1>1, ConcatEmptySeq
<1>5. CASE x # <<>>
  <2>1. Len(x) \in Nat /\ Len(x) # 0 /\ Len(h) \in Nat /\ Len(p) \in Nat
    BY <1>5
  <2>2. Len(h) + Len(p) + Len(x) <= NumCtx \/ Len(p) + Len(x) = 1
    BY DEF HistoryOf
  <2>3. Len(g) + Len(x) <= NumCtx \/ Len(<<>>) + Len(x) = 1
    <3>1. CASE Len(h) + Len(p) + Len(x) <= NumCtx
      BY <1>1, <3>1
    <3>2. CASE Len(p) + Len(x) = 1
      <4> DEFINE a == Len(p)
                 b == Len(x)
      <4>1. a \in Nat /\ b \in Nat /\ b # 0 /\ a + b = 1
        BY <2>1, <3>2
      <4> HIDE DEF a, b
      <4>2. b = 1
        BY <4>1
      <4> QED BY <1>4, <4>2 DEF b
    <3> QED BY <2>2, <3>1, <3>2
  <2>4. HistoryOf(r, n, g, <<>>, x)
    BY <1>1, <1>3, <1>4, <2>1, <2>3 DEF HistoryOf
  <2> QED BY <1>5, <2>4 DEF g
<1>6. CASE x = <<>>
  <2>1. IsHistory(g, r, n)
    BY <1>3, <1>4, <1>6
  <2>2. IsHistory(g \o e, r, n + 1)
    BY <1>1, <2>1, HistoryAppend DEF e
  <2>3. HistoryOf(r, n + 1, g, <<>>, e)
    BY <1>1, <1>2, <1>3, <1>4, <2>2 DEF HistoryOf
  <2> QED BY <1>6, <2>3 DEF g, e
<1> QED BY <1>5, <1>6

-----------------------------------------------------------------------------
(* The steps.                                                              *)

Told(r) ==
    HistoryOf(r, Len(text[r]), slots[seq[r].cache].Inputs, seq[r].pendingInputs, seq[r].inputs)

AllTold == \A r \in Live : Told(r)

LEMMA ToldTyped ==
    ASSUME Typed, NEW r \in Live
    PROVE  /\ r \in Req /\ Len(text[r]) \in Nat /\ seq[r].cache \in Slot
           /\ slots[seq[r].cache].Inputs \in Seq(Ptr)
           /\ seq[r].pendingInputs \in Seq(Ptr) /\ seq[r].inputs \in Seq(Ptr)
<1>1. r \in Req
  BY DEF Live
<1>2. IsSequence(seq[r]) /\ text[r] \in Seq(Int)
  BY <1>1 DEF Typed
<1>3. seq[r].cache \in Slot
  BY <1>2 DEF IsSequence
<1>4. slots[seq[r].cache].Inputs \in Seq(Ptr)
  BY <1>3 DEF Typed
<1> QED BY <1>1, <1>2, <1>3, <1>4 DEF IsSequence

\* A sequence is left alone, up to its output.
LEMMA ToldFrame ==
    ASSUME NEW r, Told(r), seq'[r].cache = seq[r].cache, seq'[r].inputs = seq[r].inputs,
           seq'[r].pendingInputs = seq[r].pendingInputs,
           slots'[seq[r].cache].Inputs = slots[seq[r].cache].Inputs,
           Len(text'[r]) = Len(text[r])
    PROVE  Told(r)'
BY DEF Told

\* No sequence comes, goes or changes, up to its output.
LEMMA OutputTold ==
    ASSUME AllTold, seqs' = seqs, slots' = slots,
           \A r \in Live : /\ seq'[r].cache = seq[r].cache /\ seq'[r].inputs = seq[r].inputs
                           /\ seq'[r].pendingInputs = seq[r].pendingInputs
                           /\ Len(text'[r]) = Len(text[r])
    PROVE  AllTold'
<1>1. Live' = Live
  BY DEF Live
<1>2. ASSUME NEW r \in Live PROVE Told(r)'
  BY ToldFrame DEF AllTold
<1> QED BY <1>1, <1>2 DEF AllTold

\* The other sequences have other cache slots.
LEMMA RemovesTold ==
    ASSUME Typed, SlotPerPermit, AllTold, NEW i \in Slot, seqs[i] # None, Removes(i),
           \A r \in Req : Len(text'[r]) = Len(text[r])
    PROVE  AllTold'
<1> DEFINE q == seqs[i]
<1>1. /\ q \in Req /\ None \notin Req /\ seqs' = [seqs EXCEPT ![i] = None]
      /\ \A j \in Slot \ {i} : seqs[j] # q
  BY RunnerAssumption DEF Typed, Removes, SlotPerPermit
<1>2. Live' = Live \ {q} /\ q \in Live
  BY <1>1 DEF Live, Typed
<1> HIDE DEF q
<1>3. ASSUME NEW r \in Live, r # q PROVE Told(r)'
  <2>1. r \in Req /\ seq[r].cache \in Slot
    BY ToldTyped
  <2>2. seq[r].cache # seq[q].cache
    BY <1>2, <1>3 DEF SlotPerPermit
  <2>3. seq'[r] = seq[r] /\ slots'[seq[r].cache] = slots[seq[r].cache]
    BY <1>3, <2>1, <2>2 DEF Removes, q
  <2> QED BY <2>1, <2>3, ToldFrame DEF AllTold
<1> QED BY <1>2, <1>3 DEF AllTold

LEMMA MovesTold ==
    ASSUME Typed, SlotPerPermit, AllTold, NEW q \in Live, NEW p, NEW x, NEW h,
           Moves(q, p, x, h), HistoryOf(q, Len(text[q]), h, p, x), seqs' = seqs, text' = text
    PROVE  AllTold'
<1>1. Live' = Live
  BY DEF Live
<1>2. Told(q)'
  BY DEF Told, Moves
<1>3. ASSUME NEW r \in Live, r # q PROVE Told(r)'
  <2>1. r \in Req /\ seq[r].cache \in Slot
    BY ToldTyped
  <2>2. seq[r].cache # seq[q].cache
    BY <1>3 DEF SlotPerPermit
  <2>3. seq'[r] = seq[r] /\ slots'[seq[r].cache] = slots[seq[r].cache]
    BY <1>3, <2>1, <2>2 DEF Moves
  <2> QED BY <2>3, ToldFrame DEF AllTold
<1> QED BY <1>1, <1>2, <1>3 DEF AllTold

\* A prompt is not yet in seqs, or what is left of it begins its history.
LEMMA NewSequenceTold ==
    ASSUME Inv, AllTold, NEW r \in Req, NewSequence(r)
    PROVE  AllTold'
<1>1. r \notin Live
  BY DEF Inv, Lives, Fresh, NewSequence
<1>2. \A q \in Live : seq'[q] = seq[q] /\ text'[q] = text[q]
  BY <1>1 DEF NewSequence, Inv, Typed, Live
<1> QED BY <1>2, OutputTold DEF NewSequence, cacheVars

LEMMA InsertTold ==
    ASSUME Inv, AllTold, NEW r \in Req, Insert(r)
    PROVE  AllTold'
<1>0. Typed /\ Lives /\ SlotPerPermit
  BY DEF Inv
<1> DEFINE x == seq[r].inputs
<1>1. /\ Fresh(r) /\ x \in Seq(Ptr) /\ Len(x) = Len(text[r]) /\ Len(x) \in Nat \ {0}
      /\ \E i \in Slot, c \in Free(slots), n \in 0 .. Len(x) - 1 : Inserts(r, i, c, n)
  BY <1>0, InsertDoes
<1>2. PICK i \in Slot, c \in Free(slots), n \in 0 .. Len(x) - 1 : Inserts(r, i, c, n)
  BY <1>1
<1> DEFINE h == SubSeq(x, 1, n)
           y == SubSeq(x, n + 1, Len(x))
<1>3. /\ seqs[i] = None /\ seqs' = [seqs EXCEPT ![i] = r] /\ text' = text
      /\ slots' = [slots EXCEPT ![c] = [Inputs |-> h, InUse |-> TRUE, lastUsed |-> clock]]
      /\ seq' = [seq EXCEPT ![r].cache = c, ![r].inputs = y]
  BY <1>2 DEF Inserts, Insert
<1>4. HistoryOf(r, Len(text[r]), h, <<>>, y)
  <2>1. handler[r] = "insert"
    BY DEF Insert
  <2>2. x = [k \in 1 .. Len(text[r]) |-> <<r, k>>] /\ Len(text[r]) \in 1 .. NumCtx
    BY <1>1, <2>1 DEF Fresh
  <2>3. n \in 0 .. Len(text[r])
    BY <1>1
  <2> HIDE DEF x
  <2> QED BY <1>1, <2>2, <2>3, HistoryBegins
<1> HIDE DEF x, h, y
<1>5. /\ seq'[r].cache = c /\ seq'[r].inputs = y /\ seq'[r].pendingInputs = <<>>
      /\ \A q \in Req \ {r} : seq'[q] = seq[q]
  <2>1. seq[r].pendingInputs = <<>> /\ IsSequence(seq[r])
    BY <1>0, <1>1 DEF Fresh, Typed
  <2> QED BY <1>0, <1>3, <2>1 DEF Typed, IsSequence
<1>6. c \in Slot /\ slots'[c].Inputs = h /\ \A s \in Slot \ {c} : slots'[s] = slots[s]
  BY <1>0, <1>3 DEF Free, Typed
<1>7. Told(r)'
  BY <1>3, <1>4, <1>5, <1>6 DEF Told
<1>8. ASSUME NEW q \in Live PROVE Told(q)'
  <2>1. q \in Req /\ q # r /\ seq[q].cache \in Slot
    BY <1>0, <1>1, ToldTyped DEF Fresh
  <2>2. seq[q].cache # c
    BY <1>0, <2>1 DEF SlotPerPermit, Free
  <2> QED BY <1>3, <1>5, <1>6, <2>1, <2>2, ToldFrame DEF AllTold
<1>9. Live' \subseteq Live \cup {r}
  BY <1>0, <1>3 DEF Live, Typed
<1> QED BY <1>7, <1>8, <1>9 DEF AllTold

\* The answer goes out; a sequence that is forgotten has left seqs.
LEMMA ReceiveTold ==
    ASSUME Inv, AllTold, NEW r \in Req, Receive(r)
    PROVE  AllTold'
<1>0. Typed /\ Lives
  BY DEF Inv
<1>1. seqs' = seqs /\ slots' = slots /\ text' = text
  BY DEF Receive, cacheVars
<1>2. CASE seq[r].responses # <<>>
  <2>1. seq' = [seq EXCEPT ![r].delivered = @ \o Head(seq[r].responses),
                           ![r].responses = Tail(@)]
    BY <1>2 DEF Receive
  <2>2. \A q \in Live : /\ seq'[q].cache = seq[q].cache /\ seq'[q].inputs = seq[q].inputs
                        /\ seq'[q].pendingInputs = seq[q].pendingInputs
    BY <1>0, <2>1 DEF Typed, IsSequence, Live
  <2> QED BY <1>1, <2>2, OutputTold
<1>3. CASE seq[r].responses = <<>>
  <2>1. seq[r].closed /\ seq' = [seq EXCEPT ![r] = NoSequence]
    BY <1>3 DEF Receive
  <2>2. r \notin Live
    BY <1>0, <2>1 DEF Lives
  <2>3. \A q \in Live : seq'[q] = seq[q]
    BY <1>0, <2>1, <2>2 DEF Typed, Live
  <2> QED BY <1>1, <2>3, OutputTold
<1> QED BY <1>2, <1>3

LEMMA DisconnectTold ==
    ASSUME Inv, AllTold, NEW r \in Req, Disconnect(r)
    PROVE  AllTold'
<1>0. Typed
  BY DEF Inv
<1>1. seqs' = seqs /\ slots' = slots /\ text' = text
      /\ (seq' = seq \/ seq' = [seq EXCEPT ![r].quit = TRUE])
  BY DEF Disconnect, cacheVars
<1>2. ASSUME NEW q \in Live
      PROVE  /\ seq'[q].cache = seq[q].cache /\ seq'[q].inputs = seq[q].inputs
             /\ seq'[q].pendingInputs = seq[q].pendingInputs
  <2>1. CASE seq' = seq \/ q # r
    BY <1>0, <1>1, <2>1, ToldTyped DEF Typed
  <2>2. CASE seq' = [seq EXCEPT ![r].quit = TRUE] /\ q = r
    <3>1. seq'[q] = [seq[q] EXCEPT !.quit = TRUE] /\ IsSequence(seq[q])
      BY <1>0, <2>2 DEF Typed
    <3> QED BY <3>1, FlagFields DEF Alike
  <2> QED BY <1>1, <2>1, <2>2
<1> QED BY <1>1, <1>2, OutputTold

\* One slot of a batch.
LEMMA SkipSlotTold ==
    ASSUME Inv, AllTold, model.cacheEnabled, mu = Forward, fwd.left > 0, SkipSlot,
           seqs' = seqs, text' = text
    PROVE  AllTold'
<1>0. Typed /\ SlotPerPermit
  BY DEF Inv
<1> DEFINE r == seqs[Cursor]
<1>1. CASE r = None
  <2>1. seq' = seq /\ slots' = slots
    BY <1>1, RunnerAssumption DEF SkipSlot
  <2> QED BY <2>1, OutputTold
<1>2. CASE r # None
  <2>1. /\ r \in Live /\ Inputs(r) \in Seq(Ptr) /\ Cached(r) \in Seq(Ptr)
        /\ seq[r].pendingInputs = <<>> /\ r \in Req
    BY <1>2, AtCursor DEF Live
  <2>2. /\ seq' = [seq EXCEPT ![r].inputs = Inputs(r)]
        /\ slots' = [slots EXCEPT ![seq[r].cache].Inputs = Cached(r)]
    BY <1>2 DEF SkipSlot
  <2> HIDE DEF r
  <2>3. Moves(r, <<>>, Inputs(r), Cached(r))
    <3>1. Moves(r, seq[r].pendingInputs, Inputs(r), Cached(r))
      BY <1>0, <2>1, <2>2, NewInputs
    <3> QED BY <2>1, <3>1
  <2>4. HistoryOf(r, Len(text[r]), Cached(r), <<>>, Inputs(r))
    BY <2>1 DEF AllTold, Told, Cached, Inputs
  <2> QED BY <1>0, <2>1, <2>3, <2>4, MovesTold
<1> QED BY <1>1, <1>2

LEMMA FillBatchTold ==
    ASSUME Inv, AllTold, model.cacheEnabled, mu = Forward, fwd.left > 0, seqs[Cursor] # None,
           NEW cached \in Seq(Ptr), Len(cached) < NumCtx, FillBatch(seqs[Cursor], cached),
           HistoryOf(seqs[Cursor], Len(text[seqs[Cursor]]), cached, <<>>, Inputs(seqs[Cursor])),
           Len(fwd.inputs) < model.batchSize, seqs' = seqs, text' = text
    PROVE  AllTold'
<1>0. Typed /\ SlotPerPermit
  BY DEF Inv
<1> DEFINE r == seqs[Cursor]
           x == Inputs(r)
<1>1. r \in Live /\ x \in Seq(Ptr)
  BY AtCursor
<1>2. PICK n \in 0 .. Len(x), new \in ForwardType : Fills(r, cached, n, new)
  BY FillDoes
<1>3. HistoryOf(r, Len(text[r]), cached, <<>>, x)
  OBVIOUS
<1> HIDE DEF r, x
<1>4. /\ Moves(r, SubSeq(x, 1, n), SubSeq(x, n + 1, Len(x)), cached)
      /\ n + Len(cached) <= NumCtx
  BY <1>2 DEF Fills, x
<1>5. r \in Req /\ Len(text[r]) \in Nat
  BY <1>0, <1>1, ToldTyped
<1>6. HistoryOf(r, Len(text[r]), cached, SubSeq(x, 1, n), SubSeq(x, n + 1, Len(x)))
  BY <1>1, <1>3, <1>4, <1>5, HistoryFills
<1> QED BY <1>0, <1>1, <1>4, <1>6, MovesTold

LEMMA AddInputsTold ==
    ASSUME Inv, AllTold, model.cacheEnabled, mu = Forward, fwd.left > 0, AddInputs,
           seqs' = seqs, text' = text
    PROVE  AllTold'
<1>0. Typed /\ SlotPerPermit
  BY DEF Inv
<1> DEFINE r == seqs[Cursor]
           h == Cached(r)
           x == Inputs(r)
           z == Shifted(h, numKeep(r))
<1>1. r # None /\ Len(fwd.inputs) < model.batchSize
  BY DEF AddInputs
<1>2. /\ r \in Live /\ r \in Req /\ h \in Seq(Ptr) /\ x \in Seq(Ptr) /\ x # <<>>
      /\ seq[r].pendingInputs = <<>> /\ Len(text[r]) \in Nat
  BY <1>0, <1>1, AtCursor, ToldTyped
<1>3. HistoryOf(r, Len(text[r]), h, <<>>, x)
  <2> HIDE DEF r
  <2> QED BY <1>2 DEF AllTold, Told, Cached, Inputs
<1>4. CASE Len(h) < NumCtx /\ FillBatch(r, h)
  BY <1>1, <1>2, <1>3, <1>4, FillBatchTold
<1>5. ASSUME Len(h) = NumCtx
      PROVE  /\ z \in Seq(Ptr) /\ Len(z) < NumCtx
             /\ HistoryOf(r, Len(text[r]), z, <<>>, x)
             /\ HistoryOf(r, Len(text[r]), <<>>, <<>>, z \o x)
  <2> HIDE DEF r, h, x
  <2> QED BY <1>2, <1>3, <1>5, HistoryShifts
<1>6. CASE Len(h) = NumCtx /\ FillBatch(r, z)
  <2> HIDE DEF z
  <2> QED BY <1>1, <1>2, <1>5, <1>6, FillBatchTold
<1>7. CASE Len(h) = NumCtx /\ Reprocess(r)
  <2> DEFINE y == z \o x
             e == <<>>
  <2>1. /\ seq' = [seq EXCEPT ![r].inputs = y]
        /\ slots' = [slots EXCEPT ![seq[r].cache].Inputs = e]
    BY <1>7 DEF Reprocess
  <2>2. y \in Seq(Ptr) /\ e \in Seq(Ptr)
    <3> HIDE DEF z, x
    <3> QED BY <1>2, <1>5, <1>7
  <2>3. HistoryOf(r, Len(text[r]), e, e, y) /\ seq[r].pendingInputs = e
    BY <1>2, <1>5, <1>7
  <2> HIDE DEF y, e, r
  <2>4. Moves(r, e, y, e)
    <3>1. Moves(r, seq[r].pendingInputs, y, e)
      BY <1>0, <1>2, <2>1, <2>2, NewInputs
    <3> QED BY <2>3, <3>1
  <2> QED BY <1>0, <1>2, <2>3, <2>4, MovesTold
<1> QED BY <1>4, <1>6, <1>7 DEF AddInputs

LEMMA ForwardSlotTold ==
    ASSUME Inv, AllTold, model.cacheEnabled, ForwardSlot
    PROVE  AllTold'
<1>0. Typed /\ SlotPerPermit
  BY DEF Inv
<1>1. mu = Forward /\ fwd.left > 0 /\ text' = text
  BY DEF ForwardSlot
<1>2. CASE SkipSlot /\ seqs' = seqs
  BY <1>1, <1>2, SkipSlotTold
<1>3. CASE EndAtLimit
  <2> DEFINE r == seqs[Cursor]
             held == slots[seq[r].cache].Inputs
  <2>1. r # None /\ removeSequence(Cursor, seq[r], held, "length")
    BY <1>3 DEF EndAtLimit
  <2>2. Cursor \in Slot /\ IsSequence(seq[r]) /\ seq[r].cache \in Slot
    BY <1>1, <2>1, AtCursor
  <2>3. held \in Seq(Ptr)
    BY <1>0, <2>2 DEF Typed
  <2> HIDE DEF Cursor, held
  <2>4. Removes(Cursor)
    BY <1>0, <2>1, <2>2, <2>3, RemoveIs
  <2> QED BY <1>0, <1>1, <2>1, <2>2, <2>4, RemovesTold
<1>4. CASE AddInputs /\ seqs' = seqs
  BY <1>1, <1>4, AddInputsTold
<1> QED BY <1>2, <1>3, <1>4 DEF ForwardSlot

\* A batch reads its tokens.
LEMMA GatherInputsTold ==
    ASSUME Inv, AllTold, NEW id \in DOMAIN work, GatherInputs(id)
    PROVE  AllTold'
<1>0. Typed /\ SlotPerPermit
  BY DEF Inv
<1> DEFINE mine == SameSequences(id)
<1>1. Reads(mine) /\ seqs' = seqs
  BY GatherReads DEF GatherInputs
<1> HIDE DEF mine
<1>2. Live' = Live
  BY <1>1 DEF Live
<1>3. ASSUME NEW r \in Live PROVE Told(r)'
  <2> DEFINE h == slots[seq[r].cache].Inputs
             p == seq[r].pendingInputs
             x == seq[r].inputs
             n == Len(text[r])
  <2>1. /\ r \in Req /\ seq[r].cache \in Slot /\ n \in Nat
        /\ h \in Seq(Ptr) /\ p \in Seq(Ptr) /\ x \in Seq(Ptr)
    BY <1>0, ToldTyped
  <2>2. CASE \E i \in mine : seqs[i] = r
    <3>1. /\ seq'[r].cache = seq[r].cache /\ seq'[r].pendingInputs = <<>>
          /\ slots'[seq[r].cache].Inputs = h \o p
          /\ IF x = <<>> THEN seq'[r].inputs = <<<<r, n + 1>>>> /\ Len(text'[r]) = n + 1
                         ELSE seq'[r].inputs = x /\ text'[r] = text[r]
      BY <1>1, <2>1, <2>2 DEF Reads, Keeps
    <3>2. HistoryOf(r, n, h, p, x)
      BY DEF AllTold, Told
    <3> DEFINE g == h \o p
               m == Len(text'[r])
    <3>3. m = (IF x = <<>> THEN n + 1 ELSE n)
      BY <3>1
    <3> HIDE DEF h, p, x, n, m
    <3>4. /\ x # <<>> => HistoryOf(r, n, g, <<>>, x)
          /\ x = <<>> => HistoryOf(r, n + 1, g, <<>>, <<<<r, n + 1>>>>)
      BY <2>1, <3>2, HistoryReads
    <3> HIDE DEF g
    <3>5. HistoryOf(r, m, g, <<>>, seq'[r].inputs)
      BY <3>1, <3>3, <3>4
    <3>6. slots'[seq'[r].cache].Inputs = g /\ seq'[r].pendingInputs = <<>>
      BY <3>1 DEF g
    <3> QED BY <3>5, <3>6 DEF Told, m
  <2>3. CASE ~\E i \in mine : seqs[i] = r
    <3>1. seq'[r] = seq[r] /\ text'[r] = text[r]
      BY <1>1, <2>1, <2>3 DEF Reads
    <3>2. \A i \in mine : seqs[i] \in Live
      BY <1>0 DEF mine, SameSequences, Live, Typed
    <3>3. \A i \in mine : seq[seqs[i]].cache # seq[r].cache
      BY <1>0, <2>3, <3>2 DEF SlotPerPermit
    <3>4. slots'[seq[r].cache] = slots[seq[r].cache]
      BY <1>1, <2>1, <3>3 DEF Reads
    <3> QED BY <3>1, <3>4, ToldFrame DEF AllTold
  <2> QED BY <2>2, <2>3
<1> QED BY <1>2, <1>3 DEF AllTold

LEMMA DecodeSlotTold ==
    ASSUME Inv, AllTold, NEW id \in DOMAIN work, DecodeSlot(id)
    PROVE  AllTold'
<1>0. Typed /\ SlotPerPermit
  BY DEF Inv
<1> DEFINE i == work[id].idx
<1>1. /\ i \in Slot /\ \A q \in Req : Len(text'[q]) = Len(text[q])
      /\ UNCHANGED <<seqs, seq, slots, permits>> \/ (seqs[i] # None /\ Decodes(i))
  BY <1>0, DecodeDoes
<1> HIDE DEF i
<1>2. \A q \in Live : q \in Req
  BY DEF Live
<1>3. CASE UNCHANGED <<seqs, seq, slots, permits>>
  BY <1>1, <1>2, <1>3, OutputTold
<1>4. CASE seqs[i] # None /\ Removes(i)
  BY <1>0, <1>1, <1>4, RemovesTold
<1>5. CASE /\ seqs[i] # None /\ UNCHANGED <<seqs, slots, permits>>
           /\ \E s : Alike(s, seq[seqs[i]]) /\ seq' = [seq EXCEPT ![seqs[i]] = s]
  <2>1. \A q \in Live : /\ seq'[q].cache = seq[q].cache /\ seq'[q].inputs = seq[q].inputs
                        /\ seq'[q].pendingInputs = seq[q].pendingInputs
    BY <1>0, <1>2, <1>5 DEF Alike, Typed
  <2> QED BY <1>1, <1>2, <1>5, <2>1, OutputTold
<1> QED BY <1>1, <1>3, <1>4, <1>5 DEF Decodes

-----------------------------------------------------------------------------
(* The theorem.                                                            *)

LEMMA ToldNext ==
    ASSUME Inv, AllTold, model.cacheEnabled, [Next]_vars
    PROVE  AllTold' /\ model' = model
<1>1. CASE UNCHANGED vars
  BY <1>1, OutputTold DEF vars
<1>2. ASSUME NEW r \in Req, Handle(r) \/ Disconnect(r) PROVE AllTold'
  <2>1. CASE Acquire(r) \/ ReceiveEmbedding(r)
    BY <2>1, OutputTold DEF Acquire, ReceiveEmbedding, cacheVars
  <2> QED BY <1>2, <2>1, NewSequenceTold, InsertTold, ReceiveTold, DisconnectTold DEF Handle
<1>3. ASSUME ForwardBatch PROVE AllTold'
  <2>1. CASE ForwardBegin \/ ForwardEnd
    BY <2>1, OutputTold DEF ForwardBegin, ForwardEnd, cacheVars
  <2> QED BY <1>3, <2>1, ForwardSlotTold DEF ForwardBatch
<1>4. ASSUME NotifyStarted PROVE AllTold'
  BY <1>4, OutputTold DEF NotifyStarted, cacheVars
<1>5. ASSUME NEW id \in DOMAIN work, ComputeBatch(id) PROVE AllTold'
  <2>1. CASE DecodeBegin(id) \/ DecodeEnd(id)
    BY <2>1, OutputTold DEF DecodeBegin, DecodeEnd, cacheVars
  <2> QED BY <1>5, <2>1, GatherInputsTold, DecodeSlotTold DEF ComputeBatch
<1>6. model' = model
  BY DEF Next, Running, Finished, vars
<1>7. CASE Next
  <2>1. CASE Finished
    BY <1>1, <2>1 DEF Finished
  <2> QED BY <1>2, <1>3, <1>4, <1>5, <1>6, <1>7, <2>1 DEF Next, Running
<1> QED BY <1>1, <1>6, <1>7

\* What the histories say of the contexts.
LEMMA ToldContext ==
    ASSUME Typed, AllTold
    PROVE  ContextIsHistory
<1> SUFFICES ASSUME NEW r \in Live
             PROVE  LET context == slots[seq[r].cache].Inputs \o seq[r].pendingInputs \o seq[r].inputs
                        n == Len(text[r])
                        keep == Lesser(numKeep(r), n)
                    IN  /\ Len(context) >= keep
                        /\ context = [k \in 1 .. Len(context) |->
                                         <<r, IF k <= keep THEN k ELSE n - Len(context) + k>>]
                        /\ Len(slots[seq[r].cache].Inputs) + Len(seq[r].pendingInputs) <= NumCtx
                        /\ Len(context) <= NumCtx \/ Len(seq[r].pendingInputs \o seq[r].inputs) = 1
  BY DEF ContextIsHistory
<1> DEFINE h == slots[seq[r].cache].Inputs
           p == seq[r].pendingInputs
           x == seq[r].inputs
           n == Len(text[r])
           keep == Lesser(numKeep(r), n)
           c == h \o p \o x
<1>1. h \in Seq(Ptr) /\ p \in Seq(Ptr) /\ x \in Seq(Ptr)
  BY ToldTyped
<1>2. HistoryOf(r, n, h, p, x)
  BY DEF AllTold, Told
<1> HIDE DEF h, p, x, n
<1>3. /\ c \in Seq(Ptr) /\ Len(c) = Len(h) + Len(p) + Len(x)
      /\ Len(p \o x) = Len(p) + Len(x)
  <2> DEFINE g == h \o p
  <2>1. g \in Seq(Ptr) /\ Len(g) = Len(h) + Len(p) /\ Len(p \o x) = Len(p) + Len(x)
    BY <1>1, ConcatProperties
  <2> HIDE DEF g
  <2>2. g \o x \in Seq(Ptr) /\ Len(g \o x) = Len(g) + Len(x)
    BY <1>1, <2>1, ConcatProperties
  <2> QED BY <2>1, <2>2 DEF g
<1> HIDE DEF c
<1>4. IsHistory(c, r, n)
  BY <1>2 DEF HistoryOf, c
<1>5. /\ Len(c) >= keep
      /\ \A k \in 1 .. Len(c) : c[k] = <<r, IF k <= keep THEN k ELSE n - Len(c) + k>>
  BY <1>4 DEF IsHistory
<1>6. c = [k \in 1 .. Len(c) |-> <<r, IF k <= keep THEN k ELSE n - Len(c) + k>>]
  <2> HIDE DEF keep
  <2>1. c = [k \in 1 .. Len(c) |-> c[k]]
    BY <1>3
  <2> QED BY <1>5, <2>1
<1>7. /\ Len(h) + Len(p) <= NumCtx
      /\ Len(c) <= NumCtx \/ Len(p \o x) = 1
  BY <1>2, <1>3 DEF HistoryOf
<1> QED BY <1>5, <1>6, <1>7 DEF h, p, x, n, c

\* What the KV cache of a sequence holds, what the batch in flight carries and what is
\* left of it are its history, each input once and in order, whatever prefixes a cache
\* slot had, however batches divide it and whenever a context shift or its reprocessing
\* happens (forwardBatch, computeBatch, LoadCacheSlot and ShiftCacheSlot), in a runner
\* whose model has a KV cache.
THEOREM RunnerContextIsHistory == Spec => [](model.cacheEnabled => ContextIsHistory)
<1> DEFINE K == model.cacheEnabled => AllTold
<1>1. Init => K
  BY RunnerAssumption DEF Init, AllTold, Live
<1>2. Inv /\ K /\ [Next]_vars => K'
  <2> SUFFICES ASSUME Inv, K, [Next]_vars, model'.cacheEnabled PROVE AllTold'
    OBVIOUS
  <2>1. model' = model
    BY DEF Next, Running, Finished, vars
  <2> QED BY <2>1, ToldNext
<1>3. Inv /\ K => (model.cacheEnabled => ContextIsHistory)
  BY ToldContext DEF Inv
<1> QED BY <1>1, <1>2, <1>3, InvHolds, PTL DEF Spec
=============================================================================

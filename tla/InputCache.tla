----------------------------- MODULE InputCache -----------------------------
(***************************************************************************)
(* The prompt cache of runner/ollamarunner/cache.go: which cache slot a    *)
(* new sequence gets, how much of its prompt the slot already holds, and   *)
(* how a full context is shifted.  Every operation runs under the runner's *)
(* lock, so the module holds operators on the slots and no state; module   *)
(* Runner keeps the slots.                                                 *)
(*                                                                         *)
(* Inputs are text tokens: an input with a multimodal part, and SameBatch, *)
(* which ties inputs of one image together, are left out.                  *)
(***************************************************************************)
EXTENDS Integers, Sequences, FiniteSetsExt

CONSTANTS
    Parallel,        \* sequences evaluated at once, and cache slots
    NumCtx,          \* numCtx, the context window of one slot
    MultiUserCache   \* multiUserCache

ASSUME CacheAssumption ==
    /\ Parallel \in Nat \ {0}
    /\ NumCtx \in Nat \ {0}
    /\ MultiUserCache \in BOOLEAN

Slot == 0 .. Parallel - 1

Lesser(a, b) == IF a <= b THEN a ELSE b
Greater(a, b) == IF a >= b THEN a ELSE b

\* The number of leading tokens two inputs have in common.
countCommonPrefix(a, b) ==
    Max({n \in 0 .. Lesser(Len(a), Len(b)) : \A i \in 1 .. n : a[i] = b[i]})

Free(slots) == {s \in Slot : ~slots[s].InUse}

\* The first slot of S for which f is largest, or smallest: what a loop with a
\* strict comparison finds.
FirstLargest(S, f) ==
    CHOOSE s \in S : \A t \in S : f[s] > f[t] \/ (f[s] = f[t] /\ s <= t)
FirstSmallest(S, f) ==
    CHOOSE s \in S : \A t \in S : f[s] < f[t] \/ (f[s] = f[t] /\ s <= t)

\* Both searches take the slots, the tokens each one holds and the tokens of the
\* prompt, and give the slot, where its prefix comes from and the prefix's length.  They
\* are used when some slot is free: otherwise the first returns an error and the second
\* follows a nil oldestSlot.
findLongestCacheSlot(slots, held, prompt) ==
    LET common  == [s \in Slot |-> countCommonPrefix(held[s], prompt)]
        longest == FirstLargest(Free(slots), common)
    IN  [slot |-> longest, src |-> longest, numPast |-> common[longest]]

\* A slot that is a prefix of the prompt is continued.  Otherwise the slot unused
\* for longest is overwritten, with a copy of the longest common prefix, whoever
\* holds it.
findBestCacheSlotAnyUse(slots, held, prompt) ==
    LET common  == [s \in Slot |-> countCommonPrefix(held[s], prompt)]
        longest == FirstLargest(Slot, common)
        oldest  == FirstSmallest(Free(slots), [s \in Slot |-> slots[s].lastUsed])
    IN  [slot |-> IF common[longest] = Len(held[longest]) THEN longest ELSE oldest,
         src |-> longest, numPast |-> common[longest]]
findBestCacheSlot(slots, held, prompt) ==
    LET common  == [s \in Slot |-> countCommonPrefix(held[s], prompt)]
        longest == FirstLargest(Slot, common)
        oldest  == FirstSmallest(Free(slots), [s \in Slot |-> slots[s].lastUsed])
        whole   == common[longest] = Len(held[longest]) /\ ~slots[longest].InUse
    IN  [slot |-> IF whole THEN longest ELSE oldest, src |-> longest,
         numPast |-> common[longest]]

\* In the KV cache, shared[s][t] is how many of the first cells of s and t are the
\* same.  A copied prefix shares its cells with the source and with whom the source
\* shares; removing the cells of s from position n on ends sharing there.
CopyPrefix(shared, src, dst, n) ==
    LET with(t) == IF t = dst THEN 0 ELSE IF t = src THEN n ELSE Lesser(n, shared[src][t])
    IN  [s \in Slot |-> [t \in Slot |->
            IF s = dst THEN with(t) ELSE IF t = dst THEN with(s) ELSE shared[s][t]]]

RemoveCells(shared, s, n) ==
    [t \in Slot |-> [u \in Slot |->
        IF s \in {t, u} THEN Lesser(n, shared[t][u]) ELSE shared[t][u]]]

\* The slot for a prompt and how many of its inputs need no evaluation.  At least
\* one is left to evaluate, and none is reused if the KV cache cannot resume there.
LoadCacheSlot(slots, shared, held, prompt, cachePrompt, canResume) ==
    LET found   == IF MultiUserCache THEN findBestCacheSlot(slots, held, prompt)
                   ELSE findLongestCacheSlot(slots, held, prompt)
        past    == IF ~cachePrompt THEN 0
                   ELSE Lesser(found.numPast, Len(prompt) - 1)
        numPast == IF canResume THEN past ELSE 0
        copied  == IF found.src = found.slot \/ found.numPast = 0 THEN shared
                   ELSE CopyPrefix(shared, found.src, found.slot, found.numPast)
    IN  [slot |-> found.slot, numPast |-> numPast,
         shared |-> RemoveCells(copied, found.slot, numPast)]

\* How many inputs a shift discards: enough to free half of what numKeep leaves.
ShiftDiscard(inputs, numKeep) ==
    LET targetFree  == Greater((NumCtx - numKeep) \div 2, 1)
        currentFree == NumCtx - Len(inputs)
    IN  Lesser(Greater(targetFree - currentFree, 0), Len(inputs) - numKeep)

\* What ShiftCacheSlot keeps of a full slot: its first numKeep inputs and the newest.
ShiftedOneLess(inputs, numKeep) ==
    SubSeq(inputs, 1, numKeep)
        \o SubSeq(inputs, numKeep + ShiftDiscard(inputs, numKeep) + 1, Len(inputs) - 1)
Shifted(inputs, numKeep) ==
    SubSeq(inputs, 1, numKeep)
        \o SubSeq(inputs, numKeep + ShiftDiscard(inputs, numKeep) + 1, Len(inputs))

\* The KV cache moves a cell to its new position, which it cannot if another sequence
\* has the cell too.
CanShift(shared, s, inputs, numKeep) ==
    \A t \in Slot \ {s} : shared[s][t] <= numKeep + ShiftDiscard(inputs, numKeep)
=============================================================================

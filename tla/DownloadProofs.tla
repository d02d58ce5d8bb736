--------------------------- MODULE DownloadProofs ---------------------------
(***************************************************************************)
(* Theorems about Download, for any set of pulls, any size of the blob and *)
(* of its parts, and any number of retries, faults and crashes.            *)
(*                                                                         *)
(* The inductive invariant has three layers.  Typed says which fields mean *)
(* something at which stage, and that one download at a time is in the     *)
(* manager.  Work says that a part file never records more than has        *)
(* reached the partial file, whatever interrupts the run; the theorems     *)
(* about resuming rest on it.  BlobSound carries that over to the blob and *)
(* its manifest.                                                           *)
(***************************************************************************)
EXTENDS Download, FiniteSetTheorems, TLAPS
-----------------------------------------------------------------------------
(* The parts of the blob.                                                  *)

\* Multiplication by a natural keeps the order.
LEMMA TimesMonotone ==
    ASSUME NEW a \in Int, NEW c \in Int, NEW s \in Nat, a <= c
    PROVE  a * s <= c * s
<1>1. (c - a) * s >= 0
  BY SMT
<1> QED BY <1>1, SMT

\* The last part starts inside the blob and the parts cover it.
LEMMA LastPart ==
    /\ NumParts \in Nat \ {0}
    /\ (NumParts - 1) * PartSize < Total
    /\ Total <= NumParts * PartSize
<1> DEFINE x == Total + PartSize - 1
           n == x \div PartSize
           r == x % PartSize
<1>1. Total \in Nat /\ Total > 0 /\ PartSize \in Nat /\ PartSize > 0 /\ x \in Nat
  BY DownloadAssumption
<1>2. n \in Int /\ r \in 0 .. PartSize - 1 /\ x = n * PartSize + r
  <2> HIDE DEF x
  <2> QED BY <1>1
<1>3. n # 0 /\ n >= 0
  <2>1. CASE n <= 0
    <3>1. n * PartSize <= 0 * PartSize
      BY <2>1, <1>1, <1>2, TimesMonotone DEF n
    <3> QED BY <3>1, <1>1, <1>2
  <2> QED BY <2>1, <1>2
<1> QED BY <1>1, <1>2, <1>3 DEF NumParts

\* Where a part lies.
LEMMA PartBounds ==
    ASSUME NEW k \in Part
    PROVE  /\ Offset(k) \in Nat /\ StopsAt(k) \in Nat /\ Size(k) \in 1 .. PartSize
           /\ Offset(k) < StopsAt(k) /\ StopsAt(k) <= Total
           /\ StopsAt(k) = Offset(k) + Size(k)
<1>1. Total \in Nat /\ PartSize \in Nat /\ PartSize > 0 /\ NumParts \in Nat /\ k \in Nat /\ k <= NumParts - 1
  BY DownloadAssumption, LastPart DEF Part
<1> DEFINE o == k * PartSize
           e == (k + 1) * PartSize
           m == (NumParts - 1) * PartSize
           t == NumParts * PartSize
<1>2. o \in Nat /\ e \in Int /\ m \in Int /\ t \in Int
  <2>1. 0 * PartSize <= o
    BY <1>1, TimesMonotone
  <2> QED BY <1>1, <2>1
<1>3. e = o + PartSize /\ t = m + PartSize
  BY <1>1
<1>4. k # NumParts - 1 => e <= m
  BY <1>1, TimesMonotone
<1>5. m < Total /\ Total <= t
  BY LastPart
<1>6. k = NumParts - 1 => o = m
  OBVIOUS
<1>7. Offset(k) = o /\ StopsAt(k) = IF k = NumParts - 1 THEN Total ELSE e
  BY DEF Offset, StopsAt
<1> HIDE DEF o, e, m, t
<1> QED BY <1>1, <1>2, <1>3, <1>4, <1>5, <1>6, <1>7 DEF Size

\* The parts do not overlap.
LEMMA PartsApart ==
    ASSUME NEW j \in Part, NEW k \in Part, j < k
    PROVE  StopsAt(j) <= Offset(k)
<1>1. PartSize \in Nat /\ NumParts \in Nat /\ j \in Nat /\ k \in Nat /\ k <= NumParts - 1
  BY DownloadAssumption, LastPart DEF Part
<1>2. (j + 1) * PartSize <= k * PartSize
  BY <1>1, TimesMonotone
<1> QED BY <1>1, <1>2 DEF StopsAt, Offset

\* Every byte of the blob is in a part.
LEMMA PartsCover ==
    ASSUME NEW i \in Bytes
    PROVE  \E k \in Part : Offset(k) <= i /\ i < StopsAt(k)
<1>1. Total \in Nat /\ PartSize \in Nat /\ PartSize > 0 /\ NumParts \in Nat /\ i \in Nat /\ i < Total
  BY DownloadAssumption, LastPart DEF Bytes
<1> DEFINE k == i \div PartSize
           r == i % PartSize
<1>2. k \in Int /\ r \in 0 .. PartSize - 1 /\ i = k * PartSize + r
  BY <1>1
<1> HIDE DEF k, r
<1>3. k >= 0
  <2>1. CASE k <= -1
    <3>1. k * PartSize <= (-1) * PartSize
      BY <2>1, <1>1, <1>2, TimesMonotone
    <3> QED BY <3>1, <1>1, <1>2
  <2> QED BY <2>1, <1>2
<1>4. k <= NumParts - 1
  <2>1. CASE k >= NumParts
    <3>1. NumParts * PartSize <= k * PartSize
      BY <2>1, <1>1, <1>2, TimesMonotone
    <3> QED BY <3>1, <1>1, <1>2, LastPart
  <2> QED BY <2>1, <1>1, <1>2
<1>5. k \in Part
  BY <1>1, <1>2, <1>3, <1>4 DEF Part
<1>6. (k + 1) * PartSize = k * PartSize + PartSize
  BY <1>1, <1>2
<1>7. Offset(k) <= i /\ i < StopsAt(k)
  BY <1>1, <1>2, <1>6 DEF Offset, StopsAt
<1> QED BY <1>5, <1>7

\* A download of all the parts has the length of the blob.
LEMMA LengthOfAll == Length(Part) = Total
<1>1. Total \in Nat /\ PartSize \in Nat /\ NumParts \in Nat /\ NumParts > 0
  BY DownloadAssumption, LastPart
<1>2. NumParts - 1 \in Part /\ Part \ {NumParts - 1} = 0 .. NumParts - 2
  BY <1>1 DEF Part
<1>3. Cardinality(0 .. NumParts - 2) = NumParts - 1
  BY <1>1, FS_Interval
<1>4. Size(NumParts - 1) = Total - (NumParts - 1) * PartSize
  BY DEF Size, StopsAt, Offset
<1> DEFINE m == (NumParts - 1) * PartSize
<1>5. m \in Int
  BY <1>1
<1>6. Length(Part) = m + (Total - m)
  BY <1>2, <1>3, <1>4 DEF Length
<1> HIDE DEF m
<1> QED BY <1>1, <1>5, <1>6

\* There are finitely many parts.
LEMMA PartsFinite ==
    /\ IsFiniteSet(Part) /\ Cardinality(Part) = NumParts
    /\ \A n \in Part : IsFiniteSet(0 .. n - 1) /\ Cardinality(0 .. n - 1) = n
    /\ \A S \in SUBSET Part : Cardinality(S) \in 0 .. NumParts
<1>1. NumParts \in Nat /\ Part = 0 .. NumParts - 1
  BY LastPart DEF Part
<1>2. IsFiniteSet(Part) /\ Cardinality(Part) = NumParts
  BY <1>1, FS_Interval
<1>3. ASSUME NEW n \in Part PROVE IsFiniteSet(0 .. n - 1) /\ Cardinality(0 .. n - 1) = n
  <2>1. 0 \in Int /\ n - 1 \in Int /\ n \in Nat
    BY <1>1
  <2> QED BY <2>1, FS_Interval
<1>4. ASSUME NEW S \in SUBSET Part PROVE Cardinality(S) \in 0 .. NumParts
  <2>1. IsFiniteSet(S) /\ Cardinality(S) <= Cardinality(Part)
    BY <1>2, FS_Subset
  <2>2. Cardinality(S) \in Nat
    BY <2>1, FS_CardinalityType
  <2> QED BY <1>1, <1>2, <2>1, <2>2
<1> QED BY <1>2, <1>3, <1>4
-----------------------------------------------------------------------------
(* The inductive invariant.                                                *)

Filling == {"prepare", "start", "url", "copy"}
Running == {"start", "url", "copy", "remove", "rename"}
Waiting == {"wait", "blocked"}
PC == {"stat", "store", "glob", "head", "parts", "acquire", "wait", "blocked", "verify",
       "remove", "manifest", "ended"}
Waiters(d) == {p \in Pulls : pc[p] \in Waiting /\ joined[p] = d}
Has(k, n) == Offset(k) .. Offset(k) + n - 1 \subseteq partial

\* A pull prepares the download it made, and waits for one that was made.
PullStage ==
    \A p \in Pulls :
       /\ pc[p] \in {"stat", "store"} => dl[p].at = "none"
       /\ pc[p] \in {"glob", "head", "parts"} <=> dl[p].at = "prepare"
       /\ pc[p] \in {"glob", "head", "parts"} => joined[p] = p
       /\ pc[p] \in {"glob", "head"} => Parts(p) = {}
       /\ pc[p] = "parts" => \E n \in Part : Parts(p) = 0 .. n - 1
       /\ pc[p] \in {"acquire", "wait", "blocked"} =>
             joined[p] \in Pulls /\ dl[joined[p]].at # "none"

\* A download is in the manager until its run deletes it.
Owner ==
    /\ \A d \in Pulls : InUse(d) \/ dl[d].at = "delete" => manager = d
    /\ manager # NoDownload => dl[manager].at # "none"

\* The goroutines of the parts live while the run copies.
PartStage ==
    \A d \in Pulls :
       /\ dl[d].at \notin {"remove", "rename", "delete", "close"} => dl[d].removed = 0
       /\ dl[d].at = "remove" => dl[d].removed <= Cardinality(Parts(d))
       /\ \A k \in Part :
             /\ dl[d].parts[k].at = "save" => dl[d].at = "copy"
             /\ dl[d].at \in {"remove", "rename"} => dl[d].parts[k].at \in {"none", "ok"}
             /\ dl[d].at = "prepare" => dl[d].parts[k].completed = 0
             /\ dl[d].parts[k].completed <= Size(k)
             /\ dl[d].parts[k].at = "ok" => dl[d].parts[k].completed = Size(k)

\* A server that is down has nothing in memory.
Down == ~up => \A p \in Pulls : pc[p] \in {"stat", "ended"} /\ dl[p].at = "none"

\* references counts the pulls in Wait.
Count == \A d \in Pulls : IsFiniteSet(Waiters(d)) /\ dl[d].references = Cardinality(Waiters(d))

\* A part file never records more than its part has received.
Records ==
    /\ \A k \in Part : partFile[k] <= Size(k)
    /\ \A d \in Pulls : dl[d].at \in Filling =>
          \A k \in Parts(d) : partFile[k] <= dl[d].parts[k].completed
    /\ \A d \in Pulls, k \in Part :
          /\ dl[d].at = "remove" /\ k < dl[d].removed => partFile[k] = NoFile
          /\ dl[d].at = "rename" /\ k < Cardinality(Parts(d)) => partFile[k] = NoFile

\* Unless it was misled, a running download has all the parts, and what they received is
\* in the partial file.
HasParts(d) == Parts(d) = Part /\ \A k \in Part : Has(k, dl[d].parts[k].completed)
RunSound == ~misled => \A d \in Pulls : dl[d].at \in Running => HasParts(d)

\* Nothing but the whole blob gets its name, and a pull that is to write a manifest has seen it.
BlobSound ==
    ~misled => /\ blob # "bad" /\ (manifest => blob = "whole")
               /\ \A p \in Pulls : pc[p] # "remove" /\ (pc[p] = "manifest" => blob = "whole")

Typed == TypeOK /\ PullStage /\ Owner /\ PartStage /\ Down /\ Count
Work == Records /\ ResumeSound /\ RunSound
Inv == Typed /\ Work /\ BlobSound

-----------------------------------------------------------------------------
(* Typed holds and is kept.                                                *)

\* No download has left NewDownload's type.
LEMMA NewTyped ==
    /\ NoPart \in PartState /\ NewPart \in PartState
    /\ NewDownload \in DownloadState /\ EmptyDownload \in DownloadState
    /\ NewDownload.at = "prepare" /\ EmptyDownload.at = "none"
    /\ \A r \in {NewDownload, EmptyDownload} :
          r.references = 0 /\ r.removed = 0 /\ r.parts = [k \in Part |-> NoPart]
<1>1. PartSize \in Nat /\ MaxRetries \in Nat \ {0} /\ NumParts \in Nat
  BY DownloadAssumption, LastPart
<1>2. NoPart \in PartState /\ NewPart \in PartState
  BY <1>1 DEF NoPart, NewPart, PartState
<1>3. NewDownload \in DownloadState
  BY <1>1, <1>2 DEF NewDownload, DownloadState
<1>4. EmptyDownload \in DownloadState
  BY <1>3 DEF EmptyDownload, DownloadState
<1> QED BY <1>2, <1>3, <1>4 DEF NewDownload, EmptyDownload

\* Nothing is in use at first, so every stage is as it should be.
LEMMA InitTyped == Init => Typed
<1> SUFFICES ASSUME Init PROVE Typed
  OBVIOUS
<1>1. PartSize \in Nat /\ MaxFaults \in Nat
  BY DownloadAssumption
<1>2. \A p \in Pulls : dl[p] = EmptyDownload
  BY DEF Init
<1>3. TypeOK
  <2>1. dl \in [Pulls -> DownloadState]
    BY NewTyped DEF Init
  <2>2. partFile \in [Part -> NoFile .. PartSize]
    BY <1>1 DEF Init, NoFile
  <2>3. faults \in 0 .. MaxFaults
    BY <1>1 DEF Init
  <2> QED BY <2>1, <2>2, <2>3 DEF Init, TypeOK
<1>4. PullStage
  BY <1>2, NewTyped DEF Init, PullStage
<1>5. Owner
  BY <1>2, NewTyped DEF Init, Owner, InUse
<1>6. PartStage
  BY <1>2, NewTyped, PartBounds DEF PartStage, NoPart
<1>7. Down
  BY DEF Init, Down
<1>8. Count
  <2> SUFFICES ASSUME NEW d \in Pulls
               PROVE  IsFiniteSet(Waiters(d)) /\ dl[d].references = Cardinality(Waiters(d))
    BY DEF Count
  <2>1. Waiters(d) = {}
    BY DEF Init, Waiters, Waiting
  <2> QED BY <2>1, <1>2, NewTyped, FS_EmptySet
<1> QED BY <1>3, <1>4, <1>5, <1>6, <1>7, <1>8 DEF Typed

\* What a step of the run of d leaves alone.
LEMMA RunFrame ==
    ASSUME Typed, NEW d \in Pulls, UNCHANGED <<up, pc, joined>>,
           dl' \in [Pulls -> DownloadState], \A e \in Pulls \ {d} : dl'[e] = dl[e],
           dl'[d].references = dl[d].references,
           dl[d].at \notin {"none", "prepare"}, dl'[d].at \notin {"none", "prepare"},
           \/ manager' = manager /\ (dl'[d].at \in Running \cup {"delete"} => manager = d)
           \/ manager' = NoDownload /\ manager = d /\ dl'[d].at \notin Running \cup {"delete"}
    PROVE  PullStage' /\ Owner' /\ Down' /\ Count'
<1>1. PullStage'
  <2> SUFFICES ASSUME NEW p \in Pulls
               PROVE  PullStage!(p)'
    BY DEF PullStage
  <2>1. CASE p = d
    BY <2>1 DEF Typed, PullStage
  <2>2. CASE p # d
    <3>1. dl'[p] = dl[p] /\ Parts(p)' = Parts(p)
      BY <2>2 DEF Parts
    <3> QED BY <3>1 DEF Typed, PullStage
  <2> QED BY <2>1, <2>2
<1>2. Owner'
  BY DownloadAssumption DEF Typed, Owner, InUse, Running, TypeOK
<1>3. Down'
  BY DEF Typed, Down
<1>4. Count'
  BY DEF Typed, Count, Waiters
<1> QED BY <1>1, <1>2, <1>3, <1>4

\* A step that only moves the run of d on.
Moved(d, l) ==
    /\ dl' \in [Pulls -> DownloadState] /\ \A e \in Pulls \ {d} : dl'[e] = dl[e]
    /\ dl'[d].at = l /\ dl'[d].references = dl[d].references
    /\ dl'[d].parts = dl[d].parts /\ dl'[d].removed = dl[d].removed
    /\ Parts(d)' = Parts(d)

\* The ways a run moves on are all moves of the one download.
LEMMA RunMoves ==
    ASSUME TypeOK, NEW d \in Pulls
    PROVE  /\ \A l \in {"url", "copy", "remove", "rename", "delete", "close"} : RunTo(d, l) => Moved(d, l)
           /\ RunFails(d) => Moved(d, "delete")
           /\ dl' = [dl EXCEPT ![d].CancelFunc = TRUE, ![d].at = "url"] => Moved(d, "url")
           /\ dl' = [dl EXCEPT ![d].CancelFunc = TRUE, ![d].at = "delete", ![d].err = TRUE]
                 => Moved(d, "delete")
<1>1. dl \in [Pulls -> DownloadState]
  BY DEF TypeOK
<1>2. \A l \in {"url", "copy", "remove", "rename", "delete", "close"} : RunTo(d, l) => Moved(d, l)
  BY <1>1 DEF RunTo, Moved, DownloadState, Parts
<1>3. ASSUME RunFails(d) PROVE Moved(d, "delete")
  <2>1. dl'[d] = [dl[d] EXCEPT !.at = "delete", !.err = TRUE]
    BY <1>1, <1>3 DEF RunFails
  <2>2. dl'[d] \in DownloadState
    BY <1>1, <2>1 DEF DownloadState
  <2>3. dl' \in [Pulls -> DownloadState] /\ \A e \in Pulls \ {d} : dl'[e] = dl[e]
    BY <1>1, <1>3, <2>1, <2>2 DEF RunFails
  <2> QED BY <1>1, <2>1, <2>3 DEF Moved, DownloadState, Parts
<1>4. ASSUME dl' = [dl EXCEPT ![d].CancelFunc = TRUE, ![d].at = "url"] PROVE Moved(d, "url")
  <2>1. dl'[d] = [dl[d] EXCEPT !.CancelFunc = TRUE, !.at = "url"]
    BY <1>1, <1>4
  <2>2. dl'[d] \in DownloadState
    BY <1>1, <2>1 DEF DownloadState
  <2>3. dl' \in [Pulls -> DownloadState] /\ \A e \in Pulls \ {d} : dl'[e] = dl[e]
    BY <1>1, <1>4, <2>1, <2>2
  <2> QED BY <1>1, <2>1, <2>3 DEF Moved, DownloadState, Parts
<1>5. ASSUME dl' = [dl EXCEPT ![d].CancelFunc = TRUE, ![d].at = "delete", ![d].err = TRUE]
      PROVE  Moved(d, "delete")
  <2>1. dl'[d] = [dl[d] EXCEPT !.CancelFunc = TRUE, !.at = "delete", !.err = TRUE]
    BY <1>1, <1>5
  <2>2. dl'[d] \in DownloadState
    BY <1>1, <2>1 DEF DownloadState
  <2>3. dl' \in [Pulls -> DownloadState] /\ \A e \in Pulls \ {d} : dl'[e] = dl[e]
    BY <1>1, <1>5, <2>1, <2>2
  <2> QED BY <1>1, <2>1, <2>3 DEF Moved, DownloadState, Parts
<1> QED BY <1>2, <1>3, <1>4, <1>5

\* A step of the goroutine of part k.
PartMoved(d, k, s) ==
    /\ dl' \in [Pulls -> DownloadState] /\ \A e \in Pulls \ {d} : dl'[e] = dl[e]
    /\ dl'[d].at = dl[d].at /\ dl'[d].references = dl[d].references
    /\ dl'[d].parts[k] = s /\ \A j \in Part \ {k} : dl'[d].parts[j] = dl[d].parts[j]
    /\ dl'[d].removed = dl[d].removed

\* Setting one part leaves the other parts and downloads alone.
LEMMA PartMoves ==
    ASSUME TypeOK, NEW d \in Pulls, NEW k \in Part, NEW s \in PartState, SetPart(d, k, s)
    PROVE  PartMoved(d, k, s)
<1>1. dl \in [Pulls -> DownloadState]
  BY DEF TypeOK
<1>2. dl[d].parts \in [Part -> PartState]
  BY <1>1 DEF DownloadState
<1>3. [dl[d] EXCEPT !.parts[k] = s] \in DownloadState
  BY <1>1, <1>2 DEF DownloadState
<1> QED BY <1>1, <1>2, <1>3 DEF SetPart, PartMoved, DownloadState

\* What a part may become.
LEMMA PartTyped ==
    ASSUME NEW s \in PartState
    PROVE  /\ \A l \in {"ok", "failed"} : /\ Over(s, l) \in PartState /\ Over(s, l).at = l
                                          /\ Over(s, l).completed = s.completed
           /\ Again(s) \in PartState /\ Again(s).at = "get" /\ Again(s).completed = s.completed
           /\ Retry(s) \in PartState /\ Retry(s).at \in {"get", "failed"}
           /\ Retry(s).completed = s.completed
<1>1. MaxRetries \in Nat \ {0}
  BY DownloadAssumption
<1>2. s.completed \in 0 .. PartSize /\ s.try \in 0 .. MaxRetries - 1
  BY DEF PartState
<1>3. ASSUME NEW l \in {"ok", "failed"}
      PROVE  Over(s, l) \in PartState /\ Over(s, l).at = l /\ Over(s, l).completed = s.completed
  BY <1>2, NewTyped DEF Over, PartState
<1>4. Again(s) \in PartState /\ Again(s).at = "get" /\ Again(s).completed = s.completed
  BY DEF Again, PartState
<1>5. /\ Retry(s) \in PartState /\ Retry(s).at \in {"get", "failed"}
      /\ Retry(s).completed = s.completed
  <2>1. CASE s.try + 1 < MaxRetries
    <3>1. s.try + 1 \in 0 .. MaxRetries - 1
      BY <1>1, <1>2, <2>1
    <3> QED BY <2>1, <3>1 DEF Retry, Again, PartState
  <2>2. CASE ~(s.try + 1 < MaxRetries)
    BY <2>2, <1>3 DEF Retry
  <2> QED BY <2>1, <2>2
<1> QED BY <1>3, <1>4, <1>5

\* A run that moves on within what it may do keeps Typed.
LEMMA MoveTyped ==
    ASSUME Typed, NEW d \in Pulls, NEW l, Moved(d, l), UNCHANGED <<up, pc, joined>>,
           dl[d].at \in Running \cup {"delete"}, l \in {"url", "copy", "remove", "rename", "delete", "close"},
           manager' = IF l = "close" THEN NoDownload ELSE manager,
           \A k \in Part : /\ dl[d].parts[k].at = "save" => l = "copy"
                           /\ l \in {"remove", "rename"} => dl[d].parts[k].at \in {"none", "ok"},
           dl[d].removed = 0 \/ l \in {"rename", "delete", "close"},
           partFile' \in [Part -> NoFile .. PartSize], partial' \subseteq Bytes,
           blob' \in {"none", "whole", "bad"}, manifest' = manifest,
           misled' \in BOOLEAN, faults' \in 0 .. MaxFaults
    PROVE  Typed'
<1>1. TypeOK'
  BY DEF Typed, TypeOK, Moved
<1>2. PullStage' /\ Owner' /\ Down' /\ Count'
  <2>1. manager = d
    BY DEF Typed, Owner, InUse, Running
  <2>2. /\ dl[d].at \notin {"none", "prepare"} /\ dl'[d].at \notin {"none", "prepare"}
        /\ \/ manager' = manager /\ (dl'[d].at \in Running \cup {"delete"} => manager = d)
           \/ manager' = NoDownload /\ manager = d /\ dl'[d].at \notin Running \cup {"delete"}
    BY <2>1 DEF Moved, Running
  <2> QED BY <2>2, RunFrame DEF Moved
<1>3. PartStage'
  <2> SUFFICES ASSUME NEW e \in Pulls PROVE PartStage!(e)'
    BY DEF PartStage
  <2>1. CASE e # d
    <3>1. dl'[e] = dl[e] /\ Parts(e)' = Parts(e)
      BY <2>1 DEF Moved, Parts
    <3> QED BY <3>1 DEF Typed, PartStage
  <2>2. CASE e = d
    <3>1. Cardinality(Parts(d)) \in Nat
      BY PartsFinite DEF Parts
    <3>2. dl'[d].at = l /\ dl'[d].parts = dl[d].parts /\ dl'[d].removed = dl[d].removed
          /\ Parts(d)' = Parts(d)
      BY DEF Moved
    <3>3. dl[d].at \notin {"remove", "rename", "delete", "close"} => dl[d].removed = 0
      BY DEF Typed, PartStage
    <3>4. /\ dl'[d].at \notin {"remove", "rename", "delete", "close"} => dl'[d].removed = 0
          /\ dl'[d].at = "remove" => dl'[d].removed <= Cardinality(Parts(d)')
      BY <3>1, <3>2
    <3>5. \A k \in Part : PartStage!(d)!3!(k)'
      BY <3>2 DEF Typed, PartStage
    <3> QED BY <2>2, <3>4, <3>5
  <2> QED BY <2>1, <2>2
<1> QED BY <1>1, <1>2, <1>3 DEF Typed

\* So does the goroutine of a part.
LEMMA PartTypedStep ==
    ASSUME Typed, NEW d \in Pulls, NEW k \in Part, NEW s \in PartState, PartMoved(d, k, s),
           UNCHANGED <<up, manager, pc, joined>>, dl[d].at = "copy", s.completed <= Size(k),
           s.at = "ok" => s.completed = Size(k),
           partFile' \in [Part -> NoFile .. PartSize], partial' \subseteq Bytes,
           blob' = blob, manifest' = manifest, misled' \in BOOLEAN, faults' \in 0 .. MaxFaults
    PROVE  Typed'
<1>1. TypeOK'
  BY DEF Typed, TypeOK, PartMoved
<1>2. PullStage' /\ Owner' /\ Down' /\ Count'
  <2>1. manager = d
    BY DEF Typed, Owner, InUse
  <2>2. dl'[d].at = "copy"
    BY DEF PartMoved
  <2> QED BY <2>1, <2>2, RunFrame DEF PartMoved
<1>3. PartStage'
  <2> SUFFICES ASSUME NEW e \in Pulls PROVE PartStage!(e)'
    BY DEF PartStage
  <2>1. CASE e # d
    <3>1. dl'[e] = dl[e] /\ Parts(e)' = Parts(e)
      BY <2>1 DEF PartMoved, Parts
    <3> QED BY <3>1 DEF Typed, PartStage
  <2>2. CASE e = d
    <3>1. dl'[d].at = "copy" /\ dl'[d].removed = 0
      BY DEF PartMoved, Typed, PartStage
    <3>2. \A j \in Part : PartStage!(d)!3!(j)'
      <4> SUFFICES ASSUME NEW j \in Part PROVE PartStage!(d)!3!(j)'
        OBVIOUS
      <4>1. CASE j = k
        BY <3>1, <4>1 DEF PartMoved
      <4>2. CASE j # k
        BY <3>1, <4>2 DEF PartMoved, Typed, PartStage
      <4> QED BY <4>1, <4>2
    <3> QED BY <2>2, <3>1, <3>2
  <2> QED BY <2>1, <2>2
<1> QED BY <1>1, <1>2, <1>3 DEF Typed

\* The types a run's step does not have to think about.
LEMMA Kinds ==
    ASSUME TypeOK
    PROVE  /\ partFile \in [Part -> NoFile .. PartSize] /\ partial \subseteq Bytes
           /\ blob \in {"none", "whole", "bad"} /\ misled \in BOOLEAN /\ faults \in 0 .. MaxFaults
           /\ \A k \in Part, n \in NoFile .. PartSize :
                 [partFile EXCEPT ![k] = n] \in [Part -> NoFile .. PartSize]
           /\ NoFile \in NoFile .. PartSize /\ Torn \in NoFile .. PartSize
           /\ 0 .. PartSize \subseteq NoFile .. PartSize
           /\ Fault => faults' \in 0 .. MaxFaults
<1>1. PartSize \in Nat /\ MaxFaults \in Nat
  BY DownloadAssumption
<1>2. /\ NoFile \in NoFile .. PartSize /\ Torn \in NoFile .. PartSize
      /\ 0 .. PartSize \subseteq NoFile .. PartSize
  BY <1>1 DEF NoFile, Torn
<1>3. partFile \in [Part -> NoFile .. PartSize] /\ faults \in 0 .. MaxFaults
  BY DEF TypeOK
<1>4. \A k \in Part, n \in NoFile .. PartSize :
          [partFile EXCEPT ![k] = n] \in [Part -> NoFile .. PartSize]
  BY <1>3
<1>5. Fault => faults' \in 0 .. MaxFaults
  BY <1>1, <1>3 DEF Fault
<1> QED BY <1>2, <1>3, <1>4, <1>5 DEF TypeOK

\* Opening the partial file, or failing to, keeps the types and the stages.
LEMMA OpenTyped == ASSUME Typed, NEW d \in Pulls, Open(d) PROVE Typed'
<1>1. PICK l \in {"url", "delete"} : Moved(d, l) /\ partial' \subseteq partial
  BY RunMoves DEF Open, Typed
<1>2. /\ dl[d].at = "start" /\ dl[d].removed = 0
      /\ \A k \in Part : dl[d].parts[k].at # "save"
      /\ UNCHANGED <<up, pc, joined, manager, partFile, blob, manifest, misled, faults>>
  BY DEF Open, b, Typed, PartStage
<1> QED BY <1>1, <1>2, MoveTyped, Kinds DEF Typed, Running

\* So does asking for the direct URL,
LEMMA DirectURLTyped == ASSUME Typed, NEW d \in Pulls, DirectURL(d) PROVE Typed'
<1>1. PICK l \in {"copy", "delete"} : Moved(d, l)
  BY RunMoves DEF DirectURL, Typed
<1>2. /\ dl[d].at = "url" /\ dl[d].removed = 0
      /\ \A k \in Part : dl[d].parts[k].at # "save"
      /\ UNCHANGED <<up, pc, joined, manager, partFile, partial, blob, manifest, misled, faults>>
  BY DEF DirectURL, b, Typed, PartStage, files
<1> QED BY <1>1, <1>2, MoveTyped, Kinds DEF Typed, Running

\* waiting for the parts,
LEMMA GroupWaitTyped == ASSUME Typed, NEW d \in Pulls, GroupWait(d) PROVE Typed'
<1>1. PICK l \in {"remove", "delete"} :
         Moved(d, l) /\ (l = "remove" => \A k \in Parts(d) : dl[d].parts[k].at = "ok")
  BY RunMoves DEF GroupWait, Typed, b
<1>2. /\ dl[d].at = "copy" /\ dl[d].removed = 0
      /\ \A k \in Parts(d) : dl[d].parts[k].at \in {"ok", "failed"}
      /\ UNCHANGED <<up, pc, joined, manager, partFile, partial, blob, manifest, misled, faults>>
  BY DEF GroupWait, b, Typed, PartStage, files
<1>3. \A k \in Part : /\ dl[d].parts[k].at # "save"
                      /\ l = "remove" => dl[d].parts[k].at \in {"none", "ok"}
  BY <1>1, <1>2 DEF Parts
<1> QED BY <1>1, <1>2, <1>3, MoveTyped, Kinds DEF Typed, Running

\* removing the part files one by one (the count stays within the parts),
LEMMA RemovePartTyped == ASSUME Typed, NEW d \in Pulls, RemovePart(d) PROVE Typed'
<1> DEFINE i == dl[d].removed
<1>0. dl \in [Pulls -> DownloadState] /\ TypeOK
  BY DEF Typed, TypeOK
<1>1. /\ dl[d].at = "remove" /\ i \in Nat /\ i <= Cardinality(Parts(d))
      /\ Cardinality(Parts(d)) \in 0 .. NumParts /\ NumParts \in Nat
      /\ \A k \in Part : dl[d].parts[k].at \in {"none", "ok"}
      /\ UNCHANGED <<up, pc, joined, manager, partial, blob, manifest, misled, faults>>
  <2>1. i \in Nat
    BY <1>0, LastPart DEF DownloadState
  <2> QED BY <2>1, PartsFinite, LastPart DEF RemovePart, b, Typed, PartStage, Parts
<1>2. CASE RunTo(d, "rename") /\ UNCHANGED partFile
  <2>1. Moved(d, "rename")
    BY <1>0, <1>2, RunMoves
  <2> QED BY <1>0, <1>1, <1>2, <2>1, MoveTyped, Kinds DEF Running
<1>3. CASE RunFails(d) /\ UNCHANGED partFile
  <2>1. Moved(d, "delete")
    BY <1>0, <1>3, RunMoves
  <2> QED BY <1>0, <1>1, <1>3, <2>1, MoveTyped, Kinds DEF Running
<1>4. CASE /\ i # Cardinality(Parts(d)) /\ partFile' = [partFile EXCEPT ![i] = NoFile]
           /\ dl' = [dl EXCEPT ![d].removed = i + 1]
  <2>1. i + 1 \in 0 .. NumParts /\ i + 1 <= Cardinality(Parts(d)) /\ i \in Part
    BY <1>1, <1>4 DEF Part
  <2>2. dl'[d] = [dl[d] EXCEPT !.removed = i + 1] /\ \A e \in Pulls \ {d} : dl'[e] = dl[e]
    BY <1>0, <1>4
  <2>3. dl'[d] \in DownloadState
    BY <1>0, <2>1, <2>2 DEF DownloadState
  <2>4. dl' \in [Pulls -> DownloadState]
    BY <1>0, <1>4, <2>1, <2>2, <2>3
  <2>5. /\ dl'[d].at = "remove" /\ dl'[d].references = dl[d].references
        /\ dl'[d].parts = dl[d].parts /\ dl'[d].removed = i + 1 /\ Parts(d)' = Parts(d)
    BY <1>0, <1>1, <2>2 DEF DownloadState, Parts
  <2>6. TypeOK'
    BY <1>0, <1>1, <1>4, <2>1, <2>4, Kinds DEF TypeOK
  <2>7. PullStage' /\ Owner' /\ Down' /\ Count'
    <3>1. manager = d
      BY <1>1 DEF Typed, Owner, InUse
    <3> QED BY <1>1, <2>2, <2>4, <2>5, <3>1, RunFrame
  <2>8. PartStage'
    <3> SUFFICES ASSUME NEW e \in Pulls PROVE PartStage!(e)'
      BY DEF PartStage
    <3>1. CASE e # d
      <4>1. dl'[e] = dl[e] /\ Parts(e)' = Parts(e)
        BY <2>2, <3>1 DEF Parts
      <4> QED BY <4>1 DEF Typed, PartStage
    <3>2. CASE e = d
      BY <1>1, <2>1, <2>5, <3>2 DEF Typed, PartStage
    <3> QED BY <3>1, <3>2
  <2> QED BY <2>6, <2>7, <2>8 DEF Typed
<1> QED BY <1>2, <1>3, <1>4 DEF RemovePart, b

\* renaming the partial file to the blob,
LEMMA RenameTyped == ASSUME Typed, NEW d \in Pulls, Rename(d) PROVE Typed'
<1>1. Moved(d, "delete")
  BY RunMoves DEF Rename, Typed
<1>2. /\ dl[d].at = "rename" /\ \A k \in Part : dl[d].parts[k].at \in {"none", "ok"}
      /\ partial' \in {partial, {}} /\ blob' \in {blob, "whole", "bad"}
      /\ UNCHANGED <<up, pc, joined, manager, partFile, manifest, misled, faults>>
  BY DEF Rename, b, Typed, PartStage
<1> QED BY <1>1, <1>2, MoveTyped, Kinds DEF Typed, Running

\* giving up the place in the manager,
LEMMA DeleteTyped == ASSUME Typed, NEW d \in Pulls, Delete(d) PROVE Typed'
<1>1. Moved(d, "close")
  BY RunMoves DEF Delete, Typed
<1>2. /\ dl[d].at = "delete" /\ \A k \in Part : dl[d].parts[k].at # "save"
      /\ UNCHANGED <<up, pc, joined, partFile, partial, blob, manifest, misled, faults>>
      /\ manager' = NoDownload
  BY DEF Delete, b, Typed, PartStage, files
<1> QED BY <1>1, <1>2, MoveTyped, Kinds DEF Typed, Running

\* and closing done, which leaves only what the waiters still read.
LEMMA CloseTyped == ASSUME Typed, NEW d \in Pulls, Close(d) PROVE Typed'
<1>0. dl \in [Pulls -> DownloadState] /\ TypeOK
  BY DEF Typed, TypeOK
<1>1. /\ dl[d].at = "close"
      /\ UNCHANGED <<up, pc, joined, manager, partFile, partial, blob, manifest, misled, faults>>
  BY DEF Close, b, files
<1> DEFINE r == [NewDownload EXCEPT !.at = "done", !.err = dl[d].err,
                          !.references = dl[d].references, !.CancelFunc = TRUE]
<1>2. r \in DownloadState
  BY <1>0, NewTyped DEF DownloadState
<1>3. /\ r.at = "done" /\ r.references = dl[d].references /\ r.removed = 0
      /\ r.parts = [k \in Part |-> NoPart]
  BY NewTyped DEF NewDownload
<1>4. dl' = [dl EXCEPT ![d] = r]
  BY DEF Close, b
<1> HIDE DEF r
<1>5. dl' \in [Pulls -> DownloadState] /\ dl'[d] = r /\ \A e \in Pulls \ {d} : dl'[e] = dl[e]
  BY <1>0, <1>2, <1>4
<1>6. TypeOK'
  BY <1>0, <1>1, <1>5 DEF TypeOK
<1>7. PullStage' /\ Owner' /\ Down' /\ Count'
  BY <1>1, <1>3, <1>5, RunFrame DEF Running
<1>8. PartStage'
  <2> SUFFICES ASSUME NEW e \in Pulls PROVE PartStage!(e)'
    BY DEF PartStage
  <2>1. CASE e # d
    <3>1. dl'[e] = dl[e] /\ Parts(e)' = Parts(e)
      BY <1>5, <2>1 DEF Parts
    <3> QED BY <3>1 DEF Typed, PartStage
  <2>2. CASE e = d
    BY <1>3, <1>5, <2>2, PartBounds DEF NoPart
  <2> QED BY <2>1, <2>2
<1> QED BY <1>6, <1>7, <1>8 DEF Typed

\* What CopyN may do to part k: `completed' grows within the part, or the attempt fails.
ChunkOutcome(d, k, s) ==
    LET old == dl[d].parts[k] IN
    \/ \E n \in Nat :
          /\ s = [old EXCEPT !.completed = @ + n, !.at = "save"]
          /\ old.completed + n <= Size(k)
          /\ LET got == Offset(k) + old.completed .. Offset(k) + old.completed + n - 1 IN
             \/ partial' = partial \cup got /\ UNCHANGED <<misled, faults>>
             \/ partial' = partial \ got /\ misled' = TRUE /\ Fault
    \/ /\ s \in {Retry(old), Over(old, "failed")}
       /\ partial' = {i \in partial : i \notin Offset(k) + old.completed .. StopsAt(k) - 1}
       /\ Fault /\ UNCHANGED misled

\* What downloadChunk can do to a part: it may only gain bytes, up to its size.
LEMMA Chunk ==
    ASSUME Typed, NEW d \in Pulls, NEW k \in Part, downloadChunk(d, k)
    PROVE  \E s \in PartState :
              /\ PartMoved(d, k, s) /\ ChunkOutcome(d, k, s)
              /\ s.at \in {"save", "get", "failed"} /\ s.completed <= Size(k)
              /\ s.completed >= dl[d].parts[k].completed
<1> DEFINE old == dl[d].parts[k]
<1>0. TypeOK /\ dl \in [Pulls -> DownloadState] /\ dl[d].parts \in [Part -> PartState]
  <2>1. dl \in [Pulls -> DownloadState] /\ TypeOK
    BY DEF Typed, TypeOK
  <2> QED BY <2>1 DEF DownloadState
<1>1. old \in PartState /\ old.completed \in 0 .. PartSize /\ old.completed <= Size(k)
  BY <1>0 DEF PartState, Typed, PartStage
<1>2. /\ Offset(k) \in Nat /\ StopsAt(k) \in Nat /\ Size(k) \in 1 .. PartSize
      /\ StopsAt(k) = Offset(k) + Size(k) /\ PartSize \in Nat
  BY PartBounds, DownloadAssumption
<1>3. CASE Kept(d, k)
  <2> DEFINE start == Offset(k) + old.completed
  <2>1. PICK n \in 0 .. StopsAt(k) - start :
           /\ \/ partial' = partial \cup (start .. start + n - 1) /\ UNCHANGED <<misled, faults>>
              \/ partial' = partial \ (start .. start + n - 1) /\ misled' = TRUE /\ Fault
           /\ SetPart(d, k, [old EXCEPT !.completed = @ + n, !.at = "save"])
    BY <1>3 DEF Kept, b
  <2> DEFINE s == [old EXCEPT !.completed = @ + n, !.at = "save"]
  <2>2. n \in Nat /\ old.completed + n <= Size(k) /\ old.completed + n \in 0 .. PartSize
    BY <1>1, <1>2, <2>1
  <2>3. s \in PartState /\ s.at = "save" /\ s.completed = old.completed + n
    BY <1>1, <2>2 DEF PartState
  <2>4. PartMoved(d, k, s)
    BY <1>0, <2>1, <2>3, PartMoves
  <2>5. ChunkOutcome(d, k, s)
    BY <2>1, <2>2 DEF ChunkOutcome
  <2>6. s.completed <= Size(k) /\ s.completed >= old.completed
    BY <1>1, <1>2, <2>2, <2>3
  <2> QED BY <2>3, <2>4, <2>5, <2>6
<1>4. CASE RolledBack(d, k)
  <2>1. PICK s \in {Retry(old), Over(old, "failed")} : SetPart(d, k, s)
    BY <1>4 DEF RolledBack, b
  <2>2. s \in PartState /\ s.at \in {"get", "failed"} /\ s.completed = old.completed
    BY <1>1, <2>1, PartTyped
  <2>3. PartMoved(d, k, s)
    BY <1>0, <2>1, <2>2, PartMoves
  <2>4. ChunkOutcome(d, k, s)
    BY <1>4, <2>1 DEF ChunkOutcome, RolledBack, b
  <2>5. s.completed <= Size(k) /\ s.completed >= old.completed
    BY <1>1, <1>2, <2>2
  <2> QED BY <2>2, <2>3, <2>4, <2>5
<1> QED BY <1>3, <1>4 DEF downloadChunk

\* downloadChunk keeps the types and the stages.
LEMMA downloadChunkTyped ==
    ASSUME Typed, NEW d \in Pulls, NEW k \in Part, downloadChunk(d, k) PROVE Typed'
<1>1. PICK s \in PartState : /\ PartMoved(d, k, s) /\ ChunkOutcome(d, k, s)
                             /\ s.at \in {"save", "get", "failed"} /\ s.completed <= Size(k)
  BY Chunk
<1>2. dl[d].at = "copy" /\ UNCHANGED <<up, manager, pc, joined, partFile, blob, manifest>>
  BY DEF downloadChunk, b
<1>3. misled' \in BOOLEAN /\ faults' \in 0 .. MaxFaults
  BY <1>1, Kinds DEF ChunkOutcome, Typed
<1>4. partial' \subseteq Bytes
  <2>1. /\ Offset(k) \in Nat /\ StopsAt(k) = Offset(k) + Size(k) /\ StopsAt(k) <= Total
        /\ dl[d].parts[k].completed \in Nat /\ Size(k) \in Nat /\ Total \in Nat
    <3>1. dl[d].parts[k] \in PartState
      BY DEF Typed, TypeOK, DownloadState
    <3> QED BY <3>1, PartBounds, DownloadAssumption DEF PartState
  <2>2. \A n \in Nat : dl[d].parts[k].completed + n <= Size(k) =>
           Offset(k) + dl[d].parts[k].completed .. Offset(k) + dl[d].parts[k].completed + n - 1 \subseteq Bytes
    BY <2>1 DEF Bytes
  <2>3. partial \subseteq Bytes
    BY DEF Typed, TypeOK
  <2> QED BY <1>1, <2>2, <2>3 DEF ChunkOutcome
<1> QED BY <1>1, <1>2, <1>3, <1>4, PartTypedStep, Kinds DEF Typed

\* What writePart may leave of part k and its file.
WriteOutcome(d, k, s) ==
    LET old == dl[d].parts[k] IN
    /\ \E left \in {partFile[k], Torn, old.completed} : partFile' = [partFile EXCEPT ![k] = left]
    /\ s.completed = old.completed /\ s.at \in {"get", "failed", "ok"}
    /\ s.at = "ok" => old.completed = Size(k)

\* What writing a part file can do: it records what the part has, or tears.
LEMMA Write ==
    ASSUME Typed, NEW d \in Pulls, NEW k \in Part, writePart(d, k)
    PROVE  /\ dl[d].at = "copy" /\ UNCHANGED <<up, manager, pc, joined, partial, blob, manifest, misled>>
           /\ faults' \in 0 .. MaxFaults
           /\ \E s \in PartState : PartMoved(d, k, s) /\ WriteOutcome(d, k, s)
<1> DEFINE s == dl[d].parts[k]
<1>0. TypeOK /\ dl \in [Pulls -> DownloadState] /\ dl[d].parts \in [Part -> PartState]
  <2>1. dl \in [Pulls -> DownloadState] /\ TypeOK
    BY DEF Typed, TypeOK
  <2> QED BY <2>1 DEF DownloadState
<1>1. s \in PartState
  BY <1>0
<1>2. /\ dl[d].at = "copy" /\ UNCHANGED <<up, manager, pc, joined, partial, blob, manifest, misled>>
  BY DEF writePart, b, Typed, PartStage
<1>3. faults' \in 0 .. MaxFaults
  BY <1>0, Kinds DEF writePart, Saved, NotSaved, Stalled
<1>4. \E t \in PartState : PartMoved(d, k, t) /\ WriteOutcome(d, k, t)
  <2>1. CASE Saved(d, k, s)
    <3>1. PICK t \in {Over(s, "ok"), Retry(s), Over(s, "failed")} :
             SetPart(d, k, t) /\ (t = Over(s, "ok") => s.completed = Size(k))
      BY <2>1, PartTyped, <1>1 DEF Saved
    <3>2. t \in PartState /\ t.completed = s.completed /\ t.at \in {"get", "failed", "ok"}
      BY <1>1, <3>1, PartTyped
    <3>3. t.at = "ok" => s.completed = Size(k)
      BY <1>1, <3>1, PartTyped
    <3>4. PartMoved(d, k, t)
      BY <1>0, <3>1, <3>2, PartMoves
    <3> QED BY <2>1, <3>2, <3>3, <3>4 DEF Saved, WriteOutcome
  <2>2. CASE NotSaved(d, k, s)
    <3>1. PICK t \in {Retry(s), Over(s, "failed")} : SetPart(d, k, t)
      BY <2>2 DEF NotSaved
    <3>2. t \in PartState /\ t.completed = s.completed /\ t.at \in {"get", "failed"}
      BY <1>1, <3>1, PartTyped
    <3>3. PartMoved(d, k, t)
      BY <1>0, <3>1, <3>2, PartMoves
    <3> QED BY <2>2, <3>2, <3>3 DEF NotSaved, WriteOutcome
  <2>3. CASE Stalled(d, k, s)
    <3>1. PartMoved(d, k, Again(s)) /\ Again(s) \in PartState
      BY <1>0, <1>1, <2>3, PartTyped, PartMoves DEF Stalled
    <3> QED BY <1>1, <2>3, <3>1, PartTyped DEF Stalled, WriteOutcome
  <2>4. Saved(d, k, s) \/ NotSaved(d, k, s) \/ Stalled(d, k, s)
    BY DEF writePart, b
  <2> QED BY <2>1, <2>2, <2>3, <2>4
<1> QED BY <1>2, <1>3, <1>4

\* writePart keeps the types and the stages.
LEMMA writePartTyped ==
    ASSUME Typed, NEW d \in Pulls, NEW k \in Part, writePart(d, k) PROVE Typed'
<1>1. PICK s \in PartState : PartMoved(d, k, s) /\ WriteOutcome(d, k, s)
  BY Write
<1>2. /\ dl[d].parts[k].completed \in 0 .. PartSize /\ dl[d].parts[k].completed <= Size(k)
  <2>1. dl[d].parts[k] \in PartState
    BY DEF Typed, TypeOK, DownloadState
  <2> QED BY <2>1 DEF Typed, PartStage, PartState
<1>3. partFile' \in [Part -> NoFile .. PartSize]
  BY <1>1, <1>2, Kinds DEF WriteOutcome, Typed
<1>4. s.completed <= Size(k) /\ (s.at = "ok" => s.completed = Size(k))
  BY <1>1, <1>2 DEF WriteOutcome
<1> QED BY <1>1, <1>3, <1>4, Write, PartTypedStep, Kinds DEF Typed

\* The goroutines of pulls other than p are where they were.
PullMoved(p, l) ==
    /\ pc' \in [Pulls -> PC] /\ pc'[p] = l /\ \A q \in Pulls \ {p} : pc'[q] = pc[q]

\* A pull moves on alone.
LEMMA PullMoves ==
    ASSUME TypeOK, NEW p \in Pulls, NEW l \in PC, Goto(p, l) PROVE PullMoved(p, l)
<1>1. pc \in [Pulls -> PC]
  BY DEF TypeOK, PC
<1> QED BY <1>1 DEF PullMoved, Goto

\* A pull that neither starts nor stops waiting changes no count.
LEMMA SameWaiters ==
    ASSUME Count, NEW p \in Pulls, NEW l \in PC, PullMoved(p, l),
           pc[p] \notin Waiting, l \notin Waiting,
           \A q \in Pulls \ {p} : joined'[q] = joined[q],
           \A d \in Pulls : dl'[d].references = dl[d].references
    PROVE  Count'
<1>1. ASSUME NEW d \in Pulls PROVE Waiters(d)' = Waiters(d)
  BY DEF Waiters, PullMoved
<1> QED BY <1>1 DEF Count

\* A step of a pull that touches no download.
LEMMA PullStep ==
    ASSUME Typed, NEW p \in Pulls, NEW l \in PC, Goto(p, l), UNCHANGED <<manager, dl, joined, up>>, up,
           \/ pc[p] \in {"stat", "verify", "remove", "manifest"} /\ l \in {"manifest", "remove", "ended"}
           \/ pc[p] = "stat" /\ l = "store"
           \/ pc[p] = "glob" /\ l = "head"
           \/ pc[p] = "head" /\ l = "parts",
           UNCHANGED <<partFile, partial>>, blob' \in {"none", "whole", "bad"},
           manifest' \in BOOLEAN, UNCHANGED <<misled, faults>>
    PROVE  Typed'
<1>0. PullMoved(p, l)
  BY PullMoves DEF Typed
<1>1. TypeOK'
  BY <1>0 DEF Typed, TypeOK, PullMoved, PC
<1>2. PullStage'
  <2> SUFFICES ASSUME NEW q \in Pulls PROVE PullStage!(q)'
    BY DEF PullStage
  <2>1. \A d \in Pulls : Parts(d)' = Parts(d)
    BY DEF Parts
  <2>2. CASE q # p
    BY <1>0, <2>1, <2>2 DEF PullMoved, Typed, PullStage
  <2>3. CASE q = p
    <3>1. pc'[p] = l
      BY <1>0 DEF PullMoved
    <3>2. PullStage!(p)
      BY DEF Typed, PullStage
    <3>3. CASE l = "parts"
      <4>1. 0 \in Part /\ {} = 0 .. 0 - 1
        BY LastPart DEF Part
      <4>2. Parts(p)' = 0 .. 0 - 1
        BY <2>1, <3>2, <3>3, <4>1
      <4> QED BY <2>3, <3>1, <3>2, <3>3, <4>1, <4>2
    <3>4. CASE l # "parts"
      BY <2>1, <2>3, <3>1, <3>2, <3>4 DEF PC
    <3> QED BY <3>3, <3>4
  <2> QED BY <2>2, <2>3
<1>3. Owner'
  BY DEF Typed, Owner, InUse
<1>4. PartStage'
  <2>1. \A d \in Pulls : Parts(d)' = Parts(d)
    BY DEF Parts
  <2> QED BY <2>1 DEF Typed, PartStage
<1>5. Down'
  BY DEF Down
<1>6. Count'
  BY <1>0, SameWaiters DEF Typed, Waiting
<1> QED BY <1>1, <1>2, <1>3, <1>4, <1>5, <1>6 DEF Typed

\* Looking for the blob keeps the types and the stages.
LEMMA StatTyped == ASSUME Typed, NEW p \in Pulls, Stat(p) PROVE Typed'
<1> DEFINE l == IF blob = "none" THEN "store" ELSE "manifest"
<1>1. l \in {"store", "manifest"} /\ l \in PC
  BY DEF PC
<1>2. /\ pc[p] = "stat" /\ up /\ Goto(p, l)
      /\ UNCHANGED <<up, manager, dl, joined, partFile, partial, blob, manifest, misled, faults>>
  BY DEF Stat, files
<1>3. blob \in {"none", "whole", "bad"} /\ manifest \in BOOLEAN
  BY DEF Typed, TypeOK
<1> HIDE DEF l
<1> QED BY <1>1, <1>2, <1>3, PullStep

\* Only a server that is up has a pull under way or a download.
LEMMA UpHolds ==
    ASSUME Typed, NEW p \in Pulls, pc[p] \notin {"stat", "ended"} \/ dl[p].at # "none" PROVE up
BY DEF Typed, Down

\* So does checking its digest,
LEMMA verifyBlobTyped == ASSUME Typed, NEW p \in Pulls, verifyBlob(p) PROVE Typed'
<1> DEFINE l == CASE blob = "none" -> "ended" [] blob = "whole" -> "manifest" [] OTHER -> "remove"
<1>1. l \in {"ended", "remove", "manifest"} /\ l \in PC
  BY DEF PC
<1>2. /\ pc[p] = "verify" /\ Goto(p, l)
      /\ UNCHANGED <<up, manager, dl, joined, partFile, partial, blob, manifest, misled, faults>>
  BY DEF verifyBlob, files
<1>3. blob \in {"none", "whole", "bad"} /\ manifest \in BOOLEAN
  BY DEF Typed, TypeOK
<1> HIDE DEF l
<1> QED BY <1>1, <1>2, <1>3, PullStep, UpHolds

\* removing a bad one,
LEMMA RemoveBlobTyped == ASSUME Typed, NEW p \in Pulls, RemoveBlob(p) PROVE Typed'
<1>1. /\ pc[p] = "remove" /\ Goto(p, "ended") /\ blob' \in {"none", blob}
      /\ UNCHANGED <<up, manager, dl, joined, partFile, partial, manifest, misled, faults>>
  BY DEF RemoveBlob
<1>2. blob \in {"none", "whole", "bad"} /\ manifest \in BOOLEAN /\ "ended" \in PC
  BY DEF Typed, TypeOK, PC
<1> QED BY <1>1, <1>2, PullStep, UpHolds

\* and writing the manifest.
LEMMA WriteManifestTyped == ASSUME Typed, NEW p \in Pulls, WriteManifest(p) PROVE Typed'
<1>1. /\ pc[p] = "manifest" /\ Goto(p, "ended") /\ manifest' \in {TRUE, manifest}
      /\ UNCHANGED <<up, manager, dl, joined, partFile, partial, blob, misled, faults>>
  BY DEF WriteManifest
<1>2. blob \in {"none", "whole", "bad"} /\ manifest \in BOOLEAN /\ "ended" \in PC
  BY DEF Typed, TypeOK, PC
<1> QED BY <1>1, <1>2, PullStep, UpHolds

\* A pull in Wait whose report is not received still counts.
LEMMA BlockedStep ==
    ASSUME Typed, NEW p \in Pulls, pc[p] = "wait", Goto(p, "blocked"),
           UNCHANGED <<up, manager, dl, joined, partFile, partial, blob, manifest, misled, faults>>
    PROVE  Typed'
<1>1. PullMoved(p, "blocked")
  BY PullMoves DEF Typed, PC, Waiting
<1>2. TypeOK'
  BY <1>1 DEF Typed, TypeOK, PullMoved, PC, Waiting
<1>3. \A d \in Pulls : Parts(d)' = Parts(d)
  BY DEF Parts
<1>4. PullStage'
  <2> SUFFICES ASSUME NEW q \in Pulls PROVE PullStage!(q)'
    BY DEF PullStage
  <2> QED BY <1>1, <1>3 DEF PullMoved, Typed, PullStage, Waiting
<1>5. Owner' /\ PartStage'
  BY <1>3 DEF Typed, Owner, InUse, PartStage
<1>6. Down'
  BY UpHolds DEF Down, Waiting
<1>7. Count'
  <2>1. ASSUME NEW d \in Pulls PROVE Waiters(d)' = Waiters(d)
    BY <1>1 DEF Waiters, PullMoved, Waiting
  <2> QED BY <2>1 DEF Typed, Count
<1> QED BY <1>2, <1>4, <1>5, <1>6, <1>7 DEF Typed

\* A report that nobody receives, in Wait or later.
LEMMA UnreceivedTyped == ASSUME Typed, NEW p \in Pulls, Unreceived(p) PROVE Typed'
<1>1. UNCHANGED <<up, manager, dl, joined, partFile, partial, blob, manifest, misled, faults>>
  BY DEF Unreceived, files
<1>2. CASE pc[p] = "wait" /\ Goto(p, "blocked")
  BY <1>1, <1>2, BlockedStep
<1>3. CASE pc[p] \in {"verify", "manifest"} /\ Goto(p, "ended")
  <2>1. blob \in {"none", "whole", "bad"} /\ manifest \in BOOLEAN /\ "ended" \in PC
    BY DEF Typed, TypeOK, PC
  <2> QED BY <1>1, <1>3, <2>1, PullStep, UpHolds
<1> QED BY <1>2, <1>3 DEF Unreceived

\* A step of p's pull that makes, starts or gives up its own download.
OwnStep(p, l, r) ==
    /\ pc[p] \in {"store", "glob", "head", "parts"} /\ l \in {"glob", "parts", "acquire", "ended"}
    /\ Goto(p, l) /\ UNCHANGED up
    /\ dl' = [dl EXCEPT ![p] = r] /\ r \in DownloadState
    /\ r.references = dl[p].references /\ r.removed = 0
    /\ r.at \in {"prepare", "unprepared", "start"} /\ (r.at = "prepare" <=> l \in {"glob", "parts"})
    /\ \A k \in Part : /\ r.parts[k].at # "save" /\ r.parts[k].completed <= Size(k)
                       /\ r.at = "prepare" => r.parts[k].completed = 0
                       /\ r.parts[k].at = "ok" => r.parts[k].completed = Size(k)
    /\ l = "glob" => \A k \in Part : r.parts[k].at = "none"
    /\ l = "parts" => \E n \in Part : {k \in Part : r.parts[k].at # "none"} = 0 .. n - 1
    /\ manager' = IF r.at = "unprepared" THEN NoDownload ELSE p
    /\ pc[p] = "store" => manager = NoDownload
    /\ joined' = [joined EXCEPT ![p] = p]
    /\ partFile' \in [Part -> NoFile .. PartSize] /\ partial' \subseteq Bytes
    /\ UNCHANGED <<blob, manifest, faults>> /\ misled' \in BOOLEAN

\* A pull that changes the download it made, and nobody else uses, keeps them too.
LEMMA OwnDownload ==
    ASSUME Typed, NEW p \in Pulls, NEW l, NEW r, OwnStep(p, l, r) PROVE Typed'
<1> USE DEF OwnStep
<1>0. PullMoved(p, l)
  BY PullMoves DEF Typed, PC
<1>1. dl \in [Pulls -> DownloadState] /\ joined \in [Pulls -> Pulls \cup {NoDownload}]
  BY DEF Typed, TypeOK
<1>2. dl' \in [Pulls -> DownloadState] /\ dl'[p] = r /\ \A e \in Pulls \ {p} : dl'[e] = dl[e]
  BY <1>1
<1>3. Parts(p)' = {k \in Part : r.parts[k].at # "none"} /\ \A e \in Pulls \ {p} : Parts(e)' = Parts(e)
  BY <1>2 DEF Parts
<1>4. /\ joined' \in [Pulls -> Pulls \cup {NoDownload}] /\ joined'[p] = p
      /\ \A e \in Pulls \ {p} : joined'[e] = joined[e]
  BY <1>1
<1>5. TypeOK'
  BY <1>0, <1>2, <1>4 DEF Typed, TypeOK, PullMoved, PC
<1>6. PullStage'
  <2> SUFFICES ASSUME NEW q \in Pulls PROVE PullStage!(q)'
    BY DEF PullStage
  <2>1. PullStage!(q)
    BY DEF Typed, PullStage
  <2>2. CASE q = p
    <3>1. pc'[p] = l /\ dl'[p].at = r.at
      BY <1>0, <1>2 DEF PullMoved
    <3> QED BY <1>2, <1>3, <1>4, <2>2, <3>1
  <2>3. CASE q # p
    BY <1>0, <1>2, <1>3, <1>4, <2>1, <2>3 DEF PullMoved
  <2> QED BY <2>2, <2>3
<1>7. Owner'
  <2>1. \A d \in Pulls \ {p} : ~InUse(d) /\ dl[d].at # "delete"
    <3>1. manager \in {p, NoDownload}
      BY DEF Typed, PullStage, Owner, InUse
    <3> QED BY <3>1, DownloadAssumption DEF Typed, Owner
  <2> QED BY <1>2, <2>1, DownloadAssumption DEF Owner, InUse
<1>8. PartStage'
  <2> SUFFICES ASSUME NEW e \in Pulls PROVE PartStage!(e)'
    BY DEF PartStage
  <2>1. CASE e # p
    BY <1>2, <1>3, <2>1 DEF Typed, PartStage
  <2>2. CASE e = p
    BY <1>2, <2>2
  <2> QED BY <2>1, <2>2
<1>9. Down'
  BY UpHolds DEF Down
<1>10. Count'
  BY <1>0, <1>2, <1>4, SameWaiters DEF Typed, PC, Waiting
<1> QED BY <1>5, <1>6, <1>7, <1>8, <1>9, <1>10 DEF Typed

\* A pull joins the download under way, or puts its own in its place.
LEMMA LoadOrStoreTyped == ASSUME Typed, NEW p \in Pulls, LoadOrStore(p) PROVE Typed'
<1>0. /\ pc[p] = "store" /\ UNCHANGED <<up, partFile, partial, blob, manifest, misled, faults>> /\ up
      /\ joined \in [Pulls -> Pulls \cup {NoDownload}] /\ dl \in [Pulls -> DownloadState]
  <2>1. pc[p] = "store" /\ UNCHANGED <<up, partFile, partial, blob, manifest, misled, faults>>
    BY DEF LoadOrStore, files
  <2> QED BY <2>1, UpHolds DEF Typed, TypeOK
<1>1. CASE manager = NoDownload
  <2>1. /\ manager' = p /\ joined' = [joined EXCEPT ![p] = p] /\ dl' = [dl EXCEPT ![p] = NewDownload]
        /\ Goto(p, "glob")
    BY <1>1 DEF LoadOrStore
  <2>2. NewDownload.references = dl[p].references
    <3>1. Waiters(p) = {}
      <4>1. dl[p].at = "none"
        BY <1>0 DEF Typed, PullStage
      <4> QED BY <4>1 DEF Waiters, Waiting, Typed, PullStage
    <3> QED BY <3>1, NewTyped, FS_EmptySet DEF Typed, Count
  <2>3. \A k \in Part : /\ NewDownload.parts[k] = NoPart /\ NoPart.completed <= Size(k)
                        /\ NoPart.at = "none" /\ NoPart.completed = 0
    BY NewTyped, PartBounds DEF NoPart
  <2>4. "glob" \in PC /\ NewDownload \in DownloadState /\ NewDownload.removed = 0 /\ NewDownload.at = "prepare"
    BY NewTyped DEF PC
  <2>5. /\ partFile' \in [Part -> NoFile .. PartSize] /\ partial' \subseteq Bytes /\ misled' \in BOOLEAN
    BY <1>0 DEF Typed, TypeOK
  <2>6. \A k \in Part : /\ NewDownload.parts[k].at # "save" /\ NewDownload.parts[k].completed <= Size(k)
                        /\ NewDownload.parts[k].at = "none" /\ NewDownload.parts[k].completed = 0
    BY <2>3
  <2>7. OwnStep(p, "glob", NewDownload)
    BY <1>0, <1>1, <2>1, <2>2, <2>4, <2>5, <2>6 DEF OwnStep
  <2> QED BY <2>7, OwnDownload
<1>2. CASE manager # NoDownload
  <2>1. manager' = manager /\ joined' = [joined EXCEPT ![p] = manager] /\ dl' = dl /\ Goto(p, "acquire")
    BY <1>2 DEF LoadOrStore
  <2>2. PullMoved(p, "acquire")
    BY <2>1, PullMoves DEF PC, Typed
  <2>3. manager \in Pulls /\ dl[manager].at # "none"
    BY <1>2 DEF Typed, TypeOK, Owner
  <2>4. /\ joined' \in [Pulls -> Pulls \cup {NoDownload}] /\ joined'[p] = manager
        /\ \A e \in Pulls \ {p} : joined'[e] = joined[e]
    BY <1>0, <2>1, <2>3
  <2>5. \A d \in Pulls : Parts(d)' = Parts(d)
    BY <2>1 DEF Parts
  <2>6. TypeOK'
    BY <1>0, <2>1, <2>2, <2>4 DEF Typed, TypeOK, PullMoved, PC
  <2>7. PullStage'
    <3> SUFFICES ASSUME NEW q \in Pulls PROVE PullStage!(q)'
      BY DEF PullStage
    <3>1. PullStage!(q)
      BY DEF Typed, PullStage
    <3>2. CASE q = p
      BY <1>0, <2>1, <2>2, <2>3, <2>4, <2>5, <3>1, <3>2 DEF PullMoved
    <3>3. CASE q # p
      BY <2>1, <2>2, <2>4, <2>5, <3>1, <3>3 DEF PullMoved
    <3> QED BY <3>2, <3>3
  <2>8. Owner' /\ PartStage' /\ Down'
    BY <1>0, <2>1, <2>5 DEF Typed, Owner, InUse, PartStage, Down
  <2>9. Count'
    BY <1>0, <2>1, <2>2, <2>4, SameWaiters DEF Typed, PC, Waiting
  <2> QED BY <2>6, <2>7, <2>8, <2>9 DEF Typed
<1> QED BY <1>1, <1>2

\* joined does not change when its own download is what p has joined.
LEMMA OwnJoined ==
    ASSUME Typed, NEW p \in Pulls, pc[p] \in {"glob", "head", "parts"}
    PROVE  /\ joined = [joined EXCEPT ![p] = p] /\ manager = p /\ dl[p].at = "prepare"
           /\ dl[p].removed = 0 /\ dl[p] \in DownloadState /\ up
BY UpHolds DEF Typed, TypeOK, PullStage, Owner, InUse, PartStage

\* Prepare fails.
LEMMA PrepareFailsTyped ==
    ASSUME Typed, NEW p \in Pulls, pc[p] \in {"glob", "head", "parts"}, PrepareFails(p),
           UNCHANGED <<up, joined, partial, blob, manifest, faults, misled>>,
           partFile' \in [Part -> NoFile .. PartSize]
    PROVE  Typed'
<1> DEFINE r == [dl[p] EXCEPT !.at = "unprepared", !.parts = [k \in Part |-> NoPart]]
<1>1. dl[p] \in DownloadState /\ dl[p].removed = 0
  BY OwnJoined
<1>2. r \in DownloadState
  BY <1>1, NewTyped DEF DownloadState
<1>3. /\ r.at = "unprepared" /\ r.references = dl[p].references /\ r.removed = 0
      /\ r.parts = [k \in Part |-> NoPart]
  BY <1>1 DEF DownloadState
<1>4. dl' = [dl EXCEPT ![p] = r] /\ manager' = NoDownload /\ Goto(p, "ended")
  BY DEF PrepareFails, Typed, TypeOK
<1> HIDE DEF r
<1>5. \A k \in Part : r.parts[k].at = "none" /\ r.parts[k].completed <= Size(k)
  BY <1>3, PartBounds DEF NoPart
<1>6. partial' \subseteq Bytes /\ misled' \in BOOLEAN
  BY DEF Typed, TypeOK
<1>7. OwnStep(p, "ended", r)
  BY <1>2, <1>3, <1>4, <1>5, <1>6, OwnJoined DEF OwnStep
<1> QED BY <1>7, OwnDownload

\* Prepare has the parts, and the run starts.
LEMMA StartRunTyped ==
    ASSUME Typed, NEW p \in Pulls, pc[p] \in {"glob", "head", "parts"},
           NEW parts \in [Part -> PartState], StartRun(p, parts),
           \A k \in Part : /\ parts[k].at # "save" /\ parts[k].completed <= Size(k)
                           /\ parts[k].at = "ok" => parts[k].completed = Size(k),
           UNCHANGED <<up, joined, partial, blob, manifest, faults>>,
           partFile' \in [Part -> NoFile .. PartSize], misled' \in BOOLEAN
    PROVE  /\ Typed' /\ dl'[p].at = "start" /\ dl'[p].parts = parts
           /\ \A e \in Pulls \ {p} : dl'[e] = dl[e]
<1> DEFINE r == [dl[p] EXCEPT !.at = "start", !.parts = parts]
<1>1. dl[p] \in DownloadState /\ dl[p].removed = 0
  BY OwnJoined
<1>2. r \in DownloadState
  BY <1>1 DEF DownloadState
<1>3. /\ r.at = "start" /\ r.references = dl[p].references /\ r.removed = 0 /\ r.parts = parts
  BY <1>1 DEF DownloadState
<1>4. dl' = [dl EXCEPT ![p] = r] /\ manager' = manager /\ Goto(p, "acquire")
  BY DEF StartRun, Typed, TypeOK
<1> HIDE DEF r
<1>5. partial' \subseteq Bytes
  BY DEF Typed, TypeOK
<1>6. OwnStep(p, "acquire", r)
  BY <1>2, <1>3, <1>4, <1>5, OwnJoined DEF OwnStep
<1>7. dl'[p] = r /\ \A e \in Pulls \ {p} : dl'[e] = dl[e]
  BY <1>4 DEF Typed, TypeOK
<1> QED BY <1>3, <1>6, <1>7, OwnDownload

\* The parts that Glob reads from the part files.
Found == {k \in Part : partFile[k] # NoFile}
Resumed == [k \in Part |->
              IF k \notin Found THEN NoPart
              ELSE [NoPart EXCEPT !.completed = partFile[k],
                                  !.at = IF partFile[k] = Size(k) THEN "ok" ELSE "get"]]

\* The part files, read back, are parts of the right size.
LEMMA ResumedTyped ==
    ASSUME TypeOK, \A k \in Part : partFile[k] <= Size(k), \A k \in Found : partFile[k] # Torn
    PROVE  /\ Resumed \in [Part -> PartState]
           /\ \A k \in Part : /\ Resumed[k].at # "save" /\ Resumed[k].completed <= Size(k)
                              /\ Resumed[k].at = "ok" => Resumed[k].completed = Size(k)
                              /\ Resumed[k].at # "none" <=> k \in Found
                              /\ k \in Found => Resumed[k].completed = partFile[k]
<1> SUFFICES ASSUME NEW k \in Part
             PROVE  /\ Resumed[k] \in PartState
                    /\ Resumed[k].at # "save" /\ Resumed[k].completed <= Size(k)
                    /\ Resumed[k].at = "ok" => Resumed[k].completed = Size(k)
                    /\ Resumed[k].at # "none" <=> k \in Found
                    /\ k \in Found => Resumed[k].completed = partFile[k]
  BY DEF Resumed
<1>1. CASE k \notin Found
  BY <1>1, NewTyped, PartBounds DEF Resumed, NoPart
<1>2. CASE k \in Found
  <2>1. partFile[k] \in 0 .. PartSize
    BY <1>2, DownloadAssumption DEF Found, TypeOK, NoFile, Torn
  <2>2. Resumed[k] = [NoPart EXCEPT !.completed = partFile[k],
                                    !.at = IF partFile[k] = Size(k) THEN "ok" ELSE "get"]
    BY <1>2 DEF Resumed
  <2>3. /\ Resumed[k] \in PartState /\ Resumed[k].completed = partFile[k]
        /\ Resumed[k].at = IF partFile[k] = Size(k) THEN "ok" ELSE "get"
    BY <2>1, <2>2, NewTyped DEF PartState
  <2> QED BY <1>2, <2>3
<1> QED BY <1>1, <1>2

\* Reading the part files keeps the types and the stages; no part file is too long.
LEMMA GlobTyped ==
    ASSUME Typed, \A k \in Part : partFile[k] <= Size(k), NEW p \in Pulls, Glob(p) PROVE Typed'
<1>1. pc[p] = "glob" /\ UNCHANGED <<up, joined, partFile, partial, blob, manifest, faults>>
  BY DEF Glob, files
<1>2. partFile' \in [Part -> NoFile .. PartSize] /\ TypeOK
  BY <1>1 DEF Typed, TypeOK
<1>3. CASE Goto(p, "head") /\ UNCHANGED <<manager, dl, misled>>
  BY <1>1, <1>3, PullStep, UpHolds DEF PC, Typed, TypeOK
<1>4. CASE PrepareFails(p) /\ UNCHANGED misled
  BY <1>1, <1>2, <1>4, PrepareFailsTyped
<1>5. CASE (\A k \in Found : partFile[k] # Torn) /\ StartRun(p, Resumed) /\ misled' = (misled \/ Found # Part)
  BY <1>1, <1>2, <1>5, ResumedTyped, StartRunTyped
<1> QED BY <1>3, <1>4, <1>5 DEF Glob, Found, Resumed

\* So does asking for the size of the blob,
LEMMA HeadTyped == ASSUME Typed, NEW p \in Pulls, Head(p) PROVE Typed'
<1>1. pc[p] = "head" /\ UNCHANGED <<up, joined, partFile, partial, blob, manifest, faults>>
  BY DEF Head, files
<1>2. partFile' \in [Part -> NoFile .. PartSize] /\ dl[p] \in DownloadState
  BY <1>1 DEF Typed, TypeOK
<1>3. CASE Goto(p, "parts") /\ UNCHANGED <<manager, dl, misled>>
  BY <1>1, <1>3, PullStep, UpHolds DEF PC, Typed, TypeOK
<1>4. CASE PrepareFails(p) /\ UNCHANGED misled
  BY <1>1, <1>2, <1>4, PrepareFailsTyped
<1>5. CASE StartRun(p, dl[p].parts) /\ misled' = TRUE
  <2>1. dl[p].parts \in [Part -> PartState]
    BY <1>2 DEF DownloadState
  <2>2. \A k \in Part : dl[p].parts[k].at = "none" /\ dl[p].parts[k].completed <= Size(k)
    BY <1>1 DEF Typed, PullStage, PartStage, Parts
  <2> QED BY <1>1, <1>2, <1>5, <2>1, <2>2, StartRunTyped
<1> QED BY <1>3, <1>4, <1>5 DEF Head

\* The parts that newPart adds.
LEMMA NextPartIs ==
    ASSUME Typed, NEW p \in Pulls, pc[p] = "parts"
    PROVE  NextPart(p) \in Part /\ Parts(p) = 0 .. NextPart(p) - 1
<1>1. PICK n \in Part : Parts(p) = 0 .. n - 1
  BY DEF Typed, PullStage
<1>2. NextPart(p) = n
  BY <1>1, PartsFinite DEF NextPart
<1> QED BY <1>1, <1>2

\* The parts made so far, as Prepare writes their files one by one.
LEMMA NewParts ==
    ASSUME Typed, NEW p \in Pulls, pc[p] = "parts"
    PROVE  LET k == NextPart(p)
               parts == [dl[p].parts EXCEPT ![k] = NewPart]
           IN /\ parts \in [Part -> PartState]
              /\ {j \in Part : parts[j].at # "none"} = 0 .. k
              /\ \A j \in Part : parts[j].completed = 0
              /\ \A j \in Part \ {k} : parts[j] = dl[p].parts[j]
              /\ \A j \in Part : /\ parts[j].at # "save" /\ parts[j].completed <= Size(j)
                                 /\ parts[j].at = "ok" => parts[j].completed = Size(j)
<1> DEFINE k == NextPart(p)
           parts == [dl[p].parts EXCEPT ![k] = NewPart]
<1>1. k \in Part /\ Parts(p) = 0 .. k - 1
  BY NextPartIs
<1>2. dl[p].parts \in [Part -> PartState] /\ dl[p].at = "prepare"
  BY OwnJoined DEF DownloadState
<1>3. NewPart \in PartState /\ NewPart.at = "get" /\ NewPart.completed = 0
  BY NewTyped DEF NewPart, NoPart
<1>4. /\ parts \in [Part -> PartState] /\ parts[k] = NewPart
      /\ \A j \in Part \ {k} : parts[j] = dl[p].parts[j]
  BY <1>1, <1>2, <1>3
<1>5. {j \in Part : parts[j].at # "none"} = 0 .. k
  <2>1. \A j \in Part : parts[j].at # "none" <=> j \in 0 .. k
    BY <1>1, <1>3, <1>4, LastPart DEF Parts, Part
  <2>2. 0 .. k \subseteq Part
    BY <1>1, LastPart DEF Part
  <2> QED BY <2>1, <2>2
<1>6. ASSUME NEW j \in Part
      PROVE  /\ parts[j].at # "save" /\ parts[j].completed <= Size(j)
             /\ parts[j].at = "ok" => parts[j].completed = Size(j)
  <2>1. CASE j = k
    BY <1>3, <1>4, <2>1, PartBounds
  <2>2. CASE j # k
    BY <1>2, <1>4, <2>2 DEF Typed, PartStage
  <2> QED BY <2>1, <2>2
<1>7. \A j \in Part : parts[j].completed = 0
  BY <1>2, <1>3, <1>4 DEF Typed, PartStage
<1> HIDE DEF k, parts
<1>8. QED
  BY <1>4, <1>5, <1>6, <1>7 DEF k, parts

\* and writing the part files.
LEMMA newPartTyped == ASSUME Typed, NEW p \in Pulls, newPart(p) PROVE Typed'
<1> DEFINE k == NextPart(p)
           parts == [dl[p].parts EXCEPT ![k] = NewPart]
<1>1. pc[p] = "parts" /\ UNCHANGED <<up, joined, partial, blob, manifest, misled, faults>>
  BY DEF newPart
<1>2. k \in Part /\ TypeOK
  BY <1>1, NextPartIs DEF Typed
<1>3. partFile' \in [Part -> NoFile .. PartSize]
  <2>1. \E n \in {0, NoFile, Torn} : partFile' = [partFile EXCEPT ![k] = n]
    BY DEF newPart
  <2>2. 0 \in NoFile .. PartSize
    BY DownloadAssumption DEF NoFile
  <2> QED BY <1>2, <2>1, <2>2, Kinds
<1>4. CASE PrepareFails(p)
  BY <1>1, <1>3, <1>4, PrepareFailsTyped
<1>5. /\ parts \in [Part -> PartState]
      /\ {j \in Part : parts[j].at # "none"} = 0 .. k
      /\ \A j \in Part : /\ parts[j].at # "save" /\ parts[j].completed <= Size(j) /\ parts[j].completed = 0
                         /\ parts[j].at = "ok" => parts[j].completed = Size(j)
  BY <1>1, NewParts
<1>6. misled' \in BOOLEAN /\ partial' \subseteq Bytes
  BY <1>1 DEF Typed, TypeOK
<1> HIDE DEF parts
<1>7. CASE k = NumParts - 1 /\ StartRun(p, parts)
  BY <1>1, <1>3, <1>5, <1>6, <1>7, StartRunTyped
<1>8. CASE k # NumParts - 1 /\ dl' = [dl EXCEPT ![p].parts = parts] /\ UNCHANGED <<manager, pc>>
  <2> DEFINE r == [dl[p] EXCEPT !.parts = parts]
  <2>1. dl[p] \in DownloadState /\ dl[p].removed = 0 /\ dl[p].at = "prepare"
    BY <1>1, OwnJoined
  <2>2. r \in DownloadState
    BY <1>5, <2>1 DEF DownloadState
  <2>3. r.at = "prepare" /\ r.references = dl[p].references /\ r.removed = 0 /\ r.parts = parts
    BY <2>1 DEF DownloadState
  <2>4. dl' = [dl EXCEPT ![p] = r]
    BY <1>8 DEF Typed, TypeOK
  <2> HIDE DEF r
  <2>5. Goto(p, "parts")
    BY <1>1, <1>8 DEF Goto, Typed, TypeOK
  <2>6. \E n \in Part : {j \in Part : r.parts[j].at # "none"} = 0 .. n - 1
    <3>1. k + 1 \in Part /\ 0 .. k = 0 .. (k + 1) - 1
      BY <1>2, <1>8, LastPart DEF Part
    <3> QED BY <1>5, <2>3, <3>1
  <2>7. OwnStep(p, "parts", r)
    BY <1>1, <1>3, <1>5, <1>6, <1>8, <2>2, <2>3, <2>4, <2>5, <2>6, OwnJoined DEF OwnStep
  <2> QED BY <2>7, OwnDownload
<1> QED BY <1>4, <1>7, <1>8 DEF newPart, parts

\* A waiter is counted as it comes,
LEMMA acquireTyped == ASSUME Typed, NEW p \in Pulls, acquire(p) PROVE Typed'
<1> DEFINE d == joined[p]
<1>1. /\ pc[p] = "acquire" /\ Goto(p, "wait")
      /\ UNCHANGED <<up, manager, joined, partFile, partial, blob, manifest, misled, faults>>
      /\ dl' = [dl EXCEPT ![d].references = @ + 1]
  BY DEF acquire, files
<1>2. d \in Pulls /\ dl[d].at # "none" /\ dl \in [Pulls -> DownloadState]
  BY <1>1 DEF Typed, TypeOK, PullStage
<1>3. PullMoved(p, "wait")
  BY <1>1, PullMoves DEF Typed, PC
<1> HIDE DEF d
<1>4. dl'[d] = [dl[d] EXCEPT !.references = @ + 1] /\ \A e \in Pulls \ {d} : dl'[e] = dl[e]
  BY <1>1, <1>2
<1>5. dl'[d] \in DownloadState
  BY <1>2, <1>4 DEF DownloadState
<1>6. dl' \in [Pulls -> DownloadState]
  BY <1>1, <1>2, <1>4, <1>5
<1>7. \A e \in Pulls : /\ dl'[e].at = dl[e].at /\ dl'[e].parts = dl[e].parts
                       /\ dl'[e].removed = dl[e].removed /\ Parts(e)' = Parts(e)
  BY <1>2, <1>4 DEF Parts, DownloadState
<1>8. dl'[d].references = dl[d].references + 1
  BY <1>2, <1>4 DEF DownloadState
<1>9. TypeOK'
  BY <1>1, <1>3, <1>6 DEF Typed, TypeOK, PullMoved, PC
<1>10. PullStage'
  <2> SUFFICES ASSUME NEW q \in Pulls PROVE PullStage!(q)'
    BY DEF PullStage
  <2>1. PullStage!(q)
    BY DEF Typed, PullStage
  <2>2. CASE q = p
    BY <1>1, <1>2, <1>3, <1>7, <2>1, <2>2 DEF PullMoved
  <2>3. CASE q # p
    BY <1>1, <1>3, <1>7, <2>1, <2>3 DEF PullMoved
  <2> QED BY <2>2, <2>3
<1>11. Owner' /\ PartStage'
  BY <1>1, <1>7, DownloadAssumption DEF Typed, TypeOK, Owner, InUse, PartStage
<1>12. Down'
  BY <1>1, UpHolds DEF Down
<1>13. Count'
  <2> SUFFICES ASSUME NEW e \in Pulls PROVE Count!(e)'
    BY DEF Count
  <2>0. Count!(e)
    BY DEF Typed, Count
  <2>1. CASE e = d
    <3>1. Waiters(e)' = Waiters(e) \cup {p} /\ p \notin Waiters(e)
      BY <1>1, <1>3, <2>1 DEF Waiters, Waiting, PullMoved, d
    <3>2. IsFiniteSet(Waiters(e)') /\ Cardinality(Waiters(e)') = Cardinality(Waiters(e)) + 1
      BY <2>0, <3>1, FS_AddElement
    <3> QED BY <1>8, <2>0, <2>1, <3>2
  <2>2. CASE e # d
    <3>1. Waiters(e)' = Waiters(e)
      BY <1>1, <1>3, <2>2 DEF Waiters, Waiting, PullMoved, d
    <3> QED BY <1>4, <2>0, <2>2, <3>1
  <2> QED BY <2>1, <2>2
<1> QED BY <1>9, <1>10, <1>11, <1>12, <1>13 DEF Typed

\* The server dies: nothing is left in memory.
LEMMA DieTyped ==
    ASSUME Typed, Die, misled' \in BOOLEAN, faults' \in 0 .. MaxFaults PROVE Typed'
<1>1. /\ up' = FALSE /\ manager' = NoDownload /\ dl' = [p \in Pulls |-> EmptyDownload]
      /\ pc' = [p \in Pulls |-> IF pc[p] = "stat" THEN "stat" ELSE "ended"]
      /\ joined' = [p \in Pulls |-> NoDownload]
      /\ UNCHANGED <<partial, blob, manifest>>
  BY DEF Die
<1>2. partFile' \in [Part -> NoFile .. PartSize]
  BY Kinds DEF Die, Typed
<1>3. \A p \in Pulls : dl'[p] = EmptyDownload /\ pc'[p] \in {"stat", "ended"}
  BY <1>1
<1>4. TypeOK'
  BY <1>1, <1>2, NewTyped DEF Typed, TypeOK
<1>5. PullStage' /\ Owner' /\ Down'
  BY <1>1, <1>3, NewTyped DEF PullStage, Owner, InUse, Down
<1>6. PartStage'
  BY <1>3, NewTyped, PartBounds DEF PartStage, NoPart
<1>7. Count'
  <2> SUFFICES ASSUME NEW d \in Pulls PROVE Count!(d)'
    BY DEF Count
  <2>1. Waiters(d)' = {}
    BY <1>3 DEF Waiters, Waiting
  <2> QED BY <2>1, <1>3, NewTyped, FS_EmptySet
<1> QED BY <1>4, <1>5, <1>6, <1>7 DEF Typed

\* and counted off as it goes; the last one to go cancels the run.
LEMMA releaseTyped ==
    ASSUME Typed, NEW p \in Pulls, pc[p] = "wait", NEW l \in {"ended", "verify"}, release(p, l),
           UNCHANGED <<misled, faults>>
    PROVE  Typed'
<1> DEFINE d == joined[p]
           last == dl[d].references = 1
<1>0. TypeOK /\ misled' \in BOOLEAN /\ faults' \in 0 .. MaxFaults
  BY DEF Typed, TypeOK
<1>1. CASE last /\ ~dl[d].CancelFunc
  BY <1>0, <1>1, DieTyped DEF release, b
<1>2. CASE ~(last /\ ~dl[d].CancelFunc)
  <2>1. /\ dl' = [dl EXCEPT ![d].references = @ - 1,
                            ![d].canceled = @ \/ (last /\ dl[d].at # "done")]
        /\ Goto(p, l) /\ joined' = [joined EXCEPT ![p] = NoDownload]
        /\ UNCHANGED <<up, manager, partFile, partial, blob, manifest>>
    BY <1>2 DEF release, b, files
  <2>2. /\ d \in Pulls /\ dl[d].at # "none" /\ dl \in [Pulls -> DownloadState]
        /\ joined \in [Pulls -> Pulls \cup {NoDownload}]
    BY DEF Typed, TypeOK, PullStage
  <2>3. PullMoved(p, l)
    BY <1>0, <2>1, PullMoves DEF PC
  <2>4. /\ p \in Waiters(d) /\ IsFiniteSet(Waiters(d))
        /\ dl[d].references = Cardinality(Waiters(d))
    BY <2>2 DEF Waiters, Waiting, Typed, Count
  <2>5. /\ IsFiniteSet(Waiters(d) \ {p})
        /\ Cardinality(Waiters(d) \ {p}) = dl[d].references - 1
        /\ Cardinality(Waiters(d) \ {p}) \in Nat
    BY <2>4, FS_RemoveElement, FS_CardinalityType
  <2> DEFINE c == dl[d].canceled \/ (last /\ dl[d].at # "done")
  <2>6. dl'[d] = [dl[d] EXCEPT !.references = dl[d].references - 1, !.canceled = c]
    BY <2>1, <2>2
  <2>7. c \in BOOLEAN
    OBVIOUS
  <2>8. \A e \in Pulls \ {d} : dl'[e] = dl[e]
    BY <2>1, <2>2
  <2> HIDE DEF d, last, c
  <2>9. dl'[d] \in DownloadState
    BY <2>2, <2>5, <2>6, <2>7 DEF DownloadState
  <2>10. dl' \in [Pulls -> DownloadState]
    BY <2>1, <2>2, <2>8, <2>9
  <2>11. \A e \in Pulls : /\ dl'[e].at = dl[e].at /\ dl'[e].parts = dl[e].parts
                          /\ dl'[e].removed = dl[e].removed /\ Parts(e)' = Parts(e)
    <3>1. /\ dl'[d].at = dl[d].at /\ dl'[d].parts = dl[d].parts
          /\ dl'[d].removed = dl[d].removed
      BY <2>2, <2>6 DEF DownloadState
    <3> QED BY <2>2, <2>8, <3>1 DEF Parts
  <2>12. dl'[d].references = dl[d].references - 1
    BY <2>2, <2>6 DEF DownloadState
  <2>13. joined' \in [Pulls -> Pulls \cup {NoDownload}] /\ \A q \in Pulls \ {p} : joined'[q] = joined[q]
    BY <2>1, <2>2
  <2>14. TypeOK'
    BY <1>0, <2>1, <2>3, <2>10, <2>13 DEF TypeOK, PullMoved, PC
  <2>15. PullStage'
    <3> SUFFICES ASSUME NEW q \in Pulls PROVE PullStage!(q)'
      BY DEF PullStage
    <3>1. PullStage!(q)
      BY DEF Typed, PullStage
    <3>2. CASE q = p
      BY <2>3, <2>11, <3>1, <3>2 DEF PullMoved
    <3>3. CASE q # p
      BY <2>3, <2>11, <2>13, <3>1, <3>3 DEF PullMoved
    <3> QED BY <3>2, <3>3
  <2>16. Owner' /\ PartStage'
    BY <2>1, <2>11, DownloadAssumption DEF Typed, TypeOK, Owner, InUse, PartStage
  <2>17. Down'
    BY <2>1, UpHolds DEF Down
  <2>18. Count'
    <3> SUFFICES ASSUME NEW e \in Pulls PROVE Count!(e)'
      BY DEF Count
    <3>0. Count!(e)
      BY DEF Typed, Count
    <3>1. CASE e = d
      <4>1. Waiters(e)' = Waiters(e) \ {p}
        BY <2>3, <2>13, <3>1 DEF Waiters, Waiting, PullMoved
      <4> QED BY <2>5, <2>12, <3>1, <4>1
    <3>2. CASE e # d
      <4>1. Waiters(e)' = Waiters(e)
        BY <2>3, <2>13, <3>2 DEF Waiters, Waiting, PullMoved, d
      <4> QED BY <2>8, <3>0, <3>2, <4>1
    <3> QED BY <3>1, <3>2
  <2> QED BY <2>14, <2>15, <2>16, <2>17, <2>18 DEF Typed
<1> QED BY <1>1, <1>2

\* Waiting ends either way.
LEMMA WaitTyped == ASSUME Typed, NEW p \in Pulls, Wait(p) \/ WaitCanceled(p) PROVE Typed'
<1>1. PICK l \in {"ended", "verify"} : release(p, l)
  BY DEF Wait, WaitCanceled
<1>2. pc[p] = "wait" /\ UNCHANGED <<misled, faults>>
  BY DEF Wait, WaitCanceled
<1> QED BY <1>1, <1>2, releaseTyped

\* A crash leaves the files only.
LEMMA CrashTyped == ASSUME Typed, Crash PROVE Typed'
BY DieTyped, Kinds DEF Crash, Typed, TypeOK

\* A restart finds no download.
LEMMA RestartTyped == ASSUME Typed, Restart PROVE Typed'
<1>1. ~up /\ up' = TRUE /\ UNCHANGED <<manager, dl, pc, joined, manifest, faults>>
  BY DEF Restart
<1>2. partial' \subseteq Bytes /\ blob' \in {"none", "whole", "bad"} /\ misled' \in BOOLEAN
  BY DEF Restart, PruneLayers, Typed, TypeOK
<1>3. partFile' \in [Part -> NoFile .. PartSize]
  BY Kinds DEF Restart, PruneLayers, Typed, TypeOK
<1>4. TypeOK'
  BY <1>1, <1>2, <1>3 DEF Typed, TypeOK
<1>5. \A d \in Pulls : Parts(d)' = Parts(d) /\ Waiters(d)' = Waiters(d)
  BY <1>1 DEF Parts, Waiters
<1> QED BY <1>1, <1>4, <1>5 DEF Typed, PullStage, Owner, InUse, PartStage, Down, Count

-----------------------------------------------------------------------------
(* What the files say is kept.                                             *)

\* A part that has not changed keeps its record and its bytes.
LEMMA WorkFrame ==
    ASSUME Work, UNCHANGED <<partFile, partial>>, misled => misled', misled' \in BOOLEAN,
           \A d \in Pulls :
              \/ /\ dl'[d].at = dl[d].at /\ dl'[d].parts = dl[d].parts
                 /\ dl'[d].removed = dl[d].removed
              \/ dl'[d].at \notin Filling \cup Running
              \/ dl'[d].at = "prepare" /\ Parts(d)' = {}
              \/ /\ dl[d].at \in {"start", "url", "copy"} /\ dl'[d].at \in {"start", "url", "copy"}
                 /\ dl'[d].parts = dl[d].parts
    PROVE  Work'
<1>1. Records'
  <2> SUFFICES ASSUME NEW d \in Pulls, NEW k \in Part
               PROVE  /\ dl'[d].at \in Filling =>
                            (k \in Parts(d)' => partFile[k] <= dl'[d].parts[k].completed)
                      /\ dl'[d].at = "remove" /\ k < dl'[d].removed => partFile[k] = NoFile
                      /\ dl'[d].at = "rename" /\ k < Cardinality(Parts(d)') => partFile[k] = NoFile
    BY DEF Records, Parts, Work
  <2>1. CASE dl'[d].at = dl[d].at /\ dl'[d].parts = dl[d].parts /\ dl'[d].removed = dl[d].removed
    <3>1. Parts(d)' = Parts(d)
      BY <2>1 DEF Parts
    <3> QED BY <2>1, <3>1 DEF Work, Records
  <2>2. CASE dl'[d].at \notin Filling \cup Running
    BY <2>2 DEF Filling, Running
  <2>3. CASE dl'[d].at = "prepare" /\ Parts(d)' = {}
    BY <2>3
  <2>4. CASE /\ dl[d].at \in {"start", "url", "copy"} /\ dl'[d].at \in {"start", "url", "copy"}
             /\ dl'[d].parts = dl[d].parts
    <3>1. Parts(d)' = Parts(d)
      BY <2>4 DEF Parts
    <3> QED BY <2>4, <3>1 DEF Work, Records, Filling
  <2> QED BY <2>1, <2>2, <2>3, <2>4
<1>2. ResumeSound'
  BY DEF Work, ResumeSound
<1>3. RunSound'
  <2> SUFFICES ASSUME ~misled', NEW d \in Pulls, dl'[d].at \in Running
               PROVE  HasParts(d)'
    BY DEF RunSound
  <2>1. dl[d].at \in Running /\ dl'[d].parts = dl[d].parts
    BY DEF Running
  <2>2. Parts(d)' = Parts(d)
    BY <2>1 DEF Parts
  <2>3. HasParts(d)
    BY <2>1 DEF Work, RunSound
  <2> QED BY <2>1, <2>2, <2>3 DEF HasParts, Has
<1> QED BY <1>1, <1>2, <1>3 DEF Work

\* No download is at work, and the files only lose records.
LEMMA WorkQuiet ==
    ASSUME Work, TypeOK, misled => misled', misled' \in BOOLEAN,
           \A d \in Pulls : dl'[d].at \notin Filling \cup Running,
           \A k \in Part : partFile'[k] \in {partFile[k], Torn, NoFile},
           ~misled' => partial' = partial \/ \A k \in Part : ~(partFile'[k] > 0)
    PROVE  Work'
<1>1. \A k \in Part : Size(k) \in Nat /\ Offset(k) \in Nat
  BY PartBounds
<1>2. \A k \in Part : partFile'[k] <= Size(k)
  BY <1>1 DEF Work, Records, Torn, NoFile
<1>3. Records'
  BY <1>2 DEF Records, Filling, Running
<1>4. ResumeSound'
  <2> SUFFICES ASSUME ~misled', NEW k \in Part, partFile'[k] >= 0
               PROVE  Offset(k) .. Offset(k) + partFile'[k] - 1 \subseteq partial'
    BY DEF ResumeSound
  <2>1. partFile'[k] = partFile[k] /\ partFile[k] \in Int
    BY DownloadAssumption DEF TypeOK, Torn, NoFile
  <2>2. CASE partial' = partial
    BY <2>1, <2>2 DEF Work, ResumeSound
  <2>3. CASE ~(partFile'[k] > 0)
    BY <1>1, <2>1, <2>3
  <2> QED BY <2>2, <2>3
<1>5. RunSound'
  BY DEF RunSound
<1> QED BY <1>3, <1>4, <1>5 DEF Work

\* Bytes given up in part k do not touch what another part has, nor what k had before.
LEMMA CutKeeps ==
    ASSUME NEW j \in Part, NEW k \in Part, NEW n \in Int, NEW c \in Nat, n <= Size(j),
           j = k => n <= c, Has(j, n), partial \subseteq Bytes,
           partial' = {i \in partial : i \notin Offset(k) + c .. StopsAt(k) - 1}
    PROVE  Has(j, n)'
<1>1. /\ Offset(j) \in Nat /\ StopsAt(j) = Offset(j) + Size(j) /\ Size(j) \in Nat
      /\ Offset(k) \in Nat /\ StopsAt(k) = Offset(k) + Size(k) /\ Size(k) \in Nat
      /\ j \in Int /\ k \in Int
  BY PartBounds DEF Part
<1> SUFFICES ASSUME NEW i \in Offset(j) .. Offset(j) + n - 1 PROVE i \in partial'
  BY DEF Has
<1>2. i \in partial /\ i \in Int
  BY <1>1 DEF Has
<1>3. i \notin Offset(k) + c .. StopsAt(k) - 1
  <2>1. CASE j = k
    BY <1>1, <1>2, <2>1
  <2>2. CASE j < k
    <3>1. StopsAt(j) <= Offset(k)
      BY <2>2, PartsApart
    <3> QED BY <1>1, <1>2, <3>1
  <2>3. CASE k < j
    <3>1. StopsAt(k) <= Offset(j)
      BY <2>3, PartsApart
    <3> QED BY <1>1, <1>2, <3>1
  <2> QED BY <1>1, <2>1, <2>2, <2>3
<1> QED BY <1>2, <1>3

\* Only the download in the manager works on the files.
LEMMA OnlyOwner ==
    ASSUME Typed, NEW d \in Pulls, manager = d, NEW e \in Pulls, e # d
    PROVE  dl[e].at \notin Filling \cup Running
BY DEF Typed, Owner, InUse, Filling, Running

\* Moves of the run that stop it, or change nothing the parts see.
LEMMA MoveWork ==
    ASSUME Work, NEW d \in Pulls, NEW l, Moved(d, l), UNCHANGED <<partFile, partial, misled>>, misled \in BOOLEAN,
           \/ l \in {"delete", "close"}
           \/ dl[d].at \in {"start", "url", "copy"} /\ l \in {"start", "url", "copy"}
    PROVE  Work'
<1>1. ASSUME NEW e \in Pulls
      PROVE  \/ /\ dl'[e].at = dl[e].at /\ dl'[e].parts = dl[e].parts
                /\ dl'[e].removed = dl[e].removed
             \/ dl'[e].at \notin Filling \cup Running
             \/ /\ dl[e].at \in {"start", "url", "copy"} /\ dl'[e].at \in {"start", "url", "copy"}
                /\ dl'[e].parts = dl[e].parts
  BY DEF Moved, Filling, Running
<1> QED BY <1>1, WorkFrame

\* The partial file opened again keeps what the part files vouch for.
LEMMA OpenWork == ASSUME Typed, Work, NEW d \in Pulls, Open(d) PROVE Work'
<1>1. dl[d].at = "start" /\ UNCHANGED <<partFile, misled>> /\ misled \in BOOLEAN /\ partial \subseteq Bytes
  BY DEF Open, b, Typed, TypeOK
<1>2. CASE Moved(d, "delete") /\ UNCHANGED partial
  BY <1>1, <1>2, MoveWork
<1>3. CASE Moved(d, "url") /\ partial' = {i \in partial : i < Length(Parts(d))}
  <2>1. CASE misled
    <3>1. Records'
      <4>1. ASSUME NEW e \in Pulls, e # d PROVE dl'[e] = dl[e] /\ Parts(e)' = Parts(e)
        BY <1>3, <4>1 DEF Moved, Parts
      <4> QED BY <1>1, <1>3, <4>1 DEF Moved, Work, Records, Filling
    <3> QED BY <1>1, <2>1, <3>1 DEF Work, ResumeSound, RunSound
  <2>2. CASE ~misled
    <3>1. Parts(d) = Part
      BY <1>1, <2>2 DEF Work, RunSound, Running, HasParts
    <3>2. partial' = partial
      <4>1. \A i \in partial : i < Total
        BY <1>1, DownloadAssumption DEF Bytes
      <4> QED BY <1>3, <3>1, <4>1, LengthOfAll
    <3> QED BY <1>1, <1>3, <3>2, MoveWork
  <2> QED BY <2>1, <2>2
<1> QED BY <1>2, <1>3, RunMoves DEF Open, Typed

\* No file changes as the run asks for the direct URL.
LEMMA DirectURLWork == ASSUME Typed, Work, NEW d \in Pulls, DirectURL(d) PROVE Work'
<1>1. PICK l \in {"copy", "delete"} : Moved(d, l)
  BY RunMoves DEF DirectURL, Typed
<1>2. dl[d].at = "url" /\ UNCHANGED <<partFile, partial, misled>> /\ misled \in BOOLEAN
  BY DEF DirectURL, b, files, Typed, TypeOK
<1> QED BY <1>1, <1>2, MoveWork

\* The goroutine of part k changes what the part has, and the records follow.
LEMMA PartWork ==
    ASSUME Typed, Work, NEW d \in Pulls, NEW k \in Part, NEW s \in PartState, PartMoved(d, k, s),
           dl[d].at = "copy", dl[d].parts[k].at # "none", s.at # "none",
           \A j \in Part \ {k} : partFile'[j] = partFile[j],
           partFile'[k] <= s.completed, s.completed <= Size(k), partFile'[k] \in Int,
           ResumeSound', misled => misled', misled' \in BOOLEAN,
           ~misled' => /\ Has(k, dl[d].parts[k].completed)'
                       /\ \A j \in Part \ {k} :
                             Has(j, dl[d].parts[j].completed) => Has(j, dl[d].parts[j].completed)'
    PROVE  Work'
<1>1. /\ dl'[d].at = "copy" /\ dl'[d].parts[k] = s
      /\ \A j \in Part \ {k} : dl'[d].parts[j] = dl[d].parts[j]
      /\ \A e \in Pulls \ {d} : dl'[e] = dl[e]
  BY DEF PartMoved
<1>2. Parts(d)' = Parts(d) /\ k \in Parts(d)
  BY <1>1 DEF Parts
<1>3. \A e \in Pulls \ {d} : dl'[e].at \notin Filling \cup Running
  <2>1. manager = d
    BY DEF Typed, Owner, InUse
  <2> QED BY <1>1, <2>1, OnlyOwner
<1>4. Records'
  <2>1. \A j \in Part : partFile'[j] <= Size(j)
    <3>1. partFile'[k] <= Size(k)
      <4>1. Size(k) \in Int /\ s.completed \in Int
        BY PartBounds DEF PartState
      <4> QED BY <4>1
    <3> QED BY <3>1 DEF Work, Records
  <2>2. \A j \in Parts(d)' : partFile'[j] <= dl'[d].parts[j].completed
    <3> SUFFICES ASSUME NEW j \in Parts(d), j # k PROVE partFile'[j] <= dl'[d].parts[j].completed
      BY <1>1, <1>2
    <3> QED BY <1>1 DEF Parts, Work, Records, Filling
  <2> QED BY <1>1, <1>3, <2>1, <2>2 DEF Records, Filling, Running
<1>5. RunSound'
  <2> SUFFICES ASSUME ~misled' PROVE HasParts(d)'
    BY <1>3 DEF RunSound
  <2>1. HasParts(d)
    BY DEF Work, RunSound, Running
  <2>2. \A j \in Part : Has(j, dl[d].parts[j].completed)'
    BY <2>1 DEF HasParts
  <2> QED BY <1>2, <2>1, <2>2 DEF HasParts
<1> QED BY <1>4, <1>5 DEF Work

\* Bytes reach the partial file before the part counts them.
LEMMA downloadChunkWork ==
    ASSUME Typed, Work, NEW d \in Pulls, NEW k \in Part, downloadChunk(d, k) PROVE Work'
<1> DEFINE old == dl[d].parts[k]
<1>1. PICK s \in PartState : /\ PartMoved(d, k, s) /\ ChunkOutcome(d, k, s)
                             /\ s.at \in {"save", "get", "failed"} /\ s.completed <= Size(k)
                             /\ s.completed >= old.completed
  BY Chunk
<1>2. /\ dl[d].at = "copy" /\ old.at = "get" /\ UNCHANGED partFile
      /\ old \in PartState /\ misled \in BOOLEAN /\ partial \subseteq Bytes
      /\ dl'[d].parts[k] = s /\ \A j \in Part \ {k} : dl'[d].parts[j] = dl[d].parts[j]
      /\ \A j \in Part : partFile[j] \in Int /\ partFile[j] <= Size(j)
  <2>1. \A j \in Part : partFile[j] \in Int
    BY DownloadAssumption DEF Typed, TypeOK, NoFile
  <2>2. dl[d] \in DownloadState
    BY DEF Typed, TypeOK
  <2> QED BY <1>1, <2>1, <2>2 DEF downloadChunk, b, Typed, TypeOK, DownloadState, PartMoved, Work, Records
<1>3. old.completed \in Nat /\ s.completed \in Nat /\ Offset(k) \in Nat
  BY <1>2, PartBounds DEF PartState
<1>4. partFile[k] <= old.completed
  BY <1>2 DEF Work, Records, Filling, Parts
<1>5. partFile'[k] <= s.completed
  BY <1>1, <1>2, <1>3, <1>4
<1>6. ~misled => Has(k, old.completed)
  BY <1>2 DEF Work, RunSound, Running, HasParts
<1>7. CASE /\ partial' = {i \in partial : i \notin Offset(k) + old.completed .. StopsAt(k) - 1}
           /\ UNCHANGED misled /\ s \in {Retry(old), Over(old, "failed")}
  <2>1. s.completed = old.completed
    BY <1>2, <1>7, PartTyped
  <2>2. ResumeSound'
    <3> SUFFICES ASSUME ~misled, NEW j \in Part, partFile[j] >= 0 PROVE Has(j, partFile[j])'
      BY <1>2, <1>7 DEF ResumeSound, Has
    <3>1. Has(j, partFile[j])
      BY DEF Work, ResumeSound, Has
    <3>2. Has(j, partFile[j])'
      <4> DEFINE n == partFile[j]
      <4>1. n \in Int /\ n <= Size(j) /\ (j = k => n <= old.completed) /\ Has(j, n) /\ n' = n
        BY <1>2, <1>4, <3>1
      <4> HIDE DEF n
      <4>2. \A i \in Offset(j) .. Offset(j) + n - 1 : i \in partial'
        BY <1>2, <1>3, <1>7, <4>1, CutKeeps DEF Has
      <4> QED BY <4>1, <4>2 DEF Has, n
    <3> QED BY <3>2
  <2>3. ASSUME ~misled, NEW j \in Part, Has(j, dl[d].parts[j].completed) PROVE Has(j, dl[d].parts[j].completed)'
    <3> DEFINE n == dl[d].parts[j].completed
    <3>1. n \in Int /\ n <= Size(j) /\ Has(j, n) /\ (j = k => n <= old.completed)
      <4>1. dl[d].parts[j] \in PartState
        BY DEF Typed, TypeOK, DownloadState
      <4> QED BY <1>3, <2>3, <4>1 DEF PartState, Typed, PartStage
    <3>2. dl'[d].parts[j].completed = n
      BY <1>2, <2>1
    <3> HIDE DEF n
    <3>3. \A i \in Offset(j) .. Offset(j) + n - 1 : i \in partial'
      BY <1>2, <1>3, <1>7, <3>1, CutKeeps DEF Has
    <3> QED BY <3>2, <3>3 DEF Has
  <2> QED BY <1>1, <1>2, <1>5, <1>6, <1>7, <2>2, <2>3, PartWork
<1>8. CASE \E n \in Nat :
             /\ s = [old EXCEPT !.completed = @ + n, !.at = "save"]
             /\ partial' = partial \cup (Offset(k) + old.completed .. Offset(k) + old.completed + n - 1)
             /\ UNCHANGED misled
  <2>1. PICK n \in Nat :
             /\ s = [old EXCEPT !.completed = @ + n, !.at = "save"]
             /\ partial' = partial \cup (Offset(k) + old.completed .. Offset(k) + old.completed + n - 1)
             /\ UNCHANGED misled
    BY <1>8
  <2>2. s.completed = old.completed + n
    BY <1>2, <2>1 DEF PartState
  <2>3. partial \subseteq partial'
    BY <2>1
  <2>4. ResumeSound'
    BY <1>2, <2>1, <2>3 DEF Work, ResumeSound
  <2>5. ~misled' => Has(k, dl[d].parts[k].completed)'
    <3>1. \A i \in Offset(k) .. Offset(k) + s.completed - 1 :
             \/ i \in Offset(k) .. Offset(k) + old.completed - 1
             \/ i \in Offset(k) + old.completed .. Offset(k) + old.completed + n - 1
      BY <1>3, <2>2
    <3> QED BY <1>2, <1>6, <2>1, <3>1 DEF Has
  <2>6. \A j \in Part \ {k} :
           Has(j, dl[d].parts[j].completed) => Has(j, dl[d].parts[j].completed)'
    BY <1>2, <2>3 DEF Has
  <2> QED BY <1>1, <1>2, <1>5, <2>1, <2>4, <2>5, <2>6, PartWork
<1>9. CASE misled' = TRUE
  BY <1>1, <1>2, <1>5, <1>9, PartWork DEF ResumeSound
<1> QED BY <1>1, <1>7, <1>8, <1>9 DEF ChunkOutcome

\* A part file says no more than the part has.
LEMMA writePartWork ==
    ASSUME Typed, Work, NEW d \in Pulls, NEW k \in Part, writePart(d, k) PROVE Work'
<1> DEFINE old == dl[d].parts[k]
<1>1. PICK s \in PartState : PartMoved(d, k, s) /\ WriteOutcome(d, k, s)
  BY Write
<1>2. /\ dl[d].at = "copy" /\ old.at = "save" /\ UNCHANGED <<partial, misled>>
      /\ old \in PartState /\ misled \in BOOLEAN
      /\ dl'[d].parts[k] = s /\ \A j \in Part \ {k} : dl'[d].parts[j] = dl[d].parts[j]
      /\ \A j \in Part : partFile[j] \in Int
  <2>1. \A j \in Part : partFile[j] \in Int
    BY DownloadAssumption DEF Typed, TypeOK, NoFile
  <2>2. dl[d] \in DownloadState
    BY DEF Typed, TypeOK
  <2> QED BY <1>1, <2>1, <2>2, Write DEF writePart, b, Typed, TypeOK, DownloadState, PartMoved
<1>3. s.completed = old.completed /\ s.at # "none" /\ old.completed \in Nat /\ old.completed <= Size(k)
  BY <1>1, <1>2 DEF WriteOutcome, PartState, Typed, PartStage
<1>4. partFile[k] <= old.completed
  BY <1>2 DEF Work, Records, Filling, Parts
<1>5. PICK left \in {partFile[k], Torn, old.completed} : partFile' = [partFile EXCEPT ![k] = left]
  BY <1>1 DEF WriteOutcome
<1>6. partFile'[k] = left /\ \A j \in Part \ {k} : partFile'[j] = partFile[j]
  BY <1>5 DEF Typed, TypeOK
<1>7. left \in Int /\ left <= s.completed
  BY <1>2, <1>3, <1>4 DEF Torn
<1>8. ~misled => Has(k, old.completed)
  BY <1>2 DEF Work, RunSound, Running, HasParts
<1>9. ResumeSound'
  <2> SUFFICES ASSUME ~misled, NEW j \in Part, partFile'[j] >= 0 PROVE (Offset(j) .. Offset(j) + partFile[j] - 1 \subseteq partial)'
    BY <1>2 DEF ResumeSound
  <2>1. CASE j = k
    <3>1. partFile'[j] \in {partFile[k], old.completed}
      BY <1>6, <2>1 DEF Torn
    <3> QED BY <1>2, <1>8, <2>1, <3>1 DEF Has, Work, ResumeSound
  <2>2. CASE j # k
    BY <1>2, <1>6, <2>2 DEF Work, ResumeSound
  <2> QED BY <2>1, <2>2
<1>10. \A j \in Part : dl'[d].parts[j].completed = dl[d].parts[j].completed
  BY <1>2, <1>3
<1>11. \A j \in Part : Has(j, dl[d].parts[j].completed) => Has(j, dl[d].parts[j].completed)'
  BY <1>2, <1>10 DEF Has
<1> QED BY <1>1, <1>2, <1>3, <1>6, <1>7, <1>8, <1>9, <1>11, PartWork

\* A run that goes on has all its parts complete.
LEMMA GroupWaitWork == ASSUME Typed, Work, NEW d \in Pulls, GroupWait(d) PROVE Work'
<1>1. dl[d].at = "copy" /\ UNCHANGED <<partFile, partial, misled>> /\ misled \in BOOLEAN /\ manager = d
  BY DEF GroupWait, b, files, Typed, TypeOK, Owner, InUse
<1>2. CASE Moved(d, "delete")
  BY <1>1, <1>2, MoveWork
<1>3. CASE Moved(d, "remove")
  <2>1. /\ dl'[d].at = "remove" /\ dl'[d].parts = dl[d].parts /\ dl'[d].removed = 0
        /\ Parts(d)' = Parts(d)
    BY <1>1, <1>3 DEF Moved, Typed, PartStage
  <2>2. \A e \in Pulls \ {d} : dl'[e] = dl[e] /\ dl'[e].at \notin Filling \cup Running
    BY <1>1, <1>3, OnlyOwner DEF Moved
  <2>3. Records'
    BY <1>1, <2>1, <2>2 DEF Work, Records, Filling, Running, Part
  <2>4. ResumeSound'
    BY <1>1 DEF Work, ResumeSound
  <2>5. RunSound'
    <3> SUFFICES ASSUME ~misled PROVE HasParts(d)'
      BY <1>1, <2>2 DEF RunSound
    <3>1. HasParts(d)
      BY <1>1 DEF Work, RunSound, Running
    <3> QED BY <1>1, <2>1, <3>1 DEF HasParts, Has
  <2> QED BY <2>3, <2>4, <2>5 DEF Work
<1> QED BY <1>2, <1>3, RunMoves DEF GroupWait, Typed

\* Part files go in order, and only when the partial file is whole.
LEMMA RemovePartWork == ASSUME Typed, Work, NEW d \in Pulls, RemovePart(d) PROVE Work'
<1> DEFINE i == dl[d].removed
<1>1. dl[d].at = "remove" /\ UNCHANGED <<partial, misled>> /\ misled \in BOOLEAN /\ manager = d
  BY DEF RemovePart, b, Typed, TypeOK, Owner, InUse
<1>2. CASE RunFails(d) /\ UNCHANGED partFile
  <2>1. Moved(d, "delete")
    BY <1>2, RunMoves DEF Typed
  <2> QED BY <1>1, <1>2, <2>1, MoveWork
<1>3. CASE i = Cardinality(Parts(d)) /\ RunTo(d, "rename") /\ UNCHANGED partFile
  <2>1. Moved(d, "rename")
    BY <1>3, RunMoves DEF Typed
  <2>2. dl'[d].at = "rename" /\ dl'[d].parts = dl[d].parts /\ Parts(d)' = Parts(d)
    BY <2>1 DEF Moved
  <2>3. \A e \in Pulls \ {d} : dl'[e] = dl[e] /\ dl'[e].at \notin Filling \cup Running
    BY <1>1, <2>1, OnlyOwner DEF Moved
  <2>4. Records'
    BY <1>1, <1>3, <2>2, <2>3 DEF Work, Records, Filling, Running
  <2>5. ResumeSound'
    BY <1>1, <1>3 DEF Work, ResumeSound
  <2>6. RunSound'
    <3> SUFFICES ASSUME ~misled PROVE HasParts(d)'
      BY <1>1, <2>3 DEF RunSound
    <3>1. HasParts(d)
      BY <1>1 DEF Work, RunSound, Running
    <3> QED BY <1>1, <2>2, <3>1 DEF HasParts, Has
  <2> QED BY <2>4, <2>5, <2>6 DEF Work
<1>4. CASE /\ partFile' = [partFile EXCEPT ![i] = NoFile] /\ dl' = [dl EXCEPT ![d].removed = i + 1]
  <2>0. dl \in [Pulls -> DownloadState] /\ partFile \in [Part -> NoFile .. PartSize] /\ i \in Nat
    <3>1. dl \in [Pulls -> DownloadState] /\ partFile \in [Part -> NoFile .. PartSize]
      BY DEF Typed, TypeOK
    <3> QED BY <3>1, LastPart DEF DownloadState
  <2>1. /\ dl'[d].at = "remove" /\ dl'[d].parts = dl[d].parts /\ dl'[d].removed = i + 1
    BY <1>1, <1>4, <2>0 DEF DownloadState
  <2>2. \A e \in Pulls \ {d} : dl'[e] = dl[e] /\ dl'[e].at \notin Filling \cup Running
    BY <1>1, <1>4, <2>0, OnlyOwner
  <2>3. \A k \in Part : partFile'[k] = IF k = i THEN NoFile ELSE partFile[k]
    BY <1>4, <2>0
  <2>4. \A k \in Part : partFile'[k] <= Size(k)
    BY <2>3, PartBounds DEF Work, Records, NoFile
  <2>5. \A k \in Part : k < i + 1 => partFile'[k] = NoFile
    BY <1>1, <2>0, <2>3, LastPart DEF Work, Records, Part
  <2>6. Records'
    BY <2>1, <2>2, <2>4, <2>5 DEF Records, Filling, Running
  <2>7. ResumeSound'
    BY <1>1, <2>3 DEF Work, ResumeSound, NoFile
  <2>8. RunSound'
    <3> SUFFICES ASSUME ~misled PROVE HasParts(d)'
      BY <1>1, <2>2 DEF RunSound
    <3>1. HasParts(d)
      BY <1>1 DEF Work, RunSound, Running
    <3>2. Parts(d)' = Parts(d)
      BY <2>1 DEF Parts
    <3> QED BY <1>1, <2>1, <3>1, <3>2 DEF HasParts, Has
  <2> QED BY <2>6, <2>7, <2>8 DEF Work
<1> QED BY <1>2, <1>3, <1>4 DEF RemovePart, b

\* A run that may rename has every byte.
LEMMA AllThere ==
    ASSUME Typed, Work, NEW d \in Pulls, dl[d].at \in {"remove", "rename"}, ~misled
    PROVE  /\ partial = Bytes
           /\ dl[d].at = "rename" => \A k \in Part : partFile[k] = NoFile
<1>1. HasParts(d)
  BY DEF Work, RunSound, Running
<1>2. \A k \in Part : dl[d].parts[k].completed = Size(k)
  BY <1>1 DEF HasParts, Parts, Typed, PartStage
<1>3. ASSUME NEW i \in Bytes PROVE i \in partial
  <2>1. PICK k \in Part : Offset(k) <= i /\ i < StopsAt(k)
    BY PartsCover
  <2>2. Offset(k) \in Nat /\ StopsAt(k) = Offset(k) + Size(k) /\ Size(k) \in Nat /\ i \in Nat
    BY PartBounds DEF Bytes
  <2>3. i \in Offset(k) .. Offset(k) + dl[d].parts[k].completed - 1
    BY <1>2, <2>1, <2>2
  <2> QED BY <1>1, <2>3 DEF HasParts, Has
<1>4. dl[d].at = "rename" => \A k \in Part : partFile[k] = NoFile
  BY <1>1, PartsFinite, LastPart DEF HasParts, Work, Records, Part
<1> QED BY <1>3, <1>4 DEF Typed, TypeOK

\* The partial file goes when no part file is left.
LEMMA RenameWork == ASSUME Typed, Work, NEW d \in Pulls, Rename(d) PROVE Work'
<1>1. /\ dl[d].at = "rename" /\ UNCHANGED <<partFile, misled>> /\ misled \in BOOLEAN /\ manager = d
      /\ Moved(d, "delete") /\ TypeOK
  BY RunMoves DEF Rename, b, Typed, TypeOK, Owner, InUse
<1>2. \A e \in Pulls : dl'[e].at \notin Filling \cup Running
  BY <1>1, OnlyOwner DEF Moved, Filling, Running
<1>3. ~misled' => partial' = partial \/ \A k \in Part : ~(partFile'[k] > 0)
  <2>1. ~misled' => partial' = partial \/ \A k \in Part : partFile'[k] = NoFile
    BY <1>1, AllThere
  <2> QED BY <2>1 DEF NoFile
<1> QED BY <1>1, <1>2, <1>3, WorkQuiet

\* No file changes as the run leaves the manager,
LEMMA DeleteWork == ASSUME Typed, Work, NEW d \in Pulls, Delete(d) PROVE Work'
<1>1. UNCHANGED <<partFile, partial, misled>> /\ misled \in BOOLEAN /\ Moved(d, "close")
  BY RunMoves DEF Delete, files, Typed, TypeOK
<1> QED BY <1>1, MoveWork

\* or closes done.
LEMMA CloseWork == ASSUME Typed, Work, NEW d \in Pulls, Close(d) PROVE Work'
<1>1. UNCHANGED <<partFile, partial, misled>> /\ misled \in BOOLEAN
  BY DEF Close, files, Typed, TypeOK
<1>2. dl'[d].at = "done" /\ \A e \in Pulls \ {d} : dl'[e] = dl[e]
  BY DEF Close, Typed, TypeOK, NewDownload
<1>3. "done" \notin Filling \cup Running
  BY DEF Filling, Running
<1> QED BY <1>1, <1>2, <1>3, WorkFrame

-----------------------------------------------------------------------------
(* Pulls.                                                                  *)

\* A Prepare that fails leaves the part files it has written, all of them empty.
LEMMA PrepareFailsWork ==
    ASSUME Typed, Work, NEW p \in Pulls, pc[p] \in {"glob", "head", "parts"}, PrepareFails(p),
           UNCHANGED <<partial, misled>>, \A k \in Part : partFile'[k] \in {partFile[k], Torn, NoFile}
    PROVE  Work'
<1>1. dl'[p].at = "unprepared" /\ \A e \in Pulls \ {p} : dl'[e] = dl[e]
  BY DEF PrepareFails, Typed, TypeOK, DownloadState
<1>2. \A e \in Pulls : dl'[e].at \notin Filling \cup Running
  BY <1>1, OwnJoined, OnlyOwner DEF Filling, Running
<1> QED BY <1>2, WorkQuiet DEF Typed, TypeOK

\* A run that starts has recorded no more than it will go on from.
LEMMA StartRunWork ==
    ASSUME Typed, Work, NEW p \in Pulls, pc[p] \in {"glob", "head", "parts"}, NEW parts,
           dl'[p].at = "start", dl'[p].parts = parts, \A e \in Pulls \ {p} : dl'[e] = dl[e],
           UNCHANGED partial, misled => misled', misled' \in BOOLEAN,
           \A k \in Part : /\ partFile'[k] <= Size(k)
                           /\ parts[k].at # "none" => partFile'[k] <= parts[k].completed,
           ResumeSound',
           ~misled' => \A k \in Part : parts[k].at # "none" /\ Has(k, parts[k].completed)
    PROVE  Work'
<1>1. \A e \in Pulls \ {p} : dl'[e].at \notin Filling \cup Running
  BY OwnJoined, OnlyOwner
<1>2. Records'
  BY <1>1 DEF Records, Parts, Filling, Running
<1>3. RunSound'
  <2> SUFFICES ASSUME ~misled' PROVE HasParts(p)'
    BY <1>1 DEF RunSound
  <2>1. Parts(p)' = Part
    BY DEF Parts
  <2>2. \A k \in Part : Has(k, dl[p].parts[k].completed)'
    BY DEF Has
  <2> QED BY <2>1, <2>2 DEF HasParts
<1> QED BY <1>2, <1>3 DEF Work

\* A download resumes with what its part files vouch for.
LEMMA GlobWork == ASSUME Typed, Work, NEW p \in Pulls, Glob(p) PROVE Work'
<1>1. /\ pc[p] = "glob" /\ UNCHANGED <<up, joined, partFile, partial, blob, manifest, faults>>
      /\ misled \in BOOLEAN /\ TypeOK /\ \A k \in Part : partFile[k] <= Size(k)
  BY DEF Glob, files, Typed, TypeOK, Work, Records
<1>2. CASE UNCHANGED <<dl, misled>>
  BY <1>1, <1>2, WorkFrame
<1>3. CASE PrepareFails(p) /\ UNCHANGED misled
  BY <1>1, <1>3, PrepareFailsWork
<1>4. CASE (\A k \in Found : partFile[k] # Torn) /\ StartRun(p, Resumed) /\ misled' = (misled \/ Found # Part)
  <2>1. /\ Resumed \in [Part -> PartState]
        /\ \A k \in Part : /\ Resumed[k].at # "save" /\ Resumed[k].completed <= Size(k)
                           /\ Resumed[k].at = "ok" => Resumed[k].completed = Size(k)
                           /\ Resumed[k].at # "none" <=> k \in Found
                           /\ k \in Found => Resumed[k].completed = partFile[k]
    BY <1>1, <1>4, ResumedTyped
  <2>2. /\ dl'[p].at = "start" /\ dl'[p].parts = Resumed
        /\ \A e \in Pulls \ {p} : dl'[e] = dl[e]
    BY <1>1, <1>4, <2>1, StartRunTyped DEF TypeOK
  <2>3. misled' \in BOOLEAN /\ (misled => misled')
    BY <1>1, <1>4
  <2>4. ResumeSound'
    BY <1>1, <2>3 DEF Work, ResumeSound
  <2>5. \A k \in Part : partFile[k] \in Int
    BY <1>1, DownloadAssumption DEF TypeOK, NoFile
  <2>6. \A k \in Part : Resumed[k].at # "none" => partFile'[k] <= Resumed[k].completed
    BY <1>1, <2>1, <2>5
  <2>7. ~misled' => \A k \in Part : Resumed[k].at # "none" /\ Has(k, Resumed[k].completed)
    <3> SUFFICES ASSUME ~misled', NEW k \in Part PROVE Resumed[k].at # "none" /\ Has(k, Resumed[k].completed)
      OBVIOUS
    <3>1. ~misled /\ k \in Found /\ partFile[k] # Torn
      BY <1>1, <1>4
    <3>2. partFile[k] >= 0
      BY <1>1, <3>1, DownloadAssumption DEF Found, TypeOK, Torn, NoFile
    <3> QED BY <2>1, <3>1, <3>2 DEF Work, ResumeSound, Has
  <2> QED BY <1>1, <2>2, <2>3, <2>4, <2>6, <2>7, StartRunWork
<1> QED BY <1>2, <1>3, <1>4 DEF Glob, Found, Resumed

\* No file changes as Prepare asks for the size.
LEMMA HeadWork == ASSUME Typed, Work, NEW p \in Pulls, Head(p) PROVE Work'
<1>1. /\ pc[p] = "head" /\ UNCHANGED <<up, joined, partFile, partial, blob, manifest, faults>>
      /\ misled \in BOOLEAN /\ \A k \in Part : partFile[k] <= Size(k)
  BY DEF Head, files, Typed, TypeOK, Work, Records
<1>2. CASE UNCHANGED <<dl, misled>>
  BY <1>1, <1>2, WorkFrame
<1>3. CASE PrepareFails(p) /\ UNCHANGED misled
  BY <1>1, <1>3, PrepareFailsWork
<1>4. CASE StartRun(p, dl[p].parts) /\ misled' = TRUE
  <2>1. dl'[p].at = "start" /\ dl'[p].parts = dl[p].parts /\ \A e \in Pulls \ {p} : dl'[e] = dl[e]
    BY <1>4 DEF StartRun, Typed, TypeOK, DownloadState
  <2>2. \A k \in Part : dl[p].parts[k].at = "none"
    BY <1>1 DEF Typed, PullStage, Parts
  <2>3. ResumeSound'
    BY <1>4 DEF ResumeSound
  <2> QED BY <1>1, <1>4, <2>1, <2>2, <2>3, StartRunWork
<1> QED BY <1>2, <1>3, <1>4 DEF Head

\* A new part file is empty, so it vouches for nothing.
LEMMA newPartWork == ASSUME Typed, Work, NEW p \in Pulls, newPart(p) PROVE Work'
<1> DEFINE k == NextPart(p)
           parts == [dl[p].parts EXCEPT ![k] = NewPart]
<1>1. /\ pc[p] = "parts" /\ UNCHANGED <<up, joined, partial, blob, manifest, misled, faults>>
      /\ misled \in BOOLEAN /\ partFile \in [Part -> NoFile .. PartSize]
  BY DEF newPart, Typed, TypeOK
<1>2. k \in Part /\ Parts(p) = 0 .. k - 1
  BY <1>1, NextPartIs
<1>3. CASE /\ \E left \in {NoFile, Torn} : partFile' = [partFile EXCEPT ![k] = left]
           /\ PrepareFails(p)
  BY <1>1, <1>2, <1>3, PrepareFailsWork
<1>4. CASE partFile' = [partFile EXCEPT ![k] = 0]
           /\ \/ k = NumParts - 1 /\ StartRun(p, parts)
              \/ dl' = [dl EXCEPT ![p].parts = parts]
  <2>1. /\ parts \in [Part -> PartState]
        /\ {j \in Part : parts[j].at # "none"} = 0 .. k
        /\ \A j \in Part : parts[j].completed = 0
        /\ \A j \in Part \ {k} : parts[j] = dl[p].parts[j]
        /\ \A j \in Part : /\ parts[j].at # "save" /\ parts[j].completed <= Size(j)
                           /\ parts[j].at = "ok" => parts[j].completed = Size(j)
    BY <1>1, NewParts
  <2> HIDE DEF k, parts
  <2>2. \A j \in Part : partFile'[j] = IF j = k THEN 0 ELSE partFile[j]
    BY <1>1, <1>4
  <2>3. \A j \in Part : /\ partFile'[j] <= Size(j)
                        /\ parts[j].at # "none" => partFile'[j] <= parts[j].completed
    <3> SUFFICES ASSUME NEW j \in Part
                 PROVE  /\ partFile'[j] <= Size(j)
                        /\ parts[j].at # "none" => partFile'[j] <= parts[j].completed
      OBVIOUS
    <3>1. CASE j = k
      BY <2>1, <2>2, <3>1, PartBounds
    <3>2. CASE j # k
      <4>1. dl[p].at = "prepare"
        BY <1>1, OwnJoined
      <4> QED BY <2>1, <2>2, <3>2, <4>1 DEF Work, Records, Filling, Parts
    <3> QED BY <3>1, <3>2
  <2>4. ResumeSound'
    <3> SUFFICES ASSUME ~misled, NEW j \in Part, partFile'[j] >= 0
                 PROVE  Offset(j) .. Offset(j) + partFile'[j] - 1 \subseteq partial
      BY <1>1 DEF ResumeSound
    <3>1. CASE j = k
      <4>1. partFile'[j] = 0 /\ Offset(j) \in Nat
        BY <2>2, <3>1, PartBounds
      <4> QED BY <4>1
    <3>2. CASE j # k
      BY <2>2, <3>2 DEF Work, ResumeSound
    <3> QED BY <3>1, <3>2
  <2>5. CASE k = NumParts - 1 /\ StartRun(p, parts)
    <3>1. dl'[p].at = "start" /\ dl'[p].parts = parts /\ \A e \in Pulls \ {p} : dl'[e] = dl[e]
      BY <2>5 DEF StartRun, Typed, TypeOK, DownloadState
    <3>2. ~misled' => \A j \in Part : parts[j].at # "none" /\ Has(j, parts[j].completed)
      <4> SUFFICES ASSUME NEW j \in Part PROVE parts[j].at # "none" /\ Has(j, parts[j].completed)
        OBVIOUS
      <4>1. parts[j].at # "none"
        BY <2>1, <2>5 DEF Part
      <4>2. parts[j].completed = 0
        BY <2>1
      <4>3. Offset(j) \in Nat
        BY PartBounds
      <4> QED BY <4>1, <4>2, <4>3 DEF Has
    <3> QED BY <1>1, <2>3, <2>4, <3>1, <3>2, StartRunWork
  <2>6. CASE dl' = [dl EXCEPT ![p].parts = parts]
    <3>1. dl'[p].at = "prepare" /\ dl'[p].parts = parts /\ \A e \in Pulls \ {p} : dl'[e] = dl[e]
      <4>1. dl[p].at = "prepare"
        BY <1>1, OwnJoined
      <4> QED BY <2>6, <4>1 DEF Typed, TypeOK, DownloadState
    <3>2. \A e \in Pulls \ {p} : dl'[e].at \notin Filling \cup Running
      BY <1>1, <3>1, OwnJoined, OnlyOwner
    <3>3. Records' /\ RunSound'
      BY <2>3, <3>1, <3>2 DEF Records, RunSound, Parts, Filling, Running
    <3> QED BY <2>4, <3>3 DEF Work
  <2> QED BY <1>4, <2>5, <2>6
<1> QED BY <1>3, <1>4 DEF newPart

\* A new download has no parts.
LEMMA LoadOrStoreWork == ASSUME Typed, Work, NEW p \in Pulls, LoadOrStore(p) PROVE Work'
<1>1. UNCHANGED <<partFile, partial, misled>> /\ misled \in BOOLEAN
  BY DEF LoadOrStore, files, Typed, TypeOK
<1>2. CASE dl' = dl
  BY <1>1, <1>2, WorkFrame
<1>3. CASE dl' = [dl EXCEPT ![p] = NewDownload]
  <2>1. dl'[p] = NewDownload /\ \A e \in Pulls \ {p} : dl'[e] = dl[e]
    BY <1>3 DEF Typed, TypeOK
  <2>2. dl'[p].at = "prepare" /\ Parts(p)' = {}
    BY <2>1, NewTyped DEF Parts, NoPart
  <2> QED BY <1>1, <2>1, <2>2, WorkFrame
<1> QED BY <1>2, <1>3 DEF LoadOrStore

\* Counting a waiter changes no file.
LEMMA acquireWork == ASSUME Typed, Work, NEW p \in Pulls, acquire(p) PROVE Work'
<1>1. UNCHANGED <<partFile, partial, misled>> /\ misled \in BOOLEAN
  BY DEF acquire, files, Typed, TypeOK
<1>2. joined[p] \in Pulls /\ dl \in [Pulls -> DownloadState]
  BY DEF acquire, Typed, TypeOK, PullStage
<1>3. \A e \in Pulls : /\ dl'[e].at = dl[e].at /\ dl'[e].parts = dl[e].parts
                       /\ dl'[e].removed = dl[e].removed
  BY <1>2 DEF acquire, DownloadState
<1> QED BY <1>1, <1>3, WorkFrame

\* The server that dies leaves files that vouch for no more than there is.
LEMMA DieWork ==
    ASSUME Typed, Work, Die, misled => misled', misled' \in BOOLEAN PROVE Work'
<1>1. \A e \in Pulls : dl'[e] = EmptyDownload
  BY DEF Die
<1>2. \A e \in Pulls : dl'[e].at \notin Filling \cup Running
  BY <1>1, NewTyped DEF Filling, Running
<1>3. \A k \in Part : partFile'[k] \in {partFile[k], Torn}
  BY DEF Die
<1>4. partial' = partial
  BY DEF Die
<1> QED BY <1>2, <1>3, <1>4, WorkQuiet DEF Typed

\* Counting off a waiter changes no file.
LEMMA releaseWork ==
    ASSUME Typed, Work, NEW p \in Pulls, pc[p] = "wait", NEW l, release(p, l), UNCHANGED misled
    PROVE  Work'
<1> DEFINE d == joined[p]
           c == dl[d].canceled \/ (dl[d].references = 1 /\ dl[d].at # "done")
<1>1. misled \in BOOLEAN /\ d \in Pulls /\ dl \in [Pulls -> DownloadState]
  BY DEF Typed, TypeOK, PullStage
<1>2. CASE Die
  BY <1>1, <1>2, DieWork
<1>3. CASE /\ dl' = [dl EXCEPT ![d].references = @ - 1, ![d].canceled = c]
           /\ UNCHANGED files
  <2>1. dl'[d] = [dl[d] EXCEPT !.references = dl[d].references - 1, !.canceled = c]
    BY <1>1, <1>3
  <2>2. \A e \in Pulls \ {d} : dl'[e] = dl[e]
    BY <1>1, <1>3
  <2> HIDE DEF c, d
  <2>3. dl'[d].at = dl[d].at /\ dl'[d].parts = dl[d].parts /\ dl'[d].removed = dl[d].removed
    BY <1>1, <2>1 DEF DownloadState
  <2>4. \A e \in Pulls : /\ dl'[e].at = dl[e].at /\ dl'[e].parts = dl[e].parts
                         /\ dl'[e].removed = dl[e].removed
    BY <2>2, <2>3
  <2> QED BY <1>1, <1>3, <2>4, WorkFrame DEF files
<1> QED BY <1>2, <1>3 DEF release, b

\* The server that starts again has no run, so only the files matter.
LEMMA RestartWork == ASSUME Typed, Work, Restart PROVE Work'
<1>1. ~up /\ UNCHANGED dl /\ misled \in BOOLEAN
  BY DEF Restart, Typed, TypeOK
<1>2. \A e \in Pulls : dl'[e].at \notin Filling \cup Running
  BY <1>1 DEF Typed, Down, Filling, Running
<1>3. CASE PruneLayers
  <2>1. PICK left \in SUBSET Part :
            partFile' = [k \in Part |-> IF k \in left THEN partFile[k] ELSE NoFile]
    BY <1>3 DEF PruneLayers
  <2>2. /\ partial' \in {{}, partial} /\ misled' \in BOOLEAN /\ (misled => misled')
        /\ ~misled' => partial' = partial \/ \A k \in Part : ~(partFile'[k] > 0)
    BY <1>1, <1>3 DEF PruneLayers
  <2>3. \A k \in Part : partFile'[k] \in {partFile[k], NoFile}
    BY <2>1
  <2> QED BY <1>2, <2>2, <2>3, WorkQuiet DEF Typed
<1>4. CASE UNCHANGED <<partFile, partial, blob, misled>>
  BY <1>1, <1>2, <1>4, WorkQuiet DEF Typed
<1> QED BY <1>3, <1>4 DEF Restart

-----------------------------------------------------------------------------
(* The blob and its manifests.                                             *)

\* A step that leaves the blob and the manifest alone keeps them sound.
LEMMA BlobFrame ==
    ASSUME BlobSound, UNCHANGED <<blob, manifest>>, misled => misled',
           \A p \in Pulls : pc'[p] \in {"manifest", "remove"} => pc'[p] = pc[p]
    PROVE  BlobSound'
BY DEF BlobSound

\* So does dying.
LEMMA DieBlob == ASSUME BlobSound, Die, misled => misled' PROVE BlobSound'
BY BlobFrame DEF Die

\* A pull writes the manifest when it has seen the blob's digest, or removes the blob.
LEMMA PullBlob ==
    ASSUME Typed, BlobSound, NEW p \in Pulls, Pull(p) \/ Client(p) PROVE BlobSound'
<1> USE DEF Typed, TypeOK, files
<1>1. CASE Stat(p)
  BY <1>1 DEF Stat, Goto, BlobSound
<1>2. CASE LoadOrStore(p) \/ Head(p) \/ newPart(p) \/ acquire(p)
  <2>1. UNCHANGED <<blob, manifest>> /\ (misled => misled')
    BY <1>2 DEF LoadOrStore, Head, newPart, acquire
  <2>2. \/ pc' = pc
        \/ \E l \in {"ended", "glob", "acquire", "parts", "wait"} : pc' = [pc EXCEPT ![p] = l]
    BY <1>2 DEF LoadOrStore, Head, newPart, acquire, Goto, PrepareFails, StartRun
  <2> QED BY <2>1, <2>2, BlobFrame
<1>3. CASE Glob(p)
  <2>1. UNCHANGED <<blob, manifest>> /\ (misled => misled')
    BY <1>3 DEF Glob
  <2>2. \E l \in {"ended", "head", "acquire"} : pc' = [pc EXCEPT ![p] = l]
    BY <1>3 DEF Glob, Goto, PrepareFails, StartRun
  <2> QED BY <2>1, <2>2, BlobFrame
<1>4. CASE Wait(p) \/ WaitCanceled(p)
  <2>1. UNCHANGED misled
    BY <1>4 DEF Wait, WaitCanceled
  <2>2. CASE Die
    BY <2>1, <2>2, DieBlob
  <2>3. CASE /\ \E l \in {"ended", "verify"} : pc' = [pc EXCEPT ![p] = l]
             /\ UNCHANGED <<blob, manifest>>
    BY <2>1, <2>3, BlobFrame
  <2> QED BY <1>4, <2>2, <2>3 DEF Wait, WaitCanceled, release, Goto
<1>5. CASE verifyBlob(p)
  BY <1>5 DEF verifyBlob, Goto, BlobSound
<1>6. CASE RemoveBlob(p)
  BY <1>6 DEF RemoveBlob, BlobSound
<1>7. CASE WriteManifest(p)
  BY <1>7 DEF WriteManifest, Goto, BlobSound
<1>8. CASE Unreceived(p)
  <2>1. UNCHANGED <<blob, manifest, misled>>
    BY <1>8 DEF Unreceived
  <2>2. \E l \in {"blocked", "ended"} : pc' = [pc EXCEPT ![p] = l]
    BY <1>8 DEF Unreceived, Goto
  <2> QED BY <2>1, <2>2, BlobFrame
<1> QED BY <1>1, <1>2, <1>3, <1>4, <1>5, <1>6, <1>7, <1>8 DEF Pull, Client

\* A run that renames the partial file has all bytes in it.
LEMMA RunBlob == ASSUME Typed, Work, BlobSound, NEW d \in Pulls, Run(d) PROVE BlobSound'
<1>1. CASE Rename(d)
  <2>1. dl[d].at = "rename" /\ UNCHANGED <<pc, manifest, misled>>
    BY <1>1 DEF Rename, b
  <2>2. ~misled => blob' \in {"whole", blob}
    BY <1>1, <2>1, AllThere DEF Rename
  <2> QED BY <2>1, <2>2 DEF BlobSound
<1>2. CASE \E k \in Part : downloadChunk(d, k) \/ writePart(d, k)
  <2>1. UNCHANGED <<blob, manifest, pc>> /\ (misled => misled')
    <3>1. PICK k \in Part : downloadChunk(d, k) \/ writePart(d, k)
      BY <1>2
    <3>2. CASE downloadChunk(d, k)
      <4>1. \E s \in PartState : ChunkOutcome(d, k, s)
        BY <3>2, Chunk
      <4>2. UNCHANGED misled \/ misled' = TRUE
        BY <4>1 DEF ChunkOutcome
      <4>3. misled => misled'
        BY <4>2
      <4> QED BY <3>2, <4>3 DEF downloadChunk
    <3>3. CASE writePart(d, k)
      BY <3>3 DEF writePart
    <3> QED BY <3>1, <3>2, <3>3
  <2> QED BY <2>1, BlobFrame
<1>3. CASE Open(d) \/ DirectURL(d) \/ GroupWait(d) \/ RemovePart(d) \/ Delete(d) \/ Close(d)
  <2>1. UNCHANGED <<blob, manifest, pc, misled>>
    BY <1>3 DEF Open, DirectURL, GroupWait, RemovePart, Delete, Close, files
  <2> QED BY <2>1, BlobFrame
<1> QED BY <1>1, <1>2, <1>3 DEF Run

\* Starting again may remove a blob no manifest names.
LEMMA RestartBlob == ASSUME Typed, BlobSound, Restart PROVE BlobSound'
<1>1. \A p \in Pulls : pc'[p] \in {"stat", "ended"}
  BY DEF Restart, Typed, Down
<1>2. manifest' = manifest /\ (misled => misled') /\ blob' \in {blob, IF manifest THEN blob ELSE "none"}
  <2>1. CASE PruneLayers
    BY <2>1 DEF Restart, PruneLayers
  <2>2. CASE UNCHANGED <<blob, misled>>
    BY <2>2 DEF Restart
  <2> QED BY <2>1, <2>2 DEF Restart
<1> QED BY <1>1, <1>2 DEF BlobSound

-----------------------------------------------------------------------------
(* The theorems.                                                           *)

\* The invariant holds in an empty store.
LEMMA InitInv == Init => Inv
<1> SUFFICES ASSUME Init PROVE Inv
  OBVIOUS
<1>1. Typed
  BY InitTyped
<1>2. \A p \in Pulls : dl[p].at = "none"
  BY NewTyped DEF Init
<1>3. Records
  BY <1>2, PartBounds DEF Init, Records, NoFile, Filling
<1>4. ResumeSound /\ RunSound /\ BlobSound
  BY <1>2 DEF Init, ResumeSound, RunSound, BlobSound, NoFile, Running
<1> QED BY <1>1, <1>3, <1>4 DEF Inv, Work

\* Every step of a pull keeps the invariant,
LEMMA PullInv == ASSUME Inv, NEW p \in Pulls, Pull(p) \/ Client(p) PROVE Inv'
<1>0. Typed /\ Work /\ BlobSound /\ \A k \in Part : partFile[k] <= Size(k)
  BY DEF Inv, Work, Records
<1>1. Typed'
  BY <1>0, StatTyped, LoadOrStoreTyped, GlobTyped, HeadTyped, newPartTyped, acquireTyped,
     WaitTyped, UnreceivedTyped, verifyBlobTyped, RemoveBlobTyped,
     WriteManifestTyped DEF Pull, Client
<1>2. Work'
  <2>1. CASE \/ Stat(p) \/ Unreceived(p)
             \/ verifyBlob(p) \/ RemoveBlob(p) \/ WriteManifest(p)
    <3>1. UNCHANGED <<partFile, partial, misled, dl>> /\ misled \in BOOLEAN
      BY <1>0, <2>1 DEF Stat, Unreceived, verifyBlob, RemoveBlob, WriteManifest, files, Typed, TypeOK
    <3> QED BY <1>0, <3>1, WorkFrame
  <2>2. CASE Wait(p) \/ WaitCanceled(p)
    <3>1. pc[p] = "wait" /\ UNCHANGED misled /\ \E l \in {"ended", "verify"} : release(p, l)
      BY <2>2 DEF Wait, WaitCanceled
    <3> QED BY <1>0, <3>1, releaseWork
  <2> QED BY <1>0, <2>1, <2>2, LoadOrStoreWork, GlobWork, HeadWork, newPartWork, acquireWork
       DEF Pull, Client
<1>3. BlobSound'
  BY <1>0, PullBlob
<1> QED BY <1>1, <1>2, <1>3 DEF Inv

\* every step of a run,
LEMMA RunInv == ASSUME Inv, NEW d \in Pulls, Run(d) PROVE Inv'
<1>0. Typed /\ Work /\ BlobSound
  BY DEF Inv
<1>1. Typed'
  BY <1>0, OpenTyped, DirectURLTyped, downloadChunkTyped, writePartTyped, GroupWaitTyped,
     RemovePartTyped, RenameTyped, DeleteTyped, CloseTyped DEF Run
<1>2. Work'
  BY <1>0, OpenWork, DirectURLWork, downloadChunkWork, writePartWork, GroupWaitWork,
     RemovePartWork, RenameWork, DeleteWork, CloseWork DEF Run
<1>3. BlobSound'
  BY <1>0, RunBlob
<1> QED BY <1>1, <1>2, <1>3 DEF Inv

\* and so every step.
LEMMA NextInv == Inv /\ [Next]_vars => Inv'
<1> SUFFICES ASSUME Inv, [Next]_vars PROVE Inv'
  OBVIOUS
<1>1. CASE \E p \in Pulls : Pull(p) \/ Client(p) \/ Run(p)
  BY <1>1, PullInv, RunInv
<1>2. CASE Crash
  <2>1. Die /\ UNCHANGED misled /\ misled' \in BOOLEAN
    BY <1>2 DEF Crash, Inv, Typed, TypeOK
  <2> QED BY <1>2, <2>1, CrashTyped, DieWork, DieBlob DEF Inv
<1>3. CASE Restart
  BY <1>3, RestartTyped, RestartWork, RestartBlob DEF Inv
<1>4. CASE UNCHANGED vars
  <2>1. /\ UNCHANGED <<up, manager, dl, pc, joined, partFile, partial, blob, manifest, misled, faults>>
    BY <1>4 DEF vars, memory, files
  <2>2. \A d \in Pulls : Parts(d)' = Parts(d) /\ Waiters(d)' = Waiters(d)
    BY <2>1 DEF Parts, Waiters
  <2>3. Typed'
    BY <2>1, <2>2 DEF Inv, Typed, TypeOK, PullStage, Owner, InUse, PartStage, Down, Count
  <2>4. Work' /\ BlobSound'
    BY <2>1, WorkFrame, BlobFrame DEF Inv, Typed, TypeOK
  <2> QED BY <2>3, <2>4 DEF Inv
<1> QED BY <1>1, <1>2, <1>3, <1>4 DEF Next

\* The invariant holds in every reachable state of downloadBlob and the runs it starts.
THEOREM InvHolds == Spec => []Inv
BY InitInv, NextInv, PTL DEF Spec

\* Every variable keeps its type: counts of waiters never go below zero, no part receives
\* more than its size, and no more part files are removed than there are parts.
THEOREM DownloadTypeCorrect == Spec => []TypeOK
<1>1. Inv => TypeOK
  BY DEF Inv, Typed
<1> QED BY <1>1, InvHolds, PTL

\* At most one download of the blob works on its partial files.
THEOREM DownloadSingleWriter == Spec => []SingleWriter
<1>1. Inv => SingleWriter
  BY DEF Inv, Typed, Owner, SingleWriter
<1> QED BY <1>1, InvHolds, PTL

\* What a part file records is in the partial file, across failures, retries and deaths of
\* the server.
THEOREM DownloadResumeSound == Spec => []ResumeSound
<1>1. Inv => ResumeSound
  BY DEF Inv, Work
<1> QED BY <1>1, InvHolds, PTL

\* A blob under its name is whole and a manifest's blob is there, unless the registry or a
\* cut-short Prepare misled the download.
THEOREM DownloadStoreSound == Spec => []StoreSound
<1>1. Inv => StoreSound
  BY DEF Inv, BlobSound, StoreSound
<1> QED BY <1>1, InvHolds, PTL
=============================================================================

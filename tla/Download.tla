------------------------------ MODULE Download ------------------------------
(***************************************************************************)
(* How pulls fetch one blob: downloadBlob and blobDownload in              *)
(* server/download.go, between the calls of PullModel in server/images.go. *)
(*                                                                         *)
(* A pull that does not find the blob joins the download of it that is in  *)
(* blobDownloadManager, or makes one, prepares it and starts its Run.  The *)
(* bytes of the parts go to NAME-partial; NAME-partial-N records how much  *)
(* of part N is there, so that a later pull can go on from it.  The server *)
(* may die between any two steps; the files stay.                          *)
(*                                                                         *)
(* Bytes are told apart only as right (what the registry has for that      *)
(* place of the blob) or not.  All parts have the same size.               *)
(***************************************************************************)
EXTENDS Integers, FiniteSets

CONSTANTS
    Pulls,         \* the calls of PullModel; each also names the download it makes
    NoDownload,    \* is not a download
    Total,         \* the bytes of the blob
    PartSize,      \* the bytes of a part; the last one may be shorter
    MaxRetries,    \* maxRetries (6 in the code)
    MaxFaults      \* bound: how many attempts at a part go wrong, and how often the
                   \* server is killed, over all downloads

ASSUME DownloadAssumption ==
    /\ Pulls # {} /\ NoDownload \notin Pulls
    /\ Total \in Nat \ {0} /\ PartSize \in Nat \ {0}
    /\ MaxRetries \in Nat \ {0} /\ MaxFaults \in Nat

NumParts == (Total + PartSize - 1) \div PartSize
Part == 0 .. NumParts - 1
Offset(k) == k * PartSize
StopsAt(k) == IF k = NumParts - 1 THEN Total ELSE Offset(k + 1)
Size(k) == StopsAt(k) - Offset(k)
Bytes == 0 .. Total - 1

VARIABLES
    \* In memory.
    up,          \* is the server running?
    manager,     \* blobDownloadManager: the download of the blob, or NoDownload
    dl,          \* the blobDownload each pull may have made
    pc,          \* where a pull is, or how it ended
    joined,      \* the download a pull waits for
    \* In the blobs and manifests directories.
    partFile,    \* NAME-partial-N: the `Completed' it records, NoFile or Torn
    partial,     \* NAME-partial: the places that hold the right byte
    blob,        \* NAME: "none", "whole" or "bad"
    manifest,    \* does some manifest name the blob?
    \* History and bounds.
    misled,      \* the registry sent wrong bytes or no length, or a download went on
                 \* from the part files of a Prepare or a removal that was cut short
    faults

memory == <<up, manager, dl, pc, joined>>
files == <<partFile, partial, blob, manifest>>
vars == <<memory, files, misled, faults>>

NoFile == -2
Torn == -1

\* A part as its goroutine sees it; "none": it is not one of b.Parts.
PartState == [at : {"none", "get", "save", "ok", "failed"}, completed : 0 .. PartSize,
              try : 0 .. MaxRetries - 1]
NoPart == [at |-> "none", completed |-> 0, try |-> 0]
NewPart == [NoPart EXCEPT !.at = "get"]

DownloadState == [
    at : {"none", "prepare", "unprepared", "start", "url", "copy", "remove", "rename",
          "delete", "close", "done"},
    references : Nat, CancelFunc : BOOLEAN, canceled : BOOLEAN, err : BOOLEAN,
    parts : [Part -> PartState], removed : 0 .. NumParts]
NewDownload == [at |-> "prepare", references |-> 0, CancelFunc |-> FALSE, canceled |-> FALSE,
                err |-> FALSE, parts |-> [k \in Part |-> NoPart], removed |-> 0]
EmptyDownload == [NewDownload EXCEPT !.at = "none"]

TypeOK ==
    /\ up \in BOOLEAN /\ manager \in Pulls \cup {NoDownload}
    /\ dl \in [Pulls -> DownloadState]
    /\ pc \in [Pulls -> {"stat", "store", "glob", "head", "parts", "acquire", "wait", "blocked",
                      "verify", "remove", "manifest", "ended"}]
    /\ joined \in [Pulls -> Pulls \cup {NoDownload}]
    /\ partFile \in [Part -> NoFile .. PartSize] /\ partial \subseteq Bytes
    /\ blob \in {"none", "whole", "bad"} /\ manifest \in BOOLEAN
    /\ misled \in BOOLEAN /\ faults \in 0 .. MaxFaults

Init ==
    /\ up = TRUE /\ manager = NoDownload
    /\ dl = [p \in Pulls |-> EmptyDownload]
    /\ pc = [p \in Pulls |-> "stat"] /\ joined = [p \in Pulls |-> NoDownload]
    /\ partFile = [k \in Part |-> NoFile] /\ partial = {}
    /\ blob = "none" /\ manifest = FALSE
    /\ misled = FALSE /\ faults = 0

Fault == faults < MaxFaults /\ faults' = faults + 1
Goto(p, l) == pc' = [pc EXCEPT ![p] = l]
b(d) == dl[d]
Parts(d) == {k \in Part : dl[d].parts[k].at # "none"}

-----------------------------------------------------------------------------
(* The server dies.  A part file that is being written may be left empty.  *)

Saving == {k \in Part : \E d \in Pulls : dl[d].parts[k].at = "save"}
NextPart(d) == Cardinality(Parts(d))
Creating == {NextPart(p) : p \in {p \in Pulls : pc[p] = "parts"}}

Die ==
    /\ up' = FALSE /\ manager' = NoDownload
    /\ dl' = [p \in Pulls |-> EmptyDownload]
    /\ pc' = [p \in Pulls |-> IF pc[p] = "stat" THEN "stat" ELSE "ended"]
    /\ joined' = [p \in Pulls |-> NoDownload]
    /\ \E torn \in SUBSET (Saving \cup Creating) :
          partFile' = [k \in Part |-> IF k \in torn THEN Torn ELSE partFile[k]]
    /\ UNCHANGED <<partial, blob, manifest>>

Crash ==
    /\ up /\ Fault
    /\ Die
    /\ UNCHANGED misled

\* PruneLayers removes the partial files, NAME-partial first, and the blobs without a
\* manifest.  A removal may fail, or the server die, and leave some of the part files: if
\* they record bytes of a partial file that is gone, they mislead.
PruneLayers ==
    /\ \E left \in SUBSET Part :
          partFile' = [k \in Part |-> IF k \in left THEN partFile[k] ELSE NoFile]
    /\ partial' \in {{}, partial}
    /\ blob' \in {blob, IF manifest THEN blob ELSE "none"}
    /\ misled' = (misled \/ (partial' # partial /\ \E k \in Part : partFile'[k] > 0))

\* Serve prunes unless OLLAMA_NOPRUNE is set or a manifest is corrupt.
Restart ==
    /\ ~up
    /\ up' = TRUE
    /\ PruneLayers \/ UNCHANGED <<partFile, partial, blob, misled>>
    /\ UNCHANGED <<manager, dl, pc, joined, manifest, faults>>

-----------------------------------------------------------------------------
(* downloadBlob, up to Wait.                                               *)

Stat(p) ==
    /\ up /\ pc[p] = "stat"
    /\ Goto(p, IF blob = "none" THEN "store" ELSE "manifest")    \* skipVerify on a cacheHit
    /\ UNCHANGED <<up, manager, dl, joined, files, misled, faults>>

LoadOrStore(p) ==
    /\ pc[p] = "store"
    /\ LET new == manager = NoDownload IN
          /\ manager' = IF new THEN p ELSE manager
          /\ joined' = [joined EXCEPT ![p] = manager']
          /\ dl' = IF new THEN [dl EXCEPT ![p] = NewDownload] ELSE dl
          /\ Goto(p, IF new THEN "glob" ELSE "acquire")
    /\ UNCHANGED <<up, files, misled, faults>>

PrepareFails(p) ==
    /\ manager' = NoDownload
    /\ dl' = [dl EXCEPT ![p].at = "unprepared", ![p].parts = [k \in Part |-> NoPart]]
    /\ Goto(p, "ended")

StartRun(p, parts) ==
    /\ dl' = [dl EXCEPT ![p].at = "start", ![p].parts = parts]
    /\ Goto(p, "acquire")
    /\ UNCHANGED manager

\* Prepare reads the part files there are.
Glob(p) ==
    /\ pc[p] = "glob"
    /\ LET found == {k \in Part : partFile[k] # NoFile}
           resumed == [k \in Part |->
                         IF k \notin found THEN NoPart
                         ELSE [NoPart EXCEPT !.completed = partFile[k],
                                             !.at = IF partFile[k] = Size(k) THEN "ok" ELSE "get"]]
       IN \/ found = {} /\ Goto(p, "head") /\ UNCHANGED <<manager, dl, misled>>
          \/ /\ \E k \in found : partFile[k] = Torn
             /\ PrepareFails(p) /\ UNCHANGED misled
          \/ /\ found # {} /\ \A k \in found : partFile[k] # Torn
             /\ StartRun(p, resumed)
             /\ misled' = (misled \/ found # Part)
    /\ UNCHANGED <<up, joined, files, faults>>

\* Without a Content-Length the blob is taken to be empty.
Head(p) ==
    /\ pc[p] = "head"
    /\ \/ PrepareFails(p) /\ UNCHANGED misled
       \/ Goto(p, "parts") /\ UNCHANGED <<manager, dl, misled>>
       \/ StartRun(p, dl[p].parts) /\ misled' = TRUE
    /\ UNCHANGED <<up, joined, files, faults>>

newPart(p) ==
    /\ pc[p] = "parts"
    /\ LET k == NextPart(p)
           parts == [dl[p].parts EXCEPT ![k] = NewPart]
       IN \/ /\ partFile' = [partFile EXCEPT ![k] = 0]
             /\ IF k = NumParts - 1 THEN StartRun(p, parts)
                ELSE dl' = [dl EXCEPT ![p].parts = parts] /\ UNCHANGED <<manager, pc>>
          \/ /\ \E left \in {NoFile, Torn} : partFile' = [partFile EXCEPT ![k] = left]
             /\ PrepareFails(p)
    /\ UNCHANGED <<up, joined, partial, blob, manifest, misled, faults>>

-----------------------------------------------------------------------------
(* Wait, and what PullModel does when it returns.                          *)

acquire(p) ==
    /\ pc[p] = "acquire"
    /\ dl' = [dl EXCEPT ![joined[p]].references = @ + 1]
    /\ Goto(p, "wait")
    /\ UNCHANGED <<up, manager, joined, files, misled, faults>>

\* Variant: the last to leave takes the download off the manager, while its run goes on.
releaseDeletes(p, l) ==
    LET d == joined[p]
        last == b(d).references = 1
    IN /\ dl' = [dl EXCEPT ![d].references = @ - 1, ![d].canceled = @ \/ last]
       /\ manager' = IF last THEN NoDownload ELSE manager
       /\ Goto(p, l)
       /\ joined' = [joined EXCEPT ![p] = NoDownload]
       /\ UNCHANGED <<up, files>>

\* The last to leave cancels the download.  If its Run has not set CancelFunc yet, this
\* is a call of a nil function, in a goroutine of its own: the server dies.
release(p, l) ==
    LET d == joined[p]
        last == b(d).references = 1
    IN IF last /\ ~b(d).CancelFunc
       THEN Die
       ELSE /\ dl' = [dl EXCEPT ![d].references = @ - 1,
                                ![d].canceled = @ \/ (last /\ b(d).at # "done")]
            /\ Goto(p, l)
            /\ joined' = [joined EXCEPT ![p] = NoDownload]
            /\ UNCHANGED <<up, manager, files>>

\* The ticker fires and the pull reports to its handler, on a channel without a buffer.  A
\* report that is received takes the pull back to its select: no step.  If the handler has
\* returned, because its client has gone or cannot be written to, nobody receives and the
\* pull is blocked for good.  In Wait it keeps its reference; the stages of PullModel, which
\* are reported first, it has no more part in.
Unreceived(p) ==
    /\ \/ pc[p] = "wait" /\ Goto(p, "blocked")
       \/ pc[p] \in {"verify", "manifest"} /\ Goto(p, "ended")
    /\ UNCHANGED <<up, manager, dl, joined, files, misled, faults>>

Wait(p) ==
    /\ pc[p] = "wait"
    /\ b(joined[p]).at = "done"
    /\ release(p, IF b(joined[p]).err THEN "ended" ELSE "verify")
    /\ UNCHANGED <<misled, faults>>

\* The client has gone away, and the pull notices before its next report.
WaitCanceled(p) ==
    /\ pc[p] = "wait"
    /\ release(p, "ended")
    /\ UNCHANGED <<misled, faults>>

verifyBlob(p) ==
    /\ pc[p] = "verify"
    /\ Goto(p, CASE blob = "none" -> "ended" [] blob = "whole" -> "manifest" [] OTHER -> "remove")
    /\ UNCHANGED <<up, manager, dl, joined, files, misled, faults>>

RemoveBlob(p) ==
    /\ pc[p] = "remove"
    /\ blob' \in {"none", blob}
    /\ Goto(p, "ended")
    /\ UNCHANGED <<up, manager, dl, joined, partFile, partial, manifest, misled, faults>>

WriteManifest(p) ==
    /\ pc[p] = "manifest"
    /\ manifest' \in {TRUE, manifest}
    /\ Goto(p, "ended")
    /\ UNCHANGED <<up, manager, dl, joined, partFile, partial, blob, misled, faults>>

-----------------------------------------------------------------------------
(* run, in its own goroutine; every return runs the deferred calls.        *)

\* b.Total, the sum of the parts: only the last one can be shorter.
Length(parts) ==
    Cardinality(parts \ {NumParts - 1}) * PartSize
    + (IF NumParts - 1 \in parts THEN Size(NumParts - 1) ELSE 0)
RunTo(d, l) == dl' = [dl EXCEPT ![d].at = l]
RunFails(d) == dl' = [dl EXCEPT ![d].at = "delete", ![d].err = TRUE]

Open(d) ==
    /\ b(d).at = "start"
    /\ \/ /\ dl' = [dl EXCEPT ![d].CancelFunc = TRUE, ![d].at = "url"]
          /\ partial' = {i \in partial : i < Length(Parts(d))}    \* Truncate
       \/ /\ dl' = [dl EXCEPT ![d].CancelFunc = TRUE, ![d].at = "delete", ![d].err = TRUE]
          /\ UNCHANGED partial
    /\ UNCHANGED <<up, manager, pc, joined, partFile, blob, manifest, misled, faults>>

DirectURL(d) ==
    /\ b(d).at = "url"
    /\ \/ ~b(d).canceled /\ RunTo(d, "copy")
       \/ RunFails(d)
    /\ UNCHANGED <<up, manager, pc, joined, files, misled, faults>>

\* The context of the parts: the download was cancelled, or another part gave up.
InnerCanceled(d) == b(d).canceled \/ \E k \in Part : b(d).parts[k].at = "failed"

SetPart(d, k, s) == dl' = [dl EXCEPT ![d].parts[k] = s]

\* Another attempt, or errMaxRetriesExceeded.
Over(s, l) == [NoPart EXCEPT !.at = l, !.completed = s.completed]
Again(s) == [s EXCEPT !.at = "get"]
\* Variant: one attempt too many.
RetryOnceMore(s) ==
    IF s.try < MaxRetries THEN [Again(s) EXCEPT !.try = @ + 1] ELSE Over(s, "failed")
Retry(s) == IF s.try + 1 < MaxRetries THEN [Again(s) EXCEPT !.try = @ + 1] ELSE Over(s, "failed")

\* CopyN got n bytes of the range from StartsAt on, and they count: part.Completed grows.
\* The status of the response is not looked at: they may be wrong.
Kept(d, k) ==
    LET s == b(d).parts[k]
        start == Offset(k) + s.completed
    IN \E n \in 0 .. StopsAt(k) - start :
          /\ LET got == start .. start + n - 1 IN
             \/ partial' = partial \cup got /\ UNCHANGED <<misled, faults>>
             \/ n > 0 /\ partial' = partial \ got /\ misled' = TRUE /\ Fault
          /\ SetPart(d, k, [s EXCEPT !.completed = @ + n, !.at = "save"])

\* Variant: the bytes received count whatever the error.
RolledBackNot(d, k) ==
    LET s == [b(d).parts[k] EXCEPT !.completed = Size(k)] IN
    /\ partial' = {i \in partial : i \notin Offset(k) + b(d).parts[k].completed .. StopsAt(k) - 1}
    /\ SetPart(d, k, Retry(s)) \/ SetPart(d, k, Over(s, "failed"))
    /\ Fault /\ UNCHANGED misled

\* Any other error, an early end of the body included: what was written does not count,
\* and is taken to be wrong.
RolledBack(d, k) ==
    LET s == b(d).parts[k] IN
    /\ partial' = {i \in partial : i \notin Offset(k) + s.completed .. StopsAt(k) - 1}
    /\ SetPart(d, k, Retry(s)) \/ SetPart(d, k, Over(s, "failed"))    \* ENOSPC
    /\ Fault /\ UNCHANGED misled

downloadChunk(d, k) ==
    /\ b(d).at = "copy" /\ b(d).parts[k].at = "get"
    /\ Kept(d, k) \/ RolledBack(d, k)
    /\ UNCHANGED <<up, manager, pc, joined, partFile, blob, manifest>>

\* writePart, and what the attempt then returns: the first error of the goroutine that
\* copied and of the one that watches it.
Saved(d, k, s) ==
    /\ partFile' = [partFile EXCEPT ![k] = s.completed]
    /\ \/ s.completed = Size(k) /\ SetPart(d, k, Over(s, "ok"))
       \/ s.completed < Size(k) /\ SetPart(d, k, Retry(s))           \* ErrUnexpectedEOF
       \/ InnerCanceled(d) /\ SetPart(d, k, Over(s, "failed"))
    /\ UNCHANGED faults

NotSaved(d, k, s) ==
    /\ \E left \in {partFile[k], Torn} : partFile' = [partFile EXCEPT ![k] = left]
    /\ SetPart(d, k, Retry(s)) \/ SetPart(d, k, Over(s, "failed"))    \* ENOSPC
    /\ Fault

\* A stalled part is asked for again without counting the attempt.
Stalled(d, k, s) ==
    /\ \E left \in {partFile[k], Torn, s.completed} : partFile' = [partFile EXCEPT ![k] = left]
    /\ SetPart(d, k, Again(s))
    /\ Fault

writePart(d, k) ==
    /\ b(d).parts[k].at = "save"
    /\ LET s == b(d).parts[k] IN Saved(d, k, s) \/ NotSaved(d, k, s) \/ Stalled(d, k, s)
    /\ UNCHANGED <<up, manager, pc, joined, partial, blob, manifest, misled>>

\* Variant: the error of the group is not looked at.
GroupWaitNoError(d) ==
    /\ b(d).at = "copy"
    /\ \A k \in Parts(d) : b(d).parts[k].at \in {"ok", "failed"}
    /\ RunTo(d, "remove")
    /\ UNCHANGED <<up, manager, pc, joined, files, misled, faults>>

GroupWait(d) ==
    /\ b(d).at = "copy"
    /\ \A k \in Parts(d) : b(d).parts[k].at \in {"ok", "failed"}
    /\ IF \E k \in Parts(d) : b(d).parts[k].at = "failed" THEN RunFails(d) ELSE RunTo(d, "remove")
    /\ UNCHANGED <<up, manager, pc, joined, files, misled, faults>>

\* The part files are removed by their index in b.Parts, not by their number.
RemovePart(d) ==
    /\ b(d).at = "remove"
    /\ LET i == b(d).removed IN
       IF i = Cardinality(Parts(d)) THEN RunTo(d, "rename") /\ UNCHANGED partFile
       ELSE \/ /\ partFile[i] # NoFile
               /\ partFile' = [partFile EXCEPT ![i] = NoFile]
               /\ dl' = [dl EXCEPT ![d].removed = i + 1]
            \/ RunFails(d) /\ UNCHANGED partFile
    /\ UNCHANGED <<up, manager, pc, joined, partial, blob, manifest, misled, faults>>

Rename(d) ==
    /\ b(d).at = "rename"
    /\ \/ /\ blob' = IF partial = Bytes THEN "whole" ELSE "bad"
          /\ partial' = {}
          /\ RunTo(d, "delete")
       \/ RunFails(d) /\ UNCHANGED <<blob, partial>>
    /\ UNCHANGED <<up, manager, pc, joined, partFile, manifest, misled, faults>>

Delete(d) ==
    /\ b(d).at = "delete"
    /\ manager' = NoDownload
    /\ RunTo(d, "close")
    /\ UNCHANGED <<up, pc, joined, files, misled, faults>>

\* Variant: done is closed only by a run that succeeds.
CloseOnSuccess(d) ==
    /\ b(d).at = "close" /\ ~b(d).err
    /\ RunTo(d, "done")
    /\ UNCHANGED <<up, manager, pc, joined, files, misled, faults>>

Close(d) ==
    /\ b(d).at = "close"
    /\ dl' = [dl EXCEPT ![d] = [NewDownload EXCEPT !.at = "done", !.err = b(d).err,
                                 !.references = b(d).references, !.CancelFunc = TRUE]]
    /\ UNCHANGED <<up, manager, pc, joined, files, misled, faults>>

-----------------------------------------------------------------------------
Pull(p) ==
    \/ Stat(p) \/ LoadOrStore(p) \/ Glob(p) \/ Head(p) \/ newPart(p)
    \/ acquire(p) \/ Wait(p) \/ verifyBlob(p) \/ RemoveBlob(p) \/ WriteManifest(p)

\* What its client does to a pull.
Client(p) == WaitCanceled(p) \/ Unreceived(p)

Run(d) ==
    \/ Open(d) \/ DirectURL(d) \/ \E k \in Part : downloadChunk(d, k) \/ writePart(d, k)
    \/ GroupWait(d) \/ RemovePart(d) \/ Rename(d) \/ Delete(d) \/ Close(d)

Next ==
    \/ \E p \in Pulls : Pull(p) \/ Client(p) \/ Run(p)
    \/ Crash \/ Restart

\* Goroutines that can go on do, and the registry answers: the code has no time limit on
\* the first byte of a part.  The loop of Wait selects at random among the cases that are
\* ready, so a download that is done is noticed however often the ticker fires, unless a
\* report is not received.  Clients need not leave, nor the server die or come back.
Spec ==
    /\ Init /\ [][Next]_vars
    /\ \A p \in Pulls : WF_vars(Pull(p)) /\ WF_vars(Run(p))

-----------------------------------------------------------------------------
InUse(d) == dl[d].at \in {"prepare", "start", "url", "copy", "remove", "rename"}

\* At most one download works on the partial files: a download stays in the manager, where
\* the next pull joins it, until its run, cancelled or not, has let go of them.
SingleWriter == \A d, e \in Pulls : InUse(d) /\ InUse(e) => d = e

\* What a part file says was received is in the partial file, whatever was interrupted,
\* rolled back, retried or died on the way, so that a later pull may go on from it.
ResumeSound ==
    ~misled => \A k \in Part : partFile[k] >= 0 =>
                   Offset(k) .. Offset(k) + partFile[k] - 1 \subseteq partial

\* Unless the registry or a cut-short Prepare misled the download, a blob under its own
\* name is whole, and the blob of every manifest is there: pulls that find the blob
\* write a manifest without verifying it.
StoreSound ==
    ~misled => /\ blob # "bad"
               /\ manifest => blob = "whole"

Waits(p) == pc[p] = "wait" /\ b(joined[p]).at \notin {"prepare", "unprepared"}

\* Pulls that wait for a download that was prepared are told how it ended, or die with the
\* server, cancelled, stalled and failing parts included and though others may be blocked
\* with a reference: again and again, nobody waits whose handler still receives.
PreparedEnds == []<>(\A p \in Pulls : ~Waits(p))
=============================================================================

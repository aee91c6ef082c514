---------------------------- MODULE BackupPipeline ----------------------------
(***************************************************************************)
(* The backup run of main.cpp: every thread main() starts, the five queues *)
(* they share, the abort flag, and the objects in the container.           *)
(*                                                                         *)
(*   parser --> localQ  --> local engine  --> localDoneQ --> updater       *)
(*      \-----> remoteQ --> remote engine --> remoteDoneQ (never read)     *)
(*   updater --> todoQ --> synchronizer threads (uploads)                  *)
(*   deleter: starts when the parser has ended, walks the remote listing   *)
(*                                                                         *)
(* The two engines are instances of ProcessEngine.  The remote engine's    *)
(* results reach the updater through the asset itself (its dstHash), which *)
(* is why the updater scans localDoneQ for an asset that is ready.         *)
(***************************************************************************)
EXTENDS FiniteSets, TQueue

CONSTANTS
    File, Folder,       \* the children of the source folder
    RemoteOnly,         \* listed in the container, absent from the source
    LocalWorker, RemoteWorker, Uploader,    \* thread pools
    NoAsset,            \* nullptr
    ForceMd5,           \* option: compare hashes, not modification times
    Crypted,            \* option: encrypt what is uploaded
    RemoveNonExisting,  \* option: delete objects that have no local file
    Container,          \* what the container may hold for each path at the start
    Faults              \* what may go wrong in this run: a subset of FaultKind

\* What the container may hold for a file: nothing, an object with the file's
\* fingerprint (content hash or modification time, as ForceMd5 says) and the
\* present key, one with another fingerprint, one with the same fingerprint
\* and another key or none; "bad" is one that says the same but from which the
\* file cannot be had.
Object == {"absent", "same", "bad", "changed", "rekey"}

FaultKind == {"walk", "hash", "head", "500", "upload", "delete"}

ASSUME PipelineAssumption ==
    /\ \A S \in {File, Folder, RemoteOnly, LocalWorker, RemoteWorker, Uploader} :
          IsFiniteSet(S)
    /\ LocalWorker # {} /\ RemoteWorker # {} /\ Uploader # {}
    /\ File \cap Folder = {} /\ (File \cup Folder) \cap RemoteOnly = {}
    /\ NoAsset \notin File \cup Folder \cup RemoteOnly
    /\ "deleter" \notin Uploader
    /\ {ForceMd5, Crypted, RemoveNonExisting} \subseteq BOOLEAN
    /\ Container \subseteq [File \cup RemoteOnly -> Object]
    /\ Faults \subseteq FaultKind

Asset == File \cup Folder

VARIABLES
    main,           \* the next thing main() does
    aborted,        \* CContext::_aborted
    localQ, localDoneQ, remoteQ, remoteDoneQ, todoQ,    \* CContext's queues
    parser, localFed, remoteFed,            \* source parser; what it has added
    lPc, lHand, lPushed, lCount, lOver,     \* local hash engine
    rPc, rHand, rPushed, rCount, rOver,     \* remote metadata engine
    srcHash,        \* CAsset::_srcHash of each file
    meta, dstHash,  \* files whose remote time and key, whose _dstHash are set
    status,         \* CAsset::_backupStatus of each file
    updater, localTaken,    \* status updater; what it took from localDoneQ
    sync,           \* the synchronizer's threads
    deleter,        \* the deleter
    counter,        \* the atomic counters main() prints at the end
    before, stored, \* each path's object when the run began, and now
    \* history
    late,           \* uploads and deletions each thread began after the abort
    missed          \* assets added between a reader's isEmpty() and done()

queues   == <<localQ, localDoneQ, remoteQ, remoteDoneQ, todoQ>>
parserV  == <<parser, localFed, remoteFed>>
localV   == <<lPc, lHand, lPushed, lCount, lOver>>
remoteV  == <<rPc, rHand, rPushed, rCount, rOver>>
assetV   == <<srcHash, meta, dstHash, status>>
updaterV == <<updater, localTaken>>
workV    == <<sync, deleter, counter, before, stored, late, missed>>
vars     == <<main, aborted, queues, parserV, localV, remoteV, assetV, updaterV, workV>>

\* main() leaves its scope: the last object declared goes first.
Unwinding     == {"unwindRemote", "unwindUpdater", "unwindLocal", "exit"}
RemoteDerived == main \notin Unwinding
LocalDerived  == main \notin {"unwindLocal", "exit"}

Local  == INSTANCE ProcessEngine WITH
    Worker <- LocalWorker, src <- localQ, dst <- localDoneQ,
    pc <- lPc, hand <- lHand, pushed <- lPushed, doneCount <- lCount,
    overtaken <- lOver, derived <- LocalDerived, fed <- localFed, taken <- localTaken

Remote == INSTANCE ProcessEngine WITH
    Worker <- RemoteWorker, src <- remoteQ, dst <- remoteDoneQ,
    pc <- rPc, hand <- rHand, pushed <- rPushed, doneCount <- rCount,
    overtaken <- rOver, derived <- RemoteDerived, fed <- remoteFed, taken <- {}

\* CRemoteLs::paths(), built before any thread starts.
Listed == {p \in DOMAIN before : before[p] # "absent"}

Init ==
    /\ main = "startParser"
    /\ aborted = FALSE
    /\ localQ = NewQueue /\ localDoneQ = NewQueue
    /\ remoteQ = NewQueue /\ remoteDoneQ = NewQueue
    /\ todoQ = NewQueue
    /\ parser = "off" /\ localFed = {} /\ remoteFed = {}
    /\ lPc = [w \in LocalWorker |-> "off"] /\ lHand = [w \in LocalWorker |-> NoAsset]
    /\ rPc = [w \in RemoteWorker |-> "off"] /\ rHand = [w \in RemoteWorker |-> NoAsset]
    /\ lPushed = 0 /\ lCount = 0 /\ lOver = FALSE
    /\ rPushed = 0 /\ rCount = 0 /\ rOver = FALSE
    /\ srcHash = [f \in File |-> "none"] /\ meta = {} /\ dstHash = {}
    /\ status = [f \in File |-> "UNKNOWN"]
    /\ updater = [pc |-> "off", at |-> 1, hand |-> NoAsset] /\ localTaken = {}
    /\ sync = [u \in Uploader |-> [pc |-> "off", hand |-> NoAsset, retried |-> FALSE]]
    /\ before \in Container /\ stored = before
    /\ deleter = [pc |-> "off", toCheck |-> Listed]
    /\ counter = [upToDate |-> 0, uploading |-> 0, uploaded |-> 0, deleted |-> 0]
    /\ late = [t \in Uploader \cup {"deleter"} |-> 0] /\ missed = {}

-----------------------------------------------------------------------------
(* main(), main.cpp:828-853: start the threads one after another, wait for *)
(* the parser, start the deleter, wait for synchronizer and deleter, leave.*)
(* Leaving runs the destructors, which join the threads nobody waited for. *)

StartParser ==
    /\ main = "startParser" /\ main' = "startLocal"
    /\ parser' = "test"
    /\ localQ' = ResetDone(localQ) /\ remoteQ' = ResetDone(remoteQ)
    /\ UNCHANGED <<aborted, localDoneQ, remoteDoneQ, todoQ, localFed, remoteFed,
                   localV, remoteV, assetV, updaterV, workV>>

StartLocal ==
    /\ main = "startLocal" /\ main' \in {main, "startRemote"}
    /\ Local!Start
    /\ main' = "startRemote" <=> lPushed' = Cardinality(LocalWorker)
    /\ UNCHANGED <<remoteQ, remoteDoneQ, todoQ, parserV, remoteV, assetV, updaterV, workV>>

StartRemote ==
    /\ main = "startRemote" /\ main' \in {main, "startUpdater"}
    /\ Remote!Start
    /\ main' = "startUpdater" <=> rPushed' = Cardinality(RemoteWorker)
    /\ UNCHANGED <<localQ, localDoneQ, todoQ, parserV, localV, assetV, updaterV, workV>>

mainRest == <<aborted, queues, parserV, localV, remoteV, assetV, localTaken, counter,
              before, stored, late, missed>>

StartUpdater ==
    /\ main = "startUpdater" /\ main' = "startSync"
    /\ updater' = [updater EXCEPT !.pc = "isEmpty"]
    /\ UNCHANGED <<mainRest, sync, deleter>>

StartSync(u) ==
    /\ main = "startSync" /\ sync[u].pc = "off"
    /\ sync' = [sync EXCEPT ![u].pc = "isEmpty"]
    /\ main' = IF \A v \in Uploader : sync'[v].pc # "off" THEN "waitParser" ELSE main
    /\ UNCHANGED <<mainRest, updater, deleter>>

ParserEnded == parser = "exit"

StartDeleter ==
    /\ main = "waitParser" /\ main' = "wait"
    /\ ParserEnded
    /\ deleter' = [deleter EXCEPT !.pc = IF RemoveNonExisting THEN "next" ELSE "exit"]
    /\ UNCHANGED <<mainRest, updater, sync>>

\* The log notifier, which only reads counters, leaves with these threads.
Summary ==
    /\ main = "wait" /\ main' = "unwindRemote"
    /\ deleter.pc = "exit" /\ \A u \in Uploader : sync[u].pc = "exit"
    /\ UNCHANGED <<mainRest, updater, sync, deleter>>

\* Each destructor joins the threads of its object, then the next one runs.
Joined ==
    \/ main = "unwindRemote"  /\ (\A w \in RemoteWorker : rPc[w] = "exit")
                              /\ main' = "unwindUpdater"
    \/ main = "unwindUpdater" /\ updater.pc = "exit" /\ main' = "unwindLocal"
    \/ main = "unwindLocal"   /\ (\A w \in LocalWorker : lPc[w] = "exit")
                              /\ main' = "exit"

Unwind ==
    /\ Joined
    /\ UNCHANGED <<mainRest, updater, sync, deleter>>

Main == StartParser \/ StartLocal \/ StartRemote \/ StartUpdater
        \/ (\E u \in Uploader : StartSync(u))
        \/ StartDeleter \/ Summary \/ Unwind

-----------------------------------------------------------------------------
(* The source parser: srcFileList.cpp:53-117 with the callbacks of         *)
(* main.cpp:87-126.  It reads the abort flag before each directory entry.  *)

parserRest == <<main, aborted, localDoneQ, remoteDoneQ, todoQ, localV, remoteV,
                assetV, updaterV, workV>>

ReadAbort ==
    /\ parser = "test"
    /\ parser' = IF aborted \/ localFed = Asset THEN "doneLocal" ELSE "visit"
    /\ UNCHANGED <<localQ, remoteQ, localFed, remoteFed>>

Visit(p) ==
    /\ parser = "visit" /\ parser' = "addRemote"
    /\ p \in Asset \ localFed
    /\ localQ' = Add(localQ, p)
    /\ localFed' = localFed \cup {p}
    /\ UNCHANGED <<remoteQ, remoteFed>>

\* onNewAsset's second add; the asset is the one the remote queue lacks.
VisitRemote(p) ==
    /\ parser = "addRemote" /\ parser' = "test"
    /\ p \in localFed \ remoteFed
    /\ remoteQ' = Add(remoteQ, p)
    /\ remoteFed' = remoteFed \cup {p}
    /\ UNCHANGED <<localQ, localFed>>

\* A filesystem_error ends the parse without onDone() and without an abort.
Throw ==
    /\ "walk" \in Faults
    /\ parser \in {"test", "visit"} /\ parser' = "exit"
    /\ UNCHANGED <<localQ, remoteQ, localFed, remoteFed>>

DoneLocal ==
    /\ parser = "doneLocal" /\ parser' = "doneRemote"
    /\ localQ' = SetDone(localQ)
    /\ UNCHANGED <<remoteQ, localFed, remoteFed>>

DoneRemote ==
    /\ parser = "doneRemote" /\ parser' = "exit"
    /\ remoteQ' = SetDone(remoteQ)
    /\ UNCHANGED <<localQ, localFed, remoteFed>>

Parser ==
    /\ \/ ReadAbort \/ Throw \/ DoneLocal \/ DoneRemote
       \/ \E p \in Asset : Visit(p) \/ VisitRemote(p)
    /\ UNCHANGED parserRest

Threw == parser = "exit" /\ ~ localQ.done

-----------------------------------------------------------------------------
(* The local engine: main.cpp:152-213. *)

localRest == <<main, remoteQ, remoteDoneQ, todoQ, parserV, remoteV, meta, dstHash,
               status, updaterV, workV>>

\* With ForceMd5 the file is read to its end or until the program aborts, and
\* the hash of what was read is stored either way (main.cpp:179-201).
Digest == IF ForceMd5 /\ aborted THEN {"whole", "truncated"} ELSE {"whole"}

HashLocal(w) ==
    /\ Local!Processed(w)
    /\ IF lHand[w] \in Folder THEN srcHash' = srcHash
       ELSE \E h \in Digest : srcHash' = [srcHash EXCEPT ![lHand[w]] = h]

\* Too long for one object, cannot be opened, read error.
RefuseLocal(w) ==
    /\ "hash" \in Faults
    /\ lHand[w] \in File
    /\ Local!Refused(w)
    /\ UNCHANGED srcHash

LocalEngine(w) ==
    /\ UNCHANGED main
    /\ (Local!Loop(w) /\ UNCHANGED srcHash) \/ HashLocal(w) \/ RefuseLocal(w)
    /\ UNCHANGED localRest

-----------------------------------------------------------------------------
(* The remote engine: main.cpp:248-296.  A HEAD request for each listed    *)
(* file; its answer is stored field by field, _dstHash after the time and  *)
(* the key.                                                                *)

remoteRest == <<main, localQ, localDoneQ, todoQ, parserV, localV, srcHash, status,
                updaterV, workV>>

\* Mutant: _dstHash is stored before the time and the key.
SetHashFirst(w) ==
    /\ rPc[w] = "process" /\ rHand[w] \in Listed \ meta
    /\ dstHash' = dstHash \cup {rHand[w]}
    /\ meta' = meta \cup (dstHash \cap {rHand[w]})
    /\ UNCHANGED <<aborted, remoteQ, remoteDoneQ, remoteV>>

SetMeta(w) ==
    /\ rPc[w] = "process" /\ rHand[w] \in Listed \ meta
    /\ meta' = meta \cup {rHand[w]}
    /\ UNCHANGED <<aborted, remoteQ, remoteDoneQ, remoteV, dstHash>>

SetDstHash(w) ==
    /\ Remote!Processed(w)
    /\ rHand[w] \in Listed => rHand[w] \in meta
    /\ dstHash' = dstHash \cup ({rHand[w]} \cap Listed)
    /\ UNCHANGED meta

\* Mutant: the engine goes on with the asset although it aborts the program.
RefuseRemoteTrue(w) ==
    /\ "head" \in Faults
    /\ rPc[w] = "process" /\ rHand[w] \in Listed \ meta
    /\ rPc' = [rPc EXCEPT ![w] = "add"]
    /\ aborted' = TRUE
    /\ UNCHANGED <<remoteQ, remoteDoneQ, rHand, rPushed, rCount, rOver, meta, dstHash>>

\* The answer is not 200.
RefuseRemote(w) ==
    /\ "head" \in Faults
    /\ rHand[w] \in Listed \ meta
    /\ Remote!Refused(w)
    /\ UNCHANGED <<meta, dstHash>>

RemoteEngine(w) ==
    /\ UNCHANGED main
    /\ \/ Remote!Loop(w) /\ UNCHANGED <<meta, dstHash>>
       \/ SetMeta(w) \/ SetDstHash(w) \/ RefuseRemote(w)
    /\ UNCHANGED remoteRest

-----------------------------------------------------------------------------
(* The status updater: main.cpp:349-477.  Its loop reads isEmpty() first   *)
(* and done() second.  getNext() holds localDoneQ's mutex while it scans.  *)

updaterRest == <<main, aborted, localQ, remoteQ, remoteDoneQ, parserV, localV, remoteV,
                 srcHash, meta, dstHash, sync, deleter, counter, before, stored, late>>

UGoto(from, to) == updater.pc = from /\ updater' = [updater EXCEPT !.pc = to]

UReadEmpty ==
    /\ Free(localDoneQ)
    /\ UGoto("isEmpty", IF IsEmpty(localDoneQ) THEN "done" ELSE "lock")
    /\ UNCHANGED <<localDoneQ, todoQ, status, localTaken, missed>>

\* Mutant: the updater leaves as soon as it finds the queue empty.
UReadDoneUnread ==
    /\ UGoto("done", "setDone")
    /\ UNCHANGED <<localDoneQ, todoQ, status, localTaken, missed>>

UReadDone ==
    /\ UGoto("done", IF localDoneQ.done THEN "setDone" ELSE "lock")
    /\ missed' = IF localDoneQ.done THEN missed \cup Items(localDoneQ) ELSE missed
    /\ UNCHANGED <<localDoneQ, todoQ, status, localTaken>>

\* Mutant: the scan does not take the mutex.
ScanUnlocked ==
    /\ UGoto("lock", "scan")
    /\ UNCHANGED <<localDoneQ, todoQ, status, localTaken, missed>>

ULock ==
    /\ Free(localDoneQ)
    /\ UGoto("lock", "scan")
    /\ localDoneQ' = Lock(localDoneQ)
    /\ UNCHANGED <<todoQ, status, localTaken, missed>>

\* Mutant: a listed file need not have its remote hash.
ReadyUnchecked(p) == TRUE

Ready(p) == p \in Folder \/ p \notin Listed \/ p \in dstHash

More    == updater.at <= Len(localDoneQ.items)
Scanned == localDoneQ.items[updater.at]

\* Not ready: look at the next one.
Skip ==
    /\ updater.pc = "scan" /\ More /\ ~ Ready(Scanned)
    /\ updater' = [updater EXCEPT !.at = @ + 1]
    /\ UNCHANGED <<localDoneQ, todoQ, status, localTaken, missed>>

WithoutScanned == Erase(localDoneQ, updater.at)

\* Ready: erase it and return it, or nullptr if it is a folder.
Pick ==
    /\ updater.pc = "scan" /\ More /\ Ready(Scanned)
    /\ updater' = IF Scanned \in Folder
                  THEN [pc |-> "abort", at |-> 1, hand |-> NoAsset]
                  ELSE [pc |-> "classify", at |-> 1, hand |-> Scanned]
    /\ localTaken' = localTaken \cup {Scanned}
    /\ localDoneQ' = Unlock(WithoutScanned)
    /\ UNCHANGED <<todoQ, status, missed>>

FoundNothing ==
    /\ updater.pc = "scan" /\ ~ More
    /\ updater' = [updater EXCEPT !.pc = "abort", !.at = 1]
    /\ localDoneQ' = Unlock(localDoneQ)
    /\ UNCHANGED <<todoQ, status, localTaken, missed>>

\* What the fields of a listed file say: the hashes are compared with
\* ForceMd5, the modification times without it.
SameFingerprint(p) ==
    /\ IF ForceMd5 THEN p \in dstHash /\ srcHash[p] = "whole" ELSE p \in meta
    /\ before[p] \in {"same", "bad", "rekey"}

SameKey(p) == p \in meta /\ before[p] # "rekey"

StatusOf(p) ==
    CASE p \notin Listed         -> "TO_BE_CREATED"
      [] p \in Listed /\ ~ SameFingerprint(p) -> "UPDATE_CONTENT_CHANGED"
      [] p \in Listed /\ SameFingerprint(p) /\ Crypted /\ ~ SameKey(p)
                                 -> "UPDATE_PWD_CHANGED"
      [] OTHER                   -> "UP_TO_DATE"

Classify ==
    /\ updater.pc = "classify"
    /\ status' = [status EXCEPT ![updater.hand] = StatusOf(updater.hand)]
    /\ todoQ' = Add(todoQ, updater.hand)
    /\ updater' = [updater EXCEPT !.pc = "abort", !.hand = NoAsset]
    /\ UNCHANGED <<localDoneQ, localTaken, missed>>

\* Mutant: the updater ignores the abort.
UIgnoreAbort ==
    /\ UGoto("abort", "isEmpty")
    /\ UNCHANGED <<localDoneQ, todoQ, status, localTaken, missed>>

UReadAbort ==
    /\ UGoto("abort", IF aborted THEN "setDone" ELSE "isEmpty")
    /\ UNCHANGED <<localDoneQ, todoQ, status, localTaken, missed>>

URaiseDone ==
    /\ UGoto("setDone", "exit")
    /\ todoQ' = SetDone(todoQ)
    /\ UNCHANGED <<localDoneQ, status, localTaken, missed>>

Updater ==
    /\ \/ UReadEmpty \/ UReadDone \/ ULock \/ Skip \/ Pick \/ FoundNothing
       \/ Classify \/ UReadAbort \/ URaiseDone
    /\ UNCHANGED updaterRest

-----------------------------------------------------------------------------
(* The synchronizer's threads: main.cpp:556-611.  Again isEmpty() is read  *)
(* first and done() second.                                                *)

syncRest == <<main, localQ, localDoneQ, remoteQ, remoteDoneQ, parserV, localV,
              remoteV, assetV, updaterV, deleter, before>>

SGoto(u, from, to) == sync[u].pc = from /\ sync' = [sync EXCEPT ![u].pc = to]
SDrop(u, from)     == /\ sync[u].pc = from
                      /\ sync' = [sync EXCEPT ![u].pc = "abort", ![u].hand = NoAsset]

Begun(t) == late' = IF aborted THEN [late EXCEPT ![t] = @ + 1] ELSE late

SReadEmpty(u) ==
    /\ SGoto(u, "isEmpty", IF IsEmpty(todoQ) THEN "done" ELSE "get")
    /\ UNCHANGED <<aborted, todoQ, counter, stored, late, missed>>

SReadDone(u) ==
    /\ SGoto(u, "done", IF todoQ.done THEN "exit" ELSE "get")
    /\ missed' = IF todoQ.done THEN missed \cup Items(todoQ) ELSE missed
    /\ UNCHANGED <<aborted, todoQ, counter, stored, late>>

\* Mutant: the front is read but not popped.
TodoUnpopped == todoQ

TodoPopped == Pop(todoQ)

SGet(u) ==
    /\ ~ IsEmpty(todoQ)
    /\ sync[u].pc = "get"
    /\ sync' = [sync EXCEPT ![u].pc = "handle", ![u].hand = Front(todoQ)]
    /\ todoQ' = TodoPopped
    /\ UNCHANGED <<aborted, counter, stored, late, missed>>

SGetNothing(u) ==
    /\ IsEmpty(todoQ)
    /\ SGoto(u, "get", "abort")
    /\ UNCHANGED <<aborted, todoQ, counter, stored, late, missed>>

SUpToDate(u) ==
    /\ SDrop(u, "handle")
    /\ status[sync[u].hand] = "UP_TO_DATE"
    /\ counter' = [counter EXCEPT !.upToDate = @ + 1]
    /\ UNCHANGED <<aborted, todoQ, stored, late, missed>>

BeginUpload(u) ==
    /\ SGoto(u, "handle", "upload")
    /\ status[sync[u].hand] \in
          {"TO_BE_CREATED", "UPDATE_CONTENT_CHANGED", "UPDATE_PWD_CHANGED"}
    /\ counter' = [counter EXCEPT !.uploading = @ + 1]
    /\ Begun(u)
    /\ UNCHANGED <<aborted, todoQ, stored, missed>>

\* What a successful upload leaves.  The metadata carry the hash that is known,
\* truncated or not; and what a retry encrypts may be the rest of what a first
\* attempt began, without a header (crypto.cpp:311-319).
MayBeStored(u) ==
    IF srcHash[sync[u].hand] = "truncated" THEN {"changed"}
    ELSE {"same"} \cup (IF Crypted /\ sync[u].retried THEN {"bad"} ELSE {})

\* upload() compares what the container stored with the hash it knows, so a
\* truncated hash lets only an encrypted upload succeed (uploader.cpp:137-148).
UploadOk(u) ==
    /\ SDrop(u, "upload")
    /\ Crypted \/ srcHash[sync[u].hand] = "whole"
    /\ \E o \in MayBeStored(u) : stored' = [stored EXCEPT ![sync[u].hand] = o]
    /\ counter' = [counter EXCEPT !.uploading = @ - 1, !.uploaded = @ + 1]
    /\ UNCHANGED <<aborted, todoQ, late, missed>>

\* Mutant: the retry does not ask whether the program is aborting.
MayRetryAnyway(u) == ~ sync[u].retried

MayRetry(u) == ~ sync[u].retried /\ ~ aborted

\* The server answered 500: retry once, unless the program is aborting.
UploadAgain(u) ==
    /\ "500" \in Faults /\ MayRetry(u)
    /\ SGoto(u, "upload", "sleep")
    /\ UNCHANGED <<aborted, todoQ, counter, stored, late, missed>>

Retry(u) ==
    /\ sync[u].pc = "sleep"
    /\ sync' = [sync EXCEPT ![u].pc = "upload", ![u].retried = TRUE]
    /\ Begun(u)
    /\ UNCHANGED <<aborted, todoQ, counter, stored, missed>>

\* Mutant: a failed upload does not abort.
UploadFailsQuietly(u) ==
    /\ SDrop(u, "upload")
    /\ stored' = [stored EXCEPT ![sync[u].hand] = "changed"]
    /\ UNCHANGED <<aborted, todoQ, counter, late, missed>>

\* In the clear the tag is not that of a hash which an abort truncated, or which
\* was computed along a first attempt that was answered early.
TagFails(u) ==
    ~ Crypted /\ (srcHash[sync[u].hand] = "truncated" \/ (~ ForceMd5 /\ sync[u].retried))

\* 500 with no retry left leaves the object as it was, a failed verification one
\* without its metadata, and a request that fails either of them or, if it was the
\* last one's answer that was lost, what a successful upload leaves.
UploadFails(u) ==
    /\ SDrop(u, "upload")
    /\ \/ "500" \in Faults /\ ~ MayRetry(u) /\ stored' = stored
       \/ TagFails(u) /\ stored' = [stored EXCEPT ![sync[u].hand] = "changed"]
       \/ /\ "upload" \in Faults
          /\ \/ stored' = stored
             \/ \E o \in {"changed"} \cup MayBeStored(u) :
                   stored' = [stored EXCEPT ![sync[u].hand] = o]
    /\ aborted' = TRUE
    /\ UNCHANGED <<todoQ, counter, late, missed>>

SReadAbort(u) ==
    /\ sync[u].pc = "abort"
    /\ sync' = [sync EXCEPT ![u].pc = IF aborted THEN "exit" ELSE "isEmpty",
                            ![u].retried = FALSE]
    /\ UNCHANGED <<aborted, todoQ, counter, stored, late, missed>>

Synchronizer(u) ==
    /\ \/ SReadEmpty(u) \/ SReadDone(u) \/ SGet(u) \/ SGetNothing(u)
       \/ SUpToDate(u) \/ BeginUpload(u) \/ UploadOk(u) \/ UploadAgain(u)
       \/ Retry(u) \/ UploadFails(u) \/ SReadAbort(u)
    /\ UNCHANGED syncRest

-----------------------------------------------------------------------------
(* The deleter: main.cpp:666-700.  One turn of its loop looks one listed   *)
(* path up in the source tree, deletes the object if the tree has no such  *)
(* path, and only then reads the abort flag.                               *)

deleterRest == <<main, queues, parserV, localV, remoteV, assetV, updaterV, sync,
                 before, missed>>

DChecked(p) == deleter' = [pc |-> "abort", toCheck |-> deleter.toCheck \ {p}]

\* CAsset::find() on the tree as far as the parser has built it.
Find(p) == p \in localFed

Keep(p) ==
    /\ Find(p)
    /\ DChecked(p)
    /\ UNCHANGED <<aborted, counter, stored, late>>

Delete(p) ==
    /\ ~ Find(p)
    /\ DChecked(p)
    /\ counter' = [counter EXCEPT !.deleted = @ + 1]
    /\ stored' = [stored EXCEPT ![p] = "absent"]
    /\ Begun("deleter")
    /\ UNCHANGED aborted


\* The answer is not 204.
DeleteFails(p) ==
    /\ "delete" \in Faults
    /\ ~ Find(p)
    /\ DChecked(p)
    /\ aborted' = TRUE
    /\ Begun("deleter")
    /\ UNCHANGED <<counter, stored>>

DReadAbort ==
    /\ deleter.pc = "abort"
    /\ deleter' = [deleter EXCEPT !.pc = IF aborted THEN "exit" ELSE "next"]
    /\ UNCHANGED <<aborted, counter, stored, late>>

DEnd ==
    /\ deleter.pc = "next" /\ deleter.toCheck = {}
    /\ deleter' = [deleter EXCEPT !.pc = "exit"]
    /\ UNCHANGED <<aborted, counter, stored, late>>

Deleter ==
    /\ \/ DReadAbort \/ DEnd
       \/ /\ deleter.pc = "next"
          /\ \E p \in deleter.toCheck : Keep(p) \/ Delete(p) \/ DeleteFails(p)
    /\ UNCHANGED deleterRest

-----------------------------------------------------------------------------
\* A worker called a function of an object that is gone: std::terminate().
Terminated == Local!Terminated \/ Remote!Terminated

\* The process has ended.
Ended == (main = "exit" \/ Terminated) /\ UNCHANGED vars

Next ==
    \/ Main
    \/ Parser
    \/ \E w \in LocalWorker : LocalEngine(w)
    \/ \E w \in RemoteWorker : RemoteEngine(w)
    \/ Updater
    \/ \E u \in Uploader : Synchronizer(u)
    \/ Deleter
    \/ Ended

Safety == Init /\ [][Next]_vars

(* The operating system keeps running every thread, so each one has weak   *)
(* fairness.  A local worker that waits for localDoneQ's mutex gets it     *)
(* although the updater keeps coming back for it (it sleeps a millisecond  *)
(* between scans), and the updater gets it although workers do.            *)
Fairness ==
    /\ WF_vars(Main) /\ WF_vars(Parser) /\ WF_vars(Updater) /\ WF_vars(Deleter)
    /\ \A w \in LocalWorker :
          /\ WF_vars(LocalEngine(w))
          /\ SF_vars(UNCHANGED <<localRest, srcHash>> /\ Local!HandOn(w))
    /\ \A w \in RemoteWorker : WF_vars(RemoteEngine(w))
    /\ \A u \in Uploader : WF_vars(Synchronizer(u))

Spec == Safety /\ Fairness

-----------------------------------------------------------------------------
UPC == {"off", "isEmpty", "done", "lock", "scan", "classify", "abort", "setDone", "exit"}
SPC == {"off", "isEmpty", "done", "get", "handle", "upload", "sleep", "abort", "exit"}
Status == {"UNKNOWN", "TO_BE_CREATED", "UPDATE_CONTENT_CHANGED", "UPDATE_PWD_CHANGED",
           "UP_TO_DATE"}

TypeOK ==
    /\ main \in {"startParser", "startLocal", "startRemote", "startUpdater", "startSync",
                 "waitParser", "wait"} \cup Unwinding
    /\ Local!TypeOK /\ Remote!TypeOK
    /\ todoQ \in QueueOf(File)
    /\ parser \in {"off", "test", "visit", "addRemote", "doneLocal", "doneRemote", "exit"}
    /\ srcHash \in [File -> {"none", "whole", "truncated"}]
    /\ dstHash \subseteq meta /\ meta \subseteq Listed \cap File
    /\ status \in [File -> Status]
    /\ updater \in [pc : UPC, at : Nat \ {0}, hand : File \cup {NoAsset}]
    /\ localDoneQ.locked <=> updater.pc = "scan"
    /\ sync \in [Uploader -> [pc : SPC, hand : File \cup {NoAsset}, retried : BOOLEAN]]
    /\ deleter \in [pc : {"off", "next", "abort", "exit"}, toCheck : SUBSET Listed]
    /\ counter \in [{"upToDate", "uploading", "uploaded", "deleted"} -> Nat]
    /\ before \in [File \cup RemoteOnly -> Object]
    /\ stored \in [File \cup RemoteOnly -> Object]
    /\ late \in [Uploader \cup {"deleter"} -> Nat]
    /\ missed \subseteq Asset

Overtaken == lOver \/ rOver

(* The asserts of getNext(), CBackupStatusUpdater::run(), CSynchronizer::  *)
(* run() and CUploader::upload() hold whatever the threads' interleaving:  *)
(* the asset under the updater's eyes has its source hash, the one it      *)
(* compares has its remote hash, the one a synchronizer thread holds is a  *)
(* file with a status (main.cpp:390, 424, 436, 566-573).                   *)
SourceAssertions ==
    /\ updater.pc = "scan" =>
          \A i \in 1 .. Len(localDoneQ.items) :
              localDoneQ.items[i] \in File => srcHash[localDoneQ.items[i]] # "none"
    /\ updater.pc = "classify" =>
          updater.hand \in File /\ (updater.hand \in Listed => updater.hand \in dstHash)
    /\ \A u \in Uploader :
          sync[u].pc \in {"handle", "upload", "sleep"} =>
              sync[u].hand \in File /\ status[sync[u].hand] # "UNKNOWN"

\* What the backup of a file ought to need, from what the container says alone.
Verdict(f) ==
    CASE before[f] = "absent"  -> "TO_BE_CREATED"
      [] before[f] = "changed" -> "UPDATE_CONTENT_CHANGED"
      [] before[f] = "rekey" /\ Crypted -> "UPDATE_PWD_CHANGED"
      [] OTHER -> "UP_TO_DATE"

(* The updater never classifies a file from half-published remote fields:  *)
(* the time and the key are in place before the remote hash that makes the *)
(* asset ready (main.cpp:265-282, 403-407).  Only a hash truncated by an   *)
(* abort can yield another status, and then one that re-uploads the file.  *)
ClassifiedRight ==
    \A f \in File :
        status[f] # "UNKNOWN" =>
            \/ status[f] = Verdict(f)
            \/ srcHash[f] = "truncated" /\ status[f] = "UPDATE_CONTENT_CHANGED"

Working   == {u \in Uploader : sync[u].pc \in {"upload", "sleep"}}
Count(q)  == Cardinality({i \in 1 .. Len(q.items) : q.items[i] \in File})
Holders   == Cardinality({w \in LocalWorker : lHand[w] \in File})
             + (IF updater.hand = NoAsset THEN 0 ELSE 1)
             + Cardinality({u \in Uploader : sync[u].hand \in File})

(* The counters the summary prints account for every file visited, each    *)
(* once: it is queued, in some thread's hands, up to date, uploaded, or an *)
(* upload that failed (whose uploading count is never taken back)          *)
(* (main.cpp:577-599, 853-859).                                            *)
Tally ==
    /\ Cardinality(localFed \cap File) =
          Count(localQ) + Count(localDoneQ) + Count(todoQ) + Holders
          + counter.upToDate + counter.uploaded
          + (counter.uploading - Cardinality(Working))
    /\ ~ aborted => counter.uploading = Cardinality(Working)
    /\ counter.deleted = Cardinality({p \in Listed : stored[p] = "absent"})

(* Seen from the container, the run is a Backup: while nothing fails it    *)
(* uploads only what does not look backed up and deletes only what has no  *)
(* file, and when main() gets to its summary every file looks backed up,   *)
(* and is, if neither the run found a bad object nor an encrypted upload   *)
(* was retried, but for the files added to a queue between its reader's    *)
(* isEmpty() and done(); after an abort, an interrupted walk or an         *)
(* overtaken pool, each thread may still finish what it does to one path   *)
(* (main.cpp:421, 561-611, 676-697, uploader.cpp:216-252).                 *)
Abstract == INSTANCE Backup WITH
    Obsolete <- RemoteOnly, Retries <- "500" \in Faults,
    objects <- stored, left <- missed \cap File,
    state <- CASE aborted \/ Threw \/ Overtaken -> "impaired"
               [] main \in Unwinding /\ ~ (aborted \/ Threw \/ Overtaken) -> "complete"
               [] OTHER -> "running"

ImplementsBackup == Abstract!Spec

(* The order in which main()'s objects go makes a worker meet its engine's *)
(* destructor only with work the run no longer needs: the local engine's   *)
(* workers never do, and the remote engine's only over an asset nobody     *)
(* waits for, one without an object or one the updater missed; an abort or *)
(* an overtaken pool apart (process.cpp:36-39, main.cpp:823-842).          *)
UnwoundInOrder ==
    aborted \/ Overtaken \/
    /\ ~ Local!Terminated
    /\ \A w \in RemoteWorker :
          rPc[w] = "pure" => rHand[w] \notin Listed \/ rHand[w] \in missed

(* Once the program aborts, no thread begins more than one upload or       *)
(* deletion: each loop reads the flag after every item, and the retry      *)
(* reads it too (main.cpp:586, 604, 695).                                  *)
AbortIsPrompt == \A t \in DOMAIN late : late[t] <= 1

(* Each engine, among the pipeline's other threads, is a ProcessEngine: the *)
(* parser feeds it as a producer does, the updater takes from its queue as  *)
(* a consumer does, so what holds of a ProcessEngine holds of it            *)
(* (main.cpp:94-105, 349-413).                                              *)
LocalImplements  == Local!Safety
RemoteImplements == Remote!Safety

(* The program ends: no thread waits for ever on a queue, a lock or a      *)
(* remote answer it will not get, and an abort ends it wherever each of    *)
(* its threads then is.  If a thread pool was overtaken while it started,  *)
(* only an abort need end the program; if the parser threw, not even that: *)
(* a worker that has not read the flag when its engine's destructor begins *)
(* no longer hears of it, and the queues are never done (main.cpp:115-122, *)
(* 469, 604, 695, 842-861, process.cpp:60, 69).                            *)
Terminates ==
    <>[](main = "exit" \/ Terminated \/ Threw \/ (Overtaken /\ ~ aborted))

(* "consume localMd5Done and feed todo queue" (main.cpp:826): a run that   *)
(* ends well leaves no file behind in either queue.                        *)
NothingLeftBehind ==
    main \in Unwinding /\ ~ aborted /\ ~ Threw /\ ~ Overtaken =>
        \A f \in File : Abstract!Good(f)

(* "as the source parser ended, we can check for destination files to be   *)
(* deleted" (main.cpp:844-845): the deleter deletes nothing whose file is  *)
(* in the source.                                                          *)
DeletesOnlyMissing ==
    [][\A f \in File : stored'[f] = "absent" => stored[f] = "absent"]_vars
=============================================================================

-------------------------- MODULE BackupPipelineProofs --------------------------
(***************************************************************************)
(* Proofs about BackupPipeline, for any source folder, container, options, *)
(* faults and thread pools.  The two engines are shown to be               *)
(* ProcessEngines first, so that what ProcessEngineProofs proves of an     *)
(* engine among any producer, consumer and aborts holds of each of them    *)
(* here; the rest of the argument speaks of what the other threads do with *)
(* the engines' queues.                                                    *)
(***************************************************************************)
EXTENDS BackupPipeline, TQueueProofs, FiniteSetTheorems

LocalP == INSTANCE ProcessEngineProofs WITH
    Worker <- LocalWorker, src <- localQ, dst <- localDoneQ,
    pc <- lPc, hand <- lHand, pushed <- lPushed, doneCount <- lCount,
    overtaken <- lOver, derived <- LocalDerived, fed <- localFed, taken <- localTaken

RemoteP == INSTANCE ProcessEngineProofs WITH
    Worker <- RemoteWorker, src <- remoteQ, dst <- remoteDoneQ,
    pc <- rPc, hand <- rHand, pushed <- rPushed, doneCount <- rCount,
    overtaken <- rOver, derived <- RemoteDerived, fed <- remoteFed, taken <- {}

\* How far main() and the parser are.
Starting  == {"startParser", "startLocal", "startRemote", "startUpdater", "startSync"}
Walking   == {"off", "test", "visit", "addRemote"}

(* Who holds a mutex, who has raised a flag, which pool is complete.       *)
FlagInv ==
    /\ ~ localQ.locked /\ ~ remoteQ.locked /\ ~ remoteDoneQ.locked
    /\ localDoneQ.locked <=> updater.pc = "scan"
    /\ parser = "off" <=> main = "startParser"
    /\ parser = "off" =>
           /\ localQ = NewQueue /\ remoteQ = NewQueue
           /\ \A w \in LocalWorker : lPc[w] = "off"
           /\ \A w \in RemoteWorker : rPc[w] = "off"
    /\ main \in Starting \ {"startSync"} => updater.pc = "off"
    /\ parser \in Walking \cup {"doneLocal"} => ~ localQ.done
    /\ parser \in Walking \cup {"doneLocal", "doneRemote"} => ~ remoteQ.done
    /\ main \notin {"startParser", "startLocal"} => lPushed = Cardinality(LocalWorker)
    /\ main \notin {"startParser", "startLocal", "startRemote"} =>
           rPushed = Cardinality(RemoteWorker)
    /\ main \in Starting \cup Unwinding \cup {"waitParser", "wait"}
    /\ remoteFed \subseteq localFed /\ localFed \subseteq Asset
    /\ updater \in [pc : UPC, at : Nat \ {0}, hand : File \cup {NoAsset}]

-----------------------------------------------------------------------------
(* The steps, and what each thread leaves alone.                           *)
LEMMA Steps ==
    ASSUME [Next]_vars
    PROVE  \/ Main \/ Parser
           \/ \E w \in LocalWorker : LocalEngine(w)
           \/ \E w \in RemoteWorker : RemoteEngine(w)
           \/ Updater
           \/ \E u \in Uploader : Synchronizer(u)
           \/ Deleter \/ UNCHANGED vars
BY DEF Next, Ended

LEMMA StutterFrame ==
    ASSUME UNCHANGED vars
    PROVE  UNCHANGED <<main, aborted, localQ, localDoneQ, remoteQ, remoteDoneQ, todoQ,
               parser, localFed, remoteFed, lPc, lHand, lPushed, lCount, lOver,
               rPc, rHand, rPushed, rCount, rOver, srcHash, meta, dstHash, status,
               updater, localTaken, sync, deleter, counter, before, stored, late, missed>>
BY DEF vars, queues, parserV, localV, remoteV, assetV, updaterV, workV

LEMMA ParserFrame ==
    ASSUME Parser
    PROVE  UNCHANGED <<main, aborted, localDoneQ, remoteDoneQ, todoQ,
               lPc, lHand, lPushed, lCount, lOver,
               rPc, rHand, rPushed, rCount, rOver, srcHash, meta, dstHash, status,
               updater, localTaken, sync, deleter, counter, before, stored, late, missed>>
BY DEF Parser, parserRest, localV, remoteV, assetV, updaterV, workV

LEMMA LocalFrame ==
    ASSUME NEW w \in LocalWorker, LocalEngine(w)
    PROVE  UNCHANGED <<main, remoteQ, remoteDoneQ, todoQ, parser, localFed, remoteFed,
               rPc, rHand, rPushed, rCount, rOver, meta, dstHash, status,
               updater, localTaken, sync, deleter, counter, before, stored, late, missed>>
BY DEF LocalEngine, localRest, parserV, remoteV, updaterV, workV

LEMMA RemoteFrame ==
    ASSUME NEW w \in RemoteWorker, RemoteEngine(w)
    PROVE  UNCHANGED <<main, localQ, localDoneQ, todoQ, parser, localFed, remoteFed,
               lPc, lHand, lPushed, lCount, lOver, srcHash, status,
               updater, localTaken, sync, deleter, counter, before, stored, late, missed>>
BY DEF RemoteEngine, remoteRest, parserV, localV, updaterV, workV

LEMMA UpdaterFrame ==
    ASSUME Updater
    PROVE  UNCHANGED <<main, aborted, localQ, remoteQ, remoteDoneQ, parser, localFed, remoteFed,
               lPc, lHand, lPushed, lCount, lOver,
               rPc, rHand, rPushed, rCount, rOver, srcHash, meta, dstHash,
               sync, deleter, counter, before, stored, late>>
BY DEF Updater, updaterRest, parserV, localV, remoteV

LEMMA SyncFrame ==
    ASSUME NEW u \in Uploader, Synchronizer(u)
    PROVE  UNCHANGED <<main, localQ, localDoneQ, remoteQ, remoteDoneQ,
               parser, localFed, remoteFed, lPc, lHand, lPushed, lCount, lOver,
               rPc, rHand, rPushed, rCount, rOver, srcHash, meta, dstHash, status,
               updater, localTaken, deleter, before>>
BY DEF Synchronizer, syncRest, parserV, localV, remoteV, assetV, updaterV

LEMMA DeleterFrame ==
    ASSUME Deleter
    PROVE  UNCHANGED <<main, localQ, localDoneQ, remoteQ, remoteDoneQ, todoQ,
               parser, localFed, remoteFed, lPc, lHand, lPushed, lCount, lOver,
               rPc, rHand, rPushed, rCount, rOver, srcHash, meta, dstHash, status,
               updater, localTaken, sync, before, missed>>
BY DEF Deleter, deleterRest, queues, parserV, localV, remoteV, assetV, updaterV

(* main()'s later steps touch no queue, no engine and no object.           *)
LEMMA MainFrame ==
    ASSUME Main
    PROVE  /\ UNCHANGED <<aborted, todoQ, localFed, remoteFed, srcHash, meta, dstHash, status,
                 localTaken, counter, before, stored, late, missed>>
           /\ ~ StartParser => UNCHANGED <<parser, localQ, remoteQ>>
           /\ ~ StartLocal => UNCHANGED <<localDoneQ, lPc, lHand, lPushed, lCount, lOver>>
           /\ ~ StartRemote => UNCHANGED <<remoteDoneQ, rPc, rHand, rPushed, rCount, rOver>>
           /\ ~ StartUpdater => updater' = updater
           /\ ~ (\E u \in Uploader : StartSync(u)) => sync' = sync
           /\ ~ StartDeleter => deleter' = deleter
<1> USE DEF queues, parserV, localV, remoteV, assetV, updaterV, workV, mainRest
<1>1. CASE StartParser
  BY <1>1 DEF StartParser, StartLocal, StartRemote
<1>2. CASE StartLocal
  BY <1>2 DEF StartParser, StartLocal, Local!Start, Local!Push, Local!Create
<1>3. CASE StartRemote
  BY <1>3 DEF StartParser, StartRemote, Remote!Start, Remote!Push, Remote!Create
<1>4. CASE StartUpdater \/ StartDeleter \/ Summary \/ Unwind
           \/ \E u \in Uploader : StartSync(u)
  BY <1>4 DEF StartUpdater, StartDeleter, Summary, Unwind, StartSync
<1> QED
  BY <1>1, <1>2, <1>3, <1>4 DEF Main

-----------------------------------------------------------------------------
(* What ProcessEngineProofs says of the two engines, in the pipeline's own *)
(* words: the types, and the workers' hands.                               *)
Engines == LocalP!Book /\ RemoteP!Book

LEMMA PoolAssumptions ==
    /\ LocalP!WorkerAssumption /\ LocalP!NoAssetAssumption
    /\ RemoteP!WorkerAssumption /\ RemoteP!NoAssetAssumption
    /\ NoAsset \notin Asset
<1>1. /\ IsFiniteSet(LocalWorker) /\ LocalWorker # {}
      /\ IsFiniteSet(RemoteWorker) /\ RemoteWorker # {} /\ NoAsset \notin Asset
  BY PipelineAssumption DEF Asset
<1>2. LocalP!WorkerAssumption /\ RemoteP!WorkerAssumption
  BY <1>1 DEF LocalP!WorkerAssumption, IsFiniteSet, LocalP!IsFiniteSet,
              RemoteP!WorkerAssumption, RemoteP!IsFiniteSet
<1>3. LocalP!NoAssetAssumption /\ RemoteP!NoAssetAssumption
  BY <1>1 DEF LocalP!NoAssetAssumption, RemoteP!NoAssetAssumption
<1> QED
  BY <1>1, <1>2, <1>3

LEMMA EngineTypes ==
    ASSUME Engines
    PROVE  /\ localQ \in QueueOf(Asset) /\ localDoneQ \in QueueOf(Asset)
           /\ remoteQ \in QueueOf(Asset) /\ remoteDoneQ \in QueueOf(Asset)
           /\ lPc \in [LocalWorker -> Local!PC] /\ rPc \in [RemoteWorker -> Remote!PC]
           /\ lHand \in [LocalWorker -> Asset \cup {NoAsset}]
           /\ rHand \in [RemoteWorker -> Asset \cup {NoAsset}]
           /\ aborted \in BOOLEAN /\ lOver \in BOOLEAN /\ rOver \in BOOLEAN
           /\ localFed \in SUBSET Asset /\ remoteFed \in SUBSET Asset
           /\ localTaken \in SUBSET Asset
BY DEF Engines, LocalP!Book, LocalP!TypeOK, LocalP!QueueOf, LocalP!PC, Local!PC,
       RemoteP!Book, RemoteP!TypeOK, RemoteP!QueueOf, RemoteP!PC, Remote!PC, QueueOf

(* A worker that processes or adds an asset holds one; it holds none when  *)
(* it reads a flag or a queue.                                             *)
LEMMA HandFacts ==
    ASSUME Engines
    PROVE  /\ \A w \in LocalWorker :
                  /\ lPc[w] \in {"process", "add"} => lHand[w] \in Asset
                  /\ lPc[w] \in {"off", "while", "isEmpty", "get", "abort"} => lHand[w] = NoAsset
           /\ \A w \in RemoteWorker :
                  /\ rPc[w] \in {"process", "add"} => rHand[w] \in Asset
                  /\ rPc[w] \in {"off", "while", "isEmpty", "get", "abort"} => rHand[w] = NoAsset
<1>1. LocalP!HandInv /\ RemoteP!HandInv
  BY DEF Engines, LocalP!Book, RemoteP!Book
<1> QED
  BY <1>1, EngineTypes DEF LocalP!HandInv, LocalP!LeftPC, LocalP!EndedPC,
     RemoteP!HandInv, RemoteP!LeftPC, RemoteP!EndedPC

(* The two ways to write an engine's step are one.                         *)
LEMMA SameLocal == [Local!Next]_(Local!vars) => [LocalP!Next]_(LocalP!vars)
<1>1. Local!Next => LocalP!Next
  BY Zenon DEF Local!Next, LocalP!Next, Local!Start, LocalP!Start, Local!Step, LocalP!Step,
               Local!Loop, LocalP!Loop, Local!Push, LocalP!Push, Local!Create, LocalP!Create,
               Local!Started, LocalP!Started, Local!ReadDone, LocalP!ReadDone,
               Local!ReadEmpty, LocalP!ReadEmpty, Local!Get, LocalP!Get,
               Local!GetNothing, LocalP!GetNothing, Local!Processed, LocalP!Processed,
               Local!Refused, LocalP!Refused, Local!HandOn, LocalP!HandOn,
               Local!ReadAbort, LocalP!ReadAbort, Local!Count, LocalP!Count,
               Local!Compare, LocalP!Compare, Local!RaiseDone, LocalP!RaiseDone,
               Local!Goto, LocalP!Goto, Local!Environment, LocalP!Environment,
               Local!Feed, LocalP!Feed, Local!Close, LocalP!Close,
               Local!AbortElsewhere, LocalP!AbortElsewhere, Local!LockDst, LocalP!LockDst,
               Local!UnlockDst, LocalP!UnlockDst, Local!Take, LocalP!Take,
               Local!Destroy, LocalP!Destroy, Local!Free, LocalP!Free,
               Local!IsEmpty, LocalP!IsEmpty, Local!Front, LocalP!Front, Local!Pop, LocalP!Pop,
               Local!Add, LocalP!Add, Local!Erase, LocalP!Erase, Local!SetDone, LocalP!SetDone,
               Local!ResetDone, LocalP!ResetDone, Local!Lock, LocalP!Lock,
               Local!Unlock, LocalP!Unlock, Local!Cardinality, LocalP!Cardinality
<1>2. UNCHANGED Local!vars => UNCHANGED LocalP!vars
  BY DEF Local!vars, LocalP!vars
<1> QED
  BY <1>1, <1>2

LEMMA SameRemote == [Remote!Next]_(Remote!vars) => [RemoteP!Next]_(RemoteP!vars)
<1>1. Remote!Next => RemoteP!Next
  BY Zenon DEF Remote!Next, RemoteP!Next, Remote!Start, RemoteP!Start,
               Remote!Step, RemoteP!Step, Remote!Loop, RemoteP!Loop, Remote!Push, RemoteP!Push,
               Remote!Create, RemoteP!Create, Remote!Started, RemoteP!Started,
               Remote!ReadDone, RemoteP!ReadDone, Remote!ReadEmpty, RemoteP!ReadEmpty,
               Remote!Get, RemoteP!Get, Remote!GetNothing, RemoteP!GetNothing,
               Remote!Processed, RemoteP!Processed, Remote!Refused, RemoteP!Refused,
               Remote!HandOn, RemoteP!HandOn, Remote!ReadAbort, RemoteP!ReadAbort,
               Remote!Count, RemoteP!Count, Remote!Compare, RemoteP!Compare,
               Remote!RaiseDone, RemoteP!RaiseDone, Remote!Goto, RemoteP!Goto,
               Remote!Environment, RemoteP!Environment, Remote!Feed, RemoteP!Feed,
               Remote!Close, RemoteP!Close, Remote!AbortElsewhere, RemoteP!AbortElsewhere,
               Remote!LockDst, RemoteP!LockDst, Remote!UnlockDst, RemoteP!UnlockDst,
               Remote!Take, RemoteP!Take, Remote!Destroy, RemoteP!Destroy,
               Remote!Free, RemoteP!Free, Remote!IsEmpty, RemoteP!IsEmpty,
               Remote!Front, RemoteP!Front, Remote!Pop, RemoteP!Pop, Remote!Add, RemoteP!Add,
               Remote!Erase, RemoteP!Erase, Remote!SetDone, RemoteP!SetDone,
               Remote!ResetDone, RemoteP!ResetDone, Remote!Lock, RemoteP!Lock,
               Remote!Unlock, RemoteP!Unlock, Remote!Cardinality, RemoteP!Cardinality
<1>2. UNCHANGED Remote!vars => UNCHANGED RemoteP!vars
  BY DEF Remote!vars, RemoteP!vars
<1> QED
  BY <1>1, <1>2

(* Each step of the pipeline is one of the local engine's, of its          *)
(* environment or neither: the parser feeds and closes its source queue,   *)
(* the updater locks, takes from and unlocks its destination queue, the    *)
(* others only abort the program, and main() destroys it                   *)
(* (main.cpp:94-105, 349-413).                                             *)
LEMMA LocalStep ==
    ASSUME FlagInv, Engines, [Next]_vars
    PROVE  [Local!Next]_(Local!vars)
<1> USE EngineTypes DEF QueueOf
<1> USE DEF Local!vars, LocalDerived, Unwinding
<1>1. CASE Main
  <2>1. CASE StartParser
    <3>1. localQ' = localQ /\ LocalDerived' = LocalDerived
      BY <2>1 DEF StartParser, FlagInv, NewQueue, ResetDone
    <3> QED
      BY <3>1, <2>1 DEF StartParser, localV, updaterV
  <2>2. CASE StartLocal
    <3>1. Local!Start /\ UNCHANGED <<localFed, localTaken>>
      BY <2>2 DEF StartLocal, parserV, updaterV
    <3> QED
      BY <3>1 DEF Local!Next
  <2>3. CASE StartRemote
    <3>1. aborted' = aborted /\ LocalDerived' = LocalDerived
      BY <2>3 DEF StartRemote, Remote!Start, Remote!Push, Remote!Create
    <3> QED
      BY <2>3, <3>1 DEF StartRemote, parserV, localV, updaterV
  <2>4. CASE Unwind
    <3>1. UNCHANGED <<aborted, localQ, localDoneQ, localFed, lPc, lHand, lPushed, lCount,
                      lOver, localTaken>>
      BY <2>4 DEF Unwind, mainRest, queues, parserV, localV
    <3>2. CASE main = "unwindUpdater"
      <4>1. LocalDerived /\ ~ LocalDerived' /\ lPushed = Cardinality(LocalWorker)
        BY <2>4, <3>2 DEF Unwind, Joined, FlagInv
      <4>2. Local!Cardinality(LocalWorker) = Cardinality(LocalWorker)
        BY DEF Cardinality, Local!Cardinality
      <4>3. Local!Destroy
        BY <3>1, <4>1, <4>2 DEF Local!Destroy
      <4> QED
        BY <4>3 DEF Local!Next, Local!Environment
    <3>3. CASE main # "unwindUpdater"
      BY <2>4, <3>1, <3>3 DEF Unwind, Joined
    <3> QED
      BY <3>2, <3>3
  <2>5. CASE StartUpdater \/ StartDeleter \/ Summary \/ \E u \in Uploader : StartSync(u)
    <3>1. UNCHANGED mainRest
      BY <2>5 DEF StartUpdater, StartDeleter, Summary, StartSync
    <3>2. LocalDerived' = LocalDerived
      BY <2>5 DEF StartUpdater, StartDeleter, Summary, StartSync
    <3> QED
      BY <3>1, <3>2 DEF mainRest, queues, parserV, localV
  <2> QED
    BY <1>1, <2>1, <2>2, <2>3, <2>4, <2>5 DEF Main
<1>2. CASE Parser
  <2>1. LocalDerived' = LocalDerived
    BY <1>2, ParserFrame
  <2>2. ASSUME NEW p \in Asset, Visit(p)
        PROVE  Local!Feed(p)
    BY <1>2, <2>1, <2>2, ParserFrame DEF Visit, FlagInv, Walking, Add, Local!Feed, Local!Free, Local!Add
  <2>3. CASE DoneLocal
    <3>1. Local!Close
      BY <1>2, <2>1, <2>3, ParserFrame DEF DoneLocal, FlagInv, Walking, SetDone, Local!Close, Local!SetDone
    <3> QED
      BY <3>1 DEF Local!Next, Local!Environment
  <2>4. CASE ReadAbort \/ Throw \/ DoneRemote \/ \E p \in Asset : VisitRemote(p)
    BY <1>2, <2>1, <2>4, ParserFrame DEF ReadAbort, Throw, DoneRemote, VisitRemote
  <2> QED
    BY <1>2, <2>2, <2>3, <2>4 DEF Parser, Local!Next, Local!Environment
<1>3. ASSUME NEW w \in LocalWorker, LocalEngine(w)
      PROVE  [Local!Next]_(Local!vars)
  <2>1. Local!Step(w)
    BY <1>3 DEF LocalEngine, HashLocal, RefuseLocal, Local!Step
  <2> QED
    BY <1>3, <2>1, LocalFrame DEF Local!Next
<1>4. ASSUME aborted' \in {aborted, TRUE},
             UNCHANGED <<main, localQ, localDoneQ, lPc, lHand, lPushed, lCount, lOver,
                         localFed, localTaken>>
      PROVE  [Local!Next]_(Local!vars)
  <2>1. LocalDerived' = LocalDerived
    BY <1>4
  <2> QED
    BY <1>4, <2>1 DEF Local!Next, Local!Environment, Local!AbortElsewhere
<1>5. ASSUME NEW w \in RemoteWorker, RemoteEngine(w)
      PROVE  [Local!Next]_(Local!vars)
  <2>1. aborted' \in {aborted, TRUE}
    BY <1>5 DEF RemoteEngine, SetMeta, SetDstHash, RefuseRemote, Remote!Loop, Remote!ReadDone,
       Remote!ReadEmpty, Remote!Get, Remote!GetNothing, Remote!HandOn, Remote!ReadAbort, Remote!Count,
       Remote!Compare, Remote!RaiseDone, Remote!Processed, Remote!Refused
  <2> QED
    BY <2>1, <1>4, <1>5, RemoteFrame
<1>6. CASE Updater
  <2>1. LocalDerived' = LocalDerived
    BY <1>6, UpdaterFrame
  <2>2. CASE ULock
    <3>1. Local!LockDst
      BY <1>6, <2>1, <2>2, UpdaterFrame DEF ULock, Free, Lock, Local!LockDst, Local!Free, Local!Lock
    <3> QED
      BY <3>1 DEF Local!Next, Local!Environment
  <2>3. CASE FoundNothing
    <3>1. Local!UnlockDst
      BY <1>6, <2>1, <2>3, UpdaterFrame DEF FoundNothing, FlagInv, Unlock, Local!UnlockDst, Local!Unlock
    <3> QED
      BY <3>1 DEF Local!Next, Local!Environment
  <2>4. CASE Pick
    <3>1. updater.at \in 1 .. Len(localDoneQ.items)
      BY <2>4 DEF Pick, More, FlagInv
    <3>2. Local!Take(updater.at)
      BY <1>6, <2>1, <2>4, <3>1, UpdaterFrame DEF Pick, FlagInv, Scanned, WithoutScanned, Erase, Unlock,
         Local!Take, Local!Erase, Local!Unlock
    <3> QED
      BY <3>1, <3>2 DEF Local!Next, Local!Environment
  <2>5. CASE UReadEmpty \/ UReadDone \/ Skip \/ Classify \/ UReadAbort \/ URaiseDone
    BY <1>6, <2>1, <2>5, UpdaterFrame DEF UReadEmpty, UReadDone, Skip, Classify, UReadAbort, URaiseDone
  <2> QED
    BY <1>6, <2>2, <2>3, <2>4, <2>5 DEF Updater
<1>7. ASSUME NEW u \in Uploader, Synchronizer(u)
      PROVE  [Local!Next]_(Local!vars)
  <2>1. aborted' \in {aborted, TRUE}
    BY <1>7 DEF Synchronizer, SReadEmpty, SReadDone, SGet, SGetNothing, SUpToDate, BeginUpload,
       UploadOk, UploadAgain, Retry, UploadFails, SReadAbort
  <2> QED
    BY <2>1, <1>4, <1>7, SyncFrame
<1>8. CASE Deleter
  <2>1. aborted' \in {aborted, TRUE}
    BY <1>8 DEF Deleter, DReadAbort, DEnd, Keep, Delete, DeleteFails
  <2> QED
    BY <2>1, <1>4, <1>8, DeleterFrame
<1>9. CASE UNCHANGED vars
  BY <1>4, <1>9, StutterFrame
<1> QED
  BY <1>1, <1>2, <1>3, <1>5, <1>6, <1>7, <1>8, <1>9, Steps

(* And each is one of the remote engine's, of its environment or neither;  *)
(* nobody reads its destination queue (main.cpp:98, 104).                  *)
LEMMA RemoteStep ==
    ASSUME FlagInv, Engines, [Next]_vars
    PROVE  [Remote!Next]_(Remote!vars)
<1> USE EngineTypes DEF QueueOf
<1> USE DEF Remote!vars, RemoteDerived, Unwinding
<1>1. CASE Main
  <2>1. CASE StartParser
    <3>1. remoteQ' = remoteQ /\ RemoteDerived' = RemoteDerived
      BY <2>1 DEF StartParser, FlagInv, NewQueue, ResetDone
    <3> QED
      BY <3>1, <2>1 DEF StartParser, remoteV
  <2>2. CASE StartRemote
    <3>1. Remote!Start /\ UNCHANGED remoteFed
      BY <2>2 DEF StartRemote, parserV
    <3> QED
      BY <3>1 DEF Remote!Next
  <2>3. CASE StartLocal
    <3>1. aborted' = aborted /\ RemoteDerived' = RemoteDerived
      BY <2>3 DEF StartLocal, Local!Start, Local!Push, Local!Create
    <3> QED
      BY <2>3, <3>1 DEF StartLocal, parserV, remoteV
  <2>4. CASE Summary
    <3>1. UNCHANGED <<aborted, remoteQ, remoteDoneQ, remoteFed, rPc, rHand, rPushed, rCount, rOver>>
      BY <2>4 DEF Summary, mainRest, queues, parserV, remoteV
    <3>2. RemoteDerived /\ ~ RemoteDerived' /\ rPushed = Cardinality(RemoteWorker)
      BY <2>4 DEF Summary, FlagInv
    <3>3. Remote!Cardinality(RemoteWorker) = Cardinality(RemoteWorker)
      BY DEF Cardinality, Remote!Cardinality
    <3>4. Remote!Destroy
      BY <3>1, <3>2, <3>3 DEF Remote!Destroy
    <3> QED
      BY <3>4 DEF Remote!Next, Remote!Environment
  <2>5. CASE StartUpdater \/ StartDeleter \/ Unwind \/ \E u \in Uploader : StartSync(u)
    <3>1. UNCHANGED mainRest
      BY <2>5 DEF StartUpdater, StartDeleter, Unwind, StartSync
    <3>2. RemoteDerived' = RemoteDerived
      BY <2>5 DEF StartUpdater, StartDeleter, Unwind, Joined, StartSync
    <3> QED
      BY <3>1, <3>2 DEF mainRest, queues, parserV, remoteV
  <2> QED
    BY <1>1, <2>1, <2>2, <2>3, <2>4, <2>5 DEF Main
<1>2. CASE Parser
  <2>1. RemoteDerived' = RemoteDerived
    BY <1>2, ParserFrame
  <2>2. ASSUME NEW p \in Asset, VisitRemote(p)
        PROVE  Remote!Feed(p)
    BY <1>2, <2>1, <2>2, ParserFrame DEF VisitRemote, FlagInv, Walking, Add, Remote!Feed,
       Remote!Free, Remote!Add
  <2>3. CASE DoneRemote
    <3>1. Remote!Close
      BY <1>2, <2>1, <2>3, ParserFrame DEF DoneRemote, FlagInv, Walking, SetDone, Remote!Close,
         Remote!SetDone
    <3> QED
      BY <3>1 DEF Remote!Next, Remote!Environment
  <2>4. CASE ReadAbort \/ Throw \/ DoneLocal \/ \E p \in Asset : Visit(p)
    BY <1>2, <2>1, <2>4, ParserFrame DEF ReadAbort, Throw, DoneLocal, Visit
  <2> QED
    BY <1>2, <2>2, <2>3, <2>4 DEF Parser, Remote!Next, Remote!Environment
<1>3. ASSUME NEW w \in RemoteWorker, RemoteEngine(w)
      PROVE  [Remote!Next]_(Remote!vars)
  <2>1. CASE SetMeta(w)
    <3>1. UNCHANGED <<main, aborted, remoteQ, remoteDoneQ, rPc, rHand, rPushed, rCount, rOver, remoteFed>>
      BY <1>3, <2>1, RemoteFrame DEF SetMeta, remoteV
    <3>2. RemoteDerived' = RemoteDerived
      BY <3>1
    <3> QED
      BY <3>1, <3>2
  <2>2. CASE ~ SetMeta(w)
    <3>1. Remote!Step(w)
      BY <1>3, <2>2 DEF RemoteEngine, SetDstHash, RefuseRemote, Remote!Step
    <3> QED
      BY <1>3, <3>1, RemoteFrame DEF Remote!Next
  <2> QED
    BY <2>1, <2>2
<1>4. ASSUME aborted' \in {aborted, TRUE},
             UNCHANGED <<main, remoteQ, remoteDoneQ, rPc, rHand, rPushed, rCount, rOver, remoteFed>>
      PROVE  [Remote!Next]_(Remote!vars)
  <2>1. RemoteDerived' = RemoteDerived
    BY <1>4
  <2> QED
    BY <1>4, <2>1 DEF Remote!Next, Remote!Environment, Remote!AbortElsewhere
<1>5. ASSUME NEW w \in LocalWorker, LocalEngine(w)
      PROVE  [Remote!Next]_(Remote!vars)
  <2>1. aborted' \in {aborted, TRUE}
    BY <1>5 DEF LocalEngine, HashLocal, RefuseLocal, Local!Loop, Local!ReadDone, Local!ReadEmpty,
       Local!Get, Local!GetNothing, Local!HandOn, Local!ReadAbort, Local!Count, Local!Compare,
       Local!RaiseDone, Local!Processed, Local!Refused
  <2> QED
    BY <2>1, <1>4, <1>5, LocalFrame
<1>6. CASE Updater
  BY <1>4, <1>6, UpdaterFrame
<1>7. ASSUME NEW u \in Uploader, Synchronizer(u)
      PROVE  [Remote!Next]_(Remote!vars)
  <2>1. aborted' \in {aborted, TRUE}
    BY <1>7 DEF Synchronizer, SReadEmpty, SReadDone, SGet, SGetNothing, SUpToDate, BeginUpload,
       UploadOk, UploadAgain, Retry, UploadFails, SReadAbort
  <2> QED
    BY <2>1, <1>4, <1>7, SyncFrame
<1>8. CASE Deleter
  <2>1. aborted' \in {aborted, TRUE}
    BY <1>8 DEF Deleter, DReadAbort, DEnd, Keep, Delete, DeleteFails
  <2> QED
    BY <2>1, <1>4, <1>8, DeleterFrame
<1>9. CASE UNCHANGED vars
  BY <1>4, <1>9, StutterFrame
<1> QED
  BY <1>1, <1>2, <1>3, <1>5, <1>6, <1>7, <1>8, <1>9, Steps

(* A worker touches the queues as these steps do, and no flag but its      *)
(* destination's.                                                          *)
LEMMA WorkerFlags ==
    ASSUME Engines
    PROVE  /\ \A w \in LocalWorker : LocalEngine(w) =>
                 /\ localQ'.done = localQ.done /\ localQ'.locked = localQ.locked
                 /\ localDoneQ'.locked = localDoneQ.locked /\ lPushed' = lPushed /\ lPc[w] # "off"
           /\ \A w \in RemoteWorker : RemoteEngine(w) =>
                 /\ remoteQ'.done = remoteQ.done /\ remoteQ'.locked = remoteQ.locked
                 /\ remoteDoneQ'.locked = remoteDoneQ.locked /\ rPushed' = rPushed /\ rPc[w] # "off"
<1> USE EngineTypes DEF QueueOf
<1>1. ASSUME NEW w \in LocalWorker, LocalEngine(w)
      PROVE  /\ localQ'.done = localQ.done /\ localQ'.locked = localQ.locked
             /\ localDoneQ'.locked = localDoneQ.locked /\ lPushed' = lPushed /\ lPc[w] # "off"
  BY <1>1 DEF LocalEngine, HashLocal, RefuseLocal, Local!Loop, Local!ReadDone, Local!ReadEmpty,
     Local!Get, Local!GetNothing, Local!HandOn, Local!ReadAbort, Local!Count, Local!Compare,
     Local!RaiseDone, Local!Processed, Local!Refused, Local!Pop, Local!Add, Local!SetDone, Local!Goto
<1>2. ASSUME NEW w \in RemoteWorker, RemoteEngine(w)
      PROVE  /\ remoteQ'.done = remoteQ.done /\ remoteQ'.locked = remoteQ.locked
             /\ remoteDoneQ'.locked = remoteDoneQ.locked /\ rPushed' = rPushed /\ rPc[w] # "off"
  BY <1>2 DEF RemoteEngine, SetMeta, SetDstHash, RefuseRemote, remoteV, Remote!Loop, Remote!ReadDone,
     Remote!ReadEmpty, Remote!Get, Remote!GetNothing, Remote!HandOn, Remote!ReadAbort, Remote!Count,
     Remote!Compare, Remote!RaiseDone, Remote!Processed, Remote!Refused, Remote!Pop, Remote!Add,
     Remote!SetDone, Remote!Goto
<1> QED
  BY <1>1, <1>2

(* The updater holds localDoneQ's mutex exactly while it scans, and then a *)
(* file at most (main.cpp:372-413).                                        *)
LEMMA UpdaterFacts ==
    ASSUME FlagInv, Engines, Updater
    PROVE  /\ updater' \in [pc : UPC, at : Nat \ {0}, hand : File \cup {NoAsset}]
           /\ localDoneQ'.locked <=> updater'.pc = "scan"
           /\ updater.pc # "off"
<1>0. UReadEmpty \/ UReadDone \/ ULock \/ Skip \/ Pick \/ FoundNothing
      \/ Classify \/ UReadAbort \/ URaiseDone
  BY DEF Updater
<1> USE EngineTypes DEF FlagInv, UPC
<1>1. CASE UReadEmpty \/ UReadDone \/ UReadAbort \/ URaiseDone
  <2>1. localDoneQ' = localDoneQ
    BY <1>1 DEF UReadEmpty, UReadDone, UReadAbort, URaiseDone
  <2>2. PICK to \in {"done", "lock", "setDone", "isEmpty", "exit"} :
            /\ updater' = [updater EXCEPT !.pc = to]
            /\ updater.pc \in {"isEmpty", "done", "abort", "setDone"}
    BY <1>1 DEF UReadEmpty, UReadDone, UReadAbort, URaiseDone, UGoto
  <2> QED
    BY <2>1, <2>2
<1>2. CASE ULock
  BY <1>2 DEF ULock, UGoto, Lock, QueueOf
<1>3. CASE Skip
  BY <1>3 DEF Skip
<1>4. CASE Pick
  <2>1. updater.at \in 1 .. Len(localDoneQ.items)
    BY <1>4 DEF Pick, More
  <2>2. Scanned \in Asset /\ WithoutScanned \in QueueOf(Asset)
    BY <2>1, EraseFacts, ItemsOfQueue DEF Scanned, WithoutScanned
  <2>3. updater' \in [pc : UPC, at : Nat \ {0}, hand : File \cup {NoAsset}] /\ updater'.pc # "scan"
    BY <1>4, <2>2 DEF Pick, Asset
  <2> QED
    BY <1>4, <2>2, <2>3 DEF Pick, Unlock, QueueOf
<1>5. CASE FoundNothing
  <2>1. updater' = [updater EXCEPT !.pc = "abort", !.at = 1] /\ updater.pc = "scan"
    BY <1>5 DEF FoundNothing
  <2>2. ~ localDoneQ'.locked
    BY <1>5 DEF FoundNothing, Unlock, QueueOf
  <2>3. updater' = [pc |-> "abort", at |-> 1, hand |-> updater.hand]
    BY <2>1
  <2> QED
    BY <2>1, <2>2, <2>3
<1>6. CASE Classify
  BY <1>6 DEF Classify
<1> QED
  BY <1>0, <1>1, <1>2, <1>3, <1>4, <1>5, <1>6

LEMMA FlagStep ==
    ASSUME FlagInv, Engines, [Next]_vars
    PROVE  FlagInv'
<1> USE EngineTypes DEF FlagInv, QueueOf, Walking, Starting, Unwinding
<1>1. CASE Main
  <2>1. CASE StartParser
    BY <2>1 DEF StartParser, ResetDone, NewQueue, localV, remoteV, updaterV
  <2>2. CASE StartLocal
    BY <2>2 DEF StartLocal, Local!Start, Local!Push, Local!Create, Local!ResetDone, parserV, remoteV, updaterV
  <2>3. CASE StartRemote
    BY <2>3 DEF StartRemote, Remote!Start, Remote!Push, Remote!Create, Remote!ResetDone, parserV, localV, updaterV
  <2>4. CASE StartUpdater
    <3>1. updater' = [updater EXCEPT !.pc = "isEmpty"] /\ localDoneQ' = localDoneQ /\ updater.pc # "scan"
      BY <2>4 DEF StartUpdater, mainRest, queues
    <3>2. updater' \in [pc : UPC, at : Nat \ {0}, hand : File \cup {NoAsset}] /\ updater'.pc = "isEmpty"
      BY <3>1 DEF UPC
    <3> QED
      BY <2>4, <3>1, <3>2 DEF StartUpdater, mainRest, queues, parserV, localV, remoteV
  <2>5. CASE StartDeleter \/ Summary \/ Unwind \/ \E u \in Uploader : StartSync(u)
    BY <2>5 DEF StartDeleter, Summary, Unwind, Joined, StartSync, mainRest, queues, parserV, localV, remoteV
  <2> QED
    BY <1>1, <2>1, <2>2, <2>3, <2>4, <2>5 DEF Main
<1>2. CASE Parser
  <2>1. CASE ReadAbort \/ Throw
    BY <1>2, <2>1, ParserFrame DEF ReadAbort, Throw
  <2>2. ASSUME NEW p \in Asset, Visit(p) \/ VisitRemote(p)
        PROVE  FlagInv'
    BY <1>2, <2>2, ParserFrame DEF Visit, VisitRemote, Add
  <2>3. CASE DoneLocal \/ DoneRemote
    BY <1>2, <2>3, ParserFrame DEF DoneLocal, DoneRemote, SetDone
  <2> QED
    BY <1>2, <2>1, <2>2, <2>3 DEF Parser
<1>3. ASSUME NEW w \in LocalWorker, LocalEngine(w)
      PROVE  FlagInv'
  <2>1. lPc[w] # "off"
    BY <1>3, WorkerFlags
  <2> QED
    BY <1>3, <2>1, LocalFrame, WorkerFlags
<1>4. ASSUME NEW w \in RemoteWorker, RemoteEngine(w)
      PROVE  FlagInv'
  <2>1. rPc[w] # "off"
    BY <1>4, WorkerFlags
  <2> QED
    BY <1>4, <2>1, RemoteFrame, WorkerFlags
<1>5. CASE Updater
  <2>1. updater.pc # "off"
    BY <1>5, UpdaterFacts
  <2> QED
    BY <1>5, <2>1, UpdaterFacts, UpdaterFrame
<1>6. ASSUME NEW u \in Uploader, Synchronizer(u)
      PROVE  FlagInv'
  BY <1>6, SyncFrame
<1>7. CASE Deleter
  BY <1>7, DeleterFrame
<1>8. CASE UNCHANGED vars
  BY <1>8, StutterFrame
<1> QED
  BY <1>1, <1>2, <1>3, <1>4, <1>5, <1>6, <1>7, <1>8, Steps

-----------------------------------------------------------------------------
LEMMA SameInit ==
    ASSUME Init
    PROVE  /\ Local!Init /\ LocalP!Init
           /\ Remote!Init /\ RemoteP!Init
BY DEF Init, NewQueue, Local!Init, Local!NewQueue, LocalP!Init, LocalP!NewQueue, LocalDerived,
       Remote!Init, Remote!NewQueue, RemoteP!Init, RemoteP!NewQueue, RemoteDerived, Unwinding

LEMMA FlagInvariant == Safety => [](FlagInv /\ Engines)
<1>1. Init => FlagInv /\ Engines
  <2> SUFFICES ASSUME Init PROVE FlagInv /\ Engines
    OBVIOUS
  <2>1. Engines
    BY SameInit, PoolAssumptions, LocalP!BookInit, RemoteP!BookInit DEF Engines
  <2>2. updater \in [pc : UPC, at : Nat \ {0}, hand : File \cup {NoAsset}]
    BY DEF Init, UPC
  <2> QED
    BY <2>1, <2>2 DEF Init, FlagInv, NewQueue, Starting, Walking
<1>2. FlagInv /\ Engines /\ [Next]_vars => FlagInv' /\ Engines'
  <2> SUFFICES ASSUME FlagInv, Engines, [Next]_vars PROVE FlagInv' /\ Engines'
    OBVIOUS
  <2>1. LocalP!Book'
    BY LocalStep, SameLocal, PoolAssumptions, LocalP!BookStep DEF Engines
  <2>2. RemoteP!Book'
    BY RemoteStep, SameRemote, PoolAssumptions, RemoteP!BookStep DEF Engines
  <2> QED
    BY <2>1, <2>2, FlagStep DEF Engines
<1> QED
  BY <1>1, <1>2, PTL DEF Safety

(* The local hash engine among the pipeline's other threads is a           *)
(* ProcessEngine, whatever the folder, the pools and the faults            *)
(* (main.cpp:94-105, 152-213, 349-413).                                    *)
THEOREM LocalIsEngine == Safety => LocalImplements
<1>1. Init => Local!Init
  BY SameInit
<1>2. FlagInv /\ Engines /\ [Next]_vars => [Local!Next]_(Local!vars)
  BY LocalStep
<1> QED
  BY <1>1, <1>2, FlagInvariant, PTL DEF Safety, LocalImplements, Local!Safety

(* And so is the remote metadata engine, whose results nobody takes        *)
(* (main.cpp:98, 104, 248-296).                                            *)
THEOREM RemoteIsEngine == Safety => RemoteImplements
<1>1. Init => Remote!Init
  BY SameInit
<1>2. FlagInv /\ Engines /\ [Next]_vars => [Remote!Next]_(Remote!vars)
  BY RemoteStep
<1> QED
  BY <1>1, <1>2, FlagInvariant, PTL DEF Safety, RemoteImplements, Remote!Safety

\* The assets in the hands of an engine's workers.
LocalHeld  == {lHand[w] : w \in LocalWorker} \ {NoAsset}
RemoteHeld == {rHand[w] : w \in RemoteWorker} \ {NoAsset}

(* What that gives: no asset is lost or held twice on its way to the       *)
(* updater, and a raised localDoneQ flag means that the local engine has   *)
(* nothing left to do.                                                     *)
EngineInv ==
    /\ localFed = Items(localQ) \cup LocalHeld \cup Items(localDoneQ) \cup localTaken
    /\ remoteFed = Items(remoteQ) \cup RemoteHeld \cup Items(remoteDoneQ)
    /\ Distinct(localQ) /\ Distinct(localDoneQ)
    /\ \A v, w \in LocalWorker : lHand[v] = lHand[w] /\ lHand[v] # NoAsset => v = w
    /\ Items(localQ) \cap (LocalHeld \cup Items(localDoneQ) \cup localTaken) = {}
    /\ LocalHeld \cap (Items(localDoneQ) \cup localTaken) = {}
    /\ Items(localDoneQ) \cap localTaken = {}
    /\ \A v, w \in RemoteWorker : rHand[v] = rHand[w] /\ rHand[v] # NoAsset => v = w
    /\ Items(remoteQ) \cap (RemoteHeld \cup Items(remoteDoneQ)) = {}
    /\ localDoneQ.done /\ ~ lOver =>
           /\ \A w \in LocalWorker : lPc[w] \in {"compare", "setDone", "exit"}
           /\ aborted \/ (localQ.done /\ Items(localQ) = {} /\ LocalHeld = {})

LEMMA EngineInvariant == Safety => [](FlagInv /\ Engines /\ EngineInv)
<1>1. Safety => LocalP!Safety
  <2>1. LocalImplements => LocalP!Safety
    <3>1. Init => LocalP!Init
      BY SameInit
    <3>2. [Local!Next]_(Local!vars) => [LocalP!Next]_(LocalP!vars)
      BY SameLocal
    <3>3. Local!Init => LocalP!Init
      BY DEF Local!Init, Local!NewQueue, LocalP!Init, LocalP!NewQueue
    <3> QED
      BY <3>2, <3>3, PTL DEF LocalImplements, Local!Safety, LocalP!Safety
  <2> QED
    BY <2>1, LocalIsEngine, PTL
<1>2. Safety => RemoteP!Safety
  <2>1. RemoteImplements => RemoteP!Safety
    <3>2. [Remote!Next]_(Remote!vars) => [RemoteP!Next]_(RemoteP!vars)
      BY SameRemote
    <3>3. Remote!Init => RemoteP!Init
      BY DEF Remote!Init, Remote!NewQueue, RemoteP!Init, RemoteP!NewQueue
    <3> QED
      BY <3>2, <3>3, PTL DEF RemoteImplements, Remote!Safety, RemoteP!Safety
  <2> QED
    BY <2>1, RemoteIsEngine, PTL
<1>3. Safety => [](LocalP!NoLoss /\ LocalP!OneOwner /\ LocalP!DoneMeansDrained)
  <2>1. /\ LocalP!Safety => []LocalP!NoLoss
        /\ LocalP!Safety => []LocalP!OneOwner
        /\ LocalP!Safety => []LocalP!DoneMeansDrained
    BY PoolAssumptions, LocalP!NothingLost, LocalP!ProcessedOnce, LocalP!FlagMeansDrained
  <2> QED
    BY <1>1, <2>1, PTL
<1>4. Safety => [](RemoteP!NoLoss /\ RemoteP!OneOwner)
  <2>1. /\ RemoteP!Safety => []RemoteP!NoLoss
        /\ RemoteP!Safety => []RemoteP!OneOwner
    BY PoolAssumptions, RemoteP!NothingLost, RemoteP!ProcessedOnce
  <2> QED
    BY <1>2, <2>1, PTL
<1>5. /\ LocalP!NoLoss /\ LocalP!OneOwner /\ LocalP!DoneMeansDrained
      /\ RemoteP!NoLoss /\ RemoteP!OneOwner /\ FlagInv /\ Engines
      => EngineInv
  <2> SUFFICES ASSUME LocalP!NoLoss, LocalP!OneOwner, LocalP!DoneMeansDrained,
                      RemoteP!NoLoss, RemoteP!OneOwner, Engines
               PROVE  EngineInv
    OBVIOUS
  <2>1. /\ LocalP!Items(localQ) = Items(localQ) /\ LocalP!Items(localDoneQ) = Items(localDoneQ)
        /\ RemoteP!Items(remoteQ) = Items(remoteQ)
        /\ RemoteP!Items(remoteDoneQ) = Items(remoteDoneQ)
    BY DEF LocalP!Items, RemoteP!Items, Items, LocalP!Range, RemoteP!Range, Range
  <2>2. LocalP!InHand = LocalHeld /\ RemoteP!InHand = RemoteHeld
    BY DEF LocalP!InHand, RemoteP!InHand, LocalHeld, RemoteHeld
  <2>3. Distinct(localQ) /\ Distinct(localDoneQ)
    BY DEF LocalP!OneOwner, LocalP!Distinct, Distinct
  <2>4. localDoneQ.done /\ ~ lOver =>
           /\ \A w \in LocalWorker : lPc[w] \in {"compare", "setDone", "exit"}
           /\ aborted \/ (localQ.done /\ Items(localQ) = {} /\ LocalHeld = {})
    BY <2>2, EngineTypes, ItemsOfQueue DEF LocalP!DoneMeansDrained, LocalP!Ended, LocalP!IsEmpty, IsEmpty
  <2> QED
    BY <2>1, <2>2, <2>3, <2>4 DEF EngineInv, LocalP!NoLoss, LocalP!OneOwner, RemoteP!NoLoss, RemoteP!OneOwner
<1> QED
  BY <1>3, <1>4, <1>5, FlagInvariant, PTL

-----------------------------------------------------------------------------
(* The rest of the types.                                                  *)
SyncOK == sync \in [Uploader -> [pc : SPC, hand : File \cup {NoAsset}, retried : BOOLEAN]]

RestOK ==
    /\ todoQ \in QueueOf(File)
    /\ parser \in {"off", "test", "visit", "addRemote", "doneLocal", "doneRemote", "exit"}
    /\ srcHash \in [File -> {"none", "whole", "truncated"}]
    /\ dstHash \subseteq meta /\ meta \subseteq Listed \cap File
    /\ status \in [File -> Status]
    /\ SyncOK
    /\ deleter \in [pc : {"off", "next", "abort", "exit"}, toCheck : SUBSET Listed]
    /\ before \in [File \cup RemoteOnly -> Object]
    /\ stored \in [File \cup RemoteOnly -> Object]
    /\ missed \subseteq Asset
    /\ \A u \in Uploader : sync[u].pc \in {"handle", "upload", "sleep"} <=> sync[u].hand # NoAsset
    /\ updater.pc = "classify" <=> updater.hand # NoAsset

(* A change to one upload thread leaves the others alone.                  *)
Moved(new, u, pc, hand) ==
    /\ new \in [Uploader -> [pc : SPC, hand : File \cup {NoAsset}, retried : BOOLEAN]]
    /\ \A v \in Uploader \ {u} : new[v] = sync[v]
    /\ new[u].pc = pc /\ new[u].hand = hand

LEMMA OneThread ==
    ASSUME RestOK, NEW u \in Uploader, NEW pc \in SPC
    PROVE  /\ Moved([sync EXCEPT ![u].pc = pc], u, pc, sync[u].hand)
           /\ \A hand \in File \cup {NoAsset} :
                  Moved([sync EXCEPT ![u].pc = pc, ![u].hand = hand], u, pc, hand)
           /\ \A r \in BOOLEAN :
                  Moved([sync EXCEPT ![u].pc = pc, ![u].retried = r], u, pc, sync[u].hand)
<1> DEFINE Thread == [pc : SPC, hand : File \cup {NoAsset}, retried : BOOLEAN]
           moved  == [sync EXCEPT ![u].pc = pc]
<1>1. sync \in [Uploader -> Thread]
  BY DEF RestOK, SyncOK
<1>2. /\ moved \in [Uploader -> Thread] /\ moved[u].pc = pc /\ moved[u].hand = sync[u].hand
      /\ \A v \in Uploader \ {u} : moved[v] = sync[v]
  BY <1>1
<1>3. ASSUME NEW hand \in File \cup {NoAsset}
      PROVE  Moved([sync EXCEPT ![u].pc = pc, ![u].hand = hand], u, pc, hand)
  <2>1. [sync EXCEPT ![u].pc = pc, ![u].hand = hand] = [moved EXCEPT ![u].hand = hand]
    OBVIOUS
  <2> HIDE DEF moved
  <2> DEFINE new == [moved EXCEPT ![u].hand = hand]
  <2>2. new[u] = [moved[u] EXCEPT !.hand = hand] /\ \A v \in Uploader \ {u} : new[v] = moved[v]
    BY <1>2
  <2>3. new \in [Uploader -> Thread]
    BY <1>2
  <2>4. new[u].pc = pc /\ new[u].hand = hand
    BY <1>2, <2>2
  <2>5. Moved(new, u, pc, hand)
    BY <1>2, <2>2, <2>3, <2>4 DEF Moved
  <2> QED
    BY <2>1, <2>5
<1>4. ASSUME NEW r \in BOOLEAN
      PROVE  Moved([sync EXCEPT ![u].pc = pc, ![u].retried = r], u, pc, sync[u].hand)
  <2>1. [sync EXCEPT ![u].pc = pc, ![u].retried = r] = [moved EXCEPT ![u].retried = r]
    OBVIOUS
  <2> HIDE DEF moved
  <2> DEFINE new == [moved EXCEPT ![u].retried = r]
  <2>2. new[u] = [moved[u] EXCEPT !.retried = r] /\ \A v \in Uploader \ {u} : new[v] = moved[v]
    BY <1>2
  <2>3. new \in [Uploader -> Thread]
    BY <1>2
  <2>4. new[u].pc = pc /\ new[u].hand = moved[u].hand
    BY <1>2, <2>2
  <2>5. Moved(new, u, pc, moved[u].hand)
    BY <1>2, <2>2, <2>3, <2>4 DEF Moved
  <2> QED
    BY <1>2, <2>1, <2>5
<1> QED
  BY <1>2, <1>3, <1>4 DEF Moved

(* What each step of an upload thread does to that thread.                 *)
Kept(u, from, to) ==
    sync[u].pc = from /\ Moved(sync', u, to, sync[u].hand)
Dropped(u, from) ==
    sync[u].pc = from /\ Moved(sync', u, "abort", NoAsset)

LEMMA SyncFacts ==
    ASSUME RestOK, NEW u \in Uploader
    PROVE  /\ SReadEmpty(u)  => Kept(u, "isEmpty", IF IsEmpty(todoQ) THEN "done" ELSE "get")
           /\ SReadDone(u)   => Kept(u, "done", IF todoQ.done THEN "exit" ELSE "get")
           /\ SGetNothing(u) => Kept(u, "get", "abort")
           /\ SReadAbort(u)  => Kept(u, "abort", IF aborted THEN "exit" ELSE "isEmpty")
           /\ SGet(u)        => /\ sync[u].pc = "get" /\ Front(todoQ) \in File
                                /\ Moved(sync', u, "handle", Front(todoQ))
           /\ SUpToDate(u)   => Dropped(u, "handle")
           /\ BeginUpload(u) => Kept(u, "handle", "upload")
           /\ UploadOk(u)    => Dropped(u, "upload")
           /\ UploadFails(u) => Dropped(u, "upload")
           /\ UploadAgain(u) => Kept(u, "upload", "sleep")
           /\ Retry(u)       => Kept(u, "sleep", "upload")
<1>1. \A from : \A to \in SPC : SGoto(u, from, to) => Kept(u, from, to)
  BY OneThread DEF SGoto, Kept
<1>2. \A from : SDrop(u, from) => Dropped(u, from)
  BY OneThread DEF SDrop, Dropped, SPC
<1>3. SGet(u) => /\ sync[u].pc = "get" /\ Front(todoQ) \in File
                 /\ Moved(sync', u, "handle", Front(todoQ))
  <2>1. SGet(u) => Front(todoQ) \in File
    BY PopFacts, ItemsOfQueue DEF SGet, RestOK
  <2> QED
    BY <2>1, OneThread DEF SGet, SPC
<1>4. SReadAbort(u) => Kept(u, "abort", IF aborted THEN "exit" ELSE "isEmpty")
  <2> DEFINE to == IF aborted THEN "exit" ELSE "isEmpty"
  <2>1. SReadAbort(u) => /\ sync' = [sync EXCEPT ![u].pc = to, ![u].retried = FALSE]
                         /\ sync[u].pc = "abort"
    BY DEF SReadAbort
  <2>2. to \in SPC /\ FALSE \in BOOLEAN
    BY DEF SPC
  <2> HIDE DEF to
  <2>3. SReadAbort(u) => Moved(sync', u, to, sync[u].hand)
    BY <2>1, <2>2, OneThread
  <2> QED
    BY <2>1, <2>3 DEF Kept, to
<1>5. Retry(u) => Kept(u, "sleep", "upload")
  BY OneThread DEF Retry, SPC, Kept
<1>6. /\ SReadEmpty(u)  => Kept(u, "isEmpty", IF IsEmpty(todoQ) THEN "done" ELSE "get")
      /\ SReadDone(u)   => Kept(u, "done", IF todoQ.done THEN "exit" ELSE "get")
  BY <1>1 DEF SReadEmpty, SReadDone, SPC
<1>7. /\ SGetNothing(u) => Kept(u, "get", "abort")
      /\ BeginUpload(u) => Kept(u, "handle", "upload")
      /\ UploadAgain(u) => Kept(u, "upload", "sleep")
  BY <1>1 DEF SGetNothing, BeginUpload, UploadAgain, SPC
<1>8. /\ SUpToDate(u)   => Dropped(u, "handle")
      /\ UploadOk(u)    => Dropped(u, "upload")
      /\ UploadFails(u) => Dropped(u, "upload")
  BY <1>2 DEF SUpToDate, UploadOk, UploadFails
<1> QED
  BY <1>3, <1>4, <1>5, <1>6, <1>7, <1>8

(* What an upload may leave for its file.                                  *)
LEMMA UploadFacts ==
    ASSUME NEW u \in Uploader
    PROVE  /\ UploadOk(u) =>
                 \E o \in MayBeStored(u) : stored' = [stored EXCEPT ![sync[u].hand] = o]
           /\ MayBeStored(u) \subseteq {"same", "bad", "changed"}
           /\ srcHash[sync[u].hand] # "truncated" => MayBeStored(u) \subseteq {"same", "bad"}
           /\ srcHash[sync[u].hand] # "truncated" /\ "bad" \in MayBeStored(u) =>
                 Crypted /\ sync[u].retried
           /\ UploadFails(u) =>
                 /\ aborted'
                 /\ \/ stored' = stored
                    \/ \E o \in {"same", "bad", "changed"} : stored' = [stored EXCEPT ![sync[u].hand] = o]
BY DEF UploadOk, UploadFails, MayBeStored

(* The container's state when the run began does not change.               *)
LEMMA BeforeFixed ==
    ASSUME [Next]_vars
    PROVE  before' = before /\ Listed' = Listed
<1>1. before' = before
  BY Steps, MainFrame, ParserFrame, LocalFrame, RemoteFrame, UpdaterFrame, SyncFrame, DeleterFrame,
     StutterFrame
<1> QED
  BY <1>1 DEF Listed

LEMMA RestInit == Init => RestOK
<1> SUFFICES ASSUME Init PROVE RestOK
  OBVIOUS
<1>1. todoQ \in QueueOf(File)
  BY NewQueueFacts DEF Init
<1>2. SyncOK /\ \A u \in Uploader : sync[u].pc = "off" /\ sync[u].hand = NoAsset
  BY DEF Init, SyncOK, SPC
<1>3. before \in [File \cup RemoteOnly -> Object] /\ stored = before
  BY PipelineAssumption DEF Init
<1> QED
  BY <1>1, <1>2, <1>3 DEF Init, RestOK, Status

LEMMA RestStep ==
    ASSUME FlagInv, Engines, RestOK, [Next]_vars
    PROVE  RestOK'
<1>0. Listed' = Listed /\ before' = before /\ NoAsset \notin Asset /\ Asset = File \cup Folder
  BY BeforeFixed, PoolAssumptions DEF Asset
<1>1. CASE Main
  <2>1. parser' \in {"off", "test", "visit", "addRemote", "doneLocal", "doneRemote", "exit"}
    BY <1>1, MainFrame DEF RestOK, StartParser
  <2>2. /\ SyncOK'
        /\ \A u \in Uploader : sync'[u].pc \in {"handle", "upload", "sleep"} <=> sync'[u].hand # NoAsset
    <3>1. CASE sync' = sync
      BY <3>1 DEF RestOK, SyncOK
    <3>2. ASSUME NEW u \in Uploader, StartSync(u)
          PROVE  Moved(sync', u, "isEmpty", sync[u].hand) /\ sync[u].pc = "off"
      BY <3>2, OneThread DEF StartSync, SPC
    <3> QED
      BY <1>1, <3>1, <3>2, MainFrame DEF RestOK, SyncOK, Moved
  <2>3. deleter' \in [pc : {"off", "next", "abort", "exit"}, toCheck : SUBSET Listed]
    BY <1>1, MainFrame DEF RestOK, StartDeleter
  <2>4. updater'.pc = "classify" <=> updater'.hand # NoAsset
    BY <1>1, MainFrame DEF RestOK, StartUpdater, FlagInv, Starting
  <2> QED
    BY <1>1, <1>0, <2>1, <2>2, <2>3, <2>4, MainFrame DEF RestOK
<1>2. CASE Parser
  <2>1. parser' \in {"off", "test", "visit", "addRemote", "doneLocal", "doneRemote", "exit"}
    BY <1>2 DEF Parser, ReadAbort, Throw, DoneLocal, DoneRemote, Visit, VisitRemote
  <2> QED
    BY <1>2, <1>0, <2>1, ParserFrame DEF RestOK, SyncOK
<1>3. ASSUME NEW w \in LocalWorker, LocalEngine(w)
      PROVE  RestOK'
  <2>1. srcHash' \in [File -> {"none", "whole", "truncated"}]
    <3>1. CASE HashLocal(w)
      <4>1. lHand[w] \in Asset
        BY <3>1, HandFacts DEF HashLocal, Local!Processed, Local!Goto
      <4> QED
        BY <1>0, <3>1, <4>1 DEF HashLocal, RestOK, Digest
    <3>2. CASE ~ HashLocal(w)
      BY <1>3, <3>2 DEF LocalEngine, RefuseLocal, RestOK
    <3> QED
      BY <3>1, <3>2
  <2> QED
    BY <1>3, <1>0, <2>1, LocalFrame DEF RestOK, SyncOK
<1>4. ASSUME NEW w \in RemoteWorker, RemoteEngine(w)
      PROVE  RestOK'
  <2>1. (rPc[w] = "process" => rHand[w] \in Asset) /\ Listed \cap Asset \subseteq File
    BY <1>0, HandFacts, PipelineAssumption DEF Listed, RestOK
  <2>2. dstHash' \subseteq meta' /\ meta' \subseteq Listed \cap File
    <3>1. CASE SetMeta(w)
      BY <2>1, <3>1 DEF SetMeta, RestOK
    <3>2. CASE SetDstHash(w)
      BY <2>1, <3>2 DEF SetDstHash, RestOK
    <3> QED
      BY <1>4, <3>1, <3>2 DEF RemoteEngine, RefuseRemote, RestOK
  <2> QED
    BY <1>4, <1>0, <2>2, RemoteFrame DEF RestOK, SyncOK
<1>5. CASE Updater
  <2>1. updater \in [pc : UPC, at : Nat \ {0}, hand : File \cup {NoAsset}]
    BY DEF FlagInv
  <2>2. todoQ' \in QueueOf(File) /\ status' \in [File -> Status]
    <3>1. CASE Classify
      <4>1. updater.hand \in File
        BY <2>1, <3>1 DEF Classify, RestOK
      <4>2. StatusOf(updater.hand) \in Status
        BY DEF StatusOf, Status
      <4> QED
        BY <3>1, <4>1, <4>2, AddFacts DEF Classify, RestOK
    <3>2. CASE URaiseDone
      BY <3>2, FlagFacts DEF URaiseDone, RestOK
    <3>3. CASE ~ Classify /\ ~ URaiseDone
      BY <1>5, <3>3 DEF Updater, UReadEmpty, UReadDone, ULock, Skip, Pick, FoundNothing, UReadAbort, RestOK
    <3> QED
      BY <3>1, <3>2, <3>3
  <2>3. missed' \subseteq Asset
    <3>1. Items(localDoneQ) \subseteq Asset
      BY EngineTypes, ItemsOfQueue
    <3> QED
      BY <1>5, <3>1 DEF Updater, UReadEmpty, UReadDone, ULock, Skip, Pick, FoundNothing, UReadAbort,
         Classify, URaiseDone, RestOK
  <2>4. updater'.pc = "classify" <=> updater'.hand # NoAsset
    <3>1. CASE UReadEmpty \/ UReadDone \/ ULock \/ UReadAbort \/ URaiseDone
      BY <2>1, <3>1 DEF UReadEmpty, UReadDone, ULock, UReadAbort, URaiseDone, UGoto, RestOK
    <3>2. CASE Skip
      BY <2>1, <3>2 DEF Skip, RestOK
    <3>3. CASE Pick
      <4>1. updater.at \in 1 .. Len(localDoneQ.items)
        BY <2>1, <3>3 DEF Pick, More
      <4>2. Scanned \in Asset
        BY <4>1, EngineTypes, EraseFacts, ItemsOfQueue DEF Scanned
      <4> QED
        BY <1>0, <3>3, <4>2 DEF Pick
    <3>4. CASE FoundNothing
      BY <2>1, <3>4 DEF FoundNothing, RestOK
    <3>5. CASE Classify
      BY <2>1, <3>5 DEF Classify
    <3> QED
      BY <1>5, <3>1, <3>2, <3>3, <3>4, <3>5 DEF Updater
  <2> QED
    BY <1>5, <1>0, <2>2, <2>3, <2>4, UpdaterFrame DEF RestOK, SyncOK
<1>6. ASSUME NEW u \in Uploader, Synchronizer(u)
      PROVE  RestOK'
  <2>1. /\ SyncOK'
        /\ \A v \in Uploader : sync'[v].pc \in {"handle", "upload", "sleep"} <=> sync'[v].hand # NoAsset
    <3>1. \A pc, hand : Moved(sync', u, pc, hand) /\ (pc \in {"handle", "upload", "sleep"} <=> hand # NoAsset)
             => /\ SyncOK'
                /\ \A v \in Uploader : sync'[v].pc \in {"handle", "upload", "sleep"} <=> sync'[v].hand # NoAsset
      BY DEF Moved, SyncOK, RestOK
    <3>2. \A from, to : Kept(u, from, to)
                 /\ (from \in {"handle", "upload", "sleep"} <=> to \in {"handle", "upload", "sleep"})
             => /\ SyncOK'
                /\ \A v \in Uploader : sync'[v].pc \in {"handle", "upload", "sleep"} <=> sync'[v].hand # NoAsset
      BY <3>1 DEF Kept, RestOK
    <3>3. CASE SReadEmpty(u) \/ SReadDone(u) \/ SGetNothing(u) \/ SReadAbort(u)
      BY <3>2, <3>3, SyncFacts
    <3>4. CASE BeginUpload(u) \/ UploadAgain(u) \/ Retry(u)
      BY <3>2, <3>4, SyncFacts
    <3>5. CASE SGet(u)
      BY <1>0, <3>1, <3>5, SyncFacts
    <3>6. CASE SUpToDate(u) \/ UploadOk(u) \/ UploadFails(u)
      BY <3>1, <3>6, SyncFacts DEF Dropped
    <3> QED
      BY <1>6, <3>3, <3>4, <3>5, <3>6 DEF Synchronizer
  <2>2. todoQ' \in QueueOf(File)
    <3>1. SGet(u) => Pop(todoQ) \in QueueOf(File)
      BY PopFacts DEF SGet, RestOK
    <3> QED
      BY <1>6, <3>1 DEF Synchronizer, SReadEmpty, SReadDone, SGet, TodoPopped, SGetNothing, SUpToDate,
         BeginUpload, UploadOk, UploadAgain, Retry, UploadFails, SReadAbort, RestOK
  <2>3. stored' \in [File \cup RemoteOnly -> Object]
    <3>1. CASE UploadOk(u) \/ UploadFails(u)
      <4>1. \/ stored' = stored
            \/ \E o \in {"same", "bad", "changed"} : stored' = [stored EXCEPT ![sync[u].hand] = o]
        BY <3>1, UploadFacts
      <4> QED
        BY <4>1 DEF RestOK, Object
    <3>2. CASE ~ UploadOk(u) /\ ~ UploadFails(u)
      BY <1>6, <3>2 DEF Synchronizer, SReadEmpty, SReadDone, SGet, SGetNothing, SUpToDate,
         BeginUpload, UploadAgain, Retry, SReadAbort, RestOK
    <3> QED
      BY <3>1, <3>2
  <2>4. missed' \subseteq Asset
    <3>1. Items(todoQ) \subseteq Asset
      BY <1>0, ItemsOfQueue DEF RestOK
    <3> QED
      BY <1>6, <3>1 DEF Synchronizer, SReadEmpty, SReadDone, SGet, SGetNothing, SUpToDate,
         BeginUpload, UploadOk, UploadAgain, Retry, UploadFails, SReadAbort, RestOK
  <2> QED
    BY <1>6, <1>0, <2>1, <2>2, <2>3, <2>4, SyncFrame DEF RestOK
<1>7. CASE Deleter
  <2>1. deleter' \in [pc : {"off", "next", "abort", "exit"}, toCheck : SUBSET Listed]
    BY <1>7 DEF Deleter, DReadAbort, DEnd, Keep, Delete, DeleteFails, DChecked, RestOK
  <2>2. stored' \in [File \cup RemoteOnly -> Object]
    BY <1>7 DEF Deleter, DReadAbort, DEnd, Keep, Delete, DeleteFails, RestOK, Object
  <2> QED
    BY <1>7, <1>0, <2>1, <2>2, DeleterFrame DEF RestOK, SyncOK
<1>8. CASE UNCHANGED vars
  BY <1>8, <1>0, StutterFrame DEF RestOK, SyncOK
<1> QED
  BY <1>1, <1>2, <1>3, <1>4, <1>5, <1>6, <1>7, <1>8, Steps

(* What is once set stays set.                                             *)
LEMMA Stays ==
    ASSUME FlagInv, Engines, [Next]_vars
    PROVE  /\ aborted => aborted'
           /\ lOver => lOver'
           /\ rOver => rOver'
<1>1. (lOver => lOver') /\ (aborted => aborted')
  <2>1. Local!Next \/ UNCHANGED <<aborted, lOver>>
    BY LocalStep DEF Local!vars
  <2>2. lOver \in BOOLEAN
    BY EngineTypes
  <2>3. Local!Start \/ Local!Environment => (lOver => lOver') /\ (aborted => aborted')
    BY DEF Local!Start, Local!Push, Local!Create, Local!Environment, Local!Feed, Local!Close,
       Local!AbortElsewhere, Local!LockDst, Local!UnlockDst, Local!Take, Local!Destroy
  <2>4. \A w \in LocalWorker : Local!Step(w) => (lOver => lOver') /\ (aborted => aborted')
    BY <2>2 DEF Local!Step, Local!Loop, Local!ReadDone, Local!ReadEmpty, Local!Get, Local!GetNothing,
       Local!HandOn, Local!ReadAbort, Local!Count, Local!Compare, Local!RaiseDone,
       Local!Processed, Local!Refused
  <2> QED
    BY <2>1, <2>3, <2>4 DEF Local!Next
<1>2. rOver => rOver'
  <2>1. Remote!Next \/ UNCHANGED rOver
    BY RemoteStep DEF Remote!vars
  <2>2. rOver \in BOOLEAN
    BY EngineTypes
  <2>3. Remote!Start \/ Remote!Environment => rOver' = rOver
    BY DEF Remote!Start, Remote!Push, Remote!Create, Remote!Environment, Remote!Feed, Remote!Close,
       Remote!AbortElsewhere, Remote!LockDst, Remote!UnlockDst, Remote!Take, Remote!Destroy
  <2>4. \A w \in RemoteWorker : Remote!Step(w) => (rOver => rOver')
    BY <2>2 DEF Remote!Step, Remote!Loop, Remote!ReadDone, Remote!ReadEmpty, Remote!Get,
       Remote!GetNothing, Remote!HandOn, Remote!ReadAbort, Remote!Count, Remote!Compare,
       Remote!RaiseDone, Remote!Processed, Remote!Refused
  <2> QED
    BY <2>1, <2>3, <2>4 DEF Remote!Next
<1> QED
  BY <1>1, <1>2

(* An upload thread's step is its own.                                     *)
LEMMA OthersSync ==
    ASSUME RestOK, NEW u \in Uploader, Synchronizer(u)
    PROVE  \A v \in Uploader \ {u} : sync'[v] = sync[v]
BY SyncFacts DEF Synchronizer, Kept, Dropped, Moved

(* An upload is tried again only when one may be answered with a 500.      *)
RetryOK == \A u \in Uploader : sync[u].pc = "sleep" \/ sync[u].retried => "500" \in Faults

LEMMA RetryStep ==
    ASSUME RestOK, RetryOK, [Next]_vars
    PROVE  RetryOK'
<1>0. SyncOK
  BY DEF RestOK
<1>1. ASSUME sync' = sync
      PROVE  RetryOK'
  BY <1>1 DEF RetryOK
<1>2. ASSUME NEW u \in Uploader, StartSync(u)
      PROVE  RetryOK'
  <2>1. /\ sync'[u].pc = "isEmpty" /\ sync'[u].retried = sync[u].retried
        /\ \A v \in Uploader \ {u} : sync'[v] = sync[v]
    BY <1>0, <1>2 DEF StartSync, SyncOK
  <2> QED
    BY <2>1 DEF RetryOK
<1>3. ASSUME NEW u \in Uploader, Synchronizer(u)
      PROVE  RetryOK'
  <2>1. \A v \in Uploader \ {u} : sync'[v] = sync[v]
    BY <1>3, OthersSync
  <2>2. sync'[u].retried => sync[u].retried \/ sync[u].pc = "sleep"
    BY <1>0, <1>3 DEF Synchronizer, SReadEmpty, SReadDone, SGet, SGetNothing, SUpToDate, BeginUpload,
       UploadOk, UploadAgain, Retry, UploadFails, SReadAbort, SGoto, SDrop, SyncOK
  <2>3. sync'[u].pc = "sleep" => "500" \in Faults
    <3>1. CASE UploadAgain(u)
      BY <3>1 DEF UploadAgain
    <3>2. CASE ~ UploadAgain(u)
      BY <1>3, <3>2, SyncFacts DEF Synchronizer, Kept, Dropped, Moved
    <3> QED
      BY <3>1, <3>2
  <2> QED
    BY <2>1, <2>2, <2>3 DEF RetryOK
<1> QED
  BY <1>1, <1>2, <1>3, Steps, MainFrame, ParserFrame, LocalFrame, RemoteFrame, UpdaterFrame,
     DeleterFrame, StutterFrame

(* The deleter runs when main() waits for it or has.                       *)
DeleterOK ==
    /\ deleter.pc = "off" <=> main \notin {"wait"} \cup Unwinding
    /\ deleter.pc # "off" => parser = "exit"
    /\ deleter.pc \in {"next", "abort"} => RemoveNonExisting
    /\ deleter.pc = "exit" /\ RemoveNonExisting => aborted \/ deleter.toCheck = {}

LEMMA DeleterStep ==
    ASSUME FlagInv, Engines, RestOK, DeleterOK, [Next]_vars
    PROVE  DeleterOK'
<1> USE DEF DeleterOK, Unwinding
<1>0. aborted => aborted'
  BY Stays
<1>1. CASE Main
  <2>1. CASE StartDeleter
    <3>1. deleter'.pc \in {"next", "exit"} /\ (deleter'.pc = "next" <=> RemoveNonExisting)
      BY <2>1 DEF StartDeleter, RestOK
    <3> QED
      BY <2>1, <3>1, <1>1, <1>0, MainFrame DEF StartDeleter, ParserEnded, StartParser
  <2>2. CASE StartParser \/ StartLocal \/ StartRemote \/ StartUpdater \/ Summary \/ Unwind
             \/ \E u \in Uploader : StartSync(u)
    <3>1. deleter' = deleter /\ (parser = "exit" => parser' = "exit")
      BY <2>2, <1>1, MainFrame DEF StartParser, StartDeleter, StartLocal, StartRemote, StartUpdater,
         StartSync, Summary, Unwind, Joined, FlagInv
    <3>2. main' \in {"wait"} \cup Unwinding <=> main \in {"wait"} \cup Unwinding
      BY <2>2 DEF StartParser, StartLocal, StartRemote, StartUpdater, StartSync, Summary, Unwind, Joined
    <3> QED
      BY <1>0, <3>1, <3>2
  <2> QED
    BY <1>1, <2>1, <2>2 DEF Main
<1>2. CASE Parser
  BY <1>2, <1>0, ParserFrame DEF Parser, ReadAbort, Throw, DoneLocal, DoneRemote, Visit, VisitRemote
<1>3. ASSUME NEW w \in LocalWorker, LocalEngine(w)
      PROVE  DeleterOK'
  BY <1>3, <1>0, LocalFrame
<1>4. ASSUME NEW w \in RemoteWorker, RemoteEngine(w)
      PROVE  DeleterOK'
  BY <1>4, <1>0, RemoteFrame
<1>5. CASE Updater
  BY <1>5, <1>0, UpdaterFrame
<1>6. ASSUME NEW u \in Uploader, Synchronizer(u)
      PROVE  DeleterOK'
  <2>1. UNCHANGED <<main, parser, deleter>>
    BY <1>6, SyncFrame
  <2> QED
    BY <1>0, <2>1
<1>7. CASE Deleter
  <2>1. UNCHANGED <<main, parser>> /\ deleter.pc # "off"
    BY <1>7, DeleterFrame DEF Deleter, DReadAbort, DEnd
  <2>2. deleter \in [pc : {"off", "next", "abort", "exit"}, toCheck : SUBSET Listed]
    BY DEF RestOK
  <2>3. CASE DReadAbort
    <3>1. deleter'.pc = IF aborted THEN "exit" ELSE "next"
      BY <2>2, <2>3 DEF DReadAbort
    <3> QED
      BY <1>0, <2>1, <2>3, <3>1 DEF DReadAbort
  <2>4. CASE DEnd
    <3>1. deleter'.pc = "exit" /\ deleter'.toCheck = {}
      BY <2>2, <2>4 DEF DEnd
    <3> QED
      BY <2>1, <3>1
  <2>5. ASSUME deleter.pc = "next",
               NEW p \in deleter.toCheck, Keep(p) \/ Delete(p) \/ DeleteFails(p)
        PROVE  DeleterOK'
    <3>1. deleter'.pc = "abort"
      BY <2>5 DEF Keep, Delete, DeleteFails, DChecked
    <3> QED
      BY <2>1, <2>5, <3>1
  <2> QED
    BY <1>7, <2>3, <2>4, <2>5 DEF Deleter
<1>8. CASE UNCHANGED vars
  BY <1>8, <1>0, StutterFrame
<1> QED
  BY <1>1, <1>2, <1>3, <1>4, <1>5, <1>6, <1>7, <1>8, Steps

(* A thread that has begun a request after the abort is in it or past it.  *)
LateOK ==
    /\ late \in [Uploader \cup {"deleter"} -> Nat]
    /\ \A u \in Uploader :
          late[u] = 0 \/ (late[u] = 1 /\ aborted /\ sync[u].pc \in {"upload", "abort", "exit"})
    /\ late["deleter"] = 0 \/ (late["deleter"] = 1 /\ aborted /\ deleter.pc \in {"abort", "exit"})

LEMMA LateStep ==
    ASSUME FlagInv, Engines, RestOK, DeleterOK, LateOK, [Next]_vars
    PROVE  LateOK'
<1> USE DEF LateOK
<1>0. (aborted => aborted') /\ "deleter" \notin Uploader
  BY Stays, PipelineAssumption
<1>1. ASSUME UNCHANGED <<late, sync, deleter>>
      PROVE  LateOK'
  BY <1>0, <1>1
<1>2. CASE Main
  <2>1. ASSUME NEW u \in Uploader, StartSync(u)
        PROVE  LateOK'
    <3>1. Moved(sync', u, "isEmpty", sync[u].hand) /\ sync[u].pc = "off"
      BY <2>1, OneThread DEF StartSync, SPC
    <3>2. UNCHANGED <<late, deleter>>
      BY <2>1 DEF StartSync, mainRest
    <3> QED
      BY <1>0, <3>1, <3>2 DEF Moved
  <2>2. CASE StartDeleter
    <3>1. deleter.pc = "off" /\ UNCHANGED <<late, sync>>
      BY <2>2 DEF StartDeleter, DeleterOK, Unwinding, mainRest
    <3> QED
      BY <1>0, <3>1
  <2> QED
    BY <1>0, <1>1, <1>2, <2>1, <2>2, MainFrame
<1>3. CASE Parser \/ Updater \/ (\E w \in LocalWorker : LocalEngine(w))
           \/ (\E w \in RemoteWorker : RemoteEngine(w)) \/ UNCHANGED vars
  BY <1>1, <1>3, ParserFrame, UpdaterFrame, LocalFrame, RemoteFrame, StutterFrame
<1>4. ASSUME NEW u \in Uploader, Synchronizer(u)
      PROVE  LateOK'
  <2>1. deleter' = deleter /\ \A v \in Uploader \ {u} : sync'[v] = sync[v]
    BY <1>4, SyncFrame, OthersSync
  <2>2. CASE BeginUpload(u) \/ Retry(u)
    <3>1. late[u] = 0 /\ sync'[u].pc = "upload"
      BY <2>2, SyncFacts DEF Kept, Moved
    <3>2. aborted' = aborted /\ late' = IF aborted THEN [late EXCEPT ![u] = @ + 1] ELSE late
      BY <2>2 DEF BeginUpload, Retry, Begun
    <3> QED
      BY <1>0, <2>1, <3>1, <3>2
  <2>3. CASE ~ (BeginUpload(u) \/ Retry(u))
    <3>1. late' = late
      BY <1>4, <2>3 DEF Synchronizer, SReadEmpty, SReadDone, SGet, SGetNothing, SUpToDate,
         UploadOk, UploadAgain, UploadFails, SReadAbort
    <3>2. late[u] = 1 => sync'[u].pc \in {"upload", "abort", "exit"}
      BY <1>4, <2>3, SyncFacts DEF Synchronizer, Kept, Dropped, Moved, UploadAgain, MayRetry
    <3> QED
      BY <1>0, <2>1, <3>1, <3>2
  <2> QED
    BY <2>2, <2>3
<1>5. CASE Deleter
  <2>1. sync' = sync
    BY <1>5, DeleterFrame
  <2>2. CASE DReadAbort \/ DEnd
    BY <1>0, <2>1, <2>2 DEF DReadAbort, DEnd, RestOK
  <2>3. ASSUME deleter.pc = "next",
               NEW p \in deleter.toCheck, Keep(p) \/ Delete(p) \/ DeleteFails(p)
        PROVE  LateOK'
    <3>1. late["deleter"] = 0 /\ deleter'.pc = "abort"
      BY <2>3 DEF Keep, Delete, DeleteFails, DChecked
    <3>2. late' = late \/ (aborted /\ late' = [late EXCEPT !["deleter"] = @ + 1])
      BY <2>3 DEF Keep, Delete, DeleteFails, Begun
    <3> QED
      BY <1>0, <2>1, <3>1, <3>2
  <2> QED
    BY <1>5, <2>2, <2>3 DEF Deleter
<1> QED
  BY <1>2, <1>3, <1>4, <1>5, Steps

(* The assets whose source hash the local engine has finished.             *)
Hashed == Items(localDoneQ) \cup localTaken
          \cup {lHand[w] : w \in {v \in LocalWorker : lPc[v] = "add"}}

HashOK ==
    /\ \A f \in Hashed \cap File : srcHash[f] # "none"
    /\ \A f \in File : srcHash[f] = "truncated" => aborted

LEMMA HashStep ==
    ASSUME FlagInv, Engines, RestOK, HashOK, [Next]_vars
    PROVE  HashOK'
<1>0. /\ aborted => aborted'
      /\ srcHash \in [File -> {"none", "whole", "truncated"}]
      /\ lPc \in [LocalWorker -> Local!PC] /\ lHand \in [LocalWorker -> Asset \cup {NoAsset}]
      /\ localDoneQ \in QueueOf(Asset)
  BY Stays, EngineTypes DEF RestOK
<1>1. ASSUME srcHash' = srcHash, Hashed' \subseteq Hashed
      PROVE  HashOK'
  BY <1>0, <1>1 DEF HashOK
<1>2. ASSUME UNCHANGED <<srcHash, localDoneQ, localTaken, lHand, lPc>>
      PROVE  HashOK'
  BY <1>1, <1>2 DEF Hashed, Items
<1>3. CASE Main
  <2>1. CASE StartLocal
    <3>1. /\ localTaken' = localTaken /\ lHand' = lHand /\ srcHash' = srcHash
          /\ Items(localDoneQ)' = Items(localDoneQ)
          /\ \A w \in LocalWorker : lPc'[w] = "add" => lPc[w] = "add"
      BY <1>0, <2>1, FlagFacts DEF StartLocal, updaterV, assetV, Local!Start, Local!Push,
         Local!Create, Local!ResetDone, ResetDone, Items
    <3> QED
      BY <1>1, <3>1 DEF Hashed
  <2> QED
    BY <1>2, <1>3, <2>1, MainFrame
<1>4. CASE Parser \/ Deleter \/ (\E u \in Uploader : Synchronizer(u))
           \/ (\E w \in RemoteWorker : RemoteEngine(w)) \/ UNCHANGED vars
  BY <1>2, <1>4, ParserFrame, DeleterFrame, SyncFrame, RemoteFrame, StutterFrame
<1>5. ASSUME NEW w \in LocalWorker, LocalEngine(w)
      PROVE  HashOK'
  <2>0. localTaken' = localTaken
    BY <1>5, LocalFrame
  <2>1. CASE HashLocal(w)
    <3>1. /\ lHand' = lHand /\ lPc' = [lPc EXCEPT ![w] = "add"] /\ localDoneQ' = localDoneQ
          /\ aborted' = aborted /\ lPc[w] = "process"
      BY <2>1 DEF HashLocal, Local!Processed, Local!Goto
    <3>2. lHand[w] \in File \cup Folder /\ (lHand[w] \in Folder => lHand[w] \notin File)
      BY <3>1, HandFacts, PipelineAssumption DEF Asset
    <3>3. Hashed' \subseteq Hashed \cup {lHand[w]}
      BY <1>0, <2>0, <3>1 DEF Hashed, Items
    <3>4. CASE lHand[w] \in Folder
      BY <1>0, <2>1, <3>1, <3>2, <3>3, <3>4 DEF HashLocal, HashOK
    <3>5. CASE lHand[w] \in File
      <4>1. PICK h \in Digest : srcHash' = [srcHash EXCEPT ![lHand[w]] = h]
        BY <2>1, <3>2, <3>5 DEF HashLocal
      <4>2. h # "none" /\ (h = "truncated" => aborted)
        BY <4>1 DEF Digest
      <4> QED
        BY <1>0, <3>1, <3>3, <3>5, <4>1, <4>2 DEF HashOK
    <3> QED
      BY <3>2, <3>4, <3>5
  <2>2. CASE ~ HashLocal(w)
    <3>1. srcHash' = srcHash
      BY <1>5, <2>2 DEF LocalEngine, RefuseLocal
    <3>2. CASE Local!HandOn(w)
      <4>1. /\ lPc[w] = "add" /\ lHand[w] \in Asset
            /\ lPc' = [lPc EXCEPT ![w] = "abort"] /\ lHand' = [lHand EXCEPT ![w] = NoAsset]
            /\ localDoneQ' = Add(localDoneQ, lHand[w])
        BY <3>2, HandFacts DEF Local!HandOn, Local!Goto, Local!Add, Add
      <4>2. Items(localDoneQ)' = Items(localDoneQ) \cup {lHand[w]}
        BY <1>0, <4>1, AddFacts
      <4>3. Hashed' \subseteq Hashed
        BY <1>0, <2>0, <4>1, <4>2 DEF Hashed
      <4> QED
        BY <1>1, <3>1, <4>3
    <3>3. CASE ~ Local!HandOn(w)
      <4>1. /\ Items(localDoneQ)' = Items(localDoneQ)
            /\ \A v \in LocalWorker : lPc'[v] = "add" => lPc[v] = "add" /\ lHand'[v] = lHand[v]
        BY <1>0, <1>5, <2>2, <3>3 DEF LocalEngine, RefuseLocal, Local!Loop, Local!ReadDone,
           Local!ReadEmpty, Local!Get, Local!GetNothing, Local!ReadAbort, Local!Count,
           Local!Compare, Local!RaiseDone, Local!Refused, Local!Goto, Local!SetDone, Items, QueueOf
      <4>2. Hashed' \subseteq Hashed
        BY <2>0, <4>1 DEF Hashed
      <4> QED
        BY <1>1, <3>1, <4>2
    <3> QED
      BY <3>2, <3>3
  <2> QED
    BY <2>1, <2>2
<1>6. CASE Updater
  <2>1. UNCHANGED <<srcHash, lPc, lHand>>
    BY <1>6, UpdaterFrame
  <2>2. Items(localDoneQ)' \cup localTaken' \subseteq Items(localDoneQ) \cup localTaken
    <3>1. CASE Pick
      <4>1. updater.at \in 1 .. Len(localDoneQ.items)
        BY <3>1 DEF Pick, More, FlagInv
      <4>2. /\ WithoutScanned \in QueueOf(Asset)
            /\ Items(localDoneQ) = Items(WithoutScanned) \cup {Scanned}
        BY <1>0, <4>1, EraseFacts DEF WithoutScanned, Scanned
      <4>3. Items(Unlock(WithoutScanned)) = Items(WithoutScanned)
        BY <4>2, FlagFacts DEF Items
      <4> QED
        BY <3>1, <4>2, <4>3 DEF Pick
    <3>2. CASE ~ Pick
      <4>1. localTaken' = localTaken /\ localDoneQ' \in {localDoneQ, Lock(localDoneQ), Unlock(localDoneQ)}
        BY <1>6, <3>2 DEF Updater, UReadEmpty, UReadDone, ULock, Skip, FoundNothing, Classify,
           UReadAbort, URaiseDone
      <4>2. Items(localDoneQ') = Items(localDoneQ)
        BY <1>0, <4>1, FlagFacts DEF Items
      <4> QED
        BY <4>1, <4>2
    <3> QED
      BY <3>1, <3>2
  <2>3. Hashed' \subseteq Hashed
    BY <2>1, <2>2 DEF Hashed
  <2> QED
    BY <1>1, <2>1, <2>3
<1> QED
  BY <1>3, <1>4, <1>5, <1>6, Steps

(* The updater's verdict follows from the file and its object, whatever it *)
(* finds in the asset, once the asset is ready (main.cpp:424-463).         *)
LEMMA StatusRight ==
    ASSUME RestOK, NEW f \in File, srcHash[f] # "none", f \in Listed => f \in dstHash
    PROVE  /\ StatusOf(f) \in Status \ {"UNKNOWN"}
           /\ \/ StatusOf(f) = Verdict(f)
              \/ srcHash[f] = "truncated" /\ StatusOf(f) = "UPDATE_CONTENT_CHANGED"
<1>1. /\ f \in Listed <=> before[f] # "absent"
      /\ before[f] \in Object /\ srcHash[f] \in {"whole", "truncated"}
      /\ f \in Listed => f \in meta
  BY DEF RestOK, Listed
<1>2. StatusOf(f) \in Status \ {"UNKNOWN"}
  BY DEF StatusOf, Status
<1>3. CASE f \notin Listed
  <2>1. StatusOf(f) = "TO_BE_CREATED"
    BY <1>3 DEF StatusOf
  <2>2. before[f] = "absent"
    BY <1>1, <1>3
  <2>3. Verdict(f) = "TO_BE_CREATED"
    BY <2>2 DEF Verdict
  <2> QED
    BY <1>2, <2>1, <2>3
<1>4. CASE f \in Listed
  <2>1. SameKey(f) <=> before[f] # "rekey"
    BY <1>1, <1>4 DEF SameKey
  <2>2. SameFingerprint(f) <=> before[f] \in {"same", "bad", "rekey"} /\ (ForceMd5 => srcHash[f] = "whole")
    BY <1>1, <1>4 DEF SameFingerprint
  <2>3. StatusOf(f) = IF ~ SameFingerprint(f) THEN "UPDATE_CONTENT_CHANGED"
                      ELSE IF Crypted /\ ~ SameKey(f) THEN "UPDATE_PWD_CHANGED" ELSE "UP_TO_DATE"
    BY <1>4 DEF StatusOf
  <2>4. Verdict(f) = IF before[f] = "changed" THEN "UPDATE_CONTENT_CHANGED"
                     ELSE IF before[f] = "rekey" /\ Crypted THEN "UPDATE_PWD_CHANGED" ELSE "UP_TO_DATE"
    BY <1>1, <1>4 DEF Verdict, Object
  <2>5. CASE SameFingerprint(f)
    BY <1>1, <1>2, <1>4, <2>1, <2>2, <2>3, <2>4, <2>5 DEF Object
  <2>6. CASE ~ SameFingerprint(f)
    <3>1. StatusOf(f) = "UPDATE_CONTENT_CHANGED"
      BY <2>3, <2>6
    <3>2. srcHash[f] = "truncated" \/ before[f] = "changed"
      BY <1>1, <1>4, <2>2, <2>6 DEF Object
    <3>3. before[f] = "changed" => Verdict(f) = "UPDATE_CONTENT_CHANGED"
      BY <2>4
    <3> QED
      BY <1>2, <3>1, <3>2, <3>3
  <2> QED
    BY <2>5, <2>6
<1> QED
  BY <1>2, <1>3, <1>4

(* A file the updater has in its hands is unjudged, one it has judged was  *)
(* taken from the queue, and a listed one was taken with its remote hash.  *)
StatusOK ==
    /\ updater.hand # NoAsset =>
           updater.hand \in localTaken /\ status[updater.hand] = "UNKNOWN"
    /\ \A f \in File : status[f] # "UNKNOWN" => f \in localTaken
    /\ localTaken \cap Listed \subseteq dstHash
    /\ ClassifiedRight

LEMMA StatusStep ==
    ASSUME FlagInv, Engines, EngineInv, RestOK, HashOK, StatusOK, [Next]_vars
    PROVE  StatusOK'
<1>0. /\ Listed' = Listed /\ before' = before /\ \A f \in File : Verdict(f)' = Verdict(f)
      /\ srcHash \in [File -> {"none", "whole", "truncated"}]
      /\ status \in [File -> Status]
      /\ updater \in [pc : UPC, at : Nat \ {0}, hand : File \cup {NoAsset}]
      /\ localDoneQ \in QueueOf(Asset)
      /\ NoAsset \notin Asset /\ File \cap Folder = {} /\ Asset = File \cup Folder
  BY BeforeFixed, EngineTypes, PipelineAssumption DEF RestOK, FlagInv, Asset, Verdict
<1>1. ASSUME updater'.hand = updater.hand, UNCHANGED <<srcHash, status, localTaken>>,
             dstHash \subseteq dstHash'
      PROVE  StatusOK'
  BY <1>0, <1>1 DEF StatusOK, ClassifiedRight
<1>2. CASE Main
  BY <1>0, <1>1, <1>2, MainFrame DEF StartUpdater
<1>3. CASE Parser \/ Deleter \/ (\E u \in Uploader : Synchronizer(u)) \/ UNCHANGED vars
  BY <1>1, <1>3, ParserFrame, DeleterFrame, SyncFrame, StutterFrame
<1>4. ASSUME NEW w \in LocalWorker, LocalEngine(w)
      PROVE  StatusOK'
  <2>1. UNCHANGED <<updater, status, localTaken, dstHash>>
    BY <1>4, LocalFrame
  <2>2. CASE HashLocal(w)
    <3>1. lHand[w] \in Asset
      BY <2>2, HandFacts DEF HashLocal, Local!Processed, Local!Goto
    <3>2. lHand[w] \in LocalHeld
      BY <1>0, <3>1 DEF LocalHeld
    <3>3. lHand[w] \notin localTaken
      BY <3>2 DEF EngineInv
    <3>4. \A f \in File : f # lHand[w] => srcHash'[f] = srcHash[f]
      BY <1>0, <2>2, <3>1 DEF HashLocal
    <3>5. \A f \in File : status[f] # "UNKNOWN" => f # lHand[w]
      BY <3>3 DEF StatusOK
    <3> QED
      BY <1>0, <2>1, <3>4, <3>5 DEF StatusOK, ClassifiedRight
  <2>3. CASE ~ HashLocal(w)
    BY <1>1, <1>4, <2>1, <2>3 DEF LocalEngine, RefuseLocal
  <2> QED
    BY <2>2, <2>3
<1>5. ASSUME NEW w \in RemoteWorker, RemoteEngine(w)
      PROVE  StatusOK'
  BY <1>1, <1>5, RemoteFrame DEF RemoteEngine, SetMeta, SetDstHash, RefuseRemote
<1>6. CASE Updater
  <2>0. UNCHANGED <<srcHash, dstHash>>
    BY <1>6, UpdaterFrame
  <2>1. CASE Pick
    <3>1. updater.at \in 1 .. Len(localDoneQ.items)
      BY <1>0, <2>1 DEF Pick, More
    <3>2. Scanned \in Items(localDoneQ) /\ Scanned \in Asset
      BY <1>0, <3>1, EraseFacts, ItemsOfQueue DEF Scanned
    <3>3. Scanned \notin localTaken
      BY <3>2 DEF EngineInv
    <3>4. /\ updater'.hand \in {NoAsset, Scanned}
          /\ updater'.hand # NoAsset => updater'.hand = Scanned /\ Scanned \in File
          /\ localTaken' = localTaken \cup {Scanned} /\ status' = status
          /\ Scanned \in Listed => Scanned \in dstHash \/ Scanned \in Folder
      BY <1>0, <2>1, <3>2 DEF Pick, Ready
    <3>5. Folder \cap Listed = {}
      BY <1>0, PipelineAssumption DEF Listed, RestOK
    <3>6. updater'.hand # NoAsset => updater'.hand \in localTaken' /\ status'[updater'.hand] = "UNKNOWN"
      BY <3>3, <3>4 DEF StatusOK
    <3> QED
      BY <1>0, <2>0, <3>4, <3>5, <3>6 DEF StatusOK, ClassifiedRight
  <2>2. CASE Classify
    <3> DEFINE f == updater.hand
    <3>1. /\ f \in File /\ f \in localTaken
          /\ status' = [status EXCEPT ![f] = StatusOf(f)] /\ updater'.hand = NoAsset
          /\ localTaken' = localTaken
      BY <1>0, <2>2 DEF Classify, StatusOK, RestOK
    <3>2. srcHash[f] # "none" /\ (f \in Listed => f \in dstHash)
      BY <3>1 DEF HashOK, Hashed, StatusOK
    <3> HIDE DEF f
    <3>3. /\ StatusOf(f) \in Status \ {"UNKNOWN"}
          /\ \/ StatusOf(f) = Verdict(f)
             \/ srcHash[f] = "truncated" /\ StatusOf(f) = "UPDATE_CONTENT_CHANGED"
      BY <3>1, <3>2, StatusRight
    <3>4. \A g \in File : status'[g] = IF g = f THEN StatusOf(f) ELSE status[g]
      BY <1>0, <3>1
    <3>5. ClassifiedRight'
      BY <1>0, <2>0, <3>3, <3>4 DEF StatusOK, ClassifiedRight
    <3> QED
      BY <1>0, <2>0, <3>1, <3>4, <3>5 DEF StatusOK
  <2>3. CASE ~ Pick /\ ~ Classify
    <3>1. updater'.hand = updater.hand /\ UNCHANGED <<status, localTaken>>
      BY <1>0, <1>6, <2>3 DEF Updater, UReadEmpty, UReadDone, ULock, Skip, FoundNothing,
         UReadAbort, URaiseDone, UGoto
    <3> QED
      BY <1>1, <2>0, <3>1
  <2> QED
    BY <2>1, <2>2, <2>3
<1> QED
  BY <1>2, <1>3, <1>4, <1>5, <1>6, Steps

(* Each judged file goes to one upload thread, or waits for one.           *)
TodoOK ==
    /\ Distinct(todoQ)
    /\ \A f \in Items(todoQ) : status[f] # "UNKNOWN"
    /\ \A u \in Uploader : sync[u].hand # NoAsset =>
           /\ sync[u].hand \notin Items(todoQ)
           /\ status[sync[u].hand] # "UNKNOWN"
           /\ sync[u].pc \in {"upload", "sleep"} => status[sync[u].hand] # "UP_TO_DATE"
    /\ \A u, v \in Uploader : sync[u].hand = sync[v].hand /\ sync[u].hand # NoAsset => u = v

LEMMA TodoStep ==
    ASSUME FlagInv, Engines, RestOK, StatusOK, TodoOK, [Next]_vars
    PROVE  TodoOK'
<1>0. /\ status \in [File -> Status] /\ todoQ \in QueueOf(File)
      /\ Items(todoQ) \subseteq File /\ NoAsset \notin File
      /\ sync \in [Uploader -> [pc : SPC, hand : File \cup {NoAsset}, retried : BOOLEAN]]
  BY ItemsOfQueue, PipelineAssumption DEF RestOK, SyncOK
<1>1. ASSUME UNCHANGED <<sync, status, todoQ>>
      PROVE  TodoOK'
  BY <1>1 DEF TodoOK, Distinct, Items
<1>2. ASSUME UNCHANGED <<status, todoQ>>, NEW u \in Uploader, NEW pc, NEW hand \in {NoAsset, sync[u].hand},
             Moved(sync', u, pc, hand),
             pc \in {"upload", "sleep"} =>
                 sync[u].pc \in {"upload", "sleep"} \/ status[hand] # "UP_TO_DATE"
      PROVE  TodoOK'
  BY <1>0, <1>2 DEF TodoOK, Distinct, Items, Moved
<1>3. CASE Main
  <2>1. ASSUME NEW u \in Uploader, StartSync(u)
        PROVE  TodoOK'
    <3>1. Moved(sync', u, "isEmpty", sync[u].hand)
      BY <2>1, OneThread DEF StartSync, SPC
    <3> QED
      BY <1>2, <1>3, <3>1, MainFrame
  <2> QED
    BY <1>1, <1>3, <2>1, MainFrame
<1>4. CASE Parser \/ Deleter \/ (\E w \in LocalWorker : LocalEngine(w))
           \/ (\E w \in RemoteWorker : RemoteEngine(w)) \/ UNCHANGED vars
  BY <1>1, <1>4, ParserFrame, DeleterFrame, LocalFrame, RemoteFrame, StutterFrame
<1>5. CASE Updater
  <2>0. sync' = sync
    BY <1>5, UpdaterFrame
  <2>1. CASE Classify
    <3> DEFINE f == updater.hand
    <3>1. /\ f \in File /\ status[f] = "UNKNOWN" /\ todoQ' = Add(todoQ, f)
          /\ status' = [status EXCEPT ![f] = StatusOf(f)]
      BY <2>1 DEF Classify, StatusOK, RestOK, FlagInv
    <3>2. StatusOf(f) # "UNKNOWN"
      BY DEF StatusOf
    <3> HIDE DEF f
    <3>3. f \notin Items(todoQ) /\ \A u \in Uploader : sync[u].hand # f
      BY <1>0, <3>1 DEF TodoOK
    <3>4. Distinct(todoQ)' /\ Items(todoQ)' = Items(todoQ) \cup {f}
      BY <1>0, <3>1, <3>3, AddFacts DEF TodoOK
    <3>5. \A g \in File : status'[g] = IF g = f THEN StatusOf(f) ELSE status[g]
      BY <1>0, <3>1
    <3>6. \A g \in Items(todoQ)' : status'[g] # "UNKNOWN"
      BY <1>0, <3>1, <3>2, <3>4, <3>5 DEF TodoOK
    <3>7. ASSUME NEW u \in Uploader, sync[u].hand # NoAsset
          PROVE  /\ sync[u].hand \notin Items(todoQ)'
                 /\ status'[sync[u].hand] = status[sync[u].hand]
      BY <1>0, <3>3, <3>4, <3>5, <3>7 DEF TodoOK
    <3> QED
      BY <2>0, <3>4, <3>6, <3>7 DEF TodoOK
  <2>2. CASE ~ Classify
    <3>1. status' = status /\ todoQ' \in {todoQ, SetDone(todoQ)}
      BY <1>5, <2>2 DEF Updater, UReadEmpty, UReadDone, ULock, Skip, Pick, FoundNothing,
         UReadAbort, URaiseDone
    <3>2. Distinct(todoQ)' = Distinct(todoQ) /\ Items(todoQ)' = Items(todoQ)
      BY <1>0, <3>1, FlagFacts DEF Distinct, Items
    <3> QED
      BY <2>0, <3>1, <3>2 DEF TodoOK
  <2> QED
    BY <2>1, <2>2
<1>6. ASSUME NEW u \in Uploader, Synchronizer(u)
      PROVE  TodoOK'
  <2>0. status' = status
    BY <1>6, SyncFrame
  <2>1. CASE SGet(u)
    <3> DEFINE f == Front(todoQ)
    <3>1. /\ ~ IsEmpty(todoQ) /\ todoQ' = Pop(todoQ) /\ f \in File
          /\ Moved(sync', u, "handle", f)
      BY <2>1, SyncFacts DEF SGet, TodoPopped
    <3>2. /\ f \in Items(todoQ) /\ f \notin Items(todoQ') /\ Items(todoQ') \subseteq Items(todoQ)
          /\ Distinct(todoQ')
      BY <1>0, <3>1, PopFacts DEF TodoOK
    <3>3. \A v \in Uploader \ {u} : sync'[v] = sync[v] /\ sync[v].hand # f
      BY <3>1, <3>2, <1>0 DEF Moved, TodoOK
    <3>4. sync'[u].hand = f /\ sync'[u].pc = "handle"
      BY <3>1 DEF Moved
    <3> HIDE DEF f
    <3>5. Distinct(todoQ)' /\ Items(todoQ)' = Items(todoQ')
      BY <3>2 DEF Distinct, Items
    <3> QED
      BY <1>0, <2>0, <3>2, <3>3, <3>4, <3>5 DEF TodoOK
  <2>2. CASE ~ SGet(u)
    <3>0. todoQ' = todoQ
      BY <1>6, <2>2 DEF Synchronizer, SReadEmpty, SReadDone, SGetNothing, SUpToDate, BeginUpload,
         UploadOk, UploadAgain, Retry, UploadFails, SReadAbort
    <3>1. CASE SReadEmpty(u) \/ SReadDone(u) \/ SGetNothing(u) \/ SReadAbort(u)
      <4>1. PICK to \in {"done", "get", "exit", "abort", "isEmpty"} : Moved(sync', u, to, sync[u].hand)
        BY <3>1, SyncFacts DEF Kept
      <4> QED
        BY <1>2, <2>0, <3>0, <4>1
    <3>2. CASE BeginUpload(u)
      <4>1. Moved(sync', u, "upload", sync[u].hand) /\ status[sync[u].hand] # "UP_TO_DATE"
        BY <3>2, SyncFacts DEF BeginUpload, Kept
      <4> QED
        BY <1>2, <2>0, <3>0, <4>1
    <3>3. CASE UploadAgain(u) \/ Retry(u)
      <4>1. PICK to \in {"sleep", "upload"} : Moved(sync', u, to, sync[u].hand)
        BY <3>3, SyncFacts DEF Kept
      <4>2. sync[u].pc \in {"upload", "sleep"}
        BY <3>3, SyncFacts DEF Kept
      <4> QED
        BY <1>2, <2>0, <3>0, <4>1, <4>2
    <3>4. CASE SUpToDate(u) \/ UploadOk(u) \/ UploadFails(u)
      <4>1. Moved(sync', u, "abort", NoAsset)
        BY <3>4, SyncFacts DEF Dropped
      <4> QED
        BY <1>2, <2>0, <3>0, <4>1
    <3> QED
      BY <1>6, <2>2, <3>1, <3>2, <3>3, <3>4 DEF Synchronizer
  <2> QED
    BY <2>1, <2>2
<1> QED
  BY <1>3, <1>4, <1>5, <1>6, Steps

(* A remote hash is published by the worker that holds the asset, after it *)
(* left the remote queue (main.cpp:265-282).                               *)
PublishedOK ==
    /\ dstHash \subseteq remoteFed /\ dstHash \cap Items(remoteQ) = {}
    /\ \A w \in RemoteWorker : rPc[w] \in {"process", "pure"} => rHand[w] \notin dstHash

LEMMA PublishedStep ==
    ASSUME FlagInv, Engines, EngineInv, RestOK, PublishedOK, [Next]_vars
    PROVE  PublishedOK'
<1>0. /\ remoteQ \in QueueOf(Asset) /\ remoteDoneQ \in QueueOf(Asset)
      /\ rPc \in [RemoteWorker -> Remote!PC] /\ rHand \in [RemoteWorker -> Asset \cup {NoAsset}]
      /\ NoAsset \notin Asset /\ Items(remoteQ) \subseteq Asset
  BY EngineTypes, PoolAssumptions, ItemsOfQueue
<1>1. ASSUME remoteFed \subseteq remoteFed', dstHash' = dstHash, UNCHANGED <<rPc, rHand>>,
             Items(remoteQ') \subseteq Items(remoteQ)
      PROVE  PublishedOK'
  <2>1. Items(remoteQ)' \subseteq Items(remoteQ)
    BY <1>1 DEF Items
  <2> QED
    BY <1>1, <2>1 DEF PublishedOK
<1>2. CASE Main
  <2>1. CASE StartParser
    <3>1. Items(remoteQ') = Items(remoteQ)
      BY <1>0, <2>1, FlagFacts DEF StartParser, Items
    <3> QED
      BY <1>1, <1>2, <2>1, <3>1, MainFrame DEF StartParser, remoteV
  <2>2. CASE StartRemote
    <3>1. /\ remoteQ' = remoteQ /\ rHand' = rHand
          /\ \A w \in RemoteWorker : rPc'[w] \in {"process", "pure"} => rPc'[w] = rPc[w]
      BY <1>0, <2>2 DEF StartRemote, Remote!Start, Remote!Push, Remote!Create
    <3> QED
      BY <1>2, <3>1, MainFrame DEF PublishedOK, Items
  <2> QED
    BY <1>1, <1>2, <2>1, <2>2, MainFrame
<1>3. CASE Parser
  <2>1. UNCHANGED <<dstHash, rPc, rHand>>
    BY <1>3, ParserFrame
  <2>2. ASSUME NEW p \in Asset, VisitRemote(p)
        PROVE  PublishedOK'
    <3>1. Items(remoteQ)' = Items(remoteQ) \cup {p} /\ p \notin dstHash
      BY <1>0, <2>2, AddFacts DEF VisitRemote, PublishedOK
    <3> QED
      BY <2>1, <2>2, <3>1 DEF VisitRemote, PublishedOK
  <2>3. CASE DoneRemote
    <3>1. Items(remoteQ') = Items(remoteQ)
      BY <1>0, <2>3, FlagFacts DEF DoneRemote, Items
    <3> QED
      BY <1>1, <2>1, <2>3, <3>1 DEF DoneRemote
  <2>4. CASE ReadAbort \/ Throw \/ DoneLocal \/ \E p \in Asset : Visit(p)
    BY <1>1, <2>1, <2>4 DEF ReadAbort, Throw, DoneLocal, Visit
  <2> QED
    BY <1>3, <2>2, <2>3, <2>4 DEF Parser
<1>4. CASE Deleter \/ Updater \/ (\E u \in Uploader : Synchronizer(u))
           \/ (\E w \in LocalWorker : LocalEngine(w)) \/ UNCHANGED vars
  BY <1>1, <1>4, DeleterFrame, UpdaterFrame, SyncFrame, LocalFrame, StutterFrame
<1>5. ASSUME NEW w \in RemoteWorker, RemoteEngine(w)
      PROVE  PublishedOK'
  <2>0. remoteFed' = remoteFed
    BY <1>5, RemoteFrame
  <2>1. CASE SetDstHash(w)
    <3>1. /\ rPc[w] = "process" /\ rPc' = [rPc EXCEPT ![w] = "add"] /\ rHand' = rHand
          /\ remoteQ' = remoteQ /\ dstHash' \subseteq dstHash \cup {rHand[w]}
      BY <2>1 DEF SetDstHash, Remote!Processed, Remote!Goto
    <3>2. rHand[w] \in Asset /\ rHand[w] \in RemoteHeld
      BY <1>0, <3>1, HandFacts DEF RemoteHeld
    <3>3. /\ rHand[w] \in remoteFed /\ rHand[w] \notin Items(remoteQ)
          /\ \A v \in RemoteWorker \ {w} : rHand[v] # rHand[w]
      BY <1>0, <3>2 DEF EngineInv
    <3>4. \A v \in RemoteWorker : rPc'[v] \in {"process", "pure"} => v # w /\ rPc'[v] = rPc[v]
      BY <1>0, <3>1
    <3> QED
      BY <2>0, <3>1, <3>3, <3>4 DEF PublishedOK, Items
  <2>2. CASE Remote!Get(w)
    <3>1. /\ ~ IsEmpty(remoteQ) /\ remoteQ' = Pop(remoteQ)
          /\ rHand' = [rHand EXCEPT ![w] = Front(remoteQ)]
          /\ \E to : rPc' = [rPc EXCEPT ![w] = to]
      BY <2>2 DEF Remote!Get, Remote!Goto, Remote!IsEmpty, Remote!Pop, Remote!Front, IsEmpty, Pop, Front
    <3>2. Front(remoteQ) \in Items(remoteQ) /\ Items(remoteQ') \subseteq Items(remoteQ)
      BY <1>0, <3>1, PopFacts
    <3>3. dstHash' = dstHash
      BY <1>5, <2>2 DEF RemoteEngine, SetMeta, SetDstHash, RefuseRemote, Remote!Get, Remote!Goto,
         Remote!Processed, Remote!Refused
    <3>4. \A v \in RemoteWorker : rPc'[v] \in {"process", "pure"} => rHand'[v] \notin dstHash
      BY <1>0, <3>1, <3>2 DEF PublishedOK
    <3> QED
      BY <2>0, <3>2, <3>3, <3>4 DEF PublishedOK, Items
  <2>3. CASE ~ SetDstHash(w) /\ ~ Remote!Get(w)
    <3>1. /\ remoteQ' = remoteQ /\ dstHash' = dstHash
          /\ \A v \in RemoteWorker : rPc'[v] \in {"process", "pure"} =>
                                        rPc'[v] = rPc[v] /\ rHand'[v] = rHand[v]
      BY <1>0, <1>5, <2>3 DEF RemoteEngine, SetMeta, RefuseRemote, remoteV, Remote!Loop, Remote!ReadDone,
         Remote!ReadEmpty, Remote!GetNothing, Remote!HandOn, Remote!ReadAbort, Remote!Count,
         Remote!Compare, Remote!RaiseDone, Remote!Refused, Remote!Goto
    <3> QED
      BY <2>0, <3>1 DEF PublishedOK, Items
  <2> QED
    BY <2>1, <2>2, <2>3
<1> QED
  BY <1>2, <1>3, <1>4, <1>5, Steps

(* A worker makes the pure call only when its engine's subclass is gone.   *)
PureOK ==
    /\ LocalDerived => \A w \in LocalWorker : lPc[w] # "pure"
    /\ RemoteDerived => \A w \in RemoteWorker : rPc[w] # "pure"

LEMMA PureStep ==
    ASSUME FlagInv, Engines, PureOK, [Next]_vars
    PROVE  PureOK'
<1> USE DEF PureOK
<1>0. /\ lPc \in [LocalWorker -> Local!PC] /\ rPc \in [RemoteWorker -> Remote!PC]
      /\ (LocalDerived' => LocalDerived) /\ (RemoteDerived' => RemoteDerived)
  <2>1. main \in {"unwindLocal", "exit"} => main' \in {"unwindLocal", "exit"}
    BY Steps, ParserFrame, LocalFrame, RemoteFrame, UpdaterFrame, SyncFrame, DeleterFrame, StutterFrame
       DEF Main, StartParser, StartLocal, StartRemote, StartUpdater, StartSync, StartDeleter, Summary,
           Unwind, Joined
  <2>2. main \in Unwinding => main' \in Unwinding
    BY Steps, ParserFrame, LocalFrame, RemoteFrame, UpdaterFrame, SyncFrame, DeleterFrame, StutterFrame
       DEF Main, StartParser, StartLocal, StartRemote, StartUpdater, StartSync, StartDeleter, Summary,
           Unwind, Joined, Unwinding
  <2> QED
    BY <2>1, <2>2, EngineTypes DEF LocalDerived, RemoteDerived
<1>1. LocalDerived' => \A w \in LocalWorker : lPc'[w] # "pure"
  <2> SUFFICES ASSUME LocalDerived, NEW w \in LocalWorker PROVE lPc'[w] # "pure"
    BY <1>0
  <2>1. Local!Next \/ UNCHANGED lPc
    BY LocalStep DEF Local!vars
  <2>2. Local!Start \/ Local!Environment => lPc' = lPc \/ lPc'[w] \in {lPc[w], "while"}
    BY <1>0 DEF Local!Start, Local!Push, Local!Create, Local!Environment, Local!Feed, Local!Close,
       Local!AbortElsewhere, Local!LockDst, Local!UnlockDst, Local!Take, Local!Destroy
  <2>3. \A v \in LocalWorker : Local!Step(v) =>
            lPc'[w] \in {lPc[w], "isEmpty", "get", "count", "process", "add", "abort", "while",
                         "compare", "setDone", "exit"}
    BY <1>0 DEF Local!Step, Local!Loop, Local!ReadDone, Local!ReadEmpty, Local!Get, Local!GetNothing,
       Local!HandOn, Local!ReadAbort, Local!Count, Local!Compare, Local!RaiseDone,
       Local!Processed, Local!Refused, Local!Goto
  <2> QED
    BY <2>1, <2>2, <2>3 DEF Local!Next
<1>2. RemoteDerived' => \A w \in RemoteWorker : rPc'[w] # "pure"
  <2> SUFFICES ASSUME RemoteDerived, NEW w \in RemoteWorker PROVE rPc'[w] # "pure"
    BY <1>0
  <2>1. Remote!Next \/ UNCHANGED rPc
    BY RemoteStep DEF Remote!vars
  <2>2. Remote!Start \/ Remote!Environment => rPc' = rPc \/ rPc'[w] \in {rPc[w], "while"}
    BY <1>0 DEF Remote!Start, Remote!Push, Remote!Create, Remote!Environment, Remote!Feed, Remote!Close,
       Remote!AbortElsewhere, Remote!LockDst, Remote!UnlockDst, Remote!Take, Remote!Destroy
  <2>3. \A v \in RemoteWorker : Remote!Step(v) =>
            rPc'[w] \in {rPc[w], "isEmpty", "get", "count", "process", "add", "abort", "while",
                         "compare", "setDone", "exit"}
    BY <1>0 DEF Remote!Step, Remote!Loop, Remote!ReadDone, Remote!ReadEmpty, Remote!Get, Remote!GetNothing,
       Remote!HandOn, Remote!ReadAbort, Remote!Count, Remote!Compare, Remote!RaiseDone,
       Remote!Processed, Remote!Refused, Remote!Goto
  <2> QED
    BY <2>1, <2>2, <2>3 DEF Remote!Next
<1> QED
  BY <1>1, <1>2

(* The parser raises the flags when it has fed everything, or the program  *)
(* aborts (srcFileList.cpp:53-117, main.cpp:108-126).                      *)
ParserOK ==
    /\ parser = "doneRemote" => localQ.done
    /\ parser \in {"doneLocal", "doneRemote"} \/ (parser = "exit" /\ localQ.done) =>
           aborted \/ localFed = Asset

LEMMA ParserStep ==
    ASSUME FlagInv, Engines, ParserOK, [Next]_vars
    PROVE  ParserOK'
<1>0. (aborted => aborted') /\ localQ \in QueueOf(Asset)
  BY Stays, EngineTypes
<1>1. ASSUME UNCHANGED <<parser, localFed>>, localQ'.done = localQ.done
      PROVE  ParserOK'
  BY <1>0, <1>1 DEF ParserOK
<1>2. CASE Main
  BY <1>1, <1>2, MainFrame DEF StartParser, ParserOK
<1>3. CASE Parser
  <2>1. aborted' = aborted
    BY <1>3, ParserFrame
  <2>2. CASE ReadAbort
    BY <2>1, <2>2 DEF ReadAbort, ParserOK
  <2>3. CASE Throw
    BY <2>1, <2>3 DEF Throw, ParserOK, FlagInv, Walking
  <2>4. CASE DoneLocal
    BY <1>0, <2>1, <2>4 DEF DoneLocal, ParserOK, SetDone, QueueOf
  <2>5. CASE DoneRemote
    BY <2>1, <2>5 DEF DoneRemote, ParserOK
  <2>6. ASSUME NEW p \in Asset, Visit(p) \/ VisitRemote(p)
        PROVE  ParserOK'
    BY <2>6 DEF Visit, VisitRemote, ParserOK
  <2> QED
    BY <1>3, <2>2, <2>3, <2>4, <2>5, <2>6 DEF Parser
<1>4. CASE Deleter \/ Updater \/ (\E u \in Uploader : Synchronizer(u))
           \/ (\E w \in RemoteWorker : RemoteEngine(w)) \/ UNCHANGED vars
  BY <1>1, <1>4, DeleterFrame, UpdaterFrame, SyncFrame, RemoteFrame, StutterFrame
<1>5. ASSUME NEW w \in LocalWorker, LocalEngine(w)
      PROVE  ParserOK'
  BY <1>1, <1>5, LocalFrame, WorkerFlags
<1> QED
  BY <1>2, <1>3, <1>4, <1>5, Steps

(* Who leaves its loop leaves nothing behind that is not in missed, unless *)
(* the program aborts or a pool was overtaken (main.cpp:421, 561).         *)
QuitOK ==
    /\ updater.pc \in {"setDone", "exit"} =>
           aborted \/ lOver \/ (localDoneQ.done /\ Items(localDoneQ) \subseteq missed)
    /\ todoQ.done => updater.pc = "exit"
    /\ \A u \in Uploader : sync[u].pc = "exit" =>
           aborted \/ (todoQ.done /\ Items(todoQ) \subseteq missed)

LEMMA QuitStep ==
    ASSUME FlagInv, Engines, EngineInv, RestOK, QuitOK, [Next]_vars
    PROVE  QuitOK'
<1>0. /\ aborted => aborted'
      /\ lOver => lOver'
      /\ localDoneQ \in QueueOf(Asset) /\ todoQ \in QueueOf(File)
      /\ lPc \in [LocalWorker -> Local!PC] /\ LocalWorker # {}
      /\ updater \in [pc : UPC, at : Nat \ {0}, hand : File \cup {NoAsset}]
  BY Stays, EngineTypes, PipelineAssumption DEF RestOK, FlagInv
<1>1. ASSUME UNCHANGED <<updater, sync, todoQ>>, localDoneQ'.done = localDoneQ.done,
             Items(localDoneQ') = Items(localDoneQ), missed \subseteq missed'
      PROVE  QuitOK'
  <2>1. Items(todoQ)' = Items(todoQ) /\ Items(localDoneQ)' = Items(localDoneQ)
    BY <1>1 DEF Items
  <2> QED
    BY <1>0, <1>1, <2>1 DEF QuitOK
<1>2. ASSUME UNCHANGED <<updater, sync, todoQ, missed>>,
             localDoneQ.done /\ ~ lOver /\ ~ aborted =>
                 localDoneQ'.done /\ Items(localDoneQ') = Items(localDoneQ)
      PROVE  QuitOK'
  <2>1. Items(todoQ)' = Items(todoQ) /\ Items(localDoneQ)' = Items(localDoneQ')
    BY <1>2 DEF Items
  <2> QED
    BY <1>0, <1>2, <2>1 DEF QuitOK
<1>3. CASE Main
  <2>1. CASE StartLocal
    <3>1. ASSUME localDoneQ.done, ~ lOver
          PROVE  localDoneQ' = localDoneQ
      <4>1. \A w \in LocalWorker : lPc[w] # "off"
        BY <3>1 DEF EngineInv
      <4> QED
        BY <2>1, <4>1 DEF StartLocal, Local!Start, Local!Push, Local!Create
    <3> QED
      BY <1>2, <1>3, <2>1, <3>1, MainFrame DEF StartLocal, updaterV, workV
  <2>2. CASE StartUpdater
    <3>1. updater.pc = "off" /\ updater'.pc = "isEmpty" /\ ~ todoQ.done
      BY <1>0, <2>2 DEF StartUpdater, FlagInv, Starting, QuitOK
    <3>2. UNCHANGED <<todoQ, sync>>
      BY <2>2 DEF StartUpdater, mainRest, queues
    <3>3. Items(todoQ)' = Items(todoQ)
      BY <3>2 DEF Items
    <3> QED
      BY <1>0, <3>1, <3>2, <3>3 DEF QuitOK
  <2>3. ASSUME NEW u \in Uploader, StartSync(u)
        PROVE  QuitOK'
    <3>1. Moved(sync', u, "isEmpty", sync[u].hand)
      BY <2>3, OneThread DEF StartSync, SPC
    <3>2. UNCHANGED <<updater, localDoneQ, todoQ, missed>>
      BY <2>3 DEF StartSync, mainRest, queues
    <3>3. Items(todoQ)' = Items(todoQ) /\ Items(localDoneQ)' = Items(localDoneQ)
      BY <3>2 DEF Items
    <3> QED
      BY <1>0, <3>1, <3>2, <3>3 DEF QuitOK, Moved
  <2> QED
    BY <1>1, <1>3, <2>1, <2>2, <2>3, MainFrame
<1>4. CASE Parser \/ Deleter \/ (\E w \in RemoteWorker : RemoteEngine(w)) \/ UNCHANGED vars
  BY <1>1, <1>4, DeleterFrame, ParserFrame, RemoteFrame, StutterFrame
<1>5. ASSUME NEW w \in LocalWorker, LocalEngine(w)
      PROVE  QuitOK'
  <2>1. ASSUME localDoneQ.done, ~ lOver
        PROVE  localDoneQ' \in {localDoneQ, SetDone(localDoneQ)}
    <3>1. lPc[w] \in {"compare", "setDone", "exit"}
      BY <2>1 DEF EngineInv
    <3> QED
      BY <1>5, <3>1 DEF LocalEngine, HashLocal, RefuseLocal, Local!Loop, Local!ReadDone,
         Local!ReadEmpty, Local!Get, Local!GetNothing, Local!HandOn, Local!ReadAbort, Local!Count,
         Local!Compare, Local!RaiseDone, Local!Processed, Local!Refused, Local!Goto, Local!SetDone,
         SetDone
  <2>2. ASSUME localDoneQ.done, ~ lOver
        PROVE  localDoneQ'.done /\ Items(localDoneQ') = Items(localDoneQ)
    BY <1>0, <2>1, <2>2, FlagFacts DEF SetDone, QueueOf
  <2> QED
    BY <1>2, <1>5, <2>2, LocalFrame
<1>6. CASE Updater
  <2>0. sync' = sync /\ UNCHANGED <<aborted, lOver>>
    BY <1>6, UpdaterFrame
  <2>1. todoQ'.done => todoQ.done \/ updater'.pc = "exit"
    <3>1. CASE URaiseDone
      BY <1>0, <3>1 DEF URaiseDone, UGoto
    <3>2. CASE Classify
      <4>1. todoQ' = Add(todoQ, updater.hand)
        BY <3>2 DEF Classify
      <4> QED
        BY <1>0, <4>1 DEF Add, QueueOf
    <3>3. CASE ~ URaiseDone /\ ~ Classify
      BY <1>6, <3>3 DEF Updater, UReadEmpty, UReadDone, ULock, Skip, Pick, FoundNothing, UReadAbort
    <3> QED
      BY <3>1, <3>2, <3>3
  <2>2. updater.pc # "exit"
    BY <1>6 DEF Updater, UReadEmpty, UReadDone, ULock, Skip, Pick, FoundNothing, UReadAbort, Classify,
       URaiseDone, UGoto
  <2>3. ~ todoQ.done
    BY <2>2 DEF QuitOK
  <2>4. updater'.pc \in {"setDone", "exit"} =>
           aborted \/ lOver \/ (localDoneQ'.done /\ Items(localDoneQ)' \subseteq missed')
    <3>1. CASE UReadDone
      BY <1>0, <3>1 DEF UReadDone, UGoto, Items
    <3>2. CASE UReadAbort
      BY <1>0, <3>2 DEF UReadAbort, UGoto
    <3>3. CASE URaiseDone
      <4>1. updater.pc = "setDone" /\ UNCHANGED <<localDoneQ, missed>>
        BY <3>3 DEF URaiseDone, UGoto
      <4> QED
        BY <4>1 DEF QuitOK, Items
    <3>4. CASE UReadEmpty \/ ULock \/ Skip \/ Pick \/ FoundNothing \/ Classify
      <4>1. CASE UReadEmpty \/ ULock
        BY <1>0, <4>1 DEF UReadEmpty, ULock, UGoto
      <4>2. CASE Skip
        BY <1>0, <4>2 DEF Skip
      <4>3. CASE Pick
        BY <4>3 DEF Pick
      <4>4. CASE FoundNothing \/ Classify
        <5>1. updater'.pc = "abort"
          BY <1>0, <4>4 DEF FoundNothing, Classify
        <5> QED
          BY <5>1
      <4> QED
        BY <3>4, <4>1, <4>2, <4>3, <4>4
    <3> QED
      BY <1>6, <3>1, <3>2, <3>3, <3>4 DEF Updater
  <2> QED
    BY <2>0, <2>1, <2>3, <2>4 DEF QuitOK
<1>7. ASSUME NEW u \in Uploader, Synchronizer(u)
      PROVE  QuitOK'
  <2>0. UNCHANGED <<updater, localDoneQ, lOver>> /\ Items(localDoneQ)' = Items(localDoneQ)
    BY <1>7, SyncFrame DEF Items
  <2>1. missed \subseteq missed'
    BY <1>7 DEF Synchronizer, SReadEmpty, SReadDone, SGet, SGetNothing, SUpToDate, BeginUpload,
       UploadOk, UploadAgain, Retry, UploadFails, SReadAbort
  <2>2. todoQ'.done = todoQ.done /\ Items(todoQ)' \subseteq Items(todoQ)
    <3>1. CASE SGet(u)
      <4>1. ~ IsEmpty(todoQ) /\ todoQ' = Pop(todoQ)
        BY <3>1 DEF SGet, TodoPopped
      <4>2. Items(Pop(todoQ)) \subseteq Items(todoQ) /\ Pop(todoQ).done = todoQ.done
        BY <1>0, <4>1, PopFacts
      <4> QED
        BY <4>1, <4>2 DEF Items
    <3>2. CASE ~ SGet(u)
      BY <1>7, <3>2 DEF Synchronizer, SReadEmpty, SReadDone, SGetNothing, SUpToDate, BeginUpload,
         UploadOk, UploadAgain, Retry, UploadFails, SReadAbort, Items
    <3> QED
      BY <3>1, <3>2
  <2>3. \A v \in Uploader \ {u} : sync'[v] = sync[v]
    BY <1>7, OthersSync
  <2>4. sync'[u].pc = "exit" => aborted' \/ (todoQ'.done /\ Items(todoQ)' \subseteq missed')
    <3>1. CASE SReadDone(u)
      <4>1. sync'[u].pc = "exit" => todoQ.done
        BY <3>1, SyncFacts DEF Kept, Moved
      <4> QED
        BY <2>2, <3>1, <4>1 DEF SReadDone
    <3>2. CASE SReadAbort(u)
      BY <1>0, <3>2, SyncFacts DEF Kept, Moved
    <3>3. CASE ~ SReadDone(u) /\ ~ SReadAbort(u)
      BY <1>7, <3>3, SyncFacts DEF Synchronizer, Kept, Dropped, Moved
    <3> QED
      BY <3>1, <3>2, <3>3
  <2> QED
    BY <1>0, <2>0, <2>1, <2>2, <2>3, <2>4 DEF QuitOK
<1> QED
  BY <1>3, <1>4, <1>5, <1>6, <1>7, Steps

(* main() leaves its scope when the deleter and the upload threads have    *)
(* ended, and one object after the other (main.cpp:842-861).               *)
UnwindOK ==
    /\ main \in Unwinding => deleter.pc = "exit" /\ \A u \in Uploader : sync[u].pc = "exit"
    /\ main \in {"unwindLocal", "exit"} => updater.pc = "exit"

LEMMA UnwindStep ==
    ASSUME FlagInv, Engines, RestOK, UnwindOK, [Next]_vars
    PROVE  UnwindOK'
<1> USE DEF UnwindOK, Unwinding
<1>1. ASSUME UNCHANGED <<main, deleter, sync, updater>>
      PROVE  UnwindOK'
  BY <1>1
<1>2. CASE Main
  <2>1. CASE Summary \/ Unwind
    <3>1. UNCHANGED <<deleter, sync, updater>>
      BY <2>1 DEF Summary, Unwind
    <3> QED
      BY <2>1, <3>1 DEF Summary, Unwind, Joined
  <2>2. CASE ~ Summary /\ ~ Unwind
    BY <1>2, <2>2 DEF Main, StartParser, StartLocal, StartRemote, StartUpdater, StartSync, StartDeleter
  <2> QED
    BY <2>1, <2>2
<1>3. CASE Parser \/ (\E w \in LocalWorker : LocalEngine(w))
           \/ (\E w \in RemoteWorker : RemoteEngine(w)) \/ UNCHANGED vars
  BY <1>1, <1>3, ParserFrame, LocalFrame, RemoteFrame, StutterFrame
<1>4. CASE Updater
  <2>1. updater.pc # "exit" /\ UNCHANGED <<main, deleter, sync>>
    BY <1>4, UpdaterFrame DEF Updater, UReadEmpty, UReadDone, ULock, Skip, Pick, FoundNothing,
       UReadAbort, Classify, URaiseDone, UGoto
  <2> QED
    BY <2>1
<1>5. ASSUME NEW u \in Uploader, Synchronizer(u)
      PROVE  UnwindOK'
  <2>1. sync[u].pc # "exit" /\ UNCHANGED <<main, deleter, updater>>
    BY <1>5, SyncFrame, SyncFacts DEF Synchronizer, Kept, Dropped
  <2> QED
    BY <2>1
<1>6. CASE Deleter
  <2>1. deleter.pc # "exit" /\ UNCHANGED <<main, sync, updater>>
    BY <1>6, DeleterFrame DEF Deleter, DReadAbort, DEnd
  <2> QED
    BY <2>1
<1> QED
  BY <1>2, <1>3, <1>4, <1>5, <1>6, Steps

(* An upload under way is counted (main.cpp:577-599).                      *)
CountersOK ==
    /\ counter \in [{"upToDate", "uploading", "uploaded", "deleted"} -> Nat]
    /\ Cardinality(Working) <= counter.uploading
    /\ ~ aborted => counter.uploading = Cardinality(Working)

LEMMA CountersStep ==
    ASSUME FlagInv, Engines, RestOK, CountersOK, [Next]_vars
    PROVE  CountersOK'
<1>0. /\ counter \in [{"upToDate", "uploading", "uploaded", "deleted"} -> Nat]
      /\ (aborted => aborted') /\ IsFiniteSet(Uploader)
      /\ IsFiniteSet(Working) /\ Cardinality(Working) \in Nat
  <2>1. IsFiniteSet(Uploader) /\ Working \subseteq Uploader
    BY PipelineAssumption DEF Working
  <2> QED
    BY <2>1, Stays, FS_Subset, FS_CardinalityType DEF CountersOK
<1>1. ASSUME counter' = counter, Working' = Working
      PROVE  CountersOK'
  BY <1>0, <1>1 DEF CountersOK
<1>2. CASE Main
  <2>1. ASSUME NEW u \in Uploader, StartSync(u)
        PROVE  Working' = Working
    <3>1. Moved(sync', u, "isEmpty", sync[u].hand) /\ sync[u].pc = "off"
      BY <2>1, OneThread DEF StartSync, SPC
    <3> QED
      BY <3>1 DEF Moved, Working
  <2> QED
    BY <1>1, <1>2, <2>1, MainFrame DEF Working
<1>3. CASE Parser \/ Updater \/ (\E w \in LocalWorker : LocalEngine(w))
           \/ (\E w \in RemoteWorker : RemoteEngine(w)) \/ UNCHANGED vars
  BY <1>1, <1>3, ParserFrame, UpdaterFrame, LocalFrame, RemoteFrame, StutterFrame DEF Working
<1>4. CASE Deleter
  <2>1. sync' = sync
    BY <1>4, DeleterFrame
  <2>2. counter' = counter \/ counter' = [counter EXCEPT !.deleted = @ + 1]
    BY <1>4 DEF Deleter, DReadAbort, DEnd, Keep, Delete, DeleteFails
  <2>3. /\ counter' \in [{"upToDate", "uploading", "uploaded", "deleted"} -> Nat]
        /\ counter'.uploading = counter.uploading
    BY <1>0, <2>2
  <2> QED
    BY <1>0, <2>1, <2>3 DEF CountersOK, Working
<1>5. ASSUME NEW u \in Uploader, Synchronizer(u)
      PROVE  CountersOK'
  <2>0. \A v \in Uploader \ {u} : sync'[v] = sync[v]
    BY <1>5, OthersSync
  <2>1. CASE BeginUpload(u)
    <3>1. u \notin Working /\ Working' = Working \cup {u}
      BY <2>0, <2>1, SyncFacts DEF Kept, Moved, Working
    <3>2. Cardinality(Working') = Cardinality(Working) + 1
      BY <1>0, <3>1, FS_AddElement
    <3>3. counter' = [counter EXCEPT !.uploading = @ + 1] /\ aborted' = aborted
      BY <2>1 DEF BeginUpload
    <3>4. /\ counter' \in [{"upToDate", "uploading", "uploaded", "deleted"} -> Nat]
          /\ counter'.uploading = counter.uploading + 1
      BY <1>0, <3>3
    <3> QED
      BY <1>0, <3>2, <3>3, <3>4 DEF CountersOK
  <2>2. CASE UploadOk(u) \/ UploadFails(u)
    <3>1. u \in Working /\ Working' = Working \ {u}
      BY <2>0, <2>2, SyncFacts DEF Dropped, Moved, Working
    <3>2. Cardinality(Working') = Cardinality(Working) - 1
      BY <1>0, <3>1, FS_RemoveElement
    <3>3. counter.uploading \in Nat \ {0} /\ Cardinality(Working') \in Nat
      <4>1. IsFiniteSet(Working')
        BY <1>0, <3>1, FS_Subset
      <4>2. Cardinality(Working') \in Nat
        BY <4>1, FS_CardinalityType
      <4> QED
        BY <1>0, <3>2, <4>2 DEF CountersOK
    <3>4. CASE UploadOk(u)
      <4> DEFINE c == [counter EXCEPT !.uploading = @ - 1]
      <4>1. counter' = [c EXCEPT !.uploaded = @ + 1] /\ aborted' = aborted
        BY <3>4 DEF UploadOk
      <4>2. /\ c \in [{"upToDate", "uploading", "uploaded", "deleted"} -> Nat]
            /\ c.uploading = counter.uploading - 1
        BY <1>0, <3>3
      <4> HIDE DEF c
      <4>3. /\ counter' \in [{"upToDate", "uploading", "uploaded", "deleted"} -> Nat]
            /\ counter'.uploading = c.uploading
        BY <4>1, <4>2
      <4> QED
        BY <1>0, <3>2, <3>3, <4>1, <4>2, <4>3 DEF CountersOK
    <3>5. CASE UploadFails(u)
      <4>1. counter' = counter /\ aborted'
        BY <3>5 DEF UploadFails
      <4> QED
        BY <1>0, <3>2, <3>3, <4>1 DEF CountersOK
    <3> QED
      BY <2>2, <3>4, <3>5
  <2>3. CASE ~ BeginUpload(u) /\ ~ UploadOk(u) /\ ~ UploadFails(u)
    <3>1. Working' = Working
      <4>1. sync[u].pc \in {"upload", "sleep"} <=> sync'[u].pc \in {"upload", "sleep"}
        BY <1>5, <2>3, SyncFacts DEF Synchronizer, Kept, Dropped, Moved
      <4> QED
        BY <2>0, <4>1 DEF Working
    <3>2. CASE SUpToDate(u)
      <4>1. counter' = [counter EXCEPT !.upToDate = @ + 1] /\ aborted' = aborted
        BY <3>2 DEF SUpToDate
      <4>2. /\ counter' \in [{"upToDate", "uploading", "uploaded", "deleted"} -> Nat]
            /\ counter'.uploading = counter.uploading
        BY <1>0, <4>1
      <4> QED
        BY <1>0, <3>1, <4>1, <4>2 DEF CountersOK
    <3>3. CASE ~ SUpToDate(u)
      <4>1. counter' = counter
        BY <1>5, <2>3, <3>3 DEF Synchronizer, SReadEmpty, SReadDone, SGet, SGetNothing,
           UploadAgain, Retry, SReadAbort
      <4> QED
        BY <1>1, <3>1, <4>1
    <3> QED
      BY <3>2, <3>3
  <2> QED
    BY <2>1, <2>2, <2>3
<1> QED
  BY <1>2, <1>3, <1>4, <1>5, Steps

(* The file has been through the updater, and no thread has it any more.   *)
Handled(f) ==
    /\ f \in localTaken /\ f # updater.hand /\ f \notin Items(todoQ)
    /\ \A u \in Uploader : sync[u].hand # f

(* A handled file stays handled, and becomes so in an upload thread.       *)
LEMMA HandledStep ==
    ASSUME FlagInv, Engines, EngineInv, RestOK, [Next]_vars, NEW f \in File
    PROVE  /\ Handled(f) => Handled(f)'
           /\ Handled(f)' /\ ~ Handled(f) =>
                 \E u \in Uploader : sync[u].hand = f /\ (SUpToDate(u) \/ UploadOk(u) \/ UploadFails(u))
<1>0. /\ localDoneQ \in QueueOf(Asset) /\ todoQ \in QueueOf(File)
      /\ updater \in [pc : UPC, at : Nat \ {0}, hand : File \cup {NoAsset}]
      /\ f # NoAsset /\ f \notin Folder
  BY EngineTypes, PipelineAssumption DEF RestOK, FlagInv
<1>1. ASSUME localTaken' = localTaken, updater'.hand = updater.hand, Items(todoQ') = Items(todoQ),
             \A u \in Uploader : sync'[u].hand = sync[u].hand
      PROVE  Handled(f)' <=> Handled(f)
  <2>1. Items(todoQ)' = Items(todoQ)
    BY <1>1 DEF Items
  <2> QED
    BY <1>1, <2>1 DEF Handled
<1>2. CASE Main
  <2>1. updater'.hand = updater.hand
    BY <1>0, <1>2, MainFrame DEF StartUpdater
  <2>2. \A u \in Uploader : sync'[u].hand = sync[u].hand
    <3>1. ASSUME NEW u \in Uploader, StartSync(u)
          PROVE  Moved(sync', u, "isEmpty", sync[u].hand)
      BY <3>1, OneThread DEF StartSync, SPC
    <3> QED
      BY <1>2, <3>1, MainFrame DEF Moved
  <2> QED
    BY <1>1, <1>2, <2>1, <2>2, MainFrame
<1>3. CASE Parser \/ Deleter \/ (\E w \in LocalWorker : LocalEngine(w))
           \/ (\E w \in RemoteWorker : RemoteEngine(w)) \/ UNCHANGED vars
  BY <1>1, <1>3, ParserFrame, DeleterFrame, LocalFrame, RemoteFrame, StutterFrame
<1>4. CASE Updater
  <2>0. sync' = sync
    BY <1>4, UpdaterFrame
  <2>1. CASE Pick
    <3>1. updater.at \in 1 .. Len(localDoneQ.items)
      BY <1>0, <2>1 DEF Pick, More
    <3>2. Scanned \in Items(localDoneQ) /\ Scanned \notin localTaken
      BY <1>0, <3>1, EraseFacts DEF Scanned, EngineInv
    <3>3. /\ localTaken' = localTaken \cup {Scanned} /\ todoQ' = todoQ
          /\ updater'.hand = IF Scanned \in Folder THEN NoAsset ELSE Scanned
      BY <2>1 DEF Pick
    <3>4. updater.hand = NoAsset
      BY <2>1 DEF Pick, RestOK
    <3>5. Items(todoQ)' = Items(todoQ)
      BY <3>3 DEF Items
    <3> QED
      BY <1>0, <2>0, <3>2, <3>3, <3>4, <3>5 DEF Handled
  <2>2. CASE Classify
    <3>1. /\ updater.hand \in File /\ todoQ' = Add(todoQ, updater.hand) /\ updater'.hand = NoAsset
          /\ localTaken' = localTaken
      BY <1>0, <2>2 DEF Classify, RestOK
    <3>2. Items(todoQ') = Items(todoQ) \cup {updater.hand}
      BY <1>0, <3>1, AddFacts
    <3>3. Items(todoQ)' = Items(todoQ) \cup {updater.hand}
      BY <3>2 DEF Items
    <3> QED
      BY <1>0, <2>0, <3>1, <3>3 DEF Handled
  <2>3. CASE ~ Pick /\ ~ Classify
    <3>1. updater'.hand = updater.hand /\ localTaken' = localTaken /\ todoQ' \in {todoQ, SetDone(todoQ)}
      BY <1>0, <1>4, <2>3 DEF Updater, UReadEmpty, UReadDone, ULock, Skip, FoundNothing,
         UReadAbort, URaiseDone, UGoto
    <3>2. Items(todoQ') = Items(todoQ)
      BY <1>0, <3>1, FlagFacts
    <3> QED
      BY <1>1, <2>0, <3>1, <3>2
  <2> QED
    BY <2>1, <2>2, <2>3
<1>5. ASSUME NEW u \in Uploader, Synchronizer(u)
      PROVE  /\ Handled(f) => Handled(f)'
             /\ Handled(f)' /\ ~ Handled(f) =>
                   sync[u].hand = f /\ (SUpToDate(u) \/ UploadOk(u) \/ UploadFails(u))
  <2>0. /\ UNCHANGED <<updater, localTaken>>
        /\ \A v \in Uploader \ {u} : sync'[v] = sync[v]
    BY <1>5, SyncFrame, OthersSync
  <2>1. CASE SGet(u)
    <3>1. ~ IsEmpty(todoQ) /\ todoQ' = Pop(todoQ)
      BY <2>1 DEF SGet, TodoPopped
    <3>2. sync'[u].hand = Front(todoQ) /\ sync[u].hand = NoAsset
      BY <2>1, SyncFacts DEF Moved, RestOK
    <3>3. Items(todoQ) = Items(todoQ') \cup {Front(todoQ)}
      BY <1>0, <3>1, PopFacts
    <3>4. Items(todoQ) = Items(todoQ)' \cup {Front(todoQ)}
      BY <3>3 DEF Items
    <3> QED
      BY <1>0, <2>0, <3>2, <3>4 DEF Handled
  <2>2. CASE SUpToDate(u) \/ UploadOk(u) \/ UploadFails(u)
    <3>1. todoQ' = todoQ /\ sync'[u].hand = NoAsset
      BY <2>2, SyncFacts DEF Dropped, Moved, SUpToDate, UploadOk, UploadFails
    <3>2. Items(todoQ)' = Items(todoQ)
      BY <3>1 DEF Items
    <3> QED
      BY <1>0, <2>0, <2>2, <3>1, <3>2 DEF Handled
  <2>3. CASE ~ SGet(u) /\ ~ SUpToDate(u) /\ ~ UploadOk(u) /\ ~ UploadFails(u)
    <3>1. todoQ' = todoQ
      BY <1>5, <2>3 DEF Synchronizer, SReadEmpty, SReadDone, SGetNothing, BeginUpload, UploadAgain,
         Retry, SReadAbort
    <3>2. sync'[u].hand = sync[u].hand
      BY <1>5, <2>3, SyncFacts DEF Synchronizer, Kept, Moved
    <3> QED
      BY <1>1, <2>0, <3>1, <3>2
  <2> QED
    BY <2>1, <2>2, <2>3
<1> QED
  BY <1>2, <1>3, <1>4, <1>5, Steps

(* What the container holds, while nothing has failed: a file's object is  *)
(* the one of the start until the file is handled, and then one that       *)
(* passes for a good one; an object the deleter has removed belongs to no  *)
(* file that was visited.                                                  *)
StoredOK ==
    /\ \A f \in File :
           \/ aborted
           \/ stored[f] = before[f]
           \/ f \notin localFed /\ parser = "exit"
           \/ stored[f] \in {"same", "bad"} /\ Handled(f)
    /\ \A f \in File : Handled(f) => aborted \/ Abstract!Passes(f)
    /\ \A p \in RemoteOnly : aborted \/ stored[p] = "absent" \/ p \in deleter.toCheck
    /\ \A p \in Listed : stored[p] = "absent" =>
           parser = "exit" /\ p \notin localFed /\ p \notin deleter.toCheck

(* An upload thread holds a visited file whose object is the one of the    *)
(* start, and uploads only what is not backed up.                          *)
LEMMA InHands ==
    ASSUME FlagInv, Engines, EngineInv, RestOK, HashOK, StatusOK, TodoOK, StoredOK,
           NEW u \in Uploader, sync[u].pc \in {"handle", "upload", "sleep"}
    PROVE  /\ sync[u].hand \in File /\ sync[u].hand \in localFed
           /\ ~ aborted =>
                 /\ stored[sync[u].hand] = before[sync[u].hand]
                 /\ status[sync[u].hand] = "UP_TO_DATE" <=> Abstract!Passes(sync[u].hand)
<1> DEFINE f == sync[u].hand
<1>1. f \in File /\ f # NoAsset /\ status[f] # "UNKNOWN" /\ f \in localTaken
  BY PipelineAssumption DEF RestOK, SyncOK, TodoOK, StatusOK
<1>2. f \in localFed /\ ~ Handled(f)
  BY <1>1 DEF EngineInv, Handled
<1> HIDE DEF f
<1>3. ASSUME ~ aborted
      PROVE  stored[f] = before[f] /\ (status[f] = "UP_TO_DATE" <=> Abstract!Passes(f))
  <2>1. stored[f] = before[f]
    BY <1>1, <1>2, <1>3 DEF StoredOK
  <2>2. status[f] = Verdict(f)
    BY <1>1, <1>3 DEF StatusOK, ClassifiedRight, HashOK
  <2>3. before[f] \in Object
    BY <1>1 DEF RestOK
  <2>4. Verdict(f) = IF before[f] = "absent" THEN "TO_BE_CREATED"
                     ELSE IF before[f] = "changed" THEN "UPDATE_CONTENT_CHANGED"
                     ELSE IF before[f] = "rekey" /\ Crypted THEN "UPDATE_PWD_CHANGED" ELSE "UP_TO_DATE"
    BY <2>3 DEF Verdict, Object
  <2> QED
    BY <2>1, <2>2, <2>3, <2>4 DEF Abstract!Passes, Abstract!Good, Object
<1> QED
  BY <1>1, <1>2, <1>3 DEF f

LEMMA StoredStep ==
    ASSUME FlagInv, Engines, EngineInv, RestOK, HashOK, StatusOK, TodoOK, DeleterOK, StoredOK,
           [Next]_vars
    PROVE  StoredOK'
<1>0. /\ Listed' = Listed /\ before' = before
      /\ aborted => aborted'
      /\ stored \in [File \cup RemoteOnly -> Object]
      /\ deleter \in [pc : {"off", "next", "abort", "exit"}, toCheck : SUBSET Listed]
      /\ Listed \subseteq File \cup RemoteOnly /\ (File \cup Folder) \cap RemoteOnly = {}
      /\ localFed \subseteq File \cup Folder /\ localTaken \subseteq localFed
  BY BeforeFixed, Stays, EngineTypes, PipelineAssumption DEF RestOK, Listed, Asset, EngineInv
<1>1. ASSUME UNCHANGED <<stored, deleter>>, localFed \subseteq localFed',
             parser = "exit" => parser' = "exit" /\ localFed' = localFed,
             \A f \in File : Handled(f)' <=> Handled(f)
      PROVE  StoredOK'
  <2>1. \A f \in File : Abstract!Passes(f)' = Abstract!Passes(f)
    BY <1>1 DEF Abstract!Passes, Abstract!Good
  <2>2. \A f \in File : \/ aborted'
                        \/ stored'[f] = before'[f]
                        \/ f \notin localFed' /\ parser' = "exit"
                        \/ stored'[f] \in {"same", "bad"} /\ Handled(f)'
    BY <1>0, <1>1 DEF StoredOK
  <2>3. \A f \in File : Handled(f)' => aborted' \/ Abstract!Passes(f)'
    BY <1>0, <1>1, <2>1 DEF StoredOK
  <2>4. \A p \in RemoteOnly : aborted' \/ stored'[p] = "absent" \/ p \in deleter'.toCheck
    BY <1>0, <1>1 DEF StoredOK
  <2>5. \A p \in Listed' : stored'[p] = "absent" =>
           parser' = "exit" /\ p \notin localFed' /\ p \notin deleter'.toCheck
    BY <1>0, <1>1 DEF StoredOK
  <2> QED
    BY <2>2, <2>3, <2>4, <2>5 DEF StoredOK
<1>2. \A f \in File :
         /\ Handled(f) => Handled(f)'
         /\ Handled(f)' /\ ~ Handled(f) =>
               \E u \in Uploader : sync[u].hand = f /\ (SUpToDate(u) \/ UploadOk(u) \/ UploadFails(u))
  BY HandledStep
<1>3. ASSUME UNCHANGED sync
      PROVE  \A f \in File : Handled(f)' <=> Handled(f)
  <2>1. \A u \in Uploader : sync[u].hand # NoAsset /\ (SUpToDate(u) \/ UploadOk(u) \/ UploadFails(u)) => sync' # sync
    BY SyncFacts DEF Dropped, Moved
  <2> QED
    BY <1>2, <1>3, <2>1, PipelineAssumption
<1>4. CASE Main
  <2>1. deleter'.toCheck = deleter.toCheck
    BY <1>0, <1>4, MainFrame DEF StartDeleter
  <2>2. UNCHANGED <<stored, localFed>> /\ (parser = "exit" => parser' = "exit")
    BY <1>4, MainFrame DEF StartParser, FlagInv
  <2>3. \A f \in File : Handled(f)' <=> Handled(f)
    <3>1. ASSUME NEW u \in Uploader, SUpToDate(u) \/ UploadOk(u) \/ UploadFails(u)
          PROVE  ~ Main
      <4>1. sync[u].pc \in {"handle", "upload"} /\ sync'[u].pc = "abort"
        BY <3>1, SyncFacts DEF Dropped, Moved
      <4>2. ASSUME NEW v \in Uploader, StartSync(v)
            PROVE  FALSE
        <5>1. Moved(sync', v, "isEmpty", sync[v].hand) /\ sync[v].pc = "off"
          BY <4>2, OneThread DEF StartSync, SPC
        <5> QED
          BY <4>1, <5>1 DEF Moved
      <4> QED
        BY <4>1, <4>2, MainFrame
    <3> QED
      BY <1>2, <1>4, <3>1
  <2>4. \A f \in File : Abstract!Passes(f)' = Abstract!Passes(f)
    BY <2>2 DEF Abstract!Passes, Abstract!Good
  <2> QED
    BY <1>0, <2>1, <2>2, <2>3, <2>4 DEF StoredOK
<1>5. CASE Parser
  <2>1. localFed \subseteq localFed' /\ parser # "exit"
    BY <1>5 DEF Parser, ReadAbort, Throw, DoneLocal, DoneRemote, Visit, VisitRemote
  <2> QED
    BY <1>1, <1>3, <1>5, <2>1, ParserFrame
<1>6. CASE Updater \/ (\E w \in LocalWorker : LocalEngine(w))
           \/ (\E w \in RemoteWorker : RemoteEngine(w)) \/ UNCHANGED vars
  BY <1>1, <1>3, <1>6, UpdaterFrame, LocalFrame, RemoteFrame, StutterFrame
<1>7. ASSUME NEW u \in Uploader, Synchronizer(u)
      PROVE  StoredOK'
  <2>0. UNCHANGED <<parser, localFed, deleter>>
    BY <1>7, SyncFrame
  <2> DEFINE g == sync[u].hand
  <2>1. ASSUME NEW v \in Uploader, SUpToDate(v) \/ UploadOk(v) \/ UploadFails(v)
        PROVE  v = u
    <3>1. sync'[v] # sync[v]
      BY <2>1, SyncFacts DEF Dropped, Moved
    <3> QED
      BY <1>7, <3>1, OthersSync
  <2>2. \A f \in File : Handled(f)' /\ ~ Handled(f) =>
            f = g /\ (SUpToDate(u) \/ UploadOk(u) \/ UploadFails(u))
    BY <1>2, <2>1
  <2>3. CASE UploadOk(u)
    <3>0. PICK h : h = g
      OBVIOUS
    <3>1. sync[u].pc = "upload" /\ aborted' = aborted
      BY <2>3, SyncFacts DEF UploadOk, Dropped
    <3>2. h \in File /\ h \in localFed
      BY <3>0, <3>1, InHands
    <3>3. Handled(h)'
      <4>1. sync'[u].hand = NoAsset /\ todoQ' = todoQ /\ UNCHANGED <<updater, localTaken>>
            /\ \A v \in Uploader \ {u} : sync'[v] = sync[v]
        BY <1>7, <2>3, SyncFacts, SyncFrame, OthersSync DEF Dropped, Moved, UploadOk
      <4>2. Items(todoQ)' = Items(todoQ)
        BY <4>1 DEF Items
      <4>3. h \in localTaken /\ h \notin Items(todoQ) /\ h # updater.hand /\ h # NoAsset
            /\ \A v \in Uploader \ {u} : sync[v].hand # h
        BY <3>0, <3>2, PipelineAssumption DEF TodoOK, StatusOK
      <4> QED
        BY <4>1, <4>2, <4>3 DEF Handled
    <3>o. PICK o : /\ o \in {"same", "bad", "changed"} /\ stored' = [stored EXCEPT ![h] = o]
                   /\ ~ aborted => o \in {"same", "bad"}
      BY <2>3, <3>0, <3>2, UploadFacts DEF HashOK
    <3>4. \A p \in File \cup RemoteOnly : stored'[p] = IF p = h THEN o ELSE stored[p]
      BY <1>0, <3>o
    <3>5. ~ aborted => \A f \in File : Abstract!Passes(f)' <=> f = h \/ Abstract!Passes(f)
      BY <3>2, <3>o, <3>4 DEF Abstract!Passes, Abstract!Good
    <3>6. \A f \in File : Handled(f)' => aborted' \/ Abstract!Passes(f)'
      BY <1>0, <2>2, <3>0, <3>1, <3>5 DEF StoredOK
    <3>7. \A f \in File : \/ aborted'
                          \/ stored'[f] = before'[f]
                          \/ f \notin localFed' /\ parser' = "exit"
                          \/ stored'[f] \in {"same", "bad"} /\ Handled(f)'
      BY <1>0, <1>2, <2>0, <3>1, <3>3, <3>o, <3>4 DEF StoredOK
    <3>8. \A p \in RemoteOnly : aborted' \/ stored'[p] = "absent" \/ p \in deleter'.toCheck
      BY <1>0, <2>0, <3>2, <3>4 DEF StoredOK
    <3>9. \A p \in Listed' : stored'[p] = "absent" =>
             parser' = "exit" /\ p \notin localFed' /\ p \notin deleter'.toCheck
      BY <1>0, <2>0, <3>2, <3>o, <3>4 DEF StoredOK
    <3> QED
      BY <3>6, <3>7, <3>8, <3>9 DEF StoredOK
  <2>4. CASE UploadFails(u)
    <3>1. /\ aborted'
          /\ \/ stored' = stored
             \/ \E o \in {"same", "bad", "changed"} : stored' = [stored EXCEPT ![g] = o]
      BY <2>4, UploadFacts
    <3>2. \A p \in Listed : stored'[p] = "absent" => stored[p] = "absent"
      BY <1>0, <3>1
    <3> QED
      BY <1>0, <2>0, <3>1, <3>2 DEF StoredOK
  <2>5. CASE SUpToDate(u)
    <3>1. stored' = stored /\ sync[u].pc = "handle" /\ status[g] = "UP_TO_DATE" /\ aborted' = aborted
      BY <2>5, SyncFacts DEF SUpToDate, Dropped
    <3>2. aborted \/ Abstract!Passes(g)
      BY <3>1, InHands
    <3> HIDE DEF g
    <3>3. \A f \in File : Abstract!Passes(f)' = Abstract!Passes(f)
      BY <3>1 DEF Abstract!Passes, Abstract!Good
    <3>4. \A f \in File : Handled(f)' => aborted' \/ Abstract!Passes(f)'
      BY <1>0, <2>2, <3>1, <3>2, <3>3 DEF StoredOK
    <3> QED
      BY <1>0, <1>2, <2>0, <3>1, <3>4 DEF StoredOK
  <2>6. CASE ~ UploadOk(u) /\ ~ UploadFails(u) /\ ~ SUpToDate(u)
    <3>1. stored' = stored
      BY <1>7, <2>6 DEF Synchronizer, SReadEmpty, SReadDone, SGet, SGetNothing, BeginUpload,
         UploadAgain, Retry, SReadAbort
    <3> QED
      BY <1>1, <1>2, <2>0, <2>2, <2>6, <3>1
  <2> QED
    BY <2>3, <2>4, <2>5, <2>6
<1>8. CASE Deleter
  <2>0. UNCHANGED <<parser, localFed, sync>> /\ deleter.pc # "off" /\ parser = "exit"
    BY <1>8, DeleterFrame DEF Deleter, DReadAbort, DEnd, DeleterOK
  <2>1. \A f \in File : Handled(f)' <=> Handled(f)
    BY <1>3, <2>0
  <2>2. CASE DReadAbort \/ DEnd
    <3>1. deleter'.toCheck = deleter.toCheck /\ stored' = stored
      BY <1>0, <2>2 DEF DReadAbort, DEnd
    <3>2. \A f \in File : Abstract!Passes(f)' = Abstract!Passes(f)
      BY <3>1 DEF Abstract!Passes, Abstract!Good
    <3> QED
      BY <1>0, <2>0, <2>1, <3>1, <3>2 DEF StoredOK
  <2>3. ASSUME NEW p \in deleter.toCheck, Keep(p)
        PROVE  StoredOK'
    <3>1. stored' = stored /\ deleter'.toCheck = deleter.toCheck \ {p} /\ p \in localFed
      BY <2>3 DEF Keep, DChecked, Find
    <3>2. p \notin RemoteOnly
      BY <1>0, <3>1
    <3>3. \A f \in File : Abstract!Passes(f)' = Abstract!Passes(f)
      BY <3>1 DEF Abstract!Passes, Abstract!Good
    <3> QED
      BY <1>0, <2>0, <2>1, <3>1, <3>2, <3>3 DEF StoredOK
  <2>4. ASSUME NEW p \in deleter.toCheck, Delete(p)
        PROVE  StoredOK'
    <3>1. /\ stored' = [stored EXCEPT ![p] = "absent"] /\ p \notin localFed
          /\ deleter'.toCheck = deleter.toCheck \ {p} /\ aborted' = aborted
      BY <2>4 DEF Delete, DChecked, Find
    <3>2. \A q \in File \cup RemoteOnly : stored'[q] = IF q = p THEN "absent" ELSE stored[q]
      BY <1>0, <3>1
    <3>3. \A f \in File : Handled(f) => f # p
      BY <1>0, <3>1 DEF Handled
    <3>4. \A f \in File : f # p => Abstract!Passes(f)' = Abstract!Passes(f)
      BY <3>2 DEF Abstract!Passes, Abstract!Good
    <3>5. \A f \in File : Handled(f)' => aborted' \/ Abstract!Passes(f)'
      BY <2>1, <3>1, <3>3, <3>4 DEF StoredOK
    <3>6. \A f \in File : \/ aborted'
                          \/ stored'[f] = before'[f]
                          \/ f \notin localFed' /\ parser' = "exit"
                          \/ stored'[f] \in {"same", "bad"} /\ Handled(f)'
      BY <1>0, <2>0, <2>1, <3>1, <3>2 DEF StoredOK
    <3>7. \A q \in RemoteOnly : aborted' \/ stored'[q] = "absent" \/ q \in deleter'.toCheck
      BY <1>0, <3>1, <3>2 DEF StoredOK
    <3>8. \A q \in Listed' : stored'[q] = "absent" =>
             parser' = "exit" /\ q \notin localFed' /\ q \notin deleter'.toCheck
      BY <1>0, <2>0, <3>1, <3>2 DEF StoredOK
    <3> QED
      BY <3>5, <3>6, <3>7, <3>8 DEF StoredOK
  <2>5. ASSUME NEW p \in deleter.toCheck, DeleteFails(p)
        PROVE  StoredOK'
    <3>1. stored' = stored /\ aborted' /\ deleter'.toCheck = deleter.toCheck \ {p}
      BY <2>5 DEF DeleteFails, DChecked
    <3> QED
      BY <1>0, <2>0, <3>1 DEF StoredOK
  <2> QED
    BY <1>8, <2>2, <2>3, <2>4, <2>5 DEF Deleter
<1> QED
  BY <1>4, <1>5, <1>6, <1>7, <1>8, Steps

-----------------------------------------------------------------------------
(* The inductive invariant of the pipeline's own threads; EngineInv, which *)
(* the engines' theorems give, holds beside it.                            *)
ThreadInv ==
    /\ FlagInv /\ Engines /\ RestOK
    /\ ParserOK /\ PublishedOK /\ HashOK /\ StatusOK /\ TodoOK
    /\ DeleterOK /\ StoredOK /\ CountersOK /\ LateOK
    /\ PureOK /\ QuitOK /\ UnwindOK /\ RetryOK

LEMMA ThreadInit ==
    ASSUME Init, FlagInv, Engines
    PROVE  ThreadInv
<1>0. /\ Items(localDoneQ) = {} /\ Items(todoQ) = {} /\ Items(remoteQ) = {} /\ Distinct(todoQ)
      /\ ~ todoQ.done /\ ~ localQ.done /\ localTaken = {} /\ localFed = {} /\ dstHash = {}
      /\ updater.pc = "off" /\ updater.hand = NoAsset /\ deleter.pc = "off" /\ deleter.toCheck = Listed
      /\ main = "startParser" /\ parser = "off" /\ aborted = FALSE
      /\ stored = before /\ before \in [File \cup RemoteOnly -> Object]
      /\ srcHash = [f \in File |-> "none"] /\ status = [f \in File |-> "UNKNOWN"]
      /\ lPc = [w \in LocalWorker |-> "off"] /\ rPc = [w \in RemoteWorker |-> "off"]
      /\ \A u \in Uploader : sync[u].pc = "off" /\ sync[u].hand = NoAsset /\ ~ sync[u].retried
      /\ late = [t \in Uploader \cup {"deleter"} |-> 0]
      /\ counter = [upToDate |-> 0, uploading |-> 0, uploaded |-> 0, deleted |-> 0]
  BY NewQueueFacts, PipelineAssumption DEF Init
<1>1. RestOK
  BY RestInit
<1>2. ParserOK /\ PublishedOK /\ PureOK /\ DeleterOK
  BY <1>0 DEF ParserOK, PublishedOK, PureOK, DeleterOK, Unwinding
<1>3. HashOK /\ StatusOK /\ TodoOK
  <2>1. Hashed = {}
    BY <1>0 DEF Hashed
  <2> QED
    BY <1>0, <2>1 DEF HashOK, StatusOK, TodoOK, ClassifiedRight
<1>4. StoredOK
  <2>1. \A f \in File : ~ Handled(f)
    BY <1>0 DEF Handled
  <2>2. \A p \in RemoteOnly : stored[p] = "absent" \/ p \in Listed
    BY <1>0 DEF Listed
  <2>3. \A p \in Listed : stored[p] # "absent"
    BY <1>0 DEF Listed
  <2> QED
    BY <1>0, <2>1, <2>2, <2>3 DEF StoredOK
<1>5. CountersOK
  <2>1. Working = {}
    BY <1>0 DEF Working
  <2> QED
    BY <1>0, <2>1, FS_EmptySet DEF CountersOK
<1>6. LateOK /\ QuitOK /\ UnwindOK /\ RetryOK
  BY <1>0 DEF LateOK, QuitOK, UnwindOK, Unwinding, RetryOK
<1> QED
  BY <1>1, <1>2, <1>3, <1>4, <1>5, <1>6 DEF ThreadInv

LEMMA ThreadStep ==
    ASSUME ThreadInv, EngineInv, FlagInv', Engines', [Next]_vars
    PROVE  ThreadInv'
<1> USE DEF ThreadInv
<1>1. RestOK' /\ ParserOK' /\ PublishedOK' /\ HashOK'
  BY RestStep, ParserStep, PublishedStep, HashStep
<1>2. StatusOK' /\ TodoOK' /\ DeleterOK' /\ LateOK'
  BY StatusStep, TodoStep, DeleterStep, LateStep
<1>3. StoredOK' /\ CountersOK'
  BY StoredStep, CountersStep
<1>4. PureOK' /\ QuitOK' /\ UnwindOK' /\ RetryOK'
  BY PureStep, QuitStep, UnwindStep, RetryStep
<1> QED
  BY <1>1, <1>2, <1>3, <1>4

LEMMA ThreadInvariant == Safety => [](ThreadInv /\ EngineInv)
<1>1. Init /\ FlagInv /\ Engines => ThreadInv
  BY ThreadInit
<1>2. ThreadInv /\ EngineInv /\ (FlagInv /\ Engines)' /\ [Next]_vars => ThreadInv'
  BY ThreadStep
<1>3. Safety => [](FlagInv /\ Engines /\ EngineInv)
  BY EngineInvariant
<1> QED
  BY <1>1, <1>2, <1>3, PTL DEF Safety

(* Every variable keeps its type whatever goes wrong: no thread handles a  *)
(* null pointer, the counter of uploads under way does not fall below zero *)
(* (main.cpp:563-599).                                                     *)
THEOREM TypeCorrect == Safety => []TypeOK
<1>1. ThreadInv => TypeOK
  <2> SUFFICES ASSUME ThreadInv PROVE TypeOK
    OBVIOUS
  <2> USE DEF ThreadInv
  <2>1. Local!TypeOK
    <3>1. LocalP!TypeOK
      BY DEF Engines, LocalP!Book
    <3> QED
      BY <3>1 DEF LocalP!TypeOK, LocalP!QueueOf, LocalP!PC, LocalP!Cardinality,
         Local!TypeOK, Local!QueueOf, Local!PC, Local!Cardinality
  <2>2. Remote!TypeOK
    <3>1. RemoteP!TypeOK
      BY DEF Engines, RemoteP!Book
    <3> QED
      BY <3>1 DEF RemoteP!TypeOK, RemoteP!QueueOf, RemoteP!PC, RemoteP!Cardinality,
         Remote!TypeOK, Remote!QueueOf, Remote!PC, Remote!Cardinality
  <2>3. /\ main \in {"startParser", "startLocal", "startRemote", "startUpdater", "startSync",
                     "waitParser", "wait"} \cup Unwinding
        /\ updater \in [pc : UPC, at : Nat \ {0}, hand : File \cup {NoAsset}]
        /\ localDoneQ.locked <=> updater.pc = "scan"
    BY DEF FlagInv, Starting
  <2>4. /\ counter \in [{"upToDate", "uploading", "uploaded", "deleted"} -> Nat]
        /\ late \in [Uploader \cup {"deleter"} -> Nat]
    BY DEF CountersOK, LateOK
  <2> QED
    BY <2>1, <2>2, <2>3, <2>4 DEF RestOK, SyncOK, TypeOK
<1> QED
  BY <1>1, ThreadInvariant, PTL

(* Once the program aborts, no thread begins more than one request         *)
(* (main.cpp:586, 604, 695).                                               *)
THEOREM AbortPrompt == Safety => []AbortIsPrompt
<1>1. ThreadInv => AbortIsPrompt
  BY DEF ThreadInv, LateOK, AbortIsPrompt
<1> QED
  BY <1>1, ThreadInvariant, PTL

(* The code's own asserts hold whatever the interleaving (main.cpp:390,    *)
(* 424, 436, 566-573).                                                     *)
THEOREM AssertionsHold == Safety => []SourceAssertions
<1>1. ThreadInv => SourceAssertions
  <2> SUFFICES ASSUME ThreadInv PROVE SourceAssertions
    OBVIOUS
  <2> USE DEF ThreadInv
  <2>1. ASSUME NEW i \in 1 .. Len(localDoneQ.items), localDoneQ.items[i] \in File
        PROVE  srcHash[localDoneQ.items[i]] # "none"
    <3>1. localDoneQ.items[i] \in Items(localDoneQ)
      BY EngineTypes, ItemsOfQueue
    <3> QED
      BY <2>1, <3>1 DEF HashOK, Hashed
  <2>2. ASSUME updater.pc = "classify"
        PROVE  updater.hand \in File /\ (updater.hand \in Listed => updater.hand \in dstHash)
    BY <2>2 DEF RestOK, FlagInv, StatusOK
  <2>3. ASSUME NEW u \in Uploader, sync[u].pc \in {"handle", "upload", "sleep"}
        PROVE  sync[u].hand \in File /\ status[sync[u].hand] # "UNKNOWN"
    BY <2>3 DEF RestOK, SyncOK, TodoOK
  <2> QED
    BY <2>1, <2>2, <2>3 DEF SourceAssertions
<1> QED
  BY <1>1, ThreadInvariant, PTL

(* No file is classified from half-published remote fields (main.cpp:      *)
(* 265-282, 403-407).                                                      *)
THEOREM ClassifiedFromAll == Safety => []ClassifiedRight
<1>1. ThreadInv => ClassifiedRight
  BY DEF ThreadInv, StatusOK
<1> QED
  BY <1>1, ThreadInvariant, PTL

(* When main() has left the wait for its threads and nothing has failed,   *)
(* all has been read, handed on and taken, but for what is in missed.      *)
LEMMA AtTheEnd ==
    ASSUME ThreadInv, EngineInv, ~ aborted, ~ lOver,
           \A u \in Uploader : sync[u].pc = "exit"
    PROVE  /\ updater.pc = "exit" /\ localDoneQ.done
           /\ localQ.done /\ localFed \subseteq missed \cup localTaken
           /\ Items(todoQ) \subseteq missed
<1>1. todoQ.done /\ Items(todoQ) \subseteq missed
  BY PipelineAssumption DEF ThreadInv, QuitOK
<1>2. updater.pc = "exit" /\ localDoneQ.done /\ Items(localDoneQ) \subseteq missed
  BY <1>1 DEF ThreadInv, QuitOK
<1> QED
  BY <1>1, <1>2 DEF EngineInv

(* A worker meets its engine's destructor only with work the run no longer *)
(* needs (process.cpp:36-39, main.cpp:823-842).                            *)
THEOREM UnwindsInOrder == Safety => []UnwoundInOrder
<1>1. ThreadInv /\ EngineInv => UnwoundInOrder
  <2> SUFFICES ASSUME ThreadInv, EngineInv, ~ aborted, ~ lOver
               PROVE  /\ ~ Local!Terminated
                      /\ \A w \in RemoteWorker :
                            rPc[w] = "pure" => rHand[w] \notin Listed \/ rHand[w] \in missed
    BY DEF UnwoundInOrder, Overtaken
  <2> USE DEF ThreadInv
  <2>1. ASSUME NEW w \in LocalWorker
        PROVE  lPc[w] # "pure"
    <3>1. CASE LocalDerived
      BY <3>1 DEF PureOK
    <3>2. CASE ~ LocalDerived
      <4>1. \A u \in Uploader : sync[u].pc = "exit"
        BY <3>2 DEF LocalDerived, UnwindOK, Unwinding
      <4>2. localDoneQ.done
        BY <4>1, AtTheEnd
      <4> QED
        BY <4>2 DEF EngineInv
    <3> QED
      BY <3>1, <3>2
  <2>2. ASSUME NEW w \in RemoteWorker, rPc[w] = "pure", rHand[w] \in Listed
        PROVE  rHand[w] \in missed
    <3>1. main \in Unwinding
      BY <2>2 DEF PureOK, RemoteDerived
    <3>2. localFed \subseteq missed \cup localTaken
      BY <3>1, AtTheEnd DEF UnwindOK
    <3>3. rHand[w] # NoAsset
      BY <2>2, PipelineAssumption DEF Listed, RestOK
    <3>4. rHand[w] \in localFed
      BY <3>3 DEF EngineInv, RemoteHeld, FlagInv
    <3>5. rHand[w] \notin localTaken
      BY <2>2 DEF PublishedOK, StatusOK
    <3> QED
      BY <3>2, <3>4, <3>5
  <2> QED
    BY <2>1, <2>2 DEF Local!Terminated
<1> QED
  BY <1>1, ThreadInvariant, PTL

-----------------------------------------------------------------------------
(* The refinement: what each step does to the container and to missed.     *)
Impaired == aborted \/ Threw \/ Overtaken
Quiet    == UNCHANGED <<main, aborted, parser, localQ, lOver, rOver>>

LEMMA Effects ==
    ASSUME RestOK, [Next]_vars
    PROVE  \/ stored' = stored /\ missed' = missed
           \/ /\ stored' = stored /\ missed \subseteq missed' /\ Quiet
              /\ updater.pc = "done" \/ \E u \in Uploader : sync[u].pc = "done"
           \/ /\ missed' = missed /\ Quiet
              /\ \E u \in Uploader : UploadOk(u)
           \/ /\ missed' = missed
              /\ \E u \in Uploader : UploadFails(u)
           \/ /\ missed' = missed /\ Quiet /\ deleter.pc = "next"
              /\ \E p \in deleter.toCheck : Delete(p)
<1>1. CASE Updater
  <2>1. stored' = stored /\ Quiet
    BY <1>1, UpdaterFrame DEF Quiet
  <2>2. UReadDone \/ missed' = missed
    BY <1>1 DEF Updater, UReadEmpty, ULock, Skip, Pick, FoundNothing, Classify, UReadAbort, URaiseDone
  <2> QED
    BY <2>1, <2>2 DEF UReadDone, UGoto
<1>2. ASSUME NEW u \in Uploader, Synchronizer(u)
      PROVE  \/ stored' = stored /\ missed' = missed
             \/ stored' = stored /\ missed \subseteq missed' /\ Quiet /\ sync[u].pc = "done"
             \/ missed' = missed /\ Quiet /\ UploadOk(u)
             \/ missed' = missed /\ UploadFails(u)
  <2>1. CASE SReadDone(u)
    <3>1. Quiet
      BY <1>2, <2>1, SyncFrame DEF SReadDone, Quiet
    <3> QED
      BY <2>1, <3>1 DEF SReadDone, SGoto
  <2>2. CASE UploadOk(u)
    <3>1. Quiet
      BY <1>2, <2>2, SyncFrame DEF UploadOk, Quiet
    <3> QED
      BY <2>2, <3>1 DEF UploadOk
  <2>3. CASE UploadFails(u)
    BY <2>3 DEF UploadFails
  <2>4. CASE ~ SReadDone(u) /\ ~ UploadOk(u) /\ ~ UploadFails(u)
    BY <1>2, <2>4 DEF Synchronizer, SReadEmpty, SGet, SGetNothing, SUpToDate, BeginUpload,
       UploadAgain, Retry, SReadAbort
  <2> QED
    BY <2>1, <2>2, <2>3, <2>4
<1>3. CASE Deleter
  <2>1. missed' = missed
    BY <1>3, DeleterFrame
  <2>2. ASSUME NEW p \in deleter.toCheck, Delete(p)
        PROVE  Quiet
    BY <1>3, <2>2, DeleterFrame DEF Delete, Quiet
  <2> QED
    BY <1>3, <2>1, <2>2 DEF Deleter, DReadAbort, DEnd, Keep, DeleteFails
<1>4. CASE Main \/ Parser \/ (\E w \in LocalWorker : LocalEngine(w))
           \/ (\E w \in RemoteWorker : RemoteEngine(w)) \/ UNCHANGED vars
  BY <1>4, MainFrame, ParserFrame, LocalFrame, RemoteFrame, StutterFrame
<1> QED
  BY <1>1, <1>2, <1>3, <1>4, Steps

LEMMA ImpairedStays ==
    ASSUME FlagInv, Engines, [Next]_vars, Impaired
    PROVE  Impaired'
<1>1. CASE aborted \/ lOver \/ rOver
  BY <1>1, Stays DEF Impaired, Overtaken
<1>2. CASE Threw
  <2>1. parser = "exit" /\ ~ localQ.done
    BY <1>2 DEF Threw
  <2>2. parser' = "exit" /\ localQ'.done = localQ.done
    <3>1. CASE Main
      BY <2>1, <3>1, MainFrame DEF StartParser, FlagInv
    <3>2. CASE Parser
      BY <2>1, <3>2 DEF Parser, ReadAbort, Throw, DoneLocal, DoneRemote, Visit, VisitRemote
    <3>3. ASSUME NEW w \in LocalWorker, LocalEngine(w)
          PROVE  parser' = "exit" /\ localQ'.done = localQ.done
      BY <2>1, <3>3, LocalFrame, WorkerFlags
    <3>4. CASE Updater \/ Deleter \/ (\E u \in Uploader : Synchronizer(u))
               \/ (\E w \in RemoteWorker : RemoteEngine(w)) \/ UNCHANGED vars
      BY <2>1, <3>4, UpdaterFrame, DeleterFrame, SyncFrame, RemoteFrame, StutterFrame
    <3> QED
      BY <3>1, <3>2, <3>3, <3>4, Steps
  <2> QED
    BY <2>1, <2>2 DEF Impaired, Threw
<1> QED
  BY <1>1, <1>2 DEF Impaired, Overtaken

\* The abstract state and the refinement mapping's other parts.
Phase == CASE aborted \/ Threw \/ Overtaken -> "impaired"
           [] main \in Unwinding /\ ~ (aborted \/ Threw \/ Overtaken) -> "complete"
           [] OTHER -> "running"

LEMMA PhaseFacts ==
    /\ Impaired => Phase = "impaired"
    /\ ~ Impaired /\ main \in Unwinding => Phase = "complete"
    /\ ~ Impaired /\ main \notin Unwinding => Phase = "running"
BY DEF Phase, Impaired

LEMMA PhaseFactsNext ==
    /\ Impaired' => Phase' = "impaired"
    /\ ~ Impaired' /\ main' \in Unwinding => Phase' = "complete"
    /\ ~ Impaired' /\ main' \notin Unwinding => Phase' = "running"
BY DEF Phase, Impaired, Unwinding, Threw, Overtaken

(* Each step of the pipeline is one of a Backup, or changes nothing it     *)
(* shows.                                                                  *)
LEMMA BackupStep ==
    ASSUME ThreadInv, EngineInv, [Next]_vars
    PROVE  [Abstract!Next]_(Abstract!vars)
<1> USE DEF ThreadInv
<1> DEFINE left == missed \cap File
<1>0. /\ stored \in [File \cup RemoteOnly -> Object]
      /\ deleter.toCheck \subseteq File \cup RemoteOnly /\ deleter.toCheck \subseteq Listed
  BY PipelineAssumption DEF RestOK, Listed
<1>1. ASSUME NEW u \in Uploader, UploadOk(u)
      PROVE  \E f \in File, o \in {"same", "bad", "changed"} :
                /\ stored' = [stored EXCEPT ![f] = o]
                /\ ~ aborted =>
                      ~ Abstract!Passes(f) /\ (o = "same" \/ (o = "bad" /\ Crypted /\ "500" \in Faults))
  <2>0. sync[u].pc = "upload" /\ sync[u].hand # NoAsset
    BY <1>1, SyncFacts DEF Dropped, RestOK
  <2>1. status[sync[u].hand] # "UP_TO_DATE"
    BY <2>0 DEF TodoOK
  <2>2. sync[u].hand \in File /\ (~ aborted => ~ Abstract!Passes(sync[u].hand))
    BY <2>0, <2>1, InHands
  <2>3. PICK o \in MayBeStored(u) : stored' = [stored EXCEPT ![sync[u].hand] = o]
    BY <1>1, UploadFacts
  <2>4. o \in {"same", "bad", "changed"}
    BY <2>3, UploadFacts
  <2>5. ~ aborted => o = "same" \/ (o = "bad" /\ Crypted /\ "500" \in Faults)
    <3>1. SUFFICES ASSUME ~ aborted PROVE o = "same" \/ (o = "bad" /\ Crypted /\ "500" \in Faults)
      OBVIOUS
    <3>2. srcHash[sync[u].hand] # "truncated"
      BY <2>2, <3>1 DEF HashOK
    <3>3. o \in {"same", "bad"} /\ (o = "bad" => Crypted /\ sync[u].retried)
      BY <2>3, <3>2, UploadFacts
    <3>4. sync[u].retried => "500" \in Faults
      BY Zenon DEF RetryOK
    <3>5. o = "bad" => Crypted /\ "500" \in Faults
      BY Zenon, <3>3, <3>4
    <3> QED
      BY <3>3, <3>5
  <2> QED
    BY <2>2, <2>3, <2>4, <2>5
<1>2. ASSUME NEW u \in Uploader, UploadFails(u)
      PROVE  /\ aborted'
             /\ \/ stored' = stored
                \/ \E f \in File, o \in {"same", "bad", "changed"} :
                      stored' = [stored EXCEPT ![f] = o]
  <2>1. sync[u].hand \in File
    BY <1>2, SyncFacts, InHands DEF Dropped
  <2> QED
    BY <1>2, <2>1, UploadFacts
<1>3. ASSUME NEW p \in deleter.toCheck, Delete(p), deleter.pc = "next"
      PROVE  /\ RemoveNonExisting /\ stored' = [stored EXCEPT ![p] = "absent"]
             /\ ~ Impaired => p \in RemoteOnly
  <2>1. /\ RemoveNonExisting /\ parser = "exit" /\ p \notin localFed
        /\ stored' = [stored EXCEPT ![p] = "absent"]
    BY <1>3 DEF DeleterOK, Delete, Find
  <2>2. ~ Impaired => localFed = Asset
    BY <2>1 DEF Impaired, Threw, ParserOK
  <2> QED
    BY <1>0, <2>1, <2>2 DEF Asset
<1>4. CASE Impaired
  <2>1. Phase = "impaired" /\ Phase' = "impaired"
    BY <1>4, ImpairedStays, PhaseFacts, PhaseFactsNext
  <2>2. CASE stored' = stored /\ missed \subseteq missed'
    <3>1. left' \in SUBSET File /\ left' = left \cup left'
      BY <2>2
    <3>2. Abstract!Leave(left')
      BY <2>1, <2>2, <3>1 DEF Abstract!Leave, Phase
    <3> QED
      BY <3>1, <3>2 DEF Abstract!Next
  <2>3. ASSUME missed' = missed, NEW u \in Uploader, UploadOk(u) \/ UploadFails(u)
        PROVE  [Abstract!Next]_(Abstract!vars)
    <3>1. stored' = stored \/ Abstract!Disturb
      BY <1>1, <1>2, <2>1, <2>3 DEF Abstract!Disturb, Phase
    <3> QED
      BY <2>1, <2>2, <2>3, <3>1 DEF Abstract!Next
  <2>4. ASSUME missed' = missed, NEW p \in deleter.toCheck, Delete(p), deleter.pc = "next"
        PROVE  [Abstract!Next]_(Abstract!vars)
    <3>1. Abstract!Disturb
      BY <1>0, <1>3, <2>1, <2>4 DEF Abstract!Disturb, Phase
    <3> QED
      BY <3>1 DEF Abstract!Next
  <2> QED
    BY <2>2, <2>3, <2>4, Effects
<1>5. CASE ~ Impaired /\ Impaired'
  <2>1. ~ Quiet
    BY <1>5 DEF Quiet, Impaired, Threw, Overtaken
  <2>2. missed' = missed /\ (stored' = stored \/ \E u \in Uploader : UploadFails(u))
    BY <2>1, Effects
  <2>3. Phase # "impaired" /\ Phase' = "impaired"
    BY <1>5, PhaseFacts, PhaseFactsNext
  <2>4. Abstract!Fail
    BY <1>2, <2>2, <2>3 DEF Abstract!Fail, Phase
  <2> QED
    BY <2>4 DEF Abstract!Next
<1>6. CASE ~ Impaired /\ ~ Impaired' /\ main \in Unwinding
  <2>1. /\ ~ aborted /\ ~ lOver /\ ~ aborted'
        /\ deleter.pc = "exit" /\ \A u \in Uploader : sync[u].pc = "exit"
    BY <1>6 DEF Impaired, Overtaken, UnwindOK
  <2>2. updater.pc = "exit"
    BY <2>1, AtTheEnd
  <2>3. stored' = stored /\ missed' = missed
    BY <2>1, <2>2, Effects, SyncFacts DEF Dropped
  <2>4. main' \in Unwinding
    BY <1>6, Steps, ParserFrame, LocalFrame, RemoteFrame, UpdaterFrame, SyncFrame, DeleterFrame, StutterFrame
       DEF Main, StartParser, StartLocal, StartRemote, StartUpdater, StartSync, StartDeleter, Summary,
           Unwind, Joined, Unwinding
  <2>5. Phase' = Phase
    BY <1>6, <2>4, PhaseFacts, PhaseFactsNext
  <2> QED
    BY <2>3, <2>5 DEF Abstract!vars, Phase
<1>7. CASE ~ Impaired /\ ~ Impaired' /\ main \notin Unwinding /\ main' \in Unwinding
  <2>1. Summary
    BY <1>7, Steps, ParserFrame, LocalFrame, RemoteFrame, UpdaterFrame, SyncFrame, DeleterFrame, StutterFrame
       DEF Main, StartParser, StartLocal, StartRemote, StartUpdater, StartSync, StartDeleter,
           Unwind, Joined, Unwinding
  <2>2. /\ deleter.pc = "exit" /\ \A u \in Uploader : sync[u].pc = "exit"
        /\ UNCHANGED <<stored, missed>> /\ ~ aborted /\ ~ lOver
    BY <1>7, <2>1 DEF Summary, mainRest, Impaired, Overtaken
  <2>3. /\ updater.pc = "exit" /\ localDoneQ.done /\ localQ.done
        /\ localFed \subseteq missed \cup localTaken /\ Items(todoQ) \subseteq missed
    BY <2>2, AtTheEnd
  <2>4. localFed = Asset
    BY <2>2, <2>3 DEF DeleterOK, ParserOK
  <2>5. ASSUME NEW f \in File
        PROVE  Abstract!Passes(f) \/ f \in missed
    <3>1. SUFFICES ASSUME f \in localTaken, f \notin missed PROVE Handled(f)
      BY <2>2, <2>3, <2>4 DEF StoredOK, Asset
    <3>2. updater.hand = NoAsset /\ \A u \in Uploader : sync[u].hand = NoAsset
      BY <2>2, <2>3 DEF RestOK
    <3> QED
      BY <2>3, <3>1, <3>2, PipelineAssumption DEF Handled
  <2>6. RemoveNonExisting => \A p \in RemoteOnly : stored[p] = "absent"
    BY <2>2 DEF DeleterOK, StoredOK
  <2>7. Phase = "running" /\ Phase' = "complete"
    BY <1>7, PhaseFacts, PhaseFactsNext
  <2>8. Abstract!End
    BY <2>2, <2>5, <2>6, <2>7 DEF Abstract!End, Phase
  <2> QED
    BY <2>8 DEF Abstract!Next
<1>8. CASE ~ Impaired /\ ~ Impaired' /\ main \notin Unwinding /\ main' \notin Unwinding
  <2>1. Phase = "running" /\ Phase' = "running" /\ ~ aborted'
    BY <1>8, PhaseFacts, PhaseFactsNext DEF Impaired
  <2>2. CASE stored' = stored /\ missed \subseteq missed'
    <3>1. left' \in SUBSET File /\ left' = left \cup left'
      BY <2>2
    <3>2. Abstract!Leave(left')
      BY <2>1, <2>2, <3>1 DEF Abstract!Leave, Phase
    <3> QED
      BY <3>1, <3>2 DEF Abstract!Next
  <2>3. ASSUME missed' = missed, NEW u \in Uploader, UploadOk(u)
        PROVE  [Abstract!Next]_(Abstract!vars)
    <3>1. ~ aborted
      BY <1>8 DEF Impaired
    <3>2. PICK f \in File, o \in {"same", "bad"} :
                /\ stored' = [stored EXCEPT ![f] = o] /\ ~ Abstract!Passes(f)
                /\ o = "bad" => Crypted /\ "500" \in Faults
      BY <1>1, <2>3, <3>1
    <3>3. Abstract!Store(f) \/ Abstract!Spoil(f)
      BY <2>1, <2>3, <3>2 DEF Abstract!Store, Abstract!Spoil, Phase
    <3> QED
      BY <3>3 DEF Abstract!Next
  <2>4. ASSUME missed' = missed, NEW p \in deleter.toCheck, Delete(p), deleter.pc = "next"
        PROVE  [Abstract!Next]_(Abstract!vars)
    <3>1. p \in RemoteOnly /\ Abstract!Discard(p)
      BY <1>3, <1>8, <2>1, <2>4 DEF Abstract!Discard, Phase
    <3> QED
      BY <3>1 DEF Abstract!Next
  <2> QED
    BY <1>2, <2>1, <2>2, <2>3, <2>4, Effects
<1> QED
  BY <1>4, <1>5, <1>6, <1>7, <1>8

(* The pipeline implements its abstract specification: seen from the       *)
(* container, a run of all these threads is a Backup (main.cpp:421,        *)
(* 561-611, 676-697).                                                      *)
THEOREM RunIsABackup == Safety => ImplementsBackup
<1>1. Init => Abstract!Init
  BY DEF Init, Abstract!Init, Threw, Overtaken, Unwinding
<1>2. ThreadInv /\ EngineInv /\ [Next]_vars => [Abstract!Next]_(Abstract!vars)
  BY BackupStep
<1> QED
  BY <1>1, <1>2, ThreadInvariant, PTL DEF Safety, ImplementsBackup, Abstract!Spec

-----------------------------------------------------------------------------
(* The tally.  Each term counts a set of files, and the sets share out     *)
(* what the parser queued; only the handled files are left for counters.   *)
LEMMA SameCount ==
    ASSUME NEW S, NEW T, IsFiniteSet(S), NEW g \in [S -> T],
           \A x, y \in S : g[x] = g[y] => x = y,
           \A t \in T : \E x \in S : g[x] = t
    PROVE  IsFiniteSet(T) /\ Cardinality(T) = Cardinality(S)
<1>1. ExistsBijection(S, T)
  BY DEF ExistsBijection, Bijection, Injection, Surjection, IsInjective
<1> QED
  BY <1>1, FS_Bijection

LEMMA Disjoint ==
    ASSUME NEW S, IsFiniteSet(S), NEW T, IsFiniteSet(T), S \cap T = {}
    PROVE  /\ IsFiniteSet(S \cup T)
           /\ Cardinality(S \cup T) = Cardinality(S) + Cardinality(T)
           /\ Cardinality(S) \in Nat /\ Cardinality(T) \in Nat
BY FS_Union, FS_EmptySet, FS_CardinalityType

LEMMA CountFacts ==
    ASSUME NEW S, NEW q \in QueueOf(S), Distinct(q)
    PROVE  Count(q) = Cardinality(Items(q) \cap File)
<1> DEFINE I == {i \in 1 .. Len(q.items) : q.items[i] \in File}
           g == [i \in I |-> q.items[i]]
<1>1. /\ Items(q) = {q.items[i] : i \in 1 .. Len(q.items)}
      /\ Len(q.items) \in Nat
  BY ItemsOfQueue DEF QueueOf
<1>2. IsFiniteSet(I)
  <2>1. IsFiniteSet(1 .. Len(q.items)) /\ I \subseteq 1 .. Len(q.items)
    BY <1>1, FS_Interval
  <2> QED
    BY <2>1, FS_Subset
<1>3. g \in [I -> Items(q) \cap File]
  BY <1>1
<1>4. \A i, j \in I : g[i] = g[j] => i = j
  BY DEF Distinct
<1>5. \A t \in Items(q) \cap File : \E i \in I : g[i] = t
  BY <1>1
<1>6. Cardinality(Items(q) \cap File) = Cardinality(I)
  <2> HIDE DEF I, g
  <2> QED
    BY <1>2, <1>3, <1>4, <1>5, SameCount
<1> QED
  BY <1>6 DEF Count

(* Counting the threads that hold a file counts the files they hold.       *)
LEMMA HeldFacts ==
    ASSUME NEW W, IsFiniteSet(W), NEW h \in [W -> Asset \cup {NoAsset}],
           \A v, w \in W : h[v] = h[w] /\ h[v] # NoAsset => v = w,
           NEW V, V = {w \in W : h[w] \in File},
           NEW X, X = {h[w] : w \in W} \cap File
    PROVE  Cardinality(V) = Cardinality(X)
<1> DEFINE g == [w \in V |-> h[w]]
<1>1. IsFiniteSet(V)
  BY FS_Subset
<1>2. g \in [V -> X]
  OBVIOUS
<1>3. \A v, w \in V : g[v] = g[w] => v = w
  BY PipelineAssumption
<1>4. \A t \in X : \E w \in V : g[w] = t
  OBVIOUS
<1>5. QED
  <2> HIDE DEF g
  <2> QED
    BY ONLY <1>1, <1>2, <1>3, <1>4, SameCount

Finished == {f \in File : Handled(f)}

(* Every file queued is queued still, in one thread's hands, or handled.   *)
LEMMA SharedOut ==
    ASSUME ThreadInv, EngineInv
    PROVE  /\ Cardinality(localFed \cap File) =
                 Count(localQ) + Count(localDoneQ) + Count(todoQ) + Holders + Cardinality(Finished)
           /\ Count(localQ) + Count(localDoneQ) + Count(todoQ) + Holders \in Nat
<1> USE DEF ThreadInv
<1> DEFINE A == Items(localQ) \cap File
           B == LocalHeld \cap File
           C == Items(localDoneQ) \cap File
           D == {updater.hand} \cap File
           E == Items(todoQ) \cap File
           hand == [u \in Uploader |-> sync[u].hand]
           H == {hand[u] : u \in Uploader} \cap File
<1>0. /\ localQ \in QueueOf(Asset) /\ localDoneQ \in QueueOf(Asset) /\ todoQ \in QueueOf(File)
      /\ lHand \in [LocalWorker -> Asset \cup {NoAsset}]
      /\ hand \in [Uploader -> Asset \cup {NoAsset}]
      /\ updater.hand \in File \cup {NoAsset}
      /\ NoAsset \notin File
      /\ IsFiniteSet(File) /\ IsFiniteSet(LocalWorker) /\ IsFiniteSet(Uploader)
      /\ Items(todoQ) \subseteq File
  <2>1. updater \in [pc : UPC, at : Nat \ {0}, hand : File \cup {NoAsset}]
    BY DEF FlagInv
  <2> QED
    BY <2>1, EngineTypes, PipelineAssumption, ItemsOfQueue DEF RestOK, SyncOK, Asset
<1>1. Count(localQ) = Cardinality(A) /\ Count(localDoneQ) = Cardinality(C)
  BY <1>0, CountFacts DEF EngineInv
<1>2. Count(todoQ) = Cardinality(E)
  BY <1>0, CountFacts DEF TodoOK
<1>3. Cardinality({w \in LocalWorker : lHand[w] \in File}) = Cardinality(B)
  <2> DEFINE V == {w \in LocalWorker : lHand[w] \in File}
  <2>1. B = {lHand[w] : w \in LocalWorker} \cap File
    BY <1>0 DEF LocalHeld
  <2>2. \A v, w \in LocalWorker : lHand[v] = lHand[w] /\ lHand[v] # NoAsset => v = w
    BY DEF EngineInv
  <2>3. V = {w \in LocalWorker : lHand[w] \in File}
    OBVIOUS
  <2>4. Cardinality(V) = Cardinality(B)
    <3> HIDE DEF V, B
    <3> QED
      BY <1>0, <2>1, <2>2, <2>3, HeldFacts
  <2> QED
    BY <2>4
<1>4. Cardinality({u \in Uploader : sync[u].hand \in File}) = Cardinality(H)
  <2> DEFINE V == {u \in Uploader : sync[u].hand \in File}
  <2>1. \A u, v \in Uploader : hand[u] = hand[v] /\ hand[u] # NoAsset => u = v
    BY DEF TodoOK
  <2>2. V = {u \in Uploader : hand[u] \in File} /\ H = {hand[u] : u \in Uploader} \cap File
    OBVIOUS
  <2>3. Cardinality(V) = Cardinality(H)
    <3> HIDE DEF V, H, hand
    <3> QED
      BY <1>0, <2>1, <2>2, HeldFacts
  <2> QED
    BY <2>3
<1>5. (IF updater.hand = NoAsset THEN 0 ELSE 1) = Cardinality(D)
  <2>1. D = IF updater.hand = NoAsset THEN {} ELSE {updater.hand}
    BY <1>0
  <2> QED
    BY <2>1, FS_EmptySet, FS_Singleton
<1>6. localFed \cap File = A \cup (B \cup (C \cup (D \cup (E \cup (H \cup Finished)))))
  <2>1. (localFed \cap File) \ (A \cup B \cup C) = localTaken \cap File
    BY DEF EngineInv
  <2>2. A \cup B \cup C \subseteq localFed
    BY DEF EngineInv
  <2>3. localTaken \cap File = D \cup E \cup H \cup Finished
    <3>1. D \subseteq localTaken
      BY <1>0 DEF StatusOK
    <3>2. E \subseteq localTaken
      BY DEF StatusOK, TodoOK
    <3>3. H \subseteq localTaken
      BY <1>0 DEF StatusOK, TodoOK
    <3> QED
      BY <3>1, <3>2, <3>3 DEF Finished, Handled
  <2> QED
    BY <2>1, <2>2, <2>3
<1>7. /\ H \cap Finished = {}
      /\ E \cap (H \cup Finished) = {}
      /\ D \cap (E \cup (H \cup Finished)) = {}
  <2>1. H \cap Finished = {} /\ E \cap Finished = {} /\ D \cap Finished = {}
    BY DEF Finished, Handled
  <2>2. E \cap H = {} /\ D \cap H = {} /\ D \cap E = {}
    BY <1>0 DEF TodoOK, StatusOK
  <2> QED
    BY <2>1, <2>2
<1>8. /\ C \cap (D \cup (E \cup (H \cup Finished))) = {}
      /\ B \cap (C \cup (D \cup (E \cup (H \cup Finished)))) = {}
      /\ A \cap (B \cup (C \cup (D \cup (E \cup (H \cup Finished))))) = {}
  <2>1. D \cup (E \cup (H \cup Finished)) \subseteq localTaken
    BY <1>0 DEF StatusOK, TodoOK, Finished, Handled
  <2>2. /\ Items(localQ) \cap (LocalHeld \cup Items(localDoneQ) \cup localTaken) = {}
        /\ LocalHeld \cap (Items(localDoneQ) \cup localTaken) = {}
        /\ Items(localDoneQ) \cap localTaken = {}
    BY DEF EngineInv
  <2> QED
    BY <2>1, <2>2
<1>9. /\ IsFiniteSet(A) /\ IsFiniteSet(B) /\ IsFiniteSet(C) /\ IsFiniteSet(D) /\ IsFiniteSet(E)
      /\ IsFiniteSet(H) /\ IsFiniteSet(Finished)
  BY <1>0, FS_Subset DEF Finished
<1> HIDE DEF A, B, C, D, E, H, hand
<1>10. /\ IsFiniteSet(H \cup Finished)
       /\ Cardinality(H \cup Finished) = Cardinality(H) + Cardinality(Finished)
       /\ Cardinality(H) \in Nat /\ Cardinality(Finished) \in Nat
  BY <1>7, <1>9, Disjoint
<1>11. /\ IsFiniteSet(E \cup (H \cup Finished))
       /\ Cardinality(E \cup (H \cup Finished)) = Cardinality(E) + Cardinality(H \cup Finished)
       /\ Cardinality(E) \in Nat
  BY <1>7, <1>9, <1>10, Disjoint
<1>12. /\ IsFiniteSet(D \cup (E \cup (H \cup Finished)))
       /\ Cardinality(D \cup (E \cup (H \cup Finished)))
             = Cardinality(D) + Cardinality(E \cup (H \cup Finished))
       /\ Cardinality(D) \in Nat
  BY <1>7, <1>9, <1>11, Disjoint
<1>13. /\ IsFiniteSet(C \cup (D \cup (E \cup (H \cup Finished))))
       /\ Cardinality(C \cup (D \cup (E \cup (H \cup Finished))))
             = Cardinality(C) + Cardinality(D \cup (E \cup (H \cup Finished)))
       /\ Cardinality(C) \in Nat
  BY <1>8, <1>9, <1>12, Disjoint
<1>14. /\ IsFiniteSet(B \cup (C \cup (D \cup (E \cup (H \cup Finished)))))
       /\ Cardinality(B \cup (C \cup (D \cup (E \cup (H \cup Finished)))))
             = Cardinality(B) + Cardinality(C \cup (D \cup (E \cup (H \cup Finished))))
       /\ Cardinality(B) \in Nat
  BY <1>8, <1>9, <1>13, Disjoint
<1>15. /\ Cardinality(localFed \cap File)
             = Cardinality(A) + Cardinality(B \cup (C \cup (D \cup (E \cup (H \cup Finished)))))
       /\ Cardinality(A) \in Nat
  BY <1>6, <1>8, <1>9, <1>14, Disjoint
<1>16. Holders = Cardinality(B) + Cardinality(D) + Cardinality(H)
  BY <1>3, <1>4, <1>5 DEF Holders
<1> HIDE DEF ThreadInv
<1> QED
  BY <1>1, <1>2, <1>10, <1>11, <1>12, <1>13, <1>14, <1>15, <1>16

Finishes(u) == SUpToDate(u) \/ UploadOk(u) \/ UploadFails(u)

(* An upload thread that lets go of a file makes it, and no other, a       *)
(* handled one.                                                            *)
LEMMA FinishedStep ==
    ASSUME ThreadInv, EngineInv, [Next]_vars
    PROVE  /\ (\A u \in Uploader : ~ Finishes(u)) => Finished' = Finished
           /\ \A u \in Uploader : Synchronizer(u) /\ Finishes(u) =>
                 Finished' = Finished \cup {sync[u].hand} /\ sync[u].hand \notin Finished
<1> USE DEF ThreadInv
<1>1. ASSUME \A u \in Uploader : ~ Finishes(u)
      PROVE  Finished' = Finished
  <2>1. \A f \in File : Handled(f)' <=> Handled(f)
    BY <1>1, HandledStep DEF Finishes
  <2> QED
    BY <2>1 DEF Finished
<1>2. ASSUME NEW u \in Uploader, Synchronizer(u), Finishes(u)
      PROVE  Finished' = Finished \cup {sync[u].hand} /\ sync[u].hand \notin Finished
  <2>1. /\ UNCHANGED <<updater, localTaken>> /\ todoQ' = todoQ
        /\ \A v \in Uploader \ {u} : sync'[v] = sync[v]
    BY <1>2, SyncFrame, OthersSync DEF Finishes, SUpToDate, UploadOk, UploadFails
  <2>2. Items(todoQ)' = Items(todoQ)
    BY <2>1 DEF Items
  <2>3. /\ sync'[u].hand = NoAsset /\ sync[u].pc \in {"handle", "upload", "sleep"}
    BY <1>2, SyncFacts DEF Finishes, Dropped, Moved
  <2>4. /\ sync[u].hand \in File /\ sync[u].hand # NoAsset
        /\ sync[u].hand \in localTaken /\ sync[u].hand # updater.hand
        /\ sync[u].hand \notin Items(todoQ)
        /\ \A v \in Uploader \ {u} : sync[v].hand # sync[u].hand
    <3>1. sync[u].hand \in File /\ sync[u].hand # NoAsset
      BY <2>3, PipelineAssumption DEF RestOK, SyncOK
    <3> QED
      BY <3>1, PipelineAssumption DEF StatusOK, TodoOK
  <2> PICK h \in File : h = sync[u].hand
    BY <2>4
  <2>5. Handled(h)' /\ ~ Handled(h)
    BY <2>1, <2>2, <2>3, <2>4 DEF Handled
  <2>6. ASSUME NEW f \in File, f # h
        PROVE  Handled(f)' <=> Handled(f)
    <3>1. f # NoAsset
      BY PipelineAssumption
    <3> QED
      BY <2>1, <2>2, <2>3, <2>6, <3>1 DEF Handled
  <2> QED
    BY <2>4, <2>5, <2>6 DEF Finished
<1> QED
  BY <1>1, <1>2

Gone == {p \in Listed : stored[p] = "absent"}

(* Each file handled is counted once, as up to date, as uploaded, or by    *)
(* staying in the count of uploads under way, and each deletion is.        *)
TallyOK ==
    /\ Cardinality(Finished) = counter.upToDate + counter.uploaded
                               + (counter.uploading - Cardinality(Working))
    /\ counter.deleted = Cardinality(Gone)

LEMMA TallyStep ==
    ASSUME ThreadInv, EngineInv, TallyOK, [Next]_vars
    PROVE  TallyOK'
<1>0. /\ counter \in [{"upToDate", "uploading", "uploaded", "deleted"} -> Nat]
      /\ stored \in [File \cup RemoteOnly -> Object] /\ Listed \subseteq File \cup RemoteOnly
      /\ Listed' = Listed /\ localFed \cap Listed \cap Gone = {}
      /\ IsFiniteSet(Finished) /\ IsFiniteSet(Working) /\ IsFiniteSet(Gone)
      /\ Cardinality(Finished) \in Nat /\ Cardinality(Working) \in Nat /\ Cardinality(Gone) \in Nat
  <2>1. IsFiniteSet(Finished) /\ IsFiniteSet(Working)
    BY PipelineAssumption, FS_Subset DEF Finished, Working
  <2>2. IsFiniteSet(File \cup RemoteOnly) /\ Gone \subseteq File \cup RemoteOnly
    <3>1. IsFiniteSet(File) /\ IsFiniteSet(RemoteOnly)
      BY PipelineAssumption
    <3>2. IsFiniteSet(File \cup RemoteOnly)
      BY <3>1, FS_Union
    <3> QED
      BY <3>2 DEF ThreadInv, RestOK, Gone, Listed
  <2>3. IsFiniteSet(Gone)
    BY <2>2, FS_Subset
  <2> QED
    BY <2>1, <2>3, BeforeFixed, FS_CardinalityType DEF ThreadInv, RestOK, CountersOK, StoredOK, Gone,
       Listed
<1>1. ASSUME stored' = stored, counter' = counter, Working' = Working, Finished' = Finished
      PROVE  TallyOK'
  <2>1. Gone' = Gone
    BY <1>0, <1>1 DEF Gone
  <2> QED
    BY <1>1, <2>1 DEF TallyOK
<1>2. CASE Main
  <2>1. ASSUME NEW u \in Uploader, StartSync(u)
        PROVE  Moved(sync', u, "isEmpty", sync[u].hand) /\ sync[u].pc = "off"
    BY <2>1, OneThread DEF ThreadInv, StartSync, SPC
  <2>2. Working' = Working
    BY <1>2, <2>1, MainFrame DEF Moved, Working
  <2>3. \A u \in Uploader : ~ Finishes(u)
    BY <1>2, <2>1, MainFrame, SyncFacts DEF ThreadInv, Finishes, Dropped, Moved
  <2> QED
    BY <1>1, <1>2, <2>2, <2>3, FinishedStep, MainFrame
<1>3. ASSUME sync' = sync
      PROVE  Working' = Working /\ Finished' = Finished
  <2>1. \A u \in Uploader : ~ Finishes(u)
    BY <1>3, SyncFacts DEF ThreadInv, Finishes, Dropped, Moved
  <2> QED
    BY <1>3, <2>1, FinishedStep DEF Working
<1>4. CASE Parser \/ Updater \/ (\E w \in LocalWorker : LocalEngine(w))
           \/ (\E w \in RemoteWorker : RemoteEngine(w)) \/ UNCHANGED vars
  BY <1>1, <1>3, <1>4, ParserFrame, UpdaterFrame, LocalFrame, RemoteFrame, StutterFrame
<1>5. CASE Deleter
  <2>1. Working' = Working /\ Finished' = Finished
    BY <1>3, <1>5, DeleterFrame
  <2>2. CASE counter' = counter /\ stored' = stored
    BY <1>1, <2>1, <2>2
  <2>3. ASSUME NEW p \in deleter.toCheck, Delete(p)
        PROVE  TallyOK'
    <3>1. /\ counter' = [counter EXCEPT !.deleted = @ + 1]
          /\ stored' = [stored EXCEPT ![p] = "absent"]
      BY <2>3 DEF Delete
    <3>2. p \in Listed /\ p \notin Gone
      BY DEF ThreadInv, RestOK, StoredOK, Gone
    <3>3. Gone' = Gone \cup {p}
      BY <1>0, <3>1, <3>2 DEF Gone
    <3>4. Cardinality(Gone') = Cardinality(Gone) + 1
      BY <1>0, <3>2, <3>3, FS_AddElement
    <3>5. /\ counter'.deleted = counter.deleted + 1
          /\ counter'.upToDate = counter.upToDate /\ counter'.uploaded = counter.uploaded
          /\ counter'.uploading = counter.uploading
      BY <1>0, <3>1
    <3> QED
      BY <2>1, <3>4, <3>5 DEF TallyOK
  <2> QED
    BY <1>5, <2>2, <2>3 DEF Deleter, DReadAbort, DEnd, Keep, DeleteFails
<1>6. ASSUME NEW u \in Uploader, Synchronizer(u)
      PROVE  TallyOK'
  <2> DEFINE f == Cardinality(Finished)  w == Cardinality(Working)
  <2>0. (\A v \in Uploader \ {u} : sync'[v] = sync[v]) /\ u \in Uploader
    BY <1>6, OthersSync DEF ThreadInv
  <2>1. Gone' = Gone
    <3>1. CASE stored' = stored
      BY <1>0, <3>1 DEF Gone
    <3>2. CASE UploadOk(u) \/ UploadFails(u)
      <4>1. sync[u].hand \in localFed /\ sync[u].hand \in File
        BY <3>2, SyncFacts, InHands DEF ThreadInv, Dropped
      <4>2. \/ stored' = stored
            \/ \E o \in {"same", "bad", "changed"} : stored' = [stored EXCEPT ![sync[u].hand] = o]
        BY <3>2, UploadFacts
      <4> QED
        BY <1>0, <4>1, <4>2 DEF Gone
    <3> QED
      BY <1>6, <3>1, <3>2 DEF Synchronizer, SReadEmpty, SReadDone, SGet, SGetNothing, SUpToDate,
         BeginUpload, UploadAgain, Retry, SReadAbort
  <2>2. CASE Finishes(u)
    <3>1. Cardinality(Finished') = f + 1
      BY <1>0, <1>6, <2>2, FinishedStep, FS_AddElement
    <3>2. CASE SUpToDate(u)
      <4>1. counter' = [counter EXCEPT !.upToDate = @ + 1] /\ Working' = Working
        BY <2>0, <3>2, SyncFacts DEF ThreadInv, SUpToDate, Dropped, Moved, Working
      <4>2. /\ counter'.upToDate = counter.upToDate + 1 /\ counter'.uploaded = counter.uploaded
            /\ counter'.uploading = counter.uploading /\ counter'.deleted = counter.deleted
        BY <1>0, <4>1
      <4> QED
        BY <1>0, <2>1, <3>1, <4>1, <4>2 DEF TallyOK
    <3>3. CASE UploadOk(u) \/ UploadFails(u)
      <4>1. u \in Working /\ Working' = Working \ {u}
        BY <2>0, <3>3, SyncFacts DEF ThreadInv, Dropped, Moved, Working
      <4>2. Cardinality(Working') = w - 1
        BY <1>0, <4>1, FS_RemoveElement
      <4>3. CASE UploadFails(u)
        <5>1. counter' = counter
          BY <4>3 DEF UploadFails
        <5> QED
          BY <1>0, <2>1, <3>1, <4>2, <5>1 DEF TallyOK
      <4>4. CASE UploadOk(u)
        <5> DEFINE c == [counter EXCEPT !.uploading = @ - 1]
        <5>1. counter' = [c EXCEPT !.uploaded = @ + 1]
          BY <4>4 DEF UploadOk
        <5>2. /\ c \in [{"upToDate", "uploading", "uploaded", "deleted"} -> Int]
              /\ c.upToDate = counter.upToDate /\ c.uploaded = counter.uploaded
              /\ c.uploading = counter.uploading - 1 /\ c.deleted = counter.deleted
          BY <1>0
        <5> HIDE DEF c
        <5>3. /\ counter'.upToDate = c.upToDate /\ counter'.uploaded = c.uploaded + 1
              /\ counter'.uploading = c.uploading /\ counter'.deleted = c.deleted
          BY <5>1, <5>2
        <5> QED
          BY <1>0, <2>1, <3>1, <4>2, <5>2, <5>3 DEF TallyOK
      <4> QED
        BY <3>3, <4>3, <4>4
    <3> QED
      BY <2>2, <3>2, <3>3 DEF Finishes
  <2>3. CASE ~ Finishes(u)
    <3>1. Finished' = Finished
      <4>1. ASSUME NEW v \in Uploader \ {u}
            PROVE  ~ Finishes(v)
        BY <2>0, SyncFacts DEF ThreadInv, Finishes, Dropped, Moved
      <4> QED
        BY <2>3, <4>1, FinishedStep
    <3>2. CASE BeginUpload(u)
      <4>1. u \notin Working /\ Working' = Working \cup {u}
        BY <2>0, <3>2, SyncFacts DEF ThreadInv, Kept, Moved, Working
      <4>2. Cardinality(Working') = w + 1
        BY <1>0, <4>1, FS_AddElement
      <4>3. counter' = [counter EXCEPT !.uploading = @ + 1]
        BY <3>2 DEF BeginUpload
      <4>4. /\ counter'.upToDate = counter.upToDate /\ counter'.uploaded = counter.uploaded
            /\ counter'.uploading = counter.uploading + 1 /\ counter'.deleted = counter.deleted
        BY <1>0, <4>3
      <4> QED
        BY <1>0, <2>1, <3>1, <4>2, <4>4 DEF TallyOK
    <3>3. CASE ~ BeginUpload(u)
      <4>1. sync[u].pc \in {"upload", "sleep"} <=> sync'[u].pc \in {"upload", "sleep"}
        BY <1>6, <2>3, <3>3, SyncFacts DEF ThreadInv, Synchronizer, Finishes, Kept, Moved
      <4>2. Working' = Working
        BY <2>0, <4>1 DEF Working
      <4>3. counter' = counter
        BY <1>6, <2>3, <3>3 DEF Finishes, Synchronizer, SReadEmpty, SReadDone, SGet, SGetNothing,
           UploadAgain, Retry, SReadAbort
      <4> QED
        BY <2>1, <3>1, <4>2, <4>3 DEF TallyOK
    <3> QED
      BY <3>2, <3>3
  <2> QED
    BY <2>2, <2>3
<1> QED
  BY <1>2, <1>4, <1>5, <1>6, Steps

(* What the summary prints accounts for every file visited, each once      *)
(* (main.cpp:577-599, 853-859).                                            *)
THEOREM Accounted == Safety => []Tally
<1>1. Init => TallyOK
  <2> SUFFICES ASSUME Init PROVE TallyOK
    OBVIOUS
  <2>1. localTaken = {} /\ stored = before /\ \A u \in Uploader : sync[u].pc = "off"
    BY DEF Init
  <2>2. Finished = {} /\ Working = {} /\ Gone = {}
    BY <2>1 DEF Finished, Handled, Working, Gone, Listed
  <2>3. counter = [upToDate |-> 0, uploading |-> 0, uploaded |-> 0, deleted |-> 0]
    BY DEF Init
  <2> QED
    BY <2>2, <2>3, FS_EmptySet DEF TallyOK
<1>2. ThreadInv /\ EngineInv /\ TallyOK /\ [Next]_vars => TallyOK'
  BY TallyStep
<1>3. ThreadInv /\ EngineInv /\ TallyOK => Tally
  <2> SUFFICES ASSUME ThreadInv, EngineInv, TallyOK PROVE Tally
    OBVIOUS
  <2>1. ~ aborted => counter.uploading = Cardinality(Working)
    BY DEF ThreadInv, CountersOK
  <2> DEFINE n == Count(localQ) + Count(localDoneQ) + Count(todoQ) + Holders
             m == counter.upToDate + counter.uploaded
             r == counter.uploading - Cardinality(Working)
  <2>2. Cardinality(localFed \cap File) = n + (m + r) /\ n \in Nat
    BY SharedOut DEF TallyOK
  <2>3. /\ counter \in [{"upToDate", "uploading", "uploaded", "deleted"} -> Nat]
        /\ Cardinality(Working) \in Nat
    BY PipelineAssumption, FS_Subset, FS_CardinalityType DEF ThreadInv, CountersOK, Working
  <2>4. n + (m + r) = n + counter.upToDate + counter.uploaded
                      + (counter.uploading - Cardinality(Working))
    <3> HIDE DEF n
    <3> QED
      BY <2>2, <2>3
  <2> QED
    BY <2>1, <2>2, <2>4 DEF TallyOK, Gone, Tally
<1> QED
  BY <1>1, <1>2, <1>3, ThreadInvariant, PTL DEF Safety
=================================================================================

---------------------------- MODULE ProcessEngine ----------------------------
(***************************************************************************)
(* CProcess of process.cpp: a pool of threads that moves assets from a     *)
(* source queue to a destination queue, applying the virtual function      *)
(* process(p) to each one.  The program runs two of them, the local hash   *)
(* engine and the remote metadata engine.                                  *)
(*                                                                         *)
(* A worker's pc names the next thing run() (process.cpp:58-77) does:      *)
(*   while    read _srcQueue.done()         isEmpty  read isEmpty()        *)
(*   get      pop the source queue          process  inside process(p)     *)
(*   add      add to the destination        abort    read abort()          *)
(*   count    _doneCount++                  compare  _doneCount == size()  *)
(*   setDone  raise the destination's flag  exit     the thread has ended  *)
(* "off" is a thread that start() has not created yet, and "pure" one that *)
(* called process() after the subclass was gone, which ends the program.   *)
(*                                                                         *)
(* The destructor joins the workers, but it is the base class's: when it   *)
(* runs, the subclass has been destroyed, and the workers' virtual calls   *)
(* reach CProcess's own abort(), which returns false, and its process(),   *)
(* which is pure.                                                          *)
(*                                                                         *)
(* The environment is the producer of the source queue, the thread that    *)
(* empties the destination queue under its lock, whoever aborts the        *)
(* program, and the owner of the object, who destroys it.                  *)
(***************************************************************************)
EXTENDS FiniteSets, TQueue

CONSTANTS
    Asset,      \* the assets the producer may add, each at most once
    Worker,     \* the threads start(threadCount) creates
    NoAsset     \* nullptr

ASSUME WorkerAssumption  == IsFiniteSet(Worker) /\ Worker # {}
ASSUME NoAssetAssumption == NoAsset \notin Asset

VARIABLES
    src,        \* _srcQueue
    dst,        \* _dstQueue
    pc,         \* where each worker is in run()
    hand,       \* the local variable p of each worker
    pushed,     \* _threads.size()
    doneCount,  \* _doneCount
    aborted,    \* what the subclass's abort() returns: CContext::_aborted
    derived,    \* the object is still one of the subclass
    \* history
    overtaken,  \* some worker compared _doneCount while start() was still pushing
    fed,        \* the assets the producer has added to the source queue
    taken       \* the assets the consumer has taken out of the destination queue

vars == <<src, dst, pc, hand, pushed, doneCount, aborted, derived, overtaken, fed, taken>>

PC == {"off", "while", "isEmpty", "get", "process", "add", "abort",
       "count", "compare", "setDone", "exit", "pure"}

Started    == {w \in Worker : pc[w] # "off"}
Ended      == {w \in Worker : pc[w] \in {"compare", "setDone", "exit"}}
InHand     == {hand[w] : w \in Worker} \ {NoAsset}
Terminated == \E w \in Worker : pc[w] = "pure"

Init ==
    /\ src = NewQueue
    /\ dst = NewQueue
    /\ pc = [w \in Worker |-> "off"]
    /\ hand = [w \in Worker |-> NoAsset]
    /\ pushed = 0
    /\ doneCount = 0
    /\ aborted = FALSE
    /\ derived = TRUE
    /\ overtaken = FALSE
    /\ fed = {}
    /\ taken = {}

-----------------------------------------------------------------------------
(* start(): std::thread's constructor runs the worker before push_back has *)
(* stored it, so the two halves of one loop turn are two steps.            *)

Create(w) ==
    /\ pc[w] = "off"
    /\ pushed = Cardinality(Started)
    /\ dst' = IF Started = {} THEN ResetDone(dst) ELSE dst
    /\ pc' = [pc EXCEPT ![w] = "while"]
    /\ UNCHANGED <<src, hand, pushed, doneCount, aborted, overtaken, derived>>

Push ==
    /\ pushed < Cardinality(Started)
    /\ pushed' = pushed + 1
    /\ UNCHANGED <<src, dst, pc, hand, doneCount, aborted, overtaken, derived>>

-----------------------------------------------------------------------------
(* run(), one step per access to what the threads share. *)

Goto(w, from, to) == pc[w] = from /\ pc' = [pc EXCEPT ![w] = to]

\* Mutant: the loop is left once the source is done, empty or not.
ReadDoneOnly(w) ==
    /\ Goto(w, "while", IF src.done THEN "count" ELSE "get")
    /\ UNCHANGED <<src, dst, hand, pushed, doneCount, aborted, overtaken, derived>>

ReadDone(w) ==
    /\ Goto(w, "while", IF src.done THEN "isEmpty" ELSE "get")
    /\ UNCHANGED <<src, dst, hand, pushed, doneCount, aborted, overtaken, derived>>

\* Mutant: an empty source does not end the loop.
ReadEmptyForgotten(w) ==
    /\ Free(src)
    /\ Goto(w, "isEmpty", "get")
    /\ UNCHANGED <<src, dst, hand, pushed, doneCount, aborted, overtaken, derived>>

ReadEmpty(w) ==
    /\ Free(src)
    /\ Goto(w, "isEmpty", IF IsEmpty(src) THEN "count" ELSE "get")
    /\ UNCHANGED <<src, dst, hand, pushed, doneCount, aborted, overtaken, derived>>

\* Mutant: the front is read but not popped.
GetWithoutPop(w) ==
    /\ Free(src)
    /\ ~ IsEmpty(src)
    /\ Goto(w, "get", "process")
    /\ hand' = [hand EXCEPT ![w] = Front(src)]
    /\ UNCHANGED <<src, dst, pushed, doneCount, aborted, overtaken, derived>>

\* Pop, and the virtual call that follows at once.
Get(w) ==
    /\ Free(src)
    /\ ~ IsEmpty(src)
    /\ Goto(w, "get", IF derived THEN "process" ELSE "pure")
    /\ hand' = [hand EXCEPT ![w] = Front(src)]
    /\ src' = Pop(src)
    /\ UNCHANGED <<dst, pushed, doneCount, aborted, overtaken, derived>>

\* Mutant: the null pointer is processed like an asset.
GetNothingUnchecked(w) ==
    /\ Free(src)
    /\ IsEmpty(src)
    /\ Goto(w, "get", "process")
    /\ UNCHANGED <<src, dst, hand, pushed, doneCount, aborted, overtaken, derived>>

\* Another worker emptied the queue first: get() returns nullptr.
GetNothing(w) ==
    /\ Free(src)
    /\ IsEmpty(src)
    /\ Goto(w, "get", "abort")
    /\ UNCHANGED <<src, dst, hand, pushed, doneCount, aborted, overtaken, derived>>

\* process(p) returned true.
Processed(w) ==
    /\ Goto(w, "process", "add")
    /\ UNCHANGED <<src, dst, hand, pushed, doneCount, aborted, overtaken, derived>>

\* Mutant: a worker that gives up does not count itself.
RefusedUncounted(w) ==
    /\ Goto(w, "process", "exit")
    /\ aborted' = TRUE
    /\ UNCHANGED <<src, dst, hand, pushed, doneCount, overtaken, derived>>

\* process(p) returned false; both subclasses abort the program before they
\* do.  The worker leaves the loop, and its asset goes no further.
Refused(w) ==
    /\ Goto(w, "process", "count")
    /\ aborted' = TRUE
    /\ UNCHANGED <<src, dst, hand, pushed, doneCount, overtaken, derived>>

\* Mutant: an aborting program does not add what it has processed.
HandOnUnlessAborted(w) ==
    /\ Free(dst)
    /\ Goto(w, "add", "abort")
    /\ dst' = IF aborted THEN dst ELSE Add(dst, hand[w])
    /\ hand' = [hand EXCEPT ![w] = NoAsset]
    /\ UNCHANGED <<src, pushed, doneCount, aborted, overtaken, derived>>

HandOn(w) ==
    /\ Free(dst)
    /\ Goto(w, "add", "abort")
    /\ dst' = Add(dst, hand[w])
    /\ hand' = [hand EXCEPT ![w] = NoAsset]
    /\ UNCHANGED <<src, pushed, doneCount, aborted, overtaken, derived>>

ReadAbort(w) ==
    /\ Goto(w, "abort", IF aborted /\ derived THEN "count" ELSE "while")
    /\ UNCHANGED <<src, dst, hand, pushed, doneCount, aborted, overtaken, derived>>

Count(w) ==
    /\ Goto(w, "count", "compare")
    /\ doneCount' = doneCount + 1
    /\ UNCHANGED <<src, dst, hand, pushed, aborted, overtaken, derived>>

\* Mutant: the first worker to end raises the flag for all.
CompareFirst(w) ==
    /\ Goto(w, "compare", IF doneCount >= 1 THEN "setDone" ELSE "exit")
    /\ overtaken' = (overtaken \/ pushed < Cardinality(Worker))
    /\ UNCHANGED <<src, dst, hand, pushed, doneCount, aborted, derived>>

Compare(w) ==
    /\ Goto(w, "compare", IF doneCount = pushed THEN "setDone" ELSE "exit")
    /\ overtaken' = (overtaken \/ pushed < Cardinality(Worker))
    /\ UNCHANGED <<src, dst, hand, pushed, doneCount, aborted, derived>>

\* setDone(); the subclasses' onDone() only logs.
RaiseDone(w) ==
    /\ Goto(w, "setDone", "exit")
    /\ dst' = SetDone(dst)
    /\ UNCHANGED <<src, hand, pushed, doneCount, aborted, overtaken, derived>>

\* Everything run() does itself, and then with what process(p) decides.
Loop(w) ==
    \/ ReadDone(w) \/ ReadEmpty(w) \/ Get(w) \/ GetNothing(w)
    \/ HandOn(w) \/ ReadAbort(w)
    \/ Count(w) \/ Compare(w) \/ RaiseDone(w)

Step(w) == Loop(w) \/ Processed(w) \/ Refused(w)

Start == Push \/ \E w \in Worker : Create(w)

-----------------------------------------------------------------------------
(* The environment. *)

\* The producer adds each asset once, and nothing after it raised the flag.
Feed(p) ==
    /\ p \in Asset \ fed
    /\ Free(src) /\ ~ src.done
    /\ src' = Add(src, p)
    /\ fed' = fed \cup {p}
    /\ UNCHANGED <<dst, pc, hand, pushed, doneCount, aborted, overtaken, taken, derived>>

Close ==
    /\ ~ src.done
    /\ src' = SetDone(src)
    /\ UNCHANGED <<dst, pc, hand, pushed, doneCount, aborted, overtaken, derived, fed, taken>>

AbortElsewhere ==
    /\ ~ aborted
    /\ aborted' = TRUE
    /\ UNCHANGED <<src, dst, pc, hand, pushed, doneCount, overtaken, derived, fed, taken>>

\* The consumer scans the destination queue under its lock and may erase one
\* element, at any position, before it unlocks.
LockDst ==
    /\ Free(dst)
    /\ dst' = Lock(dst)
    /\ UNCHANGED <<src, pc, hand, pushed, doneCount, aborted, overtaken, derived, fed, taken>>

UnlockDst ==
    /\ dst.locked
    /\ dst' = Unlock(dst)
    /\ UNCHANGED <<src, pc, hand, pushed, doneCount, aborted, overtaken, derived, fed, taken>>

Take(i) ==
    /\ dst.locked
    /\ i \in 1 .. Len(dst.items)
    /\ dst' = Unlock(Erase(dst, i))
    /\ taken' = taken \cup {dst.items[i]}
    /\ UNCHANGED <<src, pc, hand, pushed, doneCount, aborted, overtaken, fed, derived>>

\* The owner leaves the object's scope: the subclass goes first, then
\* ~CProcess() waits until every worker has ended.
Destroy ==
    /\ derived /\ pushed = Cardinality(Worker)
    /\ derived' = FALSE
    /\ UNCHANGED <<src, dst, pc, hand, pushed, doneCount, aborted, overtaken, fed, taken>>

Environment ==
    \/ \E p \in Asset : Feed(p)
    \/ Close \/ AbortElsewhere \/ LockDst \/ UnlockDst \/ Destroy
    \/ \E i \in 1 .. Len(dst.items) : Take(i)

Next ==
    \/ (Start \/ \E w \in Worker : Step(w)) /\ UNCHANGED <<fed, taken>>
    \/ Environment

Safety == Init /\ [][Next]_vars

(* The operating system keeps running every thread, and start() keeps      *)
(* running.  A worker waiting for the destination's mutex gets it although *)
(* the consumer takes it again and again: the consumer sleeps a            *)
(* millisecond between two scans (main.cpp:472), hence strong fairness.    *)
(* Nothing obliges the producer, the consumer's scans or an abort to       *)
(* happen, but a scan that holds the lock ends.                            *)
Fairness ==
    /\ WF_vars(Start /\ UNCHANGED <<fed, taken>>)
    /\ \A w \in Worker :
          /\ WF_vars(Step(w) /\ UNCHANGED <<fed, taken>>)
          /\ SF_vars(HandOn(w) /\ UNCHANGED <<fed, taken>>)
    /\ WF_vars(UnlockDst \/ \E i \in 1 .. Len(dst.items) : Take(i))

Spec == Safety /\ Fairness

-----------------------------------------------------------------------------
(* Types, and the bounds of the two counters. *)
TypeOK ==
    /\ src \in QueueOf(Asset)
    /\ dst \in QueueOf(Asset)
    /\ pc \in [Worker -> PC]
    /\ hand \in [Worker -> Asset \cup {NoAsset}]
    /\ pushed \in 0 .. Cardinality(Worker)
    /\ doneCount \in 0 .. Cardinality(Worker)
    /\ aborted \in BOOLEAN /\ derived \in BOOLEAN
    /\ overtaken \in BOOLEAN
    /\ fed \in SUBSET Asset
    /\ taken \in SUBSET Asset

(* Whatever the interleaving of producer, workers and consumer, an asset   *)
(* once added is in the source queue, in a worker's hands, in the          *)
(* destination queue or with the consumer (process.cpp:62-65).             *)
NoLoss == fed = Items(src) \cup InHand \cup Items(dst) \cup taken

(* And in exactly one of those places: no two workers process one asset,   *)
(* and none is handed on twice (queue.h:71-81).                            *)
OneOwner ==
    /\ Distinct(src) /\ Distinct(dst)
    /\ \A v, w \in Worker : hand[v] = hand[w] /\ hand[v] # NoAsset => v = w
    /\ Items(src) \cap (InHand \cup Items(dst) \cup taken) = {}
    /\ InHand \cap (Items(dst) \cup taken) = {}
    /\ Items(dst) \cap taken = {}

(* The destination's done flag is the consumer's licence to leave and the  *)
(* owner's to destroy the object: when it is up, no worker will call the   *)
(* subclass again, and unless somebody aborted, the engine holds nothing   *)
(* back, neither queued nor in the hands of a slower worker (process.cpp:  *)
(* 36-39, 60, 72-74).  The one exception is a worker that ran to its end   *)
(* while start() was still pushing threads (process.cpp:47 against 73).    *)
DoneMeansDrained ==
    dst.done /\ ~ overtaken =>
        /\ Ended = Worker
        /\ aborted \/ (src.done /\ IsEmpty(src) /\ InHand = {})

(* No step adds to the destination queue after its done flag went up, not  *)
(* even when the program is aborting (process.cpp:72-74).                  *)
NothingAfterDone ==
    [][dst.done /\ ~ overtaken => Items(dst') \subseteq Items(dst)]_vars

(* An asset that was added comes out at the other end, or the program      *)
(* ends: the pool never stalls on a lock or forgets an asset               *)
(* (process.cpp:60-71).                                                    *)
HandsOn ==
    \A p \in Asset : p \in fed ~> p \in Items(dst) \cup taken \/ aborted \/ Terminated

(* Once the source is done, the destination becomes done: the consumer     *)
(* does not wait for ever (process.cpp:72-76).                             *)
Drains == src.done ~> dst.done \/ overtaken \/ Terminated

(* Once the source is done the destructor's join returns, wherever the     *)
(* workers were when the subclass went away, unless one of them makes the  *)
(* pure call; an abort is no longer heard by then (process.cpp:36-56).     *)
Joins == src.done /\ ~ derived ~> (\A w \in Worker : pc[w] = "exit") \/ Terminated
=============================================================================

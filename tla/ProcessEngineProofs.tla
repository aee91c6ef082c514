------------------------- MODULE ProcessEngineProofs -------------------------
(***************************************************************************)
(* Proofs about ProcessEngine, for every set of assets and every finite    *)
(* thread pool.  The argument has three layers.  Bookkeeping: the counters *)
(* pushed and doneCount are the numbers of threads that have come that     *)
(* far.  Leaving: a worker leaves its loop with an empty hand only because *)
(* the source is done and empty, and the destination's flag goes up only   *)
(* when every worker has left.  Ownership: an asset is in one place.       *)
(***************************************************************************)
EXTENDS ProcessEngine, TQueueProofs, FiniteSetTheorems

\* The states of workers that have counted themselves, that have left the loop.
EndedPC == {"compare", "setDone", "exit"}
LeftPC  == {"count"} \cup EndedPC

(* The two counters are what their names say (process.cpp:48, 72).         *)
CountInv ==
    /\ pushed <= Cardinality(Started)
    /\ doneCount = Cardinality(Ended)

(* A worker holds an asset while it processes or adds it; it keeps one     *)
(* afterwards only if process() refused it, which aborts the program.      *)
HandInv ==
    \A w \in Worker :
        /\ pc[w] \in {"process", "add"} => hand[w] # NoAsset
        /\ pc[w] \notin {"process", "add", "pure"} /\ hand[w] # NoAsset =>
              aborted /\ pc[w] \in LeftPC

(* Why a worker is out of its loop.                                        *)
LeaveInv ==
    \A w \in Worker :
        /\ pc[w] = "isEmpty" => src.done
        /\ pc[w] \in LeftPC => aborted \/ (src.done /\ IsEmpty(src))

(* The flag is up, or about to go up, only when every worker has counted   *)
(* itself, unless one was overtaken.                                       *)
EndInv ==
    ~ overtaken /\ (dst.done \/ \E w \in Worker : pc[w] = "setDone") => Ended = Worker

-----------------------------------------------------------------------------
(* The thread pool is finite, so are its parts, and a part as large as the *)
(* pool is the pool.                                                       *)
LEMMA PartsOfPool ==
    ASSUME NEW P \in SUBSET Worker
    PROVE  /\ IsFiniteSet(P)
           /\ Cardinality(Worker) \in Nat
           /\ Cardinality(P) \in 0 .. Cardinality(Worker)
           /\ Cardinality(P) = Cardinality(Worker) => P = Worker
           /\ \A w \in Worker \ P : Cardinality(P \cup {w}) = Cardinality(P) + 1
<1>1. IsFiniteSet(Worker)
  BY WorkerAssumption
<1>2. IsFiniteSet(P) /\ Cardinality(P) <= Cardinality(Worker)
      /\ (Cardinality(P) = Cardinality(Worker) => P = Worker)
  BY <1>1, FS_Subset
<1>3. Cardinality(P) \in Nat /\ Cardinality(Worker) \in Nat
  BY <1>1, <1>2, FS_CardinalityType
<1>4. \A w \in Worker \ P : Cardinality(P \cup {w}) = Cardinality(P) + 1
  BY <1>2, FS_AddElement
<1> QED
  BY <1>2, <1>3, <1>4

(* A worker's move leaves the others where they are.                       *)
LEMMA GotoFacts ==
    ASSUME TypeOK, NEW w \in Worker, NEW from, NEW to \in PC, Goto(w, from, to)
    PROVE  /\ pc' \in [Worker -> PC]
           /\ pc[w] = from /\ pc'[w] = to
           /\ \A v \in Worker \ {w} : pc'[v] = pc[v]
           /\ from # "off" /\ to # "off" => Started' = Started
           /\ (from \in EndedPC <=> to \in EndedPC) => Ended' = Ended
<1>1. /\ pc' \in [Worker -> PC] /\ pc[w] = from /\ pc'[w] = to
      /\ \A v \in Worker \ {w} : pc'[v] = pc[v]
  BY DEF TypeOK, Goto
<1>2. from # "off" /\ to # "off" => Started' = Started
  BY <1>1 DEF Started
<1>3. (from \in EndedPC <=> to \in EndedPC) => Ended' = Ended
  BY <1>1 DEF Ended, EndedPC
<1> QED
  BY <1>1, <1>2, <1>3

(* The bookkeeping holds at the start.                                     *)
Book == TypeOK /\ CountInv /\ HandInv

LEMMA BookInit == Init => Book
<1> SUFFICES ASSUME Init PROVE Book
  OBVIOUS
<1>1. Started = {} /\ Ended = {}
  BY DEF Init, Started, Ended, EndedPC
<1>2. Cardinality({}) = 0
  BY FS_EmptySet
<1>3. Cardinality(Worker) \in Nat
  BY PartsOfPool
<1>4. TypeOK
  <2>1. NewQueue \in QueueOf(Asset)
    BY NewQueueFacts
  <2>2. pc \in [Worker -> PC] /\ hand \in [Worker -> Asset \cup {NoAsset}]
    BY DEF Init, PC
  <2>3. src \in QueueOf(Asset) /\ dst \in QueueOf(Asset)
    BY <2>1 DEF Init
  <2>4. 0 \in 0 .. Cardinality(Worker)
    BY <1>3
  <2>5. pushed \in 0 .. Cardinality(Worker) /\ doneCount \in 0 .. Cardinality(Worker)
    BY <2>4 DEF Init
  <2>6. aborted \in BOOLEAN /\ derived \in BOOLEAN /\ overtaken \in BOOLEAN /\ fed \in SUBSET Asset /\ taken \in SUBSET Asset
    BY DEF Init
  <2> QED
    BY <2>2, <2>3, <2>5, <2>6 DEF TypeOK
<1>5. CountInv
  BY <1>1, <1>2 DEF Init, CountInv
<1>6. HandInv
  BY DEF Init, HandInv
<1> QED
  BY <1>4, <1>5, <1>6 DEF Book

(* Every step of the program keeps it.                                     *)
LEMMA BookStep == Book /\ [Next]_vars => Book'
<1> SUFFICES ASSUME TypeOK, CountInv, HandInv, [Next]_vars
             PROVE  TypeOK' /\ CountInv' /\ HandInv'
  BY DEF Book
<1> USE DEF TypeOK
<1>0. /\ Started \in SUBSET Worker /\ Ended \in SUBSET Worker
      /\ Cardinality(Worker) \in Nat
      /\ Cardinality(Started) \in 0 .. Cardinality(Worker)
      /\ Cardinality(Ended) \in 0 .. Cardinality(Worker)
  BY PartsOfPool DEF Started, Ended, EndedPC
<1>1. ASSUME NEW w \in Worker, Create(w), UNCHANGED <<fed, taken>>
      PROVE  TypeOK' /\ CountInv' /\ HandInv'
  <2>1. Started' = Started \cup {w} /\ w \notin Started /\ Ended' = Ended
    BY <1>1 DEF Create, Started, Ended, EndedPC
  <2>2. Cardinality(Started') = Cardinality(Started) + 1
    BY <2>1, <1>0, PartsOfPool
  <2>3. dst' \in QueueOf(Asset)
    BY <1>1, FlagFacts DEF Create
  <2>4. pc' \in [Worker -> PC]
    BY <1>1 DEF Create, PC
  <2>5. HandInv'
    BY <1>1 DEF Create, HandInv, LeftPC, EndedPC
  <2>6. Cardinality(Started') \in 0 .. Cardinality(Worker)
    <3>1. Started' \in SUBSET Worker
      BY <2>1, <1>0
    <3> QED
      BY <3>1, PartsOfPool
  <2> QED
    BY <1>1, <1>0, <2>1, <2>2, <2>3, <2>4, <2>5, <2>6 DEF Create, CountInv
<1>2. ASSUME Push, UNCHANGED <<fed, taken>>
      PROVE  TypeOK' /\ CountInv' /\ HandInv'
  <2>1. Started' = Started /\ Ended' = Ended
    BY <1>2 DEF Push, Started, Ended
  <2>2. HandInv'
    BY <1>2 DEF Push, HandInv
  <2> QED
    BY <1>2, <1>0, <2>1, <2>2 DEF Push, CountInv
<1>3. ASSUME NEW w \in Worker, Step(w), UNCHANGED <<fed, taken>>
      PROVE  TypeOK' /\ CountInv' /\ HandInv'
  <2>1. CASE ReadDone(w)
    <3> DEFINE to == IF src.done THEN "isEmpty" ELSE "get"
    <3>1. to \in PC /\ Goto(w, "while", to)
      BY <2>1 DEF ReadDone, PC
    <3>2. pc' \in [Worker -> PC] /\ Started' = Started /\ Ended' = Ended
      BY <3>1, GotoFacts DEF EndedPC
    <3>3. HandInv'
      BY <2>1 DEF ReadDone, Goto, HandInv, LeftPC, EndedPC
    <3> QED
      BY <1>3, <2>1, <3>2, <3>3 DEF ReadDone, CountInv
  <2>2. CASE ReadEmpty(w)
    <3> DEFINE to == IF IsEmpty(src) THEN "count" ELSE "get"
    <3>1. to \in PC /\ Goto(w, "isEmpty", to)
      BY <2>2 DEF ReadEmpty, PC
    <3>2. pc' \in [Worker -> PC] /\ Started' = Started /\ Ended' = Ended
      BY <3>1, GotoFacts DEF EndedPC
    <3>3. HandInv'
      BY <2>2 DEF ReadEmpty, Goto, HandInv, LeftPC, EndedPC
    <3> QED
      BY <1>3, <2>2, <3>2, <3>3 DEF ReadEmpty, CountInv
  <2>3. CASE Get(w)
    <3> DEFINE to == IF derived THEN "process" ELSE "pure"
    <3>0. to \in PC /\ to \notin EndedPC /\ Goto(w, "get", to)
      BY <2>3 DEF Get, PC, EndedPC
    <3>1. pc' \in [Worker -> PC] /\ Started' = Started /\ Ended' = Ended
      BY <3>0, GotoFacts DEF EndedPC
    <3>2. src' \in QueueOf(Asset) /\ Front(src) \in Asset
      BY <2>3, PopFacts, ItemsOfQueue DEF Get
    <3>3. hand' \in [Worker -> Asset \cup {NoAsset}]
      BY <2>3, <3>2 DEF Get
    <3>4. HandInv'
      BY <2>3, <3>2, NoAssetAssumption DEF Get, Goto, HandInv, LeftPC, EndedPC
    <3> QED
      BY <1>3, <2>3, <3>1, <3>2, <3>3, <3>4 DEF Get, CountInv
  <2>4. CASE GetNothing(w)
    <3>1. pc' \in [Worker -> PC] /\ Started' = Started /\ Ended' = Ended
      BY <2>4, GotoFacts DEF GetNothing, EndedPC, PC
    <3>2. HandInv'
      BY <2>4 DEF GetNothing, Goto, HandInv, LeftPC, EndedPC
    <3> QED
      BY <1>3, <2>4, <3>1, <3>2 DEF GetNothing, CountInv
  <2>5. CASE Processed(w)
    <3>1. pc' \in [Worker -> PC] /\ Started' = Started /\ Ended' = Ended
      BY <2>5, GotoFacts DEF Processed, EndedPC, PC
    <3>2. HandInv'
      BY <2>5 DEF Processed, Goto, HandInv, LeftPC, EndedPC
    <3> QED
      BY <1>3, <2>5, <3>1, <3>2 DEF Processed, CountInv
  <2>6. CASE Refused(w)
    <3>1. pc' \in [Worker -> PC] /\ Started' = Started /\ Ended' = Ended
      BY <2>6, GotoFacts DEF Refused, EndedPC, PC
    <3>2. HandInv'
      BY <2>6 DEF Refused, Goto, HandInv, LeftPC, EndedPC
    <3> QED
      BY <1>3, <2>6, <3>1, <3>2 DEF Refused, CountInv
  <2>7. CASE HandOn(w)
    <3>1. pc' \in [Worker -> PC] /\ Started' = Started /\ Ended' = Ended
      BY <2>7, GotoFacts DEF HandOn, EndedPC, PC
    <3>2. hand[w] \in Asset
      BY <2>7 DEF HandOn, Goto, HandInv
    <3>3. dst' \in QueueOf(Asset)
      BY <2>7, <3>2, AddFacts DEF HandOn
    <3>4. hand' \in [Worker -> Asset \cup {NoAsset}]
      BY <2>7 DEF HandOn
    <3>5. HandInv'
      BY <2>7 DEF HandOn, Goto, HandInv, LeftPC, EndedPC
    <3> QED
      BY <1>3, <2>7, <3>1, <3>3, <3>4, <3>5 DEF HandOn, CountInv
  <2>8. CASE ReadAbort(w)
    <3> DEFINE to == IF aborted /\ derived THEN "count" ELSE "while"
    <3>1. to \in PC /\ Goto(w, "abort", to)
      BY <2>8 DEF ReadAbort, PC
    <3>2. pc' \in [Worker -> PC] /\ Started' = Started /\ Ended' = Ended
      BY <3>1, GotoFacts DEF EndedPC
    <3>3. HandInv'
      BY <2>8 DEF ReadAbort, Goto, HandInv, LeftPC, EndedPC
    <3> QED
      BY <1>3, <2>8, <3>2, <3>3 DEF ReadAbort, CountInv
  <2>9. CASE Count(w)
    <3>1. pc' \in [Worker -> PC] /\ Started' = Started
      BY <2>9, GotoFacts DEF Count, PC
    <3>2. Ended' = Ended \cup {w} /\ w \notin Ended
      BY <2>9 DEF Count, Goto, Ended, EndedPC
    <3>3. Cardinality(Ended') = Cardinality(Ended) + 1
      BY <3>2, <1>0, PartsOfPool
    <3>4. Cardinality(Ended') \in 0 .. Cardinality(Worker)
      <4>1. Ended' \in SUBSET Worker
        BY <3>2, <1>0
      <4> QED
        BY <4>1, PartsOfPool
    <3>5. HandInv'
      BY <2>9 DEF Count, Goto, HandInv, LeftPC, EndedPC
    <3> QED
      BY <1>3, <1>0, <2>9, <3>1, <3>3, <3>4, <3>5 DEF Count, CountInv
  <2>10. CASE Compare(w)
    <3> DEFINE to == IF doneCount = pushed THEN "setDone" ELSE "exit"
    <3>1. to \in PC /\ Goto(w, "compare", to)
      BY <2>10 DEF Compare, PC
    <3>2. pc' \in [Worker -> PC] /\ Started' = Started /\ Ended' = Ended
      BY <3>1, GotoFacts DEF EndedPC
    <3>3. HandInv'
      BY <2>10 DEF Compare, Goto, HandInv, LeftPC, EndedPC
    <3>4. overtaken' \in BOOLEAN
      BY <2>10 DEF Compare
    <3> QED
      BY <1>3, <2>10, <3>2, <3>3, <3>4 DEF Compare, CountInv
  <2>11. CASE RaiseDone(w)
    <3>1. pc' \in [Worker -> PC] /\ Started' = Started /\ Ended' = Ended
      BY <2>11, GotoFacts DEF RaiseDone, EndedPC, PC
    <3>2. dst' \in QueueOf(Asset)
      BY <2>11, FlagFacts DEF RaiseDone
    <3>3. HandInv'
      BY <2>11 DEF RaiseDone, Goto, HandInv, LeftPC, EndedPC
    <3> QED
      BY <1>3, <2>11, <3>1, <3>2, <3>3 DEF RaiseDone, CountInv
  <2> QED
    BY <1>3, <2>1, <2>2, <2>3, <2>4, <2>5, <2>6, <2>7, <2>8, <2>9, <2>10, <2>11
    DEF Step, Loop
<1>4. ASSUME Environment
      PROVE  TypeOK' /\ CountInv' /\ HandInv'
  <2>1. UNCHANGED <<pc, hand, pushed, doneCount, overtaken>> /\ (aborted => aborted')
    BY <1>4 DEF Environment, Feed, Close, AbortElsewhere, LockDst, UnlockDst, Take, Destroy
  <2>2. Started' = Started /\ Ended' = Ended
    BY <2>1 DEF Started, Ended, EndedPC
  <2>3. CountInv' /\ HandInv'
    BY <2>1, <2>2 DEF CountInv, HandInv
  <2>4. src' \in QueueOf(Asset) /\ fed' \in SUBSET Asset
    <3>1. ASSUME NEW p \in Asset, Feed(p)
          PROVE  src' \in QueueOf(Asset) /\ fed' \in SUBSET Asset
      BY <3>1, AddFacts DEF Feed
    <3>2. CASE Close
      BY <3>2, FlagFacts DEF Close
    <3> QED
      BY <1>4, <3>1, <3>2 DEF Environment, AbortElsewhere, LockDst, UnlockDst, Take, Destroy
  <2>5. dst' \in QueueOf(Asset) /\ taken' \in SUBSET Asset
    <3>1. ASSUME NEW i \in 1 .. Len(dst.items), Take(i)
          PROVE  dst' \in QueueOf(Asset) /\ taken' \in SUBSET Asset
      <4>1. Erase(dst, i) \in QueueOf(Asset) /\ dst.items[i] \in Asset
        BY <3>1, EraseFacts, ItemsOfQueue
      <4> QED
        BY <3>1, <4>1, FlagFacts DEF Take
    <3>2. CASE LockDst \/ UnlockDst
      BY <3>2, FlagFacts DEF LockDst, UnlockDst
    <3> QED
      BY <1>4, <3>1, <3>2 DEF Environment, Feed, Close, AbortElsewhere, Destroy
  <2>6. aborted' \in BOOLEAN /\ derived' \in BOOLEAN
    BY <1>4 DEF Environment, Feed, Close, AbortElsewhere, LockDst, UnlockDst, Take, Destroy
  <2> QED
    BY <2>1, <2>3, <2>4, <2>5, <2>6
<1>5. CASE UNCHANGED vars
  BY <1>5 DEF vars, CountInv, HandInv, Started, Ended
<1> QED
  BY <1>1, <1>2, <1>3, <1>4, <1>5 DEF Next, Start

(* Types are correct in every state of every execution: in particular no   *)
(* worker processes or adds a null pointer, and neither counter passes the *)
(* size of the pool (process.cpp:62-65, 72).                               *)
THEOREM TypeCorrect == Safety => []TypeOK
<1>1. Book => TypeOK
  BY DEF Book
<1> QED
  BY BookInit, BookStep, <1>1, PTL DEF Safety

-----------------------------------------------------------------------------
(* Nothing un-finishes: an abort, the source's flag, an emptied finished    *)
(* source, a worker's leaving and counting itself are all for good.         *)
LEMMA Stable ==
    ASSUME Book, [Next]_vars
    PROVE  /\ aborted => aborted'
           /\ overtaken => overtaken'
           /\ src.done => src'.done
           /\ src.done /\ IsEmpty(src) => IsEmpty(src')
           /\ Ended \subseteq Ended'
           /\ \A w \in Worker : pc[w] \in LeftPC => pc'[w] \in LeftPC
<1> USE DEF Book, TypeOK, QueueOf
<1>1. ASSUME NEW w \in Worker, Step(w)
      PROVE  /\ aborted => aborted'
             /\ overtaken => overtaken'
             /\ src.done => src'.done
             /\ src.done /\ IsEmpty(src) => IsEmpty(src')
             /\ Ended \subseteq Ended'
             /\ \A v \in Worker : pc[v] \in LeftPC => pc'[v] \in LeftPC
  <2>1. (aborted => aborted') /\ (overtaken => overtaken')
    BY <1>1 DEF Step, Loop, ReadDone, ReadEmpty, Get, GetNothing, Processed, Refused,
                HandOn, ReadAbort, Count, Compare, RaiseDone
  <2>2. (src.done => src'.done) /\ (src.done /\ IsEmpty(src) => IsEmpty(src'))
    BY <1>1 DEF Step, Loop, ReadDone, ReadEmpty, Get, GetNothing, Processed, Refused,
                HandOn, ReadAbort, Count, Compare, RaiseDone, Pop
  <2>3. \A v \in Worker : /\ pc[v] \in LeftPC => pc'[v] \in LeftPC
                          /\ pc[v] \in EndedPC => pc'[v] \in EndedPC
    BY <1>1 DEF Step, Loop, ReadDone, ReadEmpty, Get, GetNothing, Processed, Refused,
                HandOn, ReadAbort, Count, Compare, RaiseDone, Goto, LeftPC, EndedPC
  <2> QED
    BY <2>1, <2>2, <2>3 DEF Ended, EndedPC
<1>2. ASSUME NEW w \in Worker, Create(w)
      PROVE  /\ UNCHANGED <<src, aborted, overtaken>>
             /\ \A v \in Worker : pc[v] # "off" => pc'[v] = pc[v]
  BY <1>2 DEF Create
<1>3. ASSUME Environment
      PROVE  /\ UNCHANGED <<pc, overtaken>> /\ (aborted => aborted')
             /\ src.done => src' = src
  BY <1>3 DEF Environment, Feed, Close, AbortElsewhere, LockDst, UnlockDst, Take, Destroy
<1>4. CASE Push \/ UNCHANGED vars
  BY <1>4 DEF Push, vars, Ended, EndedPC
<1>5. ASSUME NEW w \in Worker, Create(w)
      PROVE  /\ Ended \subseteq Ended'
             /\ \A v \in Worker : pc[v] \in LeftPC => pc'[v] \in LeftPC
  BY <1>2, <1>5 DEF Ended, LeftPC, EndedPC
<1> QED
  BY <1>1, <1>2, <1>3, <1>4, <1>5 DEF Next, Start, Ended, IsEmpty

(* Every step keeps the reason each worker has for being out of its loop:  *)
(* src.done was read before isEmpty, and nothing is added after done.      *)
LEMMA LeaveStep == Book /\ LeaveInv /\ [Next]_vars => LeaveInv'
<1> SUFFICES ASSUME Book, LeaveInv, [Next]_vars, NEW v \in Worker
             PROVE  /\ pc'[v] = "isEmpty" => src'.done
                    /\ pc'[v] \in LeftPC => aborted' \/ (src'.done /\ IsEmpty(src'))
  BY DEF LeaveInv
<1>1. CASE pc'[v] = pc[v]
  BY <1>1, Stable DEF LeaveInv
<1>2. CASE pc'[v] # pc[v]
  <2>1. CASE \E w \in Worker : Create(w)
    BY <1>2, <2>1 DEF Create, Book, TypeOK, LeftPC, EndedPC
  <2>2. CASE \E w \in Worker : Step(w)
    <3>1. PICK w \in Worker : Step(w)
      BY <2>2
    <3>2. Step(v)
      BY <1>2, <3>1 DEF Step, Loop, ReadDone, ReadEmpty, Get, GetNothing, Processed, Refused,
            HandOn, ReadAbort, Count, Compare, RaiseDone, Goto, Book, TypeOK
    <3>3. CASE pc[v] \in LeftPC
      <4>1. pc'[v] \in LeftPC /\ pc'[v] # "isEmpty"
        BY <3>3, Stable DEF LeftPC, EndedPC
      <4> QED
        BY <4>1, <3>3, Stable DEF LeaveInv
    <3>4. CASE pc[v] \notin LeftPC
      <4>1. CASE ReadDone(v)
        BY <4>1 DEF ReadDone, Goto, Book, TypeOK, LeftPC, EndedPC
      <4>2. CASE ReadEmpty(v)
        BY <4>2, <3>4 DEF ReadEmpty, Goto, Book, TypeOK, LeaveInv, LeftPC, EndedPC
      <4>3. CASE ReadAbort(v)
        BY <4>3 DEF ReadAbort, Goto, Book, TypeOK, LeftPC, EndedPC
      <4>4. CASE Refused(v)
        BY <4>4 DEF Refused, Goto, Book, TypeOK, LeftPC, EndedPC
      <4>5. CASE Get(v) \/ GetNothing(v) \/ Processed(v) \/ HandOn(v)
        BY <4>5 DEF Get, GetNothing, Processed, HandOn, Goto, Book, TypeOK, LeftPC, EndedPC
      <4>6. CASE Count(v) \/ Compare(v) \/ RaiseDone(v)
        BY <4>6, <3>4 DEF Count, Compare, RaiseDone, Goto, LeftPC, EndedPC
      <4> QED
        BY <3>2, <4>1, <4>2, <4>3, <4>4, <4>5, <4>6 DEF Step, Loop
    <3> QED
      BY <3>3, <3>4
  <2>3. CASE Push \/ Environment \/ UNCHANGED vars
    BY <1>2, <2>3 DEF Push, vars, Environment, Feed, Close, AbortElsewhere, LockDst,
          UnlockDst, Take, Destroy
  <2> QED
    BY <2>1, <2>2, <2>3 DEF Next, Start
<1> QED
  BY <1>1, <1>2

(* Every step keeps the meaning of the flag.  The step that matters is the *)
(* comparison: equal counters, with the whole pool pushed, make every      *)
(* worker one that has counted itself.                                     *)
LEMMA EndStep == Book /\ EndInv /\ [Next]_vars => EndInv'
<1> SUFFICES ASSUME Book, EndInv, [Next]_vars, ~ overtaken',
                    dst'.done \/ \E w \in Worker : pc'[w] = "setDone"
             PROVE  Ended' = Worker
  BY DEF EndInv
<1>1. Ended \subseteq Ended' /\ Ended' \subseteq Worker /\ ~ overtaken
  BY Stable DEF Ended
<1>2. CASE dst.done \/ \E w \in Worker : pc[w] = "setDone"
  <2>1. Ended = Worker
    BY <1>1, <1>2 DEF EndInv
  <2> QED
    BY <2>1, <1>1
<1>3. CASE ~ dst.done /\ ~ \E w \in Worker : pc[w] = "setDone"
  <2>1. CASE \E w \in Worker : Compare(w)
    <3>1. PICK w \in Worker : Compare(w)
      BY <2>1
    <3>2. dst' = dst /\ pc' = [pc EXCEPT ![w] = IF doneCount = pushed THEN "setDone" ELSE "exit"]
      BY <3>1 DEF Compare, Goto
    <3>3. doneCount = pushed
      BY <3>2, <1>3 DEF Book, TypeOK
    <3>4. /\ ~ (pushed < Cardinality(Worker)) /\ doneCount = Cardinality(Ended)
          /\ pushed \in 0 .. Cardinality(Worker)
      BY <3>1 DEF Compare, Book, TypeOK, CountInv
    <3>5. Ended \in SUBSET Worker /\ Cardinality(Worker) \in Nat
      BY PartsOfPool DEF Ended
    <3>6. Cardinality(Ended) = Cardinality(Worker)
      BY <3>3, <3>4, <3>5
    <3>7. Ended = Worker
      BY <3>5, <3>6, PartsOfPool
    <3> QED
      BY <3>7, <1>1
  <2>2. CASE \E w \in Worker : Step(w) /\ ~ Compare(w)
    <3>1. PICK w \in Worker : Step(w) /\ ~ Compare(w)
      BY <2>2
    <3>2. \A v \in Worker : pc'[v] = "setDone" => pc[v] = "setDone"
      BY <3>1 DEF Step, Loop, ReadDone, ReadEmpty, Get, GetNothing, Processed, Refused,
            HandOn, ReadAbort, Count, RaiseDone, Goto, Book, TypeOK
    <3>3. dst'.done => dst.done \/ pc[w] = "setDone"
      BY <3>1 DEF Step, Loop, ReadDone, ReadEmpty, Get, GetNothing, Processed, Refused,
            HandOn, ReadAbort, Count, RaiseDone, Goto, Book, TypeOK, QueueOf, Add
    <3> QED
      BY <3>2, <3>3, <1>3
  <2>3. CASE \E w \in Worker : Create(w)
    BY <2>3, <1>3 DEF Create, Book, TypeOK, QueueOf, ResetDone
  <2>4. CASE Push \/ UNCHANGED vars
    BY <2>4, <1>3 DEF Push, vars
  <2>5. CASE Environment
    <3>1. pc' = pc
      BY <2>5 DEF Environment, Feed, Close, AbortElsewhere, LockDst, UnlockDst, Take, Destroy
    <3>2. dst'.done = dst.done
      BY <2>5 DEF Environment, Feed, Close, AbortElsewhere, LockDst, UnlockDst, Take, Destroy,
            Lock, Unlock, Erase, Book, TypeOK, QueueOf
    <3> QED
      BY <3>1, <3>2, <1>3
  <2> QED
    BY <2>1, <2>2, <2>3, <2>4, <2>5 DEF Next, Start
<1> QED
  BY <1>2, <1>3

(* The inductive invariant behind both properties of the flag.             *)
DrainInv == Book /\ LeaveInv /\ EndInv

LEMMA DrainInvariant == Safety => []DrainInv
<1>1. Init => DrainInv
  <2> SUFFICES ASSUME Init PROVE DrainInv
    OBVIOUS
  <2>1. Book
    BY BookInit
  <2>2. LeaveInv
    BY DEF Init, LeaveInv, LeftPC, EndedPC
  <2>3. EndInv
    BY NewQueueFacts DEF Init, EndInv
  <2> QED
    BY <2>1, <2>2, <2>3 DEF DrainInv
<1>2. DrainInv /\ [Next]_vars => DrainInv'
  BY BookStep, LeaveStep, EndStep DEF DrainInv
<1> QED
  BY <1>1, <1>2, PTL DEF Safety

(* When the destination's done flag is up and no worker was overtaken,     *)
(* every worker has left its loop for good, so the object may go; if       *)
(* nobody aborted, the source is done and empty and no worker holds an     *)
(* asset, so the consumer may leave (process.cpp:36-39, 60, 72-74).        *)
THEOREM FlagMeansDrained == Safety => []DoneMeansDrained
<1>1. DrainInv => DoneMeansDrained
  <2>0. Book /\ EndInv /\ dst.done /\ ~ overtaken => Ended = Worker
    BY DEF EndInv
  <2> SUFFICES ASSUME Book, LeaveInv, EndInv, dst.done, ~ aborted, ~ overtaken
               PROVE  src.done /\ IsEmpty(src) /\ InHand = {}
    BY <2>0 DEF DrainInv, DoneMeansDrained
  <2>1. \A w \in Worker : pc[w] \in LeftPC
    BY DEF EndInv, Ended, EndedPC, LeftPC
  <2>2. src.done /\ IsEmpty(src)
    BY <2>1, WorkerAssumption DEF LeaveInv
  <2>3. \A w \in Worker : hand[w] = NoAsset
    BY <2>1 DEF Book, HandInv, LeftPC, EndedPC
  <2> QED
    BY <2>2, <2>3 DEF InHand
<1> QED
  BY <1>1, DrainInvariant, PTL

(* No step adds to the destination queue after its flag went up, aborting  *)
(* or not (process.cpp:72-74).                                             *)
THEOREM NothingAddedAfterDone == Safety => NothingAfterDone
<1>1. DrainInv /\ [Next]_vars =>
         [dst.done /\ ~ overtaken => Items(dst') \subseteq Items(dst)]_vars
  <2> SUFFICES ASSUME Book, EndInv, Next, dst.done, ~ overtaken
               PROVE  Items(dst') \subseteq Items(dst)
    BY DEF DrainInv
  <2>1. dst \in QueueOf(Asset)
    BY DEF Book, TypeOK
  <2>2. \A w \in Worker : pc[w] \in EndedPC
    BY DEF EndInv, Ended, EndedPC
  <2>3. \A w \in Worker : ~ HandOn(w)
    BY <2>2 DEF HandOn, Goto, EndedPC
  <2>4. CASE \E w \in Worker : Step(w) \/ Create(w)
    <3>1. dst' \in {dst, SetDone(dst), ResetDone(dst)}
      BY <2>3, <2>4 DEF Step, Loop, ReadDone, ReadEmpty, Get, GetNothing, Processed,
            Refused, ReadAbort, Count, Compare, RaiseDone, Create
    <3> QED
      BY <3>1, <2>1, FlagFacts
  <2>5. CASE Push
    BY <2>5 DEF Push
  <2>6. CASE Environment
    <3>1. ASSUME NEW i \in 1 .. Len(dst.items), Take(i)
          PROVE  Items(dst') \subseteq Items(dst)
      <4>1. Erase(dst, i) \in QueueOf(Asset) /\ Items(Erase(dst, i)) \subseteq Items(dst)
        BY <3>1, <2>1, EraseFacts
      <4> QED
        BY <3>1, <4>1, FlagFacts DEF Take
    <3>2. CASE LockDst \/ UnlockDst
      BY <3>2, <2>1, FlagFacts DEF LockDst, UnlockDst
    <3> QED
      BY <2>6, <3>1, <3>2 DEF Environment, Feed, Close, AbortElsewhere, Destroy
  <2> QED
    BY <2>4, <2>5, <2>6 DEF Next, Start
<1> QED
  BY <1>1, DrainInvariant, PTL DEF Safety, NothingAfterDone
-----------------------------------------------------------------------------
(* Ownership: where an asset is.  Each of the four moves of an asset (fed,  *)
(* taken up by a worker, handed on, taken by the consumer) makes it leave   *)
(* one place and enter the next; everything else moves no asset at all.     *)
Own == NoLoss /\ OneOwner

LEMMA OwnStep == Book /\ Own /\ [Next]_vars => Own'
<1> SUFFICES ASSUME Book, NoLoss, OneOwner, [Next]_vars
             PROVE  NoLoss' /\ OneOwner'
  BY DEF Own
<1>0. /\ src \in QueueOf(Asset) /\ dst \in QueueOf(Asset)
      /\ hand \in [Worker -> Asset \cup {NoAsset}]
  BY DEF Book, TypeOK
<1>1. ASSUME NEW p \in Asset, Feed(p)
      PROVE  NoLoss' /\ OneOwner'
  <2>1. UNCHANGED <<dst, hand, taken>> /\ InHand' = InHand
    BY <1>1 DEF Feed, InHand
  <2>2. p \notin Items(src) /\ p \notin InHand /\ p \notin Items(dst) /\ p \notin taken
    BY <1>1 DEF Feed, NoLoss
  <2>3. Items(src)' = Items(src) \cup {p} /\ Distinct(src')
    BY <1>0, <1>1, <2>2, AddFacts DEF Feed, OneOwner
  <2>4. fed' = fed \cup {p}
    BY <1>1 DEF Feed
  <2>5. Items(dst)' = Items(dst)
    BY <2>1
  <2> QED
    BY <2>1, <2>2, <2>3, <2>4, <2>5 DEF NoLoss, OneOwner
<1>2. ASSUME NEW w \in Worker, Get(w), UNCHANGED <<fed, taken>>
      PROVE  NoLoss' /\ OneOwner'
  <2> DEFINE a == Front(src)
  <2>1. /\ a \in Items(src) /\ a \in Asset
        /\ Items(src) = Items(src)' \cup {a} /\ a \notin Items(src)'
        /\ Distinct(src')
    BY <1>0, <1>2, PopFacts, ItemsOfQueue DEF Get, OneOwner
  <2>2. hand[w] = NoAsset
    BY <1>2 DEF Get, Goto, Book, HandInv, LeftPC, EndedPC
  <2>3. hand'[w] = a /\ \A v \in Worker \ {w} : hand'[v] = hand[v]
    BY <1>0, <1>2 DEF Get
  <2>4. InHand' = InHand \cup {a}
    BY <2>1, <2>2, <2>3, NoAssetAssumption DEF InHand
  <2>5. a \notin InHand /\ a \notin Items(dst) /\ a \notin taken
    BY <2>1 DEF OneOwner
  <2>6. \A v \in Worker : hand[v] # a
    BY <2>1, <2>5, NoAssetAssumption DEF InHand
  <2>7. \A u, v \in Worker : hand'[u] = hand'[v] /\ hand'[u] # NoAsset => u = v
    BY <2>3, <2>6 DEF OneOwner
  <2>8. dst' = dst /\ Items(dst)' = Items(dst)
    BY <1>2 DEF Get
  <2> QED
    BY <1>2, <2>1, <2>4, <2>5, <2>7, <2>8 DEF NoLoss, OneOwner
<1>3. ASSUME NEW w \in Worker, HandOn(w), UNCHANGED <<fed, taken>>
      PROVE  NoLoss' /\ OneOwner'
  <2> DEFINE a == hand[w]
  <2>1. a \in Asset
    BY <1>0, <1>3 DEF HandOn, Goto, Book, HandInv
  <2>2. hand'[w] = NoAsset /\ \A v \in Worker \ {w} : hand'[v] = hand[v]
    BY <1>0, <1>3 DEF HandOn
  <2>3. \A v \in Worker \ {w} : hand[v] # a
    BY <2>1, NoAssetAssumption DEF OneOwner
  <2>4. InHand = InHand' \cup {a} /\ a \notin InHand'
    BY <2>1, <2>2, <2>3, NoAssetAssumption DEF InHand
  <2>5. a \notin Items(src) /\ a \notin Items(dst) /\ a \notin taken
    BY <2>4 DEF OneOwner
  <2>6. Items(dst)' = Items(dst) \cup {a} /\ Distinct(dst')
    BY <1>0, <1>3, <2>1, <2>5, AddFacts DEF HandOn, OneOwner
  <2>7. \A u, v \in Worker : hand'[u] = hand'[v] /\ hand'[u] # NoAsset => u = v
    BY <2>2 DEF OneOwner
  <2>8. src' = src /\ Items(src)' = Items(src)
    BY <1>3 DEF HandOn
  <2> QED
    BY <1>3, <2>4, <2>5, <2>6, <2>7, <2>8 DEF NoLoss, OneOwner
<1>4. ASSUME NEW i \in 1 .. Len(dst.items), Take(i)
      PROVE  NoLoss' /\ OneOwner'
  <2> DEFINE a == dst.items[i]
  <2>1. /\ Erase(dst, i) \in QueueOf(Asset)
        /\ Items(dst) = Items(Erase(dst, i)) \cup {a} /\ a \notin Items(Erase(dst, i))
        /\ Distinct(Erase(dst, i))
    BY <1>0, <1>4, EraseFacts DEF OneOwner
  <2>2. Items(dst)' = Items(Erase(dst, i)) /\ Distinct(dst')
    BY <1>4, <2>1, FlagFacts DEF Take
  <2>3. UNCHANGED <<src, hand, fed>> /\ taken' = taken \cup {a}
    BY <1>4 DEF Take
  <2>4. InHand' = InHand /\ Items(src)' = Items(src)
    BY <2>3 DEF InHand
  <2> QED
    BY <2>1, <2>2, <2>3, <2>4 DEF NoLoss, OneOwner
<1>5. ASSUME UNCHANGED <<hand, fed, taken>>,
             Items(src)' = Items(src), Items(dst)' = Items(dst),
             Distinct(src'), Distinct(dst')
      PROVE  NoLoss' /\ OneOwner'
  BY <1>5 DEF NoLoss, OneOwner, InHand
<1>6. ASSUME UNCHANGED <<hand, fed, taken>>,
             src' \in {src, SetDone(src)},
             dst' \in {dst, SetDone(dst), ResetDone(dst), Lock(dst), Unlock(dst)}
      PROVE  NoLoss' /\ OneOwner'
  <2>1. Items(src)' = Items(src) /\ Distinct(src')
    BY <1>0, <1>6, FlagFacts DEF OneOwner
  <2>2. Items(dst)' = Items(dst) /\ Distinct(dst')
    BY <1>0, <1>6, FlagFacts DEF OneOwner
  <2> QED
    BY <1>5, <1>6, <2>1, <2>2
<1>7. CASE Start /\ UNCHANGED <<fed, taken>>
  BY <1>6, <1>7 DEF Start, Push, Create
<1>8. ASSUME NEW w \in Worker, Step(w), UNCHANGED <<fed, taken>>
      PROVE  NoLoss' /\ OneOwner'
  <2>1. CASE Get(w) \/ HandOn(w)
    BY <2>1, <1>2, <1>3, <1>8
  <2>2. CASE ~ Get(w) /\ ~ HandOn(w)
    <3>1. /\ UNCHANGED <<hand, src>>
          /\ dst' \in {dst, SetDone(dst)}
      BY <2>2, <1>8 DEF Step, Loop, ReadDone, ReadEmpty, GetNothing, Processed, Refused,
            ReadAbort, Count, Compare, RaiseDone
    <3> QED
      BY <3>1, <1>6, <1>8
  <2> QED
    BY <2>1, <2>2
<1>9. CASE Close \/ AbortElsewhere \/ LockDst \/ UnlockDst \/ Destroy \/ UNCHANGED vars
  BY <1>6, <1>9 DEF Close, AbortElsewhere, LockDst, UnlockDst, Destroy, vars
<1> QED
  BY <1>1, <1>4, <1>7, <1>8, <1>9 DEF Next, Environment

LEMMA OwnInvariant == Safety => [](Book /\ Own)
<1>1. Init => Own
  <2> SUFFICES ASSUME Init PROVE NoLoss /\ OneOwner
    BY DEF Own
  <2>1. Items(src) = {} /\ Items(dst) = {} /\ Distinct(src) /\ Distinct(dst)
    BY NewQueueFacts DEF Init
  <2>2. (\A w \in Worker : hand[w] = NoAsset) /\ InHand = {} /\ taken = {} /\ fed = {}
    BY DEF Init, InHand
  <2> QED
    BY <2>1, <2>2 DEF NoLoss, OneOwner
<1> QED
  BY BookInit, BookStep, <1>1, OwnStep, PTL DEF Safety

(* No asset the producer added is ever lost between the two queues,        *)
(* whatever workers, producer, consumer and aborts do (process.cpp:62-65). *)
THEOREM NothingLost == Safety => []NoLoss
<1>1. Own => NoLoss
  BY DEF Own
<1> QED
  BY <1>1, OwnInvariant, PTL

(* Every asset is in one place at a time: two workers never process the    *)
(* same one and none comes out twice (queue.h:71-81).                      *)
THEOREM ProcessedOnce == Safety => []OneOwner
<1>1. Own => OneOwner
  BY DEF Own
<1> QED
  BY <1>1, OwnInvariant, PTL
=============================================================================

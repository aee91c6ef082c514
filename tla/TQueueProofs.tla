---------------------------- MODULE TQueueProofs ----------------------------
(***************************************************************************)
(* What each queue operation of TQueue does to the type, the elements and  *)
(* the absence of duplicates of a queue, for every set of elements.  The   *)
(* proofs about the components cite these facts and never look inside a    *)
(* queue.                                                                  *)
(***************************************************************************)
EXTENDS TQueue, SequenceTheorems, TLAPS

(* The elements of a queue are the values at its positions, and a queue is *)
(* empty exactly when it has none (queue.h:64-69).                         *)
LEMMA ItemsOfQueue ==
    ASSUME NEW S, NEW q \in QueueOf(S)
    PROVE  /\ Items(q) = {q.items[i] : i \in 1 .. Len(q.items)}
           /\ Items(q) \subseteq S
           /\ IsEmpty(q) <=> Items(q) = {}
<1>1. q.items \in Seq(S)
  BY DEF QueueOf
<1>2. Items(q) = {q.items[i] : i \in 1 .. Len(q.items)}
  BY <1>1, RangeEquality DEF Items
<1>3. Items(q) \subseteq S
  BY <1>1, <1>2, ElementOfSeq
<1>4. IsEmpty(q) => Items(q) = {}
  BY <1>2 DEF IsEmpty
<1>5. ~ IsEmpty(q) => 1 \in 1 .. Len(q.items)
  BY <1>1, EmptySeq DEF IsEmpty
<1> QED
  BY <1>2, <1>3, <1>4, <1>5

(* The constructor yields an empty queue (queue.h:38).                     *)
LEMMA NewQueueFacts ==
    ASSUME NEW S
    PROVE  /\ NewQueue \in QueueOf(S)
           /\ Items(NewQueue) = {}
           /\ Distinct(NewQueue)
           /\ ~ NewQueue.done
<1>1. NewQueue \in QueueOf(S) /\ IsEmpty(NewQueue) /\ ~ NewQueue.done
  BY EmptySeq DEF NewQueue, QueueOf, IsEmpty
<1>2. Distinct(NewQueue)
  BY EmptySeq DEF NewQueue, Distinct
<1> QED
  BY <1>1, <1>2, ItemsOfQueue

(* add() puts its argument behind everything else (queue.h:41-46).         *)
LEMMA AddFacts ==
    ASSUME NEW S, NEW q \in QueueOf(S), NEW p \in S
    PROVE  /\ Add(q, p) \in QueueOf(S)
           /\ Items(Add(q, p)) = Items(q) \cup {p}
           /\ Distinct(q) /\ p \notin Items(q) => Distinct(Add(q, p))
           /\ Add(q, p).done = q.done
           /\ Add(q, p).locked = q.locked
<1> DEFINE s == q.items  t == Append(q.items, p)
<1>1. s \in Seq(S)
  BY DEF QueueOf
<1>2. /\ t \in Seq(S) /\ Len(t) = Len(s) + 1 /\ Len(s) \in Nat
      /\ \A i \in 1 .. Len(s) : t[i] = s[i]
      /\ t[Len(s) + 1] = p
  BY <1>1, AppendProperties, LenProperties
<1>3. /\ Add(q, p) \in QueueOf(S) /\ Add(q, p).items = t
      /\ Add(q, p).done = q.done /\ Add(q, p).locked = q.locked
  BY <1>2 DEF Add, QueueOf
<1>4. 1 .. Len(t) = (1 .. Len(s)) \cup {Len(s) + 1}
  BY <1>2
<1>5. Items(Add(q, p)) = Items(q) \cup {p}
  <2>1. /\ Items(Add(q, p)) = {t[i] : i \in 1 .. Len(t)}
        /\ Items(q) = {s[i] : i \in 1 .. Len(s)}
    BY <1>3, ItemsOfQueue
  <2> QED
    BY <2>1, <1>2, <1>4
<1>6. ASSUME Distinct(q), p \notin Items(q)
      PROVE  Distinct(Add(q, p))
  <2>1. \A i \in 1 .. Len(s) : s[i] # p
    BY <1>6, ItemsOfQueue
  <2>2. \A i, j \in 1 .. Len(t) : t[i] = t[j] => i = j
    BY <2>1, <1>2, <1>4, <1>6 DEF Distinct
  <2> QED
    BY <2>2, <1>3 DEF Distinct
<1> QED
  BY <1>3, <1>5, <1>6

(* get() on a queue that is not empty returns one of its elements and      *)
(* leaves the others; with no duplicates the one returned is gone          *)
(* (queue.h:71-81).                                                        *)
LEMMA PopFacts ==
    ASSUME NEW S, NEW q \in QueueOf(S), ~ IsEmpty(q)
    PROVE  /\ Pop(q) \in QueueOf(S)
           /\ Front(q) \in Items(q)
           /\ Items(q) = Items(Pop(q)) \cup {Front(q)}
           /\ Distinct(q) => Distinct(Pop(q)) /\ Front(q) \notin Items(Pop(q))
           /\ Pop(q).done = q.done
           /\ Pop(q).locked = q.locked
<1> DEFINE s == q.items  t == Tail(q.items)
<1>1. s \in Seq(S) /\ s # << >>
  BY DEF QueueOf, IsEmpty
<1>2. /\ t \in Seq(S) /\ Len(t) = Len(s) - 1 /\ Len(s) \in Nat \ {0}
      /\ \A i \in 1 .. Len(t) : t[i] = s[i + 1]
  BY <1>1, HeadTailProperties, EmptySeq
<1>3. Head(s) = s[1]
  BY <1>1
<1>4. /\ Pop(q) \in QueueOf(S) /\ Pop(q).items = t
      /\ Pop(q).done = q.done /\ Pop(q).locked = q.locked
  BY <1>2 DEF Pop, QueueOf
<1>5. /\ Items(Pop(q)) = {t[i] : i \in 1 .. Len(t)}
      /\ Items(q) = {s[i] : i \in 1 .. Len(s)}
  <2>1. Items(Pop(q)) = {Pop(q).items[i] : i \in 1 .. Len(Pop(q).items)}
    BY <1>4, ItemsOfQueue
  <2>2. Items(q) = {s[i] : i \in 1 .. Len(s)}
    BY ItemsOfQueue
  <2> QED
    BY <2>1, <2>2, <1>4
<1>6. Front(q) = s[1] /\ Front(q) \in Items(q)
  BY <1>2, <1>3, <1>5 DEF Front
<1> HIDE DEF t
<1>7. Items(q) = Items(Pop(q)) \cup {Front(q)}
  <2>1. \A i \in 2 .. Len(s) : i - 1 \in 1 .. Len(t) /\ s[i] = t[i - 1]
    BY <1>2
  <2>2. \A i \in 1 .. Len(t) : i + 1 \in 1 .. Len(s) /\ t[i] = s[i + 1]
    BY <1>2
  <2>3. 1 .. Len(s) = {1} \cup (2 .. Len(s))
    BY <1>2
  <2>4. Items(q) \subseteq Items(Pop(q)) \cup {Front(q)}
    BY <2>1, <2>3, <1>5, <1>6
  <2>5. ASSUME NEW x \in Items(Pop(q))
        PROVE  x \in Items(q)
    <3>1. PICK i \in 1 .. Len(t) : x = t[i]
      BY <1>5
    <3>2. i + 1 \in 1 .. Len(s) /\ x = s[i + 1]
      BY <3>1, <2>2
    <3> QED
      BY <3>2, <1>5
  <2> QED
    BY <2>4, <2>5, <1>6
<1>8. ASSUME Distinct(q)
      PROVE  Distinct(Pop(q)) /\ Front(q) \notin Items(Pop(q))
  <2>1. \A i \in 1 .. Len(t) : i + 1 \in 1 .. Len(s) /\ t[i] = s[i + 1] /\ t[i] # s[1]
    BY <1>2, <1>8 DEF Distinct
  <2>2. \A i, j \in 1 .. Len(t) : t[i] = t[j] => i = j
    BY <2>1, <1>2, <1>8 DEF Distinct
  <2> QED
    BY <2>1, <2>2, <1>4, <1>5, <1>6 DEF Distinct
<1> QED
  BY <1>4, <1>6, <1>7, <1>8

(* Erasing the element at a position leaves the others, each once          *)
(* (main.cpp:372-374).                                                     *)
LEMMA EraseFacts ==
    ASSUME NEW S, NEW q \in QueueOf(S), NEW k \in 1 .. Len(q.items)
    PROVE  /\ Erase(q, k) \in QueueOf(S)
           /\ q.items[k] \in Items(q)
           /\ Items(q) = Items(Erase(q, k)) \cup {q.items[k]}
           /\ Distinct(q) => Distinct(Erase(q, k)) /\ q.items[k] \notin Items(Erase(q, k))
           /\ Erase(q, k).done = q.done
           /\ Erase(q, k).locked = q.locked
<1> DEFINE s == q.items
           n == Len(q.items)
           a == SubSeq(s, 1, k - 1)
           b == SubSeq(s, k + 1, n)
           t == a \o b
           up(i) == IF i < k THEN i ELSE i + 1
<1>1. s \in Seq(S) /\ n \in Nat /\ k \in 1 .. n
  BY LenProperties DEF QueueOf
<1>2. \A i \in 1 .. n : s[i] \in S
  BY <1>1, ElementOfSeq
<1>3. /\ a \in Seq(S) /\ Len(a) = k - 1
      /\ \A i \in 1 .. k - 1 : a[i] = s[i]
  <2>1. \A i \in 1 .. k - 1 : s[i] \in S
    BY <1>1, <1>2
  <2>2. /\ a \in Seq(S) /\ Len(a) = IF 1 <= k - 1 THEN (k - 1) - 1 + 1 ELSE 0
        /\ \A i \in 1 .. (k - 1) - 1 + 1 : a[i] = s[1 + i - 1]
    BY <2>1, <1>1, SubSeqProperties
  <2> QED
    BY <2>2, <1>1
<1>4. /\ b \in Seq(S) /\ Len(b) = n - k
      /\ \A i \in 1 .. n - k : b[i] = s[k + i]
  <2>1. \A i \in k + 1 .. n : s[i] \in S
    BY <1>1, <1>2
  <2>2. /\ b \in Seq(S) /\ Len(b) = IF k + 1 <= n THEN n - (k + 1) + 1 ELSE 0
        /\ \A i \in 1 .. n - (k + 1) + 1 : b[i] = s[k + 1 + i - 1]
    BY <2>1, <1>1, SubSeqProperties
  <2> QED
    BY <2>2, <1>1
<1> HIDE DEF a, b
<1>5. /\ t \in Seq(S) /\ Len(t) = n - 1
      /\ \A i \in 1 .. n - 1 : t[i] = s[up(i)]
  <2>1. /\ t \in Seq(S) /\ Len(t) = Len(a) + Len(b)
        /\ \A i \in 1 .. Len(a) + Len(b) :
              t[i] = IF i <= Len(a) THEN a[i] ELSE b[i - Len(a)]
    BY <1>3, <1>4, ConcatProperties
  <2> HIDE DEF t
  <2>2. ASSUME NEW i \in 1 .. n - 1
        PROVE  t[i] = s[up(i)]
    <3>1. CASE i < k
      BY <3>1, <2>1, <1>1, <1>3, <1>4
    <3>2. CASE i >= k
      <4>1. i - (k - 1) \in 1 .. n - k /\ ~ (i <= k - 1)
        BY <3>2, <1>1
      <4>2. i \in 1 .. Len(a) + Len(b) /\ ~ (i <= Len(a))
        BY <4>1, <1>1, <1>3, <1>4
      <4>3. t[i] = b[i - (k - 1)]
        BY <4>2, <2>1, <1>3
      <4>4. b[i - (k - 1)] = s[k + (i - (k - 1))]
        BY <4>1, <1>4
      <4> QED
        BY <4>3, <4>4, <3>2, <1>1
    <3> QED
      BY <3>1, <3>2, <1>1
  <2> QED
    BY <2>1, <2>2, <1>1, <1>3, <1>4
<1>6. /\ Erase(q, k) \in QueueOf(S) /\ Erase(q, k).items = t
      /\ Erase(q, k).done = q.done /\ Erase(q, k).locked = q.locked
  <2>1. Erase(q, k) = [q EXCEPT !.items = t]
    BY DEF Erase, a, b
  <2> HIDE DEF t
  <2> QED
    BY <2>1, <1>5 DEF QueueOf
<1> HIDE DEF t, up
<1>7. /\ Items(Erase(q, k)) = {t[i] : i \in 1 .. n - 1}
      /\ Items(q) = {s[i] : i \in 1 .. n}
  <2>1. Items(Erase(q, k)) = {Erase(q, k).items[i] : i \in 1 .. Len(Erase(q, k).items)}
    BY <1>6, ItemsOfQueue
  <2>2. Items(q) = {s[i] : i \in 1 .. n}
    BY ItemsOfQueue
  <2> QED
    BY <2>1, <2>2, <1>5, <1>6
<1> USE DEF up
<1>8. /\ \A i \in 1 .. n - 1 : up(i) \in (1 .. n) \ {k}
      /\ \A i, j \in 1 .. n - 1 : up(i) = up(j) => i = j
      /\ \A j \in (1 .. n) \ {k} : \E i \in 1 .. n - 1 : j = up(i)
  <2>1. ASSUME NEW j \in (1 .. n) \ {k}
        PROVE  \E i \in 1 .. n - 1 : j = up(i)
    <3>1. CASE j < k
      BY <3>1, <1>1
    <3>2. CASE j > k
      <4>1. j - 1 \in 1 .. n - 1 /\ j = up(j - 1)
        BY <3>2, <1>1
      <4> QED
        BY <4>1
    <3> QED
      BY <3>1, <3>2, <1>1
  <2> QED
    BY <2>1, <1>1
<1> HIDE DEF up
<1>9. Items(q) = Items(Erase(q, k)) \cup {s[k]} /\ s[k] \in Items(q)
  <2>1. Items(Erase(q, k)) = {s[up(i)] : i \in 1 .. n - 1}
    BY <1>5, <1>7
  <2>2. Items(Erase(q, k)) = {s[j] : j \in (1 .. n) \ {k}}
    BY <2>1, <1>8
  <2> QED
    BY <2>2, <1>7, <1>1
<1>10. ASSUME Distinct(q)
       PROVE  Distinct(Erase(q, k)) /\ s[k] \notin Items(Erase(q, k))
  <2>1. \A i, j \in 1 .. n : s[i] = s[j] => i = j
    BY <1>10 DEF Distinct
  <2>2. \A i, j \in 1 .. n - 1 : t[i] = t[j] => i = j
    BY <2>1, <1>5, <1>8
  <2>3. \A i \in 1 .. n - 1 : t[i] # s[k]
    BY <2>1, <1>1, <1>5, <1>8
  <2> QED
    BY <2>2, <2>3, <1>5, <1>6, <1>7 DEF Distinct
<1> QED
  BY <1>6, <1>9, <1>10

(* The flag and the mutex leave the list alone (queue.h:83-88).            *)
LEMMA FlagFacts ==
    ASSUME NEW S, NEW q \in QueueOf(S),
           NEW r \in {SetDone(q), ResetDone(q), Lock(q), Unlock(q)}
    PROVE  /\ r \in QueueOf(S)
           /\ r.items = q.items
           /\ Items(r) = Items(q)
           /\ IsEmpty(r) = IsEmpty(q)
           /\ Distinct(q) => Distinct(r)
<1>1. r \in QueueOf(S) /\ r.items = q.items
  BY DEF QueueOf, SetDone, ResetDone, Lock, Unlock
<1> QED
  BY <1>1 DEF Items, IsEmpty, Distinct
=============================================================================

------------------------------- MODULE TQueue -------------------------------
(***************************************************************************)
(* CTQueue<T> of queue.h: a std::list guarded by a mutex, with an atomic   *)
(* flag _done that its producer raises when nothing more will be added.    *)
(*                                                                         *)
(* Every member function takes the mutex for its whole body, so each one   *)
(* is one indivisible operator here.  lock()/unlock() hand the mutex and   *)
(* the list itself to a caller, who may hold it over several steps: the    *)
(* field locked records that, and a step that needs the mutex is enabled   *)
(* only when Free(q) holds.  done, setDone and resetDone use the atomic    *)
(* flag alone and never wait.                                              *)
(***************************************************************************)
EXTENDS Integers, Sequences, Functions

\* The queues whose elements belong to S.
QueueOf(S) == [items : Seq(S), done : BOOLEAN, locked : BOOLEAN]

\* The constructor: empty, not done, mutex free.
NewQueue == [items |-> << >>, done |-> FALSE, locked |-> FALSE]

\* The elements of the list, and whether no pointer is in it twice.
Items(q)    == Range(q.items)
Distinct(q) == \A i, j \in 1 .. Len(q.items) : q.items[i] = q.items[j] => i = j

Free(q)    == ~ q.locked
IsEmpty(q) == q.items = << >>

\* push_back; front and pop_front (the two halves of get); erase at a position.
Add(q, p)   == [q EXCEPT !.items = Append(@, p)]
Front(q)    == Head(q.items)
Pop(q)      == [q EXCEPT !.items = Tail(@)]
Erase(q, i) == [q EXCEPT !.items = SubSeq(@, 1, i - 1) \o SubSeq(@, i + 1, Len(@))]

SetDone(q)   == [q EXCEPT !.done = TRUE]
ResetDone(q) == [q EXCEPT !.done = FALSE]

Lock(q)   == [q EXCEPT !.locked = TRUE]
Unlock(q) == [q EXCEPT !.locked = FALSE]
=============================================================================

---------------------------- MODULE RemoteLsProofs ----------------------------
(***************************************************************************)
(* Proofs about RemoteLs, for every tree of folders, every number of       *)
(* threads, and whatever lines a failing answer lacks or has beside those  *)
(* of the listing.  The argument:                                          *)
(* a folder becomes known when its parent's listing arrives, and from then *)
(* on it is in one place only (found, queued, held by a thread, asked), so *)
(* _folderCount is the number of folders that are not yet dealt with, and  *)
(* zero means that there is none.                                          *)
(***************************************************************************)
EXTENDS RemoteLs, TQueueProofs, FiniteSetTheorems

\* build() has not put the destination folder in the queue yet.
RootToCome == build \in {"start", "addRoot"}

\* The folders not yet dealt with, apart from those found and not yet counted.
Open ==
    {d \in Folder :
        \/ d \in Queued
        \/ \E w \in Busy : d = folder[w]
        \/ \E w \in Worker : pc[w] = "addDirs" /\ d \in dirs[w]
        \/ RootToCome /\ d = Root}

(* A known folder is in one place, and its parent was asked                *)
(* (remoteLs.cpp:57-70, 168-206).                                          *)
FolderInv ==
    /\ Queued \subseteq Folder
    /\ RootToCome => Queued = {} /\ Busy = {} /\ asked = {}
    /\ \A d \in Queued : d \notin asked /\ (d # Root => Parent[d] \in asked)
    /\ \A d \in asked : d # Root => Parent[d] \in asked
    /\ \A w \in Busy :
          /\ folder[w] \in asked <=> pc[w] # "get"
          /\ folder[w] \notin Queued
          /\ folder[w] # Root => Parent[folder[w]] \in asked
    /\ \A v, w \in Busy : folder[v] = folder[w] => v = w
    /\ \A w \in Worker : \A d \in dirs[w] :
          d \notin Queued /\ d \notin asked /\ \A v \in Busy : folder[v] # d

(* A known object is in one place, and its folder was asked.               *)
FileInv ==
    /\ \A p \in Found : Parent[p] \in asked
    /\ \A w \in Worker : \A p \in files[w] : p \notin Found
    /\ Distinct(queue)

(* The counter (remoteLs.cpp:191, 208).                                    *)
CountInv == folderCount = Cardinality(Open)

(* Who has left did so with nothing left to do (remoteLs.cpp:152).         *)
LeaveInv == (\E w \in Worker : pc[w] = "exit") \/ notifier = "exit" => Open = {}

(* Nothing that the listings had is forgotten, and nothing else is taken   *)
(* for a path.                                                             *)
WholeInv ==
    ~ failed =>
        /\ Found \subseteq File \ Foreign
        /\ \A w \in Worker : files[w] \subseteq File \ Foreign
        /\ \A p \in File \ Foreign : Parent[p] \in asked => p \in Found \/ \E w \in Worker : p \in files[w]
        /\ \A d \in (Folder \ {Root}) \ Foreign : Parent[d] \in asked =>
              \/ d \in asked \cup Queued
              \/ \E w \in Worker : d = folder[w] \/ d \in dirs[w]
        /\ RootToCome \/ Root \in asked \cup Queued \/ \E w \in Worker : Root = folder[w]

(* What build() returns is what the queue then held (remoteLs.cpp:123-131). *)
BuiltInv ==
    build = "built" =>
        /\ notifier = "exit" /\ \A w \in Worker : pc[w] = "exit"
        /\ paths = Queued \cup Found

IInv == TypeOK /\ FolderInv /\ FileInv /\ CountInv /\ LeaveInv /\ WholeInv /\ BuiltInv

-----------------------------------------------------------------------------
(* The queue, as the two sets of paths that are in it.                     *)

Element == [path : Entry, isFolder : BOOLEAN]

LEMMA QueueAsSets ==
    ASSUME NEW q \in QueueOf(Element),
           NEW ps, ps = {e.path : e \in {x \in Items(q) : x.isFolder}},
           NEW fs, fs = {e.path : e \in {x \in Items(q) : ~ x.isFolder}}
    PROVE  /\ ps \subseteq Entry /\ fs \subseteq Entry
           /\ \A p \in Entry : Data(p, TRUE) \in Items(q) <=> p \in ps
           /\ \A p \in Entry : Data(p, FALSE) \in Items(q) <=> p \in fs
<1>1. Items(q) \subseteq Element
  BY ItemsOfQueue
<1>2. \A e \in Element : e = Data(e.path, e.isFolder)
  BY DEF Element, Data
<1> QED
  BY <1>1, <1>2 DEF Element, Data

(* add() puts one path in one of the sets (remoteLs.cpp:113, 193, 203).    *)
LEMMA AddEffect ==
    ASSUME queue \in QueueOf(Element), NEW p \in Entry, NEW b \in BOOLEAN,
           queue' = Add(queue, Data(p, b))
    PROVE  /\ (queue \in QueueOf(Element))'
           /\ Queued' = IF b THEN Queued \cup {p} ELSE Queued
           /\ Found' = IF b THEN Found ELSE Found \cup {p}
           /\ Distinct(queue) /\ p \notin (IF b THEN Queued ELSE Found) => Distinct(queue)'
<1>1. Data(p, b) \in Element
  BY DEF Data, Element
<1>2. /\ queue' \in QueueOf(Element)
      /\ Items(queue') = Items(queue) \cup {Data(p, b)}
      /\ Distinct(queue) /\ Data(p, b) \notin Items(queue) => Distinct(queue')
  BY <1>1, AddFacts
<1>3. Queued' = IF b THEN Queued \cup {p} ELSE Queued
  BY <1>2 DEF Queued, Data
<1>4. Found' = IF b THEN Found ELSE Found \cup {p}
  BY <1>2 DEF Found, Data
<1>5. Data(p, b) \in Items(queue) <=> p \in (IF b THEN Queued ELSE Found)
  BY QueueAsSets, ZenonT(40) DEF Queued, Found
<1> QED
  BY <1>2, <1>3, <1>4, <1>5

(* getFolder() takes one folder out of the queue (remoteLs.cpp:50-73).     *)
LEMMA TakeEffect ==
    ASSUME queue \in QueueOf(Element), Distinct(queue), NEW w \in Worker, Take(w)
    PROVE  /\ (queue \in QueueOf(Element))' /\ Distinct(queue)'
           /\ \E d \in Queued :
                 /\ folder' = [folder EXCEPT ![w] = d]
                 /\ Queued' = Queued \ {d}
           /\ Found' = Found
<1>1. PICK i \in 1 .. Len(queue.items) :
         /\ FolderAt(i)
         /\ folder' = [folder EXCEPT ![w] = queue.items[i].path]
         /\ queue' = Erase(queue, i)
  BY DEF Take
<1> DEFINE x == queue.items[i]
<1>2. /\ queue' \in QueueOf(Element) /\ Distinct(queue')
      /\ x \in Items(queue) /\ Items(queue') = Items(queue) \ {x}
  BY <1>1, EraseFacts
<1>3. x \in Element /\ x.isFolder /\ x = Data(x.path, TRUE)
  <2>1. x \in Element /\ x.isFolder
    BY <1>1, <1>2, ItemsOfQueue DEF FolderAt
  <2> QED
    BY <2>1 DEF Element, Data
<1> HIDE DEF x
<1>4. Items(queue) \subseteq Element /\ \A e \in Element : e = Data(e.path, e.isFolder)
  <2>1. Items(queue) \subseteq Element
    BY ItemsOfQueue
  <2> QED
    BY <2>1 DEF Element, Data
<1>5. x.path \in Queued /\ Queued' = Queued \ {x.path}
  <2>1. \A e \in Items(queue) : e.isFolder /\ e.path = x.path => e = x
    BY <1>3, <1>4 DEF Element
  <2> QED
    BY <2>1, <1>2, <1>3 DEF Queued
<1>6. Found' = Found
  BY <1>2, <1>3 DEF Found
<1> QED
  BY <1>1, <1>2, <1>5, <1>6 DEF x

(* The lines of an answer: the folders' own objects are not among the      *)
(* files (remoteLs.cpp:168-203).                                           *)
LEMMA AnswerFacts ==
    ASSUME NEW f \in Folder, NEW os \in SUBSET ObjectsIn(f), NEW ds \in SUBSET FoldersIn(f)
    PROVE  /\ ds \subseteq Folder
           /\ WithoutMarkers(os, ds) \subseteq ObjectsIn(f)
           /\ WithoutMarkers(os, ds) \subseteq Entry
BY ContainerAssumption DEF ObjectsIn, FoldersIn, WithoutMarkers, Entry

(* The lines of a listing are what the folder holds.                       *)
LEMMA ListingFacts ==
    ASSUME NEW f \in Folder
    PROVE  /\ WithoutMarkers(ObjectsIn(f) \ Foreign, FoldersIn(f) \ Foreign)
                 = {p \in File \ Foreign : Parent[p] = f}
           /\ FoldersIn(f) \ Foreign = {d \in (Folder \ {Root}) \ Foreign : Parent[d] = f}
BY ContainerAssumption DEF ObjectsIn, FoldersIn, WithoutMarkers

-----------------------------------------------------------------------------
(* The start. *)

LEMMA StartsWell == Init => IInv
<1> SUFFICES ASSUME Init PROVE IInv
  OBVIOUS
<1>1. /\ queue \in QueueOf(Element) /\ Items(queue) = {} /\ Distinct(queue)
  BY NewQueueFacts DEF Init
<1>2. Queued = {} /\ Found = {} /\ Busy = {}
  BY <1>1 DEF Init, Queued, Found, Busy
<1>3. Root \in Folder /\ Open = {Root}
  BY <1>2, ContainerAssumption DEF Init, Open, RootToCome
<1>4. Cardinality(Open) = 1
  BY <1>3, FS_Singleton
<1>5. TypeOK
  BY <1>1, ContainerAssumption DEF Init, TypeOK, PC, Element, Entry
<1>6. FolderInv /\ FileInv
  BY <1>1, <1>2 DEF Init, FolderInv, FileInv
<1>7. CountInv /\ LeaveInv /\ BuiltInv
  BY <1>4, ContainerAssumption DEF Init, CountInv, LeaveInv, BuiltInv
<1>8. WholeInv
  BY <1>2 DEF Init, WholeInv, RootToCome
<1> QED
  BY <1>5, <1>6, <1>7, <1>8 DEF IInv

-----------------------------------------------------------------------------
(* Folders can be counted: a number of them is a natural number, and zero  *)
(* only when there is none.                                                *)
LEMMA FiniteFolders ==
    ASSUME NEW S \in SUBSET Folder
    PROVE  /\ IsFiniteSet(S)
           /\ Cardinality(S) \in Nat
           /\ Cardinality(S) = 0 <=> S = {}
<1>1. IsFiniteSet(S)
  BY ContainerAssumption, FS_Subset
<1>2. Cardinality(S) \in Nat
  BY <1>1, FS_CardinalityType
<1>3. Cardinality(S) = 0 <=> S = {}
  BY <1>1, FS_EmptySet
<1> QED
  BY <1>1, <1>2, <1>3

(* Types.                                                                  *)
LEMMA TypeStep ==
    ASSUME TypeOK, FolderInv, FileInv, [Next]_vars, folderCount' \in Nat
    PROVE  TypeOK'
<1> USE DEF TypeOK, PC
<1>1. CASE \E w \in Worker : StartWorker(w)
  BY <1>1 DEF StartWorker, workers
<1>2. CASE AddRoot
  <2>1. (queue \in QueueOf(Element))'
    BY <1>2, AddEffect, ContainerAssumption DEF AddRoot, Element, Entry
  <2> QED
    BY <1>2, <2>1 DEF AddRoot, workers, Element
<1>3. CASE Collect
  <2>1. {e.path : e \in Items(queue)} \subseteq Entry
    <3>1. Items(queue) \subseteq Element
      <4>1. queue \in QueueOf(Element)
        BY DEF Element
      <4> QED
        BY <4>1, ItemsOfQueue
    <3> QED
      BY <3>1 DEF Element
  <2> QED
    BY <1>3, <2>1 DEF Collect, workers
<1>4. CASE Notify
  BY <1>4 DEF Notify, workers
<1>5. ASSUME NEW w \in Worker, Run(w)
      PROVE  TypeOK'
  <2>1. CASE Test(w)
    BY <1>5, <2>1 DEF Run, Test, Goto, workers
  <2>2. CASE Take(w)
    <3>1. PICK d \in Queued : folder' = [folder EXCEPT ![w] = d]
      BY <2>2, TakeEffect DEF Element, FileInv
    <3>2. (queue \in QueueOf(Element))'
      BY <2>2, TakeEffect DEF Element, FileInv
    <3>3. d \in Folder /\ d # NoFolder
      BY ContainerAssumption DEF FolderInv
    <3> QED
      BY <1>5, <2>2, <3>1, <3>2, <3>3 DEF Run, Take, Goto, Element
  <2>3. CASE TakeNothing(w)
    BY <1>5, <2>3 DEF Run, TakeNothing, Goto, workers
  <2>4. CASE Get(w)
    <3>1. folder[w] \in Folder
      BY <2>4 DEF Get, Goto
    <3>2. PICK os \in SUBSET ObjectsIn(folder[w]), ds \in SUBSET FoldersIn(folder[w]) :
             /\ files' = [files EXCEPT ![w] = WithoutMarkers(os, ds)]
             /\ dirs' = [dirs EXCEPT ![w] = ds]
      BY <2>4 DEF Get
    <3>3. failed' \in BOOLEAN
      BY <2>4 DEF Get
    <3>4. /\ WithoutMarkers(os, ds) \subseteq ObjectsIn(folder[w])
          /\ WithoutMarkers(os, ds) \subseteq Entry /\ ds \subseteq Folder
      BY <3>1, AnswerFacts
    <3> QED
      BY <1>5, <2>4, <3>1, <3>2, <3>3, <3>4 DEF Run, Get, Goto
  <2>5. CASE AddFile(w)
    <3>1. PICK p \in files[w] :
             /\ queue' = Add(queue, Data(p, FALSE))
             /\ files' = [files EXCEPT ![w] = @ \ {p}]
      BY <2>5 DEF AddFile
    <3>2. (queue \in QueueOf(Element))'
      BY <3>1, AddEffect DEF Element
    <3> QED
      BY <1>5, <2>5, <3>1, <3>2 DEF Run, AddFile, Element
  <2>6. CASE Count(w)
    BY <1>5, <2>6 DEF Run, Count, Goto, workers
  <2>7. CASE AddDir(w)
    <3>1. PICK d \in dirs[w] :
             /\ queue' = Add(queue, Data(d, TRUE))
             /\ dirs' = [dirs EXCEPT ![w] = @ \ {d}]
      BY <2>7 DEF AddDir
    <3>2. (queue \in QueueOf(Element))'
      BY <3>1, AddEffect DEF Element, Entry
    <3> QED
      BY <1>5, <2>7, <3>1, <3>2 DEF Run, AddDir, Element
  <2>8. CASE Uncount(w)
    BY <1>5, <2>8 DEF Run, Uncount, Goto
  <2> QED
    BY <1>5, <2>1, <2>2, <2>3, <2>4, <2>5, <2>6, <2>7, <2>8 DEF Run
<1>6. CASE UNCHANGED vars
  BY <1>6 DEF vars
<1> QED
  BY <1>1, <1>2, <1>3, <1>4, <1>5, <1>6 DEF Next, Build, Returned

(* A known folder is in one place.  What a listing adds was unknown before *)
(* because the folder had not been asked for.                              *)
LEMMA FolderStep ==
    ASSUME TypeOK, FolderInv, FileInv, [Next]_vars
    PROVE  FolderInv'
<1> USE DEF TypeOK, FolderInv, RootToCome, Busy
<1>1. CASE \E w \in Worker : StartWorker(w)
  BY <1>1 DEF StartWorker, workers, Queued
<1>2. CASE AddRoot
  <2>1. Queued' = Queued \cup {Root}
    BY <1>2, AddEffect, ContainerAssumption DEF AddRoot, Element, Entry
  <2> QED
    BY <1>2, <2>1, ContainerAssumption DEF AddRoot, workers
<1>3. CASE Collect
  BY <1>3 DEF Collect, workers, Queued
<1>4. CASE Notify
  BY <1>4 DEF Notify, workers, Queued
<1>5. ASSUME NEW w \in Worker, Run(w)
      PROVE  FolderInv'
  <2>1. CASE Test(w)
    BY <1>5, <2>1 DEF Run, Test, Goto, workers, Queued
  <2>2. CASE Take(w)
    <3>1. PICK d \in Queued : /\ folder' = [folder EXCEPT ![w] = d]
                              /\ Queued' = Queued \ {d}
      BY <2>2, TakeEffect DEF Element, FileInv
    <3>2. d \in Folder /\ d # NoFolder
      BY ContainerAssumption
    <3>3. folder[w] = NoFolder
      BY <2>2 DEF Take, Goto
    <3> QED
      BY <1>5, <2>2, <3>1, <3>2, <3>3 DEF Run, Take, Goto
  <2>3. CASE TakeNothing(w)
    BY <1>5, <2>3 DEF Run, TakeNothing, Goto, workers, Queued
  <2>4. CASE Get(w)
    <3>1. folder[w] \in Folder /\ w \in Busy /\ folder[w] \notin asked
      BY <2>4 DEF Get, Goto
    <3>2. PICK os \in SUBSET ObjectsIn(folder[w]), ds \in SUBSET FoldersIn(folder[w]) :
             dirs' = [dirs EXCEPT ![w] = ds]
      BY <2>4 DEF Get
    <3>3. ds \subseteq Folder \ {Root} /\ \A d \in ds : Parent[d] = folder[w]
      BY DEF FoldersIn
    <3>4. /\ asked' = asked \cup {folder[w]} /\ Queued' = Queued /\ folder' = folder
          /\ build' = build /\ pc' = [pc EXCEPT ![w] = "addFiles"] /\ pc[w] = "get"
      BY <1>5, <2>4 DEF Get, Goto, Run, Queued
    <3>5. \A d \in ds : d \notin Queued /\ d \notin asked' /\ \A v \in Busy : folder[v] # d
      BY <3>1, <3>3, <3>4
    <3> QED
      BY <3>1, <3>2, <3>3, <3>4, <3>5
  <2>5. CASE AddFile(w)
    <3>1. PICK p \in files[w] : queue' = Add(queue, Data(p, FALSE))
      BY <2>5 DEF AddFile
    <3>2. Queued' = Queued
      BY <3>1, AddEffect DEF Element
    <3> QED
      BY <1>5, <2>5, <3>2 DEF Run, AddFile
  <2>6. CASE Count(w)
    BY <1>5, <2>6 DEF Run, Count, Goto, workers, Queued
  <2>7. CASE AddDir(w)
    <3>1. PICK d \in dirs[w] :
             /\ queue' = Add(queue, Data(d, TRUE))
             /\ dirs' = [dirs EXCEPT ![w] = @ \ {d}]
      BY <2>7 DEF AddDir
    <3>2. Queued' = Queued \cup {d}
      BY <3>1, AddEffect DEF Element, Entry
    <3>3. d \in FoldersIn(folder[w]) /\ w \in Busy /\ pc[w] # "get"
      BY <2>7, <3>1 DEF AddDir
    <3>4. d \in Folder \ {Root} /\ Parent[d] = folder[w] /\ folder[w] \in asked
      BY <3>3 DEF FoldersIn
    <3>5. \A v \in Worker : d \in dirs[v] => v = w
      <4>1. \A v \in Worker : d \in dirs[v] => v \in Busy /\ Parent[d] = folder[v]
        BY DEF FoldersIn
      <4> QED
        BY <4>1, <3>3, <3>4
    <3> QED
      BY <1>5, <2>7, <3>1, <3>2, <3>3, <3>4, <3>5 DEF Run, AddDir
  <2>8. CASE Uncount(w)
    BY <1>5, <2>8 DEF Run, Uncount, Goto, Queued
  <2> QED
    BY <1>5, <2>1, <2>2, <2>3, <2>4, <2>5, <2>6, <2>7, <2>8 DEF Run
<1>6. CASE UNCHANGED vars
  BY <1>6 DEF vars, Queued
<1> QED
  BY <1>1, <1>2, <1>3, <1>4, <1>5, <1>6 DEF Next, Build, Returned

(* A known object is in one place.                                         *)
LEMMA FileStep ==
    ASSUME TypeOK, FolderInv, FileInv, [Next]_vars
    PROVE  FileInv'
<1> USE DEF TypeOK, FileInv
<1>1. CASE (\E w \in Worker : StartWorker(w)) \/ Collect \/ Notify
  BY <1>1 DEF StartWorker, Collect, Notify, workers, Found, Distinct
<1>2. CASE AddRoot
  <2>1. Found' = Found /\ Distinct(queue)'
    BY <1>2, AddEffect, ContainerAssumption DEF AddRoot, Element, Entry, FolderInv, RootToCome
  <2> QED
    BY <1>2, <2>1 DEF AddRoot, workers
<1>3. ASSUME NEW w \in Worker, Run(w)
      PROVE  FileInv'
  <2>1. CASE Test(w) \/ TakeNothing(w) \/ Count(w) \/ Uncount(w)
    BY <1>3, <2>1 DEF Run, Test, TakeNothing, Count, Uncount, Goto, workers, Found, Distinct
  <2>2. CASE Take(w)
    <3>1. Found' = Found /\ Distinct(queue)'
      BY <2>2, TakeEffect DEF Element
    <3> QED
      BY <1>3, <2>2, <3>1 DEF Run, Take
  <2>3. CASE Get(w)
    <3>1. folder[w] \in Folder /\ folder[w] \notin asked
      BY <2>3 DEF Get, Goto, FolderInv, Busy
    <3>2. PICK os \in SUBSET ObjectsIn(folder[w]), ds \in SUBSET FoldersIn(folder[w]) :
             files' = [files EXCEPT ![w] = WithoutMarkers(os, ds)]
      BY <2>3 DEF Get
    <3>3. \A p \in WithoutMarkers(os, ds) : Parent[p] = folder[w]
      BY DEF WithoutMarkers, ObjectsIn
    <3>4. asked' = asked \cup {folder[w]} /\ Found' = Found /\ Distinct(queue)'
      BY <1>3, <2>3 DEF Get, Found, Distinct
    <3> QED
      BY <3>1, <3>2, <3>3, <3>4
  <2>4. CASE AddFile(w)
    <3>1. PICK p \in files[w] : /\ queue' = Add(queue, Data(p, FALSE))
                                /\ files' = [files EXCEPT ![w] = @ \ {p}]
      BY <2>4 DEF AddFile
    <3>2. Found' = Found \cup {p} /\ Distinct(queue)'
      BY <3>1, AddEffect DEF Element
    <3>3. /\ p \in File \cup Marker /\ Parent[p] = folder[w] /\ w \in Busy /\ pc[w] # "get"
      BY <3>1 DEF ObjectsIn, Busy
    <3>4. folder[w] \in asked
      BY <3>3 DEF FolderInv
    <3>5. \A v \in Worker : p \in files[v] => v = w
      <4>1. \A v \in Worker : p \in files[v] => v \in Busy /\ folder[v] = folder[w]
        BY <3>3 DEF ObjectsIn, Busy
      <4> QED
        BY <4>1, <3>3 DEF FolderInv
    <3> QED
      BY <1>3, <2>4, <3>1, <3>2, <3>3, <3>4, <3>5 DEF Run, AddFile
  <2>5. CASE AddDir(w)
    <3>1. PICK d \in dirs[w] : queue' = Add(queue, Data(d, TRUE))
      BY <2>5 DEF AddDir
    <3>2. Found' = Found /\ Distinct(queue)'
      BY <3>1, AddEffect DEF Element, Entry, FolderInv
    <3> QED
      BY <1>3, <2>5, <3>2 DEF Run, AddDir
  <2> QED
    BY <1>3, <2>1, <2>2, <2>3, <2>4, <2>5 DEF Run
<1>4. CASE UNCHANGED vars
  BY <1>4 DEF vars, Found, Distinct
<1> QED
  BY <1>1, <1>2, <1>3, <1>4 DEF Next, Build, Returned

(* Who counts: only Count and Uncount change the set of counted folders,   *)
(* by what they add to the counter and take off it.                        *)
LEMMA CountStep ==
    ASSUME TypeOK, FolderInv, FileInv, CountInv, [Next]_vars
    PROVE  /\ CountInv'
           /\ Open = {} => Open' = {}
           /\ folderCount' \in Nat
<1> USE DEF TypeOK, CountInv
<1> SUFFICES CountInv' /\ (Open = {} => Open' = {})
  <2>1. Open' \subseteq Folder
    BY DEF Open
  <2> QED
    BY <2>1, FiniteFolders
<1> DEFINE Kept == Open' = Open /\ folderCount' = folderCount
<1>0. Kept => CountInv' /\ (Open = {} => Open' = {})
  OBVIOUS
<1>1. CASE (\E w \in Worker : StartWorker(w)) \/ Collect \/ Notify
  BY <1>1 DEF StartWorker, Collect, Notify, workers, Open, Queued, Busy, RootToCome
<1>2. CASE AddRoot
  <2>1. Queued' = Queued \cup {Root}
    BY <1>2, AddEffect, ContainerAssumption DEF AddRoot, Element, Entry
  <2>2. Kept
    BY <1>2, <2>1 DEF AddRoot, workers, Open, Busy, RootToCome
  <2> QED
    BY <2>2, <1>0
<1>3. ASSUME NEW w \in Worker, Run(w)
      PROVE  CountInv' /\ (Open = {} => Open' = {})
  <2>0. RootToCome' = RootToCome
    BY <1>3 DEF Run, RootToCome
  <2>1. CASE Test(w) \/ TakeNothing(w)
    <3>1. Kept
      BY <2>0, <2>1 DEF Test, TakeNothing, Goto, workers, Open, Queued, Busy
    <3> QED
      BY <3>1, <1>0
  <2>2. CASE Take(w)
    <3>1. PICK d \in Queued : /\ folder' = [folder EXCEPT ![w] = d]
                              /\ Queued' = Queued \ {d}
      BY <2>2, TakeEffect DEF Element, FileInv
    <3>2. d \in Folder /\ d # NoFolder /\ folder[w] = NoFolder
      BY <2>2, ContainerAssumption DEF FolderInv, Take, Goto
    <3>3. Kept
      BY <2>0, <2>2, <3>1, <3>2 DEF Take, Goto, Open, Busy
    <3> QED
      BY <3>3, <1>0
  <2>3. CASE Get(w)
    <3>1. /\ folder' = folder /\ Queued' = Queued /\ folderCount' = folderCount
          /\ pc' = [pc EXCEPT ![w] = "addFiles"] /\ pc[w] = "get"
          /\ \A v \in Worker \ {w} : dirs'[v] = dirs[v]
      BY <2>3 DEF Get, Goto, Queued
    <3>2. Kept
      BY <2>0, <3>1 DEF Open, Busy
    <3> QED
      BY <3>2, <1>0
  <2>4. CASE AddFile(w)
    <3>1. PICK p \in files[w] : queue' = Add(queue, Data(p, FALSE))
      BY <2>4 DEF AddFile
    <3>2. Queued' = Queued
      BY <3>1, AddEffect DEF Element
    <3>3. Kept
      BY <2>0, <2>4, <3>2 DEF AddFile, Open, Busy
    <3> QED
      BY <3>3, <1>0
  <2>5. CASE Count(w)
    <3>1. /\ folder' = folder /\ Queued' = Queued /\ dirs' = dirs
          /\ pc' = [pc EXCEPT ![w] = "addDirs"] /\ pc[w] = "addFiles"
          /\ folderCount' = folderCount + Cardinality(dirs[w])
      BY <2>5 DEF Count, Goto, Queued, workers
    <3>2. Open' = Open \cup dirs[w]
      BY <2>0, <3>1 DEF Open, Busy
    <3>3. Open \cap dirs[w] = {}
      <4>1. ASSUME NEW d \in dirs[w]
            PROVE  d \notin Open
        <5>1. d \in Folder \ {Root} /\ Parent[d] = folder[w] /\ w \in Busy
          BY <3>1 DEF FoldersIn, Busy
        <5>2. d \notin Queued /\ \A v \in Busy : folder[v] # d
          BY DEF FolderInv
        <5>3. \A v \in Worker : pc[v] = "addDirs" => d \notin dirs[v]
          BY <3>1, <5>1 DEF FolderInv, FoldersIn, Busy
        <5> QED
          BY <5>1, <5>2, <5>3 DEF Open
      <4> QED
        BY <4>1
    <3>4. IsFiniteSet(Open) /\ IsFiniteSet(dirs[w])
      BY FiniteFolders DEF Open
    <3>5. Cardinality(Open') = Cardinality(Open) + Cardinality(dirs[w]) - Cardinality({})
      BY <3>2, <3>3, <3>4, FS_Union
    <3>6. Cardinality(Open) \in Nat /\ Cardinality(dirs[w]) \in Nat /\ Cardinality({}) = 0
      BY <3>4, FS_CardinalityType, FS_EmptySet
    <3>7. Open # {}
      BY <3>1 DEF Open, Busy
    <3> QED
      BY <3>1, <3>5, <3>6, <3>7
  <2>6. CASE AddDir(w)
    <3>1. PICK d \in dirs[w] :
             /\ queue' = Add(queue, Data(d, TRUE))
             /\ dirs' = [dirs EXCEPT ![w] = @ \ {d}]
      BY <2>6 DEF AddDir
    <3>2. Queued' = Queued \cup {d}
      BY <3>1, AddEffect DEF Element, Entry
    <3>3. pc[w] = "addDirs" /\ pc' = pc /\ folder' = folder /\ folderCount' = folderCount
      BY <2>6 DEF AddDir
    <3>4. Kept
      BY <2>0, <3>1, <3>2, <3>3 DEF Open, Busy
    <3> QED
      BY <3>4, <1>0
  <2>7. CASE Uncount(w)
    <3> DEFINE f == folder[w]
    <3>1. /\ f \in Folder /\ w \in Busy /\ dirs[w] = {} /\ pc[w] = "addDirs"
          /\ folder' = [folder EXCEPT ![w] = NoFolder] /\ Queued' = Queued /\ dirs' = dirs
          /\ pc' = [pc EXCEPT ![w] = "test"] /\ folderCount' = folderCount - 1
      BY <2>7 DEF Uncount, Goto, Queued, Busy
    <3>2. f \in Open
      BY <3>1 DEF Open
    <3>3. f \notin Queued /\ (\A v \in Busy : folder[v] = f => v = w) /\ ~ (RootToCome /\ f = Root)
          /\ \A v \in Worker : f \notin dirs[v]
      BY <3>1 DEF FolderInv
    <3>4. Open' = Open \ {f}
      BY <2>0, <3>1, <3>3, ContainerAssumption DEF Open, Busy
    <3>5. IsFiniteSet(Open) /\ Cardinality(Open) \in Nat
      BY FiniteFolders DEF Open
    <3>6. Cardinality(Open') = Cardinality(Open) - 1
      <4> HIDE DEF f
      <4>1. Cardinality(Open \ {f}) = Cardinality(Open) - 1
        BY <3>2, <3>5, FS_RemoveElement
      <4> QED
        BY <4>1, <3>4
    <3> QED
      BY <3>1, <3>2, <3>6
  <2> QED
    BY <1>3, <2>1, <2>2, <2>3, <2>4, <2>5, <2>6, <2>7 DEF Run
<1>4. CASE UNCHANGED vars
  BY <1>4 DEF vars, Open, Queued, Busy, RootToCome
<1> QED
  BY <1>1, <1>2, <1>3, <1>4 DEF Next, Build, Returned

(* Once nothing is left to do nothing comes up again, and a thread leaves  *)
(* only on reading zero.                                                   *)
LEMMA LeaveStep ==
    ASSUME TypeOK, FolderInv, FileInv, CountInv, LeaveInv, [Next]_vars
    PROVE  LeaveInv'
<1> USE DEF TypeOK, LeaveInv
<1>0. /\ Open = {} => Open' = {}
      /\ folderCount = 0 => Open = {}
  BY CountStep, FiniteFolders DEF CountInv, Open
<1> SUFFICES ASSUME Open # {}
             PROVE  notifier' # "exit" /\ \A v \in Worker : pc'[v] # "exit"
  BY <1>0
<1>1. folderCount > 0 /\ notifier # "exit" /\ \A v \in Worker : pc[v] # "exit"
  BY <1>0
<1>2. CASE (\E w \in Worker : StartWorker(w)) \/ AddRoot \/ Collect \/ Notify
  <2>1. ASSUME NEW w \in Worker, StartWorker(w)
        PROVE  notifier' # "exit" /\ \A v \in Worker : pc'[v] # "exit"
    <3>1. pc' = [pc EXCEPT ![w] = "test"] /\ notifier' = notifier
      BY <2>1 DEF StartWorker
    <3> QED
      BY <1>1, <3>1
  <2>2. CASE AddRoot \/ Collect \/ Notify
    <3>1. pc' = pc /\ notifier' \in {"test", notifier}
      <4>1. CASE AddRoot
        BY <4>1 DEF AddRoot
      <4>2. CASE Collect
        BY <4>2 DEF Collect
      <4>3. CASE Notify
        BY <4>3, <1>1 DEF Notify
      <4> QED
        BY <2>2, <4>1, <4>2, <4>3
    <3> QED
      BY <1>1, <3>1
  <2> QED
    BY <1>2, <2>1, <2>2
<1>3. ASSUME NEW w \in Worker, Run(w)
      PROVE  notifier' # "exit" /\ \A v \in Worker : pc'[v] # "exit"
  BY <1>1, <1>3 DEF Run, Test, Take, TakeNothing, Get, AddFile, Count, AddDir, Uncount, Goto
<1>4. CASE UNCHANGED vars
  BY <1>1, <1>4 DEF vars
<1> QED
  BY <1>2, <1>3, <1>4 DEF Next, Build, Returned

(* An answer that is the listing loses nothing, and what is known moves on *)
(* from one place to the next.                                             *)
LEMMA WholeStep ==
    ASSUME TypeOK, FolderInv, FileInv, WholeInv, [Next]_vars
    PROVE  WholeInv'
<1> USE DEF TypeOK, WholeInv
<1> SUFFICES ASSUME ~ failed' PROVE WholeInv'
  OBVIOUS
<1>1. CASE (\E w \in Worker : StartWorker(w)) \/ Collect \/ Notify
  BY <1>1 DEF StartWorker, Collect, Notify, workers, Queued, Found, RootToCome
<1>2. CASE AddRoot
  <2>1. Queued' = Queued \cup {Root} /\ Found' = Found
    BY <1>2, AddEffect, ContainerAssumption DEF AddRoot, Element, Entry
  <2> QED
    BY <1>2, <2>1 DEF AddRoot, workers
<1>3. ASSUME NEW w \in Worker, Run(w)
      PROVE  WholeInv'
  <2>0. RootToCome' = RootToCome
    BY <1>3 DEF Run, RootToCome
  <2>1. CASE Test(w) \/ TakeNothing(w) \/ Count(w)
    BY <2>0, <2>1 DEF Test, TakeNothing, Count, Goto, workers, Queued, Found
  <2>2. CASE Take(w)
    <3>1. PICK d \in Queued : /\ folder' = [folder EXCEPT ![w] = d]
                              /\ Queued' = Queued \ {d}
      BY <2>2, TakeEffect DEF Element, FileInv
    <3>2. Found' = Found
      BY <2>2, TakeEffect DEF Element, FileInv
    <3>3. /\ folder[w] = NoFolder /\ files' = files /\ dirs' = dirs /\ asked' = asked
          /\ failed' = failed
      BY <2>2 DEF Take, Goto
    <3> QED
      BY <2>0, <3>1, <3>2, <3>3, ContainerAssumption
  <2>3. CASE Get(w)
    <3> DEFINE f == folder[w]
    <3>1. f \in Folder /\ f \notin asked /\ files[w] = {} /\ dirs[w] = {}
      BY <2>3 DEF Get, Goto, FolderInv, Busy
    <3>2. /\ folder' = folder /\ Queued' = Queued /\ Found' = Found
          /\ asked' = asked \cup {f}
      BY <2>3 DEF Get, Goto, Queued, Found
    <3>3. /\ ~ failed
          /\ files' = [files EXCEPT ![w] = WithoutMarkers(ObjectsIn(f) \ Foreign,
                                                        FoldersIn(f) \ Foreign)]
          /\ dirs' = [dirs EXCEPT ![w] = FoldersIn(f) \ Foreign]
      BY <2>3 DEF Get
    <3>4. /\ files'[w] = {p \in File \ Foreign : Parent[p] = f}
          /\ dirs'[w] = {d \in (Folder \ {Root}) \ Foreign : Parent[d] = f}
          /\ \A v \in Worker \ {w} : files'[v] = files[v] /\ dirs'[v] = dirs[v]
      BY <3>1, <3>3, ListingFacts
    <3>5. \A p \in File \ Foreign : Parent[p] \in asked' => p \in Found \/ \E v \in Worker : p \in files'[v]
      BY <3>1, <3>2, <3>3, <3>4
    <3>6. \A d \in (Folder \ {Root}) \ Foreign : Parent[d] \in asked' =>
              \/ d \in asked' \cup Queued
              \/ \E v \in Worker : d = folder[v] \/ d \in dirs'[v]
      BY <3>1, <3>2, <3>3, <3>4
    <3> QED
      BY <2>0, <3>2, <3>3, <3>4, <3>5, <3>6
  <2>4. CASE AddFile(w)
    <3>1. PICK p \in files[w] : /\ queue' = Add(queue, Data(p, FALSE))
                                /\ files' = [files EXCEPT ![w] = @ \ {p}]
      BY <2>4 DEF AddFile
    <3>2. Found' = Found \cup {p} /\ Queued' = Queued
      BY <3>1, AddEffect DEF Element
    <3> QED
      BY <2>0, <2>4, <3>1, <3>2 DEF AddFile
  <2>5. CASE AddDir(w)
    <3>1. PICK d \in dirs[w] : /\ queue' = Add(queue, Data(d, TRUE))
                               /\ dirs' = [dirs EXCEPT ![w] = @ \ {d}]
      BY <2>5 DEF AddDir
    <3>2. Found' = Found /\ Queued' = Queued \cup {d}
      BY <3>1, AddEffect DEF Element, Entry
    <3> QED
      BY <2>0, <2>5, <3>1, <3>2 DEF AddDir
  <2>6. CASE Uncount(w)
    <3>1. w \in Busy /\ folder[w] \in asked
      BY <2>6 DEF Uncount, Goto, Busy, FolderInv
    <3>2. /\ Queued' = Queued /\ Found' = Found /\ files' = files /\ dirs' = dirs
          /\ asked' = asked /\ failed' = failed /\ folder' = [folder EXCEPT ![w] = NoFolder]
      BY <2>6 DEF Uncount, Queued, Found
    <3> QED
      BY <2>0, <3>1, <3>2
  <2> QED
    BY <1>3, <2>1, <2>2, <2>3, <2>4, <2>5, <2>6 DEF Run
<1>4. CASE UNCHANGED vars
  BY <1>4 DEF vars, Queued, Found, RootToCome
<1> QED
  BY <1>1, <1>2, <1>3, <1>4 DEF Next, Build, Returned

(* After build() has collected the paths nobody changes them.              *)
LEMMA BuiltStep ==
    ASSUME TypeOK, BuiltInv, [Next]_vars
    PROVE  BuiltInv'
<1> USE DEF TypeOK, BuiltInv
<1>1. CASE (\E w \in Worker : StartWorker(w)) \/ AddRoot \/ Notify
  <2>1. build' # "built" \/ build = "built"
    BY <1>1 DEF StartWorker, AddRoot, Notify
  <2> QED
    BY <1>1, <2>1 DEF StartWorker, AddRoot, Notify, Queued, Found
<1>2. CASE Collect
  <2>1. {e.path : e \in Items(queue)} = Queued \cup Found
    BY DEF Queued, Found
  <2> QED
    BY <1>2, <2>1 DEF Collect, Queued, Found
<1>3. ASSUME NEW w \in Worker, Run(w)
      PROVE  BuiltInv'
  <2>1. pc[w] # "exit" /\ build' = build
    BY <1>3 DEF Run, Test, Take, TakeNothing, Get, AddFile, Count, AddDir, Uncount, Goto
  <2> QED
    BY <2>1
<1>4. CASE UNCHANGED vars
  BY <1>4 DEF vars, Queued, Found
<1> QED
  BY <1>1, <1>2, <1>3, <1>4 DEF Next, Build, Returned

-----------------------------------------------------------------------------
LEMMA Invariant == Safety => []IInv
<1>1. IInv /\ [Next]_vars => IInv'
  <2> SUFFICES ASSUME IInv, [Next]_vars PROVE IInv'
    OBVIOUS
  <2>1. FolderInv' /\ FileInv' /\ WholeInv' /\ BuiltInv'
    BY FolderStep, FileStep, WholeStep, BuiltStep DEF IInv
  <2>2. CountInv' /\ LeaveInv' /\ folderCount' \in Nat
    BY CountStep, LeaveStep DEF IInv
  <2>3. TypeOK'
    BY <2>2, TypeStep DEF IInv
  <2> QED
    BY <2>1, <2>2, <2>3 DEF IInv
<1> QED
  BY <1>1, StartsWell, PTL DEF Safety

(* Types; a thread's sets belong to the folder it lists.                   *)
THEOREM TypeCorrect == Spec => []TypeOK
<1>1. IInv => TypeOK
  BY DEF IInv
<1> QED
  BY <1>1, Invariant, PTL DEF Spec

(* However many threads there are and whatever the listings lose, a thread *)
(* that reads zero, or the notifier that build() waits for, leaves only    *)
(* when no folder waits, is being listed or is still to be put in.         *)
THEOREM NobodyLeaves == Spec => []NobodyLeavesEarly
<1>1. IInv => NobodyLeavesEarly
  <2> SUFFICES ASSUME IInv, folderCount = 0 \/ (\E w \in Worker : pc[w] = "exit") \/ notifier = "exit"
               PROVE  Queued = {} /\ Busy = {} /\ build \notin {"start", "addRoot"}
    BY DEF NobodyLeavesEarly
  <2>1. Open = {}
    BY FiniteFolders DEF IInv, CountInv, LeaveInv, Open
  <2> QED
    BY <2>1, ContainerAssumption DEF IInv, TypeOK, FolderInv, Open, Busy, RootToCome
<1> QED
  BY <1>1, Invariant, PTL DEF Spec

(* Each folder line that arrives is requested once and no line is queued   *)
(* twice, on every tree and with every number of threads.                  *)
THEOREM EachListedOnce == Spec => []ListedOnce
<1>1. IInv => ListedOnce
  BY DEF IInv, FolderInv, FileInv, ListedOnce
<1> QED
  BY <1>1, Invariant, PTL DEF Spec

(* build() returns no folder, and, when every answer was a listing,        *)
(* exactly the files of the container.  Here the container's being a tree  *)
(* counts: the destination folder and the children of all that was asked   *)
(* were asked, hence all folders.                                          *)
THEOREM ListingExact == Spec => []Exact
<1>1. IInv => Exact
  <2> SUFFICES ASSUME IInv, build = "built"
               PROVE  Queued = {} /\ (~ failed => paths = File \ Foreign)
    BY DEF Exact
  <2>1. Open = {} /\ ~ RootToCome /\ \A w \in Worker : pc[w] = "exit"
    BY DEF IInv, BuiltInv, LeaveInv, RootToCome
  <2>2. /\ Queued = {} /\ Busy = {}
        /\ \A w \in Worker : folder[w] = NoFolder /\ files[w] = {} /\ dirs[w] = {}
    BY <2>1 DEF IInv, TypeOK, FolderInv, Open, Busy
  <2>3. paths = Found
    BY <2>2 DEF IInv, BuiltInv
  <2>4. ASSUME ~ failed
        PROVE  paths = File \ Foreign
    <3>1. /\ Root \in asked
          /\ \A d \in (Folder \ {Root}) \ Foreign : Parent[d] \in asked => d \in asked
      BY <2>1, <2>2, <2>4, ContainerAssumption DEF IInv, WholeInv
    <3> DEFINE S == asked \cup (Folder \cap Foreign)
    <3>2. S = Folder
      <4>1. S \in SUBSET Folder /\ Root \in S
        BY <3>1 DEF IInv, TypeOK
      <4>2. \A d \in Folder \ {Root} : Parent[d] \in S => d \in S
        BY <3>1, ContainerAssumption
      <4> HIDE DEF S
      <4> QED
        BY <4>1, <4>2, TreeAssumption
    <3>3. \A p \in File \ Foreign : Parent[p] \in asked
      BY <3>2, ContainerAssumption
    <3> QED
      BY <2>2, <2>3, <2>4, <3>3 DEF IInv, WholeInv
  <2> QED
    BY <2>2, <2>4
<1> QED
  BY <1>1, Invariant, PTL DEF Spec
===============================================================================

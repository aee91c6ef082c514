------------------------------- MODULE RemoteLs -------------------------------
(***************************************************************************)
(* CRemoteLs of remoteLs.cpp: before the backup starts, a pool of threads  *)
(* lists the destination folder of the container recursively.              *)
(*                                                                         *)
(* The queue holds files found and folders still to be listed; a thread    *)
(* takes the first folder, requests its listing, adds what it finds and    *)
(* goes on until _folderCount, the number of folders not yet dealt with,   *)
(* is zero.  There is no other signal that the work is done: a thread that *)
(* reads zero leaves for good.                                             *)
(*                                                                         *)
(* A worker's pc names the next thing run() (remoteLs.cpp:146-215) does:   *)
(*   test    read _folderCount             take      getFolder()           *)
(*   get     the GET request               addFiles  add the files found   *)
(*   count   _folderCount += dirs.size()   addDirs   add the folders found *)
(*   uncount _folderCount--                exit      the thread has ended  *)
(* and build's the same for build() (103-132).                             *)
(*                                                                         *)
(* Nobody looks at the status of an answer, so each line of an error page, *)
(* and a last line that was cut, is taken for a path.  Such a line is told *)
(* apart from others by the answer it came in; a path it has in common     *)
(* with another line makes it no less a line of its own.                   *)
(***************************************************************************)
EXTENDS FiniteSets, TQueue

CONSTANTS
    File, Folder,   \* the lines there may be in any answer, without and with a slash
    Foreign,        \* those of them that are no paths of the container
    Root,           \* the destination folder
    Parent,         \* the folder whose listing has the line
    Marker,         \* folders that also exist as an object of the same name
    Worker,         \* the threads build(threadCount) starts
    NoFolder,       \* nullptr
    GetMayFail      \* an answer may be lost, cut short or an error page

ASSUME ContainerAssumption ==
    /\ IsFiniteSet(File) /\ IsFiniteSet(Folder) /\ File \cap Folder = {}
    /\ Root \in Folder /\ NoFolder \notin Folder
    /\ Parent \in [(File \cup Folder) \ {Root} -> Folder]
    /\ Foreign \subseteq (File \cup Folder) \ {Root}
    /\ \A x \in ((File \cup Folder) \ {Root}) \ Foreign : Parent[x] \notin Foreign
    /\ Marker \subseteq Folder \ {Root}
    /\ IsFiniteSet(Worker) /\ Worker # {}
    /\ GetMayFail \in BOOLEAN

\* Every folder lies, at some depth, in the destination folder: a set that has
\* the destination folder, and with a folder those in it, has all of them.
ASSUME TreeAssumption ==
    \A S \in SUBSET Folder :
        Root \in S /\ (\A d \in Folder \ {Root} : Parent[d] \in S => d \in S) => S = Folder

Entry == File \cup Folder

\* The object and the folder lines an answer for a folder may have.  A marker
\* has one of each kind.
ObjectsIn(f) == {x \in (File \cup Marker) : Parent[x] = f}
FoldersIn(f) == {d \in Folder \ {Root} : Parent[d] = f}

VARIABLES
    build,          \* the next thing build() does
    pc, folder,     \* each thread's place in run() and its folder
    files, dirs,    \* each thread's sets all and dirs
    queue,          \* *_queue: the CAssetData objects, as [path, isFolder]
    folderCount,    \* _folderCount
    notifier,       \* the thread that build() waits for first
    paths,          \* _paths
    \* history
    asked,          \* folders whose listing was requested
    failed          \* some answer was not the folder's listing

vars == <<build, pc, folder, files, dirs, queue, folderCount, notifier, paths,
          asked, failed>>

Data(p, b) == [path |-> p, isFolder |-> b]

Init ==
    /\ build = "start"
    /\ pc = [w \in Worker |-> "off"]
    /\ folder = [w \in Worker |-> NoFolder]
    /\ files = [w \in Worker |-> {}] /\ dirs = [w \in Worker |-> {}]
    /\ queue = NewQueue
    /\ folderCount = 1
    /\ notifier = "off"
    /\ paths = {}
    /\ asked = {} /\ failed = FALSE

-----------------------------------------------------------------------------
(* build(): the threads run before the first folder is in the queue.       *)

workers == <<folder, files, dirs, asked, failed>>

StartWorker(w) ==
    /\ build = "start" /\ pc[w] = "off"
    /\ pc' = [pc EXCEPT ![w] = "test"]
    /\ build' = IF \A v \in Worker : pc'[v] # "off" THEN "addRoot" ELSE build
    /\ UNCHANGED <<workers, queue, folderCount, notifier, paths>>

AddRoot ==
    /\ build = "addRoot" /\ build' = "join"
    /\ queue' = Add(queue, Data(Root, TRUE))
    /\ notifier' = "test"
    /\ UNCHANGED <<workers, pc, folderCount, paths>>

\* Both joins, and the paths of what is then in the queue.
Collect ==
    /\ build = "join" /\ build' = "built"
    /\ notifier = "exit" /\ \A w \in Worker : pc[w] = "exit"
    /\ paths' = {e.path : e \in Items(queue)}
    /\ UNCHANGED <<workers, pc, queue, folderCount, notifier>>

\* logNotifier(): only its end matters to build().
Notify ==
    /\ notifier = "test" /\ folderCount = 0
    /\ notifier' = "exit"
    /\ UNCHANGED <<workers, build, pc, queue, folderCount, paths>>

Build == (\E w \in Worker : StartWorker(w)) \/ AddRoot \/ Collect \/ Notify

-----------------------------------------------------------------------------
(* run() *)

Goto(w, from, to) == pc[w] = from /\ pc' = [pc EXCEPT ![w] = to]

Test(w) ==
    /\ Goto(w, "test", IF folderCount > 0 THEN "take" ELSE "exit")
    /\ UNCHANGED <<workers, queue, folderCount>>

FolderAt(i) ==
    /\ queue.items[i].isFolder
    /\ \A j \in 1 .. i - 1 : ~ queue.items[j].isFolder

\* Mutant: the folder is returned but stays in the list.
TakeAndLeave(w) ==
    /\ Goto(w, "take", "get")
    /\ \E i \in 1 .. Len(queue.items) :
          /\ FolderAt(i)
          /\ folder' = [folder EXCEPT ![w] = queue.items[i].path]
    /\ UNCHANGED <<files, dirs, asked, failed, folderCount, queue>>

\* getFolder(): the first folder in the list, under the mutex.
Take(w) ==
    /\ Goto(w, "take", "get")
    /\ \E i \in 1 .. Len(queue.items) :
          /\ FolderAt(i)
          /\ folder' = [folder EXCEPT ![w] = queue.items[i].path]
          /\ queue' = Erase(queue, i)
    /\ UNCHANGED <<files, dirs, asked, failed, folderCount>>

TakeNothing(w) ==
    /\ Goto(w, "take", "test")
    /\ \A e \in Items(queue) : ~ e.isFolder
    /\ UNCHANGED <<workers, queue, folderCount>>

\* Mutant: a folder's marker object stays among the files.
MarkersKept(os, ds) == os

\* The object of the same name as a folder line is not a file.
WithoutMarkers(os, ds) == os \ ds

\* The answer's status is not looked at: whatever lines arrived count, those of
\* the listing or others.
Get(w) ==
    /\ Goto(w, "get", "addFiles")
    /\ \E os \in SUBSET ObjectsIn(folder[w]), ds \in SUBSET FoldersIn(folder[w]) :
          LET whole == /\ os = ObjectsIn(folder[w]) \ Foreign
                       /\ ds = FoldersIn(folder[w]) \ Foreign
          IN  /\ whole \/ GetMayFail
              /\ files' = [files EXCEPT ![w] = WithoutMarkers(os, ds)]
              /\ dirs' = [dirs EXCEPT ![w] = ds]
              /\ failed' = (failed \/ ~ whole)
    /\ asked' = asked \cup {folder[w]}
    /\ UNCHANGED <<folder, queue, folderCount>>

AddFile(w) ==
    /\ pc[w] = "addFiles"
    /\ \E p \in files[w] :
          /\ queue' = Add(queue, Data(p, FALSE))
          /\ files' = [files EXCEPT ![w] = @ \ {p}]
    /\ UNCHANGED <<pc, folder, dirs, asked, failed, folderCount>>

\* Mutant: the folders found are added without being counted.
Uncounted(w) ==
    /\ files[w] = {}
    /\ Goto(w, "addFiles", "addDirs")
    /\ UNCHANGED <<workers, queue, folderCount>>

Count(w) ==
    /\ files[w] = {}
    /\ Goto(w, "addFiles", "addDirs")
    /\ folderCount' = folderCount + Cardinality(dirs[w])
    /\ UNCHANGED <<workers, queue>>

AddDir(w) ==
    /\ pc[w] = "addDirs"
    /\ \E d \in dirs[w] :
          /\ queue' = Add(queue, Data(d, TRUE))
          /\ dirs' = [dirs EXCEPT ![w] = @ \ {d}]
    /\ UNCHANGED <<pc, folder, files, asked, failed, folderCount>>

\* Mutant: a leaf folder is not taken off the count.
UncountUnlessLeaf(w) ==
    /\ dirs[w] = {}
    /\ Goto(w, "addDirs", "test")
    /\ folderCount' = IF FoldersIn(folder[w]) = {} THEN folderCount ELSE folderCount - 1
    /\ folder' = [folder EXCEPT ![w] = NoFolder]
    /\ UNCHANGED <<files, dirs, asked, failed, queue>>

Uncount(w) ==
    /\ dirs[w] = {}
    /\ Goto(w, "addDirs", "test")
    /\ folderCount' = folderCount - 1
    /\ folder' = [folder EXCEPT ![w] = NoFolder]
    /\ UNCHANGED <<files, dirs, asked, failed, queue>>

Run(w) ==
    /\ \/ Test(w) \/ Take(w) \/ TakeNothing(w) \/ Get(w)
       \/ AddFile(w) \/ Count(w) \/ AddDir(w) \/ Uncount(w)
    /\ UNCHANGED <<build, notifier, paths>>

-----------------------------------------------------------------------------
\* build() has returned.
Returned == build = "built" /\ UNCHANGED vars

Next == Build \/ (\E w \in Worker : Run(w)) \/ Returned

Safety == Init /\ [][Next]_vars

(* Every thread keeps running and every request is answered or times out.  *)
Fairness == WF_vars(Build) /\ \A w \in Worker : WF_vars(Run(w))

Spec == Safety /\ Fairness

-----------------------------------------------------------------------------
PC == {"off", "test", "take", "get", "addFiles", "addDirs", "exit"}

Busy   == {w \in Worker : folder[w] # NoFolder}
Queued == {e.path : e \in {x \in Items(queue) : x.isFolder}}
Found  == {e.path : e \in {x \in Items(queue) : ~ x.isFolder}}

(* Types, and that each thread's sets belong to the folder it lists.       *)
TypeOK ==
    /\ build \in {"start", "addRoot", "join", "built"}
    /\ pc \in [Worker -> PC]
    /\ folder \in [Worker -> Folder \cup {NoFolder}]
    /\ files \in [Worker -> SUBSET Entry] /\ dirs \in [Worker -> SUBSET Folder]
    /\ \A w \in Worker :
          /\ pc[w] \in {"get", "addFiles", "addDirs"} <=> folder[w] # NoFolder
          /\ files[w] # {} => pc[w] = "addFiles" /\ files[w] \subseteq ObjectsIn(folder[w])
          /\ dirs[w] # {} => pc[w] \in {"addFiles", "addDirs"}
                             /\ dirs[w] \subseteq FoldersIn(folder[w])
    /\ queue \in QueueOf([path : Entry, isFolder : BOOLEAN])
    /\ folderCount \in Nat
    /\ notifier \in {"off", "test", "exit"}
    /\ paths \subseteq Entry /\ asked \subseteq Folder /\ failed \in BOOLEAN

(* A thread that reads zero leaves for good, so while any folder waits, is *)
(* being listed, or is known to a thread that has not added it yet, the    *)
(* count is not zero and nobody has left (remoteLs.cpp:152, 208-213).      *)
NobodyLeavesEarly ==
    folderCount = 0 \/ (\E w \in Worker : pc[w] = "exit") \/ notifier = "exit" =>
        Queued = {} /\ Busy = {} /\ build \notin {"start", "addRoot"}

(* However many threads look for work, each folder line that arrived is    *)
(* requested once and no line is queued twice (remoteLs.cpp:57-70).        *)
ListedOnce ==
    /\ Distinct(queue)
    /\ Queued \cap asked = {}
    /\ \A v, w \in Busy : folder[v] = folder[w] => v = w
    /\ \A w \in Busy : folder[w] \in asked <=> pc[w] # "get"

(* build() returns with no folder left in the queue, which it asserts      *)
(* (remoteLs.cpp:126), and if every answer was the folder's listing, with  *)
(* exactly the files of the container, markers of folders left out.  After *)
(* a failed request it promises nothing of the paths: files may be missing *)
(* and lines of an error page be among them (166-181).                     *)
Exact ==
    build = "built" =>
        /\ Queued = {}
        /\ ~ failed => paths = File \ Foreign

(* The recursion ends and build() returns, with failed requests and        *)
(* without, if the failing answers do not go on naming folders for ever    *)
(* (remoteLs.cpp:121-123).                                                 *)
Returns == <>(build = "built")
=============================================================================

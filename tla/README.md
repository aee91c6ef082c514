# A verification project for hubic-backup

hubic-backup copies a folder into a hubiC (OpenStack Swift) container, uploading
only what changed, with optional encryption. One run is one process: it
lists the container, then a set of threads walks the source folder, hashes files,
asks the container about them, decides what to upload, uploads it, and deletes
objects whose file has gone. The threads share five queues, one abort flag and
the assets themselves. What can go wrong lives between them: who may leave when,
who may believe which flag, what is read before it is complete, and what a failure
in one thread does to the others.

The modules here are translated from the source (`src/src/*.cpp`, `*.h`). TLC
checks them on small instances; TLAPS proves, for all instances, every safety property that a run
checks, that the pipeline implements its abstract specification, and that the exclude file's
patterns mean what they should (sections 6 and 7).

## 1. Inventory

| Part | State | Operations | Correct when |
|---|---|---|---|
| `CTQueue` (queue.h) | list, mutex, atomic done flag | add, get, isEmpty, done, setDone, resetDone, lock/unlock with the list in the caller's hands | each element goes to one reader |
| `CProcess` (process.cpp) | threads, `_doneCount` | start, run, destructor; process() and abort() of the subclass | nothing is lost or doubled; the destination's flag means drained; the pool ends before its object does |
| Source parser (srcFileList.cpp, main.cpp:35-126) | asset tree | recursive walk, exclusion, onNewAsset (adds to two queues), onDone (raises two flags) | all that is not excluded is fed, once; a stop is announced |
| Local hash engine (main.cpp:130-219) | a file's `_srcHash` | process: size, open, hash loop | the hash is that of the file |
| Remote metadata engine (main.cpp:223-301) | time, key, `_dstHash` of an asset | process: HEAD, publish the fields | no field is used before it is there |
| Status updater (main.cpp:305-477) | cursor over a locked queue | scan for a ready asset, classify, feed `todo` | the status follows from the file and its object |
| Synchronizer (main.cpp:481-612) | counters, one uploader per thread | get, upload, retry once, abort | each file uploaded once and counted |
| Uploader (uploader.cpp) | file, hash computers, crypto context, engine | PUT with read callback, verify twice, POST | what is reported good can be restored |
| Encryption (crypto.cpp) | `CCryptEngine::_p`, context | encryptStart, update, finalize | one header, one key, one end per object |
| Deleter (main.cpp:616-700) | position in the remote listing | find in tree, DELETE, abort | deletes only what the source lacks |
| Remote listing (remoteLs.cpp) | queue of files and folders, `_folderCount` | build, run, getFolder | complete, each folder once, ends |
| main() and abort flag (main.cpp:811, context.cpp) | the other parts | start in order, wait, unwind | it ends; an abort ends it soon |
| Exclusion patterns (wildcard.cpp, options.cpp:220-239) | set of patterns | load, translate, match | a pattern means what the project's README says |
| Options (options.cpp) | thread counts | divide the machine's threads | no pool is empty |
| Log notifier, MD5, Base64, JSON, curl, authentication | - | see section 8 | |

Interaction:

    CRemoteLs --(paths, before any thread)--> remote engine, updater, deleter
    parser -> localQ  -> local engine  -> localDoneQ  -> updater -> todoQ -> synchronizer
           -> remoteQ -> remote engine -> remoteDoneQ (nobody reads it)
    remote engine --(_dstHash in the asset)--> updater
    parser --(has ended)--> main() --> deleter
    everybody <--> CContext::_aborted

Hard behaviour: the flag of a queue is raised apart from the last add and read
apart from the emptiness; the pool compares its counter with a vector that is
still growing; an asset's remote fields are published one by one; a scan holds a
queue's mutex across other threads' publications; any failure sets one flag that
every loop polls at one place; the parser may die of an exception; engines are
destroyed while their workers may run; an upload's handles survive a refused upload
and are used by the next one; and a run decides from what earlier runs, perhaps
stopped half-way, left in the container. `PROJECT.json`
lists each of these hazards at its line with the properties that watch it.

## 2. Modules

`TQueue` (queue.h). A record of list, done flag and `locked`. Each member function
locks for its whole body, so it is one operator; `locked` is there for the two places
that keep the mutex over several steps.

`ProcessEngine` (process.cpp). Workers of one pool; a worker's `pc` is the next
shared access of `run()`. `start()` is two steps per thread, because the new
thread runs before `push_back` has stored it. `process(p)` is a choice between true and
false (false after the subclass aborted the program). `Destroy` is the end of the
object's scope: from then on (`derived` false) the workers' virtual calls reach the base
class, whose `abort()` returns false and whose `process()` is pure (`pure`, the end of
the program), and the destructor waits for the workers. The producer, the consumer
that locks and erases at any position, and aborts from elsewhere are the environment.
History: `fed`, `taken`, and `overtaken`, set when a worker compares the counter
with the vector's size while `start()` is still pushing.

`BackupPipeline` (main.cpp, srcFileList.cpp, asset.cpp). All threads of a run. The two
engines are `INSTANCE`s of `ProcessEngine` (`Local!`, `Remote!`) with the subclass's
`process()` in place of the choice; parser, updater, synchronizer, deleter and `main()` have
an action per shared access. Files have an object in the container (`stored`) that
is absent, the same, changed, of another key, or bad: with the metadata of a good one, and nothing
to restore the file from (what the retry of an encrypted upload may leave, section 5); `before` is
its value at the start. An upload that succeeds leaves one of `MayBeStored`.
`Faults` says which failures a run may meet. At the end `main()` unwinds: remote
engine, updater, local engine, in the reverse order of their declarations. History: `late` (requests begun after
the abort), `missed` (assets in a queue when its reader read done after isEmpty).

`Backup`. The abstract specification the pipeline implements: a run seen from the
container, without queues or threads. While nothing fails it replaces copies that
do not pass for good by good ones (`Store`), or, with encryption where the server may have answered 500, by a
bad one (`Spoil`), and discards obsolete objects; it ends `complete` only when every
file has a copy that passes but for those it left out; once `impaired` it may still finish what
was under way. So a bad object in a complete run is one that was there before, or the retry's. `End` counts the obsolete paths that were given no object among those gone, and `Fail`
needs no file: a run over an empty folder may fail too. It stands for no lines of its own, and so
has no entry in the map.

`Incremental` (main.cpp:152-213 and 424-463, uploader.cpp). One file over several runs. Each
run lists, finds, measures, perhaps hashes, compares, uploads, checks and posts, one step per
access to the file or the object, and `Stop` may end it anywhere (the end of its turn, a
failed request, an exception, a kill). The user writes and removes; time is whole seconds. The
hash loop's counter has `Width` bits, and a file may be empty. `cryptor` is an encryption that a refused PUT
left open: the next PUT then stores the body `Headless`, which its tag confirms and nothing decrypts. The digest
of a part of a file is `Partial`, or that of another content of that length. History: `raced`, `resized`,
`blurred`, `suspect`, `sound`, each defined where it is declared.

`Wildcard` (wildcard.cpp, srcFileList.cpp:29-48, options.cpp:220-239). Patterns
and names character by character: the chain of `replace_all`, the regular expressions
that come of it, and `Glob`, the reference definition. All of them are recursive functions, not
operators, so that they can be proved about.

`SourceTree` (srcFileList.cpp, asset.cpp, main.cpp:676-698). The recursive walk as a stack
of calls, one step per entry and per return; links to an enclosing folder; the exception; then
the deleter's lookups in the tree. Any source folder will do that `SourceAssumption` admits: entries
lie in folders, and a link leads to the folder it is in and has a name no other entry has.

`Options` (options.cpp:367-378). Three functions: the shares of the pools.

`RemoteLs` (remoteLs.cpp). `build()`, its pool, and the count by which the pool
knows it has finished, over any tree of folders (`TreeAssumption`: every folder lies somewhere in the
destination folder, as prefixes of paths do). The status of an answer is never read, so a request
that fails may lose any lines of the listing and have any of `Foreign`, the lines that are no paths of the
container: those of an error page, a last line that was cut, a folder's without its slash.
History: `asked`, `failed` (some answer was not the folder's listing).

`Uploader` (uploader.cpp, crypto.cpp, md5.cpp, and the retry of main.cpp:585-593). One
synchronizer thread uploading its files, with the handles it keeps. A file is a number of
buffers, the hash of its first k buffers is k; a salt is a number. History: `cut` (files
whose PUT was answered before they were read to the end), `lost` (POST not answered).

`MC*` give the constants their values. `TQueueProofs` holds the lemmas about queues, and
`ProcessEngineProofs`, `BackupPipelineProofs`, `RemoteLsProofs`, `UploaderProofs`, `IncrementalProofs`
and `SourceTreeProofs` the theorems about the module of their name, `OptionsProofs` those about
`Options` and `Wildcard`, and the lemmas on induction and recursion that they and `SourceTreeProofs` rest on.
`BackupPipelineProofs` is long: it starts with what each thread leaves alone, and each
part of its invariant is then a definition, with a sentence on why it holds, and the lemma that
the steps keep it. Definitions marked "Mutant" are not part of the models: they are the
plausible bugs with which each property was tried out.

Where the model is coarser than the code:

- The parser visits siblings in any order and folders are siblings without files of their
  own; a file's attachment to the tree and its addition to the local queue are one step.
  The parser's reset of the two flags is done in `StartParser`: nothing has raised them.
- `process()` of the local engine is one step. It reads no shared state but the abort flag.
- The updater classifies and adds to `todo` in one step: between the two it reads nothing
  that changes. The status an abstract fingerprint yields is the equality that
  main.cpp:432-445 computes from times or hashes.
- The deleter takes the listed paths in any order (a set of strings in the code).
- In the pipeline an upload is one step with its outcomes. `Uploader` has the detail.
- In `RemoteLs`, `getFolder()` increments an erased iterator (remoteLs.cpp:61-66), which is
  undefined; the loop ends there whatever the increment yields, because the
  result is set, so the outcome is the same in every build that survives it.
- A worker asks nothing of a folder in `BackupPipeline`. The code asks for a HEAD if it
  has, or seems to have, no children and a listed object has its name; what comes of it is
  stored in an asset that the updater drops.
- `Incremental` reads the file and the object in one step each; a file written meanwhile is
  `torn`, which no content equals. Digests of different contents differ.
- A line that is no path of the container is told apart by the folder it was an answer for; equal lines
  of two error pages are two lines in `RemoteLs`.
- In `SourceTree` the listing is fixed, and the folder changes only by making the walk throw.

## 3. Properties and runs

| Run | Instance | What it shows |
|---|---|---|
| `engine` | 2 workers, 2 assets | `TypeOK`; `NoLoss`, `OneOwner`: an asset is in exactly one place; `DoneMeansDrained`, `NothingAfterDone`: the flag tells the truth; `HandsOn`, `Drains`: what goes in comes out, and the flag goes up; `Joins`: the destructor returns |
| `listing` | 2 threads, 4 folders, 4 files, a marker; any answer may lose lines or have one of 3 foreign ones, of which one is a folder | `NobodyLeavesEarly`, `ListedOnce`, `Exact`, `Returns` |
| `flow` | 2 new files, 2 synchronizer threads, no faults | `ImplementsBackup`, `Tally` (the printed counters), `UnwoundInOrder` |
| `faults` | 1 file compared by hash, 1 obsolete path, one of the two listed, encryption, all faults | `ImplementsBackup`, `Tally` (over failed uploads and deletions), `AbortIsPrompt`, `SourceAssertions` (the code's own asserts), `UnwoundInOrder`, `LocalImplements`, `TypeOK` |
| `status` | 1 listed file compared by hash, its object good, bad or of another key, 1 folder, failing HEAD | `ClassifiedRight`, `RemoteImplements` |
| `live` | 1 listed file to be replaced, 1 obsolete object to be deleted; the HEAD and the deletion may fail, the upload be answered 500 and fail or succeed when retried | `Terminates`: the program ends, and an abort ends it |
| `incremental` | 1 file, 4 contents of lengths 0, 1, 3 and 3, 2 runs, 2 writes, 2 seconds, 1 key | `SkipsOnlyGoodCopies`, `Repairs`, `UploadsOnlyModified`, `HashEnds`, `TypeOK` |
| `tree` | 2 folders, all patterns of up to 3 of 8 characters and one of 5, 3 listed paths | `WalkExact`, `DeletesExactly`, `AbortStops`, `TypeOK` |
| `upload` | 2 files of 2 buffers, all options, early and bad answers | `Restorable`, `MetadataTrue`, `NothingCarriedOver`, `Finishes` |
| `lost`, `deletes`, `salt` | 1 or 2 files | the three violations of section 5 |

Refinement: `LocalImplements` and `RemoteImplements` say that each engine among the
pipeline's other threads is a `ProcessEngine`. The parser only ever feeds as its
producer may, the updater's scan is its consumer, so what is proved of a `ProcessEngine`
holds of both. `ImplementsBackup` says that the whole pipeline is a `Backup`: `objects` is
`stored`, `left` the files among `missed`, and `state` follows from the abort flag, a walk that
threw, an overtaken pool and `main()`'s having begun to unwind. Of a run that is `impaired` it says little: each step
touches one path, and what is discarded may be the backup of a file the walk did not reach.

What the multi-run properties say. A copy is skipped only if it is the file (or if it may not
be by one of three known weaknesses: two writes in one second, `blurred`; a copy stored but
never verified or hashed before a write, `suspect`; and a copy of an encrypted upload that was retried, which
nothing decrypts, `Unreadable`); with hashes compared and a copy in the clear,
without any exception. An upload that reaches its end leaves the right object whatever was there, unless it is
an encrypted one that was retried: that may be `Unreadable`, with the right time and key, and so later runs keep it.
A copy uploaded soundly (read, verified and told its metadata at the first attempt) is not uploaded again unless
there is a reason. What an abort leaves of a hash loop is not spoken of (`HashWhole`): such a run ends.

What a listing promises. If every answer was the listing asked for, `paths` is exactly the container's files.
After any other answer `Exact` promises only that no folder is left in the queue: files may be missing
and lines of an error page among the paths. That each folder line which arrived is
asked for once, that nobody leaves early and that `build()` returns hold whatever arrives.

The end of a run. The local engine's workers never meet their engine's destructor with work
in hand. The remote engine's may: nobody waits for the HEAD phase of an asset without
an object, so even a run that ends well can end in the pure virtual call, with status and
uploads already settled (`UnwoundInOrder` says exactly which assets that can be).

Bounds. Assets, threads and initial objects are finite sets and no counter needs
a bound, but in `Incremental` (`MaxRuns`, `MaxWrites`, `MaxClock`: the run and the user then
stop, hence no deadlock check there) and `SourceTree` (`MaxLinks`, the system's own limit; `Depth`, to
which `WalkExact` looks for paths; the walk and the deleter end, hence no deadlock check either). Two of a kind are the least at which order, doubling and overtaking
show: two workers for the race between the last to empty and the last to count, two assets
for a queue with an order and an erase in its middle, two synchronizer threads
for `todo`. In the pipeline the pools have one thread each, because the
engine's races are explored by `engine` and carried over by refinement. With two files
every queue can be empty, partly full or full. Two runs are the least in which one leaves
a bad copy, or one stored soundly, and the next one with other options keeps it or uploads over it; that it may be any
later run is what the theorems say. Two writes, the first perhaps in the second the file was made in, and two
seconds show the clock's resolution; two contents of one length are told apart by their hash alone, an empty one
by being read in no step; lengths 0, 1 and 3 with a buffer of 2 and 3 bits let the hash loop's counter begin at zero, end
on a short read, wrap (when the file grows) and stay for ever (when it shrinks). `HashEnds` is stated of each turn of the loop, so
that it can be proved for all lengths: the counter comes down, and at zero the file has been read. In
`live` the file waits for its HEAD, and the deleter's loop runs, while any of three requests may fail
(the upload after the retry's sleep, or without it when the program aborts already), so that the abort comes from and finds each thread at every place of its loop that one file
and one obsolete object lead to; the walk's exception is left to `faults`, since `Terminates` excludes the hang
it causes. Three characters are
enough for a special character beside a wildcard, an escaped one, and a slash between two names; two
links for a link followed by itself, and depth three for what lies behind it. Folders in `listing` have depth three and a
sibling, so that a thread is idle while another one counts children. Two buffers are the
least at which an upload can be cut in the middle. Symmetry over files and threads of one
pool is used only in runs without liveness.

## 4. Fairness

Every thread is a thread of the operating system, so each process has weak fairness.
Requests end: the synchronizer's and engines' steps include the answers.
Adding to a destination queue has strong fairness, since the updater
takes the mutex again and again and sleeps a millisecond between scans
(main.cpp:472), in which a waiting worker gets it. Nothing obliges an engine's producer or an
abort to happen. A mutex that is never handed over would invalidate `HandsOn` and
`Terminates`; nothing else depends on the strong fairness. `Terminates` is one property for a run's regular end and for an abort's: the end, the termination,
the throw, the overtaking and the abort all last once they have come, so it says that a run ends, is terminated or
thrown out of the walk, or was overtaken and never aborts. `Incremental` and `SourceTree` state no liveness.

Exclusions, each named in the property: `Overtaken` (a worker that ends before
`start()` stored the last thread makes the count wrong, process.cpp:73); `Threw` (the
parser's exception skips `onDone()`, main.cpp:118, and the engines then wait for ever;
an abort ends that hang only if the workers hear of it before their engine's destructor begins);
`Terminated` (the pure virtual call); `missed`, `cut` and `lost`; `raced`, `resized`, `blurred`, `suspect`,
`Unreadable` and `HashWhole` in `Incremental`; `failed` in `Exact`; "bad" objects in `Backup`.

## 5. Where the code and its comments part

- `lost`: the updater (main.cpp:421) and the synchronizer (561) read `isEmpty()`
  before `done()`. Between the two the last asset may be added and the flag raised: the
  reader leaves, the file is not backed up, the program ends well. `CProcess::run` reads
  them in the other order, which is why `Backup` may leave files out.
- `deletes`: the deleter starts when the parser has ended, which an abort also brings
  about, with the tree incomplete; the flag is read only after the first path.
- `salt`: a PUT answered 500 before the whole body was read leaves `CCryptEngine::_p`
  open. The retry's `encryptStart()` does nothing: no header, the old key, and a cipher
  stream continued in the middle. The Etag is that of the bytes sent, so `upload()` returns `resOk`,
  the metadata are written, the run ends well (`Backup`'s `Spoil`), and the next runs find nothing
  to do (`Unreadable` in `Incremental`).

Seen and not turned into a run: after such an early 500 a plain file can never be verified on
retry, since the hash of a part is kept as the file's (uploader.cpp:198-205), so the
retry is refused; the `--container` option is not passed to the listing (main.cpp:821); the lines of any answer to a listing
are taken for paths, so a failed request makes files look missing in the container and an empty line trips the
assertion at remoteLs.cpp:189; a PUT stores the
modification time before the body has been verified, so that a run stopped there leaves a
bad copy that later runs take for good (the exception `suspect`); a link to an enclosing
folder makes the whole walk throw, and so the program hang, unless a pattern hides the link's longer
path: then the folder's files are backed up a second time under the link's; and `--del-non-existing` deletes the
backups of files that have come to be excluded (`DeletesExactly` says so).

## 6. What is proved

Each theorem holds for every value of the constants that meets the module's assumptions, and for
every behaviour, fair or not.

| Module | Theorem | States |
|---|---|---|
| `ProcessEngine` | `TypeCorrect` | types; the counters never pass the size of the pool |
| | `FlagMeansDrained` | `DoneMeansDrained`; behind a raised flag no worker calls the subclass |
| | `NothingAddedAfterDone` | `NothingAfterDone` |
| | `NothingLost`, `ProcessedOnce` | `NoLoss`, `OneOwner` |
| `BackupPipeline` | `LocalIsEngine`, `RemoteIsEngine` | `LocalImplements`, `RemoteImplements` |
| | `RunIsABackup` | `ImplementsBackup` |
| | `Accounted` | `Tally` |
| | `UnwindsInOrder` | `UnwoundInOrder` |
| | `ClassifiedFromAll` | `ClassifiedRight` |
| | `AssertionsHold`, `AbortPrompt`, `TypeCorrect` | `SourceAssertions`, `AbortIsPrompt`, `TypeOK` |
| `RemoteLs` | `ListingExact` | `Exact` |
| | `NobodyLeaves`, `EachListedOnce`, `TypeCorrect` | `NobodyLeavesEarly`, `ListedOnce`, `TypeOK` |
| `Uploader` | `UploadsRestorable`, `MetadataCorrect` | `Restorable`, `MetadataTrue` |
| | `HandlesClosed`, `TypeCorrect` | `NothingCarriedOver`, `TypeOK` |
| `Incremental` | `UploadRepairs`, `SkipsAreGood` | `Repairs`, `SkipsOnlyGoodCopies` |
| | `UploadsHaveReason`, `HashingEnds`, `TypeCorrect` | `UploadsOnlyModified`, `HashEnds`, `TypeOK` |
| `SourceTree` | `WalkIsExact`, `DeletionsAreExact` | `WalkExact`, `DeletesExactly` |
| | `TreeIsTyped`, `WalkStops` | `TypeOK`, `AbortStops` |
| `Wildcard` | `PatternsMean` | `Match(text, pattern)` is `Glob(text, pattern)`, for every text and pattern |
| `Options` | `ThreadsDivided` | no pool is left without threads, and the shares add up |

Assumptions, each named in the module that declares the constants:

- `WorkerAssumption`, `NoAssetAssumption`: a pool is finite and not empty (process.cpp:45 takes at
  least one thread, and `ThreadsDivided` says the program asks for one); nullptr is no asset.
- `PipelineAssumption`: the folder, the container and the pools are finite; files, folders and paths
  that only the container has differ, as do the deleter and the upload threads; `Container` holds
  possible containers.
- `ContainerAssumption`, `TreeAssumption`: the lines there may be, those of the container and `Foreign` ones, are finite
  and make one tree, in which nothing of the container lies below a foreign line.
- `UploaderAssumption`: finitely many files of some length.
- `IncrementalAssumption`, `NamesAssumption`: a content, which may be empty, fits the
  hash loop's counter; the spoiled, torn, headless and partial contents are none of the files'.
- `SourceAssumption`: what a source folder can be (section 2), and that lines of the exclude file and
  listed paths are made of characters.

`WalkIsExact` has `Depth` among its constants, so it speaks of paths of every length. No file, thread, folder, buffer or run is counted out: sizes and numbers are any.

### The arguments

`ProcessEngine`, in three layers.

1. *Book*: types, `pushed` at most the number of started threads, `doneCount` the number
   of workers past their increment (cardinalities, `FS_AddElement`), and who may hold an asset
   where. `TypeOK` alone is not inductive: that `doneCount` stays within the pool needs
   that it is a cardinality, and that `HandOn` adds an asset needs that its worker holds one.
2. *Drain*: a worker is past its loop only because the source is done and empty or the
   program aborts (`LeaveInv`), and the flag is up, or a worker is about to raise
   it, only when all have ended (`EndInv`, where the cardinality argument turns "as many as
   the pool" into "all of the pool"). Together they give `DoneMeansDrained`
   and `NothingAfterDone`.
3. *Own*: an asset is in one of four disjoint places, and queues hold it once. The steps rest
   on `TQueueProofs`: what Add, Pop and Erase do to the elements and to distinctness.

`BackupPipeline`, in four stages.

1. *The engines.* Each step of the pipeline is, for an engine, a step of one of its workers, of its
   producer, its consumer, its owner, or a stutter (`LocalStep`, `RemoteStep`). That needs `FlagInv` (who
   holds a mutex, who has raised a flag, which pool is complete): a parser that fed after
   `setDone()`, or an updater that erased without the lock, would be no environment of an engine.
   The theorems of `ProcessEngine`, instantiated for each engine, then give `EngineInv`: nothing between
   parser and updater is lost or held twice, and the flag of `localDoneQ` tells the truth.
2. *The threads.* `ThreadInv` adds, thread by thread: the types (`RestOK`); what the parser has
   attached and the engines have filled in (`ParserOK`, `PublishedOK`, `HashOK`); the status that follows
   (`StatusOK`) and the files on their way to an upload, each once (`TodoOK`); what the deleter and
   the container may then hold (`DeleterOK`, `StoredOK`), where a bad object comes of an upload only if the server may
   answer 500 (`RetryOK`); the counters (`CountersOK`, `LateOK`); and what is left when a thread ends (`QuitOK`, `UnwindOK`, `PureOK`). `AssertionsHold`,
   `ClassifiedFromAll`, `AbortPrompt` and `TypeCorrect` follow from it. None of these properties is inductive:
   that an upload thread holds a file with a status, for instance, needs that every file in `todo` has
   one, so that the updater classified it, so that it had its hashes, and so back to the parser.
3. *The end.* `AtTheEnd`: when `main()` unwinds without an abort or an overtaken pool, the updater's
   queue holds only what it missed, so the local engine's workers have left (`EngineInv`), and a
   remote worker still at work has an asset nobody waits for. That is `UnwoundInOrder`, and the part of
   `Backup!End` that says every file has a copy that passes or was missed.
4. *The abstract run and the summary.* `Effects` says which steps touch the container or `missed`;
   `BackupStep` maps each to its step of `Backup` by the phase before and after. For `Tally`, `SharedOut`
   divides the files queued so far among the queues, the hands and those handled (a statement
   about one state, from disjointness), and `TallyOK` counts those handled as steps are taken.

`RemoteLs`. The counter is the number of folders queued, being listed, or found and counted (`CountInv`),
each known folder is in one place (`FolderInv`), so zero means that none is left (`LeaveInv`), and
who then leaves leaves nothing; all of this whatever lines arrive. `WholeInv` says that, as long as no answer failed, no
line of a listing is forgotten and no foreign one is there; with `TreeAssumption` every folder was asked, hence `Exact`.

`Uploader`. `CryptInv` is the point: the engine is closed between uploads, and open after a PUT only if
that PUT was cut or the program aborts. `ReadInv` ties what was sent and hashed to what was read,
`StoredInv` the object to the file in hand, and `BehindInv` keeps the objects behind apart from later salts,
of which there are enough (`SaltInv`).

`Incremental`. `ObjectInv` says what an object's metadata promise of its body after any number of
runs that may have stopped anywhere; `AloneInv` and `SentInv` what the present run knows of the file.
Each says where a headless body can be: behind a retry with a key, and in an object with one. `LoopInv`, that what the
hash loop has read and has left make the file's length, gives `HashEnds`; that a digest is the whole file's needs it too.
`Repairs` follows from the second alone, whatever was in the container.

`Wildcard`. The pattern is taken apart character by character: the chain of replacements is
shown to spell each character of the pattern apart from the others (`EscapeEachConcat`,
`SpellConcat`), first into an escaped form and then, once a star, a question mark or neither, into
one item of the regular expression; `Regex` of it is the list of these items, and matching item by item is `Glob`.
The order of the replacements is what this rests on: with the backslash last, a replacement would
find what an earlier one wrote.

`SourceTree`, in three layers.

1. *Tree*: `TypeOK` is not inductive: that a folder gets no second child of a name needs that no
   folder is entered twice. `TreeInv` says that the calls under way are a path, that what a call has not
   reached yet has no children, and that the entries still to come are not children yet.
2. *Nothing else*: `FoundInv` says that each asset's path can be walked to, is not hidden and is no other asset's, and
   that a call has no entries in hand but its folder's. `exclude()` looks at every name of a path and
   `Hidden` at the last: they agree where the folder is itself not hidden (`ExcludeExact`), which is
   all the walk needs.
3. *Nothing missed*: `NoneMissed` says of every folder in the tree that some call is still to
   look into it, or that each of its entries has been dealt with or is in some call's hands; when the last call
   returns nothing is in hand. By induction on the path, all that can be walked to is in the tree
   (`AllFound`), and `find()` reaches an asset by its path and by no other (`FindExact`).

Induction over data is not available as a rule here, since it takes an operator as a parameter. Two lemmas about
sets stand for it: a set of numbers with 0 that is closed under successor is `Nat` (`NatSet`, by a
pigeonhole argument on finite sets), and a set of sequences with the empty one that is closed under `Append` is
`Seq` (`SeqSet`). `Recursion` gives, for a rule and a rank, a function that obeys it, which is
what the `CHOOSE` behind a recursive function needs to have a meaning.

Each invariant was first checked with TLC on the instances of section 3. Three attempts
corrected the models: the refinement failed for a path that never had an object and for a run without files
(`Backup`), `Exact` needed the tree to be one (`TreeAssumption`), and `WalkExact` counted the
entries of the source folder, of which a link followed once makes more (`Depth`, and the pattern of 5 characters).

## 7. What is only model-checked

Liveness: `HandsOn`, `Drains`, `Joins`, `Returns`, `Terminates`, `Finishes`. Liveness
under fairness is outside the prover used here. (`HashEnds` is a property of steps: that a loop whose counter comes
down leaves it at zero takes only that its thread keeps running.) Every other property of a passing run is stated by a theorem.

Where a theorem carries an exclusion (`Overtaken`, `Threw`, `missed`, `cut`, `suspect` ...) it is the
one the run's property has, explained in section 4.

## 8. What is not modelled

- Parsing of the command line, HTTP and curl (a request is its set of outcomes), JSON,
  authentication (sequential, before any thread, exits on failure), MD5 and AES themselves,
  logging, the log notifier (it reads counters and prints), Base64.
- The data race on a folder's `_childs` (main.cpp:251 against asset.cpp:65), which is undefined
  behaviour, the expiry of the token (credentials.h:70), which is a request that fails, the listing
  of another container than the one written to (main.cpp:821), and an object named like a folder
  with a slash (remoteLs.cpp:187), where the service's answer cannot be told from the source; nor would a listing end of which every
answer is an error page with a line that ends in a slash (`Folder` is finite).
- Two programs over one container at a time: each run of `Incremental` is alone.

The vendored libraries under `src/thirdparty` (spdlog with its formatter, jsonxx) are more
than half of the repository's lines and no part of the program's own logic, so the modelled lines
are a small share of the whole repository. Of the program's own lines the
map covers about a third; most of the rest is option tables, authentication,
curl wrapping, hexadecimal and Base64 conversion, and printing.

## 9. Plan

Done, in this order: queue and engine, pipeline, proofs of the engine, remote listing, uploader;
then the destructor and the unwinding, the abstract `Backup` and its refinement, several runs
over one container, the source tree with its patterns, the division of threads.

Then the proofs: `RemoteLs`, `Uploader`, `Incremental`, the engines among the pipeline's threads, the
pipeline's invariant, its end, its refinement and its counters, the tree of `SourceTree`, the patterns,
and what the walk finds and the deleter deletes.

What is left, by importance:

1. Links that lead elsewhere than to the folder they are in, and a folder that changes while it is walked.
2. The race on a folder's `_childs`, as a choice over what the reader may see of a vector that grows.
3. Shorter proofs of the pipeline's frame lemmas, which are repeated for each thread.

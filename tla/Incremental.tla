------------------------------ MODULE Incremental ------------------------------
(***************************************************************************)
(* One file over several runs of the program: what one run leaves in the   *)
(* container is what the next one decides from.  A run may be stopped at   *)
(* any point (killed, crashed, aborted), the user may write to the file or *)
(* remove it at any time, and each run has its own options.                *)
(*                                                                         *)
(* pc names the next thing the run does about the file:                    *)
(*   list    build the list of remote paths    walk   find the file        *)
(*   size    read its size                     hash   read its content     *)
(*   head    read the object's metadata        upload open the file        *)
(*   put     send it                           check  compare the tag      *)
(*   recheck ... once more                     post   send the metadata    *)
(* "skip" and "done" end the file's turn in a run that left it alone, that *)
(* uploaded it; "idle" is between two runs.                                *)
(*                                                                         *)
(* Times are whole seconds, as bf::last_write_time() returns them.         *)
(***************************************************************************)
EXTENDS Integers

CONSTANTS
    Content,            \* what the file may hold
    Length,             \* the length of each content, in bytes
    Buffer,             \* bytes one fread() of the hash loop asks for
    Width,              \* bits of the loop's counter (64 in the code)
    CryptKey,           \* keys derived from the passwords the user has
    MaxRuns, MaxWrites, MaxClock    \* bounds of the model

ASSUME IncrementalAssumption ==
    /\ Length \in [Content -> 0 .. 2 ^ Width - 1]
    /\ {Buffer, Width, MaxRuns, MaxWrites, MaxClock} \subseteq Nat \ {0}

NoKey    == "none"      \* no password given; an object in the clear
Torn     == "torn"      \* read while the user was writing
Spoiled  == "spoiled"   \* stored by the container otherwise than sent
Headless == "headless"  \* the end of an encryption begun in an earlier PUT
Partial  == "partial"   \* the digest of a part of a file, or of two files' parts
Zero     == "zero"      \* CDigest() before anything is computed

Key    == CryptKey \cup {NoKey}
Body   == Content \cup {Torn, Spoiled, Headless}
Digest == Content \cup {Torn, Partial, Zero}

\* What stands for no content is none, and no password derives the absent key.
ASSUME NamesAssumption ==
    /\ Content \cap {Torn, Spoiled, Headless, Partial, Zero} = {}
    /\ NoKey \notin CryptKey

VARIABLES
    disk,       \* the file: is it there, what it holds, its modification time
    clock,      \* the present second
    object,     \* the container's object for the file, or NoObject
    pc,
    option,     \* this run's options: compare hashes? the key
    asset,      \* CAsset: _localLastModifTime and _srcHash
    loop,       \* the hash loop: reste, bytes read, the content they were of
    listed,     \* CRemoteLs::exists()
    sent,       \* what the last PUT sent
    retried,    \* the synchronizer called upload() a second time
    cryptor,    \* CCryptEngine::_p: an encryption was begun and not finalized
    runs, writes,       \* how many there were (bounded)
    \* history
    raced,      \* the user wrote since this run found the file
    resized,    \* ... and changed its length since its size was read
    blurred,    \* ... in the second of the time it already had, and no PUT since
    suspect,    \* the object was stored and not checked, or hashed before a write
    sound       \* the last upload was left alone, checked, its metadata sent

program == <<pc, option, asset, loop, listed, sent, retried, cryptor>>
history == <<raced, resized, blurred, suspect, sound>>
vars    == <<disk, clock, object, program, runs, writes, history>>

world    == <<disk, clock, object, runs, writes>>
transfer == <<sent, retried, cryptor>>

crypted == option.key # NoKey

NoObject == [body |-> "absent", time |-> 0, len |-> 0, key |-> NoKey, md5 |-> Zero]

NoAsset == [time |-> 0, len |-> 0, md5 |-> Zero]
NoLoop  == [left |-> 0, at |-> 0, seen |-> Zero]

Init ==
    /\ disk \in [there : {TRUE}, content : Content, time : {1}]
    /\ clock = 1
    /\ object = NoObject
    /\ pc = "idle" /\ option = [forceMd5 |-> FALSE, key |-> NoKey]
    /\ asset = NoAsset /\ loop = NoLoop
    /\ listed = FALSE /\ sent = Zero /\ retried = FALSE /\ cryptor = FALSE
    /\ runs = 0 /\ writes = 0
    /\ raced = FALSE /\ resized = FALSE /\ blurred = FALSE
    /\ suspect = FALSE /\ sound = FALSE

-----------------------------------------------------------------------------
(* The user, and time. *)

Touched ==
    /\ writes < MaxWrites /\ writes' = writes + 1
    /\ raced' = (raced \/ pc \notin {"idle", "list", "walk"})

Write(c) ==
    /\ Touched
    /\ disk' = [there |-> TRUE, content |-> c, time |-> clock]
    /\ resized' = (resized \/ Length[c] # Length[disk.content])
    /\ blurred' = (disk.time = clock)
    /\ UNCHANGED <<clock, object, program, runs, suspect, sound>>

Remove ==
    /\ Touched
    /\ disk.there /\ disk' = [disk EXCEPT !.there = FALSE]
    /\ UNCHANGED <<clock, object, program, runs, resized, blurred, suspect, sound>>

Tick ==
    /\ clock < MaxClock /\ clock' = clock + 1
    /\ UNCHANGED <<disk, object, program, runs, writes, history>>

-----------------------------------------------------------------------------
(* A run, up to the decision. *)

Goto(from, to) == pc = from /\ pc' = to

Start(o) ==
    /\ Goto("idle", "list")
    /\ runs < MaxRuns /\ runs' = runs + 1
    /\ option' = o
    /\ raced' = FALSE /\ resized' = FALSE
    /\ UNCHANGED <<disk, clock, object, asset, loop, listed, transfer, writes, blurred,
                   suspect, sound>>

\* The listing may lack the object: a failed GET counts as an empty folder.
List ==
    /\ Goto("list", "walk")
    /\ listed' \in {FALSE, object # NoObject}
    /\ UNCHANGED <<world, option, asset, loop, transfer, history>>

Found ==
    /\ Goto("walk", "size")
    /\ disk.there
    /\ asset' = [asset EXCEPT !.time = disk.time]
    /\ UNCHANGED <<world, option, loop, listed, transfer, history>>

\* file_size(), and fopen() when the content is hashed.
Size ==
    /\ Goto("size", IF option.forceMd5 THEN "hash" ELSE "head")
    /\ disk.there
    /\ asset' = [asset EXCEPT !.len = Length[disk.content]]
    /\ loop' = IF option.forceMd5
               THEN [left |-> Length[disk.content], at |-> 0, seen |-> disk.content]
               ELSE NoLoop
    /\ resized' = FALSE
    /\ UNCHANGED <<world, option, listed, transfer, raced, blurred, suspect, sound>>

\* What fread() returns: never more than the buffer, nothing past the end.
Readed ==
    LET rest == Length[disk.content] - loop.at
    IN  IF rest < 0 THEN 0 ELSE IF rest < Buffer THEN rest ELSE Buffer

\* Mutants: the whole buffer is taken off; the counter is not one of Width bits.
LeftByBuffer  == (loop.left - Buffer) % 2 ^ Width
LeftUnbounded == loop.left - Readed

Left == (loop.left - Readed) % 2 ^ Width

Read ==
    /\ pc = "hash" /\ pc' = "hash" /\ loop.left # 0
    /\ loop' = [left |-> Left, at |-> loop.at + Readed,
                seen |-> IF loop.at = 0 \/ loop.seen = disk.content THEN disk.content
                         ELSE IF Readed = 0 THEN loop.seen ELSE Torn]
    /\ UNCHANGED <<world, option, asset, listed, transfer, history>>

\* What was read of a file may be the whole of another.
Hashes == IF loop.seen \in Content /\ loop.at = Length[loop.seen] THEN {loop.seen}
          ELSE {Partial} \cup {c \in Content : Length[c] = loop.at}

\* The loop ends at zero or because the program aborts; either way its digest
\* is the file's.
Hashed ==
    /\ Goto("hash", "head")
    /\ \E md5 \in Hashes : asset' = [asset EXCEPT !.md5 = md5]
    /\ loop' = [NoLoop EXCEPT !.left = loop.left]
    /\ UNCHANGED <<world, option, listed, transfer, history>>

SameHash == object.md5 = asset.md5 /\ object.len = asset.len

SameTime == object.time = asset.time

SameFingerprint == IF option.forceMd5 THEN SameHash ELSE SameTime

\* "partial" stands for many digests, of which two need not be the same.
Unlike == option.forceMd5 /\ asset.md5 = Partial

SameKey == crypted => object.key = option.key

\* HEAD and classification; the object is this run's alone.
UpToDate ==
    /\ Goto("head", "skip")
    /\ listed /\ SameFingerprint /\ SameKey
    /\ UNCHANGED <<world, option, asset, loop, listed, transfer, history>>

Outdated ==
    /\ Goto("head", "upload")
    /\ ~ (listed /\ SameFingerprint /\ SameKey) \/ Unlike
    /\ UNCHANGED <<world, option, asset, loop, listed, transfer, history>>

-----------------------------------------------------------------------------
(* CUploader::upload(). *)

Open ==
    /\ Goto("upload", "put")
    /\ disk.there
    /\ sent' = disk.content
    /\ UNCHANGED <<world, option, asset, loop, listed, retried, cryptor, history>>

\* What rdd() read: the user may have written meanwhile.
MayHaveRead == IF disk.content = sent THEN {sent} ELSE {sent, disk.content, Torn}

\* In the clear, the body's length was announced before it was read.
MayBeStored(body) ==
    {Spoiled} \cup IF ~ crypted /\ body \in Content /\ Length[body] # asset.len
                   THEN {} ELSE {body}

Md5Of(body) == IF asset.md5 = Zero THEN body ELSE asset.md5

\* Mutant: the object is stored with the file's present time.
TimeNow == disk.time

LocalLastModifTime == asset.time

\* The metadata in the headers; an object in the clear is known by its tag.
Meta(body, md5) ==
    [body |-> body, time |-> LocalLastModifTime, len |-> asset.len, key |-> option.key,
     md5 |-> IF crypted THEN md5 ELSE body]

\* Encrypting where an earlier PUT stopped puts no header before the body.
Drawn(read) == IF cryptor THEN Headless ELSE read

\* 201: the headers were made before the file was read.
Put(read, stored) ==
    /\ Goto("put", "check")
    /\ read \in MayHaveRead /\ stored \in MayBeStored(Drawn(read))
    /\ object' = Meta(stored, asset.md5)
    /\ sent' = Drawn(read) /\ cryptor' = FALSE
    /\ asset' = [asset EXCEPT !.md5 = Md5Of(read)]
    /\ blurred' = (blurred /\ read # disk.content)
    /\ suspect' = TRUE /\ sound' = FALSE
    /\ UNCHANGED <<disk, clock, option, loop, listed, retried, runs, writes, raced, resized>>

\* A file that is not empty may be read in part only.
Cut == {b \in {sent, disk.content} : Length[b] # 0}

MayBeHashed ==
    MayHaveRead \cup IF Cut = {} THEN {}
                     ELSE {Partial} \cup {c \in Content : \E b \in Cut : Length[c] < Length[b]}

\* 500: nothing is stored; what was read so far is taken for the file's hash,
\* and an encryption that was not finalized stays open.
PutAgain ==
    /\ Goto("put", "upload")
    /\ ~ retried /\ retried' = TRUE
    /\ \E md5 \in MayBeHashed : asset' = [asset EXCEPT !.md5 = Md5Of(md5)]
    /\ cryptor' \in {FALSE, crypted /\ Cut # {}}
    /\ sent' = Zero
    /\ UNCHANGED <<world, option, loop, listed, history>>

\* Mutant: the tag is not compared with anything.
TagUnchecked == TRUE

\* Encrypted, the tag is compared with the digest of what was sent.
TagMatches == object.body = (IF crypted THEN sent ELSE asset.md5)

Checked ==
    /\ pc \in {"check", "recheck"} /\ pc' = "post"
    /\ TagMatches
    /\ suspect' = (crypted /\ raced /\ (option.forceMd5 \/ retried))
    /\ UNCHANGED <<world, option, asset, loop, listed, transfer, raced, resized,
                   blurred, sound>>

\* The tag is wrong, or the container returns a wrong one this once.
CheckAgain ==
    /\ Goto("check", "recheck")
    /\ UNCHANGED <<world, option, asset, loop, listed, transfer, history>>

\* Mutant: the metadata of the PUT are sent again.
MetaBefore == object

MetaNow == Meta(object.body, asset.md5)

\* Nobody looks at the answer.
Post(arrives) ==
    /\ Goto("post", "done")
    /\ object' = IF arrives THEN MetaNow ELSE object
    /\ sound' = (arrives /\ ~ raced /\ ~ retried /\ asset.md5 = object.body)
    /\ UNCHANGED <<disk, clock, option, asset, loop, listed, transfer, runs, writes,
                   raced, resized, blurred, suspect>>

-----------------------------------------------------------------------------
\* The file's turn is over, and the run with it: regularly, because a request,
\* a check or a file that is gone aborts it, throws out of a thread or is read
\* through a null FILE, or because the program is killed.
Stop ==
    /\ pc # "idle" /\ pc' = "idle"
    /\ option' = [forceMd5 |-> FALSE, key |-> NoKey]
    /\ asset' = NoAsset /\ loop' = NoLoop
    /\ listed' = FALSE /\ sent' = Zero /\ retried' = FALSE /\ cryptor' = FALSE
    /\ UNCHANGED <<world, history>>

Run ==
    \/ \E o \in [forceMd5 : BOOLEAN, key : Key] : Start(o)
    \/ List \/ Found \/ Size \/ Read \/ Hashed \/ UpToDate \/ Outdated
    \/ Open \/ PutAgain \/ Checked \/ CheckAgain
    \/ \E read, stored \in Body : Put(read, stored)
    \/ \E arrives \in BOOLEAN : Post(arrives)

User == Remove \/ Tick \/ \E c \in Content : Write(c)

Next == Run \/ Stop \/ User

Spec == Init /\ [][Next]_vars

-----------------------------------------------------------------------------
TypeOK ==
    /\ disk \in [there : BOOLEAN, content : Content, time : 1 .. MaxClock]
    /\ clock \in 1 .. MaxClock
    /\ pc \in {"idle", "list", "walk", "size", "hash", "head", "skip", "upload", "put",
              "check", "recheck", "post", "done"}
    /\ object \in {NoObject} \cup [body : Body, time : 1 .. MaxClock, len : Nat,
                                 key : Key, md5 : Digest \cup Body]
    /\ option \in [forceMd5 : BOOLEAN, key : Key]
    /\ asset \in [time : 0 .. MaxClock, len : Nat, md5 : Digest]
    /\ loop \in [left : 0 .. 2 ^ Width - 1, at : Nat, seen : Content \cup {Torn, Zero}]
    /\ sent \in Content \cup {Torn, Headless, Zero}
    /\ listed => object # NoObject
    /\ runs \in 0 .. MaxRuns /\ writes \in 0 .. MaxWrites
    /\ {listed, retried, cryptor, raced, resized, blurred, suspect, sound} \subseteq BOOLEAN

\* An abort did not end the hash loop before the end of the file.
HashWhole == loop.left = 0

\* Stored by a retry that went on with the encryption a refused PUT had begun:
\* the tag is that of what was sent, but nothing decrypts it.
Unreadable == object.body = Headless /\ object.key # NoKey

(* A file is left alone only if its copy in the container is the file, with *)
(* the key this run asks for, whatever earlier runs left there.  There are  *)
(* three exceptions: the user wrote twice in one second; the copy was       *)
(* stored by a run that did not get to check it or had hashed the file      *)
(* before the user wrote to it; or the copy cannot be decrypted since the   *)
(* upload was retried.  When the hashes of a copy in the clear are          *)
(* compared, there is none (main.cpp:426-463, uploader.cpp:127-135,         *)
(* 232-252).                                                                *)
SkipsOnlyGoodCopies ==
    pc = "skip" /\ ~ raced /\ HashWhole =>
        /\ \/ object.body = disk.content
           \/ Unreadable
           \/ ~ (option.forceMd5 /\ object.key = NoKey) /\ (blurred \/ suspect)
        /\ crypted => object.key = option.key

(* A run that uploads the file to the end, while the user leaves it alone,  *)
(* leaves the file, its time and its key in the container, whatever was     *)
(* there before: a bad copy is never kept by a later upload.  Only an       *)
(* encrypted upload that was retried may leave a copy that cannot be        *)
(* decrypted (uploader.cpp:152-252, crypto.cpp:311-319).                    *)
Repairs ==
    pc = "done" /\ ~ raced =>
        /\ object.body = disk.content \/ (Unreadable /\ crypted /\ retried)
        /\ object.time = disk.time
        /\ object.key = option.key

(* Upload only modified files: over a copy that was uploaded soundly, a     *)
(* file that is listed is uploaded again only if the user wrote to it or    *)
(* the key is another one, or in the middle of an abort (README "Upload     *)
(* only modified files", main.cpp:426-463).                                 *)
UploadsOnlyModified ==
    pc = "upload" /\ sound /\ listed /\ ~ raced /\ HashWhole =>
        \/ ~ SameKey
        \/ object.body # disk.content \/ object.time # disk.time

(* The hash loop ends by itself, and at the end of the file, whatever the   *)
(* lengths of file and buffer, if the file keeps the length it had when the *)
(* loop began, even if it is written to: each turn takes something off the  *)
(* counter, and at zero the whole file has been read.  (A file that grows   *)
(* wraps the counter, one that shrinks never brings it to zero;             *)
(* main.cpp:177-193.)                                                       *)
HashEnds ==
    [][pc = "hash" /\ pc' = "hash" /\ ~ resized' =>
          /\ loop' # loop => loop'.left < loop.left
          /\ loop'.left = 0 => loop'.at = Length[disk'.content]]_vars
==============================================================================

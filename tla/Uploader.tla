------------------------------- MODULE Uploader -------------------------------
(***************************************************************************)
(* CUploader of uploader.cpp, used by one synchronizer thread for one file *)
(* after another, with the CCryptEngine of crypto.cpp it keeps from one    *)
(* upload to the next.                                                     *)
(*                                                                         *)
(* upload() sends the file with a PUT whose body curl draws from rdd() one *)
(* buffer at a time, compares the container's Etag with the hash of what   *)
(* was sent, and posts the metadata.  The server may answer the PUT before *)
(* it has read the whole body.                                             *)
(*                                                                         *)
(* A file is a number of buffers; the hash of its first k buffers is k.    *)
(* The Etag of an object is the hash of its body, that is, its body.  A    *)
(* crypto context is known by its salt, and salts are numbered.            *)
(***************************************************************************)
EXTENDS Integers, FiniteSets

CONSTANTS
    File,           \* the files the thread is given, one after another
    Length,         \* the length of a file, in buffers
    Options,        \* the program's options: a subset of Option
    EarlyAnswer,    \* the server may refuse a PUT before it has the whole body
    BadAnswer       \* HEAD may be answered without the right Etag, POST not at all

\* Encrypt what is uploaded; compute the files' hashes before the upload.
Option == [crypted : BOOLEAN, forceMd5 : BOOLEAN]

ASSUME UploaderAssumption ==
    /\ IsFiniteSet(File)
    /\ Length \in Nat
    /\ Options \subseteq Option
    /\ {EarlyAnswer, BadAnswer} \subseteq BOOLEAN

None == -1      \* no hash, no salt, no engine, nothing sent

VARIABLES
    option,     \* the options of this run
    pc,         \* what the thread does next
    todo,       \* files not uploaded yet
    crt,        \* _crt, and how often it was tried
    attempt,
    srcHash,    \* the hash _srcHash._md5 of each file
    position,   \* how much of the file has been read
    bStarting, bDone,
    md5,        \* _md5Computer: what it was fed, None when not initialised
    context,    \* _cryptoContext
    cryptor,    \* CCryptEngine::_p: the salt of the encryption that is open
    salts,      \* how many contexts were created
    body,       \* what curl was given during this PUT
    meta,       \* the uncrypted hash in the request's metadata
    object,     \* the container: the body and the metadata of each object
    aborted,    \* CContext::_aborted
    uploaded,   \* the files upload() returned resOk for
    \* history
    cut,        \* files whose PUT was answered before they were read to the end
    lost        \* files whose POST was not answered

upV  == <<crt, attempt, position, bStarting, bDone, md5, context, cryptor, salts,
          body, meta>>
history == <<cut, lost>>
vars == <<option, pc, todo, srcHash, upV, object, aborted, uploaded, history>>

Crypted  == option.crypted
ForceMd5 == option.forceMd5

NoBody   == [header |-> None, key |-> None, upto |-> 0, final |-> FALSE]
NoObject == [body |-> NoBody, md5 |-> None, there |-> FALSE]

Init ==
    /\ option \in Options
    /\ pc = "next"
    /\ todo = File
    /\ crt \in File /\ attempt = 0
    /\ srcHash = [f \in File |-> IF ForceMd5 THEN Length ELSE None]
    /\ position = 0 /\ bStarting = FALSE /\ bDone = FALSE
    /\ md5 = None /\ context = None /\ cryptor = None /\ salts = 0
    /\ body = NoBody /\ meta = None
    /\ object = [f \in File |-> NoObject]
    /\ aborted = FALSE
    /\ uploaded = {} /\ cut = {} /\ lost = {}

-----------------------------------------------------------------------------
(* The hash computer (md5.cpp:144-179): init() leaves a computation that is *)
(* open as it is, feed() and done() do nothing when none is.               *)

Md5Init    == IF md5 = None THEN 0 ELSE md5
Md5Feed(n) == IF md5 = None THEN None ELSE md5 + n
Md5Done    == IF md5 = None THEN srcHash ELSE [srcHash EXCEPT ![crt] = md5]

\* A crypto context has a salt drawn at random, so it is a new one, and the
\* key that follows from salt and password (crypto.cpp:169-229).
NewContext == IF Crypted THEN salts + 1 ELSE None

-----------------------------------------------------------------------------
(* upload(), uploader.cpp:152-195, up to the PUT. *)

\* The hash is computed along the way when it is not known yet.
Begin(f, n) ==
    /\ pc' = "put" /\ crt' = f /\ attempt' = n
    /\ position' = 0 /\ bStarting' = TRUE /\ bDone' = FALSE
    /\ md5' = IF srcHash[f] = None THEN Md5Init ELSE md5
    /\ salts' = IF Crypted THEN salts + 1 ELSE salts
    /\ context' = NewContext
    /\ body' = NoBody
    /\ meta' = IF Crypted THEN srcHash[f] ELSE None
    /\ UNCHANGED <<srcHash, cryptor, object, aborted, uploaded, history>>

Upload ==
    /\ pc = "next"
    /\ \E f \in todo : Begin(f, 1) /\ todo' = todo \ {f}

\* Mutant: as often as the server answers 500.
RetryAgain == pc = "retry" /\ ~ aborted /\ Begin(crt, 2) /\ UNCHANGED todo

\* The synchronizer retries once, unless the program is aborting.
Retry == pc = "retry" /\ ~ aborted /\ attempt = 1 /\ Begin(crt, 2) /\ UNCHANGED todo

-----------------------------------------------------------------------------
(* rdd(), uploader.cpp:54-125: curl asks for the next part of the body.    *)

\* encryptStart() opens nothing and writes no header while an encryption that
\* was never finalized is open (crypto.cpp:311-319).
EncryptStart == IF bStarting /\ cryptor = None THEN context ELSE cryptor

Header == IF bStarting /\ cryptor = None THEN context ELSE body.header

\* update() encrypts with the key of the encryption that is open.
EncryptedWith == IF Crypted THEN EncryptStart ELSE None

\* Mutant: the last part is given to curl without closing the encryption.
LeftOpen(last) == EncryptStart

Finalized(last) == IF last THEN None ELSE EncryptStart

\* fread() meets the end of the file with the last buffer or just after it.
Rdd ==
    /\ pc = "put" /\ ~ bDone
    /\ LET read == IF position < Length THEN 1 ELSE 0
       IN  \E last \in (IF position + read < Length THEN {FALSE}
                        ELSE IF read = 0 THEN {TRUE} ELSE BOOLEAN) :
              /\ position' = position + read
              /\ bDone' = last
              /\ md5' = Md5Feed(read)
              /\ cryptor' = IF Crypted THEN Finalized(last) ELSE cryptor
              /\ body' = [header |-> IF Crypted THEN Header ELSE None,
                          key    |-> EncryptedWith,
                          upto   |-> position + read,
                          final  |-> Crypted /\ last]
    /\ bStarting' = FALSE
    /\ UNCHANGED <<pc, todo, crt, attempt, srcHash, context, salts, meta, object,
                   aborted, uploaded, history>>

-----------------------------------------------------------------------------
(* upload(), uploader.cpp:195-251, from the answer on. *)

\* perform() comes back from the PUT with the body drawn to its end, or early.
Answered == bDone \/ EarlyAnswer

\* The PUT has returned: the hash computed along the way, of the whole file or
\* not, becomes the asset's, and the context is deleted.
PutReturns ==
    /\ pc = "put"
    /\ srcHash' = Md5Done
    /\ md5' = None
    /\ context' = None
    /\ cut' = IF bDone THEN cut ELSE cut \cup {crt}
    /\ UNCHANGED <<todo, crt, attempt, position, bStarting, bDone, cryptor, salts,
                   body, meta, uploaded, lost>>

Created ==
    /\ bDone
    /\ PutReturns
    /\ object' = [object EXCEPT ![crt] = [body |-> body, md5 |-> meta, there |-> TRUE]]
    /\ pc' = "check"
    /\ UNCHANGED aborted

ServerError ==
    /\ Answered
    /\ PutReturns
    /\ pc' = "retry"
    /\ UNCHANGED <<object, aborted>>

\* Any other answer, or none.
Refused ==
    /\ Answered
    /\ PutReturns
    /\ pc' = "abort" /\ aborted' = TRUE
    /\ UNCHANGED object

rest == <<todo, srcHash, upV, object, uploaded, history>>

GiveUp ==
    /\ pc = "retry" /\ (aborted \/ attempt = 2)
    /\ pc' = "abort" /\ aborted' = TRUE
    /\ UNCHANGED rest

\* The hash of the encrypted bytes is at hand, that of a plain file is the
\* asset's.
TagMatches ==
    IF Crypted THEN object[crt].body = body ELSE object[crt].body.upto = srcHash[crt]

Checked ==
    /\ pc \in {"check", "checkAgain"}
    /\ TagMatches
    /\ pc' = "post"
    /\ UNCHANGED <<rest, aborted>>

CheckAgain ==
    /\ pc = "check" /\ (~ TagMatches \/ BadAnswer)
    /\ pc' = "checkAgain"
    /\ UNCHANGED <<rest, aborted>>

\* Mutant: the verification is repeated until it succeeds.
CheckForEver ==
    /\ pc = "checkAgain" /\ (~ TagMatches \/ BadAnswer)
    /\ pc' = "check"
    /\ UNCHANGED <<rest, aborted>>

CheckFails ==
    /\ pc = "checkAgain" /\ (~ TagMatches \/ BadAnswer)
    /\ pc' = "abort" /\ aborted' = TRUE
    /\ UNCHANGED rest

\* Mutant: the metadata of the PUT are sent again.
MetaBefore == meta

MetaNow == IF Crypted THEN srcHash[crt] ELSE None

\* The answer to the POST is not looked at.
Post ==
    /\ pc = "post" /\ pc' = "abort"
    /\ \/ /\ object' = [object EXCEPT ![crt].md5 = MetaNow]
          /\ lost' = lost
       \/ /\ BadAnswer
          /\ object' = object
          /\ lost' = lost \cup {crt}
    /\ uploaded' = uploaded \cup {crt}
    /\ UNCHANGED <<todo, srcHash, upV, aborted, cut>>

-----------------------------------------------------------------------------
\* The synchronizer's loop: on to the next file unless the program aborts.
ReadAbort ==
    /\ pc = "abort"
    /\ pc' = IF aborted \/ todo = {} THEN "end" ELSE "next"
    /\ UNCHANGED <<rest, aborted>>

AbortElsewhere ==
    /\ ~ aborted /\ aborted' = TRUE
    /\ UNCHANGED <<pc, rest>>

Ended == pc = "end" /\ UNCHANGED <<pc, rest, aborted>>

Thread ==
    \/ Upload \/ Retry \/ Rdd \/ Created \/ ServerError \/ Refused \/ GiveUp
    \/ Checked \/ CheckAgain \/ CheckFails \/ Post \/ ReadAbort

Next == (Thread \/ AbortElsewhere \/ Ended) /\ UNCHANGED option

Safety == Init /\ [][Next]_vars

(* The thread keeps running and every request comes to an end.             *)
Fairness == WF_vars(Thread /\ UNCHANGED option)

Spec == Safety /\ Fairness

-----------------------------------------------------------------------------
Hash == 0 .. Length
Salt == 1 .. 2 * Cardinality(File)
Body == [header : Salt \cup {None}, key : Salt \cup {None}, upto : Hash, final : BOOLEAN]

(* Types; a thread makes at most two attempts, and a context and a salt,   *)
(* for each file.                                                          *)
TypeOK ==
    /\ option \in Options
    /\ pc \in {"next", "put", "retry", "check", "checkAgain", "post", "abort", "end"}
    /\ todo \subseteq File /\ crt \in File /\ attempt \in 0 .. 2
    /\ srcHash \in [File -> Hash \cup {None}]
    /\ position \in Hash /\ bStarting \in BOOLEAN /\ bDone \in BOOLEAN
    /\ md5 \in Hash \cup {None}
    /\ context \in Salt \cup {None} /\ cryptor \in Salt \cup {None}
    /\ salts \in {0} \cup Salt
    /\ body \in Body /\ meta \in Hash \cup {None}
    /\ object \in [File -> [body : Body, md5 : Hash \cup {None}, there : BOOLEAN]]
    /\ aborted \in BOOLEAN
    /\ uploaded \subseteq File /\ cut \subseteq File /\ lost \subseteq File

\* An object from which the file can be had again: the whole file, and if it
\* is encrypted, after a header with the salt of the key it is encrypted with.
Whole(o)      == o.there /\ o.body.upto = Length
Decipherable(o) == o.body.header # None /\ o.body.header = o.body.key /\ o.body.final

(* When upload() says resOk the container holds the whole file, and what   *)
(* is encrypted can be decrypted, each object with a salt of its own       *)
(* (uploader.cpp:175-177, 228-242).  The exception is a file whose first   *)
(* PUT was refused half-way.                                               *)
Restorable ==
    /\ \A f \in uploaded : Whole(object[f])
    /\ Crypted => \A f \in uploaded \ cut : Decipherable(object[f])
    /\ Crypted => \A f, g \in uploaded \ cut :
                     object[f].body.key = object[g].body.key => f = g

(* The metadata of an encrypted object carry the hash of the whole file,   *)
(* computed before the upload or along with it, once the final POST has    *)
(* been answered: this is what the next run compares (uploader.cpp:127-135, *)
(* 198-205, 244-247).                                                      *)
MetadataTrue ==
    Crypted => \A f \in uploaded \ (cut \cup lost) : object[f].md5 = Length

(* Whatever became of an upload, the thread's handles are closed before it *)
(* turns to another file: no context, no open encryption, no half-fed hash *)
(* is carried over.  And the POST, which has no body of its own and makes  *)
(* curl ask rdd() again when the file is closed, finds rdd() at its end    *)
(* (uploader.cpp:56, 175, 196-213, 247, crypto.cpp:313).                   *)
NothingCarriedOver ==
    /\ pc = "next" => context = None /\ cryptor = None /\ md5 = None
    /\ pc \in {"check", "checkAgain", "post"} => bDone /\ context = None /\ md5 = None

(* The thread comes to the end of its files or of the program, whatever    *)
(* the server answers: it retries only once (main.cpp:585-593).            *)
Finishes == <>(pc = "end")

(* "create one context for each upload so the salt will be regenerated !"  *)
(* (uploader.cpp:176): every object that was uploaded can be decrypted.    *)
SaltRegenerated ==
    Crypted => \A f \in uploaded : Decipherable(object[f])
=============================================================================

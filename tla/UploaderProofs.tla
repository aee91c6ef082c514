---------------------------- MODULE UploaderProofs ----------------------------
(***************************************************************************)
(* Proofs about Uploader, for every finite set of files of any length,     *)
(* every choice of options, and a container that may refuse a PUT early    *)
(* and answer wrongly.  The argument follows a file's turn: what its PUT   *)
(* has sent and fed to the hash computer is what was read; unless a PUT    *)
(* was cut, the encryption that is open is the one of this attempt; and a  *)
(* salt is never drawn twice.                                              *)
(***************************************************************************)
EXTENDS Uploader, FiniteSetTheorems, TLAPS

PC == {"next", "put", "retry", "check", "checkAgain", "post", "abort", "end"}

\* The states in which the thread has a file in hand, in which it is stored.
InHand == {"put", "retry", "check", "checkAgain", "post"}
Stored == {"check", "checkAgain", "post"}

(* A file is in one place: to do, in hand, or behind (main.cpp:571-593).   *)
TurnInv ==
    /\ uploaded \cap todo = {} /\ cut \cap todo = {}
    /\ pc # "next" => crt \notin todo
    /\ pc \in InHand => crt \notin uploaded

(* Two salts for each file are enough, and a retry has its own left.       *)
SaltInv ==
    salts + 2 * Cardinality(todo) + (IF pc \in InHand /\ attempt = 1 THEN 1 ELSE 0)
        <= 2 * Cardinality(File)

(* The handles of a PUT: what was sent and hashed is what was read.        *)
ReadInv ==
    /\ pc # "put" => md5 = None /\ context = None
    /\ pc = "put" =>
          /\ body.upto = position
          /\ md5 \in {None, position}
          /\ srcHash[crt] = None => md5 # None
          /\ bDone => position = Length /\ ~ bStarting
          /\ context = IF Crypted THEN salts ELSE None
          /\ Crypted => salts >= 1
    /\ \A f \in File \ cut : srcHash[f] \in {None, Length}

(* The encryption: open only during a PUT, and afterwards only if the PUT  *)
(* was cut or the program aborts.                                          *)
CryptInv ==
    /\ ~ Crypted \/ pc \in {"next"} \cup Stored => cryptor = None
    /\ pc = "put" /\ bDone => cryptor = None
    /\ pc = "retry" /\ crt \notin cut => cryptor = None
    /\ pc = "abort" /\ ~ aborted => cryptor = None
    /\ Crypted /\ pc = "put" /\ crt \notin cut =>
          IF bStarting THEN cryptor = None
          ELSE /\ body.header = salts /\ body.key = salts /\ body.final = bDone
               /\ ~ bDone => cryptor = salts

(* The object of the file in hand, once it is stored.                      *)
StoredInv ==
    pc \in Stored =>
        /\ bDone /\ Whole(object[crt])
        /\ Crypted /\ crt \notin cut =>
              /\ Decipherable(object[crt]) /\ object[crt].body.key = salts
              /\ srcHash[crt] = Length

(* The objects of the files behind: a key is not that of a later salt.     *)
BehindInv ==
    /\ Restorable /\ MetadataTrue
    /\ Crypted => \A f \in uploaded \ cut :
          object[f].body.key <= salts /\ (pc \in InHand => object[f].body.key < salts)

IInv == TypeOK /\ TurnInv /\ SaltInv /\ ReadInv /\ CryptInv /\ StoredInv /\ BehindInv

\* The steps that only go on, or raise the flag.
Quiet == GiveUp \/ Checked \/ CheckAgain \/ CheckFails \/ ReadAbort \/ AbortElsewhere \/ Ended

-----------------------------------------------------------------------------
(* Numbers of files.                                                       *)
LEMMA Files ==
    ASSUME NEW S \in SUBSET File
    PROVE  /\ Cardinality(S) \in Nat /\ Cardinality(File) \in Nat
           /\ \A f \in S : Cardinality(S \ {f}) = Cardinality(S) - 1
<1>1. IsFiniteSet(S) /\ IsFiniteSet(File)
  BY UploaderAssumption, FS_Subset
<1>2. Cardinality(S) \in Nat /\ Cardinality(File) \in Nat
  BY <1>1, FS_CardinalityType
<1>3. \A f \in S : Cardinality(S \ {f}) = Cardinality(S) - 1
  BY <1>1, FS_RemoveElement
<1> QED
  BY <1>2, <1>3

(* A quiet step changes the place and perhaps the flag, and nothing else.  *)
LEMMA QuietStep ==
    ASSUME TypeOK, Quiet
    PROVE  /\ pc' \in PC /\ aborted' \in BOOLEAN /\ (aborted => aborted')
           /\ UNCHANGED rest
           /\ pc' = "put" <=> pc = "put"
           /\ pc' = "retry" => pc = "retry"
           /\ pc' \in Stored => pc \in Stored
           /\ pc' = "next" => pc = "next" \/ (pc = "abort" /\ ~ aborted)
           /\ pc' = "abort" => pc = "abort" \/ aborted'
           /\ pc' = "next" => pc = "next" \/ pc = "abort"
           /\ pc = "next" => pc' = "next"
<1>1. CASE AbortElsewhere \/ Ended
  BY <1>1 DEF AbortElsewhere, Ended, TypeOK, PC
<1>2. CASE GiveUp \/ Checked \/ CheckAgain \/ CheckFails \/ ReadAbort
  BY <1>2 DEF GiveUp, Checked, CheckAgain, CheckFails, ReadAbort, TypeOK, PC, Stored
<1> QED
  BY <1>1, <1>2 DEF Quiet

(* One buffer of the body: what is read is sent and hashed, and the last   *)
(* buffer ends both (uploader.cpp:54-125).                                 *)
LEMMA RddFacts ==
    ASSUME TypeOK, Rdd
    PROVE  /\ pc = "put" /\ ~ bDone /\ ~ bStarting' /\ bDone' \in BOOLEAN
           /\ position' \in Hash /\ (bDone' => position' = Length)
           /\ md5' = (IF md5 = None THEN None ELSE md5 + (position' - position))
           /\ cryptor' = (IF Crypted THEN Finalized(bDone') ELSE cryptor)
           /\ body' = [header |-> IF Crypted THEN Header ELSE None, key |-> EncryptedWith,
                       upto |-> position', final |-> Crypted /\ bDone']
           /\ UNCHANGED <<pc, todo, crt, attempt, srcHash, context, salts, meta, object,
                          aborted, uploaded, cut, lost>>
<1> DEFINE read == IF position < Length THEN 1 ELSE 0
<1>0. Length \in Nat /\ position \in 0 .. Length /\ read \in {0, 1} /\ position + read \in 0 .. Length
  BY UploaderAssumption DEF TypeOK, Hash
<1>1. PICK last \in (IF position + read < Length THEN {FALSE}
                     ELSE IF read = 0 THEN {TRUE} ELSE BOOLEAN) :
         /\ position' = position + read
         /\ bDone' = last
         /\ md5' = Md5Feed(read)
         /\ cryptor' = IF Crypted THEN Finalized(last) ELSE cryptor
         /\ body' = [header |-> IF Crypted THEN Header ELSE None, key |-> EncryptedWith,
                     upto |-> position + read, final |-> Crypted /\ last]
  BY DEF Rdd
<1> HIDE DEF read
<1>2. last \in BOOLEAN /\ (last => position + read = Length)
  <2>1. CASE position + read < Length
    BY <1>1, <2>1
  <2>2. CASE ~ (position + read < Length)
    <3>1. position + read = Length
      BY <1>0, <2>2
    <3> QED
      BY <1>1, <2>2, <3>1
  <2> QED
    BY <2>1, <2>2
<1>3. read = position' - position /\ position' \in Hash
  BY <1>0, <1>1 DEF Hash
<1>4. md5' = IF md5 = None THEN None ELSE md5 + (position' - position)
  BY <1>1, <1>3 DEF Md5Feed
<1>5. /\ pc = "put" /\ ~ bDone /\ ~ bStarting'
      /\ UNCHANGED <<pc, todo, crt, attempt, srcHash, context, salts, meta, object,
                     aborted, uploaded, cut, lost>>
  BY DEF Rdd, history
<1> QED
  BY <1>1, <1>2, <1>3, <1>4, <1>5

(* The steps, in the groups the proofs below go through.                   *)
LEMMA Steps ==
    ASSUME [Next]_vars
    PROVE  /\ option' = option
           /\ \/ Upload \/ Retry \/ Rdd \/ Created \/ ServerError \/ Refused
              \/ Post \/ Quiet \/ UNCHANGED vars
BY DEF Next, Thread, Quiet, vars

-----------------------------------------------------------------------------
LEMMA StartsWell == Init => IInv
<1> SUFFICES ASSUME Init PROVE IInv
  OBVIOUS
<1> USE DEF Init, None, InHand, Stored
<1>1. TypeOK
  <2>1. Length \in Nat /\ 0 \in Hash /\ Length \in Hash
    BY UploaderAssumption DEF Hash
  <2>2. NoBody \in Body
    BY <2>1 DEF NoBody, Body
  <2>3. NoObject \in [body : Body, md5 : Hash \cup {None}, there : BOOLEAN]
    BY <2>2 DEF NoObject
  <2>4. object \in [File -> [body : Body, md5 : Hash \cup {None}, there : BOOLEAN]]
    BY <2>3
  <2>5. srcHash \in [File -> Hash \cup {None}]
    BY <2>1
  <2>6. option \in Options /\ pc \in PC /\ todo \subseteq File /\ crt \in File
    BY DEF PC
  <2>7. attempt \in 0 .. 2
    OBVIOUS
  <2>8. position \in Hash /\ bStarting \in BOOLEAN /\ bDone \in BOOLEAN
    BY <2>1
  <2>9. body \in Body /\ md5 \in Hash \cup {None} /\ meta \in Hash \cup {None}
    BY <2>2
  <2>10. context \in Salt \cup {None} /\ cryptor \in Salt \cup {None}
    OBVIOUS
  <2>11. salts \in {0} \cup Salt
    OBVIOUS
  <2>12. aborted \in BOOLEAN
         /\ uploaded \subseteq File /\ cut \subseteq File /\ lost \subseteq File
    OBVIOUS
  <2> QED
    BY <2>4, <2>5, <2>6, <2>7, <2>8, <2>9, <2>10, <2>11, <2>12, Zenon DEF TypeOK, PC
<1>2. TurnInv /\ CryptInv /\ StoredInv
  BY DEF TurnInv, CryptInv, StoredInv
<1>3. SaltInv
  <2>1. Cardinality(File) \in Nat
    BY UploaderAssumption, FS_CardinalityType
  <2> QED
    BY <2>1 DEF SaltInv
<1>4. ReadInv
  BY DEF ReadInv
<1>5. BehindInv
  BY DEF BehindInv, Restorable, MetadataTrue
<1> QED
  BY <1>1, <1>2, <1>3, <1>4, <1>5 DEF IInv

(* Whose turn it is.                                                       *)
LEMMA TurnStep ==
    ASSUME TypeOK, TurnInv, [Next]_vars
    PROVE  TurnInv'
<1> USE DEF TypeOK, TurnInv, InHand
<1>1. CASE Upload
  BY <1>1 DEF Upload, Begin, history
<1>2. CASE Retry
  BY <1>2 DEF Retry, Begin, history
<1>3. CASE Rdd
  BY <1>3 DEF Rdd, history
<1>4. CASE Created \/ ServerError \/ Refused
  BY <1>4 DEF Created, ServerError, Refused, PutReturns
<1>5. CASE Post
  BY <1>5 DEF Post, upV
<1>6. CASE Quiet
  BY <1>6, QuietStep DEF rest, upV, history, Stored, PC
<1>7. CASE UNCHANGED vars
  BY <1>7 DEF vars, upV, history
<1> QED
  BY <1>1, <1>2, <1>3, <1>4, <1>5, <1>6, <1>7, Steps

(* Salts: a file's first attempt pays for both.                            *)
LEMMA SaltStep ==
    ASSUME TypeOK, SaltInv, [Next]_vars
    PROVE  SaltInv' /\ salts' \in {0} \cup Salt
<1> USE DEF TypeOK, SaltInv, InHand
<1>0. /\ Cardinality(todo) \in Nat /\ Cardinality(File) \in Nat /\ salts \in Nat
      /\ \A f \in todo : Cardinality(todo \ {f}) = Cardinality(todo) - 1
  BY Files DEF Salt
<1> SUFFICES SaltInv' /\ salts' \in Nat
  <2>1. Cardinality(todo') \in Nat
    <3>1. todo' \in SUBSET todo
      BY Steps DEF Upload, Retry, Rdd, Created, ServerError, Refused, PutReturns, Post,
                   Quiet, GiveUp, Checked, CheckAgain, CheckFails, ReadAbort, AbortElsewhere,
                   Ended, rest, vars
    <3> QED
      BY <3>1, Files
  <2> QED
    BY <2>1, <1>0 DEF Salt
<1>1. CASE Upload
  <2>1. PICK f \in todo : Begin(f, 1) /\ todo' = todo \ {f}
    BY <1>1 DEF Upload
  <2>2. pc = "next" /\ pc' = "put" /\ attempt' = 1 /\ salts' \in {salts, salts + 1}
    BY <1>1, <2>1 DEF Upload, Begin
  <2>3. Cardinality(todo') = Cardinality(todo) - 1
    BY <2>1, <1>0
  <2> QED
    BY <1>0, <2>2, <2>3
<1>2. CASE Retry
  <2>1. /\ pc = "retry" /\ pc' = "put" /\ attempt = 1 /\ attempt' = 2 /\ todo' = todo
        /\ salts' \in {salts, salts + 1}
    BY <1>2 DEF Retry, Begin
  <2> QED
    BY <1>0, <2>1
<1>3. CASE Rdd
  BY <1>0, <1>3 DEF Rdd
<1>4. CASE Created \/ ServerError \/ Refused
  BY <1>0, <1>4 DEF Created, ServerError, Refused, PutReturns
<1>5. CASE Post
  BY <1>0, <1>5 DEF Post, upV
<1>6. CASE Quiet
  <2>1. UNCHANGED <<todo, attempt, salts>> /\ (pc' \in InHand => pc \in InHand)
    BY <1>6, QuietStep DEF rest, upV, Stored, PC
  <2> QED
    BY <2>1, <1>0
<1>7. CASE UNCHANGED vars
  BY <1>0, <1>7 DEF vars, upV
<1> QED
  BY <1>1, <1>2, <1>3, <1>4, <1>5, <1>6, <1>7, Steps

(* The handles of a PUT.                                                   *)
LEMMA ReadStep ==
    ASSUME TypeOK, ReadInv, TurnInv, [Next]_vars
    PROVE  ReadInv'
<1> USE DEF TypeOK, ReadInv, None
<1>0. option' = option /\ Length \in Nat /\ salts \in Nat
  BY Steps, UploaderAssumption DEF Salt
<1>1. CASE Upload \/ Retry
  <2>1. PICK f \in File, n \in 1 .. 2 : Begin(f, n)
    BY <1>1 DEF Upload, Retry
  <2>2. pc # "put"
    BY <1>1 DEF Upload, Retry
  <2> QED
    BY <1>0, <2>1, <2>2 DEF Begin, history, NewContext, Crypted, NoBody, Md5Init
<1>2. CASE Rdd
  BY <1>0, <1>2, RddFacts DEF Hash, Crypted
<1>3. CASE Created \/ ServerError \/ Refused
  <2>1. /\ PutReturns /\ pc = "put" /\ pc' # "put"
    BY <1>3 DEF Created, ServerError, Refused, PutReturns
  <2>2. \A f \in File \ cut' : srcHash'[f] \in {None, Length}
    BY <2>1 DEF PutReturns, Md5Done
  <2> QED
    BY <2>1, <2>2 DEF PutReturns
<1>4. CASE Post
  BY <1>4 DEF Post, upV
<1>5. CASE Quiet
  <2>1. UNCHANGED rest /\ (pc' = "put" <=> pc = "put")
    BY <1>5, QuietStep
  <2> QED
    BY <1>0, <2>1 DEF rest, upV, history, Crypted
<1>6. CASE UNCHANGED vars
  BY <1>6 DEF vars, upV, history, Crypted
<1> QED
  BY <1>1, <1>2, <1>3, <1>4, <1>5, <1>6, Steps

(* The encryption.                                                         *)
LEMMA CryptStep ==
    ASSUME TypeOK, ReadInv, CryptInv, StoredInv, [Next]_vars
    PROVE  CryptInv'
<1> USE DEF TypeOK, CryptInv, None, Stored
<1>0. Crypted' = Crypted /\ salts \in Nat
  BY Steps DEF Crypted, Salt
<1>1. CASE Upload \/ Retry
  <2>1. PICK f \in File, n \in 1 .. 2 : Begin(f, n)
    BY <1>1 DEF Upload, Retry
  <2>2. /\ pc' = "put" /\ bStarting' /\ ~ bDone' /\ UNCHANGED <<cryptor, cut>>
        /\ pc \in {"next", "retry"} /\ (pc = "retry" => crt' = crt)
    BY <1>1, <2>1 DEF Upload, Retry, Begin, history
  <2> QED
    BY <1>0, <2>2
<1>2. CASE Rdd
  <2>1. /\ pc = "put" /\ pc' = "put" /\ ~ bStarting' /\ ~ bDone /\ crt' = crt
        /\ UNCHANGED <<salts, cut>> /\ bDone' \in BOOLEAN
        /\ cryptor' = IF Crypted THEN Finalized(bDone') ELSE cryptor
        /\ body'.header = IF Crypted THEN Header ELSE None
        /\ body'.key = EncryptedWith
        /\ body'.final = (Crypted /\ bDone')
    BY <1>2, RddFacts
  <2>2. Crypted => salts >= 1 /\ context = salts
    BY <2>1 DEF ReadInv
  <2> QED
    BY <1>0, <2>1, <2>2 DEF Finalized, Header, EncryptedWith, EncryptStart
<1>3. CASE Created \/ ServerError \/ Refused
  BY <1>0, <1>3 DEF Created, ServerError, Refused, PutReturns
<1>4. CASE Post
  BY <1>0, <1>4 DEF Post, upV
<1>5. CASE Quiet
  BY <1>0, <1>5, QuietStep DEF rest, upV, history
<1>6. CASE UNCHANGED vars
  BY <1>0, <1>6 DEF vars, upV, history
<1> QED
  BY <1>1, <1>2, <1>3, <1>4, <1>5, <1>6, Steps

(* What a PUT that was read to its end has stored.                         *)
LEMMA StoredStep ==
    ASSUME TypeOK, ReadInv, CryptInv, StoredInv, [Next]_vars
    PROVE  StoredInv'
<1> USE DEF TypeOK, StoredInv, Stored, Whole, Decipherable, None
<1>0. Crypted' = Crypted
  BY Steps DEF Crypted
<1>1. CASE Upload \/ Retry \/ Rdd \/ ServerError \/ Refused \/ Post
  BY <1>1 DEF Upload, Retry, Begin, Rdd, ServerError, Refused, Post
<1>2. CASE Created
  <2>1. /\ bDone /\ pc = "put" /\ UNCHANGED <<crt, bDone, salts, cut>>
        /\ object'[crt] = [body |-> body, md5 |-> meta, there |-> TRUE]
        /\ srcHash' = Md5Done
    BY <1>2 DEF Created, PutReturns
  <2>2. /\ body.upto = Length
        /\ Crypted /\ crt \notin cut =>
              /\ body.header = salts /\ body.key = salts /\ body.final /\ salts >= 1
              /\ srcHash'[crt] = Length
    <3>1. body.upto = Length /\ md5 \in {None, Length} /\ (srcHash[crt] = None => md5 # None)
          /\ ~ bStarting /\ (Crypted => salts >= 1) /\ (crt \notin cut => srcHash[crt] \in {None, Length})
      BY <2>1 DEF ReadInv
    <3>2. crt \notin cut => srcHash'[crt] = Length
      BY <2>1, <3>1 DEF Md5Done
    <3> QED
      BY <2>1, <3>1, <3>2 DEF CryptInv
  <2> QED
    BY <1>0, <2>1, <2>2 DEF Salt
<1>3. CASE Quiet
  BY <1>0, <1>3, QuietStep DEF rest, upV, history
<1>4. CASE UNCHANGED vars
  BY <1>0, <1>4 DEF vars, upV, history
<1> QED
  BY <1>1, <1>2, <1>3, <1>4, Steps

(* What has been uploaded stays as it is, and later salts are others.      *)
LEMMA BehindStep ==
    ASSUME TypeOK, TurnInv, StoredInv, BehindInv, [Next]_vars
    PROVE  BehindInv'
<1> USE DEF TypeOK, BehindInv, Restorable, MetadataTrue, Whole, Decipherable, InHand, None
<1>0. Crypted' = Crypted /\ salts \in Nat
  BY Steps DEF Crypted, Salt
<1>00. \A f \in File : object[f].body.key \in Int
  BY DEF Body, Salt
<1>1. CASE Upload \/ Retry
  <2>1. PICK f \in File, n \in 1 .. 2 : Begin(f, n)
    BY <1>1 DEF Upload, Retry
  <2>2. /\ UNCHANGED <<uploaded, cut, lost, object>> /\ (Crypted => salts' = salts + 1)
        /\ pc' = "put"
    BY <2>1 DEF Begin, history
  <2> QED
    BY <1>0, <1>00, <2>2
<1>2. CASE Rdd
  BY <1>0, <1>2 DEF Rdd, history
<1>3. CASE Created \/ ServerError \/ Refused
  <2>1. /\ crt \notin uploaded /\ UNCHANGED <<uploaded, lost, salts>> /\ cut \subseteq cut'
        /\ pc = "put"
    BY <1>3 DEF Created, ServerError, Refused, PutReturns, TurnInv
  <2>2. \A f \in uploaded : object'[f] = object[f]
    BY <1>3, <2>1 DEF Created, ServerError, Refused
  <2> QED
    BY <1>0, <1>00, <2>1, <2>2
<1>4. CASE Post
  <2>1. /\ crt \notin uploaded /\ uploaded' = uploaded \cup {crt} /\ UNCHANGED <<salts, cut>>
        /\ pc' = "abort"
        /\ lost' = lost \/ lost' = lost \cup {crt}
    BY <1>4 DEF Post, upV, TurnInv
  <2>2. /\ \A f \in uploaded : object'[f] = object[f]
        /\ object'[crt].body = object[crt].body /\ object'[crt].there = object[crt].there
        /\ Crypted /\ crt \notin cut => object'[crt].md5 = Length \/ crt \in lost'
    BY <1>4, <2>1 DEF Post, StoredInv, Stored, MetaNow
  <2>3. /\ Whole(object[crt])
        /\ Crypted /\ crt \notin cut => Decipherable(object[crt]) /\ object[crt].body.key = salts
        /\ Crypted => \A f \in uploaded \ cut : object[f].body.key < salts
    BY <1>4 DEF Post, StoredInv, Stored
  <2>4. \A f \in uploaded : object'[f].body.key = object[f].body.key
    BY <2>2
  <2>5. Crypted /\ crt \notin cut => object'[crt].body.key = salts
    BY <2>2, <2>3
  <2>6. Restorable'
    <3>1. \A f \in uploaded' : Whole(object'[f])
      BY <2>1, <2>2, <2>3
    <3>2. Crypted => \A f \in uploaded' \ cut : Decipherable(object'[f])
      BY <2>1, <2>2, <2>3
    <3>3. Crypted => \A f, g \in uploaded' \ cut :
                        object'[f].body.key = object'[g].body.key => f = g
      BY <1>0, <1>00, <2>1, <2>3, <2>4, <2>5
    <3> QED
      BY <1>0, <2>1, <3>1, <3>2, <3>3
  <2>7. MetadataTrue'
    BY <1>0, <2>1, <2>2
  <2>8. Crypted => \A f \in uploaded' \ cut : object'[f].body.key <= salts
    BY <1>0, <1>00, <2>1, <2>3, <2>4, <2>5
  <2> QED
    BY <1>0, <2>1, <2>6, <2>7, <2>8
<1>5. CASE Quiet
  BY <1>0, <1>00, <1>5, QuietStep DEF rest, upV, history, Stored, PC
<1>6. CASE UNCHANGED vars
  BY <1>0, <1>6 DEF vars, upV, history
<1> QED
  BY <1>1, <1>2, <1>3, <1>4, <1>5, <1>6, Steps

(* Types.                                                                  *)
LEMMA TypeStep ==
    ASSUME TypeOK, SaltInv, ReadInv, [Next]_vars
    PROVE  TypeOK'
<1> USE DEF TypeOK, PC, None
<1>0. /\ option' = option /\ Length \in Nat /\ salts' \in {0} \cup Salt
      /\ 0 \in Hash /\ Length \in Hash /\ Hash \subseteq Nat
  BY Steps, SaltStep, UploaderAssumption DEF Hash
<1>1. CASE Upload \/ Retry
  <2>1. PICK f \in File, n \in 1 .. 2 : Begin(f, n)
    BY <1>1 DEF Upload, Retry
  <2>2. todo' \subseteq File
    BY <1>1 DEF Upload, Retry
  <2>3. NoBody \in Body
    BY <1>0 DEF NoBody, Body
  <2>4. context' \in Salt \cup {None}
    <3>1. salts \in Nat
      BY DEF Salt
    <3> QED
      BY <1>0, <2>1, <3>1 DEF Begin, NewContext, Salt
  <2>5. md5' \in Hash \cup {None} /\ meta' \in Hash \cup {None}
    BY <1>0, <2>1 DEF Begin, Md5Init
  <2>6. /\ pc' = "put" /\ crt' = f /\ attempt' = n /\ position' = 0
        /\ bStarting' = TRUE /\ bDone' = FALSE /\ body' = NoBody
        /\ UNCHANGED <<srcHash, cryptor, object, aborted, uploaded, cut, lost>>
    BY <2>1 DEF Begin, history
  <2>7. /\ option' \in Options /\ pc' \in PC /\ crt' \in File
        /\ position' \in Hash /\ bStarting' \in BOOLEAN /\ bDone' \in BOOLEAN
    BY <1>0, <2>6, Zenon
  <2>10. attempt' \in 0 .. 2
    <3>1. n \in 0 .. 2
      OBVIOUS
    <3> QED
      BY <2>6, <3>1
  <2>8. /\ srcHash' \in [File -> Hash \cup {None}] /\ cryptor' \in Salt \cup {None}
        /\ object' \in [File -> [body : Body, md5 : Hash \cup {None}, there : BOOLEAN]]
    BY <2>6
  <2>9. /\ body' \in Body /\ aborted' \in BOOLEAN
        /\ uploaded' \subseteq File /\ cut' \subseteq File /\ lost' \subseteq File
    BY <2>3, <2>6
  <2> QED
    BY <1>0, <2>2, <2>4, <2>5, <2>7, <2>8, <2>9, <2>10, Zenon
<1>2. CASE Rdd
  <2>1. md5' \in Hash \cup {None}
    BY <1>2, RddFacts DEF ReadInv, Hash
  <2>2. /\ EncryptStart \in Salt \cup {None} /\ Header \in Salt \cup {None}
        /\ EncryptedWith \in Salt \cup {None}
    BY DEF EncryptStart, Header, EncryptedWith, Body
  <2>3. cryptor' \in Salt \cup {None}
    BY <1>2, <2>2, RddFacts DEF Finalized
  <2>4. body' \in Body
    <3>1. position' \in Hash /\ bDone' \in BOOLEAN
      BY <1>2, RddFacts
    <3>2. (Crypted /\ bDone') \in BOOLEAN
      OBVIOUS
    <3>3. [header |-> IF Crypted THEN Header ELSE None, key |-> EncryptedWith,
           upto |-> position', final |-> Crypted /\ bDone'] \in Body
      BY <2>2, <3>1, <3>2 DEF Body
    <3> QED
      BY <1>2, <3>3, RddFacts
  <2> QED
    <3>1. /\ ~ bStarting' /\ bDone' \in BOOLEAN /\ position' \in Hash
          /\ UNCHANGED <<pc, todo, crt, attempt, srcHash, context, salts, meta, object,
                         aborted, uploaded, cut, lost>>
      BY <1>2, RddFacts
    <3>2. bStarting' \in BOOLEAN
      BY <1>2 DEF Rdd
    <3> QED
      BY <1>0, <2>1, <2>3, <2>4, <3>1, <3>2
<1>3. CASE Created \/ ServerError \/ Refused
  <2>1. /\ PutReturns /\ pc' \in PC /\ aborted' \in BOOLEAN
        /\ \/ object' = object
           \/ object' = [object EXCEPT ![crt] = [body |-> body, md5 |-> meta, there |-> TRUE]]
    BY <1>3 DEF Created, ServerError, Refused
  <2>2. srcHash' \in [File -> Hash \cup {None}] /\ cut' \subseteq File
    BY <2>1 DEF PutReturns, Md5Done
  <2>3. object' \in [File -> [body : Body, md5 : Hash \cup {None}, there : BOOLEAN]]
    <3>1. [body |-> body, md5 |-> meta, there |-> TRUE]
             \in [body : Body, md5 : Hash \cup {None}, there : BOOLEAN]
      OBVIOUS
    <3> QED
      BY <2>1, <3>1
  <2> QED
    BY <1>0, <2>1, <2>2, <2>3 DEF PutReturns
<1>4. CASE Post
  <2>1. MetaNow \in Hash \cup {None}
    BY DEF MetaNow
  <2>2. object' \in [File -> [body : Body, md5 : Hash \cup {None}, there : BOOLEAN]]
    BY <1>4, <2>1 DEF Post
  <2> QED
    BY <1>0, <1>4, <2>2 DEF Post, upV
<1>5. CASE Quiet
  BY <1>0, <1>5, QuietStep DEF rest, upV, history
<1>6. CASE UNCHANGED vars
  BY <1>0, <1>6 DEF vars, upV, history
<1> QED
  BY <1>1, <1>2, <1>3, <1>4, <1>5, <1>6, Steps

-----------------------------------------------------------------------------
LEMMA Invariant == Safety => []IInv
<1>1. IInv /\ [Next]_vars => IInv'
  BY TypeStep, TurnStep, SaltStep, ReadStep, CryptStep, StoredStep, BehindStep DEF IInv
<1> QED
  BY <1>1, StartsWell, PTL DEF Safety

(* Types; two salts for each file are always enough.                       *)
THEOREM TypeCorrect == Spec => []TypeOK
<1>1. IInv => TypeOK
  BY DEF IInv
<1> QED
  BY <1>1, Invariant, PTL DEF Spec

(* What upload() calls good is the whole file, and unless a PUT was cut it *)
(* can be decrypted and no other file has its key, for every number and    *)
(* length of files.                                                        *)
THEOREM UploadsRestorable == Spec => []Restorable
<1>1. IInv => Restorable
  BY DEF IInv, BehindInv
<1> QED
  BY <1>1, Invariant, PTL DEF Spec

(* The stored hash of an encrypted object is that of the whole file.       *)
THEOREM MetadataCorrect == Spec => []MetadataTrue
<1>1. IInv => MetadataTrue
  BY DEF IInv, BehindInv
<1> QED
  BY <1>1, Invariant, PTL DEF Spec

(* The handles are closed before the thread turns to another file.         *)
THEOREM HandlesClosed == Spec => []NothingCarriedOver
<1>1. IInv => NothingCarriedOver
  BY DEF IInv, ReadInv, CryptInv, StoredInv, Stored, NothingCarriedOver
<1> QED
  BY <1>1, Invariant, PTL DEF Spec
===============================================================================

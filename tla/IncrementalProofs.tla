--------------------------- MODULE IncrementalProofs ---------------------------
(***************************************************************************)
(* Proofs about Incremental, for every set of contents of every length,    *)
(* every buffer and counter, any number of runs, writes, seconds and keys. *)
(* The argument has four parts.  Clocks: an object's time is not later     *)
(* than the file's, nor that than the present.  This run: while the user   *)
(* leaves the file alone, what the run has measured, hashed and sent is    *)
(* the file.  The object: what its time, its digest and a sound upload     *)
(* each promise of its body.  And these carry over the end of a run,       *)
(* since Stop touches neither the object nor the file.                     *)
(***************************************************************************)
EXTENDS Incremental, TLAPS

\* The states in which the run has found the file, measured it, sent it.
Early     == {"idle", "list", "walk"}
Measured  == {"hash", "head", "skip", "upload", "put", "check", "recheck", "post", "done"}
Sent      == {"check", "recheck"}
Verified  == {"post", "done"}

(* Times only grow, and an asset has one of the file's times.              *)
ClockInv ==
    /\ disk.time <= clock
    /\ asset.time <= disk.time
    /\ pc \notin Early => asset.time >= 1
    /\ object # NoObject => object.time <= disk.time

Shorter(c) == {d \in Content : Length[d] < Length[c]}

(* What this run knows of a file it is alone with.                         *)
AloneInv ==
    /\ pc \in Early => asset = NoAsset
    /\ pc = "size" => asset.md5 = Zero
    /\ pc \notin Early /\ ~ raced =>
          /\ asset.time = disk.time
          /\ pc \in Measured => asset.len = Length[disk.content]
          /\ asset.md5 \in {disk.content, Partial, Zero} \cup Shorter(disk.content)
          /\ pc = "hash" => loop.seen = disk.content /\ loop.at + loop.left = Length[disk.content]
          /\ pc \notin {"size", "hash"} /\ option.forceMd5 /\ loop.left = 0 =>
                asset.md5 = disk.content
          /\ pc = "put" => sent = disk.content
          /\ pc \in Sent => sent \in {disk.content, Headless}
          /\ pc \in Verified => object.body \in {disk.content, Headless}
    /\ pc \notin Early \cup {"size", "hash"} /\ option.forceMd5 => asset.md5 # Zero

(* What the hash loop has read and what it has left to read make the file. *)
LoopInv ==
    pc = "hash" /\ ~ resized => loop.at + loop.left = Length[disk.content]

(* What is sent is hashed on the way, unless a hash was at hand; it is the *)
(* file's content if the file's time is still that of the asset, or the    *)
(* end of an encryption that a first attempt left open.                    *)
SentInv ==
    /\ cryptor \/ sent = Headless => retried /\ crypted
    /\ pc \in Early => ~ cryptor /\ sent = Zero
    /\ pc \in {"put"} \cup Sent /\ asset.time = disk.time /\ ~ blurred =>
          sent \in {disk.content, Headless}
    /\ pc = "put" => sent \in Content
    /\ pc = "hash" => option.forceMd5
    /\ pc \notin Early \cup Sent \cup Verified /\ ~ option.forceMd5 /\ ~ retried => asset.md5 = Zero
    /\ pc \in Sent =>
          /\ object.body \in {Spoiled, sent}
          /\ ~ option.forceMd5 /\ ~ retried => asset.md5 = sent
    /\ pc \in Verified /\ object.body = Headless => retried /\ crypted
    /\ pc \in Sent \cup Verified =>
          /\ object # NoObject /\ object.time = asset.time
          /\ object.len = asset.len /\ object.key = option.key
    /\ pc \in Sent \cup {"post"} => ~ sound /\ asset.md5 # Zero
    /\ pc \in Sent \cup {"post"} /\ crypted => object.md5 \in {Zero, asset.md5}
    /\ pc \in Sent => suspect
    /\ pc = "post" /\ ~ suspect /\ crypted /\ asset.md5 \in Content /\ asset.len = Length[asset.md5]
          => object.body \in {asset.md5, Headless}

(* What the object's metadata promise of its body.                         *)
ObjectInv ==
    object # NoObject =>
        /\ object.key = NoKey => object.md5 = object.body
        /\ object.body = Headless => object.key # NoKey
        /\ ~ suspect /\ object.md5 \in Content /\ object.len = Length[object.md5] =>
              object.body \in {object.md5, Headless}
        /\ ~ suspect /\ ~ blurred /\ object.time = disk.time =>
              object.body \in {disk.content, Headless}
        /\ sound => /\ object.body \in Content /\ object.md5 = object.body
                    /\ object.len = Length[object.body]

(* The reason for an upload under way, over a sound copy.                  *)
ReasonInv ==
    pc \in {"upload", "put"} /\ sound /\ listed /\ ~ raced /\ HashWhole =>
        \/ ~ SameKey
        \/ object.body # disk.content \/ object.time # disk.time

IInv ==
    /\ TypeOK /\ ClockInv /\ AloneInv /\ LoopInv /\ SentInv /\ ObjectInv /\ ReasonInv
    /\ SkipsOnlyGoodCopies

-----------------------------------------------------------------------------
(* Facts about the constants; that there is a content follows from Init.   *)
LEMMA Constants ==
    /\ {Buffer, MaxRuns, MaxWrites, MaxClock, Width} \subseteq Nat \ {0}
    /\ \A c \in Content : Length[c] \in Nat /\ Length[c] <= 2 ^ Width - 1
    /\ 2 ^ Width \in Int
    /\ Content # {} => 2 ^ Width >= 1
    /\ Content \cap {Torn, Spoiled, Headless, Partial, Zero} = {}
    /\ Zero \notin {Torn, Spoiled, Headless, Partial} /\ Torn # Spoiled
    /\ Headless \notin {Torn, Spoiled, Partial} /\ Partial \notin {Torn, Spoiled}
<1>1. {Buffer, MaxRuns, MaxWrites, MaxClock, Width} \subseteq Nat \ {0}
  BY IncrementalAssumption
<1>2. 2 ^ Width \in Int
  BY <1>1
<1>3. \A c \in Content : Length[c] \in Nat /\ Length[c] <= 2 ^ Width - 1
  BY <1>2, IncrementalAssumption
<1> QED
  BY <1>1, <1>2, <1>3, NamesAssumption DEF Zero, Torn, Spoiled, Headless, Partial

(* The steps.                                                              *)
LEMMA Steps ==
    ASSUME [Next]_vars
    PROVE  \/ \E c \in Content : Write(c)
           \/ Remove \/ Tick
           \/ \E o \in [forceMd5 : BOOLEAN, key : Key] : Start(o)
           \/ List \/ Found \/ Size \/ Read \/ Hashed \/ UpToDate \/ Outdated
           \/ Open \/ PutAgain \/ Checked \/ CheckAgain
           \/ \E read, stored \in Body : Put(read, stored)
           \/ \E arrives \in BOOLEAN : Post(arrives)
           \/ Stop \/ UNCHANGED vars
BY DEF Next, Run, User

(* One fread(): never more than the buffer, and nothing past the end; of a  *)
(* file that stays as it is, never more than is left.                      *)
LEMMA ReadedFacts ==
    ASSUME TypeOK
    PROVE  /\ Readed \in 0 .. Buffer
           /\ Left \in 0 .. 2 ^ Width - 1
           /\ loop.at + loop.left = Length[disk.content] => Left = loop.left - Readed
<1>1. /\ Length[disk.content] \in Nat /\ loop.at \in Nat /\ Buffer \in Nat \ {0}
      /\ 2 ^ Width \in Int /\ 2 ^ Width >= 1 /\ loop.left \in 0 .. 2 ^ Width - 1
  BY Constants DEF TypeOK
<1>2. /\ Readed \in 0 .. Buffer
      /\ loop.at + loop.left = Length[disk.content] => Readed <= loop.left
  BY <1>1 DEF Readed
<1> DEFINE m == 2 ^ Width
           n == loop.left - Readed
<1>3. /\ m \in Nat \ {0} /\ n \in Int
      /\ loop.at + loop.left = Length[disk.content] => n \in 0 .. m - 1
  BY <1>1, <1>2
<1>4. Left = n % m
  BY DEF Left
<1> HIDE DEF m, n
<1>5. n % m \in 0 .. m - 1 /\ (n \in 0 .. m - 1 => n % m = n)
  BY <1>3
<1> QED
  BY <1>2, <1>3, <1>4, <1>5 DEF m, n

-----------------------------------------------------------------------------
LEMMA StartsWell == Init => IInv
<1> SUFFICES ASSUME Init PROVE IInv
  OBVIOUS
<1> USE DEF Init
<1>1. TypeOK
  <2>1. /\ 1 \in 1 .. MaxClock /\ 0 \in 0 .. MaxClock
        /\ 0 \in 0 .. MaxRuns /\ 0 \in 0 .. MaxWrites
    BY Constants
  <2>2. Content # {} /\ disk \in [there : BOOLEAN, content : Content, time : 1 .. MaxClock]
    BY <2>1
  <2>3. 0 \in 0 .. 2 ^ Width - 1
    BY <2>2, Constants
  <2>4. /\ loop \in [left : 0 .. 2 ^ Width - 1, at : Nat, seen : Content \cup {Torn, Zero}]
        /\ asset \in [time : 0 .. MaxClock, len : Nat, md5 : Digest]
        /\ option \in [forceMd5 : BOOLEAN, key : Key]
    BY <2>1, <2>3 DEF NoLoop, NoAsset, Digest, Key
  <2> QED
    BY <2>1, <2>2, <2>4 DEF TypeOK
<1>2. ClockInv /\ AloneInv /\ SentInv /\ ObjectInv /\ ReasonInv /\ SkipsOnlyGoodCopies
  BY Constants DEF ClockInv, AloneInv, SentInv, ObjectInv, ReasonInv, SkipsOnlyGoodCopies,
         Early, Measured, Sent, Verified, NoAsset
<1>3. LoopInv
  BY DEF LoopInv
<1> QED
  BY <1>1, <1>2, <1>3 DEF IInv

(* Types.                                                                  *)
LEMMA TypeStep ==
    ASSUME TypeOK, SentInv, ClockInv, [Next]_vars
    PROVE  TypeOK'
<1> USE DEF TypeOK, transfer
<1>1. ASSUME NEW c \in Content, Write(c)
      PROVE  TypeOK'
  BY <1>1, Constants DEF Write, Touched, program
<1>0. MaxRuns \in Nat /\ MaxWrites \in Nat /\ MaxClock \in Nat
  BY Constants
<1>2. CASE Remove \/ Tick
  <2>1. CASE Remove
    <3>1. disk' \in [there : BOOLEAN, content : Content, time : 1 .. MaxClock]
      BY <2>1 DEF Remove
    <3>2. writes' \in 0 .. MaxWrites /\ raced' \in BOOLEAN
      BY <1>0, <2>1 DEF Remove, Touched
    <3> QED
      BY <2>1, <3>1, <3>2 DEF Remove, program
  <2>2. CASE Tick
    BY <1>0, <2>2 DEF Tick, program, history
  <2> QED
    BY <1>2, <2>1, <2>2
<1>3. ASSUME NEW o \in [forceMd5 : BOOLEAN, key : Key], Start(o)
      PROVE  TypeOK'
  <2>1. runs' \in 0 .. MaxRuns
    BY <1>0, <1>3 DEF Start
  <2> QED
    BY <1>3, <2>1 DEF Start, Goto
<1>4. CASE List
  BY <1>4 DEF List, Goto, world, history
<1>5. CASE Found
  BY <1>5 DEF Found, Goto, world, history
<1>6. CASE Size
  <2>1. Length[disk.content] \in 0 .. 2 ^ Width - 1 /\ 0 \in 0 .. 2 ^ Width - 1
    BY Constants
  <2> QED
    <3>1. /\ asset' \in [time : 0 .. MaxClock, len : Nat, md5 : Digest]
          /\ loop' \in [left : 0 .. 2 ^ Width - 1, at : Nat, seen : Content \cup {Torn, Zero}]
      BY <1>6, <2>1 DEF Size, NoLoop
    <3> QED
      BY <1>6, <3>1 DEF Size, Goto, world
<1>7. CASE Read
  BY <1>7, ReadedFacts, Constants DEF Read, world, history
<1>8. CASE Hashed
  <2>1. 0 \in 0 .. 2 ^ Width - 1
    BY Constants
  <2> QED
    <3>1. PICK md5 \in Hashes : asset' = [asset EXCEPT !.md5 = md5]
      BY <1>8 DEF Hashed
    <3>2. md5 \in Digest
      BY DEF Hashes, Digest
    <3>3. /\ asset' \in [time : 0 .. MaxClock, len : Nat, md5 : Digest]
          /\ loop' \in [left : 0 .. 2 ^ Width - 1, at : Nat, seen : Content \cup {Torn, Zero}]
      BY <1>8, <3>1, <3>2 DEF Hashed, NoLoop
    <3> QED
      BY <1>8, <3>3 DEF Hashed, Goto, world, history
<1>9. CASE UpToDate \/ Outdated \/ CheckAgain
  BY <1>9 DEF UpToDate, Outdated, CheckAgain, Goto, world, history
<1>10. CASE Open
  BY <1>10 DEF Open, Goto, world, history
<1>11. CASE PutAgain
  <2>1. PICK md5 \in MayBeHashed : asset' = [asset EXCEPT !.md5 = Md5Of(md5)]
    BY <1>11 DEF PutAgain
  <2>2. sent \in Content /\ crypted \in BOOLEAN
    BY <1>11 DEF PutAgain, Goto, SentInv, crypted
  <2>3. Md5Of(md5) \in Digest
    BY <2>2 DEF MayBeHashed, MayHaveRead, Md5Of, Digest
  <2>4. asset' \in [time : 0 .. MaxClock, len : Nat, md5 : Digest]
    BY <2>1, <2>3
  <2>5. cryptor' \in BOOLEAN /\ sent' = Zero /\ retried' = TRUE /\ pc' = "upload"
    BY <1>11, <2>2 DEF PutAgain, Goto
  <2> QED
    BY <1>11, <2>4, <2>5 DEF PutAgain, world, history
<1>12. CASE Checked
  BY <1>12 DEF Checked, world
<1>13. ASSUME NEW read \in Body, NEW stored \in Body, Put(read, stored)
       PROVE  TypeOK'
  <2>1. /\ read \in Content \cup {Torn} /\ Md5Of(read) \in Digest
        /\ Drawn(read) \in Content \cup {Torn, Headless}
    BY <1>13 DEF Put, MayHaveRead, Md5Of, Drawn, Digest, Goto, SentInv
  <2>2. asset.time \in 1 .. MaxClock
    BY <1>13 DEF Put, Goto, ClockInv, Early
  <2>3. Meta(stored, asset.md5) \in [body : Body, time : 1 .. MaxClock, len : Nat,
                                    key : Key, md5 : Digest \cup Body]
    BY <2>2 DEF Meta, LocalLastModifTime
  <2>4. object' # NoObject
    BY <1>13, <2>2, <2>3, Constants DEF Put, Meta, LocalLastModifTime, NoObject
  <2> QED
    BY <1>13, <2>1, <2>3, <2>4 DEF Put, Goto
<1>14. ASSUME NEW arrives \in BOOLEAN, Post(arrives)
       PROVE  TypeOK'
  <2>1. asset.time \in 1 .. MaxClock /\ object # NoObject
    BY <1>14 DEF Post, Goto, ClockInv, SentInv, Early, Sent, Verified
  <2>2. MetaNow \in [body : Body, time : 1 .. MaxClock, len : Nat, key : Key, md5 : Digest \cup Body]
    BY <2>1 DEF MetaNow, Meta, LocalLastModifTime
  <2>3. MetaNow # NoObject
    BY <2>1, Constants DEF MetaNow, Meta, LocalLastModifTime, NoObject
  <2> QED
    BY <1>14, <2>1, <2>2, <2>3 DEF Post, Goto
<1>15. CASE Stop
  <2>1. 0 \in 0 .. 2 ^ Width - 1 /\ 0 \in 0 .. MaxClock
    BY Constants
  <2> QED
    BY <1>15, <2>1 DEF Stop, NoAsset, NoLoop, Digest, Key, world, history
<1>16. CASE UNCHANGED vars
  BY <1>16 DEF vars, program, history
<1> QED
  BY <1>1, <1>2, <1>3, <1>4, <1>5, <1>6, <1>7, <1>8, <1>9, <1>10, <1>11, <1>12, <1>13,
     <1>14, <1>15, <1>16, Steps
(* Times only grow.                                                         *)
LEMMA ClockStep ==
    ASSUME TypeOK, SentInv, ClockInv, AloneInv, [Next]_vars
    PROVE  ClockInv'
<1> USE DEF TypeOK, transfer, ClockInv, Early, Measured, Sent, Verified
<1>1. ASSUME NEW c \in Content, Write(c)
      PROVE  ClockInv'
  BY <1>1 DEF Write, Touched, program
<1>2. CASE Remove
  BY <1>2 DEF Remove, Touched, program
<1>3. CASE Tick
  BY <1>3 DEF Tick, program, history
<1>4. ASSUME NEW o \in [forceMd5 : BOOLEAN, key : Key], Start(o)
      PROVE  ClockInv'
  BY <1>4 DEF Start, Goto
<1>5. CASE List
  BY <1>5 DEF List, Goto, world, history
<1>6. CASE Found
  BY <1>6 DEF Found, Goto, world, history
<1>7. CASE Size
  BY <1>7 DEF Size, Goto, NoLoop, world
<1>8. CASE Read
  BY <1>8 DEF Read, world, history
<1>9. CASE Hashed
  BY <1>9 DEF Hashed, Goto, NoLoop, world, history
<1>10. CASE UpToDate
  BY <1>10 DEF UpToDate, Goto, world, history
<1>11. CASE Outdated
  BY <1>11 DEF Outdated, Goto, world, history
<1>12. CASE Open
  BY <1>12 DEF Open, Goto, world, history
<1>13. CASE PutAgain
  BY <1>13 DEF PutAgain, MayBeHashed, MayHaveRead, Cut, Md5Of, Goto, world, history
<1>14. CASE Checked
  BY <1>14 DEF Checked, TagMatches, world
<1>15. CASE CheckAgain
  BY <1>15 DEF CheckAgain, Goto, world, history
<1>16. ASSUME NEW read \in Body, NEW stored \in Body, Put(read, stored)
       PROVE  ClockInv'
  BY <1>16 DEF Put, Goto, MayHaveRead, MayBeStored, Drawn, Md5Of, Meta, LocalLastModifTime, NoObject
<1>17. ASSUME NEW arrives \in BOOLEAN, Post(arrives)
       PROVE  ClockInv'
  BY <1>17 DEF Post, Goto, MetaNow, Meta, LocalLastModifTime, NoObject
<1>18. CASE Stop
  BY <1>18 DEF Stop, NoAsset, NoLoop, world, history
<1>19. CASE UNCHANGED vars
  BY <1>19 DEF vars, program, history
<1> QED
  BY <1>1, <1>2, <1>3, <1>4, <1>5, <1>6, <1>7, <1>8, <1>9, <1>10,
     <1>11, <1>12, <1>13, <1>14, <1>15, <1>16, <1>17, <1>18, <1>19, Steps

(* What the run knows, as long as the user leaves the file alone.           *)
LEMMA AloneStep ==
    ASSUME TypeOK, ClockInv, AloneInv, SentInv, [Next]_vars
    PROVE  AloneInv'
<1> USE DEF TypeOK, transfer, AloneInv, Early, Measured, Sent, Verified
<1>1. ASSUME NEW c \in Content, Write(c)
      PROVE  AloneInv'
  BY <1>1 DEF Write, Touched, program
<1>2. CASE Remove
  BY <1>2 DEF Remove, Touched, program
<1>3. CASE Tick
  BY <1>3 DEF Tick, program, history
<1>4. ASSUME NEW o \in [forceMd5 : BOOLEAN, key : Key], Start(o)
      PROVE  AloneInv'
  BY <1>4 DEF Start, Goto
<1>5. CASE List
  BY <1>5 DEF List, Goto, world, history
<1>6. CASE Found
  BY <1>6 DEF Found, Goto, world, history, NoAsset
<1>7. CASE Size
  <2>1. Length[disk.content] \in Int
    BY Constants
  <2>2. /\ pc = "size" /\ pc' \in {"hash", "head"} /\ (pc' = "hash" <=> option.forceMd5)
        /\ asset'.time = asset.time /\ asset'.len = Length[disk.content] /\ asset'.md5 = asset.md5
        /\ pc' = "hash" => /\ loop'.seen = disk.content /\ loop'.at = 0
                           /\ loop'.left = Length[disk.content]
        /\ UNCHANGED <<disk, object, option, raced, sent>>
    BY <1>7 DEF Size, Goto, world
  <2>3. pc' = "hash" => loop'.at + loop'.left = Length[disk.content]
    BY <2>1, <2>2
  <2> QED
    BY <2>2, <2>3
<1>8. CASE Read
  <2>1. /\ disk.content \in Content /\ loop.at \in Nat /\ loop.left \in Int /\ Readed \in Nat
        /\ loop.at + loop.left = Length[disk.content] => Left = loop.left - Readed
    BY ReadedFacts, Constants
  <2>2. /\ loop'.at = loop.at + Readed /\ loop'.left = Left
        /\ loop.seen = disk.content => loop'.seen = disk.content
    BY <1>8 DEF Read
  <2>3. loop.at + loop.left = Length[disk.content] => loop'.at + loop'.left = Length[disk.content]
    BY <2>1, <2>2
  <2> QED
    BY <1>8, <2>2, <2>3 DEF Read, world, history
<1>9. CASE Hashed
  <2>1. PICK md5 \in Hashes : asset' = [asset EXCEPT !.md5 = md5]
    BY <1>9 DEF Hashed
  <2>2. md5 # Zero
    BY Constants DEF Hashes, Zero, Partial
  <2>3. ASSUME ~ raced
        PROVE  /\ md5 \in {disk.content, Partial} \cup Shorter(disk.content)
               /\ loop.left = 0 => md5 = disk.content
    <3>1. /\ loop.seen = disk.content /\ disk.content \in Content
          /\ loop.at + loop.left = Length[disk.content]
      BY <1>9, <2>3 DEF Hashed, Goto
    <3>2. /\ Length[disk.content] \in Nat /\ loop.at \in Nat /\ loop.left \in Nat
          /\ \A c \in Content : Length[c] \in Nat
      BY <3>1, Constants
    <3>3. loop.at # Length[disk.content] => loop.at < Length[disk.content] /\ loop.left # 0
      BY <3>1, <3>2
    <3>4. CASE loop.at = Length[disk.content]
      BY <3>1, <3>4 DEF Hashes
    <3>5. CASE loop.at # Length[disk.content]
      <4>1. md5 = Partial \/ (md5 \in Content /\ Length[md5] = loop.at)
        BY <3>1, <3>5 DEF Hashes
      <4> QED
        BY <3>3, <3>5, <4>1 DEF Shorter
    <3> QED
      BY <3>4, <3>5
  <2>4. /\ asset'.time = asset.time /\ asset'.len = asset.len /\ asset'.md5 = md5
        /\ loop'.left = loop.left
    BY <1>9, <2>1 DEF Hashed, NoLoop
  <2> QED
    BY <1>9, <2>2, <2>3, <2>4 DEF Hashed, Goto, world, history
<1>10. CASE UpToDate
  BY <1>10 DEF UpToDate, Goto, world, history
<1>11. CASE Outdated
  BY <1>11 DEF Outdated, Goto, world, history
<1>12. CASE Open
  BY <1>12 DEF Open, Goto, world, history
<1>13. CASE PutAgain
  <2>1. PICK md5 \in MayBeHashed : asset' = [asset EXCEPT !.md5 = Md5Of(md5)]
    BY <1>13 DEF PutAgain
  <2>2. /\ pc = "put" /\ pc' = "upload" /\ UNCHANGED <<disk, option, loop, raced>>
        /\ asset'.time = asset.time /\ asset'.len = asset.len /\ asset'.md5 = Md5Of(md5)
    BY <1>13, <2>1 DEF PutAgain, Goto, world, history
  <2>3. ~ raced => md5 \in {disk.content, Partial} \cup Shorter(disk.content)
    BY <2>2 DEF MayBeHashed, MayHaveRead, Cut, Shorter
  <2>4. asset.md5 # Zero => Md5Of(md5) = asset.md5
    BY DEF Md5Of
  <2>5. asset.md5 = Zero => Md5Of(md5) = md5
    BY DEF Md5Of
  <2> QED
    BY <2>2, <2>3, <2>4, <2>5
<1>14. CASE Checked
  <2>1. Partial \notin Body /\ asset.md5 # Zero
    BY <1>14, Constants DEF Checked, SentInv, Body
  <2>2. ~ raced => object.body \in {disk.content, Headless}
    BY <1>14, <2>1, Constants DEF Checked, TagMatches, SentInv, Digest
  <2> QED
    BY <1>14, <2>2 DEF Checked, TagMatches, world
<1>15. CASE CheckAgain
  BY <1>15 DEF CheckAgain, Goto, world, history
<1>16. ASSUME NEW read \in Body, NEW stored \in Body, Put(read, stored)
       PROVE  AloneInv'
  <2>1. /\ pc = "put" /\ pc' = "check" /\ read \in {sent, disk.content, Torn}
        /\ (disk.content = sent => read = sent) /\ sent' \in {read, Headless}
        /\ asset'.time = asset.time /\ asset'.len = asset.len /\ asset'.md5 = Md5Of(read)
        /\ UNCHANGED <<disk, option, loop, raced>>
    BY <1>16 DEF Put, Goto, MayHaveRead, Drawn
  <2>2. read # Zero
    BY <2>1, Constants DEF SentInv
  <2>3. asset.md5 # Zero => Md5Of(read) = asset.md5
    BY DEF Md5Of
  <2>4. asset.md5 = Zero => Md5Of(read) = read
    BY DEF Md5Of
  <2> QED
    BY <2>1, <2>2, <2>3, <2>4
<1>17. ASSUME NEW arrives \in BOOLEAN, Post(arrives)
       PROVE  AloneInv'
  BY <1>17 DEF Post, Goto, MetaNow, Meta, LocalLastModifTime, NoObject
<1>18. CASE Stop
  BY <1>18 DEF Stop, NoAsset, NoLoop, world, history
<1>19. CASE UNCHANGED vars
  BY <1>19 DEF vars, program, history
<1> QED
  BY <1>1, <1>2, <1>3, <1>4, <1>5, <1>6, <1>7, <1>8, <1>9, <1>10,
     <1>11, <1>12, <1>13, <1>14, <1>15, <1>16, <1>17, <1>18, <1>19, Steps

(* A digest that has the file's length is the file's, if it is one of a     *)
(* whole content at all.                                                    *)
LEMMA AloneHash ==
    ASSUME TypeOK, AloneInv, ~ raced, pc \in Measured,
           asset.md5 \in Content, asset.len = Length[asset.md5]
    PROVE  asset.md5 = disk.content
<1>1. /\ asset.md5 \in {disk.content, Partial, Zero} \cup Shorter(disk.content)
      /\ asset.len = Length[disk.content]
  BY DEF AloneInv, Early, Measured
<1>2. Length[disk.content] \in Int /\ asset.md5 \notin {Partial, Zero}
  BY Constants DEF TypeOK
<1>3. ~ (Length[asset.md5] < Length[disk.content])
  BY <1>1, <1>2
<1>4. asset.md5 \notin Shorter(disk.content)
  BY <1>3 DEF Shorter
<1> QED
  BY <1>1, <1>2, <1>4

(* What is sent, hashed on the way and stored.                              *)
LEMMA SentStep ==
    ASSUME TypeOK, ClockInv, AloneInv, SentInv, [Next]_vars
    PROVE  SentInv'
<1> USE DEF TypeOK, transfer, SentInv, Early, Sent, Verified, crypted
<1>1. ASSUME NEW c \in Content, Write(c)
      PROVE  SentInv'
  <2>1. disk.time \in Int /\ clock \in Int /\ asset.time \in Int
    BY Constants
  <2>2. disk'.time = clock /\ (blurred' <=> disk.time = clock)
    BY <1>1 DEF Write
  <2>3. asset.time = disk'.time => blurred'
    BY <2>1, <2>2 DEF ClockInv
  <2> QED
    BY <1>1, <2>3 DEF Write, Touched, program
<1>2. CASE Remove
  BY <1>2 DEF Remove, Touched, program
<1>3. CASE Tick
  BY <1>3 DEF Tick, program, history
<1>4. ASSUME NEW o \in [forceMd5 : BOOLEAN, key : Key], Start(o)
      PROVE  SentInv'
  BY <1>4, Constants DEF Start, Goto
<1>5. CASE List
  BY <1>5 DEF List, Goto, world, history
<1>6. CASE Found
  BY <1>6 DEF Found, Goto, world, history, AloneInv, NoAsset
<1>7. CASE Size
  BY <1>7 DEF Size, Goto, NoLoop, world
<1>8. CASE Read
  BY <1>8 DEF Read, world, history
<1>9. CASE Hashed
  BY <1>9 DEF Hashed, Goto, NoLoop, world, history
<1>10. CASE UpToDate
  BY <1>10 DEF UpToDate, Goto, world, history
<1>11. CASE Outdated
  BY <1>11 DEF Outdated, Goto, world, history
<1>12. CASE Open
  BY <1>12, Constants DEF Open, Goto, world, history
<1>13. CASE PutAgain
  BY <1>13, Constants DEF PutAgain, Goto, world, history
<1>14. CASE Checked
  <2>1. object.body = sent
    BY <1>14, Constants DEF Checked, TagMatches, Body, Digest
  <2>2. ~ suspect' /\ crypted /\ asset.md5 \in Content /\ asset.len = Length[asset.md5] =>
           sent \in {asset.md5, Headless}
    <3>1. CASE raced
      BY <1>14, <3>1 DEF Checked
    <3>2. CASE ~ raced
      BY <1>14, <3>2, AloneHash DEF Checked, AloneInv, Measured
    <3> QED
      BY <3>1, <3>2
  <2> QED
    BY <1>14, <2>1, <2>2 DEF Checked, TagMatches, world
<1>15. CASE CheckAgain
  BY <1>15 DEF CheckAgain, Goto, world, history
<1>16. ASSUME NEW read \in Body, NEW stored \in Body, Put(read, stored)
       PROVE  SentInv'
  <2>1. /\ pc = "put" /\ pc' = "check" /\ read \in {sent, disk.content, Torn}
        /\ (disk.content = sent => read = sent) /\ sent \in Content
        /\ stored \in {Spoiled, sent'} /\ sent' \in {read, Headless}
        /\ (sent' = Headless => cryptor \/ read = Headless) /\ cryptor' = FALSE
        /\ blurred' = (blurred /\ read # disk.content)
        /\ suspect' = TRUE /\ sound' = FALSE
        /\ asset' = [asset EXCEPT !.md5 = Md5Of(read)]
        /\ UNCHANGED <<disk, option, retried>>
    BY <1>16 DEF Put, Goto, MayHaveRead, MayBeStored, Drawn
  <2>2. /\ object'.body = stored /\ object'.time = asset.time /\ object'.len = asset.len
        /\ object'.key = option.key /\ (crypted => object'.md5 = asset.md5)
    BY <1>16 DEF Put, Meta, LocalLastModifTime
  <2>3. read # Zero /\ asset'.md5 # Zero /\ (asset.md5 = Zero => asset'.md5 = read)
        /\ (asset.md5 # Zero => asset'.md5 = asset.md5)
    BY <2>1, Constants DEF Md5Of, Zero, Torn
  <2>4. asset'.time = asset.time /\ asset'.len = asset.len /\ object' # NoObject
    <3>1. asset.time # 0
      BY <2>1 DEF ClockInv
    <3> QED
      BY <2>1, <2>2, <3>1 DEF NoObject
  <2>5. asset.time = disk.time /\ ~ blurred' => read = disk.content
    BY <2>1, Constants
  <2>6. sent' = Headless => retried /\ crypted
    BY <2>1, Constants
  <2>7. ~ option.forceMd5 /\ ~ retried => asset'.md5 = sent'
    BY <2>1, <2>3, <2>6
  <2> QED
    BY <2>1, <2>2, <2>3, <2>4, <2>5, <2>6, <2>7
<1>17. ASSUME NEW arrives \in BOOLEAN, Post(arrives)
       PROVE  SentInv'
  BY <1>17 DEF Post, Goto, MetaNow, Meta, LocalLastModifTime, NoObject
<1>18. CASE Stop
  BY <1>18, Constants DEF Stop, NoAsset, NoLoop, world, history
<1>19. CASE UNCHANGED vars
  BY <1>19 DEF vars, program, history
<1> QED
  BY <1>1, <1>2, <1>3, <1>4, <1>5, <1>6, <1>7, <1>8, <1>9, <1>10,
     <1>11, <1>12, <1>13, <1>14, <1>15, <1>16, <1>17, <1>18, <1>19, Steps

(* What the object promises.                                                *)
LEMMA ObjectStep ==
    ASSUME TypeOK, ClockInv, AloneInv, SentInv, ObjectInv, [Next]_vars
    PROVE  ObjectInv'
<1> USE DEF TypeOK, transfer, ObjectInv, Early, Sent, Verified, crypted
<1>1. ASSUME NEW c \in Content, Write(c)
      PROVE  ObjectInv'
  <2>1. disk.time \in Int /\ clock \in Int /\ (object # NoObject => object.time \in Int)
    BY Constants
  <2>2. disk'.time = clock /\ (blurred' <=> disk.time = clock) /\ object' = object
        /\ suspect' = suspect /\ sound' = sound
    BY <1>1 DEF Write
  <2>3. object # NoObject /\ object.time = disk'.time => blurred'
    BY <2>1, <2>2 DEF ClockInv
  <2> QED
    BY <2>2, <2>3
<1>2. CASE Remove
  BY <1>2 DEF Remove, Touched, program
<1>3. CASE Tick
  BY <1>3 DEF Tick, program, history
<1>4. ASSUME NEW o \in [forceMd5 : BOOLEAN, key : Key], Start(o)
      PROVE  ObjectInv'
  BY <1>4 DEF Start, Goto
<1>5. CASE List
  BY <1>5 DEF List, Goto, world, history
<1>6. CASE Found
  BY <1>6 DEF Found, Goto, world, history
<1>7. CASE Size
  BY <1>7 DEF Size, Goto, NoLoop, world
<1>8. CASE Read
  BY <1>8 DEF Read, world, history
<1>9. CASE Hashed
  BY <1>9 DEF Hashed, Goto, NoLoop, world, history
<1>10. CASE UpToDate
  BY <1>10 DEF UpToDate, Goto, world, history
<1>11. CASE Outdated
  BY <1>11 DEF Outdated, Goto, world, history
<1>12. CASE Open
  BY <1>12 DEF Open, Goto, world, history
<1>13. CASE PutAgain
  BY <1>13 DEF PutAgain, Goto, world, history
<1>14. CASE Checked
  <2>1. /\ object' = object /\ disk' = disk /\ blurred' = blurred /\ sound' = sound
        /\ (suspect' <=> crypted /\ raced /\ (option.forceMd5 \/ retried))
    BY <1>14 DEF Checked, world
  <2>2. object # NoObject /\ object.time = asset.time /\ object.key = option.key /\ ~ sound
    BY <1>14 DEF Checked, SentInv
  <2>3. object.body = sent
    BY <1>14, Constants DEF Checked, TagMatches, SentInv, Body, Digest
  <2>4. object.time = disk.time /\ ~ blurred => object.body \in {disk.content, Headless}
    BY <1>14, <2>1, <2>2, <2>3 DEF Checked, SentInv
  <2>5. ~ suspect' /\ object.md5 \in Content /\ object.len = Length[object.md5] =>
           object.body \in {object.md5, Headless}
    <3>1. CASE crypted
      <4>1. CASE raced
        BY <1>14, <2>1, <2>2, <2>3, <3>1, <4>1, Constants DEF Checked, SentInv
      <4>2. CASE ~ raced
        <5> SUFFICES ASSUME object.md5 \in Content, object.len = Length[object.md5]
                     PROVE  object.body \in {object.md5, Headless}
          OBVIOUS
        <5>1. object.md5 = asset.md5 /\ object.len = asset.len /\ sent \in {disk.content, Headless}
          BY <1>14, <3>1, <4>2, Constants DEF Checked, SentInv, AloneInv
        <5> QED
          BY <1>14, <2>3, <4>2, <5>1, AloneHash DEF Checked, Measured
      <4> QED
        BY <4>1, <4>2
    <3>2. CASE ~ crypted
      BY <2>1, <2>2, <2>3, <3>2
    <3> QED
      BY <3>1, <3>2
  <2> QED
    BY <2>1, <2>2, <2>4, <2>5
<1>15. CASE CheckAgain
  BY <1>15 DEF CheckAgain, Goto, world, history
<1>16. ASSUME NEW read \in Body, NEW stored \in Body, Put(read, stored)
       PROVE  ObjectInv'
  <2>1. /\ object' = Meta(stored, asset.md5) /\ suspect' = TRUE /\ sound' = FALSE
        /\ (stored = Headless => crypted)
    BY <1>16, Constants DEF Put, Goto, MayHaveRead, MayBeStored, Drawn, SentInv
  <2> QED
    BY <2>1 DEF Meta
<1>17. ASSUME NEW arrives \in BOOLEAN, Post(arrives)
       PROVE  ObjectInv'
  <2>1. CASE ~ arrives
    BY <1>17, <2>1 DEF Post, Goto, SentInv
  <2>2. CASE arrives
    <3>1. /\ pc = "post" /\ object' = MetaNow /\ UNCHANGED <<disk, option, blurred, suspect>>
          /\ sound' = (~ raced /\ ~ retried /\ asset.md5 = object.body)
      BY <1>17, <2>2 DEF Post, Goto
    <3>2. /\ object'.body = object.body /\ object'.time = object.time
          /\ object'.len = asset.len /\ object'.key = option.key
          /\ object'.md5 = IF crypted THEN asset.md5 ELSE object.body
      BY <3>1 DEF MetaNow, Meta, LocalLastModifTime, SentInv
    <3>3. object # NoObject
      BY <3>1 DEF SentInv
    <3>4. /\ ~ suspect /\ object'.md5 \in Content /\ object'.len = Length[object'.md5] =>
               object.body \in {object'.md5, Headless}
          /\ object.body = Headless => object'.key # NoKey
      BY <3>1, <3>2 DEF SentInv
    <3>5. sound' => object.body = disk.content /\ asset.md5 = disk.content
                    /\ asset.len = Length[disk.content]
      BY <3>1, Constants DEF AloneInv, SentInv, Measured
    <3> QED
      BY <3>1, <3>2, <3>3, <3>4, <3>5
  <2> QED
    BY <2>1, <2>2
<1>18. CASE Stop
  BY <1>18 DEF Stop, NoAsset, NoLoop, world, history
<1>19. CASE UNCHANGED vars
  BY <1>19 DEF vars, program, history
<1> QED
  BY <1>1, <1>2, <1>3, <1>4, <1>5, <1>6, <1>7, <1>8, <1>9, <1>10,
     <1>11, <1>12, <1>13, <1>14, <1>15, <1>16, <1>17, <1>18, <1>19, Steps

(* A turn of the hash loop moves bytes from what is left to what was read;  *)
(* a write keeps their sum unless it changes the length.                    *)
LEMMA LoopStep ==
    ASSUME TypeOK, LoopInv, [Next]_vars
    PROVE  LoopInv'
<1> USE DEF LoopInv, transfer
<1>1. ASSUME NEW c \in Content, Write(c)
      PROVE  LoopInv'
  BY <1>1 DEF Write, Touched, program
<1>2. CASE Remove \/ Tick
  BY <1>2 DEF Remove, Tick, Touched, program, history, TypeOK
<1>3. CASE Size
  <2>1. Length[disk.content] \in Int
    BY Constants DEF TypeOK
  <2>2. /\ resized' = FALSE /\ disk' = disk
        /\ pc' = "hash" => loop'.at = 0 /\ loop'.left = Length[disk.content]
    BY <1>3 DEF Size, Goto, world
  <2> QED
    BY <2>1, <2>2
<1>4. CASE Read
  <2>1. /\ loop.at \in Nat /\ loop.left \in Int /\ Readed \in Nat
        /\ loop.at + loop.left = Length[disk.content] => Left = loop.left - Readed
    BY ReadedFacts, Constants DEF TypeOK
  <2>2. /\ pc = "hash" /\ loop'.at = loop.at + Readed /\ loop'.left = Left
        /\ resized' = resized /\ disk' = disk
    BY <1>4 DEF Read, world, history
  <2> QED
    BY <2>1, <2>2
<1>5. ASSUME NEW o \in [forceMd5 : BOOLEAN, key : Key], Start(o)
      PROVE  LoopInv'
  BY <1>5 DEF Start, Goto
<1>6. CASE List \/ Found \/ Hashed \/ UpToDate \/ Outdated \/ Open \/ PutAgain \/ CheckAgain \/ Stop
  BY <1>6 DEF List, Found, Hashed, UpToDate, Outdated, Open, PutAgain, CheckAgain, Stop, Goto, history
<1>7. CASE Checked
  BY <1>7 DEF Checked
<1>8. ASSUME NEW read \in Body, NEW stored \in Body, Put(read, stored)
      PROVE  LoopInv'
  BY <1>8 DEF Put, Goto
<1>9. ASSUME NEW arrives \in BOOLEAN, Post(arrives)
      PROVE  LoopInv'
  BY <1>9 DEF Post, Goto
<1>10. CASE UNCHANGED vars
  BY <1>10 DEF vars, program, history
<1> QED
  BY <1>1, <1>2, <1>3, <1>4, <1>5, <1>6, <1>7, <1>8, <1>9, <1>10, Steps

(* Why the file is uploaded.                                                *)
LEMMA ReasonStep ==
    ASSUME TypeOK, AloneInv, SentInv, ObjectInv, ReasonInv, [Next]_vars
    PROVE  ReasonInv'
<1> USE DEF TypeOK, transfer, ReasonInv, HashWhole, SameKey, crypted
<1>1. ASSUME NEW c \in Content, Write(c)
      PROVE  ReasonInv'
  BY <1>1 DEF Write, Touched, program
<1>2. CASE Remove
  BY <1>2 DEF Remove, Touched, program
<1>3. CASE Tick
  BY <1>3 DEF Tick, program, history
<1>4. ASSUME NEW o \in [forceMd5 : BOOLEAN, key : Key], Start(o)
      PROVE  ReasonInv'
  BY <1>4 DEF Start, Goto
<1>5. CASE List
  BY <1>5 DEF List, Goto, world, history
<1>6. CASE Found
  BY <1>6 DEF Found, Goto, world, history
<1>7. CASE Size
  BY <1>7 DEF Size, Goto, NoLoop, world
<1>8. CASE Read
  BY <1>8 DEF Read, world, history
<1>9. CASE Hashed
  BY <1>9 DEF Hashed, Goto, NoLoop, world, history
<1>10. CASE UpToDate
  BY <1>10 DEF UpToDate, Goto, world, history
<1>11. CASE Outdated
  <2>1. /\ pc = "head" /\ UNCHANGED <<object, disk, option, asset, loop, sound, listed, raced>>
        /\ ~ (listed /\ SameFingerprint /\ SameKey) \/ Unlike
    BY <1>11 DEF Outdated, Goto, world, history
  <2>2. SUFFICES ASSUME sound, listed, ~ raced, loop.left = 0, SameKey, object.body = disk.content
                 PROVE  object.time # disk.time
    BY <2>1
  <2>3. /\ asset.time = disk.time /\ asset.len = Length[disk.content]
        /\ option.forceMd5 => asset.md5 = disk.content
        /\ object.md5 = object.body /\ object.len = Length[object.body]
    BY <2>1, <2>2 DEF AloneInv, ObjectInv, Early, Measured
  <2>4. ~ Unlike
    BY <2>3, Constants DEF Unlike
  <2> QED
    BY <2>1, <2>2, <2>3, <2>4 DEF SameFingerprint, SameHash, SameTime
<1>12. CASE Open
  BY <1>12 DEF Open, Goto, world, history
<1>13. CASE PutAgain
  BY <1>13 DEF PutAgain, Goto, world, history
<1>14. CASE Checked
  BY <1>14 DEF Checked, TagMatches, world
<1>15. CASE CheckAgain
  BY <1>15 DEF CheckAgain, Goto, world, history
<1>16. ASSUME NEW read \in Body, NEW stored \in Body, Put(read, stored)
       PROVE  ReasonInv'
  BY <1>16 DEF Put, Goto, MayHaveRead, MayBeStored, Drawn, Md5Of, Meta, LocalLastModifTime, NoObject
<1>17. ASSUME NEW arrives \in BOOLEAN, Post(arrives)
       PROVE  ReasonInv'
  BY <1>17 DEF Post, Goto, MetaNow, Meta, LocalLastModifTime, NoObject
<1>18. CASE Stop
  BY <1>18 DEF Stop, NoAsset, NoLoop, world, history
<1>19. CASE UNCHANGED vars
  BY <1>19 DEF vars, program, history
<1> QED
  BY <1>1, <1>2, <1>3, <1>4, <1>5, <1>6, <1>7, <1>8, <1>9, <1>10,
     <1>11, <1>12, <1>13, <1>14, <1>15, <1>16, <1>17, <1>18, <1>19, Steps

(* Why the file is left alone.                                              *)
LEMMA SkipStep ==
    ASSUME TypeOK, AloneInv, ObjectInv, SkipsOnlyGoodCopies, [Next]_vars
    PROVE  SkipsOnlyGoodCopies'
<1> USE DEF TypeOK, transfer, SkipsOnlyGoodCopies, HashWhole, Unreadable, SameKey, crypted
<1>1. ASSUME NEW c \in Content, Write(c)
      PROVE  SkipsOnlyGoodCopies'
  BY <1>1 DEF Write, Touched, program
<1>2. CASE Remove
  BY <1>2 DEF Remove, Touched, program
<1>3. CASE Tick
  BY <1>3 DEF Tick, program, history
<1>4. ASSUME NEW o \in [forceMd5 : BOOLEAN, key : Key], Start(o)
      PROVE  SkipsOnlyGoodCopies'
  BY <1>4 DEF Start, Goto
<1>5. CASE List
  BY <1>5 DEF List, Goto, world, history
<1>6. CASE Found
  BY <1>6 DEF Found, Goto, world, history
<1>7. CASE Size
  BY <1>7 DEF Size, Goto, NoLoop, world
<1>8. CASE Read
  BY <1>8 DEF Read, world, history
<1>9. CASE Hashed
  BY <1>9 DEF Hashed, Goto, NoLoop, world, history
<1>10. CASE UpToDate
  <2>1. /\ pc = "head" /\ UNCHANGED <<object, disk, option, asset, loop, blurred, suspect, raced>>
        /\ listed /\ SameFingerprint /\ SameKey
    BY <1>10 DEF UpToDate, Goto, world, history
  <2>2. SUFFICES ASSUME ~ raced, loop.left = 0
                 PROVE  \/ object.body = disk.content
                        \/ object.body = Headless /\ object.key # NoKey
                        \/ ~ (option.forceMd5 /\ object.key = NoKey) /\ (blurred \/ suspect)
    BY <2>1
  <2>3. /\ object # NoObject /\ asset.time = disk.time /\ asset.len = Length[disk.content]
        /\ option.forceMd5 => asset.md5 = disk.content
    BY <2>1, <2>2 DEF AloneInv, Early, Measured
  <2>4. CASE option.forceMd5
    <3>1. object.md5 = disk.content /\ object.len = Length[disk.content]
      BY <2>1, <2>3, <2>4 DEF SameFingerprint, SameHash
    <3> QED
      BY <2>3, <3>1, Constants DEF ObjectInv
  <2>5. CASE ~ option.forceMd5
    <3>1. object.time = disk.time
      BY <2>1, <2>3, <2>5 DEF SameFingerprint, SameTime
    <3> QED
      BY <2>3, <2>5, <3>1 DEF ObjectInv
  <2> QED
    BY <2>4, <2>5
<1>11. CASE Outdated
  BY <1>11 DEF Outdated, Goto, world, history
<1>12. CASE Open
  BY <1>12 DEF Open, Goto, world, history
<1>13. CASE PutAgain
  BY <1>13 DEF PutAgain, Goto, world, history
<1>14. CASE Checked
  BY <1>14 DEF Checked, TagMatches, world
<1>15. CASE CheckAgain
  BY <1>15 DEF CheckAgain, Goto, world, history
<1>16. ASSUME NEW read \in Body, NEW stored \in Body, Put(read, stored)
       PROVE  SkipsOnlyGoodCopies'
  BY <1>16 DEF Put, Goto
<1>17. ASSUME NEW arrives \in BOOLEAN, Post(arrives)
       PROVE  SkipsOnlyGoodCopies'
  BY <1>17 DEF Post, Goto, MetaNow, Meta, LocalLastModifTime, NoObject
<1>18. CASE Stop
  BY <1>18 DEF Stop, NoAsset, NoLoop, world, history
<1>19. CASE UNCHANGED vars
  BY <1>19 DEF vars, program, history
<1> QED
  BY <1>1, <1>2, <1>3, <1>4, <1>5, <1>6, <1>7, <1>8, <1>9, <1>10,
     <1>11, <1>12, <1>13, <1>14, <1>15, <1>16, <1>17, <1>18, <1>19, Steps

-----------------------------------------------------------------------------
LEMMA Invariant == Spec => []IInv
<1>1. IInv /\ [Next]_vars => IInv'
  BY TypeStep, ClockStep, AloneStep, LoopStep, SentStep, ObjectStep, ReasonStep, SkipStep DEF IInv
<1> QED
  BY <1>1, StartsWell, PTL DEF Spec

(* Types: the wrapping counter included.                                      *)
THEOREM TypeCorrect == Spec => []TypeOK
<1>1. IInv => TypeOK
  BY DEF IInv
<1> QED
  BY <1>1, Invariant, PTL DEF Spec

(* An upload that comes to its end leaves a good copy, whatever the earlier   *)
(* runs left and wherever they were stopped, unless it was encrypted and      *)
(* retried.                                                                   *)
THEOREM UploadRepairs == Spec => []Repairs
<1>1. IInv => Repairs
  <2> SUFFICES ASSUME IInv, pc = "done", ~ raced
               PROVE  /\ object.body = disk.content \/ (Unreadable /\ crypted /\ retried)
                      /\ object.time = disk.time /\ object.key = option.key
    BY DEF Repairs
  <2> QED
    BY DEF IInv, AloneInv, SentInv, Early, Verified, Unreadable, crypted
<1> QED
  BY <1>1, Invariant, PTL DEF Spec

(* A skipped file has a good copy, with three known exceptions.               *)
THEOREM SkipsAreGood == Spec => []SkipsOnlyGoodCopies
<1>1. IInv => SkipsOnlyGoodCopies
  BY DEF IInv
<1> QED
  BY <1>1, Invariant, PTL DEF Spec

(* The hash loop counts down, and to the end of the file, as long as the file *)
(* keeps its length: each turn reads at least a byte, and no more than is     *)
(* left, so the unsigned counter reaches zero without wrapping.               *)
THEOREM HashingEnds == Spec => HashEnds
<1> DEFINE Turn == pc = "hash" /\ pc' = "hash" /\ ~ resized' =>
                      /\ loop' # loop => loop'.left < loop.left
                      /\ loop'.left = 0 => loop'.at = Length[disk'.content]
<1>1. IInv /\ IInv' /\ [Next]_vars => [Turn]_vars
  <2> SUFFICES ASSUME IInv, IInv', [Next]_vars, pc = "hash", pc' = "hash", ~ resized'
               PROVE  /\ loop' # loop => loop'.left < loop.left
                      /\ loop'.left = 0 => loop'.at = Length[disk'.content]
    OBVIOUS
  <2>1. loop'.left = 0 => loop'.at = Length[disk'.content]
    <3>1. loop'.at \in Nat /\ loop'.left \in Int
      BY Constants DEF IInv, TypeOK
    <3> QED
      BY <3>1 DEF IInv, LoopInv
  <2>2. CASE Read
    <3>1. /\ Length[disk.content] \in Nat /\ loop.at \in Nat /\ Buffer \in Nat \ {0}
          /\ loop.left \in Nat
      BY Constants DEF IInv, TypeOK
    <3>2. loop.left # 0 /\ loop'.left = Left /\ resized' = resized
      BY <2>2 DEF Read, history
    <3>3. loop.at + loop.left = Length[disk.content]
      BY <3>2 DEF IInv, LoopInv
    <3>4. Left = loop.left - Readed
      BY <3>3, ReadedFacts DEF IInv
    <3>5. Readed \in Nat \ {0}
      BY <3>1, <3>2, <3>3 DEF Readed
    <3> QED
      BY <2>1, <3>1, <3>2, <3>4, <3>5
  <2>3. CASE ~ Read
    <3>1. loop' = loop
      BY <2>3, Steps DEF Write, Remove, Tick, Touched, Start, List, Found, Size, Hashed, UpToDate,
         Outdated, Open, PutAgain, Checked, CheckAgain, Put, Post, Stop, Goto, program, vars
    <3> QED
      BY <2>1, <3>1
  <2> QED
    BY <2>2, <2>3
<1> QED
  BY <1>1, Invariant, PTL DEF Spec, HashEnds

(* A sound copy is uploaded over only for a reason.                           *)
THEOREM UploadsHaveReason == Spec => []UploadsOnlyModified
<1>1. IInv => UploadsOnlyModified
  BY DEF IInv, ReasonInv, UploadsOnlyModified
<1> QED
  BY <1>1, Invariant, PTL DEF Spec
================================================================================

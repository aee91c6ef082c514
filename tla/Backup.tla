-------------------------------- MODULE Backup --------------------------------
(***************************************************************************)
(* What one run of the program does to the container, seen from outside:   *)
(* no queues, no threads, one object per path.  While nothing goes wrong   *)
(* (state "running") a run only replaces copies that do not pass for good  *)
(* ones and, with the option, discards objects that have no file; it may   *)
(* leave a file out, and says so nowhere.  A "bad" object passes although  *)
(* nothing restores the file from it: it has the metadata of a good one.   *)
(* Only the retry of an encrypted upload makes one without the run's       *)
(* noticing.  Once something goes wrong ("impaired") the run may still do  *)
(* what was under way, one path at a time.                                 *)
(***************************************************************************)
CONSTANTS
    File,               \* the paths of the source
    Obsolete,           \* the other paths of the container
    Crypted, RemoveNonExisting,
    Retries             \* an upload may have to be retried

VARIABLES
    objects,    \* what the container holds for each path
    left,       \* the files left out
    state       \* "running", "complete" or "impaired"

vars == <<objects, left, state>>

Good(f) == objects[f] = "same" \/ (~ Crypted /\ objects[f] = "rekey")

Passes(f) == Good(f) \/ objects[f] = "bad"

Init == state = "running" /\ left = {}

Store(f) ==
    /\ state = "running" /\ ~ Passes(f)
    /\ objects' = [objects EXCEPT ![f] = "same"]
    /\ UNCHANGED <<left, state>>

Spoil(f) ==
    /\ state = "running" /\ ~ Passes(f)
    /\ Crypted /\ Retries
    /\ objects' = [objects EXCEPT ![f] = "bad"]
    /\ UNCHANGED <<left, state>>

Discard(p) ==
    /\ state = "running" /\ RemoveNonExisting
    /\ objects' = [objects EXCEPT ![p] = "absent"]
    /\ UNCHANGED <<left, state>>

Leave(files) ==
    /\ state # "complete"
    /\ left' = left \cup files
    /\ UNCHANGED <<objects, state>>

\* No failure was noticed: every file passes for backed up, but for those left
\* out, and the obsolete objects are gone if they were to go.
End ==
    /\ state = "running" /\ state' = "complete"
    /\ \A f \in File : Passes(f) \/ f \in left
    /\ RemoveNonExisting => \A p \in Obsolete : objects[p] = "absent"
    /\ UNCHANGED <<objects, left>>

\* A request, a read or a thread fails, perhaps with another copy of one file.
Fail ==
    /\ state # "impaired" /\ state' = "impaired"
    /\ \/ objects' = objects
       \/ \E f \in File, o \in {"same", "changed", "bad"} :
             objects' = [objects EXCEPT ![f] = o]
    /\ UNCHANGED left

\* What was under way goes on: stores and, with the option, discards, the
\* copies of files whose source was not walked included.
Disturb ==
    /\ state = "impaired"
    /\ \/ \E f \in File, o \in {"same", "changed", "bad"} :
             objects' = [objects EXCEPT ![f] = o]
       \/ /\ RemoveNonExisting
          /\ \E p \in File \cup Obsolete : objects' = [objects EXCEPT ![p] = "absent"]
    /\ UNCHANGED <<left, state>>

Next ==
    \/ \E f \in File : Store(f) \/ Spoil(f)
    \/ \E p \in Obsolete : Discard(p)
    \/ \E files \in SUBSET File : Leave(files)
    \/ End \/ Fail \/ Disturb

Spec == Init /\ [][Next]_vars
===============================================================================

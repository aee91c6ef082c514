-------------------------- MODULE MCBackupPipeline --------------------------
(***************************************************************************)
(* BackupPipeline for TLC.  Files are alike, and so are the threads of one *)
(* pool: the safety runs permute them.                                     *)
(***************************************************************************)
EXTENDS BackupPipeline, TLC

Symmetry == Permutations(File) \cup Permutations(Uploader)
            \cup Permutations(LocalWorker) \cup Permutations(RemoteWorker)

\* What the container holds at the start: no object, one file's, every file's.
Holding(objects) ==
    {[p \in File \cup RemoteOnly |-> IF p \in File THEN o[p] ELSE "same"] : o \in objects}

Nothing  == Holding({[f \in File |-> "absent"]})
OneFile  == Holding({[f \in File |-> IF f = g THEN "same" ELSE "absent"] : g \in File})
KeyKnown == Holding([File -> {"same", "bad", "rekey"}])

\* Either an obsolete object and none for the files, or theirs with another key.
OneListed == Nothing
             \cup {[p \in File \cup RemoteOnly |-> IF p \in File THEN "rekey" ELSE "absent"]}

\* Every path is listed: the files' objects are to be replaced, the others to go.
AllListed == Holding({[f \in File |-> "changed"]})
=============================================================================

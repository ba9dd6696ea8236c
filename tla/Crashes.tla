------------------------------- MODULE Crashes -------------------------------
(***************************************************************************)
(* The process dies at any step and the FS is opened again: what was on    *)
(* disk stays as it is, everything else is gone.  The lock file of the     *)
(* dead process is removed by hand, as New refuses to run beside it.       *)
(***************************************************************************)
EXTENDS Resurrent

\* New after a crash: nobody is in a call, the records of a bucket file that
\* was being written are lost, and nothing repairs or clears anything.  A
\* crash counts as a call, which bounds them.
CrashRestart ==
    /\ left > 0
    /\ left' = left - 1
    /\ objs' = [id \in ObjIds |-> IF BucketOf[id] \in torn THEN NoRecord ELSE objs[id]]
    /\ mtx' = NoClient
    /\ ol' = [id \in ObjIds |-> {}]
    /\ bl' = [b \in Buckets |-> {}]
    /\ task' = [k \in TaskKeys |-> NoTask]
    /\ call' = [c \in Clients |-> Idle]
    /\ handle' = [c \in Clients |-> NoHandle]
    /\ UNCHANGED <<meta, data, torn, now>>

CrashNext == Next \/ CrashRestart

\* As in Resurrent, calls and tasks that can go on do; nothing makes the
\* process die.
CrashSpec == Init /\ [][CrashNext]_vars /\ Fairness

-----------------------------------------------------------------------------
\* Wherever the process dies, the object of a file has a record and a
\* storage, or its bucket file is the one that was being written: bucket
\* before metadata, and only the buckets being written are at risk.
BackedUnlessTorn ==
    \A p \in Paths :
        Exists(p) /\ meta[p].obj # NoObj =>
            Backed(meta[p].obj) \/ BucketOf[meta[p].obj] \in torn

\* A bucket file lost in a crash is not taken for an empty bucket: what an
\* upload saves was loaded whole, so no file with the new record alone ever
\* stands where the other records were.
UploadsLoadWholeBuckets ==
    \A c \in Clients :
        call[c].pc \in OwnsBucketAt \ {"uploadBucket"} => BucketOf[call[c].obj] \notin torn
=============================================================================

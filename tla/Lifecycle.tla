------------------------------ MODULE Lifecycle ------------------------------
(***************************************************************************)
(* The root directory of a resurrent FS over its life: Init makes it,      *)
(* Migrate brings it from version 0 (a file per object under "objs/") to   *)
(* version 1 (bucket files), New opens it and Close closes it.  Several    *)
(* processes do so at will, kept apart by the lock file alone; a process   *)
(* may crash at every step, and then leaves the lock file for the user to  *)
(* remove.                                                                 *)
(*                                                                         *)
(* An upload saves a bucket in one step here; module Crashes has its steps.*)
(***************************************************************************)
EXTENDS Integers, FiniteSets, Sequences

CONSTANTS
    Processes,      \* processes that open, initialise or migrate the root
    Objects,        \* object identifiers
    Buckets,        \* bucket files
    BucketOf,       \* the bucket file of an object, by the first 3 bytes of its hash
    Faults,         \* what may go wrong: a process dies, a system call fails
    MaxFaults,      \* bound on the faults
    NoProcess, Stale, NoFile, Torn, NoDir

ASSUME LifecycleAssumption ==
    /\ BucketOf \in [Objects -> Buckets]
    /\ Faults \subseteq {"crash", "write", "remove", "rename"}
    /\ MaxFaults \in Nat
    /\ NoProcess \notin Processes /\ Stale \notin Processes /\ NoProcess # Stale
    /\ NoFile # Torn /\ \A s \in SUBSET Objects : s \notin {NoFile, Torn}

CurrentFSVersion == 1

\* A directory of objects: files of version 0 and bucket files of version 1.
Dirs == [flat : SUBSET Objects, bkt : [Buckets -> {NoFile, Torn} \union SUBSET Objects]]
NoBuckets == [b \in Buckets |-> NoFile]

\* What is not there, or not whole, is told from what is.
ASSUME AbsenceAssumption ==
    /\ NoDir \notin Dirs
    /\ CurrentFSVersion \notin {NoFile, Torn}
    /\ "ok" \notin {NoFile, Torn}

Held(dir, b) == IF dir = NoDir \/ dir.bkt[b] \in {NoFile, Torn} THEN {} ELSE dir.bkt[b]
EmptyDir == [flat |-> {}, bkt |-> NoBuckets]

VARIABLES
    lock,       \* resurrent.lock: who made it
    ver,        \* resurrent.ver
    config,     \* resurrent.yaml
    objs,       \* objs/
    objsV2,     \* objs-v2/
    stored,     \* the objects ever stored
    proc,       \* what each process is at
    faults      \* the faults so far

files == <<ver, config, objs, objsV2, stored>>
vars == <<lock, ver, config, objs, objsV2, stored, proc, faults>>

Steps == {"idle", "initConfig", "initVersion", "initVerify", "initWriteConfig", "initDirs",
          "newConfig", "open",
          "readVersion", "walk", "bucket", "removeObjs", "rename", "version", "writeVersion",
          "cleanup", "unlock"}

\* Locals of the walk: the objects converted, the one at hand, and its bucket.
Locals == [pc : Steps, walked : SUBSET Objects, obj : SUBSET Objects, bkt : SUBSET Objects]
Idle == [pc |-> "idle", walked |-> {}, obj |-> {}, bkt |-> {}]

\* Types, and a bucket file holds only objects of its prefix.
TypeOK ==
    /\ lock \in Processes \union {NoProcess, Stale}
    /\ ver \in {NoFile, Torn, CurrentFSVersion}
    /\ config \in {NoFile, Torn, "ok"}
    /\ {objs, objsV2} \subseteq Dirs \union {NoDir}
    /\ \A d \in {objs, objsV2} \ {NoDir}, b \in Buckets : \A o \in Held(d, b) : BucketOf[o] = b
    /\ stored \subseteq Objects
    /\ proc \in [Processes -> Locals]
    /\ faults \in Seq(Faults) /\ Len(faults) <= MaxFaults

\* Nothing yet, an FS made by a version without buckets, or one by this version.
Init ==
    /\ lock = NoProcess
    /\ proc = [p \in Processes |-> Idle]
    /\ faults = <<>>
    /\ objsV2 = NoDir
    /\ stored \in SUBSET Objects
    /\ \/ stored = {} /\ ver = NoFile /\ config = NoFile /\ objs = NoDir
       \/ ver = NoFile /\ config = "ok" /\ objs = [EmptyDir EXCEPT !.flat = stored]
       \/ /\ ver = CurrentFSVersion /\ config = "ok"
          /\ objs = [EmptyDir EXCEPT !.bkt = [b \in Buckets |->
                        LET of == {o \in stored : BucketOf[o] = b}
                        IN  IF of = {} THEN NoFile ELSE of]]

-----------------------------------------------------------------------------
At(p, step) == proc[p].pc = step
Goto(p, step) == proc' = [proc EXCEPT ![p] = [Idle EXCEPT !.pc = step]]

\* A fault of some kind is possible, and happens.
Fails(kind) ==
    /\ kind \in Faults /\ Len(faults) < MaxFaults
    /\ faults' = Append(faults, kind)

\* Faulty variant of LockFS: without O_EXCL.
LockFSShared(p, step) ==
    /\ At(p, "idle")
    /\ lock' = p
    /\ Goto(p, step)
    /\ UNCHANGED <<files, faults>>

\* LockFS creates the lock file with O_EXCL.
LockFS(p, step) ==
    /\ At(p, "idle")
    /\ lock = NoProcess
    /\ lock' = p
    /\ Goto(p, step)
    /\ UNCHANGED <<files, faults>>

\* FSLock.Unlock removes the lock file, whoever made it.
Unlock(p) ==
    /\ At(p, "unlock")
    /\ lock' = NoProcess
    /\ Goto(p, "idle")
    /\ UNCHANGED <<files, faults>>

\* verifyFSVersion; a missing or empty version file counts as version 0.
Version == IF ver = CurrentFSVersion THEN CurrentFSVersion ELSE 0

-----------------------------------------------------------------------------
\* Init: without a config file, the version is written first.
InitReadConfig(p) ==
    /\ At(p, "initConfig")
    /\ IF config = NoFile
       THEN ver' = Torn /\ Goto(p, "initVersion")
       ELSE ver' = ver /\ Goto(p, "initVerify")
    /\ UNCHANGED <<lock, config, objs, objsV2, stored, faults>>

InitWriteVersion(p) ==
    /\ At(p, "initVersion")
    /\ ver' = CurrentFSVersion
    /\ Goto(p, "initVerify")
    /\ UNCHANGED <<lock, config, objs, objsV2, stored, faults>>

InitVerify(p) ==
    /\ At(p, "initVerify")
    /\ IF Version = CurrentFSVersion
       THEN config' = Torn /\ Goto(p, "initWriteConfig")
       ELSE config' = config /\ Goto(p, "unlock")
    /\ UNCHANGED <<lock, ver, objs, objsV2, stored, faults>>

InitWriteConfig(p) ==
    /\ At(p, "initWriteConfig")
    /\ config' = "ok"
    /\ Goto(p, "initDirs")
    /\ UNCHANGED <<lock, ver, objs, objsV2, stored, faults>>

InitDirs(p) ==
    /\ At(p, "initDirs")
    /\ objs' = IF objs = NoDir THEN EmptyDir ELSE objs
    /\ Goto(p, "unlock")
    /\ UNCHANGED <<lock, ver, config, objsV2, stored, faults>>

InitWriteFails(p) ==
    /\ proc[p].pc \in {"initVersion", "initWriteConfig"} /\ Fails("write")
    /\ Goto(p, "unlock")
    /\ UNCHANGED <<lock, files>>

InitStep(p) ==
    \/ LockFS(p, "initConfig") \/ InitReadConfig(p) \/ InitWriteVersion(p) \/ InitWriteFails(p)
    \/ InitVerify(p) \/ InitWriteConfig(p) \/ InitDirs(p)

-----------------------------------------------------------------------------
\* Faulty variant of Open: any version will do.
OpenAnyVersion(p) ==
    /\ At(p, "newConfig")
    /\ config = "ok"
    /\ objs' = IF objs = NoDir THEN EmptyDir ELSE objs
    /\ Goto(p, "open")
    /\ UNCHANGED <<lock, ver, config, objsV2, stored, faults>>

\* New: the config is read, the version verified, the directories made.
Open(p) ==
    /\ At(p, "newConfig")
    /\ config = "ok" /\ Version = CurrentFSVersion
    /\ objs' = IF objs = NoDir THEN EmptyDir ELSE objs
    /\ Goto(p, "open")
    /\ UNCHANGED <<lock, ver, config, objsV2, stored, faults>>

OpenFails(p) ==
    /\ At(p, "newConfig")
    /\ config # "ok" \/ Version # CurrentFSVersion
    /\ Goto(p, "unlock")
    /\ UNCHANGED <<lock, files, faults>>

\* An upload to the open FS.
Store(p, o) ==
    /\ At(p, "open")
    /\ LET b == BucketOf[o]
       IN  objs' = [objs EXCEPT !.bkt[b] = Held(objs, b) \union {o}]
    /\ stored' = stored \union {o}
    /\ UNCHANGED <<lock, ver, config, objsV2, proc, faults>>

Close(p) ==
    /\ At(p, "open")
    /\ Goto(p, "unlock")
    /\ UNCHANGED <<lock, files, faults>>

UseStep(p) ==
    \/ LockFS(p, "newConfig") \/ Open(p) \/ OpenFails(p)
    \/ (\E o \in Objects : Store(p, o)) \/ Close(p)

-----------------------------------------------------------------------------
\* The loop of Migrate: done, or another migration, which makes objs-v2 or
\* finds the one left there.
MigrateDone(p) ==
    /\ At(p, "readVersion")
    /\ Version = CurrentFSVersion
    /\ Goto(p, "unlock")
    /\ UNCHANGED <<lock, files, faults>>

MigrateStart(p) ==
    /\ At(p, "readVersion")
    /\ Version < CurrentFSVersion
    /\ objsV2' = IF objsV2 = NoDir THEN EmptyDir ELSE objsV2
    /\ Goto(p, "walk")
    /\ UNCHANGED <<lock, ver, config, objs, stored, faults>>

Walkable == objs # NoDir /\ objs.bkt = NoBuckets

\* A file that is no object of version 0, or no directory to walk.
WalkRejects(p) ==
    /\ At(p, "walk")
    /\ ~Walkable
    /\ Goto(p, "cleanup")
    /\ UNCHANGED <<lock, files, faults>>

\* Faulty variant of WalkObject: one bucket for the whole walk, ever longer.
WalkObjectKeepingBucket(p, o) ==
    /\ At(p, "walk")
    /\ Walkable
    /\ o \in objs.flat \ proc[p].walked
    /\ LET b == BucketOf[o]
       IN  /\ objsV2.bkt[b] # Torn
           /\ objsV2' = [objsV2 EXCEPT !.bkt[b] = Torn]
           /\ proc' = [proc EXCEPT ![p] = [@ EXCEPT !.pc = "bucket", !.obj = {o},
                          !.bkt = proc[p].walked \union Held(objsV2, b)]]
    /\ UNCHANGED <<lock, ver, config, objs, stored, faults>>

\* The next object: its bucket is loaded and emptied, or cannot be loaded.
WalkObject(p, o) ==
    /\ At(p, "walk")
    /\ Walkable
    /\ o \in objs.flat \ proc[p].walked
    /\ LET b == BucketOf[o]
       IN  \/ /\ objsV2.bkt[b] # Torn
              /\ objsV2' = [objsV2 EXCEPT !.bkt[b] = Torn]
              /\ proc' = [proc EXCEPT ![p] = [pc |-> "bucket", walked |-> proc[p].walked,
                                               obj |-> {o}, bkt |-> Held(objsV2, b)]]
           \/ /\ objsV2.bkt[b] = Torn
              /\ Goto(p, "cleanup")
              /\ UNCHANGED objsV2
    /\ UNCHANGED <<lock, ver, config, objs, stored, faults>>

\* Faulty variant of WalkWrite: the bucket is made anew for each object.
WalkWriteAlone(p) ==
    /\ At(p, "bucket")
    /\ objsV2' = [objsV2 EXCEPT !.bkt = [b \in Buckets |->
                     IF BucketOf[CHOOSE o \in proc[p].obj : TRUE] = b THEN proc[p].obj ELSE @[b]]]
    /\ proc' = [proc EXCEPT ![p] =
                   [Idle EXCEPT !.pc = "walk", !.walked = proc[p].walked \union proc[p].obj]]
    /\ UNCHANGED <<lock, ver, config, objs, stored, faults>>

\* The object is appended; one that is there twice is read as one.
WalkWrite(p) ==
    /\ At(p, "bucket")
    /\ objsV2' = [objsV2 EXCEPT !.bkt = [b \in Buckets |->
                     IF \E o \in proc[p].obj : BucketOf[o] = b
                     THEN proc[p].bkt \union proc[p].obj ELSE @[b]]]
    /\ proc' = [proc EXCEPT ![p] =
                   [Idle EXCEPT !.pc = "walk", !.walked = proc[p].walked \union proc[p].obj]]
    /\ UNCHANGED <<lock, ver, config, objs, stored, faults>>

\* A directory or a bucket file cannot be written.
WalkFails(p) ==
    /\ proc[p].pc \in {"walk", "bucket"} /\ Fails("write")
    /\ Goto(p, "cleanup")
    /\ UNCHANGED <<lock, files>>

\* Faulty variant of WalkEnds: an object is left out.
WalkEndsEarly(p) ==
    /\ At(p, "walk")
    /\ Walkable
    /\ Goto(p, "removeObjs")
    /\ UNCHANGED <<lock, files, faults>>

WalkEnds(p) ==
    /\ At(p, "walk")
    /\ Walkable
    /\ objs.flat \subseteq proc[p].walked
    /\ Goto(p, "removeObjs")
    /\ UNCHANGED <<lock, files, faults>>

\* RemoveAll of objs, file by file.
RemoveObject(p, o) ==
    /\ At(p, "removeObjs")
    /\ o \in objs.flat
    /\ objs' = [objs EXCEPT !.flat = @ \ {o}]
    /\ UNCHANGED <<lock, ver, config, objsV2, stored, proc, faults>>

RemoveObjs(p) ==
    /\ At(p, "removeObjs")
    /\ objs.flat = {}
    /\ objs' = NoDir
    /\ Goto(p, "rename")
    /\ UNCHANGED <<lock, ver, config, objsV2, stored, faults>>

RemoveObjsFails(p) ==
    /\ At(p, "removeObjs") /\ Fails("remove")
    /\ Goto(p, "cleanup")
    /\ UNCHANGED <<lock, files>>

RenameV2(p) ==
    /\ At(p, "rename")
    /\ objs' = objsV2
    /\ objsV2' = NoDir
    /\ Goto(p, "version")
    /\ UNCHANGED <<lock, ver, config, stored, faults>>

RenameV2Fails(p) ==
    /\ At(p, "rename") /\ Fails("rename")
    /\ Goto(p, "cleanup")
    /\ UNCHANGED <<lock, files>>

\* os.WriteFile of the version file empties it, then writes it.
TruncateVersion(p) ==
    /\ At(p, "version")
    /\ ver' = Torn
    /\ Goto(p, "writeVersion")
    /\ UNCHANGED <<lock, config, objs, objsV2, stored, faults>>

WriteVersion(p) ==
    /\ At(p, "writeVersion")
    /\ ver' = CurrentFSVersion
    /\ Goto(p, "readVersion")
    /\ UNCHANGED <<lock, config, objs, objsV2, stored, faults>>

WriteVersionFails(p) ==
    /\ At(p, "writeVersion") /\ Fails("write")
    /\ Goto(p, "unlock")
    /\ UNCHANGED <<lock, files>>

\* The deferred RemoveAll of objs-v2 after a failure, bucket by bucket.
CleanupBucket(p, b) ==
    /\ At(p, "cleanup")
    /\ objsV2.bkt[b] # NoFile
    /\ objsV2' = [objsV2 EXCEPT !.bkt[b] = NoFile]
    /\ UNCHANGED <<lock, ver, config, objs, stored, proc, faults>>

Cleanup(p) ==
    /\ At(p, "cleanup")
    /\ objsV2.bkt = NoBuckets
    /\ objsV2' = NoDir
    /\ Goto(p, "unlock")
    /\ UNCHANGED <<lock, ver, config, objs, stored, faults>>

CleanupFails(p) ==
    /\ At(p, "cleanup") /\ Fails("remove")
    /\ Goto(p, "unlock")
    /\ UNCHANGED <<lock, files>>

MigrateStep(p) ==
    \/ LockFS(p, "readVersion") \/ MigrateDone(p) \/ MigrateStart(p)
    \/ WalkRejects(p) \/ WalkWrite(p) \/ WalkFails(p) \/ WalkEnds(p)
    \/ RemoveObjs(p) \/ RemoveObjsFails(p) \/ RenameV2(p) \/ RenameV2Fails(p)
    \/ TruncateVersion(p) \/ WriteVersion(p) \/ WriteVersionFails(p)
    \/ Cleanup(p) \/ CleanupFails(p)
    \/ \E o \in Objects : WalkObject(p, o) \/ RemoveObject(p, o)
    \/ \E b \in Buckets : CleanupBucket(p, b)

-----------------------------------------------------------------------------
\* A process dies; its lock file stays.
Crash(p) ==
    /\ ~At(p, "idle") /\ Fails("crash")
    /\ lock' = Stale
    /\ Goto(p, "idle")
    /\ UNCHANGED files

\* The user removes the lock file of a process that is gone.
RemoveStaleLock ==
    /\ lock = Stale
    /\ lock' = NoProcess
    /\ UNCHANGED <<files, proc, faults>>

Next ==
    \/ \E p \in Processes : InitStep(p) \/ UseStep(p) \/ MigrateStep(p) \/ Unlock(p) \/ Crash(p)
    \/ RemoveStaleLock

Spec == Init /\ [][Next]_vars

-----------------------------------------------------------------------------
InBuckets(dir) == UNION {Held(dir, b) : b \in Buckets}
InFlat(dir) == IF dir = NoDir THEN {} ELSE dir.flat

\* A process that is past LockFS is the only one, also after crashes and the
\* removal of lock files by hand.
InsideHoldsLock == \A p \in Processes : ~At(p, "idle") => lock = p

\* An FS is in use only in the format New expects, with its configuration: no
\* object is a file of version 0, no bucket is half written by a migration.
OpenIsCurrent ==
    \A p \in Processes : At(p, "open") =>
        /\ Version = CurrentFSVersion /\ config = "ok" /\ objs # NoDir
        /\ objs.flat = {} /\ \A b \in Buckets : objs.bkt[b] # Torn

\* At most one thing has gone wrong, and if it was a system call, then not
\* the removal of a directory.
OneFaultAtMost == Len(faults) <= 1 /\ faults # <<"remove">>

\* The version says 1 only when every object ever stored is in a bucket file
\* under objs: "We put it into the bucket file" (migrate_v1_hash_buckets.go:21).
VersionedMeansComplete == Version = CurrentFSVersion => stored \subseteq InBuckets(objs)

\* While a bucket file is rewritten its objects are with the process.
InMemory == UNION {proc[p].bkt : p \in {q \in Processes : At(q, "bucket")}}

\* Every object is somewhere, or there is no objs directory, which no call
\* takes for an FS without objects.
LossIsNoticed ==
    \/ stored \subseteq InFlat(objs) \union InBuckets(objs) \union InBuckets(objsV2)
                        \union InMemory
    \/ objs = NoDir /\ Version < CurrentFSVersion

\* A migration that crashes once, or has one write or rename fail, at any
\* step, and is retried ends with the version raised over all objects, or
\* leaves a loss that is noticed: none succeeds later with objects missing.
MigrationSurvivesOneFault == OneFaultAtMost => VersionedMeansComplete /\ LossIsNoticed

\* A migration that refuses a bucket file under objs, as it does for ever when
\* one before it crashed between the rename and the version, refuses a
\* directory that has every object.
RejectedIsComplete ==
    [][\A p \in Processes :
          WalkRejects(p) /\ objs # NoDir /\ OneFaultAtMost => stored \subseteq InBuckets(objs)]_vars

-----------------------------------------------------------------------------
\* What makes the properties above inductive.  Every bucket file of a
\* directory can be loaded, and the one that cannot is of an object still to
\* be migrated.
Loadable(dir) == dir # NoDir => \A b \in Buckets : dir.bkt[b] # Torn

FormatInv ==
    /\ objsV2 # NoDir => objsV2.flat = {}
    /\ Loadable(objs)
    /\ config = NoFile => objs = NoDir /\ stored = {}
    /\ ver = CurrentFSVersion => InFlat(objs) = {}
    /\ \A b \in Buckets : objsV2 # NoDir /\ objsV2.bkt[b] = Torn =>
          \E o \in InFlat(objs) : BucketOf[o] = b

\* What a process has established with the steps before the one it is at.
Established(p) ==
    /\ proc[p].pc \in {"walk", "bucket", "removeObjs", "rename", "cleanup"} =>
          objsV2 # NoDir /\ ver # CurrentFSVersion
    /\ proc[p].pc \in {"bucket", "removeObjs"} => Walkable
    /\ proc[p].pc \in {"removeObjs", "rename"} => Loadable(objsV2)
    /\ At(p, "walk") => proc[p].walked \subseteq InBuckets(objsV2)
    /\ At(p, "bucket") =>
          /\ proc[p].walked \subseteq InBuckets(objsV2) \union proc[p].bkt
          /\ \E o \in objs.flat :
                /\ proc[p].obj = {o} /\ objsV2.bkt[BucketOf[o]] = Torn
                /\ \A x \in proc[p].bkt : BucketOf[x] = BucketOf[o]
    /\ At(p, "rename") => objs = NoDir /\ config # NoFile
    /\ proc[p].pc \in {"version", "writeVersion"} =>
          ver # CurrentFSVersion /\ objs # NoDir /\ objs.flat = {}
    /\ At(p, "initVersion") => config = NoFile
    /\ proc[p].pc \in {"initWriteConfig", "initDirs"} => ver = CurrentFSVersion /\ config # NoFile
    /\ At(p, "open") => ver = CurrentFSVersion /\ config = "ok" /\ objs # NoDir

\* The migration has begun to remove the objects it has converted, and if it
\* crashed then the next one goes on with the buckets there are.
Removing ==
    /\ stored \subseteq InBuckets(objsV2) \union InMemory
    /\ Len(faults) = 1 \/ \E p \in Processes : At(p, "removeObjs")
    /\ \A p \in Processes : ~At(p, "cleanup")
    /\ \A b \in Buckets : objsV2 # NoDir /\ objsV2.bkt[b] = Torn =>
          \E p \in Processes : At(p, "bucket") /\ \E o \in proc[p].obj : BucketOf[o] = b

\* Where the objects are, until two things have gone wrong.
Located ==
    /\ ver = CurrentFSVersion \/ (objs # NoDir /\ objs.bkt # NoBuckets) =>
          stored \subseteq InBuckets(objs)
    /\ ver # CurrentFSVersion /\ Walkable => stored \subseteq objs.flat \/ Removing
    /\ \A p \in Processes :
          /\ proc[p].pc \in {"removeObjs", "rename"} => stored \subseteq InBuckets(objsV2)
          /\ proc[p].pc \in {"version", "writeVersion"} => stored \subseteq InBuckets(objs)

\* The inductive invariant.
LifeInv ==
    /\ TypeOK /\ InsideHoldsLock /\ FormatInv
    /\ \A p \in Processes : Established(p)
    /\ OneFaultAtMost => Located
=============================================================================

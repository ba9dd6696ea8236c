-------------------------- MODULE LifecycleProofs --------------------------
(***************************************************************************)
(* The lock file keeps processes apart, and a migration keeps the objects, *)
(* for any number of processes, of objects, of faults and of crashes.      *)
(***************************************************************************)
EXTENDS Lifecycle, TLAPS

\* The inductive invariant: besides the property, the shape of proc.
LockInv == InsideHoldsLock /\ proc = [p \in Processes |-> proc[p]]

LEMMA LockInvInit == Init => LockInv
BY DEF Init, LockInv, InsideHoldsLock, At, Idle

\* A process goes on, or is done with the lock file in its hands.
LEMMA GotoKeeps ==
    ASSUME LockInv, NEW p \in Processes, ~At(p, "idle"), NEW step, Goto(p, step),
           lock' = lock \/ step = "idle"
    PROVE  LockInv'
<1>1. lock = p /\ \A q \in Processes : q # p => At(q, "idle")
  BY DEF LockInv, InsideHoldsLock
<1>2. /\ proc' = [q \in Processes |-> proc'[q]]
      /\ \A q \in Processes : q # p => proc'[q] = proc[q]
      /\ proc'[p].pc = step
  BY DEF Goto, LockInv, Idle
<1>3. QED
  BY <1>1, <1>2 DEF LockInv, InsideHoldsLock, At

LEMMA LockFSKeeps ==
    ASSUME LockInv, NEW p \in Processes, NEW step, LockFS(p, step)
    PROVE  LockInv'
<1>1. \A q \in Processes : At(q, "idle")
  BY LifecycleAssumption DEF LockFS, LockInv, InsideHoldsLock
<1>2. /\ proc' = [q \in Processes |-> proc'[q]]
      /\ \A q \in Processes : q # p => proc'[q] = proc[q]
  BY DEF LockFS, Goto, LockInv
<1>3. QED
  BY <1>1, <1>2 DEF LockFS, LockInv, InsideHoldsLock, At

\* The steps that change the locals of the walk, or neither lock nor proc.
LEMMA WalkKeeps ==
    ASSUME LockInv, NEW p \in Processes, ~At(p, "idle"), NEW l, l.pc # "idle",
           proc' = [proc EXCEPT ![p] = l], UNCHANGED lock
    PROVE  LockInv'
<1>1. /\ proc' = [q \in Processes |-> proc'[q]]
      /\ \A q \in Processes : q # p => proc'[q] = proc[q]
  BY DEF LockInv
<1>2. QED
  BY <1>1 DEF LockInv, InsideHoldsLock, At

LEMMA SameKeeps ==
    ASSUME LockInv, UNCHANGED <<lock, proc>>
    PROVE  LockInv'
BY DEF LockInv, InsideHoldsLock, At

LEMMA InitStepKeeps ==
    ASSUME LockInv, NEW p \in Processes, InitStep(p)
    PROVE  LockInv'
<1>1. CASE InitReadConfig(p)
  BY <1>1, GotoKeeps DEF InitReadConfig, At
<1>2. CASE InitWriteVersion(p) \/ InitWriteFails(p) \/ InitWriteConfig(p) \/ InitDirs(p)
  BY <1>2, GotoKeeps DEF InitWriteVersion, InitWriteFails, InitWriteConfig, InitDirs, At
<1>3. CASE InitVerify(p)
  BY <1>3, GotoKeeps DEF InitVerify, At
<1>4. QED
  BY <1>1, <1>2, <1>3, LockFSKeeps DEF InitStep

LEMMA UseStepKeeps ==
    ASSUME LockInv, NEW p \in Processes, UseStep(p)
    PROVE  LockInv'
<1>1. CASE Open(p) \/ OpenFails(p) \/ Close(p)
  BY <1>1, GotoKeeps DEF Open, OpenFails, Close, At
<1>2. ASSUME NEW o \in Objects, Store(p, o) PROVE LockInv'
  BY <1>2, SameKeeps DEF Store
<1>3. QED
  BY <1>1, <1>2, LockFSKeeps DEF UseStep

LEMMA MigrateStepKeeps ==
    ASSUME LockInv, NEW p \in Processes, MigrateStep(p)
    PROVE  LockInv'
<1>1. CASE MigrateDone(p) \/ MigrateStart(p) \/ WalkRejects(p) \/ WalkFails(p) \/ WalkEnds(p)
  BY <1>1, GotoKeeps DEF MigrateDone, MigrateStart, WalkRejects, WalkFails, WalkEnds, At
<1>2. CASE RemoveObjs(p) \/ RemoveObjsFails(p) \/ RenameV2(p) \/ RenameV2Fails(p)
  BY <1>2, GotoKeeps DEF RemoveObjs, RemoveObjsFails, RenameV2, RenameV2Fails, At
<1>3. CASE TruncateVersion(p) \/ WriteVersion(p) \/ WriteVersionFails(p)
           \/ Cleanup(p) \/ CleanupFails(p)
  BY <1>3, GotoKeeps DEF TruncateVersion, WriteVersion, WriteVersionFails, Cleanup,
     CleanupFails, At
<1>4. CASE WalkWrite(p)
  <2> DEFINE l == [Idle EXCEPT !.pc = "walk", !.walked = proc[p].walked \union proc[p].obj]
  <2>1. l.pc = "walk"
    BY DEF Idle
  <2>2. proc' = [proc EXCEPT ![p] = l] /\ ~At(p, "idle") /\ UNCHANGED lock
    BY <1>4 DEF WalkWrite, At
  <2> HIDE DEF l
  <2>3. QED
    BY <2>1, <2>2, WalkKeeps
<1>5. ASSUME NEW o \in Objects, WalkObject(p, o) PROVE LockInv'
  <2> DEFINE l == [pc |-> "bucket", walked |-> proc[p].walked, obj |-> {o},
               bkt |-> Held(objsV2, BucketOf[o])]
  <2>1. l.pc = "bucket"
    OBVIOUS
  <2>2. ~At(p, "idle") /\ UNCHANGED lock
    BY <1>5 DEF WalkObject, At
  <2>3. proc' = [proc EXCEPT ![p] = l] \/ Goto(p, "cleanup")
    BY <1>5 DEF WalkObject
  <2> HIDE DEF l
  <2>4. QED
    BY <2>1, <2>2, <2>3, WalkKeeps, GotoKeeps
<1>6. ASSUME NEW o \in Objects, RemoveObject(p, o) PROVE LockInv'
  BY <1>6, SameKeeps DEF RemoveObject
<1>7. ASSUME NEW b \in Buckets, CleanupBucket(p, b) PROVE LockInv'
  BY <1>7, SameKeeps DEF CleanupBucket
<1>8. QED
  BY <1>1, <1>2, <1>3, <1>4, <1>5, <1>6, <1>7, LockFSKeeps DEF MigrateStep

LEMMA LockInvNext ==
    ASSUME LockInv, [Next]_vars
    PROVE  LockInv'
<1>1. ASSUME NEW p \in Processes, Unlock(p) \/ Crash(p) PROVE LockInv'
  BY <1>1, GotoKeeps DEF Unlock, Crash, At
<1>2. CASE RemoveStaleLock
  <2>1. \A p \in Processes : At(p, "idle")
    BY <1>2, LifecycleAssumption DEF RemoveStaleLock, LockInv, InsideHoldsLock
  <2>2. QED
    BY <1>2, <2>1 DEF RemoveStaleLock, LockInv, InsideHoldsLock, At
<1>3. CASE UNCHANGED vars
  BY <1>3, SameKeeps DEF vars
<1>4. QED
  BY <1>1, <1>2, <1>3, InitStepKeeps, UseStepKeeps, MigrateStepKeeps DEF Next

\* Of any number of processes that initialise, migrate or open a root at most
\* one is past LockFS, whatever fails or crashes and as long as a lock file is
\* removed by hand only when its maker is gone.
THEOREM LockFileExcludes == Spec => []InsideHoldsLock
<1>1. LockInv => InsideHoldsLock
  BY DEF LockInv
<1>2. Spec => []LockInv
  BY LockInvInit, LockInvNext, PTL DEF Spec
<1>3. QED
  BY <1>1, <1>2, PTL

-----------------------------------------------------------------------------
\* What the process inside needs to know, the others being idle.
MemoryOf(p) == IF At(p, "bucket") THEN proc[p].bkt ELSE {}

RemovingAt(p) ==
    /\ stored \subseteq InBuckets(objsV2) \union MemoryOf(p)
    /\ Len(faults) = 1 \/ At(p, "removeObjs")
    /\ ~At(p, "cleanup")
    /\ \A b \in Buckets : objsV2 # NoDir /\ objsV2.bkt[b] = Torn =>
          At(p, "bucket") /\ \E o \in proc[p].obj : BucketOf[o] = b

LocatedAt(p) ==
    /\ ver = CurrentFSVersion \/ (objs # NoDir /\ objs.bkt # NoBuckets) =>
          stored \subseteq InBuckets(objs)
    /\ ver # CurrentFSVersion /\ Walkable => stored \subseteq objs.flat \/ RemovingAt(p)
    /\ proc[p].pc \in {"removeObjs", "rename"} => stored \subseteq InBuckets(objsV2)
    /\ proc[p].pc \in {"version", "writeVersion"} => stored \subseteq InBuckets(objs)

Here(p) == TypeOK /\ FormatInv /\ Established(p) /\ (OneFaultAtMost => LocatedAt(p))

OthersIdle(p) == \A q \in Processes \ {p} : At(q, "idle")

\* The objects in the bucket files, and in memory.
LEMMA InBucketsDef ==
    ASSUME NEW dir, NEW o
    PROVE  o \in InBuckets(dir) <=> \E b \in Buckets : o \in Held(dir, b)
BY DEF InBuckets

LEMMA MemoryIsHere ==
    ASSUME NEW p \in Processes, OthersIdle(p)
    PROVE  InMemory = MemoryOf(p)
<1>1. ASSUME NEW o PROVE o \in InMemory <=> \E q \in Processes : At(q, "bucket") /\ o \in proc[q].bkt
  BY DEF InMemory
<1>2. ASSUME NEW o PROVE o \in InMemory <=> o \in MemoryOf(p)
  BY <1>1 DEF OthersIdle, At, MemoryOf
<1>3. QED
  BY <1>2

LEMMA MemoryIsHerePrimed ==
    ASSUME NEW p \in Processes, OthersIdle(p)'
    PROVE  InMemory' = MemoryOf(p)'
<1>1. ASSUME NEW o PROVE o \in InMemory' <=> \E q \in Processes : At(q, "bucket")' /\ o \in proc'[q].bkt
  BY DEF InMemory
<1>2. ASSUME NEW o PROVE o \in InMemory' <=> o \in MemoryOf(p)'
  BY <1>1 DEF OthersIdle, At, MemoryOf
<1>3. QED
  BY <1>2

LEMMA ComesHere ==
    ASSUME LifeInv, NEW p \in Processes, OthersIdle(p)
    PROVE  Here(p)
<1>1. ASSUME OneFaultAtMost PROVE LocatedAt(p)
  <2>1. Removing => RemovingAt(p)
    BY MemoryIsHere DEF Removing, RemovingAt, OthersIdle, At
  <2>2. QED
    BY <1>1, <2>1 DEF LifeInv, Located, LocatedAt
<1>2. QED
  BY <1>1 DEF LifeInv, Here

LEMMA GoesFromHere ==
    ASSUME NEW p \in Processes, OthersIdle(p)', Here(p)', InsideHoldsLock'
    PROVE  LifeInv'
<1>1. ASSUME OneFaultAtMost' PROVE Located'
  <2>1. RemovingAt(p)' => Removing'
    BY MemoryIsHerePrimed DEF Removing, RemovingAt, OthersIdle, At
  <2>2. LocatedAt(p)'
    BY <1>1 DEF Here
  <2>3. QED
    BY <2>1, <2>2 DEF Located, LocatedAt, OthersIdle, At
<1>2. ASSUME NEW q \in Processes \ {p} PROVE Established(q)'
  BY DEF OthersIdle, Established, At
<1>3. QED
  BY <1>1, <1>2 DEF LifeInv, Here

-----------------------------------------------------------------------------
\* What a Goto leaves of the locals.
LEMMA GotoType ==
    ASSUME TypeOK, NEW p \in Processes, NEW step \in Steps, Goto(p, step)
    PROVE  /\ proc' \in [Processes -> Locals]
           /\ proc'[p].pc = step /\ proc'[p].walked = {}
<1> DEFINE l == [Idle EXCEPT !.pc = step]
<1>1. l \in Locals /\ l.pc = step /\ l.walked = {}
  BY DEF Idle, Locals
<1>2. proc' = [proc EXCEPT ![p] = l]
  BY DEF Goto
<1> HIDE DEF l
<1>3. QED
  BY <1>1, <1>2 DEF TypeOK

\* The directories are of their type, and a bucket file has only objects of
\* its prefix.
Sorted(dir) ==
    dir \in Dirs \union {NoDir} /\ \A b \in Buckets : \A o \in Held(dir, b) : BucketOf[o] = b

LEMMA DirsSorted ==
    ASSUME TypeOK
    PROVE  Sorted(objs) /\ Sorted(objsV2)
<1>1. \A b \in Buckets : Held(NoDir, b) = {}
  BY DEF Held
<1>2. QED
  BY <1>1 DEF TypeOK, Sorted

LEMMA FilesTyped ==
    ASSUME TypeOK, Sorted(objs'), Sorted(objsV2'),
           lock' \in Processes \union {NoProcess, Stale},
           ver' \in {NoFile, Torn, CurrentFSVersion}, config' \in {NoFile, Torn, "ok"},
           stored' \subseteq Objects, proc' \in [Processes -> Locals],
           UNCHANGED faults
    PROVE  TypeOK'
BY DEF TypeOK, Sorted

\* One fault more.
LEMMA FailsType ==
    ASSUME TypeOK, NEW kind, Fails(kind)
    PROVE  /\ faults' \in Seq(Faults) /\ Len(faults') <= MaxFaults
           /\ OneFaultAtMost' => /\ OneFaultAtMost /\ kind # "remove"
                                 /\ Len(faults) = 0 /\ Len(faults') = 1
<1>1. /\ faults' = Append(faults, kind) /\ kind \in Faults /\ faults \in Seq(Faults)
      /\ Len(faults) \in Nat /\ Len(faults) < MaxFaults /\ MaxFaults \in Nat
  BY LifecycleAssumption DEF Fails, TypeOK
<1>2. faults' \in Seq(Faults) /\ Len(faults') = Len(faults) + 1
  BY <1>1
<1>3. ASSUME OneFaultAtMost'
      PROVE  OneFaultAtMost /\ kind # "remove" /\ Len(faults) = 0 /\ Len(faults') = 1
  <2>1. Len(faults) = 0 /\ Len(faults') = 1 /\ faults' # <<"remove">>
    BY <1>1, <1>2, <1>3 DEF OneFaultAtMost
  <2>2. faults = <<>>
    BY <1>1, <2>1
  <2>3. kind # "remove"
    BY <1>1, <2>1, <2>2
  <2>4. QED
    BY <2>1, <2>2, <2>3 DEF OneFaultAtMost
<1>4. QED
  BY <1>1, <1>2, <1>3

\* The steps that leave the files alone, because something went wrong or there
\* is nothing more to do.
LEMMA LeavesHere ==
    ASSUME NEW p \in Processes, Here(p), UNCHANGED files,
           NEW step \in {"idle", "initConfig", "newConfig", "readVersion", "unlock", "cleanup"},
           Goto(p, step), lock' \in Processes \union {NoProcess, Stale},
           step = "cleanup" => objsV2 # NoDir /\ ver # CurrentFSVersion,
           \/ /\ faults' = faults /\ proc[p].pc \notin {"bucket", "removeObjs"}
              /\ step = "cleanup" => ~Walkable
           \/ \E kind : /\ Fails(kind)
                        /\ kind = "remove" \/ proc[p].pc # "removeObjs" \/ step # "cleanup"
    PROVE  Here(p)'
<1>1. proc' \in [Processes -> Locals] /\ proc'[p].pc = step
  BY GotoType DEF Here, Steps
<1>2. /\ faults' \in Seq(Faults) /\ Len(faults') <= MaxFaults
      /\ OneFaultAtMost' => OneFaultAtMost
  BY FailsType DEF Here, TypeOK, OneFaultAtMost
<1>3. TypeOK'
  BY <1>1, <1>2 DEF Here, TypeOK, files
<1>4. FormatInv'
  BY DEF Here, FormatInv, files, Loadable, InFlat
<1>5. Established(p)'
  BY <1>1 DEF Established, At, files
<1>6. ASSUME OneFaultAtMost', RemovingAt(p), ver # CurrentFSVersion, Walkable PROVE RemovingAt(p)'
  <2>1. CASE faults' = faults /\ proc[p].pc \notin {"bucket", "removeObjs"} /\ step # "cleanup"
    BY <1>1, <1>6, <2>1 DEF RemovingAt, MemoryOf, At, files
  <2>2. ASSUME NEW kind, Fails(kind),
               kind = "remove" \/ proc[p].pc # "removeObjs" \/ step # "cleanup"
        PROVE  RemovingAt(p)'
    <3>1. Len(faults) = 0 /\ Len(faults') = 1 /\ kind # "remove"
      BY <1>6, <2>2, FailsType DEF Here
    <3>2. proc[p].pc = "removeObjs" /\ step # "cleanup"
      BY <1>6, <2>2, <3>1 DEF RemovingAt, At
    <3>3. QED
      BY <1>1, <1>6, <3>1, <3>2 DEF RemovingAt, MemoryOf, At, files
  <2>3. QED
    BY <1>6, <2>1, <2>2
<1>7. ASSUME OneFaultAtMost' PROVE LocatedAt(p)'
  <2>1. LocatedAt(p) /\ UNCHANGED <<ver, config, objs, objsV2, stored>>
    BY <1>2, <1>7 DEF Here, files
  <2>2. (Walkable)' <=> Walkable
    BY <2>1 DEF Walkable
  <2>3. QED
    BY <1>1, <1>6, <1>7, <2>1, <2>2 DEF LocatedAt
<1>8. QED
  BY <1>3, <1>4, <1>5, <1>7 DEF Here

-----------------------------------------------------------------------------
\* The steps of Init.  Without a config file there are no objects to lose.
LEMMA EmptyDirType ==
    /\ EmptyDir \in Dirs /\ EmptyDir # NoDir
    /\ EmptyDir.flat = {} /\ EmptyDir.bkt = NoBuckets
    /\ \A b \in Buckets : EmptyDir.bkt[b] # Torn /\ Held(EmptyDir, b) = {}
<1>1. EmptyDir \in Dirs
  BY DEF EmptyDir, Dirs, NoBuckets
<1>2. QED
  BY <1>1, AbsenceAssumption, LifecycleAssumption DEF EmptyDir, NoBuckets, Held

LEMMA InitReadConfigHere ==
    ASSUME NEW p \in Processes, Here(p), InitReadConfig(p)
    PROVE  Here(p)'
<1>1. CASE config # NoFile
  <2>1. Goto(p, "initVerify") /\ UNCHANGED <<ver, config, objs, objsV2, stored, lock, faults>>
        /\ proc[p].pc = "initConfig"
    BY <1>1 DEF InitReadConfig, At
  <2>2. proc' \in [Processes -> Locals] /\ proc'[p].pc = "initVerify"
    BY <2>1, GotoType DEF Here, Steps
  <2>3. TypeOK' /\ FormatInv'
    BY <2>1, <2>2 DEF Here, TypeOK, FormatInv, Loadable, InFlat
  <2>4. Established(p)'
    BY <2>2 DEF Established, At
  <2>5. OneFaultAtMost' => LocatedAt(p)'
    BY <2>1, <2>2 DEF Here, OneFaultAtMost, LocatedAt, RemovingAt, MemoryOf, Walkable, At
  <2>6. QED
    BY <2>3, <2>4, <2>5 DEF Here
<1>2. CASE config = NoFile
  <2>1. Goto(p, "initVersion") /\ UNCHANGED <<config, objs, objsV2, stored, lock, faults>>
        /\ ver' = Torn /\ objs = NoDir /\ stored = {}
    BY <1>2 DEF InitReadConfig, Here, FormatInv
  <2>2. proc' \in [Processes -> Locals] /\ proc'[p].pc = "initVersion"
    BY <2>1, GotoType DEF Here, Steps
  <2>3. TypeOK' /\ FormatInv'
    BY <2>1, <2>2, AbsenceAssumption DEF Here, TypeOK, FormatInv, Loadable, InFlat
  <2>4. Established(p)'
    BY <1>2, <2>1, <2>2 DEF Established, At
  <2>5. LocatedAt(p)'
    BY <2>1, <2>2 DEF LocatedAt, Walkable
  <2>6. QED
    BY <2>3, <2>4, <2>5 DEF Here
<1>3. QED
  BY <1>1, <1>2

LEMMA InitWriteVersionHere ==
    ASSUME NEW p \in Processes, Here(p), InitWriteVersion(p)
    PROVE  Here(p)'
<1>1. Goto(p, "initVerify") /\ UNCHANGED <<config, objs, objsV2, stored, lock, faults>>
      /\ ver' = CurrentFSVersion /\ objs = NoDir /\ stored = {}
  BY DEF InitWriteVersion, Here, FormatInv, Established
<1>2. proc' \in [Processes -> Locals] /\ proc'[p].pc = "initVerify"
  BY <1>1, GotoType DEF Here, Steps
<1>3. TypeOK' /\ FormatInv'
  BY <1>1, <1>2 DEF Here, TypeOK, FormatInv, Loadable, InFlat
<1>4. Established(p)'
  BY <1>2 DEF Established, At
<1>5. LocatedAt(p)'
  BY <1>1, <1>2 DEF LocatedAt, Walkable
<1>6. QED
  BY <1>3, <1>4, <1>5 DEF Here

\* A step that changes neither the version nor the objects.
LEMMA ConfigHere ==
    ASSUME NEW p \in Processes, Here(p), proc[p].pc \in {"initVerify", "initWriteConfig"},
           UNCHANGED <<ver, objs, objsV2, stored, lock, faults>>,
           config' \in {config, Torn, "ok"},
           NEW step \in {"initWriteConfig", "initDirs", "unlock"}, Goto(p, step),
           step # "unlock" => ver = CurrentFSVersion /\ config' # NoFile
    PROVE  Here(p)'
<1>1. proc' \in [Processes -> Locals] /\ proc'[p].pc = step
  BY GotoType DEF Here, Steps
<1>2. config' = NoFile => config = NoFile
  BY LifecycleAssumption, AbsenceAssumption
<1>3. TypeOK' /\ FormatInv'
  BY <1>1, <1>2 DEF Here, TypeOK, FormatInv, Loadable, InFlat
<1>4. Established(p)'
  BY <1>1 DEF Established, At
<1>5. OneFaultAtMost' => LocatedAt(p)'
  BY <1>1 DEF Here, OneFaultAtMost, LocatedAt, RemovingAt, MemoryOf, Walkable, At
<1>6. QED
  BY <1>3, <1>4, <1>5 DEF Here

LEMMA InitVerifyHere ==
    ASSUME NEW p \in Processes, Here(p), InitVerify(p) \/ InitWriteConfig(p)
    PROVE  Here(p)'
<1>1. CASE InitVerify(p)
  BY <1>1, ConfigHere, LifecycleAssumption DEF InitVerify, At, Version, CurrentFSVersion
<1>2. CASE InitWriteConfig(p)
  BY <1>2, ConfigHere, AbsenceAssumption DEF InitWriteConfig, At, Here, Established
<1>3. QED
  BY <1>1, <1>2

\* InitDirs and New make the directory of an FS that has no objects.
LEMMA MakesDirHere ==
    ASSUME NEW p \in Processes, Here(p), proc[p].pc \in {"initDirs", "newConfig"},
           ver = CurrentFSVersion, config # NoFile,
           objs' = IF objs = NoDir THEN EmptyDir ELSE objs,
           UNCHANGED <<ver, config, objsV2, stored, lock, faults>>,
           NEW step \in {"open", "unlock"}, Goto(p, step), step = "open" => config = "ok"
    PROVE  Here(p)'
<1>1. proc' \in [Processes -> Locals] /\ proc'[p].pc = step
  BY GotoType DEF Here, Steps
<1>2. /\ objs' \in Dirs /\ objs' # NoDir
      /\ \A b \in Buckets : Held(objs', b) = Held(objs, b)
      /\ InFlat(objs') = InFlat(objs) /\ Loadable(objs')
  BY EmptyDirType, AbsenceAssumption DEF Here, TypeOK, Held, InFlat, Loadable, FormatInv
<1>3. TypeOK'
  <2>1. Sorted(objs') /\ Sorted(objsV2')
    BY <1>2, DirsSorted DEF Here, Sorted
  <2>2. QED
    BY <1>1, <2>1, FilesTyped DEF Here, TypeOK
<1>4. FormatInv'
  BY <1>2 DEF Here, FormatInv, Loadable
<1>5. Established(p)'
  BY <1>1, <1>2 DEF Established, At
<1>6. OneFaultAtMost' => LocatedAt(p)'
  <2>1. \A o : o \in InBuckets(objs) => o \in InBuckets(objs')
    BY <1>2, InBucketsDef
  <2>2. QED
    BY <1>1, <2>1 DEF Here, OneFaultAtMost, LocatedAt
<1>7. QED
  BY <1>3, <1>4, <1>5, <1>6 DEF Here

\* An upload adds its object to the bucket file.
LEMMA StoreHere ==
    ASSUME NEW p \in Processes, Here(p), NEW o \in Objects, Store(p, o)
    PROVE  Here(p)'
<1> DEFINE b == BucketOf[o]
<1>1. /\ ver = CurrentFSVersion /\ objs # NoDir /\ objs \in Dirs /\ b \in Buckets
      /\ proc[p].pc = "open" /\ config = "ok"
  BY LifecycleAssumption DEF Store, Here, Established, At, TypeOK
<1>2. /\ objs' = [objs EXCEPT !.bkt[b] = Held(objs, b) \union {o}] /\ stored' = stored \union {o}
      /\ UNCHANGED <<lock, ver, config, objsV2, proc, faults>>
  BY DEF Store
<1>3. Held(objs, b) \subseteq Objects /\ Held(objs, b) \union {o} \notin {NoFile, Torn}
  BY <1>1, LifecycleAssumption DEF Held, Dirs
<1>4. /\ objs' \in Dirs /\ objs' # NoDir /\ objs'.flat = objs.flat
      /\ objs'.bkt[b] = Held(objs, b) \union {o}
      /\ \A x \in Buckets \ {b} : objs'.bkt[x] = objs.bkt[x]
  BY <1>1, <1>2, <1>3, AbsenceAssumption DEF Dirs
<1>5. Held(objs', b) = Held(objs, b) \union {o} /\ \A x \in Buckets \ {b} : Held(objs', x) = Held(objs, x)
  BY <1>1, <1>3, <1>4 DEF Held
<1>6. TypeOK'
  <2>1. Sorted(objs')
    BY <1>4, <1>5, DirsSorted DEF Here, Sorted
  <2>2. QED
    BY <1>2, <2>1, DirsSorted, FilesTyped DEF Here, TypeOK
<1>7. FormatInv'
  BY <1>1, <1>2, <1>3, <1>4 DEF Here, FormatInv, Loadable, InFlat
<1>8. Established(p)'
  BY <1>1, <1>2, <1>4 DEF Established, At
<1>9. OneFaultAtMost' => LocatedAt(p)'
  <2>1. \A x : x \in InBuckets(objs) \union {o} => x \in InBuckets(objs')
    BY <1>1, <1>5, InBucketsDef
  <2>2. QED
    BY <1>1, <1>2, <2>1 DEF Here, OneFaultAtMost, LocatedAt
<1>10. QED
  BY <1>6, <1>7, <1>8, <1>9 DEF Here

-----------------------------------------------------------------------------
\* The steps of Migrate.  objs-v2 is new, or what an earlier migration left.
LEMMA MigrateStartHere ==
    ASSUME NEW p \in Processes, Here(p), MigrateStart(p)
    PROVE  Here(p)'
<1>1. /\ Goto(p, "walk") /\ UNCHANGED <<ver, config, objs, stored, lock, faults>>
      /\ objsV2' = IF objsV2 = NoDir THEN EmptyDir ELSE objsV2
      /\ proc[p].pc = "readVersion" /\ ver # CurrentFSVersion
  BY DEF MigrateStart, At, Version, CurrentFSVersion
<1>2. /\ proc' \in [Processes -> Locals] /\ proc'[p].pc = "walk" /\ proc'[p].walked = {}
  BY <1>1, GotoType DEF Here, Steps
<1>3. /\ objsV2' \in Dirs /\ objsV2' # NoDir /\ objsV2'.flat = {}
      /\ \A b \in Buckets : Held(objsV2', b) = Held(objsV2, b)
      /\ \A b \in Buckets : objsV2'.bkt[b] = Torn => objsV2 # NoDir /\ objsV2.bkt[b] = Torn
  BY <1>1, EmptyDirType, AbsenceAssumption DEF Here, TypeOK, Held, FormatInv
<1>4. TypeOK'
  <2>1. Sorted(objs') /\ Sorted(objsV2')
    BY <1>1, <1>3, DirsSorted DEF Here, Sorted
  <2>2. QED
    BY <1>1, <1>2, <2>1, FilesTyped DEF Here, TypeOK
<1>5. FormatInv'
  BY <1>1, <1>3 DEF Here, FormatInv
<1>6. Established(p)'
  BY <1>1, <1>2, <1>3 DEF Established, At
<1>7. OneFaultAtMost' => LocatedAt(p)'
  <2>1. \A o : o \in InBuckets(objsV2) => o \in InBuckets(objsV2')
    BY <1>3, InBucketsDef
  <2>2. RemovingAt(p) => RemovingAt(p)'
    BY <1>1, <1>2, <1>3, <2>1 DEF RemovingAt, MemoryOf, At
  <2>3. QED
    BY <1>1, <1>2, <2>2 DEF Here, OneFaultAtMost, LocatedAt, Walkable
<1>8. QED
  BY <1>4, <1>5, <1>6, <1>7 DEF Here

\* While a bucket file is rewritten, what it held is in memory.
LEMMA WalkObjectHere ==
    ASSUME NEW p \in Processes, Here(p), NEW o \in Objects, WalkObject(p, o),
           objsV2.bkt[BucketOf[o]] # Torn
    PROVE  Here(p)'
<1> DEFINE b == BucketOf[o]
           l == [pc |-> "bucket", walked |-> proc[p].walked, obj |-> {o}, bkt |-> Held(objsV2, b)]
<1>1. /\ proc[p].pc = "walk" /\ Walkable /\ o \in objs.flat /\ b \in Buckets
      /\ objsV2' = [objsV2 EXCEPT !.bkt[b] = Torn] /\ proc' = [proc EXCEPT ![p] = l]
      /\ UNCHANGED <<lock, ver, config, objs, stored, faults>>
  BY LifecycleAssumption DEF WalkObject, At
<1>2. /\ objsV2 \in Dirs /\ objsV2 # NoDir /\ ver # CurrentFSVersion /\ proc[p] \in Locals
      /\ proc[p].walked \subseteq InBuckets(objsV2) /\ objs # NoDir /\ objs.bkt = NoBuckets
  BY <1>1 DEF Here, Established, TypeOK, At, Walkable
<1>3. Held(objsV2, b) \subseteq Objects /\ \A x \in Held(objsV2, b) : BucketOf[x] = b
  <2>1. Held(objsV2, b) \subseteq Objects
    BY <1>1, <1>2 DEF Held, Dirs
  <2>2. QED
    BY <1>1, <2>1, DirsSorted DEF Here, Sorted
<1>4. /\ objsV2' \in Dirs /\ objsV2' # NoDir /\ objsV2'.flat = objsV2.flat
      /\ objsV2'.bkt[b] = Torn /\ \A x \in Buckets \ {b} : objsV2'.bkt[x] = objsV2.bkt[x]
  BY <1>1, <1>2, AbsenceAssumption DEF Dirs
<1>5. Held(objsV2', b) = {} /\ \A x \in Buckets \ {b} : Held(objsV2', x) = Held(objsV2, x)
  BY <1>2, <1>4 DEF Held
<1>6. /\ proc' \in [Processes -> Locals] /\ proc'[p] = l
  <2>1. l \in Locals
    BY <1>2, <1>3 DEF Locals, Steps
  <2> HIDE DEF l
  <2>2. QED
    BY <1>1, <2>1 DEF Here, TypeOK
<1>7. \A x : x \in InBuckets(objsV2) => x \in InBuckets(objsV2') \union Held(objsV2, b)
  BY <1>5, InBucketsDef
<1>8. TypeOK'
  <2>1. Sorted(objs') /\ Sorted(objsV2')
    BY <1>1, <1>4, <1>5, DirsSorted DEF Here, Sorted
  <2>2. QED
    BY <1>1, <1>6, <2>1, FilesTyped DEF Here, TypeOK
<1>9. FormatInv'
  BY <1>1, <1>2, <1>4 DEF Here, FormatInv, InFlat
<1>10. Established(p)'
  <2>1. /\ proc'[p].pc = "bucket" /\ proc'[p].walked = proc[p].walked
        /\ proc'[p].obj = {o} /\ proc'[p].bkt = Held(objsV2, b)
    BY <1>6
  <2>2. proc'[p].walked \subseteq InBuckets(objsV2') \union proc'[p].bkt
    BY <1>2, <1>7, <2>1
  <2>3. QED
    BY <1>1, <1>2, <1>3, <1>4, <2>1, <2>2 DEF Established, At, Walkable
<1>11. OneFaultAtMost' => LocatedAt(p)'
  <2>1. RemovingAt(p) => RemovingAt(p)'
    <3>1. SUFFICES ASSUME RemovingAt(p) PROVE RemovingAt(p)'
      OBVIOUS
    <3>2. /\ stored \subseteq InBuckets(objsV2) /\ Len(faults) = 1
          /\ \A x \in Buckets : objsV2.bkt[x] # Torn
      BY <1>1, <1>2, <3>1 DEF RemovingAt, MemoryOf, At
    <3>3. stored' \subseteq InBuckets(objsV2') \union Held(objsV2, b)
      BY <1>1, <1>7, <3>2
    <3>4. QED
      BY <1>1, <1>4, <1>6, <3>2, <3>3 DEF RemovingAt, MemoryOf, At
  <2>2. QED
    BY <1>1, <1>2, <1>6, <2>1 DEF Here, OneFaultAtMost, LocatedAt, Walkable
<1>12. QED
  BY <1>8, <1>9, <1>10, <1>11 DEF Here

\* A bucket file that cannot be loaded belongs to an object that is still
\* where it was, so nothing has been removed yet.
LEMMA WalkObjectTornHere ==
    ASSUME NEW p \in Processes, Here(p), NEW o \in Objects, WalkObject(p, o),
           objsV2.bkt[BucketOf[o]] = Torn
    PROVE  Here(p)'
<1>1. /\ proc[p].pc = "walk" /\ BucketOf[o] \in Buckets /\ Goto(p, "cleanup")
      /\ UNCHANGED <<lock, ver, config, objs, objsV2, stored, faults>>
  BY LifecycleAssumption DEF WalkObject, At
<1>2. objsV2 # NoDir /\ ver # CurrentFSVersion
  BY <1>1 DEF Here, Established
<1>3. proc' \in [Processes -> Locals] /\ proc'[p].pc = "cleanup"
  BY <1>1, GotoType DEF Here, Steps
<1>4. TypeOK' /\ FormatInv'
  BY <1>1, <1>3 DEF Here, TypeOK, FormatInv, Loadable, InFlat
<1>5. Established(p)'
  BY <1>1, <1>2, <1>3 DEF Established, At
<1>6. OneFaultAtMost' => LocatedAt(p)'
  <2>1. ~RemovingAt(p)
    BY <1>1, <1>2 DEF RemovingAt, At
  <2>2. QED
    BY <1>1, <1>3, <2>1 DEF Here, OneFaultAtMost, LocatedAt, Walkable
<1>7. QED
  BY <1>4, <1>5, <1>6 DEF Here

LEMMA WalkWriteHere ==
    ASSUME NEW p \in Processes, Here(p), WalkWrite(p)
    PROVE  Here(p)'
<1> DEFINE l == [Idle EXCEPT !.pc = "walk", !.walked = proc[p].walked \union proc[p].obj]
           new == proc[p].bkt \union proc[p].obj
<1>1. /\ proc[p].pc = "bucket" /\ proc' = [proc EXCEPT ![p] = l]
      /\ UNCHANGED <<lock, ver, config, objs, stored, faults>>
      /\ objsV2' = [objsV2 EXCEPT !.bkt = [b \in Buckets |->
                       IF \E o \in proc[p].obj : BucketOf[o] = b THEN new ELSE objsV2.bkt[b]]]
  BY DEF WalkWrite, At
<1>2. /\ objsV2 \in Dirs /\ objsV2 # NoDir /\ ver # CurrentFSVersion /\ proc[p] \in Locals
      /\ Walkable /\ objs # NoDir /\ objs.bkt = NoBuckets /\ objs \in Dirs
  BY <1>1 DEF Here, Established, TypeOK, At, Walkable
<1>3. PICK o \in objs.flat :
          /\ proc[p].obj = {o} /\ objsV2.bkt[BucketOf[o]] = Torn
          /\ \A x \in proc[p].bkt : BucketOf[x] = BucketOf[o]
  BY <1>1 DEF Here, Established, At
<1> DEFINE b == BucketOf[o]
<1>4. /\ o \in Objects /\ b \in Buckets /\ new \subseteq Objects /\ new \notin {NoFile, Torn}
      /\ \A x \in new : BucketOf[x] = b
  BY <1>2, <1>3, LifecycleAssumption DEF Dirs, Locals
<1>5. /\ objsV2' \in Dirs /\ objsV2' # NoDir /\ objsV2'.flat = objsV2.flat
      /\ objsV2'.bkt[b] = new /\ \A x \in Buckets \ {b} : objsV2'.bkt[x] = objsV2.bkt[x]
  <2> HIDE DEF new
  <2>1. objsV2' \in Dirs
    BY <1>1, <1>2, <1>4 DEF Dirs
  <2>2. QED
    BY <1>1, <1>2, <1>3, <1>4, <2>1, AbsenceAssumption DEF Dirs
<1> HIDE DEF new
<1>6. /\ Held(objsV2', b) = new /\ Held(objsV2, b) = {}
      /\ \A x \in Buckets \ {b} : Held(objsV2', x) = Held(objsV2, x)
  BY <1>2, <1>3, <1>4, <1>5 DEF Held
<1>7. proc' \in [Processes -> Locals] /\ proc'[p].pc = "walk"
      /\ proc'[p].walked = proc[p].walked \union {o}
  <2>1. l \in Locals /\ l.pc = "walk" /\ l.walked = proc[p].walked \union {o}
    BY <1>2, <1>3, <1>4 DEF Locals, Steps, Idle
  <2> HIDE DEF l
  <2>2. QED
    BY <1>1, <2>1 DEF Here, TypeOK
<1>8. InBuckets(objsV2) \union proc[p].bkt \union {o} \subseteq InBuckets(objsV2')
  <2>1. \A x : x \in InBuckets(objsV2) => x \in InBuckets(objsV2')
    BY <1>6, InBucketsDef
  <2>2. \A x \in new : x \in InBuckets(objsV2')
    BY <1>4, <1>6, InBucketsDef
  <2>3. QED
    BY <1>3, <2>1, <2>2 DEF new
<1>9. TypeOK'
  <2>1. Sorted(objs') /\ Sorted(objsV2')
    BY <1>1, <1>4, <1>5, <1>6, DirsSorted DEF Here, Sorted
  <2>2. QED
    BY <1>1, <1>7, <2>1, FilesTyped DEF Here, TypeOK
<1>10. FormatInv'
  BY <1>1, <1>2, <1>4, <1>5 DEF Here, FormatInv, InFlat
<1>11. Established(p)'
  <2>1. proc'[p].walked \subseteq InBuckets(objsV2')
    BY <1>1, <1>7, <1>8 DEF Here, Established, At
  <2>2. QED
    BY <1>1, <1>2, <1>5, <1>7, <2>1 DEF Established, At
<1>12. OneFaultAtMost' => LocatedAt(p)'
  <2>1. RemovingAt(p) => RemovingAt(p)'
    <3>1. SUFFICES ASSUME RemovingAt(p) PROVE RemovingAt(p)'
      OBVIOUS
    <3>2. /\ stored \subseteq InBuckets(objsV2) \union proc[p].bkt /\ Len(faults) = 1
          /\ \A x \in Buckets : objsV2.bkt[x] = Torn => x = b
      BY <1>1, <1>2, <1>3, <3>1 DEF RemovingAt, MemoryOf, At
    <3>3. stored' \subseteq InBuckets(objsV2')
      BY <1>1, <1>8, <3>2
    <3>4. \A x \in Buckets : objsV2'.bkt[x] # Torn
      BY <1>4, <1>5, <3>2
    <3>5. QED
      BY <1>1, <1>7, <3>2, <3>3, <3>4 DEF RemovingAt, At
  <2>2. QED
    BY <1>1, <1>2, <1>7, <2>1 DEF Here, OneFaultAtMost, LocatedAt, Walkable
<1>13. QED
  BY <1>9, <1>10, <1>11, <1>12 DEF Here

\* The walk is over when all the objects are in bucket files, and then every
\* bucket file can be loaded.
LEMMA WalkEndsHere ==
    ASSUME NEW p \in Processes, Here(p), WalkEnds(p)
    PROVE  Here(p)'
<1>1. /\ proc[p].pc = "walk" /\ Walkable /\ objs.flat \subseteq proc[p].walked
      /\ Goto(p, "removeObjs") /\ UNCHANGED <<lock, ver, config, objs, objsV2, stored, faults>>
  BY DEF WalkEnds, At, files
<1>2. /\ objsV2 # NoDir /\ ver # CurrentFSVersion /\ proc[p].walked \subseteq InBuckets(objsV2)
      /\ objs # NoDir
  BY <1>1 DEF Here, Established, At, Walkable
<1>3. proc' \in [Processes -> Locals] /\ proc'[p].pc = "removeObjs"
  BY <1>1, GotoType DEF Here, Steps
<1>4. \A b \in Buckets : objsV2.bkt[b] # Torn
  <2>1. SUFFICES ASSUME NEW b \in Buckets, objsV2.bkt[b] = Torn PROVE FALSE
    OBVIOUS
  <2>2. PICK o \in objs.flat : BucketOf[o] = b
    BY <1>2, <2>1 DEF Here, FormatInv, InFlat
  <2>3. PICK x \in Buckets : o \in Held(objsV2, x)
    BY <1>1, <1>2, <2>2, InBucketsDef
  <2>4. x = b
    BY <2>2, <2>3, DirsSorted DEF Here, Sorted
  <2>5. QED
    BY <2>1, <2>3, <2>4 DEF Held
<1>5. TypeOK' /\ FormatInv'
  BY <1>1, <1>3 DEF Here, TypeOK, FormatInv, Loadable, InFlat
<1>6. Established(p)'
  BY <1>1, <1>2, <1>3, <1>4 DEF Established, At, Walkable, Loadable
<1>7. OneFaultAtMost' => LocatedAt(p)'
  <2>1. ASSUME OneFaultAtMost
        PROVE  LocatedAt(p) /\ stored \subseteq InBuckets(objsV2)
    <3>1. stored \subseteq objs.flat \/ RemovingAt(p)
      BY <1>1, <1>2, <2>1 DEF Here, LocatedAt
    <3>2. RemovingAt(p) => stored \subseteq InBuckets(objsV2)
      BY <1>1 DEF RemovingAt, MemoryOf, At
    <3>3. QED
      BY <1>1, <1>2, <2>1, <3>1, <3>2 DEF Here
  <2>2. RemovingAt(p) => RemovingAt(p)'
    BY <1>1, <1>3, <1>4 DEF RemovingAt, MemoryOf, At
  <2>3. QED
    BY <1>1, <1>2, <1>3, <2>1, <2>2 DEF OneFaultAtMost, LocatedAt, Walkable
<1>8. QED
  BY <1>5, <1>6, <1>7 DEF Here

\* An object is removed once all of them are in bucket files.
LEMMA RemoveObjectHere ==
    ASSUME NEW p \in Processes, Here(p), NEW o \in Objects, RemoveObject(p, o)
    PROVE  Here(p)'
<1>1. /\ proc[p].pc = "removeObjs" /\ objs' = [objs EXCEPT !.flat = @ \ {o}]
      /\ UNCHANGED <<lock, ver, config, objsV2, stored, proc, faults>>
  BY DEF RemoveObject, At
<1>2. /\ objsV2 # NoDir /\ ver # CurrentFSVersion /\ Loadable(objsV2)
      /\ objs # NoDir /\ objs.bkt = NoBuckets /\ objs \in Dirs
  BY <1>1 DEF Here, Established, Walkable, TypeOK
<1>3. /\ objs' \in Dirs /\ objs' # NoDir /\ objs'.bkt = NoBuckets
      /\ \A b \in Buckets : Held(objs', b) = {}
  <2>1. objs' \in Dirs /\ objs'.bkt = NoBuckets
    BY <1>1, <1>2 DEF Dirs
  <2>2. QED
    BY <2>1, AbsenceAssumption DEF Held, NoBuckets
<1>4. TypeOK'
  <2>1. Sorted(objs') /\ Sorted(objsV2')
    BY <1>1, <1>3, DirsSorted DEF Here, Sorted
  <2>2. QED
    BY <1>1, <2>1, FilesTyped DEF Here, TypeOK
<1>5. FormatInv'
  BY <1>1, <1>2, <1>3, LifecycleAssumption DEF Here, FormatInv, Loadable, NoBuckets
<1>6. Established(p)'
  BY <1>1, <1>2, <1>3 DEF Established, At, Walkable
<1>7. OneFaultAtMost' => LocatedAt(p)'
  BY <1>1, <1>2, <1>3 DEF Here, OneFaultAtMost, LocatedAt, RemovingAt, At, Loadable
<1>8. QED
  BY <1>4, <1>5, <1>6, <1>7 DEF Here

LEMMA RemoveObjsHere ==
    ASSUME NEW p \in Processes, Here(p), RemoveObjs(p)
    PROVE  Here(p)'
<1>1. /\ proc[p].pc = "removeObjs" /\ objs' = NoDir /\ Goto(p, "rename")
      /\ UNCHANGED <<lock, ver, config, objsV2, stored, faults>>
  BY DEF RemoveObjs, At
<1>2. objsV2 # NoDir /\ ver # CurrentFSVersion /\ Loadable(objsV2) /\ objs # NoDir
  BY <1>1 DEF Here, Established, Walkable
<1>3. proc' \in [Processes -> Locals] /\ proc'[p].pc = "rename"
  BY <1>1, GotoType DEF Here, Steps
<1>4. TypeOK'
  <2>1. Sorted(objs') /\ Sorted(objsV2')
    BY <1>1, DirsSorted DEF Here, Sorted, Held
  <2>2. QED
    BY <1>1, <1>3, <2>1, FilesTyped DEF Here, TypeOK
<1>5. FormatInv'
  BY <1>1, <1>2 DEF Here, FormatInv, Loadable
<1>6. Established(p)'
  <2>1. config # NoFile
    BY <1>2 DEF Here, FormatInv
  <2>2. QED
    BY <1>1, <1>2, <1>3, <2>1 DEF Established, At, Loadable
<1>7. OneFaultAtMost' => LocatedAt(p)'
  BY <1>1, <1>2, <1>3 DEF Here, OneFaultAtMost, LocatedAt, Walkable
<1>8. QED
  BY <1>4, <1>5, <1>6, <1>7 DEF Here

\* objs-v2, complete, becomes objs.
LEMMA RenameV2Here ==
    ASSUME NEW p \in Processes, Here(p), RenameV2(p)
    PROVE  Here(p)'
<1>1. /\ proc[p].pc = "rename" /\ objs' = objsV2 /\ objsV2' = NoDir /\ Goto(p, "version")
      /\ UNCHANGED <<lock, ver, config, stored, faults>>
  BY DEF RenameV2, At
<1>2. /\ objsV2 # NoDir /\ ver # CurrentFSVersion /\ Loadable(objsV2) /\ objs = NoDir
      /\ objsV2.flat = {}
  BY <1>1 DEF Here, Established, At, FormatInv
<1>3. proc' \in [Processes -> Locals] /\ proc'[p].pc = "version"
  BY <1>1, GotoType DEF Here, Steps
<1>4. TypeOK'
  <2>1. Sorted(objs') /\ Sorted(objsV2')
    BY <1>1, DirsSorted DEF Here, Sorted, Held
  <2>2. QED
    BY <1>1, <1>3, <2>1, FilesTyped DEF Here, TypeOK
<1>5. config # NoFile
  BY <1>1 DEF Here, Established, At
<1>6. FormatInv'
  BY <1>1, <1>2, <1>5 DEF Here, FormatInv, Loadable
<1>7. Established(p)'
  BY <1>1, <1>2, <1>3 DEF Established, At
<1>8. OneFaultAtMost' => LocatedAt(p)'
  <2>1. ASSUME OneFaultAtMost PROVE stored \subseteq InBuckets(objsV2)
    BY <1>1, <2>1 DEF Here, LocatedAt
  <2>2. ASSUME objsV2.bkt = NoBuckets PROVE \A o : o \notin InBuckets(objsV2)
    <3>1. \A b \in Buckets : Held(objsV2, b) = {}
      BY <2>2 DEF Held, NoBuckets
    <3>2. QED
      BY <3>1, InBucketsDef
  <2>3. QED
    BY <1>1, <1>2, <1>3, <2>1, <2>2 DEF OneFaultAtMost, LocatedAt, Walkable
<1>9. QED
  BY <1>4, <1>6, <1>7, <1>8 DEF Here

LEMMA TruncateVersionHere ==
    ASSUME NEW p \in Processes, Here(p), TruncateVersion(p)
    PROVE  Here(p)'
<1>1. /\ proc[p].pc = "version" /\ ver' = Torn /\ Goto(p, "writeVersion")
      /\ UNCHANGED <<lock, config, objs, objsV2, stored, faults>>
      /\ ver # CurrentFSVersion /\ Torn # CurrentFSVersion /\ objs # NoDir /\ objs.flat = {}
  BY AbsenceAssumption DEF TruncateVersion, At, Here, Established
<1>2. proc' \in [Processes -> Locals] /\ proc'[p].pc = "writeVersion"
  BY <1>1, GotoType DEF Here, Steps
<1>3. TypeOK' /\ FormatInv'
  BY <1>1, <1>2 DEF Here, TypeOK, FormatInv, Loadable, InFlat
<1>4. Established(p)'
  BY <1>1, <1>2 DEF Established, At
<1>5. OneFaultAtMost' => LocatedAt(p)'
  BY <1>1, <1>2 DEF Here, OneFaultAtMost, LocatedAt, RemovingAt, MemoryOf, Walkable, At
<1>6. QED
  BY <1>3, <1>4, <1>5 DEF Here

\* The version is raised over a directory that is complete.
LEMMA WriteVersionHere ==
    ASSUME NEW p \in Processes, Here(p), WriteVersion(p)
    PROVE  Here(p)'
<1>1. /\ proc[p].pc = "writeVersion" /\ ver' = CurrentFSVersion /\ Goto(p, "readVersion")
      /\ UNCHANGED <<lock, config, objs, objsV2, stored, faults>>
      /\ objs # NoDir /\ objs.flat = {}
  BY DEF WriteVersion, At, Here, Established
<1>2. proc' \in [Processes -> Locals] /\ proc'[p].pc = "readVersion"
  BY <1>1, GotoType DEF Here, Steps
<1>3. TypeOK' /\ FormatInv'
  BY <1>1, <1>2 DEF Here, TypeOK, FormatInv, Loadable, InFlat
<1>4. Established(p)'
  BY <1>2 DEF Established, At
<1>5. OneFaultAtMost' => LocatedAt(p)'
  BY <1>1, <1>2 DEF Here, OneFaultAtMost, LocatedAt
<1>6. QED
  BY <1>3, <1>4, <1>5 DEF Here

\* What a failed migration has made is removed, its source being whole.
LEMMA CleanupBucketHere ==
    ASSUME NEW p \in Processes, Here(p), NEW b \in Buckets, CleanupBucket(p, b)
    PROVE  Here(p)'
<1>1. /\ proc[p].pc = "cleanup" /\ objsV2' = [objsV2 EXCEPT !.bkt[b] = NoFile]
      /\ UNCHANGED <<lock, ver, config, objs, stored, proc, faults>>
  BY DEF CleanupBucket, At
<1>2. objsV2 # NoDir /\ objsV2 \in Dirs /\ ver # CurrentFSVersion
  BY <1>1 DEF Here, Established, TypeOK
<1>3. /\ objsV2' \in Dirs /\ objsV2' # NoDir /\ objsV2'.flat = objsV2.flat
      /\ objsV2'.bkt[b] = NoFile /\ \A x \in Buckets \ {b} : objsV2'.bkt[x] = objsV2.bkt[x]
  BY <1>1, <1>2, AbsenceAssumption DEF Dirs
<1>4. Held(objsV2', b) = {} /\ \A x \in Buckets \ {b} : Held(objsV2', x) = Held(objsV2, x)
  BY <1>2, <1>3 DEF Held
<1>5. TypeOK'
  <2>1. Sorted(objs') /\ Sorted(objsV2')
    BY <1>1, <1>3, <1>4, DirsSorted DEF Here, Sorted
  <2>2. QED
    BY <1>1, <2>1, FilesTyped DEF Here, TypeOK
<1>6. FormatInv'
  BY <1>1, <1>2, <1>3, LifecycleAssumption DEF Here, FormatInv, InFlat
<1>7. Established(p)'
  BY <1>1, <1>2, <1>3 DEF Established, At
<1>8. OneFaultAtMost' => LocatedAt(p)'
  BY <1>1, <1>2 DEF Here, OneFaultAtMost, LocatedAt, RemovingAt, At, Walkable
<1>9. QED
  BY <1>5, <1>6, <1>7, <1>8 DEF Here

LEMMA CleanupHere ==
    ASSUME NEW p \in Processes, Here(p), Cleanup(p)
    PROVE  Here(p)'
<1>1. /\ proc[p].pc = "cleanup" /\ objsV2' = NoDir /\ Goto(p, "unlock")
      /\ UNCHANGED <<lock, ver, config, objs, stored, faults>>
      /\ ver # CurrentFSVersion
  BY DEF Cleanup, At, Here, Established
<1>2. proc' \in [Processes -> Locals] /\ proc'[p].pc = "unlock"
  BY <1>1, GotoType DEF Here, Steps
<1>3. TypeOK'
  <2>1. Sorted(objs') /\ Sorted(objsV2')
    BY <1>1, DirsSorted DEF Here, Sorted, Held
  <2>2. QED
    BY <1>1, <1>2, <2>1, FilesTyped DEF Here, TypeOK
<1>4. FormatInv'
  BY <1>1 DEF Here, FormatInv, InFlat, Loadable
<1>5. Established(p)'
  BY <1>2 DEF Established, At
<1>6. OneFaultAtMost' => LocatedAt(p)'
  BY <1>1, <1>2 DEF Here, OneFaultAtMost, LocatedAt, RemovingAt, At, Walkable
<1>7. QED
  BY <1>3, <1>4, <1>5, <1>6 DEF Here

-----------------------------------------------------------------------------
\* Every step of a process, given that the others are idle.
LEMMA InitStepHere ==
    ASSUME NEW p \in Processes, Here(p), InitStep(p)
    PROVE  Here(p)'
<1>1. CASE LockFS(p, "initConfig")
  BY <1>1, LeavesHere DEF LockFS, At, Here, TypeOK
<1>2. CASE InitWriteFails(p)
  BY <1>2, LeavesHere DEF InitWriteFails, At, Here, TypeOK
<1>3. CASE InitDirs(p)
  <2>1. ver = CurrentFSVersion /\ config # NoFile
    BY <1>3 DEF InitDirs, At, Here, Established
  <2>2. QED
    BY <1>3, <2>1, MakesDirHere DEF InitDirs, At
<1>4. QED
  BY <1>1, <1>2, <1>3, InitReadConfigHere, InitWriteVersionHere, InitVerifyHere DEF InitStep

LEMMA UseStepHere ==
    ASSUME NEW p \in Processes, Here(p), UseStep(p)
    PROVE  Here(p)'
<1>1. CASE LockFS(p, "newConfig")
  BY <1>1, LeavesHere DEF LockFS, At, Here, TypeOK
<1>2. CASE Open(p)
  <2>1. ver = CurrentFSVersion /\ config # NoFile
    BY <1>2, LifecycleAssumption, AbsenceAssumption DEF Open, Version, CurrentFSVersion
  <2>2. QED
    BY <1>2, <2>1, MakesDirHere DEF Open, At
<1>3. CASE OpenFails(p) \/ Close(p)
  BY <1>3, LeavesHere DEF OpenFails, Close, At, Here, TypeOK
<1>4. QED
  BY <1>1, <1>2, <1>3, StoreHere DEF UseStep

LEMMA MigrateStepHere ==
    ASSUME NEW p \in Processes, Here(p), MigrateStep(p)
    PROVE  Here(p)'
<1>0. lock \in Processes \union {NoProcess, Stale} /\ Established(p)
  BY DEF Here, TypeOK
<1>1. CASE LockFS(p, "readVersion") \/ MigrateDone(p)
  BY <1>0, <1>1, LeavesHere DEF LockFS, MigrateDone, At
<1>2. CASE WalkRejects(p)
  BY <1>0, <1>2, LeavesHere DEF WalkRejects, At, Established
<1>3. CASE WalkFails(p)
  <2>1. objsV2 # NoDir /\ ver # CurrentFSVersion
    BY <1>0, <1>3 DEF WalkFails, Established
  <2>2. QED
    BY <1>0, <1>3, <2>1, LeavesHere DEF WalkFails
<1>4. CASE RemoveObjsFails(p) \/ RenameV2Fails(p)
  <2>1. objsV2 # NoDir /\ ver # CurrentFSVersion
    BY <1>0, <1>4 DEF RemoveObjsFails, RenameV2Fails, At, Established
  <2>2. QED
    BY <1>0, <1>4, <2>1, LeavesHere DEF RemoveObjsFails, RenameV2Fails, At
<1>5. CASE WriteVersionFails(p) \/ CleanupFails(p)
  BY <1>0, <1>5, LeavesHere DEF WriteVersionFails, CleanupFails, At
<1>6. ASSUME NEW o \in Objects, WalkObject(p, o) PROVE Here(p)'
  BY <1>6, WalkObjectHere, WalkObjectTornHere
<1>7. QED
  BY <1>1, <1>2, <1>3, <1>4, <1>5, <1>6, MigrateStartHere, WalkWriteHere, WalkEndsHere,
     RemoveObjectHere, RemoveObjsHere, RenameV2Here, TruncateVersionHere, WriteVersionHere,
     CleanupBucketHere, CleanupHere DEF MigrateStep

\* The others are idle before a step of a process, and after it.
LEMMA StepHolds ==
    ASSUME LockInv, NEW p \in Processes, InitStep(p) \/ UseStep(p) \/ MigrateStep(p)
    PROVE  OthersIdle(p) /\ lock' = p
<1>1. CASE \E step : LockFS(p, step)
  <2>1. lock = NoProcess /\ lock' = p
    BY <1>1 DEF LockFS
  <2>2. QED
    BY <2>1, LifecycleAssumption DEF LockInv, InsideHoldsLock, OthersIdle
<1>2. CASE ~At(p, "idle") /\ lock' = lock
  BY <1>2 DEF LockInv, InsideHoldsLock, OthersIdle
<1>3. CASE InitStep(p)
  <2>1. (\E step : LockFS(p, step)) \/ (~At(p, "idle") /\ lock' = lock)
    BY <1>3 DEF InitStep, InitReadConfig, InitWriteVersion, InitWriteFails, InitVerify,
       InitWriteConfig, InitDirs, At
  <2>2. QED
    BY <1>1, <1>2, <2>1
<1>4. CASE UseStep(p)
  <2>1. (\E step : LockFS(p, step)) \/ (~At(p, "idle") /\ lock' = lock)
    BY <1>4 DEF UseStep, Open, OpenFails, Store, Close, At
  <2>2. QED
    BY <1>1, <1>2, <2>1
<1>5. CASE MigrateStep(p)
  <2>1. CASE \/ MigrateDone(p) \/ MigrateStart(p) \/ WalkRejects(p) \/ WalkWrite(p)
             \/ WalkFails(p) \/ WalkEnds(p) \/ RemoveObjs(p) \/ RemoveObjsFails(p)
    BY <1>2, <2>1 DEF MigrateDone, MigrateStart, WalkRejects, WalkWrite, WalkFails, WalkEnds,
       RemoveObjs, RemoveObjsFails, At
  <2>2. CASE \/ RenameV2(p) \/ RenameV2Fails(p) \/ TruncateVersion(p) \/ WriteVersion(p)
             \/ WriteVersionFails(p) \/ Cleanup(p) \/ CleanupFails(p)
    BY <1>2, <2>2 DEF RenameV2, RenameV2Fails, TruncateVersion, WriteVersion,
       WriteVersionFails, Cleanup, CleanupFails, At
  <2>3. CASE \E o \in Objects : WalkObject(p, o) \/ RemoveObject(p, o)
    BY <1>2, <2>3 DEF WalkObject, RemoveObject, At
  <2>4. CASE \E b \in Buckets : CleanupBucket(p, b)
    BY <1>2, <2>4 DEF CleanupBucket, At
  <2>5. QED
    BY <1>1, <1>5, <2>1, <2>2, <2>3, <2>4 DEF MigrateStep
<1>6. QED
  BY <1>3, <1>4, <1>5

LEMMA LeavesTheLock ==
    ASSUME NEW p \in Processes, Here(p), OthersIdle(p), Unlock(p) \/ Crash(p)
    PROVE  Here(p)' /\ OthersIdle(p)'
<1>1. Here(p)'
  BY LeavesHere DEF Unlock, Crash, At
<1>2. \A q \in Processes \ {p} : proc'[q] = proc[q]
  BY DEF Unlock, Crash, Goto, Here, TypeOK
<1>3. QED
  BY <1>1, <1>2 DEF OthersIdle, At

LEMMA LifeLocked ==
    LifeInv => LockInv
BY DEF LifeInv, LockInv, TypeOK

\* Only the lock file, or nothing at all, changes.
LEMMA LockOnlyKeepsLife ==
    ASSUME LifeInv, UNCHANGED <<files, proc, faults>>,
           lock' \in Processes \union {NoProcess, Stale}, InsideHoldsLock'
    PROVE  LifeInv'
<1>1. TypeOK' /\ FormatInv'
  BY DEF LifeInv, TypeOK, FormatInv, files, Loadable, InFlat
<1>2. \A p \in Processes : Established(p)'
  BY DEF LifeInv, Established, At, files, Walkable, Loadable
<1>3. OneFaultAtMost' => Located'
  <2>1. InMemory' = InMemory
    BY DEF InMemory, At
  <2>2. Removing' <=> Removing
    BY <2>1 DEF Removing, At, files
  <2>3. QED
    BY <2>2 DEF LifeInv, OneFaultAtMost, Located, files, Walkable
<1>4. QED
  BY <1>1, <1>2, <1>3 DEF LifeInv

LEMMA LifeInvNext ==
    ASSUME LifeInv, [Next]_vars
    PROVE  LifeInv'
<1>0. LockInv' /\ LockInv
  BY LifeLocked, LockInvNext
<1>1. ASSUME NEW p \in Processes, InitStep(p) \/ UseStep(p) \/ MigrateStep(p) PROVE LifeInv'
  <2>1. OthersIdle(p) /\ lock' = p
    BY <1>0, <1>1, StepHolds
  <2>2. OthersIdle(p)'
    BY <1>0, <2>1 DEF LockInv, InsideHoldsLock, OthersIdle
  <2>3. Here(p)
    BY <2>1, ComesHere
  <2>4. Here(p)'
    BY <1>1, <2>3, InitStepHere, UseStepHere, MigrateStepHere
  <2>5. QED
    BY <1>0, <2>2, <2>4, GoesFromHere DEF LockInv
<1>2. ASSUME NEW p \in Processes, Unlock(p) \/ Crash(p) PROVE LifeInv'
  <2>1. OthersIdle(p)
    BY <1>0, <1>2 DEF Unlock, Crash, At, LockInv, InsideHoldsLock, OthersIdle
  <2>2. Here(p)
    BY <2>1, ComesHere
  <2>3. Here(p)' /\ OthersIdle(p)'
    BY <1>2, <2>1, <2>2, LeavesTheLock
  <2>4. QED
    BY <1>0, <2>3, GoesFromHere DEF LockInv
<1>3. CASE RemoveStaleLock \/ UNCHANGED vars
  <2>1. /\ UNCHANGED <<files, proc, faults>>
        /\ lock' \in Processes \union {NoProcess, Stale}
    BY <1>3 DEF RemoveStaleLock, vars, files, LifeInv, TypeOK
  <2>2. QED
    BY <1>0, <2>1, LockOnlyKeepsLife DEF LockInv
<1>4. QED
  BY <1>1, <1>2, <1>3 DEF Next

\* The three roots a run may start from.
LEMMA LifeInvInit == Init => LifeInv
<1> SUFFICES ASSUME Init PROVE LifeInv
  OBVIOUS
<1> DEFINE of(b) == {o \in stored : BucketOf[o] = b}
           bkt == [b \in Buckets |-> IF of(b) = {} THEN NoFile ELSE of(b)]
<1>0. /\ stored \subseteq Objects /\ objsV2 = NoDir /\ lock = NoProcess /\ faults = <<>>
      /\ proc = [p \in Processes |-> Idle] /\ Idle.pc = "idle" /\ Idle \in Locals
      /\ NoDir \notin Dirs /\ CurrentFSVersion \notin {NoFile, Torn} /\ NoFile # Torn
  BY LifecycleAssumption, AbsenceAssumption DEF Init, Idle, Locals, Steps
<1>1. \A p \in Processes : At(p, "idle")
  BY <1>0 DEF At
<1>2. \/ stored = {} /\ ver = NoFile /\ config = NoFile /\ objs = NoDir
      \/ ver = NoFile /\ config = "ok" /\ objs = [flat |-> stored, bkt |-> NoBuckets]
      \/ ver = CurrentFSVersion /\ config = "ok" /\ objs = [flat |-> {}, bkt |-> bkt]
  BY DEF Init, EmptyDir
<1>3. \A b \in Buckets : Held([flat |-> stored, bkt |-> NoBuckets], b) = {}
  BY DEF Held, NoBuckets
<1>4. /\ bkt \in [Buckets -> {NoFile, Torn} \union SUBSET Objects]
      /\ \A b \in Buckets : bkt[b] # Torn
      /\ \A b \in Buckets : bkt[b] = IF of(b) = {} THEN NoFile ELSE of(b)
  <2>1. \A b \in Buckets : of(b) \in SUBSET Objects /\ of(b) # Torn /\ NoFile # Torn
    BY <1>0, LifecycleAssumption
  <2> HIDE DEF of
  <2>2. QED
    BY <2>1
<1> DEFINE dir == [flat |-> {}, bkt |-> bkt]
<1>5. \A b \in Buckets : dir # NoDir => Held(dir, b) = of(b)
  <2>1. \A b \in Buckets : of(b) \notin {NoFile, Torn}
    BY <1>0, LifecycleAssumption
  <2>2. dir.bkt = bkt
    OBVIOUS
  <2> HIDE DEF of, bkt, dir
  <2>3. QED
    BY <1>4, <2>1, <2>2 DEF Held
<1>6. dir \in Dirs /\ dir # NoDir
  <2> HIDE DEF bkt
  <2>1. QED
    BY <1>0, <1>4 DEF Dirs
<1>7. [flat |-> stored, bkt |-> NoBuckets] \in Dirs
  BY <1>0 DEF Dirs, NoBuckets
<1>8. Sorted(objs) /\ Sorted(objsV2)
  <2>1. Sorted(NoDir)
    BY DEF Sorted, Held
  <2>2. Sorted([flat |-> stored, bkt |-> NoBuckets])
    BY <1>3, <1>7 DEF Sorted
  <2>3. Sorted(dir)
    BY <1>5, <1>6 DEF Sorted
  <2>4. QED
    BY <1>0, <1>2, <2>1, <2>2, <2>3
<1>9. TypeOK
  BY <1>0, <1>2, <1>8, LifecycleAssumption DEF TypeOK, Sorted
<1>10. FormatInv
  <2>1. \A b \in Buckets : NoBuckets[b] # Torn
    BY <1>0 DEF NoBuckets
  <2>2. QED
    BY <1>0, <1>2, <1>4, <2>1, AbsenceAssumption DEF FormatInv, Loadable, InFlat
<1>11. \A p \in Processes : Established(p)
  BY <1>1 DEF Established, At
<1>12. Located
  <2>1. CASE objs = dir /\ ver = CurrentFSVersion
    <3>1. stored \subseteq InBuckets(dir)
      BY <1>0, <1>5, <1>6, InBucketsDef, LifecycleAssumption
    <3>2. QED
      BY <1>1, <2>1, <3>1 DEF Located, At
  <2>2. QED
    BY <1>0, <1>1, <1>2, <2>1 DEF Located, At, Walkable
<1>13. QED
  BY <1>1, <1>9, <1>10, <1>11, <1>12 DEF LifeInv, InsideHoldsLock

-----------------------------------------------------------------------------
\* What is where, in every state of the root's life, whatever fails or crashes.
THEOREM LifeSpecInv == Spec => []LifeInv
BY LifeInvInit, LifeInvNext, PTL DEF Spec

\* Every file and directory, and the locals of every process, are of their
\* type; a bucket file has only objects of its prefix.
THEOREM LifeTypes == Spec => []TypeOK
<1>1. LifeInv => TypeOK
  BY DEF LifeInv
<1>2. QED
  BY <1>1, LifeSpecInv, PTL

\* New never opens an FS in another format than its own: not one that Init or
\* Migrate left half made, whatever failed or crashed in them and how often.
THEOREM OpensTheCurrentFormat == Spec => []OpenIsCurrent
<1>1. LifeInv => OpenIsCurrent
  BY DEF LifeInv, FormatInv, Established, OpenIsCurrent, Version, Loadable, InFlat
<1>2. QED
  BY <1>1, LifeSpecInv, PTL

LEMMA LocatedSurvives ==
    ASSUME LifeInv
    PROVE  MigrationSurvivesOneFault
<1> SUFFICES ASSUME OneFaultAtMost PROVE VersionedMeansComplete /\ LossIsNoticed
  BY DEF MigrationSurvivesOneFault
<1>0. Located /\ (Version = CurrentFSVersion <=> ver = CurrentFSVersion)
      /\ (ver # CurrentFSVersion => Version < CurrentFSVersion)
  BY DEF LifeInv, Version, CurrentFSVersion
<1>1. VersionedMeansComplete
  BY <1>0 DEF Located, VersionedMeansComplete
<1>2. CASE ver = CurrentFSVersion
  BY <1>0, <1>1, <1>2 DEF VersionedMeansComplete, LossIsNoticed
<1>3. CASE objs = NoDir /\ ver # CurrentFSVersion
  BY <1>0, <1>1, <1>3 DEF LossIsNoticed
<1>4. CASE objs # NoDir /\ objs.bkt # NoBuckets
  BY <1>0, <1>1, <1>4 DEF Located, LossIsNoticed
<1>5. CASE ver # CurrentFSVersion /\ Walkable
  BY <1>0, <1>1, <1>5 DEF Located, Removing, LossIsNoticed, Walkable, InFlat
<1>6. QED
  BY <1>1, <1>2, <1>3, <1>4, <1>5 DEF Walkable

\* A migration that crashes once, or has one write or rename fail, loses no
\* object without a notice, at whatever step, of whatever directory.
THEOREM OneFaultLosesNothing == Spec => []MigrationSurvivesOneFault
BY LocatedSurvives, LifeSpecInv, PTL

\* A migration that refuses the directory it finds refuses one with every
\* object ever stored in its bucket file.
THEOREM RefusedHaveEverything == Spec => RejectedIsComplete
<1>1. ASSUME LifeInv, NEW p \in Processes, WalkRejects(p), objs # NoDir, OneFaultAtMost
      PROVE  stored \subseteq InBuckets(objs)
  BY <1>1 DEF LifeInv, Located, WalkRejects, Walkable
<1>2. LifeInv /\ [Next]_vars =>
          [\A p \in Processes :
              WalkRejects(p) /\ objs # NoDir /\ OneFaultAtMost => stored \subseteq InBuckets(objs)]_vars
  BY <1>1
<1>3. QED
  BY <1>2, LifeSpecInv, PTL DEF Spec, RejectedIsComplete
=============================================================================

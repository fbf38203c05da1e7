----------------------------- MODULE MirrorProofs -----------------------------
(***************************************************************************)
(* The mirror of one repository, for every set of threads and any number   *)
(* of calls and pushes.                                                    *)
(***************************************************************************)
EXTENDS Mirror, FiniteSetTheorems, TLAPS

\* Threads that have looked for a mirror and are about to make one.
Cloning == {t \in Threads : pc[t] = "cloning"}

\* Every directory was made by a call of its own.
GenCounted == disk.gen + Cardinality(Cloning) <= calls

\* Between the acquisition of the lock and its release.
Holding(t) == pc[t] \in {"locked", "fetching"}

LockOK ==
    /\ \A t \in Threads :
         pc[t] \in {"waiting", "blocked", "locked", "fetching"} => job[t].lock = 1
    /\ \A t \in Threads : Holding(t) => 1 \in held
    /\ \A s, t \in Threads : Holding(s) /\ Holding(t) => s = t

\* What thread t knew of the directory is void for good: it was deleted, and at
\* most another one was made since.
Void(t) == job[t].gen < disk.gen \/ disk.state \in {"torn", "absent"}

\* A reader's floor is reached unless the directory it belongs to is void; a fetch
\* and a clone under way will not take the refs back.
ThreadOK(t) ==
    /\ job[t].gen <= disk.gen
    /\ job[t].called <= remote
    /\ pc[t] \in {"handle", "waiting", "blocked", "locked", "fetching"} =>
          job[t].floor <= disk.refs
    /\ pc[t] = "fetching" =>
          /\ job[t].called <= job[t].asked /\ job[t].asked <= remote
          /\ job[t].refspec => Void(t) \/ (disk.state = "ready" /\ disk.refs <= job[t].asked)
    /\ pc[t] = "fetched" =>
          IF job[t].refspec
          THEN \/ Void(t)
               \/ disk.state = "ready" /\ job[t].called <= disk.refs /\ job[t].floor <= disk.refs
          ELSE job[t].floor <= disk.refs
    /\ pc[t] = "read" => Void(t) \/ job[t].floor <= job[t].read
    /\ pc[t] = "building" => job[t].asked <= remote
    /\ pc[t] = "building" /\ Owns(t, "building") => disk.refs <= job[t].asked

Inv ==
    /\ TypeOK /\ GenCounted /\ LockOK
    /\ disk.refs <= remote
    /\ \A t \in Threads : ThreadOK(t)

-----------------------------------------------------------------------------
\* The records of jobs that the actions make, field by field.
LEMMA SeenJob ==
    ASSUME TypeOK, NEW t \in Threads
    PROVE  /\ Seen(t) \in [Threads -> Job]
           /\ \A u \in Threads \ {t} : Seen(t)[u] = job[u]
           /\ Seen(t)[t].called = job[t].called /\ Seen(t)[t].floor = job[t].floor
           /\ Seen(t)[t].lock = job[t].lock
           /\ Seen(t)[t].asked = remote /\ Seen(t)[t].gen = disk.gen
           /\ Seen(t)[t].refspec <=> disk.state = "ready" /\ disk.refspec
<1>1. /\ remote \in Version /\ disk.gen \in 0 .. MaxCalls
      /\ (disk.state = "ready" /\ disk.refspec) \in BOOLEAN
  BY DEF TypeOK, Disk
<1> QED BY <1>1 DEF TypeOK, Seen, Job

LEMMA CallJob ==
    ASSUME TypeOK, NEW t \in Threads, Call(t)
    PROVE  /\ job' \in [Threads -> Job]
           /\ \A u \in Threads \ {t} : job'[u] = job[u]
           /\ job'[t].called = remote /\ job'[t].floor = disk.refs /\ job'[t].gen = disk.gen
<1>1. remote \in Version /\ disk.refs \in Version
  BY DEF TypeOK, Disk
<1> DEFINE S == Seen(t)
<1>2. /\ S \in [Threads -> Job] /\ S[t].gen = disk.gen
      /\ \A u \in Threads \ {t} : S[u] = job[u]
  BY SeenJob
<1>3. job' = [S EXCEPT ![t].called = remote, ![t].floor = disk.refs]
  BY DEF Call
<1> HIDE DEF S
<1> QED BY <1>1, <1>2, <1>3 DEF Job

\* How many threads are about to make a directory, as one of them moves.
LEMMA CloningMoves ==
    ASSUME TypeOK, NEW t \in Threads, NEW w, Goes(t, w)
    PROVE  /\ Cardinality(Cloning) \in Nat /\ Cardinality(Cloning') \in Nat
           /\ Cardinality(Cloning') <= Cardinality(Cloning) + 1
           /\ w # "cloning" => Cardinality(Cloning') <= Cardinality(Cloning)
           /\ w # "cloning" /\ pc[t] = "cloning" => Cardinality(Cloning') = Cardinality(Cloning) - 1
<1>1. IsFiniteSet(Cloning)
  BY MirrorAssumption, FS_Subset DEF Cloning
<1>2. Cloning' = IF w = "cloning" THEN Cloning \cup {t} ELSE Cloning \ {t}
  BY DEF Goes, Cloning, TypeOK
<1>3. pc[t] = "cloning" <=> t \in Cloning
  BY DEF Cloning
<1>4. Cardinality(Cloning) \in Nat
  BY <1>1, FS_CardinalityType
<1>5. CASE w = "cloning"
  <2>1. Cardinality(Cloning') = IF t \in Cloning THEN Cardinality(Cloning) ELSE Cardinality(Cloning) + 1
    BY <1>1, <1>2, <1>5, FS_AddElement
  <2> QED BY <1>4, <1>5, <2>1
<1>6. CASE w # "cloning"
  <2>1. Cardinality(Cloning') = IF t \in Cloning THEN Cardinality(Cloning) - 1 ELSE Cardinality(Cloning)
    BY <1>1, <1>2, <1>6, FS_RemoveElement
  <2>2. IsFiniteSet(Cloning')
    BY <1>1, <1>2, <1>6, FS_RemoveElement
  <2>3. Cardinality(Cloning') \in Nat
    BY <2>2, FS_CardinalityType
  <2> QED BY <1>3, <1>4, <1>6, <2>1, <2>3
<1> QED BY <1>5, <1>6

LEMMA GenCountedStep ==
    ASSUME TypeOK, GenCounted, NEW t \in Threads, NEW w, Goes(t, w),
           \/ w # "cloning" /\ calls' \in {calls, calls + 1} /\ disk'.gen = disk.gen
           \/ calls' = calls + 1 /\ disk'.gen = disk.gen
           \/ pc[t] = "cloning" /\ w # "cloning" /\ calls' = calls /\ disk'.gen = disk.gen + 1
    PROVE  GenCounted'
<1>1. calls \in Nat /\ disk.gen \in Nat
  BY DEF TypeOK, Disk
<1> QED BY <1>1, CloningMoves DEF GenCounted

\* A thread that neither holds the lock nor goes for it leaves the lock alone.
LEMMA LockQuiet ==
    ASSUME TypeOK, LockOK, NEW t \in Threads, NEW w, Goes(t, w), ~Holding(t), held' = held,
           w \notin {"waiting", "blocked", "locked", "fetching"},
           \A u \in Threads \ {t} : job'[u] = job[u]
    PROVE  LockOK'
BY DEF TypeOK, LockOK, Goes, Holding

\* What every step does to the directory.
DiskMoves ==
    /\ disk' \in Disk
    /\ disk.gen <= disk'.gen /\ disk.refs <= disk'.refs
    /\ disk'.gen = disk.gen =>
          /\ disk.state \in {"torn", "absent"} => disk'.state \in {"torn", "absent"}
          /\ disk.state = "ready" => disk'.state # "building"
          /\ disk'.state = "building" => disk.state = "building" /\ disk'.refs = disk.refs

\* A thread that does not move keeps its invariant, if nobody else ends a fetch
\* while it fetches.
LEMMA Bystander ==
    ASSUME TypeOK, DiskMoves, NEW u \in Threads, ThreadOK(u),
           remote' \in {remote, remote + 1}, job'[u] = job[u], pc'[u] = pc[u],
           pc[u] = "fetching" /\ disk.state = "ready" => disk'.refs = disk.refs
    PROVE  ThreadOK(u)'
<1>1. /\ disk.gen \in Nat /\ disk'.gen \in Nat /\ disk.refs \in Nat /\ disk'.refs \in Nat
      /\ remote \in Nat
      /\ disk'.state \in {"absent", "building", "ready", "torn"}
    BY DEF DiskMoves, TypeOK, Disk, Version
<1>2. /\ job[u].gen \in Nat /\ job[u].called \in Nat /\ job[u].asked \in Nat
      /\ job[u].floor \in Nat /\ job[u].read \in Nat
  BY DEF TypeOK, Job, Version
<1>3. Void(u) => Void(u)'
  BY <1>1, <1>2 DEF Void, DiskMoves, ThreadOK
<1>4. pc[u] = "building" /\ Owns(u, "building")' => Owns(u, "building") /\ disk'.refs = disk.refs
  BY <1>1, <1>2 DEF Owns, DiskMoves, ThreadOK
<1>5. job[u].refspec \in BOOLEAN
  BY DEF TypeOK, Job
<1>6. disk.state = "ready" => Void(u)' \/ disk'.state = "ready"
  BY <1>1, <1>2 DEF Void, DiskMoves, ThreadOK
<1>7. job[u].gen <= disk'.gen /\ job[u].called <= remote'
  BY <1>1, <1>2 DEF DiskMoves, ThreadOK
<1>8. pc[u] = "fetching" =>
          /\ job[u].called <= job[u].asked /\ job[u].asked <= remote'
          /\ job[u].refspec => Void(u)' \/ (disk'.state = "ready" /\ disk'.refs <= job[u].asked)
  BY <1>1, <1>2, <1>3, <1>6 DEF ThreadOK
<1>9. pc[u] = "fetched" =>
          IF job[u].refspec
          THEN \/ Void(u)'
               \/ disk'.state = "ready" /\ job[u].called <= disk'.refs /\ job[u].floor <= disk'.refs
          ELSE job[u].floor <= disk'.refs
  BY <1>1, <1>2, <1>3, <1>6 DEF ThreadOK, DiskMoves
<1>10. /\ pc[u] = "building" => job[u].asked <= remote'
       /\ pc[u] = "building" /\ Owns(u, "building")' => disk'.refs <= job[u].asked
       /\ pc[u] \in {"handle", "waiting", "blocked", "locked", "fetching"} =>
             job[u].floor <= disk'.refs
  BY <1>1, <1>2, <1>4 DEF ThreadOK, DiskMoves
<1> QED BY <1>3, <1>7, <1>8, <1>9, <1>10 DEF ThreadOK

-----------------------------------------------------------------------------
\* One thread moves: what is left to show of a step of thread t.
LEMMA Together ==
    ASSUME Inv, NEW t \in Threads, NEW w, Goes(t, w),
           w \in Over \cup {"handle", "waiting", "blocked", "locked", "fetching",
                            "cloning", "building", "configuring", "deleting"},
           remote' = remote, calls' \in 0 .. MaxCalls, locks' \in 0 .. 1, held' \subseteq {1},
           job' \in [Threads -> Job], \A u \in Threads \ {t} : job'[u] = job[u],
           DiskMoves, disk'.refs <= remote,
           disk'.refs = disk.refs \/ disk.state # "ready" \/ Holding(t),
           GenCounted', LockOK', ThreadOK(t)'
    PROVE  Inv' /\ DiskMoves
<1>1. TypeOK'
  BY DEF Inv, TypeOK, DiskMoves, Goes
<1>2. ASSUME NEW u \in Threads, u # t PROVE ThreadOK(u)'
  <2>1. job'[u] = job[u] /\ pc'[u] = pc[u]
    BY <1>2 DEF Inv, TypeOK, Goes
  <2>2. pc[u] = "fetching" => ~Holding(t)
    BY <1>2 DEF Inv, LockOK, Holding
  <2> QED BY <2>1, <2>2, Bystander DEF Inv
<1> QED BY <1>1, <1>2 DEF Inv

\* The disk stays as it is.
LEMMA DiskStays == TypeOK /\ disk' = disk => DiskMoves
BY DEF TypeOK, DiskMoves, Disk, Version

LEMMA CallStep ==
    ASSUME Inv, NEW t \in Threads, GetMirror(t) \/ Clone(t) \/ Delete(t)
    PROVE  Inv' /\ DiskMoves
<1> USE DEF Inv
<1>1. Call(t) /\ pc[t] \in Over /\ calls' = calls + 1 /\ calls' \in 0 .. MaxCalls
  BY MirrorAssumption DEF GetMirror, Clone, Delete, Call, TypeOK
<1>2. PICK w \in {"handle", "raised", "cloning", "deleting", "deleted"} : Goes(t, w)
  BY DEF GetMirror, Clone, Delete
<1>3. UNCHANGED <<remote, locks, held>>
  BY DEF GetMirror, Clone, Delete
<1>4. DiskMoves /\ disk'.gen = disk.gen /\ disk'.refs = disk.refs
  <2>1. CASE disk' = disk
    BY <2>1, DiskStays
  <2>2. CASE disk' = [disk EXCEPT !.state = "torn"]
    BY <2>2 DEF DiskMoves, TypeOK, Disk, Version
  <2> QED BY <2>1, <2>2 DEF GetMirror, Clone, Delete
<1>5. /\ job' \in [Threads -> Job] /\ \A u \in Threads \ {t} : job'[u] = job[u]
      /\ job'[t].called = remote /\ job'[t].floor = disk.refs /\ job'[t].gen = disk.gen
  BY <1>1, CallJob
<1>6. pc'[t] = w /\ ~Holding(t)
  BY <1>1, <1>2 DEF Goes, TypeOK, Over, Holding
<1>7. ThreadOK(t)'
  BY <1>2, <1>3, <1>4, <1>5, <1>6 DEF ThreadOK, TypeOK, Disk, Version
<1>8. GenCounted'
  BY <1>1, <1>2, <1>4, GenCountedStep
<1>9. LockOK'
  BY <1>2, <1>3, <1>5, <1>6, LockQuiet
<1> QED BY <1>1, <1>2, <1>3, <1>4, <1>5, <1>7, <1>8, <1>9, Together DEF TypeOK, Over

LEMMA FindLockStep == ASSUME Inv, NEW t \in Threads, FindLock(t) PROVE Inv' /\ DiskMoves
<1> USE DEF Inv
<1>1. /\ pc[t] = "handle" /\ locks' = 1 /\ Goes(t, "waiting") /\ pc'[t] = "waiting"
      /\ UNCHANGED <<remote, disk, held, calls>>
      /\ job' = [job EXCEPT ![t].lock = 1]
  <2>1. LockFor = 1
    BY DEF LockFor, TypeOK
  <2>2. Goes(t, "waiting") => pc'[t] = "waiting"
    BY DEF Goes, TypeOK
  <2> QED BY <2>1, <2>2 DEF FindLock
<1>2. /\ job' \in [Threads -> Job] /\ \A u \in Threads \ {t} : job'[u] = job[u]
      /\ job'[t].lock = 1 /\ job'[t].called = job[t].called
      /\ job'[t].floor = job[t].floor /\ job'[t].gen = job[t].gen
  BY <1>1 DEF TypeOK, Job
<1>3. ThreadOK(t)'
  BY <1>1, <1>2 DEF ThreadOK
<1>4. LockOK'
  BY <1>1, <1>2 DEF LockOK, Holding, Goes, TypeOK
<1>5. GenCounted'
  BY <1>1, GenCountedStep
<1>6. /\ locks' \in 0 .. 1 /\ calls' \in 0 .. MaxCalls /\ held' \subseteq {1}
      /\ DiskMoves /\ disk'.refs <= remote /\ disk'.refs = disk.refs
  BY <1>1, DiskStays DEF TypeOK
<1> QED BY <1>1, <1>2, <1>3, <1>4, <1>5, <1>6, Together

LEMMA WaitStep == ASSUME Inv, NEW t \in Threads, Block(t) \/ Acquire(t) PROVE Inv' /\ DiskMoves
<1> USE DEF Inv
<1>1. /\ pc[t] \in {"waiting", "blocked"}
      /\ UNCHANGED <<remote, disk, job, locks, calls>>
      /\ job[t].lock = 1
  BY DEF Block, Acquire, LockOK
<1>2. PICK w \in {"blocked", "locked"} :
        /\ Goes(t, w) /\ pc'[t] = w
        /\ IF w = "locked" THEN 1 \notin held /\ held' = {1} ELSE held' = held
  BY <1>1 DEF Block, Acquire, AfterWait, Goes, TypeOK
<1>3. ThreadOK(t)'
  BY <1>1, <1>2 DEF ThreadOK
<1>4. LockOK'
  BY <1>1, <1>2 DEF LockOK, Holding, Goes, TypeOK
<1>5. GenCounted'
  BY <1>1, <1>2, GenCountedStep
<1> QED BY <1>1, <1>2, <1>3, <1>4, <1>5, DiskStays, Together DEF TypeOK

\* The holder leaves the with block.
LEMMA LeaveLock ==
    ASSUME TypeOK, LockOK, NEW t \in Threads, Holding(t), NEW how, Leave(t, how),
           how \notin {"waiting", "blocked", "locked", "fetching"},
           \A u \in Threads \ {t} : job'[u] = job[u]
    PROVE  LockOK' /\ held' \subseteq {1} /\ pc'[t] = how /\ Goes(t, how)
<1>1. held' = {} /\ Goes(t, how)
  BY DEF Leave, Released, LockOK, Holding, TypeOK
<1> QED BY <1>1 DEF LockOK, Holding, Goes, TypeOK

LEMMA BeginFetchStep == ASSUME Inv, NEW t \in Threads, BeginFetch(t) PROVE Inv' /\ DiskMoves
<1> USE DEF Inv
<1>1. pc[t] = "locked" /\ Holding(t) /\ UNCHANGED <<remote, disk, locks, calls>>
  BY DEF BeginFetch, Holding
<1>2. CASE Leave(t, "raised") /\ job' = job
  <2>1. LockOK' /\ held' \subseteq {1} /\ pc'[t] = "raised" /\ Goes(t, "raised")
    BY <1>1, <1>2, LeaveLock
  <2>2. ThreadOK(t)'
    BY <1>1, <1>2, <2>1 DEF ThreadOK
  <2>3. GenCounted'
    BY <1>1, <2>1, GenCountedStep
  <2> QED BY <1>1, <1>2, <2>1, <2>2, <2>3, DiskStays, Together DEF TypeOK, Over
<1>3. CASE Goes(t, "fetching") /\ job' = Seen(t) /\ held' = held
  <2>1. /\ job' \in [Threads -> Job] /\ \A u \in Threads \ {t} : job'[u] = job[u]
        /\ job'[t].called = job[t].called /\ job'[t].floor = job[t].floor
        /\ job'[t].lock = job[t].lock
        /\ job'[t].asked = remote /\ job'[t].gen = disk.gen
        /\ job'[t].refspec => disk.state = "ready"
        /\ pc'[t] = "fetching"
    BY <1>3, SeenJob DEF Goes, TypeOK
  <2>2. ThreadOK(t)'
    BY <1>1, <2>1 DEF ThreadOK, TypeOK, Disk, Version
  <2>3. LockOK'
    BY <1>1, <1>3, <2>1 DEF LockOK, Holding, Goes, TypeOK
  <2>4. GenCounted'
    BY <1>1, <1>3, GenCountedStep
  <2> QED BY <1>1, <1>3, <2>1, <2>2, <2>3, <2>4, DiskStays, Together DEF TypeOK
<1> QED BY <1>2, <1>3 DEF BeginFetch

\* A fetch sets the refs to what the remote had when git asked, which was no less
\* than what the mirror has had since: nobody else fetches.
LEMMA EndFetchStep == ASSUME Inv, NEW t \in Threads, EndFetch(t) PROVE Inv' /\ DiskMoves
<1> USE DEF Inv
<1>1. pc[t] = "fetching" /\ Holding(t) /\ UNCHANGED <<remote, locks, calls>>
  BY DEF EndFetch, Holding
<1>2. CASE Leave(t, "raised") /\ job' = job /\ disk' = disk
  <2>1. LockOK' /\ held' \subseteq {1} /\ pc'[t] = "raised" /\ Goes(t, "raised")
    BY <1>1, <1>2, LeaveLock
  <2>2. ThreadOK(t)'
    BY <1>1, <1>2, <2>1 DEF ThreadOK
  <2>3. GenCounted'
    BY <1>1, <1>2, <2>1, GenCountedStep
  <2> QED BY <1>1, <1>2, <2>1, <2>2, <2>3, DiskStays, Together DEF TypeOK, Over
<1>3. CASE /\ Leave(t, "fetched")
           /\ disk' = IF job[t].refspec /\ disk.state = "ready" /\ disk.gen = job[t].gen
                        THEN [disk EXCEPT !.refs = job[t].asked] ELSE disk
           /\ job' = IF job[t].refspec THEN [job EXCEPT ![t].floor = job[t].called] ELSE job
  <2> DEFINE Updates == job[t].refspec /\ disk.state = "ready" /\ disk.gen = job[t].gen
  <2>0. /\ job[t].called \in Version /\ job[t].asked \in Version /\ job[t].floor \in Version
        /\ disk.refs \in Version /\ disk.gen \in Nat /\ job[t].gen \in Nat
        /\ job[t].refspec \in BOOLEAN
        /\ job[t].called <= job[t].asked /\ job[t].asked <= remote /\ remote \in Version
        /\ job[t].gen <= disk.gen
    BY <1>1 DEF TypeOK, Disk, Job, ThreadOK
  <2>1. /\ job' \in [Threads -> Job] /\ \A u \in Threads \ {t} : job'[u] = job[u]
        /\ job'[t].called = job[t].called /\ job'[t].gen = job[t].gen
        /\ job'[t].refspec = job[t].refspec
        /\ job'[t].floor = IF job[t].refspec THEN job[t].called ELSE job[t].floor
    BY <1>3, <2>0 DEF TypeOK, Job
  <2>2. LockOK' /\ held' \subseteq {1} /\ pc'[t] = "fetched" /\ Goes(t, "fetched")
    BY <1>1, <1>3, <2>1, LeaveLock
  <2>3. /\ disk'.gen = disk.gen /\ disk'.state = disk.state
        /\ disk'.refs = IF Updates THEN job[t].asked ELSE disk.refs
        /\ disk' \in Disk
    BY <1>3, <2>0 DEF TypeOK, Disk
  <2>4. Updates => disk.refs <= job[t].asked
    BY <1>1, <2>0 DEF ThreadOK, Void
  <2>5. DiskMoves /\ disk'.refs <= remote
    BY <2>0, <2>3, <2>4 DEF DiskMoves, Version
  <2>6. job[t].refspec /\ ~Updates => Void(t)
    BY <1>1, <2>0 DEF ThreadOK, Void
  <2>7. Void(t)' <=> Void(t)
    BY <2>1, <2>3 DEF Void
  <2>8. ThreadOK(t)'
    <3>1. ASSUME job[t].refspec
          PROVE  \/ Void(t)'
                 \/ disk'.state = "ready" /\ job'[t].called <= disk'.refs /\ job'[t].floor <= disk'.refs
      BY <2>0, <2>1, <2>3, <2>6, <2>7, <3>1 DEF Version
    <3>2. ~job[t].refspec => job'[t].floor <= disk'.refs
      BY <1>1, <2>1, <2>3 DEF ThreadOK
    <3>3. job'[t].gen <= disk'.gen /\ job'[t].called <= remote'
      BY <1>1, <2>0, <2>1, <2>3 DEF ThreadOK
    <3> QED BY <2>1, <2>2, <3>1, <3>2, <3>3 DEF ThreadOK
  <2>9. GenCounted'
    BY <1>1, <2>2, <2>3, GenCountedStep
  <2> QED BY <1>1, <2>1, <2>2, <2>5, <2>8, <2>9, Together DEF TypeOK, Over
<1> QED BY <1>2, <1>3 DEF EndFetch

\* A reader gets what the mirror has.
LEMMA ReadStep == ASSUME Inv, NEW t \in Threads, Read(t) PROVE Inv' /\ DiskMoves
<1> USE DEF Inv
<1>1. pc[t] \in {"handle", "fetched"} /\ UNCHANGED <<remote, disk, locks, held, calls>>
  BY DEF Read
<1>2. PICK w \in {"raised", "read"} :
        /\ Goes(t, w)
        /\ IF w = "raised" THEN job' = job ELSE job' = [job EXCEPT ![t].read = disk.refs]
  BY DEF Read
<1>3. /\ job' \in [Threads -> Job] /\ \A u \in Threads \ {t} : job'[u] = job[u]
      /\ job'[t].called = job[t].called /\ job'[t].gen = job[t].gen
      /\ job'[t].floor = job[t].floor
      /\ w = "read" => job'[t].read = disk.refs
  BY <1>2 DEF TypeOK, Disk, Job
<1>4. pc'[t] = w /\ ~Holding(t)
  BY <1>1, <1>2 DEF Goes, Holding, TypeOK
<1>5. Void(t)' <=> Void(t)
  BY <1>1, <1>3 DEF Void
<1>6. job[t].floor <= disk.refs \/ Void(t)
  BY <1>1 DEF ThreadOK
<1>7. ThreadOK(t)'
  BY <1>1, <1>2, <1>3, <1>4, <1>5, <1>6 DEF ThreadOK
<1>8. LockOK' /\ GenCounted'
  BY <1>1, <1>2, <1>3, <1>4, LockQuiet, GenCountedStep
<1> QED BY <1>1, <1>2, <1>3, <1>7, <1>8, DiskStays, Together DEF TypeOK, Over

LEMMA BeginCloneStep == ASSUME Inv, NEW t \in Threads, BeginClone(t) PROVE Inv' /\ DiskMoves
<1> USE DEF Inv
<1>1. pc[t] = "cloning" /\ ~Holding(t) /\ UNCHANGED <<remote, locks, held, calls>>
  BY DEF BeginClone, Holding
<1>2. CASE Goes(t, "raised") /\ disk' = disk /\ job' = job
  <2>1. pc'[t] = "raised"
    BY <1>2 DEF Goes, TypeOK
  <2>2. ThreadOK(t)'
    BY <1>1, <1>2, <2>1 DEF ThreadOK
  <2>3. LockOK' /\ GenCounted'
    BY <1>1, <1>2, LockQuiet, GenCountedStep
  <2> QED BY <1>1, <1>2, <2>2, <2>3, DiskStays, Together DEF TypeOK, Over
<1>3. CASE /\ ~Exists /\ Goes(t, "building")
           /\ disk' = [disk EXCEPT !.state = "building", !.gen = disk.gen + 1, !.refspec = FALSE]
           /\ job' = [job EXCEPT ![t].asked = remote, ![t].gen = disk.gen + 1]
  <2>1. /\ disk.gen \in Nat /\ calls \in 0 .. MaxCalls /\ remote \in Version
        /\ disk.refs \in Version
    BY DEF TypeOK, Disk
  <2>2. disk.gen + 1 \in 0 .. MaxCalls
    <3>1. Cardinality(Cloning') = Cardinality(Cloning) - 1 /\ Cardinality(Cloning') \in Nat
          /\ Cardinality(Cloning) \in Nat
      BY <1>1, <1>3, CloningMoves
    <3> QED BY <2>1, <3>1, MirrorAssumption DEF GenCounted
  <2>3. /\ disk' \in Disk /\ disk'.state = "building" /\ disk'.gen = disk.gen + 1
        /\ disk'.refs = disk.refs
    BY <1>3, <2>2 DEF TypeOK, Disk
  <2>4. /\ job' \in [Threads -> Job] /\ \A u \in Threads \ {t} : job'[u] = job[u]
        /\ job'[t].called = job[t].called /\ job'[t].asked = remote
        /\ job'[t].gen = disk.gen + 1
    BY <1>3, <2>1, <2>2 DEF TypeOK, Job
  <2>5. DiskMoves
    BY <2>1, <2>3 DEF DiskMoves, Version
  <2>6. pc'[t] = "building"
    BY <1>3 DEF Goes, TypeOK
  <2>7. ThreadOK(t)'
    BY <1>1, <2>1, <2>3, <2>4, <2>6 DEF ThreadOK, Version
  <2>8. LockOK' /\ GenCounted'
    BY <1>1, <1>3, <2>3, <2>4, LockQuiet, GenCountedStep
  <2> QED BY <1>1, <1>3, <2>3, <2>4, <2>5, <2>7, <2>8, Together DEF TypeOK
<1> QED BY <1>2, <1>3 DEF BeginClone

\* The refs of a new mirror are what the remote had when its clone began, which
\* was no less than what the mirror before it had.
LEMMA EndCloneStep == ASSUME Inv, NEW t \in Threads, EndClone(t) PROVE Inv' /\ DiskMoves
<1> USE DEF Inv
<1>1. pc[t] = "building" /\ ~Holding(t) /\ UNCHANGED <<remote, job, locks, held, calls>>
  BY DEF EndClone, Holding
<1>2. /\ disk.gen \in Nat /\ disk.refs \in Version /\ job[t].asked \in Version
      /\ remote \in Version
  BY DEF TypeOK, Disk, Job
<1>3. PICK w \in {"configuring", "raised"} : Goes(t, w)
  BY DEF EndClone
<1>4. /\ disk' \in Disk /\ disk'.gen = disk.gen
      /\ \/ disk' = disk
         \/ disk.state = "building" /\ disk'.state = "absent" /\ disk'.refs = disk.refs
         \/ Owns(t, "building") /\ disk'.state = "ready" /\ disk'.refs = job[t].asked
  BY <1>2 DEF EndClone, TypeOK, Disk, Owns
<1>5. DiskMoves /\ disk'.refs <= remote /\ (disk'.refs = disk.refs \/ disk.state # "ready")
  <2>1. Owns(t, "building") => disk.refs <= job[t].asked /\ job[t].asked <= remote
    BY <1>1 DEF ThreadOK
  <2> QED BY <1>2, <1>4, <2>1 DEF DiskMoves, Version, Owns
<1>6. pc'[t] = w
  BY <1>3 DEF Goes, TypeOK
<1>7. ThreadOK(t)'
  BY <1>1, <1>3, <1>4, <1>6 DEF ThreadOK
<1>8. LockOK' /\ GenCounted'
  BY <1>1, <1>3, <1>4, LockQuiet, GenCountedStep
<1> QED BY <1>1, <1>3, <1>4, <1>5, <1>7, <1>8, Together DEF TypeOK, Over

LEMMA ConfigureStep == ASSUME Inv, NEW t \in Threads, Configure(t) \/ EndDelete(t) PROVE Inv' /\ DiskMoves
<1> USE DEF Inv
<1>1. /\ pc[t] \in {"configuring", "deleting"} /\ ~Holding(t)
      /\ UNCHANGED <<remote, job, locks, held, calls>>
  BY DEF Configure, EndDelete, Holding
<1>2. PICK w \in {"raised", "cloned", "deleted"} : Goes(t, w)
  BY DEF Configure, EndDelete
<1>3. /\ disk' \in Disk /\ disk'.gen = disk.gen /\ disk'.refs = disk.refs
      /\ disk'.state = disk.state \/ (disk.state = "torn" /\ disk'.state = "absent")
  <2>1. CASE disk' = disk
    BY <2>1 DEF TypeOK
  <2>2. CASE disk' = [disk EXCEPT !.refspec = @ \/ disk.state = "ready"]
    <3>1. (disk.refspec \/ disk.state = "ready") \in BOOLEAN
      BY DEF TypeOK, Disk
    <3> QED BY <2>2, <3>1 DEF TypeOK, Disk
  <2>3. CASE disk.state = "torn" /\ disk' = [disk EXCEPT !.state = "absent"]
    BY <2>3 DEF TypeOK, Disk
  <2> QED BY <2>1, <2>2, <2>3 DEF Configure, EndDelete, Owns
<1>4. DiskMoves
  BY <1>3 DEF DiskMoves, TypeOK, Disk, Version
<1>5. pc'[t] = w
  BY <1>2 DEF Goes, TypeOK
<1>6. ThreadOK(t)'
  BY <1>1, <1>2, <1>3, <1>5 DEF ThreadOK
<1>7. LockOK' /\ GenCounted'
  BY <1>1, <1>2, <1>3, LockQuiet, GenCountedStep
<1> QED BY <1>1, <1>2, <1>3, <1>4, <1>6, <1>7, Together DEF TypeOK, Over

LEMMA PushStep == ASSUME Inv, Push PROVE Inv' /\ DiskMoves
<1> USE DEF Inv
<1>1. /\ remote' = remote + 1 /\ remote' \in Version /\ remote \in Version
      /\ UNCHANGED <<disk, pc, job, locks, held, calls>>
  BY MirrorAssumption DEF Push, TypeOK, Version
<1>2. TypeOK' /\ LockOK' /\ GenCounted'
  BY <1>1 DEF TypeOK, LockOK, Holding, GenCounted, Cloning
<1>3. DiskMoves
  BY <1>1, DiskStays
<1>4. \A u \in Threads : ThreadOK(u)'
  BY <1>1, <1>3, Bystander
<1>5. disk'.refs <= remote'
  BY <1>1 DEF TypeOK, Disk, Version
<1> QED BY <1>2, <1>3, <1>4, <1>5

LEMMA InvStep == Inv /\ [Next]_vars => Inv' /\ DiskMoves
<1> SUFFICES ASSUME Inv, [Next]_vars PROVE Inv' /\ DiskMoves
  OBVIOUS
<1>1. CASE UNCHANGED vars
  <2>1. Inv'
    BY <1>1 DEF vars, Inv, TypeOK, GenCounted, Cloning, LockOK, Holding, ThreadOK, Void, Owns
  <2> QED BY <1>1, <2>1, DiskStays DEF vars, Inv
<1> QED
  BY <1>1, CallStep, FindLockStep, WaitStep, BeginFetchStep, EndFetchStep, ReadStep,
     BeginCloneStep, EndCloneStep, ConfigureStep, PushStep
  DEF Next, Progress

LEMMA Invariance == Spec => []Inv
<1>1. Init => Inv
  <2> SUFFICES ASSUME Init PROVE Inv
    OBVIOUS
  <2>1. /\ disk \in Disk /\ disk.gen = 0 /\ disk.refs = 0 /\ disk.state # "building"
    BY MirrorAssumption DEF Init, Disk, Version
  <2>2. /\ job \in [Threads -> Job] /\ pc = [t \in Threads |-> "idle"]
        /\ \A t \in Threads : job[t].gen = 0 /\ job[t].called = 0
    BY MirrorAssumption DEF Init, Job, Version
  <2>3. TypeOK
    BY <2>1, <2>2, MirrorAssumption DEF Init, TypeOK, Version, Over
  <2>4. Cloning = {}
    BY <2>2 DEF Cloning
  <2>5. GenCounted
    BY <2>1, <2>4, FS_EmptySet DEF Init, GenCounted
  <2>6. LockOK /\ \A t \in Threads : ThreadOK(t)
    BY <2>1, <2>2 DEF Init, LockOK, Holding, ThreadOK
  <2> QED BY <2>1, <2>3, <2>5, <2>6 DEF Init, Inv
<1> QED BY <1>1, InvStep, PTL DEF Spec

-----------------------------------------------------------------------------
\* The variables keep their types; a directory's number never exceeds the calls.
THEOREM TypeCorrect == Spec => []TypeOK
<1>1. Inv => TypeOK
  BY DEF Inv
<1> QED BY <1>1, Invariance, PTL

\* No two threads fetch into the mirror, or are about to, at once.
THEOREM OneFetchAtATime ==
    Spec => [](\A s, t \in Threads : Holding(s) /\ Holding(t) => s = t)
<1>1. Inv => \A s, t \in Threads : Holding(s) /\ Holding(t) => s = t
  BY DEF Inv, LockOK
<1> QED BY <1>1, Invariance, PTL

\* Whoever fetched sees at least what the remote had when it asked, and a reader
\* at least what its caller was promised.
THEOREM FetchesAreCurrent == Spec => []FetchedIsCurrent
<1>1. Inv => FetchedIsCurrent
  <2> SUFFICES ASSUME Inv, NEW t \in Threads, job[t].gen = disk.gen, disk.state = "ready"
               PROVE  /\ pc[t] = "fetched" /\ job[t].refspec => disk.refs >= job[t].called
                      /\ pc[t] = "read" => job[t].read >= job[t].floor
    BY DEF FetchedIsCurrent
  <2>1. ~Void(t) /\ ThreadOK(t)
    BY DEF Inv, Void, TypeOK, Disk
  <2> QED BY <2>1 DEF ThreadOK, Inv, TypeOK, Disk, Job, Version
<1> QED BY <1>1, Invariance, PTL

\* A fetch never takes the refs back, however calls, deletions and clones
\* interleave with it.
THEOREM RefsOnlyAdvance == Spec => RefsNeverGoBack
<1>1. Inv /\ [Next]_vars => [disk'.gen = disk.gen => disk'.refs >= disk.refs]_vars
  <2>1. Inv /\ DiskMoves => disk'.refs >= disk.refs
    BY DEF Inv, TypeOK, DiskMoves, Disk, Version
  <2> QED BY <2>1, InvStep
<1> QED BY <1>1, Invariance, PTL DEF Spec, RefsNeverGoBack
==============================================================================

-------------------------------- MODULE Mirror --------------------------------
(***************************************************************************)
(* The bare mirror of one repository (kenjutsu/mirror/lifecycle.py and     *)
(* api.py): threads of one process that clone it, fetch into it and read   *)
(* it through a MirrorHandle, and delete it.                               *)
(*                                                                         *)
(* git is external, modelled by what these calls rely on: clone refuses a  *)
(* directory that exists and removes what it made when it fails; fetch     *)
(* updates the refs only if a refspec was configured when it began; any    *)
(* call may fail.  rmtree takes time and may fail half-way.                *)
(***************************************************************************)
EXTENDS Naturals, FiniteSets

CONSTANTS Threads,
          MaxVersion, \* bound: pushes to the remote repository
          MaxCalls    \* bound: calls that the threads make in all

ASSUME MirrorAssumption ==
    /\ MaxVersion \in Nat /\ MaxCalls \in Nat
    /\ IsFiniteSet(Threads)

VARIABLES remote, \* version of the remote's refs
          disk,   \* the directory of the mirror
          pc,     \* where each thread is
          job,    \* what a thread's call knows
          locks,  \* how many locks _repo_fetch_lock() has made for the repository
          held,   \* the locks that some thread holds
          calls

vars == <<remote, disk, pc, job, locks, held, calls>>

Version == 0 .. MaxVersion
Over == {"idle", "fetched", "read", "cloned", "deleted", "raised"}

\* gen numbers the directories made at the path; refspec says whether fetches
\* update the refs, and refs which version they are at.
Disk == [state: {"absent", "building", "ready", "torn"}, gen: 0 .. MaxCalls,
         refspec: BOOLEAN, refs: Version]

\* called: the remote when the call began; asked, refspec, gen: the remote and
\* the directory as git found them; lock: the lock the thread was given; read:
\* the version it read; floor (history): the least it should read.
Job == [called: Version, asked: Version, refspec: BOOLEAN, gen: 0 .. MaxCalls, lock: 0 .. 1,
        read: Version, floor: Version]

TypeOK ==
    /\ remote \in Version /\ calls \in 0 .. MaxCalls
    /\ disk \in Disk
    /\ pc \in [Threads -> Over \cup {"handle", "waiting", "blocked", "locked", "fetching",
                                     "cloning", "building", "configuring", "deleting"}]
    /\ job \in [Threads -> Job]
    /\ locks \in 0 .. 1 /\ held \subseteq {1}

\* A process starts with what earlier ones left on the disk: no mirror, a whole
\* one, one without a refspec, or the rest of a deletion or of a killed clone.
Init ==
    /\ remote = 0 /\ locks = 0 /\ held = {} /\ calls = 0
    /\ disk \in [state: {"absent", "ready", "torn"}, gen: {0}, refspec: BOOLEAN, refs: {0}]
    /\ pc = [t \in Threads |-> "idle"]
    /\ job = [t \in Threads |->
                [called |-> 0, asked |-> 0, refspec |-> FALSE, gen |-> 0, lock |-> 0,
                 read |-> 0, floor |-> 0]]

-----------------------------------------------------------------------------
\* Mutated forms of the operators below, for the sensitivity checks.
LockFor_Anew == locks + 1
AfterWait_NoDuplicate(t) == IF pc[t] = "blocked" THEN "fetched" ELSE "locked"
Released_OnSuccess(t, how) == IF how = "fetched" THEN held \ {job[t].lock} ELSE held

-----------------------------------------------------------------------------
Exists == disk.state # "absent"
Goes(t, where) == pc' = [pc EXCEPT ![t] = where]

\* The directory as a call of git finds it.
Seen(t) ==
    [job EXCEPT ![t].asked = remote,
                ![t].refspec = disk.state = "ready" /\ disk.refspec,
                ![t].gen = disk.gen]

\* A thread begins a call.
Call(t) ==
    /\ pc[t] \in Over /\ calls < MaxCalls
    /\ calls' = calls + 1
    /\ job' = [Seen(t) EXCEPT ![t].called = remote, ![t].floor = disk.refs]

\* get_mirror(): the handle of a mirror that exists.
GetMirror(t) ==
    /\ Call(t)
    /\ Goes(t, IF Exists THEN "handle" ELSE "raised")
    /\ UNCHANGED <<remote, disk, locks, held>>

\* _repo_fetch_lock(): the one lock of the repository, made on first use.
LockFor == IF locks = 0 THEN 1 ELSE locks

FindLock(t) ==
    /\ pc[t] = "handle"
    /\ locks' = LockFor
    /\ job' = [job EXCEPT ![t].lock = LockFor]
    /\ Goes(t, "waiting")
    /\ UNCHANGED <<remote, disk, held, calls>>

Block(t) ==
    /\ pc[t] = "waiting" /\ job[t].lock \in held
    /\ Goes(t, "blocked")
    /\ UNCHANGED <<remote, disk, job, locks, held, calls>>

\* What a thread does with the lock: it fetches, whether it waited or not.
AfterWait(t) == "locked"

Acquire(t) ==
    /\ pc[t] \in {"waiting", "blocked"} /\ job[t].lock \notin held
    /\ Goes(t, AfterWait(t))
    /\ held' = IF AfterWait(t) = "locked" THEN held \cup {job[t].lock} ELSE held
    /\ UNCHANGED <<remote, disk, job, locks, calls>>

\* The end of the with block, after a return or an exception.
Released(t, how) == held \ {job[t].lock}

Leave(t, how) ==
    /\ Goes(t, how)
    /\ held' = Released(t, how)

\* fetch_mirror(): raises without a directory, or runs git fetch in it.
BeginFetch(t) ==
    /\ pc[t] = "locked"
    /\ \/ ~Exists /\ Leave(t, "raised") /\ UNCHANGED job
       \/ Exists /\ Goes(t, "fetching") /\ job' = Seen(t) /\ UNCHANGED held
    /\ UNCHANGED <<remote, disk, locks, calls>>

EndFetch(t) ==
    /\ pc[t] = "fetching"
    /\ \/ Leave(t, "raised") /\ UNCHANGED <<disk, job>>
       \/ /\ Exists
          /\ Leave(t, "fetched")
          /\ disk' = IF job[t].refspec /\ disk.state = "ready" /\ disk.gen = job[t].gen
                       THEN [disk EXCEPT !.refs = job[t].asked] ELSE disk
          /\ job' = IF job[t].refspec THEN [job EXCEPT ![t].floor = job[t].called] ELSE job
    /\ UNCHANGED <<remote, locks, calls>>

\* diff(), read_file(), git_log(): without a lock, from the directory as it is.
\* They raise without one, and whenever git fails.
Read(t) ==
    /\ pc[t] \in {"handle", "fetched"}
    /\ \/ Goes(t, "raised") /\ UNCHANGED job
       \/ Exists /\ Goes(t, "read") /\ job' = [job EXCEPT ![t].read = disk.refs]
    /\ UNCHANGED <<remote, disk, locks, held, calls>>

-----------------------------------------------------------------------------
\* clone_mirror(): the check, then git clone, which looks again.
Clone(t) ==
    /\ Call(t)
    /\ Goes(t, IF Exists THEN "raised" ELSE "cloning")
    /\ UNCHANGED <<remote, disk, locks, held>>

BeginClone(t) ==
    /\ pc[t] = "cloning"
    /\ \/ Exists /\ Goes(t, "raised") /\ UNCHANGED <<disk, job>>
       \/ /\ ~Exists
          /\ Goes(t, "building")
          /\ disk' = [disk EXCEPT !.state = "building", !.gen = disk.gen + 1, !.refspec = FALSE]
          /\ job' = [job EXCEPT ![t].asked = remote, ![t].gen = disk.gen + 1]
    /\ UNCHANGED <<remote, locks, held, calls>>

Owns(t, state) == disk.state = state /\ disk.gen = job[t].gen

\* git clone ends: with a mirror that has no refspec yet, or with nothing.  A
\* clone whose directory was deleted meanwhile fails.
EndClone(t) ==
    /\ pc[t] = "building"
    /\ \/ /\ Owns(t, "building")
          /\ Goes(t, "configuring")
          /\ disk' = [disk EXCEPT !.state = "ready", !.refs = job[t].asked]
       \/ /\ Goes(t, "raised")
          /\ disk' = IF Owns(t, "building") THEN [disk EXCEPT !.state = "absent"] ELSE disk
    /\ UNCHANGED <<remote, job, locks, held, calls>>

\* git config remote.origin.fetch; when it fails the mirror stays without.
Configure(t) ==
    /\ pc[t] = "configuring"
    /\ \/ Goes(t, "raised") /\ UNCHANGED disk
       \/ /\ Exists
          /\ Goes(t, "cloned")
          /\ disk' = [disk EXCEPT !.refspec = @ \/ disk.state = "ready"]
    /\ UNCHANGED <<remote, job, locks, held, calls>>

\* delete_mirror(): it takes no lock and returns quietly without a directory.
Delete(t) ==
    /\ Call(t)
    /\ Goes(t, IF Exists THEN "deleting" ELSE "deleted")
    /\ disk' = IF Exists THEN [disk EXCEPT !.state = "torn"] ELSE disk
    /\ UNCHANGED <<remote, locks, held>>

\* rmtree ends, or raises and leaves a part of the directory.
EndDelete(t) ==
    /\ pc[t] = "deleting"
    /\ \/ /\ Owns(t, "torn")
          /\ Goes(t, "deleted")
          /\ disk' = [disk EXCEPT !.state = "absent"]
       \/ Goes(t, "raised") /\ UNCHANGED disk
    /\ UNCHANGED <<remote, job, locks, held, calls>>

Push ==
    /\ remote < MaxVersion
    /\ remote' = remote + 1
    /\ UNCHANGED <<disk, pc, job, locks, held, calls>>

Progress(t) ==
    \/ FindLock(t) \/ Acquire(t) \/ BeginFetch(t) \/ EndFetch(t)
    \/ BeginClone(t) \/ EndClone(t) \/ Configure(t) \/ EndDelete(t)

Next ==
    \/ Push
    \/ \E t \in Threads :
         GetMirror(t) \/ Clone(t) \/ Delete(t) \/ Read(t) \/ Block(t) \/ Progress(t)

\* Threads run and git ends: subprocess.run() has no timeout, so that it does is
\* an assumption on git.
Fairness == \A t \in Threads : WF_vars(Progress(t))

Spec == Init /\ [][Next]_vars /\ Fairness

-----------------------------------------------------------------------------
\* A fetch never takes the refs back to an older version, because no two
\* fetches of the repository overlap (the lock of api.py).
RefsNeverGoBack == [][disk'.gen = disk.gen => disk'.refs >= disk.refs]_vars

\* When fetch() returns, the mirror has, and gives its readers, at least what the
\* remote had when the call was made, also for a caller that waited for another's
\* fetch; a reader that has not fetched gets at least what the mirror had.  Both
\* provided the refspec was there and the mirror was not replaced.
FetchedIsCurrent ==
    \A t \in Threads :
        job[t].gen = disk.gen /\ disk.state = "ready" =>
            /\ pc[t] = "fetched" /\ job[t].refspec => disk.refs >= job[t].called
            /\ pc[t] = "read" => job[t].read >= job[t].floor

\* The lock is released however a fetch ends, so every fetch returns or raises.
FetchReturns ==
    \A t \in Threads : pc[t] = "handle" ~> pc[t] \in Over
==============================================================================

---- MODULE StoreLocks ----
(***************************************************************************)
(* The lock files that let several processes share one .freshctx store     *)
(* (src/store.mjs): the lifecycle lock that opening and cleaning take, the *)
(* lock each open session keeps, and the recovery of a lock whose process  *)
(* has died. Every await is a step, every step may interleave with the     *)
(* other processes', and a process may die anywhere.                       *)
(*                                                                         *)
(* A file is named by a tuple: <<n>> is lock n, <<n, p, k>> what p renamed *)
(* it to at its k-th attempt. Its content is the process that created it,  *)
(* legible once that process has written its pid. Pids are not reused.     *)
(***************************************************************************)
EXTENDS Naturals, FiniteSets

CONSTANTS
    Proc, Session,
    Job,          \* [Proc -> Session \cup {"clean"}], what each process is run for
    Attempts,     \* how often acquireLock tries
    StaleLocks,   \* locks a process that has died left before the start
    Ghost,        \* the pid in them
    MaxSaves, MaxCrashes, MaxDiskFaults,   \* bounds
    None

Lock  == {"lifecycle"} \cup Session
Pid   == Proc \cup {Ghost}
Name  == {<<n>> : n \in Lock} \cup (Lock \X Proc \X (0 .. Attempts - 1))
Error == {"state_busy", "session_locked", "state_active", "state_corrupt",
          "internal_error", "ENOENT"}

ASSUME JobAssumption == Job \in [Proc -> Session \cup {"clean"}]
ASSUME NameAssumption == "lifecycle" \notin Session /\ "clean" \notin Lock
ASSUME PidAssumption == None \notin Pid /\ Ghost \notin Proc
ASSUME StaleAssumption == StaleLocks \subseteq Lock
ASSUME ErrorAssumption == None \notin Error
ASSUME SavesAssumption == MaxSaves \in Nat /\ None \notin 1 .. MaxSaves
ASSUME AttemptsAssumption == Attempts \in Nat \ {0}

VARIABLES
    entry,          \* [Name -> the creator of that file in locks/, or None]
    written,        \* [Pid -> the locks it has written its pid into]
    saved,          \* [Session -> the saved state, None when there is none]
    alive,
    pc, want,       \* where each process stands and what it is after: the
                    \* lifecycle lock, then its job
    attempt,        \* acquireLock's counter
    listed, seen,   \* names a listing gave and it has yet to visit; those it
                    \* has read, with their pids
    memory,         \* the state an open session holds
    why,            \* the error it ended with
    crashes, diskFaults

steps == <<pc, want, attempt, listed, seen>>
vars  == <<entry, written, saved, alive, steps, memory, why, crashes, diskFaults>>

Init ==
    /\ entry = [f \in Name |-> IF f \in {<<n>> : n \in StaleLocks} THEN Ghost ELSE None]
    /\ written = [p \in Pid |-> IF p = Ghost THEN Lock ELSE {}]
    /\ saved = [s \in Session |-> None]
    /\ alive = Proc
    /\ pc = [p \in Proc |-> "look"] /\ want = [p \in Proc |-> "lifecycle"]
    /\ attempt = [p \in Proc |-> 0]
    /\ listed = [p \in Proc |-> {}] /\ seen = [p \in Proc |-> {}]
    /\ memory = [p \in Proc |-> None] /\ why = [p \in Proc |-> None]
    /\ crashes = 0 /\ diskFaults = 0

---------------------------------------------------------------------------
\* Lock files.

Exists(f) == entry[f] # None

\* readLockPid: a file whose pid is not written yet reads as 0, here None.
PidIn(f) == IF f[1] \in written[entry[f]] THEN entry[f] ELSE None

MutMayBeActive(pid) == pid \in Pid \cup {None}

MutUnreadable(pid) == pid \in alive

\* An unreadable pid may be anybody's.
MayBeActive(pid) == pid = None \/ pid \in alive

Remove(f) == entry' = [entry EXCEPT ![f] = None]

Goes(p, step) == pc' = [pc EXCEPT ![p] = step]

\* acquireLock: a session's lock has no recoveries to clear.
FirstStep(p) == IF want[p] = "lifecycle" THEN "look" ELSE "create"

MutThrows(p, error) ==
    /\ why' = why
    /\ Goes(p, IF want[p] = "lifecycle" THEN "failed" ELSE "release")

\* An error before the lifecycle lock is held ends the process's job; one
\* after it goes through the finally that releases the lock.
Throws(p, error) ==
    /\ why' = [why EXCEPT ![p] = error]
    /\ Goes(p, IF want[p] = "lifecycle" THEN "failed" ELSE "release")

Busy(p) == IF want[p] = "lifecycle" THEN "state_busy" ELSE "session_locked"

\* The next attempt, or the refusal after the last.
Retries(p) ==
    IF attempt[p] + 1 < Attempts
    THEN /\ attempt' = [attempt EXCEPT ![p] = @ + 1]
         /\ Goes(p, FirstStep(p))
         /\ UNCHANGED why
    ELSE Throws(p, Busy(p)) /\ UNCHANGED attempt

---------------------------------------------------------------------------
\* acquireLock

\* The lifecycle lock first lists the recoveries others left unfinished.
Look(p) ==
    /\ pc[p] = "look"
    /\ LET recoveries == {f \in Name : Exists(f) /\ f[1] = "lifecycle" /\ f # <<"lifecycle">>}
       IN /\ listed' = [listed EXCEPT ![p] = recoveries]
          /\ Goes(p, IF recoveries = {} THEN "create" ELSE "clear")
    /\ UNCHANGED <<entry, written, saved, alive, want, attempt, seen, memory, why,
                   crashes, diskFaults>>

\* It removes those of dead processes one by one, refuses on a live one, and
\* fails on one that somebody else has removed.
Clear(p) ==
    /\ pc[p] = "clear"
    /\ \E f \in listed[p] :
          \/ ~Exists(f) /\ Throws(p, "ENOENT") /\ UNCHANGED <<entry, attempt, listed>>
          \/ /\ Exists(f) /\ MayBeActive(PidIn(f))
             /\ Throws(p, "state_busy")
             /\ UNCHANGED <<entry, attempt, listed>>
          \/ /\ Exists(f) /\ ~MayBeActive(PidIn(f))
             /\ Remove(f)
             /\ listed' = [listed EXCEPT ![p] = @ \ {f}]
             /\ IF listed[p] = {f} THEN Retries(p) ELSE UNCHANGED <<pc, attempt, why>>
    /\ UNCHANGED <<written, saved, alive, want, seen, memory, crashes, diskFaults>>

MutCreate(p) ==
    /\ pc[p] = "create"
    /\ entry' = [entry EXCEPT ![<<want[p]>>] = p] /\ Goes(p, "write")
    /\ UNCHANGED <<written, saved, alive, want, attempt, listed, seen, memory, why,
                   crashes, diskFaults>>

\* open(wx) creates the file, empty, or fails when there is one.
Create(p) ==
    /\ pc[p] = "create"
    /\ IF Exists(<<want[p]>>)
       THEN Goes(p, "inspect") /\ UNCHANGED entry
       ELSE entry' = [entry EXCEPT ![<<want[p]>>] = p] /\ Goes(p, "write")
    /\ UNCHANGED <<written, saved, alive, want, attempt, listed, seen, memory, why,
                   crashes, diskFaults>>

\* The pid is written to the open file, wherever that is by now. With the
\* lifecycle lock a process turns to its job: to list the locks, or to take
\* its session's.
Write(p) ==
    /\ pc[p] = "write"
    /\ written' = [written EXCEPT ![p] = @ \cup {want[p]}]
    /\ IF want[p] = "lifecycle"
       THEN /\ want' = [want EXCEPT ![p] = Job[p]]
            /\ attempt' = [attempt EXCEPT ![p] = 0]
            /\ Goes(p, IF Job[p] = "clean" THEN "list" ELSE "create")
       ELSE Goes(p, "load") /\ UNCHANGED <<want, attempt>>
    /\ UNCHANGED <<entry, saved, alive, listed, seen, memory, why, crashes, diskFaults>>

\* The write fails: createLock removes the path and throws.
WriteFails(p) ==
    /\ pc[p] = "write" /\ diskFaults < MaxDiskFaults /\ diskFaults' = diskFaults + 1
    /\ Remove(<<want[p]>>)
    /\ Throws(p, "internal_error")
    /\ UNCHANGED <<written, saved, alive, want, attempt, listed, seen, memory, crashes>>

MutInspectWaits(p) ==
    /\ pc[p] = "inspect"
    /\ Goes(p, IF Exists(<<want[p]>>) /\ ~MayBeActive(PidIn(<<want[p]>>)) THEN "rename" ELSE "create")
    /\ UNCHANGED <<entry, written, saved, alive, want, attempt, listed, seen, memory, why,
                   crashes, diskFaults>>

\* The lock that was in the way: released meanwhile, a live process's or dead.
Inspect(p) ==
    /\ pc[p] = "inspect"
    /\ \/ ~Exists(<<want[p]>>) /\ Throws(p, "ENOENT")
       \/ Exists(<<want[p]>>) /\ MayBeActive(PidIn(<<want[p]>>)) /\ Throws(p, Busy(p))
       \/ /\ Exists(<<want[p]>>) /\ ~MayBeActive(PidIn(<<want[p]>>))
          /\ Goes(p, "rename") /\ UNCHANGED why
    /\ UNCHANGED <<entry, written, saved, alive, want, attempt, listed, seen, memory,
                   crashes, diskFaults>>

Recovery(p) == <<want[p], p, attempt[p]>>

\* Whatever is there now is moved aside; somebody else may have done it first.
Rename(p) ==
    /\ pc[p] = "rename"
    /\ IF Exists(<<want[p]>>)
       THEN /\ entry' = [entry EXCEPT ![<<want[p]>>] = None,
                                      ![Recovery(p)] = entry[<<want[p]>>]]
            /\ Goes(p, "reread") /\ UNCHANGED <<attempt, why>>
       ELSE Retries(p) /\ UNCHANGED entry
    /\ UNCHANGED <<written, saved, alive, want, listed, seen, memory, crashes, diskFaults>>

\* A live process's file, taken by mistake, stays aside.
Reread(p) ==
    /\ pc[p] = "reread"
    /\ \/ ~Exists(Recovery(p)) /\ Throws(p, "ENOENT") /\ UNCHANGED <<entry, attempt>>
       \/ /\ Exists(Recovery(p)) /\ MayBeActive(PidIn(Recovery(p)))
          /\ Throws(p, Busy(p)) /\ UNCHANGED <<entry, attempt>>
       \/ /\ Exists(Recovery(p)) /\ ~MayBeActive(PidIn(Recovery(p)))
          /\ Remove(Recovery(p)) /\ Retries(p)
    /\ UNCHANGED <<written, saved, alive, want, listed, seen, memory, crashes, diskFaults>>

---------------------------------------------------------------------------
\* openSessionStore, save and close

Load(p) ==
    /\ pc[p] = "load"
    /\ memory' = [memory EXCEPT ![p] = saved[Job[p]]]
    /\ Goes(p, "release")
    /\ UNCHANGED <<entry, written, saved, alive, want, attempt, listed, seen, why,
                   crashes, diskFaults>>

\* The saved state cannot be used: the session's lock is removed.
LoadFails(p) ==
    /\ pc[p] = "load" /\ diskFaults < MaxDiskFaults /\ diskFaults' = diskFaults + 1
    /\ Remove(<<Job[p]>>)
    /\ Throws(p, "state_corrupt")
    /\ UNCHANGED <<written, saved, alive, want, attempt, listed, seen, memory, crashes>>

\* releaseLock removes the path, whoever's file it holds.
Release(p) ==
    /\ pc[p] = "release"
    /\ Remove(<<"lifecycle">>)
    /\ Goes(p, IF why[p] # None THEN "failed" ELSE IF Job[p] = "clean" THEN "done" ELSE "open")
    /\ UNCHANGED <<written, saved, alive, want, attempt, listed, seen, memory, why,
                   crashes, diskFaults>>

\* An open session saves what it holds, changed.
Save(p) ==
    /\ pc[p] = "open"
    /\ LET next == IF memory[p] = None THEN 1 ELSE memory[p] + 1
       IN /\ next <= MaxSaves
          /\ memory' = [memory EXCEPT ![p] = next]
          /\ saved' = [saved EXCEPT ![Job[p]] = next]
    /\ UNCHANGED <<entry, written, alive, steps, why, crashes, diskFaults>>

MutClose(p) ==
    /\ pc[p] = "open"
    /\ Goes(p, "done")
    /\ UNCHANGED <<entry, written, saved, alive, want, attempt, listed, seen, memory, why,
                   crashes, diskFaults>>

Close(p) ==
    /\ pc[p] = "open"
    /\ Remove(<<Job[p]>>)
    /\ Goes(p, "done")
    /\ UNCHANGED <<written, saved, alive, want, attempt, listed, seen, memory, why,
                   crashes, diskFaults>>

---------------------------------------------------------------------------
\* cleanStore, with the lifecycle lock

List(p) ==
    /\ pc[p] = "list"
    /\ listed' = [listed EXCEPT ![p] = {f \in Name : Exists(f) /\ f # <<"lifecycle">>}]
    /\ Goes(p, "read")
    /\ UNCHANGED <<entry, written, saved, alive, want, attempt, seen, memory, why,
                   crashes, diskFaults>>

\* It reads them all before it judges any; a file that is gone is an error.
Read(p) ==
    /\ pc[p] = "read"
    /\ \E f \in listed[p] :
          IF Exists(f)
          THEN /\ seen' = [seen EXCEPT ![p] = @ \cup {<<f, PidIn(f)>>}]
               /\ listed' = [listed EXCEPT ![p] = @ \ {f}]
               /\ UNCHANGED <<pc, why>>
          ELSE Throws(p, "ENOENT") /\ UNCHANGED <<listed, seen>>
    /\ UNCHANGED <<entry, written, saved, alive, want, attempt, memory, crashes, diskFaults>>

MutJudge(p) ==
    /\ pc[p] = "read" /\ listed[p] = {}
    /\ listed' = [listed EXCEPT ![p] = {x[1] : x \in seen[p]}]
    /\ Goes(p, "wipe") /\ UNCHANGED why
    /\ UNCHANGED <<entry, written, saved, alive, want, attempt, seen, memory,
                   crashes, diskFaults>>

Judge(p) ==
    /\ pc[p] = "read" /\ listed[p] = {}
    /\ IF \E x \in seen[p] : MayBeActive(x[2])
       THEN Throws(p, "state_active") /\ UNCHANGED listed
       ELSE /\ listed' = [listed EXCEPT ![p] = {x[1] : x \in seen[p]}]
            /\ Goes(p, "wipe") /\ UNCHANGED why
    /\ UNCHANGED <<entry, written, saved, alive, want, attempt, seen, memory,
                   crashes, diskFaults>>

RemoveStale(p) ==
    /\ pc[p] = "wipe"
    /\ \E f \in listed[p] :
          IF Exists(f)
          THEN /\ Remove(f)
               /\ listed' = [listed EXCEPT ![p] = @ \ {f}]
               /\ UNCHANGED <<pc, why>>
          ELSE Throws(p, "ENOENT") /\ UNCHANGED <<entry, listed>>
    /\ UNCHANGED <<written, saved, alive, want, attempt, seen, memory, crashes, diskFaults>>

\* Blobs and sessions are removed.
Reset(p) ==
    /\ pc[p] = "wipe" /\ listed[p] = {}
    /\ saved' = [s \in Session |-> None]
    /\ Goes(p, "release")
    /\ UNCHANGED <<entry, written, alive, want, attempt, listed, seen, memory, why,
                   crashes, diskFaults>>

---------------------------------------------------------------------------

\* A process that has finished exits.
Exit(p) ==
    /\ pc[p] \in {"done", "failed"}
    /\ alive' = alive \ {p}
    /\ Goes(p, "dead")
    /\ UNCHANGED <<entry, written, saved, want, attempt, listed, seen, memory, why,
                   crashes, diskFaults>>

\* Or it is killed where it stands; its files stay.
Crash(p) ==
    /\ pc[p] \notin {"done", "failed", "dead"}
    /\ crashes < MaxCrashes /\ crashes' = crashes + 1
    /\ alive' = alive \ {p}
    /\ Goes(p, "dead")
    /\ UNCHANGED <<entry, written, saved, want, attempt, listed, seen, memory, why, diskFaults>>

Acquire(p) ==
    \/ Look(p) \/ Clear(p) \/ Create(p) \/ Write(p)
    \/ Inspect(p) \/ Rename(p) \/ Reread(p)

Clean(p) == List(p) \/ Read(p) \/ Judge(p) \/ RemoveStale(p) \/ Reset(p)

\* What a process does on its own, once started, until it is open or over.
Run(p) == Acquire(p) \/ Load(p) \/ Release(p) \/ Clean(p)

Next ==
    \E p \in Proc :
        \/ Run(p) \/ Save(p) \/ Close(p) \/ Exit(p)
        \/ WriteFails(p) \/ LoadFails(p) \/ Crash(p)

Spec == Init /\ [][Next]_vars

\* The event loop runs what is ready: a process goes on until it waits for
\* its host or dies.
FairSpec == Spec /\ \A p \in Proc : WF_vars(Run(p))

\* Left-over locks. A process renames whatever it finds where it has seen a
\* dead lock; meanwhile another may have put its own there.
TakesALiveLock == \E p \in Proc : Rename(p) /\ entry[<<want[p]>>] \in alive

CreatesInTheWay ==
    \E p, q \in Proc : /\ Create(p) /\ ~Exists(<<want[p]>>)
                       /\ pc[q] = "rename" /\ want[q] = want[p]

\* Up to the first such rename, and with nobody in the way of one.
CarefulSpec == Init /\ [][Next /\ ~TakesALiveLock]_vars
PatientSpec == Init /\ [][Next /\ ~CreatesInTheWay]_vars

---------------------------------------------------------------------------
\* Properties.

Starting == {"look", "clear", "create", "write", "inspect", "rename", "reread",
              "load", "release", "list", "read", "wipe"}

\* Each process is after the lifecycle lock or its own job, has failed exactly
\* when it has an error, and goes on with its job only without one.
TypeOK ==
    /\ entry \in [Name -> Pid \cup {None}]
    /\ written \in [Pid -> SUBSET Lock]
    /\ saved \in [Session -> Nat \cup {None}] /\ memory \in [Proc -> Nat \cup {None}]
    /\ alive \subseteq Proc
    /\ pc \in [Proc -> Starting \cup {"open", "done", "failed", "dead"}]
    /\ want \in [Proc -> Lock \cup {"clean"}]
    /\ \A p \in Proc : want[p] \in {"lifecycle", Job[p]}
    /\ attempt \in [Proc -> 0 .. Attempts - 1]
    /\ listed \in [Proc -> SUBSET Name]
    /\ seen \in [Proc -> SUBSET (Name \X (Pid \cup {None}))]
    /\ why \in [Proc -> Error \cup {None}]
    /\ \A p \in Proc : /\ pc[p] = "failed" => why[p] # None
                       /\ pc[p] \in {"load", "open", "wipe"} => why[p] = None

OpenSessions == {p \in Proc : pc[p] = "open"}

\* No two processes have the same session open (store.mjs 388).
ExclusiveSession == \A p, q \in OpenSessions : Job[p] = Job[q] => p = q

\* What an open session last read or wrote is what is saved: nobody else
\* writes its file, and no clean removes it (store.mjs 351-374, 414-417).
Undisturbed == \A p \in OpenSessions : saved[Job[p]] = memory[p]

\* While a clean removes sessions, none is open (store.mjs 363-369).
CleansAlone == \A p \in Proc : pc[p] = "wipe" => OpenSessions = {}

\* An open session's lock file is in place and names its process, so that the
\* next one to come finds it (store.mjs 127-138).
LockVisible ==
    \A p \in OpenSessions : Exists(<<Job[p]>>) /\ PidIn(<<Job[p]>>) = p

\* A process is turned away from a lock only by a live process that holds it
\* or is about to, as long as none has died (store.mjs 148, 156, 169).
Holding(q, n) ==
    q \in alive /\ \/ want[q] = n /\ pc[q] \in {"write", "load", "release", "open"}
                   \/ n = "lifecycle" /\ want[q] # "lifecycle"
                      /\ pc[q] \notin {"open", "done", "failed", "dead"}
RefusedByTheLiving ==
    [][crashes = 0 => \A p \in Proc :
          why'[p] # why[p] /\ why'[p] \in {"state_busy", "session_locked"} =>
              \E q \in Proc \ {p} : Holding(q, want[p])]_why

\* Behind the locks is the store of SessionStore: each of its steps is one step
\* of a process here, whatever the others are doing (store.mjs 351-441).
Shown == [p \in Proc |-> IF pc[p] = "open" THEN memory[p] ELSE None]
Store == INSTANCE SessionStore WITH open <- OpenSessions, memory <- Shown
ImplementsSessionStore == Store!Spec

\* The lock of a living process is moved aside only when it was put in the way
\* of a rename: PatientSpec never does it (store.mjs 147-151).
LiveLocksStay == [][~TakesALiveLock]_vars

\* Whatever the others do, a process that starts ends up open, or is done.
EverybodySettles ==
    \A p \in Proc : pc[p] \in Starting ~> pc[p] \notin Starting

\* A lock whose process died before it wrote its pid keeps everybody out.
Legible == \A f \in Name : Exists(f) /\ entry[f] \notin alive => PidIn(f) # None

JustStarted(p) == pc[p] = "look" /\ attempt[p] = 0
GotIn(p) == pc[p] = "open" \/ (pc[p] = "release" /\ why[p] = None)

\* Other locks of the dead keep nobody out, and contenders do not all give up
\* on account of each other: of the sessions that start together when the others
\* have gone one gets in, whatever those left and wherever they stopped, unless
\* a process dies or fails on its way (store.mjs 140-158, 162-174). A clean
\* among them may fail with the rest: it lists the lifecycle locks that the
\* others have moved aside, its own with them (363-369).
SurvivorsGetIn ==
    \A n \in 0 .. MaxCrashes + MaxDiskFaults :
        /\ crashes + diskFaults = n
        /\ alive # {} /\ \A p \in alive : JustStarted(p) /\ Job[p] \in Session
        /\ Legible
        ~> \/ crashes + diskFaults > n
           \/ \E p \in Proc : GotIn(p)

====

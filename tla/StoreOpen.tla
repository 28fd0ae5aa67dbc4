---- MODULE StoreOpen ----
(***************************************************************************)
(* How a store comes into being and is entered (src/store.mjs):            *)
(* initializeStore, openExistingStore and the part of openSessionStore     *)
(* that reads, and perhaps migrates, the saved session, with cleanStore    *)
(* which takes directories away. Any process may die between two steps and *)
(* be started again. The lifecycle lock is taken in one step, from a dead  *)
(* owner too; how is StoreLocks.                                           *)
(***************************************************************************)
EXTENDS Migration

CONSTANTS
    Proc, Job,      \* [Proc -> {"open", "clean"}], all for one session
    V1State,        \* the v1 sessions a store may hold, [session, print]
    MaxCrashes, MaxRestarts, MaxDiskFaults

ASSUME V1Assumption == \A v \in V1State : v.session \in V1Session
ASSUME JobAssumption == Job \in [Proc -> {"open", "clean"}] /\ None \notin Proc

\* STATE_CHILDREN in order: blobs, blobs/sha256, sessions and locks.
Child == 1 .. 4

VARIABLES
    root, config,   \* whether .freshctx and its config.json exist
    children,       \* the directories in it that exist
    saved,          \* the session file, None when there is none
    old,            \* the v1 session there was at first, with print, or None
    lock,           \* the owner of the lifecycle lock
    pc, why,        \* where each process stands, the error it ended with
    at,             \* the child directory it has come to
    founder,        \* who made the root
    crashes, restarts, diskFaults

bounds == <<crashes, restarts, diskFaults>>
vars == <<root, config, children, saved, old, lock, pc, why, at, founder, bounds>>

\* A new workspace, or a store with a v1 session.
Init ==
    /\ old \in V1State \cup {None}
    /\ root = (old # None) /\ config = root
    /\ children = IF root THEN Child ELSE {}
    /\ saved = IF root THEN old.session ELSE None
    /\ lock = None /\ founder = None
    /\ pc = [p \in Proc |-> IF ~root \/ p = CHOOSE q \in Proc : Job[q] = "open"
                            THEN "start" ELSE "ended"]
    /\ why = [p \in Proc |-> None] /\ at = [p \in Proc |-> 1]
    /\ crashes = 0 /\ restarts = 0 /\ diskFaults = 0

Goes(p, step) == pc' = [pc EXCEPT ![p] = step] /\ UNCHANGED why
Fails(p, error, step) ==
    pc' = [pc EXCEPT ![p] = step] /\ why' = [why EXCEPT ![p] = error]

Dead(p) == pc[p] = "ended"

---------------------------------------------------------------------------
\* initializeStore and openExistingStore

\* mkdir says who is first. A clean makes nothing.
Start(p) ==
    /\ pc[p] = "start"
    /\ \/ root /\ Goes(p, "adopt") /\ UNCHANGED <<root, founder>>
       \/ ~root /\ Job[p] = "clean" /\ Goes(p, "ended") /\ UNCHANGED <<root, founder>>
       \/ ~root /\ Job[p] = "open" /\ root' = TRUE /\ founder' = p /\ Goes(p, "found")
    /\ UNCHANGED <<config, children, saved, old, lock, at, bounds>>

Found(p) ==
    /\ pc[p] = "found"
    /\ config' = TRUE
    /\ Goes(p, "children")
    /\ UNCHANGED <<root, children, saved, old, lock, at, founder, bounds>>

\* A root without a configuration is somebody else's.
Adopt(p) ==
    /\ pc[p] = "adopt"
    /\ IF config THEN Goes(p, "children") ELSE Fails(p, "state_unsafe", "ended")
    /\ UNCHANGED <<root, config, children, saved, old, lock, at, founder, bounds>>

MutChildren(p) ==
    /\ pc[p] = "children"
    /\ IF at[p] \notin children
       THEN Fails(p, "state_corrupt", "ended") /\ UNCHANGED at
       ELSE /\ at' = [at EXCEPT ![p] = IF @ = 4 THEN 1 ELSE @ + 1]
            /\ Goes(p, IF at[p] = 4 THEN "lock" ELSE "children")
    /\ UNCHANGED <<root, config, children, saved, old, lock, founder, bounds>>

\* ensureRealDirectory makes what is missing; requireRealDirectory refuses.
Children(p) ==
    /\ pc[p] = "children"
    /\ IF Job[p] = "clean" /\ at[p] \notin children
       THEN Fails(p, "state_corrupt", "ended") /\ UNCHANGED <<children, at>>
       ELSE /\ children' = children \cup {at[p]} \cup (IF at[p] = 2 THEN {1} ELSE {})
            /\ at' = [at EXCEPT ![p] = IF @ = 4 THEN 1 ELSE @ + 1]
            /\ Goes(p, IF at[p] = 4 THEN "lock" ELSE "children")
    /\ UNCHANGED <<root, config, saved, old, lock, founder, bounds>>

MutLock(p) ==
    /\ pc[p] = "lock"
    /\ lock' = p /\ Goes(p, IF Job[p] = "open" THEN "load" ELSE "judge")
    /\ UNCHANGED <<root, config, children, saved, old, at, founder, bounds>>

Lock(p) ==
    /\ pc[p] = "lock"
    /\ IF lock = None \/ Dead(lock)
       THEN lock' = p /\ Goes(p, IF Job[p] = "open" THEN "load" ELSE "judge")
       ELSE Fails(p, "state_busy", "ended") /\ UNCHANGED lock
    /\ UNCHANGED <<root, config, children, saved, old, at, founder, bounds>>

Unlock(p) ==
    /\ pc[p] = "unlock"
    /\ lock' = None
    /\ Goes(p, IF why[p] = None /\ Job[p] = "open" THEN "open" ELSE "ended")
    /\ UNCHANGED <<root, config, children, saved, old, at, founder, bounds>>

---------------------------------------------------------------------------
\* openSessionStore

SomebodyHasItOpen == \E q \in Proc : pc[q] = "open"

\* No file is a new session.
Load(p) ==
    /\ pc[p] = "load"
    /\ IF SomebodyHasItOpen THEN Fails(p, "session_locked", "unlock")
       ELSE IF saved = None THEN Goes(p, "unlock")
       ELSE IF saved.version = 1 THEN Goes(p, "migrate")
       ELSE IF Valid(saved) THEN Goes(p, "unlock")
       ELSE Fails(p, "state_corrupt", "unlock")
    /\ UNCHANGED <<root, config, children, saved, old, lock, at, founder, bounds>>

\* The rename of the migrated session over the old one.
MigrateSession(p) ==
    /\ pc[p] = "migrate"
    /\ LET v2 == Migrate(saved, old.print)
       IN IF Valid(v2) THEN saved' = v2 /\ Goes(p, "unlock")
          ELSE Fails(p, "state_corrupt", "unlock") /\ UNCHANGED saved
    /\ UNCHANGED <<root, config, children, old, lock, at, founder, bounds>>

Close(p) ==
    /\ pc[p] = "open"
    /\ Goes(p, "ended")
    /\ UNCHANGED <<root, config, children, saved, old, lock, at, founder, bounds>>

---------------------------------------------------------------------------
\* cleanStore

Judge(p) ==
    /\ pc[p] = "judge"
    /\ IF SomebodyHasItOpen THEN Fails(p, "state_active", "unlock") ELSE Goes(p, "rmBlobs")
    /\ UNCHANGED <<root, config, children, saved, old, lock, at, founder, bounds>>

\* resetDirectory: rm, which fails on what is not there, and mkdir.
Removes(p, dir, gone, next) ==
    IF dir \in children
    THEN children' = children \ gone /\ Goes(p, next)
    ELSE Fails(p, "internal_error", "unlock") /\ UNCHANGED children
Makes(p, dir, next) == children' = children \cup {dir} /\ Goes(p, next)

Wipe(p) ==
    /\ \/ pc[p] = "rmBlobs" /\ Removes(p, 1, {1, 2}, "mkBlobs") /\ UNCHANGED saved
       \/ pc[p] = "mkBlobs" /\ Makes(p, 1, "mkSha") /\ UNCHANGED saved
       \/ pc[p] = "mkSha" /\ Makes(p, 2, "rmSessions") /\ UNCHANGED saved
       \/ pc[p] = "rmSessions" /\ Removes(p, 3, {3}, "mkSessions")
          /\ saved' = IF 3 \in children THEN None ELSE saved
       \/ pc[p] = "mkSessions" /\ Makes(p, 3, "unlock") /\ UNCHANGED saved
    /\ UNCHANGED <<root, config, old, lock, at, founder, bounds>>

---------------------------------------------------------------------------

\* writeAtomic fails before its rename, for the configuration or the session.
WriteFails(p) ==
    /\ diskFaults < MaxDiskFaults /\ diskFaults' = diskFaults + 1
    /\ \/ pc[p] = "found" /\ Fails(p, "internal_error", "ended")
       \/ pc[p] = "migrate" /\ Fails(p, "internal_error", "unlock")
    /\ UNCHANGED <<root, config, children, saved, old, lock, at, founder, crashes, restarts>>

Crash(p) ==
    /\ ~Dead(p) /\ crashes < MaxCrashes /\ crashes' = crashes + 1
    /\ Fails(p, "killed", "ended")
    /\ UNCHANGED <<root, config, children, saved, old, lock, at, founder, restarts, diskFaults>>

\* A new process with the same job.
Restart(p) ==
    /\ Dead(p) /\ restarts < MaxRestarts /\ restarts' = restarts + 1
    /\ pc' = [pc EXCEPT ![p] = "start"] /\ why' = [why EXCEPT ![p] = None]
    /\ at' = [at EXCEPT ![p] = 1]
    /\ lock' = IF lock = p THEN None ELSE lock
    /\ UNCHANGED <<root, config, children, saved, old, founder, crashes, diskFaults>>

Run(p) ==
    \/ Start(p) \/ Found(p) \/ Adopt(p) \/ Children(p) \/ Lock(p) \/ Unlock(p)
    \/ Load(p) \/ MigrateSession(p) \/ Judge(p) \/ Wipe(p)

Next == \E p \in Proc : Run(p) \/ Close(p) \/ WriteFails(p) \/ Crash(p) \/ Restart(p)

\* A process goes on until it is open or over.
Spec == Init /\ [][Next]_vars /\ \A p \in Proc : WF_vars(Run(p))

---------------------------------------------------------------------------

\* There is no configuration without a root. A root is without one only while
\* its founder writes it, or for good if that failed or the founder died. An open
\* session has all its directories, unless a process has died (store.mjs 312-332,
\* 346-349).
TypeOK ==
    /\ {root, config} \subseteq BOOLEAN /\ children \subseteq Child
    /\ lock \in Proc \cup {None} /\ founder \in Proc \cup {None}
    /\ at \in [Proc -> Child]
    /\ config \/ children # {} => root
    /\ root /\ ~config => pc[founder] = "found" \/ crashes + diskFaults > 0
    /\ crashes = 0 => \A p \in Proc : pc[p] = "open" => children = Child

\* Migration is faithful: no result is lost; what is bound is of the file the
\* result was read from; an alias leads to the one identity the unit can have had
\* that its id is the fingerprint of, and to its archived revisions, unless an
\* unproven unit has come to the same identity and overwrites them, although
\* "Proven legacy IDs can still recover archived bytes" (store.mjs 223-310,
\* docs/protocol.md 149-151).
Proven(v1, o, i) ==
    /\ v1.units[o].kind = "region" => {c \in Candidates(v1.units[o]) : old.print[c] = o} = {i}
    /\ old.print[i] = o
MigrationIsFaithful ==
    saved # None /\ saved.version = 2 =>
        LET v1 == old.session
        IN /\ \A r \in Result : v1.observations[r] # None =>
                 LET o == saved.observations[r]
                 IN /\ o # None /\ o.path = v1.observations[r].path
                    /\ o.reason = None => o.unit.path = o.path
                    /\ o.reason # None => o.legacy = v1.observations[r].unit
           /\ \A o \in DOMAIN saved.aliases :
                 LET i == saved.aliases[o]
                 IN /\ Proven(v1, o, i)
                    /\ \/ v1.units[o].revisions \subseteq saved.units[i].revisions
                       \/ \E x \in OldId \ DOMAIN saved.aliases : saved.units[i] = v1.units[x]

\* A start on a store that has its configuration gets in, whatever others that
\* died left half done, unless it is interrupted or finds another at work
\* (store.mjs 312-332, 384-402).
OwnedStoreOpens ==
    \A p \in Proc :
        (Job[p] = "open" /\ pc[p] = "start" /\ config) ~>
            (pc[p] = "open" \/ why[p] \in {"state_busy", "session_locked", "internal_error", "killed"})

====

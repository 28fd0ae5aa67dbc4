---- MODULE StoreLocksProofs ----
(***************************************************************************)
(* Theorems about StoreLocks, for any number of processes and sessions: the *)
(* shape of its state; what an owner is promised whatever the dead have     *)
(* left, while no living process's lock is moved aside; and who is refused, *)
(* until a process dies.                                                    *)
(***************************************************************************)
EXTENDS StoreLocks, TLAPS

\* Where a process stands says what it is after, and that all is well so far.
Control ==
    \A p \in Proc :
        /\ pc[p] \in {"look", "clear"} => want[p] = "lifecycle"
        /\ pc[p] \in {"create", "write", "inspect", "rename", "reread"} => want[p] \in Lock
        /\ pc[p] \in {"load", "open"} => want[p] = Job[p] /\ Job[p] \in Session
        /\ pc[p] \in {"list", "read", "wipe"} => want[p] = Job[p] /\ Job[p] = "clean"
        /\ pc[p] = "release" => want[p] = Job[p]
        /\ pc[p] \in (Starting \ {"release"}) \cup {"open"} => why[p] = None

\* Nobody lists the lifecycle lock itself.
Spared ==
    \A p \in Proc : /\ <<"lifecycle">> \notin listed[p]
                    /\ \A x \in seen[p] : x[1] # <<"lifecycle">>

TInv == TypeOK /\ Control /\ Spared

---------------------------------------------------------------------------

LEMMA Names ==
    /\ \A n \in Lock : <<n>> \in Name
    /\ \A m, n \in Lock : <<m>> = <<n>> => m = n
    /\ \A n \in Lock : <<n>>[1] = n
    /\ \A n \in Lock : <<n>> \notin Lock \X Proc \X (0 .. Attempts - 1)
BY DEF Name

LEMMA Jobs ==
    /\ "lifecycle" \in Lock /\ "clean" \notin Lock /\ Session \subseteq Lock
    /\ \A p \in Proc : Job[p] # "lifecycle" /\ (Job[p] \in Session \/ Job[p] = "clean")
BY JobAssumption, NameAssumption DEF Lock

\* What a step of p changes of its own.
LEMMA RemoveType ==
    ASSUME TInv, NEW f, Remove(f)
    PROVE  entry' \in [Name -> Pid \cup {None}]
BY DEF TInv, TypeOK, Remove

LEMMA TInit == Init => TInv
<1> SUFFICES ASSUME Init PROVE TInv
  OBVIOUS
<1> USE Jobs, AttemptsAssumption DEF Init, steps
<1>1. TypeOK
  BY ErrorAssumption DEF TypeOK, Pid, Starting
<1>2. Control
  BY DEF Control, Starting
<1>3. Spared
  BY DEF Spared
<1> QED BY <1>1, <1>2, <1>3 DEF TInv

LEMMA SparedNext == TInv /\ [Next]_vars => Spared'
<1> SUFFICES ASSUME TInv, [Next]_vars PROVE Spared'
  OBVIOUS
<1> USE DEF TInv, Spared
<1>1. CASE listed' = listed /\ seen' = seen
  BY <1>1
<1>2. ASSUME NEW p \in Proc, Look(p) \/ List(p) PROVE Spared'
  BY <1>2 DEF Look, List, TypeOK
<1>3. ASSUME NEW p \in Proc, Clear(p) \/ RemoveStale(p) PROVE Spared'
  BY <1>3 DEF Clear, RemoveStale, TypeOK
<1>4. ASSUME NEW p \in Proc, Judge(p) PROVE Spared'
  BY <1>4 DEF Judge, TypeOK
<1>5. ASSUME NEW p \in Proc, Read(p) PROVE Spared'
  BY <1>5 DEF Read, TypeOK
<1> QED
  BY <1>1, <1>2, <1>3, <1>4, <1>5 DEF Next, Run, Acquire, Clean, vars, steps, Create, Write,
     WriteFails, Inspect, Rename, Reread, Load, LoadFails, Release, Save, Close, Reset, Exit, Crash

LEMMA TNext == TInv /\ [Next]_vars => TInv'
<1> SUFFICES ASSUME TInv, [Next]_vars PROVE TInv'
  OBVIOUS
<1> USE Jobs, AttemptsAssumption, ErrorAssumption, RemoveType, SparedNext DEF TInv
<1>1. ASSUME NEW p \in Proc, Look(p) PROVE TInv'
  <2>1. TypeOK'
    BY <1>1 DEF Look, TypeOK, Starting, Goes
  <2>2. Control'
    BY <1>1 DEF Look, TypeOK, Control, Starting, Goes
  <2> QED BY <2>1, <2>2
<1>2. ASSUME NEW p \in Proc, Clear(p) PROVE TInv'
  <2>1. TypeOK'
    BY <1>2 DEF Clear, TypeOK, Control, Starting, Goes, Throws, Retries, FirstStep, Busy, Error
  <2>2. Control'
    BY <1>2 DEF Clear, TypeOK, Control, Starting, Goes, Throws, Retries, FirstStep, Busy, Error
  <2> QED BY <2>1, <2>2
<1>3. ASSUME NEW p \in Proc, Create(p) PROVE TInv'
  <2>1. TypeOK'
    <3>1. entry' \in [Name -> Pid \cup {None}]
      BY <1>3 DEF Create, TypeOK, Pid
    <3> QED BY <1>3, <3>1 DEF Create, TypeOK, Control, Starting, Goes
  <2>2. Control'
    BY <1>3 DEF Create, TypeOK, Control, Starting, Goes
  <2> QED BY <2>1, <2>2
<1>4. ASSUME NEW p \in Proc, Write(p) PROVE TInv'
  <2>1. TypeOK'
    BY <1>4 DEF Write, TypeOK, Control, Starting, Goes, Pid
  <2>2. Control'
    BY <1>4 DEF Write, TypeOK, Control, Starting, Goes
  <2> QED BY <2>1, <2>2
<1>5. ASSUME NEW p \in Proc, WriteFails(p) PROVE TInv'
  <2>1. TypeOK'
    BY <1>5 DEF WriteFails, TypeOK, Control, Starting, Goes, Throws, Error, Remove
  <2>2. Control'
    BY <1>5 DEF WriteFails, TypeOK, Control, Starting, Goes, Throws, Error, Remove
  <2> QED BY <2>1, <2>2
<1>6. ASSUME NEW p \in Proc, Inspect(p) PROVE TInv'
  <2>1. TypeOK'
    BY <1>6 DEF Inspect, TypeOK, Control, Starting, Goes, Throws, Busy, Error
  <2>2. Control'
    BY <1>6 DEF Inspect, TypeOK, Control, Starting, Goes, Throws, Busy, Error
  <2> QED BY <2>1, <2>2
<1>7. ASSUME NEW p \in Proc, Rename(p) PROVE TInv'
  <2>1. entry' \in [Name -> Pid \cup {None}]
    <3>1. <<want[p]>> \in Name
      BY <1>7, Names DEF Rename, Control
    <3>2. entry[<<want[p]>>] \in Pid \cup {None}
      BY <3>1 DEF TypeOK
    <3> QED BY <1>7, <3>2 DEF Rename, TypeOK
  <2>2. TypeOK'
    BY <1>7, <2>1 DEF Rename, TypeOK, Control, Starting, Goes, Throws, Retries, FirstStep, Busy, Error
  <2>3. Control'
    BY <1>7 DEF Rename, TypeOK, Control, Starting, Goes, Throws, Retries, FirstStep, Busy, Error
  <2> QED BY <2>2, <2>3
<1>8. ASSUME NEW p \in Proc, Reread(p) PROVE TInv'
  <2>1. TypeOK'
    BY <1>8 DEF Reread, TypeOK, Control, Starting, Goes, Throws, Retries, FirstStep, Busy, Error, Remove
  <2>2. Control'
    BY <1>8 DEF Reread, TypeOK, Control, Starting, Goes, Throws, Retries, FirstStep, Busy, Error, Remove
  <2> QED BY <2>1, <2>2
<1>9. ASSUME NEW p \in Proc, Load(p) PROVE TInv'
  <2>1. TypeOK'
    BY <1>9 DEF Load, TypeOK, Control, Starting, Goes
  <2>2. Control'
    BY <1>9 DEF Load, TypeOK, Control, Starting, Goes
  <2> QED BY <2>1, <2>2
<1>10. ASSUME NEW p \in Proc, LoadFails(p) PROVE TInv'
  <2>1. TypeOK'
    BY <1>10 DEF LoadFails, TypeOK, Control, Starting, Goes, Throws, Error, Remove
  <2>2. Control'
    BY <1>10 DEF LoadFails, TypeOK, Control, Starting, Goes, Throws, Error, Remove
  <2> QED BY <2>1, <2>2
<1>11. ASSUME NEW p \in Proc, Release(p) PROVE TInv'
  <2>1. TypeOK'
    BY <1>11 DEF Release, TypeOK, Control, Starting, Goes, Remove
  <2>2. Control'
    BY <1>11 DEF Release, TypeOK, Control, Starting, Goes, Remove
  <2> QED BY <2>1, <2>2
<1>12. ASSUME NEW p \in Proc, Save(p) PROVE TInv'
  <2>1. TypeOK'
    BY <1>12 DEF Save, TypeOK, Control, Starting, steps
  <2>2. Control'
    BY <1>12 DEF Save, TypeOK, Control, Starting, steps
  <2> QED BY <2>1, <2>2
<1>13. ASSUME NEW p \in Proc, Close(p) PROVE TInv'
  <2>1. TypeOK'
    BY <1>13 DEF Close, TypeOK, Control, Starting, Goes, Remove
  <2>2. Control'
    BY <1>13 DEF Close, TypeOK, Control, Starting, Goes, Remove
  <2> QED BY <2>1, <2>2
<1>14. ASSUME NEW p \in Proc, List(p) PROVE TInv'
  <2>1. TypeOK'
    BY <1>14 DEF List, TypeOK, Control, Starting, Goes
  <2>2. Control'
    BY <1>14 DEF List, TypeOK, Control, Starting, Goes
  <2> QED BY <2>1, <2>2
<1>15. ASSUME NEW p \in Proc, Read(p) PROVE TInv'
  <2>1. TypeOK'
    BY <1>15 DEF Read, TypeOK, Control, Starting, Goes, Throws, Error, PidIn, Pid
  <2>2. Control'
    BY <1>15 DEF Read, TypeOK, Control, Starting, Goes, Throws, Error, PidIn, Pid
  <2> QED BY <2>1, <2>2
<1>16. ASSUME NEW p \in Proc, Judge(p) PROVE TInv'
  <2>1. TypeOK'
    BY <1>16 DEF Judge, TypeOK, Control, Starting, Goes, Throws, Error
  <2>2. Control'
    BY <1>16 DEF Judge, TypeOK, Control, Starting, Goes, Throws, Error
  <2> QED BY <2>1, <2>2
<1>17. ASSUME NEW p \in Proc, RemoveStale(p) PROVE TInv'
  <2>1. TypeOK'
    BY <1>17 DEF RemoveStale, TypeOK, Control, Starting, Goes, Throws, Error, Remove
  <2>2. Control'
    BY <1>17 DEF RemoveStale, TypeOK, Control, Starting, Goes, Throws, Error, Remove
  <2> QED BY <2>1, <2>2
<1>18. ASSUME NEW p \in Proc, Reset(p) PROVE TInv'
  <2>1. TypeOK'
    BY <1>18 DEF Reset, TypeOK, Control, Starting, Goes
  <2>2. Control'
    BY <1>18 DEF Reset, TypeOK, Control, Starting, Goes
  <2> QED BY <2>1, <2>2
<1>19. ASSUME NEW p \in Proc, Exit(p) PROVE TInv'
  <2>1. TypeOK'
    BY <1>19 DEF Exit, TypeOK, Control, Starting, Goes
  <2>2. Control'
    BY <1>19 DEF Exit, TypeOK, Control, Starting, Goes
  <2> QED BY <2>1, <2>2
<1>20. ASSUME NEW p \in Proc, Crash(p) PROVE TInv'
  <2>1. TypeOK'
    BY <1>20 DEF Crash, TypeOK, Control, Starting, Goes
  <2>2. Control'
    BY <1>20 DEF Crash, TypeOK, Control, Starting, Goes
  <2> QED BY <2>1, <2>2
<1>21. CASE UNCHANGED vars
  BY <1>21 DEF vars, steps, TypeOK, Control
<1> QED
  BY <1>1, <1>2, <1>3, <1>4, <1>5, <1>6, <1>7, <1>8, <1>9, <1>10, <1>11,
     <1>12, <1>13, <1>14, <1>15, <1>16, <1>17, <1>18, <1>19, <1>20, <1>21
     DEF Next, Run, Acquire, Clean

\* Every process is where its errors and its job let it be, for all constants.
THEOREM StoreLocksTypes == Spec => []TypeOK
<1>1. TInv => TypeOK
  BY DEF TInv
<1> QED BY <1>1, TInit, TNext, PTL DEF Spec

---------------------------------------------------------------------------
\* Mutual exclusion, whatever the dead have left and whoever dies, while no
\* lock of a living process is moved aside.

Recoveries == Lock \X Proc \X (0 .. Attempts - 1)

\* What a process holds, by where it stands.
Owns(p, n) ==
    \/ /\ n = "lifecycle"
       /\ \/ want[p] = "lifecycle" /\ pc[p] = "write"
          \/ want[p] # "lifecycle" /\ pc[p] \notin {"open", "done", "failed", "dead"}
    \/ /\ n = Job[p] /\ want[p] = Job[p]
       /\ \/ pc[p] \in {"write", "load", "open"}
          \/ pc[p] = "release" /\ why[p] = None

\* The dead have stopped.
Living == \A p \in Proc : p \in alive <=> pc[p] # "dead"

\* Who holds a lock is named by its file. The file of a living process that
\* does not hold the lock is never there; that of a dead one may be.
FileNamesOwner ==
    \A n \in Lock, p \in Proc : /\ Owns(p, n) => entry[<<n>>] = p
                                /\ entry[<<n>>] = p /\ p \in alive => Owns(p, n)

\* Only what was moved aside is cleared before an attempt.
ClearsAside == \A p \in Proc : pc[p] = "clear" => listed[p] \subseteq Recoveries

\* Past "write" the owner of a session's lock has written its pid, and what it
\* remembers is what is saved.
OwnersKnow ==
    \A p \in Proc : Owns(p, Job[p]) /\ Job[p] \in Session =>
        /\ pc[p] # "write" => Job[p] \in written[p]
        /\ pc[p] \in {"release", "open"} => memory[p] = saved[Job[p]]

\* A clean knows of every living session's lock that is still there; once it
\* has judged them there is none.
CleanKnows ==
    \A p \in Proc, s \in Session :
        entry[<<s>>] \in alive =>
            /\ pc[p] = "read" => <<s>> \in listed[p] \/ <<<<s>>, entry[<<s>>]>> \in seen[p]
            /\ pc[p] # "wipe"

HeldInv ==
    /\ TInv
    /\ Living /\ FileNamesOwner /\ ClearsAside /\ OwnersKnow /\ CleanKnows

LEMMA OneOwner ==
    ASSUME FileNamesOwner, NEW n \in Lock, NEW p \in Proc, NEW q \in Proc, Owns(p, n), Owns(q, n)
    PROVE  p = q
BY DEF FileNamesOwner

LEMMA OwnersLive ==
    ASSUME Living, NEW p \in Proc, NEW n \in Lock, Owns(p, n)
    PROVE  p \in alive
BY DEF Living, Owns

LEMMA HeldSafe ==
    HeldInv => ExclusiveSession /\ LockVisible /\ Undisturbed /\ CleansAlone
<1> SUFFICES ASSUME HeldInv
             PROVE  ExclusiveSession /\ LockVisible /\ Undisturbed /\ CleansAlone
  OBVIOUS
<1>1. \A p \in OpenSessions : /\ p \in Proc /\ pc[p] = "open" /\ p \in alive
                              /\ Job[p] \in Session /\ Job[p] \in Lock
                              /\ Owns(p, Job[p])
                              /\ entry[<<Job[p]>>] = p /\ p # None
  BY Jobs, PidAssumption
     DEF HeldInv, TInv, Control, OpenSessions, FileNamesOwner, Living, Owns, Pid
<1>2. ExclusiveSession
  BY <1>1 DEF ExclusiveSession
<1>3. LockVisible
  BY <1>1, Names DEF LockVisible, HeldInv, OwnersKnow, Exists, PidIn
<1>4. Undisturbed
  BY <1>1 DEF Undisturbed, HeldInv, OwnersKnow
<1>5. CleansAlone
  BY <1>1 DEF CleansAlone, HeldInv, CleanKnows
<1> QED BY <1>2, <1>3, <1>4, <1>5

LEMMA HeldInit == Init => HeldInv
<1> SUFFICES ASSUME Init PROVE HeldInv
  OBVIOUS
<1>1. TInv
  BY TInit
<1>2. \A f \in Name : entry[f] \in {Ghost, None}
  BY DEF Init
<1>3. \A p \in Proc : /\ pc[p] = "look" /\ want[p] = "lifecycle"
                      /\ \A n \in Lock : ~Owns(p, n)
                      /\ p # None /\ p # Ghost
  BY Jobs, PidAssumption DEF Init, Owns, Pid
<1>4. FileNamesOwner
  BY <1>2, <1>3, Names DEF FileNamesOwner
<1>5. Living /\ ClearsAside
  BY <1>3 DEF Living, ClearsAside, Init
<1>6. OwnersKnow /\ CleanKnows
  BY <1>3, Jobs DEF OwnersKnow, CleanKnows
<1> QED BY <1>1, <1>4, <1>5, <1>6 DEF HeldInv

\* How a change to one file shows under the names that matter.
LEMMA Changed ==
    ASSUME TInv, NEW n \in Lock, NEW v, entry' = [entry EXCEPT ![<<n>>] = v]
    PROVE  entry'[<<n>>] = v /\ \A m \in Lock \ {n} : entry'[<<m>>] = entry[<<m>>]
<1>1. entry \in [Name -> Pid \cup {None}] /\ <<n>> \in Name
  BY Names DEF TInv, TypeOK
<1>2. ASSUME NEW m \in Lock, m # n PROVE <<m>> \in Name /\ <<m>> # <<n>>
  BY <1>2, Names
<1> QED BY <1>1, <1>2

LEMMA ChangedAside ==
    ASSUME TInv, NEW f \in Recoveries, NEW v, entry' = [entry EXCEPT ![f] = v]
    PROVE  \A n \in Lock : entry'[<<n>>] = entry[<<n>>]
<1>1. ASSUME NEW n \in Lock PROVE <<n>> \in Name /\ <<n>> # f
  BY Names DEF Recoveries
<1> QED BY <1>1 DEF TInv, TypeOK

\* A step of p leaves the others where they are.
Only(p) ==
    /\ alive' \subseteq alive
    /\ \A q \in Proc \ {p} :
          /\ pc'[q] = pc[q] /\ want'[q] = want[q] /\ why'[q] = why[q]
          /\ listed'[q] = listed[q] /\ seen'[q] = seen[q]
          /\ written'[q] = written[q] /\ memory'[q] = memory[q]
          /\ q \in alive => q \in alive'

LEMMA OthersOwn ==
    ASSUME NEW p \in Proc, Only(p), NEW q \in Proc \ {p}, NEW n
    PROVE  Owns(q, n)' <=> Owns(q, n)
BY DEF Only, Owns

\* What p holds it keeps, takes or gives up together with the file, or leaves
\* with the file at its death; a file that no one holds may be removed.
LEMMA Ownership ==
    ASSUME FileNamesOwner, NEW p \in Proc, Only(p),
           \A n \in Lock :
               \/ entry'[<<n>>] = entry[<<n>>] /\ (Owns(p, n)' <=> Owns(p, n))
               \/ entry'[<<n>>] = entry[<<n>>] /\ p \notin alive' /\ ~Owns(p, n)'
               \/ /\ entry'[<<n>>] = None /\ ~Owns(p, n)'
                  /\ \A q \in Proc \ {p} : ~Owns(q, n)
               \/ entry[<<n>>] = None /\ entry'[<<n>>] = p /\ Owns(p, n)'
    PROVE  FileNamesOwner'
<1> SUFFICES ASSUME NEW n \in Lock, NEW q \in Proc
             PROVE  /\ Owns(q, n)' => entry'[<<n>>] = q
                    /\ entry'[<<n>>] = q /\ q \in alive' => Owns(q, n)'
  BY DEF FileNamesOwner
<1>1. /\ Owns(q, n) => entry[<<n>>] = q
      /\ entry[<<n>>] = q /\ q \in alive => Owns(q, n)
  BY DEF FileNamesOwner
<1>2. q # p => (Owns(q, n)' <=> Owns(q, n))
  BY OthersOwn
<1>3. None \notin Proc
  BY PidAssumption DEF Pid
<1>4. q \in alive' => q \in alive
  BY DEF Only
<1> QED BY <1>1, <1>2, <1>3, <1>4

LEMMA Knowledge ==
    ASSUME OwnersKnow, NEW p \in Proc, Only(p),
           \A q \in Proc \ {p} :
               Owns(q, Job[q]) /\ Job[q] \in Session => saved'[Job[q]] = saved[Job[q]],
           Owns(p, Job[p])' /\ Job[p] \in Session =>
               /\ pc'[p] # "write" => Job[p] \in written'[p]
               /\ pc'[p] \in {"release", "open"} => memory'[p] = saved'[Job[p]]
    PROVE  OwnersKnow'
BY OthersOwn DEF OwnersKnow, Only

LEMMA Cleaning ==
    ASSUME CleanKnows, NEW p \in Proc, Only(p),
           \A s \in Session :
               \/ entry'[<<s>>] = None
               \/ entry'[<<s>>] = entry[<<s>>]
               \/ \A q \in Proc : pc'[q] \notin {"read", "wipe"},
           \A s \in Session : entry'[<<s>>] \in alive' =>
               /\ pc'[p] = "read" => <<s>> \in listed'[p] \/ <<<<s>>, entry'[<<s>>]>> \in seen'[p]
               /\ pc'[p] # "wipe",
           None \notin alive'
    PROVE  CleanKnows'
BY DEF CleanKnows, Only

LEMMA Placed ==
    ASSUME Living, ClearsAside, NEW p \in Proc, Only(p),
           p \in alive' <=> pc'[p] # "dead",
           pc'[p] = "clear" => listed'[p] \subseteq Recoveries
    PROVE  Living' /\ ClearsAside'
BY DEF Living, ClearsAside, Only

\* A file that is not there names nobody alive.
LEMMA NoneIsDead == TInv => None \notin alive
BY PidAssumption DEF TInv, TypeOK, Pid

\* The step of p that leaves all locks alone.
LEMMA Quiet ==
    ASSUME HeldInv, TInv', NEW p \in Proc, Only(p),
           p \in alive' <=> pc'[p] # "dead",
           pc'[p] = "clear" => listed'[p] \subseteq Recoveries,
           \A n \in Lock : entry'[<<n>>] = entry[<<n>>],
           \A n \in Lock : Owns(p, n)' <=> Owns(p, n),
           \A s \in Session : saved'[s] = saved[s],
           Owns(p, Job[p]) /\ Job[p] \in Session =>
               /\ pc'[p] # "write" => Job[p] \in written'[p]
               /\ pc'[p] \in {"release", "open"} => memory'[p] = saved[Job[p]],
           \A s \in Session : entry[<<s>>] \in alive =>
               /\ pc'[p] = "read" => <<s>> \in listed'[p] \/ <<<<s>>, entry[<<s>>]>> \in seen'[p]
               /\ pc'[p] # "wipe"
    PROVE  HeldInv'
<1>1. FileNamesOwner'
  BY Ownership DEF HeldInv
<1>2. OwnersKnow'
  BY Knowledge, Jobs DEF HeldInv
<1>3. CleanKnows'
  <2>1. \A s \in Session : entry'[<<s>>] = entry[<<s>>]
    BY Jobs
  <2>2. None \notin alive' /\ alive' \subseteq alive
    BY NoneIsDead DEF HeldInv, Only
  <2> QED BY <2>1, <2>2, Cleaning DEF HeldInv
<1>4. Living' /\ ClearsAside'
  BY Placed DEF HeldInv
<1> QED BY <1>1, <1>2, <1>3, <1>4 DEF HeldInv

\* The step of p that removes the lock it holds.
LEMMA GivesUp ==
    ASSUME HeldInv, TInv', NEW p \in Proc, Only(p),
           NEW n \in Lock, Remove(<<n>>), Owns(p, n), ~Owns(p, n)',
           \A m \in Lock \ {n} : Owns(p, m)' <=> Owns(p, m),
           \A s \in Session : saved'[s] = saved[s],
           pc'[p] \notin {"clear", "read", "wipe", "dead"},
           p \in alive',
           Owns(p, Job[p])' /\ Job[p] \in Session =>
               Job[p] \in written'[p] /\ memory'[p] = saved'[Job[p]]
    PROVE  HeldInv'
<1>1. entry'[<<n>>] = None /\ \A m \in Lock \ {n} : entry'[<<m>>] = entry[<<m>>]
  BY Changed DEF HeldInv, Remove
<1>2. \A q \in Proc \ {p} : ~Owns(q, n)
  BY OneOwner DEF HeldInv
<1>3. FileNamesOwner'
  BY <1>1, <1>2, Ownership DEF HeldInv
<1>4. OwnersKnow'
  BY Knowledge DEF HeldInv
<1>5. \A s \in Session : entry'[<<s>>] = None \/ entry'[<<s>>] = entry[<<s>>]
  BY <1>1, Jobs
<1>6. None \notin alive'
  BY NoneIsDead DEF HeldInv, Only
<1>7. CleanKnows'
  BY <1>5, <1>6, Cleaning DEF HeldInv
<1>8. Living' /\ ClearsAside'
  BY Placed DEF HeldInv
<1> QED BY <1>3, <1>4, <1>7, <1>8 DEF HeldInv

\* The step of p that removes a lock nobody alive holds.
LEMMA Discards ==
    ASSUME HeldInv, TInv', NEW p \in Proc, Only(p),
           NEW n \in Lock, entry'[<<n>>] = None,
           \A m \in Lock \ {n} : entry'[<<m>>] = entry[<<m>>],
           entry[<<n>>] \notin alive,
           p \in alive', pc'[p] \notin {"dead", "clear", "read"},
           \A m \in Lock : Owns(p, m)' <=> Owns(p, m),
           saved' = saved, memory' = memory, written' = written,
           ~Owns(p, Job[p])' \/ Job[p] \notin Session,
           pc'[p] = "wipe" => pc[p] = "wipe"
    PROVE  HeldInv'
<1>1. \A q \in Proc : ~Owns(q, n)
  BY OwnersLive DEF HeldInv, FileNamesOwner
<1>2. FileNamesOwner'
  BY <1>1, Ownership DEF HeldInv
<1>3. OwnersKnow'
  BY Knowledge DEF HeldInv
<1>4. \A s \in Session : entry'[<<s>>] = None \/ entry'[<<s>>] = entry[<<s>>]
  BY Jobs
<1>5. None \notin alive' /\ alive' \subseteq alive
  BY NoneIsDead DEF HeldInv, Only
<1>6. CleanKnows'
  <2>1. CleanKnows
    BY DEF HeldInv
  <2>2. \A s \in Session : entry'[<<s>>] \in alive' => pc'[p] # "wipe"
    BY <1>4, <1>5, <2>1 DEF CleanKnows
  <2> QED BY <1>4, <1>5, <2>1, <2>2, Cleaning
<1>7. Living' /\ ClearsAside'
  BY Placed DEF HeldInv
<1> QED BY <1>2, <1>3, <1>6, <1>7 DEF HeldInv

LEMMA HeldNext == HeldInv /\ [Next]_vars /\ ~TakesALiveLock => HeldInv'
<1> SUFFICES ASSUME HeldInv, [Next]_vars, ~TakesALiveLock PROVE HeldInv'
  OBVIOUS
<1>t. TInv' /\ TInv /\ TypeOK /\ Control /\ Living
  BY TNext DEF HeldInv, TInv
<1>a. \A p \in Proc : pc[p] # "dead" => p \in alive
  BY <1>t DEF Living
<1>d. None \notin alive
  BY <1>t, NoneIsDead
<1> USE <1>t, <1>a, Jobs
<1>1. ASSUME NEW p \in Proc, Look(p) PROVE HeldInv'
  <2>1. \A f \in Name : f[1] = "lifecycle" /\ f # <<"lifecycle">> => f \in Recoveries
    BY Names DEF Name, Recoveries
  <2>2. /\ pc[p] = "look" /\ want'[p] = want[p] /\ want[p] = "lifecycle"
        /\ pc'[p] \in {"create", "clear"} /\ listed'[p] \subseteq Recoveries
        /\ Only(p) /\ p \in alive'
    BY <1>1, <2>1 DEF Look, Goes, TypeOK, Control, Only
  <2>3. \A n \in Lock : Owns(p, n)' <=> Owns(p, n)
    BY <2>2 DEF Owns
  <2> QED BY <1>1, <2>2, <2>3, Quiet DEF Look, Owns
<1>2. ASSUME NEW p \in Proc, Clear(p) PROVE HeldInv'
  <2>1. pc[p] = "clear" /\ want[p] = "lifecycle" /\ listed[p] \subseteq Recoveries
    BY <1>2 DEF Clear, Control, HeldInv, ClearsAside
  <2>2. /\ pc'[p] \in {"clear", "look", "failed"} /\ want'[p] = want[p]
        /\ listed'[p] \subseteq Recoveries
        /\ Only(p) /\ p \in alive'
    BY <1>2, <2>1 DEF Clear, Retries, Throws, Goes, FirstStep, TypeOK, Only
  <2>3. \A n \in Lock : entry'[<<n>>] = entry[<<n>>]
    BY <1>2, <2>1, ChangedAside DEF Clear, Remove
  <2>4. \A n \in Lock : Owns(p, n)' <=> Owns(p, n)
    BY <2>1, <2>2 DEF Owns
  <2> QED BY <1>2, <2>1, <2>2, <2>3, <2>4, Quiet DEF Clear, Owns
<1>3. ASSUME NEW p \in Proc, Create(p), Exists(<<want[p]>>) PROVE HeldInv'
  <2>1. pc[p] = "create" /\ pc' = [pc EXCEPT ![p] = "inspect"] /\ entry' = entry
    BY <1>3 DEF Create, Goes
  <2>2. /\ pc'[p] = "inspect" /\ want'[p] = want[p] /\ why'[p] = why[p]
        /\ Only(p) /\ p \in alive'
    BY <1>3, <2>1 DEF Create, TypeOK, Only
  <2> QED BY <1>3, <2>1, <2>2, Quiet DEF Create, Owns
<1>4. ASSUME NEW p \in Proc, Create(p), ~Exists(<<want[p]>>) PROVE HeldInv'
  <2> DEFINE m == want[p]
  <2>1. /\ pc[p] = "create" /\ pc' = [pc EXCEPT ![p] = "write"]
        /\ entry' = [entry EXCEPT ![<<m>>] = p] /\ entry[<<m>>] = None
        /\ m \in Lock /\ m \in {"lifecycle", Job[p]}
    BY <1>4 DEF Create, Goes, Control, TypeOK, Exists
  <2>2. entry'[<<m>>] = p /\ \A n \in Lock \ {m} : entry'[<<n>>] = entry[<<n>>]
    BY <2>1, Changed
  <2>3. /\ pc'[p] = "write" /\ want'[p] = m /\ why'[p] = why[p]
        /\ Only(p) /\ p \in alive'
    BY <1>4, <2>1 DEF Create, TypeOK, Only
  <2>4. \A n \in Lock : IF n = m THEN Owns(p, n)' ELSE Owns(p, n)' <=> Owns(p, n)
    BY <2>1, <2>3 DEF Owns
  <2>5. FileNamesOwner'
    <3>1. FileNamesOwner
      BY DEF HeldInv
    <3> QED BY <2>1, <2>2, <2>3, <2>4, <3>1, Ownership
  <2>6. OwnersKnow'
    BY <1>4, <2>3, Knowledge DEF Create, HeldInv
  <2>7. m # "lifecycle" => \A q \in Proc : pc'[q] \notin {"read", "wipe"}
    <3>1. ASSUME m # "lifecycle", NEW q \in Proc, pc[q] \in {"read", "wipe"} PROVE FALSE
      <4>1. Owns(p, "lifecycle") /\ Owns(q, "lifecycle")
        BY <2>1, <3>1 DEF Owns, Control
      <4>2. p = q
        BY <4>1, OneOwner DEF HeldInv
      <4> QED BY <2>1, <3>1, <4>2
    <3> QED BY <2>1, <2>3, <3>1 DEF Only
  <2>8. CleanKnows'
    <3>1. \A s \in Session : s # m => entry'[<<s>>] = entry[<<s>>]
      BY <2>2
    <3>2. m = "lifecycle" => \A s \in Session : s # m
      BY NameAssumption
    <3>3. None \notin alive'
      BY <1>d, <2>3 DEF Only
    <3> QED BY <2>3, <2>7, <3>1, <3>2, <3>3, Cleaning DEF HeldInv
  <2>9. Living' /\ ClearsAside'
    BY <2>3, Placed DEF HeldInv
  <2> QED BY <2>5, <2>6, <2>8, <2>9 DEF HeldInv
<1>5. ASSUME NEW p \in Proc, Write(p) PROVE HeldInv'
  <2>1. pc[p] = "write" /\ want[p] \in Lock /\ want[p] \in written'[p]
    BY <1>5 DEF Write, Control, TypeOK, Pid
  <2>2. /\ IF want[p] = "lifecycle"
           THEN want'[p] = Job[p] /\ pc'[p] = IF Job[p] = "clean" THEN "list" ELSE "create"
           ELSE want'[p] = want[p] /\ pc'[p] = "load"
        /\ want[p] \in {"lifecycle", Job[p]}
        /\ why'[p] = why[p] /\ Only(p) /\ p \in alive'
    BY <1>5 DEF Write, Goes, TypeOK, Only, Pid
  <2>3. \A n \in Lock : Owns(p, n)' <=> Owns(p, n)
    BY <2>1, <2>2 DEF Owns
  <2> QED BY <1>5, <2>1, <2>2, <2>3, Quiet DEF Write, Owns
<1>6. ASSUME NEW p \in Proc, WriteFails(p) PROVE HeldInv'
  <2>1. pc[p] = "write" /\ want[p] \in Lock /\ want[p] \in {"lifecycle", Job[p]}
    BY <1>6 DEF WriteFails, Control, TypeOK
  <2>2. /\ pc'[p] = IF want[p] = "lifecycle" THEN "failed" ELSE "release"
        /\ want'[p] = want[p] /\ why'[p] = "internal_error"
        /\ Only(p) /\ p \in alive'
    BY <1>6 DEF WriteFails, Throws, Goes, TypeOK, Only
  <2>3. "internal_error" # None
    BY ErrorAssumption DEF Error
  <2>4. /\ Owns(p, want[p]) /\ ~Owns(p, want[p])'
        /\ \A m \in Lock \ {want[p]} : Owns(p, m)' <=> Owns(p, m)
        /\ ~Owns(p, Job[p])'
    BY <2>1, <2>2, <2>3 DEF Owns
  <2> QED BY <1>6, <2>1, <2>2, <2>4, GivesUp DEF WriteFails
<1>7. ASSUME NEW p \in Proc, Inspect(p) PROVE HeldInv'
  <2>1. pc[p] = "inspect" /\ want[p] \in Lock /\ want[p] \in {"lifecycle", Job[p]}
    BY <1>7 DEF Inspect, Control, TypeOK
  <2>2. \A error \in Error : error # None
    BY ErrorAssumption
  <2>3. /\ \/ pc'[p] = "rename" /\ why'[p] = why[p]
           \/ /\ pc'[p] = IF want[p] = "lifecycle" THEN "failed" ELSE "release"
              /\ why'[p] # None
        /\ want'[p] = want[p] /\ Only(p) /\ p \in alive'
    BY <1>7, <2>2 DEF Inspect, Throws, Goes, TypeOK, Only, Error, Busy
  <2>4. /\ \A n \in Lock : Owns(p, n)' <=> Owns(p, n)
        /\ ~Owns(p, Job[p])
    BY <2>1, <2>3 DEF Owns
  <2> QED BY <1>7, <2>3, <2>4, Quiet DEF Inspect
<1>8. ASSUME NEW p \in Proc, Rename(p), ~Exists(<<want[p]>>) PROVE HeldInv'
  <2>1. pc[p] = "rename" /\ want[p] \in Lock /\ want[p] \in {"lifecycle", Job[p]}
    BY <1>8 DEF Rename, Control, TypeOK
  <2>2. \A error \in Error : error # None
    BY ErrorAssumption
  <2>3. /\ \/ pc'[p] = FirstStep(p) /\ why'[p] = why[p]
           \/ /\ pc'[p] = IF want[p] = "lifecycle" THEN "failed" ELSE "release"
              /\ why'[p] # None
        /\ want'[p] = want[p] /\ Only(p) /\ p \in alive'
    BY <1>8, <2>2 DEF Rename, Retries, Throws, Goes, TypeOK, Only, Error, Busy
  <2>4. /\ \A n \in Lock : Owns(p, n)' <=> Owns(p, n)
        /\ ~Owns(p, Job[p])
    BY <2>1, <2>3 DEF Owns, FirstStep
  <2> QED BY <1>8, <2>3, <2>4, Quiet DEF Rename, FirstStep
<1>9. ASSUME NEW p \in Proc, Rename(p), Exists(<<want[p]>>) PROVE HeldInv'
  <2>1. /\ pc[p] = "rename" /\ want[p] \in Lock /\ want[p] \in {"lifecycle", Job[p]}
        /\ Recovery(p) \in Recoveries
    BY <1>9 DEF Rename, Control, TypeOK, Recovery, Recoveries
  <2>2. entry[<<want[p]>>] \notin alive
    BY <1>9 DEF TakesALiveLock
  <2>3. /\ entry'[<<want[p]>>] = None
        /\ \A n \in Lock \ {want[p]} : entry'[<<n>>] = entry[<<n>>]
    <3>1. \A n \in Lock : <<n>> \in Name /\ <<n>> # Recovery(p)
                          /\ (n # want[p] => <<n>> # <<want[p]>>)
      BY <2>1, Names DEF Recoveries
    <3>2. entry' = [entry EXCEPT ![<<want[p]>>] = None, ![Recovery(p)] = entry[<<want[p]>>]]
      BY <1>9 DEF Rename
    <3> QED BY <2>1, <3>1, <3>2 DEF TypeOK
  <2>4. /\ pc'[p] = "reread" /\ want'[p] = want[p] /\ Only(p) /\ p \in alive'
    BY <1>9 DEF Rename, Goes, TypeOK, Only
  <2>5. /\ \A n \in Lock : Owns(p, n)' <=> Owns(p, n)
        /\ ~Owns(p, Job[p])'
    BY <2>1, <2>4 DEF Owns
  <2> QED BY <1>9, <2>1, <2>2, <2>3, <2>4, <2>5, Discards DEF Rename
<1>10. ASSUME NEW p \in Proc, Reread(p) PROVE HeldInv'
  <2>1. /\ pc[p] = "reread" /\ want[p] \in Lock /\ want[p] \in {"lifecycle", Job[p]}
        /\ Recovery(p) \in Recoveries
    BY <1>10 DEF Reread, Control, TypeOK, Recovery, Recoveries
  <2>2. \A error \in Error : error # None
    BY ErrorAssumption
  <2>3. /\ \/ pc'[p] = FirstStep(p) /\ why'[p] = why[p]
           \/ /\ pc'[p] = IF want[p] = "lifecycle" THEN "failed" ELSE "release"
              /\ why'[p] # None
        /\ want'[p] = want[p] /\ Only(p) /\ p \in alive'
    BY <1>10, <2>2 DEF Reread, Retries, Throws, Goes, TypeOK, Only, Error, Busy
  <2>4. \A n \in Lock : entry'[<<n>>] = entry[<<n>>]
    BY <1>10, <2>1, ChangedAside DEF Reread, Remove
  <2>5. /\ \A n \in Lock : Owns(p, n)' <=> Owns(p, n)
        /\ ~Owns(p, Job[p])
    BY <2>1, <2>3 DEF Owns, FirstStep
  <2> QED BY <1>10, <2>3, <2>4, <2>5, Quiet DEF Reread, FirstStep
<1>11. ASSUME NEW p \in Proc, Load(p) PROVE HeldInv'
  <2>1. pc[p] = "load" /\ want[p] = Job[p] /\ Job[p] \in Session /\ why[p] = None
    BY <1>11 DEF Load, Control, Starting
  <2>2. /\ pc'[p] = "release" /\ want'[p] = want[p] /\ why'[p] = why[p]
        /\ memory'[p] = saved[Job[p]] /\ written' = written
        /\ Only(p) /\ p \in alive'
    BY <1>11 DEF Load, Goes, TypeOK, Only
  <2>3. \A n \in Lock : Owns(p, n)' <=> Owns(p, n)
    BY <2>1, <2>2 DEF Owns
  <2>4. Job[p] \in written'[p]
    BY <2>1, <2>2 DEF HeldInv, OwnersKnow, Owns
  <2> QED BY <1>11, <2>1, <2>2, <2>3, <2>4, Quiet DEF Load
<1>12. ASSUME NEW p \in Proc, LoadFails(p) PROVE HeldInv'
  <2>1. pc[p] = "load" /\ want[p] = Job[p] /\ Job[p] \in Session
    BY <1>12 DEF LoadFails, Control
  <2>2. /\ pc'[p] = "release" /\ want'[p] = want[p] /\ why'[p] = "state_corrupt"
        /\ Only(p) /\ p \in alive'
    BY <1>12, <2>1 DEF LoadFails, Throws, Goes, TypeOK, Only
  <2>3. "state_corrupt" # None
    BY ErrorAssumption DEF Error
  <2>4. /\ Owns(p, Job[p]) /\ ~Owns(p, Job[p])'
        /\ \A m \in Lock \ {Job[p]} : Owns(p, m)' <=> Owns(p, m)
    BY <2>1, <2>2, <2>3 DEF Owns
  <2> QED BY <1>12, <2>1, <2>2, <2>4, GivesUp DEF LoadFails
<1>13. ASSUME NEW p \in Proc, Release(p) PROVE HeldInv'
  <2>1. pc[p] = "release" /\ want[p] = Job[p]
    BY <1>13 DEF Release, Control
  <2>2. /\ pc'[p] = IF why[p] # None THEN "failed" ELSE IF Job[p] = "clean" THEN "done" ELSE "open"
        /\ want'[p] = want[p] /\ why'[p] = why[p] /\ written' = written /\ memory' = memory
        /\ Only(p) /\ p \in alive'
    BY <1>13 DEF Release, Goes, TypeOK, Only
  <2>3. /\ Owns(p, "lifecycle") /\ ~Owns(p, "lifecycle")'
        /\ \A m \in Lock \ {"lifecycle"} : Owns(p, m)' <=> Owns(p, m)
    BY <2>1, <2>2 DEF Owns
  <2>4. Owns(p, Job[p])' /\ Job[p] \in Session =>
            Job[p] \in written'[p] /\ memory'[p] = saved'[Job[p]]
    BY <1>13, <2>1, <2>2, <2>3 DEF Release, HeldInv, OwnersKnow
  <2> QED BY <1>13, <2>2, <2>3, <2>4, GivesUp DEF Release
<1>14. ASSUME NEW p \in Proc, Close(p) PROVE HeldInv'
  <2>1. pc[p] = "open" /\ want[p] = Job[p] /\ Job[p] \in Session
    BY <1>14 DEF Close, Control
  <2>2. /\ pc'[p] = "done" /\ want'[p] = want[p] /\ why'[p] = why[p]
        /\ Only(p) /\ p \in alive'
    BY <1>14 DEF Close, Goes, TypeOK, Only
  <2>3. /\ Owns(p, Job[p]) /\ ~Owns(p, Job[p])'
        /\ \A m \in Lock \ {Job[p]} : Owns(p, m)' <=> Owns(p, m)
    BY <2>1, <2>2 DEF Owns
  <2> QED BY <1>14, <2>1, <2>2, <2>3, GivesUp DEF Close
<1>15. ASSUME NEW p \in Proc, Save(p) PROVE HeldInv'
  <2>1. pc[p] = "open" /\ want[p] = Job[p] /\ Job[p] \in Session
    BY <1>15 DEF Save, Control
  <2>2. /\ memory'[p] = saved'[Job[p]]
        /\ \A s \in Session \ {Job[p]} : saved'[s] = saved[s]
        /\ written' = written /\ Only(p)
    BY <1>15, <2>1 DEF Save, TypeOK, Only, steps
  <2>3. \A q \in Proc : \A n \in Lock : Owns(q, n)' <=> Owns(q, n)
    BY <1>15 DEF Save, steps, Owns
  <2>4. OwnersKnow'
    <3>1. Owns(p, Job[p])
      BY <2>1 DEF Owns
    <3>2. ASSUME NEW q \in Proc, Owns(q, Job[q]), Job[q] = Job[p] PROVE q = p
      <4> DEFINE s == Job[p]
      <4>1. s \in Lock /\ Owns(p, s) /\ Owns(q, s)
        BY <2>1, <3>1, <3>2
      <4>2. FileNamesOwner
        BY DEF HeldInv
      <4> HIDE DEF s
      <4> QED BY ONLY <3>2, <4>1, <4>2, OneOwner
    <3>3. Job[p] \in written[p]
      BY <2>1, <3>1 DEF HeldInv, OwnersKnow
    <3> QED BY <2>2, <3>2, <3>3, Knowledge DEF HeldInv
  <2>5. FileNamesOwner' /\ Living' /\ ClearsAside' /\ CleanKnows'
    BY <1>15, <2>3 DEF Save, steps, HeldInv, FileNamesOwner, Living, ClearsAside, CleanKnows
  <2> QED BY <2>4, <2>5 DEF HeldInv
<1>16. ASSUME NEW p \in Proc, List(p) PROVE HeldInv'
  <2>1. pc[p] = "list" /\ want[p] = Job[p] /\ Job[p] = "clean"
    BY <1>16 DEF List, Control
  <2>2. /\ pc'[p] = "read" /\ want'[p] = want[p] /\ why'[p] = why[p]
        /\ listed'[p] = {f \in Name : Exists(f) /\ f # <<"lifecycle">>}
        /\ Only(p) /\ p \in alive'
    BY <1>16 DEF List, Goes, TypeOK, Only
  <2>3. \A n \in Lock : Owns(p, n)' <=> Owns(p, n)
    BY <2>1, <2>2 DEF Owns
  <2>4. \A s \in Session : entry[<<s>>] # None => <<s>> \in listed'[p]
    BY <2>2, Names, NameAssumption DEF Exists
  <2> QED BY <1>16, <1>d, <2>1, <2>2, <2>3, <2>4, Quiet DEF List
<1>17. ASSUME NEW p \in Proc, Read(p) PROVE HeldInv'
  <2>1. pc[p] = "read" /\ want[p] = Job[p] /\ Job[p] = "clean"
    BY <1>17 DEF Read, Control
  <2>2. ASSUME NEW s \in Session, entry[<<s>>] \in alive PROVE PidIn(<<s>>) = entry[<<s>>]
    <3>1. PICK q \in Proc : entry[<<s>>] = q /\ Owns(q, s)
      BY <2>2 DEF HeldInv, FileNamesOwner, TypeOK
    <3>2. Job[q] = s
      BY <3>1, NameAssumption DEF Owns
    <3>3. pc[q] # "write"
      <4>1. ASSUME pc[q] = "write" PROVE FALSE
        <5>1. Owns(q, "lifecycle") /\ Owns(p, "lifecycle")
          BY <2>1, <3>1, <3>2, <4>1, NameAssumption DEF Owns
        <5>2. q = p
          BY <5>1, OneOwner DEF HeldInv
        <5> QED BY <2>1, <3>2, <5>2
      <4> QED BY <4>1
    <3> QED BY <3>1, <3>2, <3>3, Names DEF HeldInv, OwnersKnow, PidIn
  <2>3. /\ want'[p] = want[p] /\ pc'[p] \in {"read", "release"}
        /\ Only(p) /\ p \in alive'
    BY <1>17, <2>1 DEF Read, Throws, Goes, TypeOK, Only
  <2>4. \A n \in Lock : Owns(p, n)' <=> Owns(p, n)
    BY <2>1, <2>3 DEF Owns
  <2>5. ASSUME NEW s \in Session, entry[<<s>>] \in alive, pc'[p] = "read"
        PROVE  <<s>> \in listed'[p] \/ <<<<s>>, entry[<<s>>]>> \in seen'[p]
    <3>1. PICK f \in listed[p] : /\ seen'[p] = seen[p] \cup {<<f, PidIn(f)>>}
                                 /\ listed'[p] = listed[p] \ {f}
      BY <1>17, <2>1, <2>5 DEF Read, Throws, Goes, TypeOK
    <3>2. <<s>> \in listed[p] \/ <<<<s>>, entry[<<s>>]>> \in seen[p]
      BY <2>1, <2>5 DEF HeldInv, CleanKnows
    <3> QED BY <2>2, <2>5, <3>1, <3>2
  <2> QED BY <1>17, <2>1, <2>3, <2>4, <2>5, Quiet DEF Read
<1>18. ASSUME NEW p \in Proc, Judge(p) PROVE HeldInv'
  <2>1. pc[p] = "read" /\ want[p] = Job[p] /\ Job[p] = "clean" /\ listed[p] = {}
    BY <1>18 DEF Judge, Control
  <2>2. /\ want'[p] = want[p] /\ pc'[p] \in {"release", "wipe"}
        /\ pc'[p] = "wipe" => \A x \in seen[p] : ~MayBeActive(x[2])
        /\ Only(p) /\ p \in alive'
    BY <1>18, <2>1 DEF Judge, Throws, Goes, TypeOK, Only
  <2>3. \A n \in Lock : Owns(p, n)' <=> Owns(p, n)
    BY <2>1, <2>2 DEF Owns
  <2>4. ASSUME NEW s \in Session, entry[<<s>>] \in alive PROVE pc'[p] # "wipe"
    <3>1. <<<<s>>, entry[<<s>>]>> \in seen[p]
      BY <2>1, <2>4 DEF HeldInv, CleanKnows
    <3> QED BY <2>2, <2>4, <3>1 DEF MayBeActive
  <2> QED BY <1>18, <2>1, <2>2, <2>3, <2>4, Quiet DEF Judge
<1>19. ASSUME NEW p \in Proc, RemoveStale(p) PROVE HeldInv'
  <2>1. pc[p] = "wipe" /\ want[p] = Job[p] /\ Job[p] = "clean"
    BY <1>19 DEF RemoveStale, Control
  <2>2. /\ want'[p] = want[p] /\ pc'[p] \in {"wipe", "release"}
        /\ saved' = saved /\ memory' = memory /\ written' = written
        /\ Only(p) /\ p \in alive'
    BY <1>19, <2>1 DEF RemoveStale, Throws, Goes, TypeOK, Only
  <2>3. \A n \in Lock : Owns(p, n)' <=> Owns(p, n)
    BY <2>1, <2>2 DEF Owns
  <2>4. \A s \in Session : entry[<<s>>] \notin alive
    BY <2>1 DEF HeldInv, CleanKnows
  <2>5. PICK f \in listed[p] : entry' = entry \/ Remove(f)
    BY <1>19 DEF RemoveStale
  <2>6. f \in Name /\ f # <<"lifecycle">>
    BY DEF TypeOK, TInv, Spared
  <2>7. CASE entry' = entry \/ f \in Recoveries
    <3>1. \A n \in Lock : entry'[<<n>>] = entry[<<n>>]
      BY <2>5, <2>7, ChangedAside DEF Remove
    <3> QED BY <2>1, <2>2, <2>3, <2>4, <3>1, Quiet DEF Owns
  <2>8. ASSUME NEW s \in Session, f = <<s>>, Remove(f) PROVE HeldInv'
    <3>1. entry'[<<s>>] = None /\ \A m \in Lock \ {s} : entry'[<<m>>] = entry[<<m>>]
      BY <2>8, Changed DEF Remove
    <3> QED BY <2>1, <2>2, <2>3, <2>4, <3>1, Discards
  <2> QED BY <2>5, <2>6, <2>7, <2>8 DEF Name, Lock, Recoveries
<1>20. ASSUME NEW p \in Proc, Reset(p) PROVE HeldInv'
  <2>1. pc[p] = "wipe" /\ want[p] = Job[p] /\ Job[p] = "clean"
    BY <1>20 DEF Reset, Control
  <2>2. /\ want'[p] = want[p] /\ pc'[p] = "release" /\ entry' = entry
        /\ Only(p) /\ p \in alive'
    BY <1>20, <2>1 DEF Reset, Goes, TypeOK, Only
  <2>3. \A n \in Lock : Owns(p, n)' <=> Owns(p, n)
    BY <2>1, <2>2 DEF Owns
  <2>4. \A q \in Proc, s \in Session : ~Owns(q, s)
    <3>1. ASSUME NEW q \in Proc, NEW s \in Session, Owns(q, s) PROVE FALSE
      <4>1. entry[<<s>>] = q /\ q \in alive
        BY <3>1, OwnersLive DEF HeldInv, FileNamesOwner
      <4> QED BY <2>1, <4>1 DEF HeldInv, CleanKnows
    <3> QED BY <3>1
  <2>5. FileNamesOwner'
    BY <2>2, <2>3, Ownership DEF HeldInv
  <2>6. OwnersKnow'
    BY <2>1, <2>2, <2>4, Knowledge DEF HeldInv
  <2>7. CleanKnows'
    BY <1>d, <2>2, Cleaning DEF HeldInv, Only
  <2>8. Living' /\ ClearsAside'
    BY <2>2, Placed DEF HeldInv
  <2> QED BY <2>5, <2>6, <2>7, <2>8 DEF HeldInv
<1>21. ASSUME NEW p \in Proc, Exit(p) \/ Crash(p) PROVE HeldInv'
  <2>1. /\ pc'[p] = "dead" /\ want'[p] = want[p] /\ Only(p) /\ p \notin alive'
        /\ entry' = entry /\ saved' = saved /\ None \notin alive'
    BY <1>21, <1>d DEF Exit, Crash, Goes, TypeOK, Only
  <2>2. \A n \in Lock : ~Owns(p, n)'
    BY <2>1 DEF Owns
  <2>3. FileNamesOwner'
    BY <2>1, <2>2, Ownership DEF HeldInv
  <2>4. OwnersKnow'
    BY <2>1, <2>2, Knowledge DEF HeldInv
  <2>5. CleanKnows'
    BY <2>1, Cleaning DEF HeldInv
  <2>6. Living' /\ ClearsAside'
    BY <2>1, Placed DEF HeldInv
  <2> QED BY <2>3, <2>4, <2>5, <2>6 DEF HeldInv
<1>22. CASE UNCHANGED vars
  BY <1>22 DEF vars, steps, HeldInv, Living, FileNamesOwner, ClearsAside, OwnersKnow,
     CleanKnows, Owns
<1> QED
  BY <1>1, <1>2, <1>3, <1>4, <1>5, <1>6, <1>7, <1>8, <1>9, <1>10, <1>11, <1>12, <1>13, <1>14,
     <1>15, <1>16, <1>17, <1>18, <1>19, <1>20, <1>21, <1>22 DEF Next, Run, Acquire, Clean

LEMMA HeldHolds == CarefulSpec => []HeldInv
<1>1. HeldInv /\ Next /\ ~TakesALiveLock => HeldInv'
  BY HeldNext
<1>2. HeldInv /\ UNCHANGED vars => HeldInv'
  BY TNext DEF vars, steps, HeldInv, Living, FileNamesOwner, ClearsAside, OwnersKnow, CleanKnows,
     Owns
<1> QED BY <1>1, <1>2, HeldInit, PTL DEF CarefulSpec

\* Whatever the dead have left, whoever dies and wherever, as long as no rename
\* moves the lock of a living process aside (store.mjs 151), a session has one
\* owner, whose lock is in place.
THEOREM LocksExclude == CarefulSpec => [](ExclusiveSession /\ LockVisible)
<1>1. HeldInv => ExclusiveSession /\ LockVisible
  BY HeldSafe
<1> QED BY <1>1, HeldHolds, PTL

\* As long as that does not happen, the owner alone writes its session's file:
\* what it holds is what is saved, whoever else opens, closes, saves, cleans
\* or dies.
THEOREM OwnersAreUndisturbed == CarefulSpec => []Undisturbed
<1>1. HeldInv => Undisturbed
  BY HeldSafe
<1> QED BY <1>1, HeldHolds, PTL

\* As long as that does not happen, a clean removes the sessions only while none
\* is open, though it judges locks that it has read one after the other.
THEOREM CleansFindNoSession == CarefulSpec => []CleansAlone
<1>1. HeldInv => CleansAlone
  BY HeldSafe
<1> QED BY <1>1, HeldHolds, PTL

---------------------------------------------------------------------------
\* The store behind the locks.

\* A step of p is one of the store only when p opens, saves, leaves or wipes.
LEMMA Unseen ==
    ASSUME TypeOK, TypeOK', NEW p \in Proc, pc[p] # "open", pc'[p] # "open", saved' = saved,
           \A q \in Proc \ {p} : pc'[q] = pc[q] /\ memory'[q] = memory[q]
    PROVE  UNCHANGED Store!vars
<1>1. \A q \in Proc : pc'[q] = "open" <=> pc[q] = "open"
  OBVIOUS
<1>2. OpenSessions' = OpenSessions
  BY <1>1 DEF OpenSessions
<1>3. Shown' = Shown
  BY <1>1 DEF Shown
<1> QED BY <1>2, <1>3 DEF Store!vars

LEMMA StoreLeaves ==
    ASSUME TypeOK, TypeOK', NEW p \in Proc, pc[p] = "open", pc'[p] # "open", saved' = saved,
           \A q \in Proc \ {p} : pc'[q] = pc[q] /\ memory'[q] = memory[q]
    PROVE  Store!Leave(p)
<1>1. p \in OpenSessions /\ OpenSessions' = OpenSessions \ {p}
  BY DEF OpenSessions
<1>2. Shown' = [Shown EXCEPT ![p] = None]
  BY DEF Shown
<1> QED BY <1>1, <1>2 DEF Store!Leave

LEMMA StoreStep ==
    HeldInv /\ Next => Store!Next \/ UNCHANGED Store!vars
<1> SUFFICES ASSUME HeldInv, Next PROVE Store!Next \/ UNCHANGED Store!vars
  OBVIOUS
<1>t. TypeOK /\ Control /\ TInv /\ TypeOK'
  BY TNext DEF HeldInv, TInv
<1> USE <1>t
<1>1. ASSUME NEW p \in Proc, Release(p) PROVE Store!Next \/ UNCHANGED Store!vars
  <2>1. /\ pc[p] = "release" /\ want[p] = Job[p] /\ saved' = saved /\ memory' = memory
        /\ \A q \in Proc \ {p} : pc'[q] = pc[q]
        /\ pc'[p] = IF why[p] # None THEN "failed" ELSE IF Job[p] = "clean" THEN "done" ELSE "open"
    BY <1>1 DEF Release, Goes, Control, TypeOK
  <2>2. CASE pc'[p] # "open"
    BY <2>1, <2>2, Unseen
  <2>3. CASE pc'[p] = "open"
    <3>1. why[p] = None /\ Job[p] \in Session /\ Job[p] \in Lock /\ Owns(p, Job[p])
      BY <2>1, <2>3, Jobs DEF Owns
    <3>2. memory[p] = saved[Job[p]]
      BY <2>1, <3>1 DEF HeldInv, OwnersKnow
    <3>3. ASSUME NEW q \in OpenSessions PROVE Job[q] # Job[p]
      <4>1. q \in Proc /\ pc[q] = "open" /\ Owns(q, Job[q])
        BY DEF OpenSessions, Control, Owns
      <4>2. Job[q] = Job[p] => q = p
        BY <3>1, <4>1, OneOwner DEF HeldInv
      <4> QED BY <2>1, <4>1, <4>2
    <3>4. p \notin OpenSessions /\ OpenSessions' = OpenSessions \cup {p}
      BY <2>1, <2>3 DEF OpenSessions
    <3>5. Shown' = [Shown EXCEPT ![p] = saved[Job[p]]]
      BY <2>1, <2>3, <3>2 DEF Shown
    <3>6. Store!Open(p)
      BY <2>1, <3>1, <3>3, <3>4, <3>5 DEF Store!Open
    <3> QED BY <3>6 DEF Store!Next
  <2> QED BY <2>2, <2>3
<1>2. ASSUME NEW p \in Proc, Save(p) PROVE Store!Next
  <2> DEFINE v == IF memory[p] = None THEN 1 ELSE memory[p] + 1
  <2>1. /\ pc[p] = "open" /\ pc' = pc /\ v <= MaxSaves
        /\ memory' = [memory EXCEPT ![p] = v] /\ saved' = [saved EXCEPT ![Job[p]] = v]
    BY <1>2 DEF Save, steps
  <2>2. v \in Nat /\ v # None
    <3>1. memory[p] \in Nat \cup {None}
      BY DEF TypeOK
    <3>2. v \in Nat /\ v >= 1
      BY <3>1
    <3> QED BY <2>1, <3>2, SavesAssumption
  <2> HIDE DEF v
  <2>3. p \in OpenSessions /\ OpenSessions' = OpenSessions
    BY <2>1 DEF OpenSessions
  <2>4. memory'[p] = v /\ \A q \in Proc \ {p} : memory'[q] = memory[q]
    BY <2>1 DEF TypeOK
  <2>5. Shown' = [Shown EXCEPT ![p] = v] /\ Shown'[p] = v
    BY <2>1, <2>4 DEF Shown
  <2>6. Store!Save(p)
    BY <2>1, <2>2, <2>3, <2>5 DEF Store!Save
  <2> QED BY <2>6 DEF Store!Next
<1>3. ASSUME NEW p \in Proc, Close(p) PROVE Store!Next
  <2>1. Store!Leave(p)
    BY <1>3, StoreLeaves DEF Close, Goes, TypeOK
  <2> QED BY <2>1 DEF Store!Next
<1>4. ASSUME NEW p \in Proc, Crash(p) PROVE Store!Next \/ UNCHANGED Store!vars
  <2>1. /\ pc'[p] = "dead" /\ saved' = saved /\ memory' = memory
        /\ \A q \in Proc \ {p} : pc'[q] = pc[q]
    BY <1>4 DEF Crash, Goes, TypeOK
  <2>2. CASE pc[p] = "open"
    BY <2>1, <2>2, StoreLeaves DEF Store!Next
  <2>3. CASE pc[p] # "open"
    BY <2>1, <2>3, Unseen
  <2> QED BY <2>2, <2>3
<1>5. ASSUME NEW p \in Proc, Reset(p) PROVE Store!Next
  <2>1. /\ pc[p] = "wipe" /\ pc'[p] = "release" /\ memory' = memory
        /\ \A q \in Proc \ {p} : pc'[q] = pc[q]
    BY <1>5 DEF Reset, Goes, TypeOK
  <2>2. OpenSessions = {}
    BY <2>1, HeldSafe DEF CleansAlone
  <2>3. OpenSessions' = OpenSessions /\ Shown' = Shown
    BY <2>1 DEF OpenSessions, Shown
  <2> QED BY <1>5, <2>2, <2>3 DEF Reset, Store!Wipe, Store!Next
<1>6. ASSUME NEW p \in Proc, Look(p) \/ Create(p) \/ Write(p) \/ Load(p) \/ Exit(p)
      PROVE  UNCHANGED Store!vars
  BY <1>6, Unseen DEF Look, Create, Write, Load, Exit, Goes, TypeOK
<1>7. ASSUME NEW p \in Proc, Clear(p) \/ Inspect(p) \/ Rename(p) \/ Reread(p)
      PROVE  UNCHANGED Store!vars
  BY <1>7, Unseen DEF Clear, Inspect, Rename, Reread, Retries, FirstStep, Throws, Goes, TypeOK
<1>8. ASSUME NEW p \in Proc, List(p) \/ Read(p) \/ Judge(p) \/ RemoveStale(p)
      PROVE  UNCHANGED Store!vars
  BY <1>8, Unseen DEF List, Read, Judge, RemoveStale, Throws, Goes, TypeOK
<1>9. ASSUME NEW p \in Proc, WriteFails(p) \/ LoadFails(p) PROVE UNCHANGED Store!vars
  BY <1>9, Unseen DEF WriteFails, LoadFails, Throws, Goes, TypeOK
<1> QED
  BY <1>1, <1>2, <1>3, <1>4, <1>5, <1>6, <1>7, <1>8, <1>9 DEF Next, Run, Acquire, Clean

\* Until a live lock is moved aside, opening, saving, closing, dying and
\* cleaning are single steps of one shared store: SessionStore.
THEOREM LocksImplementStore == CarefulSpec => ImplementsSessionStore
<1>1. Init => Store!Init
  BY DEF Init, Store!Init, OpenSessions, Shown
<1>2. HeldInv /\ Next => [Store!Next]_(Store!vars)
  BY StoreStep
<1>3. UNCHANGED vars => UNCHANGED Store!vars
  BY DEF vars, steps, Store!vars, OpenSessions, Shown
<1> QED BY <1>1, <1>2, <1>3, HeldHolds, PTL DEF CarefulSpec, ImplementsSessionStore, Store!Spec

---------------------------------------------------------------------------
\* Whose lock is moved aside.

\* What a process is about to rename is of the dead, or is gone.
RenamesTheDead == \A p \in Proc : pc[p] = "rename" => entry[<<want[p]>>] \notin alive

LEMMA RenamesNext ==
    TInv /\ RenamesTheDead /\ [Next]_vars /\ ~CreatesInTheWay => RenamesTheDead'
<1> SUFFICES ASSUME TInv, RenamesTheDead, [Next]_vars, ~CreatesInTheWay,
                    NEW p \in Proc, pc'[p] = "rename"
             PROVE  entry'[<<want'[p]>>] \notin alive'
  BY DEF RenamesTheDead
<1>t. TypeOK /\ Control /\ None \notin alive /\ alive' \subseteq alive
  BY NoneIsDead DEF TInv, Next, Run, Acquire, Clean, Look, Clear, Create, Write, WriteFails,
     Inspect, Rename, Reread, Load, LoadFails, Release, Save, Close, List, Read, Judge,
     RemoveStale, Reset, Exit, Crash, vars
<1>1. CASE Inspect(p)
  <2>1. Exists(<<want[p]>>) /\ ~MayBeActive(PidIn(<<want[p]>>))
    BY <1>t, <1>1 DEF Inspect, Throws, Goes, TypeOK
  <2>2. entry[<<want[p]>>] \notin alive
    BY <2>1 DEF MayBeActive, PidIn
  <2> QED BY <1>t, <1>1, <2>2 DEF Inspect
<1>2. CASE ~Inspect(p)
  <2>1. pc[p] = "rename" /\ want'[p] = want[p]
    <3>1. ASSUME NEW q \in Proc, q # p, Run(q) \/ Save(q) \/ Close(q) \/ Exit(q) \/ WriteFails(q)
                                        \/ LoadFails(q) \/ Crash(q)
          PROVE  pc'[p] = pc[p] /\ want'[p] = want[p]
      BY <1>t, <3>1 DEF TypeOK, Run, Acquire, Clean, Look, Clear, Create, Write, WriteFails,
         Inspect, Rename, Reread, Load, LoadFails, Release, Save, Close, List, Read, Judge,
         RemoveStale, Reset, Exit, Crash, steps, Goes, Throws, Retries
    <3>2. ASSUME Look(p) \/ Clear(p) \/ Create(p) \/ Write(p) \/ Rename(p) \/ Reread(p) \/ Load(p)
                 \/ Release(p) \/ Close(p) \/ Exit(p) \/ WriteFails(p) \/ LoadFails(p) \/ Crash(p)
          PROVE  pc'[p] = pc[p] /\ want'[p] = want[p]
      BY <1>t, <3>2 DEF TypeOK, Look, Clear, Create, Write, WriteFails, Rename, Reread, Load,
         LoadFails, Release, Close, Exit, Crash, Goes, Throws, Retries, FirstStep
    <3>3. ASSUME Clean(p) \/ Save(p) PROVE pc'[p] = pc[p] /\ want'[p] = want[p]
      BY <1>t, <3>3 DEF TypeOK, Clean, Save, List, Read, Judge, RemoveStale, Reset, steps, Goes,
         Throws
    <3> QED BY <1>2, <3>1, <3>2, <3>3 DEF Next, Run, Acquire, vars, steps
  <2> DEFINE n == want[p]
  <2>2. n \in Lock /\ entry[<<n>>] \notin alive
    BY <1>t, <2>1 DEF Control, RenamesTheDead
  <2>3. entry'[<<n>>] \in {entry[<<n>>], None}
    <3>1. ASSUME NEW f, Remove(f) PROVE entry'[<<n>>] \in {entry[<<n>>], None}
      BY <1>t, <2>2, <3>1, Names DEF Remove, TypeOK
    <3>2. ASSUME NEW q \in Proc, Rename(q) PROVE entry'[<<n>>] \in {entry[<<n>>], None}
      <4>1. Recovery(q) \in Recoveries /\ <<n>> \in Name
        BY <1>t, <2>2, <3>2, Names DEF Rename, Control, TypeOK, Recovery, Recoveries
      <4>2. <<n>> # Recovery(q)
        BY <2>2, <4>1, Names DEF Recoveries
      <4> QED BY <1>t, <3>2, <4>1, <4>2 DEF Rename, TypeOK
    <3>3. ASSUME NEW q \in Proc, Create(q) PROVE entry'[<<n>>] = entry[<<n>>]
      <4>1. Exists(<<want[q]>>) \/ want[q] # n
        BY <2>1, <3>3 DEF CreatesInTheWay
      <4>2. want[q] \in Lock
        BY <1>t, <3>3 DEF Create, Control
      <4> QED BY <2>2, <3>3, <4>1, <4>2, Changed DEF Create
    <3> QED
      BY <3>1, <3>2, <3>3 DEF Next, Run, Acquire, Clean, Look, Clear, Write, WriteFails, Inspect,
         Reread, Load, LoadFails, Release, Save, Close, List, Read, Judge, RemoveStale, Reset,
         Exit, Crash, vars
  <2> QED BY <1>t, <2>1, <2>2, <2>3
<1> QED BY <1>1, <1>2

LEMMA RenamesHolds == PatientSpec => [](TInv /\ RenamesTheDead)
<1>1. Init => TInv /\ RenamesTheDead
  BY TInit DEF Init, RenamesTheDead
<1>2. TInv /\ RenamesTheDead /\ Next /\ ~CreatesInTheWay => TInv' /\ RenamesTheDead'
  BY TNext, RenamesNext
<1>3. TInv /\ RenamesTheDead /\ UNCHANGED vars => TInv' /\ RenamesTheDead'
  BY TNext DEF vars, steps, RenamesTheDead
<1> QED BY <1>1, <1>2, <1>3, PTL DEF PatientSpec

LEMMA RenamesLeaveTheLiving == RenamesTheDead => ~TakesALiveLock
BY DEF RenamesTheDead, TakesALiveLock, Rename

\* The lock of a living process is moved aside only where it was put between the
\* look at a dead lock and its rename: an unreadable pid or one that lives never
\* lets a process get there (store.mjs 103-111, 147-151).
THEOREM OnlyARaceTakesALiveLock == PatientSpec => LiveLocksStay
<1>1. RenamesTheDead => [~TakesALiveLock]_vars
  BY RenamesLeaveTheLiving
<1> QED BY <1>1, RenamesHolds, PTL DEF LiveLocksStay

\* So what holds until a live lock is moved aside holds without that race.
THEOREM PatientIsCareful == PatientSpec => CarefulSpec
<1>1. RenamesTheDead /\ [Next /\ ~CreatesInTheWay]_vars => [Next /\ ~TakesALiveLock]_vars
  BY RenamesLeaveTheLiving
<1> QED BY <1>1, RenamesHolds, PTL DEF PatientSpec, CarefulSpec

---------------------------------------------------------------------------
\* With no lock left over, until a process dies.

\* There is nothing to recover from: no lock is ever moved aside, and whoever
\* has a lock's file holds the lock.
NothingAside ==
    /\ \A f \in Recoveries : entry[f] = None
    /\ \A p \in Proc : pc[p] \notin {"clear", "rename", "reread"}
    /\ \A n \in Lock : /\ entry[<<n>>] # Ghost
                       /\ \A p \in Proc : entry[<<n>>] = p => Owns(p, n)

FreshInv == HeldInv /\ NothingAside /\ crashes = 0

\* A lock's file is of a live process that holds it.
LEMMA Holders ==
    ASSUME FreshInv, NEW n \in Lock
    PROVE  entry[<<n>>] = None \/ \E q \in Proc : entry[<<n>>] = q /\ Owns(q, n) /\ q \in alive
<1>1. entry[<<n>>] \in Pid \cup {None} /\ entry[<<n>>] # Ghost
  BY Names DEF TypeOK, TInv, HeldInv, FreshInv, NothingAside
<1>2. \A q \in Proc : Owns(q, n) => q \in alive
  BY OwnersLive DEF FreshInv, HeldInv
<1> QED BY <1>1, <1>2 DEF Pid, FreshInv, NothingAside

LEMMA FreshInit == ASSUME StaleLocks = {} PROVE Init => FreshInv
<1> SUFFICES ASSUME Init PROVE FreshInv
  OBVIOUS
<1>1. \A f \in Name : entry[f] = None
  BY DEF Init
<1>2. \A p \in Proc : pc[p] = "look"
  BY DEF Init
<1>3. NothingAside
  BY <1>1, <1>2, Names, PidAssumption DEF NothingAside, Name, Recoveries, Pid
<1> QED BY <1>3, HeldInit DEF FreshInv, Init

LEMMA FreshNext == FreshInv /\ [Next]_vars /\ crashes' = 0 => FreshInv'
<1> SUFFICES ASSUME FreshInv, [Next]_vars, crashes' = 0 PROVE FreshInv'
  OBVIOUS
<1>1. \A p \in Proc : ~Clear(p) /\ ~Rename(p) /\ ~Reread(p) /\ ~Crash(p)
  BY DEF FreshInv, NothingAside, Clear, Rename, Reread, Crash
<1>2. HeldInv'
  BY <1>1, HeldNext DEF FreshInv, TakesALiveLock
<1>t. TInv /\ TypeOK /\ Control /\ Spared /\ TInv'
  BY <1>2 DEF FreshInv, HeldInv, TInv
<1> USE <1>t, Jobs
<1>3. \A f \in Recoveries : entry'[f] = None
  <2>1. ASSUME NEW f \in Recoveries, NEW n \in Lock PROVE <<n>> # f /\ f \in Name
    BY Names DEF Recoveries, Name
  <2>2. \A f \in Recoveries : entry[f] = None
    BY DEF FreshInv, NothingAside
  <2>3. ASSUME NEW n \in Lock, NEW v, entry' = [entry EXCEPT ![<<n>>] = v]
        PROVE  \A f \in Recoveries : entry'[f] = None
    BY <2>1, <2>2, <2>3 DEF TypeOK
  <2>4. CASE entry' = entry
    BY <2>2, <2>4
  <2>5. ASSUME NEW p \in Proc, Create(p) PROVE \A f \in Recoveries : entry'[f] = None
    BY <2>3, <2>4, <2>5 DEF Create, Control
  <2>6. ASSUME NEW p \in Proc, WriteFails(p) PROVE \A f \in Recoveries : entry'[f] = None
    BY <2>3, <2>6 DEF WriteFails, Remove, Control
  <2>7. ASSUME NEW p \in Proc, LoadFails(p) \/ Release(p) \/ Close(p)
        PROVE  \A f \in Recoveries : entry'[f] = None
    BY <2>3, <2>7 DEF LoadFails, Release, Close, Remove, Control
  <2>8. ASSUME NEW p \in Proc, RemoveStale(p) PROVE \A f \in Recoveries : entry'[f] = None
    BY <2>2, <2>8 DEF RemoveStale, Remove, TypeOK, Recoveries, Name
  <2> QED
    BY <1>1, <2>4, <2>5, <2>6, <2>7, <2>8 DEF Next, Run, Acquire, Clean, Look, Write, Inspect,
       Load, Save, List, Read, Judge, Reset, Exit, vars
<1>4. \A p \in Proc : pc'[p] \notin {"clear", "rename", "reread"}
  <2>1. \A p \in Proc : pc[p] \notin {"clear", "rename", "reread"}
    BY DEF FreshInv, NothingAside
  <2>2. ASSUME NEW p \in Proc, Look(p) PROVE \A q \in Proc : pc'[q] \in {pc[q], "create"}
    <3>1. \A f \in Name : Exists(f) /\ f[1] = "lifecycle" => f = <<"lifecycle">>
      BY Names DEF Exists, Name, Recoveries, FreshInv, NothingAside
    <3> QED BY <2>2, <3>1 DEF Look, Goes, TypeOK
  <2>3. ASSUME NEW p \in Proc, Inspect(p)
        PROVE  \A q \in Proc : pc'[q] \in {pc[q], "failed", "release"}
    <3>1. Exists(<<want[p]>>) => MayBeActive(PidIn(<<want[p]>>))
      BY <2>3, Holders DEF Inspect, Control, Exists, PidIn, MayBeActive
    <3> QED BY <2>3, <3>1 DEF Inspect, Throws, Goes, TypeOK
  <2>4. ASSUME NEW p \in Proc, Create(p) \/ Write(p) \/ Load(p) \/ Release(p) \/ Close(p)
                               \/ List(p) \/ Reset(p) \/ Exit(p) \/ Save(p)
        PROVE  \A q \in Proc : pc'[q] \notin {"clear", "rename", "reread"}
    BY <2>1, <2>4 DEF Create, Write, Load, Release, Close, List, Reset, Exit, Save, steps, Goes,
       TypeOK
  <2>5. ASSUME NEW p \in Proc, WriteFails(p) \/ LoadFails(p) \/ Read(p) \/ Judge(p) \/ RemoveStale(p)
        PROVE  \A q \in Proc : pc'[q] \notin {"clear", "rename", "reread"}
    BY <2>1, <2>5 DEF WriteFails, LoadFails, Read, Judge, RemoveStale, Throws, Goes, TypeOK
  <2>6. CASE UNCHANGED vars
    BY <2>1, <2>6 DEF vars, steps
  <2> QED
    BY <1>1, <2>1, <2>2, <2>3, <2>4, <2>5, <2>6 DEF Next, Run, Acquire, Clean
<1>5. ASSUME NEW n \in Lock, NEW p \in Proc, entry'[<<n>>] = p PROVE Owns(p, n)'
  <2>1. CASE p \in alive'
    BY <1>2, <1>5, <2>1 DEF HeldInv, FileNamesOwner
  <2>2. CASE p \notin alive'
    \* It exits, or exited long ago: no file of it is left, and none is made.
    <3>1. \A q \in Proc : Create(q) => q \in alive'
      BY DEF Create, FreshInv, HeldInv, Living
    <3>2. entry'[<<n>>] = entry[<<n>>]
      <4>1. ASSUME NEW f, Remove(f) PROVE entry'[<<n>>] \in {None, entry[<<n>>]}
        BY <4>1, Names DEF Remove, TypeOK
      <4>2. ASSUME NEW q \in Proc, Create(q) PROVE entry'[<<n>>] \in {q, entry[<<n>>]}
        BY <4>2, Names DEF Create, TypeOK, Control
      <4>3. None # p
        BY PidAssumption DEF Pid
      <4> QED
        BY <1>1, <1>5, <2>2, <3>1, <4>1, <4>2, <4>3 DEF Next, Run, Acquire, Clean, Look, Write,
           Inspect, Load, Save, List, Read, Judge, Reset, Exit, vars, WriteFails, LoadFails,
           Release, Close, RemoveStale
    <3>3. Owns(p, n)
      BY <1>5, <3>2 DEF FreshInv, NothingAside
    <3>4. p \in alive
      BY <3>3, OwnersLive DEF FreshInv, HeldInv
    <3>5. Exit(p)
      <4>1. PICK q \in Proc : Exit(q)
        BY <1>1, <2>2, <3>4 DEF Next, Run, Acquire, Clean, Look, Create, Write, Inspect, Load,
           Save, List, Read, Judge, Reset, vars, WriteFails, LoadFails, Release, Close, RemoveStale
      <4> QED BY <2>2, <3>4, <4>1 DEF Exit
    <3> QED BY <3>3, <3>5 DEF Exit, Owns
  <2> QED BY <2>1, <2>2
<1>6. \A n \in Lock : entry'[<<n>>] # Ghost
  <2>1. ASSUME NEW n \in Lock, NEW f, Remove(f) PROVE entry'[<<n>>] \in {None, entry[<<n>>]}
    BY <2>1, Names DEF Remove, TypeOK
  <2>2. ASSUME NEW n \in Lock, NEW q \in Proc, Create(q) PROVE entry'[<<n>>] \in {q, entry[<<n>>]}
    BY <2>2, Names DEF Create, TypeOK, Control
  <2>3. \A n \in Lock : entry'[<<n>>] \in Proc \cup {None, entry[<<n>>]}
    BY <1>1, <2>1, <2>2 DEF Next, Run, Acquire, Clean, Look, Write, Inspect, Load, Save, List,
       Read, Judge, Reset, Exit, vars, WriteFails, LoadFails, Release, Close, RemoveStale
  <2>4. \A n \in Lock : entry[<<n>>] # Ghost
    BY DEF FreshInv, NothingAside
  <2> QED BY <2>3, <2>4, PidAssumption DEF Pid
<1> QED BY <1>2, <1>3, <1>4, <1>5, <1>6 DEF FreshInv, NothingAside

\* Until somebody dies.
UntilADeath == TInv /\ crashes \in Nat /\ (crashes = 0 => FreshInv)

LEMMA UntilADeathHolds == ASSUME StaleLocks = {} PROVE Spec => []UntilADeath
<1>1. Init => UntilADeath
  BY FreshInit DEF UntilADeath, FreshInv, HeldInv
<1>2. UntilADeath /\ [Next]_vars => UntilADeath'
  <2> SUFFICES ASSUME UntilADeath, [Next]_vars PROVE UntilADeath'
    OBVIOUS
  <2>1. TInv'
    BY TNext DEF UntilADeath
  <2>2. crashes' \in {crashes, crashes + 1}
    BY DEF Next, Run, Acquire, Clean, Look, Clear, Create, Write, WriteFails, Inspect, Rename,
       Reread, Load, LoadFails, Release, Save, Close, List, Read, Judge, RemoveStale, Reset,
       Exit, Crash, vars
  <2>3. crashes' \in Nat /\ (crashes' = 0 => crashes = 0)
    BY <2>2 DEF UntilADeath
  <2> QED BY <2>1, <2>3, FreshNext DEF UntilADeath
<1> QED BY <1>1, <1>2, PTL DEF Spec

\* With no lock left over by the dead and until one dies nothing is ever moved
\* aside, so all of this holds of every behaviour.
THEOREM FreshLocksExclude ==
    ASSUME StaleLocks = {}
    PROVE  Spec => [](crashes = 0 => ExclusiveSession /\ LockVisible /\ Undisturbed /\ CleansAlone)
<1>1. UntilADeath => (crashes = 0 => ExclusiveSession /\ LockVisible /\ Undisturbed /\ CleansAlone)
  BY HeldSafe DEF UntilADeath, FreshInv
<1> QED BY <1>1, UntilADeathHolds, PTL

\* With no lock left over by the dead and until one dies, whoever is refused a
\* lock is refused for a live process that holds it or is taking it (store.mjs
\* 148, 156, 169). A lock whose process died before it wrote its pid would keep
\* everybody out.
THEOREM RefusalsAreJustified ==
    ASSUME StaleLocks = {} PROVE Spec => RefusedByTheLiving
<1>1. UntilADeath /\ [Next]_vars => [crashes = 0 => \A p \in Proc :
               why'[p] # why[p] /\ why'[p] \in {"state_busy", "session_locked"} =>
                   \E q \in Proc \ {p} : Holding(q, want[p])]_why
  <2> SUFFICES ASSUME UntilADeath, [Next]_vars, crashes = 0, NEW p \in Proc,
                      why'[p] # why[p], why'[p] \in {"state_busy", "session_locked"}
               PROVE  \E q \in Proc \ {p} : Holding(q, want[p])
    OBVIOUS
  <2> FreshInv /\ TInv /\ TypeOK /\ Control
    BY DEF UntilADeath, TInv, FreshInv
  <2>1. Inspect(p)
    <3>1. \A q \in Proc : ~Clear(q) /\ ~Rename(q) /\ ~Reread(q)
      BY DEF FreshInv, NothingAside, Clear, Rename, Reread
    <3>2. PICK q \in Proc : Inspect(q) \/ WriteFails(q) \/ LoadFails(q) \/ Read(q) \/ Judge(q)
                           \/ RemoveStale(q)
      BY <3>1 DEF Next, Run, Acquire, Clean, Look, Create, Write, Load, Release, Save, Close,
         List, Reset, Exit, Crash, vars, steps
    <3>3. ~WriteFails(q) /\ ~LoadFails(q) /\ ~Read(q) /\ ~Judge(q) /\ ~RemoveStale(q)
      BY DEF WriteFails, LoadFails, Read, Judge, RemoveStale, Throws, TypeOK
    <3>4. p = q
      BY <3>2, <3>3 DEF Inspect, Throws, TypeOK
    <3> QED BY <3>2, <3>3, <3>4
  <2>2. pc[p] = "inspect" /\ want[p] \in Lock /\ entry[<<want[p]>>] # None
    BY <2>1 DEF Inspect, Throws, TypeOK, Control, Exists
  <2>3. PICK q \in Proc : Owns(q, want[p]) /\ q \in alive
    BY <2>2, Holders
  <2>4. q # p
    BY <2>2, <2>3 DEF Owns
  <2>5. Holding(q, want[p])
    BY <2>3, Jobs DEF Owns, Holding
  <2> QED BY <2>4, <2>5
<1> QED BY <1>1, UntilADeathHolds, PTL DEF Spec, RefusedByTheLiving

====

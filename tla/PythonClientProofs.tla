---- MODULE PythonClientProofs ----
(***************************************************************************)
(* Theorems about PythonClient for any number of threads: one exchange at  *)
(* a time, answers that are the child's own, and nothing after a failure.  *)
(***************************************************************************)
EXTENDS PythonClient, FiniteSetTheorems, SequenceTheorems, TLAPS

---------------------------------------------------------------------------
\* The invariant.

Holding == {"checking", "getting", "failing", "killing under the lock", "answered", "releasing"}
Place   == Holding \cup {"idle", "acquiring", "refused", "killing", "done", "waiting",
                         "waiting again", "locking"}
Line    == [id : Nat \cup {Unnamed}, ok : BOOLEAN]

Types ==
    /\ lock \in Caller \cup {None} /\ failed \in BOOLEAN /\ sequence \in Nat
    /\ pc \in [Thread -> Place]
    /\ result \in [Caller -> {None, "ok", "raised"}] /\ ident \in [Caller -> Nat \cup {None}]
    /\ worker \in [Caller -> {"none", "writing", "reading", "ended"}]
    /\ completed \in [Caller -> {None, "ok", "rejected", "error"}]

\* The pipes carry ids, and lines with ids.
PipesOK == stdin \in Seq(Nat) /\ stdout \in Seq(Line) /\ busy \in Nat \cup {None}

\* The lock is held by the thread that is past acquiring it, and by no other.
HeldByOne == \A c \in Caller : lock = c <=> pc[c] \in Holding

Exchanging(c) == worker[c] \in {"writing", "reading"}

\* An exchange that is not over belongs to the call that still waits for it,
\* or is left behind by a call that has failed the client.
OverOrFailed ==
    \A c \in Caller :
        /\ Exchanging(c) => failed \/ pc[c] \in {"getting", "failing"}
        /\ Exchanging(c) => ident[c] \in Nat
        /\ pc[c] \in {"idle", "acquiring", "checking"} => worker[c] = "none" /\ result[c] = None
        /\ pc[c] = "killing under the lock" => failed
        /\ pc[c] = "answered" => worker[c] = "ended"
        /\ completed[c] # None => worker[c] = "ended"

OneAtATime == \A c, d \in Caller : Exchanging(c) /\ Exchanging(d) => c = d

\* A good line, the outcome taken from it and the result made of that are the
\* child's answer to the call's own request.
AnswersAreOwn ==
    /\ \A k \in DOMAIN stdout : stdout[k].ok => stdout[k].id \in handled
    /\ \A c \in Caller : completed[c] = "ok" \/ result[c] = "ok" => ident[c] \in handled

IInv == Types /\ PipesOK /\ HeldByOne /\ OverOrFailed /\ OneAtATime /\ AnswersAreOwn

---------------------------------------------------------------------------

LEMMA Threads == Caller \subseteq Thread /\ Closer \in Thread /\ Closer \notin Caller
BY ThreadAssumption DEF Thread

LEMMA InitIInv == Init => IInv
<1> SUFFICES ASSUME Init PROVE IInv
  OBVIOUS
<1>1. PipesOK
  BY EmptySeq DEF Init, PipesOK
<1>2. Types
  BY DEF Init, Types, Place
<1>3. \A c \in Caller : pc[c] = "idle" /\ worker[c] = "none" /\ completed[c] = None /\ result[c] = None
  BY Threads DEF Init
<1>4. HeldByOne /\ OverOrFailed /\ OneAtATime
  BY <1>3, ThreadAssumption, Threads
     DEF Init, HeldByOne, OverOrFailed, OneAtATime, Exchanging, Holding
<1>5. AnswersAreOwn
  <2>1. DOMAIN stdout = {}
    BY DEF Init
  <2> QED BY <1>3, <2>1, ThreadAssumption DEF AnswersAreOwn
<1> QED BY <1>1, <1>2, <1>4, <1>5 DEF IInv

\* c moves on to a place: the lock goes with its place, and its place with its
\* exchange.
Moves(c, to, r) ==
    /\ to \in Place /\ pc' = [pc EXCEPT ![c] = to]
    /\ lock' \in Caller \cup {None} /\ (lock' = c <=> to \in Holding)
    /\ \A d \in Caller \ {c} : lock' = d <=> lock = d
    /\ failed' \in BOOLEAN /\ (failed => failed')
    /\ r \in {None, "ok", "raised"} /\ result' = [result EXCEPT ![c] = r]
    /\ r = "ok" => completed[c] = "ok" \/ result[c] = "ok"
    /\ UNCHANGED <<sequence, ident, worker, completed, stdin, stdout, busy, handled>>
    /\ Exchanging(c) => failed' \/ to \in {"getting", "failing"}
    /\ to \in {"idle", "acquiring", "checking"} =>
          pc[c] \in {"idle", "acquiring", "checking"} /\ r = result[c]
    /\ to = "killing under the lock" => failed'
    /\ to = "answered" => worker[c] = "ended"

LEMMA MovesIInv ==
    ASSUME IInv, NEW c \in Caller, NEW to, NEW r, Moves(c, to, r)
    PROVE  IInv'
<1> USE DEF IInv, Moves
<1>1. c \in Thread /\ \A d \in Caller : d \in Thread
  BY Threads
<1>2. pc'[c] = to /\ \A d \in Caller \ {c} : pc'[d] = pc[d]
  BY <1>1 DEF Types
<1>3. Types'
  BY <1>2 DEF Types
<1>4. /\ result'[c] = r
      /\ \A d \in Caller \ {c} : result'[d] = result[d]
  BY DEF Types
<1>5. HeldByOne'
  BY <1>2 DEF HeldByOne
<1>6. OverOrFailed'
  <2> SUFFICES ASSUME NEW d \in Caller PROVE OverOrFailed!(d)'
    BY DEF OverOrFailed
  <2>1. CASE d = c
    BY <1>2, <1>4, <2>1 DEF OverOrFailed, Exchanging
  <2>2. CASE d # c
    BY <1>2, <1>4, <2>2 DEF OverOrFailed, Exchanging
  <2> QED BY <2>1, <2>2
<1>7. OneAtATime' /\ AnswersAreOwn' /\ PipesOK'
  BY <1>4 DEF OneAtATime, AnswersAreOwn, Exchanging, PipesOK
<1> QED BY <1>3, <1>5, <1>6, <1>7

LEMMA SameLock ==
    ASSUME IInv, NEW c \in Caller, UNCHANGED lock
    PROVE  /\ lock' \in Caller \cup {None} /\ (lock' = c <=> pc[c] \in Holding)
           /\ \A d \in Caller \ {c} : lock' = d <=> lock = d
BY DEF IInv, HeldByOne, Types

LEMMA PlainIInv ==
    ASSUME NEW c \in Caller
    PROVE  IInv /\ (Call(c) \/ AcquireTimeout(c) \/ Get(c) \/ GetTimeout(c)) => IInv'
<1> SUFFICES ASSUME IInv, Call(c) \/ AcquireTimeout(c) \/ Get(c) \/ GetTimeout(c) PROVE IInv'
  OBVIOUS
<1>1. result' = [result EXCEPT ![c] = result[c]] /\ result[c] \in {None, "ok", "raised"}
  BY DEF Call, AcquireTimeout, Get, GetTimeout, IInv, Types
<1>2. /\ UNCHANGED <<lock, failed, sequence, ident, worker, completed, pipes, busy, handled>>
      /\ failed \in BOOLEAN
  BY DEF Call, AcquireTimeout, Get, GetTimeout, thread, server, IInv, Types
<1>3. CASE Call(c)
  <2>1. Goto(c, "idle", "acquiring")
    BY <1>3 DEF Call
  <2>2. worker[c] = "none"
    BY <2>1 DEF Goto, IInv, OverOrFailed
  <2>3. Moves(c, "acquiring", result[c])
    BY <1>1, <1>2, <2>1, <2>2, SameLock DEF Goto, Moves, Place, Holding, pipes, Exchanging
  <2> QED BY <2>3, MovesIInv
<1>4. CASE AcquireTimeout(c)
  <2>1. Goto(c, "acquiring", "refused")
    BY <1>4 DEF AcquireTimeout
  <2>2. worker[c] = "none"
    BY <2>1 DEF Goto, IInv, OverOrFailed
  <2>3. Moves(c, "refused", result[c])
    BY <1>1, <1>2, <2>1, <2>2, SameLock DEF Goto, Moves, Place, Holding, pipes, Exchanging
  <2> QED BY <2>3, MovesIInv
<1>5. CASE GetTimeout(c)
  <2>1. Goto(c, "getting", "failing")
    BY <1>5 DEF GetTimeout
  <2>2. Moves(c, "failing", result[c])
    BY <1>1, <1>2, <2>1, SameLock DEF Goto, Moves, Place, Holding, pipes
  <2> QED BY <2>2, MovesIInv
<1>6. CASE Get(c)
  <2> DEFINE to == IF completed[c] = "error" THEN "failing" ELSE "answered"
  <2>1. worker[c] = "ended" /\ ~Exchanging(c)
    BY <1>6 DEF Get, IInv, OverOrFailed, Exchanging
  <2>2. Goto(c, "getting", to) /\ to \in {"failing", "answered"}
    BY <1>6 DEF Get
  <2> HIDE DEF to
  <2>3. Moves(c, to, result[c])
    BY <1>1, <1>2, <2>1, <2>2, SameLock DEF Goto, Moves, Place, Holding, pipes
  <2> QED BY <2>3, MovesIInv
<1> QED BY <1>3, <1>4, <1>5, <1>6

LEMMA AcquireIInv == ASSUME NEW c \in Caller PROVE IInv /\ Acquire(c) => IInv'
<1> SUFFICES ASSUME IInv, Acquire(c) PROVE IInv'
  OBVIOUS
<1>1. result' = [result EXCEPT ![c] = result[c]] /\ result[c] \in {None, "ok", "raised"}
  BY DEF Acquire, IInv, Types
<1>2. /\ UNCHANGED <<failed, sequence, ident, worker, completed, pipes, busy, handled>>
      /\ failed \in BOOLEAN /\ lock = None /\ lock' = c
  BY DEF Acquire, thread, server, IInv, Types
<1>3. \A d \in Caller : d # None
  BY ThreadAssumption DEF Thread
<1>4. Goto(c, "acquiring", "checking") /\ worker[c] = "none"
  BY DEF Acquire, Goto, IInv, OverOrFailed
<1>5. Moves(c, "checking", result[c])
  BY <1>1, <1>2, <1>3, <1>4 DEF Goto, Moves, Place, Holding, pipes, Exchanging
<1> QED BY <1>5, MovesIInv

LEMMA MarkIInv == ASSUME NEW c \in Caller PROVE IInv /\ Mark(c) => IInv'
<1> SUFFICES ASSUME IInv, Mark(c) PROVE IInv'
  OBVIOUS
<1>1. result' = [result EXCEPT ![c] = result[c]] /\ result[c] \in {None, "ok", "raised"}
  BY DEF Mark, IInv, Types
<1>2. /\ UNCHANGED <<lock, sequence, ident, worker, completed, pipes, busy, handled>>
      /\ failed' = TRUE
  BY DEF Mark, thread, server
<1>3. Goto(c, "refused", "killing") \/ Goto(c, "failing", "killing under the lock")
  BY Threads DEF Mark
<1>4. Moves(c, "killing", result[c]) \/ Moves(c, "killing under the lock", result[c])
  BY <1>1, <1>2, <1>3, SameLock DEF Goto, Moves, Place, Holding, pipes
<1> QED BY <1>4, MovesIInv

LEMMA KillIInv == ASSUME NEW c \in Caller PROVE IInv /\ Kill(c) => IInv'
<1> SUFFICES ASSUME IInv, Kill(c) PROVE IInv'
  OBVIOUS
<1>1. result' = [result EXCEPT ![c] = "raised"]
  BY DEF Kill, Raises
<1>2. /\ UNCHANGED <<lock, failed, sequence, ident, worker, completed, pipes, busy, handled>>
      /\ failed \in BOOLEAN
  BY DEF Kill, thread, IInv, Types
<1>3. Goto(c, "killing", "done") \/ Goto(c, "killing under the lock", "releasing")
  BY DEF Kill
<1>4. Exchanging(c) => failed
  BY <1>3 DEF Goto, IInv, OverOrFailed
<1>5. Moves(c, "done", "raised") \/ Moves(c, "releasing", "raised")
  BY <1>1, <1>2, <1>3, <1>4, SameLock DEF Goto, Moves, Place, Holding, pipes
<1> QED BY <1>5, MovesIInv

LEMMA RecheckIInv == ASSUME NEW c \in Caller PROVE IInv /\ Recheck(c) => IInv'
<1> SUFFICES ASSUME IInv, Recheck(c) PROVE IInv'
  OBVIOUS
<1> DEFINE r == IF completed[c] = "ok" /\ ~failed THEN "ok" ELSE "raised"
<1>1. /\ result' = [result EXCEPT ![c] = r] /\ r \in {"ok", "raised"}
      /\ r = "ok" => completed[c] = "ok"
  BY DEF Recheck
<1> HIDE DEF r
<1>2. /\ UNCHANGED <<lock, failed, sequence, ident, worker, completed, pipes, busy, handled>>
      /\ failed \in BOOLEAN /\ Goto(c, "answered", "releasing")
  BY DEF Recheck, thread, server, IInv, Types
<1>3. ~Exchanging(c)
  BY <1>2 DEF Goto, IInv, OverOrFailed, Exchanging
<1>4. Moves(c, "releasing", r)
  BY <1>1, <1>2, <1>3, SameLock DEF Goto, Moves, Place, Holding, pipes
<1> QED BY <1>4, MovesIInv

LEMMA ReleaseIInv == ASSUME NEW c \in Caller PROVE IInv /\ Release(c) => IInv'
<1> SUFFICES ASSUME IInv, Release(c) PROVE IInv'
  OBVIOUS
<1>1. result' = [result EXCEPT ![c] = result[c]] /\ result[c] \in {None, "ok", "raised"}
  BY DEF Release, IInv, Types
<1>2. /\ UNCHANGED <<failed, sequence, ident, worker, completed, pipes, busy, handled>>
      /\ failed \in BOOLEAN /\ Goto(c, "releasing", "done") /\ lock' = None
  BY DEF Release, thread, server, IInv, Types
<1>3. /\ lock = c /\ \A d \in Caller : d # None
      /\ Exchanging(c) => failed
  BY <1>2, ThreadAssumption DEF Goto, IInv, HeldByOne, Holding, OverOrFailed, Thread
<1>4. Moves(c, "done", result[c])
  BY <1>1, <1>2, <1>3 DEF Goto, Moves, Place, Holding, pipes
<1> QED BY <1>4, MovesIInv

\* A call starts its exchange when it holds the lock and nothing has failed:
\* what others have left behind has then been failed too, so none is under way.
LEMMA CheckIInv == ASSUME NEW c \in Caller PROVE IInv /\ Check(c) => IInv'
<1> SUFFICES ASSUME IInv, Check(c) PROVE IInv'
  OBVIOUS
<1>1. /\ UNCHANGED <<lock, failed, completed, pipes, busy, handled>> /\ failed \in BOOLEAN
      /\ pc[c] = "checking" /\ worker[c] = "none" /\ result[c] = None /\ completed[c] = None
  BY DEF Check, Goto, server, IInv, Types, OverOrFailed
<1>2. CASE failed
  <2>1. /\ Goto(c, "checking", "releasing") /\ result' = [result EXCEPT ![c] = "raised"]
        /\ UNCHANGED <<sequence, ident, worker>>
    BY <1>2 DEF Check, Raises
  <2>2. Moves(c, "releasing", "raised")
    BY <1>1, <1>2, <2>1, SameLock DEF Goto, Moves, Place, Holding, pipes
  <2> QED BY <2>2, MovesIInv
<1>3. CASE ~failed
  <2>1. /\ pc' = [pc EXCEPT ![c] = "getting"] /\ UNCHANGED result
        /\ sequence' = sequence + 1 /\ ident' = [ident EXCEPT ![c] = sequence']
        /\ worker' = [worker EXCEPT ![c] = "writing"]
    BY <1>3 DEF Check, Goto
  <2>2. c \in Thread /\ \A d \in Caller : d \in Thread
    BY Threads
  <2>3. Types'
    <3>1. sequence' \in Nat /\ ident' \in [Caller -> Nat \cup {None}]
      BY <2>1 DEF IInv, Types
    <3>2. pc' \in [Thread -> Place]
      BY <2>1, <2>2 DEF IInv, Types, Place, Holding
    <3> QED BY <1>1, <2>1, <3>1, <3>2 DEF IInv, Types
  <2>4. /\ pc'[c] = "getting" /\ worker'[c] = "writing" /\ ident'[c] \in Nat
        /\ \A d \in Caller \ {c} : pc'[d] = pc[d] /\ worker'[d] = worker[d] /\ ident'[d] = ident[d]
    BY <2>1, <2>2 DEF IInv, Types
  <2>5. \A d \in Caller \ {c} : ~Exchanging(d)
    <3> SUFFICES ASSUME NEW d \in Caller \ {c}, Exchanging(d) PROVE FALSE
      OBVIOUS
    <3>1. pc[d] \in Holding /\ pc[c] \in Holding
      BY <1>1, <1>3 DEF IInv, OverOrFailed, Holding
    <3> QED BY <3>1 DEF IInv, HeldByOne
  <2>6. HeldByOne'
    BY <1>1, <2>4 DEF IInv, HeldByOne, Holding
  <2>7. OverOrFailed'
    <3> SUFFICES ASSUME NEW d \in Caller PROVE OverOrFailed!(d)'
      BY DEF OverOrFailed
    <3>1. CASE d = c
      BY <1>1, <2>4, <3>1 DEF OverOrFailed, Exchanging
    <3>2. CASE d # c
      <4>1. OverOrFailed!(d)
        BY DEF IInv, OverOrFailed
      <4>2. pc'[d] = pc[d] /\ worker'[d] = worker[d] /\ ident'[d] = ident[d]
        BY <2>4, <3>2
      <4> QED BY <1>1, <2>1, <4>1, <4>2 DEF Exchanging
    <3> QED BY <3>1, <3>2
  <2>8. OneAtATime'
    BY <2>4, <2>5 DEF OneAtATime, Exchanging
  <2>9. AnswersAreOwn' /\ PipesOK'
    BY <1>1, <2>1, <2>4, ThreadAssumption DEF IInv, AnswersAreOwn, PipesOK, pipes
  <2> QED BY <2>3, <2>6, <2>7, <2>8, <2>9 DEF IInv
<1> QED BY <1>2, <1>3

LEMMA WriteIInv == ASSUME NEW c \in Caller PROVE IInv /\ Write(c) => IInv'
<1> SUFFICES ASSUME IInv, Write(c) PROVE IInv'
  OBVIOUS
<1>1. /\ UNCHANGED <<lock, failed, sequence, pc, result, ident, stdout, busy, handled>>
      /\ worker[c] = "writing" /\ Exchanging(c) /\ completed[c] # "ok"
  BY ThreadAssumption DEF Write, calls, server, Exchanging, IInv, OverOrFailed
<1>2. \/ worker' = [worker EXCEPT ![c] = "reading"] /\ UNCHANGED completed
      \/ /\ worker' = [worker EXCEPT ![c] = "ended"]
         /\ completed' = [completed EXCEPT ![c] = "error"]
  BY DEF Write, Ends
<1>3. Types'
  BY <1>1, <1>2 DEF IInv, Types
<1>4. /\ \A d \in Caller \ {c} : worker'[d] = worker[d] /\ completed'[d] = completed[d]
      /\ \/ worker'[c] = "reading" /\ completed'[c] = completed[c]
         \/ worker'[c] = "ended" /\ completed'[c] = "error"
  BY <1>2 DEF IInv, Types
<1>5. HeldByOne'
  BY <1>1 DEF IInv, HeldByOne
<1>6. OverOrFailed'
  BY <1>1, <1>4 DEF IInv, OverOrFailed, Exchanging
<1>7. OneAtATime' /\ AnswersAreOwn'
  BY <1>1, <1>4 DEF IInv, OneAtATime, AnswersAreOwn, Exchanging
<1>8. PipesOK'
  <2>1. stdin' = stdin \/ stdin' = Append(stdin, ident[c])
    BY DEF Write
  <2>2. ident[c] \in Nat
    BY <1>1 DEF IInv, OverOrFailed
  <2>3. stdin \in Seq(Nat)
    BY DEF IInv, PipesOK
  <2>4. stdin' \in Seq(Nat)
    BY <2>1, <2>2, <2>3, AppendProperties
  <2> QED BY <1>1, <2>4 DEF IInv, PipesOK
<1> QED BY <1>3, <1>5, <1>6, <1>7, <1>8 DEF IInv

\* A line counts for the call whose id it carries, and for no other.
LEMMA ReadIInv == ASSUME NEW c \in Caller PROVE IInv /\ Read(c) => IInv'
<1> SUFFICES ASSUME IInv, Read(c) PROVE IInv'
  OBVIOUS
<1>1. /\ UNCHANGED <<lock, failed, sequence, pc, result, ident, stdin, busy, handled>>
      /\ worker[c] = "reading" /\ Exchanging(c)
  BY DEF Read, calls, server, Exchanging
<1>2. PICK o \in {"ok", "rejected", "error"} :
         /\ worker' = [worker EXCEPT ![c] = "ended"]
         /\ completed' = [completed EXCEPT ![c] = o]
         /\ o = "ok" => stdout # <<>> /\ Head(stdout).ok /\ Head(stdout).id = ident[c]
  BY DEF Read, Ends
<1>3. /\ stdout' \in Seq(Line)
      /\ \A k \in DOMAIN stdout' : \E j \in DOMAIN stdout : stdout'[k] = stdout[j]
      /\ stdout # <<>> => 1 \in DOMAIN stdout /\ stdout[1] = Head(stdout)
  <2>1. stdout \in Seq(Line)
    BY DEF IInv, PipesOK
  <2>2. CASE stdout # <<>> /\ stdout' = Tail(stdout)
    BY <2>1, <2>2, HeadTailProperties, LenProperties, EmptySeq
  <2>3. CASE UNCHANGED stdout
    BY <2>1, <2>3, HeadTailProperties, LenProperties, EmptySeq
  <2> QED BY <2>2, <2>3 DEF Read
<1>4. Types' /\ PipesOK'
  BY <1>1, <1>2, <1>3 DEF IInv, Types, PipesOK
<1>5. /\ \A d \in Caller \ {c} : worker'[d] = worker[d] /\ completed'[d] = completed[d]
      /\ worker'[c] = "ended" /\ completed'[c] = o
  BY <1>2 DEF IInv, Types
<1>6. HeldByOne'
  BY <1>1 DEF IInv, HeldByOne
<1>7. OverOrFailed'
  BY <1>1, <1>5 DEF IInv, OverOrFailed, Exchanging
<1>8. OneAtATime'
  BY <1>5 DEF IInv, OneAtATime, Exchanging
<1>9. AnswersAreOwn'
  <2>1. o = "ok" => ident[c] \in handled
    BY <1>2, <1>3 DEF IInv, AnswersAreOwn
  <2> QED BY <1>1, <1>3, <1>5, <2>1 DEF IInv, AnswersAreOwn
<1> QED BY <1>4, <1>6, <1>7, <1>8, <1>9 DEF IInv

LEMMA AnswerIInv == IInv /\ Answer => IInv'
<1> SUFFICES ASSUME IInv, Answer PROVE IInv'
  OBVIOUS
<1>1. /\ UNCHANGED <<lock, failed, sequence, pc, result, ident, worker, completed, stdin>>
      /\ busy \in Nat /\ busy' = None
  BY DEF Answer, calls, thread, IInv, PipesOK
<1>2. PICK i \in {busy, Unnamed}, ok \in BOOLEAN :
         /\ stdout' = Append(stdout, [id |-> i, ok |-> ok])
         /\ handled \subseteq handled' /\ (ok => i \in handled')
  BY DEF Answer
<1> DEFINE r == [id |-> i, ok |-> ok]
<1>3. stdout \in Seq(Line) /\ r \in Line /\ r.ok = ok /\ r.id = i
  BY <1>1 DEF IInv, PipesOK, Line
<1> HIDE DEF r
<1>4. /\ stdout' \in Seq(Line)
      /\ \A k \in DOMAIN stdout' : stdout'[k] = r \/ \E j \in DOMAIN stdout : stdout'[k] = stdout[j]
  <2>1. stdout' = Append(stdout, r)
    BY <1>2 DEF r
  <2> QED BY <1>3, <2>1, AppendProperties, LenProperties
<1>5. AnswersAreOwn' /\ PipesOK'
  BY <1>1, <1>2, <1>3, <1>4 DEF IInv, AnswersAreOwn, PipesOK
<1> QED BY <1>1, <1>5 DEF IInv, Types, HeldByOne, OverOrFailed, OneAtATime, Exchanging

\* The child and the closing thread, which takes the lock for no longer than
\* a step, do nothing to the calls.
LEMMA ReceiveIInv == IInv /\ Receive => IInv'
<1> SUFFICES ASSUME IInv, Receive PROVE IInv'
  OBVIOUS
<1>1. PipesOK'
  BY HeadTailProperties DEF IInv, PipesOK, Receive
<1> QED BY <1>1 DEF Receive, calls, thread, IInv, Types, HeldByOne, OverOrFailed, OneAtATime,
           Exchanging, AnswersAreOwn

LEMMA RestIInv == IInv /\ (Dies \/ Mark(Closer) \/ Close) => IInv'
<1> SUFFICES ASSUME IInv, Dies \/ Mark(Closer) \/ Close PROVE IInv'
  OBVIOUS
<1>1. /\ UNCHANGED <<lock, sequence, result, ident, thread, pipes, handled>>
      /\ busy' \in {busy, None} /\ failed' \in {failed, TRUE}
  BY DEF Dies, Mark, Close, CloseKills, Wait, ClosePipes, calls, server
<1>2. pc' \in [Thread -> Place] /\ \A c \in Caller : pc'[c] = pc[c]
  BY Threads DEF Dies, Mark, Close, CloseKills, Wait, ClosePipes, Goto, calls, IInv, Types,
     Place, Holding
<1>3. Types' /\ PipesOK'
  BY <1>1, <1>2 DEF IInv, Types, PipesOK, thread, pipes
<1>4. HeldByOne'
  BY <1>1, <1>2 DEF IInv, HeldByOne
<1>5. OverOrFailed'
  <2>1. UNCHANGED <<result, ident, worker, completed>>
    BY <1>1 DEF thread
  <2>2. failed => failed'
    BY <1>1
  <2> QED BY <1>2, <2>1, <2>2 DEF IInv, OverOrFailed, Exchanging
<1>6. OneAtATime' /\ AnswersAreOwn'
  BY <1>1 DEF IInv, OneAtATime, Exchanging, AnswersAreOwn, thread, pipes
<1> QED BY <1>3, <1>4, <1>5, <1>6 DEF IInv

LEMMA NextIInv == IInv /\ [Next]_vars => IInv'
<1> SUFFICES ASSUME IInv, [Next]_vars PROVE IInv'
  OBVIOUS
<1>1. CASE Next
  BY <1>1, PlainIInv, AcquireIInv, MarkIInv, KillIInv, RecheckIInv, ReleaseIInv, CheckIInv,
     WriteIInv, ReadIInv, AnswerIInv, ReceiveIInv, RestIInv DEF Next, Proceed, Exchange
<1>2. CASE UNCHANGED vars
  BY <1>2 DEF vars, calls, thread, pipes, server, IInv, Types, PipesOK, HeldByOne, OverOrFailed,
              OneAtATime, Exchanging, AnswersAreOwn
<1> QED BY <1>1, <1>2

---------------------------------------------------------------------------
\* The theorems.

LEMMA Invariance == Spec => []IInv
BY InitIInv, NextIInv, PTL DEF Spec

\* However many threads call, and whichever of them give up, fail or close the
\* client, no two of them are at the pipes together and a call that returned
\* got the child's answer to its own request (freshctx_openhands.py 143-148,
\* 171-175).
THEOREM ExchangesExclude == Spec => []OneExchange
<1>1. IInv => OneExchange
  <2> SUFFICES ASSUME IInv PROVE OneExchange
    OBVIOUS
  <2> DEFINE E == {c \in Caller : Exchanging(c)}
  <2>1. CASE E = {}
    BY <2>1, FS_EmptySet DEF IInv, AnswersAreOwn, OneExchange, Exchanging
  <2>2. CASE E # {}
    <3>1. PICK c \in Caller : E = {c}
      BY <2>2 DEF IInv, OneAtATime
    <3>2. Cardinality(E) = 1
      BY <3>1, FS_Singleton
    <3> QED BY <3>2 DEF IInv, AnswersAreOwn, OneExchange, Exchanging
  <2> QED BY <2>1, <2>2
<1> QED BY <1>1, Invariance, PTL

\* Once the client has failed no further call returns a result, not even one
\* whose answer has already been read (freshctx_openhands.py 147, 179).
THEOREM NoResultAfterFailure == Spec => LateAnswersAreLost
<1>1. IInv /\ [Next]_vars =>
        [failed => \A c \in Caller : result'[c] = "ok" => result[c] = "ok"]_result
  <2> SUFFICES ASSUME IInv, [Next]_vars, failed, result' # result
               PROVE  \A c \in Caller : result'[c] = "ok" => result[c] = "ok"
    OBVIOUS
  <2>1. PICK d \in Caller : Kill(d) \/ Check(d) \/ Recheck(d)
    BY DEF Next, Proceed, Exchange, Close, Call, Acquire, AcquireTimeout, Mark, Get, GetTimeout,
           Release, Write, Read, CloseKills, Wait, ClosePipes, Receive, Answer, Dies, vars, calls
  <2>2. result' = [result EXCEPT ![d] = "raised"]
    BY <2>1 DEF Kill, Check, Recheck, Raises
  <2> QED BY <2>2 DEF IInv, Types
<1> QED BY <1>1, Invariance, PTL DEF Spec, LateAnswersAreLost

====

---- MODULE PythonClient ----
(***************************************************************************)
(* The Python client (freshctx_openhands.py, class Client), which several  *)
(* threads use at once: a lock around each exchange, a thread that writes  *)
(* the request and reads one line, deadlines on the lock and on the        *)
(* answer, a failure that kills the child, and close.                      *)
(*                                                                         *)
(* Each action is what a thread does between two points where another one  *)
(* may run.  An exchange thread outlives the call that gave up on it: the  *)
(* join is bounded, so the call goes on whether or not it has ended.       *)
(***************************************************************************)
EXTENDS Naturals, Sequences, FiniteSets

CONSTANTS Caller,    \* threads, each of which makes one request
          Closer,    \* the thread that closes the client
          Unnamed,   \* the id of an answer to a line that was too long
          None

Thread == Caller \cup {Closer}
Id     == 1 .. Cardinality(Caller)

ASSUME ThreadAssumption ==
    /\ IsFiniteSet(Caller) /\ Closer \notin Caller
    /\ Unnamed \notin Id /\ None \notin Thread
    /\ None # "ok" /\ None # "rejected" /\ None # "error"

VARIABLES
    lock, failed, sequence,   \* the client's fields; failure's text is left out
    pc, result,               \* each thread's place, each caller's outcome
    ident, worker, completed, \* each call's id, exchange thread and queue
    stdin, stdout, closed,    \* the pipes, and close() has closed them
    child, busy, handled      \* the child, its request, and all it carried out

calls  == <<pc, result, ident>>
thread == <<worker, completed>>
pipes  == <<stdin, stdout>>
server == <<child, busy, handled>>
vars   == <<lock, failed, sequence, calls, thread, pipes, closed, server>>

Init ==
    /\ lock = None /\ failed = FALSE /\ sequence = 0
    /\ pc = [t \in Thread |-> "idle"] /\ result = [c \in Caller |-> None]
    /\ ident = [c \in Caller |-> None]
    /\ worker = [c \in Caller |-> "none"] /\ completed = [c \in Caller |-> None]
    /\ stdin = <<>> /\ stdout = <<>> /\ closed = FALSE
    /\ child = "running" /\ busy = None /\ handled = {}

Goto(t, from, to) == pc[t] = from /\ pc' = [pc EXCEPT ![t] = to]
Raises(c) == result' = [result EXCEPT ![c] = "raised"]

---------------------------------------------------------------------------
\* request, in the caller's thread.

Call(c) ==
    /\ Goto(c, "idle", "acquiring")
    /\ UNCHANGED <<lock, failed, sequence, result, ident, thread, pipes, closed, server>>

Acquire(c) ==
    /\ lock = None /\ lock' = c
    /\ Goto(c, "acquiring", "checking")
    /\ UNCHANGED <<failed, sequence, result, ident, thread, pipes, closed, server>>

\* The deadline passes while another thread holds the lock: the client is
\* failed under it.
AcquireTimeout(c) ==
    /\ lock # None
    /\ Goto(c, "acquiring", "refused")
    /\ UNCHANGED <<lock, failed, sequence, result, ident, thread, pipes, closed, server>>

\* _fail: the failure is set first, and then the child is killed.
Mark(t) ==
    /\ \/ Goto(t, "refused", "killing")  \/ Goto(t, "failing", "killing under the lock")
       \/ t = Closer /\ Goto(t, "idle", "killing")
    /\ failed' = TRUE
    /\ UNCHANGED <<lock, sequence, result, ident, thread, pipes, closed, server>>

Killed == IF child = "gone" THEN "gone" ELSE "killed"

Kill(c) ==
    /\ \/ Goto(c, "killing", "done") \/ Goto(c, "killing under the lock", "releasing")
    /\ child' = Killed /\ Raises(c)
    /\ UNCHANGED <<lock, failed, sequence, ident, thread, pipes, closed, busy, handled>>

MutCheck(c) ==
    /\ Goto(c, "checking", "getting")
    /\ sequence' = sequence + 1
    /\ ident' = [ident EXCEPT ![c] = sequence']
    /\ worker' = [worker EXCEPT ![c] = "writing"]
    /\ UNCHANGED <<lock, failed, result, completed, pipes, closed, server>>

\* Under the lock: a client that has failed sends nothing.
Check(c) ==
    /\ IF failed
       THEN /\ Goto(c, "checking", "releasing") /\ Raises(c)
            /\ UNCHANGED <<sequence, ident, worker>>
       ELSE /\ Goto(c, "checking", "getting")
            /\ sequence' = sequence + 1
            /\ ident' = [ident EXCEPT ![c] = sequence']
            /\ worker' = [worker EXCEPT ![c] = "writing"]
            /\ UNCHANGED result
    /\ UNCHANGED <<lock, failed, completed, pipes, closed, server>>

Get(c) ==
    /\ completed[c] # None
    /\ Goto(c, "getting", IF completed[c] = "error" THEN "failing" ELSE "answered")
    /\ UNCHANGED <<lock, failed, sequence, result, ident, thread, pipes, closed, server>>

GetTimeout(c) ==
    /\ completed[c] = None
    /\ Goto(c, "getting", "failing")
    /\ UNCHANGED <<lock, failed, sequence, result, ident, thread, pipes, closed, server>>

MutRecheck(c) ==
    /\ Goto(c, "answered", "releasing")
    /\ result' = [result EXCEPT ![c] = IF completed[c] = "ok" THEN "ok" ELSE "raised"]
    /\ UNCHANGED <<lock, failed, sequence, ident, thread, pipes, closed, server>>

\* An answer counts unless another thread has failed the client meanwhile.
Recheck(c) ==
    /\ Goto(c, "answered", "releasing")
    /\ result' = [result EXCEPT ![c] =
                     IF completed[c] = "ok" /\ ~failed THEN "ok" ELSE "raised"]
    /\ UNCHANGED <<lock, failed, sequence, ident, thread, pipes, closed, server>>

MutRelease(c) ==
    /\ Goto(c, "releasing", "done")
    /\ lock' = IF result[c] = "ok" THEN None ELSE lock
    /\ UNCHANGED <<failed, sequence, result, ident, thread, pipes, closed, server>>

Release(c) ==
    /\ Goto(c, "releasing", "done") /\ lock' = None
    /\ UNCHANGED <<failed, sequence, result, ident, thread, pipes, closed, server>>

---------------------------------------------------------------------------
\* exchange, in the call's own thread.

Ends(c, outcome) ==
    /\ worker' = [worker EXCEPT ![c] = "ended"]
    /\ completed' = [completed EXCEPT ![c] = outcome]

\* The request is written, or fails: the child is gone, or the pipe is closed.
Write(c) ==
    /\ worker[c] = "writing"
    /\ IF child = "gone" \/ closed
       THEN Ends(c, "error") /\ UNCHANGED stdin
       ELSE /\ stdin' = Append(stdin, ident[c])
            /\ worker' = [worker EXCEPT ![c] = "reading"] /\ UNCHANGED completed
    /\ UNCHANGED <<lock, failed, sequence, calls, stdout, closed, server>>

\* One line is read and must carry the request's id; no line, no answer.
Read(c) ==
    /\ worker[c] = "reading"
    /\ \/ /\ stdout # <<>> /\ ~closed
          /\ Ends(c, IF Head(stdout).id # ident[c] THEN "error"
                     ELSE IF Head(stdout).ok THEN "ok" ELSE "rejected")
          /\ stdout' = Tail(stdout)
       \/ /\ closed \/ (stdout = <<>> /\ child = "gone")
          /\ Ends(c, "error") /\ UNCHANGED stdout
    /\ UNCHANGED <<lock, failed, sequence, calls, stdin, closed, server>>

---------------------------------------------------------------------------
\* close, in a thread of its own.

\* The second half of its _fail.
CloseKills ==
    /\ Goto(Closer, "killing", "waiting") /\ child' = Killed
    /\ UNCHANGED <<lock, failed, sequence, result, ident, thread, pipes, closed, busy, handled>>

\* A wait sees the child's end; the first that does not is followed by a second
\* kill, and the second raises.
Wait ==
    /\ \/ /\ child = "gone"
          /\ Goto(Closer, "waiting", "locking") \/ Goto(Closer, "waiting again", "locking")
       \/ /\ child # "gone"
          /\ Goto(Closer, "waiting", "waiting again") \/ Goto(Closer, "waiting again", "done")
    /\ UNCHANGED <<lock, failed, sequence, result, ident, thread, pipes, closed, server>>

\* The pipes are closed under the lock, for which there is no deadline.
ClosePipes ==
    /\ lock = None
    /\ Goto(Closer, "locking", "done") /\ closed' = TRUE
    /\ UNCHANGED <<lock, failed, sequence, result, ident, thread, pipes, server>>

---------------------------------------------------------------------------
\* The child answers in turn, may hang, and dies when it is killed or crashes;
\* what it has written can still be read.

Receive ==
    /\ child = "running" /\ busy = None /\ stdin # <<>>
    /\ busy' = Head(stdin) /\ stdin' = Tail(stdin)
    /\ UNCHANGED <<lock, failed, sequence, calls, thread, stdout, closed, child, handled>>

Answer ==
    /\ child \in {"running", "killed"} /\ busy # None
    /\ \/ /\ stdout' = Append(stdout, [id |-> busy, ok |-> TRUE])
          /\ handled' = handled \cup {busy}
       \/ /\ \E i \in {busy, Unnamed} : stdout' = Append(stdout, [id |-> i, ok |-> FALSE])
          /\ UNCHANGED handled
    /\ busy' = None
    /\ UNCHANGED <<lock, failed, sequence, calls, thread, stdin, closed, child>>

Dies ==
    /\ child # "gone" /\ child' = "gone" /\ busy' = None
    /\ UNCHANGED <<lock, failed, sequence, calls, thread, pipes, closed, handled>>

---------------------------------------------------------------------------

Proceed(c) ==
    \/ Acquire(c) \/ AcquireTimeout(c) \/ Mark(c) \/ Kill(c) \/ Check(c)
    \/ Get(c) \/ GetTimeout(c) \/ Recheck(c) \/ Release(c)
Exchange(c) == Write(c) \/ Read(c)
Close       == CloseKills \/ Wait \/ ClosePipes

Next ==
    \/ \E c \in Caller : Call(c) \/ Proceed(c) \/ Exchange(c)
    \/ Mark(Closer) \/ Close
    \/ Receive \/ Answer \/ Dies

\* Threads run and deadlines pass, and a killed child dies.  Nothing is assumed
\* of the child's work, nor that anybody calls.
Spec ==
    /\ Init /\ [][Next]_vars
    /\ \A c \in Caller : WF_vars(Proceed(c)) /\ WF_vars(Exchange(c))
    /\ WF_vars(Close) /\ WF_vars(child = "killed" /\ Dies)

---------------------------------------------------------------------------

\* One exchange at a time: although a call that gave up lets go of the lock
\* while its thread may still be reading, no other thread is ever at the pipes
\* with it, and a call that returned got the child's answer to its own request
\* (freshctx_openhands.py 143-148, 171-175; bridges/openhands/README.md 78-80).
OneExchange ==
    /\ Cardinality({c \in Caller : worker[c] \in {"writing", "reading"}}) <= 1
    /\ \A c \in Caller : result[c] = "ok" => ident[c] \in handled

\* Once a deadline has passed, the transport has failed or the client has been
\* closed, no call returns a result any more, those in progress in other
\* threads included (freshctx_openhands.py 147, 179).
LateAnswersAreLost ==
    [][failed => \A c \in Caller : result'[c] = "ok" => result[c] = "ok"]_result

\* Every call and every close returns, whatever the child does, and a client
\* that has failed leaves no child running.
EverybodyReturns ==
    /\ \A t \in Thread : pc[t] # "idle" ~> pc[t] = "done"
    /\ failed ~> child = "gone"

====

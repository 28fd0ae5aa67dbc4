---- MODULE Client ----
(***************************************************************************)
(* The JavaScript client (src/client.mjs) and the sidecar process it runs: *)
(* requests matched to replies by id, one timer each, a failure that stays *)
(* and rejects everything, the child's exit, and close.                    *)
(*                                                                         *)
(* Each action of the client is one callback of its event loop. The child  *)
(* is what server.mjs and jsonl.mjs make of it: it answers requests in     *)
(* turn, holds the session's lock from the first one on, and releases it   *)
(* when its input ends; a signal stops it where it is.                     *)
(***************************************************************************)
EXTENDS Naturals, Sequences

CONSTANTS MaxRequests, MaxCrashes,   \* bounds
          None

Id == 1 .. MaxRequests

Failure == {"unexpected", "timed out", "write", "exited", "closed"}

ASSUME RequestsAssumption == MaxRequests \in Nat /\ MaxCrashes \in Nat
ASSUME NoneAssumption == None \notin Failure /\ None \notin Id

VARIABLES
    sequence, pending, failure,   \* the client's fields; each pending id has
                                  \* its timer armed
    promise,                      \* what each request's caller has seen
    closing, quiet, forced,       \* close(): how far, called with nothing
                                  \* pending, and its timer fired
    exitSeen,                     \* the "exit" event has been delivered
    requests, ended, replies,     \* the pipes; stdin has been ended
    child, busy, locked, handled, \* the child: the request it works on, the
                                  \* session's lock, what it has done
    term,                         \* a SIGTERM is on its way
    crashes

client == <<sequence, pending, failure, promise>>
life   == <<closing, quiet, forced>>
pipes  == <<requests, ended, replies>>
server == <<child, busy, locked, handled>>
vars   == <<client, life, exitSeen, pipes, server, term, crashes>>

Init ==
    /\ sequence = 0 /\ pending = {} /\ failure = None
    /\ promise = [i \in Id |-> "unasked"]
    /\ closing = "open" /\ quiet = FALSE /\ forced = FALSE
    /\ exitSeen = FALSE
    /\ requests = <<>> /\ ended = FALSE /\ replies = <<>>
    /\ child = "running" /\ busy = None /\ locked = FALSE /\ handled = {}
    /\ term = FALSE /\ crashes = 0

---------------------------------------------------------------------------
\* The client.

MutFails(error, kill) ==
    /\ failure' = IF failure = None THEN error ELSE failure
    /\ promise' = [i \in Id |-> IF i \in pending THEN "rejected" ELSE promise[i]]
    /\ pending' = {}
    /\ term' = term

\* fail: the first failure stays, all that is pending is rejected with it, and
\* the child is signalled unless this is a close.
Fails(error, kill) ==
    /\ failure' = IF failure = None THEN error ELSE failure
    /\ promise' = [i \in Id |-> IF i \in pending THEN "rejected" ELSE promise[i]]
    /\ pending' = {}
    /\ term' = (term \/ (kill /\ child # "exited"))

MutRequest ==
    /\ sequence < MaxRequests
    /\ sequence' = sequence + 1
    /\ IF failure = None
       THEN /\ pending' = pending \cup {sequence}
            /\ promise' = [promise EXCEPT ![sequence'] = "waiting"]
            /\ requests' = Append(requests, sequence')
       ELSE /\ promise' = [promise EXCEPT ![sequence'] = "rejected"]
            /\ UNCHANGED <<pending, requests>>
    /\ UNCHANGED <<failure, life, exitSeen, ended, replies, server, term, crashes>>

\* A request is sent, or refused by an earlier failure.
Request ==
    /\ sequence < MaxRequests
    /\ sequence' = sequence + 1
    /\ IF failure = None
       THEN /\ pending' = pending \cup {sequence'}
            /\ promise' = [promise EXCEPT ![sequence'] = "waiting"]
            /\ requests' = Append(requests, sequence')
       ELSE /\ promise' = [promise EXCEPT ![sequence'] = "rejected"]
            /\ UNCHANGED <<pending, requests>>
    /\ UNCHANGED <<failure, life, exitSeen, ended, replies, server, term, crashes>>

MutLine ==
    /\ replies # <<>> /\ closing # "closed"
    /\ replies' = Tail(replies)
    /\ LET reply == Head(replies)
       IN IF reply.id \in pending
          THEN /\ promise' = [promise EXCEPT ![reply.id] = "resolved"]
               /\ pending' = pending \ {reply.id}
               /\ UNCHANGED <<failure, term>>
          ELSE Fails("unexpected", TRUE)
    /\ UNCHANGED <<sequence, life, exitSeen, requests, ended, server, crashes>>

\* A reply settles its request; one that nobody waits for is a failure.
Line ==
    /\ replies # <<>> /\ closing # "closed"
    /\ replies' = Tail(replies)
    /\ LET reply == Head(replies)
       IN IF reply.id \in pending
          THEN /\ promise' = [promise EXCEPT ![reply.id] =
                                 IF reply.ok THEN "resolved" ELSE "rejected"]
               /\ pending' = pending \ {reply.id}
               /\ UNCHANGED <<failure, term>>
          ELSE Fails("unexpected", TRUE)
    /\ UNCHANGED <<sequence, life, exitSeen, requests, ended, server, crashes>>

MutTimeout(i) ==
    /\ i \in pending
    /\ failure' = "timed out"
    /\ promise' = [promise EXCEPT ![i] = "rejected"]
    /\ UNCHANGED <<pending, term>>
    /\ UNCHANGED <<sequence, life, exitSeen, pipes, server, crashes>>

Timeout(i) ==
    /\ i \in pending
    /\ Fails("timed out", TRUE)
    /\ UNCHANGED <<sequence, life, exitSeen, pipes, server, crashes>>

\* A write to a child that is gone fails.
WriteError ==
    /\ child = "exited" /\ requests # <<>>
    /\ requests' = <<>>
    /\ Fails("write", TRUE)
    /\ UNCHANGED <<sequence, life, exitSeen, ended, replies, server, crashes>>

\* The "exit" event; replies in the pipe are still delivered after it.
ExitSeen ==
    /\ child = "exited" /\ ~exitSeen
    /\ exitSeen' = TRUE
    /\ Fails("exited", TRUE)
    /\ UNCHANGED <<sequence, life, pipes, server, crashes>>

MutClose ==
    /\ closing = "open" /\ closing' = "closing"
    /\ quiet' = (pending = {} /\ failure = None)
    /\ Fails("closed", TRUE)
    /\ ended' = TRUE
    /\ UNCHANGED <<sequence, forced, exitSeen, requests, replies, server, crashes>>

\* close rejects what is pending, ends the child's input and arms its timer.
Close ==
    /\ closing = "open" /\ closing' = "closing"
    /\ quiet' = (pending = {} /\ failure = None)
    /\ Fails("closed", FALSE)
    /\ ended' = TRUE
    /\ UNCHANGED <<sequence, forced, exitSeen, requests, replies, server, crashes>>

\* A second later the child is killed.
CloseTimer ==
    /\ closing = "closing" /\ child # "exited"
    /\ child' = "exited" /\ busy' = None
    /\ forced' = TRUE
    /\ UNCHANGED <<client, closing, quiet, exitSeen, pipes, locked, handled, term, crashes>>

\* The child's "close" event, when it is gone and its output has been read.
Closed ==
    /\ closing = "closing" /\ exitSeen /\ replies = <<>>
    /\ closing' = "closed"
    /\ UNCHANGED <<client, quiet, forced, exitSeen, pipes, server, term, crashes>>

---------------------------------------------------------------------------
\* The child.

\* The first request opens the session; each is worked on in turn.
Receive ==
    /\ child = "running" /\ busy = None /\ requests # <<>>
    /\ busy' = Head(requests) /\ requests' = Tail(requests)
    /\ locked' = TRUE
    /\ UNCHANGED <<client, life, exitSeen, ended, replies, child, handled, term, crashes>>

Answer ==
    /\ child = "running" /\ busy # None
    /\ \E ok \in BOOLEAN :
          /\ replies' = Append(replies, [id |-> busy, ok |-> ok])
          /\ handled' = IF ok THEN handled \cup {busy} ELSE handled
    /\ busy' = None
    /\ UNCHANGED <<client, life, exitSeen, requests, ended, child, locked, term, crashes>>

\* The end of the input closes the store, and the child exits.
Release ==
    /\ child = "running" /\ busy = None /\ requests = <<>> /\ ended
    /\ locked' = FALSE /\ child' = "released"
    /\ UNCHANGED <<client, life, exitSeen, pipes, busy, handled, term, crashes>>

Exit ==
    /\ child = "released" /\ child' = "exited"
    /\ UNCHANGED <<client, life, exitSeen, pipes, busy, locked, handled, term, crashes>>

\* A SIGTERM, or a crash, stops it anywhere.
Terminated ==
    /\ term /\ child # "exited"
    /\ child' = "exited" /\ busy' = None
    /\ UNCHANGED <<client, life, exitSeen, pipes, locked, handled, term, crashes>>

Crash ==
    /\ child # "exited" /\ crashes < MaxCrashes /\ crashes' = crashes + 1
    /\ child' = "exited" /\ busy' = None
    /\ UNCHANGED <<client, life, exitSeen, pipes, locked, handled, term>>

---------------------------------------------------------------------------

Callback ==
    \/ Line \/ (\E i \in Id : Timeout(i)) \/ WriteError \/ ExitSeen
    \/ CloseTimer \/ Closed

Next ==
    \/ Request \/ Close \/ Callback
    \/ Receive \/ Answer \/ Release \/ Exit \/ Terminated \/ Crash

\* Timers fire and events are delivered; a signal kills. Nothing is assumed of
\* the child's work: it may hang.
Spec ==
    /\ Init /\ [][Next]_vars
    /\ WF_vars(Line) /\ WF_vars(\E i \in Id : Timeout(i)) /\ WF_vars(ExitSeen)
    /\ WF_vars(CloseTimer) /\ WF_vars(Closed) /\ WF_vars(Terminated) /\ WF_vars(Exit)

---------------------------------------------------------------------------

\* The fields and pipes keep their types, requests and replies carry ids that
\* were asked for, and a child that is not running works on nothing.
TypeOK ==
    /\ sequence \in 0 .. MaxRequests /\ pending \subseteq 1 .. sequence
    /\ failure \in Failure \cup {None}
    /\ promise \in [Id -> {"unasked", "waiting", "resolved", "rejected"}]
    /\ closing \in {"open", "closing", "closed"}
    /\ {quiet, forced, exitSeen, ended, locked, term} \subseteq BOOLEAN
    /\ requests \in Seq(Id) /\ replies \in Seq([id : Id, ok : BOOLEAN])
    /\ child \in {"running", "released", "exited"} /\ busy \in Id \cup {None}
    /\ handled \subseteq Id /\ crashes \in 0 .. MaxCrashes
    /\ child # "running" => busy = None

\* A caller waits exactly while its request is pending, nobody waits on a
\* client that has failed, and a caller that was answered was answered by the
\* child for that very request (client.mjs 26-31, 38-46, 49).
NobodyIsForgotten ==
    /\ pending = {i \in Id : promise[i] = "waiting"}
    /\ failure # None => pending = {}
    /\ \A i \in Id : promise[i] = "resolved" => i \in handled

\* After a failure no answer comes through, however late it arrives.
FailureIsFinal ==
    [][failure # None => \A i \in Id : promise'[i] = "resolved" => promise[i] = "resolved"]_promise

\* Every request is settled, answered, timed out or failed; a client that has
\* failed or been closed leaves no child behind; and close() returns.
NobodyHangs ==
    /\ \A i \in Id : promise[i] = "waiting" ~> promise[i] # "waiting"
    /\ (failure # None) ~> (child = "exited")
    /\ (closing = "closing") ~> (closing = "closed")

Unharmed == ~forced /\ crashes = 0

\* Closing a client nobody waits on lets the child release its session's lock,
\* unless it was too slow or had died.
QuietCloseReleases == closing = "closed" /\ quiet /\ Unharmed => ~locked

====

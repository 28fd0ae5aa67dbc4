---- MODULE PiExtension ----
(***************************************************************************)
(* The Pi extension (bridges/pi/extension.js) and its bridges              *)
(* (bridges/pi/src/bridge.mjs): reads and provider requests call getBridge *)
(* at once, the host moves between sessions and workspaces, each with its  *)
(* own child and session lock, and session_shutdown closes what is open.   *)
(*                                                                         *)
(* A call creates at most one bridge, which bears its name here.  Client   *)
(* and StoreLocks say what is taken of them: a request is answered or      *)
(* fails its client, a failed or closed client's child goes, and the lock  *)
(* of a child that is gone is free.                                        *)
(***************************************************************************)
EXTENDS Naturals

CONSTANTS MaxCalls,         \* bound: calls of the extension, in the order they come
          Place,            \* where the host may be: a session id, a workspace
          First,            \* the place of the first call: any would do
          None

Call  == 1 .. MaxCalls
Kind  == {"read", "request", "shutdown"}

ASSUME CallAssumption ==
    MaxCalls \in Nat /\ None \notin Call /\ None # "ok"
\* A place is known by its session id and its workspace.
ASSUME PlaceAssumption ==
    /\ First \in Place
    /\ \A p, q \in Place : p.session = q.session /\ p.root = q.root => p = q

VARIABLES
    bridge,                 \* the extension's bridge, or None
    life, hello,            \* each bridge: its client and child, and the answer
                            \* to its hello
    observed,               \* the place whose store has recorded a read
    kind, pc, want, mine,   \* each call: its place in the code, the place it was
    result,                 \* made at, the bridge it waits for or uses, and what
                            \* came of it
    sent,                   \* the reads a request carries
    calm                    \* nobody came while a bridge was being closed

bridges == <<bridge, life, hello>>
calls   == <<kind, pc, want, mine, result, sent>>
vars    == <<bridges, observed, calls, calm>>

NoReads == [ok |-> {}, failed |-> {}]

Init ==
    /\ bridge = None
    /\ life = [b \in Call |-> "none"] /\ hello = [b \in Call |-> "none"]
    /\ observed = [c \in Call |-> None]
    /\ kind = [c \in Call |-> None] /\ pc = [c \in Call |-> "idle"]
    /\ want = [c \in Call |-> None] /\ mine = [c \in Call |-> None]
    /\ result = [c \in Call |-> None] /\ sent = [c \in Call |-> NoReads]
    /\ calm = TRUE

\* A bridge is at the place of the call that made it.
At(b) == want[b]

---------------------------------------------------------------------------
\* getBridge.

MutStopped(b) == life

\* close(): the client fails and the child's input ends.
Stopped(b) == [life EXCEPT ![b] = IF @ = "running" THEN "stopping" ELSE @]
MutServes(b, p) == At(b).root = p.root
Serves(b, p) == At(b).session = p.session /\ At(b).root = p.root

Waits(c, b, where) ==
    /\ mine' = [mine EXCEPT ![c] = b]
    /\ pc'   = [pc EXCEPT ![c] = where]

\* A new bridge says hello at once, and is the extension's.
Creates(c) ==
    /\ bridge' = c
    /\ life'   = [life EXCEPT ![c] = "running"]
    /\ hello'  = [hello EXCEPT ![c] = "asked"]
    /\ Waits(c, c, "hello")

\* Promise callbacks run before the next event: whoever waits for a hello that
\* has been accepted goes on first.
Quiet == \A c \in Call : ~(pc[c] = "hello" /\ hello[mine[c]] = "accepted")

\* Calls come one after the other, before or after those before have ended.
Comes(c, k) ==
    /\ pc[c] = "idle" /\ Quiet
    /\ \A o \in 1 .. c - 1 : pc[o] # "idle"
    /\ kind' = [kind EXCEPT ![c] = k]
    /\ calm' = (calm /\ \A o \in Call : pc[o] \notin {"closing", "shutting"})

Reads(r, p) == {c \in Call : kind[c] = "read" /\ result[c] = r /\ want[c] = p}

\* A call up to its first await, from wherever the host is by now.  A request
\* carries the reads of its session, the failed ones told by the host's flag.
Start(c, k, p) ==
    /\ Comes(c, k) /\ (c = 1 => p = First)
    /\ want' = [want EXCEPT ![c] = p]
    /\ sent' = IF k = "read" THEN sent
               ELSE [sent EXCEPT ![c] = [ok     |-> Reads("ok", p),
                                         failed |-> Reads("failed", p)]]
    /\ \/ /\ bridge = None
          /\ Creates(c)
       \/ /\ bridge # None /\ Serves(bridge, p)
          /\ Waits(c, bridge, "hello")
          /\ UNCHANGED bridges
       \/ /\ bridge # None /\ ~Serves(bridge, p)
          /\ Waits(c, bridge, "closing")
          /\ life' = Stopped(bridge)
          /\ UNCHANGED <<bridge, hello>>
    /\ UNCHANGED <<observed, result>>

\* The old child is gone: whatever the extension's bridge is by now, it is
\* dropped for a new one.
Closed(c) ==
    /\ pc[c] = "closing" /\ life[mine[c]] = "gone" /\ Quiet
    /\ Creates(c)
    /\ UNCHANGED <<kind, observed, want, result, sent, calm>>

Ends(c, outcome) ==
    /\ result' = [result EXCEPT ![c] = outcome]
    /\ pc' = [pc EXCEPT ![c] = "done"]
    /\ mine' = IF outcome = "ok" THEN mine ELSE [mine EXCEPT ![c] = None]
    /\ sent' = [sent EXCEPT ![c] = NoReads]

Refused(b) == hello[b] = "refused" \/ (hello[b] = "asked" /\ life[b] # "running")

\* ready is settled, and the extension's bridge as it is now is returned.
Ready(c) ==
    /\ pc[c] = "hello"
    /\ \/ /\ Refused(mine[c]) \/ (hello[mine[c]] = "accepted" /\ bridge = None)
          /\ Ends(c, "failed")
       \/ /\ hello[mine[c]] = "accepted" /\ bridge # None
          /\ Waits(c, bridge, "working")
          /\ UNCHANGED <<result, sent>>
    /\ UNCHANGED <<bridges, kind, observed, want, calm>>

---------------------------------------------------------------------------
\* Bridge.read and Bridge.rewrite.

\* The child that serves the call answers its observe or its prepare.
Serving(c) ==
    /\ pc[c] = "working" /\ pc' = [pc EXCEPT ![c] = "answered"]
    /\ life[mine[c]] = "running" /\ hello[mine[c]] = "accepted"
    /\ UNCHANGED <<bridges, kind, want, mine, result, sent, calm>>

Observe(c) ==
    /\ kind[c] = "read" /\ Serving(c)
    /\ observed' = [observed EXCEPT ![c] = At(mine[c])]

\* The plan replaces every read its store knows.  The text of a failed one is
\* not what was observed, and a read that succeeded must be replaced: either
\* discards the plan.
Prepare(c) ==
    /\ kind[c] = "request" /\ Serving(c)
    /\ \A r \in sent[c].failed : observed[r] # At(mine[c])
    /\ \A r \in sent[c].ok : observed[r] = At(mine[c])
    /\ UNCHANGED observed

\* The answer arrives: a read returns, and a request goes out once its commit
\* is applied.
Finish(c) ==
    /\ pc[c] = "answered" /\ life[mine[c]] = "running"
    /\ Ends(c, "ok")
    /\ UNCHANGED <<bridges, kind, observed, want, calm>>

\* A call fails on its own account: an unreadable file, an observation or a plan
\* refused, a commit rejected; or because its client did.
GivesUp(c) ==
    /\ \/ pc[c] = "working" /\ (hello[mine[c]] = "accepted" \/ Refused(mine[c]))
       \/ pc[c] = "answered" /\ (kind[c] = "request" \/ life[mine[c]] # "running")
    /\ Ends(c, "failed")
    /\ UNCHANGED <<bridges, kind, observed, want, calm>>

\* A request of the call is not answered in time, and fails its client.
Timeout(c) ==
    /\ \/ pc[c] = "hello" /\ hello[mine[c]] = "asked"
       \/ pc[c] \in {"working", "answered"}
    /\ life[mine[c]] = "running" /\ life' = Stopped(mine[c])
    /\ UNCHANGED <<bridge, hello, observed, calls, calm>>

---------------------------------------------------------------------------

\* session_shutdown, from which the next call starts afresh.
Shutdown(c) ==
    /\ Comes(c, "shutdown")
    /\ bridge' = None /\ Waits(c, bridge, "shutting")
    /\ life' = IF bridge = None THEN life ELSE Stopped(bridge)
    /\ UNCHANGED <<hello, observed, want, result, sent>>

ShutDown(c) ==
    /\ pc[c] = "shutting" /\ (mine[c] # None => life[mine[c]] = "gone")
    /\ Ends(c, "shut")
    /\ UNCHANGED <<bridges, kind, observed, want, calm>>

\* A child other than b's has the session's lock.
LockTaken(b) ==
    \E o \in Call \ {b} : At(o) = At(b) /\ hello[o] = "accepted" /\ life[o] # "gone"

\* The child answers hello: it is refused while another child has the session's
\* lock, and may be for reasons of its own.
Hello(b) ==
    /\ hello[b] = "asked" /\ life[b] = "running"
    /\ \E answer \in {"accepted", "refused"} :
          /\ answer = "accepted" => ~LockTaken(b)
          /\ hello' = [hello EXCEPT ![b] = answer]
    /\ UNCHANGED <<bridge, life, observed, calls, calm>>

\* A child that was told to stop goes, and any child may die.
Gone(b) ==
    /\ life[b] \in {"running", "stopping"}
    /\ life' = [life EXCEPT ![b] = "gone"]
    /\ UNCHANGED <<bridge, hello, observed, calls, calm>>

---------------------------------------------------------------------------

Proceed(c) ==
    \/ Closed(c) \/ Ready(c) \/ Observe(c) \/ Prepare(c)
    \/ Finish(c) \/ GivesUp(c) \/ Timeout(c) \/ ShutDown(c)

Next ==
    \E c \in Call :
       \/ \E k \in {"read", "request"}, p \in Place : Start(c, k, p)
       \/ Shutdown(c) \/ Proceed(c) \/ Hello(c) \/ Gone(c)

\* The host's calls go on, requests are answered or time out, and a child that
\* was told to stop goes.
Spec ==
    /\ Init /\ [][Next]_vars
    /\ \A c \in Call : WF_vars(Proceed(c)) /\ WF_vars(life[c] = "stopping" /\ Gone(c))

---------------------------------------------------------------------------

\* One session at a time: unless a call came while another was waiting for a
\* bridge to close, only the extension's own bridge has a child at work, that
\* child never finds its session locked by one before it, and what succeeded was
\* served at the place it was called from (extension.js 8-21, 49-53;
\* bridges/pi/README.md 84-86).
OneSessionAtATime ==
    calm => /\ \A b \in Call : life[b] = "running" => b = bridge /\ ~LockTaken(b)
            /\ \A c \in Call : result[c] = "ok" => At(mine[c]) = want[c]

\* Every read, request and shutdown comes to an end, however sessions are
\* switched and children die.
EverybodyReturns == \A c \in Call : pc[c] # "idle" ~> pc[c] = "done"

====

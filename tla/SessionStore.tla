---- MODULE SessionStore ----
(***************************************************************************)
(* What openSessionStore, save, close and cleanStore promise the processes *)
(* that share a store, each in one step and without a lock: a session is   *)
(* open in one process, which has what was saved last, and a clean removes *)
(* the sessions while none is open.                                        *)
(***************************************************************************)

CONSTANTS Proc, Session, Job, None

VARIABLES
    open,      \* the processes with an open session
    memory,    \* what each of them holds
    saved      \* what each session's file holds

vars == <<open, memory, saved>>

Init ==
    /\ open = {}
    /\ memory = [p \in Proc |-> None] /\ saved = [s \in Session |-> None]

Open(p) ==
    /\ p \notin open /\ Job[p] \in Session
    /\ \A q \in open : Job[q] # Job[p]
    /\ open' = open \cup {p}
    /\ memory' = [memory EXCEPT ![p] = saved[Job[p]]]
    /\ UNCHANGED saved

\* What it saves is up to the session.
Save(p) ==
    /\ p \in open
    /\ memory' = [memory EXCEPT ![p] = memory'[p]] /\ memory'[p] # None
    /\ saved' = [saved EXCEPT ![Job[p]] = memory'[p]]
    /\ UNCHANGED open

\* It closes the session, or dies.
Leave(p) ==
    /\ p \in open
    /\ open' = open \ {p} /\ memory' = [memory EXCEPT ![p] = None]
    /\ UNCHANGED saved

Wipe ==
    /\ open = {}
    /\ saved' = [s \in Session |-> None]
    /\ UNCHANGED <<open, memory>>

Next == Wipe \/ \E p \in Proc : Open(p) \/ Save(p) \/ Leave(p)

Spec == Init /\ [][Next]_vars

====

---- MODULE ClientProofs ----
(***************************************************************************)
(* Theorems about Client for any number of requests and crashes: nobody    *)
(* waits on a client that has failed, a failure is final, and a quiet      *)
(* close leaves no lock behind. And about PiExtension, which runs a client *)
(* in each of its bridges, for any number of calls and sessions: a child   *)
(* serves one session at a time.                                           *)
(***************************************************************************)
EXTENDS Client, SequenceTheorems, TLAPS

---------------------------------------------------------------------------
\* The invariant.

Answered(i) == \E k \in DOMAIN replies : replies[k].id = i
Queued(i)   == \E k \in DOMAIN requests : requests[k] = i

\* Each request is in one place at most: in a pipe, or in the child's hands.
OnePlace ==
    /\ \A j, k \in DOMAIN requests : requests[j] = requests[k] => j = k
    /\ \A j, k \in DOMAIN replies : replies[j].id = replies[k].id => j = k
    /\ \A i \in Id : /\ i > sequence => ~Queued(i) /\ busy # i /\ ~Answered(i)
                     /\ ~(Queued(i) /\ busy = i)
                     /\ ~(Queued(i) /\ Answered(i))
                     /\ ~(busy = i /\ Answered(i))

\* While nothing has failed, all that is under way is waited for, so no reply
\* can be an unexpected one, and nobody has signalled the child.
AllExpected ==
    failure = None =>
        /\ \A i \in Id : Queued(i) \/ busy = i \/ Answered(i) => i \in pending
        /\ ~term /\ ~ended

\* Only the child's own work makes a good reply.
GoodRepliesAreDone ==
    \A k \in DOMAIN replies : replies[k].ok => replies[k].id \in handled

\* A close that finds nothing pending finds nothing under way either, and
\* sends no signal.
QuietIsQuiet ==
    quiet => /\ failure # None /\ ~term
             /\ requests = <<>> /\ replies = <<>> /\ busy = None

\* A child that is gone and that nothing has stopped has released the lock.
GoneIsReleased ==
    /\ exitSeen => child = "exited"
    /\ closing = "closed" => exitSeen
    /\ child = "released" => ~locked
    /\ child = "exited" /\ (quiet \/ failure = None) /\ Unharmed => ~locked

IInv ==
    /\ TypeOK /\ NobodyIsForgotten
    /\ OnePlace /\ AllExpected /\ GoodRepliesAreDone
    /\ QuietIsQuiet /\ GoneIsReleased

---------------------------------------------------------------------------
\* The pipes.

LEMMA TailOf ==
    ASSUME NEW S, NEW s \in Seq(S), s # <<>>
    PROVE  /\ Tail(s) \in Seq(S) /\ Head(s) \in S
           /\ 1 \in DOMAIN s /\ s[1] = Head(s)
           /\ \A k \in DOMAIN Tail(s) :
                 k \in Nat \ {0} /\ k + 1 \in DOMAIN s /\ Tail(s)[k] = s[k + 1]
BY HeadTailProperties, LenProperties, EmptySeq

LEMMA AppendOf ==
    ASSUME NEW S, NEW s \in Seq(S), NEW e \in S
    PROVE  /\ Append(s, e) \in Seq(S) /\ Append(s, e) # <<>>
           /\ \A k \in DOMAIN Append(s, e) :
                 \/ k \in DOMAIN s /\ Append(s, e)[k] = s[k]
                 \/ k \notin DOMAIN s /\ k = Len(s) + 1 /\ Append(s, e)[k] = e
BY AppendProperties, LenProperties

\* Taking the first reply off the pipe takes its id off, and adds none.
LEMMA ReplyTaken ==
    ASSUME TypeOK, OnePlace, replies # <<>>, replies' = Tail(replies)
    PROVE  /\ replies' \in Seq([id : Id, ok : BOOLEAN])
           /\ Head(replies) \in [id : Id, ok : BOOLEAN]
           /\ Answered(Head(replies).id)
           /\ \A i : i = Head(replies).id => ~Answered(i)'
           /\ \A i : Answered(i)' => Answered(i)
           /\ \A j, k \in DOMAIN replies' : replies'[j].id = replies'[k].id => j = k
           /\ \A k \in DOMAIN replies' : \E j \in DOMAIN replies : replies'[k] = replies[j]
           /\ \E j \in DOMAIN replies : Head(replies) = replies[j]
<1> DEFINE R == [id : Id, ok : BOOLEAN]
<1>1. replies \in Seq(R)
  BY DEF TypeOK
<1> HIDE DEF R
<1>2. /\ \A k \in DOMAIN replies' : k \in Nat \ {0} /\ k + 1 \in DOMAIN replies
                                     /\ replies'[k] = replies[k + 1]
      /\ 1 \in DOMAIN replies /\ replies[1] = Head(replies)
      /\ Head(replies) \in R /\ replies' \in Seq(R)
  BY <1>1, TailOf
<1>3. \A j, k \in DOMAIN replies : replies[j].id = replies[k].id => j = k
  BY DEF OnePlace
<1>4. \A k \in DOMAIN replies' : replies'[k].id # Head(replies).id
  <2> SUFFICES ASSUME NEW k \in DOMAIN replies' PROVE replies[k + 1].id # replies[1].id
    BY <1>2
  <2>1. k + 1 \in DOMAIN replies /\ 1 \in DOMAIN replies /\ k + 1 # 1
    BY <1>2
  <2> QED BY <2>1, <1>3
<1>5. ASSUME NEW j \in DOMAIN replies', NEW k \in DOMAIN replies', replies'[j].id = replies'[k].id
      PROVE  j = k
  <2>1. j + 1 = k + 1
    BY <1>2, <1>3, <1>5
  <2> QED BY <1>2, <2>1
<1>6. \A k \in DOMAIN replies' : \E j \in DOMAIN replies : replies'[k] = replies[j]
  BY <1>2
<1>7. \A i : Answered(i)' => Answered(i)
  BY <1>6 DEF Answered
<1>8. Answered(Head(replies).id) /\ \A i : i = Head(replies).id => ~Answered(i)'
  BY <1>2, <1>4 DEF Answered
<1> QED BY <1>2, <1>5, <1>6, <1>7, <1>8 DEF R

\* Putting a reply on the pipe puts its id on.
LEMMA ReplyPut ==
    ASSUME TypeOK, OnePlace, NEW r \in [id : Id, ok : BOOLEAN], ~Answered(r.id),
           replies' = Append(replies, r)
    PROVE  /\ replies' \in Seq([id : Id, ok : BOOLEAN])
           /\ \A i : Answered(i)' => Answered(i) \/ i = r.id
           /\ \A j, k \in DOMAIN replies' : replies'[j].id = replies'[k].id => j = k
           /\ \A k \in DOMAIN replies' :
                 replies'[k] = r \/ \E j \in DOMAIN replies : replies'[k] = replies[j]
<1>1. replies \in Seq([id : Id, ok : BOOLEAN])
  BY DEF TypeOK
<1>2. /\ \A k \in DOMAIN replies' :
            \/ k \in DOMAIN replies /\ replies'[k] = replies[k]
            \/ k \notin DOMAIN replies /\ k = Len(replies) + 1 /\ replies'[k] = r
      /\ replies' \in Seq([id : Id, ok : BOOLEAN])
  BY <1>1, AppendOf
<1>3. \A j, k \in DOMAIN replies : replies[j].id = replies[k].id => j = k
  BY DEF OnePlace
<1> QED BY <1>2, <1>3 DEF Answered

\* The same of the requests.
LEMMA RequestTaken ==
    ASSUME TypeOK, OnePlace, requests # <<>>, requests' = Tail(requests)
    PROVE  /\ requests' \in Seq(Id) /\ Head(requests) \in Id
           /\ Queued(Head(requests))
           /\ \A i : i = Head(requests) => ~Queued(i)'
           /\ \A i : Queued(i)' => Queued(i)
           /\ \A j, k \in DOMAIN requests' : requests'[j] = requests'[k] => j = k
<1>1. requests \in Seq(Id)
  BY DEF TypeOK
<1>2. /\ \A k \in DOMAIN requests' : k \in Nat \ {0} /\ k + 1 \in DOMAIN requests
                                      /\ requests'[k] = requests[k + 1]
      /\ 1 \in DOMAIN requests /\ requests[1] = Head(requests)
      /\ Head(requests) \in Id /\ requests' \in Seq(Id)
  BY <1>1, TailOf
<1>3. \A j, k \in DOMAIN requests : requests[j] = requests[k] => j = k
  BY DEF OnePlace
<1>4. \A k \in DOMAIN requests' : requests'[k] # Head(requests)
  <2> SUFFICES ASSUME NEW k \in DOMAIN requests' PROVE requests[k + 1] # requests[1]
    BY <1>2
  <2>1. k + 1 \in DOMAIN requests /\ 1 \in DOMAIN requests /\ k + 1 # 1
    BY <1>2
  <2> QED BY <2>1, <1>3
<1>5. ASSUME NEW j \in DOMAIN requests', NEW k \in DOMAIN requests', requests'[j] = requests'[k]
      PROVE  j = k
  <2>1. j + 1 = k + 1
    BY <1>2, <1>3, <1>5
  <2> QED BY <1>2, <2>1
<1>6. \A i : Queued(i)' => Queued(i)
  BY <1>2 DEF Queued
<1>7. Queued(Head(requests)) /\ \A i : i = Head(requests) => ~Queued(i)'
  BY <1>2, <1>4 DEF Queued
<1> QED BY <1>2, <1>5, <1>6, <1>7

LEMMA RequestPut ==
    ASSUME TypeOK, OnePlace, NEW i \in Id, ~Queued(i), requests' = Append(requests, i)
    PROVE  /\ requests' \in Seq(Id)
           /\ \A j : Queued(j)' => Queued(j) \/ j = i
           /\ \A j, k \in DOMAIN requests' : requests'[j] = requests'[k] => j = k
<1>1. requests \in Seq(Id)
  BY DEF TypeOK
<1>2. /\ \A k \in DOMAIN requests' :
            \/ k \in DOMAIN requests /\ requests'[k] = requests[k]
            \/ k \notin DOMAIN requests /\ k = Len(requests) + 1 /\ requests'[k] = i
      /\ requests' \in Seq(Id)
  BY <1>1, AppendOf
<1>3. \A j, k \in DOMAIN requests : requests[j] = requests[k] => j = k
  BY DEF OnePlace
<1> QED BY <1>2, <1>3 DEF Queued

LEMMA EmptyPipes ==
    ASSUME TypeOK
    PROVE  /\ requests = <<>> <=> \A i \in Id : ~Queued(i)
           /\ replies = <<>> <=> \A i \in Id : ~Answered(i)
<1>1. requests # <<>> => Queued(Head(requests)) /\ Head(requests) \in Id
  BY TailOf DEF TypeOK, Queued
<1>2. replies # <<>> => Answered(Head(replies).id) /\ Head(replies).id \in Id
  <2> DEFINE R == [id : Id, ok : BOOLEAN]
  <2>1. replies \in Seq(R)
    BY DEF TypeOK
  <2>2. \A r \in R : r.id \in Id
    OBVIOUS
  <2> HIDE DEF R
  <2> QED BY <2>1, <2>2, TailOf DEF Answered
<1>3. DOMAIN <<>> = {}
  OBVIOUS
<1> QED BY <1>1, <1>2, <1>3 DEF Queued, Answered

---------------------------------------------------------------------------
\* A failure.

\* What fail does to the client's own fields.
LEMMA FailsOK ==
    ASSUME TypeOK, NobodyIsForgotten, NEW error \in Failure, NEW kill \in BOOLEAN,
           Fails(error, kill)
    PROVE  /\ pending' = {} /\ failure' \in Failure /\ term' \in BOOLEAN
           /\ promise' \in [Id -> {"unasked", "waiting", "resolved", "rejected"}]
           /\ \A i \in Id : /\ promise'[i] # "waiting"
                            /\ promise'[i] = "resolved" => promise[i] = "resolved"
                            /\ promise'[i] = "unasked" => promise[i] = "unasked"
           /\ pending = {} => promise' = promise
           /\ ~kill \/ child = "exited" => term' = term
<1>1. failure' \in Failure /\ pending' = {}
  BY NoneAssumption DEF Fails, TypeOK
<1>2. /\ promise' \in [Id -> {"unasked", "waiting", "resolved", "rejected"}]
      /\ \A i \in Id : promise'[i] = IF i \in pending THEN "rejected" ELSE promise[i]
  BY DEF Fails, TypeOK
<1>3. \A i \in Id : promise[i] = "waiting" => i \in pending
  BY DEF NobodyIsForgotten
<1>4. pending = {} => promise' = promise
  BY DEF Fails, TypeOK
<1>5. /\ term' \in BOOLEAN
      /\ ~kill \/ child = "exited" => term' = term
  BY DEF Fails, TypeOK
<1> QED BY <1>1, <1>2, <1>3, <1>4, <1>5

\* What is enough for the invariant after a step that fails the client.
LEMMA AfterFailure ==
    ASSUME IInv, NEW error \in Failure, NEW kill \in BOOLEAN, Fails(error, kill),
           UNCHANGED <<sequence, handled, busy>>,
           \A i : Queued(i)' => Queued(i), \A i : Answered(i)' => Answered(i)
    PROVE  /\ NobodyIsForgotten' /\ AllExpected'
           /\ failure' \in Failure /\ pending' = {} /\ term' \in BOOLEAN
           /\ promise' \in [Id -> {"unasked", "waiting", "resolved", "rejected"}]
<1>1. TypeOK /\ NobodyIsForgotten
  BY DEF IInv
<1>2. /\ pending' = {} /\ failure' \in Failure /\ term' \in BOOLEAN
      /\ promise' \in [Id -> {"unasked", "waiting", "resolved", "rejected"}]
      /\ \A i \in Id : promise'[i] # "waiting" /\ (promise'[i] = "resolved" => promise[i] = "resolved")
  BY <1>1, FailsOK
<1>3. AllExpected'
  BY <1>2, NoneAssumption DEF AllExpected
<1>4. NobodyIsForgotten'
  BY <1>1, <1>2 DEF NobodyIsForgotten
<1> QED BY <1>2, <1>3, <1>4

---------------------------------------------------------------------------
\* One lemma for each action.

LEMMA Still ==
    /\ requests' = requests => \A i : Queued(i)' <=> Queued(i)
    /\ replies' = replies => \A i : Answered(i)' <=> Answered(i)
BY DEF Queued, Answered

LEMMA InitIInv == Init => IInv
<1> SUFFICES ASSUME Init PROVE IInv
  OBVIOUS
<1>1. DOMAIN requests = {} /\ DOMAIN replies = {}
  BY DEF Init
<1>2. \A i : ~Queued(i) /\ ~Answered(i)
  BY <1>1 DEF Queued, Answered
<1>3. TypeOK
  <2>1. requests \in Seq(Id) /\ replies \in Seq([id : Id, ok : BOOLEAN])
    BY EmptySeq DEF Init
  <2>2. sequence \in 0 .. MaxRequests /\ pending \subseteq 1 .. sequence
    BY RequestsAssumption DEF Init
  <2>3. promise \in [Id -> {"unasked", "waiting", "resolved", "rejected"}]
    BY DEF Init
  <2>4. crashes \in 0 .. MaxCrashes
    BY RequestsAssumption DEF Init
  <2> QED BY <2>1, <2>2, <2>3, <2>4 DEF Init, TypeOK
<1>4. NobodyIsForgotten /\ GoodRepliesAreDone
  BY <1>1 DEF Init, NobodyIsForgotten, GoodRepliesAreDone
<1>5. OnePlace
  BY <1>1, <1>2, NoneAssumption DEF OnePlace, Init
<1>6. AllExpected
  BY <1>2, NoneAssumption DEF Init, AllExpected
<1>7. QuietIsQuiet /\ GoneIsReleased
  BY DEF Init, QuietIsQuiet, GoneIsReleased
<1> QED BY <1>3, <1>4, <1>5, <1>6, <1>7 DEF IInv

\* With the pipes as they were, a request stays in the place it was in, or
\* leaves the hands of a child that stops.
LEMMA PipesStand ==
    ASSUME IInv, UNCHANGED <<sequence, requests, replies, handled>>, busy' \in {busy, None}
    PROVE  /\ OnePlace' /\ GoodRepliesAreDone'
           /\ \A i : (Queued(i)' <=> Queued(i)) /\ (Answered(i)' <=> Answered(i))
<1>1. OnePlace'
  <2>1. \A i \in Id : busy' = i => busy = i
    BY NoneAssumption
  <2> QED BY <2>1, Still DEF IInv, OnePlace
<1> QED BY <1>1, Still DEF IInv, GoodRepliesAreDone

LEMMA RequestIInv == IInv /\ Request => IInv'
<1> SUFFICES ASSUME IInv, Request PROVE IInv'
  OBVIOUS
<1>1. CASE failure # None
  <2>1. UNCHANGED <<pending, requests, replies, handled, busy, failure>>
    BY <1>1 DEF Request, server
  <2>2. sequence' = sequence + 1 /\ sequence' \in Id
    BY RequestsAssumption DEF Request, IInv, TypeOK, Id
  <2>3. promise' = [promise EXCEPT ![sequence'] = "rejected"] /\ pending = {}
    BY <1>1 DEF Request, IInv, NobodyIsForgotten
  <2>4. TypeOK'
    BY <2>1, <2>2, <2>3 DEF IInv, TypeOK, Request, life, server, Id
  <2>5. NobodyIsForgotten'
    BY <2>1, <2>2, <2>3 DEF IInv, TypeOK, NobodyIsForgotten
  <2>6. OnePlace'
    <3>1. \A i \in Id : i > sequence' => i > sequence
      BY <2>2 DEF IInv, TypeOK, Id
    <3> QED BY <2>1, <3>1, Still DEF IInv, OnePlace
  <2>7. AllExpected' /\ GoodRepliesAreDone' /\ QuietIsQuiet' /\ GoneIsReleased'
    BY <1>1, <2>1 DEF IInv, Request, life, server, AllExpected, GoodRepliesAreDone,
                      QuietIsQuiet, GoneIsReleased, Unharmed
  <2> QED BY <2>4, <2>5, <2>6, <2>7 DEF IInv
<1>2. CASE failure = None
  <2> DEFINE i == sequence'
  <2>1. /\ i = sequence + 1 /\ i \in Id /\ UNCHANGED <<replies, handled, busy, failure>>
        /\ pending' = pending \cup {i} /\ promise' = [promise EXCEPT ![i] = "waiting"]
        /\ requests' = Append(requests, i)
    BY <1>2, RequestsAssumption DEF Request, server, IInv, TypeOK, Id
  <2>2. ~Queued(i) /\ busy # i /\ ~Answered(i)
    BY <2>1 DEF IInv, OnePlace, TypeOK
  <2> HIDE DEF i
  <2>3. /\ requests' \in Seq(Id)
        /\ \A j : Queued(j)' => Queued(j) \/ j = i
        /\ \A j, k \in DOMAIN requests' : requests'[j] = requests'[k] => j = k
    BY <2>1, <2>2, RequestPut DEF IInv
  <2>4. TypeOK'
    BY <2>1, <2>3 DEF IInv, TypeOK, Request, life, server, Id, i
  <2>5. NobodyIsForgotten'
    BY <1>2, <2>1 DEF IInv, TypeOK, NobodyIsForgotten
  <2>6. OnePlace'
    <3>1. \A j \in Id : j > sequence' => j > sequence /\ j # i
      BY <2>1 DEF IInv, TypeOK, Id, i
    <3>2. \A j \in Id : Queued(j)' => Queued(j) \/ (j = i /\ ~Answered(j) /\ busy # j)
      BY <2>2, <2>3
    <3> QED BY <2>1, <2>3, <3>1, <3>2, Still DEF IInv, OnePlace
  <2>7. AllExpected'
    BY <1>2, <2>1, <2>3, Still DEF IInv, AllExpected, Request
  <2>8. GoodRepliesAreDone' /\ QuietIsQuiet' /\ GoneIsReleased'
    BY <1>2, <2>1 DEF IInv, Request, life, server, GoodRepliesAreDone,
                      QuietIsQuiet, GoneIsReleased, Unharmed
  <2> QED BY <2>4, <2>5, <2>6, <2>7, <2>8 DEF IInv
<1> QED BY <1>1, <1>2

LEMMA LineIInv == IInv /\ Line => IInv'
<1> SUFFICES ASSUME IInv, Line PROVE IInv'
  OBVIOUS
<1> DEFINE r == Head(replies)
<1>1. /\ UNCHANGED <<sequence, requests, handled, busy>> /\ replies' = Tail(replies)
      /\ replies # <<>> /\ ~quiet
  BY DEF Line, server, IInv, QuietIsQuiet
<1>2. /\ replies' \in Seq([id : Id, ok : BOOLEAN]) /\ r \in [id : Id, ok : BOOLEAN]
      /\ Answered(r.id) /\ \A i : i = r.id => ~Answered(i)'
      /\ \A i : Answered(i)' => Answered(i)
      /\ \A j, k \in DOMAIN replies' : replies'[j].id = replies'[k].id => j = k
      /\ \A k \in DOMAIN replies' : \E j \in DOMAIN replies : replies'[k] = replies[j]
      /\ \E j \in DOMAIN replies : r = replies[j]
  BY <1>1, ReplyTaken DEF IInv
<1>3. r.id \in Id /\ r.ok \in BOOLEAN
  BY <1>2
<1> HIDE DEF r
<1>4. \A i : Queued(i)' <=> Queued(i)
  BY <1>1, Still
<1>5. OnePlace'
  BY <1>1, <1>2, <1>4 DEF IInv, OnePlace
<1>6. GoodRepliesAreDone'
  BY <1>1, <1>2 DEF IInv, GoodRepliesAreDone
<1>7. QuietIsQuiet'
  BY <1>1 DEF Line, life, QuietIsQuiet
<1>8. GoneIsReleased'
  <2>1. failure' = None => failure = None
    BY DEF Line, Fails
  <2> QED BY <2>1 DEF IInv, GoneIsReleased, Line, life, server, Unharmed
<1>9. CASE r.id \in pending
  <2>1. /\ promise' = [promise EXCEPT ![r.id] = IF r.ok THEN "resolved" ELSE "rejected"]
        /\ pending' = pending \ {r.id} /\ UNCHANGED <<failure, term>>
    BY <1>9 DEF Line, r
  <2>2. TypeOK'
    BY <1>1, <1>2, <2>1 DEF IInv, TypeOK, Line, life, server
  <2>3. NobodyIsForgotten'
    <3>1. r.ok => r.id \in handled
      BY <1>2 DEF IInv, GoodRepliesAreDone
    <3> QED BY <1>1, <1>3, <2>1, <3>1 DEF IInv, TypeOK, NobodyIsForgotten
  <2>4. AllExpected'
    <3>1. \A i \in Id : i = r.id => ~Queued(i) /\ busy # i
      BY <1>2, <1>3 DEF IInv, OnePlace
    <3> QED BY <1>1, <1>2, <1>4, <2>1, <3>1 DEF IInv, AllExpected, Line
  <2> QED BY <1>5, <1>6, <1>7, <1>8, <2>2, <2>3, <2>4 DEF IInv
<1>10. CASE r.id \notin pending
  <2>1. Fails("unexpected", TRUE) /\ "unexpected" \in Failure
    BY <1>10 DEF Line, r, Failure
  <2>2. /\ NobodyIsForgotten' /\ AllExpected'
        /\ failure' \in Failure /\ pending' = {} /\ term' \in BOOLEAN
        /\ promise' \in [Id -> {"unasked", "waiting", "resolved", "rejected"}]
    BY <1>1, <1>2, <1>4, <2>1, AfterFailure
  <2>3. TypeOK'
    BY <1>1, <1>2, <2>2 DEF IInv, TypeOK, Line, life, server
  <2> QED BY <1>5, <1>6, <1>7, <1>8, <2>2, <2>3 DEF IInv
<1> QED BY <1>9, <1>10

LEMMA TimeoutIInv == ASSUME NEW i \in Id PROVE IInv /\ Timeout(i) => IInv'
<1> SUFFICES ASSUME IInv, Timeout(i) PROVE IInv'
  OBVIOUS
<1>1. /\ UNCHANGED <<sequence, requests, replies, handled, busy>>
      /\ Fails("timed out", TRUE) /\ "timed out" \in Failure
  BY DEF Timeout, pipes, server, Failure
<1>2. ~quiet
  BY DEF Timeout, IInv, QuietIsQuiet, NobodyIsForgotten
<1>3. OnePlace' /\ GoodRepliesAreDone'
  BY <1>1, PipesStand
<1>4. /\ NobodyIsForgotten' /\ AllExpected'
      /\ failure' \in Failure /\ pending' = {} /\ term' \in BOOLEAN
      /\ promise' \in [Id -> {"unasked", "waiting", "resolved", "rejected"}]
  BY <1>1, Still, AfterFailure
<1>5. TypeOK'
  BY <1>1, <1>4 DEF IInv, TypeOK, Timeout, life, server, pipes
<1>6. QuietIsQuiet' /\ GoneIsReleased'
  BY <1>2, <1>4, NoneAssumption
     DEF IInv, QuietIsQuiet, GoneIsReleased, Timeout, life, server, Unharmed
<1> QED BY <1>3, <1>4, <1>5, <1>6 DEF IInv

\* The two failures of a child that is gone.
LEMMA WriteErrorIInv == IInv /\ WriteError => IInv'
<1> SUFFICES ASSUME IInv, WriteError PROVE IInv'
  OBVIOUS
<1>1. /\ UNCHANGED <<sequence, replies, handled, busy>> /\ requests' = <<>> /\ requests # <<>>
      /\ Fails("write", TRUE) /\ "write" \in Failure
  BY DEF WriteError, server, Failure
<1>2. ~quiet
  BY <1>1 DEF IInv, QuietIsQuiet
<1>3. \A i : ~Queued(i)'
  <2>1. DOMAIN requests' = {}
    BY <1>1
  <2> QED BY <2>1 DEF Queued
<1>4. OnePlace' /\ GoodRepliesAreDone'
  <2>1. DOMAIN requests' = {}
    BY <1>1
  <2> QED BY <1>1, <1>3, <2>1, Still DEF IInv, OnePlace, GoodRepliesAreDone
<1>5. /\ NobodyIsForgotten' /\ AllExpected'
      /\ failure' \in Failure /\ pending' = {} /\ term' \in BOOLEAN
      /\ promise' \in [Id -> {"unasked", "waiting", "resolved", "rejected"}]
  BY <1>1, <1>3, Still, AfterFailure
<1>6. requests' \in Seq(Id)
  BY <1>1, EmptySeq
<1>7. TypeOK'
  BY <1>1, <1>5, <1>6 DEF IInv, TypeOK, WriteError, life, server
<1>8. QuietIsQuiet' /\ GoneIsReleased'
  BY <1>2, <1>5, NoneAssumption
     DEF IInv, QuietIsQuiet, GoneIsReleased, WriteError, life, server, Unharmed
<1> QED BY <1>4, <1>5, <1>7, <1>8 DEF IInv

LEMMA ExitSeenIInv == IInv /\ ExitSeen => IInv'
<1> SUFFICES ASSUME IInv, ExitSeen PROVE IInv'
  OBVIOUS
<1>1. /\ UNCHANGED <<sequence, requests, replies, handled, busy>> /\ child = "exited"
      /\ Fails("exited", TRUE) /\ "exited" \in Failure
  BY DEF ExitSeen, pipes, server, Failure
<1>2. OnePlace' /\ GoodRepliesAreDone'
  BY <1>1, PipesStand
<1>3. /\ NobodyIsForgotten' /\ AllExpected'
      /\ failure' \in Failure /\ pending' = {} /\ term' = term
      /\ promise' \in [Id -> {"unasked", "waiting", "resolved", "rejected"}]
  BY <1>1, Still, AfterFailure, FailsOK DEF IInv
<1>4. TypeOK'
  BY <1>1, <1>3 DEF IInv, TypeOK, ExitSeen, life, server, pipes
<1>5. QuietIsQuiet' /\ GoneIsReleased'
  BY <1>1, <1>3, NoneAssumption
     DEF IInv, QuietIsQuiet, GoneIsReleased, ExitSeen, life, server, Unharmed
<1> QED BY <1>2, <1>3, <1>4, <1>5 DEF IInv

\* A close is quiet when all that is expected has come: nothing is then left
\* in the pipes or with the child.
LEMMA CloseIInv == IInv /\ Close => IInv'
<1> SUFFICES ASSUME IInv, Close PROVE IInv'
  OBVIOUS
<1>1. /\ UNCHANGED <<sequence, requests, replies, handled, busy>>
      /\ Fails("closed", FALSE) /\ "closed" \in Failure
  BY DEF Close, server, Failure
<1>2. OnePlace' /\ GoodRepliesAreDone'
  BY <1>1, PipesStand
<1>3. /\ NobodyIsForgotten' /\ AllExpected'
      /\ failure' \in Failure /\ pending' = {} /\ term' = term
      /\ promise' \in [Id -> {"unasked", "waiting", "resolved", "rejected"}]
  BY <1>1, Still, AfterFailure, FailsOK DEF IInv
<1>4. quiet' \in BOOLEAN
  BY DEF Close
<1>5. TypeOK'
  BY <1>1, <1>3, <1>4 DEF IInv, TypeOK, Close, server
<1>6. quiet' => failure = None /\ pending = {}
  BY DEF Close
<1>7. QuietIsQuiet'
  <2> SUFFICES ASSUME quiet'
               PROVE  ~term /\ requests = <<>> /\ replies = <<>> /\ busy = None
    BY <1>1, <1>3, NoneAssumption DEF QuietIsQuiet
  <2>1. ~term /\ \A i \in Id : ~Queued(i) /\ busy # i /\ ~Answered(i)
    BY <1>6 DEF IInv, AllExpected
  <2>2. requests = <<>> /\ replies = <<>>
    BY <2>1, EmptyPipes DEF IInv
  <2>3. busy = None
    BY <2>1 DEF IInv, TypeOK
  <2> QED BY <2>1, <2>2, <2>3
<1>8. GoneIsReleased'
  BY <1>3, <1>6, NoneAssumption DEF IInv, GoneIsReleased, Close, server, Unharmed
<1> QED BY <1>2, <1>3, <1>5, <1>7, <1>8 DEF IInv

\* Whatever stops the child stops it with the lock it holds: the close timer
\* and a crash are no quiet end, and a signal means a failure.
LEMMA StopsIInv == IInv /\ (CloseTimer \/ Terminated \/ Crash) => IInv'
<1> SUFFICES ASSUME IInv, CloseTimer \/ Terminated \/ Crash PROVE IInv'
  OBVIOUS
<1>1. /\ UNCHANGED <<sequence, pending, failure, promise, requests, replies, ended, handled,
                     term, closing, quiet, exitSeen, locked>>
      /\ busy' = None /\ child' = "exited"
  BY DEF CloseTimer, Terminated, Crash, client, life, pipes
<1>2. /\ OnePlace' /\ GoodRepliesAreDone'
      /\ \A i : (Queued(i)' <=> Queued(i)) /\ (Answered(i)' <=> Answered(i))
  BY <1>1, PipesStand
<1>3. TypeOK' /\ NobodyIsForgotten'
  <2>1. forced' \in BOOLEAN
    BY DEF CloseTimer, Terminated, Crash, life, IInv, TypeOK
  <2>2. crashes' \in 0 .. MaxCrashes
    BY RequestsAssumption DEF CloseTimer, Terminated, Crash, IInv, TypeOK
  <2> QED BY <1>1, <2>1, <2>2 DEF IInv, TypeOK, NobodyIsForgotten
<1>4. AllExpected' /\ QuietIsQuiet'
  BY <1>1, <1>2, NoneAssumption DEF IInv, AllExpected, QuietIsQuiet
<1>5. GoneIsReleased'
  <2>1. CloseTimer \/ Crash => ~Unharmed'
    BY DEF CloseTimer, Crash, Unharmed, IInv, TypeOK
  <2>2. Terminated => ~quiet /\ failure # None
    BY DEF Terminated, IInv, QuietIsQuiet, AllExpected
  <2> QED BY <1>1, <2>1, <2>2 DEF IInv, GoneIsReleased
<1> QED BY <1>2, <1>3, <1>4, <1>5 DEF IInv

LEMMA ClosedIInv == IInv /\ Closed => IInv'
<1> SUFFICES ASSUME IInv, Closed PROVE IInv'
  OBVIOUS
<1>1. /\ UNCHANGED <<client, pipes, quiet, forced, exitSeen, server, term, crashes>>
      /\ closing' = "closed" /\ exitSeen
  BY DEF Closed
<1>2. /\ OnePlace' /\ GoodRepliesAreDone'
      /\ \A i : (Queued(i)' <=> Queued(i)) /\ (Answered(i)' <=> Answered(i))
  BY <1>1, PipesStand DEF client, pipes, server
<1>3. TypeOK' /\ NobodyIsForgotten'
  BY <1>1 DEF IInv, TypeOK, NobodyIsForgotten, client, pipes, server
<1>4. AllExpected' /\ QuietIsQuiet' /\ GoneIsReleased'
  BY <1>1, <1>2 DEF IInv, AllExpected, QuietIsQuiet, GoneIsReleased, Unharmed,
                    client, pipes, server
<1> QED BY <1>2, <1>3, <1>4 DEF IInv

LEMMA ReceiveIInv == IInv /\ Receive => IInv'
<1> SUFFICES ASSUME IInv, Receive PROVE IInv'
  OBVIOUS
<1> DEFINE i == Head(requests)
<1>1. /\ UNCHANGED <<client, life, exitSeen, ended, replies, child, handled, term, crashes>>
      /\ requests # <<>> /\ requests' = Tail(requests) /\ busy = None /\ busy' = i
      /\ child = "running" /\ locked' = TRUE
  BY DEF Receive
<1>2. /\ requests' \in Seq(Id) /\ i \in Id /\ Queued(i)
      /\ \A j : j = i => ~Queued(j)'
      /\ \A j : Queued(j)' => Queued(j)
      /\ \A j, k \in DOMAIN requests' : requests'[j] = requests'[k] => j = k
  BY <1>1, RequestTaken DEF IInv
<1> HIDE DEF i
<1>3. \A j : Answered(j)' <=> Answered(j)
  BY <1>1, Still
<1>4. TypeOK' /\ NobodyIsForgotten'
  BY <1>1, <1>2 DEF IInv, TypeOK, NobodyIsForgotten, client, life
<1>5. OnePlace'
  BY <1>1, <1>2, <1>3 DEF IInv, OnePlace, client
<1>6. AllExpected' /\ GoodRepliesAreDone' /\ QuietIsQuiet' /\ GoneIsReleased'
  BY <1>1, <1>2, <1>3 DEF IInv, AllExpected, GoodRepliesAreDone, QuietIsQuiet, GoneIsReleased,
                          Unharmed, client, life
<1> QED BY <1>4, <1>5, <1>6 DEF IInv

LEMMA AnswerIInv == IInv /\ Answer => IInv'
<1> SUFFICES ASSUME IInv, Answer PROVE IInv'
  OBVIOUS
<1>1. PICK ok \in BOOLEAN : /\ replies' = Append(replies, [id |-> busy, ok |-> ok])
                            /\ handled' = IF ok THEN handled \cup {busy} ELSE handled
  BY DEF Answer
<1> DEFINE r == [id |-> busy, ok |-> ok]
<1>2. /\ UNCHANGED <<client, life, exitSeen, requests, ended, child, locked, term, crashes>>
      /\ busy # None /\ busy' = None /\ child = "running"
  BY DEF Answer
<1>3. busy \in Id /\ r \in [id : Id, ok : BOOLEAN] /\ r.id = busy /\ r.ok = ok
  BY <1>2 DEF IInv, TypeOK
<1>4. ~Answered(r.id)
  BY <1>3 DEF IInv, OnePlace
<1> HIDE DEF r
<1>5. /\ replies' \in Seq([id : Id, ok : BOOLEAN])
      /\ \A i : Answered(i)' => Answered(i) \/ i = busy
      /\ \A j, k \in DOMAIN replies' : replies'[j].id = replies'[k].id => j = k
      /\ \A k \in DOMAIN replies' :
            replies'[k] = r \/ \E j \in DOMAIN replies : replies'[k] = replies[j]
  <2>1. replies' = Append(replies, r)
    BY <1>1 DEF r
  <2> QED BY <1>3, <1>4, <2>1, ReplyPut DEF IInv
<1>6. \A j : Queued(j)' <=> Queued(j)
  BY <1>2, Still
<1>7. TypeOK' /\ NobodyIsForgotten'
  <2>1. handled' \subseteq Id /\ handled \subseteq handled'
    BY <1>1, <1>3 DEF IInv, TypeOK
  <2> QED BY <1>2, <1>5, <2>1 DEF IInv, TypeOK, NobodyIsForgotten, client, life
<1>8. OnePlace'
  BY <1>2, <1>3, <1>5, <1>6, NoneAssumption DEF IInv, OnePlace, client
<1>9. AllExpected'
  BY <1>2, <1>3, <1>5, <1>6, NoneAssumption DEF IInv, AllExpected, client
<1>10. GoodRepliesAreDone'
  BY <1>1, <1>3, <1>5 DEF IInv, GoodRepliesAreDone
<1>11. QuietIsQuiet' /\ GoneIsReleased'
  BY <1>2 DEF IInv, QuietIsQuiet, GoneIsReleased, Unharmed, client, life
<1> QED BY <1>7, <1>8, <1>9, <1>10, <1>11 DEF IInv

\* An unharmed child ends by releasing its lock first.
LEMMA EndsIInv == IInv /\ (Release \/ Exit) => IInv'
<1> SUFFICES ASSUME IInv, Release \/ Exit PROVE IInv'
  OBVIOUS
<1>1. /\ UNCHANGED <<client, life, exitSeen, pipes, busy, handled, term, crashes>>
      /\ \/ child' = "released" /\ locked' = FALSE
         \/ child = "released" /\ child' = "exited" /\ locked' = locked
  BY DEF Release, Exit
<1>2. /\ OnePlace' /\ GoodRepliesAreDone'
      /\ \A i : (Queued(i)' <=> Queued(i)) /\ (Answered(i)' <=> Answered(i))
  BY <1>1, PipesStand DEF client, pipes
<1>3. TypeOK' /\ NobodyIsForgotten'
  BY <1>1 DEF IInv, TypeOK, NobodyIsForgotten, client, life, pipes, Release, Exit
<1>4. AllExpected' /\ QuietIsQuiet'
  BY <1>1, <1>2 DEF IInv, AllExpected, QuietIsQuiet, client, life, pipes
<1>5. GoneIsReleased'
  BY <1>1 DEF IInv, GoneIsReleased, Release, Exit, Unharmed, client, life
<1> QED BY <1>2, <1>3, <1>4, <1>5 DEF IInv

LEMMA NextIInv == IInv /\ [Next]_vars => IInv'
<1> SUFFICES ASSUME IInv, [Next]_vars PROVE IInv'
  OBVIOUS
<1>1. CASE Next
  BY <1>1, RequestIInv, CloseIInv, LineIInv, TimeoutIInv, WriteErrorIInv, ExitSeenIInv,
     StopsIInv, ClosedIInv, ReceiveIInv, AnswerIInv, EndsIInv DEF Next, Callback
<1>2. CASE UNCHANGED vars
  <2>1. /\ OnePlace' /\ GoodRepliesAreDone'
        /\ \A i : (Queued(i)' <=> Queued(i)) /\ (Answered(i)' <=> Answered(i))
    BY <1>2, PipesStand DEF vars, client, pipes, server
  <2> QED BY <1>2, <2>1 DEF vars, client, life, pipes, server, IInv, TypeOK, NobodyIsForgotten,
             AllExpected, QuietIsQuiet, GoneIsReleased, Unharmed
<1> QED BY <1>1, <1>2

---------------------------------------------------------------------------
\* The theorems.

LEMMA Invariance == Spec => []IInv
BY InitIInv, NextIInv, PTL DEF Spec

\* The client's fields, the pipes and the child keep their types, however
\* requests, timeouts, failures, signals and crashes fall.
THEOREM ClientTypes == Spec => []TypeOK
<1>1. IInv => TypeOK
  BY DEF IInv
<1> QED BY <1>1, Invariance, PTL

\* A caller waits exactly while its request is pending, and a good answer is
\* the child's own to that request (client.mjs 26-31, 38-46, 49).
THEOREM CallersAreRemembered == Spec => []NobodyIsForgotten
<1>1. IInv => NobodyIsForgotten
  BY DEF IInv
<1> QED BY <1>1, Invariance, PTL

\* After a failure, nothing that arrives late is taken for an answer
\* (client.mjs 38-46).
THEOREM NoAnswerAfterFailure == Spec => FailureIsFinal
<1>1. IInv /\ [Next]_vars =>
        [failure # None => \A i \in Id : promise'[i] = "resolved" => promise[i] = "resolved"]_promise
  <2> SUFFICES ASSUME IInv, [Next]_vars, failure # None, promise' # promise
               PROVE  \A i \in Id : promise'[i] = "resolved" => promise[i] = "resolved"
    OBVIOUS
  <2>1. pending = {}
    BY DEF IInv, NobodyIsForgotten
  <2>2. CASE Request
    <3>1. sequence' \in Id /\ promise' = [promise EXCEPT ![sequence'] = "rejected"]
      BY <2>2, RequestsAssumption DEF Request, IInv, TypeOK, Id
    <3> QED BY <3>1 DEF IInv, TypeOK
  <2>3. CASE \E error \in Failure, kill \in BOOLEAN : Fails(error, kill)
    BY <2>1, <2>3, FailsOK DEF IInv
  <2>4. Request \/ \E error \in Failure, kill \in BOOLEAN : Fails(error, kill)
    BY <2>1 DEF Next, Callback, Line, Timeout, WriteError, ExitSeen, Close, CloseTimer, Closed,
                Receive, Answer, Release, Exit, Terminated, Crash, vars, client, Failure
  <2> QED BY <2>2, <2>3, <2>4
<1> QED BY <1>1, Invariance, PTL DEF Spec, FailureIsFinal

\* close() on a client nobody waits on sends no signal: the child drains its
\* input and releases its session's lock, unless the timer cuts it off
\* (client.mjs 54-66).
THEOREM QuietCloseLeavesNoLock == Spec => []QuietCloseReleases
<1>1. IInv => QuietCloseReleases
  BY DEF IInv, QuietIsQuiet, GoneIsReleased, QuietCloseReleases
<1> QED BY <1>1, Invariance, PTL

---------------------------------------------------------------------------
\* The Pi extension.

CONSTANTS MaxCalls, Place, First

VARIABLES bridge, lives, hello, observed, kind, pc, want, mine, result, sent, calm

\* Any extension: its children are those Client describes, one for each bridge,
\* so its variables are apart from this module's client.
Pi == INSTANCE PiExtension WITH life <- lives

\* The invariant.

PiTypes ==
    /\ bridge \in Pi!Call \cup {None} /\ calm \in BOOLEAN
    /\ lives \in [Pi!Call -> {"none", "running", "stopping", "gone"}]
    /\ hello \in [Pi!Call -> {"none", "asked", "accepted", "refused"}]
    /\ pc \in [Pi!Call -> {"idle", "hello", "closing", "working", "answered", "shutting", "done"}]
    /\ want \in [Pi!Call -> Place \cup {None}] /\ mine \in [Pi!Call -> Pi!Call \cup {None}]
    /\ result \in [Pi!Call -> {None, "ok", "failed", "shut"}]

Uses(c)  == pc[c] \in {"hello", "working", "answered"}
Stops(c) == pc[c] \in {"closing", "shutting"}
Alive(b) == lives[b] \in {"running", "stopping"}

\* A bridge that was created bears the name of a call under way, made at a
\* place, and whoever uses one or waits for its end has its name.
Created ==
    /\ bridge # None => lives[bridge] # "none"
    /\ \A b \in Pi!Call : /\ lives[b] # "none" => pc[b] # "idle" /\ want[b] \in Place
                          /\ lives[b] = "none" => hello[b] = "none"
    /\ \A c \in Pi!Call : /\ Uses(c) \/ pc[c] = "closing" => mine[c] \in Pi!Call /\ want[c] \in Place
                          /\ mine[c] # None => lives[mine[c]] # "none"
                          /\ pc[c] = "idle" => mine[c] = None
                          /\ result[c] = "ok" => pc[c] = "done" /\ mine[c] # None

\* While all is calm one call at most waits for a bridge to close: the
\* extension's own, or the one that a shutdown has taken from it.
OneStops ==
    calm => /\ \A c, d \in Pi!Call : Stops(c) /\ Stops(d) => c = d
            /\ \A c \in Pi!Call :
                  /\ pc[c] = "closing" => bridge = mine[c] /\ lives[bridge] # "running"
                  /\ pc[c] = "shutting" => bridge = None
                  /\ pc[c] = "shutting" /\ mine[c] # None => lives[mine[c]] # "running"

\* No child is alive then but that one.
OneAlive ==
    calm => \A b \in Pi!Call : Alive(b) =>
               b = bridge \/ \E c \in Pi!Call : pc[c] = "shutting" /\ mine[c] = b

\* Whoever was promised a bridge gets that one, at the place it was called from.
Promised ==
    calm => \A c \in Pi!Call :
               /\ pc[c] = "hello" /\ hello[mine[c]] = "accepted" => mine[c] = bridge
               /\ Uses(c) \/ result[c] = "ok" => Pi!At(mine[c]) = want[c]

PiInv == PiTypes /\ Created /\ OneStops /\ OneAlive /\ Promised

---------------------------------------------------------------------------

LEMMA PiInitInv ==
    ASSUME Pi!CallAssumption PROVE Pi!Init => PiInv
<1> SUFFICES ASSUME Pi!Init PROVE PiInv
  OBVIOUS
<1>1. PiTypes
  BY DEF Pi!Init, PiTypes
<1>2. Created
  BY DEF Pi!CallAssumption, Pi!Init, Created, Uses
<1>3. OneStops /\ OneAlive /\ Promised
  BY DEF Pi!CallAssumption, Pi!Init, OneStops, OneAlive, Promised, Uses, Stops, Alive
<1> QED BY <1>1, <1>2, <1>3 DEF PiInv

\* Only children change, and none comes alive or starts again.
LEMMA ChildInv ==
    ASSUME Pi!CallAssumption, PiInv, UNCHANGED <<bridge, Pi!calls, calm>>,
           lives' \in [Pi!Call -> {"none", "running", "stopping", "gone"}],
           hello' \in [Pi!Call -> {"none", "asked", "accepted", "refused"}],
           \A b \in Pi!Call : /\ lives'[b] = lives[b] \/ (Alive(b) /\ lives'[b] \in {"stopping", "gone"})
                              /\ hello'[b] = hello[b] \/ lives[b] = "running"
    PROVE  PiInv'
<1> USE DEF PiInv, Pi!calls
<1>1. PiTypes'
  BY DEF PiTypes
<1>2. \A b \in Pi!Call : lives'[b] = "none" <=> lives[b] = "none"
  BY DEF PiTypes, Alive
<1>3. Created'
  <2>1. bridge # None => bridge \in Pi!Call /\ \A c \in Pi!Call : mine[c] # None => mine[c] \in Pi!Call
    BY DEF PiTypes
  <2>2. \A c \in Pi!Call : mine[c] # None => mine[c] \in Pi!Call
    BY DEF PiTypes
  <2> QED BY <1>2, <2>1, <2>2 DEF Created, Uses, PiTypes
<1>4. \A b \in Pi!Call : lives'[b] = "running" => lives[b] = "running"
  BY DEF Alive
<1>5. OneStops'
  <2>1. \A c \in Pi!Call : mine[c] # None => mine[c] \in Pi!Call
    BY DEF PiTypes
  <2> QED BY <1>4, <2>1 DEF Pi!CallAssumption, OneStops, Stops, Created, PiTypes
<1>6. OneAlive'
  <2>1. \A b \in Pi!Call : Alive(b)' => Alive(b)
    BY DEF Alive
  <2> QED BY <2>1 DEF OneAlive
<1>7. Promised'
  <2> SUFFICES ASSUME calm, NEW c \in Pi!Call
               PROVE  /\ pc[c] = "hello" /\ hello'[mine[c]] = "accepted" => mine[c] = bridge
                      /\ Uses(c) \/ result[c] = "ok" => Pi!At(mine[c]) = want[c]
    BY DEF Promised, Uses, Pi!At
  <2>1. Uses(c) \/ result[c] = "ok" => Pi!At(mine[c]) = want[c]
    BY DEF Promised
  <2>2. ASSUME pc[c] = "hello", hello'[mine[c]] = "accepted" PROVE mine[c] = bridge
    <3>1. mine[c] \in Pi!Call
      BY <2>2 DEF Created, Uses
    <3>2. CASE hello[mine[c]] = "accepted"
      BY <2>2, <3>2 DEF Promised
    <3>3. CASE lives[mine[c]] = "running"
      BY <3>1, <3>3 DEF Pi!CallAssumption, OneAlive, OneStops, Alive, PiTypes
    <3> QED BY <2>2, <3>1, <3>2, <3>3
  <2> QED BY <2>1, <2>2
<1> QED BY <1>1, <1>3, <1>5, <1>6, <1>7

LEMMA StoppedType ==
    ASSUME Pi!CallAssumption, PiTypes, NEW b \in Pi!Call
    PROVE  /\ Pi!Stopped(b) \in [Pi!Call -> {"none", "running", "stopping", "gone"}]
           /\ Pi!Stopped(b)[b] # "running"
           /\ lives[b] = "running" => Pi!Stopped(b)[b] = "stopping"
           /\ lives[b] # "running" => Pi!Stopped(b)[b] = lives[b]
           /\ \A o \in Pi!Call \ {b} : Pi!Stopped(b)[o] = lives[o]
BY DEF PiTypes, Pi!Stopped

LEMMA PiTimeoutInv == ASSUME Pi!CallAssumption, NEW c \in Pi!Call PROVE PiInv /\ Pi!Timeout(c) => PiInv'
<1> SUFFICES ASSUME PiInv, Pi!Timeout(c) PROVE PiInv'
  OBVIOUS
<1>1. mine[c] \in Pi!Call
  BY DEF Pi!Timeout, PiInv, Created, Uses
<1>2. UNCHANGED <<bridge, hello, Pi!calls, calm>> /\ lives' = Pi!Stopped(mine[c])
  BY DEF Pi!Timeout
<1>3. /\ lives' \in [Pi!Call -> {"none", "running", "stopping", "gone"}]
      /\ \A b \in Pi!Call : lives'[b] = lives[b] \/ (Alive(b) /\ lives'[b] \in {"stopping", "gone"})
  BY <1>1, <1>2, StoppedType DEF PiInv, Alive
<1> QED BY <1>2, <1>3, ChildInv DEF PiInv, PiTypes

LEMMA GoneInv == ASSUME Pi!CallAssumption, NEW b \in Pi!Call PROVE PiInv /\ Pi!Gone(b) => PiInv'
<1> SUFFICES ASSUME PiInv, Pi!Gone(b) PROVE PiInv'
  OBVIOUS
<1>1. /\ UNCHANGED <<bridge, hello, Pi!calls, calm>>
      /\ lives' \in [Pi!Call -> {"none", "running", "stopping", "gone"}]
      /\ \A o \in Pi!Call : lives'[o] = lives[o] \/ (Alive(o) /\ lives'[o] \in {"stopping", "gone"})
  BY DEF Pi!Gone, PiInv, PiTypes, Alive
<1> QED BY <1>1, ChildInv DEF PiInv, PiTypes

LEMMA HelloInv == ASSUME Pi!CallAssumption, NEW b \in Pi!Call PROVE PiInv /\ Pi!Hello(b) => PiInv'
<1> SUFFICES ASSUME PiInv, Pi!Hello(b) PROVE PiInv'
  OBVIOUS
<1>1. /\ UNCHANGED <<bridge, lives, Pi!calls, calm>>
      /\ hello' \in [Pi!Call -> {"none", "asked", "accepted", "refused"}]
      /\ \A o \in Pi!Call : hello'[o] = hello[o] \/ lives[o] = "running"
  BY DEF Pi!Hello, PiInv, PiTypes
<1> QED BY <1>1, ChildInv DEF PiInv, PiTypes

\* A call that ends lets go of its bridge, or has been served by it.
LEMMA PiEndsInv ==
    ASSUME Pi!CallAssumption, PiInv, NEW c \in Pi!Call, NEW o \in {"ok", "failed", "shut"}, Pi!Ends(c, o),
           UNCHANGED <<Pi!bridges, want, calm>>, pc[c] # "idle", o = "ok" => Uses(c),
           pc[c] = "shutting" /\ mine[c] # None => lives[mine[c]] = "gone"
    PROVE  PiInv'
<1> USE DEF PiInv, Pi!bridges
<1>1. /\ result' = [result EXCEPT ![c] = o] /\ pc' = [pc EXCEPT ![c] = "done"]
      /\ mine' = IF o = "ok" THEN mine ELSE [mine EXCEPT ![c] = None]
  BY DEF Pi!Ends
<1>2. PiTypes'
  BY <1>1 DEF PiTypes
<1>3. /\ pc'[c] = "done" /\ result'[c] = o /\ (mine'[c] = mine[c] \/ mine'[c] = None)
      /\ o = "ok" => mine'[c] = mine[c]
      /\ \A d \in Pi!Call \ {c} : pc'[d] = pc[d] /\ result'[d] = result[d] /\ mine'[d] = mine[d]
  BY <1>1 DEF PiTypes
<1>4. o = "ok" => mine[c] \in Pi!Call
  BY DEF Created
<1>5. Created'
  <2>1. \A b \in Pi!Call : b # None
    BY DEF Pi!CallAssumption
  <2>2. \A b \in Pi!Call : pc[b] # "idle" => pc'[b] # "idle"
    BY <1>3
  <2> QED BY <1>3, <1>4, <2>1, <2>2 DEF Created, Uses
<1>6. OneStops'
  BY <1>3 DEF OneStops, Stops
<1>7. OneAlive'
  <2> SUFFICES ASSUME calm, NEW b \in Pi!Call, Alive(b), b # bridge
               PROVE  \E d \in Pi!Call : pc'[d] = "shutting" /\ mine'[d] = b
    BY DEF OneAlive, Alive
  <2>1. PICK d \in Pi!Call : pc[d] = "shutting" /\ mine[d] = b
    BY DEF OneAlive
  <2>2. d # c
    BY <2>1 DEF Pi!CallAssumption, Alive
  <2> QED BY <1>3, <2>1, <2>2
<1>8. Promised'
  <2> SUFFICES ASSUME calm, NEW d \in Pi!Call
               PROVE  /\ pc'[d] = "hello" /\ hello[mine'[d]] = "accepted" => mine'[d] = bridge
                      /\ Uses(d)' \/ result'[d] = "ok" => want[mine'[d]] = want[d]
    BY DEF Promised, Pi!At
  <2>1. CASE d = c
    BY <1>3, <2>1 DEF Promised, Uses, Pi!At
  <2>2. CASE d # c
    BY <1>3, <2>2 DEF Promised, Uses, Pi!At
  <2> QED BY <2>1, <2>2
<1> QED BY <1>2, <1>5, <1>6, <1>7, <1>8

LEMMA EndingInv ==
    ASSUME Pi!CallAssumption, NEW c \in Pi!Call PROVE PiInv /\ (Pi!Finish(c) \/ Pi!GivesUp(c) \/ Pi!ShutDown(c)) => PiInv'
<1> SUFFICES ASSUME PiInv, Pi!Finish(c) \/ Pi!GivesUp(c) \/ Pi!ShutDown(c) PROVE PiInv'
  OBVIOUS
<1>1. UNCHANGED <<Pi!bridges, want, calm>>
  BY DEF Pi!Finish, Pi!GivesUp, Pi!ShutDown
<1>2. CASE Pi!Finish(c)
  BY <1>1, <1>2, PiEndsInv DEF Pi!Finish, Uses
<1>3. CASE Pi!GivesUp(c)
  BY <1>1, <1>3, PiEndsInv DEF Pi!GivesUp, Uses
<1>4. CASE Pi!ShutDown(c)
  BY <1>1, <1>4, PiEndsInv DEF Pi!ShutDown, Uses
<1> QED BY <1>2, <1>3, <1>4

\* A hello that was accepted is that of the extension's bridge still, so the
\* bridge that getBridge returns is the one it waited for.
LEMMA ReadyInv == ASSUME Pi!CallAssumption, NEW c \in Pi!Call PROVE PiInv /\ Pi!Ready(c) => PiInv'
<1> SUFFICES ASSUME PiInv, Pi!Ready(c) PROVE PiInv'
  OBVIOUS
<1>1. pc[c] = "hello" /\ UNCHANGED <<bridge, lives, hello, want, calm>>
  BY DEF Pi!Ready, Pi!bridges
<1>2. CASE Pi!Ends(c, "failed")
  BY <1>1, <1>2, PiEndsInv DEF Pi!bridges
<1>3. CASE /\ hello[mine[c]] = "accepted" /\ bridge # None
           /\ Pi!Waits(c, bridge, "working") /\ UNCHANGED result
  <2> USE DEF PiInv
  <2>1. mine' = [mine EXCEPT ![c] = bridge] /\ pc' = [pc EXCEPT ![c] = "working"] /\ result' = result
    BY <1>3 DEF Pi!Waits
  <2>2. PiTypes' /\ bridge \in Pi!Call
    BY <1>1, <1>3, <2>1 DEF PiTypes
  <2>3. /\ pc'[c] = "working" /\ mine'[c] = bridge
        /\ \A d \in Pi!Call \ {c} : pc'[d] = pc[d] /\ mine'[d] = mine[d]
    BY <2>1 DEF PiTypes
  <2>4. Created'
    BY <1>1, <1>3, <2>1, <2>2, <2>3 DEF Created, Uses
  <2>5. OneStops'
    BY <1>1, <2>3 DEF OneStops, Stops
  <2>6. OneAlive'
    BY <1>1, <2>3 DEF OneAlive, Alive
  <2>7. Promised'
    <3> SUFFICES ASSUME calm, NEW d \in Pi!Call
                 PROVE  /\ pc'[d] = "hello" /\ hello[mine'[d]] = "accepted" => mine'[d] = bridge
                        /\ Uses(d)' \/ result[d] = "ok" => want[mine'[d]] = want[d]
      BY <1>1, <2>1 DEF Promised, Pi!At
    <3>1. CASE d = c
      BY <1>1, <1>3, <2>3, <3>1 DEF Promised, Uses, Pi!At
    <3>2. CASE d # c
      BY <2>3, <3>2 DEF Promised, Uses, Pi!At
    <3> QED BY <3>1, <3>2
  <2> QED BY <2>2, <2>4, <2>5, <2>6, <2>7
<1> QED BY <1>2, <1>3 DEF Pi!Ready

LEMMA ServingInv == ASSUME Pi!CallAssumption, NEW c \in Pi!Call PROVE PiInv /\ Pi!Serving(c) => PiInv'
<1> SUFFICES ASSUME PiInv, Pi!Serving(c) PROVE PiInv'
  OBVIOUS
<1> USE DEF PiInv
<1>1. /\ UNCHANGED <<bridge, lives, hello, want, mine, result, calm>>
      /\ pc[c] = "working" /\ pc' = [pc EXCEPT ![c] = "answered"]
  BY DEF Pi!Serving, Pi!bridges
<1>2. PiTypes'
  BY <1>1 DEF PiTypes
<1>3. pc'[c] = "answered" /\ \A d \in Pi!Call \ {c} : pc'[d] = pc[d]
  BY <1>1 DEF PiTypes
<1>4. \A d \in Pi!Call : /\ Uses(d)' <=> Uses(d)
                         /\ Stops(d)' <=> Stops(d)
                         /\ \A x \in {"idle", "hello", "closing", "shutting", "done"} :
                               pc'[d] = x <=> pc[d] = x
  BY <1>1, <1>3 DEF Uses, Stops
<1>5. Created'
  BY <1>1, <1>4 DEF Created
<1>6. OneStops' /\ OneAlive'
  BY <1>1, <1>4 DEF OneStops, OneAlive, Alive
<1>7. Promised'
  BY <1>1, <1>4 DEF Promised, Pi!At
<1> QED BY <1>2, <1>5, <1>6, <1>7

\* A bridge may be created when no other child is alive and no other call
\* waits for one to close, or when the calm is over.
LEMMA CreatesInv ==
    ASSUME Pi!CallAssumption, PiInv, NEW c \in Pi!Call, Pi!Creates(c), pc[c] \in {"idle", "closing"}, Pi!Quiet,
           NEW p \in Place, want' = [want EXCEPT ![c] = p], lives[c] # "none" => p = want[c],
           UNCHANGED result, calm' \in BOOLEAN, calm' => calm,
           calm' => \A b \in Pi!Call : ~Alive(b),
           calm' => \A d \in Pi!Call \ {c} : ~Stops(d)
    PROVE  PiInv'
<1> USE DEF PiInv
<1>1. /\ bridge' = c /\ lives' = [lives EXCEPT ![c] = "running"]
      /\ hello' = [hello EXCEPT ![c] = "asked"]
      /\ mine' = [mine EXCEPT ![c] = c] /\ pc' = [pc EXCEPT ![c] = "hello"]
  BY DEF Pi!Creates, Pi!Waits
<1>2. PiTypes'
  BY <1>1 DEF PiTypes
<1>3. /\ pc'[c] = "hello" /\ mine'[c] = c /\ lives'[c] = "running" /\ hello'[c] = "asked"
      /\ want'[c] = p
      /\ \A d \in Pi!Call \ {c} : /\ pc'[d] = pc[d] /\ mine'[d] = mine[d] /\ lives'[d] = lives[d]
                                  /\ hello'[d] = hello[d] /\ want'[d] = want[d]
      /\ \A d \in Pi!Call : mine[d] # None => mine[d] \in Pi!Call
  BY <1>1 DEF PiTypes
<1>4. Created'
  <2>1. \A d \in Pi!Call : mine'[d] # None => lives'[mine'[d]] # "none"
    BY <1>3 DEF Created
  <2> QED BY <1>1, <1>3, <2>1 DEF Created, Uses
<1>5. OneStops'
  BY <1>3 DEF OneStops, Stops
<1>6. OneAlive'
  BY <1>1, <1>3 DEF OneAlive, Alive
<1>7. Promised'
  <2> SUFFICES ASSUME calm', NEW d \in Pi!Call
               PROVE  /\ pc'[d] = "hello" /\ hello'[mine'[d]] = "accepted" => mine'[d] = bridge'
                      /\ Uses(d)' \/ result[d] = "ok" => want'[mine'[d]] = want'[d]
    BY DEF Promised, Pi!At
  <2>1. CASE d = c
    BY <1>1, <1>3, <2>1 DEF Created
  <2>2. CASE d # c
    <3>1. ~(pc'[d] = "hello" /\ hello'[mine'[d]] = "accepted")
      BY <1>3, <2>2 DEF Pi!Quiet, Created, Uses
    <3>2. ASSUME Uses(d)' \/ result[d] = "ok" PROVE want'[mine'[d]] = want'[d]
      <4>1. Uses(d) \/ result[d] = "ok"
        BY <1>3, <2>2, <3>2 DEF Uses
      <4>2. mine[d] \in Pi!Call /\ want[mine[d]] = want[d] /\ lives[mine[d]] # "none"
        BY <1>3, <4>1 DEF Pi!CallAssumption, Promised, Pi!At, Created
      <4> QED BY <1>3, <2>2, <4>2
    <3> QED BY <3>1, <3>2
  <2> QED BY <2>1, <2>2
<1> QED BY <1>2, <1>4, <1>5, <1>6, <1>7

\* The call whose bridge has closed is, in calm, the only one that waited, and
\* nothing was created meanwhile.
LEMMA PiClosedInv == ASSUME Pi!CallAssumption, NEW c \in Pi!Call PROVE PiInv /\ Pi!Closed(c) => PiInv'
<1> SUFFICES ASSUME PiInv, Pi!Closed(c) PROVE PiInv'
  OBVIOUS
<1>1. /\ pc[c] = "closing" /\ lives[mine[c]] = "gone" /\ Pi!Quiet /\ Pi!Creates(c)
      /\ UNCHANGED <<want, result, calm>>
  BY DEF Pi!Closed
<1>2. want[c] \in Place /\ want' = [want EXCEPT ![c] = want[c]] /\ calm \in BOOLEAN
  BY <1>1 DEF PiInv, Created, PiTypes
<1>3. calm => /\ \A d \in Pi!Call \ {c} : ~Stops(d)
              /\ \A b \in Pi!Call : ~Alive(b)
  BY <1>1 DEF PiInv, OneStops, OneAlive, Stops, Alive
<1> QED BY <1>1, <1>2, <1>3, CreatesInv

\* A call that comes finds, in calm, nobody who waits for a bridge to close.
LEMMA StartInv ==
    ASSUME Pi!CallAssumption, Pi!PlaceAssumption,
           NEW c \in Pi!Call, NEW k \in {"read", "request"}, NEW p \in Place
    PROVE  PiInv /\ Pi!Start(c, k, p) => PiInv'
<1> SUFFICES ASSUME PiInv, Pi!Start(c, k, p) PROVE PiInv'
  OBVIOUS
<1> USE DEF PiInv
<1>1. /\ pc[c] = "idle" /\ Pi!Quiet /\ want' = [want EXCEPT ![c] = p] /\ UNCHANGED result
      /\ calm' = (calm /\ \A o \in Pi!Call : pc[o] \notin {"closing", "shutting"})
  BY DEF Pi!Start, Pi!Comes
<1>2. /\ calm' \in BOOLEAN /\ (calm' => calm)
      /\ calm' => \A d \in Pi!Call : ~Stops(d)
  BY <1>1 DEF Stops
<1>3. lives[c] = "none" /\ result[c] # "ok" /\ mine[c] = None
  BY <1>1 DEF Created, PiTypes
<1>4. CASE bridge = None /\ Pi!Creates(c)
  <2>1. calm' => \A b \in Pi!Call : ~Alive(b)
    BY <1>2, <1>4 DEF Pi!CallAssumption, OneAlive, Stops
  <2> QED BY <1>1, <1>2, <1>3, <1>4, <2>1, CreatesInv
<1>5. CASE bridge # None /\ ~(bridge = None /\ Pi!Creates(c))
  <2>1. bridge \in Pi!Call /\ want[bridge] \in Place /\ bridge # c /\ lives[bridge] # "none"
    BY <1>3, <1>5 DEF PiTypes, Created
  <2>2. PICK where \in {"hello", "closing"} :
           /\ Pi!Waits(c, bridge, where) /\ UNCHANGED <<bridge, hello>>
           /\ where = "hello" => Pi!Serves(bridge, p) /\ UNCHANGED lives
           /\ where = "closing" => lives' = Pi!Stopped(bridge)
    BY <1>5 DEF Pi!Start, Pi!bridges
  <2>3. /\ mine' = [mine EXCEPT ![c] = bridge] /\ pc' = [pc EXCEPT ![c] = where]
        /\ bridge' = bridge /\ hello' = hello
    BY <2>2 DEF Pi!Waits
  <2>4. where = "hello" => want[bridge] = p
    BY <2>1, <2>2 DEF Pi!Serves, Pi!At, Pi!PlaceAssumption
  <2>5. /\ lives' \in [Pi!Call -> {"none", "running", "stopping", "gone"}]
        /\ \A b \in Pi!Call : /\ Alive(b)' => Alive(b)
                              /\ lives'[b] = "running" => lives[b] = "running"
                              /\ lives'[b] = "none" <=> lives[b] = "none"
        /\ where = "closing" => lives'[bridge] # "running"
    <3>1. CASE where = "hello"
      BY <2>2, <3>1 DEF PiTypes, Alive
    <3>2. CASE where = "closing"
      BY <2>1, <2>2, <3>2, StoppedType DEF PiTypes, Alive
    <3> QED BY <3>1, <3>2
  <2>6. PiTypes'
    BY <1>1, <1>2, <2>1, <2>2, <2>3, <2>5 DEF PiTypes
  <2>7. /\ pc'[c] = where /\ mine'[c] = bridge /\ want'[c] = p
        /\ \A d \in Pi!Call \ {c} : pc'[d] = pc[d] /\ mine'[d] = mine[d] /\ want'[d] = want[d]
        /\ \A d \in Pi!Call : mine[d] # None => mine[d] \in Pi!Call
    BY <1>1, <2>3 DEF PiTypes
  <2>8. Created'
    <3>1. \A d \in Pi!Call : mine'[d] # None => lives'[mine'[d]] # "none"
      BY <2>1, <2>5, <2>7 DEF Created
    <3>2. \A b \in Pi!Call : /\ lives'[b] # "none" => pc'[b] # "idle" /\ want'[b] \in Place
                             /\ lives'[b] = "none" => hello'[b] = "none"
      BY <2>3, <2>5, <2>7 DEF Created
    <3>3. \A d \in Pi!Call : /\ Uses(d)' \/ pc'[d] = "closing" => mine'[d] \in Pi!Call /\ want'[d] \in Place
                             /\ pc'[d] = "idle" => mine'[d] = None
                             /\ result'[d] = "ok" => pc'[d] = "done" /\ mine'[d] # None
      BY <1>1, <1>3, <2>1, <2>7 DEF Created, Uses
    <3> QED BY <2>1, <2>3, <2>5, <3>1, <3>2, <3>3 DEF Created
  <2>9. OneStops'
    BY <1>2, <2>2, <2>3, <2>5, <2>7 DEF OneStops, Stops
  <2>10. OneAlive'
    BY <1>2, <2>3, <2>5, <2>7 DEF OneAlive, Stops
  <2>11. Promised'
    <3> SUFFICES ASSUME calm', NEW d \in Pi!Call
                 PROVE  /\ pc'[d] = "hello" /\ hello'[mine'[d]] = "accepted" => mine'[d] = bridge'
                        /\ Uses(d)' \/ result[d] = "ok" => want'[mine'[d]] = want'[d]
      BY <1>1 DEF Promised, Pi!At
    <3>1. CASE d = c
      BY <1>3, <2>1, <2>2, <2>3, <2>4, <2>7, <3>1 DEF Uses
    <3>2. CASE d # c
      <4>1. pc'[d] = "hello" /\ hello'[mine'[d]] = "accepted" => mine'[d] = bridge'
        BY <1>2, <2>3, <2>7, <3>2 DEF Promised
      <4>2. ASSUME Uses(d)' \/ result[d] = "ok" PROVE want'[mine'[d]] = want'[d]
        <5>1. Uses(d) \/ result[d] = "ok"
          BY <2>7, <3>2, <4>2 DEF Uses
        <5>2. mine[d] \in Pi!Call /\ want[mine[d]] = want[d] /\ lives[mine[d]] # "none"
          BY <1>2, <2>7, <5>1 DEF Pi!CallAssumption, Promised, Pi!At, Created
        <5> QED BY <1>3, <2>7, <3>2, <5>2
      <4> QED BY <4>1, <4>2
    <3> QED BY <3>1, <3>2
  <2> QED BY <2>6, <2>8, <2>9, <2>10, <2>11
<1> QED BY <1>4, <1>5 DEF Pi!Start

LEMMA ShutdownInv == ASSUME Pi!CallAssumption, NEW c \in Pi!Call PROVE PiInv /\ Pi!Shutdown(c) => PiInv'
<1> SUFFICES ASSUME PiInv, Pi!Shutdown(c) PROVE PiInv'
  OBVIOUS
<1> USE DEF PiInv
<1>1. /\ pc[c] = "idle" /\ Pi!Quiet /\ UNCHANGED <<hello, want, result>>
      /\ calm' = (calm /\ \A o \in Pi!Call : pc[o] \notin {"closing", "shutting"})
      /\ bridge' = None
      /\ mine' = [mine EXCEPT ![c] = bridge] /\ pc' = [pc EXCEPT ![c] = "shutting"]
      /\ lives' = IF bridge = None THEN lives ELSE Pi!Stopped(bridge)
  BY DEF Pi!Shutdown, Pi!Comes, Pi!Waits
<1>2. /\ calm' \in BOOLEAN /\ (calm' => calm)
      /\ calm' => \A d \in Pi!Call : ~Stops(d)
  BY <1>1 DEF Stops
<1>3. lives[c] = "none" /\ result[c] # "ok" /\ mine[c] = None
  BY <1>1 DEF Created, PiTypes
<1>4. /\ lives' \in [Pi!Call -> {"none", "running", "stopping", "gone"}]
      /\ \A b \in Pi!Call : /\ Alive(b)' => Alive(b)
                            /\ lives'[b] = "running" => lives[b] = "running"
                            /\ lives'[b] = "none" <=> lives[b] = "none"
      /\ bridge # None => lives'[bridge] # "running"
  <2>1. CASE bridge = None
    BY <1>1, <2>1 DEF PiTypes, Alive
  <2>2. CASE bridge # None
    BY <1>1, <2>2, StoppedType DEF PiTypes, Alive
  <2> QED BY <2>1, <2>2
<1>5. PiTypes'
  BY <1>1, <1>2, <1>4 DEF PiTypes
<1>6. /\ pc'[c] = "shutting" /\ mine'[c] = bridge
      /\ \A d \in Pi!Call \ {c} : pc'[d] = pc[d] /\ mine'[d] = mine[d]
      /\ \A d \in Pi!Call : mine[d] # None => mine[d] \in Pi!Call
      /\ bridge # None => bridge \in Pi!Call
  BY <1>1 DEF PiTypes
<1>7. Created'
  <2>1. \A d \in Pi!Call : mine'[d] # None => lives'[mine'[d]] # "none"
    BY <1>4, <1>6 DEF Created
  <2>2. \A b \in Pi!Call : /\ lives'[b] # "none" => pc'[b] # "idle" /\ want[b] \in Place
                           /\ lives'[b] = "none" => hello[b] = "none"
    BY <1>4, <1>6 DEF Created
  <2> QED BY <1>1, <1>3, <1>6, <2>1, <2>2 DEF Created, Uses
<1>8. OneStops'
  BY <1>1, <1>2, <1>4, <1>6 DEF OneStops, Stops
<1>9. OneAlive'
  BY <1>2, <1>4, <1>6 DEF OneAlive, Stops
<1>10. Promised'
  <2> SUFFICES ASSUME calm', NEW d \in Pi!Call
               PROVE  /\ ~(pc'[d] = "hello" /\ hello[mine'[d]] = "accepted")
                      /\ Uses(d)' \/ result[d] = "ok" => want[mine'[d]] = want[d]
    BY <1>1 DEF Promised, Pi!At
  <2>1. CASE d = c
    BY <1>3, <1>6, <2>1 DEF Uses
  <2>2. CASE d # c
    BY <1>1, <1>2, <1>6, <2>2 DEF Promised, Pi!Quiet, Uses, Pi!At
  <2> QED BY <2>1, <2>2
<1> QED BY <1>5, <1>7, <1>8, <1>9, <1>10

LEMMA PiNextInv ==
    ASSUME Pi!CallAssumption, Pi!PlaceAssumption PROVE PiInv /\ [Pi!Next]_(Pi!vars) => PiInv'
<1> SUFFICES ASSUME PiInv, [Pi!Next]_(Pi!vars) PROVE PiInv'
  OBVIOUS
<1>1. CASE Pi!Next
  <2>1. \A c \in Pi!Call : Pi!Observe(c) \/ Pi!Prepare(c) => Pi!Serving(c)
    BY DEF Pi!Observe, Pi!Prepare
  <2> QED BY <1>1, <2>1, StartInv, ShutdownInv, PiClosedInv, ReadyInv, ServingInv, EndingInv,
             PiTimeoutInv, HelloInv, GoneInv DEF Pi!Next, Pi!Proceed
<1>2. CASE UNCHANGED Pi!vars
  BY <1>2, ChildInv DEF Pi!vars, Pi!bridges, PiInv, PiTypes
<1> QED BY <1>1, <1>2

---------------------------------------------------------------------------

LEMMA PiInvariance ==
    ASSUME Pi!CallAssumption, Pi!PlaceAssumption PROVE Pi!Spec => []PiInv
BY PiInitInv, PiNextInv, PTL DEF Pi!Spec

\* However many calls come and wherever the host has moved to, unless one comes
\* while another waits for a bridge to close: only the extension's bridge has a
\* child at work, it never finds its session locked by one before it, and what
\* succeeded was served where it was called from (extension.js 8-21, 49-53).
THEOREM SessionsAreApart ==
    ASSUME Pi!CallAssumption, Pi!PlaceAssumption PROVE Pi!Spec => []Pi!OneSessionAtATime
<1>1. PiInv => Pi!OneSessionAtATime
  <2> SUFFICES ASSUME PiInv, calm
               PROVE  /\ \A b \in Pi!Call : lives[b] = "running" => b = bridge /\ ~Pi!LockTaken(b)
                      /\ \A c \in Pi!Call : result[c] = "ok" => Pi!At(mine[c]) = want[c]
    BY DEF Pi!OneSessionAtATime
  <2>1. ASSUME NEW b \in Pi!Call, lives[b] = "running" PROVE b = bridge
    BY <2>1 DEF Pi!CallAssumption, PiInv, OneAlive, OneStops, Alive
  <2>2. ASSUME NEW b \in Pi!Call, lives[b] = "running", Pi!LockTaken(b) PROVE FALSE
    <3>1. PICK o \in Pi!Call \ {b} : hello[o] = "accepted" /\ lives[o] # "gone"
      BY <2>2 DEF Pi!LockTaken
    <3>2. Alive(o) /\ Alive(b) /\ b = bridge
      BY <2>1, <2>2, <3>1 DEF PiInv, PiTypes, Created, Alive
    <3> QED BY <3>1, <3>2 DEF Pi!CallAssumption, PiInv, OneAlive, OneStops
  <2> QED BY <2>1, <2>2 DEF PiInv, Promised
<1> QED BY <1>1, PiInvariance, PTL
====

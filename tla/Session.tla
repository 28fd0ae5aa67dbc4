---- MODULE Session ----
(***************************************************************************)
(* One sidecar session (src/session.mjs) over its store (src/store.mjs)    *)
(* and the workspace files it reads: observe, prepare, commit and status,  *)
(* with the awaits that let the workspace change under them, failing       *)
(* writes, crashes and restarts, and what the host has been told.          *)
(*                                                                         *)
(* The server answers one request at a time (server.mjs, jsonl.mjs), so    *)
(* only edits, the clock and crashes interleave with an operation.         *)
(*                                                                         *)
(* Text is a sequence of bytes and stands for its own SHA-256 revision;    *)
(* identities (compactUnitId, stableId) are values: hashing is taken to    *)
(* be injective.                                                           *)
(***************************************************************************)
EXTENDS Projection, Sequences

CONSTANTS
    Result, Request,   \* result_id and request_id values
    Unit,              \* unit ids: naturals, ordered like the code's strings
    UnitPath, UnitKind,
    FileUnit,          \* [Path -> Unit], the file unit of each path
    Origin,            \* [Unit -> text], what a region's fingerprint names
    Content,           \* the texts a source file may hold
    Spans,             \* [Unit -> [Content -> ranges]], where parsing or
                       \* relocation may find a unit; empty when it cannot
    ObserveCall,       \* [result, path, text, range] calls the host may send
    PrepareCall,       \* [request, results, budget, granularity] calls
    MaxPending, Ttl,   \* MAX_PENDING_PLANS, PENDING_PLAN_TTL_MS
    MaxTime, MaxEdits, MaxSaveFaults, MaxBlobFaults,  \* bounds
    ClockStepsBack,    \* whether the wall clock may be set back
    None, Unreadable

Slice(text, start, end) == SubSeq(text, start + 1, end)

ASSUME UnitAssumption ==
    /\ Unit \subseteq Nat
    /\ UnitPath \in [Unit -> Path]
    /\ UnitKind \in [Unit -> Kind]
    /\ FileUnit \in [Path -> Unit]
    /\ \A p \in Path : UnitKind[FileUnit[p]] = "file" /\ UnitPath[FileUnit[p]] = p
    /\ \A u \in Unit : UnitKind[u] = "file" => u = FileUnit[UnitPath[u]]
ASSUME TextAssumption ==
    /\ \A c \in Content : c \in Seq(Nat) /\ c # None
    /\ \A u \in Unit, c \in Content : \A s \in Spans[u][c] :
          s.start \in Nat /\ s.end \in Nat /\ s.start <= s.end /\ s.end <= Len(c)
    /\ \A o \in ObserveCall : o.text \in Seq(Nat)
ASSUME CallAssumption ==
    /\ \A o \in ObserveCall : o.result \in Result /\ o.path \in Path
    /\ \A k \in PrepareCall : k.request \in Request /\ k.results \subseteq Result
    /\ None \notin ObserveCall \cup PrepareCall
ASSUME UnreadableAssumption == Unreadable \notin Content
ASSUME BoundAssumption == MaxPending \in Nat \ {0} /\ Ttl \in Nat

VARIABLES
    \* store.state, the session in memory: observations, units, pendingPlans,
    \* committedPlans and sequence
    state,
    \* the store on disk: the last saved state, the source and projection blobs
    disk, blobs, projections,
    \* the operation in flight: where it stands, its arguments and its locals
    pc, call, todo, sources, cand, unchecked, reply,
    \* the environment
    file, now, edits, saveFaults, blobFaults,
    \* what the host has been told, and what each file held during a commit
    observed, issued, applied, rejected, during

store  == <<disk, blobs, projections>>
locals == <<call, todo, sources, cand, unchecked, reply>>
world  == <<file, now, edits, saveFaults, blobFaults>>
host   == <<observed, issued, applied, rejected, during>>
vars   == <<state, store, pc, locals, world, host>>

---------------------------------------------------------------------------
\* State as saved, and the values the operations build.

Blank == [observations |-> [r \in Result |-> None], units |-> [u \in Unit |-> None],
          pendingPlans |-> [q \in Request |-> None],
          committedPlans |-> [q \in Request |-> None], sequence |-> 0]

\* What of a frame reaches the projection text.
Shown(f) == [path |-> f.path, kind |-> f.kind, text |-> f.text]

ProjectionText(frames) ==
    [x \in {Shown(f) : f \in frames} |-> Cardinality({f \in frames : Shown(f) = x})]

\* plan_id hashes the request, its inputs and the projection text.
PlanId(q, plan) == [request |-> q, inputs |-> plan.inputs,
                    projection |-> ProjectionText(plan.frames)]

Inputs(k) == [results |-> k.results, budget |-> k.budget, granularity |-> k.granularity]

Whole(u, c, t) == [id |-> u, path |-> UnitPath[u], kind |-> "file", observedAt |-> t,
                   start |-> 0, end |-> Len(c), source |-> c]

Part(u, c, s, t) == [id |-> u, path |-> UnitPath[u], kind |-> UnitKind[u], observedAt |-> t,
                     start |-> s.start, end |-> s.end, source |-> c]

Text(x) == Slice(x.source, x.start, x.end)

Revisions(u) == IF state.units[u] = None THEN {} ELSE state.units[u].revisions

\* state.units[id] = stored, with the resolved text's revision appended.
StoredUnit(u, text) ==
    [revisions |-> Revisions(u) \cup {text},
     referent  |-> IF UnitKind[u] = "region" THEN text ELSE None]

---------------------------------------------------------------------------

FileState == Content \cup {Unreadable}

MutIdle == /\ pc' = "idle" /\ call' = None /\ todo' = {} /\ cand' = {}
           /\ sources' = sources /\ unchecked' = {} /\ reply' = None
           /\ during' = [p \in Path |-> {}]

\* The operation is over and its locals are gone.
Idle == /\ pc' = "idle" /\ call' = None /\ todo' = {} /\ cand' = {}
        /\ sources' = [p \in Path |-> None] /\ unchecked' = {} /\ reply' = None
        /\ during' = [p \in Path |-> {}]

Untold == UNCHANGED <<observed, issued, applied, rejected>>

Init ==
    /\ state = Blank /\ disk = Blank /\ blobs = {} /\ projections = {}
    /\ pc = "idle" /\ call = None /\ todo = {} /\ cand = {}
    /\ sources = [p \in Path |-> None] /\ unchecked = {} /\ reply = None
    /\ file \in [Path -> FileState]
    /\ now = 0 /\ edits = 0 /\ saveFaults = 0 /\ blobFaults = 0
    /\ observed = {} /\ issued = {} /\ applied = {} /\ rejected = {}
    /\ during = [p \in Path |-> {}]

\* Writing a blob the archive lacks throws, and the host gets internal_error.
BlobFault(blob, archive) ==
    /\ blob \notin archive
    /\ blobFaults < MaxBlobFaults /\ blobFaults' = blobFaults + 1
    /\ UNCHANGED <<file, now, edits, saveFaults>>

---------------------------------------------------------------------------
\* observe

\* A new result_id takes the next sequence number before anything is read.
ObserveNew(o) ==
    /\ pc = "idle" /\ state.observations[o.result] = None
    /\ state' = [state EXCEPT !.sequence = @ + 1]
    /\ pc' = "observe" /\ call' = o
    /\ UNCHANGED <<store, todo, sources, cand, unchecked, reply, world, host>>

\* A repeated result_id is answered from memory when its inputs agree; a
\* conflict, like every refusal, leaves the state alone.
ObserveAgain(o) ==
    /\ pc = "idle" /\ state.observations[o.result] # None
    /\ state.observations[o.result].inputs = o
    /\ observed' = observed \cup {o}
    /\ UNCHANGED <<state, store, pc, locals, world, issued, applied, rejected, during>>

RangeMatches(o, c) ==
    /\ o.range # None
    /\ o.range.end <= Len(c)
    /\ c = o.text \/ Slice(c, o.range.start, o.range.end) = o.text

\* The smallest enclosing symbol the parser reports, or the region itself.
Enclosing(o, c) ==
    LET parts(kind) ==
            UNION {{Part(u, c, s, state.sequence) : s \in Spans[u][c]} :
                       u \in {v \in Unit : UnitPath[v] = o.path /\ UnitKind[v] = kind}}
        symbols == {x \in parts("symbol") :
                       x.start <= o.range.start /\ o.range.end <= x.end}
        regions == {x \in parts("region") :
                       /\ x.start = o.range.start /\ x.end = o.range.end
                       /\ Origin[x.id] = Text(x)}
    IN IF symbols # {} THEN symbols ELSE regions

\* What a readable snapshot resolves an observation to; the whole file when
\* there is no range, it no longer matches or the file does not parse.
ObservedUnits(o, c) ==
    IF RangeMatches(o, c) /\ Enclosing(o, c) # {}
    THEN Enclosing(o, c)
    ELSE {Whole(FileUnit[o.path], c, state.sequence)}

MutRecord(o, u, stored) ==
    /\ state' = [state EXCEPT !.observations[o.result] =
                    [inputs |-> o, unit |-> u, observedAt |-> state.sequence]]
    /\ pc' = "save" /\ reply' = [kind |-> "observed", of |-> o]
    /\ UNCHANGED <<disk, projections, call, todo, sources, cand, unchecked, world, host>>

Record(o, u, stored) ==
    /\ state' = [state EXCEPT
                    !.units[u] = stored,
                    !.observations[o.result] =
                        [inputs |-> o, unit |-> u, observedAt |-> state.sequence]]
    /\ pc' = "save" /\ reply' = [kind |-> "observed", of |-> o]
    /\ UNCHANGED <<disk, projections, call, todo, sources, cand, unchecked, world, host>>

ObserveReadable ==
    /\ pc = "observe" /\ file[call.path] # Unreadable
    /\ \E x \in ObservedUnits(call, file[call.path]) :
          /\ blobs' = blobs \cup {Text(x)}
          /\ Record(call, x.id, StoredUnit(x.id, Text(x)))

\* The source cannot be read: a whole-file observation archives the text the
\* host sent, a ranged one archives nothing.
ObserveUnreadable ==
    /\ pc = "observe" /\ file[call.path] = Unreadable
    /\ LET u == FileUnit[call.path]
           sent == IF call.range = None THEN {call.text} ELSE {}
       IN /\ blobs' = blobs \cup sent
          /\ Record(call, u, [revisions |-> Revisions(u) \cup sent, referent |-> None])

\* The blob cannot be written: only the sequence number stays behind.
ObserveFails ==
    /\ pc = "observe"
    /\ IF file[call.path] # Unreadable
       THEN \E x \in ObservedUnits(call, file[call.path]) : BlobFault(Text(x), blobs)
       ELSE call.range = None /\ BlobFault(call.text, blobs)
    /\ Idle /\ Untold
    /\ UNCHANGED <<state, store>>

---------------------------------------------------------------------------
\* Expired pending plans are dropped, and the drop saved, at the start of
\* prepare and status.

MutUnexpired == [q \in Request |->
    IF state.pendingPlans[q] # None /\ now - state.pendingPlans[q].preparedAt >= Ttl
    THEN None ELSE state.pendingPlans[q]]

Unexpired == [q \in Request |->
    IF state.pendingPlans[q] # None /\ now - state.pendingPlans[q].preparedAt > Ttl
    THEN None ELSE state.pendingPlans[q]]

DropExpired ==
    /\ state' = [state EXCEPT !.pendingPlans = Unexpired]
    /\ disk' = IF Unexpired = state.pendingPlans THEN disk ELSE state'

DropExpiredFails ==
    /\ pc = "idle" /\ Unexpired # state.pendingPlans /\ saveFaults < MaxSaveFaults
    /\ saveFaults' = saveFaults + 1
    /\ state' = [state EXCEPT !.pendingPlans = Unexpired]
    /\ UNCHANGED <<store, pc, locals, file, now, edits, blobFaults, host>>

Status ==
    /\ pc = "idle" /\ Unexpired # state.pendingPlans /\ DropExpired
    /\ UNCHANGED <<blobs, projections, pc, locals, world, host>>

---------------------------------------------------------------------------
\* prepare

\* A request_id already prepared: the archived response is given again.
PrepareAgain(k) ==
    /\ pc = "idle" /\ DropExpired
    /\ LET known == IF Unexpired[k.request] # None
                    THEN Unexpired[k.request] ELSE state.committedPlans[k.request]
       IN /\ known # None
          /\ known.inputs = Inputs(k)
          /\ ProjectionText(known.frames) \in projections
          /\ issued' = issued \cup {PlanId(k.request, known)}
    /\ UNCHANGED <<blobs, projections, pc, locals, world,
                   observed, applied, rejected, during>>

MutPrepareNew(k) ==
    /\ pc = "idle" /\ DropExpired /\ Unexpired[k.request] = None
    /\ pc' = "prepare" /\ call' = k
    /\ todo' = {state.observations[r].unit : r \in {r \in k.results : state.observations[r] # None}}
    /\ rejected' = {i \in rejected : i.request # k.request}
    /\ during' = [p \in Path |-> {file[p]}]
    /\ UNCHANGED <<blobs, projections, sources, cand, unchecked, reply, world,
                   observed, issued, applied>>

\* A new request_id: the known results are grouped by unit, and the units are
\* refreshed one by one. From here on the host may learn of a plan of this
\* request again.
PrepareNew(k) ==
    /\ pc = "idle" /\ DropExpired /\ Unexpired[k.request] = None
    /\ state.committedPlans[k.request] = None
    /\ pc' = "prepare" /\ call' = k
    /\ todo' = {state.observations[r].unit : r \in {r \in k.results : state.observations[r] # None}}
    /\ rejected' = {i \in rejected : i.request # k.request}
    /\ during' = [p \in Path |-> {file[p]}]
    /\ UNCHANGED <<blobs, projections, sources, cand, unchecked, reply, world,
                   observed, issued, applied>>

ObservedAt(u) ==
    LET times == {state.observations[r].observedAt :
                     r \in {r \in call.results : state.observations[r] # None /\ state.observations[r].unit = u}}
    IN CHOOSE t \in times : \A s \in times : s <= t

MutSnapshot(p) == file[p]

\* The SourceCache: a file is read once per prepare; a failed read is not kept.
Snapshot(p) == IF sources[p] # None THEN sources[p] ELSE file[p]

\* With granularity "file" a part is shown as its whole file, under its own id.
Widened(x) == IF call.granularity = "file" THEN Whole(x.id, x.source, x.observedAt) ELSE x

Refreshed(u, x, stored) ==
    /\ state' = [state EXCEPT !.units[u] = stored]
    /\ blobs' = blobs \cup {Text(x)}
    /\ sources' = [sources EXCEPT ![x.path] = x.source]
    /\ cand' = cand \cup {Widened(x)}
    /\ todo' = todo \ {u}
    /\ UNCHANGED <<disk, projections, pc, call, unchecked, reply, world, host>>

\* The unit keeps its path's snapshot, read or cached, but is not a candidate.
Unresolved(u) ==
    /\ todo' = todo \ {u}
    /\ sources' = [sources EXCEPT ![UnitPath[u]] =
                      IF Snapshot(UnitPath[u]) = Unreadable THEN None ELSE Snapshot(UnitPath[u])]
    /\ UNCHANGED <<state, store, pc, call, cand, unchecked, reply, host>>

\* A symbol that is gone from its file falls back to the whole file.
IsFallback(u) == UnitKind[u] = "symbol" /\ Spans[u][Snapshot(UnitPath[u])] = {}

\* currentCandidate: what the unit resolves to in its path's snapshot. A
\* fallback keeps the symbol's id; a region needs the bytes it was last seen
\* with, and may be ambiguous or gone.
Located(u) ==
    LET c == Snapshot(UnitPath[u])
    IN IF c = Unreadable \/ (UnitKind[u] = "region" /\ state.units[u].referent \notin blobs)
       THEN {}
       ELSE IF UnitKind[u] = "file" \/ IsFallback(u)
       THEN {Whole(u, c, ObservedAt(u))}
       ELSE {Part(u, c, s, ObservedAt(u)) : s \in Spans[u][c]}

RefreshFound(u) ==
    \E x \in Located(u) : Refreshed(u, x, StoredUnit(u, Text(x)))

RefreshMisses(u) == Located(u) = {} /\ Unresolved(u) /\ UNCHANGED world

Refresh(u) ==
    /\ pc = "prepare" /\ u \in todo
    /\ RefreshFound(u) \/ RefreshMisses(u)

\* The blob cannot be written. currentRegion catches this and leaves the unit
\* unresolved; for a file or symbol prepare fails, and fileFallbackForSymbol
\* has appended the revision before it tried to write the blob.
RegionRefreshFails(u) ==
    /\ pc = "prepare" /\ u \in todo /\ UnitKind[u] = "region"
    /\ \E x \in Located(u) : BlobFault(Text(x), blobs)
    /\ Unresolved(u)

MutRefreshFails(u) ==
    /\ pc = "prepare" /\ u \in todo /\ UnitKind[u] # "region"
    /\ \E x \in Located(u) :
          /\ BlobFault(Text(x), blobs)
          /\ state' = [state EXCEPT !.units[u] = StoredUnit(u, Text(x))]
    /\ Idle /\ Untold
    /\ UNCHANGED store

RefreshFails(u) ==
    /\ pc = "prepare" /\ u \in todo /\ UnitKind[u] # "region"
    /\ \E x \in Located(u) :
          /\ BlobFault(Text(x), blobs)
          /\ state' = IF IsFallback(u)
                      THEN [state EXCEPT !.units[u] = StoredUnit(u, Text(x))] ELSE state
    /\ Idle /\ Untold
    /\ UNCHANGED store

\* Each selected path with the revision its frames were cut from.
References(sel) ==
    [p \in {x.path : x \in sel} |-> (CHOOSE x \in sel : x.path = p).source]

Frames(sel) ==
    {[id |-> x.id, path |-> x.path, kind |-> x.kind,
      start |-> x.start, end |-> x.end, text |-> Text(x)] : x \in sel}

NewPlan(sel) == [inputs |-> Inputs(call), frames |-> Frames(sel),
                 references |-> References(sel), preparedAt |-> now]

MutBounded(plans) ==
    LET pending == {q \in Request : plans[q] # None}
        oldest  == {q \in pending : \A r \in pending : plans[q].preparedAt <= plans[r].preparedAt}
    IN IF Cardinality(pending) <= MaxPending + 1
       THEN {plans}
       ELSE {[plans EXCEPT ![q] = None] : q \in oldest}

\* boundPending: beyond the limit the plan with the smallest preparedAt goes.
\* Equal times fall to object key order, which the request ids decide.
Bounded(plans) ==
    LET pending == {q \in Request : plans[q] # None}
        oldest  == {q \in pending : \A r \in pending : plans[q].preparedAt <= plans[r].preparedAt}
    IN IF Cardinality(pending) <= MaxPending
       THEN {plans}
       ELSE {[plans EXCEPT ![q] = None] : q \in oldest}

BuildPlan ==
    /\ pc = "prepare" /\ todo = {}
    /\ \E sel \in SUBSET cand :
          /\ IsSelection(sel, cand, call.budget)
          /\ projections' = projections \cup {ProjectionText(Frames(sel))}
          /\ \E kept \in Bounded([state.pendingPlans EXCEPT ![call.request] = NewPlan(sel)]) :
                state' = [state EXCEPT !.pendingPlans = kept]
          /\ reply' = [kind |-> "plan", of |-> PlanId(call.request, NewPlan(sel))]
    /\ pc' = "save"
    /\ UNCHANGED <<disk, blobs, call, todo, sources, cand, unchecked, world, host>>

BuildPlanFails ==
    /\ pc = "prepare" /\ todo = {}
    /\ \E sel \in SUBSET cand :
          /\ IsSelection(sel, cand, call.budget)
          /\ BlobFault(ProjectionText(Frames(sel)), projections)
    /\ Idle /\ Untold
    /\ UNCHANGED <<state, store>>

---------------------------------------------------------------------------
\* commit

Holds(plans, i) == plans[i.request] # None /\ PlanId(i.request, plans[i.request]) = i

CommitAgain(i) ==
    /\ pc = "idle" /\ Holds(state.committedPlans, i)
    /\ applied' = applied \cup {i}
    /\ UNCHANGED <<state, store, pc, locals, world, observed, issued, rejected, during>>

MutCommit(i) ==
    /\ pc = "idle" /\ ~Holds(state.committedPlans, i) /\ Holds(state.pendingPlans, i)
    /\ pc' = "commit" /\ call' = i
    /\ LET paths == DOMAIN state.pendingPlans[i.request].references
       IN unchecked' = {p \in paths : p = CHOOSE q \in paths : TRUE}
    /\ during' = [p \in Path |-> {file[p]}]
    /\ UNCHANGED <<state, store, todo, sources, cand, reply, world,
                   observed, issued, applied, rejected>>

Commit(i) ==
    /\ pc = "idle" /\ ~Holds(state.committedPlans, i) /\ Holds(state.pendingPlans, i)
    /\ pc' = "commit" /\ call' = i
    /\ unchecked' = DOMAIN state.pendingPlans[i.request].references
    /\ during' = [p \in Path |-> {file[p]}]
    /\ UNCHANGED <<state, store, todo, sources, cand, reply, world,
                   observed, issued, applied, rejected>>

\* One referenced file still has the revision the plan was built from.
Recheck(p) ==
    /\ pc = "commit" /\ p \in unchecked
    /\ file[p] = state.pendingPlans[call.request].references[p]
    /\ unchecked' = unchecked \ {p}
    /\ UNCHANGED <<state, store, pc, call, todo, sources, cand, reply, world, host>>

MutReject(p) ==
    /\ pc = "commit" /\ p \in unchecked
    /\ file[p] # state.pendingPlans[call.request].references[p]
    /\ pc' = "save" /\ reply' = [kind |-> "stale", of |-> call]
    /\ UNCHANGED <<state, store, call, todo, sources, cand, unchecked, world, host>>

\* It has changed or cannot be read: the plan is dropped.
Reject(p) ==
    /\ pc = "commit" /\ p \in unchecked
    /\ file[p] # state.pendingPlans[call.request].references[p]
    /\ state' = [state EXCEPT !.pendingPlans[call.request] = None]
    /\ reply' = [kind |-> "stale", of |-> call]
    /\ pc' = "save"
    /\ UNCHANGED <<store, call, todo, sources, cand, unchecked, world, host>>

MutApplyKeepsPending ==
    /\ pc = "commit" /\ unchecked = {}
    /\ LET q == call.request
           plan == state.pendingPlans[q]
       IN state' = [state EXCEPT
                       !.committedPlans[q] =
                           [inputs |-> plan.inputs, frames |-> plan.frames,
                            committedAt |-> state.sequence + 1],
                       !.sequence = @ + 1]
    /\ pc' = "save" /\ reply' = [kind |-> "applied", of |-> call]
    /\ UNCHANGED <<store, call, todo, sources, cand, unchecked, world, host>>

MutApply ==
    /\ pc = "commit" /\ unchecked = {}
    /\ LET q == call.request
           plan == state.pendingPlans[q]
       IN state' = [state EXCEPT
                       !.pendingPlans[q] = None,
                       !.committedPlans[q] =
                           [inputs |-> plan.inputs, frames |-> plan.frames,
                            committedAt |-> state.sequence]]
    /\ pc' = "save" /\ reply' = [kind |-> "applied", of |-> call]
    /\ UNCHANGED <<store, call, todo, sources, cand, unchecked, world, host>>

Apply ==
    /\ pc = "commit" /\ unchecked = {}
    /\ LET q == call.request
           plan == state.pendingPlans[q]
       IN state' = [state EXCEPT
                       !.pendingPlans[q] = None,
                       !.committedPlans[q] =
                           [inputs |-> plan.inputs, frames |-> plan.frames,
                            committedAt |-> state.sequence + 1],
                       !.sequence = @ + 1]
    /\ reply' = [kind |-> "applied", of |-> call]
    /\ pc' = "save"
    /\ UNCHANGED <<store, call, todo, sources, cand, unchecked, world, host>>

---------------------------------------------------------------------------
\* The save that ends observe, prepare and commit, and what the host learns.

Told ==
    /\ observed' = IF reply.kind = "observed" THEN observed \cup {reply.of} ELSE observed
    /\ issued'   = IF reply.kind = "plan"     THEN issued \cup {reply.of} ELSE issued
    /\ applied'  = IF reply.kind = "applied"  THEN applied \cup {reply.of} ELSE applied
    /\ rejected' = IF reply.kind = "stale"    THEN rejected \cup {reply.of} ELSE rejected

MutSave ==
    /\ pc = "save"
    /\ disk' = IF reply.kind = "observed" THEN disk ELSE state
    /\ Told /\ Idle
    /\ UNCHANGED <<state, blobs, projections, world>>

Save ==
    /\ pc = "save"
    /\ disk' = state
    /\ Told /\ Idle
    /\ UNCHANGED <<state, blobs, projections, world>>

\* writeAtomic throws before its rename: the host gets internal_error, the
\* file keeps its old content and memory keeps the new state.
SaveFails ==
    /\ pc = "save" /\ saveFaults < MaxSaveFaults
    /\ saveFaults' = saveFaults + 1
    /\ Idle /\ Untold
    /\ UNCHANGED <<state, store, file, now, edits, blobFaults>>

---------------------------------------------------------------------------
\* The sidecar dies, or is closed, and a new one opens the saved state. A
\* crash in a save may come before or after its rename.

Restart ==
    /\ disk' \in (IF pc = "save" THEN {disk, state} ELSE {disk})
    /\ state' = disk'
    /\ Idle /\ Untold
    /\ UNCHANGED <<blobs, projections, world>>

\* Somebody edits, removes or restores a file.
Edit(p, f) ==
    /\ edits < MaxEdits
    /\ f # file[p]
    /\ file' = [file EXCEPT ![p] = f]
    /\ edits' = edits + 1
    /\ during' = IF pc \in {"prepare", "commit"} THEN [during EXCEPT ![p] = @ \cup {f}] ELSE during
    /\ Untold
    /\ UNCHANGED <<state, store, pc, locals, now, saveFaults, blobFaults>>

\* The wall clock moves on, or is set back.
Tick ==
    /\ \/ now < MaxTime /\ now' = now + 1
       \/ ClockStepsBack /\ now > 0 /\ now' = now - 1
    /\ UNCHANGED <<state, store, pc, locals, file, edits, saveFaults, blobFaults, host>>

---------------------------------------------------------------------------

Server ==
    \/ ObserveReadable \/ ObserveUnreadable
    \/ \E u \in Unit : Refresh(u)
    \/ BuildPlan
    \/ \E p \in Path : Recheck(p) \/ Reject(p)
    \/ Apply
    \/ Save

Host ==
    \/ \E o \in ObserveCall : ObserveNew(o) \/ ObserveAgain(o)
    \/ \E k \in PrepareCall : PrepareNew(k) \/ PrepareAgain(k)
    \/ \E i \in issued : Commit(i) \/ CommitAgain(i)
    \/ Status

Fault ==
    \/ ObserveFails
    \/ \E u \in Unit : RefreshFails(u) \/ RegionRefreshFails(u)
    \/ BuildPlanFails
    \/ SaveFails \/ DropExpiredFails
    \/ Restart

World ==
    \/ \E p \in Path, f \in FileState : Edit(p, f)
    \/ Tick

Next == Server \/ Host \/ Fault \/ World

Spec == Init /\ [][Next]_vars

====

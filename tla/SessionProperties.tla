---- MODULE SessionProperties ----
(***************************************************************************)
(* What a session promises its host: types, safety invariants and action   *)
(* properties of Session.                                                  *)
(***************************************************************************)
EXTENDS Session

Bytes == Seq(Nat)
InputsOf == {Inputs(k) : k \in PrepareCall}
Observation == [inputs : ObserveCall, unit : Unit, observedAt : Nat]
Stored == [revisions : SUBSET Bytes, referent : Bytes \cup {None}]
Frame == [id : Unit, path : Path, kind : Kind, start : Nat, end : Nat, text : Bytes]
ReferenceMap == UNION {[S -> Content] : S \in SUBSET Path}
PendingPlan == [inputs : InputsOf, frames : SUBSET Frame,
                references : ReferenceMap, preparedAt : Nat]
CommittedPlan == [inputs : InputsOf, frames : SUBSET Frame, committedAt : Nat]
\* An observation, a stored unit or a plan is never the absent value.
ASSUME NoneAssumption ==
    None \notin Observation /\ None \notin Stored
        /\ None \notin PendingPlan /\ None \notin CommittedPlan

SavedState ==
    [observations : [Result -> Observation \cup {None}],
     units : [Unit -> Stored \cup {None}],
     pendingPlans : [Request -> PendingPlan \cup {None}],
     committedPlans : [Request -> CommittedPlan \cup {None}],
     sequence : Nat]

StateOK(m) ==
    /\ m \in SavedState
    /\ \A r \in Result :
          m.observations[r] # None => m.units[m.observations[r].unit] # None

\* A candidate lies within its source text.
IsCandidate(x) ==
    /\ x.id \in Unit /\ x.path \in Path /\ x.kind \in Kind /\ x.source \in Content
    /\ x.start \in Nat /\ x.end \in Nat /\ x.start <= x.end /\ x.end <= Len(x.source)

OperationOK ==
    /\ pc \in {"idle", "observe", "prepare", "commit", "save"}
    /\ pc = "observe" => call \in ObserveCall
    /\ pc = "prepare" => call \in PrepareCall
    /\ pc = "commit" => /\ call.request \in Request
                       /\ state.pendingPlans[call.request] # None
    /\ pc = "save" => (reply.kind = "plan" => reply.of.request \in Request)
    /\ todo \subseteq {u \in Unit : state.units[u] # None}
    /\ \A x \in cand : IsCandidate(x)
    /\ sources \in [Path -> Content \cup {None}]

\* Memory and disk hold what validateSessionV2 demands of a saved session, each
\* observation has its unit, and every candidate lies within its source.
TypeOK ==
    /\ StateOK(state) /\ StateOK(disk)
    /\ blobs \subseteq Bytes
    /\ file \in [Path -> FileState] /\ now \in Nat
    /\ OperationOK
    /\ \A i \in issued : i.request \in Request

---------------------------------------------------------------------------
\* Safety. Each operator over m states a fact about one copy of the session,
\* the one in memory or the saved one a restart would load.

PlanMatches(plan) ==
    \A f \in plan.frames :
        /\ f.path \in DOMAIN plan.references
        /\ f.text = Slice(plan.references[f.path], f.start, f.end)

PlansMatch(m) ==
    \A q \in Request : m.pendingPlans[q] # None => PlanMatches(m.pendingPlans[q])

\* Every frame of a pending plan is a slice of the very revision commit will
\* compare the file with: prepare reads a file once however many units it
\* shows of it (SourceCache, session.mjs 135-146) and keeps one reference per
\* path (448-451).
PlansMatchSources == PlansMatch(state) /\ PlansMatch(disk)

\* A blob failed to be written, and the symbol's fallback had listed the file's
\* text before it tried: the text is one the symbol is gone from.
Hole(u, text) ==
    /\ blobFaults > 0
    /\ UnitKind[u] = "symbol" /\ text \in Content /\ Spans[u][text] = {}

Archived(m) ==
    /\ \A u \in Unit : m.units[u] # None =>
          \A text \in m.units[u].revisions : text \in blobs \/ Hole(u, text)
    /\ \A plans \in {m.pendingPlans, m.committedPlans} : \A q \in Request :
          plans[q] # None => ProjectionText(plans[q].frames) \in projections

\* recover and a repeated prepare find what they look up, though blobs fail to
\* be written between the steps of an operation: each revision listed for a unit
\* and each known plan's projection is in the blob store, in memory and after a
\* restart (session.mjs 355-361, 494-502). The one exception is a revision
\* that fileFallbackForSymbol listed before a write that failed (289-293).
ArchiveComplete == Archived(state) /\ Archived(disk)

\* What the host was told is done survives a crash, as long as every save
\* succeeds: an acknowledged observation and an applied commit are in the
\* saved state.
AckedIsDurable ==
    saveFaults = 0 =>
        /\ \A o \in observed : /\ disk.observations[o.result] # None
                               /\ disk.observations[o.result].inputs = o
        /\ \A i \in applied : Holds(disk.committedPlans, i)

Forgotten(m, i) == ~Holds(m.pendingPlans, i) /\ ~Holds(m.committedPlans, i)

\* A plan reported stale is gone, in memory and across a restart, until the
\* host prepares that request again (session.mjs 477-480).
RejectedStaysRejected == \A i \in rejected : Forgotten(state, i) /\ Forgotten(disk, i)

OneEach(m) == \A q \in Request : m.pendingPlans[q] = None \/ m.committedPlans[q] = None

\* A request is pending or committed, never both, in memory or after a restart
\* (session.mjs 372-376, 483-484).
OnePlanPerRequest == OneEach(state) /\ OneEach(disk)

PendingIn(m) == {q \in Request : m.pendingPlans[q] # None}

\* However plans are prepared, dropped and reloaded, no more than
\* MAX_PENDING_PLANS are kept (session.mjs 172-178).
PendingBounded ==
    Cardinality(PendingIn(state)) <= MaxPending /\ Cardinality(PendingIn(disk)) <= MaxPending

SequenceUnique(m) ==
    LET R == {r \in Result : m.observations[r] # None}
        Q == {q \in Request : m.committedPlans[q] # None}
        observedAt(r) == m.observations[r].observedAt
        committedAt(q) == m.committedPlans[q].committedAt
    IN /\ \A r \in R, s \in R : r # s => observedAt(r) # observedAt(s)
       /\ \A p \in Q, q \in Q : p # q => committedAt(p) # committedAt(q)
       /\ \A r \in R, q \in Q : observedAt(r) # committedAt(q)
       /\ \A r \in R : observedAt(r) <= m.sequence
       /\ \A q \in Q : committedAt(q) <= m.sequence

\* The recency that ranks units is a total order with the commits in it: no
\* sequence number is used twice, whatever failed in between
\* (session.mjs 227, 488).
SequenceIsUnique == SequenceUnique(state) /\ SequenceUnique(disk)

---------------------------------------------------------------------------
\* Action properties.

\* A committed plan is never replaced or forgotten once it is saved.
CommittedForever ==
    [][\A q \in Request : disk.committedPlans[q] # None =>
          disk'.committedPlans[q] = disk.committedPlans[q]]_disk

\* A plan shows and references only texts its files held while that prepare
\* ran, never a snapshot of an earlier one.
PreparedFromCurrent ==
    [][pc = "prepare" /\ pc' = "save" => \A q \in Request :
          state'.pendingPlans[q] # None /\ state'.pendingPlans[q] # state.pendingPlans[q] =>
              \A p \in DOMAIN state'.pendingPlans[q].references :
                  state'.pendingPlans[q].references[p] \in during[p]]_<<state, pc>>

\* A plan becomes a committed one only if each of its files held the plan's
\* revision at some moment of that commit (session.mjs 467-475). A restart may
\* take a commit back whose save failed, and never brings one.
AppliedAgainstCurrent ==
    [][pc = "commit"
         /\ (\E q \in Request : state'.committedPlans[q] \notin {None, state.committedPlans[q]}) =>
          \A p \in DOMAIN state.pendingPlans[call.request].references :
              state.pendingPlans[call.request].references[p] \in during[p]]_state

\* MAX_PENDING_PLANS plans are kept, none of them older.
CrowdedOut(plan) ==
    /\ Cardinality(PendingIn(disk')) = MaxPending
    /\ \A r \in PendingIn(disk') : disk'.pendingPlans[r].preparedAt >= plan.preparedAt

\* A saved pending plan disappears only because it was committed, had expired,
\* was crowded out by MAX_PENDING_PLANS others no older, or a file of it
\* changed. (A save that fails puts the loss off to a later one, when the clock
\* may have been set back.)
PlanLossIsJustified ==
    [][saveFaults = 0 => \A q \in Request :
          LET plan == disk.pendingPlans[q]
          IN plan # None /\ disk'.pendingPlans[q] = None =>
              \/ Holds(disk'.committedPlans, PlanId(q, plan))
              \/ now - plan.preparedAt > Ttl
              \/ CrowdedOut(plan)
              \/ \E p \in DOMAIN plan.references : during[p] \ {plan.references[p]} # {}]_disk

====

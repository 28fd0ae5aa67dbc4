---- MODULE SessionProofs ----
(***************************************************************************)
(* Theorems about Session for every choice of its constants: any paths,    *)
(* texts, units, results, requests, limits and numbers of faults, edits    *)
(* and restarts. The first part proves IInv and what follows from it: the  *)
(* shape of the state, plans that match their sources, requests settled    *)
(* once, commits that are final. Each further part adds an invariant of    *)
(* its own: what a plan is built from and applied against, and what        *)
(* rejections, sequence numbers, limits, the archive and acknowledgements  *)
(* keep true through edits, faults and restarts.                           *)
(***************************************************************************)
EXTENDS SessionProperties, SequenceTheorems, FiniteSetTheorems, TLAPS

---------------------------------------------------------------------------
\* The invariant.

\* Candidates are cut from the snapshot the prepare has cached for their path.
CandidatesAreCached == \A x \in cand : x.source = sources[x.path]

\* Memory is never behind the disk on what is committed, and a prepare under
\* way is for a request that is neither pending nor committed.
MemoryLeads ==
    /\ \A q \in Request : disk.committedPlans[q] # None =>
          state.committedPlans[q] = disk.committedPlans[q]
    /\ pc = "prepare" => /\ state.pendingPlans[call.request] = None
                         /\ state.committedPlans[call.request] = None

IInv == /\ TypeOK
        /\ CandidatesAreCached
        /\ PlansMatchSources
        /\ OnePlanPerRequest
        /\ MemoryLeads

\* The part of the invariant about one copy of the session.
SessionOK(m) == StateOK(m) /\ PlansMatch(m) /\ OneEach(m)

\* The part about the operation in flight.
LocalOK == OperationOK /\ CandidatesAreCached

---------------------------------------------------------------------------
\* What the operators return.

LEMMA SliceType ==
    ASSUME NEW c \in Bytes, NEW s \in Nat, NEW e \in Nat, s <= e, e <= Len(c)
    PROVE  Slice(c, s, e) \in Bytes
BY SubSeqProperties DEF Slice, Bytes

LEMMA TextType ==
    ASSUME NEW x, IsCandidate(x)
    PROVE  Text(x) \in Bytes
BY SliceType, TextAssumption DEF Text, IsCandidate, Bytes

LEMMA WholeType ==
    ASSUME NEW u \in Unit, NEW c \in Content, NEW t
    PROVE  /\ IsCandidate(Whole(u, c, t))
           /\ Whole(u, c, t).id = u
           /\ Whole(u, c, t).path = UnitPath[u]
           /\ Whole(u, c, t).source = c
<1>1. Len(c) \in Nat
  BY TextAssumption, LenProperties
<1> QED
  BY <1>1, UnitAssumption DEF Whole, IsCandidate, Kind

LEMMA PartType ==
    ASSUME NEW u \in Unit, NEW c \in Content, NEW t, NEW s \in Spans[u][c]
    PROVE  /\ IsCandidate(Part(u, c, s, t))
           /\ Part(u, c, s, t).id = u
           /\ Part(u, c, s, t).path = UnitPath[u]
           /\ Part(u, c, s, t).source = c
BY UnitAssumption, TextAssumption DEF Part, IsCandidate

LEMMA ObservedUnitsType ==
    ASSUME NEW o \in ObserveCall, NEW c \in Content, NEW x \in ObservedUnits(o, c)
    PROVE  IsCandidate(x)
<1>1. CASE x \in Enclosing(o, c)
  BY <1>1, PartType DEF Enclosing
<1>2. CASE x = Whole(FileUnit[o.path], c, state.sequence)
  <2>1. FileUnit[o.path] \in Unit
    BY UnitAssumption, CallAssumption
  <2> QED BY <1>2, <2>1, WholeType
<1> QED
  BY <1>1, <1>2 DEF ObservedUnits

LEMMA StoredUnitType ==
    ASSUME StateOK(state), NEW u \in Unit, NEW text \in Bytes
    PROVE  StoredUnit(u, text) \in Stored
BY DEF StateOK, SavedState, Stored, StoredUnit, Revisions

\* What a unit refreshes to lies in the snapshot cached for its path.
LEMMA LocatedType ==
    ASSUME TypeOK, NEW u \in Unit, NEW x \in Located(u)
    PROVE  /\ IsCandidate(x)
           /\ x.id = u
           /\ x.path = UnitPath[u]
           /\ x.source = Snapshot(UnitPath[u])
<1> DEFINE c == Snapshot(UnitPath[u])
<1>1. c # Unreadable
  BY DEF Located
<1>2. c \in Content
  BY <1>1, UnitAssumption DEF TypeOK, OperationOK, FileState, Snapshot
<1> HIDE DEF c
<1>3. x = Whole(u, c, ObservedAt(u)) \/ \E s \in Spans[u][c] : x = Part(u, c, s, ObservedAt(u))
  BY DEF Located, c
<1> QED
  BY <1>2, <1>3, WholeType, PartType DEF c

LEMMA WidenedType ==
    ASSUME NEW x, IsCandidate(x)
    PROVE  /\ IsCandidate(Widened(x))
           /\ Widened(x).source = x.source
           /\ UnitPath[x.id] = x.path => Widened(x).path = x.path
BY WholeType DEF Widened, IsCandidate

\* The plan a prepare stores has its type and matches its references.
LEMMA NewPlanType ==
    ASSUME IInv, pc = "prepare", NEW sel \in SUBSET cand
    PROVE  NewPlan(sel) \in PendingPlan /\ PlanMatches(NewPlan(sel))
<1> DEFINE paths == {x.path : x \in sel}
           refs == References(sel)
<1>1. \A x \in sel : IsCandidate(x) /\ x.source = sources[x.path]
  BY DEF IInv, TypeOK, OperationOK, CandidatesAreCached
<1>2. \A p \in paths : refs[p] = sources[p] /\ refs[p] \in Content
  BY <1>1 DEF References, IsCandidate
<1>3. refs \in ReferenceMap
  <2>1. refs \in [paths -> Content]
    BY <1>2 DEF References
  <2>2. paths \in SUBSET Path
    BY <1>1 DEF IsCandidate
  <2> QED BY <2>1, <2>2 DEF ReferenceMap
<1>4. Frames(sel) \in SUBSET Frame
  <2>1. \A x \in sel : Text(x) \in Bytes
    BY <1>1, TextType
  <2> QED BY <1>1, <2>1 DEF Frames, Frame, IsCandidate
<1>5. Inputs(call) \in InputsOf
  BY DEF IInv, TypeOK, OperationOK, InputsOf
<1>6. now \in Nat
  BY DEF IInv, TypeOK
<1>7. NewPlan(sel) \in PendingPlan
  BY <1>3, <1>4, <1>5, <1>6 DEF NewPlan, PendingPlan
<1>8. PlanMatches(NewPlan(sel))
  <2>1. \A f \in Frames(sel) :
           /\ f.path \in DOMAIN refs
           /\ f.text = Slice(refs[f.path], f.start, f.end)
    BY <1>1, <1>2 DEF Frames, References, Text
  <2> QED BY <2>1 DEF PlanMatches, NewPlan
<1> QED BY <1>7, <1>8

---------------------------------------------------------------------------
\* How the invariant is put together, and changes to one copy of the session.

LEMMA Compose ==
    ASSUME SessionOK(state'), SessionOK(disk'),
           blobs' \subseteq Bytes, file' \in [Path -> FileState], now' \in Nat,
           OperationOK', CandidatesAreCached', MemoryLeads',
           \A i \in issued' : i.request \in Request
    PROVE  IInv'
BY DEF IInv, TypeOK, SessionOK, StateOK, PlansMatchSources, PlansMatch, PlanMatches,
       OnePlanPerRequest, OneEach

LEMMA Decompose ==
    ASSUME IInv
    PROVE  /\ SessionOK(state) /\ SessionOK(disk)
           /\ blobs \subseteq Bytes /\ file \in [Path -> FileState] /\ now \in Nat
           /\ OperationOK /\ CandidatesAreCached /\ MemoryLeads
           /\ \A i \in issued : i.request \in Request
BY DEF IInv, TypeOK, SessionOK, PlansMatchSources, OnePlanPerRequest

\* Storing a unit.
LEMMA UnitStored ==
    ASSUME NEW m, SessionOK(m), NEW u \in Unit, NEW st \in Stored,
           NEW n, n = [m EXCEPT !.units[u] = st]
    PROVE  SessionOK(n)
BY NoneAssumption DEF SessionOK, StateOK, SavedState, PlansMatch, OneEach

\* Recording an observation with its unit.
LEMMA ObservationRecorded ==
    ASSUME NEW m, SessionOK(m), NEW u \in Unit, NEW st \in Stored, NEW r \in Result,
           NEW ob \in Observation, ob.unit = u,
           NEW n, n = [m EXCEPT !.units[u] = st, !.observations[r] = ob]
    PROVE  SessionOK(n)
<1> USE DEF SessionOK, StateOK, SavedState
<1>1. /\ n.units = [m.units EXCEPT ![u] = st]
      /\ n.observations = [m.observations EXCEPT ![r] = ob]
      /\ n.pendingPlans = m.pendingPlans
      /\ n.committedPlans = m.committedPlans
      /\ n.sequence = m.sequence
  OBVIOUS
<1>2. n \in SavedState
  BY <1>1
<1>3. ASSUME NEW s \in Result, n.observations[s] # None
      PROVE  n.units[n.observations[s].unit] # None
  <2>1. CASE s = r
    BY <1>1, <2>1, NoneAssumption
  <2>2. CASE s # r
    BY <1>1, <1>3, <2>2, NoneAssumption
  <2> QED BY <2>1, <2>2
<1> QED
  BY <1>1, <1>2, <1>3 DEF PlansMatch, OneEach

\* Dropping pending plans, however many.
LEMMA PlansDropped ==
    ASSUME NEW m, SessionOK(m), NEW kept \in [Request -> PendingPlan \cup {None}],
           \A q \in Request : kept[q] = None \/ kept[q] = m.pendingPlans[q],
           NEW n, n = [m EXCEPT !.pendingPlans = kept]
    PROVE  SessionOK(n)
BY DEF SessionOK, StateOK, SavedState, PlansMatch, OneEach

\* Adding a plan for a request that has none.
LEMMA PlanAdded ==
    ASSUME NEW m, SessionOK(m), NEW q \in Request, NEW plan \in PendingPlan,
           PlanMatches(plan), m.committedPlans[q] = None,
           NEW n, n = [m EXCEPT !.pendingPlans = [m.pendingPlans EXCEPT ![q] = plan]]
    PROVE  SessionOK(n)
BY DEF SessionOK, StateOK, SavedState, PlansMatch, OneEach

\* Moving a pending plan to the committed ones.
LEMMA PlanMoved ==
    ASSUME NEW m, SessionOK(m), NEW q \in Request, NEW plan \in CommittedPlan,
           NEW n, n = [m EXCEPT !.pendingPlans[q] = None, !.committedPlans[q] = plan,
                                !.sequence = @ + 1]
    PROVE  SessionOK(n)
<1> USE DEF SessionOK, StateOK, SavedState
<1>1. /\ n.units = m.units
      /\ n.observations = m.observations
      /\ n.pendingPlans = [m.pendingPlans EXCEPT ![q] = None]
      /\ n.committedPlans = [m.committedPlans EXCEPT ![q] = plan]
      /\ n.sequence = m.sequence + 1
  OBVIOUS
<1>2. n \in SavedState
  <2>1. n.pendingPlans \in [Request -> PendingPlan \cup {None}]
    BY <1>1
  <2>2. n.committedPlans \in [Request -> CommittedPlan \cup {None}]
    BY <1>1
  <2>3. n = [observations |-> n.observations, units |-> n.units,
             pendingPlans |-> n.pendingPlans, committedPlans |-> n.committedPlans,
             sequence |-> n.sequence]
    OBVIOUS
  <2>4. /\ m.observations \in [Result -> Observation \cup {None}]
        /\ m.units \in [Unit -> Stored \cup {None}]
        /\ m.sequence \in Nat
    OBVIOUS
  <2>5. n.sequence \in Nat
    BY <1>1, <2>4
  <2> HIDE DEF StateOK
  <2> QED BY <1>1, <2>1, <2>2, <2>3, <2>4, <2>5
<1> QED
  BY <1>1, <1>2 DEF PlansMatch, OneEach

LEMMA SequenceBumped ==
    ASSUME NEW m, SessionOK(m), NEW n, n = [m EXCEPT !.sequence = @ + 1]
    PROVE  SessionOK(n)
BY DEF SessionOK, StateOK, SavedState, PlansMatch, OneEach

\* A finished operation leaves no locals to speak of.
LEMMA IdleLocals ==
    ASSUME Idle
    PROVE  OperationOK' /\ CandidatesAreCached'
BY DEF Idle, OperationOK, CandidatesAreCached

LEMMA UnexpiredType ==
    ASSUME SessionOK(state)
    PROVE  /\ Unexpired \in [Request -> PendingPlan \cup {None}]
           /\ \A q \in Request : Unexpired[q] = None \/ Unexpired[q] = state.pendingPlans[q]
BY DEF Unexpired, SessionOK, StateOK, SavedState

\* Dropping the expired plans, and saving if there were any.
LEMMA DropExpiredOK ==
    ASSUME IInv, DropExpired
    PROVE  /\ SessionOK(state') /\ SessionOK(disk')
           /\ state'.pendingPlans = Unexpired
           /\ state'.committedPlans = state.committedPlans
           /\ state'.observations = state.observations
           /\ state'.units = state.units
           /\ \A q \in Request : disk'.committedPlans[q] # None =>
                 state'.committedPlans[q] = disk'.committedPlans[q]
<1>1. SessionOK(state) /\ SessionOK(disk) /\ MemoryLeads
  BY Decompose
<1>2. SessionOK(state')
  BY <1>1, UnexpiredType, PlansDropped DEF DropExpired
<1>3. /\ state'.pendingPlans = Unexpired
      /\ state'.committedPlans = state.committedPlans
      /\ state'.observations = state.observations
      /\ state'.units = state.units
  BY <1>1 DEF DropExpired, SessionOK, StateOK, SavedState
<1>4. disk' = disk \/ disk' = state'
  BY DEF DropExpired
<1> QED
  BY <1>1, <1>2, <1>3, <1>4 DEF MemoryLeads

---------------------------------------------------------------------------
\* The steps.

LEMMA InitIInv == Init => IInv
<1> SUFFICES ASSUME Init PROVE IInv
  OBVIOUS
<1>1. StateOK(Blank)
  BY DEF Blank, StateOK, SavedState
<1>2. PlansMatch(Blank) /\ OneEach(Blank)
  BY DEF Blank, PlansMatch, OneEach
<1>3. OperationOK /\ CandidatesAreCached
  BY DEF Init, OperationOK, CandidatesAreCached
<1>4. MemoryLeads
  BY DEF Init, MemoryLeads, Blank
<1> QED
  BY <1>1, <1>2, <1>3, <1>4 DEF Init, IInv, TypeOK, PlansMatchSources, OnePlanPerRequest

\* Steps that leave both copies of the session and the operation as they are.
LEMMA StayIInv ==
    ASSUME IInv, UNCHANGED <<state, disk, pc, call, todo, cand, sources, reply>>,
           blobs' \subseteq Bytes, file' \in [Path -> FileState], now' \in Nat,
           \A i \in issued' : i.request \in Request
    PROVE  IInv'
<1>1. SessionOK(state') /\ SessionOK(disk')
  BY Decompose
<1>2. OperationOK' /\ CandidatesAreCached' /\ MemoryLeads'
  BY Decompose DEF OperationOK, CandidatesAreCached, MemoryLeads
<1> QED BY <1>1, <1>2, Compose

LEMMA ObserveNewIInv == ASSUME IInv, NEW o \in ObserveCall, ObserveNew(o) PROVE IInv'
<1> USE Decompose DEF ObserveNew, store, world, host
<1>1. SessionOK(state')
  BY SequenceBumped
<1>2. /\ state'.pendingPlans = state.pendingPlans
      /\ state'.committedPlans = state.committedPlans
      /\ state'.units = state.units
  BY DEF SessionOK, StateOK, SavedState
<1>3. OperationOK' /\ CandidatesAreCached' /\ MemoryLeads'
  BY <1>2 DEF OperationOK, CandidatesAreCached, MemoryLeads
<1> QED BY <1>1, <1>3, Compose

\* What observe records, whatever it resolved the observation to.
LEMMA RecordIInv ==
    ASSUME IInv, pc = "observe", NEW u \in Unit, NEW st \in Stored,
           Record(call, u, st), blobs' \subseteq Bytes
    PROVE  IInv'
<1> USE Decompose DEF Record, world, host
<1> DEFINE ob == [inputs |-> call, unit |-> u, observedAt |-> state.sequence]
<1>1. call \in ObserveCall /\ call.result \in Result
  BY CallAssumption DEF OperationOK
<1>2. ob \in Observation /\ ob.unit = u
  BY <1>1 DEF Observation, SessionOK, StateOK, SavedState
<1>3. state' = [state EXCEPT !.units[u] = st, !.observations[call.result] = ob]
  OBVIOUS
<1> HIDE DEF ob
<1>4. SessionOK(state')
  <2>1. SessionOK(state) /\ u \in Unit /\ st \in Stored
    OBVIOUS
  <2> QED BY ONLY <1>1, <1>2, <1>3, <2>1, ObservationRecorded
<1>5. /\ state'.pendingPlans = state.pendingPlans
      /\ state'.committedPlans = state.committedPlans
      /\ \A v \in Unit : state.units[v] # None => state'.units[v] # None
  BY <1>3, NoneAssumption DEF SessionOK, StateOK, SavedState
<1>6. reply'.kind # "plan"
  OBVIOUS
<1>7. OperationOK' /\ CandidatesAreCached' /\ MemoryLeads'
  BY <1>5, <1>6 DEF OperationOK, CandidatesAreCached, MemoryLeads
<1> QED BY <1>4, <1>7, Compose

LEMMA ObserveReadableIInv == ASSUME IInv, ObserveReadable PROVE IInv'
<1>1. PICK x \in ObservedUnits(call, file[call.path]) :
          /\ blobs' = blobs \cup {Text(x)}
          /\ Record(call, x.id, StoredUnit(x.id, Text(x)))
  BY DEF ObserveReadable
<1>2. call \in ObserveCall /\ file[call.path] \in Content
  BY Decompose, CallAssumption DEF ObserveReadable, OperationOK, FileState
<1>3. IsCandidate(x)
  BY <1>2, ObservedUnitsType
<1>4. x.id \in Unit /\ Text(x) \in Bytes
  BY <1>3, TextType DEF IsCandidate
<1>5. StoredUnit(x.id, Text(x)) \in Stored
  BY <1>4, Decompose, StoredUnitType DEF SessionOK
<1> QED
  BY <1>1, <1>4, <1>5, Decompose, RecordIInv DEF ObserveReadable

LEMMA ObserveUnreadableIInv == ASSUME IInv, ObserveUnreadable PROVE IInv'
<1> DEFINE u == FileUnit[call.path]
           sent == IF call.range = None THEN {call.text} ELSE {}
           st == [revisions |-> Revisions(u) \cup sent, referent |-> None]
<1>1. call \in ObserveCall
  BY Decompose DEF ObserveUnreadable, OperationOK
<1>2. u \in Unit /\ sent \subseteq Bytes
  BY <1>1, UnitAssumption, CallAssumption, TextAssumption DEF Bytes
<1>3. blobs' = blobs \cup sent /\ Record(call, u, st)
  BY DEF ObserveUnreadable
<1>4. st \in Stored
  BY <1>2, Decompose DEF Revisions, Stored, SessionOK, StateOK, SavedState
<1> HIDE DEF u, sent, st
<1> QED
  BY <1>2, <1>3, <1>4, Decompose, RecordIInv DEF ObserveUnreadable

\* A prepare or commit that fails on a blob, and a save that fails, end the
\* operation and leave memory and disk as they are.
LEMMA EndIInv ==
    ASSUME IInv, Idle, Untold,
           UNCHANGED <<state, blobs, now, file>>, disk' = disk \/ disk' = state
    PROVE  IInv'
<1> USE Decompose
<1>1. SessionOK(state') /\ SessionOK(disk')
  OBVIOUS
<1>2. pc' = "idle"
  BY DEF Idle
<1>3. MemoryLeads'
  BY <1>2 DEF MemoryLeads
<1>4. issued' = issued
  BY DEF Untold
<1> QED BY <1>1, <1>3, <1>4, IdleLocals, Compose

LEMMA ObserveFailsIInv == ASSUME IInv, ObserveFails PROVE IInv'
BY EndIInv DEF ObserveFails, BlobFault, store

LEMMA BuildPlanFailsIInv == ASSUME IInv, BuildPlanFails PROVE IInv'
BY EndIInv DEF BuildPlanFails, BlobFault, store

LEMMA SaveFailsIInv == ASSUME IInv, SaveFails PROVE IInv'
BY EndIInv DEF SaveFails, store

LEMMA DropExpiredFailsIInv == ASSUME IInv, DropExpiredFails PROVE IInv'
<1> USE Decompose DEF DropExpiredFails, store, locals, host
<1>1. SessionOK(state')
  BY UnexpiredType, PlansDropped
<1>2. state'.committedPlans = state.committedPlans /\ state'.units = state.units
  BY DEF SessionOK, StateOK, SavedState
<1>3. OperationOK' /\ CandidatesAreCached' /\ MemoryLeads'
  BY <1>2 DEF OperationOK, CandidatesAreCached, MemoryLeads
<1> QED BY <1>1, <1>3, Compose

LEMMA StatusIInv == ASSUME IInv, Status PROVE IInv'
<1> USE Decompose DEF Status, locals, world, host
<1>1. OperationOK' /\ CandidatesAreCached' /\ MemoryLeads'
  BY DropExpiredOK DEF OperationOK, CandidatesAreCached, MemoryLeads
<1> QED BY <1>1, DropExpiredOK, Compose

LEMMA PrepareAgainIInv ==
    ASSUME IInv, NEW k \in PrepareCall, PrepareAgain(k) PROVE IInv'
<1> USE Decompose DEF PrepareAgain, locals, world
<1>1. OperationOK' /\ CandidatesAreCached' /\ MemoryLeads'
  BY DropExpiredOK DEF OperationOK, CandidatesAreCached, MemoryLeads
<1>2. \A i \in issued' : i.request \in Request
  BY CallAssumption DEF PlanId
<1> QED BY <1>1, <1>2, DropExpiredOK, Compose

LEMMA PrepareNewIInv ==
    ASSUME IInv, NEW k \in PrepareCall, PrepareNew(k) PROVE IInv'
<1> USE Decompose DEF PrepareNew, world
<1>1. todo' \subseteq {u \in Unit : state'.units[u] # None}
  BY DropExpiredOK, CallAssumption
     DEF SessionOK, StateOK, SavedState, Observation
<1>2. OperationOK' /\ CandidatesAreCached'
  BY <1>1 DEF OperationOK, CandidatesAreCached
<1>3. MemoryLeads'
  BY DropExpiredOK DEF MemoryLeads
<1> QED BY <1>2, <1>3, DropExpiredOK, Compose

LEMMA RefreshFoundIInv ==
    ASSUME IInv, pc = "prepare", NEW u \in todo, RefreshFound(u) PROVE IInv'
<1> USE Decompose DEF Refreshed, world, host
<1>1. u \in Unit
  BY DEF OperationOK
<1>2. PICK x \in Located(u) : Refreshed(u, x, StoredUnit(u, Text(x)))
  BY DEF RefreshFound
<1>3. TypeOK
  BY DEF IInv
<1>4. IsCandidate(x) /\ x.id = u /\ x.path = UnitPath[u] /\ x.source = Snapshot(UnitPath[u])
  BY <1>1, <1>2, <1>3, LocatedType
<1>5. Text(x) \in Bytes /\ StoredUnit(u, Text(x)) \in Stored
  BY <1>1, <1>4, TextType, StoredUnitType DEF SessionOK
<1>6. SessionOK(state')
  BY <1>1, <1>2, <1>5, UnitStored
<1>7. /\ state'.pendingPlans = state.pendingPlans
      /\ state'.committedPlans = state.committedPlans
      /\ \A v \in Unit : state.units[v] # None => state'.units[v] # None
  BY <1>1, <1>2, <1>5, NoneAssumption DEF SessionOK, StateOK, SavedState
<1>8. /\ IsCandidate(Widened(x))
      /\ Widened(x).path = x.path /\ Widened(x).source = x.source
  BY <1>4, WidenedType
<1>9. OperationOK'
  BY <1>2, <1>4, <1>7, <1>8 DEF OperationOK, IsCandidate
<1>10. CandidatesAreCached'
  <2>1. sources' = [sources EXCEPT ![x.path] = x.source]
        /\ cand' = cand \cup {Widened(x)} /\ x.path \in Path
    BY <1>2, <1>4 DEF IsCandidate
  <2>2. ASSUME NEW y \in cand PROVE y.source = sources'[y.path]
    <3>1. y.source = sources[y.path] /\ y.source # None /\ y.path \in Path
      BY TextAssumption DEF CandidatesAreCached, OperationOK, IsCandidate
    <3>2. CASE y.path = x.path
      <4>1. x.source = sources[y.path]
        BY <1>4, <3>1, <3>2 DEF Snapshot
      <4> QED BY <2>1, <3>1, <3>2, <4>1 DEF OperationOK
    <3>3. CASE y.path # x.path
      BY <2>1, <3>1, <3>3 DEF OperationOK
    <3> QED BY <3>2, <3>3
  <2>3. Widened(x).source = sources'[Widened(x).path]
    BY <1>8, <2>1 DEF OperationOK
  <2> QED BY <2>1, <2>2, <2>3 DEF CandidatesAreCached
<1>11. MemoryLeads'
  BY <1>2, <1>7 DEF MemoryLeads
<1>12. blobs' \subseteq Bytes /\ SessionOK(disk')
  BY <1>2, <1>5
<1>13. file' \in [Path -> FileState] /\ now' \in Nat /\ \A i \in issued' : i.request \in Request
  BY <1>2
<1> QED BY <1>6, <1>9, <1>10, <1>11, <1>12, <1>13, Compose

\* A unit that stays unresolved only adds a snapshot to the cache.
LEMMA UnresolvedIInv ==
    ASSUME IInv, NEW u \in todo, Unresolved(u), UNCHANGED <<file, now>>
    PROVE  IInv'
<1> USE Decompose DEF Unresolved, store, host
<1> DEFINE p == UnitPath[u]
<1>1. p \in Path
  BY UnitAssumption DEF OperationOK
<1>2. sources' \in [Path -> Content \cup {None}]
  BY <1>1 DEF Snapshot, OperationOK, FileState
<1>3. ASSUME NEW y \in cand PROVE y.source = sources'[y.path]
  <2>1. y.source = sources[y.path] /\ y.source \in Content /\ y.path \in Path
    BY DEF CandidatesAreCached, OperationOK, IsCandidate
  <2>2. y.source # None /\ y.source # Unreadable
    BY <2>1, TextAssumption, UnreadableAssumption
  <2> QED BY <1>1, <2>1, <2>2 DEF Snapshot, OperationOK
<1>4. CandidatesAreCached'
  BY <1>3 DEF CandidatesAreCached
<1>5. OperationOK' /\ MemoryLeads'
  BY <1>2 DEF OperationOK, MemoryLeads
<1> QED BY <1>4, <1>5, Compose

LEMMA RefreshFailsIInv ==
    ASSUME IInv, NEW u \in Unit, RefreshFails(u) PROVE IInv'
<1> USE Decompose DEF RefreshFails, store
<1>1. PICK x \in Located(u) :
          /\ BlobFault(Text(x), blobs)
          /\ state' = IF IsFallback(u)
                      THEN [state EXCEPT !.units[u] = StoredUnit(u, Text(x))] ELSE state
  OBVIOUS
<1>2. StoredUnit(u, Text(x)) \in Stored
  BY <1>1, LocatedType, TextType, StoredUnitType DEF IInv, SessionOK
<1>3. SessionOK(state')
  BY <1>1, <1>2, UnitStored
<1>4. state'.committedPlans = state.committedPlans
  BY <1>1 DEF SessionOK, StateOK, SavedState
<1>5. pc' = "idle"
  BY DEF Idle
<1>6. MemoryLeads'
  BY <1>4, <1>5 DEF MemoryLeads
<1>7. file' = file /\ now' = now /\ issued' = issued
  BY <1>1 DEF BlobFault, Untold
<1> QED BY <1>3, <1>6, <1>7, IdleLocals, Compose

\* boundPending only drops.
LEMMA BoundedType ==
    ASSUME NEW plans \in [Request -> PendingPlan \cup {None}], NEW kept \in Bounded(plans)
    PROVE  /\ kept \in [Request -> PendingPlan \cup {None}]
           /\ \A q \in Request : kept[q] = None \/ kept[q] = plans[q]
BY DEF Bounded

LEMMA BuildPlanIInv == ASSUME IInv, BuildPlan PROVE IInv'
<1> USE Decompose DEF BuildPlan, world, host
<1> DEFINE q == call.request
<1>1. PICK sel \in SUBSET cand :
          /\ \E kept \in Bounded([state.pendingPlans EXCEPT ![q] = NewPlan(sel)]) :
                state' = [state EXCEPT !.pendingPlans = kept]
          /\ reply' = [kind |-> "plan", of |-> PlanId(q, NewPlan(sel))]
  OBVIOUS
<1>2. q \in Request /\ state.committedPlans[q] = None
  BY CallAssumption DEF OperationOK, MemoryLeads
<1>3. NewPlan(sel) \in PendingPlan /\ PlanMatches(NewPlan(sel))
  BY NewPlanType
<1> DEFINE plans == [state.pendingPlans EXCEPT ![q] = NewPlan(sel)]
           mid == [state EXCEPT !.pendingPlans = plans]
<1>4. PICK kept \in Bounded(plans) : state' = [state EXCEPT !.pendingPlans = kept]
  BY <1>1
<1>5. plans \in [Request -> PendingPlan \cup {None}]
  BY <1>2, <1>3 DEF SessionOK, StateOK, SavedState
<1> HIDE DEF plans
<1>6. SessionOK(mid)
  BY <1>2, <1>3, PlanAdded DEF plans
<1>7. mid.pendingPlans = plans /\ state' = [mid EXCEPT !.pendingPlans = kept]
  BY <1>4 DEF SessionOK, StateOK, SavedState
<1> HIDE DEF mid, q
<1>8. SessionOK(state')
  BY ONLY <1>4, <1>5, <1>6, <1>7, BoundedType, PlansDropped
<1>9. state'.units = state.units /\ state'.committedPlans = state.committedPlans
  BY <1>4 DEF SessionOK, StateOK, SavedState
<1>10. reply'.of.request \in Request
  BY <1>1, <1>2 DEF PlanId
<1>11. OperationOK' /\ CandidatesAreCached' /\ MemoryLeads'
  BY <1>9, <1>10 DEF OperationOK, CandidatesAreCached, MemoryLeads
<1> QED BY <1>8, <1>11, Compose

LEMMA CommitIInv == ASSUME IInv, NEW i \in issued, Commit(i) PROVE IInv'
<1> USE Decompose DEF Commit, store, world
<1>1. OperationOK' /\ CandidatesAreCached' /\ MemoryLeads'
  BY DEF OperationOK, CandidatesAreCached, MemoryLeads, Holds
<1> QED BY <1>1, Compose

LEMMA RecheckIInv == ASSUME IInv, NEW p \in Path, Recheck(p) PROVE IInv'
BY StayIInv, Decompose DEF Recheck, store, world, host

LEMMA RejectIInv == ASSUME IInv, NEW p \in Path, Reject(p) PROVE IInv'
<1> USE Decompose DEF Reject, store, world, host
<1> DEFINE kept == [state.pendingPlans EXCEPT ![call.request] = None]
<1>1. kept \in [Request -> PendingPlan \cup {None}]
  BY DEF SessionOK, StateOK, SavedState
<1>2. state' = [state EXCEPT !.pendingPlans = kept]
  BY DEF SessionOK, StateOK, SavedState
<1>3. \A q \in Request : kept[q] = None \/ kept[q] = state.pendingPlans[q]
  BY DEF SessionOK, StateOK, SavedState
<1> HIDE DEF kept
<1>4. SessionOK(state')
  BY <1>1, <1>2, <1>3, PlansDropped
<1>5. state'.units = state.units /\ state'.committedPlans = state.committedPlans
  BY <1>2 DEF SessionOK, StateOK, SavedState
<1>6. OperationOK' /\ CandidatesAreCached' /\ MemoryLeads'
  BY <1>5 DEF OperationOK, CandidatesAreCached, MemoryLeads
<1> QED BY <1>4, <1>6, Compose

LEMMA ApplyIInv == ASSUME IInv, Apply PROVE IInv'
<1> USE Decompose DEF Apply, store, world, host
<1> DEFINE q == call.request
           plan == [inputs |-> state.pendingPlans[q].inputs,
                    frames |-> state.pendingPlans[q].frames,
                    committedAt |-> state.sequence + 1]
<1>1. q \in Request /\ state.pendingPlans[q] # None
  BY DEF OperationOK
<1>2. state.pendingPlans[q] \in PendingPlan /\ state.sequence \in Nat
  BY <1>1 DEF SessionOK, StateOK, SavedState
<1>3. plan \in CommittedPlan
  BY <1>2 DEF PendingPlan, CommittedPlan
<1>4. state' = [state EXCEPT !.pendingPlans[q] = None, !.committedPlans[q] = plan,
                             !.sequence = @ + 1]
  OBVIOUS
<1> HIDE DEF plan, q
<1>5. SessionOK(state')
  <2>1. SessionOK(state)
    OBVIOUS
  <2> QED BY ONLY <1>1, <1>3, <1>4, <2>1, PlanMoved
<1>6. /\ state'.units = state.units
      /\ \A r \in Request \ {q} : state'.committedPlans[r] = state.committedPlans[r]
  <2>1. state \in SavedState
    BY DEF SessionOK, StateOK
  <2>2. /\ state'.units = state.units
        /\ state'.committedPlans = [state.committedPlans EXCEPT ![q] = plan]
    BY ONLY <1>4, <2>1 DEF SavedState
  <2>3. state.committedPlans \in [Request -> CommittedPlan \cup {None}]
    BY ONLY <2>1 DEF SavedState
  <2> QED BY ONLY <2>2, <2>3
<1>7. disk.committedPlans[q] = None
  <2>1. state.committedPlans[q] = None
    BY <1>1 DEF SessionOK, OneEach
  <2> QED BY <1>1, <2>1 DEF MemoryLeads
<1>8. OperationOK' /\ CandidatesAreCached' /\ MemoryLeads'
  BY <1>6, <1>7 DEF OperationOK, CandidatesAreCached, MemoryLeads
<1> QED BY <1>5, <1>8, Compose

LEMMA SaveIInv == ASSUME IInv, Save PROVE IInv'
<1> USE Decompose DEF Save, world
<1>1. pc' = "idle"
  BY DEF Idle
<1>2. MemoryLeads'
  BY <1>1 DEF MemoryLeads
<1>3. \A i \in issued' : i.request \in Request
  BY DEF Told, OperationOK
<1> QED BY <1>2, <1>3, IdleLocals, Compose

LEMMA RestartIInv == ASSUME IInv, Restart PROVE IInv'
<1> USE Decompose DEF Restart, world
<1>1. SessionOK(state') /\ SessionOK(disk') /\ state' = disk'
  OBVIOUS
<1>2. pc' = "idle" /\ issued' = issued
  BY DEF Idle, Untold
<1>3. MemoryLeads'
  BY <1>1, <1>2 DEF MemoryLeads
<1> QED BY <1>1, <1>2, <1>3, IdleLocals, Compose

LEMMA EditIInv == ASSUME IInv, NEW p \in Path, NEW f \in FileState, Edit(p, f) PROVE IInv'
BY StayIInv, Decompose DEF Edit, Untold, store, locals

LEMMA NextIInv == IInv /\ [Next]_vars => IInv'
<1> SUFFICES ASSUME IInv, [Next]_vars PROVE IInv'
  OBVIOUS
<1>1. CASE Server
  <2>1. CASE \E u \in Unit : Refresh(u)
    BY <2>1, RefreshFoundIInv, UnresolvedIInv DEF Refresh, RefreshMisses, world
  <2> QED
    BY <1>1, <2>1, ObserveReadableIInv, ObserveUnreadableIInv, BuildPlanIInv,
       RecheckIInv, RejectIInv, ApplyIInv, SaveIInv DEF Server
<1>2. CASE Host
  <2>1. ASSUME NEW o \in ObserveCall, ObserveAgain(o) PROVE IInv'
    BY <2>1, StayIInv, Decompose DEF ObserveAgain, store, locals, world
  <2>2. ASSUME NEW i \in issued, CommitAgain(i) PROVE IInv'
    BY <2>2, StayIInv, Decompose DEF CommitAgain, store, locals, world
  <2> QED
    BY <1>2, <2>1, <2>2, ObserveNewIInv, PrepareNewIInv, PrepareAgainIInv, CommitIInv,
       StatusIInv DEF Host
<1>3. CASE Fault
  <2>1. ASSUME NEW u \in Unit, RegionRefreshFails(u) PROVE IInv'
    BY <2>1, UnresolvedIInv DEF RegionRefreshFails, BlobFault
  <2> QED
    BY <1>3, <2>1, ObserveFailsIInv, RefreshFailsIInv, BuildPlanFailsIInv, SaveFailsIInv,
       DropExpiredFailsIInv, RestartIInv DEF Fault
<1>4. CASE World
  <2>1. ASSUME Tick PROVE IInv'
    <3>1. now' \in Nat
      BY <2>1, Decompose DEF Tick
    <3> QED BY <2>1, <3>1, StayIInv, Decompose DEF Tick, store, locals, host
  <2> QED BY <1>4, <2>1, EditIInv DEF World
<1>5. CASE UNCHANGED vars
  BY <1>5, StayIInv, Decompose DEF vars, store, locals, world, host
<1> QED BY <1>1, <1>2, <1>3, <1>4, <1>5 DEF Next

---------------------------------------------------------------------------
\* The theorems.

LEMMA Invariance == Spec => []IInv
BY InitIInv, NextIInv, PTL DEF Spec

\* Memory and disk keep the shape of a valid session through every operation,
\* fault, edit and restart.
THEOREM SessionTypes == Spec => []TypeOK
<1>1. IInv => TypeOK
  BY DEF IInv
<1> QED BY <1>1, Invariance, PTL

\* What a pending plan shows is what commit will check, whatever edits fell
\* between the reads of the prepare that made it.
THEOREM PlansAlwaysMatchSources == Spec => []PlansMatchSources
<1>1. IInv => PlansMatchSources
  BY DEF IInv
<1> QED BY <1>1, Invariance, PTL

\* No request is ever both pending and committed.
THEOREM RequestsAreSettledOnce == Spec => []OnePlanPerRequest
<1>1. IInv => OnePlanPerRequest
  BY DEF IInv
<1> QED BY <1>1, Invariance, PTL

\* A saved commit record is final, with failing saves and crashes allowed.
THEOREM CommitsAreFinal == Spec => CommittedForever
<1>1. IInv /\ [Next]_vars =>
         \/ UNCHANGED disk
         \/ \A q \in Request : disk.committedPlans[q] # None =>
               disk'.committedPlans[q] = disk.committedPlans[q]
  <2> SUFFICES ASSUME IInv, [Next]_vars, disk' # disk
               PROVE  \A q \in Request : disk.committedPlans[q] # None =>
                        disk'.committedPlans[q] = disk.committedPlans[q]
    OBVIOUS
  <2>1. disk' = state \/ (DropExpired /\ disk' = state')
    BY DEF Next, Server, Host, Fault, World, vars, store, Save, Restart, Status, PrepareAgain,
       PrepareNew, DropExpired, ObserveNew, ObserveAgain, ObserveReadable, ObserveUnreadable,
       Record, ObserveFails, DropExpiredFails, Refresh, RefreshFound, RefreshMisses, Refreshed,
       Unresolved, RegionRefreshFails, RefreshFails, BuildPlan, BuildPlanFails, CommitAgain,
       Commit, Recheck, Reject, Apply, SaveFails, Edit, Tick
  <2>2. CASE disk' = state
    BY <2>2, Decompose DEF MemoryLeads
  <2>3. CASE DropExpired /\ disk' = state'
    BY <2>3, Decompose, DropExpiredOK DEF MemoryLeads
  <2> QED BY <2>1, <2>2, <2>3
<1> QED BY <1>1, Invariance, PTL DEF Spec, CommittedForever

---------------------------------------------------------------------------
\* What the steps change of the session in memory.

LEMMA RecordFields ==
    ASSUME IInv, pc = "observe", NEW u, NEW st, Record(call, u, st)
    PROVE  /\ call.result \in Result
           /\ state'.observations =
                 [state.observations EXCEPT ![call.result] =
                     [inputs |-> call, unit |-> u, observedAt |-> state.sequence]]
           /\ state'.units = [state.units EXCEPT ![u] = st]
           /\ state'.pendingPlans = state.pendingPlans
           /\ state'.committedPlans = state.committedPlans
           /\ state'.sequence = state.sequence
<1>1. state \in SavedState
  BY Decompose DEF SessionOK, StateOK
<1>2. call.result \in Result
  BY Decompose, CallAssumption DEF OperationOK
<1> QED BY <1>1, <1>2 DEF Record, SavedState

LEMMA ExpiredFields ==
    ASSUME IInv, state' = [state EXCEPT !.pendingPlans = Unexpired]
    PROVE  /\ state'.pendingPlans = Unexpired
           /\ state'.observations = state.observations
           /\ state'.units = state.units
           /\ state'.committedPlans = state.committedPlans
           /\ state'.sequence = state.sequence
BY Decompose DEF SessionOK, StateOK, SavedState

LEMMA StoredFields ==
    ASSUME IInv, NEW u, NEW st, state' = [state EXCEPT !.units[u] = st]
    PROVE  /\ state'.units = [state.units EXCEPT ![u] = st]
           /\ state'.observations = state.observations
           /\ state'.pendingPlans = state.pendingPlans
           /\ state'.committedPlans = state.committedPlans
           /\ state'.sequence = state.sequence
BY Decompose DEF SessionOK, StateOK, SavedState

LEMMA BuildFields ==
    ASSUME IInv, BuildPlan
    PROVE  \E sel \in SUBSET cand :
              /\ state'.pendingPlans \in
                    Bounded([state.pendingPlans EXCEPT ![call.request] = NewPlan(sel)])
              /\ projections' = projections \cup {ProjectionText(Frames(sel))}
              /\ reply' = [kind |-> "plan", of |-> PlanId(call.request, NewPlan(sel))]
              /\ state'.observations = state.observations
              /\ state'.units = state.units
              /\ state'.committedPlans = state.committedPlans
              /\ state'.sequence = state.sequence
<1>1. state \in SavedState
  BY Decompose DEF SessionOK, StateOK
<1> QED BY <1>1 DEF BuildPlan, SavedState

LEMMA RejectFields ==
    ASSUME IInv, NEW p, Reject(p)
    PROVE  /\ call.request \in Request
           /\ state'.pendingPlans = [state.pendingPlans EXCEPT ![call.request] = None]
           /\ state'.observations = state.observations
           /\ state'.units = state.units
           /\ state'.committedPlans = state.committedPlans
           /\ state'.sequence = state.sequence
<1>1. state \in SavedState
  BY Decompose DEF SessionOK, StateOK
<1>2. call.request \in Request
  BY Decompose DEF OperationOK, Reject
<1> QED BY <1>1, <1>2 DEF Reject, SavedState

LEMMA ApplyFields ==
    ASSUME IInv, Apply
    PROVE  LET q == call.request IN
           /\ q \in Request /\ state.pendingPlans[q] # None
           /\ state'.pendingPlans = [state.pendingPlans EXCEPT ![q] = None]
           /\ state'.committedPlans =
                 [state.committedPlans EXCEPT ![q] =
                     [inputs |-> state.pendingPlans[q].inputs,
                      frames |-> state.pendingPlans[q].frames,
                      committedAt |-> state.sequence + 1]]
           /\ state'.observations = state.observations
           /\ state'.units = state.units
           /\ state'.sequence = state.sequence + 1
<1>1. state \in SavedState
  BY Decompose DEF SessionOK, StateOK
<1>2. call.request \in Request /\ state.pendingPlans[call.request] # None
  BY Decompose DEF OperationOK, Apply
<1> QED BY <1>1, <1>2 DEF Apply, SavedState

LEMMA ObserveNewFields ==
    ASSUME IInv, NEW o, ObserveNew(o)
    PROVE  /\ state'.sequence = state.sequence + 1
           /\ state'.observations = state.observations
           /\ state'.units = state.units
           /\ state'.pendingPlans = state.pendingPlans
           /\ state'.committedPlans = state.committedPlans
BY Decompose DEF ObserveNew, SessionOK, StateOK, SavedState

---------------------------------------------------------------------------
\* How an operation moves: which step starts a prepare, ends in a save or
\* writes the disk, and what the host is told.

LEMMA PrepareEntered ==
    ASSUME [Next]_vars, pc' = "prepare"
    PROVE  \/ pc = "prepare" /\ UNCHANGED <<call, rejected>>
           \/ \E k \in PrepareCall : PrepareNew(k)
BY DEF Next, Server, Host, Fault, World, vars, Save, Status, PrepareAgain, ObserveNew,
       ObserveAgain, ObserveReadable, ObserveUnreadable, Record, ObserveFails,
       DropExpiredFails, Refresh, RefreshFound, RefreshMisses, Refreshed, Unresolved,
       RegionRefreshFails, RefreshFails, BuildPlan, BuildPlanFails, CommitAgain, Commit,
       Recheck, Reject, Apply, SaveFails, Restart, Edit, Tick, Idle, Untold, locals, host

LEMMA ObserveEntered ==
    ASSUME [Next]_vars, pc' = "observe"
    PROVE  \/ pc = "observe" /\ UNCHANGED <<state, call>>
           \/ \E o \in ObserveCall : ObserveNew(o)
BY DEF Next, Server, Host, Fault, World, vars, Save, Status, PrepareAgain, PrepareNew,
       ObserveAgain, ObserveReadable, ObserveUnreadable, Record, ObserveFails,
       DropExpiredFails, Refresh, RefreshFound, RefreshMisses, Refreshed, Unresolved,
       RegionRefreshFails, RefreshFails, BuildPlan, BuildPlanFails, CommitAgain, Commit,
       Recheck, Reject, Apply, SaveFails, Restart, Edit, Tick, Idle, locals

LEMMA CommitEntered ==
    ASSUME [Next]_vars, pc' = "commit"
    PROVE  \/ pc = "commit" /\ UNCHANGED <<state, call>>
           \/ \E i \in issued : Commit(i)
BY DEF Next, Server, Host, Fault, World, vars, Save, Status, PrepareAgain, PrepareNew,
       ObserveNew, ObserveAgain, ObserveReadable, ObserveUnreadable, Record, ObserveFails,
       DropExpiredFails, Refresh, RefreshFound, RefreshMisses, Refreshed, Unresolved,
       RegionRefreshFails, RefreshFails, BuildPlan, BuildPlanFails, CommitAgain,
       Recheck, Reject, Apply, SaveFails, Restart, Edit, Tick, Idle, locals

LEMMA SaveEntered ==
    ASSUME [Next]_vars, pc' = "save"
    PROVE  \/ pc = "save" /\ UNCHANGED <<state, disk, reply, saveFaults>>
                /\ (during' = during \/ \E p \in Path, f \in FileState : Edit(p, f))
           \/ ObserveReadable \/ ObserveUnreadable \/ BuildPlan \/ Apply
           \/ \E p \in Path : Reject(p)
BY DEF Next, Server, Host, Fault, World, vars, Save, Status, PrepareAgain, PrepareNew,
       ObserveNew, ObserveAgain, ObserveFails, DropExpiredFails, Refresh, RefreshFound,
       RefreshMisses, Refreshed, Unresolved, RegionRefreshFails, RefreshFails,
       BuildPlanFails, CommitAgain, Commit, Recheck, SaveFails, Restart, Edit, Tick, Idle,
       Untold, locals, store, world, host

\* The answers a save may be about to release.
LEMMA ReplyKinds ==
    /\ BuildPlan => reply'.kind = "plan" /\ pc' = "save"
    /\ ObserveReadable \/ ObserveUnreadable =>
          reply' = [kind |-> "observed", of |-> call] /\ pc' = "save"
    /\ Apply => reply' = [kind |-> "applied", of |-> call] /\ pc' = "save"
    /\ \A p \in Path : Reject(p) => reply' = [kind |-> "stale", of |-> call] /\ pc' = "save"
<1>1. BuildPlan => reply'.kind = "plan" /\ pc' = "save"
  <2>1. BuildPlan => (\E i : reply' = [kind |-> "plan", of |-> i]) /\ pc' = "save"
    BY DEF BuildPlan
  <2> QED BY <2>1
<1>2. ASSUME NEW u, NEW st, Record(call, u, st)
      PROVE  reply' = [kind |-> "observed", of |-> call] /\ pc' = "save"
  BY <1>2 DEF Record
<1>3. ObserveReadable \/ ObserveUnreadable => \E u, st : Record(call, u, st)
  BY DEF ObserveReadable, ObserveUnreadable
<1>4. Apply => reply' = [kind |-> "applied", of |-> call] /\ pc' = "save"
  BY DEF Apply
<1>5. \A p \in Path : Reject(p) => reply' = [kind |-> "stale", of |-> call] /\ pc' = "save"
  BY DEF Reject
<1> QED BY <1>1, <1>2, <1>3, <1>4, <1>5

LEMMA DiskWritten ==
    ASSUME [Next]_vars
    PROVE  \/ disk' = disk
           \/ (Save \/ Restart) /\ disk' = state
           \/ DropExpired /\ disk' = state' /\ pc = "idle"
BY DEF Next, Server, Host, Fault, World, vars, Save, Status, PrepareAgain, PrepareNew,
       ObserveNew, ObserveAgain, ObserveReadable, ObserveUnreadable, Record, ObserveFails,
       DropExpired, DropExpiredFails, Refresh, RefreshFound, RefreshMisses, Refreshed,
       Unresolved, RegionRefreshFails, RefreshFails, BuildPlan, BuildPlanFails, CommitAgain,
       Commit, Recheck, Reject, Apply, SaveFails, Restart, Edit, Tick, store

LEMMA HostTold ==
    ASSUME [Next]_vars
    PROVE  \/ Save
           \/ /\ rejected' \subseteq rejected
              /\ observed' = observed \/ \E o \in ObserveCall : ObserveAgain(o)
              /\ applied' = applied \/ \E i \in issued : CommitAgain(i)
BY DEF Next, Server, Host, Fault, World, vars, Status, PrepareAgain, PrepareNew,
       ObserveNew, ObserveAgain, ObserveReadable, ObserveUnreadable, Record, ObserveFails,
       DropExpiredFails, Refresh, RefreshFound, RefreshMisses, Refreshed,
       Unresolved, RegionRefreshFails, RefreshFails, BuildPlan, BuildPlanFails, CommitAgain,
       Commit, Recheck, Reject, Apply, SaveFails, Restart, Edit, Tick, Idle, Untold, host

\* What a step does to the session in memory.
LEMMA MemoryMoves ==
    ASSUME IInv, [Next]_vars
    PROVE  \/ state' = state
           \/ \E o \in ObserveCall : ObserveNew(o)
           \/ \E u, st : pc = "observe" /\ Record(call, u, st)
           \/ /\ DropExpired \/ DropExpiredFails
              /\ state' = [state EXCEPT !.pendingPlans = Unexpired]
           \/ \E u, st : pc = "prepare" /\ state' = [state EXCEPT !.units[u] = st]
           \/ BuildPlan \/ Apply
           \/ \E p \in Path : Reject(p)
           \/ Restart /\ state' = disk /\ disk' = disk
BY DEF Next, Server, Host, Fault, World, vars, Save, Status, PrepareAgain, PrepareNew,
       ObserveAgain, ObserveReadable, ObserveUnreadable, ObserveFails,
       DropExpired, DropExpiredFails, Refresh, RefreshFound, RefreshMisses, Refreshed,
       Unresolved, RegionRefreshFails, RefreshFails, BuildPlanFails, CommitAgain,
       Commit, Recheck, SaveFails, Restart, Edit, Tick

\* What a step leaves of the pending plans in memory: some of those that were
\* there, or the saved ones, or the bounded plans of a prepare.
LEMMA PendingMoves ==
    ASSUME IInv, [Next]_vars
    PROVE  \/ BuildPlan
           \/ Restart /\ state' = disk /\ disk' = disk
           \/ \A q \in Request : state'.pendingPlans[q] \in {None, state.pendingPlans[q]}
<1>1. CASE \E u, st : pc = "observe" /\ Record(call, u, st)
  BY <1>1, RecordFields
<1>2. CASE state' = [state EXCEPT !.pendingPlans = Unexpired]
  BY <1>2, ExpiredFields, UnexpiredType, Decompose
<1>3. CASE \E u, st : state' = [state EXCEPT !.units[u] = st]
  BY <1>3, StoredFields
<1>4. CASE Apply
  BY <1>4, ApplyFields, Decompose DEF SessionOK, StateOK, SavedState
<1>5. CASE \E p \in Path : Reject(p)
  BY <1>5, RejectFields, Decompose DEF SessionOK, StateOK, SavedState
<1>6. CASE \E o \in ObserveCall : ObserveNew(o)
  BY <1>6, ObserveNewFields
<1> QED BY <1>1, <1>2, <1>3, <1>4, <1>5, <1>6, MemoryMoves

\* The plan of a prepare, and boundPending's choice.
LEMMA BuildPending ==
    ASSUME IInv, BuildPlan
    PROVE  \E sel \in SUBSET cand :
              /\ call.request \in Request
              /\ NewPlan(sel) \in PendingPlan
              /\ state'.pendingPlans \in
                    Bounded([state.pendingPlans EXCEPT ![call.request] = NewPlan(sel)])
              /\ [state.pendingPlans EXCEPT ![call.request] = NewPlan(sel)]
                    \in [Request -> PendingPlan \cup {None}]
              /\ \A q \in Request \ {call.request} :
                    state'.pendingPlans[q] \in {None, state.pendingPlans[q]}
<1>1. PICK sel \in SUBSET cand :
         state'.pendingPlans \in
             Bounded([state.pendingPlans EXCEPT ![call.request] = NewPlan(sel)])
  BY BuildFields
<1>2. call.request \in Request /\ NewPlan(sel) \in PendingPlan
  BY NewPlanType, Decompose, CallAssumption DEF OperationOK, BuildPlan
<1>3. [state.pendingPlans EXCEPT ![call.request] = NewPlan(sel)]
            \in [Request -> PendingPlan \cup {None}]
  BY <1>2, Decompose DEF SessionOK, StateOK, SavedState
<1>4. \A q \in Request : \/ state'.pendingPlans[q] = None
                        \/ state'.pendingPlans[q] =
                              [state.pendingPlans EXCEPT ![call.request] = NewPlan(sel)][q]
  BY <1>1, <1>3, BoundedType
<1>5. \A q \in Request \ {call.request} :
         state'.pendingPlans[q] \in {None, state.pendingPlans[q]}
  BY <1>4, Decompose DEF SessionOK, StateOK, SavedState
<1> QED BY <1>1, <1>2, <1>3, <1>5

LEMMA CommittedMoves ==
    ASSUME IInv, [Next]_vars
    PROVE  \/ state'.committedPlans = state.committedPlans
           \/ Apply
           \/ Restart /\ state' = disk /\ disk' = disk
BY MemoryMoves, ObserveNewFields, RecordFields, ExpiredFields, StoredFields, BuildFields,
   RejectFields

LEMMA ObservationMoves ==
    ASSUME IInv, [Next]_vars
    PROVE  \/ state'.observations = state.observations
           \/ \E u, st : pc = "observe" /\ Record(call, u, st)
           \/ Restart /\ state' = disk /\ disk' = disk
BY MemoryMoves, ObserveNewFields, ExpiredFields, StoredFields, BuildFields, RejectFields,
   ApplyFields

---------------------------------------------------------------------------
\* Built from and applied against texts the files held meanwhile.

\* While a prepare or commit runs, its record of the files includes what they
\* hold now; the snapshots a prepare has cached and the references a commit
\* has checked are in that record.
Witnessed ==
    /\ during \in [Path -> SUBSET FileState]
    /\ pc \in {"prepare", "commit"} => \A p \in Path : file[p] \in during[p]
    /\ pc = "prepare" => \A p \in Path : sources[p] # None => sources[p] \in during[p]
    /\ pc \in {"idle", "observe", "commit"} => \A p \in Path : sources[p] = None
    /\ pc = "commit" =>
          LET refs == state.pendingPlans[call.request].references
          IN /\ unchecked \subseteq DOMAIN refs
             /\ \A p \in DOMAIN refs \ unchecked : refs[p] \in during[p]

LEMMA InitWitnessed == Init => Witnessed
BY DEF Init, Witnessed

LEMMA IdleWitnessed == ASSUME Idle PROVE Witnessed'
BY DEF Idle, Witnessed

\* Steps outside the operation in flight.
LEMMA StayWitnessed ==
    ASSUME Witnessed, UNCHANGED <<pc, call, sources, unchecked, file, during>>,
           pc = "commit" => state'.pendingPlans = state.pendingPlans
    PROVE  Witnessed'
BY DEF Witnessed

\* A refreshed or unresolved unit caches at most its path's snapshot.
LEMMA CachedWitnessed ==
    ASSUME Witnessed, TypeOK, pc = "prepare", NEW u \in Unit, NEW c,
           c \in {None, Snapshot(UnitPath[u])},
           sources' = [sources EXCEPT ![UnitPath[u]] = c],
           UNCHANGED <<pc, file, during>>
    PROVE  Witnessed'
<1>1. UnitPath[u] \in Path
  BY UnitAssumption
<1>2. sources \in [Path -> Content \cup {None}]
  BY DEF TypeOK, OperationOK
<1>3. ASSUME NEW p \in Path, sources'[p] # None PROVE sources'[p] \in during[p]
  <2>1. CASE p = UnitPath[u]
    <3>1. sources'[p] = Snapshot(p)
      BY <1>1, <1>2, <1>3, <2>1
    <3> QED BY <3>1 DEF Snapshot, Witnessed
  <2>2. CASE p # UnitPath[u]
    BY <1>2, <1>3, <2>2 DEF Witnessed
  <2> QED BY <2>1, <2>2
<1> QED BY <1>3 DEF Witnessed

LEMMA UnresolvedWitnessed ==
    ASSUME Witnessed, TypeOK, pc = "prepare", NEW u \in Unit, Unresolved(u), file' = file
    PROVE  Witnessed'
BY CachedWitnessed DEF Unresolved, host

LEMMA NextWitnessed == ASSUME IInv, Witnessed, [Next]_vars PROVE Witnessed'
<1>t. TypeOK
  BY DEF IInv
<1>1. CASE Server
  <2>1. CASE ObserveReadable \/ ObserveUnreadable \/ BuildPlan \/ Apply
                \/ (\E p \in Path : Reject(p))
    <3>1. pc' = "save"
      BY <2>1 DEF ObserveReadable, ObserveUnreadable, Record, BuildPlan, Apply, Reject
    <3>2. during' = during
      BY <2>1 DEF ObserveReadable, ObserveUnreadable, Record, BuildPlan, Apply, Reject, host
    <3> QED BY <3>1, <3>2 DEF Witnessed
  <2>2. ASSUME NEW u \in Unit, Refresh(u) PROVE Witnessed'
    <3>1. CASE RefreshFound(u)
      <4>1. PICK x \in Located(u) : Refreshed(u, x, StoredUnit(u, Text(x)))
        BY <3>1 DEF RefreshFound
      <4>2. x.path = UnitPath[u] /\ x.source = Snapshot(UnitPath[u])
        BY <1>t, LocatedType
      <4> QED BY <1>t, <2>2, <4>1, <4>2, CachedWitnessed DEF Refresh, Refreshed, world, host
    <3>2. CASE RefreshMisses(u)
      BY <1>t, <2>2, <3>2, UnresolvedWitnessed DEF Refresh, RefreshMisses, world
    <3> QED BY <2>2, <3>1, <3>2 DEF Refresh
  <2>3. ASSUME NEW p \in Path, Recheck(p) PROVE Witnessed'
    BY <2>3 DEF Recheck, Witnessed, world, host
  <2>4. CASE Save
    BY <2>4, IdleWitnessed DEF Save
  <2> QED BY <1>1, <2>1, <2>2, <2>3, <2>4 DEF Server
<1>2. CASE Host
  <2>1. ASSUME NEW o \in ObserveCall, ObserveNew(o) PROVE Witnessed'
    BY <2>1 DEF ObserveNew, Witnessed, world, host
  <2>2. ASSUME NEW k \in PrepareCall, PrepareNew(k) PROVE Witnessed'
    BY <1>t, <2>2 DEF PrepareNew, Witnessed, TypeOK, world
  <2>3. ASSUME NEW i \in issued, Commit(i) PROVE Witnessed'
    BY <1>t, <2>3 DEF Commit, Witnessed, TypeOK, world
  <2>4. CASE Status \/ (\E o \in ObserveCall : ObserveAgain(o))
               \/ (\E k \in PrepareCall : PrepareAgain(k)) \/ (\E i \in issued : CommitAgain(i))
    BY <2>4, StayWitnessed
       DEF Status, ObserveAgain, PrepareAgain, CommitAgain, locals, world, host
  <2> QED BY <1>2, <2>1, <2>2, <2>3, <2>4 DEF Host
<1>3. CASE Fault
  <2>1. ASSUME NEW u \in Unit, RegionRefreshFails(u) PROVE Witnessed'
    BY <1>t, <2>1, UnresolvedWitnessed DEF RegionRefreshFails, BlobFault
  <2>2. CASE DropExpiredFails
    BY <2>2, StayWitnessed DEF DropExpiredFails, locals, host
  <2> QED BY <1>3, <2>1, <2>2, IdleWitnessed
          DEF Fault, ObserveFails, RefreshFails, BuildPlanFails, SaveFails, Restart
<1>4. CASE World
  <2>1. ASSUME NEW p \in Path, NEW f \in FileState, Edit(p, f) PROVE Witnessed'
    <3>1. /\ file' = [file EXCEPT ![p] = f]
          /\ during' = IF pc \in {"prepare", "commit"}
                       THEN [during EXCEPT ![p] = @ \cup {f}] ELSE during
          /\ UNCHANGED <<state, pc, call, sources, unchecked>>
      BY <2>1 DEF Edit, locals
    <3>2. during' \in [Path -> SUBSET FileState]
      BY <3>1 DEF Witnessed
    <3>3. \A r \in Path : during[r] \subseteq during'[r]
      BY <3>1 DEF Witnessed
    <3>4. pc \in {"prepare", "commit"} => \A r \in Path : file'[r] \in during'[r]
      BY <1>t, <3>1 DEF Witnessed, TypeOK
    <3>5. pc = "commit" =>
             LET refs == state.pendingPlans[call.request].references
             IN DOMAIN refs \subseteq Path
      BY Decompose DEF OperationOK, SessionOK, StateOK, SavedState, PendingPlan, ReferenceMap
    <3> QED BY <3>1, <3>2, <3>3, <3>4, <3>5 DEF Witnessed
  <2>2. CASE Tick
    BY <2>2, StayWitnessed DEF Tick, locals, host
  <2> QED BY <1>4, <2>1, <2>2 DEF World
<1>5. CASE UNCHANGED vars
  BY <1>5, StayWitnessed DEF vars, locals, world, host
<1> QED BY <1>1, <1>2, <1>3, <1>4, <1>5 DEF Next

LEMMA WitnessedAlways == Spec => [](IInv /\ Witnessed)
<1>1. IInv /\ Witnessed /\ [Next]_vars => (IInv /\ Witnessed)'
  BY NextIInv, NextWitnessed
<1>2. Init => IInv /\ Witnessed
  BY InitIInv, InitWitnessed
<1> QED BY <1>1, <1>2, PTL DEF Spec

\* Only a commit that checked everything makes a plan a committed one.
LEMMA OnlyApplyCommits ==
    ASSUME IInv, [Next]_vars, NEW q \in Request,
           state'.committedPlans[q] \notin {None, state.committedPlans[q]}
    PROVE  Apply
<1>1. CASE state' = disk
  BY <1>1, Decompose DEF MemoryLeads
<1> QED BY <1>1, CommittedMoves

\* Whatever edits fall between a commit's reads, a plan is applied only if each
\* of its files did hold the plan's revision while that commit ran.
THEOREM PlansApplyToCurrentFiles == Spec => AppliedAgainstCurrent
<1>1. IInv /\ Witnessed /\ [Next]_vars =>
         \/ UNCHANGED state
         \/ pc = "commit"
              /\ (\E q \in Request : state'.committedPlans[q] \notin {None, state.committedPlans[q]})
            => \A p \in DOMAIN state.pendingPlans[call.request].references :
                  state.pendingPlans[call.request].references[p] \in during[p]
  BY OnlyApplyCommits DEF Apply, Witnessed
<1> QED BY <1>1, WitnessedAlways, PTL DEF Spec, AppliedAgainstCurrent

\* A prepare builds its plan from texts the files held since it began, however
\* its reads interleave with edits, failed reads and failed writes.
THEOREM PlansShowCurrentFiles == Spec => PreparedFromCurrent
<1>1. IInv /\ Witnessed /\ [Next]_vars =>
         \/ UNCHANGED <<state, pc>>
         \/ pc = "prepare" /\ pc' = "save" => \A q \in Request :
               state'.pendingPlans[q] # None /\ state'.pendingPlans[q] # state.pendingPlans[q] =>
                   \A p \in DOMAIN state'.pendingPlans[q].references :
                       state'.pendingPlans[q].references[p] \in during[p]
  <2> SUFFICES ASSUME IInv, Witnessed, [Next]_vars, pc = "prepare", pc' = "save",
                      NEW q \in Request, state'.pendingPlans[q] # None,
                      state'.pendingPlans[q] # state.pendingPlans[q],
                      NEW p \in DOMAIN state'.pendingPlans[q].references
               PROVE  state'.pendingPlans[q].references[p] \in during[p]
    OBVIOUS
  <2>1. BuildPlan
    BY DEF Next, Server, Host, Fault, World, vars, Save, Status, PrepareAgain, PrepareNew,
           ObserveNew, ObserveAgain, ObserveReadable, ObserveUnreadable, Record, ObserveFails,
           DropExpiredFails, Refresh, RefreshFound, RefreshMisses, Refreshed, Unresolved,
           RegionRefreshFails, RefreshFails, BuildPlanFails, CommitAgain, Commit, Recheck,
           Reject, Apply, SaveFails, Restart, Edit, Tick, Idle, locals
  <2>2. PICK sel \in SUBSET cand :
           /\ call.request \in Request
           /\ [state.pendingPlans EXCEPT ![call.request] = NewPlan(sel)]
                  \in [Request -> PendingPlan \cup {None}]
           /\ state'.pendingPlans \in
                 Bounded([state.pendingPlans EXCEPT ![call.request] = NewPlan(sel)])
    BY <2>1, BuildPending
  <2>3. state'.pendingPlans[q] = [state.pendingPlans EXCEPT ![call.request] = NewPlan(sel)][q]
    BY <2>2, BoundedType
  <2>4. state'.pendingPlans[q] = NewPlan(sel)
    BY <2>2, <2>3, Decompose DEF SessionOK, StateOK, SavedState
  <2>5. PICK x \in sel : x.path = p /\ state'.pendingPlans[q].references[p] = x.source
    <3>1. state'.pendingPlans[q].references = References(sel)
      BY <2>4 DEF NewPlan
    <3>2. p \in {x.path : x \in sel}
      BY <3>1 DEF References
    <3>3. References(sel)[p] = (CHOOSE x \in sel : x.path = p).source
      BY <3>2 DEF References
    <3>4. (CHOOSE x \in sel : x.path = p) \in sel /\ (CHOOSE x \in sel : x.path = p).path = p
      BY <3>2
    <3> QED BY <3>1, <3>3, <3>4
  <2>6. IsCandidate(x) /\ x.source = sources[x.path]
    BY Decompose DEF OperationOK, CandidatesAreCached
  <2>7. sources[p] # None
    BY <2>5, <2>6, TextAssumption DEF IsCandidate
  <2> QED BY <2>5, <2>6, <2>7 DEF IsCandidate, Witnessed
<1> QED BY <1>1, WitnessedAlways, PTL DEF Spec, PreparedFromCurrent

---------------------------------------------------------------------------
\* A plan reported stale stays forgotten.

NeitherIn(m, q) == m.pendingPlans[q] = None /\ m.committedPlans[q] = None

\* No plan of a rejected request is left in memory or on disk, one under way is
\* for another request, and a plan about to be reported stale is dropped.
Settled ==
    /\ \A i \in rejected : /\ i.request \in Request
                           /\ NeitherIn(state, i.request) /\ NeitherIn(disk, i.request)
    /\ pc = "prepare" => \A i \in rejected : i.request # call.request
    /\ pc = "save" /\ reply.kind = "stale" =>
          reply.of.request \in Request /\ NeitherIn(state, reply.of.request)

\* Only the end of its prepare brings a plan into memory.
LEMMA StillNeither ==
    ASSUME IInv, [Next]_vars, NEW q \in Request, NeitherIn(state, q), NeitherIn(disk, q),
           pc = "prepare" => q # call.request
    PROVE  NeitherIn(state', q) /\ NeitherIn(disk', q)
<1>1. state'.pendingPlans[q] = None
  <2>1. CASE BuildPlan
    <3>1. q # call.request
      BY <2>1 DEF BuildPlan
    <3> QED BY <2>1, <3>1, BuildPending DEF NeitherIn
  <2> QED BY <2>1, PendingMoves DEF NeitherIn
<1>2. state'.committedPlans[q] = None
  <2>1. CASE Apply
    BY <2>1, ApplyFields, Decompose DEF NeitherIn, SessionOK, StateOK, SavedState
  <2> QED BY <2>1, CommittedMoves DEF NeitherIn
<1> QED BY <1>1, <1>2, DiskWritten DEF NeitherIn

LEMMA InitSettled == Init => Settled
BY DEF Init, Settled

LEMMA NextSettled == ASSUME IInv, Settled, [Next]_vars PROVE Settled'
<1>1. \A i \in rejected' : /\ i.request \in Request
                          /\ NeitherIn(state', i.request) /\ NeitherIn(disk', i.request)
  <2>1. CASE rejected' \subseteq rejected
    BY <2>1, StillNeither DEF Settled
  <2>2. CASE Save
    <3>1. /\ state' = state /\ disk' = state
          /\ rejected' = IF reply.kind = "stale" THEN rejected \cup {reply.of} ELSE rejected
          /\ pc = "save"
      BY <2>2 DEF Save, Told
    <3> QED BY <3>1 DEF Settled
  <2> QED BY <2>1, <2>2, HostTold
<1>2. pc' = "prepare" => \A i \in rejected' : i.request # call'.request
  BY PrepareEntered DEF Settled, PrepareNew
<1>3. ASSUME pc' = "save", reply'.kind = "stale"
      PROVE  reply'.of.request \in Request /\ NeitherIn(state', reply'.of.request)
  <2>1. CASE \E p \in Path : Reject(p)
    <3>1. /\ call.request \in Request
          /\ state'.pendingPlans = [state.pendingPlans EXCEPT ![call.request] = None]
          /\ state'.committedPlans = state.committedPlans
      BY <2>1, RejectFields
    <3>2. state.pendingPlans[call.request] # None /\ reply'.of = call
      BY <2>1, Decompose DEF Reject, OperationOK
    <3>3. state.committedPlans[call.request] = None
      BY <3>1, <3>2, Decompose DEF SessionOK, OneEach
    <3> QED BY <3>1, <3>2, <3>3, Decompose DEF NeitherIn, SessionOK, StateOK, SavedState
  <2>2. ~(ObserveReadable \/ ObserveUnreadable \/ BuildPlan \/ Apply)
    BY <1>3, ReplyKinds
  <2> QED BY <1>3, <2>1, <2>2, SaveEntered DEF Settled
<1> QED BY <1>1, <1>2, <1>3 DEF Settled, NeitherIn

\* A plan the host was told is stale cannot be applied, in memory or after a
\* restart, until the host prepares its request again.
THEOREM RejectionsStand == Spec => []RejectedStaysRejected
<1>1. IInv /\ Settled /\ [Next]_vars => (IInv /\ Settled)'
  BY NextIInv, NextSettled
<1>2. Init => IInv /\ Settled
  BY InitIInv, InitSettled
<1>3. Settled => RejectedStaysRejected
  BY DEF Settled, RejectedStaysRejected, NeitherIn, Forgotten, Holds
<1> QED BY <1>1, <1>2, <1>3, PTL DEF Spec

---------------------------------------------------------------------------
\* No sequence number is used twice.

\* The number an observe has reserved is above all that are used.
Reserved ==
    pc = "observe" =>
        /\ \A r \in Result : state.observations[r] # None =>
              state.observations[r].observedAt < state.sequence
        /\ \A q \in Request : state.committedPlans[q] # None =>
              state.committedPlans[q].committedAt < state.sequence

LEMMA Numbers ==
    ASSUME NEW m, SessionOK(m)
    PROVE  /\ m.sequence \in Nat
           /\ \A r \in Result : m.observations[r] # None => m.observations[r].observedAt \in Nat
           /\ \A q \in Request : m.committedPlans[q] # None => m.committedPlans[q].committedAt \in Nat
BY DEF SessionOK, StateOK, SavedState, Observation, CommittedPlan

\* Nothing is numbered, and the counter may have moved on.
LEMMA NothingNumbered ==
    ASSUME NEW m, NEW n, SessionOK(m), SequenceUnique(m),
           n.observations = m.observations, n.committedPlans = m.committedPlans,
           n.sequence \in {m.sequence, m.sequence + 1}
    PROVE  SequenceUnique(n)
BY Numbers DEF SequenceUnique

\* An observation takes the reserved number.
LEMMA ObservationNumbered ==
    ASSUME NEW m, NEW n, SessionOK(m), SequenceUnique(m), NEW r \in Result, NEW ob,
           ob.observedAt = m.sequence,
           \A s \in Result : m.observations[s] # None => m.observations[s].observedAt < m.sequence,
           \A q \in Request : m.committedPlans[q] # None =>
               m.committedPlans[q].committedAt < m.sequence,
           n.observations = [m.observations EXCEPT ![r] = ob],
           n.committedPlans = m.committedPlans, n.sequence = m.sequence
    PROVE  SequenceUnique(n)
<1>1. \A s \in Result : n.observations[s] = IF s = r THEN ob ELSE m.observations[s]
  BY DEF SessionOK, StateOK, SavedState
<1> QED BY <1>1, Numbers DEF SequenceUnique

\* A commit takes the next number.
LEMMA CommitNumbered ==
    ASSUME NEW m, NEW n, SessionOK(m), SequenceUnique(m), NEW q \in Request, NEW plan,
           plan.committedAt = m.sequence + 1,
           n.committedPlans = [m.committedPlans EXCEPT ![q] = plan],
           n.observations = m.observations, n.sequence = m.sequence + 1
    PROVE  SequenceUnique(n)
<1>1. \A s \in Request : n.committedPlans[s] = IF s = q THEN plan ELSE m.committedPlans[s]
  BY DEF SessionOK, StateOK, SavedState
<1> QED BY <1>1, Numbers DEF SequenceUnique

LEMMA InitNumbered == Init => SequenceIsUnique /\ Reserved
BY DEF Init, Blank, SequenceIsUnique, SequenceUnique, Reserved

LEMMA NextNumbered ==
    ASSUME IInv, SequenceIsUnique, Reserved, [Next]_vars
    PROVE  SequenceIsUnique' /\ Reserved'
<1>u. SequenceUnique(state) /\ SequenceUnique(disk) /\ SessionOK(state) /\ SessionOK(disk)
  BY Decompose DEF SequenceIsUnique
<1>1. SequenceUnique(state')
  <2>1. CASE \E o \in ObserveCall : ObserveNew(o)
    BY <1>u, <2>1, ObserveNewFields, NothingNumbered
  <2>2. CASE \E u, st : pc = "observe" /\ Record(call, u, st)
    <3>1. PICK u, st : pc = "observe" /\ Record(call, u, st)
      BY <2>2
    <3> DEFINE ob == [inputs |-> call, unit |-> u, observedAt |-> state.sequence]
    <3>2. /\ call.result \in Result
          /\ state'.observations = [state.observations EXCEPT ![call.result] = ob]
          /\ state'.committedPlans = state.committedPlans
          /\ state'.sequence = state.sequence
      BY <3>1, RecordFields
    <3>3. ob.observedAt = state.sequence
      OBVIOUS
    <3> HIDE DEF ob
    <3> QED BY <1>u, <3>1, <3>2, <3>3, ObservationNumbered DEF Reserved
  <2>3. CASE Apply
    <3> DEFINE q == call.request
               plan == [inputs |-> state.pendingPlans[q].inputs,
                        frames |-> state.pendingPlans[q].frames,
                        committedAt |-> state.sequence + 1]
    <3>1. /\ q \in Request
          /\ state'.committedPlans = [state.committedPlans EXCEPT ![q] = plan]
          /\ state'.observations = state.observations
          /\ state'.sequence = state.sequence + 1
      BY <2>3, ApplyFields
    <3>2. plan.committedAt = state.sequence + 1
      OBVIOUS
    <3> HIDE DEF plan, q
    <3> QED BY <1>u, <3>1, <3>2, CommitNumbered
  <2>4. CASE \/ state' = [state EXCEPT !.pendingPlans = Unexpired]
             \/ \E u, st : state' = [state EXCEPT !.units[u] = st]
             \/ BuildPlan \/ \E p \in Path : Reject(p)
    BY <1>u, <2>4, ExpiredFields, StoredFields, BuildFields, RejectFields, NothingNumbered
  <2> QED BY <1>u, <2>1, <2>2, <2>3, <2>4, MemoryMoves
<1>2. SequenceUnique(disk')
  BY <1>u, <1>1, DiskWritten
<1>3. ASSUME pc' = "observe" PROVE Reserved'
  <2>1. (pc = "observe" /\ state' = state) \/ \E o \in ObserveCall : ObserveNew(o)
    BY <1>3, ObserveEntered
  <2>2. CASE \E o \in ObserveCall : ObserveNew(o)
    BY <1>u, <2>2, ObserveNewFields, Numbers DEF SequenceUnique, Reserved
  <2> QED BY <2>1, <2>2 DEF Reserved
<1> QED BY <1>1, <1>2, <1>3 DEF SequenceIsUnique, Reserved, SequenceUnique

\* Recency is a strict order on observations and commits, in memory and on disk,
\* although failures and restarts may give a number back or skip one.
THEOREM NumbersAreUnique == Spec => []SequenceIsUnique
<1>1. IInv /\ SequenceIsUnique /\ Reserved /\ [Next]_vars
         => (IInv /\ SequenceIsUnique /\ Reserved)'
  BY NextIInv, NextNumbered
<1>2. Init => IInv /\ SequenceIsUnique /\ Reserved
  BY InitIInv, InitNumbered
<1> QED BY <1>1, <1>2, PTL DEF Spec

---------------------------------------------------------------------------
\* The limit on pending plans.

Limited(m) == IsFiniteSet(PendingIn(m)) /\ Cardinality(PendingIn(m)) <= MaxPending

LEMMA FewerPending ==
    ASSUME NEW m, NEW n, Limited(m),
           \A q \in Request : n.pendingPlans[q] \in {None, m.pendingPlans[q]}
    PROVE  Limited(n)
<1>1. PendingIn(n) \subseteq PendingIn(m)
  BY DEF PendingIn
<1>2. /\ IsFiniteSet(PendingIn(n)) /\ Cardinality(PendingIn(n)) \in Nat
      /\ Cardinality(PendingIn(n)) <= Cardinality(PendingIn(m))
      /\ Cardinality(PendingIn(m)) \in Nat
  BY <1>1, FS_Subset, FS_CardinalityType DEF Limited
<1> QED BY <1>2, BoundAssumption DEF Limited

\* What boundPending keeps of one plan too many, and what it drops.
LEMMA BoundedCount ==
    ASSUME NEW plans \in [Request -> PendingPlan \cup {None}], NEW kept \in Bounded(plans),
           IsFiniteSet({q \in Request : plans[q] # None}),
           Cardinality({q \in Request : plans[q] # None}) <= MaxPending + 1
    PROVE  /\ IsFiniteSet({q \in Request : kept[q] # None})
           /\ Cardinality({q \in Request : kept[q] # None}) <= MaxPending
           /\ \/ kept = plans
              \/ \E o \in Request :
                    /\ \A r \in Request \ {o} : kept[r] = plans[r]
                    /\ kept[o] = None
                    /\ Cardinality({q \in Request : kept[q] # None}) = MaxPending
                    /\ \A r \in Request : kept[r] # None =>
                          plans[o].preparedAt <= kept[r].preparedAt
<1> DEFINE pending == {q \in Request : plans[q] # None}
           left == {q \in Request : kept[q] # None}
<1>1. Cardinality(pending) \in Nat /\ MaxPending \in Nat
  BY FS_CardinalityType, BoundAssumption
<1>2. CASE Cardinality(pending) <= MaxPending
  BY <1>2 DEF Bounded
<1>3. CASE Cardinality(pending) > MaxPending
  <2>1. PICK o \in pending : /\ \A r \in pending : plans[o].preparedAt <= plans[r].preparedAt
                            /\ kept = [plans EXCEPT ![o] = None]
    BY <1>1, <1>3 DEF Bounded
  <2>2. left = pending \ {o}
    BY <2>1
  <2>3. IsFiniteSet(left) /\ Cardinality(left) = Cardinality(pending) - 1
    BY <2>2, FS_RemoveElement
  <2>4. Cardinality(left) = MaxPending
    BY <1>1, <1>3, <2>3
  <2>5. \A r \in Request \ {o} : kept[r] = plans[r]
    BY <2>1
  <2>6. kept[o] = None
    BY <2>1
  <2>7. \A r \in Request : kept[r] # None => plans[o].preparedAt <= kept[r].preparedAt
    BY <2>1, <2>5, <2>6
  <2>8. Cardinality(left) <= MaxPending
    BY <1>1, <2>4
  <2> HIDE DEF pending
  <2>9. o \in Request
    BY DEF pending
  <2> QED BY <2>3, <2>4, <2>5, <2>6, <2>7, <2>8, <2>9
<1> QED BY <1>1, <1>2, <1>3

\* One plan more, before boundPending.
LEMMA OneMore ==
    ASSUME NEW q \in Request, NEW plan \in PendingPlan, SessionOK(state), Limited(state)
    PROVE  LET plans == [state.pendingPlans EXCEPT ![q] = plan]
               S == {r \in Request : plans[r] # None}
           IN IsFiniteSet(S) /\ Cardinality(S) <= MaxPending + 1
<1> DEFINE plans == [state.pendingPlans EXCEPT ![q] = plan]
           S == {r \in Request : plans[r] # None}
<1>1. S = PendingIn(state) \cup {q}
  BY NoneAssumption DEF PendingIn, SessionOK, StateOK, SavedState
<1>2. /\ IsFiniteSet(PendingIn(state) \cup {q})
      /\ \/ Cardinality(PendingIn(state) \cup {q}) = Cardinality(PendingIn(state))
         \/ Cardinality(PendingIn(state) \cup {q}) = Cardinality(PendingIn(state)) + 1
  BY FS_AddElement DEF Limited
<1>3. Cardinality(PendingIn(state)) \in Nat
  BY FS_CardinalityType DEF Limited
<1> HIDE DEF S
<1>4. IsFiniteSet(S) /\ Cardinality(S) <= MaxPending + 1
  BY <1>1, <1>2, <1>3, BoundAssumption DEF Limited
<1> QED BY <1>4 DEF S

LEMMA InitLimited == Init => Limited(state) /\ Limited(disk)
<1> SUFFICES ASSUME Init PROVE Limited(state) /\ Limited(disk)
  OBVIOUS
<1>1. PendingIn(state) = {} /\ PendingIn(disk) = {}
  BY DEF Init, Blank, PendingIn
<1> QED BY <1>1, FS_EmptySet, BoundAssumption DEF Limited

LEMMA NextLimited ==
    ASSUME IInv, Limited(state), Limited(disk), [Next]_vars
    PROVE  Limited(state') /\ Limited(disk')
<1>1. Limited(state')
  <2>1. CASE BuildPlan
    <3>1. PICK sel \in SUBSET cand :
              /\ call.request \in Request /\ NewPlan(sel) \in PendingPlan
              /\ state'.pendingPlans \in
                    Bounded([state.pendingPlans EXCEPT ![call.request] = NewPlan(sel)])
              /\ [state.pendingPlans EXCEPT ![call.request] = NewPlan(sel)]
                    \in [Request -> PendingPlan \cup {None}]
      BY <2>1, BuildPending
    <3> DEFINE plans == [state.pendingPlans EXCEPT ![call.request] = NewPlan(sel)]
               S == {q \in Request : plans[q] # None}
    <3>2. SessionOK(state)
      BY Decompose
    <3>3. IsFiniteSet(S) /\ Cardinality(S) <= MaxPending + 1
      BY <3>1, <3>2, OneMore
    <3>4. plans \in [Request -> PendingPlan \cup {None}] /\ state'.pendingPlans \in Bounded(plans)
      BY <3>1
    <3> HIDE DEF plans
    <3>5. /\ IsFiniteSet({q \in Request : state'.pendingPlans[q] # None})
          /\ Cardinality({q \in Request : state'.pendingPlans[q] # None}) <= MaxPending
      BY <3>3, <3>4, BoundedCount
    <3> QED BY <3>5 DEF Limited, PendingIn
  <2>2. CASE \A q \in Request : state'.pendingPlans[q] \in {None, state.pendingPlans[q]}
    BY <2>2, FewerPending
  <2>3. CASE state' = disk
    BY <2>3
  <2> QED BY <2>1, <2>2, <2>3, PendingMoves
<1> QED BY <1>1, DiskWritten

\* However plans are prepared, dropped, reloaded and prepared again, no more
\* than the limit are pending.
THEOREM PendingIsBounded == Spec => []PendingBounded
<1>1. IInv /\ Limited(state) /\ Limited(disk) /\ [Next]_vars
         => (IInv /\ Limited(state) /\ Limited(disk))'
  <2>1. IInv /\ Limited(state) /\ Limited(disk) /\ [Next]_vars
         => IInv' /\ Limited(state') /\ Limited(disk')
    BY NextIInv, NextLimited
  <2> QED BY <2>1 DEF Limited, PendingIn
<1>2. Init => IInv /\ Limited(state) /\ Limited(disk)
  BY InitIInv, InitLimited
<1>3. Limited(state) /\ Limited(disk) => PendingBounded
  BY DEF Limited, PendingBounded
<1> QED BY <1>1, <1>2, <1>3, PTL DEF Spec

---------------------------------------------------------------------------
\* The archive holds what the session lists.

\* Archived, with the archive and the faults so far as arguments.
HoleIn(u, text, faults) ==
    /\ faults > 0
    /\ UnitKind[u] = "symbol" /\ text \in Content /\ Spans[u][text] = {}

ArchivedIn(m, b, r, faults) ==
    /\ \A u \in Unit : m.units[u] # None =>
          \A text \in m.units[u].revisions : text \in b \/ HoleIn(u, text, faults)
    /\ \A q \in Request :
          /\ m.pendingPlans[q] # None => ProjectionText(m.pendingPlans[q].frames) \in r
          /\ m.committedPlans[q] # None => ProjectionText(m.committedPlans[q].frames) \in r

Kept == /\ blobFaults \in Nat
        /\ ArchivedIn(state, blobs, projections, blobFaults)
        /\ ArchivedIn(disk, blobs, projections, blobFaults)

LEMMA KeptIsComplete == Kept => ArchiveComplete
BY DEF Kept, ArchivedIn, HoleIn, ArchiveComplete, Archived, Hole

\* Nothing leaves the archive, and a fault is remembered.
LEMMA ArchiveGrows ==
    ASSUME [Next]_vars, blobFaults \in Nat
    PROVE  /\ blobs \subseteq blobs' /\ projections \subseteq projections'
           /\ blobFaults' \in Nat /\ blobFaults' >= blobFaults
<1>1. CASE ObserveFails \/ BuildPlanFails
           \/ \E u \in Unit : RefreshFails(u) \/ RegionRefreshFails(u)
  <2>1. blobFaults' = blobFaults + 1 /\ UNCHANGED <<blobs, projections>>
    BY <1>1 DEF ObserveFails, BuildPlanFails, RefreshFails, RegionRefreshFails, Unresolved,
                BlobFault, store
  <2> QED BY <2>1
<1>2. CASE ~(ObserveFails \/ BuildPlanFails
             \/ \E u \in Unit : RefreshFails(u) \/ RegionRefreshFails(u))
  <2>1. blobFaults' = blobFaults
    BY <1>2 DEF Next, Server, Host, Fault, World, vars, Save, Status, PrepareAgain,
           PrepareNew, ObserveNew, ObserveAgain, ObserveReadable, ObserveUnreadable, Record,
           DropExpiredFails, Refresh, RefreshFound, RefreshMisses, Refreshed, BuildPlan,
           CommitAgain, Commit, Recheck, Reject, Apply, SaveFails, Restart, Edit, Tick, world
  <2>2. blobs \subseteq blobs'
    BY <1>2 DEF Next, Server, Host, Fault, World, vars, Save, Status, PrepareAgain,
           PrepareNew, ObserveNew, ObserveAgain, ObserveReadable, ObserveUnreadable,
           DropExpiredFails, Refresh, RefreshFound, RefreshMisses, Refreshed, Unresolved,
           BuildPlan, CommitAgain, Commit, Recheck, Reject, Apply, SaveFails, Restart, Edit,
           Tick, store
  <2>3. projections \subseteq projections'
    BY <1>2 DEF Next, Server, Host, Fault, World, vars, Save, Status, PrepareAgain,
           PrepareNew, ObserveNew, ObserveAgain, ObserveReadable, ObserveUnreadable, Record,
           DropExpiredFails, Refresh, RefreshFound, RefreshMisses, Refreshed, Unresolved,
           BuildPlan, CommitAgain, Commit, Recheck, Reject, Apply, SaveFails, Restart, Edit,
           Tick, store
  <2> QED BY <1>2, <2>1, <2>2, <2>3
<1> QED BY <1>1, <1>2

\* A whole file's text is its source.
LEMMA WholeText ==
    ASSUME NEW u \in Unit, NEW c \in Content, NEW t
    PROVE  Text(Whole(u, c, t)) = c
<1>1. c \in Seq(Nat) /\ Len(c) \in Nat
  BY TextAssumption, LenProperties
<1>2. SubSeq(c, 1, Len(c)) = c
  BY <1>1, SubSeqFull
<1> QED BY <1>2 DEF Text, Whole, Slice

\* A symbol that fell back is stored with a text it is gone from.
LEMMA FallbackText ==
    ASSUME TypeOK, NEW u \in Unit, IsFallback(u), NEW x \in Located(u)
    PROVE  /\ UnitKind[u] = "symbol" /\ Text(x) \in Content
           /\ Spans[u][Text(x)] = {}
<1> DEFINE c == Snapshot(UnitPath[u])
<1>1. c \in Content
  BY UnitAssumption DEF Located, TypeOK, OperationOK, FileState, Snapshot
<1>2. x = Whole(u, c, ObservedAt(u))
  BY DEF Located, IsFallback
<1>3. Text(x) = c
  BY <1>1, <1>2, WholeText
<1> QED BY <1>1, <1>3 DEF IsFallback

\* A step stores a unit with revisions it was known by, that it archives, or
\* that a fallback fails to archive.
LEMMA UnitMoves ==
    ASSUME IInv, [Next]_vars, blobFaults \in Nat
    PROVE  \/ state'.units = state.units
           \/ \E u \in Unit : \E st :
                 /\ state'.units = [state.units EXCEPT ![u] = st]
                 /\ \A text \in st.revisions :
                       \/ text \in Revisions(u) \cup blobs'
                       \/ HoleIn(u, text, blobFaults')
           \/ state' = disk
<1>1. CASE ObserveReadable
  <2>1. PICK x \in ObservedUnits(call, file[call.path]) :
            /\ blobs' = blobs \cup {Text(x)}
            /\ Record(call, x.id, StoredUnit(x.id, Text(x)))
    BY <1>1 DEF ObserveReadable
  <2>2. x.id \in Unit
    BY <1>1, ObservedUnitsType, Decompose, CallAssumption
       DEF ObserveReadable, OperationOK, IsCandidate, FileState
  <2>3. StoredUnit(x.id, Text(x)).revisions \subseteq Revisions(x.id) \cup blobs'
    BY <2>1 DEF StoredUnit
  <2>4. state'.units = [state.units EXCEPT ![x.id] = StoredUnit(x.id, Text(x))]
    BY <1>1, <2>1, RecordFields DEF ObserveReadable
  <2> QED BY <2>2, <2>3, <2>4
<1>2. CASE ObserveUnreadable
  <2> DEFINE u == FileUnit[call.path]
             sent == IF call.range = None THEN {call.text} ELSE {}
             st == [revisions |-> Revisions(u) \cup sent, referent |-> None]
  <2>1. u \in Unit
    BY <1>2, Decompose, UnitAssumption, CallAssumption DEF ObserveUnreadable, OperationOK
  <2>2. blobs' = blobs \cup sent /\ Record(call, u, st)
    BY <1>2 DEF ObserveUnreadable
  <2>3. st.revisions \subseteq Revisions(u) \cup blobs'
    <3>1. st.revisions = Revisions(u) \cup sent
      OBVIOUS
    <3> QED BY <2>2, <3>1
  <2> HIDE DEF u, st, sent
  <2>4. pc = "observe"
    BY <1>2 DEF ObserveUnreadable
  <2>5. state'.units = [state.units EXCEPT ![u] = st]
    BY <2>2, <2>4, RecordFields
  <2> QED BY <2>1, <2>3, <2>5
<1>3. ASSUME NEW u \in Unit, Refresh(u), RefreshFound(u)
      PROVE  \E st : /\ state'.units = [state.units EXCEPT ![u] = st]
                     /\ st.revisions \subseteq Revisions(u) \cup blobs'
  <2>1. PICK x \in Located(u) : Refreshed(u, x, StoredUnit(u, Text(x)))
    BY <1>3 DEF RefreshFound
  <2>2. StoredUnit(u, Text(x)).revisions \subseteq Revisions(u) \cup blobs'
    BY <2>1 DEF Refreshed, StoredUnit
  <2> QED BY <2>1, <2>2, StoredFields DEF Refreshed
<1>4. CASE \E o \in ObserveCall : ObserveNew(o)
  BY <1>4, ObserveNewFields
<1>5. CASE state' = [state EXCEPT !.pendingPlans = Unexpired]
  BY <1>5, ExpiredFields
<1>6. CASE BuildPlan \/ Apply \/ \E p \in Path : Reject(p)
  BY <1>6, BuildFields, ApplyFields, RejectFields
<1>7. ASSUME NEW u \in Unit, RefreshFails(u), ~IsFallback(u)
      PROVE  state' = state
  BY <1>7 DEF RefreshFails
<1>8. ASSUME NEW u \in Unit, RefreshFails(u), IsFallback(u)
      PROVE  \E st : /\ state'.units = [state.units EXCEPT ![u] = st]
                     /\ \A text \in st.revisions :
                           \/ text \in Revisions(u) \cup blobs'
                           \/ HoleIn(u, text, blobFaults')
  <2>1. PICK x \in Located(u) :
            /\ BlobFault(Text(x), blobs)
            /\ state' = [state EXCEPT !.units[u] = StoredUnit(u, Text(x))]
    BY <1>8 DEF RefreshFails
  <2>2. HoleIn(u, Text(x), blobFaults')
    BY <1>8, <2>1, FallbackText DEF HoleIn, BlobFault, IInv
  <2>3. \A text \in StoredUnit(u, Text(x)).revisions :
           text \in Revisions(u) \/ text = Text(x)
    BY DEF StoredUnit
  <2>4. state'.units = [state.units EXCEPT ![u] = StoredUnit(u, Text(x))]
    BY <2>1, StoredFields
  <2> QED BY <2>2, <2>3, <2>4
<1>9. \/ state' = state
      \/ \E o \in ObserveCall : ObserveNew(o)
      \/ ObserveReadable \/ ObserveUnreadable
      \/ state' = [state EXCEPT !.pendingPlans = Unexpired]
      \/ \E u \in Unit : RefreshFails(u) \/ (Refresh(u) /\ RefreshFound(u))
      \/ BuildPlan \/ Apply
      \/ \E p \in Path : Reject(p)
      \/ state' = disk
  BY DEF Next, Server, Host, Fault, World, vars, Save, Status, PrepareAgain, PrepareNew,
         ObserveAgain, ObserveFails, DropExpired, DropExpiredFails, Refresh, RefreshMisses,
         Unresolved, RegionRefreshFails, BuildPlanFails, CommitAgain, Commit, Recheck,
         SaveFails, Restart, Edit, Tick
<1> QED BY <1>1, <1>2, <1>3, <1>4, <1>5, <1>6, <1>7, <1>8, <1>9

LEMMA InitKept == Init => Kept
BY DEF Init, Blank, Kept, ArchivedIn

LEMMA NextKept == ASSUME IInv, Kept, [Next]_vars PROVE Kept'
<1>1. /\ blobs \subseteq blobs' /\ projections \subseteq projections'
      /\ blobFaults \in Nat /\ blobFaults' \in Nat /\ blobFaults' >= blobFaults
  BY ArchiveGrows DEF Kept
<1>2. /\ ArchivedIn(state, blobs, projections, blobFaults)
      /\ ArchivedIn(disk, blobs, projections, blobFaults)
  BY DEF Kept
<1>3. ASSUME NEW u, NEW text, HoleIn(u, text, blobFaults)
      PROVE  HoleIn(u, text, blobFaults')
  BY <1>1, <1>3 DEF HoleIn
<1>4. ASSUME NEW m, ArchivedIn(m, blobs, projections, blobFaults)
      PROVE  ArchivedIn(m, blobs', projections', blobFaults')
  <2>1. ASSUME NEW u \in Unit, m.units[u] # None, NEW text \in m.units[u].revisions
        PROVE  text \in blobs' \/ HoleIn(u, text, blobFaults')
    <3>1. text \in blobs \/ HoleIn(u, text, blobFaults)
      BY <1>4, <2>1 DEF ArchivedIn
    <3> QED BY <1>1, <1>3, <3>1
  <2>2. ASSUME NEW q \in Request
        PROVE  /\ m.pendingPlans[q] # None =>
                      ProjectionText(m.pendingPlans[q].frames) \in projections'
               /\ m.committedPlans[q] # None =>
                      ProjectionText(m.committedPlans[q].frames) \in projections'
    BY <1>1, <1>4 DEF ArchivedIn
  <2> QED BY <2>1, <2>2 DEF ArchivedIn
<1>5. ASSUME state' # disk
      PROVE  ArchivedIn(state', blobs', projections', blobFaults')
  <2>1. ASSUME NEW u \in Unit, state'.units[u] # None, NEW text \in state'.units[u].revisions
        PROVE  text \in blobs' \/ HoleIn(u, text, blobFaults')
    <3>1. \A v \in Unit : \A other \in Revisions(v) :
             other \in blobs' \/ HoleIn(v, other, blobFaults')
      <4>1. \A v \in Unit : \A other \in Revisions(v) :
               other \in blobs \/ HoleIn(v, other, blobFaults)
        BY <1>2 DEF Revisions, ArchivedIn
      <4> QED BY <1>1, <1>3, <4>1
    <3>2. CASE state'.units = state.units
      BY <2>1, <3>1, <3>2 DEF Revisions
    <3>3. CASE \E v \in Unit : \E st :
                  /\ state'.units = [state.units EXCEPT ![v] = st]
                  /\ \A other \in st.revisions :
                        \/ other \in Revisions(v) \cup blobs'
                        \/ HoleIn(v, other, blobFaults')
      <4>1. PICK v, st : /\ v \in Unit
                         /\ state'.units = [state.units EXCEPT ![v] = st]
                         /\ \A other \in st.revisions :
                               \/ other \in Revisions(v) \cup blobs'
                               \/ HoleIn(v, other, blobFaults')
        BY <3>3
      <4>2. state'.units[u] = IF u = v THEN st ELSE state.units[u]
        BY <4>1, Decompose DEF SessionOK, StateOK, SavedState
      <4>3. CASE u = v
        BY <2>1, <3>1, <4>1, <4>2, <4>3
      <4>4. CASE u # v
        BY <2>1, <3>1, <4>2, <4>4 DEF Revisions
      <4> QED BY <4>3, <4>4
    <3> QED BY <1>1, <1>5, <3>2, <3>3, UnitMoves
  <2>2. ASSUME NEW q \in Request, state'.pendingPlans[q] # None
        PROVE  ProjectionText(state'.pendingPlans[q].frames) \in projections'
    <3>1. CASE BuildPlan
      <4>1. PICK sel \in SUBSET cand :
                /\ state'.pendingPlans \in
                      Bounded([state.pendingPlans EXCEPT ![call.request] = NewPlan(sel)])
                /\ projections' = projections \cup {ProjectionText(Frames(sel))}
        BY <3>1, BuildFields
      <4> DEFINE plans == [state.pendingPlans EXCEPT ![call.request] = NewPlan(sel)]
      <4>2. NewPlan(sel) \in PendingPlan /\ call.request \in Request
        BY <3>1, NewPlanType, Decompose, CallAssumption DEF OperationOK, BuildPlan
      <4>3. plans \in [Request -> PendingPlan \cup {None}]
        BY <4>2, Decompose DEF SessionOK, StateOK, SavedState
      <4>4. state'.pendingPlans[q] = plans[q]
        BY <2>2, <4>1, <4>3, BoundedType
      <4>5. plans[q] = IF q = call.request THEN NewPlan(sel) ELSE state.pendingPlans[q]
        BY <4>2, Decompose DEF SessionOK, StateOK, SavedState
      <4>6. NewPlan(sel).frames = Frames(sel)
        BY DEF NewPlan
      <4> HIDE DEF plans
      <4> QED BY <1>1, <1>2, <2>2, <4>1, <4>4, <4>5, <4>6 DEF ArchivedIn
    <3> QED BY <1>1, <1>2, <1>5, <2>2, <3>1, PendingMoves DEF ArchivedIn
  <2>3. ASSUME NEW q \in Request, state'.committedPlans[q] # None
        PROVE  ProjectionText(state'.committedPlans[q].frames) \in projections'
    <3>1. CASE Apply
      <4> DEFINE r == call.request
                 plan == [inputs |-> state.pendingPlans[r].inputs,
                          frames |-> state.pendingPlans[r].frames,
                          committedAt |-> state.sequence + 1]
      <4>1. /\ r \in Request /\ state.pendingPlans[r] # None
            /\ state'.committedPlans = [state.committedPlans EXCEPT ![r] = plan]
        BY <3>1, ApplyFields
      <4>2. plan.frames = state.pendingPlans[r].frames
        OBVIOUS
      <4> HIDE DEF plan, r
      <4>3. state'.committedPlans[q] = IF q = r THEN plan ELSE state.committedPlans[q]
        BY <4>1, Decompose DEF SessionOK, StateOK, SavedState
      <4> QED BY <1>1, <1>2, <2>3, <4>1, <4>2, <4>3 DEF ArchivedIn
    <3> QED BY <1>1, <1>2, <1>5, <2>3, <3>1, CommittedMoves DEF ArchivedIn
  <2> QED BY <2>1, <2>2, <2>3 DEF ArchivedIn
<1>6. ArchivedIn(state', blobs', projections', blobFaults')
  BY <1>2, <1>4, <1>5
<1> QED BY <1>1, <1>2, <1>4, <1>6, DiskWritten DEF Kept

\* However blobs fail to be written and states are saved and lost, recover and a
\* repeated prepare find every text the session lists, but for a text that a
\* symbol fell back to and that could not be written.
THEOREM TextsAreArchived == Spec => []ArchiveComplete
<1>1. IInv /\ Kept /\ [Next]_vars => (IInv /\ Kept)'
  BY NextIInv, NextKept
<1>2. Init => IInv /\ Kept
  BY InitIInv, InitKept
<1> QED BY <1>1, <1>2, KeptIsComplete, PTL DEF Spec

---------------------------------------------------------------------------
\* What was acknowledged is on disk.

\* The observations and plans in memory are the saved ones.
Agree ==
    /\ state.observations = disk.observations
    /\ state.pendingPlans = disk.pendingPlans
    /\ state.committedPlans = disk.committedPlans

\* Memory is never behind the disk on what was observed, memory and disk agree
\* between operations unless a save failed, and the answer a save is about to
\* release tells of what the saved state holds.
Recorded ==
    /\ saveFaults \in Nat
    /\ \A r \in Result : disk.observations[r] # None =>
          state.observations[r] = disk.observations[r]
    /\ pc = "observe" => state.observations[call.result] = None
    /\ pc = "commit" => Holds(state.pendingPlans, call)
    /\ pc = "save" /\ reply.kind = "observed" =>
          /\ reply.of \in ObserveCall
          /\ state.observations[reply.of.result] # None
          /\ state.observations[reply.of.result].inputs = reply.of
    /\ pc = "save" /\ reply.kind = "applied" =>
          reply.of.request \in Request /\ Holds(state.committedPlans, reply.of)
    /\ saveFaults = 0 /\ pc # "save" => Agree
    /\ observed \subseteq ObserveCall
    /\ \A i \in applied : i.request \in Request
    /\ AckedIsDurable

LEMMA SaveFaultsCount ==
    ASSUME [Next]_vars, saveFaults \in Nat
    PROVE  /\ saveFaults' \in Nat
           /\ saveFaults' = 0 => saveFaults = 0 /\ ~SaveFails /\ ~DropExpiredFails
<1>1. CASE SaveFails \/ DropExpiredFails
  BY <1>1 DEF SaveFails, DropExpiredFails
<1>2. CASE ~(SaveFails \/ DropExpiredFails)
  <2>1. saveFaults' = saveFaults
    BY <1>2 DEF Next, Server, Host, Fault, World, vars, Save, Status, PrepareAgain, PrepareNew,
           ObserveNew, ObserveAgain, ObserveReadable, ObserveUnreadable, Record, ObserveFails,
           Refresh, RefreshFound, RefreshMisses, Refreshed, RegionRefreshFails, RefreshFails,
           BuildPlan, BuildPlanFails, BlobFault, CommitAgain, Commit, Recheck, Reject, Apply,
           Restart, Edit, Tick, world
  <2> QED BY <1>2, <2>1
<1> QED BY <1>1, <1>2

LEMMA RecordKnown ==
    ASSUME IInv, ObserveReadable \/ ObserveUnreadable
    PROVE  pc = "observe" /\ \E u \in Unit : \E st : Record(call, u, st)
<1>1. pc = "observe" /\ call \in ObserveCall
  BY Decompose DEF ObserveReadable, ObserveUnreadable, OperationOK
<1>2. CASE ObserveReadable
  <2>1. PICK x \in ObservedUnits(call, file[call.path]) :
            Record(call, x.id, StoredUnit(x.id, Text(x)))
    BY <1>2 DEF ObserveReadable
  <2>2. x.id \in Unit
    BY <1>1, <1>2, ObservedUnitsType, Decompose, CallAssumption
       DEF ObserveReadable, IsCandidate, FileState
  <2> QED BY <1>1, <2>1, <2>2
<1>3. CASE ObserveUnreadable
  <2>1. FileUnit[call.path] \in Unit
    BY <1>1, UnitAssumption, CallAssumption
  <2> QED BY <1>1, <1>3, <2>1 DEF ObserveUnreadable
<1> QED BY <1>2, <1>3

LEMMA InitRecorded == Init => Recorded
BY DEF Init, Blank, Recorded, Agree, AckedIsDurable

\* Memory stays ahead on what was observed.
LEMMA ObservationsLead ==
    ASSUME IInv, Recorded, [Next]_vars, NEW r \in Result, disk'.observations[r] # None
    PROVE  state'.observations[r] = disk'.observations[r]
<1>1. CASE Save \/ Restart \/ disk' = state'
  <2>1. state' = disk'
    BY <1>1 DEF Save, Restart
  <2> QED BY <2>1
<1>2. CASE disk' = disk
  <2>1. CASE \E u, st : pc = "observe" /\ Record(call, u, st)
    <3>1. PICK u, st : pc = "observe" /\ Record(call, u, st)
      BY <2>1
    <3>2. /\ call.result \in Result
          /\ state'.observations =
                 [state.observations EXCEPT ![call.result] =
                     [inputs |-> call, unit |-> u, observedAt |-> state.sequence]]
      BY <3>1, RecordFields
    <3>3. call.result # r
      BY <1>2, <3>1 DEF Recorded
    <3>4. state'.observations[r] = state.observations[r]
      BY <3>2, <3>3, Decompose DEF SessionOK, StateOK, SavedState
    <3> QED BY <1>2, <3>4 DEF Recorded
  <2> QED BY <1>2, <2>1, ObservationMoves DEF Recorded
<1> QED BY <1>1, <1>2, DiskWritten

\* The answer about to be released is true of memory.
LEMMA ReplyIsTrue ==
    ASSUME IInv, Recorded, [Next]_vars, pc' = "save"
    PROVE  /\ reply'.kind = "observed" =>
                /\ reply'.of \in ObserveCall
                /\ state'.observations[reply'.of.result] # None
                /\ state'.observations[reply'.of.result].inputs = reply'.of
           /\ reply'.kind = "applied" =>
                reply'.of.request \in Request /\ Holds(state'.committedPlans, reply'.of)
<1>1. CASE ObserveReadable \/ ObserveUnreadable
  <2>1. PICK u, st : u \in Unit /\ Record(call, u, st)
    BY <1>1, RecordKnown
  <2> DEFINE ob == [inputs |-> call, unit |-> u, observedAt |-> state.sequence]
  <2>2. pc = "observe" /\ call \in ObserveCall
    BY <1>1, RecordKnown, Decompose DEF OperationOK
  <2>3. /\ call.result \in Result
        /\ state'.observations = [state.observations EXCEPT ![call.result] = ob]
    BY <2>1, <2>2, RecordFields
  <2>4. ob \in Observation
    BY <2>1, <2>2, Decompose DEF Observation, SessionOK, StateOK, SavedState
  <2>5. ob # None /\ ob.inputs = call
    BY <2>4, NoneAssumption
  <2> HIDE DEF ob
  <2>6. state'.observations[call.result] = ob
    BY <2>3, Decompose DEF SessionOK, StateOK, SavedState
  <2>7. reply'.of = call /\ reply'.kind = "observed"
    BY <1>1, ReplyKinds
  <2> QED BY <2>2, <2>5, <2>6, <2>7
<1>2. CASE Apply
  <2> DEFINE q == call.request
             plan == [inputs |-> state.pendingPlans[q].inputs,
                      frames |-> state.pendingPlans[q].frames,
                      committedAt |-> state.sequence + 1]
  <2>1. /\ q \in Request /\ state.pendingPlans[q] # None
        /\ state'.committedPlans = [state.committedPlans EXCEPT ![q] = plan]
    BY <1>2, ApplyFields
  <2>2. state.pendingPlans[q] \in PendingPlan /\ state.sequence \in Nat
    BY <2>1, Decompose DEF SessionOK, StateOK, SavedState
  <2>3. plan \in CommittedPlan
    BY <2>2 DEF PendingPlan, CommittedPlan
  <2>4. plan # None
    BY <2>3, NoneAssumption
  <2>5. PlanId(q, plan) = PlanId(q, state.pendingPlans[q])
    BY DEF PlanId
  <2>6. PlanId(q, state.pendingPlans[q]) = call
    BY <1>2 DEF Apply, Recorded, Holds
  <2> HIDE DEF plan
  <2>7. state'.committedPlans[q] = plan
    BY <2>1, Decompose DEF SessionOK, StateOK, SavedState
  <2>8. reply'.of = call /\ reply'.kind = "applied"
    BY <1>2, ReplyKinds
  <2> QED BY <2>1, <2>4, <2>5, <2>6, <2>7, <2>8 DEF Holds
<1>3. CASE BuildPlan \/ \E p \in Path : Reject(p)
  <2>1. reply'.kind = "plan" \/ reply'.kind = "stale"
    BY <1>3, ReplyKinds
  <2> QED BY <2>1
<1> QED BY <1>1, <1>2, <1>3, SaveEntered DEF Recorded

LEMMA SaveEnds ==
    ASSUME [Next]_vars, pc = "save", pc' # "save"
    PROVE  Save \/ SaveFails \/ Restart
BY DEF Next, Server, Host, Fault, World, vars, Status, PrepareAgain, PrepareNew, ObserveNew,
       ObserveAgain, ObserveReadable, ObserveUnreadable, ObserveFails, DropExpiredFails,
       Refresh, RegionRefreshFails, RefreshFails, BuildPlan, BuildPlanFails, CommitAgain,
       Commit, Recheck, Reject, Apply, Edit, Tick, locals

\* Memory and disk agree again when an operation is over.
LEMMA AgreeAgain ==
    ASSUME IInv, Recorded, [Next]_vars, saveFaults' = 0, pc' # "save"
    PROVE  Agree'
<1>1. CASE state' = disk'
  BY <1>1 DEF Agree
<1>2. CASE state' # disk'
  <2>1. ~Save /\ ~Restart
    BY <1>2 DEF Save, Restart
  <2>2. saveFaults = 0 /\ ~SaveFails /\ ~DropExpiredFails
    BY SaveFaultsCount DEF Recorded
  <2>3. Agree
    BY <2>1, <2>2, SaveEnds DEF Recorded
  <2>4. disk' = disk
    BY <1>2, <2>1, DiskWritten
  <2>5. CASE DropExpired
    <3>1. Unexpired = state.pendingPlans
      BY <1>2, <2>5 DEF DropExpired
    <3>2. state' = [state EXCEPT !.pendingPlans = Unexpired]
      BY <2>5 DEF DropExpired
    <3> QED BY <2>3, <2>4, <3>1, <3>2, ExpiredFields DEF Agree
  <2>6. CASE \E u, st : pc = "observe" /\ Record(call, u, st)
    BY <2>6 DEF Record
  <2>7. CASE \/ \E o \in ObserveCall : ObserveNew(o)
             \/ \E u, st : state' = [state EXCEPT !.units[u] = st]
    BY <2>3, <2>4, <2>7, ObserveNewFields, StoredFields DEF Agree
  <2>8. CASE state' = state
    BY <2>3, <2>4, <2>8 DEF Agree
  <2> QED BY <2>1, <2>2, <2>5, <2>6, <2>7, <2>8, MemoryMoves, ReplyKinds
<1> QED BY <1>1, <1>2

\* What was acknowledged stays saved, and what is acknowledged now is saved.
LEMMA AckedStays ==
    ASSUME IInv, Recorded, [Next]_vars, saveFaults' = 0
    PROVE  /\ \A o \in observed' : /\ disk'.observations[o.result] # None
                                  /\ disk'.observations[o.result].inputs = o
           /\ \A i \in applied' : Holds(disk'.committedPlans, i)
<1>1. /\ saveFaults = 0
      /\ observed \subseteq ObserveCall /\ \A i \in applied : i.request \in Request
      /\ \A o \in observed : /\ disk.observations[o.result] # None
                            /\ disk.observations[o.result].inputs = o
      /\ \A i \in applied : Holds(disk.committedPlans, i)
  BY SaveFaultsCount DEF Recorded, AckedIsDurable
\* What is on disk stays there.
<1>2. ASSUME NEW r \in Result, disk.observations[r] # None
      PROVE  disk'.observations[r] = disk.observations[r]
  <2>1. state.observations[r] = disk.observations[r]
    BY <1>2 DEF Recorded
  <2>2. CASE DropExpired /\ disk' = state'
    BY <2>1, <2>2, ExpiredFields DEF DropExpired
  <2> QED BY <2>1, <2>2, DiskWritten
<1>3. ASSUME NEW q \in Request, disk.committedPlans[q] # None
      PROVE  disk'.committedPlans[q] = disk.committedPlans[q]
  <2>1. state.committedPlans[q] = disk.committedPlans[q]
    BY <1>3, Decompose DEF MemoryLeads
  <2>2. CASE DropExpired /\ disk' = state'
    BY <2>1, <2>2, ExpiredFields DEF DropExpired
  <2> QED BY <2>1, <2>2, DiskWritten
<1>4. ASSUME NEW o \in observed'
      PROVE  /\ disk'.observations[o.result] # None
             /\ disk'.observations[o.result].inputs = o
  <2>1. CASE o \in observed
    BY <1>1, <1>2, <2>1, CallAssumption
  <2>2. CASE Save /\ o \notin observed
    <3>1. pc = "save" /\ reply.kind = "observed" /\ o = reply.of /\ disk' = state
      BY <2>2 DEF Save, Told
    <3> QED BY <3>1 DEF Recorded
  <2>3. CASE ObserveAgain(o)
    <3>1. /\ state.observations[o.result] # None /\ state.observations[o.result].inputs = o
          /\ disk' = disk /\ pc = "idle"
      BY <2>3 DEF ObserveAgain, store
    <3> QED BY <1>1, <3>1 DEF Recorded, Agree
  <2>4. o \in observed \/ Save \/ ObserveAgain(o)
    <3>1. ASSUME NEW p, ObserveAgain(p) PROVE observed' = observed \cup {p}
      BY <3>1 DEF ObserveAgain
    <3> QED BY <3>1, HostTold
  <2> QED BY <2>1, <2>2, <2>3, <2>4
<1>5. ASSUME NEW i \in applied' PROVE Holds(disk'.committedPlans, i)
  <2>1. CASE i \in applied
    BY <1>1, <1>3, <2>1 DEF Holds
  <2>2. CASE Save /\ i \notin applied
    <3>1. pc = "save" /\ reply.kind = "applied" /\ i = reply.of /\ disk' = state
      BY <2>2 DEF Save, Told
    <3> QED BY <3>1 DEF Recorded
  <2>3. CASE CommitAgain(i)
    <3>1. Holds(state.committedPlans, i) /\ disk' = disk /\ pc = "idle"
      BY <2>3 DEF CommitAgain, store
    <3> QED BY <1>1, <3>1 DEF Recorded, Agree
  <2>4. i \in applied \/ Save \/ CommitAgain(i)
    <3>1. ASSUME NEW j, CommitAgain(j) PROVE applied' = applied \cup {j}
      BY <3>1 DEF CommitAgain
    <3> QED BY <3>1, HostTold
  <2> QED BY <2>1, <2>2, <2>3, <2>4
<1> QED BY <1>4, <1>5

LEMMA NextRecorded == ASSUME IInv, Recorded, [Next]_vars PROVE Recorded'
<1>1. saveFaults' \in Nat
  BY SaveFaultsCount DEF Recorded
<1>2. pc' = "observe" => state'.observations[call'.result] = None
  <2>1. ASSUME NEW o \in ObserveCall, ObserveNew(o)
        PROVE  state'.observations[call'.result] = None
    <3>1. state.observations[o.result] = None /\ call' = o
      BY <2>1 DEF ObserveNew
    <3> QED BY <2>1, <3>1, ObserveNewFields
  <2> QED BY <2>1, ObserveEntered DEF Recorded
<1>3. pc' = "commit" => Holds(state'.pendingPlans, call')
  <2>1. ASSUME NEW i, Commit(i) PROVE Holds(state'.pendingPlans, call')
    BY <2>1 DEF Commit
  <2> QED BY <2>1, CommitEntered DEF Recorded
<1>4. observed' \subseteq ObserveCall /\ \A i \in applied' : i.request \in Request
  <2>1. CASE Save
    <3>1. /\ pc = "save"
          /\ observed' \subseteq observed \cup (IF reply.kind = "observed" THEN {reply.of} ELSE {})
          /\ applied' \subseteq applied \cup (IF reply.kind = "applied" THEN {reply.of} ELSE {})
      BY <2>1 DEF Save, Told
    <3> QED BY <3>1 DEF Recorded
  <2>2. ASSUME NEW o \in ObserveCall, ObserveAgain(o) PROVE observed' \subseteq ObserveCall
    BY <2>2 DEF ObserveAgain, Recorded
  <2>3. ASSUME NEW i \in issued, CommitAgain(i) PROVE \A j \in applied' : j.request \in Request
    BY <2>3, Decompose DEF CommitAgain, Recorded
  <2> QED BY <2>1, <2>2, <2>3, HostTold DEF Recorded
<1> QED BY <1>1, <1>2, <1>3, <1>4, ObservationsLead, ReplyIsTrue, AgreeAgain, AckedStays
        DEF Recorded, AckedIsDurable, Holds

\* As long as no save has failed, an acknowledged observation or commit survives
\* every crash and restart, also when the acknowledgement came from memory.
THEOREM AcknowledgementsLast == Spec => []AckedIsDurable
<1>1. IInv /\ Recorded /\ [Next]_vars => (IInv /\ Recorded)'
  BY NextIInv, NextRecorded
<1>2. Init => IInv /\ Recorded
  BY InitIInv, InitRecorded
<1>3. Recorded => AckedIsDurable
  BY DEF Recorded
<1> QED BY <1>1, <1>2, <1>3, PTL DEF Spec

---------------------------------------------------------------------------
\* Why a pending plan is lost.

\* Why a saved plan is no longer in memory when a save is about to be made.
Reason(q, plan) ==
    \/ Holds(state.committedPlans, PlanId(q, plan))
    \/ /\ Cardinality(PendingIn(state)) = MaxPending
       /\ \A r \in PendingIn(state) : state.pendingPlans[r].preparedAt >= plan.preparedAt
    \/ \E p \in DOMAIN plan.references : during[p] \ {plan.references[p]} # {}

LossExplained ==
    saveFaults = 0 /\ pc = "save" =>
        \A q \in Request : disk.pendingPlans[q] # None /\ state.pendingPlans[q] = None =>
            Reason(q, disk.pendingPlans[q])

\* The end of a prepare, a rejection and a commit drop a plan for a reason.
LEMMA CrowdedReason ==
    ASSUME IInv, Limited(state), BuildPlan, NEW q \in Request,
           NEW plan, plan = state.pendingPlans[q], plan # None, state'.pendingPlans[q] = None
    PROVE  Reason(q, plan)'
<1> DEFINE Plans(sel) == [state.pendingPlans EXCEPT ![call.request] = NewPlan(sel)]
<1>1. PICK sel \in SUBSET cand :
          /\ call.request \in Request /\ NewPlan(sel) \in PendingPlan
          /\ state'.pendingPlans \in Bounded(Plans(sel))
          /\ Plans(sel) \in [Request -> PendingPlan \cup {None}]
  BY BuildPending
<1>2. q # call.request
  BY Decompose DEF BuildPlan, MemoryLeads
<1>3. Plans(sel)[q] = state.pendingPlans[q]
  BY <1>1, <1>2, Decompose DEF SessionOK, StateOK, SavedState
<1>4. /\ IsFiniteSet({r \in Request : Plans(sel)[r] # None})
      /\ Cardinality({r \in Request : Plans(sel)[r] # None}) <= MaxPending + 1
  BY <1>1, OneMore, Decompose
<1> HIDE DEF Plans
<1>5. PICK o \in Request :
          /\ \A r \in Request \ {o} : state'.pendingPlans[r] = Plans(sel)[r]
          /\ Cardinality({r \in Request : state'.pendingPlans[r] # None}) = MaxPending
          /\ \A r \in Request : state'.pendingPlans[r] # None =>
                Plans(sel)[o].preparedAt <= state'.pendingPlans[r].preparedAt
  BY <1>1, <1>3, <1>4, BoundedCount
<1>6. o = q
  BY <1>3, <1>5
<1>7. \A r \in PendingIn(state') :
          state'.pendingPlans[r].preparedAt >= state.pendingPlans[q].preparedAt
  <2>1. SessionOK(state') /\ SessionOK(state)
    BY BuildPlanIInv, Decompose DEF IInv, TypeOK, SessionOK, PlansMatchSources, PlansMatch,
       PlanMatches, OnePlanPerRequest, OneEach, StateOK
  <2>2. \A r \in PendingIn(state') : state'.pendingPlans[r].preparedAt \in Nat
    BY <2>1 DEF SessionOK, StateOK, SavedState, PendingIn, PendingPlan
  <2>3. state.pendingPlans[q].preparedAt \in Nat
    BY <2>1 DEF SessionOK, StateOK, SavedState, PendingPlan
  <2> QED BY <1>3, <1>5, <1>6, <2>2, <2>3 DEF PendingIn
<1> QED BY <1>5, <1>7 DEF Reason, PendingIn

LEMMA AppliedReason ==
    ASSUME IInv, Recorded, Apply, NEW q \in Request,
           NEW plan, plan = state.pendingPlans[q], plan # None, state'.pendingPlans[q] = None
    PROVE  Reason(q, plan)'
<1>1. q = call.request
  BY ApplyFields, Decompose DEF SessionOK, StateOK, SavedState
<1>2. reply'.kind = "applied" /\ reply'.of = call /\ pc' = "save"
  BY ReplyKinds
<1>3. Holds(state'.committedPlans, call)
  <2>1. [Next]_vars
    BY DEF Next, Server
  <2> QED BY <1>2, <2>1, ReplyIsTrue
<1>4. PlanId(q, plan) = call
  BY <1>1 DEF Recorded, Holds, Apply
<1> QED BY <1>3, <1>4 DEF Reason

LEMMA RejectedReason ==
    ASSUME IInv, Witnessed, NEW p \in Path, Reject(p), NEW q \in Request,
           NEW plan, plan = state.pendingPlans[q], plan # None, state'.pendingPlans[q] = None
    PROVE  Reason(q, plan)'
<1>1. q = call.request
  BY RejectFields, Decompose DEF SessionOK, StateOK, SavedState
<1>2. /\ p \in DOMAIN plan.references
      /\ file[p] \in during[p] /\ file[p] # plan.references[p]
      /\ during' = during
  BY <1>1 DEF Reject, Witnessed, host
<1> QED BY <1>2 DEF Reason

LEMMA NextLossExplained ==
    ASSUME IInv, Witnessed, Limited(state), Recorded, LossExplained, [Next]_vars
    PROVE  LossExplained'
<1> SUFFICES ASSUME saveFaults' = 0, pc' = "save",
                    NEW q \in Request, NEW plan, plan = disk'.pendingPlans[q], plan # None,
                    state'.pendingPlans[q] = None
             PROVE  Reason(q, plan)'
  <2>1. ASSUME saveFaults' = 0, pc' = "save", NEW q \in Request,
               disk'.pendingPlans[q] # None, state'.pendingPlans[q] = None
        PROVE  Reason(q, disk.pendingPlans[q])'
    <3>1. \A plan : plan = disk'.pendingPlans[q] => Reason(q, plan)'
      BY <2>1
    <3> QED BY <3>1 DEF Reason
  <2> QED BY <2>1 DEF LossExplained
<1>1. saveFaults = 0
  BY SaveFaultsCount DEF Recorded
<1>2. CASE pc = "save" /\ UNCHANGED <<state, disk>>
           /\ (during' = during \/ \E p \in Path, f \in FileState : Edit(p, f))
  <2>1. during' = during
    BY <1>2 DEF Edit
  <2>2. Reason(q, disk.pendingPlans[q])
    BY <1>1, <1>2 DEF LossExplained
  <2> QED BY <1>2, <2>1, <2>2 DEF Reason, PendingIn
<1>3. CASE \/ ObserveReadable \/ ObserveUnreadable \/ BuildPlan \/ Apply
           \/ \E p \in Path : Reject(p)
  <2>1. pc # "save" /\ disk' = disk
    BY <1>3 DEF ObserveReadable, ObserveUnreadable, Record, BuildPlan, Apply, Reject, store
  <2>2. plan = state.pendingPlans[q]
    BY <1>1, <2>1 DEF Recorded, Agree
  <2>3. CASE ObserveReadable \/ ObserveUnreadable
    BY <2>2, <2>3, RecordKnown, RecordFields
  <2>4. CASE BuildPlan
    BY <2>2, <2>4, CrowdedReason
  <2>5. CASE Apply
    BY <2>2, <2>5, AppliedReason
  <2>6. CASE \E p \in Path : Reject(p)
    BY <2>2, <2>6, RejectedReason
  <2> QED BY <1>3, <2>3, <2>4, <2>5, <2>6
<1> QED BY <1>2, <1>3, SaveEntered

\* As long as no save has failed, no saved plan is lost without a reason, also
\* when a crash falls into the save that loses it.
THEOREM LossesAreJustified == Spec => PlanLossIsJustified
<1> DEFINE J == IInv /\ Witnessed /\ (Limited(state) /\ Limited(disk)) /\ Recorded /\ LossExplained
<1>1. Init => J
  BY InitIInv, InitWitnessed, InitLimited, InitRecorded DEF Init, LossExplained
<1>2. J /\ [Next]_vars => J'
  <2> SUFFICES ASSUME J, [Next]_vars PROVE J'
    OBVIOUS
  <2>1. Limited(state') /\ Limited(disk')
    BY NextLimited
  <2>2. (Limited(state) /\ Limited(disk))'
    BY <2>1 DEF Limited, PendingIn
  <2> QED BY <2>2, NextIInv, NextWitnessed, NextRecorded, NextLossExplained
<1>3. J /\ [Next]_vars =>
         \/ UNCHANGED disk
         \/ saveFaults = 0 => \A q \in Request :
               LET plan == disk.pendingPlans[q]
               IN plan # None /\ disk'.pendingPlans[q] = None =>
                   \/ Holds(disk'.committedPlans, PlanId(q, plan))
                   \/ now - plan.preparedAt > Ttl
                   \/ CrowdedOut(plan)
                   \/ \E p \in DOMAIN plan.references : during[p] \ {plan.references[p]} # {}
  <2> SUFFICES ASSUME J, [Next]_vars, disk' # disk, saveFaults = 0, NEW q \in Request,
                      NEW plan, plan = disk.pendingPlans[q], plan # None,
                      disk'.pendingPlans[q] = None
               PROVE  \/ Holds(disk'.committedPlans, PlanId(q, plan))
                      \/ now - plan.preparedAt > Ttl
                      \/ CrowdedOut(plan)
                      \/ \E p \in DOMAIN plan.references : during[p] \ {plan.references[p]} # {}
    OBVIOUS
  <2>1. CASE (Save \/ Restart) /\ disk' = state
    <3>1. pc = "save"
      BY <2>1 DEF Save, Restart
    <3>2. Reason(q, plan)
      BY <2>1, <3>1 DEF LossExplained
    <3> QED BY <2>1, <3>2 DEF Reason, CrowdedOut, PendingIn
  <2>2. CASE DropExpired /\ disk' = state' /\ pc = "idle"
    <3>1. plan = state.pendingPlans[q]
      BY <2>2 DEF Recorded, Agree
    <3>2. Unexpired[q] = None
      BY <2>2, ExpiredFields DEF DropExpired
    <3> QED BY <3>1, <3>2 DEF Unexpired
  <2> QED BY <2>1, <2>2, DiskWritten
<1> HIDE DEF J
<1>4. Spec => []J
  BY <1>1, <1>2, PTL DEF Spec
<1> QED BY <1>3, <1>4, PTL DEF Spec, PlanLossIsJustified

====

---- MODULE StoreOpenProofs ----
(***************************************************************************)
(* Theorems about StoreOpen and Migration: whatever sessions a store may   *)
(* hold and whatever fingerprints their ids are, migration is faithful;    *)
(* and however many processes start, clean, fail and die, a store is what  *)
(* those that use it take it for.                                          *)
(***************************************************************************)
EXTENDS StoreOpen, FiniteSetTheorems, TLAPS

---------------------------------------------------------------------------
\* Migration.

Ids(v1) == {o \in OldId : v1.units[o] # None}

\* What a verdict says of the identity it binds a unit to: it is of the unit's
\* file, as are the results read from the unit, and it is an alias only when
\* the id is the fingerprint of this identity and of no other it may have had.
Justified(v1, o, print, verdict) ==
    /\ verdict.reason = None =>
          /\ verdict.identity \in Identity /\ verdict.identity.path = v1.units[o].path
          /\ \A r \in Result : v1.observations[r] # None /\ v1.observations[r].unit = o =>
                 v1.observations[r].path = v1.units[o].path
    /\ verdict.alias =>
          /\ print[verdict.identity] = o
          /\ v1.units[o].kind = "region" =>
                {c \in Candidates(v1.units[o]) : print[c] = o} = {verdict.identity}
    /\ verdict.alias => verdict.reason = None
    /\ verdict.reason # None => verdict.reason \in Reason /\ verdict.identity = None

LEMMA CandidatesFinite ==
    ASSUME NEW u \in V1Unit PROVE IsFiniteSet(Candidates(u))
<1> DEFINE revisions == (u.revisions \cup {u.referent}) \ {None}
           With(parent) == {RegionIdentity(u, r, parent) : r \in revisions}
<1>1. IsFiniteSet(revisions)
  <2>1. revisions \subseteq Revision
    BY DEF V1Unit
  <2> HIDE DEF revisions
  <2> QED BY <2>1, RevisionAssumption, FS_Subset
<1>2. ASSUME NEW parent PROVE IsFiniteSet(With(parent))
  <2> DEFINE f == [r \in revisions |-> RegionIdentity(u, r, parent)]
  <2>1. f \in Surjection(revisions, With(parent))
    BY DEF Surjection
  <2> HIDE DEF revisions, With, f
  <2> QED BY <1>1, <2>1, FS_Surjection
<1>3. Candidates(u) = With(u.parent) \cup With(None)
  BY DEF Candidates
<1> HIDE DEF With, revisions
<1> QED BY <1>2, <1>3, FS_Union

LEMMA Identities ==
    ASSUME NEW u \in V1Unit
    PROVE  /\ Named(u) # None =>
                 Named(u) \in Identity /\ Named(u).path = u.path /\ u.kind # "region"
           /\ \A c \in Candidates(u) : c \in Identity /\ c.path = u.path
           /\ u.referent # None =>
                 /\ RegionIdentity(u, u.referent, u.parent) \in Identity
                 /\ RegionIdentity(u, u.referent, u.parent).path = u.path
<1> USE DEF V1Unit, Identity, Kind, IdentityOf, RegionIdentity
<1>1. Named(u) # None => Named(u) \in Identity /\ Named(u).path = u.path /\ u.kind # "region"
  BY DEF Named, FileIdentity, SymbolIdentity
<1>2. \A c \in Candidates(u) : c \in Identity /\ c.path = u.path
  BY DEF Candidates
<1>3. u.referent # None =>
          /\ RegionIdentity(u, u.referent, u.parent) \in Identity
          /\ RegionIdentity(u, u.referent, u.parent).path = u.path
  OBVIOUS
<1> QED BY <1>1, <1>2, <1>3

LEMMA Reasons == /\ "identity_collision" # None /\ "legacy_region" # None
                 /\ Reason = {"identity_collision", "legacy_region"}
                 /\ \A i \in Identity : i # None
BY NoneAssumption DEF Reason

\* The verdict on a region that may be bound.
LEMMA RegionVerdictJustified ==
    ASSUME NEW u \in V1Unit, NEW o, NEW print, NEW verdict,
           verdict = RegionVerdict(o, u, print)
    PROVE  /\ verdict.reason = None => verdict.identity \in Identity /\ verdict.identity.path = u.path
           /\ verdict.reason # None => verdict.reason \in Reason /\ verdict.identity = None
           /\ verdict.alias =>
                 /\ verdict.reason = None
                 /\ {c \in Candidates(u) : print[c] = o} = {verdict.identity}
<1> DEFINE matches == {c \in Candidates(u) : print[c] = o}
<1>1. IsFiniteSet(matches)
  <2>1. matches \subseteq Candidates(u)
    OBVIOUS
  <2> HIDE DEF matches
  <2> QED BY <2>1, CandidatesFinite, FS_Subset
<1>2. verdict = IF Cardinality(matches) > 1 THEN Quarantine("identity_collision")
                ELSE IF matches # {} THEN Bind(CHOOSE c \in matches : TRUE, TRUE)
                ELSE IF u.referent = None THEN Quarantine("legacy_region")
                ELSE Bind(RegionIdentity(u, u.referent, u.parent), FALSE)
  BY DEF RegionVerdict
<1>3. CASE Cardinality(matches) > 1
  BY <1>2, <1>3, Reasons DEF Quarantine
<1>4. CASE ~(Cardinality(matches) > 1) /\ matches # {}
  <2>1. PICK x : matches = {x}
    <3> HIDE DEF matches
    <3>1. Cardinality(matches) \in Nat /\ Cardinality(matches) # 0
      BY <1>1, <1>4, FS_CardinalityType, FS_EmptySet
    <3>2. Cardinality(matches) = 1
      BY <1>4, <3>1
    <3> QED BY <1>1, <3>2, FS_Singleton
  <2>2. x \in Identity /\ x.path = u.path
    BY <2>1, Identities
  <2>3. verdict = Bind(CHOOSE c \in matches : TRUE, TRUE)
    BY <1>2, <1>4
  <2>4. (CHOOSE c \in matches : TRUE) = x
    BY <2>1
  <2>5. verdict.reason = None /\ verdict.identity = x
    BY <2>3, <2>4 DEF Bind
  <2> QED BY <2>1, <2>2, <2>5
<1>5. CASE ~(Cardinality(matches) > 1) /\ matches = {} /\ u.referent = None
  <2>1. verdict = Quarantine("legacy_region")
    BY <1>2, <1>5
  <2> QED BY <2>1, Reasons DEF Quarantine
<1>6. CASE ~(Cardinality(matches) > 1) /\ matches = {} /\ u.referent # None
  BY <1>2, <1>6, Identities DEF Bind
<1> QED BY <1>3, <1>4, <1>5, <1>6

LEMMA VerdictJustified ==
    ASSUME NEW v1 \in V1Session, NEW print, NEW o \in Ids(v1), NEW verdict,
           verdict = Verdict(v1, o, print)
    PROVE  Justified(v1, o, print, verdict)
<1> DEFINE u == v1.units[o]
           bound == {v1.observations[r] : r \in Result} \ {None}
           Mixed == \E x \in bound : x.unit = o /\ (x.path # u.path \/ (u.kind # "file" /\ x.whole))
<1>1. u \in V1Unit
  BY DEF V1Session, Ids
<1>2. verdict = IF Mixed THEN Quarantine("identity_collision")
                ELSE IF Named(u) # None /\ print[Named(u)] = o THEN Bind(Named(u), TRUE)
                ELSE IF u.kind # "region" THEN Quarantine("identity_collision")
                ELSE IF u.anchors = None THEN Quarantine("legacy_region")
                ELSE RegionVerdict(o, u, print)
  BY DEF Verdict
<1>3. ~Mixed => \A r \in Result : v1.observations[r] # None /\ v1.observations[r].unit = o =>
                    v1.observations[r].path = u.path
  OBVIOUS
<1> HIDE DEF Mixed, bound
<1>7. Named(u) # None => u.kind # "region"
  BY <1>1, Identities
<1>4. CASE Mixed \/ (~Mixed /\ u.kind # "region" /\ ~(Named(u) # None /\ print[Named(u)] = o))
           \/ (~Mixed /\ u.kind = "region" /\ u.anchors = None)
  <2>1. PICK reason \in Reason : verdict = Quarantine(reason)
    BY <1>7, <1>2, <1>4 DEF Reason
  <2>2. verdict.reason \in Reason /\ verdict.reason # None /\ verdict.identity = None /\ ~verdict.alias
    BY <2>1, NoneAssumption DEF Quarantine
  <2> QED BY <2>2 DEF Justified
<1>5. CASE ~Mixed /\ Named(u) # None /\ print[Named(u)] = o
  <2>1. verdict = Bind(Named(u), TRUE)
    BY <1>2, <1>5
  <2>2. verdict.identity = Named(u) /\ Named(u) \in Identity /\ Named(u).path = u.path
        /\ verdict.reason = None
    BY <1>1, <1>5, <2>1, Identities DEF Bind
  <2> QED BY <1>7, <1>3, <1>5, <2>2 DEF Justified
<1>6. CASE ~Mixed /\ u.kind = "region" /\ u.anchors # None
  <2>1. verdict = RegionVerdict(o, u, print)
    BY <1>7, <1>2, <1>6
  <2>2. /\ verdict.reason = None => verdict.identity \in Identity /\ verdict.identity.path = u.path
        /\ verdict.reason # None => verdict.reason \in Reason /\ verdict.identity = None
        /\ verdict.alias =>
              /\ verdict.reason = None
              /\ {c \in Candidates(u) : print[c] = o} = {verdict.identity}
    BY <1>1, <2>1, RegionVerdictJustified
  <2>3. verdict.alias => print[verdict.identity] = o
    BY <2>2
  <2> QED BY <1>3, <1>6, <2>2, <2>3 DEF Justified
<1> QED BY <1>7, <1>4, <1>5, <1>6

\* What the migrated session is made of.
BoundTo(v1, print, i) == {o \in Ids(v1) : Verdict(v1, o, print).identity = i}
Latest(S) == CHOOSE o \in S : \A x \in S : x <= o

LEMMA MigratedUnits ==
    ASSUME NEW v1, NEW print
    PROVE  \A i \in DOMAIN Migrate(v1, print).units :
               Migrate(v1, print).units[i] = v1.units[Latest(BoundTo(v1, print, i))]
<1> DEFINE verdict == [o \in Ids(v1) |-> Verdict(v1, o, print)]
           Bound(i) == {o \in Ids(v1) : verdict[o].identity = i}
           bindings == {verdict[o].identity : o \in Ids(v1)} \ {None}
<1>1. Migrate(v1, print).units
          = [i \in bindings |-> v1.units[CHOOSE o \in Bound(i) : \A x \in Bound(i) : x <= o]]
  BY DEF Migrate, Ids
<1>2. \A i : Bound(i) = BoundTo(v1, print, i)
  BY DEF BoundTo
<1> HIDE DEF bindings, Bound
<1> QED BY <1>1, <1>2 DEF Latest

LEMMA MigratedAliases ==
    ASSUME NEW v1, NEW print
    PROVE  /\ Migrate(v1, print).version = 2
           /\ DOMAIN Migrate(v1, print).aliases = {o \in Ids(v1) : Verdict(v1, o, print).alias}
           /\ \A o \in DOMAIN Migrate(v1, print).aliases :
                  Migrate(v1, print).aliases[o] = Verdict(v1, o, print).identity
<1> DEFINE verdict == [o \in Ids(v1) |-> Verdict(v1, o, print)]
<1>1. Migrate(v1, print).aliases
          = [o \in {x \in Ids(v1) : verdict[x].alias} |-> verdict[o].identity]
  BY DEF Migrate, Ids
<1>2. Migrate(v1, print).version = 2
  BY DEF Migrate
<1> QED BY <1>1, <1>2

Outcome(v1, print, o) ==
    IF o \in Ids(v1) THEN Verdict(v1, o, print) ELSE Quarantine("identity_collision")

LEMMA MigratedObservations ==
    ASSUME NEW v1, NEW print, NEW r \in Result, v1.observations[r] # None
    PROVE  LET o == v1.observations[r]
           IN  Migrate(v1, print).observations[r] =
                   [path |-> o.path, whole |-> o.whole,
                    unit |-> Outcome(v1, print, o.unit).identity,
                    reason |-> Outcome(v1, print, o.unit).reason, legacy |-> o.unit]
BY DEF Migrate, Outcome, Ids

\* A nonempty set of ids has a latest one.
LEMMA LatestExists ==
    ASSUME NEW S, S \subseteq OldId, S # {}
    PROVE  Latest(S) \in S
<1> DEFINE After(x) == {y \in S : y >= x}
           T == {After(x) : x \in S}
<1>1. S \subseteq Nat /\ IsFiniteSet(S)
  BY OldIdAssumption, FS_Subset
<1>2. PICK A \in T : \A B \in T : ~(<<B, A>> \in StrictSubsetOrdering(S))
  <2>1. T \subseteq FiniteSubsetsOf(S) /\ T # {}
    <3>1. \A x \in S : After(x) \in SUBSET S
      OBVIOUS
    <3> HIDE DEF After
    <3>2. \A x \in S : IsFiniteSet(After(x))
      BY <1>1, <3>1, FS_Subset
    <3> QED BY <3>1, <3>2 DEF FiniteSubsetsOf
  <2> HIDE DEF T
  <2> QED BY <2>1, FS_StrictSubsetOrderingWellFounded, WFMin
<1>3. PICK o \in S : A = After(o)
  OBVIOUS
<1>4. ASSUME NEW x \in S, x > o PROVE FALSE
  <2>1. After(x) \subseteq After(o) /\ o \notin After(x) /\ o \in After(o)
    <3>1. \A y \in S : y \in Nat
      BY <1>1
    <3>2. x \in Nat /\ o \in Nat /\ x > o
      BY <1>4, <3>1
    <3>3. \A y \in S : y >= x => y >= o
      BY <3>1, <3>2
    <3>4. After(x) \subseteq After(o)
      BY <3>3
    <3>5. ~(o >= x) /\ o >= o
      BY <3>2
    <3>6. o \notin After(x) /\ o \in After(o)
      BY <3>5
    <3> QED BY <3>4, <3>6
  <2>2. After(x) \in T /\ After(x) \subseteq S /\ After(o) \subseteq S
    OBVIOUS
  <2> HIDE DEF After, T
  <2> QED BY <1>2, <1>3, <2>1, <2>2 DEF StrictSubsetOrdering
<1>5. \A x \in S : x <= o
  BY <1>1, <1>4
<1> QED BY <1>5 DEF Latest

\* Migration of any version 1 session is faithful.
LEMMA MigrateIsFaithful ==
    ASSUME old.session \in V1Session, saved = Migrate(old.session, old.print), Valid(saved)
    PROVE  MigrationIsFaithful
<1> DEFINE v1 == old.session
           print == old.print
<1>1. \A o \in Ids(v1) : Justified(v1, o, print, Verdict(v1, o, print))
  BY VerdictJustified
<1>2. ASSUME NEW r \in Result, v1.observations[r] # None
      PROVE  LET o == saved.observations[r]
             IN /\ o # None /\ o.path = v1.observations[r].path
                /\ o.reason = None => o.unit.path = o.path
                /\ o.reason # None => o.legacy = v1.observations[r].unit
  <2> DEFINE o == v1.observations[r]
             outcome == Outcome(v1, print, o.unit)
  <2>1. saved.observations[r] =
            [path |-> o.path, whole |-> o.whole, unit |-> outcome.identity,
             reason |-> outcome.reason, legacy |-> o.unit]
    BY <1>2, MigratedObservations
  <2>2. o \in V1Observation
    BY <1>2 DEF V1Session
  <2>3. outcome.reason = None => o.unit \in Ids(v1) /\ outcome = Verdict(v1, o.unit, print)
    BY Reasons DEF Outcome, Quarantine
  <2>4. outcome.reason = None => outcome.identity.path = o.path
    BY <1>1, <1>2, <2>3 DEF Justified
  <2>5. /\ outcome.identity \in Identity \cup {None}
        /\ outcome.reason \in Reason \cup {None}
    BY <1>1, <2>3, Reasons DEF Outcome, Quarantine, Justified
  <2> HIDE DEF outcome
  <2>6. saved.observations[r] \in V2Observation
    BY <2>1, <2>2, <2>5 DEF V1Observation, V2Observation
  <2>7. saved.observations[r] # None
    BY <2>6, NoneAssumption
  <2> QED BY <2>1, <2>4, <2>7
<1>3. ASSUME NEW o \in DOMAIN saved.aliases
      PROVE  LET i == saved.aliases[o]
             IN /\ Proven(v1, o, i)
                /\ \/ v1.units[o].revisions \subseteq saved.units[i].revisions
                   \/ \E x \in OldId \ DOMAIN saved.aliases : saved.units[i] = v1.units[x]
  <2> DEFINE i == saved.aliases[o]
             S == BoundTo(v1, print, i)
             x == Latest(S)
  <2>1. /\ DOMAIN saved.aliases = {y \in Ids(v1) : Verdict(v1, y, print).alias}
        /\ \A y \in DOMAIN saved.aliases : saved.aliases[y] = Verdict(v1, y, print).identity
    BY MigratedAliases
  <2>2. \A y \in DOMAIN saved.aliases :
            /\ y \in Ids(v1)
            /\ print[saved.aliases[y]] = y
            /\ v1.units[y].kind = "region" =>
                   {c \in Candidates(v1.units[y]) : print[c] = y} = {saved.aliases[y]}
    BY <1>1, <2>1 DEF Justified
  <2>3. Proven(v1, o, i)
    BY <2>2 DEF Proven
  <2>4. o \in S /\ S \subseteq OldId
    BY <1>3, <2>1 DEF BoundTo, Ids
  <2>5. x \in S
    BY <2>4, LatestExists
  <2>6. saved.units[i] = v1.units[x]
    BY <1>3, MigratedUnits DEF Valid
  <2>7. CASE x \in DOMAIN saved.aliases
    <3>1. saved.aliases[x] = i
      BY <2>1, <2>5, <2>7 DEF BoundTo
    <3>2. x = o
      BY <1>3, <2>2, <2>7, <3>1
    <3> QED BY <2>3, <2>6, <3>2
  <2>8. CASE x \notin DOMAIN saved.aliases
    BY <2>3, <2>4, <2>5, <2>6, <2>8
  <2> QED BY <2>7, <2>8
<1> QED BY <1>2, <1>3 DEF MigrationIsFaithful

---------------------------------------------------------------------------
\* The store.

Wiping   == {"rmBlobs", "mkBlobs", "mkSha", "rmSessions", "mkSessions"}
Critical == {"load", "migrate", "judge", "unlock"} \cup Wiping
Position == {"start", "found", "adopt", "children", "lock", "open", "ended"} \cup Critical

\* Where a process stands says what it is for and that there is a root.
Positions ==
    /\ pc \in [Proc -> Position]
    /\ \A p \in Proc :
          /\ pc[p] \in Wiping \cup {"judge"} => Job[p] = "clean"
          /\ pc[p] \in {"load", "migrate", "open"} => Job[p] = "open"
          /\ pc[p] \in {"start", "found", "adopt"} => at[p] = 1
          /\ pc[p] \notin {"start", "ended"} => root
    /\ root /\ ~config => founder \in Proc
    /\ crashes \in Nat /\ diskFaults \in Nat

\* Whoever is at work holds the lock, and nobody wipes beside an open session.
Exclusive ==
    /\ \A p \in Proc : pc[p] \in Critical => lock = p
    /\ \A p, q \in Proc : pc[p] = "open" => pc[q] \notin Wiping

\* A directory that a process has found or made is there, unless a clean that
\* still runs has taken it away.
Has(p, dir) ==
    \/ pc[p] = "children" /\ dir < at[p]
    \/ pc[p] \in {"lock", "open"} \cup Critical
Away(q, dir) ==
    \/ pc[q] = "mkBlobs" /\ dir \in {1, 2}
    \/ pc[q] = "mkSha" /\ dir = 2
    \/ pc[q] = "mkSessions" /\ dir = 3
Kept ==
    crashes = 0 => \A p \in Proc, dir \in Child :
        Has(p, dir) => dir \in children \/ \E q \in Proc : Away(q, dir)

\* What is saved is nothing, the version 1 session, or what it migrates to; a
\* process migrates the version 1 session that it has read.
SavedIsOfOld ==
    /\ \/ saved = None
       \/ old \in V1State /\ saved = old.session
       \/ old \in V1State /\ saved = Migrate(old.session, old.print) /\ Valid(saved)
    /\ \A p \in Proc : pc[p] = "migrate" => saved # None /\ saved.version = 1

\* The types, without what follows of the directories of an open session.
Rest ==
    /\ {root, config} \subseteq BOOLEAN /\ children \subseteq Child
    /\ lock \in Proc \cup {None} /\ founder \in Proc \cup {None}
    /\ at \in [Proc -> Child]
    /\ config \/ children # {} => root
    /\ root /\ ~config => pc[founder] = "found" \/ crashes + diskFaults > 0

IInv == Rest /\ Positions /\ Exclusive /\ Kept /\ SavedIsOfOld

\* All of an open session's directories are there, since nobody wipes beside it.
LEMMA IInvTypes == IInv => TypeOK
<1> SUFFICES ASSUME IInv, crashes = 0, NEW p \in Proc, pc[p] = "open"
             PROVE  children = Child
  BY DEF IInv, Rest, TypeOK
<1>1. ASSUME NEW dir \in Child PROVE dir \in children
  <2>1. \A q \in Proc : ~Away(q, dir)
    BY DEF IInv, Exclusive, Away, Wiping
  <2> QED BY <2>1 DEF IInv, Kept, Has
<1> QED BY <1>1 DEF IInv, Rest

LEMMA InitIInv == Init => IInv
<1> SUFFICES ASSUME Init PROVE IInv
  OBVIOUS
<1> USE DEF Init
<1>1. Positions
  BY JobAssumption DEF Positions, Position, Critical, Wiping
<1>2. Exclusive /\ Kept
  BY DEF Exclusive, Kept, Has, Critical, Wiping
<1>3. Rest
  BY DEF Rest, Child
<1>4. SavedIsOfOld
  BY DEF SavedIsOfOld
<1> QED BY <1>1, <1>2, <1>3, <1>4 DEF IInv

LEMMA NextIInv == IInv /\ [Next]_vars => IInv'
<1> SUFFICES ASSUME IInv, [Next]_vars PROVE IInv'
  OBVIOUS
<1> USE JobAssumption DEF Goes, Fails, Dead, bounds
<1>a. Rest /\ Positions /\ Exclusive /\ Kept /\ SavedIsOfOld
  BY DEF IInv
<1>1. ASSUME NEW p \in Proc, Start(p) PROVE IInv'
  <2>1. Rest'
    <3>1. CASE /\ root' = root /\ founder' = founder
               /\ pc' \in {[pc EXCEPT ![p] = "adopt"], [pc EXCEPT ![p] = "ended"]}
      BY <1>a, <1>1, <3>1 DEF Start, Rest, Positions, Child
    <3>2. CASE root' = TRUE /\ founder' = p /\ pc' = [pc EXCEPT ![p] = "found"]
      BY <1>a, <1>1, <3>2 DEF Start, Rest, Positions, Child
    <3> QED BY <1>1, <3>1, <3>2 DEF Start
  <2>2. Positions'
    BY <1>a, <1>1 DEF Start, Rest, Positions, Position, Critical, Wiping
  <2>3. Exclusive'
    BY <1>a, <1>1 DEF Start, Positions, Position, Exclusive, Critical, Wiping
  <2>4. Kept'
    BY <1>a, <1>1 DEF Start, Rest, Positions, Position, Exclusive, Kept, Has, Away, Critical,
       Wiping, Child
  <2>5. SavedIsOfOld'
    BY <1>a, <1>1 DEF Start, Positions, SavedIsOfOld
  <2> QED BY <2>1, <2>2, <2>3, <2>4, <2>5 DEF IInv
<1>2. ASSUME NEW p \in Proc, Found(p) PROVE IInv'
  <2>1. Rest'
    BY <1>a, <1>2 DEF Found, Rest, Positions, Child
  <2>2. Positions'
    BY <1>a, <1>2 DEF Found, Rest, Positions, Position, Critical, Wiping
  <2>3. Exclusive'
    BY <1>a, <1>2 DEF Found, Positions, Position, Exclusive, Critical, Wiping
  <2>4. Kept'
    BY <1>a, <1>2 DEF Found, Rest, Positions, Position, Exclusive, Kept, Has, Away, Critical,
       Wiping, Child
  <2>5. SavedIsOfOld'
    BY <1>a, <1>2 DEF Found, Positions, SavedIsOfOld
  <2> QED BY <2>1, <2>2, <2>3, <2>4, <2>5 DEF IInv
<1>3. ASSUME NEW p \in Proc, Adopt(p) PROVE IInv'
  <2>1. Rest'
    BY <1>a, <1>3 DEF Adopt, Rest, Positions, Child
  <2>2. Positions'
    BY <1>a, <1>3 DEF Adopt, Rest, Positions, Position, Critical, Wiping
  <2>3. Exclusive'
    BY <1>a, <1>3 DEF Adopt, Positions, Position, Exclusive, Critical, Wiping
  <2>4. Kept'
    BY <1>a, <1>3 DEF Adopt, Rest, Positions, Position, Exclusive, Kept, Has, Away, Critical,
       Wiping, Child
  <2>5. SavedIsOfOld'
    BY <1>a, <1>3 DEF Adopt, Positions, SavedIsOfOld
  <2> QED BY <2>1, <2>2, <2>3, <2>4, <2>5 DEF IInv
<1>4. ASSUME NEW p \in Proc, Children(p) PROVE IInv'
  <2>1. Rest'
    <3>1. root /\ root' = root /\ config' = config /\ pc[p] = "children"
      BY <1>a, <1>4 DEF Children, Positions
    <3>2. at[p] \in Child /\ children \subseteq Child
      BY <1>a DEF Rest
    <3>3. children' \subseteq Child /\ at' \in [Proc -> Child]
      <4>1. at' \in [Proc -> Child]
        BY <1>a, <1>4, <3>2 DEF Children, Rest, Child
      <4>2. 1 \in Child
        BY DEF Child
      <4>3. children' \subseteq children \cup {1, at[p]}
        BY <1>4 DEF Children
      <4> QED BY <3>2, <4>1, <4>2, <4>3
    <3>4. \A q \in Proc : pc[q] = "found" => pc'[q] = "found"
      BY <1>a, <1>4, <3>1 DEF Children, Positions
    <3> QED BY <1>a, <1>4, <3>1, <3>3, <3>4 DEF Children, Rest, Positions
  <2>2. Positions'
    BY <1>a, <1>4 DEF Children, Rest, Positions, Position, Critical, Wiping
  <2>3. Exclusive'
    BY <1>a, <1>4 DEF Children, Positions, Position, Exclusive, Critical, Wiping
  <2>4. Kept'
    BY <1>a, <1>4 DEF Children, Rest, Positions, Position, Exclusive, Kept, Has, Away, Critical,
       Wiping, Child
  <2>5. SavedIsOfOld'
    BY <1>a, <1>4 DEF Children, Positions, SavedIsOfOld
  <2> QED BY <2>1, <2>2, <2>3, <2>4, <2>5 DEF IInv
<1>5. ASSUME NEW p \in Proc, Lock(p) PROVE IInv'
  <2>1. Rest'
    BY <1>a, <1>5 DEF Lock, Rest, Positions, Child
  <2>2. Positions'
    BY <1>a, <1>5 DEF Lock, Rest, Positions, Position, Critical, Wiping
  <2>3. Exclusive'
    BY <1>a, <1>5 DEF Lock, Positions, Position, Exclusive, Critical, Wiping
  <2>4. Kept'
    BY <1>a, <1>5 DEF Lock, Rest, Positions, Position, Exclusive, Kept, Has, Away, Critical,
       Wiping, Child
  <2>5. SavedIsOfOld'
    BY <1>a, <1>5 DEF Lock, Positions, SavedIsOfOld
  <2> QED BY <2>1, <2>2, <2>3, <2>4, <2>5 DEF IInv
<1>6. ASSUME NEW p \in Proc, Unlock(p) PROVE IInv'
  <2>1. Rest'
    BY <1>a, <1>6 DEF Unlock, Rest, Positions, Child
  <2>2. Positions'
    BY <1>a, <1>6 DEF Unlock, Rest, Positions, Position, Critical, Wiping
  <2>3. Exclusive'
    BY <1>a, <1>6 DEF Unlock, Positions, Position, Exclusive, Critical, Wiping
  <2>4. Kept'
    BY <1>a, <1>6 DEF Unlock, Rest, Positions, Position, Exclusive, Kept, Has, Away, Critical,
       Wiping, Child
  <2>5. SavedIsOfOld'
    BY <1>a, <1>6 DEF Unlock, Positions, SavedIsOfOld
  <2> QED BY <2>1, <2>2, <2>3, <2>4, <2>5 DEF IInv
<1>7. ASSUME NEW p \in Proc, Load(p) PROVE IInv'
  <2>1. Rest'
    BY <1>a, <1>7 DEF Load, Rest, Positions, Child
  <2>2. Positions'
    BY <1>a, <1>7 DEF Load, Rest, Positions, Position, Critical, Wiping
  <2>3. Exclusive'
    BY <1>a, <1>7 DEF Load, Positions, Position, Exclusive, Critical, Wiping
  <2>4. Kept'
    BY <1>a, <1>7 DEF Load, Rest, Positions, Position, Exclusive, Kept, Has, Away, Critical,
       Wiping, Child
  <2>5. SavedIsOfOld'
    BY <1>a, <1>7 DEF Load, Positions, SavedIsOfOld
  <2> QED BY <2>1, <2>2, <2>3, <2>4, <2>5 DEF IInv
<1>8. ASSUME NEW p \in Proc, MigrateSession(p) PROVE IInv'
  <2>1. Rest'
    BY <1>a, <1>8 DEF MigrateSession, Rest, Positions, Child
  <2>2. Positions'
    BY <1>a, <1>8 DEF MigrateSession, Rest, Positions, Position, Critical, Wiping
  <2>3. Exclusive'
    BY <1>a, <1>8 DEF MigrateSession, Positions, Position, Exclusive, Critical, Wiping
  <2>4. Kept'
    BY <1>a, <1>8 DEF MigrateSession, Rest, Positions, Position, Exclusive, Kept, Has, Away,
       Critical, Wiping, Child
  <2>5. SavedIsOfOld'
    <3>1. /\ saved # None /\ saved.version = 1 /\ pc[p] = "migrate" /\ old' = old
          /\ pc' = [pc EXCEPT ![p] = "unlock"]
      BY <1>a, <1>8 DEF MigrateSession, SavedIsOfOld
    <3>2. old \in V1State /\ saved = old.session
      <4>1. Migrate(old.session, old.print).version = 2
        BY MigratedAliases
      <4> QED BY <1>a, <3>1, <4>1 DEF SavedIsOfOld
    <3>3. \/ saved' = saved
          \/ saved' = Migrate(old.session, old.print) /\ Valid(saved')
      BY <1>8, <3>2 DEF MigrateSession
    <3>4. \A q \in Proc : pc'[q] # "migrate"
      BY <1>a, <3>1 DEF Positions, Exclusive, Critical
    <3> QED BY <3>1, <3>2, <3>3, <3>4 DEF SavedIsOfOld
  <2> QED BY <2>1, <2>2, <2>3, <2>4, <2>5 DEF IInv
<1>9. ASSUME NEW p \in Proc, Judge(p) PROVE IInv'
  <2>1. Rest'
    BY <1>a, <1>9 DEF Judge, Rest, Positions, Child
  <2>2. Positions'
    BY <1>a, <1>9 DEF Judge, Rest, Positions, Position, Critical, Wiping
  <2>3. Exclusive'
    <3>1. pc[p] = "judge" /\ pc' \in {[pc EXCEPT ![p] = "unlock"], [pc EXCEPT ![p] = "rmBlobs"]}
          /\ (SomebodyHasItOpen => pc' = [pc EXCEPT ![p] = "unlock"]) /\ lock' = lock
      BY <1>9 DEF Judge
    <3> QED BY <1>a, <3>1 DEF SomebodyHasItOpen, Positions, Position, Exclusive, Critical, Wiping
  <2>4. Kept'
    BY <1>a, <1>9 DEF Judge, Rest, Positions, Position, Exclusive, Kept, Has, Away, Critical,
       Wiping, Child
  <2>5. SavedIsOfOld'
    BY <1>a, <1>9 DEF Judge, Positions, SavedIsOfOld
  <2> QED BY <2>1, <2>2, <2>3, <2>4, <2>5 DEF IInv
<1>10. ASSUME NEW p \in Proc, Wipe(p) PROVE IInv'
  <2>1. Rest'
    <3>1. root /\ pc[p] \in Wiping /\ \E step : pc' = [pc EXCEPT ![p] = step]
      BY <1>a, <1>10 DEF Wipe, Removes, Makes, Positions, Wiping
    <3>2. \A q \in Proc : pc[q] = "found" => pc'[q] = "found"
      BY <1>a, <3>1 DEF Positions, Wiping
    <3>3. children' \subseteq Child
      <4>1. \/ children' \subseteq children
            \/ \E dir \in {1, 2, 3} : children' = children \cup {dir}
        BY <1>10 DEF Wipe, Removes, Makes
      <4>2. {1, 2, 3} \subseteq Child /\ children \subseteq Child
        BY <1>a DEF Rest, Child
      <4> QED BY <4>1, <4>2
    <3> QED BY <1>a, <1>10, <3>1, <3>2, <3>3 DEF Wipe, Rest, Positions
  <2>2. Positions'
    BY <1>a, <1>10 DEF Wipe, Removes, Makes, Rest, Positions, Position, Critical, Wiping
  <2>3. Exclusive'
    BY <1>a, <1>10 DEF Wipe, Removes, Makes, Positions, Position, Exclusive, Critical, Wiping
  <2>4. Kept'
    BY <1>a, <1>10 DEF Wipe, Removes, Makes, Rest, Positions, Position, Exclusive, Kept, Has,
       Away, Critical, Wiping, Child
  <2>5. SavedIsOfOld'
    <3>1. /\ saved' \in {saved, None} /\ old' = old /\ pc[p] \in Wiping
          /\ \E step \in Wiping \cup {"unlock"} : pc' = [pc EXCEPT ![p] = step]
      BY <1>10 DEF Wipe, Removes, Makes, Wiping
    <3>2. \A q \in Proc : pc'[q] # "migrate"
      BY <1>a, <3>1 DEF Positions, Exclusive, Critical, Wiping
    <3> QED BY <1>a, <3>1, <3>2 DEF SavedIsOfOld
  <2> QED BY <2>1, <2>2, <2>3, <2>4, <2>5 DEF IInv
<1>11. ASSUME NEW p \in Proc, Close(p) PROVE IInv'
  <2>1. Rest'
    BY <1>a, <1>11 DEF Close, Rest, Positions, Child
  <2>2. Positions'
    BY <1>a, <1>11 DEF Close, Rest, Positions, Position, Critical, Wiping
  <2>3. Exclusive'
    BY <1>a, <1>11 DEF Close, Positions, Position, Exclusive, Critical, Wiping
  <2>4. Kept'
    BY <1>a, <1>11 DEF Close, Rest, Positions, Position, Exclusive, Kept, Has, Away, Critical,
       Wiping, Child
  <2>5. SavedIsOfOld'
    BY <1>a, <1>11 DEF Close, Positions, SavedIsOfOld
  <2> QED BY <2>1, <2>2, <2>3, <2>4, <2>5 DEF IInv
<1>12. ASSUME NEW p \in Proc, WriteFails(p) PROVE IInv'
  <2>1. Rest'
    BY <1>a, <1>12 DEF WriteFails, Rest, Positions, Child
  <2>2. Positions'
    BY <1>a, <1>12 DEF WriteFails, Rest, Positions, Position, Critical, Wiping
  <2>3. Exclusive'
    BY <1>a, <1>12 DEF WriteFails, Positions, Position, Exclusive, Critical, Wiping
  <2>4. Kept'
    BY <1>a, <1>12 DEF WriteFails, Rest, Positions, Position, Exclusive, Kept, Has, Away,
       Critical, Wiping, Child
  <2>5. SavedIsOfOld'
    BY <1>a, <1>12 DEF WriteFails, Positions, SavedIsOfOld
  <2> QED BY <2>1, <2>2, <2>3, <2>4, <2>5 DEF IInv
<1>13. ASSUME NEW p \in Proc, Crash(p) PROVE IInv'
  <2>1. Rest'
    BY <1>a, <1>13 DEF Crash, Rest, Positions, Child
  <2>2. Positions'
    BY <1>a, <1>13 DEF Crash, Rest, Positions, Position, Critical, Wiping
  <2>3. Exclusive'
    BY <1>a, <1>13 DEF Crash, Positions, Position, Exclusive, Critical, Wiping
  <2>4. Kept'
    BY <1>a, <1>13 DEF Crash, Rest, Positions, Position, Exclusive, Kept, Has, Away, Critical,
       Wiping, Child
  <2>5. SavedIsOfOld'
    BY <1>a, <1>13 DEF Crash, Positions, SavedIsOfOld
  <2> QED BY <2>1, <2>2, <2>3, <2>4, <2>5 DEF IInv
<1>14. ASSUME NEW p \in Proc, Restart(p) PROVE IInv'
  <2>1. Rest'
    BY <1>a, <1>14 DEF Restart, Rest, Positions, Child
  <2>2. Positions'
    BY <1>a, <1>14 DEF Restart, Rest, Positions, Position, Critical, Wiping
  <2>3. Exclusive'
    BY <1>a, <1>14 DEF Restart, Positions, Position, Exclusive, Critical, Wiping
  <2>4. Kept'
    BY <1>a, <1>14 DEF Restart, Rest, Positions, Position, Exclusive, Kept, Has, Away, Critical,
       Wiping, Child
  <2>5. SavedIsOfOld'
    BY <1>a, <1>14 DEF Restart, Positions, SavedIsOfOld
  <2> QED BY <2>1, <2>2, <2>3, <2>4, <2>5 DEF IInv
<1>15. ASSUME UNCHANGED vars PROVE IInv'
  <2>1. Rest' /\ Positions' /\ Exclusive'
    BY <1>a, <1>15 DEF vars, Rest, Positions, Exclusive
  <2>2. Kept'
    BY <1>a, <1>15 DEF vars, Kept, Has, Away
  <2>3. SavedIsOfOld'
    BY <1>a, <1>15 DEF vars, SavedIsOfOld
  <2> QED BY <2>1, <2>2, <2>3 DEF IInv
<1>16. IInv'
  <2>1. CASE Next
    <3>1. PICK p \in Proc : Run(p) \/ Close(p) \/ WriteFails(p) \/ Crash(p) \/ Restart(p)
      BY <2>1 DEF Next
    <3>2. CASE Run(p)
      BY <3>2, <1>1, <1>2, <1>3, <1>4, <1>5, <1>6, <1>7, <1>8, <1>9, <1>10 DEF Run
    <3> QED BY <3>1, <3>2, <1>11, <1>12, <1>13, <1>14
  <2> QED BY <2>1, <1>15
<1> QED BY <1>16 DEF IInv

\* A store is what those that use it take it for, however many processes start,
\* clean, fail and die: its configuration comes with its root, a root without
\* one is being founded or somebody failed, and an open session has all its
\* directories until somebody dies.
THEOREM StoreTypes == Spec => []TypeOK
<1> QED BY InitIInv, NextIInv, IInvTypes, PTL DEF Spec

\* What a store holds of a version 1 session is its faithful migration,
\* whatever the session and the fingerprints its ids are.
THEOREM MigrationsAreFaithful == Spec => []MigrationIsFaithful
<1>1. IInv => MigrationIsFaithful
  <2> SUFFICES ASSUME SavedIsOfOld, saved # None, saved.version = 2 PROVE MigrationIsFaithful
    BY DEF IInv, MigrationIsFaithful
  <2>1. /\ old \in V1State
        /\ \/ saved = old.session
           \/ saved = Migrate(old.session, old.print) /\ Valid(saved)
    BY DEF SavedIsOfOld
  <2>2. old.session \in V1Session /\ old.session.version = 1
    BY <2>1, V1Assumption DEF V1Session
  <2> QED BY <2>1, <2>2, MigrateIsFaithful
<1> QED BY <1>1, InitIInv, NextIInv, PTL DEF Spec

====

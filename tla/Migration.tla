---- MODULE Migration ----
(***************************************************************************)
(* What becomes of a session saved by version 1 (src/store.mjs, its        *)
(* identityVerdict, migrateSessionV1 and validateSessionV2). A v1 id is a  *)
(* short fingerprint of an identity, and several identities can share one; *)
(* a v2 id is long enough to stand for its identity, and does so here.     *)
(*                                                                         *)
(* A v1 session has units, [OldId -> unit or None], and observations,      *)
(* [Result -> [unit, path, whole] or None]; OldId is in the order of the   *)
(* file. print is the fingerprint of an identity.                            *)
(***************************************************************************)
EXTENDS Naturals, FiniteSets

CONSTANTS Path, Revision, Selector, Anchors, OldId, Result, None

ASSUME OldIdAssumption == OldId \subseteq Nat /\ IsFiniteSet(OldId)
ASSUME RevisionAssumption == IsFiniteSet(Revision)

Kind == {"file", "symbol", "region"}
Identity == [kind : Kind, path : Path, about : Revision \cup Selector \cup {None},
             anchors : Anchors \cup {None}, parent : Selector \cup {None}]
Reason == {"identity_collision", "legacy_region"}

\* referent is the region's own revision, or the unit's where it has none, and
\* revisions are all the unit has had.
V1Unit == [kind : Kind, path : Path, selector : Selector \cup {None},
           anchors : Anchors \cup {None}, referent : Revision \cup {None},
           revisions : SUBSET Revision, parent : Selector \cup {None}]
V1Observation == [unit : OldId, path : Path, whole : BOOLEAN]
V1Session == [version : {1}, units : [OldId -> V1Unit \cup {None}],
              observations : [Result -> V1Observation \cup {None}]]
V2Observation == [path : Path, whole : BOOLEAN, unit : Identity \cup {None},
                  reason : Reason \cup {None}, legacy : OldId]

ASSUME NoneAssumption ==
    None \notin Identity \cup Reason \cup V1Unit \cup V1Observation \cup V2Observation

IdentityOf(kind, p, about, anchors, parent) ==
    [kind |-> kind, path |-> p, about |-> about, anchors |-> anchors, parent |-> parent]
FileIdentity(p) == IdentityOf("file", p, None, None, None)
SymbolIdentity(p, s) == IdentityOf("symbol", p, s, None, None)
RegionIdentity(u, revision, parent) == IdentityOf("region", u.path, revision, u.anchors, parent)

\* The identity of a file, or of a symbol that has a selector.
Named(u) ==
    IF u.kind = "file" THEN FileIdentity(u.path)
    ELSE IF u.kind = "symbol" /\ u.selector # None THEN SymbolIdentity(u.path, u.selector)
    ELSE None

\* What a region may have been when it got its id: any revision it has had,
\* with its present parent or none.
Candidates(u) ==
    {RegionIdentity(u, r, parent) : r \in (u.revisions \cup {u.referent}) \ {None},
                                    parent \in {u.parent, None}}

Bind(identity, alias) == [identity |-> identity, alias |-> alias, reason |-> None]
Quarantine(reason) == [identity |-> None, alias |-> FALSE, reason |-> reason]

MutRegionVerdict(old, u, print) ==
    LET matches == {c \in Candidates(u) : print[c] = old}
    IN IF matches # {} THEN Bind(CHOOSE c \in matches : TRUE, TRUE)
       ELSE IF u.referent = None THEN Quarantine("legacy_region")
       ELSE Bind(RegionIdentity(u, u.referent, u.parent), FALSE)

\* A region whose id matches no candidate keeps its present identity, but the
\* id proves nothing and is no alias.
RegionVerdict(old, u, print) ==
    LET matches == {c \in Candidates(u) : print[c] = old}
    IN IF Cardinality(matches) > 1 THEN Quarantine("identity_collision")
       ELSE IF matches # {} THEN Bind(CHOOSE c \in matches : TRUE, TRUE)
       ELSE IF u.referent = None THEN Quarantine("legacy_region")
       ELSE Bind(RegionIdentity(u, u.referent, u.parent), FALSE)

\* identityVerdict
Verdict(v1, old, print) ==
    LET u == v1.units[old]
        bound == {v1.observations[r] : r \in Result} \ {None}
    IN IF \E o \in bound : /\ o.unit = old
                           /\ o.path # u.path \/ (u.kind # "file" /\ o.whole)
       THEN Quarantine("identity_collision")
       ELSE IF Named(u) # None /\ print[Named(u)] = old THEN Bind(Named(u), TRUE)
       ELSE IF u.kind # "region" THEN Quarantine("identity_collision")
       ELSE IF u.anchors = None THEN Quarantine("legacy_region")
       ELSE RegionVerdict(old, u, print)

\* migrateSessionV1: of two units with one identity the later stays. Plans are
\* dropped.
Migrate(v1, print) ==
    LET Ids      == {o \in OldId : v1.units[o] # None}
        verdict  == [o \in Ids |-> Verdict(v1, o, print)]
        Bound(i) == {o \in Ids : verdict[o].identity = i}
        outcome(o) == IF o \in Ids THEN verdict[o] ELSE Quarantine("identity_collision")
    IN [version |-> 2,
        units |-> [i \in {verdict[o].identity : o \in Ids} \ {None} |->
                      v1.units[CHOOSE o \in Bound(i) : \A x \in Bound(i) : x <= o]],
        aliases |-> [o \in {x \in Ids : verdict[x].alias} |-> verdict[o].identity],
        observations |-> [r \in Result |->
            LET o == v1.observations[r]
            IN IF o = None THEN None
               ELSE [path |-> o.path, whole |-> o.whole, unit |-> outcome(o.unit).identity,
                     reason |-> outcome(o.unit).reason, legacy |-> o.unit]]]

\* validateSessionV2: every reference leads to a unit, and what has none says
\* why.
Valid(v2) ==
    /\ \A r \in Result : v2.observations[r] # None =>
          LET o == v2.observations[r]
          IN IF o.reason = None THEN o.unit \in DOMAIN v2.units ELSE o.unit = None
    /\ \A old \in DOMAIN v2.aliases : v2.aliases[old] \in DOMAIN v2.units

====

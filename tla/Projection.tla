---- MODULE Projection ----
(***************************************************************************)
(* The vocabulary of src/projection.mjs: what a unit costs when it is      *)
(* rendered, when two units overlap, which of two units ranks first, and   *)
(* which units a byte budget admits.                                       *)
(*                                                                         *)
(* A unit is a record with fields id, path, kind, start, end, observedAt.  *)
(* Its content is the byte range start..end of its path, so the content's  *)
(* length is end - start; the text itself is irrelevant to the selection.  *)
(***************************************************************************)
EXTENDS Integers, FiniteSets, FiniteSetsExt

CONSTANTS
    Path,       \* normalised relative source paths
    PathBytes   \* UTF-8 length of each path

ASSUME PathAssumption == PathBytes \in [Path -> Nat \ {0}]

Kind == {"file", "symbol", "region"}

\* Decimal digits of a content length; a source file has at most 512 KiB,
\* so six digits are enough.
Digits(n) == 1 + Cardinality({d \in 1..5 : 10^d <= n})

\* "<path>:" , "symbol:" / "region:" or nothing, "<n>bytes" and a newline.
HeaderBytes(u) ==
    PathBytes[u.path] + 1 + (IF u.kind = "file" THEN 0 ELSE 7)
        + Digits(u.end - u.start) + 6

RenderedBytes(u) == HeaderBytes(u) + (u.end - u.start)

Total(S) == MapThenSumSet(RenderedBytes, S)

UnitsOverlap(l, r) ==
    /\ l.path = r.path
    /\ \/ l.kind = "file"
       \/ r.kind = "file"
       \/ l.start < r.end /\ r.start < l.end

\* Most recently observed first; equal observation times by unit id.
RanksBefore(l, r) ==
    \/ l.observedAt > r.observedAt
    \/ l.observedAt = r.observedAt /\ l.id < r.id

Ahead(sel, u) == {s \in sel : RanksBefore(s, u)}

\* sel is what the budget admits of units: a unit is in it exactly when it
\* clashes with no better-ranked member and still fits behind all of them.
IsSelection(sel, units, budget) ==
    \A u \in units :
        u \in sel <=> /\ \A s \in Ahead(sel, u) : ~UnitsOverlap(s, u)
                      /\ Total(Ahead(sel, u)) + RenderedBytes(u) <= budget

====

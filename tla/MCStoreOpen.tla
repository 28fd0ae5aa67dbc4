---- MODULE MCStoreOpen ----
(* Stores for TLC: a new one that two processes want to open and one to
   clean, and one with a v1 session of up to two units and two results, under
   every assignment of the two v1 ids to the identities of its regions. *)
EXTENDS StoreOpen

Jobs == [p \in Proc |-> IF p = "p3" THEN "clean" ELSE "open"]

Unit(kind, selector, anchors, referent, revisions, parent) ==
    [kind |-> kind, path |-> "a", selector |-> selector, anchors |-> anchors,
     referent |-> referent, revisions |-> revisions, parent |-> parent]

Regions ==
    {Unit("region", None, "k", "x", h \cup {"x"}, parent) :
        h \in SUBSET Revision, parent \in {None, "f"}}
Others ==
    {Unit("file", None, None, None, {"x"}, None), Unit("symbol", "f", None, None, {"x"}, None),
     Unit("symbol", None, None, None, {"x"}, None),
     Unit("region", None, None, "x", {"x"}, None), Unit("region", None, "k", None, {}, None)}
Second == {None, Unit("region", None, "k", "x", {"x"}, None)}

\* Results read from the two units; from another file, as a whole file, and
\* from no unit at all.
Read(unit, path, whole) == [unit |-> unit, path |-> path, whole |-> whole]
Sound == [r1 |-> Read(1, "a", FALSE), r2 |-> Read(2, "a", FALSE)]
Damaged ==
    {[r1 |-> Read(1, "b", FALSE), r2 |-> Read(1, "a", FALSE)],
     [r1 |-> Read(1, "a", TRUE), r2 |-> Read(3, "a", FALSE)]}

RegionIdentities ==
    {RegionIdentity(u, r, p) : u \in Regions, r \in Revision, p \in {None, "f"}}
OtherIdentities == {Named(u) : u \in Others} \ {None}
PrintWith(f) == [i \in RegionIdentities \cup OtherIdentities |-> IF i \in RegionIdentities THEN f[i] ELSE 1]
Prints == {PrintWith(f) : f \in [RegionIdentities -> {1, 2}]}
OnePrint == PrintWith([i \in RegionIdentities |-> 2])

Version1(x, y, reads, f) ==
    [session |-> [version |-> 1, units |-> <<x, y, None>>, observations |-> reads],
     print |-> f]
V1 == {Version1(x, y, Sound, f) : x \in Regions, y \in Second, f \in Prints}
      \cup {Version1(x, None, r, OnePrint) : x \in Regions \cup Others, r \in Damaged}
      \cup {Version1(x, y, Sound, OnePrint) : x \in Others, y \in Second}
====

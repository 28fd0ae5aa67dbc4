---- MODULE CurrentRegion ----
(***************************************************************************)
(* A region's present text (src/session.mjs currentRegion): the file is    *)
(* read between two looks at its metadata (src/workspace.mjs               *)
(* readStableText) while others write, replace and remove it, and the      *)
(* region is searched in what was read. Each await of the read is a step.  *)
(***************************************************************************)
EXTENDS Relocate

CONSTANTS
    Ino,                    \* inode numbers; a free one may be used again
    Written,                \* the texts others write
    MaxBytes,               \* maxSourceBytes
    Start,                  \* the calls, [unit, parsed, text, read]: a stored region,
                            \* the parse, the file's text, whether it has been read
    MaxWrites, MaxTime      \* bounds

Inode    == [text : Text, time : Nat]
Metadata == [ino : Ino, size : Nat, time : Nat]
Error    == {"deleted", "resolution_failed", "file_too_large", "snapshot_unstable"}

ASSUME FileAssumption == 1 \in Ino /\ Written \subseteq Text /\ MaxBytes \in Nat
ASSUME StartAssumption ==
    \A c \in Start :
        c.unit \in Region /\ c.parsed \in Parse /\ c.text \in Text /\ c.read \in BOOLEAN
ASSUME NoneAssumption == None \notin Ino \cup Inode \cup Metadata \cup Error \cup {"ok"} \cup Nat

VARIABLES
    inode,                  \* [Ino -> [text, time] or None]
    file,                   \* the inode the path leads to, or None
    now,                    \* the clock the file system stamps with
    pc, attempt,
    before, opened, after,  \* what the three stats said
    bytes,                  \* what has been read
    answer,                 \* an error code, or "ok"
    unit, parsed, outcome,
    held, gone, changes,    \* the texts the file had during this attempt; whether it
                            \* was absent during the call; the changes in each attempt
    twice,                  \* whether one tick saw two versions of one inode
    writes

disk  == <<inode, file, now, held, gone, changes, twice, writes>>
stats == <<before, opened, after>>
vars  == <<disk, stats, pc, attempt, bytes, answer, unit, parsed, outcome>>

StatOf(i) == [ino |-> i, size |-> Len(inode[i].text), time |-> inode[i].time]

\* A read about to start, or one that is over.
Init ==
    /\ \E c \in Start :
          /\ unit = c.unit /\ parsed = c.parsed
          /\ inode = [i \in Ino |-> IF i = 1 THEN [text |-> c.text, time |-> 0] ELSE None]
          /\ held = {c.text}
          /\ pc = IF c.read THEN "locate" ELSE "lstat"
          /\ bytes = IF c.read THEN c.text ELSE <<>>
          /\ answer = IF c.read THEN "ok" ELSE None
    /\ file = 1 /\ now = 0 /\ attempt = 0
    /\ before = None /\ opened = None /\ after = None
    /\ outcome = None /\ gone = FALSE /\ changes = <<0, 0>>
    /\ twice = FALSE /\ writes = 0

---------------------------------------------------------------------------
\* The others. While the file is read:

Reading == pc \notin {"locate", "done"}

Changes ==
    /\ Reading /\ writes < MaxWrites /\ writes' = writes + 1
    /\ changes' = [changes EXCEPT ![attempt + 1] = @ + 1]
    /\ UNCHANGED <<now, stats, pc, attempt, bytes, answer, unit, parsed, outcome>>

Puts(i, t) ==
    inode' = [inode EXCEPT ![i] = [text |-> t, time |-> now]] /\ held' = held \cup {t}

\* A write inside the file: one system call, of which a slow writer makes
\* several.
WriteInPlace(t) ==
    /\ file # None /\ t # inode[file].text
    /\ Puts(file, t) /\ Changes
    /\ twice' = (twice \/ inode[file].time = now)
    /\ UNCHANGED <<file, gone>>

\* The reader's handle keeps its inode in use.
Free == {i \in Ino \ {file} : opened = None \/ opened.ino # i}

\* A whole new file takes the name.
Replace(t) ==
    /\ \E i \in Free : file' = i /\ Puts(i, t)
    /\ Changes
    /\ UNCHANGED <<gone, twice>>

Remove ==
    /\ file # None /\ file' = None /\ gone' = TRUE
    /\ Changes
    /\ UNCHANGED <<inode, held, twice>>

Tick ==
    /\ Reading /\ now < MaxTime /\ now' = now + 1
    /\ UNCHANGED <<inode, file, held, gone, changes, twice, writes, stats, pc, attempt,
                   bytes, answer, unit, parsed, outcome>>

---------------------------------------------------------------------------
\* readStableText

Goes(step) == pc' = step /\ UNCHANGED answer
Fails(error) == answer' = error /\ pc' = "done"

Lstat ==
    /\ pc = "lstat"
    /\ IF file = None THEN Fails("deleted") ELSE Goes("stat")
    /\ UNCHANGED <<disk, stats, attempt, bytes, unit, parsed, outcome>>

\* The first stat stands outside the try: an ENOENT leaves the function as it is.
Stat ==
    /\ pc = "stat"
    /\ IF file = None THEN Fails("resolution_failed") /\ UNCHANGED before
       ELSE /\ before' = StatOf(file)
            /\ IF Len(inode[file].text) > MaxBytes THEN Fails("file_too_large") ELSE Goes("open")
    /\ UNCHANGED <<disk, opened, after, attempt, bytes, unit, parsed, outcome>>

Open ==
    /\ pc = "open"
    /\ IF file = None THEN Fails("deleted") /\ UNCHANGED opened
       ELSE opened' = StatOf(file) /\ Goes("read")
    /\ UNCHANGED <<disk, before, after, attempt, bytes, unit, parsed, outcome>>

\* A read returns what there is from the offset on, or less of it, up to one
\* byte more than is allowed; nothing is the end.
Read ==
    /\ pc = "read"
    /\ LET text == inode[opened.ino].text
           from == Len(bytes)
           most == Least(Len(text), MaxBytes + 1)
       IN IF from < most
          THEN /\ \E upto \in from + 1 .. most : bytes' = bytes \o Slice(text, from, upto)
               /\ Goes("read")
          ELSE /\ UNCHANGED bytes
               /\ IF from > MaxBytes THEN Fails("file_too_large") ELSE Goes("after")
    /\ UNCHANGED <<disk, stats, attempt, unit, parsed, outcome>>

After ==
    /\ pc = "after"
    /\ IF file = None THEN Fails("deleted") /\ UNCHANGED after
       ELSE after' = StatOf(file) /\ Goes("compare")
    /\ UNCHANGED <<disk, before, opened, attempt, bytes, unit, parsed, outcome>>

MutUnstable == \E s \in {before, opened} : s.ino # after.ino \/ s.size # after.size

Unstable == before # after \/ opened # after

\* The second look at the path, and the verdict: once more, or not at all.
Compare ==
    /\ pc = "compare"
    /\ \/ file = None /\ Fails("deleted") /\ UNCHANGED <<attempt, stats, bytes, held>>
       \/ /\ file # None /\ ~Unstable
          /\ answer' = "ok" /\ pc' = "locate" /\ UNCHANGED <<attempt, stats, bytes, held>>
       \/ /\ file # None /\ Unstable /\ attempt = 1
          /\ Fails("snapshot_unstable") /\ UNCHANGED <<attempt, stats, bytes, held>>
       \/ /\ file # None /\ Unstable /\ attempt = 0
          /\ attempt' = 1 /\ Goes("lstat")
          /\ before' = None /\ opened' = None /\ after' = None /\ bytes' = <<>>
          /\ held' = {inode[file].text}
    /\ UNCHANGED <<inode, file, now, gone, changes, twice, writes, unit, parsed, outcome>>

---------------------------------------------------------------------------
\* currentRegion

\* resolvedRegion with the unit's own identity and anchors, stored again.
Refreshed(u, text, start, end) ==
    LET parent == IF parsed.ok THEN Enclosing(parsed.units, start, end) ELSE None
        from == IF parent = None THEN 0
                ELSE (CHOOSE p \in parsed.units : p.selector = parent).start
        referent == Slice(text, start, end)
    IN [u EXCEPT !.start = start, !.end = end, !.source = text, !.referent = referent,
                 !.occurrences = Cardinality(Occurrences(text, referent)),
                 !.parent = parent,
                 !.relStart = IF parent = None THEN None ELSE start - from,
                 !.relEnd = IF parent = None THEN None ELSE end - from]

Locate ==
    /\ pc = "locate"
    /\ outcome' = RelocateRegion(unit, bytes, parsed)
    /\ pc' = "done"
    /\ unit' = IF outcome'.start = None THEN unit
               ELSE Refreshed(unit, bytes, outcome'.start, outcome'.end)
    /\ UNCHANGED <<disk, stats, attempt, bytes, answer, parsed>>

Others == (\E t \in Written : WriteInPlace(t) \/ Replace(t)) \/ Remove \/ Tick

Next == Lstat \/ Stat \/ Open \/ Read \/ After \/ Compare \/ Locate \/ Others

Spec == Init /\ [][Next]_vars

---------------------------------------------------------------------------

\* A read answers with a text the file had during the attempt, never one put
\* together from several, unless it was written twice in one tick of the clock
\* that stamps it; it gives up only on a file that changed under both attempts,
\* that was absent or that was too large (workspace.mjs 92-131).
SnapshotIsHonest ==
    /\ answer = "ok" /\ ~twice => bytes \in held
    /\ answer = "snapshot_unstable" => changes[1] > 0 /\ changes[2] > 0
    /\ answer \in {"deleted", "resolution_failed"} => gone
    /\ answer = "file_too_large" => \E t \in held : Len(t) > MaxBytes

\* The spans between full occurrences of the anchors, or an end of the text for
\* an empty one; and of those from one start the ends that are similar enough and
\* that no other surpasses.
StartsOf(u, text) ==
    IF u.prefix = <<>> THEN {0} ELSE {at + Len(u.prefix) : at \in Occurrences(text, u.prefix)}
EndsOf(u, text) == IF u.suffix = <<>> THEN {Len(text)} ELSE Occurrences(text, u.suffix)
EndsFrom(u, text, start) == {e \in EndsOf(u, text) : Fits(u, start, e)}
MostSimilar(u, text, start) ==
    LET score(e) == Score(Slice(text, start, e), u.referent)
        similar  == {e \in EndsFrom(u, text, start) : Reaches(score(e))}
    IN {e \in similar : \A f \in similar : ~Above(score(f), score(e))}

\* A span is the region's without doubt: no other start has one, and its end is
\* the nearest or the only one that no other surpasses.
IsClear(u, text, start, end) ==
    /\ \A s \in StartsOf(u, text) : EndsFrom(u, text, s) # {} => s = start
    /\ \/ \A e \in EndsFrom(u, text, start) : end <= e
       \/ MostSimilar(u, text, start) = {end}

\* What is shown for a region u in a text is the region: its referent, or
\* something similar between the same surroundings in the same parent, in its old
\* place or clear of every other. Of repeated occurrences one is taken for the
\* moved region only if nothing but it keeps the surroundings, or by its place in
\* the parent (README.md 64-65); and the only occurrence is found, unless the old
\* place still looks right.
IsTheRegion(u, text, o) ==
    LET there == Slice(text, o.start, o.end)
        all   == Occurrences(text, u.referent)
    IN /\ o.start # None => {o.start, o.end} \subseteq Nat /\ InBounds(text, o.start, o.end)
       /\ o.status \in {"stable", "relocated"} => there = u.referent
       /\ o.status = "relocated" /\ Follows(u, text, parsed) = {} =>
             \A at \in all : Surrounded(text, u, at, at + Len(u.referent)) => at = o.start
       /\ o.status = "updated" => /\ Similar(there, u.referent)
                                  /\ Surrounded(text, u, o.start, o.end)
                                  /\ SameParent(u, parsed, o.start, o.end)
                                  /\ InPlace(u, text, parsed) \/ IsClear(u, text, o.start, o.end)
       /\ Cardinality(all) = 1 /\ ~InPlace(u, text, parsed) => all = {o.start}

\* What is stored of a region found in a text serves the next look: in another
\* text it passes for unmoved only if no twin was beside it when it was stored,
\* and by its parent it is found where it is.
OtherText == {c.text : c \in Start}
IsStored(v, text) ==
    /\ \A t \in OtherText : Stays(v, t, parsed) =>
          t = text \/ \A at \in Occurrences(text, v.referent) : at = v.start
    /\ SameParent(v, parsed, v.start, v.end)
    /\ \A p \in parsed.units : p.selector = v.parent =>
          p.start + v.relStart = v.start /\ p.start + v.relEnd = v.end

\* And once found it stays: looked for again in the same text it is stable, its
\* stored form does not change, and that is right for other texts.
RegionIsSure ==
    [][pc = "locate" =>
          /\ IsTheRegion(unit, bytes, outcome')
          /\ outcome'.start # None =>
                /\ RelocateRegion(unit', bytes, parsed) = At("stable", outcome'.start, outcome'.end)
                /\ Refreshed(unit', bytes, outcome'.start, outcome'.end) = unit'
                /\ IsStored(unit', bytes)]_pc

====

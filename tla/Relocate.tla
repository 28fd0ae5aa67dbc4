---- MODULE Relocate ----
(***************************************************************************)
(* Where a region has gone in a text that may have changed                 *)
(* (src/relocate.mjs). Texts are sequences, ranges are [start, end) from 0.*)
(***************************************************************************)
EXTENDS Integers, Sequences, FiniteSetsExt

CONSTANTS
    AnchorBytes,    \* ANCHOR_BYTES
    MinSpan,        \* the longest span a short referent may grow to
    Decoded(_),     \* the code units Buffer.toString gives for bytes
    None

ASSUME BoundsAssumption == AnchorBytes \in Nat /\ MinSpan \in Nat

\* A stored region and a parse, in which no two units have one selector; a region
\* with a parent has its place in it.
Text   == Seq(Nat)
Parse  ==
    {p \in [ok : BOOLEAN, units : SUBSET [selector : Nat, start : Nat, end : Nat]] :
        \A v, w \in p.units : v.selector = w.selector => v = w}
Region ==
    {u \in [start : Nat, end : Nat, source : Text, referent : Text,
            occurrences : Nat \cup {None}, prefix : Text, suffix : Text,
            parent : Nat \cup {None}, relStart : Nat \cup {None}, relEnd : Nat \cup {None}] :
        u.parent # None => u.relStart \in Nat /\ u.relEnd \in Nat}

Slice(text, start, end) == SubSeq(text, start + 1, end)
Least(a, b) == IF a <= b THEN a ELSE b
Most(a, b)  == IF a <= b THEN b ELSE a

AnchorsFor(text, start, end) ==
    [prefix |-> Slice(text, Most(0, start - AnchorBytes), start),
     suffix |-> Slice(text, end, Least(Len(text), end + AnchorBytes))]

Occurrences(text, needle) ==
    IF needle = <<>> THEN {}
    ELSE {at \in 0 .. Len(text) - Len(needle) : Slice(text, at, at + Len(needle)) = needle}

\* The selector of the smallest parsed unit around a range; selectors are
\* ordered, and None stands for no unit.
Enclosing(units, start, end) ==
    LET around == {u \in units : u.start <= start /\ end <= u.end}
        Before(u, v) == LET size(x) == x.end - x.start
                        IN size(u) < size(v) \/ (size(u) = size(v) /\ u.selector < v.selector)
    IN IF around = {} THEN None
       ELSE (CHOOSE u \in around : \A v \in around \ {u} : Before(u, v)).selector

---------------------------------------------------------------------------
\* similarity: the share of bigrams two decoded texts have in common, as a
\* fraction.

Bigrams(text) == {<<text[i], text[i + 1]>> : i \in 1 .. Len(text) - 1}
Count(text, gram) == Cardinality({i \in 1 .. Len(text) - 1 : <<text[i], text[i + 1]>> = gram})

Score(leftBytes, rightBytes) ==
    LET left  == Decoded(leftBytes)
        right == Decoded(rightBytes)
        total(text) == Most(0, Len(text) - 1)
    IN IF total(left) = 0 \/ total(right) = 0
       THEN [num |-> IF total(left) = total(right) THEN 1 ELSE 0, den |-> 1]
       ELSE [num |-> 2 * MapThenSumSet(LAMBDA g : Least(Count(left, g), Count(right, g)), Bigrams(left)),
             den |-> total(left) + total(right)]

\* SIMILARITY_THRESHOLD
Reaches(score) == 10 * score.num >= 6 * score.den
Above(a, b) == a.num * b.den > b.num * a.den
Similar(left, right) == Reaches(Score(left, right))

---------------------------------------------------------------------------

\* What lies before and after a range is what the anchors say, as far as the
\* text goes.
PrefixAt(text, start, prefix) ==
    LET n == Least(start, Len(prefix))
    IN Slice(text, start - n, start) = Slice(prefix, Len(prefix) - n, Len(prefix))
SuffixAt(text, end, suffix) ==
    LET n == Least(Len(text) - end, Len(suffix))
    IN Slice(text, end, end + n) = Slice(suffix, 0, n)

At(status, start, end) == [status |-> status, start |-> start, end |-> end]
Nowhere(status) == At(status, None, None)

Fits(u, start, end) == end > start /\ end - start <= Most(MinSpan, 4 * Len(u.referent))

\* bracketSpan between full occurrences of both anchors: the nearest end unless
\* it is too different and one longer span is the most similar.
Between(text, u, starts, ends) ==
    LET Nearest(s) == Min({e \in ends : e > s})
        bracketed == {s \in starts : (\E e \in ends : e > s) /\ Fits(u, s, Nearest(s))}
        start == CHOOSE s \in bracketed : TRUE
        score(e) == Score(Slice(text, start, e), u.referent)
        longer == {e \in ends : Fits(u, start, e)} \ {Nearest(start)}
        viable == {e \in longer : Reaches(score(e))}
        best == {e \in viable : \A f \in viable : ~Above(score(f), score(e))}
    IN IF bracketed = {} THEN Nowhere("none")
       ELSE IF Cardinality(bracketed) > 1 THEN Nowhere("ambiguous")
       ELSE IF longer = {} \/ Reaches(score(Nearest(start)))
       THEN At("unique", start, Nearest(start))
       ELSE IF Cardinality(best) = 1 THEN At("unique", start, CHOOSE e \in best : TRUE)
       ELSE Nowhere("ambiguous")

\* With an empty anchor the span goes to that end of the text.
BracketSpan(text, u) ==
    LET Only(s, e) == IF Fits(u, s, e) THEN At("unique", s, e) ELSE Nowhere("none")
        starts == {at + Len(u.prefix) : at \in Occurrences(text, u.prefix)}
        ends == Occurrences(text, u.suffix)
        One(S) == Cardinality(S) = 1
        Unclear(S) == Nowhere(IF S = {} THEN "none" ELSE "ambiguous")
    IN IF u.prefix = <<>> /\ u.suffix = <<>> THEN Only(0, Len(text))
       ELSE IF u.prefix = <<>> THEN IF One(ends) THEN Only(0, Min(ends)) ELSE Unclear(ends)
       ELSE IF u.suffix = <<>> THEN IF One(starts) THEN Only(Min(starts), Len(text)) ELSE Unclear(starts)
       ELSE Between(text, u, starts, ends)

---------------------------------------------------------------------------
\* relocateRegion. u is the stored region: its last range, referent, number of
\* occurrences, source text, anchors, and its parent with the place in it.

InBounds(text, start, end) == start >= 0 /\ end > start /\ end <= Len(text)
IsReferent(text, u, start, end) ==
    InBounds(text, start, end) /\ Slice(text, start, end) = u.referent
Surrounded(text, u, start, end) ==
    PrefixAt(text, start, u.prefix) /\ SuffixAt(text, end, u.suffix)
SameParent(u, parsed, start, end) ==
    parsed.ok => Enclosing(parsed.units, start, end) = u.parent

Stays(u, text, parsed) ==
    /\ IsReferent(text, u, u.start, u.end)
    /\ \/ u.source = text \/ u.occurrences = 1
       \/ u.occurrences = None /\ SameParent(u, parsed, u.start, u.end)

\* The parents in which the region keeps its place.
Follows(u, text, parsed) ==
    {p \in parsed.units : /\ u.parent # None /\ p.selector = u.parent
                          /\ IsReferent(text, u, p.start + u.relStart, p.start + u.relEnd)}

InPlace(u, text, parsed) ==
    /\ InBounds(text, u.start, u.end) /\ Surrounded(text, u, u.start, u.end)
    /\ SameParent(u, parsed, u.start, u.end)

MutAnchored(u, text) ==
    {at \in Occurrences(text, u.referent) :
        \A x \in Occurrences(text, u.referent) : at <= x}

Anchored(u, text) ==
    LET all == Occurrences(text, u.referent)
    IN IF Cardinality(all) = 1 THEN all
       ELSE {at \in all : Surrounded(text, u, at, at + Len(u.referent))}

Search(u, text, parsed) ==
    LET found == Anchored(u, text)
        span  == BracketSpan(text, u)
    IN IF Cardinality(found) = 1
       THEN LET at == Min(found) IN At("relocated", at, at + Len(u.referent))
       ELSE IF /\ span.status = "unique" /\ SameParent(u, parsed, span.start, span.end)
               /\ Similar(Slice(text, span.start, span.end), u.referent)
       THEN At("updated", span.start, span.end)
       ELSE Nowhere(IF Cardinality(Occurrences(text, u.referent)) > 1 \/ span.status = "ambiguous"
                    THEN "ambiguous" ELSE "invalidated")

RelocateRegion(u, text, parsed) ==
    IF Stays(u, text, parsed) THEN At("stable", u.start, u.end)
    ELSE IF Follows(u, text, parsed) # {}
    THEN LET p == CHOOSE x \in Follows(u, text, parsed) : TRUE
         IN At("relocated", p.start + u.relStart, p.start + u.relEnd)
    ELSE IF InPlace(u, text, parsed)
    THEN IF Similar(Slice(text, u.start, u.end), u.referent)
         THEN At("updated", u.start, u.end) ELSE Nowhere("invalidated")
    ELSE Search(u, text, parsed)

====

---- MODULE MCCurrentRegion ----
(* Files for TLC. Read while others write: three texts, two of one length.
   Searched: every region of a few texts in every text of up to six bytes
   over two letters and some longer ones, two of whose bytes are one character,
   with and without a parse. *)
EXTENDS CurrentRegion

Short == {<<1, 1>>, <<2, 2>>, <<1, 1, 1>>}

UpTo(n) == UNION {[1 .. k -> {1, 2}] : k \in 0 .. n}
Longer == {<<3, 1, 2, 4, 3, 1, 2, 4>>, <<1, 2, 4, 3, 1, 2, 4>>, <<3, 1, 2, 2, 4, 1, 2>>,
           <<4, 3, 1, 1, 2, 4, 1, 2, 3, 4>>, <<3, 1, 2, 4, 5, 1, 2, 6>>, <<3, 1, 2, 1, 2, 4, 4>>,
           <<5, 3, 1, 2, 4, 1, 2, 2, 4>>, <<5, 3, 1, 2, 4, 1, 1, 4, 1, 2, 4>>,
           <<5, 3, 1, 2, 4, 4, 1, 5, 4>>, <<5, 3, 1, 2, 4, 4, 1, 2, 4>>,
           <<3, 1, 8, 9, 2, 4>>, <<5, 3, 8, 9, 1, 4>>, <<3, 1, 8, 2, 4>>, <<5, 3, 8, 9, 2, 4, 9, 2, 4>>}
MCTexts == UpTo(6) \cup Longer

\* The bytes 8 and 9 are one character, and each alone an ill-formed one.
MCDecoded(text) ==
    LET pair(i) == i \in 1 .. Len(text) - 1 /\ text[i] = 8 /\ text[i + 1] = 9
        code(i) == IF pair(i) THEN 10 ELSE IF pair(i - 1) THEN 0
                   ELSE IF text[i] \in {8, 9} THEN 11 ELSE text[i]
    IN SelectSeq([i \in 1 .. Len(text) |-> code(i)], LAMBDA c : c # 0)

\* A region as observed in a text, and as it is when a parent was found later.
Observed(t, s, e) ==
    LET a == AnchorsFor(t, s, e)
    IN [start |-> s, end |-> e, source |-> t, referent |-> Slice(t, s, e),
        occurrences |-> Cardinality(Occurrences(t, Slice(t, s, e))),
        prefix |-> a.prefix, suffix |-> a.suffix,
        parent |-> None, relStart |-> None, relEnd |-> None]
InParent(u) == [u EXCEPT !.parent = 1, !.relStart = u.start, !.relEnd = u.end]

Sources == {<<1, 2, 1>>, <<1, 1, 2, 2>>, <<3, 1, 2, 4>>, <<3, 1, 2, 4, 3, 1, 2, 4>>}
MCRegions ==
    LET seen == UNION {{Observed(t, s, e) : s \in 0 .. e - 1} : t \in Sources, e \in 1 .. 3}
                \cup {Observed(<<3, 1, 2, 4, 1, 2, 4>>, 1, 6), Observed(<<3, 1, 8, 9, 2, 4>>, 1, 5)}
    IN seen \cup {InParent(u) : u \in seen} \cup {[u EXCEPT !.occurrences = None] : u \in seen}

Function(start, end) == [selector |-> 1, start |-> start, end |-> end]
MCParses == {[ok |-> FALSE, units |-> {}], [ok |-> TRUE, units |-> {}],
             [ok |-> TRUE, units |-> {Function(0, 4)}], [ok |-> TRUE, units |-> {Function(1, 5)}]}
Call(u, p, t, r) == [unit |-> u, parsed |-> p, text |-> t, read |-> r]
Calls ==
    {Call(u, p, t, TRUE) : u \in MCRegions, p \in MCParses, t \in MCTexts}
    \cup {Call(Observed(<<1, 1>>, 0, 1), [ok |-> FALSE, units |-> {}], t, FALSE) : t \in Short}
====

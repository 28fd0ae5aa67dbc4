---- MODULE MCSession ----
(* Small sessions for TLC. Two files: one whole-file unit on each of two
   paths. Parts: a file with a symbol and a region that move, overlap and
   disappear as it is edited. One file: a single unit, for the runs about
   pending plans, failing writes and the clock. *)
EXTENDS SessionProperties

Span(s, e) == [start |-> s, end |-> e]

\* Two files ---------------------------------------------------------------
\* An edit makes a file unreadable or restores it; both results were observed
\* with a text that neither file holds any more.

FilesPath == {"a", "b"}
FilesPathBytes == [a |-> 1, b |-> 1]
FilesUnit == {1, 2}
FilesUnitPath == <<"a", "b">>
FilesUnitKind == <<"file", "file">>
FilesFileUnit == [a |-> 1, b |-> 2]
FilesOrigin == <<None, None>>
FilesContent == {<<1>>}
FilesSpans == [u \in FilesUnit |-> [c \in FilesContent |-> {}]]
FilesResult == {"r1", "r2"}
FilesObserveCall ==
    {[result |-> "r1", path |-> "a", text |-> <<2>>, range |-> None],
     [result |-> "r2", path |-> "b", text |-> <<2>>, range |-> None]}

\* Both rendered files take 20 bytes.
FilesPrepareCall ==
    {[request |-> "q1", results |-> {"r1", "r2"}, budget |-> 20, granularity |-> "region"]}

\* Parts of one file -------------------------------------------------------

PartsPath == {"a"}
PartsPathBytes == [a |-> 1]
PartsUnit == 1..3
PartsUnitPath == <<"a", "a", "a">>
PartsUnitKind == <<"file", "symbol", "region">>
PartsFileUnit == [a |-> 1]
PartsOrigin == <<None, None, <<2>>>>

\* In Near the region follows the symbol; in Mixed it has moved into it and
\* changed; in Gone neither is left.
Near == <<1, 1, 2>>
Mixed == <<5, 1, 3, 1>>
Gone == <<6>>
PartsContent == {Near, Mixed, Gone}
PartsSpans ==
    [u \in PartsUnit |-> [c \in PartsContent |->
        CASE u = 2 /\ c = Near -> {Span(0, 2)}
          [] u = 2 /\ c = Mixed -> {Span(1, 4)}
          [] u = 3 /\ c = Near -> {Span(2, 3)}
          [] u = 3 /\ c = Mixed -> {Span(2, 3)}
          [] OTHER -> {}]]
PartsResult == {"r1", "r2"}
PartsObserveCall ==
    {[result |-> "r1", path |-> "a", text |-> <<1, 1>>, range |-> Span(0, 2)],
     [result |-> "r2", path |-> "a", text |-> <<2>>, range |-> Span(2, 3)]}

\* The symbol takes 18 or 19 bytes, the region 17, the file 10 to 13.
PartsPrepareCall ==
    {[request |-> "q1", results |-> {"r1", "r2"}, budget |-> 35, granularity |-> "region"],
     [request |-> "q1", results |-> {"r1", "r2"}, budget |-> 35, granularity |-> "file"]}

\* One file ----------------------------------------------------------------

OneUnit == {1}
OneUnitPath == <<"a">>
OneUnitKind == <<"file">>
OneOrigin == <<None>>
OneContent == {<<1>>, <<2>>}
OneSpans == [u \in OneUnit |-> [c \in OneContent |-> {}]]
OneObserveCall == {[result |-> "r1", path |-> "a", text |-> <<1>>, range |-> None]}
OneCalls(Q) ==
    {[request |-> q, results |-> {"r1"}, budget |-> 20, granularity |-> "region"] : q \in Q}
OnePrepareCall == OneCalls({"q1", "q2"})
====

---- MODULE MCBuildProjection ----
(* Three candidate units over two paths: whole files, an empty file, nested,
   adjacent and crossing ranges, equal and different observation times, and
   budgets at, just below and just above the rendered sizes. *)
EXTENDS BuildProjection

CONSTANTS
    MaxUnits,  \* ids are 1..MaxUnits
    MaxTime    \* observation times are 1..MaxTime

MCPath == {"p", "qq"}
MCPathBytes == [p |-> 1, qq |-> 2]

\* Path p holds eleven bytes, so that a file header takes two digits, and qq
\* is an empty file.
Shape ==
    {[path |-> "p", kind |-> "file", start |-> 0, end |-> 11],
     [path |-> "p", kind |-> "symbol", start |-> 0, end |-> 4],
     [path |-> "p", kind |-> "region", start |-> 3, end |-> 6],
     [path |-> "p", kind |-> "region", start |-> 4, end |-> 5],
     [path |-> "qq", kind |-> "file", start |-> 0, end |-> 0]}

Made(i, s, t) == [id |-> i, path |-> s.path, kind |-> s.kind,
                  start |-> s.start, end |-> s.end, observedAt |-> t]

MCInput ==
    {{Made(i, f[i][1], f[i][2]) : i \in DOMAIN f} :
        f \in UNION {[I -> Shape \X (1..MaxTime)] : I \in SUBSET (1..MaxUnits)}}

\* Rendered sizes: 21 and 10 for the files, 20, 19 and 17 for the others. 37
\* just holds the symbol and the region behind it, 39 would hold two that
\* overlap.
MCBudget == {9, 10, 20, 21, 36, 37, 39}
====

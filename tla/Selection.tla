---- MODULE Selection ----
(***************************************************************************)
(* What buildProjection promises its caller, in one step: given units with *)
(* distinct ids and a byte budget, it answers with the newest-first greedy *)
(* selection and a reason for each unit left out.                          *)
(***************************************************************************)
EXTENDS Projection

VARIABLES
    units,      \* argument: the candidate units
    budget,     \* argument: budgetBytes
    selected,   \* result: the admitted units
    omitted,    \* result: the omissions, [unit, reason]
    bytes,      \* result: what the text takes
    done        \* whether the call has returned

vars == <<units, budget, selected, omitted, bytes, done>>

Reason == {"overlap", "budget"}

Init == /\ selected = {}
        /\ omitted = {}
        /\ bytes = 0
        /\ done = (units = {})

\* An omission names overlap whenever there is one, and budget only for a
\* unit that overlaps nothing admitted ahead of it.
Omissions(sel) ==
    {[unit |-> u,
      reason |-> IF \E s \in Ahead(sel, u) : UnitsOverlap(s, u)
                 THEN "overlap" ELSE "budget"] : u \in units \ sel}

Select ==
    /\ ~done
    /\ \E sel \in SUBSET units :
          /\ IsSelection(sel, units, budget)
          /\ selected' = sel
          /\ omitted' = Omissions(sel)
          /\ bytes' = Total(sel)
    /\ done' = TRUE
    /\ UNCHANGED <<units, budget>>

Next == Select

Spec == Init /\ [][Next]_vars

====

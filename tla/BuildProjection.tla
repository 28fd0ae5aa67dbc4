---- MODULE BuildProjection ----
(***************************************************************************)
(* buildProjection of src/projection.mjs, one step per unit of the ranked  *)
(* list: a unit overlapping an admitted one is omitted, then one that does *)
(* not fit in the remaining budget, and otherwise the unit is admitted.    *)
(***************************************************************************)
EXTENDS Projection

CONSTANTS
    Input,   \* the unit lists a caller may pass, as sets: ids are distinct
    Budget   \* the budgets a caller may pass (protocol: positive integers)

IsUnit(u) ==
    /\ u.path \in Path /\ u.kind \in Kind
    /\ u.start \in Nat /\ u.end \in Nat /\ u.start <= u.end
    /\ u.observedAt \in Nat /\ u.id \in Nat

ASSUME BudgetAssumption == Budget \subseteq Nat
ASSUME InputAssumption ==
    \A S \in Input : /\ IsFiniteSet(S)
                     /\ \A u \in S : IsUnit(u)
                     /\ \A u, v \in S : u.id = v.id => u = v

VARIABLES
    units,      \* the argument
    budget,     \* the argument budgetBytes
    todo,       \* the part of the ranked list the loop has not reached
    admitted,   \* units admitted so far
    omitted,    \* omissions so far, [unit, reason]
    remaining   \* budget bytes left

vars == <<units, budget, todo, admitted, omitted, remaining>>

Reason == {"overlap", "budget"}

Init == /\ units \in Input
        /\ budget \in Budget
        /\ todo = units
        /\ admitted = {}
        /\ omitted = {}
        /\ remaining = budget

MutIsNext(u) == u \in todo /\ \A v \in todo \ {u} : u.id < v.id

\* The next unit of the sorted copy.
IsNext(u) == u \in todo /\ \A v \in todo \ {u} : RanksBefore(u, v)

MutClashes(u) == \E a \in admitted : UnitsOverlap(a, u) /\ a.kind = u.kind

Clashes(u) == \E a \in admitted : UnitsOverlap(a, u)

MutOmit(u, reason) ==
    /\ omitted' = IF reason = "budget" THEN omitted
                  ELSE omitted \cup {[unit |-> u, reason |-> reason]}
    /\ UNCHANGED <<admitted, remaining>>

Omit(u, reason) ==
    /\ omitted' = omitted \cup {[unit |-> u, reason |-> reason]}
    /\ UNCHANGED <<admitted, remaining>>

OmitOverlap(u) == Clashes(u) /\ Omit(u, "overlap")

OmitBudget(u) ==
    /\ ~Clashes(u)
    /\ RenderedBytes(u) > remaining
    /\ Omit(u, "budget")

Admit(u) ==
    /\ ~Clashes(u)
    /\ RenderedBytes(u) <= remaining
    /\ admitted' = admitted \cup {u}
    /\ remaining' = remaining - RenderedBytes(u)
    /\ UNCHANGED omitted

Step(u) ==
    /\ IsNext(u)
    /\ todo' = todo \ {u}
    /\ OmitOverlap(u) \/ OmitBudget(u) \/ Admit(u)
    /\ UNCHANGED <<units, budget>>

Next == \E u \in units : Step(u)

Spec == Init /\ [][Next]_vars

---------------------------------------------------------------------------

\* Every unit the loop has passed is admitted or omitted with a reason, never
\* both (projection.mjs 25-38).
TypeOK ==
    /\ units \in Input
    /\ budget \in Budget
    /\ todo \subseteq units
    /\ admitted \subseteq units
    /\ omitted \subseteq [unit : units, reason : Reason]
    /\ units \ todo = admitted \cup {o.unit : o \in omitted}
    /\ \A o \in omitted : o.unit \notin admitted
    /\ remaining \in Int

\* What is left of the budget is what the admitted units leave of it.
Accounted == remaining = budget - Total(admitted)

\* No two admitted units show the same bytes, and the budget is never
\* overdrawn: projection.mjs omits on overlap and compares before it
\* subtracts.
SoundProjection ==
    /\ remaining >= 0
    /\ \A a, b \in admitted : a # b => ~UnitsOverlap(a, b)

\* Seen from its caller the loop is one step that answers with the greedy
\* newest-first selection, the right reason for every unit left out, and the
\* bytes of the text.
Promise == INSTANCE Selection
    WITH done     <- todo = {},
         selected <- IF todo = {} THEN admitted ELSE {},
         omitted  <- IF todo = {} THEN omitted ELSE {},
         bytes    <- IF todo = {} THEN budget - remaining ELSE 0

ImplementsSelection == Promise!Spec

====

---- MODULE BuildProjectionProofs ----
(***************************************************************************)
(* For every set of inputs and budgets: the loop of buildProjection keeps  *)
(* its types, never overdraws the budget, never admits two units that show *)
(* the same bytes, and implements the selection of Selection.              *)
(***************************************************************************)
EXTENDS BuildProjection, FiniteSetTheorems, TLAPS

\* The rendered length of a well-formed unit is a natural number.
LEMMA RenderedBytesType ==
    ASSUME NEW u, IsUnit(u)
    PROVE  RenderedBytes(u) \in Nat
<1> DEFINE places == {d \in 1..5 : 10^d <= u.end - u.start}
<1>1. IsFiniteSet(places)
  <2>1. IsFiniteSet(1..5)
    BY 1 \in Int, 5 \in Int, FS_Interval, Zenon
  <2>2. places \subseteq 1..5
    OBVIOUS
  <2> HIDE DEF places
  <2> QED BY <2>1, <2>2, FS_Subset
<1>2. Cardinality(places) \in Nat
  BY <1>1, FS_CardinalityType
<1>3. Digits(u.end - u.start) \in Nat
  BY <1>2 DEF Digits
<1>4. PathBytes[u.path] \in Nat
  BY PathAssumption DEF IsUnit
<1>5. u.end - u.start \in Nat
  BY DEF IsUnit
<1> QED
  BY <1>3, <1>4, <1>5 DEF RenderedBytes, HeaderBytes

\* Overlap does not depend on which unit was admitted first.
LEMMA OverlapSymmetric ==
    ASSUME NEW l, NEW r
    PROVE  UnitsOverlap(l, r) <=> UnitsOverlap(r, l)
BY DEF UnitsOverlap

\* The inductive invariant: the checked ones together. SoundProjection needs
\* TypeOK for the integer arithmetic on the remaining bytes.
IInv == TypeOK /\ SoundProjection

LEMMA InitIInv == Init => IInv
BY BudgetAssumption DEF Init, IInv, TypeOK, SoundProjection

\* A step over one unit keeps the invariant: one case per outcome of the loop
\* body.
LEMMA StepIInv ==
    ASSUME IInv, NEW u \in units, Step(u)
    PROVE  IInv'
<1> USE DEF IInv, TypeOK, Step
<1>1. u \in todo /\ todo' = todo \ {u} /\ u \notin admitted /\ \A o \in omitted : o.unit # u
  BY DEF IsNext
<1>2. ASSUME NEW r \in Reason, Omit(u, r) PROVE IInv'
  <2>1. {o.unit : o \in omitted'} = {o.unit : o \in omitted} \cup {u}
    <3> DEFINE new == [unit |-> u, reason |-> r]
    <3>1. omitted' = omitted \cup {new} /\ new.unit = u
      BY <1>2 DEF Omit
    <3> HIDE DEF new
    <3> QED BY ONLY <3>1
  <2>2. [unit |-> u, reason |-> r] \in [unit : units, reason : Reason]
    OBVIOUS
  <2> QED BY <1>1, <1>2, <2>1, <2>2 DEF Omit, SoundProjection
<1>3. CASE OmitOverlap(u) \/ OmitBudget(u)
  BY <1>2, <1>3 DEF OmitOverlap, OmitBudget, Reason
<1>4. CASE Admit(u)
  <2>1. RenderedBytes(u) \in Nat
    BY InputAssumption, RenderedBytesType
  <2>2. TypeOK'
    BY <1>1, <1>4, <2>1 DEF Admit, Reason
  <2>3. remaining' >= 0
    BY <1>4, <2>1 DEF Admit
  <2>4. \A a, b \in admitted' : a # b => ~UnitsOverlap(a, b)
    <3> SUFFICES ASSUME NEW a \in admitted', NEW b \in admitted', a # b
                 PROVE  ~UnitsOverlap(a, b)
      OBVIOUS
    <3>1. CASE a = u
      BY <1>4, <3>1, OverlapSymmetric DEF Admit, Clashes
    <3>2. CASE b = u
      BY <1>4, <3>2 DEF Admit, Clashes
    <3>3. CASE a # u /\ b # u
      BY <1>4, <3>3 DEF Admit, SoundProjection
    <3> QED BY <3>1, <3>2, <3>3
  <2> QED BY <2>2, <2>3, <2>4 DEF SoundProjection
<1> QED BY <1>2, <1>3, <1>4

LEMMA NextIInv == IInv /\ [Next]_vars => IInv'
<1> SUFFICES ASSUME IInv, [Next]_vars PROVE IInv'
  OBVIOUS
<1>1. CASE Next
  BY <1>1, StepIInv DEF Next
<1>2. CASE UNCHANGED vars
  BY <1>2 DEF vars, IInv, TypeOK, SoundProjection
<1> QED BY <1>1, <1>2

\* buildProjection stays within its budget and admits disjoint units, whatever
\* units, paths and budgets it is called with.
THEOREM ProjectionIsSound == Spec => []SoundProjection
<1>1. IInv => SoundProjection
  BY DEF IInv
<1> QED BY <1>1, InitIInv, NextIInv, PTL DEF Spec

---------------------------------------------------------------------------
\* The bytes of a set of units. Total is a fold, so that what it computes is
\* shown by induction over finite sets: a smallest set it is wrong about.

\* The unit the fold takes first, and the function it computes with.
Pick(s) == CHOOSE x \in s : TRUE
Sums(S, F) ==
    F = [s \in SUBSET S |->
            IF s = {} THEN 0 ELSE RenderedBytes(Pick(s)) + F[s \ {Pick(s)}]]

\* A nonempty set of finite sets has a smallest one.
LEMMA SmallestSubset ==
    ASSUME NEW S, IsFiniteSet(S), NEW T, T \subseteq SUBSET S, T # {}
    PROVE  \E A \in T : \A B \in T : B \subseteq A => B = A
<1>1. T \subseteq FiniteSubsetsOf(S)
  BY FS_Subset DEF FiniteSubsetsOf
<1>2. PICK A \in T : \A B \in T : ~(<<B, A>> \in StrictSubsetOrdering(S))
  BY <1>1, FS_StrictSubsetOrderingWellFounded, WFMin
<1> QED BY <1>2 DEF StrictSubsetOrdering

LEMMA TotalIsChosen == ASSUME NEW S PROVE Total(S) = (CHOOSE F : Sums(S, F))[S]
BY DEF Total, MapThenSumSet, MapThenFoldSet, Sums, Pick

LEMMA PickIn == ASSUME NEW S, S # {} PROVE Pick(S) \in S
BY DEF Pick

LEMMA SumsAt ==
    ASSUME NEW S, NEW F, Sums(S, F), NEW s, s \subseteq S
    PROVE  F[s] = IF s = {} THEN 0 ELSE RenderedBytes(Pick(s)) + F[s \ {Pick(s)}]
BY DEF Sums

\* Two sums agree where both are defined.
LEMMA SumsAgree ==
    ASSUME NEW S, IsFiniteSet(S), NEW A, NEW F, Sums(A, F), NEW B, NEW G, Sums(B, G),
           S \subseteq A, S \subseteq B
    PROVE  F[S] = G[S]
<1> DEFINE bad == {s \in SUBSET S : F[s] # G[s]}
<1> SUFFICES ASSUME bad # {} PROVE FALSE
  OBVIOUS
<1>1. PICK s \in bad : \A t \in bad : t \subseteq s => t = s
  <2>1. bad \subseteq SUBSET S
    OBVIOUS
  <2> HIDE DEF bad
  <2> QED BY <2>1, SmallestSubset
<1>2. s \subseteq A /\ s \subseteq B
  OBVIOUS
<1>3. /\ F[s] = IF s = {} THEN 0 ELSE RenderedBytes(Pick(s)) + F[s \ {Pick(s)}]
      /\ G[s] = IF s = {} THEN 0 ELSE RenderedBytes(Pick(s)) + G[s \ {Pick(s)}]
  BY <1>2, SumsAt
<1>4. CASE s = {}
  BY <1>3, <1>4
<1>5. CASE s # {}
  <2>1. s \ {Pick(s)} \notin bad
    BY <1>1, <1>5, PickIn
  <2> QED BY <1>3, <1>5, <2>1
<1> QED BY <1>4, <1>5

\* What Total adds, as far as such a function is known to exist.
LEMMA SumsStep ==
    ASSUME NEW S, IsFiniteSet(S), \A s \in SUBSET S : \E F : Sums(s, F)
    PROVE  Total(S) = IF S = {} THEN 0 ELSE RenderedBytes(Pick(S)) + Total(S \ {Pick(S)})
<1>1. PICK F : F = CHOOSE G : Sums(S, G)
  OBVIOUS
<1>2. Sums(S, F) /\ Total(S) = F[S]
  BY <1>1, TotalIsChosen
<1>3. F[S] = IF S = {} THEN 0 ELSE RenderedBytes(Pick(S)) + F[S \ {Pick(S)}]
  BY <1>2, SumsAt
<1>4. PICK R : R = S \ {Pick(S)}
  OBVIOUS
<1>5. PICK H : H = CHOOSE G : Sums(R, G)
  OBVIOUS
<1>6. Sums(R, H) /\ Total(R) = H[R]
  BY <1>4, <1>5, TotalIsChosen
<1>7. IsFiniteSet(R) /\ R \subseteq S /\ R \subseteq R
  BY <1>4, FS_Subset
<1>8. F[R] = H[R]
  BY <1>2, <1>6, <1>7, SumsAgree
<1> QED BY <1>2, <1>3, <1>4, <1>6, <1>8

\* There is one for every finite set.
LEMMA SumsExist == ASSUME NEW S, IsFiniteSet(S) PROVE \E F : Sums(S, F)
<1> DEFINE bad == {s \in SUBSET S : ~\E F : Sums(s, F)}
<1> SUFFICES ASSUME bad # {} PROVE FALSE
  OBVIOUS
<1>1. PICK A \in bad : \A B \in bad : B \subseteq A => B = A
  <2>1. bad \subseteq SUBSET S
    OBVIOUS
  <2> HIDE DEF bad
  <2> QED BY <2>1, SmallestSubset
<1>2. A \subseteq S /\ ~\E F : Sums(A, F)
  OBVIOUS
<1>3. ASSUME NEW s \in SUBSET A, s # A
      PROVE  Total(s) = IF s = {} THEN 0 ELSE RenderedBytes(Pick(s)) + Total(s \ {Pick(s)})
  <2>1. \A t \in SUBSET s : \E F : Sums(t, F)
    BY <1>1, <1>2, <1>3
  <2>2. IsFiniteSet(s)
    BY <1>2, FS_Subset
  <2> HIDE DEF bad
  <2> QED BY <2>1, <2>2, SumsStep
<1> DEFINE F == [s \in SUBSET A |->
                    IF s = A THEN IF A = {} THEN 0 ELSE RenderedBytes(Pick(A)) + Total(A \ {Pick(A)})
                             ELSE Total(s)]
<1> HIDE DEF bad
<1>4. ASSUME NEW s \in SUBSET A
      PROVE  F[s] = IF s = {} THEN 0 ELSE RenderedBytes(Pick(s)) + F[s \ {Pick(s)}]
  <2>1. s # {} => s \ {Pick(s)} \in SUBSET A /\ s \ {Pick(s)} # A
    BY PickIn
  <2>2. s # {} => F[s \ {Pick(s)}] = Total(s \ {Pick(s)})
    BY <2>1
  <2>3. CASE s = A
    BY <2>2, <2>3
  <2>4. CASE s # A
    BY <1>3, <2>2, <2>4
  <2> QED BY <2>3, <2>4
<1>5. Sums(A, F)
  BY <1>4 DEF Sums
<1> QED BY <1>2, <1>5

\* What Total computes.
LEMMA TotalStep ==
    ASSUME NEW S, IsFiniteSet(S)
    PROVE  Total(S) = IF S = {} THEN 0 ELSE RenderedBytes(Pick(S)) + Total(S \ {Pick(S)})
BY SumsExist, SumsStep, FS_Subset

LEMMA TotalType ==
    ASSUME NEW S, IsFiniteSet(S), \A u \in S : RenderedBytes(u) \in Nat
    PROVE  Total(S) \in Nat
<1> DEFINE bad == {s \in SUBSET S : Total(s) \notin Nat}
<1> SUFFICES ASSUME bad # {} PROVE FALSE
  OBVIOUS
<1>1. PICK s \in bad : \A t \in bad : t \subseteq s => t = s
  <2>1. bad \subseteq SUBSET S
    OBVIOUS
  <2> HIDE DEF bad
  <2> QED BY <2>1, SmallestSubset
<1>2. Total(s) = IF s = {} THEN 0 ELSE RenderedBytes(Pick(s)) + Total(s \ {Pick(s)})
  BY TotalStep, FS_Subset
<1>3. s # {}
  BY <1>2
<1>4. Pick(s) \in s /\ s \ {Pick(s)} \notin bad
  BY <1>1, <1>3, PickIn
<1> QED BY <1>2, <1>3, <1>4

\* Any unit's bytes can be taken out of a total, or put in.
LEMMA TotalWithout ==
    ASSUME NEW S, IsFiniteSet(S), \A u \in S : RenderedBytes(u) \in Nat
    PROVE  \A u \in S : Total(S) = Total(S \ {u}) + RenderedBytes(u)
<1> DEFINE bad == {s \in SUBSET S : \E u \in s : Total(s) # Total(s \ {u}) + RenderedBytes(u)}
<1> SUFFICES ASSUME bad # {} PROVE FALSE
  OBVIOUS
<1>1. PICK s \in bad : \A t \in bad : t \subseteq s => t = s
  <2>1. bad \subseteq SUBSET S
    OBVIOUS
  <2> HIDE DEF bad
  <2> QED BY <2>1, SmallestSubset
<1>2. PICK u \in s : Total(s) # Total(s \ {u}) + RenderedBytes(u)
  OBVIOUS
<1>3. PICK v : v = Pick(s)
  OBVIOUS
<1>4. u \in s /\ v \in s /\ s \subseteq S
  BY <1>3, PickIn
<1>5. \A t : t \subseteq s => IsFiniteSet(t) /\ Total(t) \in Nat
  BY <1>4, TotalType, FS_Subset
<1>6. RenderedBytes(u) \in Nat /\ RenderedBytes(v) \in Nat
  BY <1>4
<1>7. ASSUME NEW t \in SUBSET s, t # s, NEW x \in t
      PROVE  Total(t) = Total(t \ {x}) + RenderedBytes(x)
  BY <1>1, <1>4, <1>7
<1> HIDE DEF bad
<1>8. Total(s) = RenderedBytes(v) + Total(s \ {v})
  BY <1>3, <1>4, <1>5, TotalStep
<1>9. u # v
  BY <1>2, <1>5, <1>6, <1>8
<1>10. PICK t : t = s \ {u, v}
  OBVIOUS
<1>11. Total(s \ {v}) = Total(t) + RenderedBytes(u)
  <2>1. s \ {v} \in SUBSET s /\ s \ {v} # s /\ u \in s \ {v} /\ (s \ {v}) \ {u} = t
    BY <1>4, <1>9, <1>10
  <2> QED BY <1>7, <2>1
<1>12. Total(s \ {u}) = Total(t) + RenderedBytes(v)
  <2>1. s \ {u} \in SUBSET s /\ s \ {u} # s /\ v \in s \ {u} /\ (s \ {u}) \ {v} = t
    BY <1>4, <1>9, <1>10
  <2> QED BY <1>7, <2>1
<1>13. Total(t) \in Nat
  BY <1>5, <1>10
<1> QED BY <1>2, <1>6, <1>8, <1>11, <1>12, <1>13

LEMMA TotalWith ==
    ASSUME NEW S, IsFiniteSet(S), \A u \in S : RenderedBytes(u) \in Nat,
           NEW u, RenderedBytes(u) \in Nat, u \notin S
    PROVE  Total(S \cup {u}) = Total(S) + RenderedBytes(u)
<1>1. PICK T : T = S \cup {u}
  OBVIOUS
<1>2. IsFiniteSet(T) /\ u \in T /\ T \ {u} = S /\ \A v \in T : RenderedBytes(v) \in Nat
  BY <1>1, FS_AddElement
<1> QED BY <1>1, <1>2, TotalWithout
---------------------------------------------------------------------------
\* The refinement. What the loop has decided is what Selection decides of the
\* units it has passed, since no unit it has yet to reach ranks before them.

Passed == units \ todo

InOrder == \A u \in Passed, v \in todo : RanksBefore(u, v)

Admissible(u) ==
    /\ \A s \in Ahead(admitted, u) : ~UnitsOverlap(s, u)
    /\ Total(Ahead(admitted, u)) + RenderedBytes(u) <= budget

Greedy == admitted \subseteq Passed /\ \A u \in Passed : u \in admitted <=> Admissible(u)

Because(u) ==
    [unit |-> u, reason |-> IF \E s \in Ahead(admitted, u) : UnitsOverlap(s, u)
                            THEN "overlap" ELSE "budget"]

Explained == omitted = {Because(u) : u \in Passed \ admitted}

RInv == IInv /\ InOrder /\ Accounted /\ Greedy /\ Explained

LEMMA RankingIsStrict ==
    ASSUME NEW S \in Input, NEW u \in S, NEW v \in S
    PROVE  ~(RanksBefore(u, v) /\ RanksBefore(v, u))
BY InputAssumption DEF RanksBefore, IsUnit

LEMMA Rendered ==
    ASSUME IInv
    PROVE  /\ \A u \in units : RenderedBytes(u) \in Nat
           /\ \A S \in SUBSET units : IsFiniteSet(S)
<1>1. units \in Input
  BY DEF IInv, TypeOK
<1>2. \A u \in units : RenderedBytes(u) \in Nat
  BY <1>1, InputAssumption, RenderedBytesType
<1>3. \A S \in SUBSET units : IsFiniteSet(S)
  BY <1>1, InputAssumption, FS_Subset
<1> QED BY <1>2, <1>3

LEMMA InitRInv == Init => RInv
<1> SUFFICES ASSUME Init PROVE RInv
  OBVIOUS
<1>1. Total({}) = 0
  BY TotalStep, FS_EmptySet
<1>2. budget \in Nat
  BY BudgetAssumption DEF Init
<1>3. Passed = {} /\ omitted = {} /\ admitted = {}
  BY DEF Init, Passed
<1>4. Explained
  BY <1>3 DEF Explained
<1> QED BY <1>1, <1>2, <1>3, <1>4, InitIInv DEF Init, RInv, InOrder, Accounted, Greedy

\* The unit a step takes is behind all those passed and ahead of the rest.
LEMMA StepRanks ==
    ASSUME RInv, NEW x \in units, Step(x)
    PROVE  /\ Passed' = Passed \cup {x} /\ x \notin Passed /\ x \notin admitted
           /\ Ahead(admitted, x) = admitted /\ Ahead(admitted', x) = admitted
           /\ \A u \in Passed : Ahead(admitted', u) = Ahead(admitted, u)
           /\ admitted' \in {admitted, admitted \cup {x}}
<1>1. units \in Input /\ todo \subseteq units /\ admitted \subseteq Passed /\ Passed \subseteq units
  BY DEF RInv, IInv, TypeOK, Greedy, Passed
<1>2. x \in todo /\ todo' = todo \ {x} /\ units' = units
  BY DEF Step, IsNext
<1>3. \A u \in Passed : RanksBefore(u, x)
  BY <1>2 DEF RInv, InOrder
<1>4. \A u \in Passed \cup {x} : ~RanksBefore(x, u)
  BY <1>1, <1>3, RankingIsStrict
<1>5. admitted' \in {admitted, admitted \cup {x}}
  BY DEF Step, OmitOverlap, OmitBudget, Omit, Admit
<1>6. Passed' = Passed \cup {x} /\ x \notin Passed /\ x \notin admitted
  BY <1>1, <1>2 DEF Passed
<1>7. Ahead(admitted, x) = admitted
  BY <1>1, <1>3 DEF Ahead
<1>8. Ahead(admitted', x) = admitted
  BY <1>1, <1>3, <1>4, <1>5 DEF Ahead
<1>9. \A u \in Passed : Ahead(admitted', u) = Ahead(admitted, u)
  BY <1>4, <1>5 DEF Ahead
<1> QED BY <1>5, <1>6, <1>7, <1>8, <1>9

LEMMA StepRInv ==
    ASSUME RInv, NEW x \in units, Step(x)
    PROVE  RInv'
<1>1. IInv'
  BY StepIInv DEF RInv
<1>2. units' = units /\ budget' = budget /\ x \in todo /\ todo' = todo \ {x}
  BY DEF Step, IsNext
<1>3. InOrder'
  BY <1>2, StepRanks DEF RInv, InOrder, Step, IsNext
<1>4. budget \in Nat /\ remaining \in Int /\ IsFiniteSet(admitted)
      /\ RenderedBytes(x) \in Nat /\ \A u \in admitted : RenderedBytes(u) \in Nat
  BY Rendered, BudgetAssumption DEF RInv, IInv, TypeOK
<1>5. Total(admitted) \in Nat /\ Total(admitted \cup {x}) = Total(admitted) + RenderedBytes(x)
  BY <1>4, StepRanks, TotalType, TotalWith
<1>6. \/ /\ admitted' = admitted \cup {x} /\ omitted' = omitted
         /\ remaining' = remaining - RenderedBytes(x)
         /\ ~Clashes(x) /\ RenderedBytes(x) <= remaining
      \/ /\ admitted' = admitted /\ remaining' = remaining
         /\ \/ Clashes(x) /\ Omit(x, "overlap")
            \/ ~Clashes(x) /\ ~(RenderedBytes(x) <= remaining) /\ Omit(x, "budget")
  BY <1>4 DEF Step, OmitOverlap, OmitBudget, Omit, Admit
<1>12. Accounted'
  <2>1. remaining = budget - Total(admitted)
    BY DEF RInv, Accounted
  <2>2. remaining' = budget - Total(admitted')
    <3>1. CASE admitted' = admitted \cup {x} /\ remaining' = remaining - RenderedBytes(x)
      BY <1>4, <1>5, <2>1, <3>1
    <3>2. CASE admitted' = admitted /\ remaining' = remaining
      BY <2>1, <3>2
    <3> QED BY <1>6, <3>1, <3>2
  <2> QED BY <1>2, <2>2 DEF Accounted
\* Of the unit itself, the loop's tests are Selection's.
<1>7. x \in admitted' <=> ~Clashes(x) /\ RenderedBytes(x) <= remaining
  <2>1. x \notin admitted
    BY StepRanks
  <2> QED BY <1>6, <2>1
<1>8. Admissible(x)' <=> ~Clashes(x) /\ RenderedBytes(x) <= remaining
  <2>1. remaining = budget - Total(admitted)
    BY DEF RInv, Accounted
  <2>2. Admissible(x)' <=> /\ \A s \in admitted : ~UnitsOverlap(s, x)
                           /\ Total(admitted) + RenderedBytes(x) <= budget
    BY <1>2, StepRanks DEF Admissible
  <2> QED BY <1>4, <1>5, <2>1, <2>2 DEF Clashes
<1>9. \A u \in Passed : (Admissible(u)' <=> Admissible(u)) /\ Because(u)' = Because(u)
  BY <1>2, StepRanks DEF Admissible, Because
<1>10. Greedy'
  BY <1>7, <1>8, <1>9, StepRanks DEF RInv, Greedy
<1>11. Explained'
  <2>1. CASE admitted' = admitted
    <3>1. x \notin admitted' /\ Ahead(admitted', x) = admitted
      BY <2>1, StepRanks
    <3>2. omitted' = omitted \cup {Because(x)'}
      BY <1>6, <3>1 DEF Because, Omit, Clashes
    <3>3. (Passed \ admitted)' = (Passed \ admitted) \cup {x}
      BY <2>1, StepRanks
    <3> QED BY <1>9, <3>2, <3>3 DEF RInv, Explained
  <2>2. CASE admitted' = admitted \cup {x}
    <3>1. omitted' = omitted
      BY <1>6, <2>2, StepRanks
    <3>2. (Passed \ admitted)' = Passed \ admitted
      BY <2>2, StepRanks
    <3> QED BY <1>9, <3>1, <3>2 DEF RInv, Explained
  <2> QED BY <2>1, <2>2, StepRanks
<1> QED BY <1>1, <1>3, <1>12, <1>10, <1>11 DEF RInv

LEMMA NextRInv == RInv /\ [Next]_vars => RInv'
<1> SUFFICES ASSUME RInv, [Next]_vars PROVE RInv'
  OBVIOUS
<1>1. CASE Next
  BY <1>1, StepRInv DEF Next
<1>2. CASE UNCHANGED vars
  BY <1>2, NextIInv DEF vars, RInv, InOrder, Accounted, Greedy, Explained, Passed, Admissible,
     Because
<1> QED BY <1>1, <1>2

\* The loop loses no unit and no byte: each unit it has passed is either admitted
\* or omitted with a reason, never both, and what remains of the budget is the
\* budget less the rendered bytes of the admitted units (projection.mjs 25-38).
THEOREM ProjectionTypes == Spec => [](TypeOK /\ Accounted)
<1>1. RInv => TypeOK /\ Accounted
  BY DEF RInv, IInv
<1> QED BY <1>1, InitRInv, NextRInv, PTL DEF Spec

\* The vocabulary Selection sees is the same.
LEMMA SameWords ==
    /\ \A u : Promise!RenderedBytes(u) = RenderedBytes(u)
    /\ \A S : Promise!Total(S) = Total(S)
    /\ \A l, r : Promise!UnitsOverlap(l, r) <=> UnitsOverlap(l, r)
    /\ \A S, u : Promise!Ahead(S, u) = Ahead(S, u)
<1>1. \A n : Promise!Digits(n) = Digits(n)
  BY DEF Promise!Digits, Digits, Promise!Cardinality, Cardinality, Promise!IsFiniteSet, IsFiniteSet
<1>2. \A u : Promise!RenderedBytes(u) = RenderedBytes(u)
  BY <1>1 DEF Promise!RenderedBytes, RenderedBytes, Promise!HeaderBytes, HeaderBytes
<1>3. \A l, r : Promise!UnitsOverlap(l, r) <=> UnitsOverlap(l, r)
  BY DEF Promise!UnitsOverlap, UnitsOverlap
<1>4. \A S, u : Promise!Ahead(S, u) = Ahead(S, u)
  BY DEF Promise!Ahead, Ahead, Promise!RanksBefore, RanksBefore
<1>5. \A S : Promise!Total(S) = Total(S)
  <2>1. TAKE S
  <2>2. Promise!Total(S) = (CHOOSE F : F = [s \in SUBSET S |->
            IF s = {} THEN 0
            ELSE Promise!RenderedBytes(CHOOSE x \in s : TRUE) + F[s \ {CHOOSE x \in s : TRUE}]])[S]
    BY DEF Promise!Total, Promise!MapThenSumSet, Promise!MapThenFoldSet
  <2>3. \A F : F = [s \in SUBSET S |->
            IF s = {} THEN 0
            ELSE Promise!RenderedBytes(CHOOSE x \in s : TRUE) + F[s \ {CHOOSE x \in s : TRUE}]]
        <=> Sums(S, F)
    BY <1>2 DEF Sums, Pick
  <2> QED BY <2>2, <2>3, TotalIsChosen
<1> QED BY <1>2, <1>3, <1>4, <1>5

\* When the loop ends, its decisions are a selection of all the units.
Answered ==
    todo = {} =>
        /\ Promise!IsSelection(admitted, units, budget)
        /\ admitted \in SUBSET units
        /\ omitted = Promise!Omissions(admitted)
        /\ budget - remaining = Promise!Total(admitted)

LEMMA LoopAnswers == RInv => Answered
<1> SUFFICES ASSUME RInv, todo = {}
             PROVE  /\ Promise!IsSelection(admitted, units, budget)
                    /\ admitted \in SUBSET units
                    /\ omitted = Promise!Omissions(admitted)
                    /\ budget - remaining = Promise!Total(admitted)
  BY DEF Answered
<1>1. Passed = units
  BY DEF Passed
<1>2. Promise!IsSelection(admitted, units, budget)
  BY <1>1, SameWords DEF RInv, Greedy, Admissible, Promise!IsSelection
<1>3. omitted = Promise!Omissions(admitted)
  BY <1>1, SameWords DEF RInv, Explained, Because, Promise!Omissions
<1>4. budget - remaining = Promise!Total(admitted)
  <2>1. budget \in Nat /\ Total(admitted) \in Nat
    BY Rendered, TotalType, BudgetAssumption DEF RInv, IInv, TypeOK
  <2> QED BY <2>1, SameWords DEF RInv, Accounted
<1> QED BY <1>1, <1>2, <1>3, <1>4 DEF RInv, Greedy

\* The loop of buildProjection answers, for every input and budget, with the
\* greedy newest-first selection, a true reason for each unit left out and the
\* length of its text: it implements Selection.
THEOREM ProjectionIsGreedy == Spec => ImplementsSelection
<1>1. Init => Promise!Init
  BY BudgetAssumption DEF Init, Promise!Init
<1>2. Answered' /\ [Next]_vars => [Promise!Next]_(Promise!vars)
  <2> SUFFICES ASSUME Answered', [Next]_vars PROVE [Promise!Next]_(Promise!vars)
    OBVIOUS
  <2>1. CASE UNCHANGED vars
    BY <2>1 DEF vars, Promise!vars
  <2>2. ASSUME NEW x \in units, Step(x) PROVE [Promise!Next]_(Promise!vars)
    <3>1. todo # {} /\ units' = units /\ budget' = budget
      BY <2>2 DEF Step, IsNext
    <3>2. CASE todo' # {}
      BY <3>1, <3>2 DEF Promise!vars
    <3>3. CASE todo' = {}
      BY <3>1, <3>3 DEF Answered, Promise!Next, Promise!Select, Promise!Omissions
    <3> QED BY <3>2, <3>3
  <2> QED BY <2>1, <2>2 DEF Next
<1> QED BY <1>1, <1>2, InitRInv, NextRInv, LoopAnswers, PTL DEF Spec, ImplementsSelection, Promise!Spec

====

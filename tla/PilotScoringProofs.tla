-------------------------- MODULE PilotScoringProofs --------------------------
(* Proofs about PilotScoring: on a list with every arm of every case once, the   *)
(* gate's checks on sums and its checks on pairs cannot disagree, however long   *)
(* the list grew and whatever its outcomes are.                                  *)
EXTENDS PilotScoring, FiniteSetTheorems, TLAPS

ArmNames == Controls \union {"treatment"}
Results == Outcomes({"none"}) \union Outcomes({"open", "closed"})
References == [ordinal : Ordinals, case : Cases, arm : ArmNames, outcome : Results]

\* The references are those of cells of the schedule.
ScoringTypeOK == results \in Seq(References)

--------------------------------------------------------------------------------
\* A cell of the schedule belongs to a case and an arm of the plan.
LEMMA ScheduledCells ==
  \A o \in Ordinals : CaseOf(o) \in Cases /\ ArmOf(o) \in ArmNames
<1> SUFFICES ASSUME NEW o \in Ordinals
             PROVE  CaseOf(o) \in Cases /\ ArmOf(o) \in ArmNames
  OBVIOUS
<1>1. CaseCount \in 1 .. 3
  BY ScoringAssumption
<1>2. CaseOf(o) \in Cases
  BY <1>1 DEF CaseOf, Cases, Ordinals, CellCount
<1>3. CaseOf(o) \in {1, 2, 3} /\ PositionOf(o) \in {1, 2, 3}
  BY <1>1, <1>2 DEF Cases, PositionOf, Ordinals, CellCount
<1>4. \A c, p \in {1, 2, 3} : Rotations[c][p] \in ArmNames
  BY DEF Rotations, Arms, ArmNames, Controls
<1>. QED BY <1>2, <1>3, <1>4 DEF ArmOf

\* Only references of scheduled cells are ever in the list.
LEMMA ListsAreTyped == Spec => []ScoringTypeOK
<1>1. Init => ScoringTypeOK
  BY DEF Init, ScoringTypeOK
<1>2. ScoringTypeOK /\ [Next]_vars => ScoringTypeOK'
  <2> SUFFICES ASSUME ScoringTypeOK, [Next]_vars
               PROVE  ScoringTypeOK'
    OBVIOUS
  <2>1. CellCount \in Nat /\ (LastOrdinal = 0 \/ LastOrdinal \in Ordinals)
    <3>1. CellCount \in Nat
      BY ScoringAssumption DEF CellCount
    <3>2. results # <<>> => results[Len(results)] \in References
      BY DEF ScoringTypeOK
    <3>3. \A r \in References : r.ordinal \in Ordinals
      BY DEF References
    <3>. QED BY <3>1, <3>2, <3>3 DEF LastOrdinal
  <2>2. \A o \in Ordinals, outcome \in Results : Ref(o, outcome) \in References
    BY ScheduledCells DEF Ref, References
  <2>3. \A o : OutcomesOf(o) \subseteq Results
    BY ScoringAssumption DEF OutcomesOf, Results
  <2>4. CASE RecordResult
    <3>1. LastOrdinal + 1 \in Ordinals
      BY <2>1, <2>4 DEF RecordResult, Ordinals
    <3>. QED BY <2>2, <2>3, <2>4, <3>1 DEF RecordResult, ScoringTypeOK
  <2>5. CASE /\ LastOrdinal + 2 <= CellCount
             /\ \E outcome \in OutcomesOf(LastOrdinal + 2) :
                  results' = Append(results, Ref(LastOrdinal + 2, outcome))
    <3>1. LastOrdinal + 2 \in Ordinals
      BY <2>1, <2>5 DEF Ordinals
    <3>. QED BY <2>2, <2>3, <2>5, <3>1 DEF ScoringTypeOK
  <2>6. CASE results # <<>> /\ results' = Append(results, results[Len(results)])
    BY <2>6 DEF ScoringTypeOK
  <2>7. CASE UNCHANGED vars
    BY <2>7 DEF vars, ScoringTypeOK
  <2>. QED BY <2>4, <2>5, <2>6, <2>7 DEF Next, HandInIrregularly
<1>. QED BY <1>1, <1>2, PTL DEF Spec

--------------------------------------------------------------------------------
\* A list of references is finite, and each of them is of a case of the plan.
LEMMA ListsAreFinite ==
  ASSUME NEW refs \in Seq(References)
  PROVE  /\ IsFiniteSet(DOMAIN refs)
         /\ \A i \in DOMAIN refs : refs[i].case \in Cases
<1>1. DOMAIN refs = 1 .. Len(refs) /\ Len(refs) \in Int /\ 1 \in Int
  OBVIOUS
<1>2. IsFiniteSet(1 .. Len(refs))
  BY <1>1, FS_Interval
<1>3. \A i \in DOMAIN refs : refs[i] \in References
  OBVIOUS
<1>4. \A r \in References : r.case \in Cases
  BY DEF References
<1>. QED BY <1>1, <1>2, <1>3, <1>4

\* In a complete matrix each arm of each case has its one place in the list.
LEMMA PlacesAreUnique ==
  ASSUME NEW refs \in Seq(References), MatrixComplete(refs),
         NEW c \in Cases, NEW arm \in ArmNames
  PROVE  \E i \in DOMAIN refs : Group(refs, c, arm) = {i}
<1>1. PICK a \in 1 .. 3 : Arms[a] = arm
  BY DEF Arms, ArmNames, Controls
<1>2. Cardinality(Group(refs, c, arm)) = 1
  BY <1>1 DEF MatrixComplete
<1>3. Group(refs, c, arm) \in SUBSET DOMAIN refs
  BY DEF Group
<1>4. IsFiniteSet(Group(refs, c, arm))
  BY <1>3, ListsAreFinite, FS_Subset
<1>5. \E i : Group(refs, c, arm) = {i}
  BY <1>2, <1>4, FS_Singleton
<1>. QED BY <1>3, <1>5

\* Counting the places of one arm that satisfy a condition of their own is counting
\* the cases of these places.
LEMMA PlacesAreCases ==
  ASSUME NEW refs \in Seq(References), MatrixComplete(refs), NEW arm \in ArmNames,
         NEW places \in SUBSET Where(refs, arm)
  PROVE  Cardinality(places) = Cardinality({refs[i].case : i \in places})
<1> DEFINE cases == {refs[i].case : i \in places}
<1> DEFINE f == [i \in places |-> refs[i].case]
<1>2. places \in SUBSET DOMAIN refs
  BY DEF Where
<1>3. IsFiniteSet(places)
  BY <1>2, ListsAreFinite, FS_Subset
<1>4. \A i, j \in places : refs[i].case = refs[j].case => i = j
  <2> SUFFICES ASSUME NEW i \in places, NEW j \in places, refs[i].case = refs[j].case
               PROVE  i = j
    OBVIOUS
  <2>1. refs[i].case \in Cases
    BY <1>2, ListsAreFinite
  <2>2. PICK k \in DOMAIN refs : Group(refs, refs[i].case, arm) = {k}
    BY <2>1, PlacesAreUnique
  <2>3. i \in Group(refs, refs[i].case, arm) /\ j \in Group(refs, refs[i].case, arm)
    BY DEF Group, Where
  <2>. QED BY <2>2, <2>3
<1>5. f \in Bijection(places, cases)
  BY <1>4 DEF Bijection, Injection, Surjection, IsInjective
<1>6. ExistsBijection(places, cases)
  BY <1>5 DEF ExistsBijection
<1>. QED BY <1>3, <1>6, FS_Bijection

\* The cases of the plan whose cell of this arm completed its action.
Won(refs, arm) == {c \in Cases : Reached(refs, c, arm)}

\* Completions summed over the list are completed cases.
LEMMA SumIsCases ==
  ASSUME NEW refs \in Seq(References), MatrixComplete(refs), NEW arm \in ArmNames
  PROVE  Cardinality(Completed(refs, arm)) = Cardinality(Won(refs, arm))
<1>1. Completed(refs, arm) \in SUBSET Where(refs, arm)
  BY DEF Completed
<1>2. {refs[i].case : i \in Completed(refs, arm)} = Won(refs, arm)
  <2>1. \A i \in DOMAIN refs : refs[i].case \in Cases
    BY ListsAreFinite
  <2>. QED BY <2>1 DEF Completed, Where, Won, Reached, Group
<1>. QED BY <1>1, <1>2, PlacesAreCases

\* Where no completion is unknown, every case is definite for every arm, and the other
\* way round.
LEMMA UnknownsAreNotDefinite ==
  ASSUME NEW refs \in Seq(References), MatrixComplete(refs), NEW arm \in ArmNames
  PROVE  Unknown(refs, arm) = {} <=> \A c \in Cases : Definite(refs, c, arm)
<1>1. ASSUME Unknown(refs, arm) = {}, NEW c \in Cases
      PROVE  Definite(refs, c, arm)
  <2>1. PICK i \in DOMAIN refs : Group(refs, c, arm) = {i}
    BY PlacesAreUnique
  <2>2. i \in Where(refs, arm)
    BY <2>1 DEF Group, Where
  <2>. QED BY <1>1, <2>1, <2>2 DEF Definite, Unknown
<1>2. ASSUME \A c \in Cases : Definite(refs, c, arm), NEW i \in Unknown(refs, arm)
      PROVE  FALSE
  <2>1. i \in DOMAIN refs /\ refs[i].arm = arm /\ refs[i].outcome.completion = "null"
    BY <1>2 DEF Unknown, Where
  <2>2. refs[i].case \in Cases
    BY <2>1, ListsAreFinite
  <2>3. i \in Group(refs, refs[i].case, arm)
    BY <2>1 DEF Group
  <2>. QED BY <1>2, <2>1, <2>2, <2>3 DEF Definite
<1>. QED BY <1>1, <1>2

\* A complete matrix has each arm once for every case.
LEMMA ArmCountsExact ==
  ASSUME NEW refs \in Seq(References), MatrixComplete(refs), NEW arm \in ArmNames
  PROVE  Cardinality(Where(refs, arm)) = CaseCount
<1>1. \A i \in DOMAIN refs : refs[i].case \in Cases
  BY ListsAreFinite
<1>2. \A c \in Cases : \E i \in DOMAIN refs : i \in Group(refs, c, arm)
  BY PlacesAreUnique
<1>3. {refs[i].case : i \in Where(refs, arm)} = Cases
  BY <1>1, <1>2 DEF Where, Group
<1>4. CaseCount \in Int /\ CaseCount >= 1 /\ 1 \in Int
  BY ScoringAssumption
<1>5. Cardinality(Cases) = CaseCount
  BY <1>4, FS_Interval DEF Cases
<1>6. Where(refs, arm) \in SUBSET Where(refs, arm)
  OBVIOUS
<1>. QED BY <1>3, <1>5, <1>6, PlacesAreCases

\* Where every pair is definite, the margin is the difference of the sums.
LEMMA MarginIsDelta ==
  ASSUME NEW refs \in Seq(References), MatrixComplete(refs), NEW control \in Controls,
         PairUnknown(refs, control) = {}
  PROVE  Margin(refs, control) = CompletionDelta(refs, control)
<1> DEFINE T == Won(refs, "treatment")
<1> DEFINE C == Won(refs, control)
<1>1. Wins(refs, control) = T \ C /\ Losses(refs, control) = C \ T
  BY DEF PairUnknown, Wins, Losses, Won
<1>2. IsFiniteSet(Cases)
  <2>1. CaseCount \in Int /\ 1 \in Int
    BY ScoringAssumption
  <2>. QED BY <2>1, FS_Interval DEF Cases
<1>3. T \in SUBSET Cases /\ C \in SUBSET Cases
  BY DEF Won
<1>4. IsFiniteSet(T) /\ IsFiniteSet(C)
  BY <1>2, <1>3, FS_Subset
<1> HIDE DEF T, C
<1>5. /\ Cardinality(T \ C) = Cardinality(T) - Cardinality(T \cap C)
      /\ Cardinality(C \ T) = Cardinality(C) - Cardinality(C \cap T)
  BY <1>4, FS_Difference
<1>6. T \cap C = C \cap T
  OBVIOUS
<1>7. /\ Cardinality(T) \in Nat /\ Cardinality(C) \in Nat
      /\ Cardinality(T \cap C) \in Nat
  BY <1>4, FS_CardinalityType, FS_Intersection
<1>8. /\ Cardinality(Completed(refs, "treatment")) = Cardinality(T)
      /\ Cardinality(Completed(refs, control)) = Cardinality(C)
  BY SumIsCases DEF T, C, ArmNames
<1>9. Margin(refs, control) = Cardinality(T \ C) - Cardinality(C \ T)
  BY <1>1 DEF Margin
<1>10. CompletionDelta(refs, control) = Cardinality(T) - Cardinality(C)
  BY <1>8 DEF CompletionDelta
<1>11. Cardinality(T \ C) = Cardinality(T) - Cardinality(T \cap C)
       /\ Cardinality(C \ T) = Cardinality(C) - Cardinality(T \cap C)
  BY <1>5, <1>6
<1>. QED BY <1>7, <1>9, <1>10, <1>11

\* The checks on sums and those on pairs agree on every complete list of references
\* (armCompletion and pairedComparison of deriveAggregates).
THEOREM ChecksAgree ==
  ASSUME NEW refs \in Seq(References), MatrixComplete(refs)
  PROVE  /\ \A control \in Controls :
              CompletionDeltaMet(refs, control) => PairedMarginMet(refs, control)
         /\ (\A control \in Controls : PairedMarginMet(refs, control))
              => \A control \in Controls : CompletionDeltaMet(refs, control)
<1>1. NoCompletionUnknowns(refs) <=> \A arm \in ArmNames : Unknown(refs, arm) = {}
  <2>1. {Arms[a] : a \in 1 .. 3} = ArmNames
    BY DEF Arms, ArmNames, Controls
  <2>2. \A arm \in ArmNames : Cardinality(Where(refs, arm)) = CaseCount
    BY ArmCountsExact
  <2>3. (\A a \in 1 .. 3 : Unknown(refs, Arms[a]) = {})
          <=> \A arm \in ArmNames : Unknown(refs, arm) = {}
    BY <2>1
  <2>4. \A a \in 1 .. 3 : Cardinality(Where(refs, Arms[a])) = CaseCount
    BY <2>1, <2>2
  <2>. QED BY <2>3, <2>4 DEF NoCompletionUnknowns
<1>2. (\A arm \in ArmNames : Unknown(refs, arm) = {})
        <=> \A arm \in ArmNames, c \in Cases : Definite(refs, c, arm)
  BY UnknownsAreNotDefinite
<1>3. \A control \in Controls :
        PairUnknown(refs, control) = {}
          <=> \A c \in Cases : Definite(refs, c, "treatment") /\ Definite(refs, c, control)
  BY DEF PairUnknown, Paired
<1>4. (\A control \in Controls : PairUnknown(refs, control) = {})
        <=> \A arm \in ArmNames, c \in Cases : Definite(refs, c, arm)
  BY <1>3 DEF ArmNames, Controls
<1>5. \A control \in Controls : PairUnknown(refs, control) = {}
        => Margin(refs, control) = CompletionDelta(refs, control)
  BY MarginIsDelta
<1>. QED BY <1>1, <1>2, <1>4, <1>5 DEF CompletionDeltaMet, PairedMarginMet

\* No list the scorer is ever handed lets the checks on sums and on pairs disagree once
\* every arm of every case is there once.
THEOREM SumsAndPairsAgree == Spec => []DeltaIsMargin
<1>1. ScoringTypeOK => DeltaIsMargin
  BY ChecksAgree DEF ScoringTypeOK, DeltaIsMargin
<1>. QED BY <1>1, ListsAreTyped, PTL

--------------------------------------------------------------------------------
(* The verdict is its reference: the promoted lists are those with one result for *)
(* each cell of the schedule that reads as VerdictIsReference says.               *)

\* A reference is that of its cell: its case and arm are read off the schedule.
OfItsCell(r) == r = Ref(r.ordinal, r.outcome) /\ r.outcome \in OutcomesOf(r.ordinal)

\* The list the scorer is handed holds references of their cells and nothing else.
ScoringInv == ScoringTypeOK /\ \A i \in DOMAIN results : OfItsCell(results[i])

\* The places of a list with one more reference: the new one, and those there were.
LEMMA AppendedPlaces ==
  ASSUME NEW S, NEW refs \in Seq(S), NEW r \in S
  PROVE  \A i \in DOMAIN Append(refs, r) :
           \/ Append(refs, r)[i] = r
           \/ i \in DOMAIN refs /\ Append(refs, r)[i] = refs[i]
OBVIOUS

\* What a result hands in stays in the list as it is: nothing rewrites a reference.
LEMMA ListsAreOfTheirCells == Spec => []ScoringInv
<1>1. Init => ScoringInv
  BY DEF Init, ScoringInv, ScoringTypeOK
<1>2. ScoringTypeOK /\ ScoringTypeOK' /\ ScoringInv /\ [Next]_vars => ScoringInv'
  <2> SUFFICES ASSUME ScoringTypeOK, ScoringTypeOK', ScoringInv, [Next]_vars
               PROVE  ScoringInv'
    OBVIOUS
  <2>1. \A o, outcome : outcome \in OutcomesOf(o) => OfItsCell(Ref(o, outcome))
    BY DEF OfItsCell, Ref
  <2>2. ASSUME NEW r, OfItsCell(r), results' = Append(results, r)
        PROVE  ScoringInv'
    <3> DEFINE S == References \union {r}
    <3>1. results \in Seq(S) /\ r \in S
      BY DEF ScoringTypeOK
    <3> HIDE DEF S
    <3>2. \A i \in DOMAIN Append(results, r) :
            \/ Append(results, r)[i] = r
            \/ i \in DOMAIN results /\ Append(results, r)[i] = results[i]
      BY <3>1, AppendedPlaces
    <3>3. \A i \in DOMAIN results' : results'[i] = r \/ OfItsCell(results'[i])
      BY <2>2, <3>2 DEF ScoringInv
    <3>. QED BY <2>2, <3>3 DEF ScoringInv
  <2>3. CASE RecordResult
    BY <2>1, <2>2, <2>3 DEF RecordResult
  <2>4. CASE \E outcome \in OutcomesOf(LastOrdinal + 2) :
               results' = Append(results, Ref(LastOrdinal + 2, outcome))
    BY <2>1, <2>2, <2>4
  <2>5. CASE results # <<>> /\ results' = Append(results, results[Len(results)])
    <3>1. Len(results) \in DOMAIN results
      BY <2>5 DEF ScoringTypeOK
    <3>. QED BY <2>2, <2>5, <3>1 DEF ScoringInv
  <2>6. CASE UNCHANGED vars
    BY <2>6 DEF vars, ScoringInv
  <2>. QED BY <2>3, <2>4, <2>5, <2>6 DEF Next, HandInIrregularly
<1>. QED BY <1>1, <1>2, ListsAreTyped, PTL DEF Spec

\* An ordinal is its case and its position in that case.
LEMMA OrdinalsArePlaces ==
  /\ \A o \in Ordinals : /\ CaseOf(o) \in Cases /\ PositionOf(o) \in 1 .. 3
                          /\ o = 3 * (CaseOf(o) - 1) + PositionOf(o)
  /\ \A c \in Cases, k \in 1 .. 3 :
       /\ 3 * (c - 1) + k \in Ordinals
       /\ CaseOf(3 * (c - 1) + k) = c /\ PositionOf(3 * (c - 1) + k) = k
<1>1. CaseCount \in 1 .. 3
  BY ScoringAssumption
<1>2. \A o \in Ordinals : /\ CaseOf(o) \in Cases /\ PositionOf(o) \in 1 .. 3
                          /\ o = 3 * (CaseOf(o) - 1) + PositionOf(o)
  BY <1>1 DEF CaseOf, PositionOf, Cases, Ordinals, CellCount
<1>3. ASSUME NEW c \in Cases, NEW k \in 1 .. 3
      PROVE  /\ 3 * (c - 1) + k \in Ordinals
             /\ CaseOf(3 * (c - 1) + k) = c /\ PositionOf(3 * (c - 1) + k) = k
  BY <1>1 DEF CaseOf, PositionOf, Cases, Ordinals, CellCount
<1>. QED BY <1>2, <1>3

\* The schedule runs every arm of every case in exactly one of its cells
\* (buildLatinSquareScheduleV1).
LEMMA OneCellForEach ==
  ASSUME NEW c \in Cases, NEW arm \in ArmNames
  PROVE  \E o \in Ordinals : \A p \in Ordinals : CaseOf(p) = c /\ ArmOf(p) = arm <=> p = o
<1>1. c \in {1, 2, 3}
  BY ScoringAssumption DEF Cases
<1>2. \E k \in 1 .. 3 : \A l \in 1 .. 3 : Rotations[c][l] = arm <=> l = k
  <2>1. \A d \in {1, 2, 3}, a \in ArmNames :
          \/ Rotations[d][1] = a /\ Rotations[d][2] # a /\ Rotations[d][3] # a
          \/ Rotations[d][1] # a /\ Rotations[d][2] = a /\ Rotations[d][3] # a
          \/ Rotations[d][1] # a /\ Rotations[d][2] # a /\ Rotations[d][3] = a
    BY DEF Rotations, Arms, ArmNames, Controls
  <2>2. 1 .. 3 = {1, 2, 3}
    OBVIOUS
  <2>. QED BY <1>1, <2>1, <2>2
<1>3. PICK k \in 1 .. 3 : \A l \in 1 .. 3 : Rotations[c][l] = arm <=> l = k
  BY <1>2
<1>4. 3 * (c - 1) + k \in Ordinals /\ CaseOf(3 * (c - 1) + k) = c /\ PositionOf(3 * (c - 1) + k) = k
  BY OrdinalsArePlaces
<1>5. \A p \in Ordinals : CaseOf(p) = c /\ ArmOf(p) = arm <=> p = 3 * (c - 1) + k
  BY <1>3, <1>4, OrdinalsArePlaces DEF ArmOf
<1>. QED BY <1>4, <1>5

\* In a list of references with as many places as cells, and a place for every cell,
\* no cell has two places.
LEMMA OnePlaceForEach ==
  ASSUME NEW refs \in Seq(References), ScheduleExact(refs),
         NEW i \in DOMAIN refs, NEW j \in DOMAIN refs, refs[i].ordinal = refs[j].ordinal
  PROVE  i = j
<1> DEFINE f == [k \in DOMAIN refs |-> refs[k].ordinal]
<1>1. CellCount \in Nat
  BY ScoringAssumption DEF CellCount
<1>2. DOMAIN refs = Ordinals /\ {refs[k].ordinal : k \in DOMAIN refs} = Ordinals
  <2>1. DOMAIN refs = 1 .. Len(refs)
    OBVIOUS
  <2>. QED BY <2>1 DEF ScheduleExact, Ordinals
<1>3. IsFiniteSet(Ordinals)
  BY <1>1, FS_Interval DEF Ordinals
<1>4. f \in Surjection(DOMAIN refs, Ordinals)
  BY <1>2 DEF Surjection
<1>5. f \in Injection(DOMAIN refs, Ordinals)
  BY <1>2, <1>3, <1>4, FS_Surjection
<1>. QED BY <1>5 DEF Injection, IsInjective

\* A list with one reference for each cell has every arm of every case once.
LEMMA ExactIsComplete ==
  ASSUME NEW refs \in Seq(References), ScheduleExact(refs),
         \A i \in DOMAIN refs : OfItsCell(refs[i])
  PROVE  MatrixComplete(refs)
<1>1. ASSUME NEW c \in Cases, NEW arm \in ArmNames
      PROVE  Cardinality(Group(refs, c, arm)) = 1
  <2>1. PICK o \in Ordinals : \A p \in Ordinals : CaseOf(p) = c /\ ArmOf(p) = arm <=> p = o
    BY OneCellForEach
  <2>2. PICK k \in DOMAIN refs : refs[k].ordinal = o
    BY DEF ScheduleExact
  <2>3. \A i \in DOMAIN refs : /\ refs[i].ordinal \in Ordinals
                              /\ refs[i].case = CaseOf(refs[i].ordinal)
                              /\ refs[i].arm = ArmOf(refs[i].ordinal)
    BY DEF ScheduleExact, OfItsCell, Ref
  <2>4. \A i \in DOMAIN refs : i \in Group(refs, c, arm) <=> refs[i].ordinal = o
    BY <2>1, <2>3 DEF Group
  <2>5. Group(refs, c, arm) = {k}
    BY <2>2, <2>4, OnePlaceForEach DEF Group
  <2>. QED BY <2>5, FS_Singleton
<1>2. \A a \in 1 .. 3 : Arms[a] \in ArmNames
  BY DEF Arms, ArmNames, Controls
<1>. QED BY <1>1, <1>2 DEF MatrixComplete, ScheduleExact

\* A list with one outcome for each cell has a place for each, and the outcome is the
\* one at that place.
LEMMA OneOutcomeEach ==
  ASSUME ScoringInv, Len(results) = CellCount
  PROVE  ScheduleExact(results) <=> \A o \in Ordinals : Cardinality(TheResults(o)) = 1
<1>1. \A i \in DOMAIN results : results[i].ordinal \in Ordinals
  <2>1. \A i \in DOMAIN results : results[i] \in References
    BY DEF ScoringInv, ScoringTypeOK
  <2>. QED BY <2>1 DEF References
<1>2. ASSUME ScheduleExact(results), NEW o \in Ordinals
      PROVE  Cardinality(TheResults(o)) = 1
  <2>1. PICK k \in DOMAIN results : results[k].ordinal = o
    BY <1>2 DEF ScheduleExact
  <2>2. \A i \in DOMAIN results : results[i].ordinal = o => i = k
    BY <1>2, <2>1, OnePlaceForEach DEF ScoringInv, ScoringTypeOK
  <2>3. TheResults(o) = {results[k].outcome}
    BY <2>1, <2>2 DEF TheResults
  <2>. QED BY <2>3, FS_Singleton
<1>3. ASSUME \A o \in Ordinals : Cardinality(TheResults(o)) = 1
      PROVE  ScheduleExact(results)
  <2>1. ASSUME NEW o \in Ordinals
        PROVE  \E i \in DOMAIN results : results[i].ordinal = o
    <3>1. Cardinality({}) = 0
      BY FS_EmptySet
    <3>2. TheResults(o) # {}
      BY <1>3, <3>1
    <3>. QED BY <3>2 DEF TheResults
  <2>. QED BY <1>1, <2>1 DEF ScheduleExact
<1>. QED BY <1>2, <1>3

\* The cases an arm completed, read off the schedule, are those read off the list.
LEMMA CompletedCasesAreWon ==
  ASSUME ScoringInv, NEW arm \in ArmNames
  PROVE  CompletedCases(arm) = Won(results, arm)
<1>1. \A i \in DOMAIN results : /\ results[i].ordinal \in Ordinals
                               /\ results[i].case = CaseOf(results[i].ordinal)
                               /\ results[i].arm = ArmOf(results[i].ordinal)
                               /\ results[i].case \in Cases
  BY DEF ScoringInv, ScoringTypeOK, References, OfItsCell, Ref
<1>2. ASSUME NEW c
      PROVE  c \in CompletedCases(arm) <=>
               \E i \in DOMAIN results : /\ results[i].case = c /\ results[i].arm = arm
                                        /\ results[i].outcome.completion = "yes"
  BY <1>1 DEF CompletedCases, TheResults
<1>3. ASSUME NEW c
      PROVE  c \in Won(results, arm) <=>
               \E i \in DOMAIN results : /\ results[i].case = c /\ results[i].arm = arm
                                        /\ results[i].outcome.completion = "yes"
  BY <1>1 DEF Won, Reached, Group
<1>. QED BY <1>2, <1>3

\* Every case an arm completed is counted once in the arm's sum.
LEMMA DeltaIsComparison ==
  ASSUME ScoringInv, MatrixComplete(results), NEW control \in Controls
  PROVE  CompletionDelta(results, control) >= 1
           <=> Cardinality(CompletedCases("treatment")) > Cardinality(CompletedCases(control))
<1>1. "treatment" \in ArmNames /\ control \in ArmNames
  BY DEF ArmNames
<1>2. results \in Seq(References)
  BY DEF ScoringInv, ScoringTypeOK
<1>3. \A arm \in ArmNames : Cardinality(Completed(results, arm)) = Cardinality(CompletedCases(arm))
  BY <1>2, SumIsCases, CompletedCasesAreWon
<1>4. \A arm \in ArmNames : Cardinality(Completed(results, arm)) \in Nat
  <2> SUFFICES ASSUME NEW arm \in ArmNames
               PROVE  Cardinality(Completed(results, arm)) \in Nat
    OBVIOUS
  <2>1. Completed(results, arm) \in SUBSET DOMAIN results
    BY DEF Completed, Where
  <2>2. IsFiniteSet(Completed(results, arm))
    BY <1>2, <2>1, ListsAreFinite, FS_Subset
  <2>. QED BY <2>2, FS_CardinalityType
<1>. QED BY <1>1, <1>3, <1>4 DEF CompletionDelta

\* The conditions of VerdictIsReference on the results themselves: each is scored, and
\* a treatment's has its ledger closed and no violation.
ResultsPass ==
  \A o \in Ordinals : \A r \in TheResults(o) :
    /\ r.evaluation = "scored"
    /\ ArmOf(o) = "treatment" => r.ledger = "closed" /\ ~r.violation

\* On a list with one reference for each cell, the gate's checks of the references are
\* those conditions.
LEMMA PointwiseChecks ==
  ASSUME ScoringInv, ScheduleExact(results)
  PROVE  /\ AllLedgersClosed(results) /\ NoInfrastructureFailure(results)
         /\ NoTreatmentViolation(results)
         <=> ResultsPass
<1>1. \A i \in DOMAIN results : /\ results[i].ordinal \in Ordinals
                               /\ results[i].arm = ArmOf(results[i].ordinal)
                               /\ results[i].outcome.evaluation \in {"scored", "unknown"}
  BY DEF ScoringInv, ScoringTypeOK, References, Results, Outcomes, OfItsCell, Ref
<1>2. Cardinality(Where(results, "treatment")) = CaseCount
  <2>1. MatrixComplete(results) /\ results \in Seq(References) /\ "treatment" \in ArmNames
    BY ExactIsComplete DEF ScoringInv, ScoringTypeOK, ArmNames
  <2>. QED BY <2>1, ArmCountsExact
<1>3. ResultsPass <=>
        \A i \in DOMAIN results :
          /\ results[i].outcome.evaluation = "scored"
          /\ results[i].arm = "treatment" => /\ results[i].outcome.ledger = "closed"
                                             /\ ~results[i].outcome.violation
  BY <1>1 DEF ResultsPass, TheResults
<1>. QED BY <1>1, <1>2, <1>3
         DEF AllLedgersClosed, NoInfrastructureFailure, NoTreatmentViolation, Where

\* A scored result has a definite completion, so a list that passes has no unknown one.
LEMMA ScoredIsDefinite ==
  ASSUME ScoringInv, ScheduleExact(results), NoInfrastructureFailure(results)
  PROVE  NoCompletionUnknowns(results)
<1>1. MatrixComplete(results) /\ results \in Seq(References)
  BY ExactIsComplete DEF ScoringInv, ScoringTypeOK
<1>2. \A a \in 1 .. 3 : Arms[a] \in ArmNames
  BY DEF Arms, ArmNames, Controls
<1>3. \A i \in DOMAIN results : results[i].outcome.completion # "null"
  <2>1. \A i \in DOMAIN results : results[i].outcome \in Results
    <3>1. \A i \in DOMAIN results : results[i] \in References
      BY DEF ScoringInv, ScoringTypeOK
    <3>. QED BY <3>1 DEF References
  <2>2. \A r \in Results : r.evaluation # "unknown" => r.completion # "null"
    BY DEF Results, Outcomes
  <2>. QED BY <2>1, <2>2 DEF NoInfrastructureFailure
<1>4. \A arm \in ArmNames : Unknown(results, arm) = {}
  BY <1>3 DEF Unknown, Where
<1>. QED BY <1>1, <1>2, <1>4, ArmCountsExact DEF NoCompletionUnknowns

\* The verdict is promote on exactly the lists its reference describes: nothing but one
\* result per cell, all scored, the treatments clean, and more cases completed with the
\* treatment than with each control (deriveAggregates and its gate).
THEOREM VerdictMatchesReference == Spec => []VerdictIsReference
<1>1. ScoringInv => VerdictIsReference
  <2> SUFFICES ASSUME ScoringInv
               PROVE  VerdictIsReference
    OBVIOUS
  <2> DEFINE MoreCompleted ==
        \A control \in Controls :
          Cardinality(CompletedCases("treatment")) > Cardinality(CompletedCases(control))
  <2>1. results \in Seq(References)
    BY DEF ScoringInv, ScoringTypeOK
  <2>2. VerdictIsReference <=>
          (Checks(results) <=> ScheduleExact(results) /\ ResultsPass /\ MoreCompleted)
    BY OneOutcomeEach DEF VerdictIsReference, Verdict, ScheduleExact, ResultsPass
  <2>3. ASSUME ScheduleExact(results)
        PROVE  /\ MatrixComplete(results)
               /\ \A control \in Controls :
                    CompletionDelta(results, control) >= 1 <=>
                      Cardinality(CompletedCases("treatment")) > Cardinality(CompletedCases(control))
    BY <2>3, ExactIsComplete, DeltaIsComparison DEF ScoringInv, ScoringTypeOK
  <2>4. ASSUME Checks(results)
        PROVE  ScheduleExact(results) /\ ResultsPass /\ MoreCompleted
    BY <2>3, <2>4, PointwiseChecks DEF Checks, CompletionDeltaMet
  <2>5. ASSUME ScheduleExact(results), ResultsPass, MoreCompleted
        PROVE  Checks(results)
    <3>1. /\ AllLedgersClosed(results) /\ NoInfrastructureFailure(results)
          /\ NoTreatmentViolation(results)
      BY <2>5, PointwiseChecks
    <3>2. \A control \in Controls : CompletionDeltaMet(results, control)
      BY <2>3, <2>5, <3>1, ScoredIsDefinite DEF CompletionDeltaMet
    <3>3. \A control \in Controls : PairedMarginMet(results, control)
      BY <2>1, <2>3, <2>5, <3>2, ChecksAgree
    <3>. QED BY <2>3, <2>5, <3>1, <3>2, <3>3 DEF Checks
  <2>. QED BY <2>2, <2>4, <2>5
<1>. QED BY <1>1, ListsAreOfTheirCells, PTL

================================================================================

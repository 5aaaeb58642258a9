----------------------------- MODULE PilotScoring -----------------------------
(* The pilot's schedule (pilot-contract.mjs) and its score (pilot-scorer.mjs).    *)
(* The scorer takes any list of admitted results of scheduled cells; the runner   *)
(* hands it one of each.  Results are sorted before anything is counted, so the   *)
(* order they come in is abstracted away.  What an admitted result already fixes  *)
(* (its attempt ordinal is the cell's, prompt and observation body are those of   *)
(* its case and arm) holds of every reference here by construction of Ref.        *)
EXTENDS Integers, Sequences, FiniteSets

CONSTANTS
  CaseCount,          \* cases of the plan; the plan of the release has 3
  ControlOutcomes,    \* outcomes of baseline and observe-only cells
  TreatmentOutcomes,  \* outcomes of treatment cells
  Irregularities      \* bound: cells left out or handed in twice

Arms == <<"baseline", "observe_only", "treatment">>
Controls == {"baseline", "observe_only"}

\* What the scorer reads of a result: its evaluation, completion and the three
\* violations (one of which suffices to reject), and the treatment ledger.
Outcomes(ledgers) ==
  {o \in [evaluation : {"scored", "unknown"}, completion : {"yes", "no", "null"},
          violation : BOOLEAN, ledger : ledgers] :
     o.evaluation = "unknown" <=> o.completion = "null"}

ASSUME ScoringAssumption ==
  /\ CaseCount \in 1 .. 3 /\ Irregularities \in Nat
  /\ ControlOutcomes \subseteq Outcomes({"none"})
  /\ TreatmentOutcomes \subseteq Outcomes({"open", "closed"})

Cases == 1 .. CaseCount
CellCount == 3 * CaseCount
Ordinals == 1 .. CellCount

\* buildLatinSquareScheduleV1: case after case, each with its rotation of the arms.
Rotations ==
  << Arms, <<"observe_only", "treatment", "baseline">>,
     <<"treatment", "baseline", "observe_only">> >>

CaseOf(ordinal) == ((ordinal - 1) \div 3) + 1
PositionOf(ordinal) == ((ordinal - 1) % 3) + 1
ArmOf(ordinal) == Rotations[CaseOf(ordinal)][PositionOf(ordinal)]
OutcomesOf(ordinal) ==
  IF ArmOf(ordinal) = "treatment" THEN TreatmentOutcomes ELSE ControlOutcomes

VARIABLES
  results,    \* the references of the results handed in, sorted by ordinal
  irregular   \* cells left out or handed in again so far

vars == <<results, irregular>>

\* resultRef
Ref(ordinal, outcome) ==
  [ordinal |-> ordinal, case |-> CaseOf(ordinal), arm |-> ArmOf(ordinal), outcome |-> outcome]

LastOrdinal == IF results = <<>> THEN 0 ELSE results[Len(results)].ordinal

Init == results = <<>> /\ irregular = 0

\* The runner's order: the next cell of the schedule.
RecordResult ==
  /\ LastOrdinal < CellCount
  /\ \E outcome \in OutcomesOf(LastOrdinal + 1) :
       results' = Append(results, Ref(LastOrdinal + 1, outcome))
  /\ UNCHANGED irregular

\* A list with a hole, or with a second result of one cell.
HandInIrregularly ==
  /\ irregular < Irregularities
  /\ \/ /\ LastOrdinal + 2 <= CellCount
        /\ \E outcome \in OutcomesOf(LastOrdinal + 2) :
             results' = Append(results, Ref(LastOrdinal + 2, outcome))
     \/ /\ results # <<>>
        /\ results' = Append(results, results[Len(results)])
  /\ irregular' = irregular + 1

Next == RecordResult \/ HandInIrregularly

Spec == Init /\ [][Next]_vars

--------------------------------------------------------------------------------
(* deriveAggregates, over a list of references.                                   *)

Where(refs, arm) == {i \in DOMAIN refs : refs[i].arm = arm}
Group(refs, case, arm) == {i \in DOMAIN refs : refs[i].case = case /\ refs[i].arm = arm}
Completed(refs, arm) == {i \in Where(refs, arm) : refs[i].outcome.completion = "yes"}
Unknown(refs, arm) == {i \in Where(refs, arm) : refs[i].outcome.completion = "null"}

CompletionDelta(refs, control) ==
  Cardinality(Completed(refs, "treatment")) - Cardinality(Completed(refs, control))

\* pairedComparison: a pair counts when both arms have one definite result.
Definite(refs, case, arm) ==
  \E i \in Group(refs, case, arm) :
    Group(refs, case, arm) = {i} /\ refs[i].outcome.completion # "null"
Paired(refs, case, control) ==
  Definite(refs, case, "treatment") /\ Definite(refs, case, control)
Reached(refs, case, arm) == \E i \in Group(refs, case, arm) : refs[i].outcome.completion = "yes"

Wins(refs, control) ==
  {c \in Cases : /\ Paired(refs, c, control)
                 /\ Reached(refs, c, "treatment") /\ ~Reached(refs, c, control)}
Losses(refs, control) ==
  {c \in Cases : /\ Paired(refs, c, control)
                 /\ Reached(refs, c, control) /\ ~Reached(refs, c, "treatment")}
PairUnknown(refs, control) == {c \in Cases : ~Paired(refs, c, control)}
Margin(refs, control) == Cardinality(Wins(refs, control)) - Cardinality(Losses(refs, control))

ScheduleExact(refs) ==
  /\ Len(refs) = CellCount
  /\ {refs[i].ordinal : i \in DOMAIN refs} = Ordinals

MatrixComplete(refs) ==
  /\ Len(refs) = CellCount
  /\ \A c \in Cases, a \in 1 .. 3 : Cardinality(Group(refs, c, Arms[a])) = 1

AllLedgersClosed(refs) ==
  /\ Cardinality(Where(refs, "treatment")) = CaseCount
  /\ \A i \in Where(refs, "treatment") : refs[i].outcome.ledger = "closed"

NoInfrastructureFailure(refs) ==
  \A i \in DOMAIN refs : refs[i].outcome.evaluation # "unknown"

\* Fault: one violation of the treatments is tolerated.
OneViolationTolerated(refs) ==
  Cardinality({i \in Where(refs, "treatment") : refs[i].outcome.violation}) <= 1

NoTreatmentViolation(refs) ==
  \A i \in Where(refs, "treatment") : ~refs[i].outcome.violation

NoCompletionUnknowns(refs) ==
  \A a \in 1 .. 3 : /\ Cardinality(Where(refs, Arms[a])) = CaseCount
                    /\ Unknown(refs, Arms[a]) = {}

\* Fault: pairs that are not comparable are left out instead of failing the check.
PairedMarginMetOfKnown(refs, control) == Margin(refs, control) >= 1

CompletionDeltaMet(refs, control) ==
  NoCompletionUnknowns(refs) /\ CompletionDelta(refs, control) >= 1
PairedMarginMet(refs, control) ==
  PairUnknown(refs, control) = {} /\ Margin(refs, control) >= 1

\* The seventeen checks; those that Ref fixes are left out.
Checks(refs) ==
  /\ ScheduleExact(refs) /\ MatrixComplete(refs)
  /\ AllLedgersClosed(refs) /\ NoInfrastructureFailure(refs)
  /\ NoTreatmentViolation(refs)
  /\ \A control \in Controls :
       CompletionDeltaMet(refs, control) /\ PairedMarginMet(refs, control)

Verdict(refs) == IF Checks(refs) THEN "promote" ELSE "reject"
--------------------------------------------------------------------------------
(* What the verdict means, told from the schedule instead of from groups and sums. *)

TheResults(ordinal) ==
  {results[i].outcome : i \in {j \in DOMAIN results : results[j].ordinal = ordinal}}

\* The cases whose cell of this arm completed its action.
CompletedCases(arm) ==
  {CaseOf(o) : o \in {p \in Ordinals : /\ ArmOf(p) = arm
                                       /\ \E r \in TheResults(p) : r.completion = "yes"}}

\* A pilot is promoted exactly when it handed in one result for each cell of the
\* schedule and no other, every one of them scored, every treatment without a violation
\* and with its ledger closed, and the treatments completed more cases than each
\* control did.  Code: deriveAggregates over the schedule of buildLatinSquareScheduleV1.
VerdictIsReference ==
  Verdict(results) = "promote" <=>
    /\ Len(results) = CellCount
    /\ \A o \in Ordinals :
         /\ Cardinality(TheResults(o)) = 1
         /\ \A r \in TheResults(o) :
              /\ r.evaluation = "scored"
              /\ ArmOf(o) = "treatment" => r.ledger = "closed" /\ ~r.violation
    /\ \A control \in Controls :
         Cardinality(CompletedCases("treatment")) > Cardinality(CompletedCases(control))

\* On a list with every arm of every case once, the checks on sums and those on
\* pairs agree: whoever meets the delta to a control meets the paired margin to it,
\* and whoever meets both margins meets both deltas.  Code: armCompletion and
\* pairedComparison, which count the same completions along two different paths.
DeltaIsMargin ==
  MatrixComplete(results) =>
    /\ \A control \in Controls :
         CompletionDeltaMet(results, control) => PairedMarginMet(results, control)
    /\ (\A control \in Controls : PairedMarginMet(results, control))
         => \A control \in Controls : CompletionDeltaMet(results, control)
=============================================================================

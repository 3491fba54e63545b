---------------------------- MODULE EvidenceProofs ----------------------------
(***************************************************************************)
(* The verdicts of Evidence for every protocol, every number of failures   *)
(* and errors, and every prediction.                                       *)
(***************************************************************************)
EXTENDS Evidence, TLAPS

Matched == {"patch", "verify"}

\* A case past CONFIRM failed there, on its own workers.
FlakeWasSeen ==
  pc \in {"round"} \cup Matched =>
    /\ confirm.failures > 0 /\ confirm.failures + confirm.errors <= confirm.runs
    /\ confirm.workers = WorkersFor

\* What the loop works on a patch for, and how it got there.
PatchHasSupport ==
  /\ pc \in Matched => matches
  /\ matches =>
       /\ confirm.failures > 0
       /\ experiment.predicted \in Effects
       /\ observed.errors = 0
       /\ Matches(experiment.predicted, ClassifyEffect(confirm, observed))
  /\ pc \in {"confirm", "round", "baseline"} => ~matches

\* A patch that is being verified passed its stress batch.
StressWasPassed ==
  pc = "verify" =>
    /\ stress.runs > 0 /\ stress.failures = 0 /\ stress.errors = 0
    /\ stress.workers = StressWorkers

\* A case that goes on has no verdict yet.
OnlyEndsArePending == pc # "end" => status = "INCOMPLETE"

\* The inductive invariant.
IInv ==
  /\ TypeOK
  /\ OnlyEndsArePending
  /\ FlakeWasSeen
  /\ PatchHasSupport
  /\ StressWasPassed
  /\ SupportIsMeasured
  /\ PendingIsProven

-----------------------------------------------------------------------------
\* Fractions, compared by their cross products.

LEMMA Products ==
  ASSUME NEW a \in Nat, NEW b \in Nat
  PROVE  a * b \in Nat /\ (a > 0 /\ b > 0 => a * b > 0)
  OBVIOUS

LEMMA ProductGrows ==
  ASSUME NEW a \in Nat, NEW b \in Nat, NEW c \in Nat, a <= b
  PROVE  a * c <= b * c /\ c * a <= c * b
<1>1. PICK d \in Nat : b = a + d
  <2>1. b - a \in Nat /\ b = a + (b - a)
    OBVIOUS
  <2>2. QED
    BY <2>1
<1>2. b * c = a * c + d * c /\ c * b = c * a + c * d
  BY <1>1
<1>3. d * c \in Nat /\ c * d \in Nat /\ a * c \in Nat /\ c * a \in Nat
  BY Products
<1>4. QED
  BY <1>2, <1>3

LEMMA Associate ==
  ASSUME NEW k \in Nat, NEW a \in Nat, NEW b \in Nat
  PROVE  k * a * b = k * (a * b)
  OBVIOUS

\* A rate of at most 0.4 times another is below it, and below what that would be over
\* fewer runs.
LEMMA ReducedIsBelow ==
  ASSUME NEW f \in Nat, NEW n \in Nat, NEW b \in Nat, NEW m \in Nat, NEW e \in Nat,
         b > 0, n > 0, e <= m, 10 * f * m <= 4 * b * n
  PROVE  f * e < b * n
<1>1. f * e <= f * m
  BY ProductGrows
<1>2. 10 * (f * m) <= 4 * (b * n)
  BY Associate
<1>3. b * n > 0 /\ b * n \in Nat /\ f * m \in Nat /\ f * e \in Nat
  BY Products
<1>4. QED
  BY <1>1, <1>2, <1>3

LEMMA IncreasedIsAbove ==
  ASSUME NEW f \in Nat, NEW n \in Nat, NEW b \in Nat, NEW m \in Nat,
         b > 0, n > 0, 4 * f * m >= 7 * b * n
  PROVE  f * m > b * n
<1>1. 4 * (f * m) >= 7 * (b * n)
  BY Associate
<1>2. b * n > 0 /\ b * n \in Nat /\ f * m \in Nat
  BY Products
<1>3. QED
  BY <1>1, <1>2

-----------------------------------------------------------------------------
\* classify_effect by its bands.

LEMMA Bands ==
  ASSUME NEW base \in Reports, NEW seen \in Reports, base.failures > 0
  PROVE  /\ ClassifyEffect(base, seen) = "eliminated" <=> 1000 * seen.failures <= 5 * seen.runs
         /\ ClassifyEffect(base, seen) = "reduced" =>
              10 * seen.failures * base.runs <= 4 * base.failures * seen.runs
         /\ ClassifyEffect(base, seen) = "increased" =>
              4 * seen.failures * base.runs >= 7 * base.failures * seen.runs
         /\ ClassifyEffect(base, seen) \in Effects
<1> DEFINE low == 1000 * seen.failures <= 5 * seen.runs
           fall == 10 * seen.failures * base.runs <= 4 * base.failures * seen.runs
           rise == 4 * seen.failures * base.runs >= 7 * base.failures * seen.runs
<1>0. base.failures # 0
  BY DEF Reports
<1> HIDE DEF low, fall, rise
<1>1. CASE low
  BY <1>1 DEF ClassifyEffect, Effects, low
<1>2. CASE ~low /\ fall
  <2>1. ClassifyEffect(base, seen) = "reduced"
    BY <1>0, <1>2 DEF ClassifyEffect, low, fall
  <2>2. QED
    BY <2>1, <1>2 DEF low, fall, Effects
<1>3. CASE ~low /\ ~fall /\ rise
  <2>1. ClassifyEffect(base, seen) = "increased"
    BY <1>0, <1>3 DEF ClassifyEffect, low, fall, rise
  <2>2. QED
    BY <2>1, <1>3 DEF low, rise, Effects
<1>4. CASE ~low /\ ~fall /\ ~rise
  <2>1. ClassifyEffect(base, seen) = "unchanged"
    BY <1>0, <1>4 DEF ClassifyEffect, low, fall, rise
  <2>2. QED
    BY <2>1, <1>4 DEF low, Effects
<1>5. QED
  BY <1>1, <1>2, <1>3, <1>4

\* With less than 200 runs, "eliminated" and "reduced" are falls, "increased" is a rise.
LEMMA EffectsAreMoves ==
  ASSUME NEW base \in Reports, NEW seen \in Reports,
         base.failures > 0, base.failures + base.errors <= base.runs,
         seen.runs > 0, seen.runs < 200
  PROVE  /\ ClassifyEffect(base, seen) \in {"eliminated", "reduced"} =>
              seen.failures * Executed(base) < base.failures * seen.runs
         /\ ClassifyEffect(base, seen) = "increased" =>
              seen.failures * base.runs > base.failures * seen.runs
<1>1. /\ base.failures \in Nat /\ base.runs \in Nat /\ base.errors \in Nat
      /\ seen.failures \in Nat /\ seen.runs \in Nat
      /\ Executed(base) \in Nat /\ Executed(base) <= base.runs
  BY DEF Reports, Executed
<1>2. CASE ClassifyEffect(base, seen) = "eliminated"
  <2>1. seen.failures = 0
    BY <1>1, <1>2, Bands
  <2>2. base.failures * seen.runs > 0 /\ 0 * Executed(base) = 0
    BY <1>1, Products
  <2>3. QED
    BY <2>1, <2>2, <1>2
<1>3. CASE ClassifyEffect(base, seen) = "reduced"
  BY <1>1, <1>3, Bands, ReducedIsBelow
<1>4. CASE ClassifyEffect(base, seen) = "increased"
  BY <1>1, <1>4, Bands, IncreasedIsAbove
<1>5. QED
  BY <1>2, <1>3, <1>4

-----------------------------------------------------------------------------

LEMMA CountsAreNat ==
  /\ ConfirmRuns \in Nat \ {0} /\ ExperimentRuns \in Nat \ {0} /\ StressRuns \in Nat \ {0}
  /\ VerifyRuns \in Nat \ {0} /\ LeastRuns \in Nat \ {0}
  /\ DefaultWorkers \in Nat /\ DefaultWorkers > 1
  BY EvidenceAssumption

LEMMA HalvedBound ==
  ASSUME NEW n \in Nat \ {0}
  PROVE  /\ Halved(n) \in Nat \ {0}
         /\ n < 200 => Halved(n) < 200
  BY CountsAreNat, EvidenceAssumption DEF Halved, Larger

LEMMA BatchFacts ==
  ASSUME NEW n \in Nat, NEW w \in Nat, NEW r \in Batches(n, w)
  PROVE  /\ r \in Reports /\ r.runs = n /\ r.workers = w
         /\ r.failures + r.errors <= n
  BY EvidenceAssumption DEF Batches, Reports

LEMMA WorkersFacts ==
  ASSUME pinned \in BOOLEAN
  PROVE  /\ WorkersFor \in Nat /\ WorkersFor > 0 /\ WorkersFor <= DefaultWorkers
         /\ StressWorkers \in Nat /\ StressWorkers >= 8 /\ StressWorkers >= 4 * WorkersFor
  BY CountsAreNat DEF WorkersFor, StressWorkers, Larger

LEMMA FactorBound ==
  ASSUME NEW p \in Parameters
  PROVE  Factor(p) \in 2..8
  BY DEF Factor, Parameters, IntegerOf, Larger, Smaller

LEMMA ResolveFacts ==
  ASSUME NEW e \in Experiments, pinned \in BOOLEAN
  PROVE  /\ Resolve(e).workers \in Nat
         /\ Resolve(e).workers <= 8 * DefaultWorkers
         /\ e.manipulation = "amplify_contention" => Resolve(e).workers >= 2 * WorkersFor
         /\ Resolve(e).note \in BOOLEAN
<1> DEFINE k == Factor(e.parameter)
<1>1. k \in Nat /\ 2 <= k /\ k <= 8
  BY FactorBound DEF Experiments
<1>2. /\ WorkersFor \in Nat /\ WorkersFor > 0 /\ WorkersFor <= DefaultWorkers
  BY WorkersFacts
<1>3. WorkersFor * k \in Nat /\ WorkersFor * k >= 2 * WorkersFor /\ WorkersFor * k <= 8 * WorkersFor
  <2> HIDE DEF k
  <2>1. WorkersFor * 2 <= WorkersFor * k /\ WorkersFor * k <= WorkersFor * 8
    BY <1>1, <1>2, ProductGrows
  <2>2. QED
    BY <2>1, <1>1, <1>2, Products
<1> HIDE DEF k
<1>4. Resolve(e).note \in BOOLEAN
  BY Zenon DEF Resolve
<1>5. CASE e.manipulation = "serialize_execution"
  BY <1>2, <1>4, <1>5, CountsAreNat DEF Resolve
<1>6. CASE e.manipulation = "amplify_contention"
  <2>1. Resolve(e).workers = WorkersFor * k
    BY <1>6 DEF Resolve, k
  <2>2. QED
    BY <2>1, <1>2, <1>3, <1>4, <1>6, CountsAreNat
<1>7. CASE e.manipulation \notin {"serialize_execution", "amplify_contention"}
  <2>1. Resolve(e).workers = WorkersFor
    BY <1>7 DEF Resolve
  <2>2. QED
    BY <2>1, <1>2, <1>4, <1>7, CountsAreNat
<1>8. QED
  BY <1>5, <1>6, <1>7

LEMMA NoReportFacts == NoReport \in Reports /\ NoReport.workers = 0
  BY DEF NoReport, Reports

LEMMA NoExperimentFacts == NoExperiment \in Experiments
  BY DEF NoExperiment, Experiments, Manipulations, Parameters, Effects

LEMMA InitInv == Init => IInv
<1> SUFFICES ASSUME Init PROVE IInv
  OBVIOUS
<1>1. pinned \in BOOLEAN /\ matches \in BOOLEAN /\ unsupported \in BOOLEAN
  BY Zenon DEF Init
<1>2. ~matches
  BY Zenon DEF Init
<1>3. QED
  BY <1>1, <1>2, NoReportFacts, NoExperimentFacts, CountsAreNat
  DEF Init, IInv, TypeOK, Phases, Effects, FlakeWasSeen, Matched, PatchHasSupport,
      StressWasPassed, SupportIsMeasured, PendingIsProven, OnlyEndsArePending

\* What StartOver leaves satisfies everything that is said about a supported patch.
LEMMA StartOverFacts ==
  ASSUME IInv, StartOver
  PROVE  /\ experiment' \in Experiments /\ observed' \in Reports
         /\ observed'.workers <= 8 * DefaultWorkers
         /\ effect' \in Effects \cup {"invalid"}
         /\ ~matches' /\ matches' \in BOOLEAN /\ unsupported' \in BOOLEAN /\ pc' = "round"
<1>1. ~matches' /\ matches' \in BOOLEAN /\ unsupported' \in BOOLEAN
  BY Zenon DEF StartOver
<1>2. QED
  BY <1>1, NoReportFacts, NoExperimentFacts, CountsAreNat DEF StartOver

LEMMA ConfirmInv ==
  ASSUME IInv, Confirm
  PROVE  IInv'
<1> PICK runs \in {Halved(ConfirmRuns)} \cup Overrides :
      \E r \in Batches(runs, WorkersFor) : confirm' = r
  BY DEF Confirm
<1>1. runs \in Nat
  BY HalvedBound, CountsAreNat, EvidenceAssumption
<1>2. WorkersFor \in Nat
  BY WorkersFacts DEF IInv, TypeOK
<1>3. /\ confirm' \in Reports /\ confirm'.workers = WorkersFor
      /\ confirm'.runs = runs
      /\ confirm'.failures + confirm'.errors <= confirm'.runs
  BY <1>1, <1>2, BatchFacts
<1>4. WorkersFor' = WorkersFor
  BY DEF Confirm, WorkersFor
<1>5. ~matches /\ ~matches'
  BY DEF Confirm, IInv, PatchHasSupport, judged
<1>6. TypeOK'
  BY <1>3 DEF Confirm, IInv, TypeOK, Phases, judged
<1>7. FlakeWasSeen'
  <2>1. confirm'.failures = 0 \/ confirm'.failures > 0
    BY <1>3 DEF Reports
  <2>2. QED
    BY <1>3, <1>4, <2>1 DEF Confirm, FlakeWasSeen, Matched
<1>8. PatchHasSupport' /\ StressWasPassed' /\ SupportIsMeasured'
  BY <1>5 DEF Confirm, PatchHasSupport, StressWasPassed, SupportIsMeasured, Matched
<1>9. PendingIsProven' /\ OnlyEndsArePending'
  <2>1. status = "INCOMPLETE"
    BY DEF Confirm, IInv, OnlyEndsArePending
  <2>2. QED
    BY <2>1 DEF Confirm, PendingIsProven, OnlyEndsArePending
<1>10. QED
  BY <1>6, <1>7, <1>8, <1>9 DEF IInv

LEMMA SupportedInv ==
  ASSUME IInv, pc = "round", NEW e \in Experiments,
         NEW r \in Batches(Halved(ExperimentRuns), Resolve(e).workers),
         Judge(confirm, r, e).matches,
         pc' = "patch", experiment' = e, observed' = r,
         effect' = Judge(confirm, r, e).effect, matches' = TRUE,
         unsupported' = Judge(confirm, r, e).unsupported,
         UNCHANGED <<pinned, confirm, stress, final, status>>
  PROVE  IInv'
<1> USE DEF IInv
<1>1. /\ Resolve(e).workers \in Nat /\ Resolve(e).workers <= 8 * DefaultWorkers
      /\ e.manipulation = "amplify_contention" => Resolve(e).workers >= 2 * WorkersFor
      /\ Resolve(e).note \in BOOLEAN
  BY ResolveFacts DEF TypeOK
<1>2. /\ Halved(ExperimentRuns) \in Nat \ {0} /\ Halved(ExperimentRuns) < 200
  BY HalvedBound, CountsAreNat, EvidenceAssumption
<1>3. /\ r \in Reports /\ r.runs > 0 /\ r.runs < 200 /\ r.workers = Resolve(e).workers
  BY <1>1, <1>2, BatchFacts
<1>4. IsSound(r)
  BY DEF Judge
<1>5. /\ effect' = ClassifyEffect(confirm, r)
      /\ Matches(e.predicted, ClassifyEffect(confirm, r))
      /\ unsupported' = Resolve(e).note
  BY <1>4 DEF Judge
<1>6. /\ confirm.failures > 0 /\ confirm.failures + confirm.errors <= confirm.runs
      /\ confirm.workers = WorkersFor /\ confirm \in Reports
  BY DEF FlakeWasSeen, TypeOK
<1>7. effect' \in Effects
  BY <1>3, <1>5, <1>6, Bands
<1>8. TypeOK'
  BY <1>1, <1>3, <1>5, <1>7 DEF TypeOK, Phases
<1>9. FlakeWasSeen'
  <2>1. WorkersFor' = WorkersFor
    BY DEF WorkersFor
  <2>2. QED
    BY <1>6, <2>1 DEF FlakeWasSeen
<1>10. PatchHasSupport'
  <2>1. e.predicted \in Effects
    BY DEF Experiments
  <2>2. ClassifyEffect(confirm', observed') = ClassifyEffect(confirm, r)
    OBVIOUS
  <2>3. QED
    BY <2>1, <2>2, <1>4, <1>5, <1>6 DEF PatchHasSupport, Matched, IsSound
<1>11. StressWasPassed'
  BY DEF StressWasPassed
<1>12. SupportIsMeasured'
  <2>1. e.predicted \in {"eliminated", "reduced"} =>
          ClassifyEffect(confirm, r) \in {"eliminated", "reduced"}
    BY <1>5 DEF Matches
  <2>2. e.predicted = "increased" => ClassifyEffect(confirm, r) = "increased"
    BY <1>5 DEF Matches
  <2>3. /\ ClassifyEffect(confirm, r) \in {"eliminated", "reduced"} =>
             r.failures * Executed(confirm) < confirm.failures * r.runs
        /\ ClassifyEffect(confirm, r) = "increased" =>
             r.failures * confirm.runs > confirm.failures * r.runs
    BY <1>3, <1>6, EffectsAreMoves
  <2>4. Executed(confirm') = Executed(confirm)
    BY DEF Executed
  <2>5. IsSound(observed')
    BY <1>4
  <2>6. e.manipulation = "amplify_contention" => r.workers >= 2 * confirm.workers
    BY <1>1, <1>3, <1>6
  <2> HIDE DEF IInv
  <2>7. QED
    BY <2>1, <2>2, <2>3, <2>4, <2>5, <2>6, <1>3 DEF SupportIsMeasured
<1>13. PendingIsProven' /\ OnlyEndsArePending'
  BY DEF PendingIsProven, OnlyEndsArePending
<1>14. QED
  BY <1>8, <1>9, <1>10, <1>11, <1>12, <1>13

\* A round that starts over keeps the invariant, if it keeps CONFIRM's report.
LEMMA StartOverInv ==
  ASSUME IInv, pc \in {"round"} \cup Matched, StartOver,
         UNCHANGED <<pinned, confirm, final, status>>, stress' \in Reports
  PROVE  IInv'
<1>1. TypeOK'
  BY StartOverFacts DEF IInv, TypeOK, Phases
<1>2. FlakeWasSeen'
  BY DEF IInv, FlakeWasSeen, WorkersFor
<1>3. PatchHasSupport' /\ StressWasPassed' /\ SupportIsMeasured'
  BY StartOverFacts DEF PatchHasSupport, StressWasPassed, SupportIsMeasured, Matched
<1>4. PendingIsProven' /\ OnlyEndsArePending'
  BY DEF IInv, PendingIsProven, OnlyEndsArePending, Matched
<1>5. QED
  BY <1>1, <1>2, <1>3, <1>4 DEF IInv

LEMMA StressInv ==
  ASSUME IInv, Stress
  PROVE  IInv'
<1> USE DEF IInv
<1>1. Halved(StressRuns) \in Nat \ {0}
  BY HalvedBound, CountsAreNat
<1>2. StressWorkers \in Nat
  BY WorkersFacts DEF TypeOK
<1>3. PICK r \in Batches(Halved(StressRuns), StressWorkers) :
        \/ Survives(r) /\ pc' = "verify" /\ stress' = r /\ UNCHANGED judged
        \/ ~Survives(r) /\ UNCHANGED <<pc, stress, judged>>
        \/ ~Survives(r) /\ StartOver /\ UNCHANGED stress
  BY DEF Stress
<1>4. r \in Reports /\ r.runs > 0 /\ r.workers = StressWorkers
  BY <1>1, <1>2, BatchFacts
<1>5. pc = "patch" /\ UNCHANGED <<pinned, confirm, final, status>>
  BY DEF Stress
<1>6. StressWorkers' = StressWorkers /\ WorkersFor' = WorkersFor
  BY <1>5 DEF StressWorkers, WorkersFor
<1>7. CASE Survives(r) /\ pc' = "verify" /\ stress' = r /\ UNCHANGED judged
  <2>1. TypeOK'
    BY <1>4, <1>5, <1>7 DEF TypeOK, Phases, judged
  <2>2. FlakeWasSeen'
    BY <1>5, <1>6, <1>7 DEF FlakeWasSeen, Matched
  <2>3. PatchHasSupport' /\ SupportIsMeasured'
    BY <1>5, <1>7 DEF PatchHasSupport, SupportIsMeasured, Matched, judged, ClassifyEffect,
                      Executed, IsSound
  <2>4. StressWasPassed'
    BY <1>4, <1>6, <1>7 DEF StressWasPassed, Survives, IsSound
  <2>5. PendingIsProven' /\ OnlyEndsArePending'
    BY <1>5, <1>7 DEF PendingIsProven, OnlyEndsArePending
  <2>6. QED
    BY <2>1, <2>2, <2>3, <2>4, <2>5
<1>8. CASE UNCHANGED <<pc, stress, judged>>
  BY <1>5, <1>6, <1>8 DEF TypeOK, FlakeWasSeen, PatchHasSupport, StressWasPassed,
     SupportIsMeasured, PendingIsProven, OnlyEndsArePending, judged, ClassifyEffect, Executed,
     IsSound
<1>9. CASE StartOver /\ UNCHANGED stress
  BY <1>5, <1>9, StartOverInv DEF TypeOK, Matched
<1>10. QED
  BY <1>3, <1>7, <1>8, <1>9

LEMMA VerifyInv ==
  ASSUME IInv, Verify
  PROVE  IInv'
<1> USE DEF IInv
<1>1. PICK runs \in {VerifyRuns} \cup Overrides : \E r \in Batches(runs, WorkersFor) :
        IF r.failures = 0 /\ IsSound(r)
        THEN pc' = "end" /\ status' = "PENDING" /\ final' = r /\ UNCHANGED <<judged, stress>>
        ELSE StartOver /\ stress' = NoReport /\ UNCHANGED <<final, status>>
  BY DEF Verify
<1>2. PICK r \in Batches(runs, WorkersFor) :
        IF r.failures = 0 /\ IsSound(r)
        THEN pc' = "end" /\ status' = "PENDING" /\ final' = r /\ UNCHANGED <<judged, stress>>
        ELSE StartOver /\ stress' = NoReport /\ UNCHANGED <<final, status>>
  BY <1>1
<1>3. runs \in Nat /\ runs > 0
  BY EvidenceAssumption, CountsAreNat
<1>4. /\ WorkersFor \in Nat /\ StressWorkers \in Nat /\ StressWorkers >= 8
      /\ StressWorkers >= 4 * WorkersFor
  BY WorkersFacts DEF TypeOK
<1>5. r \in Reports /\ r.runs > 0 /\ r.workers = WorkersFor
  BY <1>3, <1>4, BatchFacts
<1>6. pc = "verify" /\ UNCHANGED <<pinned, confirm>>
  BY DEF Verify
<1>7. CASE r.failures = 0 /\ IsSound(r)
  <2>0. /\ pc' = "end" /\ status' = "PENDING" /\ final' = r /\ UNCHANGED <<judged, stress>>
    BY <1>2, <1>7
  <2>1. TypeOK'
    BY <2>0, <1>5, <1>6 DEF TypeOK, Phases, judged
  <2>2. FlakeWasSeen' /\ StressWasPassed' /\ OnlyEndsArePending'
    BY <2>0 DEF FlakeWasSeen, Matched, StressWasPassed, OnlyEndsArePending
  <2>3. PatchHasSupport' /\ SupportIsMeasured'
    BY <2>0, <1>6 DEF PatchHasSupport, SupportIsMeasured, Matched, judged, ClassifyEffect,
                      Executed, IsSound
  <2>4. PendingIsProven'
    <3>1. /\ stress'.runs > 0 /\ stress'.failures = 0 /\ stress'.errors = 0
          /\ stress'.workers = StressWorkers
      BY <2>0, <1>6 DEF StressWasPassed
    <3>2. confirm'.failures > 0 /\ confirm'.workers = WorkersFor
      BY <1>6 DEF FlakeWasSeen, Matched
    <3>3. matches'
      BY <2>0, <1>6 DEF PatchHasSupport, Matched, judged
    <3>4. /\ final'.runs > 0 /\ final'.failures = 0 /\ final'.errors = 0
          /\ final'.workers = WorkersFor
      BY <2>0, <1>5, <1>7 DEF IsSound
    <3>5. QED
      BY <3>1, <3>2, <3>3, <3>4, <1>4 DEF PendingIsProven
  <2>5. QED
    BY <2>1, <2>2, <2>3, <2>4
<1>8. CASE ~(r.failures = 0 /\ IsSound(r))
  <2>1. StartOver /\ stress' = NoReport /\ UNCHANGED <<final, status>>
    BY <1>2, <1>8
  <2>2. QED
    BY <2>1, <1>6, StartOverInv, NoReportFacts DEF Matched
<1>9. QED
  BY <1>7, <1>8

LEMMA ExhaustInv ==
  ASSUME IInv, Exhaust
  PROVE  IInv'
  BY DEF Exhaust, IInv, TypeOK, Phases, FlakeWasSeen, Matched, PatchHasSupport,
     StressWasPassed, SupportIsMeasured, PendingIsProven, OnlyEndsArePending, judged,
     ClassifyEffect, Executed, IsSound

LEMMA BaselineInv ==
  ASSUME IInv, MeasureBaseline
  PROVE  IInv'
<1> USE DEF IInv
<1>1. PICK runs \in {VerifyRuns, 0} \cup Overrides :
        \E r \in Batches(runs, WorkersFor) :
          /\ final' = r
          /\ status' = IF r.failures = 0 /\ IsSound(r) THEN "fixed" ELSE "not fixed"
  BY DEF MeasureBaseline
<1>2. runs \in Nat /\ WorkersFor \in Nat
  <2>1. runs \in Nat
    BY EvidenceAssumption, CountsAreNat
  <2>2. pinned \in BOOLEAN
    BY DEF TypeOK
  <2>3. QED
    BY <2>1, <2>2, WorkersFacts
<1>3. final' \in Reports /\ status' \in {"fixed", "not fixed"}
  BY <1>1, <1>2, BatchFacts
<1>4. pc = "baseline" /\ pc' = "end" /\ UNCHANGED <<pinned, confirm, judged, stress>>
  BY DEF MeasureBaseline
<1>5. ~matches
  BY <1>4 DEF PatchHasSupport
<1>6. TypeOK'
  BY <1>3, <1>4 DEF TypeOK, Phases, judged
<1>7. QED
  BY <1>3, <1>4, <1>5, <1>6 DEF FlakeWasSeen, Matched, PatchHasSupport, StressWasPassed,
     SupportIsMeasured, PendingIsProven, OnlyEndsArePending, judged

LEMMA ExperimentInv ==
  ASSUME IInv, NEW e \in Experiments, RunExperiment(e)
  PROVE  IInv'
<1>1. PICK r \in Batches(Halved(ExperimentRuns), Resolve(e).workers) :
        IF Judge(confirm, r, e).matches
        THEN /\ pc' = "patch"
             /\ experiment' = e /\ observed' = r
             /\ effect' = Judge(confirm, r, e).effect /\ matches' = TRUE
             /\ unsupported' = Judge(confirm, r, e).unsupported
        ELSE StartOver
  BY Zenon DEF RunExperiment
<1>2. pc = "round" /\ UNCHANGED <<pinned, confirm, stress, final, status>>
  BY DEF RunExperiment
<1>3. CASE Judge(confirm, r, e).matches
  BY <1>1, <1>2, <1>3, SupportedInv, Zenon
<1>4. CASE ~Judge(confirm, r, e).matches
  BY <1>1, <1>2, <1>4, StartOverInv DEF IInv, TypeOK
<1>5. QED
  BY <1>3, <1>4

LEMMA StepInv == IInv /\ [Next]_vars => IInv'
<1> SUFFICES ASSUME IInv, [Next]_vars PROVE IInv'
  OBVIOUS
<1>0. CASE UNCHANGED vars
  <2> USE <1>0 DEF IInv, vars, judged
  <2>1. TypeOK' /\ OnlyEndsArePending'
    BY DEF TypeOK, OnlyEndsArePending
  <2>2. FlakeWasSeen' /\ StressWasPassed' /\ PendingIsProven'
    BY DEF FlakeWasSeen, StressWasPassed, PendingIsProven, WorkersFor, StressWorkers
  <2>3. PatchHasSupport' /\ SupportIsMeasured'
    BY DEF PatchHasSupport, SupportIsMeasured, ClassifyEffect, Executed, IsSound
  <2>4. QED
    BY <2>1, <2>2, <2>3
<1>1. QED
  BY <1>0, ConfirmInv, ExperimentInv, StressInv, VerifyInv, ExhaustInv, BaselineInv
  DEF Next, Rest

LEMMA Safety == Spec => []IInv
  BY InitInv, StepInv, PTL DEF Spec

-----------------------------------------------------------------------------

\* Every variable keeps its type, whatever the batches show.
THEOREM TypeCorrect == Spec => []TypeOK
<1>1. IInv => TypeOK
  BY DEF IInv
<1>2. QED
  BY <1>1, Safety, PTL

\* Support for a hypothesis rests on runs that ran and a rate that moved as predicted.
THEOREM SupportSafety == Spec => []SupportIsMeasured
<1>1. IInv => SupportIsMeasured
  BY DEF IInv
<1>2. QED
  BY <1>1, Safety, PTL

\* What is offered for approval passed a stress batch and a verification that both ran.
THEOREM PendingSafety == Spec => []PendingIsProven
<1>1. IInv => PendingIsProven
  BY DEF IInv
<1>2. QED
  BY <1>1, Safety, PTL

LEMMA FewerStillFall ==
  ASSUME NEW base \in Reports, NEW seen \in Reports, NEW other \in Reports,
         base.failures > 0, other.runs = seen.runs, other.failures <= seen.failures,
         ClassifyEffect(base, seen) \in {"eliminated", "reduced"}
  PROVE  ClassifyEffect(base, other) \in {"eliminated", "reduced"}
<1>1. /\ base.failures \in Nat /\ base.runs \in Nat /\ seen.failures \in Nat
      /\ seen.runs \in Nat /\ other.failures \in Nat
  BY DEF Reports
<1>2. CASE 1000 * other.failures <= 5 * other.runs
  BY <1>2 DEF ClassifyEffect
<1>3. CASE ~(1000 * other.failures <= 5 * other.runs)
  <2>1. ~(1000 * seen.failures <= 5 * seen.runs)
    BY <1>1, <1>3
  <2>2. 10 * seen.failures * base.runs <= 4 * base.failures * seen.runs
    BY <2>1, Bands
  <2>3. other.failures * base.runs <= seen.failures * base.runs
    BY <1>1, ProductGrows
  <2>4. /\ 10 * other.failures * base.runs = 10 * (other.failures * base.runs)
        /\ 10 * seen.failures * base.runs = 10 * (seen.failures * base.runs)
        /\ 4 * base.failures * seen.runs = 4 * (base.failures * seen.runs)
        /\ other.failures * base.runs \in Nat /\ seen.failures * base.runs \in Nat
        /\ base.failures * seen.runs \in Nat
    BY <1>1, Associate, Products
  <2>5. 10 * other.failures * base.runs <= 4 * base.failures * other.runs
    BY <2>2, <2>3, <2>4
  <2>6. QED
    BY <2>5 DEF ClassifyEffect
<1>4. QED
  BY <1>2, <1>3

LEMMA MoreStillRise ==
  ASSUME NEW base \in Reports, NEW seen \in Reports, NEW other \in Reports,
         base.failures > 0, seen.runs > 0,
         other.runs = seen.runs, other.failures >= seen.failures,
         ClassifyEffect(base, seen) = "increased"
  PROVE  ClassifyEffect(base, other) = "increased"
<1>1. /\ base.failures \in Nat /\ base.runs \in Nat /\ seen.failures \in Nat
      /\ seen.runs \in Nat /\ other.failures \in Nat
  BY DEF Reports
<1>2. ~(1000 * seen.failures <= 5 * seen.runs)
  BY Bands
<1>3. 4 * seen.failures * base.runs >= 7 * base.failures * seen.runs
  BY Bands
<1>4. seen.failures * base.runs <= other.failures * base.runs
  BY <1>1, ProductGrows
<1>5. /\ 10 * other.failures * base.runs = 10 * (other.failures * base.runs)
      /\ 4 * other.failures * base.runs = 4 * (other.failures * base.runs)
      /\ 4 * seen.failures * base.runs = 4 * (seen.failures * base.runs)
      /\ 4 * base.failures * seen.runs = 4 * (base.failures * seen.runs)
      /\ 7 * base.failures * seen.runs = 7 * (base.failures * seen.runs)
      /\ other.failures * base.runs \in Nat /\ seen.failures * base.runs \in Nat
      /\ base.failures * seen.runs \in Nat /\ base.failures * seen.runs > 0
  BY <1>1, Associate, Products
<1>6. 4 * other.failures * base.runs >= 7 * base.failures * other.runs
  BY <1>3, <1>4, <1>5
<1>7. ~(10 * other.failures * base.runs <= 4 * base.failures * other.runs)
  BY <1>5, <1>6
<1>8. ~(1000 * other.failures <= 5 * other.runs)
  BY <1>1, <1>2
<1>9. base.failures # 0
  BY <1>1
<1>10. QED
  BY <1>6, <1>7, <1>8, <1>9 DEF ClassifyEffect

\* Support does not turn into refutation when the batch comes out more as predicted.
THEOREM OrderSafety == Spec => []SupportIsOrdered
<1>1. IInv => SupportIsOrdered
  <2> SUFFICES ASSUME IInv, matches, NEW f \in Counts
               PROVE  LET other == [observed EXCEPT !.failures = f] IN
                      \/ experiment.predicted = "eliminated" /\ f > observed.failures
                      \/ experiment.predicted = "increased" /\ f < observed.failures
                      \/ experiment.predicted \in {"reduced", "unchanged"}
                      \/ Judge(confirm, other, experiment).matches
    BY DEF SupportIsOrdered
  <2> DEFINE other == [observed EXCEPT !.failures = f]
  <2>1. /\ observed \in Reports /\ confirm \in Reports /\ f \in Nat
        /\ observed.failures \in Nat
    BY EvidenceAssumption DEF IInv, TypeOK, Reports
  <2>2. /\ other \in Reports /\ other.runs = observed.runs /\ other.failures = f
        /\ other.errors = observed.errors
    BY <2>1 DEF Reports
  <2>3. /\ confirm.failures > 0 /\ experiment.predicted \in Effects /\ IsSound(other)
        /\ Matches(experiment.predicted, ClassifyEffect(confirm, observed))
        /\ observed.runs > 0
    BY <2>2 DEF IInv, PatchHasSupport, SupportIsMeasured, IsSound
  <2> HIDE DEF other
  <2>4. Judge(confirm, other, experiment).matches
          = Matches(experiment.predicted, ClassifyEffect(confirm, other))
    BY <2>3 DEF Judge
  <2>5. CASE experiment.predicted = "eliminated" /\ f <= observed.failures
    <3>1. ClassifyEffect(confirm, observed) \in {"eliminated", "reduced"}
      BY <2>3, <2>5 DEF Matches
    <3>2. ClassifyEffect(confirm, other) \in {"eliminated", "reduced"}
      BY <3>1, <2>1, <2>2, <2>3, <2>5, FewerStillFall
    <3>3. Matches(experiment.predicted, ClassifyEffect(confirm, other))
      BY <3>2, <2>5 DEF Matches
    <3>4. QED
      BY <3>3, <2>4 DEF other
  <2>6. CASE experiment.predicted = "increased" /\ f >= observed.failures
    <3>1. ClassifyEffect(confirm, observed) = "increased"
      BY <2>3, <2>6 DEF Matches
    <3>2. ClassifyEffect(confirm, other) = "increased"
      BY <3>1, <2>1, <2>2, <2>3, <2>6, MoreStillRise
    <3>3. Matches(experiment.predicted, ClassifyEffect(confirm, other))
      BY <3>2, <2>6 DEF Matches
    <3>4. QED
      BY <3>3, <2>4 DEF other
  <2>7. QED
    BY <2>1, <2>3, <2>5, <2>6 DEF Effects
<1>2. QED
  BY <1>1, Safety, PTL
=============================================================================

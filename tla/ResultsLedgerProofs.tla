------------------------- MODULE ResultsLedgerProofs -------------------------
(***************************************************************************)
(* Safety of the results file for any cases, any number of launches and    *)
(* decisions, and any grading of evidence.                                 *)
(***************************************************************************)
EXTENDS ResultsLedger, TLAPS

\* Whoever is at work knows on what, and what a launch has concluded is its own.
WorkIsKnown ==
  /\ pcL # "idle" => launches >= 1
  /\ pcL \in {"replace", "package"} => case \in Cases
  /\ pcL = "idle" => outcomes = Empty /\ todo = {}
  /\ pcH # "idle" => subject \in Cases /\ decision \in Decisions
  /\ pcH = "apply" => apply
  /\ apply => decision = "approved"
  /\ \A c \in Cases : outcomes[c] # None =>
       outcomes[c].launch = launches /\ outcomes[c].status \in Concluded

\* A judged record of case c has its turn, or its gap.
HasTurn(c, record) ==
  record # None /\ Judged(record) =>
    \E verdict \in Decisions :
      record.status = StatusOf(verdict) /\ <<c, verdict>> \in Told

\* DecisionsAreTold, for what either program holds in memory as well.
ToldEverywhere ==
  /\ pcH \in {"document", "read", "truncate", "write"} => <<subject, decision>> \in Told
  /\ \A c \in Cases :
       /\ HasTurn(c, results[c]) /\ HasTurn(c, merged[c]) /\ HasTurn(c, updated[c])
       /\ packages[c].decision # None => <<c, packages[c].decision>> \in Told

\* The package of case c is whole, or being replaced, or was cut off.
Packaged(c) == c \in cut \/ (pcL = "package" /\ case = c) \/ packages[c].whole

Pending(record) == record # None /\ record.status = "PENDING"

\* PendingHasPackage, for what either program holds in memory as well.
PackagedEverywhere ==
  \A c \in Cases :
    /\ Pending(results[c]) \/ Pending(merged[c]) \/ Pending(updated[c]) => Packaged(c)
    /\ Pending(outcomes[c]) => Packaged(c) \/ (pcL = "replace" /\ case = c)

\* A record of case c that keeps what was saved of it: its depth, and its last attempt.
KeepsDepth(c, record) ==
  c \notin judged /\ best[c] # None => record # None /\ AsDeep(record, best[c])
KeepsAttempt(c, record) ==
  latest[c] # 0 =>
    record # None /\ (latest[c] = record.launch \/ latest[c] \in record.superseded)

\* As long as the programs take turns, the file, or the document that is about to replace
\* it, keeps all that was saved and, in a launch's hands, all that is being saved.
NothingIsLost ==
  ~overlapped =>
    /\ ~(LaunchSaves /\ ScriptSaves)
    /\ Settled => \A c \in Cases : KeepsDepth(c, results[c]) /\ KeepsAttempt(c, results[c])
    /\ LaunchSaves => \A c \in Cases :
         /\ KeepsDepth(c, merged[c])
         /\ outcomes[c] = None => KeepsAttempt(c, merged[c])
         /\ outcomes[c] # None =>
              /\ merged[c] # None
              /\ AsDeep(merged[c], outcomes[c])
              /\ launches = merged[c].launch \/ launches \in merged[c].superseded
    /\ ScriptSaves => \A c \in Cases :
         /\ c # subject => KeepsDepth(c, updated[c])
         /\ KeepsAttempt(c, updated[c])

IInv ==
  /\ TypeOK /\ WorkIsKnown
  /\ ToldEverywhere /\ PackagedEverywhere /\ NothingIsLost

-----------------------------------------------------------------------------

USE LedgerAssumption, LedgerNoneAssumption
USE DEF vars, files, process, script, saves, marks

\* evidence_depth is a total preorder on records.
LEMMA DepthOrder ==
  /\ \A a, b \in Record : AsDeep(a, b) \/ AsDeep(b, a)
  /\ \A a \in Record : AsDeep(a, a)
  /\ \A a, b, c \in Record : AsDeep(a, b) /\ AsDeep(b, c) => AsDeep(a, c)
<1>1. \A s \in Statuses : Rank(s) \in Int
  BY DEF Rank, Statuses, Concluded
<1>2. \A r \in Record : Rank(r.status) \in Int /\ r.evidence \in Int
  BY <1>1 DEF Record
<1>3. QED
  BY <1>2 DEF AsDeep

\* What merge_results makes of one case: the record on file, perhaps with the incoming
\* launch among those it superseded, or an incoming record at least as deep.
LEMMA MergeFacts ==
  ASSUME NEW old \in Ledger, NEW new \in Ledger
  PROVE  /\ Merge(old, new) \in Ledger
         /\ \A c \in Cases :
              /\ new[c] = None => Merge(old, new)[c] = old[c]
              /\ new[c] # None =>
                   \/ Merge(old, new)[c] = new[c] /\ (old[c] = None \/ AsDeep(new[c], old[c]))
                   \/ /\ old[c] # None /\ ~AsDeep(new[c], old[c])
                      /\ Merge(old, new)[c] # None
                      /\ Merge(old, new)[c].status = old[c].status
                      /\ Merge(old, new)[c].evidence = old[c].evidence
                      /\ Merge(old, new)[c].launch = old[c].launch
                      /\ Merge(old, new)[c].superseded =
                           old[c].superseded \cup {new[c].launch}
<1> DEFINE marked(c) == [old[c] EXCEPT !.superseded = old[c].superseded \cup {new[c].launch}]
<1>1. \A c \in Cases : old[c] \in Record \cup {None} /\ new[c] \in Record \cup {None}
  BY DEF Ledger
<1>2. ASSUME NEW c \in Cases, old[c] # None, new[c] # None
      PROVE  /\ marked(c) \in Record /\ marked(c) # None
             /\ marked(c).status = old[c].status /\ marked(c).evidence = old[c].evidence
             /\ marked(c).launch = old[c].launch
             /\ marked(c).superseded = old[c].superseded \cup {new[c].launch}
  <2>1. old[c] \in Record /\ new[c] \in Record
    BY <1>1, <1>2
  <2>2. new[c].launch \in 1..MaxLaunches /\ old[c].superseded \in SUBSET (1..MaxLaunches)
    BY <2>1 DEF Record
  <2>3. QED
    BY <2>1, <2>2 DEF Record
<1>3. \A c \in Cases : Merge(old, new)[c] =
        IF new[c] = None THEN old[c]
        ELSE IF old[c] = None \/ AsDeep(new[c], old[c]) THEN new[c]
        ELSE marked(c)
  BY DEF Merge
<1>4. Merge(old, new) \in Ledger
  <2>1. \A c \in Cases : Merge(old, new)[c] \in Record \cup {None}
    BY <1>1, <1>2, <1>3
  <2>2. QED
    BY <2>1 DEF Ledger, Merge
<1>5. QED
  BY <1>2, <1>3, <1>4

\* Of a case, the file keeps the status and the evidence of one of the two records, and
\* one at least as deep as each.
LEMMA MergeIsDeepest ==
  ASSUME NEW old \in Ledger, NEW new \in Ledger, NEW c \in Cases
  PROVE  LET m == Merge(old, new)[c] IN
         /\ m = None <=> old[c] = None /\ new[c] = None
         /\ old[c] # None => AsDeep(m, old[c])
         /\ new[c] # None => AsDeep(m, new[c])
         /\ m # None => \E r \in {old[c], new[c]} \ {None} :
                          m.status = r.status /\ m.evidence = r.evidence
<1> DEFINE m == Merge(old, new)[c]
<1>1. /\ old[c] \in Record \cup {None} /\ new[c] \in Record \cup {None}
      /\ m \in Record \cup {None}
  BY MergeFacts DEF Ledger
<1>2. CASE new[c] = None
  <2>1. m = old[c]
    BY <1>2, MergeFacts
  <2>2. QED
    BY <1>1, <1>2, <2>1, DepthOrder
<1>3. CASE new[c] # None /\ m = new[c] /\ (old[c] = None \/ AsDeep(new[c], old[c]))
  BY <1>1, <1>3, DepthOrder
<1>4. CASE /\ new[c] # None /\ old[c] # None /\ ~AsDeep(new[c], old[c]) /\ m # None
           /\ m.status = old[c].status /\ m.evidence = old[c].evidence
  <2>1. AsDeep(m, old[c]) <=> AsDeep(old[c], old[c])
    BY <1>4 DEF AsDeep
  <2>2. AsDeep(m, new[c]) <=> AsDeep(old[c], new[c])
    BY <1>4 DEF AsDeep
  <2>3. AsDeep(old[c], old[c]) /\ AsDeep(old[c], new[c])
    BY <1>1, <1>4, DepthOrder
  <2>4. old[c] \in {old[c], new[c]} \ {None}
    BY <1>4
  <2>5. QED
    BY <1>4, <2>1, <2>2, <2>3, <2>4
<1>5. QED
  BY <1>2, <1>3, <1>4, MergeFacts

\* run_agent.py merges everything it has concluded after every case (128-138): the file is
\* the one a single merge at the end would leave, so that repeated saves neither demote a
\* record nor take the launch's own earlier save for another attempt
\* (results_store.py:70-110).  How often the file lists a shallower attempt is not told
\* apart here: the code lists it again at every save.
THEOREM MergeAccumulates ==
  ASSUME NEW old \in Ledger, NEW some \in Ledger, NEW more \in Ledger,
         \A c \in Cases : some[c] \in {None, more[c]}
  PROVE  Merge(Merge(old, some), more) = Merge(old, more)
<1>1. SUFFICES ASSUME NEW c \in Cases
               PROVE  Merge(Merge(old, some), more)[c] = Merge(old, more)[c]
  BY DEF Merge
<1> DEFINE mid == Merge(old, some)
<1>2. mid \in Ledger /\ more[c] \in Record \cup {None} /\ old[c] \in Record \cup {None}
  BY MergeFacts DEF Ledger
<1>3. CASE some[c] = None
  <2>1. mid[c] = old[c]
    BY <1>3, MergeFacts
  <2>2. QED
    BY <2>1 DEF Merge
<1>4. CASE some[c] = more[c] /\ more[c] # None
  <2>1. CASE old[c] = None \/ AsDeep(more[c], old[c])
    <3>1. mid[c] = more[c]
      BY <1>4, <2>1 DEF Merge
    <3>2. AsDeep(more[c], more[c])
      BY <1>2, <1>4, DepthOrder
    <3>3. QED
      BY <1>4, <2>1, <3>1, <3>2 DEF Merge
  <2>2. CASE old[c] # None /\ ~AsDeep(more[c], old[c])
    <3> DEFINE marked == [old[c] EXCEPT !.superseded = old[c].superseded \cup {more[c].launch}]
    <3>1. mid[c] = marked /\ Merge(old, more)[c] = marked
      BY <1>4, <2>2 DEF Merge
    <3>2. old[c] \in Record
      BY <1>2, <2>2
    <3>3. /\ marked.status = old[c].status /\ marked.evidence = old[c].evidence
          /\ marked.superseded = old[c].superseded \cup {more[c].launch}
          /\ [marked EXCEPT !.superseded = marked.superseded \cup {more[c].launch}] = marked
      BY <3>2 DEF Record
    <3> HIDE DEF marked
    <3>4. ~AsDeep(more[c], marked)
      BY <2>2, <3>3 DEF AsDeep
    <3>5. marked # None
      BY <1>4, <2>2, <3>1, MergeFacts
    <3>6. Merge(mid, more)[c] =
            [marked EXCEPT !.superseded = marked.superseded \cup {more[c].launch}]
      BY <1>4, <3>1, <3>4, <3>5 DEF Merge
    <3>7. QED
      BY <3>1, <3>3, <3>6
  <2>3. QED
    BY <2>1, <2>2
<1>5. QED
  BY <1>3, <1>4

\* Nothing has been run or decided yet.
LEMMA InitEstablishesIInv == Init => IInv
<1> SUFFICES ASSUME Init PROVE IInv
  OBVIOUS
<1>1. Empty \in Ledger /\ \A c \in Cases : Empty[c] = None
  BY DEF Empty, Ledger
<1>2. NoPackage \in Package /\ NoPackage.decision = None
  BY DEF NoPackage, Package
<1>3. TypeOK
  <2>1. packages \in [Cases -> Package]
    BY <1>2 DEF Init
  <2>2. corpus \in [Cases -> 0..MaxLaunches] /\ latest \in [Cases -> 0..MaxLaunches]
    BY DEF Init
  <2>3. results \in Ledger /\ outcomes \in Ledger /\ merged \in Ledger /\ updated \in Ledger
        /\ found \in Ledger /\ best \in Ledger
    BY <1>1 DEF Init
  <2>4. launches \in 0..MaxLaunches /\ decisions \in 0..MaxDecisions
    BY DEF Init, LedgerAssumption
  <2>5. /\ turns \in SUBSET (Cases \X Decisions) /\ gaps \in SUBSET (Cases \X Decisions)
        /\ todo \in SUBSET Cases
    BY DEF Init
  <2>6. apply \in BOOLEAN /\ overlapped \in BOOLEAN
    BY DEF Init
  <2>7. QED
    BY <2>1, <2>2, <2>3, <2>4, <2>5, <2>6 DEF Init, TypeOK
<1>4. WorkIsKnown
  BY <1>1 DEF Init, WorkIsKnown
<1>5. ToldEverywhere
  BY <1>1, <1>2 DEF Init, ToldEverywhere, HasTurn
<1>6. PackagedEverywhere
  BY <1>1 DEF Init, PackagedEverywhere, Pending
<1>7. NothingIsLost
  BY <1>1 DEF Init, NothingIsLost, KeepsDepth, KeepsAttempt, LaunchSaves, ScriptSaves
<1>8. QED
  BY <1>3, <1>4, <1>5, <1>6, <1>7 DEF IInv

\* What update_results makes of the file: the status of the subject's record changes.
LEMMA UpdateFacts ==
  ASSUME TypeOK, WorkIsKnown, UpdateResults, results[subject] # None
  PROVE  /\ subject \in Cases /\ decision \in Decisions
         /\ updated' \in Ledger
         /\ \A c \in Cases : c # subject => updated'[c] = results[c]
         /\ updated'[subject] # None
         /\ updated'[subject].status = StatusOf(decision)
         /\ updated'[subject].launch = results[subject].launch
         /\ updated'[subject].superseded = results[subject].superseded
<1> DEFINE status == StatusOf(decision)
           record == [results[subject] EXCEPT !.status = status]
<1>1. subject \in Cases /\ decision \in Decisions /\ results \in Ledger
  BY DEF UpdateResults, TypeOK, WorkIsKnown
<1>2. status \in Statuses
  BY <1>1 DEF StatusOf, Statuses
<1>3. updated' = [results EXCEPT ![subject] = record]
  BY DEF UpdateResults
<1> HIDE DEF status
<1>4. /\ record \in Record /\ record # None /\ record.status = status
      /\ record.launch = results[subject].launch
      /\ record.superseded = results[subject].superseded
  <2>1. results[subject] \in Record
    BY <1>1 DEF Ledger
  <2>2. QED
    BY <1>2, <2>1 DEF Record
<1> HIDE DEF record
<1>5. /\ updated' \in Ledger /\ updated'[subject] = record
      /\ \A c \in Cases : c # subject => updated'[c] = results[c]
  BY <1>1, <1>3, <1>4 DEF Ledger
<1>6. QED
  BY <1>1, <1>4, <1>5 DEF status

\* What writing into one package leaves of them.
LEMMA PackageFacts ==
  ASSUME NEW old \in [Cases -> Package], NEW s \in Cases,
         NEW n \in 0..MaxLaunches, NEW verdict \in Decisions
  PROVE  /\ [NoPackage EXCEPT !.launch = n] \in Package
         /\ [NoPackage EXCEPT !.launch = n].decision = None
         /\ [old[s] EXCEPT !.whole = TRUE] \in Package
         /\ [old[s] EXCEPT !.whole = TRUE].whole
         /\ [old[s] EXCEPT !.whole = TRUE].decision = old[s].decision
         /\ [old[s] EXCEPT !.decision = verdict] \in Package
         /\ [old[s] EXCEPT !.decision = verdict].decision = verdict
         /\ [old[s] EXCEPT !.decision = verdict].whole = old[s].whole
<1>1. old[s] \in Package
  OBVIOUS
<1>2. QED
  BY <1>1 DEF NoPackage, Package

\* The empty file holds no record.
LEMMA EmptyFacts == Empty \in Ledger /\ \A c \in Cases : Empty[c] = None
BY DEF Empty, Ledger

\* The outcome RunCase adds is a record of the launch.
LEMMA OutcomeFacts ==
  ASSUME TypeOK, NEW c \in Cases, NEW status \in Concluded, NEW evidence \in 0..MaxEvidence,
         launches >= 1, RunCase(c, status, evidence)
  PROVE  outcomes' \in Ledger
<1>1. [launch |-> launches, status |-> status, evidence |-> evidence, superseded |-> {}]
        \in Record
  BY DEF Record, TypeOK, Statuses
<1>2. QED
  BY <1>1 DEF RunCase, TypeOK, Ledger

\* Every step keeps the types.
LEMMA TypesKept ==
  ASSUME IInv, [Next]_vars
  PROVE  TypeOK'
<1> USE DEF IInv
<1>1. ASSUME NEW selected \in SUBSET Cases, Launch(selected)
      PROVE  TypeOK'
  BY <1>1 DEF Launch, TypeOK
<1>2. ASSUME NEW c \in Cases, NEW status \in Concluded, NEW evidence \in 0..MaxEvidence,
             RunCase(c, status, evidence)
      PROVE  TypeOK'
  <2>1. launches >= 1
    BY <1>2 DEF WorkIsKnown, RunCase
  <2>2. outcomes' \in Ledger
    BY <1>2, <2>1, OutcomeFacts
  <2>3. QED
    BY <1>2, <2>2 DEF RunCase, TypeOK
<1>3. CASE ReplacePackage
  <2>1. [NoPackage EXCEPT !.launch = launches] \in Package
    BY DEF TypeOK, NoPackage, Package
  <2>2. packages' \in [Cases -> Package]
    BY <1>3, <2>1 DEF ReplacePackage, TypeOK
  <2>3. QED
    BY <1>3, <2>2 DEF ReplacePackage, TypeOK
<1>4. CASE FinishPackage
  <2>1. case \in Cases
    BY <1>4 DEF FinishPackage, WorkIsKnown
  <2>2. [packages[case] EXCEPT !.whole = TRUE] \in Package
    <3>1. packages \in [Cases -> Package] /\ launches \in 0..MaxLaunches
      BY DEF TypeOK
    <3>2. "approved" \in Decisions
      BY DEF Decisions
    <3>3. QED
      BY <2>1, <3>1, <3>2, PackageFacts
  <2>3. packages' \in [Cases -> Package]
    BY <1>4, <2>1, <2>2 DEF FinishPackage, TypeOK
  <2>4. QED
    BY <1>4, <2>3 DEF FinishPackage, TypeOK
<1>5. CASE ReadAndMerge
  <2>1. merged' \in Ledger
    BY <1>5, MergeFacts DEF ReadAndMerge, TypeOK
  <2>2. overlapped' \in BOOLEAN
    BY <1>5 DEF ReadAndMerge
  <2>3. QED
    BY <1>5, <2>1, <2>2 DEF ReadAndMerge, TypeOK
<1>6. CASE LaunchTruncates
  BY <1>6, EmptyFacts DEF LaunchTruncates, TypeOK
<1>7. CASE LaunchWrites
  <2>1. best' \in Ledger
    BY <1>7 DEF LaunchWrites, TypeOK, Ledger
  <2>2. latest' \in [Cases -> 0..MaxLaunches]
    BY <1>7 DEF LaunchWrites, TypeOK
  <2>3. outcomes' \in Ledger /\ merged' \in Ledger
    BY <1>7, EmptyFacts DEF LaunchWrites, ProcessEnds, TypeOK
  <2>4. /\ todo' \in SUBSET Cases /\ case' \in Cases \cup {None}
        /\ pcL' \in {"idle", "case"}
    BY <1>7 DEF LaunchWrites, ProcessEnds, TypeOK
  <2>5. QED
    BY <1>7, <2>1, <2>2, <2>3, <2>4 DEF LaunchWrites, TypeOK
<1>8. CASE LaunchDies
  <2>1. best' \in Ledger /\ latest' \in [Cases -> 0..MaxLaunches]
    BY <1>8, EmptyFacts DEF LaunchDies, Tear, TypeOK
  <2>2. cut' \in SUBSET Cases
    BY <1>8 DEF LaunchDies, TypeOK, WorkIsKnown
  <2>3. QED
    BY <1>8, <2>1, <2>2, EmptyFacts DEF LaunchDies, ProcessEnds, TypeOK
<1>9. ASSUME NEW c \in Cases, NEW verdict \in Decisions, NEW install \in BOOLEAN,
             Decide(c, verdict, install)
      PROVE  TypeOK'
  BY <1>9 DEF Decide, TypeOK
<1>10. CASE ApplyPatchFiles
  <2>1. subject \in Cases
    BY <1>10 DEF ApplyPatchFiles, WorkIsKnown
  <2>2. packages[subject].launch \in 0..MaxLaunches
    BY <2>1 DEF TypeOK, Package
  <2>3. corpus' \in [Cases -> 0..MaxLaunches]
    BY <1>10, <2>1, <2>2 DEF ApplyPatchFiles, TypeOK
  <2>4. QED
    BY <1>10, <2>3 DEF ApplyPatchFiles, TypeOK
<1>11. CASE TraceDecision
  BY <1>11 DEF TraceDecision, TypeOK, WorkIsKnown
<1>12. CASE DocumentDecision
  <2>1. subject \in Cases /\ decision \in Decisions
    BY <1>12 DEF DocumentDecision, WorkIsKnown
  <2>2. [packages[subject] EXCEPT !.decision = decision] \in Package
    BY <2>1 DEF TypeOK, Package
  <2>3. packages' \in [Cases -> Package]
    BY <1>12, <2>1, <2>2 DEF DocumentDecision, TypeOK
  <2>4. QED
    BY <1>12, <2>3 DEF DocumentDecision, TypeOK
<1>13. CASE UpdateResults
  <2>1. subject \in Cases /\ decision \in Decisions
    BY <1>13 DEF UpdateResults, WorkIsKnown
  <2>2. CASE results[subject] = None
    BY <1>13, <2>2, EmptyFacts DEF UpdateResults, ScriptEnds, TypeOK
  <2>3. CASE results[subject] # None
    <3>1. updated' \in Ledger
      BY <1>13, <2>3, UpdateFacts
    <3>2. overlapped' \in BOOLEAN
      BY <1>13, <2>3 DEF UpdateResults
    <3>3. QED
      BY <1>13, <2>3, <3>1, <3>2 DEF UpdateResults, TypeOK
  <2>4. QED
    BY <2>2, <2>3
<1>14. CASE ScriptTruncates
  BY <1>14, EmptyFacts DEF ScriptTruncates, TypeOK
<1>15. CASE ScriptWrites
  <2>1. judged' \in SUBSET Cases
    BY <1>15 DEF ScriptWrites, TypeOK, WorkIsKnown
  <2>2. QED
    BY <1>15, <2>1, EmptyFacts DEF ScriptWrites, ScriptEnds, TypeOK
<1>16. CASE ScriptDies
  <2>1. best' \in Ledger /\ latest' \in [Cases -> 0..MaxLaunches]
    BY <1>16, EmptyFacts DEF ScriptDies, Tear, TypeOK
  <2>2. QED
    BY <1>16, <2>1, EmptyFacts DEF ScriptDies, ScriptEnds, TypeOK
<1>17. CASE UNCHANGED vars
  BY <1>17 DEF TypeOK
<1>18. QED
  BY <1>1, <1>2, <1>3, <1>4, <1>5, <1>6, <1>7, <1>8, <1>9, <1>10, <1>11, <1>12, <1>13,
     <1>14, <1>15, <1>16, <1>17 DEF Next, LaunchStep, ScriptStep, Rest

\* Every step keeps what the programs know of their work.
LEMMA WorkKept ==
  ASSUME IInv, [Next]_vars
  PROVE  WorkIsKnown'
<1> USE DEF IInv
<1>1. ASSUME NEW selected \in SUBSET Cases, Launch(selected)
      PROVE  WorkIsKnown'
  BY <1>1 DEF Launch, TypeOK, WorkIsKnown, Empty
<1>2. ASSUME NEW c \in Cases, NEW status \in Concluded, NEW evidence \in 0..MaxEvidence,
             RunCase(c, status, evidence)
      PROVE  WorkIsKnown'
  BY <1>2 DEF RunCase, TypeOK, Ledger, WorkIsKnown
<1>3. CASE ReplacePackage
  BY <1>3 DEF ReplacePackage, TypeOK, WorkIsKnown
<1>4. CASE FinishPackage
  BY <1>4 DEF FinishPackage, TypeOK, WorkIsKnown
<1>5. CASE ReadAndMerge
  BY <1>5 DEF ReadAndMerge, TypeOK, WorkIsKnown
<1>6. CASE LaunchTruncates
  BY <1>6, EmptyFacts DEF LaunchTruncates, TypeOK, WorkIsKnown
<1>7. CASE LaunchWrites
  <2>1. CASE todo = {}
    BY <1>7, <2>1, EmptyFacts DEF LaunchWrites, ProcessEnds, TypeOK, WorkIsKnown
  <2>2. CASE todo # {}
    BY <1>7, <2>2 DEF LaunchWrites, TypeOK, WorkIsKnown
  <2>3. QED
    BY <2>1, <2>2
<1>8. CASE LaunchDies
  BY <1>8, EmptyFacts DEF LaunchDies, ProcessEnds, TypeOK, WorkIsKnown
<1>9. ASSUME NEW c \in Cases, NEW verdict \in Decisions, NEW install \in BOOLEAN,
             Decide(c, verdict, install)
      PROVE  WorkIsKnown'
  BY <1>9 DEF Decide, TypeOK, WorkIsKnown
<1>10. CASE ApplyPatchFiles
  BY <1>10 DEF ApplyPatchFiles, TypeOK, WorkIsKnown
<1>11. CASE TraceDecision
  BY <1>11 DEF TraceDecision, TypeOK, WorkIsKnown
<1>12. CASE DocumentDecision
  BY <1>12 DEF DocumentDecision, TypeOK, WorkIsKnown
<1>13. CASE UpdateResults
  BY <1>13 DEF UpdateResults, ScriptEnds, TypeOK, WorkIsKnown
<1>14. CASE ScriptTruncates
  BY <1>14, EmptyFacts DEF ScriptTruncates, TypeOK, WorkIsKnown
<1>15. CASE ScriptWrites
  BY <1>15 DEF ScriptWrites, ScriptEnds, TypeOK, WorkIsKnown
<1>16. CASE ScriptDies
  BY <1>16 DEF ScriptDies, ScriptEnds, Tear, TypeOK, WorkIsKnown
<1>17. CASE UNCHANGED vars
  BY <1>17 DEF TypeOK, WorkIsKnown
<1>18. QED
  BY <1>1, <1>2, <1>3, <1>4, <1>5, <1>6, <1>7, <1>8, <1>9, <1>10, <1>11, <1>12, <1>13,
     <1>14, <1>15, <1>16, <1>17 DEF Next, LaunchStep, ScriptStep, Rest

\* Every step keeps decisions behind their turns.
LEMMA TracesKept ==
  ASSUME IInv, [Next]_vars
  PROVE  ToldEverywhere'
<1> USE DEF IInv, Told
<1>1. ASSUME NEW selected \in SUBSET Cases, Launch(selected)
      PROVE  ToldEverywhere'
  BY <1>1 DEF Launch, ToldEverywhere, HasTurn
<1>2. ASSUME NEW c \in Cases, NEW status \in Concluded, NEW evidence \in 0..MaxEvidence,
             RunCase(c, status, evidence)
      PROVE  ToldEverywhere'
  BY <1>2 DEF RunCase, ToldEverywhere, HasTurn
<1>3. CASE ReplacePackage
  <2>1. case \in Cases => packages'[case].decision = None
    <3>1. packages \in [Cases -> Package]
      BY DEF TypeOK
    <3>2. [NoPackage EXCEPT !.launch = launches].decision = None
      BY DEF NoPackage
    <3>3. QED
      BY <1>3, <3>1, <3>2 DEF ReplacePackage
  <2>2. \A c \in Cases : c # case => packages'[c] = packages[c]
    BY <1>3 DEF ReplacePackage, TypeOK
  <2>3. \A c \in Cases : packages'[c].decision # None => <<c, packages'[c].decision>> \in Told
    BY <2>1, <2>2 DEF ToldEverywhere
  <2>4. QED
    BY <1>3, <2>3 DEF ReplacePackage, ToldEverywhere, HasTurn
<1>4. CASE FinishPackage
  <2>1. \A c \in Cases : packages'[c].decision = packages[c].decision
    <3>1. packages \in [Cases -> Package]
      BY DEF TypeOK
    <3>2. \A c \in Cases : [packages[c] EXCEPT !.whole = TRUE].decision = packages[c].decision
      BY <3>1 DEF Package
    <3>3. QED
      BY <1>4, <3>1, <3>2 DEF FinishPackage
  <2>2. \A c \in Cases : packages'[c].decision # None => <<c, packages'[c].decision>> \in Told
    BY <2>1 DEF ToldEverywhere
  <2>3. QED
    BY <1>4, <2>2 DEF FinishPackage, ToldEverywhere, HasTurn
<1>5. CASE ReadAndMerge
  <2>1. ASSUME NEW c \in Cases
        PROVE  HasTurn(c, Merge(results, outcomes)[c])
    <3>1. outcomes[c] # None => ~Judged(outcomes[c])
      BY DEF WorkIsKnown, Judged, Concluded
    <3>2. HasTurn(c, results[c])
      BY DEF ToldEverywhere
    <3>3. results \in Ledger /\ outcomes \in Ledger
      BY DEF TypeOK
    <3>4. CASE outcomes[c] = None
      BY <3>2, <3>3, <3>4, MergeFacts
    <3>5. CASE outcomes[c] # None /\ Merge(results, outcomes)[c] = outcomes[c]
      BY <3>1, <3>5 DEF HasTurn
    <3>6. CASE /\ results[c] # None
               /\ Merge(results, outcomes)[c].status = results[c].status
      BY <3>2, <3>6 DEF HasTurn, Judged
    <3>7. QED
      BY <3>3, <3>4, <3>5, <3>6, MergeFacts
  <2>2. QED
    BY <1>5, <2>1 DEF ReadAndMerge, ToldEverywhere, HasTurn
<1>6. CASE LaunchTruncates
  BY <1>6, EmptyFacts DEF LaunchTruncates, ToldEverywhere, HasTurn
<1>7. CASE LaunchWrites
  BY <1>7, EmptyFacts DEF LaunchWrites, ProcessEnds, ToldEverywhere, HasTurn
<1>8. CASE LaunchDies
  BY <1>8, EmptyFacts DEF LaunchDies, ProcessEnds, ToldEverywhere, HasTurn
<1>9. ASSUME NEW c \in Cases, NEW verdict \in Decisions, NEW install \in BOOLEAN,
             Decide(c, verdict, install)
      PROVE  ToldEverywhere'
  BY <1>9 DEF Decide, ToldEverywhere, HasTurn
<1>10. CASE ApplyPatchFiles
  BY <1>10 DEF ApplyPatchFiles, ToldEverywhere, HasTurn
<1>11. CASE TraceDecision
  BY <1>11 DEF TraceDecision, TypeOK, WorkIsKnown, ToldEverywhere, HasTurn
<1>12. CASE DocumentDecision
  <2>1. \A c \in Cases : packages'[c].decision \in {packages[c].decision, decision}
    <3>1. packages \in [Cases -> Package]
      BY DEF TypeOK
    <3>2. \A c \in Cases : [packages[c] EXCEPT !.decision = decision].decision = decision
      BY <3>1 DEF Package
    <3>3. QED
      BY <1>12, <3>1, <3>2 DEF DocumentDecision
  <2>2. \A c \in Cases : c # subject => packages'[c] = packages[c]
    BY <1>12 DEF DocumentDecision, TypeOK
  <2>3. <<subject, decision>> \in Told
    BY <1>12 DEF DocumentDecision, ToldEverywhere
  <2>4. \A c \in Cases : packages'[c].decision # None => <<c, packages'[c].decision>> \in Told
    BY <2>1, <2>2, <2>3 DEF ToldEverywhere
  <2>5. QED
    BY <1>12, <2>3, <2>4 DEF DocumentDecision, ToldEverywhere, HasTurn
<1>13. CASE UpdateResults
  <2>1. CASE results[subject] = None
    BY <1>13, <2>1, EmptyFacts DEF UpdateResults, ScriptEnds, ToldEverywhere, HasTurn
  <2>2. CASE results[subject] # None
    <3>1. /\ subject \in Cases /\ decision \in Decisions
          /\ updated'[subject].status = StatusOf(decision)
          /\ \A c \in Cases : c # subject => updated'[c] = results[c]
      BY <1>13, <2>2, UpdateFacts
    <3>2. <<subject, decision>> \in Told
      BY <1>13 DEF UpdateResults, ToldEverywhere
    <3>3. QED
      BY <1>13, <2>2, <3>1, <3>2 DEF UpdateResults, ToldEverywhere, HasTurn
  <2>3. QED
    BY <2>1, <2>2
<1>14. CASE ScriptTruncates
  BY <1>14, EmptyFacts DEF ScriptTruncates, ToldEverywhere, HasTurn
<1>15. CASE ScriptWrites
  BY <1>15, EmptyFacts DEF ScriptWrites, ScriptEnds, ToldEverywhere, HasTurn
<1>16. CASE ScriptDies
  BY <1>16, EmptyFacts DEF ScriptDies, ScriptEnds, WorkIsKnown, ToldEverywhere, HasTurn
<1>17. CASE UNCHANGED vars
  BY <1>17 DEF ToldEverywhere, HasTurn
<1>18. QED
  BY <1>1, <1>2, <1>3, <1>4, <1>5, <1>6, <1>7, <1>8, <1>9, <1>10, <1>11, <1>12, <1>13,
     <1>14, <1>15, <1>16, <1>17 DEF Next, LaunchStep, ScriptStep, Rest

\* Every step keeps a package behind every PENDING record.
LEMMA PackagesKept ==
  ASSUME IInv, [Next]_vars
  PROVE  PackagedEverywhere'
<1> USE DEF IInv
<1>1. ASSUME NEW selected \in SUBSET Cases, Launch(selected)
      PROVE  PackagedEverywhere'
  BY <1>1 DEF Launch, PackagedEverywhere, Packaged, Pending
<1>2. ASSUME NEW c \in Cases, NEW status \in Concluded, NEW evidence \in 0..MaxEvidence,
             RunCase(c, status, evidence)
      PROVE  PackagedEverywhere'
  <2>1. \A d \in Cases : d # c => outcomes'[d] = outcomes[d]
    BY <1>2 DEF RunCase, TypeOK, Ledger
  <2>2. outcomes'[c].status = status /\ (status = "PENDING" => pcL' = "replace")
    BY <1>2 DEF RunCase, TypeOK, Ledger
  <2>3. QED
    BY <1>2, <2>1, <2>2 DEF RunCase, PackagedEverywhere, Packaged, Pending
<1>3. CASE ReplacePackage
  <2>1. \A c \in Cases : c # case => packages'[c] = packages[c]
    BY <1>3 DEF ReplacePackage, TypeOK
  <2>2. QED
    BY <1>3, <2>1 DEF ReplacePackage, PackagedEverywhere, Packaged, Pending
<1>4. CASE FinishPackage
  <2>1. case \in Cases /\ packages \in [Cases -> Package]
    BY <1>4 DEF FinishPackage, WorkIsKnown, TypeOK
  <2>2. \A c \in Cases : c # case => packages'[c] = packages[c]
    BY <1>4 DEF FinishPackage, TypeOK
  <2>3. packages'[case].whole
    BY <1>4, <2>1 DEF FinishPackage
  <2>4. QED
    BY <1>4, <2>1, <2>2, <2>3 DEF FinishPackage, PackagedEverywhere, Packaged, Pending
<1>5. CASE ReadAndMerge
  <2>1. ASSUME NEW c \in Cases, Pending(Merge(results, outcomes)[c])
        PROVE  Packaged(c)
    <3>1. results \in Ledger /\ outcomes \in Ledger
      BY DEF TypeOK
    <3>2. Pending(results[c]) \/ Pending(outcomes[c])
      BY <2>1, <3>1, MergeFacts DEF Pending
    <3>3. QED
      BY <1>5, <3>2 DEF ReadAndMerge, PackagedEverywhere
  <2>2. QED
    BY <1>5, <2>1 DEF ReadAndMerge, PackagedEverywhere, Packaged, Pending
<1>6. CASE LaunchTruncates
  BY <1>6, EmptyFacts DEF LaunchTruncates, PackagedEverywhere, Packaged, Pending
<1>7. CASE LaunchWrites
  BY <1>7, EmptyFacts DEF LaunchWrites, ProcessEnds, PackagedEverywhere, Packaged, Pending
<1>8. CASE LaunchDies
  BY <1>8, EmptyFacts DEF LaunchDies, ProcessEnds, PackagedEverywhere, Packaged, Pending
<1>9. ASSUME NEW c \in Cases, NEW verdict \in Decisions, NEW install \in BOOLEAN,
             Decide(c, verdict, install)
      PROVE  PackagedEverywhere'
  BY <1>9 DEF Decide, PackagedEverywhere, Packaged, Pending
<1>10. CASE ApplyPatchFiles
  BY <1>10 DEF ApplyPatchFiles, PackagedEverywhere, Packaged, Pending
<1>11. CASE TraceDecision
  BY <1>11 DEF TraceDecision, PackagedEverywhere, Packaged, Pending
<1>12. CASE DocumentDecision
  <2>1. \A c \in Cases : packages'[c].whole = packages[c].whole
    <3>1. packages \in [Cases -> Package] /\ decision \in Decisions
      BY <1>12 DEF DocumentDecision, TypeOK, WorkIsKnown
    <3>2. \A c \in Cases : [packages[c] EXCEPT !.decision = decision].whole = packages[c].whole
      <4>1. 0 \in 0..MaxLaunches
        OBVIOUS
      <4>2. QED
        BY <3>1, <4>1, PackageFacts
    <3>3. QED
      BY <1>12, <3>1, <3>2 DEF DocumentDecision
  <2>2. QED
    BY <1>12, <2>1 DEF DocumentDecision, PackagedEverywhere, Packaged, Pending
<1>13. CASE UpdateResults
  <2>1. CASE results[subject] = None
    BY <1>13, <2>1, EmptyFacts DEF UpdateResults, ScriptEnds, PackagedEverywhere, Packaged,
           Pending
  <2>2. CASE results[subject] # None
    <3>1. /\ updated'[subject].status = StatusOf(decision)
          /\ \A c \in Cases : c # subject => updated'[c] = results[c]
      BY <1>13, <2>2, UpdateFacts
    <3>2. ~Pending(updated'[subject])
      BY <3>1 DEF Pending, StatusOf
    <3>3. QED
      BY <1>13, <2>2, <3>1, <3>2 DEF UpdateResults, PackagedEverywhere, Packaged, Pending
  <2>3. QED
    BY <2>1, <2>2
<1>14. CASE ScriptTruncates
  BY <1>14, EmptyFacts DEF ScriptTruncates, PackagedEverywhere, Packaged, Pending
<1>15. CASE ScriptWrites
  BY <1>15, EmptyFacts DEF ScriptWrites, ScriptEnds, PackagedEverywhere, Packaged, Pending
<1>16. CASE ScriptDies
  BY <1>16, EmptyFacts DEF ScriptDies, ScriptEnds, PackagedEverywhere, Packaged, Pending
<1>17. CASE UNCHANGED vars
  BY <1>17 DEF PackagedEverywhere, Packaged, Pending
<1>18. QED
  BY <1>1, <1>2, <1>3, <1>4, <1>5, <1>6, <1>7, <1>8, <1>9, <1>10, <1>11, <1>12, <1>13,
     <1>14, <1>15, <1>16, <1>17 DEF Next, LaunchStep, ScriptStep, Rest

\* Every step keeps what was saved.
LEMMA RecordsKept ==
  ASSUME IInv, [Next]_vars
  PROVE  NothingIsLost'
<1> USE DEF IInv
<1>1. ASSUME NEW selected \in SUBSET Cases, Launch(selected)
      PROVE  NothingIsLost'
  BY <1>1 DEF Launch, NothingIsLost, KeepsDepth, KeepsAttempt,
         LaunchSaves, ScriptSaves, Settled
<1>2. ASSUME NEW c \in Cases, NEW status \in Concluded, NEW evidence \in 0..MaxEvidence,
             RunCase(c, status, evidence)
      PROVE  NothingIsLost'
  BY <1>2 DEF RunCase, NothingIsLost, KeepsDepth, KeepsAttempt,
         LaunchSaves, ScriptSaves, Settled
<1>3. CASE ReplacePackage
  BY <1>3 DEF ReplacePackage, NothingIsLost, KeepsDepth, KeepsAttempt,
         LaunchSaves, ScriptSaves, Settled
<1>4. CASE FinishPackage
  BY <1>4 DEF FinishPackage, NothingIsLost, KeepsDepth, KeepsAttempt,
         LaunchSaves, ScriptSaves, Settled
<1>5. CASE ReadAndMerge
  <2> SUFFICES ASSUME ~overlapped'
               PROVE  NothingIsLost'
    BY DEF NothingIsLost
  <2>1. ~overlapped /\ ~ScriptSaves /\ Settled
    BY <1>5 DEF ReadAndMerge, TypeOK, ScriptSaves, Settled
  <2>2. results \in Ledger /\ outcomes \in Ledger /\ best \in Ledger
    BY DEF TypeOK
  <2>3. ASSUME NEW c \in Cases
        PROVE  /\ KeepsDepth(c, merged'[c])
               /\ outcomes[c] = None => KeepsAttempt(c, merged'[c])
               /\ outcomes[c] # None =>
                    /\ merged'[c] # None
                    /\ AsDeep(merged'[c], outcomes[c])
                    /\ launches = merged'[c].launch \/ launches \in merged'[c].superseded
    <3>1. KeepsDepth(c, results[c]) /\ KeepsAttempt(c, results[c])
      BY <2>1 DEF NothingIsLost
    <3>2. merged' = Merge(results, outcomes)
      BY <1>5 DEF ReadAndMerge
    <3>3. CASE outcomes[c] = None
      BY <2>2, <3>1, <3>2, <3>3, MergeFacts DEF KeepsDepth, KeepsAttempt
    <3>4. CASE outcomes[c] # None
      <4>1. outcomes[c] \in Record /\ outcomes[c].launch = launches
        BY <2>2, <3>4 DEF Ledger, WorkIsKnown
      <4>2. best[c] # None => best[c] \in Record
        BY <2>2 DEF Ledger
      <4>3. results[c] # None => results[c] \in Record
        BY <2>2 DEF Ledger
      <4>4. CASE merged'[c] = outcomes[c]
                 /\ (results[c] = None \/ AsDeep(outcomes[c], results[c]))
        BY <3>1, <3>4, <4>1, <4>2, <4>3, <4>4, DepthOrder DEF KeepsDepth
      <4>5. CASE /\ results[c] # None /\ ~AsDeep(outcomes[c], results[c])
                 /\ merged'[c] # None
                 /\ merged'[c].status = results[c].status
                 /\ merged'[c].evidence = results[c].evidence
                 /\ merged'[c].superseded = results[c].superseded \cup {outcomes[c].launch}
        <5>1. AsDeep(results[c], outcomes[c])
          BY <4>1, <4>3, <4>5, DepthOrder
        <5>2. \A r \in Record : AsDeep(merged'[c], r) <=> AsDeep(results[c], r)
          BY <4>5 DEF AsDeep
        <5>3. QED
          BY <3>1, <3>4, <4>1, <4>2, <4>5, <5>1, <5>2 DEF KeepsDepth
      <4>6. QED
        BY <2>2, <3>2, <3>4, <4>4, <4>5, MergeFacts
    <3>5. QED
      BY <3>3, <3>4
  <2>4. /\ pcL' = "truncate" /\ pcH' = pcH
        /\ UNCHANGED <<results, outcomes, launches, best, latest, judged>>
    BY <1>5 DEF ReadAndMerge
  <2>5. QED
    BY <2>1, <2>3, <2>4 DEF NothingIsLost, KeepsDepth, KeepsAttempt, LaunchSaves,
           ScriptSaves,
                            Settled
<1>6. CASE LaunchTruncates
  BY <1>6, EmptyFacts DEF LaunchTruncates, NothingIsLost, KeepsDepth, KeepsAttempt,
         LaunchSaves, ScriptSaves, Settled
<1>7. CASE LaunchWrites
  BY <1>7, EmptyFacts DEF LaunchWrites, ProcessEnds, NothingIsLost, KeepsDepth,
         KeepsAttempt,
         LaunchSaves, ScriptSaves, Settled
<1>8. CASE LaunchDies
  <2>1. CASE pcL = "write"
    BY <1>8, <2>1, EmptyFacts DEF LaunchDies, ProcessEnds, Tear, NothingIsLost,
           KeepsDepth, KeepsAttempt, LaunchSaves, ScriptSaves, Settled
  <2>2. CASE pcL # "write"
    BY <1>8, <2>2, EmptyFacts DEF LaunchDies, ProcessEnds, Tear, NothingIsLost,
           KeepsDepth, KeepsAttempt, LaunchSaves, ScriptSaves, Settled
  <2>3. QED
    BY <2>1, <2>2
<1>9. ASSUME NEW c \in Cases, NEW verdict \in Decisions, NEW install \in BOOLEAN,
             Decide(c, verdict, install)
      PROVE  NothingIsLost'
  BY <1>9 DEF Decide, NothingIsLost, KeepsDepth, KeepsAttempt,
         LaunchSaves, ScriptSaves, Settled
<1>10. CASE ApplyPatchFiles
  BY <1>10 DEF ApplyPatchFiles, NothingIsLost, KeepsDepth, KeepsAttempt,
         LaunchSaves, ScriptSaves, Settled
<1>11. CASE TraceDecision
  BY <1>11 DEF TraceDecision, NothingIsLost, KeepsDepth, KeepsAttempt,
         LaunchSaves, ScriptSaves, Settled
<1>12. CASE DocumentDecision
  BY <1>12 DEF DocumentDecision, NothingIsLost, KeepsDepth, KeepsAttempt,
         LaunchSaves, ScriptSaves, Settled
<1>13. CASE UpdateResults
  <2>1. CASE results[subject] = None
    BY <1>13, <2>1, EmptyFacts DEF UpdateResults, ScriptEnds, TypeOK, NothingIsLost,
           KeepsDepth, KeepsAttempt, LaunchSaves, ScriptSaves, Settled
  <2>2. CASE results[subject] # None
    <3> SUFFICES ASSUME ~overlapped'
                 PROVE  NothingIsLost'
      BY DEF NothingIsLost
    <3>1. ~overlapped /\ ~LaunchSaves /\ Settled
      BY <1>13, <2>2 DEF UpdateResults, TypeOK, LaunchSaves, Settled
    <3>2. \A c \in Cases : KeepsDepth(c, results[c]) /\ KeepsAttempt(c, results[c])
      BY <3>1 DEF NothingIsLost
    <3>3. /\ subject \in Cases /\ updated'[subject] # None
          /\ updated'[subject].launch = results[subject].launch
          /\ updated'[subject].superseded = results[subject].superseded
          /\ \A c \in Cases : c # subject => updated'[c] = results[c]
      BY <1>13, <2>2, UpdateFacts
    <3>4. \A c \in Cases : /\ c # subject => KeepsDepth(c, updated'[c])
                           /\ KeepsAttempt(c, updated'[c])
      BY <3>2, <3>3 DEF KeepsDepth, KeepsAttempt
    <3>5. /\ pcL' = pcL /\ pcH' = "truncate"
          /\ UNCHANGED <<results, outcomes, launches, subject, best, latest, judged>>
      BY <1>13, <2>2 DEF UpdateResults
    <3>6. QED
      BY <3>1, <3>2, <3>4, <3>5 DEF NothingIsLost, KeepsDepth, KeepsAttempt, LaunchSaves,
                                    ScriptSaves, Settled
  <2>3. QED
    BY <2>1, <2>2
<1>14. CASE ScriptTruncates
  BY <1>14, EmptyFacts DEF ScriptTruncates, NothingIsLost, KeepsDepth, KeepsAttempt,
         LaunchSaves, ScriptSaves, Settled
<1>15. CASE ScriptWrites
  BY <1>15, EmptyFacts DEF ScriptWrites, ScriptEnds, NothingIsLost, KeepsDepth,
         KeepsAttempt,
         LaunchSaves, ScriptSaves, Settled
<1>16. CASE ScriptDies
  <2>1. CASE pcH = "write"
    BY <1>16, <2>1, EmptyFacts DEF ScriptDies, ScriptEnds, Tear, NothingIsLost,
           KeepsDepth, KeepsAttempt, LaunchSaves, ScriptSaves, Settled
  <2>2. CASE pcH # "write"
    BY <1>16, <2>2, EmptyFacts DEF ScriptDies, ScriptEnds, Tear, NothingIsLost,
           KeepsDepth, KeepsAttempt, LaunchSaves, ScriptSaves, Settled
  <2>3. QED
    BY <2>1, <2>2
<1>17. CASE UNCHANGED vars
  BY <1>17 DEF NothingIsLost, KeepsDepth, KeepsAttempt,
         LaunchSaves, ScriptSaves, Settled
<1>18. QED
  BY <1>1, <1>2, <1>3, <1>4, <1>5, <1>6, <1>7, <1>8, <1>9, <1>10, <1>11, <1>12, <1>13,
     <1>14, <1>15, <1>16, <1>17 DEF Next, LaunchStep, ScriptStep, Rest

-----------------------------------------------------------------------------

\* The invariant holds throughout.
THEOREM Invariance == Spec => []IInv
<1>1. IInv /\ [Next]_vars => IInv'
  BY TypesKept, WorkKept, TracesKept, PackagesKept, RecordsKept DEF IInv
<1>2. QED
  BY InitEstablishesIInv, <1>1, PTL DEF Spec

\* The results file, the packages and both programs keep their types: every status in the
\* file is one its readers know (results_store.py, record_decision.py).
THEOREM TypeCorrect == Spec => []TypeOK
<1>1. IInv => TypeOK
  BY DEF IInv
<1>2. QED
  BY Invariance, <1>1, PTL

\* A shallower outcome never displaces a deeper record of a case no human has judged, over
\* any number of launches (results_store.py:13-14).
THEOREM DepthSafety == Spec => []DeepestSurvives
<1>1. IInv => DeepestSurvives
  BY DEF IInv, NothingIsLost, DeepestSurvives, KeepsDepth
<1>2. QED
  BY Invariance, <1>1, PTL

\* The last attempt at a case is always to be found in its record
\* (results_store.py:95-96).
THEOREM AttemptSafety == Spec => []LatestAttemptIsVisible
<1>1. IInv => LatestAttemptIsVisible
  BY DEF IInv, NothingIsLost, LatestAttemptIsVisible, KeepsAttempt
<1>2. QED
  BY Invariance, <1>1, PTL

\* No judged record and no DECISION.md precedes its turn, or the gap the tracer counted in
\* its place (record_decision.py:117-165).
THEOREM DecisionSafety == Spec => []DecisionsAreTold
<1>1. IInv => DecisionsAreTold
  BY DEF IInv, ToldEverywhere, DecisionsAreTold, HasTurn
<1>2. QED
  BY Invariance, <1>1, PTL

\* A case PENDING in the file has a whole package, unless a later launch is replacing it or
\* died doing so (self_audit.py:99).
THEOREM PackageSafety == Spec => []PendingHasPackage
<1>1. IInv => PendingHasPackage
  BY DEF IInv, PackagedEverywhere, Packaged, Pending, PendingHasPackage
<1>2. QED
  BY Invariance, <1>1, PTL

-----------------------------------------------------------------------------
(* The file is a store that changes in one step.                           *)

\* What the writers hold is the file as it is, rewritten; a truncated file is empty; and a
\* launch concludes each of its cases once.
WritersAreCurrent ==
  /\ ~overlapped =>
       /\ pcL = "truncate" => merged = Merge(results, outcomes)
       /\ pcH = "truncate" =>
            /\ results[subject] # None
            /\ updated = [results EXCEPT ![subject].status = StatusOf(decision)]
       /\ pcL = "write" \/ pcH = "write" => results = Empty
  /\ \A c \in Cases : outcomes[c] # None => outcomes[c].superseded = {}
  /\ \A c \in todo : outcomes[c] = None

\* Every step keeps what the writers hold current: the other program does not write in
\* between.
LEMMA WritersKept == IInv /\ WritersAreCurrent /\ [Next]_vars => WritersAreCurrent'
<1> SUFFICES ASSUME IInv, WritersAreCurrent, [Next]_vars PROVE WritersAreCurrent'
  OBVIOUS
<1>0. /\ WorkIsKnown /\ TypeOK
      /\ ~overlapped => ~(LaunchSaves /\ ScriptSaves)
  BY DEF IInv, NothingIsLost
<1>1. ASSUME NEW selected \in SUBSET Cases, Launch(selected) PROVE WritersAreCurrent'
  BY <1>0, <1>1, EmptyFacts DEF Launch, WritersAreCurrent, WorkIsKnown
<1>2. ASSUME NEW c \in Cases, NEW status \in Concluded, NEW evidence \in 0..MaxEvidence,
             RunCase(c, status, evidence)
      PROVE  WritersAreCurrent'
  <2>1. /\ outcomes'[c].superseded = {}
        /\ \A d \in Cases : d # c => outcomes'[d] = outcomes[d]
        /\ todo' = todo \ {c} /\ todo \subseteq Cases
        /\ pcL' \notin {"truncate", "write"} /\ pcH' = pcH
        /\ UNCHANGED <<results, updated, subject, decision, overlapped>>
    BY <1>0, <1>2 DEF RunCase, TypeOK, Ledger
  <2>2. QED
    BY <2>1 DEF WritersAreCurrent
<1>3. CASE ReplacePackage \/ FinishPackage
  BY <1>3 DEF ReplacePackage, FinishPackage, WritersAreCurrent
<1>4. CASE ReadAndMerge
  BY <1>4 DEF ReadAndMerge, WritersAreCurrent, ScriptSaves
<1>5. CASE LaunchTruncates
  BY <1>0, <1>5 DEF LaunchTruncates, WritersAreCurrent, LaunchSaves, ScriptSaves
<1>6. CASE LaunchWrites
  BY <1>0, <1>6, EmptyFacts
     DEF LaunchWrites, ProcessEnds, WritersAreCurrent, LaunchSaves, ScriptSaves
<1>7. CASE LaunchDies
  BY <1>0, <1>7, EmptyFacts
     DEF LaunchDies, ProcessEnds, WritersAreCurrent, LaunchSaves, ScriptSaves
<1>8. ASSUME NEW c \in Cases, NEW verdict \in Decisions, NEW install \in BOOLEAN,
             Decide(c, verdict, install)
      PROVE  WritersAreCurrent'
  BY <1>8 DEF Decide, WritersAreCurrent
<1>9. CASE ApplyPatchFiles \/ TraceDecision \/ DocumentDecision
  BY <1>9 DEF ApplyPatchFiles, TraceDecision, DocumentDecision, WritersAreCurrent
<1>10. CASE UpdateResults
  BY <1>10 DEF UpdateResults, ScriptEnds, WritersAreCurrent, LaunchSaves
<1>11. CASE ScriptTruncates
  BY <1>0, <1>11 DEF ScriptTruncates, WritersAreCurrent, LaunchSaves, ScriptSaves
<1>12. CASE ScriptWrites
  BY <1>0, <1>12 DEF ScriptWrites, ScriptEnds, WritersAreCurrent, LaunchSaves, ScriptSaves
<1>13. CASE ScriptDies
  BY <1>13 DEF ScriptDies, ScriptEnds, WritersAreCurrent
<1>14. CASE UNCHANGED vars
  BY <1>14 DEF WritersAreCurrent
<1>15. QED
  BY <1>1, <1>2, <1>3, <1>4, <1>5, <1>6, <1>7, <1>8, <1>9, <1>10, <1>11, <1>12, <1>13, <1>14
     DEF Next, LaunchStep, ScriptStep, Rest

\* merge_results is the store's rule.
LEMMA MergeIsSave ==
  ASSUME NEW old, NEW new
  PROVE  Merge(old, new) =
           [c \in Cases |->
              CASE new[c] = None -> old[c]
                [] old[c] = None -> new[c]
                [] OTHER         -> Store!Deeper(old[c], new[c])]
BY DEF Merge, Store!Deeper

\* A launch starts, or concludes a case.
LEMMA LaunchIsBegin ==
  ASSUME IInv, NEW selected \in SUBSET Cases, Launch(selected) PROVE Store!Begin
<1>1. UNCHANGED Effective
  BY DEF Launch, Effective
<1>2. QED
  BY <1>1 DEF IInv, WorkIsKnown, Launch, Store!Begin, Store!Empty, Empty

LEMMA RunCaseIsConclude ==
  ASSUME IInv, WritersAreCurrent, NEW c \in Cases, NEW status \in Concluded,
         NEW evidence \in 0..MaxEvidence, RunCase(c, status, evidence)
  PROVE  Store!Conclude(c)
<1> DEFINE record == [launch |-> launches, status |-> status, evidence |-> evidence,
                      superseded |-> {}]
<1>1. UNCHANGED Effective
  BY DEF RunCase, Effective
<1>2. outcomes \in Ledger /\ outcomes' = [outcomes EXCEPT ![c] = record]
  BY DEF IInv, TypeOK, RunCase
<1>3. outcomes'[c] = record
  BY <1>2 DEF Ledger
<1>4. record \in Record
  BY DEF IInv, TypeOK, WorkIsKnown, RunCase, Record, Statuses
<1>5. outcomes[c] = None /\ record # None
  BY <1>4, LedgerNoneAssumption DEF WritersAreCurrent, RunCase
<1>6. outcomes' = [outcomes EXCEPT ![c] = outcomes'[c]]
  BY <1>2, <1>3
<1>7. outcomes'[c].launch = launches /\ outcomes'[c].superseded = {} /\ outcomes'[c] # None
  BY <1>3, <1>5
<1>8. UNCHANGED <<launches, overlapped>>
  BY DEF RunCase, saves
<1> HIDE DEF record
<1>9. QED
  BY <1>1, <1>5, <1>6, <1>7, <1>8 DEF Store!Conclude

\* Once the programs got into each other's way, any other step is the store's Scramble.
LEMMA ContestedScrambles ==
  ASSUME IInv, LaunchStep \/ LaunchDies \/ ScriptStep \/ ScriptDies, overlapped,
         ~(\E c \in Cases, status \in Concluded, evidence \in 0..MaxEvidence :
             RunCase(c, status, evidence))
  PROVE  Store!Scramble
<1>1. overlapped' = overlapped /\ overlapped = TRUE
  BY DEF IInv, TypeOK, LaunchStep, ScriptStep, ReplacePackage, FinishPackage, ReadAndMerge,
         LaunchTruncates, LaunchWrites, LaunchDies, ApplyPatchFiles, TraceDecision,
         DocumentDecision, UpdateResults, ScriptTruncates, ScriptWrites, ScriptDies
<1>2. launches' = launches /\ outcomes' \in {outcomes, Empty}
  BY DEF LaunchStep, ScriptStep, ReplacePackage, FinishPackage, ReadAndMerge,
         LaunchTruncates, LaunchWrites, LaunchDies, ProcessEnds, ApplyPatchFiles,
         TraceDecision, DocumentDecision, UpdateResults, ScriptTruncates, ScriptWrites,
         ScriptDies
<1>3. QED
  BY <1>1, <1>2 DEF Store!Scramble, Store!Empty, Empty

\* A launch alone with the file: its save takes effect when it truncates; the write does
\* nothing more; a death in between loses the file.
LEMMA LaunchActsAlone ==
  ASSUME IInv, WritersAreCurrent, ~overlapped,
         \/ ReplacePackage \/ FinishPackage \/ ReadAndMerge
         \/ LaunchTruncates \/ LaunchWrites \/ LaunchDies
  PROVE  Store!Next \/ UNCHANGED Store!contents
<1> USE DEF Store!contents
<1>0. /\ ~(LaunchSaves /\ ScriptSaves) /\ overlapped = FALSE
      /\ pcL \in {"truncate", "write"} => pcH # "write"
  BY DEF IInv, TypeOK, NothingIsLost, LaunchSaves, ScriptSaves
<1>1. CASE ReplacePackage \/ FinishPackage
  <2>1. UNCHANGED <<Effective, outcomes, launches, overlapped>>
    BY <1>1 DEF ReplacePackage, FinishPackage, Effective
  <2>2. QED
    BY <2>1
<1>2. CASE ReadAndMerge
  <2>1. UNCHANGED <<Effective, outcomes, launches>> /\ overlapped' \in BOOLEAN
    BY <1>2 DEF ReadAndMerge, Effective, ScriptSaves
  <2>2. QED
    BY <1>0, <2>1 DEF Store!Next, Store!Contest
<1>3. CASE LaunchTruncates
  <2>1. /\ Effective = results /\ Effective' = merged /\ merged = Merge(results, outcomes)
        /\ UNCHANGED <<outcomes, launches, overlapped>>
    BY <1>0, <1>3 DEF LaunchTruncates, Effective, WritersAreCurrent
  <2>2. Store!Save
    BY <1>0, <2>1, MergeIsSave DEF Store!Save
  <2>3. QED
    BY <2>2 DEF Store!Next
<1>4. CASE LaunchWrites
  <2>1. /\ Effective = merged /\ Effective' = merged /\ UNCHANGED <<launches, overlapped>>
        /\ outcomes' \in {outcomes, Empty}
    BY <1>0, <1>4 DEF LaunchWrites, ProcessEnds, Effective
  <2>2. QED
    BY <2>1 DEF Store!Next, Store!End, Store!Empty, Empty
<1>5. CASE LaunchDies
  <2>1. outcomes' = Empty /\ UNCHANGED <<launches, overlapped>>
    BY <1>5 DEF LaunchDies, ProcessEnds
  <2>2. Effective' \in {Effective, Empty}
    BY <1>0, <1>5 DEF LaunchDies, ProcessEnds, Effective, WritersAreCurrent
  <2>3. QED
    BY <2>1, <2>2 DEF Store!Next, Store!End, Store!Empty, Empty
<1>6. QED
  BY <1>1, <1>2, <1>3, <1>4, <1>5

\* The script alone with the file, likewise.
LEMMA ScriptActsAlone ==
  ASSUME IInv, WritersAreCurrent, ~overlapped, ScriptStep \/ ScriptDies
  PROVE  Store!Next \/ UNCHANGED Store!contents
<1> USE DEF Store!contents
<1>0. /\ overlapped = FALSE
      /\ pcH \in {"truncate", "write"} => pcL # "write"
      /\ pcH # "idle" => subject \in Cases /\ decision \in Decisions
  BY DEF IInv, TypeOK, WorkIsKnown, NothingIsLost, LaunchSaves, ScriptSaves
<1>1. CASE ApplyPatchFiles \/ TraceDecision \/ DocumentDecision
  <2>1. UNCHANGED <<Effective, outcomes, launches, overlapped>>
    BY <1>1 DEF ApplyPatchFiles, TraceDecision, DocumentDecision, Effective
  <2>2. QED
    BY <2>1
<1>2. CASE UpdateResults
  <2>1. UNCHANGED <<Effective, outcomes, launches>> /\ overlapped' \in BOOLEAN
    BY <1>0, <1>2 DEF UpdateResults, ScriptEnds, Effective, LaunchSaves
  <2>2. QED
    BY <1>0, <2>1 DEF Store!Next, Store!Contest
<1>3. CASE ScriptTruncates
  <2>1. /\ Effective = results /\ Effective' = updated /\ results[subject] # None
        /\ updated = [results EXCEPT ![subject].status = StatusOf(decision)]
        /\ UNCHANGED <<outcomes, launches, overlapped>>
    BY <1>0, <1>3 DEF ScriptTruncates, Effective, WritersAreCurrent
  <2>2. subject \in Cases /\ decision \in Decisions
    BY <1>0, <1>3 DEF ScriptTruncates
  <2>3. Store!Judge(subject, StatusOf(decision))
    BY <1>0, <2>1 DEF Store!Judge
  <2>4. QED
    BY <2>2, <2>3 DEF Store!Next
<1>4. CASE ScriptWrites
  <2>1. UNCHANGED <<Effective, outcomes, launches, overlapped>>
    BY <1>0, <1>4 DEF ScriptWrites, ScriptEnds, Effective
  <2>2. QED
    BY <2>1
<1>5. CASE ScriptDies
  <2>1. UNCHANGED <<outcomes, launches, overlapped>>
    BY <1>5 DEF ScriptDies
  <2>2. Effective' \in {Effective, Empty}
    BY <1>0, <1>5 DEF ScriptDies, ScriptEnds, Effective, WritersAreCurrent
  <2>3. QED
    BY <2>1, <2>2 DEF Store!Next, Store!Lose, Store!Empty, Empty
<1>6. QED
  BY <1>1, <1>2, <1>3, <1>4, <1>5 DEF ScriptStep

\* Every step of the two programs is a step of the store or leaves it as it is.
LEMMA StepIsStoreStep ==
  IInv /\ WritersAreCurrent /\ [Next]_vars => [Store!Next]_(Store!contents)
<1> SUFFICES ASSUME IInv, WritersAreCurrent, [Next]_vars
             PROVE  Store!Next \/ UNCHANGED Store!contents
  OBVIOUS
<1>1. CASE \E selected \in SUBSET Cases \ {{}} : Launch(selected)
  BY <1>1, LaunchIsBegin DEF Store!Next
<1>2. CASE \E c \in Cases, status \in Concluded, evidence \in 0..MaxEvidence :
             RunCase(c, status, evidence)
  BY <1>2, RunCaseIsConclude DEF Store!Next
<1>3. CASE /\ LaunchStep \/ LaunchDies \/ ScriptStep \/ ScriptDies
           /\ ~(\E c \in Cases, status \in Concluded, evidence \in 0..MaxEvidence :
                  RunCase(c, status, evidence))
  <2>1. CASE overlapped
    BY <1>3, <2>1, ContestedScrambles DEF Store!Next
  <2>2. CASE ~overlapped
    BY <1>3, <2>2, LaunchActsAlone, ScriptActsAlone DEF LaunchStep
  <2>3. QED
    BY <2>1, <2>2
<1>4. CASE \E c \in Cases, verdict \in Decisions, install \in BOOLEAN : Decide(c, verdict, install)
  <2>1. UNCHANGED <<Effective, outcomes, launches, overlapped>>
    BY <1>4 DEF Decide, Effective
  <2>2. QED
    BY <2>1 DEF Store!contents
<1>5. CASE UNCHANGED vars
  BY <1>5 DEF Store!contents, Effective
<1>6. QED
  BY <1>1, <1>2, <1>3, <1>4, <1>5 DEF Next, Rest

\* To its readers the results file is a store that changes in one step, whatever the two
\* programs interleave and wherever they die, until both rewrite it at once
\* (results_store.py:113-135, record_decision.py:60-87).
THEOREM StoreRefinement == Spec => ImplementsStore
<1>1. Init => Store!Init
  BY DEF Init, Store!Init, Effective, Store!Empty, Empty
<1>2. Init => WritersAreCurrent
  BY EmptyFacts DEF Init, WritersAreCurrent
<1>3. IInv /\ WritersAreCurrent /\ [Next]_vars => WritersAreCurrent'
  BY WritersKept
<1>4. IInv /\ WritersAreCurrent /\ [Next]_vars => [Store!Next]_(Store!contents)
  BY StepIsStoreStep
<1>5. QED
  BY <1>1, <1>2, <1>3, <1>4, Invariance, PTL DEF Spec, ImplementsStore, Store!Spec

=============================================================================

------------------------- MODULE FixValidatorProofs -------------------------
(***************************************************************************)
(* What an accepted patch leaves of what the checks read of the tests, and *)
(* what it does to the source, for any case and any patch.                 *)
(*                                                                         *)
(* The checks read the files a patch lists, so their verdict says nothing  *)
(* of a file the copy holds and the list does not.  The strengthening is   *)
(* that there is no such file: what is not listed is the case's            *)
(* (OnlyListed), in the first attempt and, since a rejected attempt's copy *)
(* is rebuilt, in each later one.  The rest is that nothing is edited      *)
(* after the checks (ChecksStand).                                         *)
(***************************************************************************)
EXTENDS FixValidator, TLAPS

OnlyListed ==
  /\ \A f \in TestFiles : f \notin changed => patched[f] = original[f]
  /\ \A f \in Files : f \notin changed => added[f] = {}
  /\ broken \subseteq changed

ChecksStand == pc \in {"behaviour", "accepted"} => CheckStructure = {}

\* The case's own modules parse, have no second definition of a name, and no assertion
\* that cannot fail.
Sound(m) == /\ m.parses /\ m.shadowed = {}
            /\ \A n \in Functions : m.trivial[n] = 0 /\ m.hollow[n] = 0

CaseIsSound == \A f \in TestFiles : Sound(original[f])

IInv == TypeOK /\ OnlyListed /\ ChecksStand /\ CaseIsSound

-----------------------------------------------------------------------------

\* An edit of a module is a module, and adds lines of the two kinds only.
LEMMA EditsAreModules ==
  ASSUME NEW m \in Modules, NEW e \in Edits(m)
  PROVE  /\ e.to \in Modules /\ e.adds \subseteq Lines
         /\ [e.to EXCEPT !.exists = TRUE] \in Modules
<1>0. /\ m.exists \in BOOLEAN /\ m.parses \in BOOLEAN /\ m.loose \in BOOLEAN
      /\ m.defined \subseteq Functions /\ m.disabled \subseteq Functions
      /\ m.strong \in [Functions -> Nat] /\ m.trivial \in [Functions -> Nat]
      /\ m.hollow \in [Functions -> Nat]
      /\ m.shadowed \subseteq Functions /\ m.shadow \in [Functions -> Nat]
      /\ m.conditions \in [Conditions -> Values \cup {None}]
  BY DEF Modules
<1>1. ASSUME e \in LoseAssertion(m) PROVE e.to \in Modules /\ e.adds \subseteq Lines
  <2>1. PICK n \in Asserting(m) : e = [to |-> [m EXCEPT !.strong[n] = @ - 1], adds |-> {}]
    BY <1>1 DEF LoseAssertion
  <2>2. [m.strong EXCEPT ![n] = @ - 1] \in [Functions -> Nat]
    BY <1>0, <2>1 DEF Asserting
  <2>3. e.to = [m EXCEPT !.strong = [m.strong EXCEPT ![n] = @ - 1]] /\ e.adds = {}
    BY <2>1
  <2>. QED
    BY <2>2, <2>3 DEF Modules
<1>2. ASSUME e \in EmptyAssertion(m) PROVE e.to \in Modules /\ e.adds \subseteq Lines
  <2>1. PICK n \in Asserting(m) :
          e = [to |-> [m EXCEPT !.strong[n] = @ - 1, !.trivial[n] = @ + 1], adds |-> {"code"}]
    BY <1>2 DEF EmptyAssertion
  <2>2. /\ [m.strong EXCEPT ![n] = @ - 1] \in [Functions -> Nat]
        /\ [m.trivial EXCEPT ![n] = @ + 1] \in [Functions -> Nat]
    BY <1>0, <2>1 DEF Asserting
  <2>3. e.to = [m EXCEPT !.strong = [m.strong EXCEPT ![n] = @ - 1],
                         !.trivial = [m.trivial EXCEPT ![n] = @ + 1]] /\ e.adds = {"code"}
    BY <2>1
  <2>. QED
    BY <2>2, <2>3 DEF Modules, Lines
<1>3. ASSUME e \in LoseFunction(m) PROVE e.to \in Modules /\ e.adds \subseteq Lines
  <2>1. PICK n \in m.defined : e = [to |-> [m EXCEPT !.defined = @ \ {n}], adds |-> {}]
    BY <1>3 DEF LoseFunction
  <2>. QED
    BY <1>0, <2>1 DEF Modules
<1>4. ASSUME e \in Disable(m) PROVE e.to \in Modules /\ e.adds \subseteq Lines
  <2>1. PICK n \in m.defined :
          e = [to |-> [m EXCEPT !.disabled = @ \cup {n}], adds |-> {"code"}]
    BY <1>4 DEF Disable
  <2>2. m.disabled \cup {n} \subseteq Functions
    BY <1>0
  <2>. QED
    BY <2>1, <2>2 DEF Modules, Lines
<1>5. ASSUME e \in SetCondition(m) PROVE e.to \in Modules /\ e.adds \subseteq Lines
  <2>1. PICK c \in Conditions, v \in Values \cup {None} :
          e = [to |-> [m EXCEPT !.conditions[c] = v], adds |-> {"code"}]
    BY <1>5 DEF SetCondition
  <2>2. [m.conditions EXCEPT ![c] = v] \in [Conditions -> Values \cup {None}]
    BY <1>0
  <2>3. e.to = [m EXCEPT !.conditions = [m.conditions EXCEPT ![c] = v]] /\ e.adds = {"code"}
    BY <2>1
  <2>. QED
    BY <2>2, <2>3 DEF Modules, Lines
<1>6. ASSUME e \in Spoil(m) PROVE e.to \in Modules /\ e.adds \subseteq Lines
  <2>1. CASE e = [to |-> [m EXCEPT !.loose = TRUE], adds |-> {"code"}]
    BY <2>1 DEF Modules, Lines
  <2>2. CASE e = [to |-> [m EXCEPT !.parses = FALSE], adds |-> {"code"}]
    BY <2>2 DEF Modules, Lines
  <2>. QED
    BY <1>6, <2>1, <2>2 DEF Spoil
<1>7. ASSUME e \in LeaveAlone(m) PROVE e.to \in Modules /\ e.adds \subseteq Lines
  BY <1>7 DEF LeaveAlone
<1>8. ASSUME e \in HollowAssertion(m) PROVE e.to \in Modules /\ e.adds \subseteq Lines
  <2>1. PICK n \in Asserting(m) :
          e = [to |-> [m EXCEPT !.strong[n] = @ - 1, !.hollow[n] = @ + 1], adds |-> {"code"}]
    BY <1>8 DEF HollowAssertion
  <2>2. /\ [m.strong EXCEPT ![n] = @ - 1] \in [Functions -> Nat]
        /\ [m.hollow EXCEPT ![n] = @ + 1] \in [Functions -> Nat]
    BY <1>0, <2>1 DEF Asserting
  <2>3. e.to = [m EXCEPT !.strong = [m.strong EXCEPT ![n] = @ - 1],
                         !.hollow = [m.hollow EXCEPT ![n] = @ + 1]] /\ e.adds = {"code"}
    BY <2>1
  <2>. QED
    BY <2>2, <2>3 DEF Modules, Lines
<1>9. ASSUME e \in Shadow(m) PROVE e.to \in Modules /\ e.adds \subseteq Lines
  <2>1. PICK n \in m.defined, k \in Counts :
          e = [to |-> Shadowing(m, n, k), adds |-> {"code"}]
    BY <1>9 DEF Shadow
  <2>2. /\ m.shadowed \cup {n} \subseteq Functions
        /\ [m.shadow EXCEPT ![n] = k] \in [Functions -> Nat]
    BY <1>0, <2>1, FixAssumption DEF Counts
  <2>3. e.to = [m EXCEPT !.shadowed = @ \cup {n},
                         !.shadow = [m.shadow EXCEPT ![n] = k]] /\ e.adds = {"code"}
    BY <2>1 DEF Shadowing
  <2>. QED
    BY <2>2, <2>3 DEF Modules, Lines
<1>10. e.to \in Modules /\ e.adds \subseteq Lines
  BY <1>1, <1>2, <1>3, <1>4, <1>5, <1>6, <1>7, <1>8, <1>9 DEF Edits
<1>. QED
  BY <1>10 DEF Modules

LEMMA CaseModulesAreModules ==
  ASSUME NEW m \in CaseModules
  PROVE  m \in Modules /\ Sound(m)
<1>1. /\ m.exists \in BOOLEAN /\ m.parses = TRUE /\ m.defined = Functions
      /\ m.strong \in [Functions -> Counts] /\ m.trivial = [n \in Functions |-> 0]
      /\ m.hollow = [n \in Functions |-> 0]
      /\ m.shadowed = {} /\ m.shadow = [n \in Functions |-> 0]
      /\ m.disabled = {} /\ m.loose \in BOOLEAN /\ m.conditions \in [Conditions -> Values]
  BY DEF CaseModules
<1>2. /\ m.strong \in [Functions -> Nat] /\ m.trivial \in [Functions -> Nat]
      /\ m.hollow \in [Functions -> Nat] /\ m.shadow \in [Functions -> Nat]
  BY <1>1, FixAssumption DEF Counts
<1>3. m.conditions \in [Conditions -> Values \cup {None}]
  BY <1>1
<1>4. m = [exists |-> m.exists, parses |-> m.parses, defined |-> m.defined,
           strong |-> m.strong, trivial |-> m.trivial, hollow |-> m.hollow,
           shadowed |-> m.shadowed, shadow |-> m.shadow, disabled |-> m.disabled,
           loose |-> m.loose, conditions |-> m.conditions]
  BY DEF CaseModules
<1>5. m \in Modules
  BY <1>1, <1>2, <1>3, <1>4 DEF Modules
<1>. QED
  BY <1>1, <1>5 DEF Sound

-----------------------------------------------------------------------------

LEMMA InitInvariant == Init => IInv
<1> SUFFICES ASSUME Init PROVE IInv
  OBVIOUS
<1>1. \A f \in TestFiles : original[f] \in CaseModules
  BY DEF Init
<1>2. original \in [TestFiles -> Modules]
  BY <1>1, CaseModulesAreModules DEF Init
<1>3. TypeOK
  BY <1>2, FixAssumption DEF Init, TypeOK, Untouched, Phases
<1>4. CaseIsSound
  BY <1>1, CaseModulesAreModules DEF CaseIsSound
<1>. QED
  BY <1>3, <1>4 DEF IInv, Init, OnlyListed, ChecksStand, Untouched

\* Type correctness: modules stay modules, and the attempts stay within their number.
LEMMA TypeInvariant == IInv /\ [Next]_vars => TypeOK'
<1> SUFFICES ASSUME IInv, [Next]_vars PROVE TypeOK'
  OBVIOUS
<1> USE FixAssumption DEF IInv
<1>1. ASSUME NEW f \in TestFiles, EditTest(f) PROVE TypeOK'
  <2>1. PICK e \in Edits(patched[f]) :
          /\ patched' = [patched EXCEPT ![f] = [e.to EXCEPT !.exists = TRUE]]
          /\ added' = [added EXCEPT ![f] = @ \cup e.adds]
    BY <1>1 DEF EditTest
  <2>2. patched[f] \in Modules
    BY DEF TypeOK
  <2>3. e.adds \subseteq Lines /\ [e.to EXCEPT !.exists = TRUE] \in Modules
    BY <2>2, EditsAreModules
  <2>4. patched' \in [TestFiles -> Modules] /\ added' \in [Files -> SUBSET Lines]
    BY <2>1, <2>3 DEF TypeOK, Files
  <2>5. edits < MaxEdits /\ edits' = edits + 1 /\ changed' = changed \cup {f}
        /\ UNCHANGED <<original, broken, attempt, rejections, stress, pc>>
    BY <1>1 DEF EditTest
  <2>. QED
    BY <2>4, <2>5 DEF TypeOK, Files
<1>2. ASSUME NEW f \in Sources, EditSource(f) PROVE TypeOK'
  <2>1. added' \in [Files -> SUBSET Lines]
    BY <1>2 DEF EditSource, TypeOK, Files
  <2>2. broken' \subseteq Sources
    BY <1>2 DEF EditSource, TypeOK
  <2>. QED
    BY <1>2, <2>1, <2>2 DEF EditSource, TypeOK, Files
<1>3. CASE Refuse
  BY <1>3 DEF Refuse, TypeOK, Phases, patch
<1>4. CASE Validate
  <2>1. CheckStructure \subseteq Checks
    BY DEF CheckStructure
  <2>. QED
    BY <1>4, <2>1 DEF Validate, TypeOK, Phases, patch
<1>5. ASSUME NEW shown \in {"clean", "failures", "errors"}, CheckBehaviour(shown) PROVE TypeOK'
  BY <1>5 DEF CheckBehaviour, TypeOK, Phases, patch
<1>6. CASE Retry
  BY <1>6 DEF Retry, TypeOK, Phases, Untouched, Files
<1>7. CASE Abandon
  BY <1>7 DEF Abandon, TypeOK, Phases, patch
<1>8. CASE UNCHANGED vars
  BY <1>8 DEF vars, patch, TypeOK
<1>. QED
  BY <1>1, <1>2, <1>3, <1>4, <1>5, <1>6, <1>7, <1>8 DEF Next, Rest

\* The original is never written, so what is known of it stays.
LEMMA CaseInvariant == IInv /\ [Next]_vars => CaseIsSound' /\ original' = original
<1> SUFFICES ASSUME IInv, [Next]_vars PROVE original' = original
  BY DEF IInv, CaseIsSound
<1>. QED
  BY DEF Next, EditTest, EditSource, Refuse, Validate, CheckBehaviour, Retry, Abandon, Rest,
         vars, patch

\* A file outside the list is the case's: edits list what they touch, and a retry starts
\* from the case.
LEMMA ListInvariant == IInv /\ [Next]_vars => OnlyListed'
<1> SUFFICES ASSUME IInv, [Next]_vars PROVE OnlyListed'
  OBVIOUS
<1> USE DEF IInv, TypeOK
<1>1. ASSUME NEW f \in TestFiles, EditTest(f) PROVE OnlyListed'
  <2>1. PICK e \in Edits(patched[f]) :
          /\ patched' = [patched EXCEPT ![f] = [e.to EXCEPT !.exists = TRUE]]
          /\ added' = [added EXCEPT ![f] = @ \cup e.adds]
    BY <1>1 DEF EditTest
  <2>2. changed' = changed \cup {f} /\ broken' = broken /\ original' = original
    BY <1>1 DEF EditTest
  <2>3. \A g \in TestFiles : g # f => patched'[g] = patched[g]
    BY <2>1
  <2>4. \A g \in Files : g # f => added'[g] = added[g]
    BY <2>1
  <2>. QED
    BY <2>2, <2>3, <2>4 DEF OnlyListed
<1>2. ASSUME NEW f \in Sources, EditSource(f) PROVE OnlyListed'
  <2>1. \A g \in Files : g # f => added'[g] = added[g]
    BY <1>2 DEF EditSource
  <2>2. changed' = changed \cup {f} /\ broken' \subseteq broken \cup {f}
        /\ patched' = patched /\ original' = original
    BY <1>2 DEF EditSource
  <2>. QED
    BY <2>1, <2>2 DEF OnlyListed
<1>3. CASE Retry
  BY <1>3 DEF Retry, OnlyListed, Untouched
<1>4. CASE UNCHANGED <<original, patch>>
  BY <1>4 DEF patch, OnlyListed
<1>. QED
  BY <1>1, <1>2, <1>3, <1>4 DEF Next, Refuse, Validate, CheckBehaviour, Abandon, Rest, vars

\* Only Validate enters the phases behind the checks, and no step of theirs edits a file.
LEMMA CheckInvariant == IInv /\ [Next]_vars => ChecksStand'
<1> SUFFICES ASSUME IInv, [Next]_vars, pc' \in {"behaviour", "accepted"}
             PROVE  CheckStructure' = {}
  BY DEF ChecksStand
<1>1. ASSUME UNCHANGED <<original, patch>> PROVE CheckStructure' = CheckStructure
  BY <1>1 DEF patch, CheckStructure, ParsesAll, ConditionsUnchanged, AssertionsIntact,
         Asserts, Own,
              Named, NotDisabled, NotLoosened, NotOnlySleep, AddedLines, Compared, TestsChanged
<1>2. CASE Validate
  <2>1. CheckStructure = {}
    BY <1>2 DEF Validate
  <2>. QED
    BY <1>1, <1>2, <2>1 DEF Validate
<1>3. CASE \E shown \in {"clean", "failures", "errors"} : CheckBehaviour(shown)
  <2>1. pc = "behaviour" /\ UNCHANGED <<original, patch>>
    BY <1>3 DEF CheckBehaviour
  <2>. QED
    BY <1>1, <2>1 DEF IInv, ChecksStand
<1>4. CASE UNCHANGED vars
  <2>1. UNCHANGED <<original, patch>> /\ pc' = pc
    BY <1>4 DEF vars, patch
  <2>. QED
    BY <1>1, <2>1 DEF IInv, ChecksStand
<1>. QED
  BY <1>2, <1>3, <1>4
     DEF Next, EditTest, EditSource, Refuse, Retry, Abandon, Rest

THEOREM Invariance == Spec => []IInv
<1>1. IInv /\ [Next]_vars => IInv'
  BY TypeInvariant, CaseInvariant, ListInvariant, CheckInvariant DEF IInv
<1>. QED
  BY InitInvariant, <1>1, PTL DEF Spec

\* TypeOK: files, checks and attempts keep their types; no attempt beyond the last.
THEOREM TypeCorrect == Spec => []TypeOK
<1>1. IInv => TypeOK
  BY DEF IInv
<1>. QED
  BY <1>1, Invariance, PTL

-----------------------------------------------------------------------------

\* Each check, read off the empty set of rejections.
LEMMA NothingRejected ==
  ASSUME CheckStructure = {}
  PROVE  /\ ParsesAll /\ ConditionsUnchanged /\ AssertionsIntact /\ NotDisabled
         /\ NotLoosened /\ NotOnlySleep
<1> USE DEF CheckStructure, Checks
<1>1. ParsesAll
  OBVIOUS
<1>2. ConditionsUnchanged
  OBVIOUS
<1>3. AssertionsIntact
  OBVIOUS
<1>4. NotDisabled
  OBVIOUS
<1>5. NotLoosened
  OBVIOUS
<1>6. NotOnlySleep
  OBVIOUS
<1>. QED
  BY <1>1, <1>2, <1>3, <1>4, <1>5, <1>6

\* AcceptedKeepsWhatIsRead: what the checks read of the tests is the case's, file by file;
\* a file is either not listed, and untouched, or compared by every check.
THEOREM TestsSafety == Spec => []AcceptedKeepsWhatIsRead
<1>1. IInv => AcceptedKeepsWhatIsRead
  <2> SUFFICES ASSUME IInv, pc \in {"behaviour", "accepted"}, NEW f \in TestFiles
               PROVE  /\ patched[f].exists <=> original[f].exists
                      /\ original[f].exists =>
                           /\ patched[f].parses
                           /\ \A n \in original[f].defined \ patched[f].shadowed :
                                /\ n \in patched[f].defined
                                /\ n \notin patched[f].disabled \ original[f].disabled
                                /\ patched[f].strong[n] + patched[f].hollow[n]
                                     >= original[f].strong[n]
                           /\ \A c \in Conditions :
                                original[f].conditions[c] # None =>
                                  patched[f].conditions[c] = original[f].conditions[c]
                           /\ patched[f].loose => original[f].loose
    BY DEF AcceptedKeepsWhatIsRead
  <2>1. original[f] \in Modules /\ patched[f] \in Modules
    BY DEF IInv, TypeOK
  <2>2. Sound(original[f])
    BY DEF IInv, CaseIsSound
  <2>3. CASE f \notin changed
    <3>1. patched[f] = original[f]
      BY <2>3 DEF IInv, OnlyListed
    <3>2. \A n \in original[f].defined :
            original[f].strong[n] \in Nat /\ original[f].hollow[n] = 0
      BY <2>1, <2>2 DEF Modules, Sound
    <3>. QED
      BY <3>1, <3>2, <2>1, <2>2 DEF Modules, Sound
  <2>4. CASE f \in changed
    <3>1. CheckStructure = {}
      BY DEF IInv, ChecksStand
    <3>2. f \in Compared
      BY <3>1, <2>4, NothingRejected DEF AssertionsIntact, TestsChanged
    <3>3. original[f].exists /\ patched[f].exists /\ patched[f].parses
      BY <3>2 DEF Compared
    <3>4. \A n \in original[f].defined \ patched[f].shadowed :
            /\ n \in patched[f].defined
            /\ patched[f].strong[n] + patched[f].hollow[n] >= original[f].strong[n]
      <4> SUFFICES ASSUME NEW n \in original[f].defined, n \notin patched[f].shadowed
                   PROVE  /\ n \in patched[f].defined
                          /\ patched[f].strong[n] + patched[f].hollow[n] >= original[f].strong[n]
        OBVIOUS
      <4>1. n \in Named(patched[f]) /\ Asserts(patched[f], n) >= Asserts(original[f], n)
        BY <3>1, <3>2, NothingRejected DEF AssertionsIntact
      <4>2. n \in patched[f].defined
        BY <4>1 DEF Named
      <4>3. patched[f].trivial[n] = 0
        BY <3>1, <3>2, <4>2, NothingRejected DEF AssertionsIntact
      <4>4. n \in Functions
        BY <2>1 DEF Modules
      <4>5. /\ patched[f].strong[n] \in Nat /\ patched[f].hollow[n] \in Nat
            /\ original[f].strong[n] \in Nat
            /\ original[f].trivial[n] = 0 /\ original[f].hollow[n] = 0
        BY <2>1, <2>2, <4>4 DEF Modules, Sound
      <4>6. Own(patched[f], n) >= Own(original[f], n)
        BY <4>1, <2>2 DEF Asserts, Sound
      <4>. QED
        BY <4>2, <4>3, <4>5, <4>6 DEF Own
    <3>5. patched[f].disabled \cap patched[f].defined = {}
      BY <3>1, <3>2, NothingRejected DEF NotDisabled
    <3>6. \A c \in Conditions : original[f].conditions[c] # None =>
            patched[f].conditions[c] = original[f].conditions[c]
      BY <3>1, <3>2, NothingRejected DEF ConditionsUnchanged
    <3>7. patched[f].loose => original[f].loose
      BY <3>1, <3>2, NothingRejected DEF NotLoosened
    <3>8. \A n \in original[f].defined \ patched[f].shadowed :
            n \notin patched[f].disabled \ original[f].disabled
      BY <3>4, <3>5
    <3>. QED
      BY <3>3, <3>4, <3>6, <3>7, <3>8
  <2>. QED
    BY <2>3, <2>4
<1>. QED
  BY <1>1, Invariance, PTL

\* AcceptedFixesSource: an accepted patch of source files alone adds code that is not a
\* sleep, and leaves no source file that does not parse.
THEOREM SourceSafety == Spec => []AcceptedFixesSource
<1>1. IInv => AcceptedFixesSource
  <2> SUFFICES ASSUME IInv, pc \in {"behaviour", "accepted"}, changed \subseteq Sources
               PROVE  /\ \E f \in Sources : "code" \in added[f]
                      /\ broken = {}
    BY DEF AcceptedFixesSource
  <2>1. CheckStructure = {}
    BY DEF IInv, ChecksStand
  <2>2. AddedLines # {} /\ AddedLines # {"sleep"}
    BY <2>1, NothingRejected DEF NotOnlySleep
  <2>3. \A f \in changed : added[f] \subseteq {"code", "sleep"}
    BY DEF IInv, TypeOK, Lines, Files
  <2>4. AddedLines \subseteq {"code", "sleep"}
    BY <2>3 DEF AddedLines
  <2>5. "code" \in AddedLines
    BY <2>2, <2>4
  <2>6. \E f \in changed : "code" \in added[f]
    BY <2>5 DEF AddedLines
  <2>7. changed \cap broken = {}
    BY <2>1, NothingRejected DEF ParsesAll
  <2>8. broken \subseteq changed
    BY DEF IInv, OnlyListed
  <2>. QED
    BY <2>6, <2>7, <2>8
<1>. QED
  BY <1>1, Invariance, PTL
=============================================================================

---------------------------- MODULE FixValidator ----------------------------
(***************************************************************************)
(* Whether a patch removed the bug or hid it                               *)
(* (src/src/harness/validator.py): the structural checks of FixValidator   *)
(* on a patch that a model writes edit by edit, over the attempts of one   *)
(* round.  The runs behind the stress check are module Evidence's.         *)
(*                                                                         *)
(* Simplifications.                                                        *)
(*  - A test module is its test functions with their assertions (those     *)
(*    that can fail, those _trivially_true finds out, and those that       *)
(*    cannot fail either but have another form), the names a nested        *)
(*    function or a method bears as well, the decorated functions, the     *)
(*    module-level constants, whether it calls an approximate comparison,  *)
(*    and whether it parses.  What no check reads is left out: marks of a  *)
(*    class or of the module, and calls that skip a test.                  *)
(*  - The case's own modules have no such names and no assertion that      *)
(*    cannot fail.                                                         *)
(*  - A source file is whether it parses and what kinds of lines the patch *)
(*    added to it; blank lines and comments are no lines.                  *)
(***************************************************************************)
EXTENDS Integers

CONSTANTS
  TestFiles,   \* the paths _is_test_file holds of, present in the case or not
  Protected,   \* those of them the case's metadata protects: conftest.py
  Sources,     \* the other files
  Functions,   \* names of test functions
  Conditions,  \* names of module-level constants of tests
  Values,      \* their values
  None,        \* no value
  MaxAsserts,  \* bound: assertions of a function in the case
  MaxEdits,    \* bound: edits of one patch
  MaxAttempts  \* patch attempts of a round

ASSUME FixAssumption ==
  /\ Protected \subseteq TestFiles /\ TestFiles \cap Sources = {}
  /\ None \notin Values
  /\ MaxAsserts \in Nat /\ MaxEdits \in Nat /\ MaxAttempts \in Nat \ {0}

VARIABLES
  original,    \* the case's test modules
  patched,     \* those of the scratch copy
  changed,     \* the files the patch lists
  broken,      \* source files of the copy that do not parse
  added,       \* for each file, the kinds of lines the patch added
  edits,       \* observability: edits made to this patch
  attempt,     \* which attempt this is, from 1
  rejections,  \* the structural checks that failed
  stress,      \* what the stress batch showed, if it ran
  pc           \* where the attempt is

patch == <<patched, changed, broken, added, edits>>
vars  == <<original, patch, attempt, rejections, stress, pc>>

Files == TestFiles \cup Sources

Phases == {"author", "behaviour", "accepted", "rejected", "abandoned"}
Lines  == {"code", "sleep"}
Checks == {"protected_paths", "modifies_source", "patch_parses", "test_conditions_unchanged",
           "assertions_intact", "test_not_disabled", "comparison_not_loosened",
           "not_only_sleep"}

\* `shadow` counts the assertions of the last definition of a name in `shadowed`.
Modules == [exists : BOOLEAN, parses : BOOLEAN, defined : SUBSET Functions,
            strong : [Functions -> Nat], trivial : [Functions -> Nat],
            hollow : [Functions -> Nat],
            shadowed : SUBSET Functions, shadow : [Functions -> Nat],
            disabled : SUBSET Functions, loose : BOOLEAN,
            conditions : [Conditions -> Values \cup {None}]]

Untouched == [f \in Files |-> {}]

-----------------------------------------------------------------------------
\* What a model may do to a file.

\* How many assertions a function is written with.
Counts == 0..MaxAsserts

\* A test module as the case may hold it.
CaseModules ==
  { m \in [exists : BOOLEAN, parses : {TRUE}, defined : {Functions},
           strong : [Functions -> Counts], trivial : {[n \in Functions |-> 0]},
           hollow : {[n \in Functions |-> 0]},
           shadowed : {{}}, shadow : {[n \in Functions |-> 0]},
           disabled : {{}}, loose : BOOLEAN, conditions : [Conditions -> Values]] :
      m.exists \/ ~m.loose }

\* Its one-edit variants, with the lines each adds.
Asserting(m) == {n \in m.defined : m.strong[n] > 0}

LoseAssertion(m) ==
  {[to |-> [m EXCEPT !.strong[n] = @ - 1], adds |-> {}] : n \in Asserting(m)}

\* The assertion becomes one that cannot fail: a constant or x == x, or another such form.
EmptyAssertion(m) ==
  {[to |-> [m EXCEPT !.strong[n] = @ - 1, !.trivial[n] = @ + 1], adds |-> {"code"}] :
     n \in Asserting(m)}

HollowAssertion(m) ==
  {[to |-> [m EXCEPT !.strong[n] = @ - 1, !.hollow[n] = @ + 1], adds |-> {"code"}] :
     n \in Asserting(m)}

\* A nested function or a method gets the name of a test, and k assertions.
Shadowing(m, n, k) == [m EXCEPT !.shadowed = @ \cup {n}, !.shadow[n] = k]

Shadow(m) ==
  {[to |-> Shadowing(m, n, k), adds |-> {"code"}] : n \in m.defined, k \in Counts}

LoseFunction(m) == {[to |-> [m EXCEPT !.defined = @ \ {n}], adds |-> {}] : n \in m.defined}

\* A decorator of DISABLING_MARKERS is put on a function.
Disable(m) ==
  {[to |-> [m EXCEPT !.disabled = @ \cup {n}], adds |-> {"code"}] : n \in m.defined}

SetCondition(m) ==
  {[to |-> [m EXCEPT !.conditions[c] = v], adds |-> {"code"}] :
     c \in Conditions, v \in Values \cup {None}}

\* A call of LOOSENING_CALLS, and a syntax error.
Spoil(m) == {[to |-> [m EXCEPT !.loose = TRUE], adds |-> {"code"}],
             [to |-> [m EXCEPT !.parses = FALSE], adds |-> {"code"}]}

\* Anything else, or nothing.
LeaveAlone(m) == {[to |-> m, adds |-> lines] : lines \in SUBSET Lines}

Edits(m) == LoseAssertion(m) \cup EmptyAssertion(m) \cup HollowAssertion(m) \cup Shadow(m)
              \cup LoseFunction(m) \cup Disable(m) \cup SetCondition(m) \cup Spoil(m)
              \cup LeaveAlone(m)

-----------------------------------------------------------------------------

Init ==
  /\ original \in [TestFiles -> CaseModules]
  /\ patched = original
  /\ changed = {} /\ broken = {} /\ added = Untouched /\ edits = 0
  /\ attempt = 1 /\ rejections = {} /\ stress = "none" /\ pc = "author"

\* The patch rewrites, or creates, a test module.
EditTest(f) ==
  /\ pc = "author" /\ edits < MaxEdits
  /\ \E e \in Edits(patched[f]) :
       /\ patched' = [patched EXCEPT ![f] = [e.to EXCEPT !.exists = TRUE]]
       /\ added' = [added EXCEPT ![f] = @ \cup e.adds]
  /\ changed' = changed \cup {f}
  /\ edits' = edits + 1
  /\ UNCHANGED <<original, broken, attempt, rejections, stress, pc>>

\* The patch rewrites a source file: adding lines, only deleting some, or none of both,
\* and leaving it well formed or not.
EditSource(f) ==
  /\ pc = "author" /\ edits < MaxEdits
  /\ \E lines \in SUBSET Lines : added' = [added EXCEPT ![f] = @ \cup lines]
  /\ broken' \in {broken, broken \cup {f}}
  /\ changed' = changed \cup {f}
  /\ edits' = edits + 1
  /\ UNCHANGED <<original, patched, attempt, rejections, stress, pc>>

\* apply_patch raises: the reply lists no file, or a path it may not write, which leaves
\* the copy as far as it got.
Refuse ==
  /\ pc = "author" /\ pc' = "rejected"
  /\ UNCHANGED <<original, patch, attempt, rejections, stress>>

-----------------------------------------------------------------------------
\* check_structure.  `Compared` are the test modules _check_tests_intact can compare;
\* the others it has counted as weakened.

TestsChanged == changed \cap TestFiles
Compared == {f \in TestsChanged : original[f].exists /\ patched[f].exists /\ patched[f].parses}

ParsesAll ==
  /\ changed \cap broken = {}
  /\ \A f \in TestsChanged : patched[f].parses

\* The assertions of the test itself.
Own(m, n) == m.strong[n] + m.trivial[n] + m.hollow[n]

\* _assert_count has an entry for a name, whichever definitions bear it: of a definition
\* within another, or in a class, the walk comes later and overwrites the test's.
Named(m) == m.defined \cup m.shadowed
Asserts(m, n) == IF n \in m.shadowed THEN m.shadow[n] ELSE Own(m, n)

\* Mutant of AssertionsIntact: assertions are counted, whatever they assert.
AssertionsCounted ==
  /\ Compared = TestsChanged
  /\ \A f \in Compared :
       \A n \in original[f].defined :
         n \in Named(patched[f]) /\ Asserts(patched[f], n) >= Asserts(original[f], n)

AssertionsIntact ==
  /\ Compared = TestsChanged
  /\ \A f \in Compared :
       /\ \A n \in original[f].defined :
            n \in Named(patched[f]) /\ Asserts(patched[f], n) >= Asserts(original[f], n)
       /\ \A n \in patched[f].defined : patched[f].trivial[n] = 0

NotDisabled == \A f \in Compared : patched[f].disabled \cap patched[f].defined = {}

\* A constant the case does not have may be added; one it has keeps its value.
ConditionsUnchanged ==
  \A f \in Compared, c \in Conditions :
    original[f].conditions[c] # None => patched[f].conditions[c] = original[f].conditions[c]

NotLoosened == \A f \in Compared : patched[f].loose => original[f].loose

AddedLines == UNION {added[f] : f \in changed}

\* Mutant of NotOnlySleep: a patch without a new line has no sleep either.
NotASleep == AddedLines # {"sleep"}

NotOnlySleep == AddedLines # {} /\ AddedLines # {"sleep"}

\* The checks that fail; each of them is made.
CheckStructure ==
  {check \in Checks :
     \/ check = "protected_paths" /\ changed \cap Protected # {}
     \/ check = "modifies_source" /\ changed \subseteq TestFiles
     \/ check = "patch_parses" /\ ~ParsesAll
     \/ check = "test_conditions_unchanged" /\ ~ConditionsUnchanged
     \/ check = "assertions_intact" /\ ~AssertionsIntact
     \/ check = "test_not_disabled" /\ ~NotDisabled
     \/ check = "comparison_not_loosened" /\ ~NotLoosened
     \/ check = "not_only_sleep" /\ ~NotOnlySleep}

\* validate: the structural checks, each of which is made; only if all pass, the batch.
Validate ==
  /\ pc = "author" /\ changed # {}
  /\ rejections' = CheckStructure
  /\ pc' = IF rejections' = {} THEN "behaviour" ELSE "rejected"
  /\ UNCHANGED <<original, patch, attempt, stress>>

\* check_behaviour: a batch without errors and failures passes.
CheckBehaviour(shown) ==
  /\ pc = "behaviour"
  /\ stress' = shown
  /\ pc' = IF shown = "clean" THEN "accepted" ELSE "rejected"
  /\ UNCHANGED <<original, patch, attempt, rejections>>

\* The rejections go back to the model, whose next patch is applied to a fresh copy of
\* the case (apply_patch).
Retry ==
  /\ pc = "rejected" /\ attempt < MaxAttempts
  /\ attempt' = attempt + 1 /\ pc' = "author"
  /\ patched' = original
  /\ changed' = {} /\ broken' = {} /\ added' = Untouched /\ edits' = 0
  /\ rejections' = {} /\ stress' = "none"
  /\ UNCHANGED original

Abandon ==
  /\ pc = "rejected" /\ attempt = MaxAttempts
  /\ pc' = "abandoned"
  /\ UNCHANGED <<original, patch, attempt, rejections, stress>>

Rest == pc \in {"accepted", "abandoned"} /\ UNCHANGED vars

Next ==
  \/ \E f \in TestFiles : EditTest(f)
  \/ \E f \in Sources : EditSource(f)
  \/ Refuse
  \/ Validate
  \/ \E shown \in {"clean", "failures", "errors"} : CheckBehaviour(shown)
  \/ Retry
  \/ Abandon
  \/ Rest

Spec == Init /\ [][Next]_vars

-----------------------------------------------------------------------------

TypeOK ==
  /\ original \in [TestFiles -> Modules] /\ patched \in [TestFiles -> Modules]
  /\ changed \subseteq Files /\ broken \subseteq Sources
  /\ added \in [Files -> SUBSET Lines]
  /\ edits \in 0..MaxEdits /\ attempt \in 1..MaxAttempts
  /\ rejections \subseteq Checks
  /\ stress \in {"none", "clean", "failures", "errors"}
  /\ pc \in Phases

\* What the checks read of the tests survives, file by file, in a patch that is accepted,
\* whatever was tried in this attempt and in the rejected ones before it: no module is new or
\* gone, no condition changed its value, no comparison became approximate, and a test whose
\* name is its own is still there, has no disabling decorator it did not have, and asserts
\* as often as before without a constant or an x == x among its assertions.  The checks look
\* at the files the patch lists, and count.  (Not that the assertions are as strict.)
AcceptedKeepsWhatIsRead ==
  pc \in {"behaviour", "accepted"} =>
    \A f \in TestFiles :
      LET before == original[f]
          after  == patched[f]
      IN  /\ after.exists <=> before.exists
          /\ before.exists =>
               /\ after.parses
               /\ \A n \in before.defined \ after.shadowed :
                    /\ n \in after.defined /\ n \notin after.disabled \ before.disabled
                    /\ after.strong[n] + after.hollow[n] >= before.strong[n]
               /\ \A c \in Conditions :
                    before.conditions[c] # None => after.conditions[c] = before.conditions[c]
               /\ after.loose => before.loose

\* An accepted patch that leaves the tests alone adds, to source that parses, something
\* that is not a sleep.  (With a test module among its files this fails: a line added
\* there counts, and a source file need only be listed, not altered.)
AcceptedFixesSource ==
  (pc \in {"behaviour", "accepted"} /\ changed \subseteq Sources) =>
    /\ \E f \in Sources : "code" \in added[f]
    /\ broken = {}
=============================================================================

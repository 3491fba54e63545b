-------------------------------- MODULE Tracer --------------------------------
(***************************************************************************)
(* The trajectory writer (src/src/telemetry/tracer.py).  Threads open      *)
(* turns, numbered under a lock, and close each with one record appended   *)
(* to the run's JSONL file; an append that fails is retried, then stands   *)
(* as a gap marker, and too many gaps in a row halt the thread.            *)
(*                                                                         *)
(* Simplifications.                                                        *)
(*  - A record is its turn id and whether it is the turn's own record or a *)
(*    gap marker; it reaches the file as a head and a tail, the tail       *)
(*    ending in the newline, so a line can be torn or interleaved.         *)
(*  - An append fails before anything is written, after the head, or after *)
(*    the whole line (the fsync, or the flush a close repeats).            *)
(*  - A turn whose body raises is written like any other (turn, 301-312),  *)
(*    so the two exits are one action.  Backoff sleeps take no time.       *)
(***************************************************************************)
EXTENDS Integers, Sequences, FiniteSets

CONSTANTS
  Threads,             \* threads sharing the tracer
  MaxTurns,            \* bound: turns opened in the run
  MaxWriteAttempts,    \* MAX_WRITE_ATTEMPTS
  MaxConsecutiveGaps,  \* MAX_CONSECUTIVE_GAPS
  None                 \* no thread

ASSUME TracerAssumption ==
  /\ MaxTurns \in Nat /\ MaxWriteAttempts \in Nat \ {0}
  /\ MaxConsecutiveGaps \in Nat \ {0}
  /\ None \notin Threads

VARIABLES
  nextTurn,   \* _next_turn_id
  gaps,       \* _consecutive_gaps
  totalGaps,  \* _total_gaps
  lock,       \* the thread inside an append, or None; _lock's other uses are one step each
  file,       \* the trajectory file: heads and tails in the order they landed
  pc,         \* what each thread does next
  turn,       \* the id of the turn each thread is in
  tries,      \* appends of its record each thread has failed
  seen,       \* `gaps` as each thread read it when it recorded a gap
  tears,      \* observability: appends cut off after the head
  streak      \* observability: gaps since a record last landed

counters == <<nextTurn, gaps, totalGaps>>
local    == <<turn, tries, seen>>
vars     == <<counters, lock, file, pc, local, tears, streak>>

Phases == {"idle", "open", "record", "reset", "count", "marker", "escalate", "halted"}

\* The record `kind` thread t is writing, one part of it.
Chunk == [id : Nat, kind : {"record", "marker"}, part : {"head", "tail"}]
ChunkOf(t, part) == [id |-> turn[t], kind |-> pc[t], part |-> part]

Goto(t, phase) == pc' = [pc EXCEPT ![t] = phase]

-----------------------------------------------------------------------------

Init ==
  /\ nextTurn = 0 /\ gaps = 0 /\ totalGaps = 0
  /\ lock = None /\ file = <<>>
  /\ pc = [t \in Threads |-> "idle"]
  /\ turn = [t \in Threads |-> 0]
  /\ tries = [t \in Threads |-> 0]
  /\ seen = [t \in Threads |-> 0]
  /\ tears = 0 /\ streak = 0

\* Mutant of Open: the id is read but not advanced.
OpenUnadvanced(t) ==
  /\ pc[t] = "idle" /\ nextTurn < MaxTurns /\ lock = None
  /\ turn' = [turn EXCEPT ![t] = nextTurn]
  /\ Goto(t, "open")
  /\ UNCHANGED <<counters, lock, file, tries, seen, tears, streak>>

\* Entering turn(): an id is allocated under the lock.
Open(t) ==
  /\ pc[t] = "idle" /\ nextTurn < MaxTurns /\ lock = None
  /\ turn' = [turn EXCEPT ![t] = nextTurn]
  /\ nextTurn' = nextTurn + 1
  /\ Goto(t, "open")
  /\ UNCHANGED <<gaps, totalGaps, lock, file, tries, seen, tears, streak>>

\* Leaving turn(): a record json.dumps cannot render is a gap at once, without retries.
Close(t, serialisable) ==
  /\ pc[t] = "open"
  /\ tries' = [tries EXCEPT ![t] = 0]
  /\ Goto(t, IF serialisable THEN "record" ELSE "count")
  /\ UNCHANGED <<counters, lock, file, turn, seen, tears, streak>>

Appending(t) == pc[t] \in {"record", "marker"}

\* Mutant of StartAppend: the append does not take the lock.
StartUnlocked(t) ==
  /\ Appending(t)
  /\ lock' = t
  /\ file' = Append(file, ChunkOf(t, "head"))
  /\ UNCHANGED <<counters, pc, local, tears, streak>>

\* _append_line takes the lock and the first bytes land.
StartAppend(t) ==
  /\ Appending(t) /\ lock = None
  /\ lock' = t
  /\ file' = Append(file, ChunkOf(t, "head"))
  /\ UNCHANGED <<counters, pc, local, tears, streak>>

\* Mutant of Failed: a record that will not persist is dropped.
FailedDropping(t) ==
  IF pc[t] = "marker"
  THEN Goto(t, "escalate") /\ tries' = tries
  ELSE /\ tries' = [tries EXCEPT ![t] = @ + 1]
       /\ Goto(t, IF tries[t] + 1 < MaxWriteAttempts THEN "record" ELSE "idle")

\* An append raised OSError: a record is tried again or becomes a gap, a marker is
\* given up.
Failed(t) ==
  IF pc[t] = "marker"
  THEN Goto(t, "escalate") /\ tries' = tries
  ELSE /\ tries' = [tries EXCEPT ![t] = @ + 1]
       /\ Goto(t, IF tries[t] + 1 < MaxWriteAttempts THEN "record" ELSE "count")

\* The rest of the line lands; the fsync after it may still fail.
FinishAppend(t, synced) ==
  /\ Appending(t) /\ lock = t /\ lock' = None
  /\ file' = Append(file, ChunkOf(t, "tail"))
  /\ \/ /\ synced
        /\ Goto(t, IF pc[t] = "record" THEN "reset" ELSE "escalate")
        /\ streak' = IF pc[t] = "record" THEN 0 ELSE streak
        /\ tries' = tries
     \/ ~synced /\ Failed(t) /\ streak' = streak
  /\ UNCHANGED <<counters, turn, seen, tears>>

\* Nothing lands: the file cannot be opened or takes no bytes.
FailBefore(t) ==
  /\ Appending(t) /\ lock = None
  /\ Failed(t)
  /\ UNCHANGED <<counters, lock, file, turn, seen, tears, streak>>

\* Mutant of FailMidway: the lock is not released when the append raises.
FailMidwayLocked(t) ==
  /\ Appending(t) /\ lock = t
  /\ Failed(t)
  /\ tears' = tears + 1
  /\ UNCHANGED <<counters, lock, file, turn, seen, streak>>

\* The device fills up with the line half written.
FailMidway(t) ==
  /\ Appending(t) /\ lock = t /\ lock' = None
  /\ Failed(t)
  /\ tears' = tears + 1
  /\ UNCHANGED <<counters, file, turn, seen, streak>>

\* Mutant of Reset: a landed record leaves the count alone.
NoReset(t) ==
  /\ pc[t] = "reset" /\ lock = None
  /\ Goto(t, "idle")
  /\ UNCHANGED <<counters, lock, file, local, tears, streak>>

\* The record landed: the count of consecutive gaps starts over, under the lock taken
\* a second time.
Reset(t) ==
  /\ pc[t] = "reset" /\ lock = None
  /\ gaps' = 0
  /\ Goto(t, "idle")
  /\ UNCHANGED <<nextTurn, totalGaps, lock, file, local, tears, streak>>

\* _record_gap counts the gap; its marker is next.
CountGap(t) ==
  /\ pc[t] = "count" /\ lock = None
  /\ gaps' = gaps + 1 /\ totalGaps' = totalGaps + 1
  /\ seen' = [seen EXCEPT ![t] = gaps + 1]
  /\ streak' = streak + 1
  /\ Goto(t, "marker")
  /\ UNCHANGED <<nextTurn, lock, file, turn, tries, tears>>

\* TraceWriteError once the count this thread read reaches the limit.
Escalate(t) ==
  /\ pc[t] = "escalate"
  /\ Goto(t, IF seen[t] >= MaxConsecutiveGaps THEN "halted" ELSE "idle")
  /\ UNCHANGED <<counters, lock, file, local, tears, streak>>

\* Every turn the bound allows is settled, or its thread has halted.
Done ==
  /\ \A t \in Threads : pc[t] = "halted" \/ (pc[t] = "idle" /\ nextTurn = MaxTurns)
  /\ UNCHANGED vars

Step(t) ==
  \/ \E serialisable \in BOOLEAN : Close(t, serialisable)
  \/ StartAppend(t) \/ FailBefore(t) \/ FailMidway(t)
  \/ \E synced \in BOOLEAN : FinishAppend(t, synced)
  \/ Reset(t) \/ CountGap(t) \/ Escalate(t)

Next == (\E t \in Threads : Open(t) \/ Step(t)) \/ Done

Spec == Init /\ [][Next]_vars

\* Every thread runs on, and every turn's body ends (a batch is bounded by its runs'
\* timeouts, a request by its retries).
FairSpec == Spec /\ \A t \in Threads : WF_vars(Step(t))

-----------------------------------------------------------------------------
(* Properties. *)

\* Every variable holds a value of its kind.
TypeOK ==
  /\ nextTurn \in 0..MaxTurns /\ gaps \in Nat /\ totalGaps \in Nat
  /\ lock \in Threads \cup {None}
  /\ file \in Seq(Chunk)
  /\ pc \in [Threads -> Phases]
  /\ turn \in [Threads -> Nat]
  /\ tries \in [Threads -> 0..MaxWriteAttempts]
  /\ seen \in [Threads -> Nat]
  /\ tears \in Nat /\ streak \in Nat

\* Thread t is in a turn it has not settled.
Active(t) == pc[t] \notin {"idle", "halted"}

\* The line that starts at i can be read back: it is all there, and alone.
IsLine(i) ==
  /\ file[i].part = "head"
  /\ i = 1 \/ file[i - 1].part = "tail"
  /\ i < Len(file) /\ file[i + 1].part = "tail"
  /\ file[i + 1].id = file[i].id /\ file[i + 1].kind = file[i].kind

Readable == {file[i].id : i \in {j \in 1..Len(file) : IsLine(j)}}

\* Turns that ended with neither a record nor a marker a reader can parse.
Lost ==
  {id \in 0..(nextTurn - 1) :
     id \notin Readable /\ \A t \in Threads : Active(t) => turn[t] # id}

\* No turn goes missing unaccounted: a settled turn can be read back, as its record or
\* as a marker, or was counted as a gap, or fell on the tail of a torn line
\* (tracer.py:326-361, "rather than vanishing").
LostTurnsAreCounted == Cardinality(Lost) <= totalGaps + tears

\* "a parallel harness cannot interleave partial records" (tracer.py:255-256): as long
\* as no append was cut off, every line can be read back, but for the one being written.
ThreadsNeverBreakALine ==
  tears = 0 =>
    \A i \in 1..Len(file) :
      file[i].part = "head" => IsLine(i) \/ (i = Len(file) /\ lock # None)

\* Two turns never share an id, and no line belongs to a turn still in its body.
TurnIdsAreTheirOwn ==
  /\ \A t, u \in Threads : t # u /\ Active(t) /\ Active(u) => turn[t] # turn[u]
  /\ \A t \in Threads : pc[t] = "open" => \A i \in 1..Len(file) : file[i].id # turn[t]

\* "Scattered blips must not accumulate into a spurious halt" (test_tracer.py, the gap
\* streak): once no reset is pending, the count is at most the gaps since a record last
\* landed, whatever the threads' interleaving.
StreakIsNotOverstated == (\A t \in Threads : pc[t] # "reset") => gaps <= streak

\* Every turn that is opened is settled or halts its thread: retries end, and no append
\* waits for a lock nobody will release.
EveryTurnSettles == \A t \in Threads : Active(t) ~> ~Active(t)

\* What thread t can still do in its turn, in steps: the attempts its record has left, two
\* steps each, and the marker.
StepsLeft(t) ==
  LET held == IF lock = t THEN 1 ELSE 0 IN
  CASE pc[t] = "open"     -> 2 * MaxWriteAttempts + 5
    [] pc[t] = "record"   -> 2 * (MaxWriteAttempts - tries[t]) + 4 - held
    [] pc[t] = "count"    -> 4
    [] pc[t] = "marker"   -> 3 - held
    [] pc[t] \in {"reset", "escalate"} -> 1
    [] pc[t] \in {"idle", "halted"}    -> 0

\* Every step is one thread's and spends some of what its turn has left, at most
\* 2 * MAX_WRITE_ATTEMPTS + 5 steps, without giving another thread's turn more to do.  What
\* EveryTurnSettles rests on, with a lock that is only ever held by a thread in an append.
TurnsRunOut ==
  [][\E t \in Threads :
       /\ IF Active(t) THEN StepsLeft(t)' < StepsLeft(t)
          ELSE StepsLeft(t)' <= 2 * MaxWriteAttempts + 5
       /\ \A u \in Threads \ {t} : StepsLeft(u)' = StepsLeft(u)]_vars

=============================================================================

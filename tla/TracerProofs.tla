---------------------------- MODULE TracerProofs ----------------------------
(***************************************************************************)
(* Safety of the trajectory writer for any number of threads and turns and *)
(* any limits on attempts and gaps.                                        *)
(***************************************************************************)
EXTENDS Tracer, SequenceTheorems, FiniteSetTheorems, TLAPS

\* The lock is held by a thread that is appending, which has attempts left.
LockIsAnAppend ==
  /\ lock # None => pc[lock] \in {"record", "marker"}
  /\ \A t \in Threads : pc[t] = "record" => tries[t] < MaxWriteAttempts

\* Ids in use were issued, to one thread each.
IdsWereIssued ==
  /\ \A t \in Threads : Active(t) => turn[t] < nextTurn
  /\ \A i \in 1..Len(file) : file[i].id < nextTurn
  /\ TurnIdsAreTheirOwn

\* What the file ends with: a whole line while the lock is free, and the head of its
\* holder's record while it is held.
FileEndsWithALine ==
  tears = 0 =>
    /\ lock = None => Len(file) = 0 \/ file[Len(file)].part = "tail"
    /\ lock # None =>
         /\ Len(file) > 0 /\ file[Len(file)] = ChunkOf(lock, "head")
         /\ Len(file) = 1 \/ file[Len(file) - 1].part = "tail"

IInv ==
  /\ TypeOK
  /\ LockIsAnAppend
  /\ IdsWereIssued
  /\ FileEndsWithALine
  /\ ThreadsNeverBreakALine
  /\ StreakIsNotOverstated

-----------------------------------------------------------------------------

USE TracerAssumption DEF vars, counters, local, Phases, Chunk

\* The writer starts with an empty file and no turn open.
LEMMA InitEstablishesIInv == Init => IInv
BY DEF Init, IInv, TypeOK, LockIsAnAppend, IdsWereIssued, TurnIdsAreTheirOwn, Active,
       FileEndsWithALine, ThreadsNeverBreakALine, StreakIsNotOverstated

\* What appending one chunk does to a sequence.
LEMMA Appended ==
  ASSUME NEW S, NEW s \in Seq(S), NEW e \in S
  PROVE  /\ Append(s, e) \in Seq(S)
         /\ Len(Append(s, e)) = Len(s) + 1
         /\ \A i \in 1..Len(s) : Append(s, e)[i] = s[i]
         /\ Append(s, e)[Len(s) + 1] = e
BY AppendProperties

\* What a failed append of t leaves of the phases and the retry counts.
LEMMA FailedBounds ==
  ASSUME IInv, NEW t \in Threads, pc[t] \in {"record", "marker"}, Failed(t)
  PROVE  /\ pc' \in [Threads -> Phases]
         /\ tries' \in [Threads -> 0..MaxWriteAttempts]
         /\ pc' = [pc EXCEPT ![t] = pc'[t]] /\ pc'[t] \in {"record", "count", "escalate"}
         /\ pc'[t] = "record" => tries'[t] < MaxWriteAttempts
         /\ \A u \in Threads : u # t => tries'[u] = tries[u]
<1>1. CASE pc[t] = "marker"
  BY <1>1 DEF IInv, TypeOK, Failed, Goto
<1>2. CASE pc[t] = "record"
  <2>1. tries[t] \in Nat /\ tries[t] + 1 <= MaxWriteAttempts
    BY <1>2 DEF IInv, TypeOK, LockIsAnAppend
  <2>2. tries' = [tries EXCEPT ![t] = tries[t] + 1]
    BY <1>2 DEF Failed
  <2>3. pc' = [pc EXCEPT ![t] = IF tries[t] + 1 < MaxWriteAttempts THEN "record" ELSE "count"]
    BY <1>2 DEF Failed, Goto
  <2>4. tries' \in [Threads -> 0..MaxWriteAttempts]
    BY <2>1, <2>2 DEF IInv, TypeOK
  <2>5. QED
    BY <2>1, <2>2, <2>3, <2>4 DEF IInv, TypeOK
<1>3. QED
  BY <1>1, <1>2

\* Open preserves the invariant.
LEMMA OpenKeepsIInv ==
  ASSUME IInv, NEW t \in Threads, Open(t)
  PROVE  IInv'
<1>1. TypeOK'
  BY DEF IInv, TypeOK, LockIsAnAppend, Open, Goto
<1>2. (LockIsAnAppend /\ StreakIsNotOverstated)'
  BY DEF IInv, TypeOK, LockIsAnAppend, StreakIsNotOverstated, Open, Goto
<1>3. IdsWereIssued'
  <2>a. \A i \in 1..Len(file) : file[i] \in Chunk
    BY ElementOfSeq DEF IInv, TypeOK
  <2>1. \A i \in 1..Len(file) : file[i].id \in Nat /\ file[i].id < nextTurn
    BY <2>a DEF IInv, IdsWereIssued
  <2>2. /\ nextTurn \in Nat /\ nextTurn' = nextTurn + 1 /\ file' = file
        /\ turn' = [turn EXCEPT ![t] = nextTurn] /\ pc' = [pc EXCEPT ![t] = "open"]
    BY DEF IInv, TypeOK, Open, Goto
  <2>3. \A u \in Threads : u # t => turn'[u] = turn[u] /\ pc'[u] = pc[u]
    BY <2>2 DEF IInv, TypeOK
  <2>4. turn'[t] = nextTurn /\ pc'[t] = "open"
    BY <2>2 DEF IInv, TypeOK
  <2>5. \A u \in Threads : Active(u) => turn[u] \in Nat /\ turn[u] < nextTurn
    BY DEF IInv, TypeOK, IdsWereIssued
  <2>6. \A u \in Threads : Active(u)' => turn'[u] < nextTurn'
    BY <2>2, <2>3, <2>4, <2>5 DEF Active
  <2>7. \A i \in 1..Len(file') : file'[i].id < nextTurn'
    BY <2>1, <2>2
  <2>8. \A u, v \in Threads : u # v /\ Active(u)' /\ Active(v)' => turn'[u] # turn'[v]
    BY <2>2, <2>3, <2>4, <2>5 DEF Active, IInv, IdsWereIssued, TurnIdsAreTheirOwn
  <2>9. \A u \in Threads : pc'[u] = "open" => \A i \in 1..Len(file') : file'[i].id # turn'[u]
    BY <2>1, <2>2, <2>3, <2>4 DEF IInv, IdsWereIssued, TurnIdsAreTheirOwn
  <2>10. QED
    BY <2>6, <2>7, <2>8, <2>9 DEF IdsWereIssued, TurnIdsAreTheirOwn
<1>4. FileEndsWithALine'
  BY DEF IInv, TypeOK, LockIsAnAppend, FileEndsWithALine, ChunkOf, Open, Goto
<1>5. ThreadsNeverBreakALine'
  BY DEF IInv, TypeOK, LockIsAnAppend, FileEndsWithALine, ThreadsNeverBreakALine, IsLine,
         ChunkOf, Open, Goto
<1>6. QED
  BY <1>1, <1>2, <1>3, <1>4, <1>5 DEF IInv

\* Close preserves the invariant.
LEMMA CloseKeepsIInv ==
  ASSUME IInv, NEW t \in Threads, NEW serialisable \in BOOLEAN, Close(t, serialisable)
  PROVE  IInv'
<1>1. TypeOK'
  BY DEF IInv, TypeOK, LockIsAnAppend, Close, Goto
<1>2. (LockIsAnAppend /\ StreakIsNotOverstated)'
  BY DEF IInv, TypeOK, LockIsAnAppend, StreakIsNotOverstated, Close, Goto
<1>3. IdsWereIssued'
  BY DEF IInv, TypeOK, LockIsAnAppend, IdsWereIssued, TurnIdsAreTheirOwn, Active, Close,
         Goto
<1>4. FileEndsWithALine'
  BY DEF IInv, TypeOK, LockIsAnAppend, FileEndsWithALine, ChunkOf, Close, Goto
<1>5. ThreadsNeverBreakALine'
  BY DEF IInv, TypeOK, LockIsAnAppend, FileEndsWithALine, ThreadsNeverBreakALine, IsLine,
         ChunkOf, Close, Goto
<1>6. QED
  BY <1>1, <1>2, <1>3, <1>4, <1>5 DEF IInv

\* StartAppend preserves the invariant.
LEMMA StartAppendKeepsIInv ==
  ASSUME IInv, NEW t \in Threads, StartAppend(t)
  PROVE  IInv'
<1>a. /\ pc[t] \in {"record", "marker"} /\ t # None
      /\ ChunkOf(t, "head") \in Chunk /\ file' = Append(file, ChunkOf(t, "head"))
      /\ file \in Seq(Chunk)
  BY DEF IInv, TypeOK, LockIsAnAppend, StartAppend, Appending, ChunkOf
<1>b. /\ file' \in Seq(Chunk) /\ Len(file') = Len(file) + 1 /\ Len(file) \in Nat
      /\ \A i \in 1..Len(file) : file'[i] = file[i]
      /\ file'[Len(file) + 1] = ChunkOf(t, "head")
  BY <1>a, Appended
<1>c. \A i \in 1..Len(file') : i \in 1..Len(file) \/ i = Len(file) + 1
  BY <1>b
<1>1. TypeOK'
  BY <1>b DEF IInv, TypeOK, StartAppend
<1>2. (LockIsAnAppend /\ StreakIsNotOverstated)'
  BY DEF IInv, TypeOK, LockIsAnAppend, StreakIsNotOverstated, StartAppend, Appending,
         ChunkOf
<1>3. IdsWereIssued'
  <2>1. \A u \in Threads : Active(u)' => Active(u) /\ turn'[u] = turn[u]
    BY <1>a DEF IInv, TypeOK, Active, StartAppend
  <2>2. Active(t) /\ turn[t] < nextTurn /\ nextTurn' = nextTurn /\ turn' = turn
    BY <1>a DEF IInv, IdsWereIssued, Active, StartAppend
  <2>3. \A i \in 1..Len(file') : file'[i].id < nextTurn'
    BY <1>b, <1>c, <2>2 DEF IInv, IdsWereIssued, ChunkOf
  <2>4. \A u, v \in Threads : u # v /\ Active(u)' /\ Active(v)' => turn'[u] # turn'[v]
    BY <2>1 DEF IInv, IdsWereIssued, TurnIdsAreTheirOwn
  <2>5. ASSUME NEW u \in Threads, pc'[u] = "open", NEW i \in 1..Len(file')
        PROVE  file'[i].id # turn'[u]
    <3>1. pc[u] = "open" /\ u # t /\ turn[u] # turn[t]
      BY <2>5, <1>a, <2>2
         DEF IInv, TypeOK, IdsWereIssued, TurnIdsAreTheirOwn, Active, StartAppend
    <3>2. QED
      BY <1>b, <1>c, <2>2, <3>1 DEF IInv, IdsWereIssued, TurnIdsAreTheirOwn, ChunkOf
  <2>6. QED
    BY <2>1, <2>2, <2>3, <2>4, <2>5 DEF IInv, IdsWereIssued, TurnIdsAreTheirOwn
<1>4. FileEndsWithALine'
  <2>1. lock = None /\ lock' = t /\ UNCHANGED <<pc, turn, tears>>
    BY DEF StartAppend
  <2>2. file'[Len(file')] = ChunkOf(t, "head")' /\ Len(file') > 0
    BY <1>b, <2>1 DEF ChunkOf
  <2>3. tears = 0 => Len(file') = 1 \/ file'[Len(file') - 1].part = "tail"
    BY <1>b, <2>1 DEF IInv, FileEndsWithALine
  <2>4. QED
    BY <1>a, <2>1, <2>2, <2>3 DEF FileEndsWithALine
<1>5. ThreadsNeverBreakALine'
  <2> SUFFICES ASSUME tears' = 0, NEW i \in 1..Len(file'), file'[i].part = "head"
               PROVE  IsLine(i)' \/ (i = Len(file') /\ lock' # None)
    BY DEF ThreadsNeverBreakALine
  <2>1. tears = 0 /\ lock = None /\ lock' = t
    BY DEF StartAppend
  <2>2. CASE i = Len(file) + 1
    BY <1>a, <1>b, <2>1, <2>2
  <2>3. CASE i \in 1..Len(file)
    <3>1. IsLine(i)
      BY <1>b, <2>1, <2>3 DEF IInv, ThreadsNeverBreakALine
    <3>a. /\ file[i].part = "head" /\ (i = 1 \/ file[i - 1].part = "tail")
          /\ i < Len(file) /\ file[i + 1].part = "tail"
          /\ file[i + 1].id = file[i].id /\ file[i + 1].kind = file[i].kind
      BY <3>1 DEF IsLine
    <3>2. i < Len(file) /\ i + 1 \in 1..Len(file) /\ (i = 1 \/ i - 1 \in 1..Len(file))
      BY <1>b, <2>3, <3>a
    <3>3. /\ file'[i] = file[i] /\ file'[i + 1] = file[i + 1]
          /\ (i = 1 \/ file'[i - 1] = file[i - 1])
      BY <1>b, <3>2, <2>3
    <3>4. QED
      BY <1>b, <3>a, <3>2, <3>3 DEF IsLine
  <2>4. QED
    BY <1>c, <2>2, <2>3
<1>6. QED
  BY <1>1, <1>2, <1>3, <1>4, <1>5 DEF IInv

\* FinishAppend preserves the invariant.
LEMMA FinishAppendKeepsIInv ==
  ASSUME IInv, NEW t \in Threads, NEW synced \in BOOLEAN, FinishAppend(t, synced)
  PROVE  IInv'
<1>a. /\ pc[t] \in {"record", "marker"} /\ t # None
      /\ ChunkOf(t, "tail") \in Chunk /\ file' = Append(file, ChunkOf(t, "tail"))
      /\ file \in Seq(Chunk)
  BY DEF IInv, TypeOK, LockIsAnAppend, FinishAppend, ChunkOf
<1>b. /\ file' \in Seq(Chunk) /\ Len(file') = Len(file) + 1 /\ Len(file) \in Nat
      /\ \A i \in 1..Len(file) : file'[i] = file[i]
      /\ file'[Len(file) + 1] = ChunkOf(t, "tail")
  BY <1>a, Appended
<1>c. \A i \in 1..Len(file') : i \in 1..Len(file) \/ i = Len(file) + 1
  BY <1>b
<1>d. /\ pc' \in [Threads -> Phases] /\ tries' \in [Threads -> 0..MaxWriteAttempts]
      /\ pc' = [pc EXCEPT ![t] = pc'[t]]
      /\ pc'[t] \in {"record", "reset", "count", "escalate"}
      /\ pc'[t] = "record" => tries'[t] < MaxWriteAttempts
      /\ \A u \in Threads : u # t => tries'[u] = tries[u]
      /\ pc'[t] # "reset" => streak' = streak
  <2>1. CASE synced /\ Goto(t, IF pc[t] = "record" THEN "reset" ELSE "escalate")
                    /\ streak' = (IF pc[t] = "record" THEN 0 ELSE streak) /\ tries' = tries
    BY <1>a, <2>1 DEF IInv, TypeOK, Goto
  <2>2. CASE ~synced /\ Failed(t) /\ streak' = streak
    BY <1>a, <2>2, FailedBounds
  <2>3. QED
    BY <2>1, <2>2 DEF FinishAppend
<1>e. \A u \in Threads : u # t => pc'[u] = pc[u]
  BY <1>d DEF IInv, TypeOK
<1>f. lock = t /\ lock' = None /\ UNCHANGED <<counters, turn, seen, tears>>
  BY DEF FinishAppend
<1>1. TypeOK'
  BY <1>b, <1>d, <1>f DEF IInv, TypeOK, FinishAppend
<1>2. (LockIsAnAppend /\ StreakIsNotOverstated)'
  BY <1>a, <1>d, <1>e, <1>f DEF IInv, TypeOK, LockIsAnAppend, StreakIsNotOverstated
<1>3. IdsWereIssued'
  <2>1. \A u \in Threads : Active(u)' => Active(u) /\ turn'[u] = turn[u]
    BY <1>a, <1>d, <1>e, <1>f DEF IInv, TypeOK, Active
  <2>2. Active(t) /\ turn[t] < nextTurn /\ nextTurn' = nextTurn /\ turn' = turn
    BY <1>a, <1>f DEF IInv, IdsWereIssued, Active
  <2>3. \A i \in 1..Len(file') : file'[i].id < nextTurn'
    BY <1>b, <1>c, <2>2 DEF IInv, IdsWereIssued, ChunkOf
  <2>4. \A u, v \in Threads : u # v /\ Active(u)' /\ Active(v)' => turn'[u] # turn'[v]
    BY <2>1 DEF IInv, IdsWereIssued, TurnIdsAreTheirOwn
  <2>5. ASSUME NEW u \in Threads, pc'[u] = "open", NEW i \in 1..Len(file')
        PROVE  file'[i].id # turn'[u]
    <3>1. pc[u] = "open" /\ u # t /\ turn[u] # turn[t]
      BY <2>5, <1>a, <2>2, <1>d, <1>e, <1>f
         DEF IInv, TypeOK, IdsWereIssued, TurnIdsAreTheirOwn, Active
    <3>2. QED
      BY <1>b, <1>c, <2>2, <3>1 DEF IInv, IdsWereIssued, TurnIdsAreTheirOwn, ChunkOf
  <2>6. QED
    BY <2>1, <2>2, <2>3, <2>4, <2>5 DEF IInv, IdsWereIssued, TurnIdsAreTheirOwn
<1>4. FileEndsWithALine'
  <2>1. Len(file') # 0 /\ file'[Len(file')].part = "tail"
    BY <1>b DEF ChunkOf
  <2>2. QED
    BY <1>f, <2>1 DEF FileEndsWithALine
<1>5. ThreadsNeverBreakALine'
  <2> SUFFICES ASSUME tears' = 0, NEW i \in 1..Len(file'), file'[i].part = "head"
               PROVE  IsLine(i)'
    BY DEF ThreadsNeverBreakALine
  <2>1. /\ tears = 0 /\ lock = t /\ t # None
        /\ Len(file) > 0 /\ file[Len(file)] = ChunkOf(t, "head")
        /\ Len(file) = 1 \/ file[Len(file) - 1].part = "tail"
    BY <1>a, <1>f DEF IInv, FileEndsWithALine
  <2>2. i \in 1..Len(file)
    BY <1>b, <1>c DEF ChunkOf
  <2>3. CASE i = Len(file)
    <3>1. file'[i] = ChunkOf(t, "head") /\ file'[i + 1] = ChunkOf(t, "tail")
      BY <1>b, <2>1, <2>2, <2>3 DEF ChunkOf
    <3>2. i = 1 \/ file'[i - 1].part = "tail"
      BY <1>b, <2>1, <2>2, <2>3
    <3>3. QED
      BY <1>b, <2>3, <3>1, <3>2 DEF IsLine, ChunkOf
  <2>4. CASE i # Len(file)
    <3>1. IsLine(i)
      BY <1>b, <2>1, <2>2, <2>4 DEF IInv, ThreadsNeverBreakALine
    <3>a. /\ file[i].part = "head" /\ (i = 1 \/ file[i - 1].part = "tail")
          /\ i < Len(file) /\ file[i + 1].part = "tail"
          /\ file[i + 1].id = file[i].id /\ file[i + 1].kind = file[i].kind
      BY <3>1 DEF IsLine
    <3>2. i < Len(file) /\ i + 1 \in 1..Len(file) /\ (i = 1 \/ i - 1 \in 1..Len(file))
      BY <1>b, <2>2, <3>a
    <3>3. /\ file'[i] = file[i] /\ file'[i + 1] = file[i + 1]
          /\ (i = 1 \/ file'[i - 1] = file[i - 1])
      BY <1>b, <2>2, <3>2
    <3>4. QED
      BY <1>b, <3>a, <3>2, <3>3 DEF IsLine
  <2>5. QED
    BY <2>3, <2>4
<1>6. QED
  BY <1>1, <1>2, <1>3, <1>4, <1>5 DEF IInv

\* FailBefore preserves the invariant.
LEMMA FailBeforeKeepsIInv ==
  ASSUME IInv, NEW t \in Threads, FailBefore(t)
  PROVE  IInv'
<1>1. TypeOK'
  BY FailedBounds DEF IInv, TypeOK, FailBefore, Appending
<1>2. (LockIsAnAppend /\ StreakIsNotOverstated)'
  BY DEF IInv, TypeOK, LockIsAnAppend, StreakIsNotOverstated, FailBefore, Appending,
         Failed, Goto
<1>3. IdsWereIssued'
  BY DEF IInv, TypeOK, LockIsAnAppend, IdsWereIssued, TurnIdsAreTheirOwn, Active,
         FailBefore, Appending, Failed, Goto
<1>4. FileEndsWithALine'
  BY DEF IInv, TypeOK, LockIsAnAppend, FileEndsWithALine, ChunkOf, FailBefore, Appending,
         Failed, Goto
<1>5. ThreadsNeverBreakALine'
  BY DEF IInv, TypeOK, LockIsAnAppend, FileEndsWithALine, ThreadsNeverBreakALine, IsLine,
         ChunkOf, FailBefore, Appending, Failed, Goto
<1>6. QED
  BY <1>1, <1>2, <1>3, <1>4, <1>5 DEF IInv

\* FailMidway preserves the invariant.
LEMMA FailMidwayKeepsIInv ==
  ASSUME IInv, NEW t \in Threads, FailMidway(t)
  PROVE  IInv'
<1>1. TypeOK'
  <2>1. pc[t] \in {"record", "marker"}
    BY DEF IInv, LockIsAnAppend, FailMidway
  <2>2. QED
    BY <2>1, FailedBounds DEF IInv, TypeOK, FailMidway
<1>2. (LockIsAnAppend /\ StreakIsNotOverstated)'
  BY DEF IInv, TypeOK, LockIsAnAppend, StreakIsNotOverstated, FailMidway, Failed, Goto
<1>3. IdsWereIssued'
  BY DEF IInv, TypeOK, LockIsAnAppend, IdsWereIssued, TurnIdsAreTheirOwn, Active,
         FailMidway, Failed, Goto
<1>4. FileEndsWithALine'
  BY DEF IInv, TypeOK, LockIsAnAppend, FileEndsWithALine, ChunkOf, FailMidway, Failed,
         Goto
<1>5. ThreadsNeverBreakALine'
  BY DEF IInv, TypeOK, LockIsAnAppend, FileEndsWithALine, ThreadsNeverBreakALine, IsLine,
         ChunkOf, FailMidway, Failed, Goto
<1>6. QED
  BY <1>1, <1>2, <1>3, <1>4, <1>5 DEF IInv

\* Reset preserves the invariant.
LEMMA ResetKeepsIInv ==
  ASSUME IInv, NEW t \in Threads, Reset(t)
  PROVE  IInv'
<1>1. TypeOK'
  BY DEF IInv, TypeOK, LockIsAnAppend, Reset, Goto
<1>2. (LockIsAnAppend /\ StreakIsNotOverstated)'
  BY DEF IInv, TypeOK, LockIsAnAppend, StreakIsNotOverstated, Reset, Goto
<1>3. IdsWereIssued'
  BY DEF IInv, TypeOK, LockIsAnAppend, IdsWereIssued, TurnIdsAreTheirOwn, Active, Reset,
         Goto
<1>4. FileEndsWithALine'
  BY DEF IInv, TypeOK, LockIsAnAppend, FileEndsWithALine, ChunkOf, Reset, Goto
<1>5. ThreadsNeverBreakALine'
  BY DEF IInv, TypeOK, LockIsAnAppend, FileEndsWithALine, ThreadsNeverBreakALine, IsLine,
         ChunkOf, Reset, Goto
<1>6. QED
  BY <1>1, <1>2, <1>3, <1>4, <1>5 DEF IInv

\* CountGap preserves the invariant.
LEMMA CountGapKeepsIInv ==
  ASSUME IInv, NEW t \in Threads, CountGap(t)
  PROVE  IInv'
<1>1. TypeOK'
  BY DEF IInv, TypeOK, LockIsAnAppend, CountGap, Goto
<1>2. (LockIsAnAppend /\ StreakIsNotOverstated)'
  BY DEF IInv, TypeOK, LockIsAnAppend, StreakIsNotOverstated, CountGap, Goto
<1>3. IdsWereIssued'
  BY DEF IInv, TypeOK, LockIsAnAppend, IdsWereIssued, TurnIdsAreTheirOwn, Active,
         CountGap, Goto
<1>4. FileEndsWithALine'
  BY DEF IInv, TypeOK, LockIsAnAppend, FileEndsWithALine, ChunkOf, CountGap, Goto
<1>5. ThreadsNeverBreakALine'
  BY DEF IInv, TypeOK, LockIsAnAppend, FileEndsWithALine, ThreadsNeverBreakALine, IsLine,
         ChunkOf, CountGap, Goto
<1>6. QED
  BY <1>1, <1>2, <1>3, <1>4, <1>5 DEF IInv

\* Escalate preserves the invariant.
LEMMA EscalateKeepsIInv ==
  ASSUME IInv, NEW t \in Threads, Escalate(t)
  PROVE  IInv'
<1>1. TypeOK'
  BY DEF IInv, TypeOK, LockIsAnAppend, Escalate, Goto
<1>2. (LockIsAnAppend /\ StreakIsNotOverstated)'
  BY DEF IInv, TypeOK, LockIsAnAppend, StreakIsNotOverstated, Escalate, Goto
<1>3. IdsWereIssued'
  BY DEF IInv, TypeOK, LockIsAnAppend, IdsWereIssued, TurnIdsAreTheirOwn, Active,
         Escalate, Goto
<1>4. FileEndsWithALine'
  BY DEF IInv, TypeOK, LockIsAnAppend, FileEndsWithALine, ChunkOf, Escalate, Goto
<1>5. ThreadsNeverBreakALine'
  BY DEF IInv, TypeOK, LockIsAnAppend, FileEndsWithALine, ThreadsNeverBreakALine, IsLine,
         ChunkOf, Escalate, Goto
<1>6. QED
  BY <1>1, <1>2, <1>3, <1>4, <1>5 DEF IInv

-----------------------------------------------------------------------------

\* IInv holds in every state the writer reaches.
THEOREM Invariance == Spec => []IInv
<1>1. IInv /\ [Next]_vars => IInv'
  <2> SUFFICES ASSUME IInv, [Next]_vars PROVE IInv'
    OBVIOUS
  <2>1. CASE UNCHANGED vars
    BY <2>1 DEF IInv, TypeOK, LockIsAnAppend, IdsWereIssued, TurnIdsAreTheirOwn, Active,
                FileEndsWithALine, ThreadsNeverBreakALine, IsLine, ChunkOf,
                StreakIsNotOverstated
  <2>2. ASSUME NEW t \in Threads, Open(t) \/ Step(t) PROVE IInv'
    BY <2>2, OpenKeepsIInv, CloseKeepsIInv, StartAppendKeepsIInv, FinishAppendKeepsIInv,
       FailBeforeKeepsIInv, FailMidwayKeepsIInv, ResetKeepsIInv, CountGapKeepsIInv,
       EscalateKeepsIInv DEF Step
  <2>3. QED
    BY <2>1, <2>2 DEF Next, Done
<1>2. QED
  BY <1>1, InitEstablishesIInv, PTL DEF Spec

\* Every variable keeps its type, the retry count its bound (tracer.py:346-361).
THEOREM TypeCorrect == Spec => []TypeOK
<1>1. IInv => TypeOK
  BY DEF IInv
<1>2. QED
  BY <1>1, Invariance, PTL

\* However many threads share the tracer, only a cut-off append breaks a line
\* (tracer.py:255-256, _append_line under the lock).
THEOREM LineSafety == Spec => []ThreadsNeverBreakALine
<1>1. IInv => ThreadsNeverBreakALine
  BY DEF IInv
<1>2. QED
  BY <1>1, Invariance, PTL

\* Turn ids are never shared, nor used in the file before their turn ends
\* (Tracer.turn, the id taken under the lock).
THEOREM TurnIdSafety == Spec => []TurnIdsAreTheirOwn
<1>1. IInv => TurnIdsAreTheirOwn
  BY DEF IInv, IdsWereIssued
<1>2. QED
  BY <1>1, Invariance, PTL

\* The gap count never overstates the gaps since a record landed, once no reset is
\* pending (tracer.py:356-358, 403-406).
THEOREM StreakSafety == Spec => []StreakIsNotOverstated
<1>1. IInv => StreakIsNotOverstated
  BY DEF IInv
<1>2. QED
  BY <1>1, Invariance, PTL

-----------------------------------------------------------------------------
(* Every lost turn is accounted for.  A lost turn was counted as a gap, or fell on the   *)
(* head of a torn line; a tear is charged when the line is cut off, before a turn falls  *)
(* on it, and once.                                                                      *)

\* The turn thread t is about to settle is in the count of gaps, or fell on a torn line.
Settling(t) ==
  \/ pc[t] \in {"marker", "escalate"}
  \/ pc[t] = "reset" /\ turn[t] \notin Readable

Accounted == Lost \cup {turn[t] : t \in {u \in Threads : Settling(u)}}

\* A torn line is at the end of the file, or before the line being written.
Dangling ==
  \/ lock = None /\ Len(file) > 0 /\ file[Len(file)].part = "head"
  \/ lock # None /\ Len(file) > 1 /\ file[Len(file) - 1].part = "head"

Debt == IF Dangling THEN 1 ELSE 0

HeadIsHeld == lock # None => Len(file) > 0 /\ file[Len(file)] = ChunkOf(lock, "head")

AccountsBalance == Cardinality(Accounted) + Debt <= totalGaps + tears

\* A line that can be read back stays readable.
LEMMA ReadableGrows ==
  ASSUME file \in Seq(Chunk), NEW e \in Chunk, file' = Append(file, e)
  PROVE  Readable \subseteq Readable'
<1>1. /\ Len(file') = Len(file) + 1 /\ Len(file) \in Nat
      /\ \A i \in 1..Len(file) : file'[i] = file[i]
  BY Appended
<1>2. SUFFICES ASSUME NEW i \in 1..Len(file), IsLine(i)
               PROVE  i \in 1..Len(file') /\ IsLine(i)' /\ file'[i].id = file[i].id
  BY DEF Readable
<1>3. i \in 1..Len(file') /\ file'[i] = file[i]
  BY <1>1
<1>4. i + 1 \in 1..Len(file) /\ (i = 1 \/ i - 1 \in 1..Len(file))
  BY <1>1, <1>2 DEF IsLine
<1>5. file'[i + 1] = file[i + 1] /\ (i = 1 \/ file'[i - 1] = file[i - 1])
  BY <1>1, <1>4
<1>6. QED
  BY <1>1, <1>2, <1>3, <1>5 DEF IsLine

\* Turns that are accounted for are turns that were opened, so there are finitely many.
LEMMA AccountedIsFinite ==
  ASSUME IInv
  PROVE  IsFiniteSet(Accounted) /\ Cardinality(Accounted) \in Nat
<1>1. nextTurn \in Nat
  BY DEF IInv, TypeOK
<1>2. \A t \in Threads : Settling(t) => turn[t] \in 0..(nextTurn - 1)
  <2>1. \A t \in Threads : turn[t] \in Nat /\ (Active(t) => turn[t] < nextTurn)
    BY DEF IInv, TypeOK, IdsWereIssued
  <2>2. \A t \in Threads : Settling(t) => Active(t)
    BY DEF Active, Settling
  <2>3. QED
    BY <1>1, <2>1, <2>2
<1>3. Accounted \subseteq 0..(nextTurn - 1)
  BY <1>2 DEF Accounted, Lost
<1>4. IsFiniteSet(0..(nextTurn - 1))
  BY <1>1, FS_Interval
<1>5. IsFiniteSet(Accounted)
  BY <1>3, <1>4, FS_Subset
<1>6. QED
  BY <1>5, FS_CardinalityType

\* So they are after a step.
LEMMA CardinalityNext ==
  ASSUME IInv'
  PROVE  IsFiniteSet(Accounted') /\ Cardinality(Accounted') \in Nat
<1>1. nextTurn' \in Nat
  BY DEF IInv, TypeOK
<1>2. \A t \in Threads : Settling(t)' => turn'[t] \in 0..(nextTurn' - 1)
  <2>1. \A t \in Threads : turn'[t] \in Nat /\ (Active(t)' => turn'[t] < nextTurn')
    BY DEF IInv, TypeOK, IdsWereIssued
  <2>2. \A t \in Threads : Settling(t)' => Active(t)'
    BY DEF Active, Settling
  <2>3. QED
    BY <1>1, <2>1, <2>2
<1>3. Accounted' \subseteq 0..(nextTurn' - 1)
  BY <1>2 DEF Accounted, Lost
<1>4. IsFiniteSet(0..(nextTurn' - 1))
  BY <1>1, FS_Interval
<1>5. IsFiniteSet(Accounted')
  BY <1>3, <1>4, FS_Subset
<1>6. QED
  BY <1>5, FS_CardinalityType

\* One more turn is at most one more in the account.
LEMMA AccountGrows ==
  ASSUME IInv, IInv', NEW id
  PROVE  /\ Accounted' \subseteq Accounted => Cardinality(Accounted') <= Cardinality(Accounted)
         /\ Accounted' \subseteq Accounted \cup {id} =>
              Cardinality(Accounted') <= Cardinality(Accounted) + 1
<1>1. IsFiniteSet(Accounted) /\ Cardinality(Accounted) \in Nat
  BY AccountedIsFinite
<1>2. IsFiniteSet(Accounted') /\ Cardinality(Accounted') \in Nat
  BY CardinalityNext
<1>3. /\ IsFiniteSet(Accounted \cup {id})
      /\ Cardinality(Accounted \cup {id}) \in Nat
      /\ Cardinality(Accounted \cup {id}) <= Cardinality(Accounted) + 1
  <2>1. CASE id \in Accounted
    <3>1. Accounted \cup {id} = Accounted
      BY <2>1
    <3>2. QED
      BY <1>1, <3>1
  <2>2. CASE id \notin Accounted
    <3>1. /\ IsFiniteSet(Accounted \cup {id})
          /\ Cardinality(Accounted \cup {id}) = Cardinality(Accounted) + 1
      BY <1>1, <2>2, FS_AddElement
    <3>2. QED
      BY <1>1, <3>1
  <2>3. QED
    BY <2>1, <2>2
<1>4. ASSUME Accounted' \subseteq Accounted
      PROVE  Cardinality(Accounted') <= Cardinality(Accounted)
  BY <1>1, <1>4, FS_Subset
<1>5. ASSUME Accounted' \subseteq Accounted \cup {id}
      PROVE  Cardinality(Accounted') <= Cardinality(Accounted) + 1
  <2>1. Cardinality(Accounted') <= Cardinality(Accounted \cup {id})
    BY <1>3, <1>5, FS_Subset
  <2>2. QED
    BY <1>1, <1>2, <1>3, <2>1
<1>6. QED
  BY <1>4, <1>5

\* A step of thread t adds no turn but `extra` to the account, if the turn it settles was
\* in it or can be read back.
LEMMA StepOfOneThread ==
  ASSUME IInv, NEW t \in Threads, NEW extra,
         Readable \subseteq Readable', nextTurn' = nextTurn, turn' = turn,
         \A u \in Threads : u # t => pc'[u] = pc[u],
         Settling(t)' => turn[t] \in Accounted \cup extra,
         Active(t) /\ ~Active(t)' => turn[t] \in Accounted \cup Readable
  PROVE  Accounted' \subseteq Accounted \cup extra
<1>1. SUFFICES ASSUME NEW id \in Accounted' PROVE id \in Accounted \cup extra
  OBVIOUS
<1>2. CASE \E u \in Threads : Settling(u)' /\ id = turn'[u]
  <2>1. PICK u \in Threads : Settling(u)' /\ id = turn[u]
    BY <1>2
  <2>2. CASE u = t
    BY <2>1, <2>2
  <2>3. CASE u # t
    <3>1. Settling(u)
      BY <2>1, <2>3 DEF Settling
    <3>2. QED
      BY <2>1, <3>1 DEF Accounted
  <2>4. QED
    BY <2>2, <2>3
<1>3. CASE id \in Lost'
  <2>1. /\ id \in 0..(nextTurn - 1) /\ id \notin Readable
        /\ \A u \in Threads : Active(u)' => turn[u] # id
    BY <1>3 DEF Lost
  <2>2. CASE \A u \in Threads : Active(u) => turn[u] # id
    BY <2>1, <2>2 DEF Lost, Accounted
  <2>3. CASE \E u \in Threads : Active(u) /\ turn[u] = id
    <3>1. PICK u \in Threads : Active(u) /\ turn[u] = id
      BY <2>3
    <3>2. u = t
      BY <2>1, <3>1 DEF Active
    <3>3. QED
      BY <2>1, <3>1, <3>2
  <2>4. QED
    BY <2>2, <2>3
<1>4. QED
  BY <1>1, <1>2, <1>3 DEF Accounted

\* The head of the line being written is at the end of the file.
LEMMA HeadStaysHeld == IInv /\ HeadIsHeld /\ [Next]_vars => HeadIsHeld'
<1> SUFFICES ASSUME IInv, HeadIsHeld, [Next]_vars PROVE HeadIsHeld'
  OBVIOUS
<1>1. CASE UNCHANGED vars
  BY <1>1 DEF HeadIsHeld, ChunkOf
<1>2. ASSUME NEW t \in Threads, StartAppend(t) PROVE HeadIsHeld'
  <2>1. ChunkOf(t, "head") \in Chunk /\ file' = Append(file, ChunkOf(t, "head"))
    BY <1>2 DEF IInv, TypeOK, StartAppend, Appending, ChunkOf
  <2>2. Len(file') = Len(file) + 1 /\ file'[Len(file) + 1] = ChunkOf(t, "head") /\ Len(file) \in Nat
    BY <2>1, Appended DEF IInv, TypeOK
  <2>3. QED
    BY <1>2, <2>2 DEF StartAppend, HeadIsHeld, ChunkOf
<1>3. ASSUME NEW t \in Threads, \/ FailMidway(t)
                                \/ \E synced \in BOOLEAN : FinishAppend(t, synced)
      PROVE  HeadIsHeld'
  BY <1>3 DEF FailMidway, FinishAppend, HeadIsHeld
<1>4. ASSUME NEW t \in Threads, Open(t) \/ FailBefore(t) \/ Reset(t) \/ CountGap(t)
      PROVE  HeadIsHeld'
  BY <1>4 DEF Open, FailBefore, Reset, CountGap, HeadIsHeld
<1>5. ASSUME NEW t \in Threads, Escalate(t) \/ \E serialisable \in BOOLEAN : Close(t, serialisable)
      PROVE  HeadIsHeld'
  <2>1. /\ lock' = lock /\ file' = file /\ turn' = turn
        /\ lock # None => lock # t /\ pc'[lock] = pc[lock]
    BY <1>5 DEF IInv, TypeOK, LockIsAnAppend, Escalate, Close, Goto
  <2>2. QED
    BY <2>1 DEF HeadIsHeld, ChunkOf
<1>6. QED
  BY <1>1, <1>2, <1>3, <1>4, <1>5 DEF Next, Step, Done

\* Steps that leave the file and the counts alone.
LEMMA QuietStepKeepsBalance ==
  ASSUME IInv, IInv', AccountsBalance, NEW t \in Threads,
         Close(t, TRUE) \/ Close(t, FALSE) \/ FailBefore(t) \/ Reset(t) \/ Escalate(t)
  PROVE  AccountsBalance'
<1>0. /\ file' = file /\ lock' = lock /\ nextTurn' = nextTurn /\ turn' = turn
      /\ totalGaps' = totalGaps /\ tears' = tears
  BY DEF Close, FailBefore, Reset, Escalate
<1>1. /\ Readable' = Readable /\ nextTurn' = nextTurn /\ turn' = turn
      /\ totalGaps' = totalGaps /\ tears' = tears /\ Debt' = Debt
      /\ \A u \in Threads : u # t => pc'[u] = pc[u]
  <2>1. Readable' = Readable /\ Debt' = Debt
    BY <1>0 DEF Readable, IsLine, Debt, Dangling
  <2>2. \A u \in Threads : u # t => pc'[u] = pc[u]
    BY DEF IInv, TypeOK, Close, FailBefore, Failed, Reset, Escalate, Goto
  <2>3. QED
    BY <1>0, <2>1, <2>2
<1>2. Settling(t)' => Settling(t)
  BY <1>1 DEF IInv, TypeOK, Close, FailBefore, Failed, Appending, Reset, Escalate, Goto,
              Settling
<1>3. Active(t) /\ ~Active(t)' => Settling(t) \/ turn[t] \in Readable
  BY DEF IInv, TypeOK, Close, FailBefore, Failed, Reset, Escalate, Goto, Active, Settling
<1>4. Settling(t) => turn[t] \in Accounted
  BY DEF Accounted
<1>5. Accounted' \subseteq Accounted \cup {}
  BY <1>1, <1>2, <1>3, <1>4, StepOfOneThread
<1>6. Cardinality(Accounted') <= Cardinality(Accounted)
  BY <1>5, AccountGrows
<1>7. /\ Cardinality(Accounted) \in Nat /\ Cardinality(Accounted') \in Nat
      /\ totalGaps \in Nat /\ tears \in Nat /\ Debt \in Nat
  BY <1>6, AccountedIsFinite, CardinalityNext DEF IInv, TypeOK, Debt
<1>8. QED
  BY <1>1, <1>6, <1>7 DEF AccountsBalance

\* A new turn is open, so not lost.
LEMMA OpenKeepsBalance ==
  ASSUME IInv, IInv', AccountsBalance, NEW t \in Threads, Open(t)
  PROVE  AccountsBalance'
<1>1. /\ Readable' = Readable /\ nextTurn' = nextTurn + 1 /\ nextTurn \in Nat
      /\ totalGaps' = totalGaps /\ tears' = tears /\ Debt' = Debt
      /\ turn'[t] = nextTurn /\ pc[t] = "idle" /\ pc'[t] = "open"
      /\ \A u \in Threads : u # t => pc'[u] = pc[u] /\ turn'[u] = turn[u]
  BY DEF IInv, TypeOK, Open, Goto, Readable, IsLine, Debt, Dangling
<1>2. Lost' \subseteq Lost
  <2>1. SUFFICES ASSUME NEW id \in Lost' PROVE id \in Lost
    OBVIOUS
  <2>2. /\ id \in 0..nextTurn /\ id \notin Readable
        /\ \A u \in Threads : Active(u)' => turn'[u] # id
    BY <1>1 DEF Lost
  <2>3. id # nextTurn
    BY <1>1, <2>2 DEF Active
  <2>4. id \in 0..(nextTurn - 1)
    BY <1>1, <2>2, <2>3
  <2>5. \A u \in Threads : Active(u) => turn[u] # id
    BY <1>1, <2>2 DEF Active
  <2>6. QED
    BY <2>2, <2>4, <2>5 DEF Lost
<1>3. \A u \in Threads : Settling(u)' => Settling(u) /\ turn'[u] = turn[u]
  BY <1>1 DEF Settling
<1>4. Accounted' \subseteq Accounted
  BY <1>2, <1>3 DEF Accounted
<1>5. Cardinality(Accounted') <= Cardinality(Accounted)
  BY <1>4, AccountGrows
<1>6. /\ Cardinality(Accounted) \in Nat /\ Cardinality(Accounted') \in Nat
      /\ totalGaps \in Nat /\ tears \in Nat /\ Debt \in Nat
  BY AccountedIsFinite, CardinalityNext DEF IInv, TypeOK, Debt
<1>7. QED
  BY <1>1, <1>5, <1>6 DEF AccountsBalance

\* A gap is counted for the turn that is added to the account.
LEMMA CountGapKeepsBalance ==
  ASSUME IInv, IInv', AccountsBalance, NEW t \in Threads, CountGap(t)
  PROVE  AccountsBalance'
<1>1. /\ Readable' = Readable /\ nextTurn' = nextTurn /\ turn' = turn
      /\ totalGaps' = totalGaps + 1 /\ tears' = tears /\ Debt' = Debt
      /\ pc'[t] = "marker"
      /\ \A u \in Threads : u # t => pc'[u] = pc[u]
  BY DEF IInv, TypeOK, CountGap, Goto, Readable, IsLine, Debt, Dangling
<1>2. Accounted' \subseteq Accounted \cup {turn[t]}
  BY <1>1, StepOfOneThread DEF Active
<1>3. Cardinality(Accounted') <= Cardinality(Accounted) + 1
  BY <1>2, AccountGrows
<1>4. /\ Cardinality(Accounted) \in Nat /\ Cardinality(Accounted') \in Nat
      /\ totalGaps \in Nat /\ tears \in Nat /\ Debt \in Nat
  BY AccountedIsFinite, CardinalityNext DEF IInv, TypeOK, Debt
<1>5. QED
  BY <1>1, <1>3, <1>4 DEF AccountsBalance

\* A line that is begun at a torn one takes over its debt.
LEMMA StartAppendKeepsBalance ==
  ASSUME IInv, IInv', AccountsBalance, NEW t \in Threads, StartAppend(t)
  PROVE  AccountsBalance'
<1>0. /\ ChunkOf(t, "head") \in Chunk /\ file \in Seq(Chunk) /\ t # None
      /\ file' = Append(file, ChunkOf(t, "head"))
  BY DEF IInv, TypeOK, StartAppend, Appending, ChunkOf
<1>1. /\ Len(file') = Len(file) + 1 /\ Len(file) \in Nat
      /\ \A i \in 1..Len(file) : file'[i] = file[i]
  BY <1>0, Appended
<1>2. /\ Readable \subseteq Readable' /\ nextTurn' = nextTurn /\ turn' = turn
      /\ totalGaps' = totalGaps /\ tears' = tears
      /\ pc' = pc /\ lock = None /\ lock' = t
  BY <1>0, ReadableGrows DEF StartAppend
<1>3. Debt' = Debt
  BY <1>0, <1>1, <1>2 DEF Debt, Dangling
<1>4. (Settling(t)' => turn[t] \in Accounted \cup {}) /\ (Active(t)' <=> Active(t))
  BY <1>2 DEF StartAppend, Appending, Settling, Active, Accounted
<1>5. Accounted' \subseteq Accounted \cup {}
  BY <1>2, <1>4, StepOfOneThread
<1>6. Cardinality(Accounted') <= Cardinality(Accounted)
  BY <1>5, AccountGrows
<1>7. /\ Cardinality(Accounted) \in Nat /\ Cardinality(Accounted') \in Nat
      /\ totalGaps \in Nat /\ tears \in Nat /\ Debt \in Nat
  BY AccountedIsFinite, CardinalityNext DEF IInv, TypeOK, Debt
<1>8. QED
  BY <1>2, <1>3, <1>6, <1>7 DEF AccountsBalance

\* A line cut off is charged as a tear.
LEMMA FailMidwayKeepsBalance ==
  ASSUME IInv, IInv', AccountsBalance, NEW t \in Threads, FailMidway(t)
  PROVE  AccountsBalance'
<1>1. /\ Readable' = Readable /\ nextTurn' = nextTurn /\ turn' = turn
      /\ totalGaps' = totalGaps /\ tears' = tears + 1
      /\ \A u \in Threads : u # t => pc'[u] = pc[u]
  BY DEF IInv, TypeOK, FailMidway, Failed, Goto, Readable, IsLine
<1>2. (Settling(t)' => Settling(t)) /\ (Active(t)' <=> Active(t))
  BY <1>1 DEF IInv, TypeOK, FailMidway, Failed, Appending, Goto, Settling, Active
<1>3. Accounted' \subseteq Accounted \cup {}
  BY <1>1, <1>2, StepOfOneThread DEF Accounted
<1>4. Cardinality(Accounted') <= Cardinality(Accounted)
  BY <1>3, AccountGrows
<1>5. /\ Cardinality(Accounted) \in Nat /\ Cardinality(Accounted') \in Nat
      /\ totalGaps \in Nat /\ tears \in Nat /\ Debt \in {0, 1} /\ Debt' \in {0, 1}
  BY AccountedIsFinite, CardinalityNext DEF IInv, TypeOK, Debt
<1>6. QED
  BY <1>1, <1>4, <1>5 DEF AccountsBalance

\* A line that is finished can be read back, or pays for the torn one it fell on.
LEMMA FinishAppendKeepsBalance ==
  ASSUME IInv, IInv', HeadIsHeld, AccountsBalance, NEW t \in Threads,
         NEW synced \in BOOLEAN, FinishAppend(t, synced)
  PROVE  AccountsBalance'
<1>0. /\ ChunkOf(t, "tail") \in Chunk /\ file \in Seq(Chunk) /\ t # None
      /\ file' = Append(file, ChunkOf(t, "tail"))
      /\ lock = t /\ lock' = None
  BY DEF IInv, TypeOK, FinishAppend, Appending, ChunkOf
<1>1. /\ Len(file') = Len(file) + 1 /\ Len(file) \in Nat
      /\ \A i \in 1..Len(file) : file'[i] = file[i]
      /\ file'[Len(file) + 1] = ChunkOf(t, "tail")
  BY <1>0, Appended
<1>2. /\ Readable \subseteq Readable' /\ nextTurn' = nextTurn /\ turn' = turn
      /\ totalGaps' = totalGaps /\ tears' = tears
      /\ \A u \in Threads : u # t => pc'[u] = pc[u]
  BY <1>0, ReadableGrows DEF IInv, TypeOK, FinishAppend, Failed, Goto
<1>3. Len(file) > 0 /\ file[Len(file)] = ChunkOf(t, "head")
  BY <1>0 DEF HeadIsHeld
<1>4. Debt' = 0
  BY <1>0, <1>1 DEF Debt, Dangling, ChunkOf
<1>5. /\ Active(t) <=> Active(t)'
      /\ pc'[t] \in {"marker", "escalate"} => Settling(t)
  BY DEF IInv, TypeOK, FinishAppend, Failed, Appending, Goto, Active, Settling
<1>6. /\ Cardinality(Accounted) \in Nat /\ Cardinality(Accounted') \in Nat
      /\ totalGaps \in Nat /\ tears \in Nat /\ Debt \in {0, 1}
  BY AccountedIsFinite, CardinalityNext DEF IInv, TypeOK, Debt
<1>7. CASE Dangling
  <2>1. Accounted' \subseteq Accounted \cup {turn[t]}
    BY <1>2, <1>5, StepOfOneThread
  <2>2. Cardinality(Accounted') <= Cardinality(Accounted) + 1
    BY <2>1, AccountGrows
  <2>3. Debt = 1
    BY <1>7 DEF Debt
  <2>4. QED
    BY <1>2, <1>4, <1>6, <2>2, <2>3 DEF AccountsBalance
<1>8. CASE ~Dangling
  <2>0. PICK n \in Nat : n = Len(file)
    BY <1>1
  <2>1. n = 1 \/ (n - 1 \in 1..Len(file) /\ file[n - 1].part = "tail")
    <3>1. \A i \in 1..Len(file) : file[i] \in Chunk
      BY <1>0, ElementOfSeq
    <3>2. \A i \in 1..Len(file) : file[i].part \in {"head", "tail"}
      BY <3>1
    <3>3. n > 1 => file[n - 1].part # "head"
      BY <1>0, <1>8, <2>0 DEF Dangling
    <3>4. n > 1 => n - 1 \in 1..Len(file)
      BY <2>0
    <3>5. n > 0
      BY <1>3, <2>0
    <3>6. QED
      BY <2>0, <3>2, <3>3, <3>4, <3>5
  <2>2. IsLine(n)' /\ file'[n].id = turn[t] /\ n \in 1..Len(file')
    <3>1. /\ n \in 1..Len(file) /\ file'[n] = ChunkOf(t, "head")
          /\ file'[n + 1] = ChunkOf(t, "tail")
          /\ Len(file') = n + 1
          /\ n = 1 \/ file'[n - 1] = file[n - 1]
      BY <1>1, <1>3, <2>0, <2>1
    <3>2. QED
      BY <2>1, <3>1 DEF IsLine, ChunkOf
  <2>3. turn[t] \in Readable'
    BY <2>2 DEF Readable
  <2>4. Settling(t)' => Settling(t)
    BY <1>2, <1>5, <2>3 DEF Settling
  <2>5. Accounted' \subseteq Accounted \cup {}
    BY <1>2, <1>5, <2>4, StepOfOneThread DEF Accounted
  <2>6. Cardinality(Accounted') <= Cardinality(Accounted)
    BY <2>5, AccountGrows
  <2>7. QED
    BY <1>2, <1>4, <1>6, <2>6 DEF AccountsBalance
<1>9. QED
  BY <1>7, <1>8

LEMMA StepKeepsBalance ==
  IInv /\ IInv' /\ HeadIsHeld /\ AccountsBalance /\ [Next]_vars => AccountsBalance'
<1> SUFFICES ASSUME IInv, IInv', HeadIsHeld, AccountsBalance, [Next]_vars PROVE AccountsBalance'
  OBVIOUS
<1>1. CASE UNCHANGED vars
  BY <1>1 DEF AccountsBalance, Accounted, Lost, Settling, Active, Readable, IsLine, Debt,
         Dangling
<1>2. ASSUME NEW t \in Threads, Open(t) \/ Step(t) PROVE AccountsBalance'
  BY <1>2, OpenKeepsBalance, QuietStepKeepsBalance, StartAppendKeepsBalance,
     FailMidwayKeepsBalance, FinishAppendKeepsBalance, CountGapKeepsBalance DEF Step
<1>3. QED
  BY <1>1, <1>2 DEF Next, Done

\* No turn goes missing unaccounted, whatever appends fail and wherever: a turn that
\* cannot be read back was counted as a gap or fell on a torn line (tracer.py 326-361).
THEOREM LossSafety == Spec => []LostTurnsAreCounted
<1>1. Init => HeadIsHeld /\ AccountsBalance
  <2>1. ASSUME Init PROVE Accounted = {} /\ Debt = 0 /\ totalGaps = 0 /\ tears = 0
    BY <2>1 DEF Init, Accounted, Lost, Settling, Debt, Dangling
  <2>2. QED
    BY <2>1, FS_EmptySet DEF Init, HeadIsHeld, AccountsBalance
<1>2. IInv /\ IInv' /\ HeadIsHeld /\ AccountsBalance /\ [Next]_vars
        => (HeadIsHeld /\ AccountsBalance)'
  BY HeadStaysHeld, StepKeepsBalance
<1>3. IInv /\ AccountsBalance => LostTurnsAreCounted
  <2> SUFFICES ASSUME IInv, AccountsBalance PROVE LostTurnsAreCounted
    OBVIOUS
  <2>1. IsFiniteSet(Accounted) /\ Cardinality(Accounted) \in Nat
    BY AccountedIsFinite
  <2>2. Lost \subseteq Accounted
    BY DEF Accounted
  <2>3. IsFiniteSet(Lost) /\ Cardinality(Lost) <= Cardinality(Accounted)
    BY <2>1, <2>2, FS_Subset
  <2>4. Cardinality(Lost) \in Nat
    BY <2>3, FS_CardinalityType
  <2>5. totalGaps \in Nat /\ tears \in Nat /\ Debt \in Nat
    BY DEF IInv, TypeOK, Debt
  <2>6. QED
    BY <2>1, <2>3, <2>4, <2>5 DEF AccountsBalance, LostTurnsAreCounted
<1>4. QED
  BY <1>1, <1>2, <1>3, Invariance, PTL DEF Spec

-----------------------------------------------------------------------------

\* A thread whose phase, retries and hold on the lock are untouched has as much left to do.
LEMMA OthersAreUntouched ==
  ASSUME NEW u, pc'[u] = pc[u], tries'[u] = tries[u], lock' = u <=> lock = u
  PROVE  StepsLeft(u)' = StepsLeft(u)
BY DEF StepsLeft

\* A failed append leaves less to do: one attempt less, the gap to count, or only the
\* escalation, whether or not the thread had the lock.
LEMMA FailureSpends ==
  ASSUME IInv, NEW t \in Threads, Appending(t), Failed(t), lock' # t
  PROVE  StepsLeft(t)' < StepsLeft(t)
<1>1. CASE pc[t] = "marker"
  <2>1. pc'[t] = "escalate"
    BY <1>1 DEF IInv, TypeOK, Failed, Goto
  <2>2. StepsLeft(t)' = 1
    BY <2>1 DEF StepsLeft
  <2>3. StepsLeft(t) \in {2, 3}
    BY <1>1 DEF StepsLeft
  <2>4. QED
    BY <2>2, <2>3
<1>2. CASE pc[t] = "record"
  <2>1. tries[t] \in Nat /\ tries[t] + 1 <= MaxWriteAttempts
    BY <1>2 DEF IInv, TypeOK, LockIsAnAppend
  <2>2. /\ tries'[t] = tries[t] + 1
        /\ pc'[t] \in {"record", "count"}
    BY <1>2 DEF IInv, TypeOK, Failed, Goto
  <2>3. /\ pc'[t] = "record" => StepsLeft(t)' = 2 * (MaxWriteAttempts - tries'[t]) + 4
        /\ pc'[t] = "count" => StepsLeft(t)' = 4
    BY <2>1, <2>2 DEF StepsLeft
  <2>4. /\ lock = t => StepsLeft(t) = 2 * (MaxWriteAttempts - tries[t]) + 3
        /\ lock # t => StepsLeft(t) = 2 * (MaxWriteAttempts - tries[t]) + 4
    BY <1>2, <2>1 DEF StepsLeft
  <2>5. QED
    BY <2>1, <2>2, <2>3, <2>4
<1>3. QED
  BY <1>1, <1>2 DEF Appending

\* Every step a thread takes in its turn spends some of what the turn has left.
LEMMA StepSpends ==
  ASSUME IInv, NEW t \in Threads, Step(t)
  PROVE  Active(t) /\ StepsLeft(t)' < StepsLeft(t)
<1>0. TypeOK
  BY DEF IInv
<1>1. ASSUME NEW serialisable \in BOOLEAN, Close(t, serialisable)
      PROVE  Active(t) /\ StepsLeft(t)' < StepsLeft(t)
  <2>1. /\ pc[t] = "open" /\ pc'[t] \in {"record", "count"}
        /\ tries'[t] = 0
    BY <1>0, <1>1 DEF TypeOK, Close, Goto
  <2>2. StepsLeft(t) = 2 * MaxWriteAttempts + 5
    BY <2>1 DEF StepsLeft
  <2>3. /\ pc'[t] = "record" /\ lock' = t => StepsLeft(t)' = 2 * MaxWriteAttempts + 3
        /\ pc'[t] = "record" /\ lock' # t => StepsLeft(t)' = 2 * MaxWriteAttempts + 4
        /\ pc'[t] = "count" => StepsLeft(t)' = 4
    BY <2>1 DEF StepsLeft
  <2>4. QED
    BY <2>1, <2>2, <2>3 DEF Active
<1>2. CASE StartAppend(t)
  <2>1. /\ pc[t] \in {"record", "marker"} /\ pc'[t] = pc[t] /\ tries'[t] = tries[t]
        /\ lock # t /\ lock' = t /\ tries[t] \in Nat
    BY <1>0, <1>2 DEF TypeOK, StartAppend, Appending
  <2>2. /\ pc[t] = "record" => /\ StepsLeft(t) = 2 * (MaxWriteAttempts - tries[t]) + 4
                               /\ StepsLeft(t)' = 2 * (MaxWriteAttempts - tries[t]) + 3
        /\ pc[t] = "marker" => StepsLeft(t) = 3 /\ StepsLeft(t)' = 2
    BY <2>1 DEF StepsLeft
  <2>3. QED
    BY <2>1, <2>2 DEF Active
<1>3. CASE FailBefore(t) \/ FailMidway(t)
  <2>1. Appending(t) /\ Failed(t) /\ lock' # t
    BY <1>3 DEF FailBefore, FailMidway
  <2>2. QED
    BY <2>1, FailureSpends DEF Active, Appending
<1>4. ASSUME NEW synced \in BOOLEAN, FinishAppend(t, synced)
      PROVE  Active(t) /\ StepsLeft(t)' < StepsLeft(t)
  <2>1. Appending(t) /\ Active(t) /\ lock' # t
    BY <1>4 DEF FinishAppend, Appending, Active
  <2>2. CASE Failed(t)
    BY <2>1, <2>2, FailureSpends
  <2>3. CASE ~Failed(t)
    <3>1. pc'[t] \in {"reset", "escalate"}
      BY <1>0, <1>4, <2>3 DEF TypeOK, FinishAppend, Goto
    <3>2. StepsLeft(t)' = 1
      BY <3>1 DEF StepsLeft
    <3>3. tries[t] \in Nat /\ (pc[t] = "record" => tries[t] + 1 <= MaxWriteAttempts)
      BY <1>0 DEF TypeOK, IInv, LockIsAnAppend
    <3>4. /\ lock = t
          /\ pc[t] = "record" => StepsLeft(t) = 2 * (MaxWriteAttempts - tries[t]) + 3
          /\ pc[t] = "marker" => StepsLeft(t) = 2
      BY <1>4, <3>3 DEF StepsLeft, FinishAppend
    <3>5. QED
      BY <2>1, <3>2, <3>3, <3>4 DEF Appending
  <2>4. QED
    BY <2>2, <2>3
<1>5. CASE CountGap(t)
  <2>1. pc[t] = "count" /\ pc'[t] = "marker"
    BY <1>0, <1>5 DEF TypeOK, CountGap, Goto
  <2>2. StepsLeft(t) = 4 /\ StepsLeft(t)' \in {2, 3}
    BY <2>1 DEF StepsLeft
  <2>3. QED
    BY <2>1, <2>2 DEF Active
<1>6. CASE Reset(t) \/ Escalate(t)
  <2>1. pc[t] \in {"reset", "escalate"} /\ pc'[t] \in {"idle", "halted"}
    BY <1>0, <1>6 DEF TypeOK, Reset, Escalate, Goto
  <2>2. StepsLeft(t) = 1 /\ StepsLeft(t)' = 0
    BY <2>1 DEF StepsLeft
  <2>3. QED
    BY <2>1, <2>2 DEF Active
<1>7. QED
  BY <1>1, <1>2, <1>3, <1>4, <1>5, <1>6 DEF Step

\* A thread's step is in its own turn: another keeps its phase, its retries and the lock.
LEMMA StepIsItsOwn ==
  ASSUME IInv, NEW t \in Threads, Open(t) \/ Step(t), NEW u \in Threads \ {t}
  PROVE  StepsLeft(u)' = StepsLeft(u)
<1>1. CASE Open(t) \/ Reset(t) \/ CountGap(t) \/ Escalate(t)
  BY <1>1, OthersAreUntouched DEF IInv, TypeOK, Open, Reset, CountGap, Escalate, Goto
<1>2. ASSUME NEW serialisable \in BOOLEAN, Close(t, serialisable)
      PROVE  StepsLeft(u)' = StepsLeft(u)
  BY <1>2, OthersAreUntouched DEF IInv, TypeOK, Close, Goto
<1>3. CASE StartAppend(t)
  BY <1>3, OthersAreUntouched DEF IInv, TypeOK, StartAppend
<1>4. ASSUME Appending(t), Failed(t), lock' = u <=> lock = u
      PROVE  StepsLeft(u)' = StepsLeft(u)
  <2>1. pc'[u] = pc[u] /\ tries'[u] = tries[u]
    BY <1>4 DEF IInv, TypeOK, Failed, Goto
  <2>2. QED
    BY <1>4, <2>1, OthersAreUntouched
<1>5. CASE FailBefore(t) \/ FailMidway(t)
  BY <1>4, <1>5 DEF FailBefore, FailMidway
<1>6. ASSUME NEW synced \in BOOLEAN, FinishAppend(t, synced)
      PROVE  StepsLeft(u)' = StepsLeft(u)
  <2>1. Appending(t) /\ (lock' = u <=> lock = u)
    BY <1>6 DEF FinishAppend
  <2>2. CASE Failed(t)
    BY <1>4, <2>1, <2>2
  <2>3. CASE ~Failed(t)
    <3>1. pc'[u] = pc[u] /\ tries'[u] = tries[u]
      BY <1>6, <2>3 DEF IInv, TypeOK, FinishAppend, Goto
    <3>2. QED
      BY <2>1, <3>1, OthersAreUntouched
  <2>4. QED
    BY <2>2, <2>3
<1>7. QED
  BY <1>1, <1>2, <1>3, <1>5, <1>6 DEF Step

\* A turn takes at most 2 * MAX_WRITE_ATTEMPTS + 5 steps of its thread, and no other
\* thread's step gives it more to do (turn and _write, tracer.py 286-361).
THEOREM TurnBound == Spec => TurnsRunOut
<1> DEFINE Spends(t) ==
      /\ IF Active(t) THEN StepsLeft(t)' < StepsLeft(t)
         ELSE StepsLeft(t)' <= 2 * MaxWriteAttempts + 5
      /\ \A u \in Threads \ {t} : StepsLeft(u)' = StepsLeft(u)
<1>1. ASSUME IInv, NEW t \in Threads, Open(t) PROVE Spends(t)
  <2>1. ~Active(t) /\ pc'[t] = "open"
    BY <1>1 DEF IInv, TypeOK, Open, Goto, Active
  <2>2. StepsLeft(t)' = 2 * MaxWriteAttempts + 5
    BY <2>1 DEF StepsLeft
  <2>3. \A u \in Threads \ {t} : StepsLeft(u)' = StepsLeft(u)
    BY <1>1, StepIsItsOwn
  <2>4. QED
    BY <2>1, <2>2, <2>3
<1>2. ASSUME IInv, NEW t \in Threads, Step(t) PROVE Spends(t)
  <2>1. Active(t) /\ StepsLeft(t)' < StepsLeft(t)
    BY <1>2, StepSpends
  <2>2. \A u \in Threads \ {t} : StepsLeft(u)' = StepsLeft(u)
    BY <1>2, StepIsItsOwn
  <2>3. QED
    BY <2>1, <2>2
<1>3. IInv /\ [Next]_vars => [\E t \in Threads : Spends(t)]_vars
  BY <1>1, <1>2 DEF Next, Done
<1>4. QED
  BY <1>3, Invariance, PTL DEF Spec, TurnsRunOut

=============================================================================

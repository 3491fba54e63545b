----------------------------- MODULE ClientProofs -----------------------------
(***************************************************************************)
(* Safety of the client for every budget, delay, cost and number of calls, *)
(* and the refinement of ModelCall.                                        *)
(***************************************************************************)
EXTENDS Client, TLAPS

\* A call has posted no more than its attempts: those of the first _send, once widened,
\* and those of the present one.
PostsAreAttempts ==
  LET before == IF widened THEN TransportAttempts ELSE 0
  IN  /\ pc = "post" => posts < before + attempt
      /\ pc \in {"cut", "replied", "raised", "broken"} => posts <= before + attempt
      /\ pc = "cut" => ~widened

\* No reply is in hand outside the two phases that deal with one.
ReplyInHand == pc \notin {"cut", "replied"} => reply = 0

\* The inductive invariant.
IInv ==
  /\ TypeOK
  /\ RetriesAreAllowed
  /\ GivesUpForAReason
  /\ SpendIsAccounted
  /\ PostsAreAttempts
  /\ ReplyInHand
  /\ CallIsBounded

\* A backoff is a number of seconds, and not above the ceiling.
LEMMA BackoffBound == Backoff \in Nat /\ Backoff <= MaxBackoff
  BY ClientAssumption DEF Backoff

\* The longest wait is a bound of every wait.
LEMMA MaxWaitBound ==
  MaxWait \in Nat /\ MaxBackoff <= MaxWait /\ MaxHonoured <= MaxWait
  BY ClientAssumption DEF MaxWait

\* One more post allows one more wait.
LEMMA OneMoreWait ==
  ASSUME NEW n \in Nat, NEW s \in Nat, NEW w \in Nat, NEW m \in Nat, s <= n * m, w <= m
  PROVE  s <= (n + 1) * m /\ s + w <= (n + 1) * m
<1>1. (n + 1) * m = n * m + m
  OBVIOUS
<1>2. n * m \in Nat
  OBVIOUS
<1>3. QED
  BY <1>1, <1>2

LEMMA InitInv == Init => IInv
<1> SUFFICES ASSUME Init PROVE IInv
  OBVIOUS
<1>1. TypeOK
  <2>1. promised \in BOOLEAN /\ widened \in BOOLEAN
    BY Zenon DEF Init
  <2>2. QED
    BY <2>1, ClientAssumption, SMT DEF Init, TypeOK, Phases, Answers
<1>2. CallIsBounded
  <2>1. 0 <= 0 * MaxWait
    BY MaxWaitBound
  <2>2. QED
    BY <2>1, ClientAssumption DEF Init, CallIsBounded
<1>3. QED
  BY <1>1, <1>2 DEF Init, IInv, RetriesAreAllowed, GivesUpForAReason, SpendIsAccounted,
                   PostsAreAttempts, ReplyInHand

LEMMA StartInv ==
  ASSUME IInv, Start
  PROVE  IInv'
<1> USE ClientAssumption DEF IInv
<1>1. TypeOK'
  <2>1. promised' \in BOOLEAN /\ widened' \in BOOLEAN
    BY Zenon DEF TypeOK, Start, sending, totals, leaks
  <2>2. QED
    BY <2>1, SMT DEF TypeOK, Phases, Answers, Start, sending, totals, leaks
<1>2. RetriesAreAllowed'
  BY DEF RetriesAreAllowed, TypeOK, Start, sending, totals, leaks
<1>3. GivesUpForAReason'
  BY DEF GivesUpForAReason, TypeOK, Start, sending, totals, leaks
<1>4. SpendIsAccounted'
  BY DEF SpendIsAccounted, ReplyInHand, TypeOK, Start, sending, totals, leaks
<1>5. PostsAreAttempts'
  BY DEF PostsAreAttempts, TypeOK, Start, sending, totals, leaks
<1>6. CallIsBounded'
  <2>1. 0 <= 0 * MaxWait
    BY MaxWaitBound
  <2>2. MaxWait' = MaxWait
    BY DEF MaxWait
  <2>3. QED
    BY <2>1, <2>2 DEF Start, CallIsBounded
<1>7. ReplyInHand'
  BY DEF ReplyInHand, Start, sending, totals, leaks
<1>8. QED
  BY <1>1, <1>2, <1>3, <1>4, <1>5, <1>6, <1>7

LEMMA LostInv ==
  ASSUME IInv, NEW c \in Costs \cup {0}, Lost(c)
  PROVE  IInv'
<1> USE ClientAssumption DEF IInv
<1> Backoff \in Nat
  BY BackoffBound
<1>1. TypeOK'
  <2>1. promised' \in BOOLEAN /\ widened' \in BOOLEAN
    BY SMT DEF TypeOK, Lost, Posted, AfterError, Retry, GiveUp, sending, totals, leaks
  <2>2. QED
    BY <2>1, SMT DEF TypeOK, Phases, Answers, Lost, Posted, AfterError, Retry, GiveUp,
           sending, totals, leaks
<1>2. RetriesAreAllowed'
  BY DEF RetriesAreAllowed, TypeOK, Lost, Posted, AfterError, Retry, GiveUp, sending,
         totals, leaks
<1>3. GivesUpForAReason'
  <2>1. CASE attempt < MaxAttempts
    BY <2>1 DEF GivesUpForAReason, TypeOK, Lost, Posted, AfterError, Retry, GiveUp,
           sending, totals, leaks
  <2>2. CASE attempt >= MaxAttempts
    <3>1. ~promised'
      <4>1. ~(attempt < MaxAttempts)
        BY <2>2 DEF TypeOK
      <4>2. QED
        BY <4>1, Zenon DEF Lost, Posted, AfterError, Retry, GiveUp, sending, totals, leaks
    <3>2. QED
      BY <2>2, <3>1 DEF GivesUpForAReason, TypeOK, Lost, Posted, AfterError, Retry,
             GiveUp, sending, totals, leaks
  <2>3. QED
    BY <2>1, <2>2 DEF TypeOK
<1>4. SpendIsAccounted'
  BY DEF SpendIsAccounted, ReplyInHand, TypeOK, Lost, Posted, AfterError, Retry, GiveUp,
         sending, totals, leaks
<1>5. PostsAreAttempts'
  BY DEF PostsAreAttempts, TypeOK, Lost, Posted, AfterError, Retry, GiveUp, sending,
         totals, leaks
<1>6. CallIsBounded'
  <2>1. posts' = posts + 1 /\ posts \in Nat /\ slept \in Nat
    BY DEF TypeOK, Lost, Posted, AfterError, Retry, GiveUp, sending, totals, leaks
  <2>2. posts' <= 2 * TransportAttempts
    BY <2>1 DEF PostsAreAttempts, TypeOK, Lost, Posted, AfterError, Retry, GiveUp,
           sending, totals, leaks
  <2>3. slept' = slept \/ slept' = slept + Backoff
    BY DEF Lost, Posted, AfterError, Retry, GiveUp, sending, totals, leaks
  <2>4. Backoff <= MaxWait
    BY MaxWaitBound, BackoffBound DEF Lost, Posted, AfterError, Retry, GiveUp, sending,
           totals, leaks
  <2>5. slept <= (posts + 1) * MaxWait /\ slept + Backoff <= (posts + 1) * MaxWait
    BY <2>1, <2>4, MaxWaitBound, OneMoreWait DEF CallIsBounded
  <2>6. MaxWait' = MaxWait
    BY DEF MaxWait
  <2>7. QED
    BY <2>1, <2>2, <2>3, <2>5, <2>6 DEF CallIsBounded
<1>7. ReplyInHand'
  BY DEF ReplyInHand, Lost, Posted, AfterError, Retry, GiveUp, sending, totals, leaks
<1>8. QED
  BY <1>1, <1>2, <1>3, <1>4, <1>5, <1>6, <1>7

LEMMA TransientInv ==
  ASSUME IInv, Transient
  PROVE  IInv'
<1> USE ClientAssumption DEF IInv
<1> Backoff \in Nat
  BY BackoffBound
<1>1. TypeOK'
  <2>1. promised' \in BOOLEAN /\ widened' \in BOOLEAN
    BY SMT DEF TypeOK, Transient, Posted, AfterError, Retry, GiveUp, sending, totals, leaks
  <2>2. QED
    BY <2>1, SMT DEF TypeOK, Phases, Answers, Transient, Posted, AfterError, Retry,
           GiveUp, sending, totals, leaks
<1>2. RetriesAreAllowed'
  BY DEF RetriesAreAllowed, TypeOK, Transient, Posted, AfterError, Retry, GiveUp, sending,
         totals, leaks
<1>3. GivesUpForAReason'
  <2>1. CASE attempt < MaxAttempts
    BY <2>1 DEF GivesUpForAReason, TypeOK, Transient, Posted, AfterError, Retry, GiveUp,
           sending, totals, leaks
  <2>2. CASE attempt >= MaxAttempts
    <3>1. ~promised'
      <4>1. ~(attempt < MaxAttempts)
        BY <2>2 DEF TypeOK
      <4>2. QED
        BY <4>1, Zenon DEF Transient, Posted, AfterError, Retry, GiveUp, sending, totals,
               leaks
    <3>2. QED
      BY <2>2, <3>1 DEF GivesUpForAReason, TypeOK, Transient, Posted, AfterError, Retry,
             GiveUp, sending, totals, leaks
  <2>3. QED
    BY <2>1, <2>2 DEF TypeOK
<1>4. SpendIsAccounted'
  BY DEF SpendIsAccounted, ReplyInHand, TypeOK, Transient, Posted, AfterError, Retry,
         GiveUp, sending, totals, leaks
<1>5. PostsAreAttempts'
  BY DEF PostsAreAttempts, TypeOK, Transient, Posted, AfterError, Retry, GiveUp, sending,
         totals, leaks
<1>6. CallIsBounded'
  <2>1. posts' = posts + 1 /\ posts \in Nat /\ slept \in Nat
    BY DEF TypeOK, Transient, Posted, AfterError, Retry, GiveUp, sending, totals, leaks
  <2>2. posts' <= 2 * TransportAttempts
    BY <2>1 DEF PostsAreAttempts, TypeOK, Transient, Posted, AfterError, Retry, GiveUp,
           sending, totals, leaks
  <2>3. slept' = slept \/ slept' = slept + Backoff
    BY DEF Transient, Posted, AfterError, Retry, GiveUp, sending, totals, leaks
  <2>4. Backoff <= MaxWait
    BY MaxWaitBound, BackoffBound DEF Transient, Posted, AfterError, Retry, GiveUp,
           sending, totals, leaks
  <2>5. slept <= (posts + 1) * MaxWait /\ slept + Backoff <= (posts + 1) * MaxWait
    BY <2>1, <2>4, MaxWaitBound, OneMoreWait DEF CallIsBounded
  <2>6. MaxWait' = MaxWait
    BY DEF MaxWait
  <2>7. QED
    BY <2>1, <2>2, <2>3, <2>5, <2>6 DEF CallIsBounded
<1>7. ReplyInHand'
  BY DEF ReplyInHand, Transient, Posted, AfterError, Retry, GiveUp, sending, totals, leaks
<1>8. QED
  BY <1>1, <1>2, <1>3, <1>4, <1>5, <1>6, <1>7

LEMMA HonouredInv ==
  ASSUME IInv, NEW d \in Delays, Honoured(d)
  PROVE  IInv'
<1> USE ClientAssumption DEF IInv
<1> d \in Nat
  OBVIOUS
<1>1. TypeOK'
  <2>1. promised' \in BOOLEAN /\ widened' \in BOOLEAN
    BY Zenon DEF TypeOK, Honoured, Posted, sending, totals, leaks
  <2>2. QED
    BY <2>1, SMT DEF TypeOK, Phases, Answers, Honoured, Posted, sending, totals, leaks
<1>2. RetriesAreAllowed'
  BY DEF RetriesAreAllowed, TypeOK, Honoured, Posted, sending, totals, leaks
<1>3. GivesUpForAReason'
  BY DEF GivesUpForAReason, TypeOK, Honoured, Posted, sending, totals, leaks
<1>4. SpendIsAccounted'
  BY DEF SpendIsAccounted, ReplyInHand, TypeOK, Honoured, Posted, sending, totals, leaks
<1>5. PostsAreAttempts'
  BY DEF PostsAreAttempts, TypeOK, Honoured, Posted, sending, totals, leaks
<1>6. CallIsBounded'
  <2>1. posts' = posts + 1 /\ posts \in Nat /\ slept \in Nat
    BY DEF TypeOK, Honoured, Posted, sending, totals, leaks
  <2>2. posts' <= 2 * TransportAttempts
    BY <2>1 DEF PostsAreAttempts, TypeOK, Honoured, Posted, sending, totals, leaks
  <2>3. slept' = slept \/ slept' = slept + d
    BY DEF Honoured, Posted, sending, totals, leaks
  <2>4. d <= MaxWait
    BY MaxWaitBound, BackoffBound DEF Honoured, Posted, sending, totals, leaks
  <2>5. slept <= (posts + 1) * MaxWait /\ slept + d <= (posts + 1) * MaxWait
    BY <2>1, <2>4, MaxWaitBound, OneMoreWait DEF CallIsBounded
  <2>6. MaxWait' = MaxWait
    BY DEF MaxWait
  <2>7. QED
    BY <2>1, <2>2, <2>3, <2>5, <2>6 DEF CallIsBounded
<1>7. ReplyInHand'
  BY DEF ReplyInHand, Honoured, Posted, sending, totals, leaks
<1>8. QED
  BY <1>1, <1>2, <1>3, <1>4, <1>5, <1>6, <1>7

LEMMA FatalInv ==
  ASSUME IInv, NEW h \in {"daily", "refused"}, Fatal(h)
  PROVE  IInv'
<1> USE ClientAssumption DEF IInv
<1>1. TypeOK'
  <2>1. promised' \in BOOLEAN /\ widened' \in BOOLEAN
    BY Zenon DEF TypeOK, Fatal, Posted, GiveUp, sending, totals, leaks
  <2>2. QED
    BY <2>1, SMT DEF TypeOK, Phases, Answers, Fatal, Posted, GiveUp, sending, totals, leaks
<1>2. RetriesAreAllowed'
  BY DEF RetriesAreAllowed, TypeOK, Fatal, Posted, GiveUp, sending, totals, leaks
<1>3. GivesUpForAReason'
  BY DEF GivesUpForAReason, TypeOK, Fatal, Posted, GiveUp, sending, totals, leaks
<1>4. SpendIsAccounted'
  BY DEF SpendIsAccounted, ReplyInHand, TypeOK, Fatal, Posted, GiveUp, sending, totals,
         leaks
<1>5. PostsAreAttempts'
  BY DEF PostsAreAttempts, TypeOK, Fatal, Posted, GiveUp, sending, totals, leaks
<1>6. CallIsBounded'
  <2>1. posts' = posts + 1 /\ posts \in Nat /\ slept \in Nat
    BY DEF TypeOK, Fatal, Posted, GiveUp, sending, totals, leaks
  <2>2. posts' <= 2 * TransportAttempts
    BY <2>1 DEF PostsAreAttempts, TypeOK, Fatal, Posted, GiveUp, sending, totals, leaks
  <2>3. slept' = slept
    BY DEF Fatal, Posted, GiveUp, sending, totals, leaks
  <2>4. slept <= (posts + 1) * MaxWait
    BY <2>1, MaxWaitBound, OneMoreWait DEF CallIsBounded
  <2>5. MaxWait' = MaxWait
    BY DEF MaxWait
  <2>6. QED
    BY <2>1, <2>2, <2>3, <2>4, <2>5 DEF CallIsBounded
<1>7. ReplyInHand'
  BY DEF ReplyInHand, Fatal, Posted, GiveUp, sending, totals, leaks
<1>8. QED
  BY <1>1, <1>2, <1>3, <1>4, <1>5, <1>6, <1>7

LEMMA BreakInv ==
  ASSUME IInv, NEW h \in {"unreadable", "odd"}, NEW c \in Costs \cup {0}, Break(h, c)
  PROVE  IInv'
<1> USE ClientAssumption DEF IInv
<1> c \in Nat
  BY ClientAssumption
<1>1. TypeOK'
  <2>1. promised' \in BOOLEAN /\ widened' \in BOOLEAN
    BY Zenon DEF TypeOK, Break, Posted, sending, totals, leaks
  <2>2. QED
    BY <2>1, SMT DEF TypeOK, Phases, Answers, Break, Posted, sending, totals, leaks
<1>2. RetriesAreAllowed'
  BY DEF RetriesAreAllowed, TypeOK, Break, Posted, sending, totals, leaks
<1>3. GivesUpForAReason'
  BY DEF GivesUpForAReason, TypeOK, Break, Posted, sending, totals, leaks
<1>4. SpendIsAccounted'
  BY DEF SpendIsAccounted, ReplyInHand, TypeOK, Break, Posted, sending, totals, leaks
<1>5. PostsAreAttempts'
  BY DEF PostsAreAttempts, TypeOK, Break, Posted, sending, totals, leaks
<1>6. CallIsBounded'
  <2>1. posts' = posts + 1 /\ posts \in Nat /\ slept \in Nat
    BY DEF TypeOK, Break, Posted, sending, totals, leaks
  <2>2. posts' <= 2 * TransportAttempts
    BY <2>1 DEF PostsAreAttempts, TypeOK, Break, Posted, sending, totals, leaks
  <2>3. slept' = slept
    BY DEF Break, Posted, sending, totals, leaks
  <2>4. slept <= (posts + 1) * MaxWait
    BY <2>1, MaxWaitBound, OneMoreWait DEF CallIsBounded
  <2>5. MaxWait' = MaxWait
    BY DEF MaxWait
  <2>6. QED
    BY <2>1, <2>2, <2>3, <2>4, <2>5 DEF CallIsBounded
<1>7. ReplyInHand'
  BY DEF ReplyInHand, Break, Posted, sending, totals, leaks
<1>8. QED
  BY <1>1, <1>2, <1>3, <1>4, <1>5, <1>6, <1>7

LEMMA ReplyInv ==
  ASSUME IInv, NEW c \in Costs, NEW t \in BOOLEAN, Reply(c, t)
  PROVE  IInv'
<1> USE ClientAssumption DEF IInv
<1>1. TypeOK'
  <2>1. promised' \in BOOLEAN /\ widened' \in BOOLEAN
    BY Zenon DEF TypeOK, Reply, Posted, sending, totals, leaks
  <2>2. QED
    BY <2>1, SMT DEF TypeOK, Phases, Answers, Reply, Posted, sending, totals, leaks
<1>2. RetriesAreAllowed'
  BY DEF RetriesAreAllowed, TypeOK, Reply, Posted, sending, totals, leaks
<1>3. GivesUpForAReason'
  BY DEF GivesUpForAReason, TypeOK, Reply, Posted, sending, totals, leaks
<1>4. SpendIsAccounted'
  BY DEF SpendIsAccounted, ReplyInHand, TypeOK, Reply, Posted, sending, totals, leaks
<1>5. PostsAreAttempts'
  BY DEF PostsAreAttempts, TypeOK, Reply, Posted, sending, totals, leaks
<1>6. CallIsBounded'
  <2>1. posts' = posts + 1 /\ posts \in Nat /\ slept \in Nat
    BY DEF TypeOK, Reply, Posted, sending, totals, leaks
  <2>2. posts' <= 2 * TransportAttempts
    BY <2>1 DEF PostsAreAttempts, TypeOK, Reply, Posted, sending, totals, leaks
  <2>3. slept' = slept
    BY DEF Reply, Posted, sending, totals, leaks
  <2>4. slept <= (posts + 1) * MaxWait
    BY <2>1, MaxWaitBound, OneMoreWait DEF CallIsBounded
  <2>5. MaxWait' = MaxWait
    BY DEF MaxWait
  <2>6. QED
    BY <2>1, <2>2, <2>3, <2>4, <2>5 DEF CallIsBounded
<1>7. ReplyInHand'
  BY DEF ReplyInHand, Reply, Posted, sending, totals, leaks
<1>8. QED
  BY <1>1, <1>2, <1>3, <1>4, <1>5, <1>6, <1>7

LEMMA WidenInv ==
  ASSUME IInv, Widen
  PROVE  IInv'
<1> USE ClientAssumption DEF IInv
<1>1. TypeOK'
  <2>1. promised' \in BOOLEAN /\ widened' \in BOOLEAN
    BY Zenon DEF TypeOK, Widen, sending, totals, leaks
  <2>2. QED
    BY <2>1, SMT DEF TypeOK, Phases, Answers, Widen, sending, totals, leaks
<1>2. RetriesAreAllowed'
  BY DEF RetriesAreAllowed, TypeOK, Widen, sending, totals, leaks
<1>3. GivesUpForAReason'
  BY DEF GivesUpForAReason, TypeOK, Widen, sending, totals, leaks
<1>4. SpendIsAccounted'
  BY DEF SpendIsAccounted, ReplyInHand, TypeOK, Widen, sending, totals, leaks
<1>5. PostsAreAttempts'
  BY DEF PostsAreAttempts, TypeOK, Widen, sending, totals, leaks
<1>6. CallIsBounded'
  BY DEF CallIsBounded, MaxWait, Widen, sending, totals, leaks
<1>7. ReplyInHand'
  BY DEF ReplyInHand, Widen, sending, totals, leaks
<1>8. QED
  BY <1>1, <1>2, <1>3, <1>4, <1>5, <1>6, <1>7

LEMMA AnswerInv ==
  ASSUME IInv, NEW w \in BOOLEAN, Answer(w)
  PROVE  IInv'
<1> USE ClientAssumption DEF IInv
<1>1. TypeOK'
  <2>1. promised' \in BOOLEAN /\ widened' \in BOOLEAN
    BY Zenon DEF TypeOK, Answer, sending, totals, leaks
  <2>2. QED
    BY <2>1, SMT DEF TypeOK, Phases, Answers, Answer, sending, totals, leaks
<1>2. RetriesAreAllowed'
  BY DEF RetriesAreAllowed, TypeOK, Answer, sending, totals, leaks
<1>3. GivesUpForAReason'
  BY DEF GivesUpForAReason, TypeOK, Answer, sending, totals, leaks
<1>4. SpendIsAccounted'
  BY DEF SpendIsAccounted, ReplyInHand, TypeOK, Answer, sending, totals, leaks
<1>5. PostsAreAttempts'
  BY DEF PostsAreAttempts, TypeOK, Answer, sending, totals, leaks
<1>6. CallIsBounded'
  BY DEF CallIsBounded, MaxWait, Answer, sending, totals, leaks
<1>7. ReplyInHand'
  BY DEF ReplyInHand, Answer, sending, totals, leaks
<1>8. QED
  BY <1>1, <1>2, <1>3, <1>4, <1>5, <1>6, <1>7

LEMMA FailInv ==
  ASSUME IInv, NEW w \in BOOLEAN, Fail(w)
  PROVE  IInv'
<1> USE ClientAssumption DEF IInv
<1>1. TypeOK'
  <2>1. promised' \in BOOLEAN /\ widened' \in BOOLEAN
    BY Zenon DEF TypeOK, Fail, sending, totals, leaks
  <2>2. QED
    BY <2>1, SMT DEF TypeOK, Phases, Answers, Fail, sending, totals, leaks
<1>2. RetriesAreAllowed'
  BY DEF RetriesAreAllowed, TypeOK, Fail, sending, totals, leaks
<1>3. GivesUpForAReason'
  BY DEF GivesUpForAReason, TypeOK, Fail, sending, totals, leaks
<1>4. SpendIsAccounted'
  BY DEF SpendIsAccounted, ReplyInHand, TypeOK, Fail, sending, totals, leaks
<1>5. PostsAreAttempts'
  BY DEF PostsAreAttempts, TypeOK, Fail, sending, totals, leaks
<1>6. CallIsBounded'
  BY DEF CallIsBounded, MaxWait, Fail, sending, totals, leaks
<1>7. ReplyInHand'
  BY DEF ReplyInHand, Fail, sending, totals, leaks
<1>8. QED
  BY <1>1, <1>2, <1>3, <1>4, <1>5, <1>6, <1>7

LEMMA StepInv == IInv /\ [Next]_vars => IInv'
<1> SUFFICES ASSUME IInv, [Next]_vars PROVE IInv'
  OBVIOUS
<1>0. CASE UNCHANGED vars
  BY <1>0 DEF IInv, TypeOK, RetriesAreAllowed, GivesUpForAReason, SpendIsAccounted,
              PostsAreAttempts, ReplyInHand, CallIsBounded, MaxWait, vars, sending, totals, leaks
<1>1. CASE Start
  BY <1>1, StartInv
<1>2. CASE Attempt
  BY <1>2, LostInv, TransientInv, HonouredInv, FatalInv, BreakInv, ReplyInv
     DEF Attempt
<1>3. CASE Widen
  BY <1>3, WidenInv
<1>4. CASE \E w \in BOOLEAN : Answer(w) \/ Fail(w)
  BY <1>4, AnswerInv, FailInv
<1>5. QED
  BY <1>0, <1>1, <1>2, <1>3, <1>4 DEF Next, Step, Rest

LEMMA Safety == Spec => []IInv
  BY InitInv, StepInv, PTL DEF Spec

\* Every variable keeps its type, whatever the service answers.
THEOREM TypeCorrect == Spec => []TypeOK
<1>1. IInv => TypeOK
  BY DEF IInv
<1>2. QED
  BY <1>1, Safety, PTL

\* No request follows an answer a retry cannot change, and only lost requests and honoured
\* delays pass the HTTP budget.
THEOREM RetrySafety == Spec => []RetriesAreAllowed
<1>1. IInv => RetriesAreAllowed
  BY DEF IInv
<1>2. QED
  BY <1>1, Safety, PTL

\* An LLMError is the last resort, and was not announced as a retry.
THEOREM GiveUpSafety == Spec => []GivesUpForAReason
<1>1. IInv => GivesUpForAReason
  BY DEF IInv
<1>2. QED
  BY <1>1, Safety, PTL

\* The totals differ from the bill by the replies that were cut off, unread or untraced.
THEOREM SpendSafety == Spec => []SpendIsAccounted
<1>1. IInv => SpendIsAccounted
  BY DEF IInv
<1>2. QED
  BY <1>1, Safety, PTL

\* However the service answers, a call posts at most 2 * TRANSPORT_ATTEMPTS times and
\* sleeps at most the longest wait after each post.
THEOREM CallSafety == Spec => []CallIsBounded
<1>1. IInv => CallIsBounded
  BY DEF IInv
<1>2. QED
  BY <1>1, Safety, PTL

\* What a call has left, phase by phase.
LEMMA StepsLeftInPhase ==
  ASSUME TypeOK
  PROVE  /\ pc = "post" /\ widened => StepsLeft = TransportAttempts - attempt + 2
         /\ pc = "post" /\ ~widened => StepsLeft = 2 * TransportAttempts - attempt + 3
         /\ pc = "cut" => StepsLeft = TransportAttempts + 2
         /\ pc \in {"replied", "raised", "broken"} => StepsLeft = 1
         /\ pc \in {"idle", "halted"} => StepsLeft = 0
         /\ attempt \in 1..TransportAttempts
BY ClientAssumption DEF TypeOK, StepsLeft

\* Whatever answers a post, the call goes on with one attempt less, or ends.
LEMMA AttemptSpends ==
  ASSUME IInv, IInv', Attempt PROVE StepsLeft' < StepsLeft
<1> USE ClientAssumption
<1>1. TypeOK /\ TypeOK' /\ pc = "post" /\ widened' = widened
  BY DEF IInv, Attempt, Lost, Transient, Honoured, Fatal, Break, Reply, Posted
<1>2. \/ pc' = "post" /\ attempt' = attempt + 1
      \/ pc' \in {"raised", "replied", "broken"}
      \/ pc' = "cut" /\ ~widened
  BY DEF Attempt, Lost, Transient, Honoured, Fatal, Break, Reply, AfterError, Retry, GiveUp
<1>3. /\ pc' = "post" /\ widened => StepsLeft' = TransportAttempts - attempt' + 2
      /\ pc' = "post" /\ ~widened => StepsLeft' = 2 * TransportAttempts - attempt' + 3
      /\ pc' = "cut" => StepsLeft' = TransportAttempts + 2
      /\ pc' \in {"replied", "raised", "broken"} => StepsLeft' = 1
  BY <1>1 DEF TypeOK, StepsLeft
<1>4. /\ attempt \in 1..TransportAttempts
      /\ widened => StepsLeft = TransportAttempts - attempt + 2
      /\ ~widened => StepsLeft = 2 * TransportAttempts - attempt + 3
  BY <1>1, StepsLeftInPhase
<1>5. QED
  BY <1>2, <1>3, <1>4

\* A call takes at most 2 * TRANSPORT_ATTEMPTS + 2 steps, whatever the service answers
\* (_send and complete).
THEOREM CallBound == Spec => CallRunsOut
<1> USE ClientAssumption
<1>1. ASSUME IInv, IInv', Next, ~UNCHANGED vars
      PROVE  /\ pc # "idle" => StepsLeft' < StepsLeft
             /\ pc = "idle" /\ pc' # "idle" => StepsLeft' <= 2 * TransportAttempts + 2
  <2>0. TypeOK /\ TypeOK'
    BY <1>1 DEF IInv
  <2>1. CASE Start
    <3>1. pc = "idle" /\ pc' = "post" /\ attempt' = 1 /\ widened' = FALSE
      BY <2>1 DEF Start
    <3>2. StepsLeft' = 2 * TransportAttempts - attempt' + 3
      BY <3>1 DEF StepsLeft
    <3>3. QED
      BY <3>1, <3>2
  <2>2. CASE Attempt
    <3>1. pc = "post"
      BY <2>2 DEF Attempt, Lost, Transient, Honoured, Fatal, Break, Reply, Posted
    <3>2. QED
      BY <1>1, <2>2, <3>1, AttemptSpends
  <2>3. CASE Widen
    <3>1. pc = "cut" /\ pc' = "post" /\ attempt' = 1 /\ widened' = TRUE
      BY <2>3 DEF Widen
    <3>2. /\ StepsLeft = TransportAttempts + 2
          /\ StepsLeft' = TransportAttempts - attempt' + 2
      BY <2>0, <3>1, StepsLeftInPhase DEF StepsLeft
    <3>3. QED
      BY <3>1, <3>2
  <2>4. CASE \E written \in BOOLEAN : Answer(written) \/ Fail(written)
    <3>1. pc \in {"replied", "raised", "broken"} /\ pc' \in {"idle", "halted"}
      BY <2>4 DEF Answer, Fail
    <3>2. StepsLeft = 1 /\ StepsLeft' = 0
      BY <3>1 DEF StepsLeft
    <3>3. QED
      BY <3>1, <3>2
  <2>5. QED
    BY <1>1, <2>1, <2>2, <2>3, <2>4 DEF Next, Step, Rest
<1>2. IInv /\ IInv' /\ [Next]_vars =>
        [/\ pc # "idle" => StepsLeft' < StepsLeft
         /\ pc = "idle" /\ pc' # "idle" => StepsLeft' <= 2 * TransportAttempts + 2]_vars
  BY <1>1
<1>3. QED
  BY <1>2, Safety, PTL DEF Spec, CallRunsOut

LEMMA GateInit == Init => Gate!Init
  BY DEF Init, Gate!Init

LEMMA GateStep == IInv /\ [Next]_vars => [Gate!Next]_(Gate!callVars)
<1> SUFFICES ASSUME IInv, [Next]_vars PROVE [Gate!Next]_(Gate!callVars)
  OBVIOUS
<1> USE DEF Gate!callVars
<1>0. CASE UNCHANGED vars
  BY <1>0 DEF vars, totals
<1>1. CASE Start
  BY <1>1 DEF Start, totals, Gate!Next, Gate!Ask
<1>2. CASE Attempt
  BY <1>2 DEF Attempt, Lost, Transient, Honoured, Fatal, Break, Reply, Posted, AfterError,
         Retry,
              GiveUp, totals
<1>3. CASE Widen
  BY <1>3 DEF Widen, totals
<1>4. ASSUME NEW w \in BOOLEAN, Answer(w) PROVE [Gate!Next]_(Gate!callVars)
  <2>1. CASE w
    BY <1>4, <2>1 DEF Answer, IInv, TypeOK, Gate!Next, Gate!Return
  <2>2. CASE ~w
    BY <1>4, <2>2 DEF Answer, totals
  <2>3. QED
    BY <2>1, <2>2
<1>5. ASSUME NEW w \in BOOLEAN, Fail(w) PROVE [Gate!Next]_(Gate!callVars)
  BY <1>5 DEF Fail, totals, Gate!Next, Gate!Fail
<1>6. QED
  BY <1>0, <1>1, <1>2, <1>3, <1>4, <1>5 DEF Next, Step, Rest

\* The client, with its retries and second requests, implements ModelCall: a caller sees a
\* request answered, and counted once, or failed without a trace in the totals.
THEOREM CallRefinement == Spec => ImplementsModelCall
  BY GateInit, GateStep, Safety, PTL DEF Spec, ImplementsModelCall, Gate!Spec
=============================================================================

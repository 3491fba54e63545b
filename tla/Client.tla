-------------------------------- MODULE Client --------------------------------
(***************************************************************************)
(* The Gemini client (src/src/llm/client.py): one call at a time posts its *)
(* request until a reply arrives or an attempt budget is spent, requests a *)
(* reply that was cut off at the output ceiling once more with twice the   *)
(* room, and writes one trajectory turn.                                   *)
(*                                                                         *)
(* Simplifications.                                                        *)
(*  - A reply is its cost in tokens and whether it was cut off; prompt,    *)
(*    completion and reasoning tokens are one number.                      *)
(*  - The service is any server: it answers a post with any status, and    *)
(*    may produce a reply of which the client cannot read the body.        *)
(*  - A failing tracer (module Tracer) shows as a turn that cannot be      *)
(*    written, which ends the process.                                     *)
(*  - The texts of reflections are left out, except for "(retrying)".      *)
(*  - Nothing is said of time: the 180 seconds of _post bound each         *)
(*    operation on its socket, not the post, and a sleep is its length.    *)
(***************************************************************************)
EXTENDS Naturals

CONSTANTS
  MaxAttempts,        \* MAX_ATTEMPTS
  TransportAttempts,  \* TRANSPORT_ATTEMPTS
  Base,               \* BACKOFF_S
  MaxBackoff,         \* MAX_BACKOFF_S
  MaxHonoured,        \* MAX_HONOURED_RETRY_S
  Delays,             \* the retryDelay values a server sends
  Costs,              \* tokens a reply may cost
  MaxCalls            \* bound: calls of the run

ASSUME ClientAssumption ==
  /\ MaxAttempts \in Nat \ {0} /\ TransportAttempts \in Nat /\ MaxAttempts <= TransportAttempts
  /\ Base \in Nat /\ MaxBackoff \in Nat /\ MaxHonoured \in Nat
  /\ Delays \subseteq Nat /\ Costs \subseteq Nat
  /\ MaxCalls \in Nat

VARIABLES
  pc,         \* where the call is
  attempt,    \* the attempt of this _send, from 1
  widened,    \* the ceiling was doubled for this call
  answer,     \* how the last attempt of this _send was answered
  promised,   \* the last attempt's note says "(retrying)"
  reply,      \* tokens of the reply in hand
  calls,      \* self.calls
  total,      \* the two token totals
  started,    \* observability: calls begun
  posts,      \* observability: requests posted by this call
  slept,      \* observability: seconds this call has slept
  billed,     \* observability: tokens of every reply the service produced
  cutOff,     \* observability: tokens of the replies that were requested again
  unread,     \* observability: tokens of the replies that could not be read
  untraced    \* observability: tokens of the reply whose turn could not be written

sending == <<attempt, answer, promised>>
totals  == <<calls, total>>
leaks   == <<cutOff, unread, untraced>>
vars    == <<pc, sending, widened, reply, totals, started, posts, slept, billed, leaks>>

\* "broken": an exception other than LLMError is on its way; "halted": the process ended.
Phases == {"idle", "post", "cut", "replied", "raised", "broken", "halted"}

\* How a post is answered: a 200 whose body was read; nothing (status 0); a status in
\* RETRYABLE; a 429 with a delay that is waited out; a 429 of a daily quota; the rest; an HTTP error
\* whose body cannot be read or decoded; JSON of another shape than the API's.
Answers == {"none", "reply", "lost", "transient", "honoured", "daily", "refused",
            "unreadable", "odd"}

Init ==
  /\ pc = "idle"
  /\ attempt = 1 /\ answer = "none" /\ promised = FALSE
  /\ widened = FALSE /\ reply = 0
  /\ calls = 0 /\ total = 0
  /\ started = 0 /\ posts = 0 /\ slept = 0 /\ billed = 0
  /\ cutOff = 0 /\ unread = 0 /\ untraced = 0

\* complete() builds its payload and opens a turn.
Start ==
  /\ pc = "idle" /\ started < MaxCalls
  /\ pc' = "post"
  /\ attempt' = 1 /\ answer' = "none" /\ promised' = FALSE
  /\ widened' = FALSE /\ reply' = 0
  /\ posts' = 0 /\ slept' = 0
  /\ started' = started + 1
  /\ UNCHANGED <<totals, billed, leaks>>

-----------------------------------------------------------------------------
\* One attempt of _send.

\* min(BACKOFF_S * 2 ** (attempt - 1), MAX_BACKOFF_S)
Backoff ==
  LET doubled == Base * 2^(attempt - 1)
  IN  IF doubled \in 0..MaxBackoff THEN doubled ELSE MaxBackoff

Posted(how) ==
  /\ pc = "post"
  /\ posts' = posts + 1
  /\ answer' = how

Retry(wait) ==
  /\ pc' = "post" /\ attempt' = attempt + 1
  /\ slept' = slept + wait

GiveUp == pc' = "raised" /\ UNCHANGED <<attempt, slept>>

\* Mutant of AfterError: every retryable error gets the transport budget.
AfterErrorGenerous(budget) ==
  /\ promised' = (attempt < MaxAttempts)
  /\ IF attempt >= TransportAttempts THEN GiveUp ELSE Retry(Backoff)

\* Mutant of AfterError: one budget for HTTP errors and transport failures.
AfterErrorOneBudget(budget) ==
  /\ promised' = (attempt < MaxAttempts)
  /\ IF attempt >= MaxAttempts THEN GiveUp ELSE Retry(Backoff)

\* What follows a retryable error: the loop stops at the error's own budget.  The note
\* says "(retrying)" by the HTTP budget, whichever the error.
AfterError(budget) ==
  /\ promised' = (attempt < MaxAttempts)
  /\ IF attempt >= budget THEN GiveUp ELSE Retry(Backoff)

\* _post: no reply arrived, or none json.loads could read; `cost` is what it cost.
Lost(cost) ==
  /\ Posted("lost")
  /\ AfterError(TransportAttempts)
  /\ billed' = billed + cost /\ unread' = unread + cost
  /\ UNCHANGED <<widened, reply, totals, started, cutOff, untraced>>

\* A status in RETRYABLE, a 429 without a delay short enough among them.
Transient ==
  /\ Posted("transient")
  /\ AfterError(MaxAttempts)
  /\ UNCHANGED <<widened, reply, totals, started, billed, leaks>>

\* A 429 whose retryDelay is honoured: the sleep, then `continue`, on the last attempt too.
Honoured(delay) ==
  /\ Posted("honoured") /\ delay <= MaxHonoured
  /\ promised' = FALSE
  /\ slept' = slept + delay
  /\ IF attempt < TransportAttempts
     THEN pc' = "post" /\ attempt' = attempt + 1
     ELSE pc' = "raised" /\ attempt' = attempt
  /\ UNCHANGED <<widened, reply, totals, started, billed, leaks>>

\* A 429 of a daily quota, or a status that is not retryable.
Fatal(how) ==
  /\ Posted(how)
  /\ promised' = FALSE
  /\ GiveUp
  /\ UNCHANGED <<widened, reply, totals, started, billed, leaks>>

\* exc.read() of an HTTP error raises inside its handler, or a body is no object, or not of
\* the shape the code takes it apart by: what is raised is no LLMError.
Break(how, cost) ==
  /\ Posted(how)
  /\ how = "unreadable" => cost = 0
  /\ pc' = "broken"
  /\ billed' = billed + cost /\ unread' = unread + cost
  /\ UNCHANGED <<attempt, promised, widened, reply, totals, started, slept, cutOff,
                 untraced>>

\* A reply that was read; `truncated` if it stopped at the ceiling.  The second _send's
\* reply is taken as it is.
Reply(cost, truncated) ==
  /\ Posted("reply")
  /\ reply' = cost /\ billed' = billed + cost
  /\ pc' = IF truncated /\ ~widened THEN "cut" ELSE "replied"
  /\ UNCHANGED <<attempt, promised, widened, totals, started, slept, leaks>>

-----------------------------------------------------------------------------
\* The rest of complete().

\* Mutant of Widen: the retry does not remember that it is one.
WidenAgain ==
  /\ pc = "cut"
  /\ pc' = "post" /\ attempt' = 1 /\ answer' = "none" /\ promised' = FALSE
  /\ cutOff' = cutOff + reply /\ reply' = 0
  /\ UNCHANGED <<widened, totals, started, posts, slept, billed, unread, untraced>>

\* Once more with twice the room: a second _send, with attempts of its own.
Widen ==
  /\ pc = "cut"
  /\ widened' = TRUE
  /\ pc' = "post" /\ attempt' = 1 /\ answer' = "none" /\ promised' = FALSE
  /\ cutOff' = cutOff + reply /\ reply' = 0
  /\ UNCHANGED <<totals, started, posts, slept, billed, unread, untraced>>

\* Mutant of Answer: the totals are not updated for a widened reply.
AnswerUncounted(written) ==
  /\ pc = "replied"
  /\ IF written
     THEN /\ pc' = "idle"
          /\ calls' = calls + 1
          /\ total' = IF widened THEN total ELSE total + reply
          /\ untraced' = untraced
     ELSE pc' = "halted" /\ untraced' = untraced + reply /\ UNCHANGED totals
  /\ reply' = 0
  /\ UNCHANGED <<sending, widened, started, posts, slept, billed, cutOff, unread>>

\* Mutant of Answer: the totals are reset to this call's.
AnswerOverwriting(written) ==
  /\ pc = "replied"
  /\ pc' = "idle" /\ calls' = 1 /\ total' = reply /\ reply' = 0
  /\ UNCHANGED <<sending, widened, started, posts, slept, billed, leaks>>

\* The turn is closed with the reply's tokens and, when it could be written, the totals
\* are raised by the same.
Answer(written) ==
  /\ pc = "replied"
  /\ IF written
     THEN /\ pc' = "idle"
          /\ calls' = calls + 1 /\ total' = total + reply
          /\ untraced' = untraced
     ELSE pc' = "halted" /\ untraced' = untraced + reply /\ UNCHANGED totals
  /\ reply' = 0
  /\ UNCHANGED <<sending, widened, started, posts, slept, billed, cutOff, unread>>

\* An exception: the turn is closed with its note, and without tokens.  The callers catch
\* LLMError; any other ends the process.
Fail(written) ==
  /\ pc \in {"raised", "broken"}
  /\ pc' = IF pc = "raised" /\ written THEN "idle" ELSE "halted"
  /\ UNCHANGED <<sending, widened, reply, totals, started, posts, slept, billed, leaks>>

Attempt ==
  \/ \E cost \in Costs \cup {0} : Lost(cost)
  \/ Transient
  \/ \E delay \in Delays : Honoured(delay)
  \/ \E how \in {"daily", "refused"} : Fatal(how)
  \/ \E how \in {"unreadable", "odd"}, cost \in Costs \cup {0} : Break(how, cost)
  \/ \E cost \in Costs, truncated \in BOOLEAN : Reply(cost, truncated)

Step ==
  \/ Attempt
  \/ Widen
  \/ \E written \in BOOLEAN : Answer(written) \/ Fail(written)

\* The run has made its calls, or has been ended by an exception.
Rest == (pc = "halted" \/ (pc = "idle" /\ started = MaxCalls)) /\ UNCHANGED vars

Next == Start \/ Step \/ Rest

Spec == Init /\ [][Next]_vars

-----------------------------------------------------------------------------

TypeOK ==
  /\ pc \in Phases
  /\ attempt \in 1..TransportAttempts
  /\ answer \in Answers
  /\ promised \in BOOLEAN /\ widened \in BOOLEAN
  /\ reply \in Nat /\ calls \in Nat /\ total \in Nat
  /\ posts \in Nat /\ slept \in Nat
  /\ billed \in Nat /\ cutOff \in Nat /\ unread \in Nat /\ untraced \in Nat
  /\ started \in 0..MaxCalls

\* No request follows an answer that a retry cannot change, and past the HTTP budget
\* only a lost request and a delay the server asked for are followed by another: the
\* `continue` of an honoured delay is the one way around MAX_ATTEMPTS (268-310).
RetriesAreAllowed ==
  (pc = "post" /\ attempt > 1) =>
    /\ answer \in {"lost", "transient", "honoured"}
    /\ attempt > MaxAttempts => answer \in {"lost", "honoured"}

\* The converse: an LLMError is the last resort.  It is raised on an answer no retry can
\* change, on an HTTP error after MAX_ATTEMPTS requests, or after TRANSPORT_ATTEMPTS;
\* and the trajectory's last note never announces a retry that was not made.
GivesUpForAReason ==
  pc = "raised" =>
    /\ answer \in {"lost", "honoured"} => attempt = TransportAttempts
    /\ answer = "transient" => attempt >= MaxAttempts
    /\ ~promised

\* What a run is told it spent is what the service billed, but for replies that were cut
\* off and requested again, that could not be read, or whose turn halted the run: the
\* totals are raised once per answered call, by the last reply (211-254).
SpendIsAccounted == billed = total + reply + cutOff + unread + untraced

MaxWait == IF MaxBackoff > MaxHonoured THEN MaxBackoff ELSE MaxHonoured

\* A call posts at most twice the transport budget, and sleeps at most the longest wait
\* after each: how long a case can be held by a service that is failing.
CallIsBounded ==
  /\ posts <= 2 * TransportAttempts
  /\ slept <= posts * MaxWait

\* What a call can still do, in steps: the attempts of this request and, unless the ceiling
\* was doubled already, those of another.
StepsLeft ==
  LET widening == IF widened THEN 0 ELSE TransportAttempts + 1
  IN  CASE pc = "post" -> widening + (TransportAttempts - attempt) + 2
        [] pc = "cut"  -> TransportAttempts + 2
        [] pc \in {"replied", "raised", "broken"} -> 1
        [] pc \in {"idle", "halted"}    -> 0

\* Every step of a call spends some of what it has left, at its start 2 * TRANSPORT_ATTEMPTS
\* + 2 steps: no answer of the service, a delay it asks for or a reply it cuts off included,
\* gives a call more to do.  How long a post takes is another matter: a server that keeps
\* sending a little may keep it open.
CallRunsOut ==
  [][/\ pc # "idle" => StepsLeft' < StepsLeft
     /\ pc = "idle" /\ pc' # "idle" => StepsLeft' <= 2 * TransportAttempts + 2]_vars

Gate == INSTANCE ModelCall WITH busy <- pc # "idle"

\* The client is a ModelCall: its retries are invisible, and a request that fails, at
\* whatever attempt, leaves the totals alone.
ImplementsModelCall == Gate!Spec

=============================================================================

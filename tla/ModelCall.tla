------------------------------ MODULE ModelCall ------------------------------
(***************************************************************************)
(* What a caller of GeminiClient.complete may rely on                      *)
(* (src/src/llm/client.py).  A request is answered or fails, one at a      *)
(* time; only an answered request is counted, with the tokens of the reply *)
(* that was returned.  AgentLoop's requests, which get a reply, an         *)
(* LLMError or an exception that ends the process, are steps of it.        *)
(***************************************************************************)
EXTENDS Naturals

VARIABLES
  busy,    \* a request is under way
  calls,   \* requests answered
  total    \* tokens of the answers

callVars == <<busy, calls, total>>

Init == busy = FALSE /\ calls = 0 /\ total = 0

Ask == ~busy /\ busy' = TRUE /\ UNCHANGED <<calls, total>>

Return ==
  /\ busy /\ busy' = FALSE
  /\ calls' = calls + 1
  /\ total' \in Nat /\ total' >= total

Fail == busy /\ busy' = FALSE /\ UNCHANGED <<calls, total>>

Next == Ask \/ Return \/ Fail

Spec == Init /\ [][Next]_callVars
=============================================================================

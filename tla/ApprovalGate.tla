----------------------------- MODULE ApprovalGate -----------------------------
(***************************************************************************)
(* What the approval directory promises a reviewer, whatever the loop      *)
(* behind it does: a patch is offered only once it is proven, an earlier   *)
(* offer is withdrawn only to make way for a proven patch, and PENDING is  *)
(* announced only over a whole offer of that same patch.  (README, "Safety *)
(* properties"; write_approval_package and its caller are the code.)       *)
(***************************************************************************)

CONSTANTS Patches, None

VARIABLES
  proven,     \* the patch the running launch has proven, or None
  offered,    \* the patch in the approval directory, or None
  sealed,     \* the offer's evidence has been written
  announced   \* the launch's outcome, PENDING, has been returned

gate == <<proven, offered, sealed, announced>>

Init == proven = None /\ offered = None /\ ~sealed /\ ~announced

\* A launch starts: nothing is proven yet, and what was offered stays.
Begin == proven' = None /\ announced' = FALSE /\ UNCHANGED <<offered, sealed>>

Prove(p) == proven = None /\ proven' = p /\ UNCHANGED <<offered, sealed, announced>>

Withdraw ==
  /\ proven # None /\ ~announced
  /\ offered' = None /\ sealed' = FALSE
  /\ UNCHANGED <<proven, announced>>

Offer ==
  /\ proven # None /\ offered = None
  /\ offered' = proven
  /\ UNCHANGED <<proven, sealed, announced>>

Seal ==
  /\ offered # None /\ offered = proven
  /\ sealed' = TRUE
  /\ UNCHANGED <<proven, offered, announced>>

Announce ==
  /\ sealed /\ offered = proven
  /\ announced' = TRUE
  /\ UNCHANGED <<proven, offered, sealed>>

Next == Begin \/ (\E p \in Patches : Prove(p)) \/ Withdraw \/ Offer \/ Seal \/ Announce

Spec == Init /\ [][Next]_gate

=============================================================================

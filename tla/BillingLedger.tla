--------------------------- MODULE BillingLedger ---------------------------
(***************************************************************************)
(* What confirmations and payments promise together about one check-in,     *)
(* without weights, awaits, timeouts and messages: a confirmation within the *)
(* allowance is never charged, one above it completes the check-in only when *)
(* it has been charged, and no attempt is charged twice. Charges may come   *)
(* after the confirmation is over: nobody takes them back.                   *)
(***************************************************************************)
EXTENDS Naturals

CONSTANTS Confirmations, MaxRetries

VARIABLES
    status, \* of the check-in
    stage,  \* of each confirmation
    billed, \* the confirmations that have asked for a payment
    charges \* the attempts charged

billingVars == <<status, stage, billed, charges>>

BillingInit ==
    /\ status = "IN_PROGRESS"
    /\ stage = [c \in Confirmations |-> "idle"]
    /\ billed = {} /\ charges = {}

StageBecomes(c, s) == stage' = [stage EXCEPT ![c] = s]

Declare(c) ==
    /\ stage[c] = "idle"
    /\ status \in {"IN_PROGRESS", "AWAITING_PAYMENT"}
    /\ StageBecomes(c, "within") \/ StageBecomes(c, "excess")
    /\ UNCHANGED <<status, billed, charges>>

Bill(c) ==
    /\ stage[c] = "excess" /\ c \notin billed
    /\ StageBecomes(c, "billed")
    /\ status' = "AWAITING_PAYMENT"
    /\ billed' = billed \cup {c}
    /\ UNCHANGED charges

ChargeAttempt(c, i) ==
    /\ c \in billed
    /\ [call |-> c, attempt |-> i] \notin charges
    /\ charges' = charges \cup {[call |-> c, attempt |-> i]}
    /\ UNCHANGED <<status, stage, billed>>

Settle(c) ==
    /\ stage[c] = "billed"
    /\ \E n \in charges : n.call = c
    /\ StageBecomes(c, "paid")
    /\ UNCHANGED <<status, billed, charges>>

Complete(c) ==
    /\ stage[c] \in {"within", "paid"}
    /\ StageBecomes(c, "over")
    /\ status' = "COMPLETED"
    /\ UNCHANGED <<billed, charges>>

\* Turned away, not paid, or lost.
GiveUp(c) ==
    /\ stage[c] \notin {"idle", "over"}
    /\ StageBecomes(c, "over")
    /\ UNCHANGED <<status, billed, charges>>

Cancel ==
    /\ status' = "CANCELLED"
    /\ UNCHANGED <<stage, billed, charges>>

BillingNext ==
    \/ Cancel
    \/ \E c \in Confirmations :
        \/ Declare(c) \/ Bill(c) \/ Settle(c) \/ Complete(c) \/ GiveUp(c)
        \/ \E i \in 0..MaxRetries : ChargeAttempt(c, i)

BillingSpec == BillingInit /\ [][BillingNext]_billingVars
=============================================================================

---------------------------- MODULE Confirmation ----------------------------
(***************************************************************************)
(* The confirmations of one check-in, with what CheckInService leaves out:  *)
(* the declared weight, the fee, the columns of check_in they end up in,    *)
(* and the payment call message by message. Confirmations overlap, are      *)
(* repeated after a failed payment, and may be lost at any await. What      *)
(* other requests do to the check-in is that it may be cancelled.           *)
(***************************************************************************)
EXTENDS PaymentService, BaggageService

CONSTANT Weights \* what clients declare; 0 if nothing

ASSUME WeightAssumption == Weights \subseteq Nat

VARIABLES
    confirmation, \* the state of each confirmation; its payment call has its name
    checkIn       \* the row of table check_in

confirmationVars == <<confirmation, checkIn>>
vars == <<confirmationVars, paymentVars>>

ConfirmationState ==
    [pc : {"idle", "checkHold", "weigh", "awaitPayment", "pay", "completeTx", "done"},
     weight : Nat, fee : Nat, paymentId : Calls \cup {None}]

\* baggageWeight and excessFee are None for NULL. The id of a payment stands
\* for the confirmation whose call has returned it.
CheckInColumns ==
    [status : {"IN_PROGRESS", "AWAITING_PAYMENT", "COMPLETED", "CANCELLED"},
     baggageWeight : Nat \cup {None}, excessFee : Nat \cup {None},
     paymentId : Calls \cup {None}]

TypeOK ==
    /\ PaymentTypeOK
    /\ confirmation \in [Calls -> ConfirmationState]
    /\ checkIn \in CheckInColumns

Init ==
    /\ PaymentInit
    /\ confirmation = [c \in Calls |->
            [pc |-> "idle", weight |-> 0, fee |-> 0, paymentId |-> None]]
    /\ checkIn = [status |-> "IN_PROGRESS", baggageWeight |-> None,
                  excessFee |-> None, paymentId |-> None]

At(c, pc) == confirmation[c].pc = pc
Goto(c, pc) == confirmation' = [confirmation EXCEPT ![c].pc = pc]

----------------------------------------------------------------------------
(* confirmCheckIn                                                           *)

\* The check-in is read; validateHoldNotExpired tests its status.
ConfirmCheckIn(c, weight) ==
    /\ At(c, "idle")
    /\ checkIn.status \in {"IN_PROGRESS", "AWAITING_PAYMENT"}
    /\ confirmation' = [confirmation EXCEPT ![c].pc = "checkHold", ![c].weight = weight]
    /\ UNCHANGED <<checkIn, paymentVars>>

\* EXISTS hold:{seatId}: the key may be there or not.
CheckHoldKey(c) ==
    /\ At(c, "checkHold")
    /\ Goto(c, "weigh") \/ Goto(c, "done")
    /\ UNCHANGED <<checkIn, paymentVars>>

\* The weight service answers, fails or times out, which changes nothing.
ValidateBaggage(c) ==
    /\ At(c, "weigh")
    /\ \E fee \in CalculateFee(confirmation[c].weight) :
        confirmation' = [confirmation EXCEPT
            ![c].pc = IF IsOverweight(confirmation[c].weight) THEN "awaitPayment" ELSE "completeTx",
            ![c].fee = fee]
    /\ UNCHANGED <<checkIn, paymentVars>>

\* Faulty variant: a second confirmation keeps the fee of the first.
AwaitPaymentKeepsFee(c) ==
    /\ At(c, "awaitPayment")
    /\ FitsColumn(confirmation[c].weight)
    /\ checkIn' = [checkIn EXCEPT
            !.status = "AWAITING_PAYMENT",
            !.baggageWeight = StoredWeight(confirmation[c].weight),
            !.excessFee = IF @ = None THEN confirmation[c].fee ELSE @]
    /\ Goto(c, "pay")
    /\ ProcessPayment(c)

AwaitPayment(c) ==
    /\ At(c, "awaitPayment")
    /\ FitsColumn(confirmation[c].weight)
    /\ checkIn' = [checkIn EXCEPT
            !.status = "AWAITING_PAYMENT",
            !.baggageWeight = StoredWeight(confirmation[c].weight),
            !.excessFee = confirmation[c].fee]
    /\ Goto(c, "pay")
    /\ ProcessPayment(c)

\* "numeric field overflow": the request fails with a 500.
WeightOverflows(c) ==
    /\ At(c, "awaitPayment") \/ At(c, "completeTx")
    /\ ~FitsColumn(confirmation[c].weight)
    /\ Goto(c, "done")
    /\ UNCHANGED <<checkIn, paymentVars>>

\* Faulty variant: only a call that failed is not taken for a payment.
PaymentReturnsUnlessFailed(c) ==
    /\ At(c, "pay")
    /\ CallAt(c, "done")
    /\ confirmation' = [confirmation EXCEPT ![c] =
            IF payment[c].result # "failed"
              THEN [@ EXCEPT !.pc = "completeTx", !.paymentId = c]
              ELSE [@ EXCEPT !.pc = "done"]]
    /\ UNCHANGED <<checkIn, paymentVars>>

PaymentReturns(c) ==
    /\ At(c, "pay")
    /\ CallAt(c, "done")
    /\ confirmation' = [confirmation EXCEPT ![c] =
            IF payment[c].result = "confirmed"
              THEN [@ EXCEPT !.pc = "completeTx", !.paymentId = c]
              ELSE [@ EXCEPT !.pc = "done"]]
    /\ UNCHANGED <<checkIn, paymentVars>>

\* Faulty variant: the weight stored when the payment began is kept.
CompleteCheckInKeepsWeight(c) ==
    /\ At(c, "completeTx")
    /\ FitsColumn(confirmation[c].weight)
    /\ checkIn' = [checkIn EXCEPT
            !.status = "COMPLETED",
            !.baggageWeight = IF @ = None THEN StoredWeight(confirmation[c].weight) ELSE @,
            !.paymentId = confirmation[c].paymentId]
    /\ Goto(c, "done")
    /\ UNCHANGED paymentVars

\* UPDATE check_in by id; excess_fee stays.
CompleteCheckIn(c) ==
    /\ At(c, "completeTx")
    /\ FitsColumn(confirmation[c].weight)
    /\ checkIn' = [checkIn EXCEPT
            !.status = "COMPLETED",
            !.baggageWeight = StoredWeight(confirmation[c].weight),
            !.paymentId = confirmation[c].paymentId]
    /\ Goto(c, "done")
    /\ UNCHANGED paymentVars

\* The instance crashes, or an await throws.
LoseConfirmation(c) ==
    /\ confirmation[c].pc \notin {"idle", "done"}
    /\ Goto(c, "done")
    /\ IF CallAt(c, "delay") \/ CallAt(c, "post") \/ CallAt(c, "await")
         THEN LoseCall(c) ELSE UNCHANGED paymentVars
    /\ UNCHANGED checkIn

\* The hold is released, or the passenger cancels.
CancelCheckIn ==
    /\ checkIn.status # "CANCELLED"
    /\ checkIn' = [checkIn EXCEPT !.status = "CANCELLED"]
    /\ UNCHANGED <<confirmation, paymentVars>>

----------------------------------------------------------------------------

ConfirmationProceeds(c) ==
    \/ CheckHoldKey(c)
    \/ ValidateBaggage(c)
    \/ AwaitPayment(c) \/ WeightOverflows(c)
    \/ PaymentReturns(c)
    \/ CompleteCheckIn(c)
    \/ CallProceeds(c) /\ UNCHANGED confirmationVars

Next ==
    \/ \E c \in Calls, weight \in Weights : ConfirmCheckIn(c, weight)
    \/ \E c \in Calls : ConfirmationProceeds(c) \/ LoseConfirmation(c)
    \/ CancelCheckIn
    \/ PaymentStep /\ UNCHANGED confirmationVars

Spec == Init /\ [][Next]_vars

\* Timers fire and the database answers; nothing is assumed of clients, of the
\* network or of the payment service.
FairSpec == Spec /\ \A c \in Calls : WF_vars(ConfirmationProceeds(c))

----------------------------------------------------------------------------
(* Properties                                                               *)

\* A completed check-in is one confirmation's: the weight stored is the one it
\* declared, and if that is overweight the payment stored is that of its own
\* call, charged for the fee of that weight, also if the fee rounds to 0 or
\* confirmations with other weights have overlapped.
CompletedIsPaid ==
    checkIn.status = "COMPLETED" =>
        \E c \in Calls :
            /\ checkIn.baggageWeight = StoredWeight(confirmation[c].weight)
            /\ checkIn.paymentId = confirmation[c].paymentId
            /\ IsOverweight(confirmation[c].weight) =>
                /\ checkIn.paymentId = c
                /\ CurrentAttempt(c) \in charged
                /\ confirmation[c].fee \in CalculateFee(confirmation[c].weight)

\* The fee asked for is within half a cent of the excess weight times the price.
FeeIsNearest ==
    \A c \in Calls : At(c, "pay") \/ At(c, "awaitPayment") =>
        /\ 2 * confirmation[c].fee * 1000 <= 2 * ExactFee(confirmation[c].weight) + 1000
        /\ 2 * ExactFee(confirmation[c].weight) <= 2 * confirmation[c].fee * 1000 + 1000

\* While a check-in awaits payment, the fee it shows is that of the weight it
\* shows, whichever of several confirmations wrote them.
AwaitedFeeIsForWeight ==
    checkIn.status = "AWAITING_PAYMENT" =>
        \E weight \in Weights :
            /\ IsOverweight(weight)
            /\ checkIn.baggageWeight = StoredWeight(weight)
            /\ checkIn.excessFee \in CalculateFee(weight)

Stage(c) ==
    CASE At(c, "idle") -> "idle"
      [] At(c, "done") -> "over"
      [] At(c, "pay")  -> "billed"
      [] OTHER -> IF ~IsOverweight(confirmation[c].weight) THEN "within"
                  ELSE IF At(c, "completeTx") THEN "paid" ELSE "excess"

\* confirmCheckIn and processPayment together keep to BillingLedger: each
\* completion is of a confirmation that owes nothing or that was charged for
\* itself first, a confirmation asks once, and no attempt is charged twice,
\* also when attempts are given up and answered late.
Billing == INSTANCE BillingLedger WITH
    Confirmations <- Calls, status <- checkIn.status, charges <- charged,
    stage <- [c \in Calls |-> Stage(c)],
    billed <- {c \in Calls : ~CallAt(c, "idle")}

BillingRefined == Billing!BillingSpec

\* No confirmation stays under way for good, although no request to the payment
\* service need ever be answered.
ConfirmationEnds == \A c \in Calls : []<>(At(c, "idle") \/ At(c, "done"))
=============================================================================

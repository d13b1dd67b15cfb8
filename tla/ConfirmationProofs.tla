------------------------- MODULE ConfirmationProofs -------------------------
(***************************************************************************)
(* Proofs about Confirmation and its payment calls, for any number of       *)
(* confirmations and retries, any weights, allowance and price.             *)
(***************************************************************************)
EXTENDS Confirmation, TLAPS

\* Every confirmation under way is of a charge, and a call has a result exactly
\* when it is done.
PaymentInv ==
    /\ PaymentTypeOK
    /\ \A a \in answers : a.status = "confirmed" =>
            [call |-> a.call, attempt |-> a.attempt] \in charged
    /\ \A c \in Calls : CallAt(c, "done") <=> payment[c].result # None
    /\ ConfirmedIsCharged
    /\ FailureIsExhausted

\* What a call may do to its own state: never back, one attempt at a time, and
\* a result only when it ends. Network state is that of the primed variables.
PaymentAdvances(c) ==
    /\ payment' \in [Calls -> Payment]
    /\ \A d \in Calls \ {c} : payment'[d] = payment[d]
    /\ payment[c].attempt <= payment'[c].attempt
    /\ ~CallAt(c, "done")
    /\ payment'[c].pc = "done" <=> payment'[c].result # None
    /\ payment'[c].result = "confirmed" =>
            [call |-> c, attempt |-> payment'[c].attempt] \in charged
    /\ "PAYMENT_CONFIRMED" \in payment'[c].audit <=> payment'[c].result = "confirmed"
    /\ payment'[c].result = "failed" => payment'[c].attempt = MaxRetries

\* A call that has a result is over.
ResultsStay ==
    \A c \in Calls : payment[c].result # None => payment'[c] = payment[c]

LEMMA AdvancesKeepInvariant ==
    ASSUME PaymentInv, NEW c \in Calls, PaymentAdvances(c),
           posts' \subseteq posts \cup {CurrentAttempt(c)},
           answers' \subseteq answers, charged' = charged
    PROVE  PaymentInv' /\ ResultsStay
<1> USE PaymentAssumption
<1>1. /\ payment \in [Calls -> Payment] /\ payment' \in [Calls -> Payment]
      /\ posts \subseteq Attempt /\ charged \subseteq Attempt /\ answers \subseteq Answer
  BY DEF PaymentInv, PaymentTypeOK, PaymentAdvances
<1>2. CurrentAttempt(c) \in Attempt
  BY <1>1 DEF CurrentAttempt, Attempt, Payment
<1>3. PaymentTypeOK'
  BY <1>1, <1>2 DEF PaymentTypeOK
<1>4. \A d \in Calls : CallAt(d, "done")' <=> payment'[d].result # None
  BY DEF PaymentInv, PaymentAdvances, CallAt
<1>5. ConfirmedIsCharged'
  <2> SUFFICES ASSUME NEW d \in Calls
               PROVE  /\ payment'[d].result = "confirmed" =>
                            [call |-> d, attempt |-> payment'[d].attempt] \in charged
                      /\ "PAYMENT_CONFIRMED" \in payment'[d].audit
                            <=> payment'[d].result = "confirmed"
    BY DEF ConfirmedIsCharged, CurrentAttempt
  <2>1. CASE d = c
    BY <2>1 DEF PaymentAdvances
  <2>2. CASE d # c
    BY <2>2 DEF PaymentAdvances, PaymentInv, ConfirmedIsCharged, CurrentAttempt
  <2> QED BY <2>1, <2>2
<1>6. FailureIsExhausted'
  <2>1. \A d \in Calls : payment'[d].result = "failed" => payment'[d].attempt = MaxRetries
    BY DEF PaymentAdvances, PaymentInv, FailureIsExhausted
  <2>2. \A d \in Calls : /\ payment[d].attempt <= payment'[d].attempt
                         /\ payment[d].attempt \in Nat /\ payment'[d].attempt \in Nat
    BY <1>1 DEF PaymentAdvances, Payment, Attempts
  <2>3. ASSUME NEW n \in charged' \cup posts'
        PROVE  n.attempt <= payment'[n.call].attempt
    <3>1. n \in Attempt /\ n.call \in Calls /\ n.attempt \in Nat
      BY <1>1, <1>2 DEF Attempt, Attempts
    <3>2. n.attempt <= payment[n.call].attempt
      <4>1. CASE n \in charged \cup posts
        BY <4>1 DEF PaymentInv, FailureIsExhausted
      <4>2. CASE n = CurrentAttempt(c)
        BY <4>2, <2>2 DEF CurrentAttempt
      <4> QED BY <4>1, <4>2
    <3> QED BY <3>1, <3>2, <2>2
  <2> QED BY <2>1, <2>3 DEF FailureIsExhausted
<1>7. ResultsStay
  BY DEF ResultsStay, PaymentAdvances, PaymentInv
<1> QED BY <1>3, <1>4, <1>5, <1>6, <1>7 DEF PaymentInv

\* A failed attempt leaves the call with another attempt or with a failure.
LEMMA FailedAttempts ==
    ASSUME PaymentInv, NEW c \in Calls, CallAt(c, "await"), AttemptFails(c)
    PROVE  PaymentAdvances(c)
<1> USE PaymentAssumption
<1>1. /\ payment \in [Calls -> Payment] /\ payment[c] \in Payment
      /\ payment[c].attempt \in 0..MaxRetries /\ payment[c].result = None
  BY DEF PaymentInv, PaymentTypeOK, Payment, Attempts, CallAt
<1>2. "PAYMENT_CONFIRMED" \notin payment[c].audit
  BY <1>1 DEF PaymentInv, ConfirmedIsCharged
<1>3. CASE payment[c].attempt < MaxRetries
  <2> DEFINE more == payment[c].attempt + 1
             next == [payment[c] EXCEPT !.pc = "delay", !.attempt = more]
  <2>1. payment' = [payment EXCEPT ![c] = next]
    BY <1>1, <1>3 DEF AttemptFails
  <2>2. more \in Attempts /\ payment[c].attempt <= more
    BY <1>1, <1>3 DEF Attempts
  <2> HIDE DEF more
  <2>3. /\ next \in Payment /\ next.attempt = more
        /\ next.pc = "delay" /\ next.result = None /\ next.audit = payment[c].audit
    BY <1>1, <2>2 DEF Payment
  <2> HIDE DEF next
  <2> QED BY <2>1, <2>2, <2>3, <1>1, <1>2 DEF PaymentAdvances, CallAt
<1>4. CASE ~(payment[c].attempt < MaxRetries)
  <2> DEFINE next == [payment[c] EXCEPT !.pc = "done", !.result = "failed"]
  <2>1. payment' = [payment EXCEPT ![c] = next]
    BY <1>1, <1>4 DEF AttemptFails
  <2>2. /\ next \in Payment /\ next.attempt = payment[c].attempt
        /\ next.pc = "done" /\ next.result = "failed" /\ next.audit = payment[c].audit
    BY <1>1 DEF Payment
  <2>3. payment[c].attempt = MaxRetries
    BY <1>1, <1>4
  <2> HIDE DEF next
  <2> QED BY <2>1, <2>2, <2>3, <1>1, <1>2 DEF PaymentAdvances, CallAt
<1> QED BY <1>3, <1>4

\* The steps of a call that change only its pc and its audit entries.
LEMMA PlainSteps ==
    ASSUME PaymentInv, NEW c \in Calls,
           ProcessPayment(c) \/ PostPayment(c) \/ DelayEnds(c) \/ LoseCall(c)
    PROVE  PaymentInv' /\ ResultsStay
<1> USE PaymentAssumption
<1>1. /\ payment \in [Calls -> Payment] /\ payment[c] \in Payment
      /\ payment[c].attempt \in Nat /\ payment[c].result = None
  BY DEF PaymentInv, PaymentTypeOK, Payment, Attempts, CallAt,
         ProcessPayment, PostPayment, DelayEnds, LoseCall
<1>2. "PAYMENT_CONFIRMED" \notin payment[c].audit
  BY <1>1 DEF PaymentInv, ConfirmedIsCharged
<1>3. PICK next \in Payment :
        /\ payment' = [payment EXCEPT ![c] = next]
        /\ next.pc \in {"post", "await", "lost"}
        /\ next.attempt = payment[c].attempt /\ next.result = None
        /\ "PAYMENT_CONFIRMED" \notin next.audit
  <2>1. CASE ProcessPayment(c)
    <3> DEFINE next == [payment[c] EXCEPT !.pc = "post",
                                          !.audit = @ \cup {"PAYMENT_REQUESTED"}]
    <3>1. payment' = [payment EXCEPT ![c] = next]
      BY <2>1, <1>1 DEF ProcessPayment
    <3>2. next \in Payment /\ next.pc = "post" /\ next.attempt = payment[c].attempt
          /\ next.result = None /\ "PAYMENT_CONFIRMED" \notin next.audit
      BY <1>1, <1>2 DEF Payment
    <3> QED BY <3>1, <3>2
  <2>2. CASE PostPayment(c)
    <3> DEFINE next == [payment[c] EXCEPT !.pc = "await"]
    <3>1. payment' = [payment EXCEPT ![c] = next]
      BY <2>2, <1>1 DEF PostPayment
    <3>2. next \in Payment /\ next.pc = "await" /\ next.attempt = payment[c].attempt
          /\ next.result = None /\ "PAYMENT_CONFIRMED" \notin next.audit
      BY <1>1, <1>2 DEF Payment
    <3> QED BY <3>1, <3>2
  <2>3. CASE DelayEnds(c)
    <3> DEFINE next == [payment[c] EXCEPT !.pc = "post"]
    <3>1. payment' = [payment EXCEPT ![c] = next]
      BY <2>3, <1>1 DEF DelayEnds
    <3>2. next \in Payment /\ next.pc = "post" /\ next.attempt = payment[c].attempt
          /\ next.result = None /\ "PAYMENT_CONFIRMED" \notin next.audit
      BY <1>1, <1>2 DEF Payment
    <3> QED BY <3>1, <3>2
  <2>4. CASE LoseCall(c)
    <3> DEFINE next == [payment[c] EXCEPT !.pc = "lost"]
    <3>1. payment' = [payment EXCEPT ![c] = next]
      BY <2>4, <1>1 DEF LoseCall
    <3>2. next \in Payment /\ next.pc = "lost" /\ next.attempt = payment[c].attempt
          /\ next.result = None /\ "PAYMENT_CONFIRMED" \notin next.audit
      BY <1>1, <1>2 DEF Payment
    <3> QED BY <3>1, <3>2
  <2> QED BY <2>1, <2>2, <2>3, <2>4
<1>4. PaymentAdvances(c)
  <2>1. ~CallAt(c, "done")
    BY <1>1 DEF PaymentInv
  <2> QED BY <1>1, <1>3, <2>1 DEF PaymentAdvances
<1>5. /\ posts' \subseteq posts \cup {CurrentAttempt(c)}
      /\ answers' \subseteq answers /\ charged' = charged
  BY DEF ProcessPayment, PostPayment, DelayEnds, LoseCall, networkVars
<1> QED BY <1>4, <1>5, AdvancesKeepInvariant

\* An answer the call waits for: the result is that of the current attempt.
LEMMA AnswerSteps ==
    ASSUME PaymentInv, NEW a \in answers, AnswerArrives(a)
    PROVE  PaymentInv' /\ ResultsStay
<1> USE PaymentAssumption
<1> DEFINE c == a.call
<1>1. /\ a \in Answer /\ c \in Calls /\ CallAt(c, "await")
      /\ a.attempt = payment[c].attempt
      /\ payment \in [Calls -> Payment] /\ payment[c] \in Payment
      /\ payment[c].attempt \in Nat /\ payment[c].result = None
  BY DEF AnswerArrives, IsAwaited, PaymentInv, PaymentTypeOK, Answer, Payment,
         Attempts, CallAt
<1>2. "PAYMENT_CONFIRMED" \notin payment[c].audit
  BY <1>1 DEF PaymentInv, ConfirmedIsCharged
<1>3. answers' \subseteq answers /\ posts' = posts /\ charged' = charged
  BY DEF AnswerArrives
<1>4. PaymentAdvances(c)
  <2>1. CASE a.status = "error"
    BY <2>1, <1>1, FailedAttempts DEF AnswerArrives
  <2>2. CASE a.status # "error"
    <3> DEFINE next == [payment[c] EXCEPT !.pc = "done", !.result = a.status,
                !.audit = IF a.status = "confirmed"
                            THEN @ \cup {"PAYMENT_CONFIRMED"} ELSE @]
    <3>1. payment' = [payment EXCEPT ![c] = next]
      BY <2>2, <1>1 DEF AnswerArrives, PaymentAnswered
    <3>2. a.status \in {"confirmed", "declined"}
      BY <2>2, <1>1 DEF Answer
    <3>3. /\ next \in Payment /\ next.pc = "done" /\ next.result = a.status
          /\ next.attempt = payment[c].attempt
          /\ "PAYMENT_CONFIRMED" \in next.audit <=> a.status = "confirmed"
      BY <3>2, <1>1, <1>2 DEF Payment
    <3>4. a.status = "confirmed" => [call |-> c, attempt |-> payment[c].attempt] \in charged
      BY <1>1 DEF PaymentInv
    <3> HIDE DEF next, c
    <3> QED BY <3>1, <3>2, <3>3, <3>4, <1>1 DEF PaymentAdvances, CallAt
  <2> QED BY <2>1, <2>2
<1> HIDE DEF c
<1> QED BY <1>1, <1>3, <1>4, AdvancesKeepInvariant

\* A step of the network: new answers of the kinds the invariant allows.
LEMMA NetworkSteps ==
    ASSUME PaymentInv,
           (\E n \in posts : Charge(n) \/ Refuse(n)) \/ LoseMessage
    PROVE  PaymentInv' /\ payment' = payment
<1> USE PaymentAssumption DEF PaymentInv, PaymentTypeOK, ConfirmedIsCharged,
        FailureIsExhausted, CallAt, CurrentAttempt
<1>1. ASSUME NEW n \in posts, Charge(n) PROVE PaymentInv' /\ payment' = payment
  <2>1. /\ n \in Attempt /\ n = [call |-> n.call, attempt |-> n.attempt]
        /\ n.call \in Calls /\ n.attempt \in Attempts
    BY DEF Attempt
  <2>2. [call |-> n.call, attempt |-> n.attempt, status |-> "confirmed"] \in Answer
    BY <2>1 DEF Answer
  <2> QED BY <1>1, <2>1, <2>2 DEF Charge, AnswerWith
<1>2. ASSUME NEW n \in posts, Refuse(n) PROVE PaymentInv' /\ payment' = payment
  <2>1. n.call \in Calls /\ n.attempt \in Attempts
    BY DEF Attempt
  <2>2. PICK status \in {"declined", "error"} : AnswerWith(n, status)
    BY <1>2 DEF Refuse
  <2>3. [call |-> n.call, attempt |-> n.attempt, status |-> status] \in Answer
    BY <2>1 DEF Answer
  <2> QED BY <1>2, <2>2, <2>3 DEF Refuse, AnswerWith
<1>3. CASE LoseMessage
  BY <1>3 DEF LoseMessage
<1> QED BY <1>1, <1>2, <1>3

\* Any step of the calls, the payment service and the network.
LEMMA PaymentSteps ==
    ASSUME PaymentInv, (\E c \in Calls : CallProceeds(c)) \/ PaymentStep
    PROVE  PaymentInv' /\ ResultsStay
<1>1. ASSUME NEW c \in Calls, CallProceeds(c) PROVE PaymentInv' /\ ResultsStay
  <2>1. CASE AttemptTimesOut(c)
    BY <2>1, FailedAttempts, AdvancesKeepInvariant DEF AttemptTimesOut, networkVars
  <2> QED BY <1>1, <2>1, PlainSteps DEF CallProceeds
<1>2. CASE \E a \in answers : AnswerArrives(a)
  BY <1>2, AnswerSteps
<1>3. CASE (\E n \in posts : Charge(n) \/ Refuse(n)) \/ LoseMessage
  BY <1>3, NetworkSteps DEF ResultsStay
<1> QED BY <1>1, <1>2, <1>3 DEF PaymentStep

----------------------------------------------------------------------------
(* Fees                                                                     *)

\* The fee of an overweight piece is an amount of cents within half a cent of
\* the exact one.
LEMMA Fees ==
    ASSUME NEW weight \in Nat, NEW fee \in CalculateFee(weight)
    PROVE  /\ fee \in Nat
           /\ IsOverweight(weight) =>
                /\ 2 * fee * 1000 <= 2 * ExactFee(weight) + 1000
                /\ 2 * ExactFee(weight) <= 2 * fee * 1000 + 1000
<1>1. CASE ~IsOverweight(weight)
  BY <1>1 DEF CalculateFee
<1>2. CASE IsOverweight(weight)
  <2>1. weight - MaxBaggage \in Nat /\ FeePerKg \in Nat
    BY <1>2, BaggageAssumption DEF IsOverweight
  <2>2. ExactFee(weight) \in Nat
    BY <2>1 DEF ExactFee
  <2> DEFINE exact == ExactFee(weight)
  <2>3. fee = (exact + 500) \div 1000 \/ fee = (exact + 499) \div 1000
    BY <1>2 DEF CalculateFee, RoundedFees
  <2>4. exact \in Nat
    BY <2>2
  <2> HIDE DEF exact
  <2>5. /\ fee \in Nat
        /\ 2 * fee * 1000 <= 2 * exact + 1000
        /\ 2 * exact <= 2 * fee * 1000 + 1000
    BY <2>3, <2>4
  <2> QED BY <2>5 DEF exact
<1> QED BY <1>1, <1>2

----------------------------------------------------------------------------
(* Confirmations                                                            *)

\* What completes a check-in: a weight within the allowance, or a fee for it
\* that the confirmation's own call has paid.
Paid(c) ==
    IsOverweight(confirmation[c].weight) =>
        /\ confirmation[c].paymentId = c
        /\ payment[c].result = "confirmed"
        /\ confirmation[c].fee \in CalculateFee(confirmation[c].weight)

\* What a confirmation knows at each await.
ConfirmationMatches(c) ==
    /\ ~At(c, "idle") => confirmation[c].weight \in Weights
    /\ At(c, "awaitPayment") \/ At(c, "pay") =>
        /\ IsOverweight(confirmation[c].weight)
        /\ confirmation[c].fee \in CalculateFee(confirmation[c].weight)
    /\ At(c, "completeTx") => Paid(c)

\* A completed check-in names a confirmation that is over.
CompletedByOne ==
    checkIn.status = "COMPLETED" =>
        \E c \in Calls :
            /\ At(c, "done") /\ Paid(c)
            /\ checkIn.baggageWeight = StoredWeight(confirmation[c].weight)
            /\ checkIn.paymentId = confirmation[c].paymentId

ConfirmationInv ==
    /\ TypeOK
    /\ PaymentInv
    /\ \A c \in Calls : ConfirmationMatches(c)
    /\ CompletedByOne
    /\ AwaitedFeeIsForWeight

\* Steps that leave the row and the confirmations alone.
LEMMA PaymentKeepsConfirmations ==
    ASSUME ConfirmationInv, PaymentInv', ResultsStay, UNCHANGED confirmationVars
    PROVE  ConfirmationInv'
<1>1. /\ confirmation' = confirmation /\ checkIn' = checkIn
  BY DEF confirmationVars
<1>2. \A c \in Calls : Paid(c) => Paid(c)'
  BY <1>1, PaymentAssumption DEF Paid, ResultsStay
<1>3. \A c \in Calls : ConfirmationMatches(c)'
  BY <1>1, <1>2 DEF ConfirmationInv, ConfirmationMatches, At
<1>4. CompletedByOne'
  BY <1>1, <1>2 DEF ConfirmationInv, CompletedByOne, At
<1> QED BY <1>1, <1>3, <1>4
      DEF ConfirmationInv, TypeOK, PaymentInv, AwaitedFeeIsForWeight

\* Steps of one confirmation that is not over yet, and that leave the row, or
\* complete the check-in with that confirmation, or have it await payment.
LEMMA ConfirmationMoves ==
    ASSUME ConfirmationInv, NEW c \in Calls, ~At(c, "done"),
           NEW next \in ConfirmationState,
           confirmation' = [confirmation EXCEPT ![c] = next],
           PaymentInv', ResultsStay,
           ConfirmationMatches(c)', checkIn' \in CheckInColumns,
           \/ checkIn' = checkIn
           \/ checkIn'.status \notin {"AWAITING_PAYMENT", "COMPLETED"}
           \/ /\ checkIn'.status = "COMPLETED" /\ At(c, "done")' /\ Paid(c)'
              /\ checkIn'.baggageWeight = StoredWeight(next.weight)
              /\ checkIn'.paymentId = next.paymentId
           \/ /\ checkIn'.status = "AWAITING_PAYMENT"
              /\ AwaitedFeeIsForWeight'
    PROVE  ConfirmationInv'
<1>1. confirmation \in [Calls -> ConfirmationState]
  BY DEF ConfirmationInv, TypeOK
<1>2. TypeOK'
  BY <1>1 DEF TypeOK, PaymentInv
<1>3. \A d \in Calls \ {c} : confirmation'[d] = confirmation[d]
  BY <1>1
<1>4. \A d \in Calls \ {c} : Paid(d) => Paid(d)'
  BY <1>3, PaymentAssumption DEF Paid, ResultsStay
<1>5. \A d \in Calls : ConfirmationMatches(d)'
  BY <1>3, <1>4 DEF ConfirmationInv, ConfirmationMatches, At
<1>6. CompletedByOne'
  <2>1. CASE checkIn' = checkIn /\ checkIn.status = "COMPLETED"
    <3>1. PICK d \in Calls : /\ At(d, "done") /\ Paid(d)
                             /\ checkIn.baggageWeight = StoredWeight(confirmation[d].weight)
                             /\ checkIn.paymentId = confirmation[d].paymentId
      BY <2>1 DEF ConfirmationInv, CompletedByOne
    <3>2. d # c
      BY <3>1
    <3> QED BY <2>1, <3>1, <3>2, <1>3, <1>4 DEF CompletedByOne, At
  <2>2. CASE checkIn'.status = "COMPLETED" /\ checkIn' # checkIn
    BY <2>2, <1>1 DEF CompletedByOne
  <2>3. CASE checkIn'.status # "COMPLETED"
    BY <2>3 DEF CompletedByOne
  <2> QED BY <2>1, <2>2, <2>3
<1>7. AwaitedFeeIsForWeight'
  <2>1. CASE checkIn' = checkIn
    BY <2>1 DEF ConfirmationInv, AwaitedFeeIsForWeight
  <2>2. CASE checkIn'.status # "AWAITING_PAYMENT"
    BY <2>2 DEF AwaitedFeeIsForWeight
  <2> QED BY <2>1, <2>2
<1> QED BY <1>2, <1>5, <1>6, <1>7 DEF ConfirmationInv

\* What ConfirmationMoves needs of a step that changes neither the row nor the
\* payment calls.
LEMMA ConfirmationOnly ==
    ASSUME ConfirmationInv, NEW c \in Calls, ~At(c, "done"),
           NEW next \in ConfirmationState,
           confirmation' = [confirmation EXCEPT ![c] = next],
           ConfirmationMatches(c)', UNCHANGED <<checkIn, paymentVars>>
    PROVE  ConfirmationInv'
<1>1. PaymentInv'
  BY DEF ConfirmationInv, PaymentInv, PaymentTypeOK, ConfirmedIsCharged,
         FailureIsExhausted, CallAt, CurrentAttempt, paymentVars, networkVars
<1>2. ResultsStay
  BY DEF ResultsStay, paymentVars
<1>3. checkIn' = checkIn /\ checkIn \in CheckInColumns
  BY DEF ConfirmationInv, TypeOK
<1> QED BY <1>1, <1>2, <1>3, ConfirmationMoves

LEMMA Confirms ==
    ASSUME ConfirmationInv, NEW c \in Calls, NEW weight \in Weights,
           ConfirmCheckIn(c, weight)
    PROVE  ConfirmationInv'
<1>1. confirmation \in [Calls -> ConfirmationState] /\ weight \in Nat
  BY WeightAssumption DEF ConfirmationInv, TypeOK
<1> DEFINE next == [confirmation[c] EXCEPT !.pc = "checkHold", !.weight = weight]
<1>2. next \in ConfirmationState
  BY <1>1 DEF ConfirmationState
<1>3. confirmation' = [confirmation EXCEPT ![c] = next]
  BY <1>1 DEF ConfirmCheckIn
<1>4. confirmation'[c] = next
  BY <1>1, <1>3
<1>5. ConfirmationMatches(c)'
  BY <1>1, <1>4 DEF ConfirmationMatches, At, ConfirmationState
<1>6. ~At(c, "done") /\ UNCHANGED <<checkIn, paymentVars>>
  BY DEF ConfirmCheckIn, At
<1> HIDE DEF next
<1> QED BY <1>2, <1>3, <1>5, <1>6, ConfirmationOnly

\* A confirmation that goes to an await which needs nothing.
LEMMA Goes ==
    ASSUME ConfirmationInv, NEW c \in Calls, ~At(c, "done"), ~At(c, "idle"),
           NEW pc \in {"weigh", "done"}, Goto(c, pc), UNCHANGED <<checkIn, paymentVars>>
    PROVE  ConfirmationInv'
<1>1. confirmation \in [Calls -> ConfirmationState]
  BY DEF ConfirmationInv, TypeOK
<1> DEFINE next == [confirmation[c] EXCEPT !.pc = pc]
<1>2. next \in ConfirmationState
  BY <1>1 DEF ConfirmationState
<1>3. confirmation' = [confirmation EXCEPT ![c] = next]
  BY <1>1 DEF Goto
<1>4. /\ confirmation'[c].pc = pc /\ confirmation'[c].weight = confirmation[c].weight
  BY <1>1, <1>3 DEF ConfirmationState
<1>5. confirmation[c].weight \in Weights
  BY DEF ConfirmationInv, ConfirmationMatches
<1>6. ConfirmationMatches(c)'
  BY <1>4, <1>5 DEF ConfirmationMatches, At
<1> HIDE DEF next
<1> QED BY <1>2, <1>3, <1>6, ConfirmationOnly

LEMMA Weighs ==
    ASSUME ConfirmationInv, NEW c \in Calls, ValidateBaggage(c)
    PROVE  ConfirmationInv'
<1>1. /\ confirmation \in [Calls -> ConfirmationState]
      /\ confirmation[c].weight \in Weights /\ confirmation[c].weight \in Nat
  BY WeightAssumption DEF ConfirmationInv, TypeOK, ConfirmationMatches, ValidateBaggage, At
<1> DEFINE weight == confirmation[c].weight
           pc == IF IsOverweight(weight) THEN "awaitPayment" ELSE "completeTx"
<1>2. PICK fee \in CalculateFee(weight) :
        confirmation' = [confirmation EXCEPT ![c].pc = pc, ![c].fee = fee]
  BY DEF ValidateBaggage
<1>3. fee \in Nat
  BY <1>1, Fees
<1> DEFINE next == [confirmation[c] EXCEPT !.pc = pc, !.fee = fee]
<1>4. next \in ConfirmationState
  BY <1>1, <1>3 DEF ConfirmationState
<1>5. confirmation' = [confirmation EXCEPT ![c] = next]
  BY <1>1, <1>2
<1>6. /\ confirmation'[c].pc = pc /\ confirmation'[c].weight = weight
      /\ confirmation'[c].fee = fee
  BY <1>1, <1>5 DEF ConfirmationState
<1>7. ConfirmationMatches(c)'
  BY <1>1, <1>2, <1>6 DEF ConfirmationMatches, At, Paid
<1>8. ~At(c, "done") /\ UNCHANGED <<checkIn, paymentVars>>
  BY DEF ValidateBaggage, At
<1> HIDE DEF next
<1> QED BY <1>4, <1>5, <1>7, <1>8, ConfirmationOnly

LEMMA Awaits ==
    ASSUME ConfirmationInv, NEW c \in Calls, AwaitPayment(c)
    PROVE  ConfirmationInv'
<1>1. /\ confirmation \in [Calls -> ConfirmationState] /\ checkIn \in CheckInColumns
      /\ confirmation[c].weight \in Weights /\ confirmation[c].weight \in Nat
      /\ confirmation[c].fee \in Nat
      /\ IsOverweight(confirmation[c].weight)
      /\ confirmation[c].fee \in CalculateFee(confirmation[c].weight)
  BY WeightAssumption DEF ConfirmationInv, TypeOK, ConfirmationMatches, AwaitPayment, At,
     ConfirmationState
<1> DEFINE next == [confirmation[c] EXCEPT !.pc = "pay"]
<1>2. next \in ConfirmationState
  BY <1>1 DEF ConfirmationState
<1>3. confirmation' = [confirmation EXCEPT ![c] = next]
  BY <1>1 DEF AwaitPayment, Goto
<1>4. /\ confirmation'[c].pc = "pay"
      /\ confirmation'[c].weight = confirmation[c].weight
      /\ confirmation'[c].fee = confirmation[c].fee
  BY <1>1, <1>3 DEF ConfirmationState
<1>5. ConfirmationMatches(c)'
  BY <1>1, <1>4 DEF ConfirmationMatches, At
<1>6. StoredWeight(confirmation[c].weight) \in Nat
  BY <1>1 DEF StoredWeight
<1>7. /\ checkIn' = [checkIn EXCEPT !.status = "AWAITING_PAYMENT",
                !.baggageWeight = StoredWeight(confirmation[c].weight),
                !.excessFee = confirmation[c].fee]
      /\ checkIn' \in CheckInColumns
  BY <1>1, <1>6 DEF AwaitPayment, CheckInColumns
<1>8. checkIn'.status = "AWAITING_PAYMENT" /\ AwaitedFeeIsForWeight'
  <2>1. /\ checkIn'.status = "AWAITING_PAYMENT"
        /\ checkIn'.baggageWeight = StoredWeight(confirmation[c].weight)
        /\ checkIn'.excessFee = confirmation[c].fee
    BY <1>1, <1>7 DEF CheckInColumns
  <2> QED BY <1>1, <2>1 DEF AwaitedFeeIsForWeight
<1>9. PaymentInv' /\ ResultsStay
  BY PlainSteps DEF AwaitPayment, ConfirmationInv
<1>10. ~At(c, "done")
  BY DEF AwaitPayment, At
<1> HIDE DEF next
<1> QED BY <1>2, <1>3, <1>5, <1>7, <1>8, <1>9, <1>10, ConfirmationMoves

LEMMA Returns ==
    ASSUME ConfirmationInv, NEW c \in Calls, PaymentReturns(c)
    PROVE  ConfirmationInv'
<1>1. /\ confirmation \in [Calls -> ConfirmationState]
      /\ confirmation[c].weight \in Weights
      /\ confirmation[c].fee \in CalculateFee(confirmation[c].weight)
  BY DEF ConfirmationInv, TypeOK, ConfirmationMatches, PaymentReturns, At
<1> DEFINE next == IF payment[c].result = "confirmed"
                     THEN [confirmation[c] EXCEPT !.pc = "completeTx", !.paymentId = c]
                     ELSE [confirmation[c] EXCEPT !.pc = "done"]
<1>2. next \in ConfirmationState
  BY <1>1 DEF ConfirmationState
<1>3. confirmation' = [confirmation EXCEPT ![c] = next]
  BY <1>1 DEF PaymentReturns
<1>4. /\ confirmation'[c].weight = confirmation[c].weight
      /\ confirmation'[c].fee = confirmation[c].fee
      /\ confirmation'[c].pc \in {"completeTx", "done"}
      /\ confirmation'[c].pc = "completeTx" =>
            payment[c].result = "confirmed" /\ confirmation'[c].paymentId = c
  BY <1>1, <1>3 DEF ConfirmationState
<1>5. payment' = payment
  BY DEF PaymentReturns, paymentVars
<1>6. ConfirmationMatches(c)'
  BY <1>1, <1>4, <1>5 DEF ConfirmationMatches, At, Paid
<1>7. ~At(c, "done") /\ UNCHANGED <<checkIn, paymentVars>>
  BY DEF PaymentReturns, At
<1> HIDE DEF next
<1> QED BY <1>2, <1>3, <1>6, <1>7, ConfirmationOnly

LEMMA Completes ==
    ASSUME ConfirmationInv, NEW c \in Calls, CompleteCheckIn(c)
    PROVE  ConfirmationInv'
<1>1. /\ confirmation \in [Calls -> ConfirmationState] /\ checkIn \in CheckInColumns
      /\ confirmation[c].weight \in Weights /\ confirmation[c].weight \in Nat
      /\ Paid(c)
  BY WeightAssumption DEF ConfirmationInv, TypeOK, ConfirmationMatches, CompleteCheckIn, At
<1> DEFINE next == [confirmation[c] EXCEPT !.pc = "done"]
<1>2. next \in ConfirmationState
  BY <1>1 DEF ConfirmationState
<1>3. confirmation' = [confirmation EXCEPT ![c] = next]
  BY <1>1 DEF CompleteCheckIn, Goto
<1>4. /\ confirmation'[c].pc = "done"
      /\ confirmation'[c].weight = confirmation[c].weight
      /\ confirmation'[c].fee = confirmation[c].fee
      /\ confirmation'[c].paymentId = confirmation[c].paymentId
      /\ next.weight = confirmation[c].weight
      /\ next.paymentId = confirmation[c].paymentId
  BY <1>1, <1>3 DEF ConfirmationState
<1>5. UNCHANGED paymentVars /\ payment' = payment
  BY DEF CompleteCheckIn, paymentVars
<1>6. Paid(c)' /\ At(c, "done")'
  BY <1>1, <1>4, <1>5 DEF Paid, At
<1>7. ConfirmationMatches(c)'
  BY <1>1, <1>4, <1>6 DEF ConfirmationMatches, At
<1>8. StoredWeight(confirmation[c].weight) \in Nat
      /\ confirmation[c].paymentId \in Calls \cup {None}
  BY <1>1 DEF StoredWeight, ConfirmationState
<1>9. /\ checkIn' \in CheckInColumns
      /\ checkIn'.status = "COMPLETED"
      /\ checkIn'.baggageWeight = StoredWeight(next.weight)
      /\ checkIn'.paymentId = next.paymentId
  BY <1>1, <1>4, <1>8 DEF CompleteCheckIn, CheckInColumns
<1>10. PaymentInv' /\ ResultsStay
  BY <1>5 DEF ConfirmationInv, PaymentInv, PaymentTypeOK, ConfirmedIsCharged, ResultsStay,
         FailureIsExhausted, CallAt, CurrentAttempt, paymentVars, networkVars
<1>11. ~At(c, "done")
  BY DEF CompleteCheckIn, At
<1> HIDE DEF next
<1> QED BY <1>2, <1>3, <1>6, <1>7, <1>9, <1>10, <1>11, ConfirmationMoves

LEMMA Loses ==
    ASSUME ConfirmationInv, NEW c \in Calls, LoseConfirmation(c)
    PROVE  ConfirmationInv'
<1>1. /\ confirmation \in [Calls -> ConfirmationState]
      /\ confirmation[c].weight \in Weights
      /\ checkIn' = checkIn /\ checkIn \in CheckInColumns
  BY DEF ConfirmationInv, TypeOK, ConfirmationMatches, LoseConfirmation, At
<1> DEFINE next == [confirmation[c] EXCEPT !.pc = "done"]
<1>2. next \in ConfirmationState
  BY <1>1 DEF ConfirmationState
<1>3. confirmation' = [confirmation EXCEPT ![c] = next]
  BY <1>1 DEF LoseConfirmation, Goto
<1>4. confirmation'[c].pc = "done" /\ confirmation'[c].weight = confirmation[c].weight
  BY <1>1, <1>3 DEF ConfirmationState
<1>5. ConfirmationMatches(c)'
  BY <1>1, <1>4 DEF ConfirmationMatches, At
<1>6. ~At(c, "done")
  BY DEF LoseConfirmation, At
<1>7. CASE LoseCall(c)
  <2>1. PaymentInv' /\ ResultsStay
    BY <1>7, PlainSteps DEF ConfirmationInv
  <2> HIDE DEF next
  <2> QED BY <2>1, <1>1, <1>2, <1>3, <1>5, <1>6, ConfirmationMoves
<1>8. CASE UNCHANGED paymentVars
  <2> HIDE DEF next
  <2> QED BY <1>8, <1>1, <1>2, <1>3, <1>5, <1>6, ConfirmationOnly
<1> QED BY <1>7, <1>8 DEF LoseConfirmation

LEMMA Cancels ==
    ASSUME ConfirmationInv, CancelCheckIn
    PROVE  ConfirmationInv'
<1>1. /\ confirmation' = confirmation /\ UNCHANGED paymentVars
      /\ checkIn \in CheckInColumns /\ checkIn' = [checkIn EXCEPT !.status = "CANCELLED"]
  BY DEF CancelCheckIn, ConfirmationInv, TypeOK
<1>2. checkIn' \in CheckInColumns /\ checkIn'.status = "CANCELLED"
  BY <1>1 DEF CheckInColumns
<1>3. PaymentInv'
  BY <1>1 DEF ConfirmationInv, PaymentInv, PaymentTypeOK, ConfirmedIsCharged,
         FailureIsExhausted, CallAt, CurrentAttempt, paymentVars, networkVars
<1>4. \A c \in Calls : ConfirmationMatches(c)'
  BY <1>1 DEF ConfirmationInv, ConfirmationMatches, At, Paid, paymentVars
<1> QED BY <1>1, <1>2, <1>3, <1>4
      DEF ConfirmationInv, TypeOK, PaymentInv, CompletedByOne, AwaitedFeeIsForWeight

----------------------------------------------------------------------------

\* Confirmations know at each await what completing or charging needs, whatever
\* other confirmations, cancellations and the network do.
THEOREM ConfirmationInvariant == Spec => []ConfirmationInv
<1>1. Init => ConfirmationInv
  <2> SUFFICES ASSUME Init PROVE ConfirmationInv
    OBVIOUS
  <2>1. PaymentInv
    BY PaymentAssumption
    DEF Init, PaymentInit, PaymentInv, PaymentTypeOK, Payment, Attempts, CallAt,
        ConfirmedIsCharged, FailureIsExhausted
  <2>2. TypeOK
    BY <2>1 DEF Init, TypeOK, PaymentInv, ConfirmationState, CheckInColumns
  <2> QED BY <2>1, <2>2 DEF Init, ConfirmationInv, ConfirmationMatches, At,
        CompletedByOne, AwaitedFeeIsForWeight
<1>2. ConfirmationInv /\ [Next]_vars => ConfirmationInv'
  <2> SUFFICES ASSUME ConfirmationInv, [Next]_vars PROVE ConfirmationInv'
    OBVIOUS
  <2>1. ASSUME NEW c \in Calls, NEW weight \in Weights, ConfirmCheckIn(c, weight)
        PROVE  ConfirmationInv'
    BY <2>1, Confirms
  <2>2. ASSUME NEW c \in Calls, ConfirmationProceeds(c) PROVE ConfirmationInv'
    <3>1. CASE CheckHoldKey(c)
      <4>1. ~At(c, "done") /\ ~At(c, "idle") /\ UNCHANGED <<checkIn, paymentVars>>
        BY <3>1 DEF CheckHoldKey, At
      <4>2. CASE Goto(c, "weigh")
        BY <4>1, <4>2, Goes
      <4>3. CASE Goto(c, "done")
        BY <4>1, <4>3, Goes
      <4> QED BY <3>1, <4>2, <4>3 DEF CheckHoldKey
    <3>2. CASE ValidateBaggage(c)
      BY <3>2, Weighs
    <3>3. CASE AwaitPayment(c)
      BY <3>3, Awaits
    <3>4. CASE WeightOverflows(c)
      <4>1. ~At(c, "done") /\ ~At(c, "idle") /\ UNCHANGED <<checkIn, paymentVars>>
            /\ Goto(c, "done")
        BY <3>4 DEF WeightOverflows, At
      <4> QED BY <4>1, Goes
    <3>5. CASE PaymentReturns(c)
      BY <3>5, Returns
    <3>6. CASE CompleteCheckIn(c)
      BY <3>6, Completes
    <3>7. CASE CallProceeds(c) /\ UNCHANGED confirmationVars
      BY <3>7, PaymentSteps, PaymentKeepsConfirmations DEF ConfirmationInv
    <3> QED BY <2>2, <3>1, <3>2, <3>3, <3>4, <3>5, <3>6, <3>7 DEF ConfirmationProceeds
  <2>3. ASSUME NEW c \in Calls, LoseConfirmation(c) PROVE ConfirmationInv'
    BY <2>3, Loses
  <2>4. CASE CancelCheckIn
    BY <2>4, Cancels
  <2>5. CASE PaymentStep /\ UNCHANGED confirmationVars
    BY <2>5, PaymentSteps, PaymentKeepsConfirmations DEF ConfirmationInv
  <2>6. CASE UNCHANGED vars
    <3>1. UNCHANGED confirmationVars /\ UNCHANGED paymentVars
      BY <2>6 DEF vars
    <3>2. PaymentInv' /\ ResultsStay
      BY <3>1 DEF ConfirmationInv, PaymentInv, PaymentTypeOK, ConfirmedIsCharged,
             ResultsStay, FailureIsExhausted, CallAt, CurrentAttempt, paymentVars, networkVars
    <3> QED BY <3>1, <3>2, PaymentKeepsConfirmations
  <2> QED BY <2>1, <2>2, <2>3, <2>4, <2>5, <2>6 DEF Next
<1> QED BY <1>1, <1>2, PTL DEF Spec

\* A payment reported as confirmed is one the service has charged for the attempt
\* the call ended with.
THEOREM ConfirmationsAreCharged == Spec => []ConfirmedIsCharged
<1>1. ConfirmationInv => ConfirmedIsCharged
  BY DEF ConfirmationInv, PaymentInv
<1> QED BY <1>1, ConfirmationInvariant, PTL

\* A call fails only after all of its attempts.
THEOREM FailuresAreExhausted == Spec => []FailureIsExhausted
<1>1. ConfirmationInv => FailureIsExhausted
  BY DEF ConfirmationInv, PaymentInv
<1> QED BY <1>1, ConfirmationInvariant, PTL

\* The fee and the weight of a check-in that awaits payment belong together.
THEOREM AwaitedFeesMatch == Spec => []AwaitedFeeIsForWeight
<1>1. ConfirmationInv => AwaitedFeeIsForWeight
  BY DEF ConfirmationInv
<1> QED BY <1>1, ConfirmationInvariant, PTL

\* The fee a payment is requested for is the nearest to the exact one.
THEOREM FeesAreNearest == Spec => []FeeIsNearest
<1>1. ConfirmationInv => FeeIsNearest
  <2> SUFFICES ASSUME ConfirmationInv, NEW c \in Calls, At(c, "pay") \/ At(c, "awaitPayment")
               PROVE  /\ 2 * confirmation[c].fee * 1000 <= 2 * ExactFee(confirmation[c].weight) + 1000
                      /\ 2 * ExactFee(confirmation[c].weight) <= 2 * confirmation[c].fee * 1000 + 1000
    BY DEF FeeIsNearest
  <2>1. /\ confirmation[c].weight \in Nat
        /\ IsOverweight(confirmation[c].weight)
        /\ confirmation[c].fee \in CalculateFee(confirmation[c].weight)
    BY DEF ConfirmationInv, TypeOK, ConfirmationState, ConfirmationMatches
  <2> QED BY <2>1, Fees
<1> QED BY <1>1, ConfirmationInvariant, PTL

\* No check-in with overweight baggage is completed without the payment service
\* having charged the fee of its weight in the confirmation that completed it.
THEOREM CompletedCheckInsArePaid == Spec => []CompletedIsPaid
<1>1. ConfirmationInv => CompletedIsPaid
  <2> SUFFICES ASSUME ConfirmationInv, checkIn.status = "COMPLETED" PROVE CompletedIsPaid
    BY DEF CompletedIsPaid
  <2>1. PICK c \in Calls :
            /\ Paid(c)
            /\ checkIn.baggageWeight = StoredWeight(confirmation[c].weight)
            /\ checkIn.paymentId = confirmation[c].paymentId
    BY DEF ConfirmationInv, CompletedByOne
  <2>2. payment[c].result = "confirmed" => CurrentAttempt(c) \in charged
    BY DEF ConfirmationInv, PaymentInv, ConfirmedIsCharged
  <2> QED BY <2>1, <2>2 DEF CompletedIsPaid, Paid
<1> QED BY <1>1, ConfirmationInvariant, PTL

----------------------------------------------------------------------------
(* The refinement of BillingLedger                                          *)

\* The request of an attempt is sent once: what is under way or charged is of
\* attempts before the one a call is about to send, and a request that has been
\* charged is not under way any more.
AttemptsAreNew ==
    /\ posts \cap charged = {}
    /\ \A n \in posts \cup charged :
        /\ ~CallAt(n.call, "idle")
        /\ CallAt(n.call, "delay") \/ CallAt(n.call, "post") =>
                n.attempt < payment[n.call].attempt

\* A step of one call that sends nothing.
LEMMA CallsKeepAttempts ==
    ASSUME PaymentInv, AttemptsAreNew, NEW c \in Calls, NEW next \in Payment,
           payment' = [payment EXCEPT ![c] = next], next.pc # "idle",
           posts' = posts, charged' = charged,
           next.pc \in {"delay", "post"} =>
                \/ CallAt(c, "idle")
                \/ payment[c].pc \in {"delay", "post"} /\ next.attempt = payment[c].attempt
                \/ next.attempt = payment[c].attempt + 1
    PROVE  AttemptsAreNew'
<1> SUFFICES ASSUME NEW n \in posts \cup charged
             PROVE  /\ ~CallAt(n.call, "idle")'
                    /\ (CallAt(n.call, "delay") \/ CallAt(n.call, "post"))' =>
                            n.attempt < payment'[n.call].attempt
  BY DEF AttemptsAreNew
<1>1. /\ n.call \in Calls /\ n.attempt \in Nat /\ n.attempt <= payment[n.call].attempt
      /\ payment \in [Calls -> Payment] /\ payment[n.call].attempt \in Nat
  BY DEF PaymentInv, PaymentTypeOK, Attempt, Attempts, Payment, FailureIsExhausted
<1>2. CASE n.call = c
  BY <1>1, <1>2 DEF AttemptsAreNew, CallAt
<1>3. CASE n.call # c
  BY <1>1, <1>3 DEF AttemptsAreNew, CallAt
<1> QED BY <1>2, <1>3

\* An attempt that ends without an answer or with an error.
LEMMA FailuresKeepAttempts ==
    ASSUME PaymentInv, AttemptsAreNew, NEW c \in Calls, CallAt(c, "await"),
           AttemptFails(c), posts' = posts, charged' = charged
    PROVE  AttemptsAreNew'
<1> USE PaymentAssumption
<1>1. /\ payment \in [Calls -> Payment] /\ payment[c] \in Payment
      /\ payment[c].attempt \in 0..MaxRetries
  BY DEF PaymentInv, PaymentTypeOK, Payment, Attempts
<1>2. CASE payment[c].attempt < MaxRetries
  <2> DEFINE next == [payment[c] EXCEPT !.pc = "delay", !.attempt = payment[c].attempt + 1]
  <2>1. payment' = [payment EXCEPT ![c] = next]
    BY <1>1, <1>2 DEF AttemptFails
  <2>2. payment[c].attempt + 1 \in Attempts
    BY <1>1, <1>2 DEF Attempts
  <2>3. next \in Payment /\ next.pc = "delay" /\ next.attempt = payment[c].attempt + 1
    BY <1>1, <2>2 DEF Payment
  <2> HIDE DEF next
  <2> QED BY <2>1, <2>3, CallsKeepAttempts
<1>3. CASE ~(payment[c].attempt < MaxRetries)
  <2> DEFINE next == [payment[c] EXCEPT !.pc = "done", !.result = "failed"]
  <2>1. payment' = [payment EXCEPT ![c] = next]
    BY <1>1, <1>3 DEF AttemptFails
  <2>2. next \in Payment /\ next.pc = "done"
    BY <1>1 DEF Payment
  <2> HIDE DEF next
  <2> QED BY <2>1, <2>2, CallsKeepAttempts
<1> QED BY <1>2, <1>3

\* A request is sent: the attempt is a new one.
LEMMA PostsAreNew ==
    ASSUME PaymentInv, AttemptsAreNew, NEW c \in Calls, PostPayment(c)
    PROVE  AttemptsAreNew'
<1>1. /\ payment \in [Calls -> Payment] /\ payment[c].attempt \in Nat
      /\ posts \subseteq Attempt /\ charged \subseteq Attempt
  BY DEF PaymentInv, PaymentTypeOK, Payment, Attempts
<1> DEFINE cur == CurrentAttempt(c)
<1>2. cur.call = c /\ cur.attempt = payment[c].attempt
  BY DEF CurrentAttempt
<1>3. cur \notin charged
  BY <1>1, <1>2 DEF AttemptsAreNew, PostPayment
<1>4. /\ payment'[c].pc = "await" /\ posts' = posts \cup {cur} /\ charged' = charged
      /\ \A d \in Calls \ {c} : payment'[d] = payment[d]
  BY <1>1 DEF PostPayment, Payment
<1>5. \A n \in posts \cup charged : n.call \in Calls
  BY <1>1 DEF Attempt
<1> HIDE DEF cur
<1> QED BY <1>2, <1>3, <1>4, <1>5 DEF AttemptsAreNew, CallAt

\* Nothing but a new charge shows outside of a call that is under way.
PaymentShows ==
    /\ \A c \in Calls : CallAt(c, "idle")' <=> CallAt(c, "idle")
    /\ \/ charged' = charged
       \/ \E c \in Calls, i \in 0..MaxRetries :
            /\ ~CallAt(c, "idle")
            /\ [call |-> c, attempt |-> i] \notin charged
            /\ charged' = charged \cup {[call |-> c, attempt |-> i]}

\* The steps of the calls that send nothing.
LEMMA SilentSteps ==
    ASSUME PaymentInv, AttemptsAreNew, NEW c \in Calls,
           ProcessPayment(c) \/ DelayEnds(c) \/ LoseCall(c)
    PROVE  AttemptsAreNew'
<1>1. payment \in [Calls -> Payment] /\ payment[c] \in Payment
  BY DEF PaymentInv, PaymentTypeOK
<1>2. posts' = posts /\ charged' = charged
  BY DEF ProcessPayment, DelayEnds, LoseCall, networkVars
<1>3. CASE ProcessPayment(c)
  <2> DEFINE next == [payment[c] EXCEPT !.pc = "post", !.audit = @ \cup {"PAYMENT_REQUESTED"}]
  <2>1. payment' = [payment EXCEPT ![c] = next]
    BY <1>1, <1>3 DEF ProcessPayment
  <2>2. next \in Payment /\ next.pc = "post" /\ CallAt(c, "idle")
    BY <1>1, <1>3 DEF Payment, ProcessPayment
  <2> HIDE DEF next
  <2> QED BY <1>2, <2>1, <2>2, CallsKeepAttempts
<1>4. CASE DelayEnds(c)
  <2> DEFINE next == [payment[c] EXCEPT !.pc = "post"]
  <2>1. payment' = [payment EXCEPT ![c] = next]
    BY <1>1, <1>4 DEF DelayEnds
  <2>2. /\ next \in Payment /\ next.pc = "post" /\ payment[c].pc = "delay"
        /\ next.attempt = payment[c].attempt
    BY <1>1, <1>4 DEF Payment, DelayEnds, CallAt
  <2> HIDE DEF next
  <2> QED BY <1>2, <2>1, <2>2, CallsKeepAttempts
<1>5. CASE LoseCall(c)
  <2> DEFINE next == [payment[c] EXCEPT !.pc = "lost"]
  <2>1. payment' = [payment EXCEPT ![c] = next]
    BY <1>1, <1>5 DEF LoseCall
  <2>2. next \in Payment /\ next.pc = "lost"
    BY <1>1 DEF Payment
  <2> HIDE DEF next
  <2> QED BY <1>2, <2>1, <2>2, CallsKeepAttempts
<1> QED BY <1>3, <1>4, <1>5

\* An answer ends the attempt it is awaited for.
LEMMA AnswersKeepAttempts ==
    ASSUME PaymentInv, AttemptsAreNew, NEW a \in answers, AnswerArrives(a)
    PROVE  AttemptsAreNew'
<1> DEFINE c == a.call
<1>1. /\ a \in Answer /\ c \in Calls /\ CallAt(c, "await")
      /\ posts' = posts /\ charged' = charged
      /\ payment \in [Calls -> Payment] /\ payment[c] \in Payment
  BY DEF PaymentInv, PaymentTypeOK, Answer, AnswerArrives, IsAwaited
<1>2. CASE a.status = "error"
  BY <1>1, <1>2, FailuresKeepAttempts DEF AnswerArrives
<1>3. CASE a.status # "error"
  <2> DEFINE next == [payment[c] EXCEPT !.pc = "done", !.result = a.status,
                !.audit = IF a.status = "confirmed"
                            THEN @ \cup {"PAYMENT_CONFIRMED"} ELSE @]
  <2>1. payment' = [payment EXCEPT ![c] = next]
    BY <1>1, <1>3 DEF AnswerArrives, PaymentAnswered
  <2>2. a.status \in {"confirmed", "declined"}
    BY <1>1, <1>3 DEF Answer
  <2>3. next \in Payment /\ next.pc = "done"
    BY <1>1, <2>2 DEF Payment
  <2> HIDE DEF next, c
  <2> QED BY <1>1, <2>1, <2>3, CallsKeepAttempts
<1> QED BY <1>2, <1>3

\* What the payment service and the network do.
LEMMA NetworkShows ==
    ASSUME PaymentInv, AttemptsAreNew,
           (\E n \in posts : Charge(n) \/ Refuse(n)) \/ LoseMessage
    PROVE  AttemptsAreNew' /\ PaymentShows
<1>1. payment' = payment
  BY DEF Charge, Refuse, LoseMessage
<1>2. ASSUME NEW n \in posts, Charge(n) PROVE AttemptsAreNew' /\ PaymentShows
  <2>1. /\ n = [call |-> n.call, attempt |-> n.attempt]
        /\ n.call \in Calls /\ n.attempt \in 0..MaxRetries
    BY DEF PaymentInv, PaymentTypeOK, Attempt, Attempts
  <2>2. n \notin charged /\ ~CallAt(n.call, "idle")
    BY DEF AttemptsAreNew
  <2>3. posts' = posts \ {n} /\ charged' = charged \cup {n}
    BY <1>2 DEF Charge
  <2>4. AttemptsAreNew'
    BY <1>1, <2>3 DEF AttemptsAreNew, CallAt
  <2> QED BY <1>1, <2>1, <2>2, <2>3, <2>4 DEF PaymentShows, CallAt
<1>3. CASE (\E n \in posts : Refuse(n)) \/ LoseMessage
  <2>1. posts' \subseteq posts /\ charged' = charged
    BY <1>3 DEF Refuse, LoseMessage
  <2> QED BY <1>1, <2>1 DEF AttemptsAreNew, CallAt, PaymentShows
<1> QED BY <1>2, <1>3

\* Any step of calls and network after a call has begun.
LEMMA PaymentStepsShow ==
    ASSUME PaymentInv, AttemptsAreNew, (\E c \in Calls : CallProceeds(c)) \/ PaymentStep
    PROVE  AttemptsAreNew' /\ PaymentShows
<1>1. payment \in [Calls -> Payment]
  BY DEF PaymentInv, PaymentTypeOK
<1>2. ASSUME NEW c \in Calls, CallProceeds(c) PROVE AttemptsAreNew' /\ PaymentShows
  <2>1. CASE PostPayment(c)
    BY <2>1, <1>1, PostsAreNew DEF PostPayment, PaymentShows, CallAt, Payment
  <2>2. CASE DelayEnds(c)
    BY <2>2, <1>1, SilentSteps DEF DelayEnds, PaymentShows, CallAt, networkVars, Payment
  <2>3. CASE AttemptTimesOut(c)
    <3>1. posts' = posts /\ charged' = charged /\ CallAt(c, "await") /\ AttemptFails(c)
      BY <2>3 DEF AttemptTimesOut, networkVars
    <3> QED BY <3>1, <1>1, FailuresKeepAttempts DEF AttemptFails, PaymentShows, CallAt, Payment
  <2> QED BY <1>2, <2>1, <2>2, <2>3 DEF CallProceeds
<1>3. ASSUME NEW a \in answers, AnswerArrives(a) PROVE AttemptsAreNew' /\ PaymentShows
  <2>1. charged' = charged /\ a.call \in Calls /\ CallAt(a.call, "await")
    BY <1>3 DEF AnswerArrives, IsAwaited, PaymentInv, PaymentTypeOK, Answer
  <2>2. \A c \in Calls : CallAt(c, "idle")' <=> CallAt(c, "idle")
    BY <1>1, <1>3, <2>1 DEF AnswerArrives, AttemptFails, PaymentAnswered, CallAt, Payment
  <2> QED BY <1>3, <2>1, <2>2, AnswersKeepAttempts DEF PaymentShows
<1>4. CASE (\E n \in posts : Charge(n) \/ Refuse(n)) \/ LoseMessage
  BY <1>4, NetworkShows
<1> QED BY <1>2, <1>3, <1>4 DEF PaymentStep

\* The stage of one confirmation, when no other confirmation moves.
LEMMA StageMoves ==
    ASSUME NEW c \in Calls, NEW s, \A d \in Calls \ {c} : confirmation'[d] = confirmation[d],
           Stage(c)' = s
    PROVE  Billing!StageBecomes(c, s)
<1>1. \A d \in Calls \ {c} : Stage(d)' = Stage(d)
  BY DEF Stage, At
<1> QED BY <1>1 DEF Billing!StageBecomes

\* A step that leaves confirmations and check-in alone shows a charge or nothing.
LEMMA ChargesRefine ==
    ASSUME PaymentShows, UNCHANGED confirmationVars
    PROVE  [Billing!BillingNext]_Billing!billingVars
<1> DEFINE stages == [c \in Calls |-> Stage(c)]
           begun == {c \in Calls : ~CallAt(c, "idle")}
<1>1. stages' = stages /\ checkIn' = checkIn
  BY DEF confirmationVars, Stage, At
<1>2. begun' = begun
  BY DEF PaymentShows
<1>3. CASE charged' = charged
  BY <1>1, <1>2, <1>3 DEF Billing!billingVars
<1>4. CASE charged' # charged
  <2>1. PICK c \in Calls, i \in 0..MaxRetries :
            /\ c \in begun
            /\ [call |-> c, attempt |-> i] \notin charged
            /\ charged' = charged \cup {[call |-> c, attempt |-> i]}
    BY <1>4 DEF PaymentShows
  <2> QED BY <1>1, <1>2, <2>1 DEF Billing!BillingNext, Billing!ChargeAttempt
<1> QED BY <1>3, <1>4

\* A step of one confirmation in which no call begins and nothing is charged.
LEMMA StageRefines ==
    ASSUME ConfirmationInv, NEW c \in Calls, PaymentShows, charged' = charged,
           \A d \in Calls \ {c} : confirmation'[d] = confirmation[d],
           \/ Stage(c)' = Stage(c) /\ checkIn' = checkIn
           \/ /\ Stage(c) = "idle" /\ Stage(c)' \in {"within", "excess"}
              /\ checkIn.status \in {"IN_PROGRESS", "AWAITING_PAYMENT"} /\ checkIn' = checkIn
           \/ /\ Stage(c) = "billed" /\ Stage(c)' = "paid"
              /\ payment[c].result = "confirmed" /\ checkIn' = checkIn
           \/ /\ Stage(c) \in {"within", "paid"} /\ Stage(c)' = "over"
              /\ checkIn'.status = "COMPLETED"
           \/ /\ Stage(c) \notin {"idle", "over"} /\ Stage(c)' = "over" /\ checkIn' = checkIn
    PROVE  [Billing!BillingNext]_Billing!billingVars
<1> DEFINE stages == [d \in Calls |-> Stage(d)]
           begun == {d \in Calls : ~CallAt(d, "idle")}
<1>1. begun' = begun /\ charged' = charged
  BY DEF PaymentShows
<1>2. stages[c] = Stage(c)
  OBVIOUS
<1>3. \A s : Stage(c)' = s => Billing!StageBecomes(c, s)
  BY StageMoves
<1>4. CASE Stage(c)' = Stage(c) /\ checkIn' = checkIn
  <2>1. \A d \in Calls : Stage(d)' = Stage(d)
    BY <1>4 DEF Stage, At
  <2> QED BY <2>1, <1>1, <1>4 DEF Billing!billingVars
<1>5. CASE /\ Stage(c) = "idle" /\ Stage(c)' \in {"within", "excess"}
           /\ checkIn.status \in {"IN_PROGRESS", "AWAITING_PAYMENT"} /\ checkIn' = checkIn
  BY <1>1, <1>2, <1>3, <1>5 DEF Billing!BillingNext, Billing!Declare
<1>6. CASE /\ Stage(c) = "billed" /\ Stage(c)' = "paid"
           /\ payment[c].result = "confirmed" /\ checkIn' = checkIn
  <2>1. CurrentAttempt(c) \in charged /\ CurrentAttempt(c).call = c
    BY <1>6 DEF ConfirmationInv, PaymentInv, ConfirmedIsCharged, CurrentAttempt
  <2> QED BY <1>1, <1>2, <1>3, <1>6, <2>1 DEF Billing!BillingNext, Billing!Settle
<1>7. CASE /\ Stage(c) \in {"within", "paid"} /\ Stage(c)' = "over"
           /\ checkIn'.status = "COMPLETED"
  BY <1>1, <1>2, <1>3, <1>7 DEF Billing!BillingNext, Billing!Complete
<1>8. CASE Stage(c) \notin {"idle", "over"} /\ Stage(c)' = "over" /\ checkIn' = checkIn
  BY <1>1, <1>2, <1>3, <1>8 DEF Billing!BillingNext, Billing!GiveUp
<1> QED BY <1>4, <1>5, <1>6, <1>7, <1>8

LEMMA ConfirmationKeepsAttempts ==
    ASSUME AttemptsAreNew, UNCHANGED paymentVars
    PROVE  AttemptsAreNew' /\ PaymentShows /\ charged' = charged
BY DEF AttemptsAreNew, PaymentShows, CallAt, paymentVars, networkVars

\* A confirmation begins a payment call: the only step in which both move.
LEMMA BillRefines ==
    ASSUME ConfirmationInv, AttemptsAreNew, NEW c \in Calls, AwaitPayment(c)
    PROVE  AttemptsAreNew' /\ Billing!BillingNext
<1> DEFINE stages == [d \in Calls |-> Stage(d)]
           begun == {d \in Calls : ~CallAt(d, "idle")}
<1>1. /\ confirmation \in [Calls -> ConfirmationState] /\ payment \in [Calls -> Payment]
      /\ checkIn \in CheckInColumns /\ IsOverweight(confirmation[c].weight)
      /\ At(c, "awaitPayment") /\ CallAt(c, "idle") /\ ProcessPayment(c) /\ Goto(c, "pay")
  BY DEF ConfirmationInv, TypeOK, PaymentTypeOK, ConfirmationMatches, AwaitPayment,
         ProcessPayment
<1>2. /\ \A d \in Calls \ {c} : confirmation'[d] = confirmation[d]
      /\ Stage(c) = "excess" /\ Stage(c)' = "billed"
  BY <1>1 DEF Goto, Stage, At, ConfirmationState
<1>3. begun' = begun \cup {c} /\ c \notin begun
  BY <1>1 DEF ProcessPayment, CallAt, Payment
<1>4. charged' = charged /\ checkIn'.status = "AWAITING_PAYMENT"
  BY <1>1 DEF AwaitPayment, ProcessPayment, networkVars, CheckInColumns
<1>5. stages[c] = "excess" /\ Billing!StageBecomes(c, "billed")
  BY <1>2, StageMoves
<1>6. Billing!BillingNext
  BY <1>3, <1>4, <1>5 DEF Billing!BillingNext, Billing!Bill
<1> QED BY <1>1, <1>6, SilentSteps DEF ConfirmationInv

\* A confirmation is over, before or after it has begun to pay.
LEMMA GiveUpRefines ==
    ASSUME ConfirmationInv, AttemptsAreNew, NEW c \in Calls,
           confirmation[c].pc \notin {"idle", "done"}, Goto(c, "done"), checkIn' = checkIn,
           LoseCall(c) \/ UNCHANGED paymentVars
    PROVE  AttemptsAreNew' /\ [Billing!BillingNext]_Billing!billingVars
<1>1. confirmation \in [Calls -> ConfirmationState] /\ payment \in [Calls -> Payment]
  BY DEF ConfirmationInv, TypeOK, PaymentTypeOK
<1>2. /\ \A d \in Calls \ {c} : confirmation'[d] = confirmation[d]
      /\ Stage(c) \notin {"idle", "over"} /\ Stage(c)' = "over"
  BY <1>1 DEF Goto, Stage, At, ConfirmationState
<1>3. AttemptsAreNew' /\ PaymentShows /\ charged' = charged
  <2>1. CASE LoseCall(c)
    BY <2>1, <1>1, SilentSteps
    DEF ConfirmationInv, LoseCall, PaymentShows, CallAt, Payment, networkVars
  <2>2. CASE UNCHANGED paymentVars
    BY <2>2, ConfirmationKeepsAttempts
  <2> QED BY <2>1, <2>2
<1> QED BY <1>2, <1>3, StageRefines

\* Steps of confirmations that leave payment calls alone.
LEMMA ConfirmationRefines ==
    ASSUME ConfirmationInv, AttemptsAreNew, NEW c \in Calls,
           \/ \E weight \in Weights : ConfirmCheckIn(c, weight)
           \/ CheckHoldKey(c) \/ ValidateBaggage(c) \/ WeightOverflows(c)
           \/ PaymentReturns(c) \/ CompleteCheckIn(c)
    PROVE  AttemptsAreNew' /\ [Billing!BillingNext]_Billing!billingVars
<1>1. confirmation \in [Calls -> ConfirmationState] /\ checkIn \in CheckInColumns
  BY DEF ConfirmationInv, TypeOK
<1>2. UNCHANGED paymentVars
  BY DEF ConfirmCheckIn, CheckHoldKey, ValidateBaggage, WeightOverflows, PaymentReturns,
         CompleteCheckIn
<1>3. AttemptsAreNew' /\ PaymentShows /\ charged' = charged
  BY <1>2, ConfirmationKeepsAttempts
<1>4. \A d \in Calls \ {c} : confirmation'[d] = confirmation[d]
  BY <1>1 DEF ConfirmCheckIn, CheckHoldKey, ValidateBaggage, WeightOverflows, PaymentReturns,
         CompleteCheckIn, Goto
<1>5. ASSUME NEW weight \in Weights, ConfirmCheckIn(c, weight)
      PROVE  [Billing!BillingNext]_Billing!billingVars
  <2>1. Stage(c) = "idle" /\ Stage(c)' \in {"within", "excess"}
    BY <1>1, <1>5 DEF ConfirmCheckIn, Stage, At, ConfirmationState
  <2>2. checkIn.status \in {"IN_PROGRESS", "AWAITING_PAYMENT"} /\ checkIn' = checkIn
    BY <1>5 DEF ConfirmCheckIn
  <2> QED BY <1>3, <1>4, <2>1, <2>2, StageRefines
<1>6. CASE (CheckHoldKey(c) /\ Goto(c, "done")) \/ WeightOverflows(c)
  <2>1. /\ confirmation[c].pc \notin {"idle", "done"} /\ Goto(c, "done") /\ checkIn' = checkIn
    BY <1>6 DEF CheckHoldKey, WeightOverflows, At
  <2> QED BY <1>2, <2>1, GiveUpRefines
<1>7. CASE CheckHoldKey(c) /\ Goto(c, "weigh")
  <2>1. Stage(c)' = Stage(c) /\ checkIn' = checkIn
    BY <1>1, <1>7 DEF CheckHoldKey, Goto, Stage, At, ConfirmationState
  <2> QED BY <1>3, <1>4, <2>1, StageRefines
<1>8. CASE ValidateBaggage(c)
  <2> DEFINE weight == confirmation[c].weight
             pc == IF IsOverweight(weight) THEN "awaitPayment" ELSE "completeTx"
  <2>1. PICK fee \in CalculateFee(weight) :
            confirmation' = [confirmation EXCEPT ![c].pc = pc, ![c].fee = fee]
    BY <1>8 DEF ValidateBaggage
  <2>2. confirmation[c].pc = "weigh" /\ checkIn' = checkIn
    BY <1>8 DEF ValidateBaggage, At
  <2>3. confirmation'[c].pc = pc /\ confirmation'[c].weight = weight
    BY <1>1, <2>1 DEF ConfirmationState
  <2>4. Stage(c)' = Stage(c)
    BY <2>2, <2>3 DEF Stage, At, IsOverweight
  <2> QED BY <1>3, <1>4, <2>2, <2>4, StageRefines
<1>9. CASE PaymentReturns(c)
  <2>1. IsOverweight(confirmation[c].weight) /\ checkIn' = checkIn
    BY <1>9 DEF ConfirmationInv, ConfirmationMatches, PaymentReturns
  <2>2. CASE payment[c].result = "confirmed"
    <3>1. Stage(c) = "billed" /\ Stage(c)' = "paid"
      BY <1>1, <1>9, <2>1, <2>2 DEF PaymentReturns, Stage, At, ConfirmationState
    <3> QED BY <1>3, <1>4, <2>1, <2>2, <3>1, StageRefines
  <2>3. CASE payment[c].result # "confirmed"
    <3>1. Stage(c) = "billed" /\ Stage(c)' = "over"
      BY <1>1, <1>9, <2>1, <2>3 DEF PaymentReturns, Stage, At, ConfirmationState
    <3> QED BY <1>3, <1>4, <2>1, <3>1, StageRefines
  <2> QED BY <2>2, <2>3
<1>10. CASE CompleteCheckIn(c)
  <2>1. Stage(c) \in {"within", "paid"} /\ Stage(c)' = "over"
    BY <1>1, <1>10 DEF CompleteCheckIn, Goto, Stage, At, ConfirmationState
  <2>2. checkIn'.status = "COMPLETED"
    BY <1>1, <1>10 DEF CompleteCheckIn, CheckInColumns
  <2> QED BY <1>3, <1>4, <2>1, <2>2, StageRefines
<1> QED BY <1>3, <1>5, <1>6, <1>7, <1>8, <1>9, <1>10 DEF CheckHoldKey

\* Every step keeps the requests new and is a step of the ledger or shows nothing.
LEMMA BillingStep ==
    ASSUME ConfirmationInv, AttemptsAreNew, [Next]_vars
    PROVE  AttemptsAreNew' /\ [Billing!BillingNext]_Billing!billingVars
<1>1. ASSUME NEW c \in Calls, NEW weight \in Weights, ConfirmCheckIn(c, weight)
      PROVE  AttemptsAreNew' /\ [Billing!BillingNext]_Billing!billingVars
  BY <1>1, ConfirmationRefines
<1>2. ASSUME (\E c \in Calls : CallProceeds(c)) \/ PaymentStep, UNCHANGED confirmationVars
      PROVE  AttemptsAreNew' /\ [Billing!BillingNext]_Billing!billingVars
  <2>1. AttemptsAreNew' /\ PaymentShows
    BY <1>2, PaymentStepsShow DEF ConfirmationInv
  <2> QED BY <1>2, <2>1, ChargesRefine
<1>3. ASSUME NEW c \in Calls, ConfirmationProceeds(c)
      PROVE  AttemptsAreNew' /\ [Billing!BillingNext]_Billing!billingVars
  <2>1. CASE AwaitPayment(c)
    BY <2>1, BillRefines
  <2>2. CASE CallProceeds(c) /\ UNCHANGED confirmationVars
    BY <2>2, <1>2
  <2> QED BY <1>3, <2>1, <2>2, ConfirmationRefines DEF ConfirmationProceeds
<1>4. ASSUME NEW c \in Calls, LoseConfirmation(c)
      PROVE  AttemptsAreNew' /\ [Billing!BillingNext]_Billing!billingVars
  BY <1>4, GiveUpRefines DEF LoseConfirmation
<1>5. ASSUME UNCHANGED <<confirmation, paymentVars>>
      PROVE  /\ AttemptsAreNew' /\ PaymentShows /\ charged' = charged
             /\ \A c \in Calls : Stage(c)' = Stage(c)
  BY <1>5, ConfirmationKeepsAttempts DEF Stage, At
<1>6. CASE CancelCheckIn
  <2>1. checkIn'.status = "CANCELLED"
    BY <1>6 DEF CancelCheckIn, ConfirmationInv, TypeOK, CheckInColumns
  <2>2. UNCHANGED <<confirmation, paymentVars>>
    BY <1>6 DEF CancelCheckIn
  <2> QED BY <1>5, <2>1, <2>2 DEF PaymentShows, Billing!BillingNext, Billing!Cancel
<1>7. CASE PaymentStep /\ UNCHANGED confirmationVars
  BY <1>2, <1>7
<1>8. CASE UNCHANGED vars
  <2>1. UNCHANGED <<confirmation, paymentVars>> /\ UNCHANGED confirmationVars
    BY <1>8 DEF vars, confirmationVars
  <2> QED BY <1>5, <2>1, ChargesRefine
<1> QED BY <1>1, <1>3, <1>4, <1>6, <1>7, <1>8 DEF Next

\* confirmCheckIn with processPayment keeps to BillingLedger, for any number of
\* confirmations, retries and weights: what completes a check-in owes nothing or has
\* been charged for itself, and no attempt is charged twice.
THEOREM BillingImplemented == Spec => BillingRefined
<1>1. Init => AttemptsAreNew /\ Billing!BillingInit
  <2> SUFFICES ASSUME Init PROVE AttemptsAreNew /\ Billing!BillingInit
    OBVIOUS
  <2>1. AttemptsAreNew /\ charged = {} /\ checkIn.status = "IN_PROGRESS"
    BY DEF Init, PaymentInit, AttemptsAreNew
  <2>2. \A c \in Calls : CallAt(c, "idle") /\ Stage(c) = "idle"
    BY DEF Init, PaymentInit, CallAt, Stage, At
  <2> QED BY <2>1, <2>2 DEF Billing!BillingInit
<1>2. ConfirmationInv /\ AttemptsAreNew /\ [Next]_vars
        => AttemptsAreNew' /\ [Billing!BillingNext]_Billing!billingVars
  BY BillingStep
<1> QED BY <1>1, <1>2, ConfirmationInvariant, PTL DEF Spec, BillingRefined, Billing!BillingSpec
=============================================================================

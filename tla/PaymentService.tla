--------------------------- MODULE PaymentService ---------------------------
(***************************************************************************)
(* payment.service.ts: calls of processPayment against the external payment *)
(* service, each of which CheckInService!PayExcessFee takes as one step.    *)
(* Attempts are numbered from 0 as in the code. An attempt that timed out   *)
(* is given up by the caller only: its request may still be charged and     *)
(* its answer still arrive, while later attempts and other calls run.       *)
(***************************************************************************)
EXTENDS Naturals

CONSTANTS
    Calls,      \* calls of processPayment for one check-in
    MaxRetries, \* PAYMENT_MAX_RETRIES
    None        \* SQL NULL; no result yet

ASSUME PaymentAssumption ==
    /\ MaxRetries \in Nat
    /\ None \notin Calls
    /\ None \notin {"confirmed", "declined", "failed"}

VARIABLES
    payment, \* the state of each call
    posts,   \* attempts whose request is under way
    answers, \* answers under way
    charged  \* the attempts the payment service has charged

networkVars == <<posts, answers, charged>>
paymentVars == <<payment, networkVars>>

Attempts == 0..MaxRetries
Attempt == [call : Calls, attempt : Attempts]

\* "declined" is any status but confirmed, "error" an answer without a 2xx code.
Answer == [call : Calls, attempt : Attempts,
           status : {"confirmed", "declined", "error"}]

\* The loop counter, the status of the PaymentResultDto (None before it is
\* returned) and the audit entries handed to AuditService.log. A call that is
\* lost dies with its instance.
Payment == [pc : {"idle", "delay", "post", "await", "done", "lost"},
            attempt : Attempts,
            result : {None, "confirmed", "declined", "failed"},
            audit : SUBSET {"PAYMENT_REQUESTED", "PAYMENT_CONFIRMED"}]

PaymentTypeOK ==
    /\ payment \in [Calls -> Payment]
    /\ posts \subseteq Attempt
    /\ answers \subseteq Answer
    /\ charged \subseteq Attempt

PaymentInit ==
    /\ payment = [c \in Calls |->
            [pc |-> "idle", attempt |-> 0, result |-> None, audit |-> {}]]
    /\ posts = {} /\ answers = {} /\ charged = {}

CallAt(c, pc) == payment[c].pc = pc
CurrentAttempt(c) == [call |-> c, attempt |-> payment[c].attempt]

----------------------------------------------------------------------------
(* processPayment and callPaymentServiceWithRetry                           *)

ProcessPayment(c) ==
    /\ CallAt(c, "idle")
    /\ payment' = [payment EXCEPT ![c].pc = "post",
                                  ![c].audit = @ \cup {"PAYMENT_REQUESTED"}]
    /\ UNCHANGED networkVars

PostPayment(c) ==
    /\ CallAt(c, "post")
    /\ payment' = [payment EXCEPT ![c].pc = "await"]
    /\ posts' = posts \cup {CurrentAttempt(c)}
    /\ UNCHANGED <<answers, charged>>

\* Faulty variant: the last retry is left out.
AttemptFailsOneShort(c) ==
    payment' =
        IF payment[c].attempt + 1 < MaxRetries
          THEN [payment EXCEPT ![c].pc = "delay", ![c].attempt = @ + 1]
          ELSE [payment EXCEPT ![c].pc = "done", ![c].result = "failed"]

\* The catch clause: another attempt after a delay, or the call fails.
AttemptFails(c) ==
    payment' =
        IF payment[c].attempt < MaxRetries
          THEN [payment EXCEPT ![c].pc = "delay", ![c].attempt = @ + 1]
          ELSE [payment EXCEPT ![c].pc = "done", ![c].result = "failed"]

\* Faulty variant: answers of attempts given up count for the current one.
IsAwaitedAnyAttempt(answer) == CallAt(answer.call, "await")

\* timeout() has unsubscribed from every earlier attempt.
IsAwaited(answer) ==
    CallAt(answer.call, "await") /\ answer.attempt = payment[answer.call].attempt

\* The call ends with the status of the answer.
PaymentAnswered(c, status) ==
    payment' = [payment EXCEPT ![c].pc = "done", ![c].result = status,
        ![c].audit = IF status = "confirmed" THEN @ \cup {"PAYMENT_CONFIRMED"} ELSE @]

AnswerArrives(answer) ==
    /\ answer \in answers
    /\ IsAwaited(answer)
    /\ answers' = answers \ {answer}
    /\ IF answer.status = "error" THEN AttemptFails(answer.call)
                                  ELSE PaymentAnswered(answer.call, answer.status)
    /\ UNCHANGED <<posts, charged>>

\* Faulty variant: no timeout() on the request.
AttemptTimesOutNever(c) == FALSE /\ UNCHANGED paymentVars

\* timeout(httpTimeoutMs), or a connection that cannot be made or is cut.
AttemptTimesOut(c) ==
    /\ CallAt(c, "await")
    /\ AttemptFails(c)
    /\ UNCHANGED networkVars

DelayEnds(c) ==
    /\ CallAt(c, "delay")
    /\ payment' = [payment EXCEPT ![c].pc = "post"]
    /\ UNCHANGED networkVars

\* The instance crashes; what is under way in the network stays there.
LoseCall(c) ==
    /\ payment[c].pc \in {"delay", "post", "await"}
    /\ payment' = [payment EXCEPT ![c].pc = "lost"]
    /\ UNCHANGED networkVars

----------------------------------------------------------------------------
(* The payment service and the network.                                     *)

AnswerWith(n, status) ==
    answers' = answers \cup {[call |-> n.call, attempt |-> n.attempt, status |-> status]}

Charge(n) ==
    /\ n \in posts
    /\ posts' = posts \ {n}
    /\ charged' = charged \cup {n}
    /\ AnswerWith(n, "confirmed")
    /\ UNCHANGED payment

Refuse(n) ==
    /\ n \in posts
    /\ posts' = posts \ {n}
    /\ \E status \in {"declined", "error"} : AnswerWith(n, status)
    /\ UNCHANGED <<payment, charged>>

\* A request or an answer is lost, or answers an attempt nobody waits for.
LoseMessage ==
    /\ \/ \E n \in posts : posts' = posts \ {n} /\ UNCHANGED answers
       \/ \E a \in answers : answers' = answers \ {a} /\ UNCHANGED posts
    /\ UNCHANGED <<payment, charged>>

----------------------------------------------------------------------------

CallProceeds(c) == PostPayment(c) \/ AttemptTimesOut(c) \/ DelayEnds(c)

PaymentStep ==
    \/ \E c \in Calls : CallProceeds(c)
    \/ \E a \in answers : AnswerArrives(a)
    \/ \E n \in posts : Charge(n) \/ Refuse(n)
    \/ LoseMessage

----------------------------------------------------------------------------

\* A payment reported and logged as confirmed is one the service has charged
\* for the attempt the call ended with, not for one it had given up, nor for
\* another call for the same check-in.
ConfirmedIsCharged ==
    \A c \in Calls :
        /\ payment[c].result = "confirmed" => CurrentAttempt(c) \in charged
        /\ "PAYMENT_CONFIRMED" \in payment[c].audit <=> payment[c].result = "confirmed"

\* A call gives up only after maxRetries + 1 attempts: it has no request of an
\* attempt still to send, and a charge it does not know of is of one it made.
FailureIsExhausted ==
    /\ \A c \in Calls : payment[c].result = "failed" => payment[c].attempt = MaxRetries
    /\ \A n \in charged \cup posts : n.attempt <= payment[n.call].attempt
=============================================================================

--------------------------- MODULE CheckInService ---------------------------
(***************************************************************************)
(* check-in.service.ts: startCheckIn, confirmCheckIn and cancelCheckIn.     *)
(* A handler is one HTTP request in flight; its pc names the await it is    *)
(* about to make, so every action is what runs between two awaits, together *)
(* with the statement or the transaction the first of them executes. Only   *)
(* startCheckIn takes the seat's lock: confirmCheckIn and cancelCheckIn     *)
(* work from the check-in they read first and never look at the seat again. *)
(* A request that is refused before it changed anything is not a step.      *)
(***************************************************************************)
EXTENDS SeatStore

CONSTANTS
    Starters,        \* the passengers who may pick a seat themselves
    Cancellers,      \* the passengers who may send a cancellation
    DeclaredBaggage, \* what confirmations may declare
    OrderlyClients   \* assume orderly clients, as described below

ASSUME CheckInAssumption ==
    /\ Starters \subseteq Passengers
    /\ Cancellers \subseteq Passengers
    /\ DeclaredBaggage \subseteq {"within", "excess"}
    /\ OrderlyClients \in BOOLEAN

VARIABLE request \* the state of each check-in handler

StartPCs == {"acquireLock", "readSeat", "holdTx", "setHoldKey", "releaseLock"}
ConfirmPCs == {"checkHold", "awaitPayment", "pay", "completeTx", "dropKey"}
CancelPCs == {"cancelTx", "dropKeyAndEmit", "emit"}

RequestState ==
    [pc : StartPCs \cup ConfirmPCs \cup CancelPCs \cup {"idle"},
     passenger : Passengers \cup {None}, seat : Seats \cup {None},
     baggage : Baggage, paid : BOOLEAN]

NoRequest == [pc |-> "idle", passenger |-> None, seat |-> None,
              baggage |-> "none", paid |-> FALSE]

RequestTypeOK == request \in [CheckInHandlers -> RequestState]
RequestInit == request = [h \in CheckInHandlers |-> NoRequest]

Accept(h, pc, p, s, baggage) ==
    request' = [request EXCEPT ![h] =
                    [pc |-> pc, passenger |-> p, seat |-> s,
                     baggage |-> baggage, paid |-> FALSE]]
At(h, pc) == request[h].pc = pc
Goto(h, pc) == request' = [request EXCEPT ![h].pc = pc]
Respond(h) == request' = [request EXCEPT ![h] = NoRequest]

----------------------------------------------------------------------------
(* startCheckIn                                                             *)

\* The validations, all before the lock: the seat is on the flight, and the
\* passenger has no check-in that is not cancelled.
StartCheckIn(h, p, s) ==
    /\ At(h, "idle")
    /\ checkIn[p].status \in {"NONE", "CANCELLED"}
    /\ Accept(h, "acquireLock", p, s, "none")
    /\ UNCHANGED storeVars

AcquireSeatLock(h) ==
    /\ At(h, "acquireLock")
    /\ seatLock[request[h].seat] = None
    /\ seatLock' = [seatLock EXCEPT ![request[h].seat] = h]
    /\ Goto(h, "readSeat")
    /\ UNCHANGED <<tableVars, holdKey, waitlistLock, eventVars, crashes>>

\* Redlock gives up after its retries: the request fails.
SeatLockUnavailable(h) ==
    /\ At(h, "acquireLock")
    /\ seatLock[request[h].seat] # None
    /\ Respond(h)
    /\ UNCHANGED storeVars

\* Faulty variant: a seat that is taken is refused outside the try/finally.
ReadSeatWithinLockLeaves(h) ==
    /\ At(h, "readSeat")
    /\ IF SeatIsFree(request[h].seat) THEN Goto(h, "holdTx") ELSE Respond(h)
    /\ UNCHANGED storeVars

ReadSeatWithinLock(h) ==
    /\ At(h, "readSeat")
    /\ Goto(h, IF SeatIsFree(request[h].seat) THEN "holdTx" ELSE "releaseLock")
    /\ UNCHANGED storeVars

\* Faulty variant: the hold overwrites the seat unconditionally.
HoldSeatWithoutCas(h) ==
    /\ At(h, "holdTx")
    /\ CheckInIsUnique(request[h].passenger)
    /\ TakeHold(request[h].seat, request[h].passenger)
    /\ Goto(h, "setHoldKey")
    /\ UNCHANGED <<waitlist, releases, redisVars, eventVars, crashes>>

HoldSeat(h) ==
    LET s == request[h].seat
        p == request[h].passenger
    IN  /\ At(h, "holdTx")
        /\ SeatIsFree(s)
        /\ CheckInIsUnique(p)
        /\ TakeHold(s, p)
        /\ Goto(h, "setHoldKey")
        /\ UNCHANGED <<waitlist, releases, redisVars, eventVars, crashes>>

\* Faulty variant: the key is set although the transaction has failed.
HoldSeatFailsSetsKey(h) ==
    /\ At(h, "holdTx")
    /\ ~(SeatIsFree(request[h].seat) /\ CheckInIsUnique(request[h].passenger))
    /\ Goto(h, "setHoldKey")
    /\ UNCHANGED storeVars

\* The transaction rolls back: the conditional UPDATE affected no row, or the
\* INSERT violates the unique constraint.
HoldSeatFails(h) ==
    /\ At(h, "holdTx")
    /\ ~(SeatIsFree(request[h].seat) /\ CheckInIsUnique(request[h].passenger))
    /\ Goto(h, "releaseLock")
    /\ UNCHANGED storeVars

SetHoldKey(h) ==
    /\ At(h, "setHoldKey")
    /\ holdKey' = [holdKey EXCEPT ![request[h].seat] = request[h].passenger]
    /\ Goto(h, "releaseLock")
    /\ UNCHANGED <<tableVars, seatLock, waitlistLock, eventVars, crashes>>

EndStart(h) ==
    /\ At(h, "releaseLock")
    /\ ReleaseSeatLock(request[h].seat, h)
    /\ Respond(h)
    /\ UNCHANGED <<tableVars, holdKey, waitlistLock, eventVars, crashes>>

----------------------------------------------------------------------------
(* Orderly clients, an assumption some properties need. A passenger sends a *)
(* confirmation or a cancellation when the one before has been handled, and *)
(* for a hold that lasts or to cancel a completed check-in; and it is       *)
(* handled before the hold is due.                                          *)

\* A confirmation or a cancellation that has not written yet.
UnderWay(h) == request[h].pc \in {"checkHold", "awaitPayment", "pay", "completeTx", "cancelTx"}

Waited(p) == \A h \in CheckInHandlers : UnderWay(h) => request[h].passenger # p

HoldLasts(p) == HeldBy(checkIn[p].seat, p) /\ seat[checkIn[p].seat].heldAt = "recent"

HandledInTime(s) == \A h \in CheckInHandlers : UnderWay(h) => request[h].seat # s

----------------------------------------------------------------------------
(* confirmCheckIn                                                           *)

\* findCheckInOrThrow and the status test of validateHoldNotExpired.
ConfirmCheckIn(h, p, baggage) ==
    /\ At(h, "idle")
    /\ IsActive(checkIn[p].status)
    /\ OrderlyClients => Waited(p) /\ HoldLasts(p)
    /\ Accept(h, "checkHold", p, checkIn[p].seat, baggage)
    /\ UNCHANGED storeVars

\* The weight service, whose answer is ignored, and the fee from the declared
\* weight: overweight baggage has to be paid first.
ValidateBaggage(h) ==
    Goto(h, IF request[h].baggage = "excess" THEN "awaitPayment" ELSE "completeTx")

\* EXISTS hold:{seatId}, whoever owns the key.
CheckHoldKey(h) ==
    /\ At(h, "checkHold")
    /\ IF holdKey[request[h].seat] = None THEN Respond(h) ELSE ValidateBaggage(h)
    /\ UNCHANGED storeVars

\* Faulty variant: the fee is stored, the status is not.
AwaitPaymentKeepsStatus(h) ==
    /\ At(h, "awaitPayment")
    /\ checkIn' = [checkIn EXCEPT ![request[h].passenger].baggage = "excess"]
    /\ Goto(h, "pay")
    /\ UNCHANGED <<seat, waitlist, releases, redisVars, eventVars, crashes>>

\* UPDATE check_in by id, whatever its status has become.
AwaitPayment(h) ==
    /\ At(h, "awaitPayment")
    /\ checkIn' = [checkIn EXCEPT ![request[h].passenger].status = "AWAITING_PAYMENT",
                                  ![request[h].passenger].baggage = "excess"]
    /\ Goto(h, "pay")
    /\ UNCHANGED <<seat, waitlist, releases, redisVars, eventVars, crashes>>

\* processPayment never throws; with the fee unpaid the request answers with
\* the check-in as it is.
PayExcessFee(h) ==
    /\ At(h, "pay")
    /\ \/ request' = [request EXCEPT ![h].pc = "completeTx", ![h].paid = TRUE]
       \/ Respond(h)
    /\ UNCHANGED storeVars

\* One transaction, both UPDATEs by id only. held_by and held_at stay.
CompleteCheckIn(h) ==
    LET s == request[h].seat
        p == request[h].passenger
    IN  /\ At(h, "completeTx")
        /\ seat' = [seat EXCEPT ![s].status = "CONFIRMED"]
        /\ checkIn' = [checkIn EXCEPT ![p].status = "COMPLETED",
                                      ![p].baggage = request[h].baggage,
                                      ![p].paid = request[h].paid]
        /\ Goto(h, "dropKey")
        /\ UNCHANGED <<waitlist, releases, redisVars, eventVars, crashes>>

----------------------------------------------------------------------------
(* cancelCheckIn                                                            *)

\* Any check-in the passenger has, in any status. A departed flight refuses
\* here, before anything has changed.
CancelCheckIn(h, p) ==
    /\ At(h, "idle")
    /\ HasCheckIn(p)
    /\ OrderlyClients => Waited(p) /\ (HoldLasts(p) \/ checkIn[p].status = "COMPLETED")
    /\ Accept(h, "cancelTx", p, checkIn[p].seat, "none")
    /\ UNCHANGED storeVars

\* Faulty variant: the check-in's new status is written to the seat.
CancelTransactionMarksSeat(h) ==
    /\ At(h, "cancelTx")
    /\ seat' = [seat EXCEPT ![request[h].seat] = [FreeSeat EXCEPT !.status = "CANCELLED"]]
    /\ checkIn' = [checkIn EXCEPT ![request[h].passenger].status = "CANCELLED"]
    /\ Goto(h, "dropKeyAndEmit")
    /\ UNCHANGED <<waitlist, releases, redisVars, eventVars, crashes>>

\* Faulty variant: the seat is not given back.
CancelTransactionKeepsSeat(h) ==
    /\ At(h, "cancelTx")
    /\ checkIn' = [checkIn EXCEPT ![request[h].passenger].status = "CANCELLED"]
    /\ Goto(h, "dropKeyAndEmit")
    /\ UNCHANGED <<seat, waitlist, releases, redisVars, eventVars, crashes>>

\* One transaction, both UPDATEs by id only.
CancelTransaction(h) ==
    /\ At(h, "cancelTx")
    /\ seat' = [seat EXCEPT ![request[h].seat] = FreeSeat]
    /\ checkIn' = [checkIn EXCEPT ![request[h].passenger].status = "CANCELLED"]
    /\ Goto(h, "dropKeyAndEmit")
    /\ UNCHANGED <<waitlist, releases, redisVars, eventVars, crashes>>

\* DEL hold:{seatId}, whoever owns the key: the end of a confirmation, the last
\* but one step of a cancellation.
DropHoldKey(h) ==
    /\ \/ At(h, "dropKey") /\ Respond(h)
       \/ At(h, "dropKeyAndEmit") /\ Goto(h, "emit")
    /\ holdKey' = [holdKey EXCEPT ![request[h].seat] = None]
    /\ UNCHANGED <<tableVars, seatLock, waitlistLock, eventVars, crashes>>

EmitAfterCancel(h) ==
    /\ At(h, "emit")
    /\ EmitWaitlistProcess(None)
    /\ Respond(h)
    /\ UNCHANGED <<tableVars, redisVars, keyEvents, crashes>>

LoseRequest(h) ==
    /\ ~At(h, "idle")
    /\ LoseHandler
    /\ Respond(h)
    /\ UNCHANGED <<tableVars, redisVars, eventVars>>

----------------------------------------------------------------------------

RequestArrives(h) ==
    \/ \E p \in Starters, s \in Seats : StartCheckIn(h, p, s)
    \/ \E p \in Passengers, b \in DeclaredBaggage : ConfirmCheckIn(h, p, b)
    \/ \E p \in Cancellers : CancelCheckIn(h, p)

RequestProceeds(h) ==
    \/ AcquireSeatLock(h) \/ SeatLockUnavailable(h)
    \/ ReadSeatWithinLock(h)
    \/ HoldSeat(h) \/ HoldSeatFails(h)
    \/ SetHoldKey(h)
    \/ EndStart(h)
    \/ CheckHoldKey(h)
    \/ AwaitPayment(h)
    \/ PayExcessFee(h)
    \/ CompleteCheckIn(h)
    \/ CancelTransaction(h)
    \/ DropHoldKey(h)
    \/ EmitAfterCancel(h)

RequestNext(h) == RequestArrives(h) \/ RequestProceeds(h) \/ LoseRequest(h)
=============================================================================

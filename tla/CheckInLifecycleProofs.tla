----------------------- MODULE CheckInLifecycleProofs -----------------------
(***************************************************************************)
(* The life of a check-in, for any passengers, seats and handlers: excess   *)
(* baggage is always paid; and with orderly clients holds are exclusive, a  *)
(* completed check-in owns its seat and statuses change along the           *)
(* documented arrows only.                                                  *)
(***************************************************************************)
EXTENDS CheckInSystemProofs

\* Every status but COMPLETED is written without touching completed check-ins;
\* a completion is that of a request.
LEMMA CompletionsAreRequests ==
    ASSUME HoldInv, [Next]_vars, NEW p \in Passengers,
           checkIn'[p].status = "COMPLETED", checkIn'[p] # checkIn[p]
    PROVE  \E h \in CheckInHandlers : CompleteCheckIn(h) /\ request[h].passenger = p
<1> USE DEF storeVars, tableVars, redisVars, eventVars
<1>1. checkIn \in [Passengers -> CheckInRow]
  BY RowTypes
<1>2. ASSUME NEW s \in Seats, NEW q \in Passengers, TakeHold(s, q)
      PROVE  FALSE
  BY <1>1, <1>2 DEF TakeHold
<1>3. ASSUME NEW h \in CheckInHandlers, RequestNext(h)
      PROVE  CompleteCheckIn(h) /\ request[h].passenger = p
  <2>1. CASE CompleteCheckIn(h)
    BY <1>1, <2>1 DEF CompleteCheckIn
  <2>2. ASSUME ~At(h, "idle") PROVE request[h].passenger \in Passengers
    BY <2>2 DEF HoldInv, TypeInv, RequestInv, RequestsBound
  <2>3. CASE HoldSeat(h)
    <3>1. request[h].seat \in Seats
      BY <2>3 DEF HoldSeat, At, StartPCs, HoldInv, TypeInv, RequestInv, RequestsBound
    <3> QED BY <1>2, <2>2, <2>3, <3>1 DEF HoldSeat, At
  <2>4. CASE AwaitPayment(h)
    BY <1>1, <2>2, <2>4 DEF AwaitPayment, At, CheckInRow
  <2>5. CASE CancelTransaction(h)
    BY <1>1, <2>2, <2>5 DEF CancelTransaction, At, CheckInRow
  <2>6. ASSUME UNCHANGED checkIn PROVE FALSE
    BY <2>6
  <2> QED
    BY <1>3, <2>1, <2>3, <2>4, <2>5, <2>6
    DEF RequestNext, RequestArrives, RequestProceeds, StartCheckIn,
        ConfirmCheckIn, CancelCheckIn, AcquireSeatLock, SeatLockUnavailable,
        ReadSeatWithinLock, HoldSeatFails, SetHoldKey, EndStart, CheckHoldKey,
        PayExcessFee, DropHoldKey, EmitAfterCancel, LoseRequest
<1>4. ASSUME NEW h \in ExpiryHandlers, JobNext(h)
      PROVE  FALSE
  <2>1. CASE ReleaseSeat(h)
    BY <1>1, <2>1 DEF ReleaseSeat, CancelInProgress, CheckInRow
  <2>2. ASSUME UNCHANGED checkIn PROVE FALSE
    BY <2>2
  <2> QED
    BY <1>4, <2>1, <2>2
    DEF JobNext, JobProceeds, HandleHoldExpired, SweepExpiredHolds,
        AcquireReleaseLock, SkipRelease, ReadHeldSeat, ReleaseSeatFails,
        FindAssignedEntry, SaveExpiredEntry, EmitAfterRelease, EndRelease, LoseJob
<1>5. ASSUME NEW h \in WaitlistHandlers, RunNext(h)
      PROVE  FALSE
  <2>1. CASE AssignSeat(h)
    <3>1. run[h].seat \in Seats /\ run[h].passenger \in Passengers
      BY <2>1 DEF AssignSeat, RunAt, HoldInv, TypeInv, RunInv, RunsBound
    <3> QED BY <1>2, <2>1, <3>1 DEF AssignSeat
  <2>2. ASSUME UNCHANGED checkIn PROVE FALSE
    BY <2>2
  <2> QED
    BY <1>5, <2>1, <2>2
    DEF RunNext, RunProceeds, JoinWaitlist, LeaveWaitlist, ProcessWaitlist,
        InsertEntry, SaveCancelledEntry, AcquireWaitlistLock, SkipProcessing,
        ReadHead, ReadFreeSeat, AssignSeatFails, SetAssignedHoldKey,
        EndProcessing, LoseRun
<1>6. ASSUME TimePasses \/ (\E e \in Seats \cup {None} : LoseEvent(e)) \/ UNCHANGED vars
      PROVE  FALSE
  BY <1>6 DEF TimePasses, HoldFallsDue, HoldKeyExpires, SeatLockExpires,
              WaitlistLockExpires, LoseEvent, vars
<1> QED
  BY <1>3, <1>4, <1>5, <1>6 DEF Next, CheckInStep, ExpiryStep, WaitlistStep

\* How a handler comes to a confirmation: it has just read the check-in, or it
\* goes on with the same passenger, seat and baggage.
LEMMA ConfirmationSteps ==
    ASSUME HoldInv, [Next]_vars, NEW h \in CheckInHandlers,
           request'[h].pc \in ConfirmPCs
    PROVE  \/ \E p \in Passengers, b \in DeclaredBaggage :
                /\ ConfirmCheckIn(h, p, b)
                /\ request'[h] = [pc |-> "checkHold", passenger |-> p,
                                  seat |-> checkIn[p].seat, baggage |-> b, paid |-> FALSE]
           \/ request'[h] = request[h]
           \/ /\ \/ At(h, "checkHold") /\ request'[h].pc = "completeTx"
                                       /\ request[h].baggage # "excess"
                 \/ At(h, "checkHold") /\ request'[h].pc = "awaitPayment"
                                       /\ request[h].baggage = "excess"
                 \/ At(h, "awaitPayment") /\ request'[h].pc = "pay"
                 \/ At(h, "pay") /\ request'[h].pc = "completeTx" /\ request'[h].paid
                 \/ At(h, "completeTx") /\ request'[h].pc = "dropKey"
              /\ request'[h].passenger = request[h].passenger
              /\ request'[h].seat = request[h].seat
              /\ request'[h].baggage = request[h].baggage
<1>1. request \in [CheckInHandlers -> RequestState]
  BY DEF HoldInv, TypeInv, RequestInv, RequestTypeOK
<1>2. ASSUME NEW g \in CheckInHandlers, RequestNext(g), g # h
      PROVE  request'[h] = request[h]
  BY <1>2, OthersStay
<1>3. ASSUME Respond(h) PROVE FALSE
  BY <1>1, <1>3 DEF Respond, NoRequest, ConfirmPCs
<1>4. ASSUME NEW pc, pc \notin ConfirmPCs, Goto(h, pc) PROVE FALSE
  BY <1>1, <1>4 DEF Goto, RequestState
<1>5. CASE RequestArrives(h)
  <2>1. ASSUME NEW p \in Passengers, NEW b \in DeclaredBaggage, ConfirmCheckIn(h, p, b)
        PROVE  request'[h] = [pc |-> "checkHold", passenger |-> p,
                              seat |-> checkIn[p].seat, baggage |-> b, paid |-> FALSE]
    BY <1>1, <2>1 DEF ConfirmCheckIn, Accept
  <2>2. ASSUME NEW p \in Starters, NEW s \in Seats, StartCheckIn(h, p, s)
        PROVE  FALSE
    BY <1>1, <2>2 DEF StartCheckIn, Accept, ConfirmPCs
  <2>3. ASSUME NEW p \in Cancellers, CancelCheckIn(h, p)
        PROVE  FALSE
    BY <1>1, <2>3 DEF CancelCheckIn, Accept, ConfirmPCs
  <2> QED BY <1>5, <2>1, <2>2, <2>3 DEF RequestArrives
<1>6. CASE \/ AcquireSeatLock(h) \/ SeatLockUnavailable(h) \/ ReadSeatWithinLock(h)
           \/ HoldSeat(h) \/ HoldSeatFails(h) \/ SetHoldKey(h) \/ EndStart(h)
           \/ CancelTransaction(h) \/ DropHoldKey(h) \/ EmitAfterCancel(h)
           \/ LoseRequest(h)
  <2>1. {"readSeat", "holdTx", "releaseLock", "setHoldKey", "dropKeyAndEmit", "emit"}
            \cap ConfirmPCs = {}
    BY DEF ConfirmPCs
  <2>2. CASE ReadSeatWithinLock(h)
    BY <1>4, <2>1, <2>2 DEF ReadSeatWithinLock
  <2>3. CASE \/ SeatLockUnavailable(h) \/ EndStart(h) \/ EmitAfterCancel(h)
             \/ LoseRequest(h)
    BY <1>3, <2>3 DEF SeatLockUnavailable, EndStart, EmitAfterCancel, LoseRequest
  <2>4. CASE \/ AcquireSeatLock(h) \/ HoldSeat(h) \/ HoldSeatFails(h)
             \/ SetHoldKey(h) \/ CancelTransaction(h)
    BY <1>4, <2>1, <2>4
    DEF AcquireSeatLock, HoldSeat, HoldSeatFails, SetHoldKey, CancelTransaction
  <2>5. CASE DropHoldKey(h)
    BY <1>3, <1>4, <2>1, <2>5 DEF DropHoldKey
  <2> QED BY <1>6, <2>2, <2>3, <2>4, <2>5
<1>7. CASE CheckHoldKey(h)
  <2>1. ValidateBaggage(h) /\ At(h, "checkHold")
    BY <1>3, <1>7 DEF CheckHoldKey
  <2> QED BY <1>1, <2>1 DEF ValidateBaggage, Goto, RequestState
<1>8. CASE AwaitPayment(h) \/ CompleteCheckIn(h)
  <2>1. request[h] \in RequestState
    BY <1>1
  <2>2. \/ At(h, "awaitPayment") /\ request'[h] = [request[h] EXCEPT !.pc = "pay"]
        \/ At(h, "completeTx") /\ request'[h] = [request[h] EXCEPT !.pc = "dropKey"]
    BY <1>1, <1>8 DEF AwaitPayment, CompleteCheckIn, Goto
  <2> QED BY <2>1, <2>2 DEF RequestState
<1>9. CASE PayExcessFee(h)
  BY <1>1, <1>3, <1>9 DEF PayExcessFee, RequestState
<1>10. CASE UNCHANGED request
  BY <1>10
<1> QED
  BY <1>2, <1>5, <1>6, <1>7, <1>8, <1>9, <1>10
  DEF Next, CheckInStep, RequestNext, RequestProceeds, vars

----------------------------------------------------------------------------
(* Excess baggage.                                                          *)

\* A confirmation with excess baggage completes only after its own payment.
RequestsPaid ==
    \A h \in CheckInHandlers :
        At(h, "completeTx") /\ request[h].baggage = "excess" => request[h].paid

PaidInv == HoldInv /\ RequestsPaid /\ ExcessBaggageIsPaid

\* PaidInv is inductive.
LEMMA PaidStep ==
    ASSUME PaidInv, [Next]_vars
    PROVE  PaidInv'
<1>1. HoldInv'
  BY StepHolds DEF PaidInv
<1>2. RequestsPaid'
  <2> SUFFICES ASSUME NEW h \in CheckInHandlers, request'[h].pc = "completeTx",
                      request'[h].baggage = "excess"
               PROVE  request'[h].paid
    BY DEF RequestsPaid, At
  <2>1. request'[h].pc \in ConfirmPCs
    BY DEF ConfirmPCs
  <2>2. HoldInv
    BY DEF PaidInv
  <2>3. \/ \E p \in Passengers, b \in DeclaredBaggage :
              request'[h] = [pc |-> "checkHold", passenger |-> p,
                             seat |-> checkIn[p].seat, baggage |-> b, paid |-> FALSE]
        \/ request'[h] = request[h]
        \/ request[h].baggage # "excess" /\ request'[h].baggage = request[h].baggage
        \/ request'[h].paid
    BY <2>1, <2>2, ConfirmationSteps
  <2>4. ASSUME NEW p, NEW b,
               request'[h] = [pc |-> "checkHold", passenger |-> p,
                              seat |-> checkIn[p].seat, baggage |-> b, paid |-> FALSE]
        PROVE  FALSE
    BY <2>4
  <2> QED BY <2>3, <2>4 DEF PaidInv, RequestsPaid, At
<1>3. ASSUME NEW p \in Passengers,
             checkIn'[p].status = "COMPLETED", checkIn'[p].baggage = "excess"
      PROVE  checkIn'[p].paid
  <2>1. CASE checkIn'[p] = checkIn[p]
    BY <1>3, <2>1 DEF PaidInv, ExcessBaggageIsPaid
  <2>2. CASE checkIn'[p] # checkIn[p]
    <3>1. PICK h \in CheckInHandlers : CompleteCheckIn(h) /\ request[h].passenger = p
      BY <1>3, <2>2, CompletionsAreRequests DEF PaidInv
    <3>2. /\ checkIn'[p].baggage = request[h].baggage
          /\ checkIn'[p].paid = request[h].paid
          /\ At(h, "completeTx")
      BY <3>1, RowTypes DEF CompleteCheckIn, CheckInRow, PaidInv
    <3> QED BY <1>3, <3>2 DEF PaidInv, RequestsPaid
  <2> QED BY <2>1, <2>2
<1> QED BY <1>1, <1>2, <1>3 DEF PaidInv, ExcessBaggageIsPaid

\* handleExcessBaggage completes a check-in with excess baggage only after its
\* payment, whatever other confirmations of the check-in do meanwhile.
THEOREM ExcessBaggagePaid == Spec => []ExcessBaggageIsPaid
<1>1. Init => PaidInv
  <2> SUFFICES ASSUME Init PROVE PaidInv
    OBVIOUS
  <2>1. RequestsPaid /\ ExcessBaggageIsPaid
    BY DEF Init, RequestInit, StoreInit, NoRequest, NoCheckIn, RequestsPaid, At,
           ExcessBaggageIsPaid
  <2> QED BY <2>1, InitHolds DEF PaidInv
<1>2. PaidInv /\ [Next]_vars => PaidInv'
  BY PaidStep
<1>3. PaidInv => ExcessBaggageIsPaid
  BY DEF PaidInv
<1> QED BY <1>1, <1>2, <1>3, PTL DEF Spec

----------------------------------------------------------------------------
(* Orderly clients.                                                         *)

\* While a request is under way its hold lasts, or it cancels what is completed:
\* no release, and no request but itself, has changed the rows it will write.
RequestsInOrder ==
    \A h \in CheckInHandlers : UnderWay(h) =>
        \/ HoldLasts(request[h].passenger)
        \/ At(h, "cancelTx") /\ checkIn[request[h].passenger].status = "COMPLETED"

OneUnderWay ==
    \A g, h \in CheckInHandlers :
        UnderWay(g) /\ UnderWay(h) /\ g # h => request[g].passenger # request[h].passenger

OrderInv == HoldInv /\ CompletedCheckInOwnsSeat /\ RequestsInOrder /\ OneUnderWay

\* The kinds of steps, with the request whose last write a completion or a
\* cancellation is.
Writes(h) ==
    /\ UnderWay(h) /\ ~UnderWay(h)'
    /\ \/ Cancels(request[h].passenger)
       \/ At(h, "completeTx") /\
          \E b \in Baggage, paid \in BOOLEAN : Completes(request[h].passenger, b, paid)

OrderlyStep ==
    \/ \E s \in Seats, p \in Passengers : Holds(s, p) \/ Releases(s, p)
    \/ \E h \in CheckInHandlers :
        \/ Writes(h)
        \/ At(h, "awaitPayment") /\ AwaitsPayment(request[h].passenger)
    \/ \E s \in Seats : FallsDue(s) /\ HandledInTime(s)
    \/ UNCHANGED <<seat, checkIn, releases>>

\* Every step is of one of these kinds.
LEMMA OrderlyStepKinds ==
    ASSUME OrderlyClients, HoldInv, [Next]_vars
    PROVE  OrderlyStep
<1> USE DEF storeVars, tableVars, redisVars, eventVars
<1>1. ASSUME NEW h \in CheckInHandlers, RequestNext(h)
      PROVE  OrderlyStep
  <2> DEFINE p == request[h].passenger
  <2>1. CASE HoldSeat(h)
    <3>1. request[h].seat \in Seats /\ p \in Passengers
      BY <2>1 DEF HoldSeat, At, StartPCs, HoldInv, TypeInv, RequestInv, RequestsBound
    <3>2. Holds(request[h].seat, p)
      BY <2>1 DEF HoldSeat, Holds, CheckInIsUnique
    <3> QED BY <3>1, <3>2 DEF OrderlyStep
  <2>2. ASSUME UnderWay(h)
        PROVE  HasCheckIn(p) /\ request[h].seat = checkIn[p].seat
    BY <2>2 DEF UnderWay, ConfirmPCs, CancelPCs, HoldInv, RequestsMatch
  <2>3. ASSUME NEW pc \in {"dropKey", "dropKeyAndEmit"}, Goto(h, pc)
        PROVE  ~UnderWay(h)'
    <3>1. request \in [CheckInHandlers -> RequestState]
      BY DEF HoldInv, TypeInv, RequestInv, RequestTypeOK
    <3> QED BY <3>1, <2>3 DEF Goto, UnderWay, RequestState
  <2>4. CASE CompleteCheckIn(h)
    <3>1. UnderWay(h) /\ At(h, "completeTx") /\ ~UnderWay(h)'
      BY <2>3, <2>4 DEF CompleteCheckIn, At, UnderWay
    <3>2. request[h].baggage \in Baggage /\ request[h].paid \in BOOLEAN
      BY DEF HoldInv, TypeInv, RequestInv, RequestTypeOK, RequestState
    <3>3. Completes(p, request[h].baggage, request[h].paid)
      BY <2>2, <2>4, <3>1 DEF CompleteCheckIn, Completes
    <3> QED BY <3>1, <3>2, <3>3 DEF Writes, OrderlyStep
  <2>5. CASE CancelTransaction(h)
    <3>1. UnderWay(h) /\ ~UnderWay(h)'
      BY <2>3, <2>5 DEF CancelTransaction, At, UnderWay
    <3>2. Cancels(p)
      BY <2>2, <2>5, <3>1 DEF CancelTransaction, Cancels
    <3> QED BY <3>1, <3>2 DEF Writes, OrderlyStep
  <2>6. CASE AwaitPayment(h)
    BY <2>2, <2>6 DEF AwaitPayment, At, UnderWay, AwaitsPayment, OrderlyStep
  <2>7. CASE UNCHANGED <<seat, checkIn, releases>>
    BY <2>7 DEF OrderlyStep
  <2> QED
    BY <1>1, <2>1, <2>4, <2>5, <2>6, <2>7
    DEF RequestNext, RequestArrives, RequestProceeds, StartCheckIn,
        ConfirmCheckIn, CancelCheckIn, AcquireSeatLock, SeatLockUnavailable,
        ReadSeatWithinLock, HoldSeatFails, SetHoldKey, EndStart, CheckHoldKey,
        PayExcessFee, DropHoldKey, EmitAfterCancel, LoseRequest
<1>2. ASSUME NEW h \in ExpiryHandlers, JobNext(h)
      PROVE  OrderlyStep
  <2>1. CASE ReleaseSeat(h)
    <3>1. job[h].seat \in Seats /\ job[h].owner \in Passengers
      BY <2>1 DEF ReleaseSeat, JobAt, HoldInv, TypeInv, JobInv, JobsBound
    <3>2. Releases(job[h].seat, job[h].owner)
      BY <2>1 DEF ReleaseSeat, StillHeld, JobAt, HoldInv, JobsMatch, HeldBy, Releases
    <3> QED BY <3>1, <3>2 DEF OrderlyStep
  <2>2. CASE UNCHANGED <<seat, checkIn, releases>>
    BY <2>2 DEF OrderlyStep
  <2> QED
    BY <1>2, <2>1, <2>2
    DEF JobNext, JobProceeds, HandleHoldExpired, SweepExpiredHolds,
        AcquireReleaseLock, SkipRelease, ReadHeldSeat, ReleaseSeatFails,
        FindAssignedEntry, SaveExpiredEntry, EmitAfterRelease, EndRelease,
        LoseJob
<1>3. ASSUME NEW h \in WaitlistHandlers, RunNext(h)
      PROVE  OrderlyStep
  <2>1. CASE AssignSeat(h)
    <3>1. run[h].seat \in Seats /\ run[h].passenger \in Passengers
      BY <2>1 DEF AssignSeat, RunAt, HoldInv, TypeInv, RunInv, RunsBound
    <3>2. Holds(run[h].seat, run[h].passenger)
      BY <2>1 DEF AssignSeat, Holds, CheckInIsUnique
    <3> QED BY <3>1, <3>2 DEF OrderlyStep
  <2>2. CASE UNCHANGED <<seat, checkIn, releases>>
    BY <2>2 DEF OrderlyStep
  <2> QED
    BY <1>3, <2>1, <2>2
    DEF RunNext, RunProceeds, JoinWaitlist, LeaveWaitlist, ProcessWaitlist,
        InsertEntry, SaveCancelledEntry, AcquireWaitlistLock, SkipProcessing,
        ReadHead, ReadFreeSeat, AssignSeatFails, SetAssignedHoldKey,
        EndProcessing, LoseRun
<1>4. CASE TimePasses
  BY <1>4
  DEF TimePasses, HoldFallsDue, HoldKeyExpires, SeatLockExpires,
      WaitlistLockExpires, FallsDue, OrderlyStep
<1>5. CASE (\E e \in Seats \cup {None} : LoseEvent(e)) \/ UNCHANGED vars
  BY <1>5 DEF LoseEvent, vars, OrderlyStep
<1> QED
  BY <1>1, <1>2, <1>3, <1>4, <1>5
  DEF Next, CheckInStep, ExpiryStep, WaitlistStep

\* They are kinds of steps of the system with any clients.
LEMMA OrderlyStepIsRowsStep ==
    ASSUME HoldInv, OrderlyStep
    PROVE  RowsStep
<1>1. ASSUME NEW h \in CheckInHandlers, UnderWay(h)
      PROVE  request[h].passenger \in Passengers
  BY <1>1 DEF HoldInv, TypeInv, RequestInv, RequestsBound, At, UnderWay
<1>2. ASSUME NEW h \in CheckInHandlers, Writes(h)
      PROVE  RowsStep
  BY <1>1, <1>2 DEF Writes, RowsStep
<1>3. ASSUME NEW h \in CheckInHandlers, At(h, "awaitPayment"),
             AwaitsPayment(request[h].passenger)
      PROVE  RowsStep
  BY <1>1, <1>3 DEF At, UnderWay, RowsStep
<1>4. CASE \E s \in Seats, p \in Passengers : Holds(s, p) \/ Releases(s, p)
  BY <1>4 DEF RowsStep
<1>5. CASE (\E s \in Seats : FallsDue(s)) \/ UNCHANGED <<seat, checkIn, releases>>
  BY <1>5 DEF RowsStep
<1> QED BY <1>2, <1>3, <1>4, <1>5 DEF OrderlyStep

\* A handler comes to a cancellation from the request only.
LEMMA CancellationSteps ==
    ASSUME HoldInv, [Next]_vars, NEW h \in CheckInHandlers,
           request'[h].pc = "cancelTx"
    PROVE  \/ request'[h] = request[h]
           \/ \E p \in Cancellers : CancelCheckIn(h, p) /\ request'[h].passenger = p
<1>1. request \in [CheckInHandlers -> RequestState]
  BY DEF HoldInv, TypeInv, RequestInv, RequestTypeOK
<1>2. ASSUME NEW g \in CheckInHandlers, RequestNext(g), g # h
      PROVE  request'[h] = request[h]
  BY <1>2, OthersStay
<1>3. CASE RequestArrives(h)
  <2>1. ASSUME NEW p \in Passengers, NEW b \in DeclaredBaggage, ConfirmCheckIn(h, p, b)
        PROVE  FALSE
    BY <1>1, <2>1 DEF ConfirmCheckIn, Accept
  <2>2. ASSUME NEW p \in Starters, NEW s \in Seats, StartCheckIn(h, p, s)
        PROVE  FALSE
    BY <1>1, <2>2 DEF StartCheckIn, Accept
  <2>3. ASSUME NEW p \in Cancellers, CancelCheckIn(h, p)
        PROVE  request'[h].passenger = p
    BY <1>1, <2>3 DEF CancelCheckIn, Accept
  <2> QED BY <1>3, <2>1, <2>2, <2>3 DEF RequestArrives
<1>4. CASE RequestProceeds(h) \/ LoseRequest(h)
  BY <1>1, <1>4, RequestGoesOn DEF NoRequest
<1>5. CASE UNCHANGED request
  BY <1>5
<1> QED BY <1>2, <1>3, <1>4, <1>5 DEF Next, CheckInStep, RequestNext, vars

\* A request is under way because it was, or because it has just been sent: alone
\* of its passenger, and for a hold that lasts or a completed check-in.
LEMMA UnderWaySteps ==
    ASSUME OrderlyClients, HoldInv, [Next]_vars, NEW h \in CheckInHandlers,
           UnderWay(h)'
    PROVE  \/ /\ UnderWay(h)
              /\ request'[h].passenger = request[h].passenger
              /\ At(h, "cancelTx") => At(h, "cancelTx")'
           \/ /\ UNCHANGED <<seat, checkIn, releases>>
              /\ \A g \in CheckInHandlers : g # h => request'[g] = request[g]
              /\ Waited(request'[h].passenger)
              /\ \/ HoldLasts(request'[h].passenger)
                 \/ /\ At(h, "cancelTx")'
                    /\ checkIn[request'[h].passenger].status = "COMPLETED"
<1> USE DEF storeVars, tableVars
<1>1. request \in [CheckInHandlers -> RequestState]
  BY DEF HoldInv, TypeInv, RequestInv, RequestTypeOK
<1>2. CASE request'[h] = request[h]
  BY <1>2 DEF UnderWay, At
<1>3. ASSUME NEW p, NEW b, ConfirmCheckIn(h, p, b), request'[h].passenger = p
      PROVE  /\ UNCHANGED <<seat, checkIn, releases>>
             /\ \A g \in CheckInHandlers : g # h => request'[g] = request[g]
             /\ Waited(p) /\ HoldLasts(p)
  BY <1>1, <1>3 DEF ConfirmCheckIn, Accept
<1>4. ASSUME NEW p, CancelCheckIn(h, p), request'[h].passenger = p
      PROVE  /\ UNCHANGED <<seat, checkIn, releases>>
             /\ \A g \in CheckInHandlers : g # h => request'[g] = request[g]
             /\ Waited(p)
             /\ HoldLasts(p) \/ checkIn[p].status = "COMPLETED"
  BY <1>1, <1>4 DEF CancelCheckIn, Accept
<1>5. CASE request'[h].pc = "cancelTx"
  BY <1>2, <1>4, <1>5, CancellationSteps DEF At
<1>6. CASE request'[h].pc # "cancelTx"
  <2>1. request'[h].pc \in ConfirmPCs
    BY <1>6 DEF UnderWay, ConfirmPCs
  <2>2. request'[h].pc # "dropKey"
    BY DEF UnderWay
  <2>3. CASE \E p \in Passengers, b \in DeclaredBaggage :
                /\ ConfirmCheckIn(h, p, b)
                /\ request'[h] = [pc |-> "checkHold", passenger |-> p,
                                  seat |-> checkIn[p].seat, baggage |-> b, paid |-> FALSE]
    BY <1>3, <2>3
  <2>4. CASE /\ \/ At(h, "checkHold") \/ At(h, "awaitPayment") \/ At(h, "pay")
             /\ request'[h].passenger = request[h].passenger
    BY <2>4 DEF At, UnderWay
  <2> QED BY <1>2, <2>1, <2>2, <2>3, <2>4, ConfirmationSteps
<1> QED BY <1>5, <1>6

\* The seat a request under way will write belongs to its passenger: the hold, or
\* the completed check-in.
LEMMA UnderWayOwns ==
    ASSUME OrderInv, NEW h \in CheckInHandlers, UnderWay(h)
    PROVE  LET p == request[h].passenger
               s == checkIn[p].seat
           IN  /\ p \in Passengers /\ s \in Seats /\ s = request[h].seat
               /\ seat[s].heldBy = p
               /\ \/ /\ seat[s].status = "HELD" /\ seat[s].heldAt = "recent"
                     /\ IsActive(checkIn[p].status)
                  \/ /\ seat[s].status = "CONFIRMED" /\ At(h, "cancelTx")
                     /\ checkIn[p].status = "COMPLETED"
<1> DEFINE p == request[h].passenger
           s == checkIn[p].seat
<1>1. p \in Passengers
  BY DEF OrderInv, HoldInv, TypeInv, RequestInv, RequestsBound, At, UnderWay
<1>2. HasCheckIn(p) /\ s = request[h].seat
  BY DEF OrderInv, HoldInv, RequestsMatch, UnderWay, ConfirmPCs, CancelPCs
<1>3. s \in Seats
  BY <1>1, <1>2 DEF OrderInv, HoldInv, CheckInsHaveSeats
<1>4. CASE HoldLasts(p)
  BY <1>1, <1>2, <1>3, <1>4
  DEF HoldLasts, HeldBy, OrderInv, HoldInv, HeldSeatHasActiveCheckIn
<1>5. CASE At(h, "cancelTx") /\ checkIn[p].status = "COMPLETED"
  BY <1>1, <1>2, <1>3, <1>5 DEF OrderInv, CompletedCheckInOwnsSeat
<1> QED BY <1>4, <1>5 DEF OrderInv, RequestsInOrder

\* Only its own request, one under way, writes to a passenger's completed check-in
\* and to its seat.
LEMMA OwnsSeatStep ==
    ASSUME OrderInv, OrderlyStep
    PROVE  CompletedCheckInOwnsSeat'
<1> SUFFICES ASSUME NEW p \in Passengers, checkIn'[p].status = "COMPLETED"
             PROVE  /\ seat'[checkIn'[p].seat].status = "CONFIRMED"
                    /\ seat'[checkIn'[p].seat].heldBy = p
  BY DEF CompletedCheckInOwnsSeat
<1>0. seat \in [Seats -> SeatRow] /\ checkIn \in [Passengers -> CheckInRow]
  BY RowTypes DEF OrderInv
<1>1. checkIn[p].status = "COMPLETED" =>
        /\ checkIn[p].seat \in Seats
        /\ seat[checkIn[p].seat].status = "CONFIRMED"
        /\ seat[checkIn[p].seat].heldBy = p
  BY DEF OrderInv, CompletedCheckInOwnsSeat, HoldInv, CheckInsHaveSeats, HasCheckIn
<1>2. CASE \E s \in Seats, q \in Passengers : Holds(s, q)
  <2>1. PICK s \in Seats, q \in Passengers : Holds(s, q)
    BY <1>2
  <2>2. checkIn'[p] = checkIn[p]
    BY <1>0, <2>1 DEF Holds, TakeHold
  <2>3. s # checkIn[p].seat
    BY <1>1, <2>1, <2>2 DEF Holds, SeatIsFree
  <2> QED BY <1>0, <1>1, <2>1, <2>2, <2>3 DEF Holds, TakeHold
<1>3. CASE \E s \in Seats, q \in Passengers : Releases(s, q)
  <2>1. PICK s \in Seats, q \in Passengers : Releases(s, q)
    BY <1>3
  <2>2. checkIn'[p] = checkIn[p]
    BY <1>0, <2>1 DEF Releases, CancelInProgress, CheckInRow
  <2>3. s # checkIn[p].seat
    BY <1>1, <2>1, <2>2 DEF Releases, HeldBy
  <2> QED BY <1>0, <1>1, <2>1, <2>2, <2>3 DEF Releases
<1>4. ASSUME NEW h \in CheckInHandlers, UnderWay(h), Cancels(request[h].passenger)
      PROVE  /\ checkIn'[p] = checkIn[p]
             /\ seat'[checkIn[p].seat] = seat[checkIn[p].seat]
  <2> DEFINE q == request[h].passenger
  <2>1. q \in Passengers /\ checkIn[q].seat \in Seats /\ seat[checkIn[q].seat].heldBy = q
    BY <1>4, UnderWayOwns
  <2>2. /\ checkIn'[q].status = "CANCELLED"
        /\ \A r \in Passengers : r # q => checkIn'[r] = checkIn[r]
        /\ \A t \in Seats : t # checkIn[q].seat => seat'[t] = seat[t]
    BY <1>0, <1>4, <2>1, CancelsWrites
  <2>3. p # q
    BY <2>2
  <2> QED BY <1>1, <2>1, <2>2, <2>3
<1>5. ASSUME NEW h \in CheckInHandlers, At(h, "completeTx"), UnderWay(h),
             NEW b \in Baggage, NEW paid \in BOOLEAN,
             Completes(request[h].passenger, b, paid)
      PROVE  /\ checkIn'[p].seat = checkIn[p].seat
             /\ \/ /\ p = request[h].passenger
                   /\ seat'[checkIn[p].seat].status = "CONFIRMED"
                   /\ seat'[checkIn[p].seat].heldBy = p
                \/ /\ checkIn'[p] = checkIn[p]
                   /\ seat'[checkIn[p].seat] = seat[checkIn[p].seat]
  <2> DEFINE q == request[h].passenger
  <2>1. /\ q \in Passengers /\ checkIn[q].seat \in Seats
        /\ seat[checkIn[q].seat].heldBy = q
    BY <1>5, UnderWayOwns
  <2>2. /\ checkIn'[q].seat = checkIn[q].seat
        /\ \A r \in Passengers : r # q => checkIn'[r] = checkIn[r]
        /\ seat'[checkIn[q].seat].status = "CONFIRMED"
        /\ seat'[checkIn[q].seat].heldBy = q
        /\ \A t \in Seats : t # checkIn[q].seat => seat'[t] = seat[t]
    <3>1. PICK s : s = checkIn[q].seat
      OBVIOUS
    <3>2. s \in Seats /\ q \in Passengers /\ Completes(q, b, paid)
      BY <1>5, <2>1, <3>1
    <3>3. /\ checkIn'[q].seat = s
          /\ \A r \in Passengers : r # q => checkIn'[r] = checkIn[r]
          /\ seat'[s].status = "CONFIRMED" /\ seat'[s].heldBy = seat[s].heldBy
          /\ \A t \in Seats : t # s => seat'[t] = seat[t]
      <4> HIDE DEF q
      <4> QED BY <1>0, <3>1, <3>2, CompletesWrites
    <3> QED BY <2>1, <3>1, <3>3
  <2>3. p # q => checkIn[p].seat # checkIn[q].seat /\ checkIn[p].seat \in Seats
    BY <1>1, <2>1, <2>2
  <2> QED BY <2>2, <2>3
<1>6. ASSUME NEW h \in CheckInHandlers, At(h, "awaitPayment"),
             AwaitsPayment(request[h].passenger)
      PROVE  checkIn'[p] = checkIn[p] /\ seat' = seat
  <2>1. request[h].passenger \in Passengers
    BY <1>6, UnderWayOwns DEF UnderWay, At
  <2> DEFINE q == request[h].passenger
  <2>2. /\ checkIn'[q].status = "AWAITING_PAYMENT"
        /\ \A r \in Passengers : r # q => checkIn'[r] = checkIn[r]
        /\ seat' = seat
    BY <1>0, <1>6, <2>1, AwaitsPaymentWrites
  <2> QED BY <2>2
<1>7. CASE \E s \in Seats : FallsDue(s)
  BY <1>0, <1>1, <1>7 DEF FallsDue, SeatRow
<1>8. CASE UNCHANGED <<seat, checkIn, releases>>
  BY <1>1, <1>8
<1>9. CASE \E h \in CheckInHandlers : Writes(h)
  <2>1. PICK h \in CheckInHandlers : Writes(h)
    BY <1>9
  <2> QED BY <1>1, <1>4, <1>5, <2>1 DEF Writes
<1> QED BY <1>1, <1>2, <1>3, <1>6, <1>7, <1>8, <1>9 DEF OrderlyStep

\* What a request under way relies on is changed by itself only: other requests
\* write other seats, and its hold neither falls due nor is released.
LEMMA UnderWayStays ==
    ASSUME OrderInv, OrderlyStep, NEW h \in CheckInHandlers, UnderWay(h), UnderWay(h)',
           NEW p, p = request[h].passenger
    PROVE  \/ HoldLasts(p)'
           \/ At(h, "cancelTx") /\ checkIn'[p].status = "COMPLETED"
<1> DEFINE s == checkIn[p].seat
<1>0. seat \in [Seats -> SeatRow] /\ checkIn \in [Passengers -> CheckInRow]
  BY RowTypes DEF OrderInv
<1>1. /\ p \in Passengers /\ s \in Seats /\ s = request[h].seat
      /\ seat[s].heldBy = p
      /\ \/ /\ seat[s].status = "HELD" /\ seat[s].heldAt = "recent"
            /\ IsActive(checkIn[p].status)
         \/ /\ seat[s].status = "CONFIRMED" /\ At(h, "cancelTx")
            /\ checkIn[p].status = "COMPLETED"
  BY UnderWayOwns
<1>2. SUFFICES /\ checkIn'[p].seat = s
               /\ seat'[s] = seat[s]
               /\ checkIn[p].status = "COMPLETED" => checkIn'[p].status = "COMPLETED"
  BY <1>1, <1>2 DEF HoldLasts, HeldBy, IsActive
<1>3. ASSUME NEW t \in Seats, NEW q \in Passengers, Holds(t, q)
      PROVE  t # s /\ q # p /\ checkIn'[p] = checkIn[p] /\ seat'[s] = seat[s]
  <2>1. t # s /\ q # p
    BY <1>1, <1>3 DEF Holds, SeatIsFree, HasCheckIn, IsActive
  <2> QED BY <1>0, <1>1, <1>3, <2>1 DEF Holds, TakeHold
<1>4. ASSUME NEW t \in Seats, NEW q \in Passengers, Releases(t, q)
      PROVE  /\ checkIn'[p].seat = s /\ seat'[s] = seat[s]
             /\ checkIn[p].status = "COMPLETED" => checkIn'[p].status = "COMPLETED"
  <2>1. t # s
    BY <1>1, <1>4 DEF Releases, HeldBy
  <2>2. /\ checkIn'[p].seat = s
        /\ checkIn[p].status = "COMPLETED" => checkIn'[p].status = "COMPLETED"
    BY <1>0, <1>1, <1>4 DEF Releases, CancelInProgress, CheckInRow
  <2> QED BY <1>0, <1>1, <1>4, <2>1, <2>2 DEF Releases
<1>5. ASSUME NEW g \in CheckInHandlers, Writes(g)
      PROVE  checkIn'[p] = checkIn[p] /\ seat'[s] = seat[s]
  <2> DEFINE q == request[g].passenger
  <2>1. UnderWay(g) /\ q # p
    BY <1>5 DEF Writes, OrderInv, OneUnderWay
  <2>2. q \in Passengers /\ checkIn[q].seat \in Seats /\ checkIn[q].seat # s
    BY <1>1, <2>1, UnderWayOwns
  <2>3. CASE Cancels(q)
    BY <1>0, <1>1, <2>1, <2>2, <2>3, CancelsWrites
  <2>4. CASE \E b \in Baggage, paid \in BOOLEAN : Completes(q, b, paid)
    BY <1>0, <1>1, <2>1, <2>2, <2>4, CompletesWrites
  <2> QED BY <1>5, <2>3, <2>4 DEF Writes
<1>6. ASSUME NEW g \in CheckInHandlers, At(g, "awaitPayment"),
             AwaitsPayment(request[g].passenger)
      PROVE  /\ checkIn'[p].seat = s /\ seat'[s] = seat[s]
             /\ checkIn[p].status = "COMPLETED" => checkIn'[p].status = "COMPLETED"
  <2> DEFINE q == request[g].passenger
  <2>1. q \in Passengers /\ checkIn[q].status # "COMPLETED"
    BY <1>6, UnderWayOwns DEF UnderWay, At, IsActive
  <2>2. /\ checkIn'[q].seat = checkIn[q].seat
        /\ \A r \in Passengers : r # q => checkIn'[r] = checkIn[r]
        /\ seat' = seat
    BY <1>0, <1>6, <2>1, AwaitsPaymentWrites
  <2> QED BY <1>1, <2>1, <2>2
<1>7. ASSUME NEW t \in Seats, FallsDue(t), HandledInTime(t)
      PROVE  checkIn'[p] = checkIn[p] /\ seat'[s] = seat[s]
  <2>1. t # s
    BY <1>1, <1>7 DEF HandledInTime
  <2> QED BY <1>0, <1>1, <1>7, <2>1 DEF FallsDue
<1> QED BY <1>1, <1>3, <1>4, <1>5, <1>6, <1>7 DEF OrderlyStep

\* OrderInv is inductive.
LEMMA OrderlyInvStep ==
    ASSUME OrderlyClients, OrderInv, [Next]_vars
    PROVE  OrderInv'
<1>1. HoldInv /\ HoldInv'
  BY StepHolds DEF OrderInv
<1>2. OrderlyStep
  BY <1>1, OrderlyStepKinds
<1>3. CompletedCheckInOwnsSeat'
  BY <1>2, OwnsSeatStep
<1>4. RequestsInOrder'
  <2> SUFFICES ASSUME NEW h \in CheckInHandlers, UnderWay(h)',
                      NEW q, q = request'[h].passenger
               PROVE  \/ HoldLasts(q)'
                      \/ At(h, "cancelTx")' /\ checkIn'[q].status = "COMPLETED"
    BY DEF RequestsInOrder, HoldLasts, HeldBy
  <2>1. CASE /\ UnderWay(h)
             /\ q = request[h].passenger
             /\ At(h, "cancelTx") => At(h, "cancelTx")'
    BY <1>2, <2>1, UnderWayStays
  <2>2. CASE /\ UNCHANGED <<seat, checkIn, releases>>
             /\ \/ HoldLasts(q)
                \/ At(h, "cancelTx")' /\ checkIn[q].status = "COMPLETED"
    BY <2>2 DEF HoldLasts, HeldBy
  <2> QED BY <1>1, <2>1, <2>2, UnderWaySteps
<1>5. OneUnderWay'
  <2> SUFFICES ASSUME NEW g \in CheckInHandlers, NEW h \in CheckInHandlers,
                      UnderWay(g)', UnderWay(h)', g # h
               PROVE  request'[g].passenger # request'[h].passenger
    BY DEF OneUnderWay
  <2>1. ASSUME NEW i \in CheckInHandlers, NEW j \in CheckInHandlers, i # j,
               UnderWay(i)', UnderWay(j)',
               \A k \in CheckInHandlers : k # j => request'[k] = request[k],
               Waited(request'[j].passenger)
        PROVE  request'[i].passenger # request'[j].passenger
    BY <2>1 DEF Waited, UnderWay
  <2>2. ASSUME NEW j \in CheckInHandlers, UnderWay(j)'
        PROVE  \/ UnderWay(j) /\ request'[j].passenger = request[j].passenger
               \/ /\ \A k \in CheckInHandlers : k # j => request'[k] = request[k]
                  /\ Waited(request'[j].passenger)
    BY <1>1, <2>2, UnderWaySteps
  <2> QED BY <2>1, <2>2 DEF OrderInv, OneUnderWay
<1> QED BY <1>1, <1>3, <1>4, <1>5 DEF OrderInv

\* OrderInv is an invariant.
LEMMA OrderHolds ==
    ASSUME OrderlyClients
    PROVE  Spec => []OrderInv
<1>1. Init => OrderInv
  <2> SUFFICES ASSUME Init PROVE OrderInv
    OBVIOUS
  <2>1. CompletedCheckInOwnsSeat /\ RequestsInOrder /\ OneUnderWay
    BY DEF Init, RequestInit, StoreInit, NoRequest, NoCheckIn, RequestsInOrder,
           OneUnderWay, UnderWay, CompletedCheckInOwnsSeat
  <2> QED BY <2>1, InitHolds DEF OrderInv
<1>2. OrderInv /\ [Next]_vars => OrderInv'
  BY OrderlyInvStep
<1> QED BY <1>1, <1>2, PTL DEF Spec

\* A completed check-in owns its seat: with orderly clients no release, and no
\* cancellation or confirmation of another check-in, takes the seat away between
\* the read of confirmCheckIn and its transaction.
THEOREM CompletedOwnsSeat ==
    ASSUME OrderlyClients
    PROVE  Spec => []CompletedCheckInOwnsSeat
<1>1. OrderInv => CompletedCheckInOwnsSeat
  BY DEF OrderInv
<1> QED BY <1>1, OrderHolds, PTL

\* No double booking, which the documentation promises and arbitrary clients break:
\* with orderly clients confirmCheckIn never completes two check-ins for one seat.
THEOREM NeverDoubleBooked ==
    ASSUME OrderlyClients
    PROVE  Spec => []NoDoubleBooking
<1>1. CompletedCheckInOwnsSeat => NoDoubleBooking
  BY DEF CompletedCheckInOwnsSeat, NoDoubleBooking
<1> QED BY <1>1, CompletedOwnsSeat, PTL

\* Holds are exclusive, which arbitrary clients break too: a hold whose window is
\* open ends only with the completion or the cancellation of its own passenger,
\* although cancelCheckIn frees the seat by its id whoever holds it.
THEOREM HoldsAreExclusive ==
    ASSUME OrderlyClients
    PROVE  Spec => HoldIsExclusive
<1> DEFINE EndsByOwner ==
      \A s \in Seats, p \in Passengers :
        HeldBy(s, p) /\ seat[s].heldAt = "recent" /\ ~HeldBy(s, p)'
            => checkIn'[p].status \in {"COMPLETED", "CANCELLED"}
<1>1. OrderInv /\ [Next]_vars => [EndsByOwner]_vars
  <2> SUFFICES ASSUME OrderInv, [Next]_vars, NEW s \in Seats, NEW p \in Passengers,
                      HeldBy(s, p), seat[s].heldAt = "recent", ~HeldBy(s, p)'
               PROVE  checkIn'[p].status \in {"COMPLETED", "CANCELLED"}
    OBVIOUS
  <2>0. seat \in [Seats -> SeatRow] /\ checkIn \in [Passengers -> CheckInRow]
    BY RowTypes DEF OrderInv
  <2>1. OrderlyStep
    BY OrderlyStepKinds DEF OrderInv
  <2>2. ASSUME NEW h \in CheckInHandlers, Writes(h)
        PROVE  checkIn'[p].status \in {"COMPLETED", "CANCELLED"}
    <3> DEFINE q == request[h].passenger
    <3>1. /\ q \in Passengers /\ checkIn[q].seat \in Seats
          /\ seat[checkIn[q].seat].heldBy = q
      BY <2>2, UnderWayOwns DEF Writes
    <3>2. /\ checkIn'[q].status \in {"COMPLETED", "CANCELLED"}
          /\ \A t \in Seats : t # checkIn[q].seat => seat'[t] = seat[t]
      <4>1. CASE Cancels(q)
        BY <2>0, <3>1, <4>1, CancelsWrites
      <4>2. CASE \E b \in Baggage, paid \in BOOLEAN : Completes(q, b, paid)
        <5> HIDE DEF q
        <5>1. PICK b \in Baggage, paid \in BOOLEAN : Completes(q, b, paid)
          BY <4>2
        <5> QED BY <2>0, <3>1, <5>1, CompletesWrites
      <4> QED BY <2>2, <4>1, <4>2 DEF Writes
    <3>3. checkIn[q].seat = s
      BY <3>2 DEF HeldBy
    <3> QED BY <3>1, <3>2, <3>3 DEF HeldBy
  <2>3. ASSUME NEW t \in Seats, NEW q \in Passengers, Holds(t, q) \/ Releases(t, q)
        PROVE  FALSE
    <3>1. t # s
      BY <2>3 DEF Holds, Releases, SeatIsFree, HeldBy
    <3>2. seat'[s] = seat[s]
      BY <2>0, <2>3, <3>1 DEF Holds, TakeHold, Releases
    <3> QED BY <3>2 DEF HeldBy
  <2>4. ASSUME NEW h \in CheckInHandlers, AwaitsPayment(request[h].passenger)
        PROVE  FALSE
    BY <2>4 DEF AwaitsPayment, HeldBy
  <2>5. ASSUME (\E t \in Seats : FallsDue(t)) \/ UNCHANGED <<seat, checkIn, releases>>
        PROVE  FALSE
    BY <2>0, <2>5 DEF FallsDue, HeldBy, SeatRow
  <2> QED BY <2>1, <2>2, <2>3, <2>4, <2>5 DEF OrderlyStep
<1> QED BY <1>1, OrderHolds, PTL DEF Spec, HoldIsExclusive

\* Check-ins change status along the documented arrows: with orderly clients the
\* UPDATE by id of a confirmation never revives a cancelled check-in, and neither
\* it nor the payment takes a completed one back.
THEOREM DocumentedLifecycle ==
    ASSUME OrderlyClients
    PROVE  Spec => CheckInLifecycle
<1> DEFINE Arrows ==
      \A p \in Passengers :
        checkIn[p].status # checkIn'[p].status =>
            <<checkIn[p].status, checkIn'[p].status>> \in
                {<<"NONE", "IN_PROGRESS">>,
                 <<"IN_PROGRESS", "COMPLETED">>,
                 <<"IN_PROGRESS", "AWAITING_PAYMENT">>,
                 <<"AWAITING_PAYMENT", "COMPLETED">>,
                 <<"IN_PROGRESS", "CANCELLED">>,
                 <<"AWAITING_PAYMENT", "CANCELLED">>,
                 <<"COMPLETED", "CANCELLED">>}
<1>1. OrderInv /\ [Next]_vars => [Arrows]_vars
  <2> SUFFICES ASSUME OrderInv, [Next]_vars, NEW p \in Passengers,
                      checkIn[p].status # checkIn'[p].status
               PROVE  <<checkIn[p].status, checkIn'[p].status>> \in
                        {<<"NONE", "IN_PROGRESS">>,
                         <<"IN_PROGRESS", "COMPLETED">>,
                         <<"IN_PROGRESS", "AWAITING_PAYMENT">>,
                         <<"AWAITING_PAYMENT", "COMPLETED">>,
                         <<"IN_PROGRESS", "CANCELLED">>,
                         <<"AWAITING_PAYMENT", "CANCELLED">>,
                         <<"COMPLETED", "CANCELLED">>}
    OBVIOUS
  <2>0. seat \in [Seats -> SeatRow] /\ checkIn \in [Passengers -> CheckInRow]
    BY RowTypes DEF OrderInv
  <2>1. OrderlyStep
    BY OrderlyStepKinds DEF OrderInv
  <2>2. ASSUME NEW s \in Seats, NEW q \in Passengers, Holds(s, q)
        PROVE  checkIn[p].status = "NONE" /\ checkIn'[p].status = "IN_PROGRESS"
    BY <2>0, <2>2 DEF Holds, TakeHold, HasCheckIn
  <2>3. ASSUME NEW s \in Seats, NEW q \in Passengers, Releases(s, q)
        PROVE  checkIn[p].status = "IN_PROGRESS" /\ checkIn'[p].status = "CANCELLED"
    BY <2>0, <2>3 DEF Releases, CancelInProgress, CheckInRow
  <2>4. ASSUME NEW h \in CheckInHandlers, Writes(h)
        PROVE  \/ /\ IsActive(checkIn[p].status)
                  /\ checkIn'[p].status \in {"COMPLETED", "CANCELLED"}
               \/ checkIn[p].status = "COMPLETED" /\ checkIn'[p].status = "CANCELLED"
    <3> DEFINE q == request[h].passenger
    <3>1. /\ UnderWay(h) /\ q \in Passengers /\ checkIn[q].seat \in Seats
          /\ \/ IsActive(checkIn[q].status)
             \/ At(h, "cancelTx") /\ checkIn[q].status = "COMPLETED"
      BY <2>4, UnderWayOwns DEF Writes
    <3>2. CASE Cancels(q)
      <4>1. checkIn'[q].status = "CANCELLED" /\ p = q
        BY <2>0, <3>1, <3>2, CancelsWrites
      <4> QED BY <3>1, <4>1
    <3>3. CASE At(h, "completeTx") /\
               \E b \in Baggage, paid \in BOOLEAN : Completes(q, b, paid)
      <4>1. checkIn'[q].status = "COMPLETED" /\ p = q
        BY <2>0, <3>1, <3>3, CompletesWrites
      <4> QED BY <3>1, <3>3, <4>1 DEF At
    <3> QED BY <2>4, <3>2, <3>3 DEF Writes
  <2>5. ASSUME NEW h \in CheckInHandlers, At(h, "awaitPayment"),
               AwaitsPayment(request[h].passenger)
        PROVE  checkIn[p].status = "IN_PROGRESS" /\ checkIn'[p].status = "AWAITING_PAYMENT"
    <3> DEFINE q == request[h].passenger
    <3>1. q \in Passengers /\ IsActive(checkIn[q].status)
      BY <2>5, UnderWayOwns DEF UnderWay, At
    <3>2. checkIn'[q].status = "AWAITING_PAYMENT" /\ p = q
      BY <2>0, <2>5, <3>1, AwaitsPaymentWrites
    <3> QED BY <3>1, <3>2 DEF IsActive
  <2>6. ASSUME (\E s \in Seats : FallsDue(s)) \/ UNCHANGED <<seat, checkIn, releases>>
        PROVE  FALSE
    BY <2>6 DEF FallsDue
  <2> QED BY <2>1, <2>2, <2>3, <2>4, <2>5, <2>6 DEF OrderlyStep, IsActive
<1> QED BY <1>1, OrderHolds, PTL DEF Spec, CheckInLifecycle
----------------------------------------------------------------------------
(* The refinement of BookingLedger.                                         *)

\* The kinds of steps of orderly clients, seen by the ledger of bookings.
LEMMA BookingStep ==
    ASSUME OrderInv, OrderlyStep
    PROVE  [Booking!BookNext]_(Booking!bookVars)
<1> DEFINE holder == [s \in Seats |-> IF SeatIsFree(s) THEN None ELSE seat[s].heldBy]
           served == {p \in Passengers : HasCheckIn(p)}
           booked == {p \in Passengers : checkIn[p].status = "COMPLETED"}
<1>0. seat \in [Seats -> SeatRow] /\ checkIn \in [Passengers -> CheckInRow]
  BY RowTypes DEF OrderInv
<1>1. ASSUME NEW s \in Seats, NEW p \in Passengers, Holds(s, p)
      PROVE  Booking!BeginHold(s, p) /\ booked' = booked
  <2>1. holder[s] = None /\ p \notin served
    BY <1>1 DEF Holds
  <2>2. holder' = [holder EXCEPT ![s] = p]
    BY <1>0, <1>1 DEF Holds, TakeHold, SeatIsFree
  <2>3. served' = served \cup {p} /\ booked' = booked
    BY <1>0, <1>1 DEF Holds, TakeHold, HasCheckIn
  <2> QED BY <2>1, <2>2, <2>3 DEF Booking!BeginHold
<1>2. ASSUME NEW s \in Seats, seat' = [seat EXCEPT ![s] = FreeSeat]
      PROVE  holder' = [holder EXCEPT ![s] = None]
  BY <1>0, <1>2 DEF FreeSeat, SeatIsFree
<1>3. ASSUME NEW s \in Seats, NEW p \in Passengers, Releases(s, p)
      PROVE  Booking!GiveUp(s)
  <2>1. holder[s] = p /\ p # None /\ p \notin booked
    BY <1>3, StoreAssumption
    DEF Releases, HeldBy, SeatIsFree, OrderInv, HoldInv, HeldSeatHasActiveCheckIn, IsActive
  <2>2. served' = served /\ booked' = booked
    BY <1>0, <1>3 DEF Releases, CancelInProgress, HasCheckIn, CheckInRow
  <2>3. booked' = booked \ {holder[s]}
    BY <2>1, <2>2
  <2>4. holder' = [holder EXCEPT ![s] = None]
    BY <1>2, <1>3 DEF Releases
  <2> QED BY <2>1, <2>2, <2>3, <2>4 DEF Booking!GiveUp, Booking!EndHold
<1>4. ASSUME NEW h \in CheckInHandlers, NEW q, q = request[h].passenger,
             UnderWay(h), Cancels(q)
      PROVE  \E s \in Seats : Booking!GiveUp(s)
  <2>0. PICK s : s = checkIn[q].seat
    OBVIOUS
  <2>1. /\ q \in Passengers /\ s \in Seats /\ seat[s].heldBy = q
        /\ seat[s].status # "AVAILABLE"
    BY <1>4, <2>0, UnderWayOwns
  <2>2. holder[s] = q /\ q # None
    BY <2>1, StoreAssumption DEF SeatIsFree
  <2>3. /\ checkIn'[q].status = "CANCELLED"
        /\ \A p \in Passengers : p # q => checkIn'[p] = checkIn[p]
    BY <1>0, <1>4, <2>0, <2>1, CancelsWrites
  <2>4. HasCheckIn(q)
    BY <1>4 DEF Cancels
  <2>5. served' = served /\ booked' = booked \ {holder[s]}
    BY <2>2, <2>3, <2>4 DEF HasCheckIn
  <2>6. holder' = [holder EXCEPT ![s] = None]
    BY <1>2, <1>4, <2>0, <2>1 DEF Cancels
  <2> QED BY <2>1, <2>2, <2>5, <2>6 DEF Booking!GiveUp, Booking!EndHold
<1>5. ASSUME NEW h \in CheckInHandlers, NEW q, q = request[h].passenger,
             UnderWay(h), At(h, "completeTx"),
             NEW b \in Baggage, NEW paid \in BOOLEAN, Completes(q, b, paid)
      PROVE  \E s \in Seats : Booking!Book(s)
  <2>0. PICK s : s = checkIn[q].seat
    OBVIOUS
  <2>1. /\ q \in Passengers /\ s \in Seats /\ seat[s].heldBy = q
        /\ seat[s].status = "HELD" /\ IsActive(checkIn[q].status)
    BY <1>5, <2>0, UnderWayOwns DEF At
  <2>2. holder[s] = q /\ q # None /\ q \notin booked
    BY <2>1, StoreAssumption DEF SeatIsFree, IsActive
  <2>3. /\ checkIn'[q].status = "COMPLETED"
        /\ \A p \in Passengers : p # q => checkIn'[p] = checkIn[p]
        /\ seat'[s].status = "CONFIRMED" /\ seat'[s].heldBy = seat[s].heldBy
        /\ \A t \in Seats : t # s => seat'[t] = seat[t]
    <3>1. s \in Seats /\ q \in Passengers /\ Completes(q, b, paid)
      BY <1>5, <2>1
    <3> HIDE DEF holder, served, booked
    <3> QED BY <1>0, <2>0, <3>1, CompletesWrites
  <2>4. HasCheckIn(q)
    BY <1>5 DEF Completes
  <2>5. served' = served /\ booked' = booked \cup {holder[s]}
    BY <2>1, <2>2, <2>3, <2>4 DEF HasCheckIn
  <2>6. holder' = holder
    BY <2>1, <2>3 DEF SeatIsFree
  <2> QED BY <2>1, <2>2, <2>5, <2>6 DEF Booking!Book, Booking!ledgerVars
<1>6. ASSUME NEW h \in CheckInHandlers, NEW q, q = request[h].passenger,
             At(h, "awaitPayment"), AwaitsPayment(q)
      PROVE  UNCHANGED <<holder, served, booked>>
  <2>1. q \in Passengers /\ IsActive(checkIn[q].status)
    BY <1>6, UnderWayOwns DEF UnderWay, At
  <2>2. /\ checkIn'[q].status = "AWAITING_PAYMENT" /\ seat' = seat
        /\ \A p \in Passengers : p # q => checkIn'[p] = checkIn[p]
    BY <1>0, <1>6, <2>1, AwaitsPaymentWrites
  <2> QED BY <2>1, <2>2 DEF HasCheckIn, IsActive, SeatIsFree
<1>7. ASSUME (\E s \in Seats : FallsDue(s)) \/ UNCHANGED <<seat, checkIn, releases>>
      PROVE  UNCHANGED <<holder, served, booked>>
  <2>1. checkIn' = checkIn
        /\ \A s \in Seats : seat'[s].status = seat[s].status /\ seat'[s].heldBy = seat[s].heldBy
    BY <1>0, <1>7 DEF FallsDue, SeatRow
  <2> QED BY <2>1 DEF HasCheckIn, SeatIsFree
<1>8. ASSUME NEW h \in CheckInHandlers, Writes(h)
      PROVE  \E s \in Seats : Booking!GiveUp(s) \/ Booking!Book(s)
  BY <1>4, <1>5, <1>8 DEF Writes
<1> QED
  BY <1>1, <1>3, <1>6, <1>7, <1>8
  DEF OrderlyStep, Booking!BookNext, Booking!bookVars, Booking!ledgerVars

\* With orderly clients the services implement the ledger of bookings: confirmCheckIn
\* books the seat for the passenger who holds it, and no release or cancellation
\* takes a booked seat without its booking.
THEOREM BookingImplemented ==
    ASSUME OrderlyClients
    PROVE  Spec => BookingRefined
<1>1. Init => Booking!BookInit
  BY DEF Init, StoreInit, FreeSeat, NoCheckIn, HasCheckIn, SeatIsFree,
         Booking!BookInit, Booking!LedgerInit
<1>2. OrderInv /\ [Next]_vars => [Booking!BookNext]_(Booking!bookVars)
  BY OrderlyStepKinds, BookingStep DEF OrderInv
<1> QED BY <1>1, <1>2, OrderHolds, PTL DEF Spec, BookingRefined, Booking!BookSpec
=============================================================================

------------------------ MODULE CheckInSystemProofs ------------------------
(***************************************************************************)
(* Safety of seat holds, for any passengers, seats and handlers. Of the     *)
(* steps of the system seven kinds touch the seat and check-in rows; each   *)
(* is described below by what it does to them and what held before it, and  *)
(* StepKinds shows that there are no others. The invariants and the         *)
(* refinement of HoldLedger are then checked against the seven kinds.       *)
(***************************************************************************)
EXTENDS CheckInSystemTyping

CheckInsHaveSeats ==
    \A p \in Passengers : HasCheckIn(p) => checkIn[p].seat \in Seats

\* What a confirmation or a cancellation read of its check-in is still so: rows
\* are not deleted, and their seat column is never rewritten.
RequestsMatch ==
    \A h \in CheckInHandlers :
        request[h].pc \in ConfirmPCs \cup CancelPCs =>
            /\ HasCheckIn(request[h].passenger)
            /\ checkIn[request[h].passenger].seat = request[h].seat

\* What an expiry handler read may be stale in one way only: if the passenger it
\* read still holds the seat, it is the hold it read, and that one is overdue.
JobsMatch ==
    \A h \in ExpiryHandlers :
        job[h].pc = "releaseTx" =>
            /\ HasCheckIn(job[h].owner)
            /\ HeldBy(job[h].seat, job[h].owner) =>
                seat[job[h].seat].heldAt = "overdue"

\* A passenger whose hold was released has a check-in and no hold, so there is
\* nothing left to release.
ReleasesMatch ==
    \A p \in Passengers : releases[p] # 0 =>
        /\ releases[p] = 1
        /\ HasCheckIn(p)
        /\ \A s \in Seats : ~HeldBy(s, p)

HoldInv ==
    /\ TypeInv
    /\ CheckInsHaveSeats
    /\ RequestsMatch
    /\ JobsMatch
    /\ HeldSeatHasActiveCheckIn
    /\ ReleasesMatch

----------------------------------------------------------------------------
(* The kinds of steps.                                                      *)

Holds(s, p) ==
    /\ SeatIsFree(s)
    /\ ~HasCheckIn(p)
    /\ TakeHold(s, p)
    /\ UNCHANGED releases

AwaitsPayment(p) ==
    /\ HasCheckIn(p)
    /\ checkIn' = [checkIn EXCEPT ![p].status = "AWAITING_PAYMENT",
                                  ![p].baggage = "excess"]
    /\ UNCHANGED <<seat, releases>>

Completes(p, baggage, paid) ==
    /\ HasCheckIn(p)
    /\ seat' = [seat EXCEPT ![checkIn[p].seat].status = "CONFIRMED"]
    /\ checkIn' = [checkIn EXCEPT ![p].status = "COMPLETED",
                                  ![p].baggage = baggage, ![p].paid = paid]
    /\ UNCHANGED releases

Cancels(p) ==
    /\ HasCheckIn(p)
    /\ seat' = [seat EXCEPT ![checkIn[p].seat] = FreeSeat]
    /\ checkIn' = [checkIn EXCEPT ![p].status = "CANCELLED"]
    /\ UNCHANGED releases

Releases(s, p) ==
    /\ HeldBy(s, p)
    /\ seat[s].heldAt = "overdue"
    /\ seat' = [seat EXCEPT ![s] = FreeSeat]
    /\ CancelInProgress(s)
    /\ releases' = [releases EXCEPT ![p] = @ + 1]

FallsDue(s) ==
    /\ seat' = [seat EXCEPT ![s].heldAt = "overdue"]
    /\ UNCHANGED <<checkIn, releases>>

RowsStep ==
    \/ \E s \in Seats, p \in Passengers : Holds(s, p) \/ Releases(s, p)
    \/ \E p \in Passengers :
        \/ AwaitsPayment(p)
        \/ Cancels(p)
        \/ \E b \in Baggage, paid \in BOOLEAN : Completes(p, b, paid)
    \/ \E s \in Seats : FallsDue(s)
    \/ UNCHANGED <<seat, checkIn, releases>>

\* Every step is of one of the seven kinds, or leaves the rows alone.
LEMMA StepKinds ==
    ASSUME HoldInv, [Next]_vars
    PROVE  RowsStep
<1> USE DEF storeVars, tableVars, redisVars, eventVars
<1>1. ASSUME NEW h \in CheckInHandlers, RequestNext(h)
      PROVE  RowsStep
  <2> DEFINE p == request[h].passenger
  <2>1. ASSUME ~At(h, "idle") PROVE p \in Passengers
    BY <2>1 DEF HoldInv, TypeInv, RequestInv, RequestsBound
  <2>2. CASE HoldSeat(h)
    <3>1. request[h].seat \in Seats /\ p \in Passengers
      BY <2>1, <2>2 DEF HoldSeat, At, StartPCs, HoldInv, TypeInv, RequestInv,
                        RequestsBound
    <3>2. Holds(request[h].seat, p)
      BY <2>2 DEF HoldSeat, Holds, CheckInIsUnique
    <3> QED BY <3>1, <3>2 DEF RowsStep
  <2>3. ASSUME request[h].pc \in ConfirmPCs \cup CancelPCs
        PROVE  /\ p \in Passengers /\ HasCheckIn(p)
               /\ request[h].seat = checkIn[p].seat
    BY <2>1, <2>3 DEF At, ConfirmPCs, CancelPCs, HoldInv, RequestsMatch
  <2>4. CASE AwaitPayment(h)
    BY <2>3, <2>4 DEF AwaitPayment, At, ConfirmPCs, AwaitsPayment, RowsStep
  <2>5. CASE CompleteCheckIn(h)
    <3>1. request[h].baggage \in Baggage /\ request[h].paid \in BOOLEAN
      BY DEF HoldInv, TypeInv, RequestInv, RequestTypeOK, RequestState
    <3>2. Completes(p, request[h].baggage, request[h].paid)
      BY <2>3, <2>5 DEF CompleteCheckIn, At, ConfirmPCs, Completes
    <3> QED BY <2>3, <2>5, <3>1, <3>2
            DEF CompleteCheckIn, At, ConfirmPCs, RowsStep
  <2>6. CASE CancelTransaction(h)
    BY <2>3, <2>6 DEF CancelTransaction, At, CancelPCs, Cancels, RowsStep
  <2>7. CASE UNCHANGED <<seat, checkIn, releases>>
    BY <2>7 DEF RowsStep
  <2> QED
    BY <1>1, <2>2, <2>4, <2>5, <2>6, <2>7
    DEF RequestNext, RequestArrives, RequestProceeds, StartCheckIn,
        ConfirmCheckIn, CancelCheckIn, AcquireSeatLock, SeatLockUnavailable,
        ReadSeatWithinLock, HoldSeatFails, SetHoldKey, EndStart, CheckHoldKey,
        PayExcessFee, DropHoldKey, EmitAfterCancel, LoseRequest
<1>2. ASSUME NEW h \in ExpiryHandlers, JobNext(h)
      PROVE  RowsStep
  <2>1. CASE ReleaseSeat(h)
    <3>1. job[h].seat \in Seats /\ job[h].owner \in Passengers
      BY <2>1 DEF ReleaseSeat, JobAt, HoldInv, TypeInv, JobInv, JobsBound
    <3>2. Releases(job[h].seat, job[h].owner)
      BY <2>1 DEF ReleaseSeat, StillHeld, JobAt, HoldInv, JobsMatch, HeldBy,
                  Releases
    <3> QED BY <3>1, <3>2 DEF RowsStep
  <2>2. CASE UNCHANGED <<seat, checkIn, releases>>
    BY <2>2 DEF RowsStep
  <2> QED
    BY <1>2, <2>1, <2>2
    DEF JobNext, JobProceeds, HandleHoldExpired, SweepExpiredHolds,
        AcquireReleaseLock, SkipRelease, ReadHeldSeat, ReleaseSeatFails,
        FindAssignedEntry, SaveExpiredEntry, EmitAfterRelease, EndRelease,
        LoseJob
<1>3. ASSUME NEW h \in WaitlistHandlers, RunNext(h)
      PROVE  RowsStep
  <2>1. CASE AssignSeat(h)
    <3>1. run[h].seat \in Seats /\ run[h].passenger \in Passengers
      BY <2>1 DEF AssignSeat, RunAt, HoldInv, TypeInv, RunInv, RunsBound
    <3>2. Holds(run[h].seat, run[h].passenger)
      BY <2>1 DEF AssignSeat, Holds, CheckInIsUnique
    <3> QED BY <3>1, <3>2 DEF RowsStep
  <2>2. CASE UNCHANGED <<seat, checkIn, releases>>
    BY <2>2 DEF RowsStep
  <2> QED
    BY <1>3, <2>1, <2>2
    DEF RunNext, RunProceeds, JoinWaitlist, LeaveWaitlist, ProcessWaitlist,
        InsertEntry, SaveCancelledEntry, AcquireWaitlistLock, SkipProcessing,
        ReadHead, ReadFreeSeat, AssignSeatFails, SetAssignedHoldKey,
        EndProcessing, LoseRun
<1>4. CASE TimePasses
  BY <1>4
  DEF TimePasses, HoldFallsDue, HoldKeyExpires, SeatLockExpires,
      WaitlistLockExpires, FallsDue, RowsStep
<1>5. CASE (\E e \in Seats \cup {None} : LoseEvent(e)) \/ UNCHANGED vars
  BY <1>5 DEF LoseEvent, vars, RowsStep
<1> QED
  BY <1>1, <1>2, <1>3, <1>4, <1>5
  DEF Next, CheckInStep, ExpiryStep, WaitlistStep

----------------------------------------------------------------------------
(* The types the kinds of steps rely on.                                    *)

\* The types of the rows, as the lemmas below use them.
LEMMA RowTypes ==
    ASSUME HoldInv
    PROVE  /\ seat \in [Seats -> SeatRow]
           /\ checkIn \in [Passengers -> CheckInRow]
           /\ releases \in [Passengers -> Nat]
BY DEF HoldInv, TypeInv, StoreInv, StoreTypeOK

\* A completion writes one check-in, and the status of its seat.
LEMMA CompletesWrites ==
    ASSUME seat \in [Seats -> SeatRow], checkIn \in [Passengers -> CheckInRow],
           NEW q \in Passengers, NEW s \in Seats, s = checkIn[q].seat,
           NEW b, NEW paid, Completes(q, b, paid)
    PROVE  /\ checkIn'[q].status = "COMPLETED" /\ checkIn'[q].seat = s
           /\ \A p \in Passengers : p # q => checkIn'[p] = checkIn[p]
           /\ seat'[s].status = "CONFIRMED" /\ seat'[s].heldBy = seat[s].heldBy
           /\ \A t \in Seats : t # s => seat'[t] = seat[t]
<1>1. checkIn' = [checkIn EXCEPT ![q] =
                    [checkIn[q] EXCEPT !.status = "COMPLETED", !.baggage = b, !.paid = paid]]
  BY DEF Completes
<1>2. seat' = [seat EXCEPT ![s] = [seat[s] EXCEPT !.status = "CONFIRMED"]]
  BY DEF Completes
<1>3. checkIn'[q] = [checkIn[q] EXCEPT !.status = "COMPLETED", !.baggage = b, !.paid = paid]
  BY <1>1
<1>4. checkIn[q] \in CheckInRow /\ seat[s] \in SeatRow
  OBVIOUS
<1>5. checkIn'[q].status = "COMPLETED" /\ checkIn'[q].seat = s
  BY <1>3, <1>4 DEF CheckInRow
<1>6. seat'[s] = [seat[s] EXCEPT !.status = "CONFIRMED"]
  BY <1>2
<1>7. seat'[s].status = "CONFIRMED" /\ seat'[s].heldBy = seat[s].heldBy
  BY <1>4, <1>6 DEF SeatRow
<1> QED BY <1>1, <1>2, <1>5, <1>7

\* A cancellation writes one check-in, and frees its seat.
LEMMA CancelsWrites ==
    ASSUME seat \in [Seats -> SeatRow], checkIn \in [Passengers -> CheckInRow],
           NEW q \in Passengers, NEW s \in Seats, s = checkIn[q].seat, Cancels(q)
    PROVE  /\ checkIn'[q].status = "CANCELLED" /\ checkIn'[q].seat = s
           /\ \A p \in Passengers : p # q => checkIn'[p] = checkIn[p]
           /\ \A t \in Seats : t # s => seat'[t] = seat[t]
<1>1. checkIn'[q] = [checkIn[q] EXCEPT !.status = "CANCELLED"]
  BY DEF Cancels
<1>2. checkIn[q] \in CheckInRow
  OBVIOUS
<1>3. checkIn'[q].status = "CANCELLED" /\ checkIn'[q].seat = s
  BY <1>1, <1>2 DEF CheckInRow
<1>4. \A p \in Passengers : p # q => checkIn'[p] = checkIn[p]
  BY DEF Cancels
<1>5. \A t \in Seats : t # s => seat'[t] = seat[t]
  BY DEF Cancels
<1> QED BY <1>3, <1>4, <1>5

\* A payment in progress is written to one check-in, and to no seat.
LEMMA AwaitsPaymentWrites ==
    ASSUME checkIn \in [Passengers -> CheckInRow], NEW q \in Passengers,
           AwaitsPayment(q)
    PROVE  /\ checkIn'[q].status = "AWAITING_PAYMENT" /\ checkIn'[q].seat = checkIn[q].seat
           /\ \A p \in Passengers : p # q => checkIn'[p] = checkIn[p]
           /\ seat' = seat
<1>1. checkIn'[q] = [checkIn[q] EXCEPT !.status = "AWAITING_PAYMENT", !.baggage = "excess"]
  BY DEF AwaitsPayment
<1>2. checkIn[q] \in CheckInRow
  OBVIOUS
<1>3. checkIn'[q].status = "AWAITING_PAYMENT" /\ checkIn'[q].seat = checkIn[q].seat
  BY <1>1, <1>2 DEF CheckInRow
<1> QED BY <1>3 DEF AwaitsPayment

\* What a step writes in the check-in of one passenger: nothing, a new hold, a
\* new status, a completion, or a cancellation on expiry.
LEMMA CheckInWrites ==
    ASSUME HoldInv, RowsStep, NEW p \in Passengers
    PROVE  \/ checkIn'[p] = checkIn[p]
           \/ /\ ~HasCheckIn(p)
              /\ \E s \in Seats : /\ seat[s].status = "AVAILABLE"
                                  /\ HeldBy(s, p)'
                                  /\ checkIn'[p].seat = s
                                  /\ checkIn'[p].status = "IN_PROGRESS"
           \/ /\ HasCheckIn(p)
              /\ checkIn'[p].seat = checkIn[p].seat
              /\ checkIn'[p].status \in CheckInStatus
<1> USE RowTypes DEF HasCheckIn, CheckInRow, CheckInStatus
<1>1. ASSUME NEW s \in Seats, NEW q \in Passengers, Holds(s, q)
      PROVE  \/ checkIn'[p] = checkIn[p]
             \/ /\ p = q /\ ~HasCheckIn(p)
                /\ seat[s].status = "AVAILABLE"
                /\ HeldBy(s, p)'
                /\ checkIn'[p].seat = s
                /\ checkIn'[p].status = "IN_PROGRESS"
  BY <1>1 DEF Holds, TakeHold, HeldBy, SeatIsFree
<1>2. ASSUME NEW s \in Seats, NEW q \in Passengers, Releases(s, q)
      PROVE  \/ checkIn'[p] = checkIn[p]
             \/ /\ HasCheckIn(p)
                /\ checkIn'[p].seat = checkIn[p].seat
                /\ checkIn'[p].status = "CANCELLED"
  BY <1>2 DEF Releases, CancelInProgress
<1>3. ASSUME NEW q \in Passengers, AwaitsPayment(q)
      PROVE  \/ checkIn'[p] = checkIn[p]
             \/ /\ HasCheckIn(p)
                /\ checkIn'[p].seat = checkIn[p].seat
                /\ checkIn'[p].status = "AWAITING_PAYMENT"
  BY <1>3 DEF AwaitsPayment
<1>4. ASSUME NEW q \in Passengers, Cancels(q)
      PROVE  \/ checkIn'[p] = checkIn[p]
             \/ /\ HasCheckIn(p)
                /\ checkIn'[p].seat = checkIn[p].seat
                /\ checkIn'[p].status = "CANCELLED"
  BY <1>4 DEF Cancels
<1>5. ASSUME NEW q \in Passengers, NEW b \in Baggage, NEW paid \in BOOLEAN,
             Completes(q, b, paid)
      PROVE  \/ checkIn'[p] = checkIn[p]
             \/ /\ HasCheckIn(p)
                /\ checkIn'[p].seat = checkIn[p].seat
                /\ checkIn'[p].status = "COMPLETED"
  BY <1>5 DEF Completes
<1>6. ASSUME NEW s \in Seats, FallsDue(s)
      PROVE  checkIn'[p] = checkIn[p]
  BY <1>6 DEF FallsDue
<1> QED BY <1>1, <1>2, <1>3, <1>4, <1>5, <1>6 DEF RowsStep

\* A check-in stays, on the seat it was made for.
LEMMA CheckInsStay ==
    ASSUME HoldInv, RowsStep, NEW p \in Passengers, HasCheckIn(p)
    PROVE  HasCheckIn(p)' /\ checkIn'[p].seat = checkIn[p].seat
BY CheckInWrites DEF HasCheckIn, CheckInStatus

\* The seat a check-in names at its insertion is one of the flight's.
LEMMA CheckInsHaveSeatsStep ==
    ASSUME HoldInv, RowsStep
    PROVE  CheckInsHaveSeats'
<1> SUFFICES ASSUME NEW q \in Passengers, HasCheckIn(q)'
             PROVE  checkIn'[q].seat \in Seats
  BY DEF CheckInsHaveSeats
<1> QED BY CheckInWrites DEF HoldInv, CheckInsHaveSeats, HasCheckIn

\* What a step writes in the row of one seat: nothing, a hold on a free seat, or
\* something that is not a hold; or a hold it had already falls due.
LEMMA SeatWrites ==
    ASSUME HoldInv, RowsStep, NEW s \in Seats, seat'[s].status = "HELD"
    PROVE  \/ seat'[s] = seat[s]
           \/ \E p \in Passengers : Holds(s, p)
           \/ FallsDue(s) /\ seat'[s].heldBy = seat[s].heldBy
                          /\ seat[s].status = "HELD"
<1> USE RowTypes DEF SeatRow
<1>1. ASSUME NEW t \in Seats, NEW p \in Passengers, Holds(t, p), t # s
      PROVE  seat'[s] = seat[s]
  BY <1>1 DEF Holds, TakeHold
<1>2. ASSUME NEW t \in Seats, NEW p \in Passengers, Releases(t, p)
      PROVE  seat'[s] = seat[s]
  BY <1>2 DEF Releases, FreeSeat
<1>3. ASSUME NEW p \in Passengers, Cancels(p)
      PROVE  seat'[s] = seat[s]
  BY <1>3 DEF Cancels, FreeSeat
<1>4. ASSUME NEW p \in Passengers, NEW b, NEW paid, Completes(p, b, paid)
      PROVE  seat'[s] = seat[s]
  BY <1>4 DEF Completes
<1>5. ASSUME NEW t \in Seats, FallsDue(t), t # s
      PROVE  seat'[s] = seat[s]
  BY <1>5 DEF FallsDue
<1>6. ASSUME FallsDue(s)
      PROVE  seat'[s].heldBy = seat[s].heldBy /\ seat[s].status = "HELD"
  BY <1>6 DEF FallsDue
<1>7. ASSUME NEW p \in Passengers, AwaitsPayment(p)
      PROVE  seat'[s] = seat[s]
  BY <1>7 DEF AwaitsPayment
<1> QED BY <1>1, <1>2, <1>3, <1>4, <1>5, <1>6, <1>7 DEF RowsStep

----------------------------------------------------------------------------
(* Preservation of the parts of the invariant.                              *)

\* A request moves alone.
LEMMA OthersStay ==
    ASSUME HoldInv, NEW g \in CheckInHandlers, RequestNext(g),
           NEW h \in CheckInHandlers, g # h
    PROVE  request'[h] = request[h]
<1>1. request \in [CheckInHandlers -> RequestState]
  BY DEF HoldInv, TypeInv, RequestInv, RequestTypeOK
<1> QED
  BY <1>1
    DEF RequestNext, RequestArrives, RequestProceeds, LoseRequest,
        StartCheckIn, ConfirmCheckIn, CancelCheckIn, AcquireSeatLock,
        SeatLockUnavailable, ReadSeatWithinLock, HoldSeat, HoldSeatFails,
        SetHoldKey, EndStart, CheckHoldKey, ValidateBaggage, AwaitPayment, PayExcessFee,
        CompleteCheckIn, CancelTransaction, DropHoldKey, EmitAfterCancel,
        Accept, Goto, Respond

\* A request that goes on keeps its passenger and its seat, and turns neither to
\* a cancellation nor, from a hold, to a confirmation.
LEMMA RequestGoesOn ==
    ASSUME request \in [CheckInHandlers -> RequestState], NEW h \in CheckInHandlers,
           RequestProceeds(h) \/ LoseRequest(h), request'[h] # NoRequest
    PROVE  /\ request'[h].passenger = request[h].passenger
           /\ request'[h].seat = request[h].seat
           /\ request'[h].pc # "cancelTx"
           /\ request'[h].pc \in ConfirmPCs \cup CancelPCs =>
                request[h].pc \in ConfirmPCs \cup CancelPCs
<1>1. request[h] \in RequestState
  OBVIOUS
<1>2. ASSUME NEW pc, Goto(h, pc)
      PROVE  /\ request'[h].pc = pc
             /\ request'[h].passenger = request[h].passenger
             /\ request'[h].seat = request[h].seat
  <2>1. request'[h] = [request[h] EXCEPT !.pc = pc]
    BY <1>2 DEF Goto
  <2> QED BY <1>1, <2>1 DEF RequestState
<1>3. ~Respond(h)
  BY DEF Respond
<1>4. CASE \/ AcquireSeatLock(h) \/ ReadSeatWithinLock(h) \/ HoldSeat(h)
           \/ HoldSeatFails(h) \/ SetHoldKey(h)
  <2>1. \E pc \in {"readSeat", "holdTx", "releaseLock", "setHoldKey"} : Goto(h, pc)
    BY <1>4 DEF AcquireSeatLock, ReadSeatWithinLock, HoldSeat, HoldSeatFails, SetHoldKey
  <2> QED BY <1>2, <2>1 DEF ConfirmPCs, CancelPCs
<1>5. CASE \/ CheckHoldKey(h) \/ AwaitPayment(h) \/ CompleteCheckIn(h)
           \/ CancelTransaction(h) \/ DropHoldKey(h)
  <2>1. /\ request[h].pc \in ConfirmPCs \cup CancelPCs
        /\ \E pc : pc # "cancelTx" /\ Goto(h, pc)
    BY <1>3, <1>5
    DEF CheckHoldKey, ValidateBaggage, AwaitPayment, CompleteCheckIn,
        CancelTransaction, DropHoldKey, At, ConfirmPCs, CancelPCs
  <2> QED BY <1>2, <2>1
<1>6. CASE PayExcessFee(h)
  <2>1. At(h, "pay") /\ request'[h] = [request[h] EXCEPT !.pc = "completeTx", !.paid = TRUE]
    BY <1>3, <1>6 DEF PayExcessFee
  <2> QED BY <1>1, <2>1 DEF RequestState, At, ConfirmPCs
<1> QED
  BY <1>3, <1>4, <1>5, <1>6
  DEF RequestProceeds, SeatLockUnavailable, EndStart, EmitAfterCancel, LoseRequest

\* What a request read stays true of its check-in.
LEMMA RequestsMatchStep ==
    ASSUME HoldInv, [Next]_vars, RowsStep
    PROVE  RequestsMatch'
<1> SUFFICES ASSUME NEW h \in CheckInHandlers,
                    request'[h].pc \in ConfirmPCs \cup CancelPCs,
                    NEW p, p = request'[h].passenger
             PROVE  HasCheckIn(p)' /\ checkIn'[p].seat = request'[h].seat
  BY DEF RequestsMatch, HasCheckIn
<1>1. /\ p \in Passengers /\ HasCheckIn(p)
      /\ checkIn[p].seat = request'[h].seat
  <2>1. request \in [CheckInHandlers -> RequestState]
    BY DEF HoldInv, TypeInv, RequestInv, RequestTypeOK
  <2>2. CASE request'[h] = request[h]
    BY <2>2 DEF HoldInv, TypeInv, RequestInv, RequestsBound, RequestsMatch,
                At, ConfirmPCs, CancelPCs
  <2>3. CASE RequestNext(h)
    <3>1. CASE RequestArrives(h)
      BY <2>1, <3>1, CheckInAssumption
      DEF RequestArrives, StartCheckIn, ConfirmCheckIn, CancelCheckIn, Accept,
          ConfirmPCs, CancelPCs, IsActive, HasCheckIn, RequestState
    <3>2. CASE RequestProceeds(h) \/ LoseRequest(h)
      <4>1. /\ request[h].pc \in ConfirmPCs \cup CancelPCs
            /\ request'[h].passenger = request[h].passenger
            /\ request'[h].seat = request[h].seat
        BY <2>1, <3>2, RequestGoesOn DEF NoRequest, ConfirmPCs, CancelPCs
      <4> QED BY <4>1 DEF HoldInv, TypeInv, RequestInv, RequestsBound,
                          RequestsMatch, At, ConfirmPCs, CancelPCs
    <3> QED BY <2>3, <3>1, <3>2 DEF RequestNext
  <2>4. request'[h] = request[h] \/ RequestNext(h)
    <3>1. ASSUME NEW g \in CheckInHandlers, RequestNext(g), g # h
          PROVE  request'[h] = request[h]
      BY <2>1, <3>1
      DEF RequestNext, RequestArrives, RequestProceeds, LoseRequest,
          StartCheckIn, ConfirmCheckIn, CancelCheckIn, AcquireSeatLock,
          SeatLockUnavailable, ReadSeatWithinLock, HoldSeat, HoldSeatFails,
          SetHoldKey, EndStart, CheckHoldKey, ValidateBaggage, AwaitPayment, PayExcessFee,
          CompleteCheckIn, CancelTransaction, DropHoldKey, EmitAfterCancel,
          Accept, Goto, Respond
    <3> QED BY <3>1 DEF Next, CheckInStep, vars
  <2> QED BY <2>2, <2>3, <2>4
<1> QED BY <1>1, CheckInsStay

\* HeldSeatHasActiveCheckIn
LEMMA HeldSeatStep ==
    ASSUME HoldInv, RowsStep
    PROVE  HeldSeatHasActiveCheckIn'
<1> SUFFICES ASSUME NEW s \in Seats, seat'[s].status = "HELD"
             PROVE  \E p \in Passengers :
                        /\ seat'[s].heldBy = p
                        /\ checkIn'[p].seat = s
                        /\ IsActive(checkIn'[p].status)
  BY DEF HeldSeatHasActiveCheckIn
<1> USE RowTypes DEF IsActive
<1>1. CASE \E p \in Passengers : Holds(s, p)
  BY <1>1 DEF Holds, TakeHold
<1>2. CASE ~\E p \in Passengers : Holds(s, p)
  <2>1. seat[s].status = "HELD" /\ seat'[s].heldBy = seat[s].heldBy
    BY <1>2, SeatWrites
  <2>2. PICK p \in Passengers : /\ seat[s].heldBy = p
                                /\ checkIn[p].seat = s
                                /\ IsActive(checkIn[p].status)
    BY <2>1 DEF HoldInv, HeldSeatHasActiveCheckIn
  <2>3. ASSUME NEW t \in Seats, NEW q \in Passengers, Holds(t, q)
        PROVE  checkIn'[p] = checkIn[p]
    BY <2>2, <2>3 DEF Holds, TakeHold, HasCheckIn
  <2>4. ASSUME NEW t \in Seats, NEW q \in Passengers, Releases(t, q)
        PROVE  checkIn'[p] = checkIn[p]
    <3>1. t # s
      BY <2>4 DEF Releases, FreeSeat
    <3> QED BY <2>2, <2>4, <3>1 DEF Releases, CancelInProgress
  <2>5. ASSUME NEW q \in Passengers, Cancels(q)
        PROVE  checkIn'[p] = checkIn[p]
    <3>1. q # p
      BY <2>2, <2>5 DEF Cancels, FreeSeat
    <3> QED BY <2>5, <3>1 DEF Cancels
  <2>6. ASSUME NEW q \in Passengers, NEW b \in Baggage, NEW paid \in BOOLEAN,
               Completes(q, b, paid)
        PROVE  checkIn'[p] = checkIn[p]
    <3>1. q # p
      BY <2>2, <2>6 DEF Completes, SeatRow
    <3> QED BY <2>6, <3>1 DEF Completes
  <2>7. ASSUME NEW q \in Passengers, AwaitsPayment(q)
        PROVE  checkIn'[p].seat = s /\ IsActive(checkIn'[p].status)
    BY <2>2, <2>7 DEF AwaitsPayment, CheckInRow
  <2>8. ASSUME NEW t \in Seats, FallsDue(t)
        PROVE  checkIn'[p] = checkIn[p]
    BY <2>8 DEF FallsDue
  <2> QED BY <2>1, <2>2, <2>3, <2>4, <2>5, <2>6, <2>7, <2>8 DEF RowsStep
<1> QED BY <1>1, <1>2

\* A release finds the hold its handler read, or none of that passenger.
LEMMA JobsMatchStep ==
    ASSUME HoldInv, [Next]_vars, RowsStep
    PROVE  JobsMatch'
<1> SUFFICES ASSUME NEW h \in ExpiryHandlers, job'[h].pc = "releaseTx",
                    NEW s, s = job'[h].seat, NEW p, p = job'[h].owner
             PROVE  /\ HasCheckIn(p)'
                    /\ HeldBy(s, p)' => seat'[s].heldAt = "overdue"
  BY DEF JobsMatch, HasCheckIn, HeldBy
<1>1. /\ s \in Seats /\ p \in Passengers /\ HasCheckIn(p)
      /\ HeldBy(s, p) => seat[s].heldAt = "overdue"
  <2>1. job \in [ExpiryHandlers -> JobState]
    BY DEF HoldInv, TypeInv, JobInv, JobTypeOK
  <2>2. CASE job'[h] = job[h]
    BY <2>2 DEF HoldInv, TypeInv, JobInv, JobsBound, JobsMatch
  <2>3. CASE JobNext(h)
    <3>1. /\ ReadHeldSeat(h)
          /\ IsOverdue(job[h].seat)
          /\ s = job[h].seat /\ p = seat[job[h].seat].heldBy
      <4>1. job[h] \in JobState
        BY <2>1
      <4>2. ASSUME NEW todo, JobContinues(h, todo)
            PROVE  FALSE
        BY <2>1, <4>2 DEF JobContinues, NoJob
      <4>3. CASE \/ \E t \in Seats : HandleHoldExpired(h, t)
                 \/ SweepExpiredHolds(h) \/ SkipRelease(h) \/ EndRelease(h)
                 \/ LoseJob(h)
        BY <4>2, <4>3
        DEF HandleHoldExpired, SweepExpiredHolds, SkipRelease, EndRelease, LoseJob
      <4>4. ASSUME NEW pc, pc # "releaseTx", JobGoto(h, pc)
            PROVE  FALSE
        BY <2>1, <4>1, <4>4 DEF JobGoto, JobState
      <4>5. CASE AcquireReleaseLock(h)
        BY <2>1, <4>1, <4>5 DEF AcquireReleaseLock, JobState
      <4>6. CASE \/ ReleaseSeat(h) \/ ReleaseSeatFails(h) \/ FindAssignedEntry(h)
                 \/ SaveExpiredEntry(h) \/ EmitAfterRelease(h)
        BY <4>4, <4>6
        DEF ReleaseSeat, ReleaseSeatFails, FindAssignedEntry, SaveExpiredEntry,
            EmitAfterRelease
      <4>7. CASE ReadHeldSeat(h)
        BY <2>1, <4>1, <4>7 DEF ReadHeldSeat, JobGoto, JobAt, JobState
      <4> QED BY <2>3, <4>3, <4>5, <4>6, <4>7 DEF JobNext, JobProceeds
    <3>2. s \in Seats
      BY <3>1 DEF ReadHeldSeat, JobAt, HoldInv, TypeInv, JobInv, JobsBound
    <3> QED BY <3>1, <3>2
            DEF IsOverdue, IsActive, HasCheckIn, HoldInv, HeldSeatHasActiveCheckIn
  <2>4. job'[h] = job[h] \/ JobNext(h)
    <3>1. ASSUME NEW g \in ExpiryHandlers, JobNext(g), g # h
          PROVE  job'[h] = job[h]
      BY <2>1, <3>1
      DEF JobNext, JobProceeds, HandleHoldExpired, SweepExpiredHolds,
          AcquireReleaseLock, SkipRelease, ReadHeldSeat, ReleaseSeat,
          ReleaseSeatFails, FindAssignedEntry, SaveExpiredEntry,
          EmitAfterRelease, EndRelease, LoseJob, JobContinues, JobGoto
    <3> QED BY <3>1 DEF Next, ExpiryStep, vars
  <2> QED BY <2>2, <2>3, <2>4
<1>2. ASSUME HeldBy(s, p)'
      PROVE  seat'[s].heldAt = "overdue"
  <2>1. CASE \E q \in Passengers : Holds(s, q)
    BY <1>1, <1>2, <2>1, RowTypes DEF Holds, TakeHold, HeldBy
  <2>2. CASE seat'[s] = seat[s]
    BY <1>1, <1>2, <2>2 DEF HeldBy
  <2>3. CASE FallsDue(s)
    BY <1>1, <2>3, RowTypes DEF FallsDue, SeatRow
  <2> QED BY <1>1, <1>2, <2>1, <2>2, <2>3, SeatWrites DEF HeldBy
<1> QED BY <1>1, <1>2, CheckInsStay

\* A released passenger never holds a seat again.
LEMMA ReleasesMatchStep ==
    ASSUME HoldInv, RowsStep
    PROVE  ReleasesMatch'
<1> SUFFICES ASSUME NEW p \in Passengers, releases'[p] # 0
             PROVE  /\ releases'[p] = 1
                    /\ HasCheckIn(p)'
                    /\ \A s \in Seats : ~HeldBy(s, p)'
  BY DEF ReleasesMatch
<1> USE RowTypes
<1>1. CASE releases[p] # 0
  <2>1. releases[p] = 1 /\ HasCheckIn(p) /\ \A s \in Seats : ~HeldBy(s, p)
    BY <1>1 DEF HoldInv, ReleasesMatch
  <2>2. releases'[p] = releases[p]
    BY <2>1 DEF RowsStep, Holds, Releases, AwaitsPayment, Cancels, Completes,
                FallsDue
  <2>3. ASSUME NEW s \in Seats, HeldBy(s, p)'
        PROVE  FALSE
    <3>1. CASE \E q \in Passengers : Holds(s, q)
      BY <2>1, <2>3, <3>1 DEF Holds, TakeHold, HeldBy
    <3> QED BY <2>1, <2>3, <3>1, SeatWrites DEF HeldBy
  <2> QED BY <2>1, <2>2, <2>3, CheckInsStay
<1>2. CASE releases[p] = 0
  <2>1. PICK t \in Seats : Releases(t, p)
    BY <1>2 DEF RowsStep, Holds, Releases, AwaitsPayment, Cancels, Completes,
                FallsDue
  <2>2. checkIn[p].seat = t /\ HasCheckIn(p)
    BY <2>1 DEF Releases, HeldBy, HoldInv, HeldSeatHasActiveCheckIn, IsActive,
                HasCheckIn
  <2>3. ASSUME NEW s \in Seats, HeldBy(s, p)'
        PROVE  FALSE
    <3>1. s # t /\ seat'[s] = seat[s]
      BY <2>1, <2>3 DEF Releases, FreeSeat, HeldBy
    <3> QED BY <2>2, <2>3, <3>1
            DEF HeldBy, HoldInv, HeldSeatHasActiveCheckIn
  <2> QED BY <1>2, <2>1, <2>2, <2>3, CheckInsStay DEF Releases
<1> QED BY <1>1, <1>2

----------------------------------------------------------------------------
(* The theorems.                                                            *)

\* At the start nobody holds a seat and no handler has begun.
LEMMA InitHolds == Init => HoldInv
<1> SUFFICES ASSUME Init PROVE HoldInv
  OBVIOUS
<1>1. TypeInv
  BY InitTyped
<1>2. CheckInsHaveSeats /\ HeldSeatHasActiveCheckIn /\ ReleasesMatch
  BY DEF Init, StoreInit, CheckInsHaveSeats, HeldSeatHasActiveCheckIn,
         ReleasesMatch, HasCheckIn, FreeSeat, NoCheckIn
<1>3. RequestsMatch /\ JobsMatch
  BY DEF Init, RequestInit, JobInit, NoRequest, NoJob, RequestsMatch, JobsMatch,
         ConfirmPCs, CancelPCs
<1> QED BY <1>1, <1>2, <1>3 DEF HoldInv

\* HoldInv is inductive.
LEMMA StepHolds ==
    ASSUME HoldInv, [Next]_vars
    PROVE  HoldInv'
<1>1. RowsStep
  BY StepKinds
<1>2. TypeInv'
  BY StepTyped, StutterTyped DEF HoldInv
<1> QED
  BY <1>1, <1>2, CheckInsHaveSeatsStep, RequestsMatchStep, HeldSeatStep,
     JobsMatchStep, ReleasesMatchStep
  DEF HoldInv

\* The invariant of seat holds. HeldSeatHasActiveCheckIn is not inductive: a
\* confirmation or a cancellation writes the seat it read earlier (RequestsMatch,
\* CheckInsHaveSeats), and a release the hold it read earlier (JobsMatch).
THEOREM HoldInvariant == Spec => []HoldInv
BY InitHolds, StepHolds, PTL DEF Spec

\* The seat table and the check-in table agree about every hold, although
\* confirmCheckIn and cancelCheckIn update both by id, unlocked and unconditioned.
THEOREM HeldSeats == Spec => []HeldSeatHasActiveCheckIn
<1>1. HoldInv => HeldSeatHasActiveCheckIn
  BY DEF HoldInv
<1> QED BY <1>1, HoldInvariant, PTL

\* releaseSeat's conditional UPDATE releases a hold once, whatever the number of
\* notifications, sweeps and instances, with or without the lock.
THEOREM AtMostOneRelease == Spec => []ReleasedAtMostOnce
<1>1. HoldInv => ReleasedAtMostOnce
  <2> SUFFICES ASSUME HoldInv, NEW p \in Passengers
               PROVE  releases[p] <= 1
    BY DEF ReleasedAtMostOnce
  <2>1. releases[p] \in Nat
    BY RowTypes
  <2> QED BY <2>1 DEF HoldInv, ReleasesMatch
<1> QED BY <1>1, HoldInvariant, PTL

\* A release always ends an overdue hold of the passenger it is recorded for,
\* although the handler tested held_at in an earlier statement.
THEOREM ReleasesAreDue == Spec => NoEarlyRelease
<1> DEFINE Due ==
      \A p \in Passengers : releases'[p] # releases[p] =>
        \E s \in Seats : HeldBy(s, p) /\ seat[s].heldAt = "overdue"
<1>1. HoldInv /\ [Next]_vars => [Due]_vars
  <2> SUFFICES ASSUME HoldInv, [Next]_vars, NEW p \in Passengers,
                      releases'[p] # releases[p]
               PROVE  \E s \in Seats : HeldBy(s, p) /\ seat[s].heldAt = "overdue"
    OBVIOUS
  <2> QED BY StepKinds, RowTypes
          DEF RowsStep, Holds, Releases, AwaitsPayment, Cancels, Completes,
              FallsDue
<1> QED BY <1>1, HoldInvariant, PTL DEF Spec, NoEarlyRelease

\* A release cancels the check-in of the hold it ends, which it finds by the seat
\* alone, unless that check-in awaits payment.
THEOREM ReleasesCancel == Spec => ReleaseCancelsCheckIn
<1> DEFINE Cancelled ==
      \A p \in Passengers : releases'[p] # releases[p] =>
        checkIn'[p].status = IF checkIn[p].status = "AWAITING_PAYMENT"
                               THEN "AWAITING_PAYMENT" ELSE "CANCELLED"
<1>1. HoldInv /\ [Next]_vars => [Cancelled]_vars
  <2> SUFFICES ASSUME HoldInv, [Next]_vars, NEW p \in Passengers,
                      releases'[p] # releases[p]
               PROVE  checkIn'[p].status =
                        IF checkIn[p].status = "AWAITING_PAYMENT"
                          THEN "AWAITING_PAYMENT" ELSE "CANCELLED"
    OBVIOUS
  <2>1. PICK s \in Seats, q \in Passengers : Releases(s, q)
    BY StepKinds DEF RowsStep, Holds, AwaitsPayment, Cancels, Completes, FallsDue
  <2>2. p = q
    BY <2>1, RowTypes DEF Releases
  <2>3. checkIn[p].seat = s /\ IsActive(checkIn[p].status)
    BY <2>1, <2>2 DEF Releases, HeldBy, HoldInv, HeldSeatHasActiveCheckIn
  <2>4. checkIn'[p] = IF checkIn[p].status = "IN_PROGRESS"
                        THEN [checkIn[p] EXCEPT !.status = "CANCELLED"]
                        ELSE checkIn[p]
    BY <2>1, <2>3 DEF Releases, CancelInProgress
  <2>5. checkIn[p] \in CheckInRow
    BY RowTypes
  <2> QED BY <2>3, <2>4, <2>5 DEF IsActive, CheckInRow
<1> QED BY <1>1, HoldInvariant, PTL DEF Spec, ReleaseCancelsCheckIn

\* Concurrent holds of a seat have one winner: startCheckIn and the waitlist only
\* ever take a seat that is AVAILABLE at that moment.
THEOREM HoldsTakeFreeSeats == Spec => HoldsTakeFreeSeatsOnly
<1> DEFINE Free ==
      \A s \in Seats :
        seat'[s].status = "HELD" /\ seat[s].heldBy # seat'[s].heldBy
            => seat[s].status = "AVAILABLE"
<1>1. HoldInv /\ [Next]_vars => [Free]_vars
  BY StepKinds, SeatWrites DEF Holds, SeatIsFree
<1> QED BY <1>1, HoldInvariant, PTL DEF Spec, HoldsTakeFreeSeatsOnly

----------------------------------------------------------------------------
(* The refinement of HoldLedger.                                            *)

\* The kinds of steps, seen by the ledger.
LEMMA LedgerStep ==
    ASSUME HoldInv, RowsStep
    PROVE  [Ledger!LedgerNext]_(Ledger!ledgerVars)
<1> DEFINE holder == [s \in Seats |->
                IF seat[s].status = "HELD" THEN seat[s].heldBy ELSE None]
           served == {p \in Passengers : HasCheckIn(p)}
<1> USE RowTypes DEF SeatRow, CheckInRow
<1>1. ASSUME NEW s \in Seats, NEW p \in Passengers, Holds(s, p)
      PROVE  Ledger!BeginHold(s, p)
  <2>1. holder[s] = None /\ p \notin served
    BY <1>1 DEF Holds, SeatIsFree
  <2>2. holder' = [holder EXCEPT ![s] = p]
    BY <1>1 DEF Holds, TakeHold
  <2>3. served' = served \cup {p}
    BY <1>1 DEF Holds, TakeHold, HasCheckIn
  <2> QED BY <2>1, <2>2, <2>3 DEF Ledger!BeginHold
<1>2. ASSUME NEW s \in Seats, seat' = [seat EXCEPT ![s] = FreeSeat]
      PROVE  holder' = holder \/ holder' = [holder EXCEPT ![s] = None]
  BY <1>2 DEF FreeSeat
<1>3. ASSUME NEW s \in Seats, seat' = [seat EXCEPT ![s].status = "CONFIRMED"]
      PROVE  holder' = holder \/ holder' = [holder EXCEPT ![s] = None]
  BY <1>3
<1>4. ASSUME NEW s \in Seats, FallsDue(s)
      PROVE  holder' = holder
  BY <1>4 DEF FallsDue
<1>5. ASSUME NEW s \in Seats, holder' = [holder EXCEPT ![s] = None],
             served' = served
      PROVE  [Ledger!LedgerNext]_(Ledger!ledgerVars)
  <2>1. CASE holder[s] = None
    <3>1. holder' = holder
      BY <1>5, <2>1
    <3> QED BY <1>5, <3>1 DEF Ledger!ledgerVars
  <2>2. CASE holder[s] # None
    BY <1>5, <2>2 DEF Ledger!EndHold, Ledger!LedgerNext
  <2> QED BY <2>1, <2>2
<1>6. ASSUME NEW s \in Seats, NEW p \in Passengers, Releases(s, p)
      PROVE  [Ledger!LedgerNext]_(Ledger!ledgerVars)
  <2>1. served' = served
    BY <1>6, CheckInsStay, CheckInWrites
    DEF Releases, CancelInProgress, HasCheckIn
  <2> QED BY <1>2, <1>5, <1>6, <2>1 DEF Releases, Ledger!ledgerVars
<1>7. ASSUME NEW p \in Passengers, Cancels(p)
      PROVE  [Ledger!LedgerNext]_(Ledger!ledgerVars)
  <2>1. served' = served
    BY <1>7 DEF Cancels, HasCheckIn
  <2>2. checkIn[p].seat \in Seats
    BY <1>7 DEF Cancels, HoldInv, CheckInsHaveSeats
  <2> QED BY <1>2, <1>5, <1>7, <2>1, <2>2 DEF Cancels, Ledger!ledgerVars
<1>8. ASSUME NEW p \in Passengers, NEW b \in Baggage, NEW paid \in BOOLEAN,
             Completes(p, b, paid)
      PROVE  [Ledger!LedgerNext]_(Ledger!ledgerVars)
  <2>1. served' = served
    BY <1>8 DEF Completes, HasCheckIn
  <2>2. checkIn[p].seat \in Seats
    BY <1>8 DEF Completes, HoldInv, CheckInsHaveSeats
  <2> QED BY <1>3, <1>5, <1>8, <2>1, <2>2 DEF Completes, Ledger!ledgerVars
<1>9. ASSUME NEW p \in Passengers, AwaitsPayment(p)
       PROVE  UNCHANGED <<holder, served>>
  BY <1>9 DEF AwaitsPayment, HasCheckIn
<1>10. ASSUME NEW s \in Seats, FallsDue(s)
       PROVE  UNCHANGED <<holder, served>>
  BY <1>4, <1>10 DEF FallsDue, HasCheckIn
<1>11. ASSUME UNCHANGED <<seat, checkIn, releases>>
       PROVE  UNCHANGED <<holder, served>>
  BY <1>11 DEF HasCheckIn
<1> QED
  BY <1>1, <1>6, <1>7, <1>8, <1>9, <1>10, <1>11
  DEF RowsStep, Ledger!LedgerNext, Ledger!ledgerVars

\* startCheckIn, confirmCheckIn, cancelCheckIn, releaseSeat and processWaitlist,
\* with the locks, keys and events between them, implement the ledger: holds
\* begin on seats nobody holds, for passengers who never had one, and end.
THEOREM LedgerImplemented == Spec => LedgerRefined
<1>1. Init => Ledger!LedgerInit
  BY DEF Init, StoreInit, FreeSeat, NoCheckIn, HasCheckIn, Ledger!LedgerInit
<1>2. HoldInv /\ [Next]_vars => [Ledger!LedgerNext]_(Ledger!ledgerVars)
  BY StepKinds, LedgerStep
<1> QED BY <1>1, <1>2, HoldInvariant, PTL
        DEF Spec, LedgerRefined, Ledger!LedgerSpec
============================================================================

------------------------ MODULE CheckInSystemTyping ------------------------
(***************************************************************************)
(* Type correctness of CheckInSystem, for any passengers, seats, handlers   *)
(* and bounds. TypeOK alone is not inductive: what a handler writes depends *)
(* on the passenger and the seat it works on, so the invariant also says    *)
(* that a handler past its first step has them.                             *)
(***************************************************************************)
EXTENDS CheckInSystem, TLAPS

PCs == StartPCs \cup ConfirmPCs \cup CancelPCs \cup {"idle"}

\* A request in flight has a passenger, and a seat it asks to hold.
RequestsBound ==
    \A h \in CheckInHandlers :
        /\ ~At(h, "idle") => request[h].passenger \in Passengers
        /\ request[h].pc \in StartPCs => request[h].seat \in Seats

\* An expiry handler has chosen its seat, and later read its owner.
JobsBound ==
    \A h \in ExpiryHandlers :
        /\ job[h].pc \notin {"idle", "acquireLock"} => job[h].seat \in Seats
        /\ job[h].pc \in {"releaseTx", "findEntry", "saveEntry"} =>
            job[h].owner \in Passengers

\* A waitlist handler has chosen its passenger, and later the seat.
RunsBound ==
    \A h \in WaitlistHandlers :
        /\ run[h].pc \in {"insert", "saveCancelled", "readSeat", "assignTx",
                          "setHoldKey"}
            => run[h].passenger \in Passengers
        /\ run[h].pc \in {"assignTx", "setHoldKey"} => run[h].seat \in Seats

\* A held seat has an owner.
RowsBound ==
    \A s \in Seats : seat[s].status = "HELD" => seat[s].heldBy \in Passengers

StoreInv == StoreTypeOK /\ RowsBound
RequestInv == RequestTypeOK /\ RequestsBound
JobInv == JobTypeOK /\ JobsBound
RunInv == RunTypeOK /\ RunsBound

TypeInv == StoreInv /\ RequestInv /\ JobInv /\ RunInv

----------------------------------------------------------------------------
(* The state of the check-in handlers.                                      *)

\* A request moves on to another await.
LEMMA GotoTyped ==
    ASSUME RequestInv, NEW h \in CheckInHandlers, ~At(h, "idle"),
           NEW pc \in PCs, Goto(h, pc),
           pc \in StartPCs => request[h].seat \in Seats
    PROVE  RequestInv'
BY DEF RequestInv, RequestTypeOK, RequestsBound, RequestState, Goto, PCs, At

\* A request ends.
LEMMA RespondTyped ==
    ASSUME RequestInv, NEW h \in CheckInHandlers, Respond(h)
    PROVE  RequestInv'
<1>1. NoRequest \in RequestState
  BY DEF NoRequest, RequestState, Baggage
<1>2. RequestTypeOK'
  BY <1>1 DEF RequestInv, RequestTypeOK, Respond
<1>3. RequestsBound'
  BY DEF RequestInv, RequestTypeOK, RequestsBound, Respond, At, NoRequest, StartPCs
<1> QED BY <1>2, <1>3 DEF RequestInv

\* A request begins, with a passenger and a seat.
LEMMA AcceptTyped ==
    ASSUME RequestInv, NEW h \in CheckInHandlers,
           NEW pc \in PCs, NEW p \in Passengers, NEW s \in Seats \cup {None},
           pc \in StartPCs => s \in Seats,
           NEW b \in Baggage, Accept(h, pc, p, s, b)
    PROVE  RequestInv'
BY DEF RequestInv, RequestTypeOK, RequestsBound, RequestState, PCs, At, Accept

\* Every step of a check-in handler keeps the handlers typed.
LEMMA RequestStepTyped ==
    ASSUME RequestInv, StoreInv, CheckInAssumption,
           NEW h \in CheckInHandlers, RequestNext(h)
    PROVE  RequestInv'
<1> USE DEF PCs, StartPCs, ConfirmPCs, CancelPCs
<1>1. ASSUME NEW p \in Passengers, NEW s \in Seats, StartCheckIn(h, p, s)
      PROVE  RequestInv'
  BY <1>1, AcceptTyped DEF StartCheckIn, Baggage
<1>2. ASSUME NEW p \in Passengers, NEW b \in DeclaredBaggage,
             ConfirmCheckIn(h, p, b)
      PROVE  RequestInv'
  <2>1. checkIn[p].seat \in Seats \cup {None}
    BY DEF StoreInv, StoreTypeOK, CheckInRow
  <2> QED BY <1>2, <2>1, AcceptTyped
          DEF ConfirmCheckIn, Baggage, CheckInAssumption
<1>3. ASSUME NEW p \in Passengers, CancelCheckIn(h, p)
      PROVE  RequestInv'
  <2>1. checkIn[p].seat \in Seats \cup {None}
    BY DEF StoreInv, StoreTypeOK, CheckInRow
  <2> QED BY <1>3, <2>1, AcceptTyped DEF CancelCheckIn, Baggage
<1>4. CASE PayExcessFee(h)
  <2>1. CASE Respond(h)
    BY <2>1, RespondTyped
  <2>2. CASE request' = [request EXCEPT ![h].pc = "completeTx", ![h].paid = TRUE]
    <3>1. request[h] \in RequestState /\ request[h].pc = "pay"
      BY <1>4 DEF PayExcessFee, RequestInv, RequestTypeOK, At
    <3>2. [request[h] EXCEPT !.pc = "completeTx", !.paid = TRUE] \in RequestState
      BY <3>1 DEF RequestState
    <3>3. RequestTypeOK'
      BY <2>2, <3>1, <3>2 DEF RequestInv, RequestTypeOK
    <3>4. RequestsBound'
      BY <2>2, <3>1
      DEF RequestInv, RequestTypeOK, RequestsBound, RequestState, At
    <3> QED BY <3>3, <3>4 DEF RequestInv
  <2> QED BY <1>4, <2>1, <2>2 DEF PayExcessFee
<1>5. CASE \/ AcquireSeatLock(h) \/ ReadSeatWithinLock(h) \/ HoldSeat(h)
           \/ HoldSeatFails(h) \/ SetHoldKey(h) \/ AwaitPayment(h)
           \/ CompleteCheckIn(h) \/ CancelTransaction(h)
  BY <1>5, GotoTyped
  DEF AcquireSeatLock, ReadSeatWithinLock, HoldSeat, HoldSeatFails,
      SetHoldKey, AwaitPayment, CompleteCheckIn, CancelTransaction, At,
      RequestInv, RequestsBound
<1>6. CASE \/ SeatLockUnavailable(h) \/ EndStart(h) \/ EmitAfterCancel(h)
           \/ LoseRequest(h)
  BY <1>6, RespondTyped
  DEF SeatLockUnavailable, EndStart, EmitAfterCancel, LoseRequest
<1>7. CASE CheckHoldKey(h) \/ DropHoldKey(h)
  BY <1>7, GotoTyped, RespondTyped DEF CheckHoldKey, ValidateBaggage, DropHoldKey, At
<1> QED
  BY <1>1, <1>2, <1>3, <1>4, <1>5, <1>6, <1>7
  DEF RequestNext, RequestArrives, RequestProceeds, CheckInAssumption

----------------------------------------------------------------------------
(* The rows and keys, under the steps of check-in requests.                 *)

\* Taking a hold keeps both tables typed.
LEMMA TakeHoldTyped ==
    ASSUME StoreInv, NEW s \in Seats, NEW p \in Passengers, TakeHold(s, p)
    PROVE  /\ (seat \in [Seats -> SeatRow])'
           /\ (checkIn \in [Passengers -> CheckInRow])'
           /\ RowsBound'
<1>1. (seat \in [Seats -> SeatRow])'
  BY DEF StoreInv, StoreTypeOK, TakeHold, SeatRow, SeatStatus, HeldAt
<1>2. (checkIn \in [Passengers -> CheckInRow])'
  BY DEF StoreInv, StoreTypeOK, TakeHold, CheckInRow, CheckInStatus, Baggage
<1>3. RowsBound'
  BY DEF StoreInv, StoreTypeOK, RowsBound, TakeHold, SeatRow
<1> QED BY <1>1, <1>2, <1>3

\* An update of the status of a seat keeps the table typed.
LEMMA SeatUpdateTyped ==
    ASSUME StoreInv, NEW s, NEW status \in SeatStatus \ {"HELD"},
           seat' = [seat EXCEPT ![s].status = status]
    PROVE  (seat \in [Seats -> SeatRow])' /\ RowsBound'
<1>1. CASE s \in Seats
  BY <1>1 DEF StoreInv, StoreTypeOK, RowsBound, SeatRow
<1>2. CASE s \notin Seats
  <2>1. seat' = seat
    BY <1>2 DEF StoreInv, StoreTypeOK
  <2> QED BY <2>1 DEF StoreInv, StoreTypeOK, RowsBound
<1> QED BY <1>1, <1>2

\* Freeing a seat keeps the table typed.
LEMMA SeatFreedTyped ==
    ASSUME StoreInv, NEW s, seat' = [seat EXCEPT ![s] = FreeSeat]
    PROVE  (seat \in [Seats -> SeatRow])' /\ RowsBound'
<1>1. FreeSeat \in SeatRow /\ FreeSeat.status # "HELD"
  BY DEF FreeSeat, SeatRow, SeatStatus, HeldAt
<1> QED BY <1>1 DEF StoreInv, StoreTypeOK, RowsBound

\* A new status keeps the waitlist typed.
LEMMA EntryStatusTyped ==
    ASSUME StoreInv, NEW p, NEW status \in WaitlistStatus,
           waitlist' = [waitlist EXCEPT ![p].status = status]
    PROVE  (waitlist \in [Passengers -> WaitlistRow])'
BY DEF StoreInv, StoreTypeOK, WaitlistRow

\* Emitting an event keeps the pending events counted.
LEMMA EmitTyped ==
    ASSUME StoreInv, NEW e \in Seats \cup {None}, EmitWaitlistProcess(e)
    PROVE  (waitlistEvents \in [Seats \cup {None} -> Nat])'
BY DEF StoreInv, StoreTypeOK, EmitWaitlistProcess

\* Losing a handler keeps to the bound.
LEMMA LoseTyped ==
    ASSUME StoreInv, StoreAssumption, LoseHandler
    PROVE  (crashes \in 0..MaxCrashes)'
BY DEF StoreInv, StoreTypeOK, LoseHandler, StoreAssumption

\* Steps that write nothing keep the store typed.
LEMMA StoreUnchanged ==
    ASSUME StoreInv, UNCHANGED storeVars
    PROVE  StoreInv'
BY DEF StoreInv, StoreTypeOK, RowsBound, storeVars, tableVars,
       redisVars, eventVars

\* Every step of a check-in handler keeps the store typed.
LEMMA RequestStepStore ==
    ASSUME StoreInv, RequestInv, StoreAssumption,
           NEW h \in CheckInHandlers, RequestNext(h)
    PROVE  StoreInv'
<1> USE DEF storeVars, tableVars, redisVars, eventVars
<1> DEFINE p == request[h].passenger
           s == request[h].seat
<1>1. /\ request[h].baggage \in Baggage /\ request[h].paid \in BOOLEAN
      /\ p \in Passengers \cup {None}
      /\ s \in Seats \cup {None}
  BY DEF RequestInv, RequestTypeOK, RequestState
<1>2. ASSUME ~At(h, "idle")
      PROVE  p \in Passengers /\ checkIn[p] \in CheckInRow
  BY <1>2 DEF RequestInv, RequestsBound, StoreInv, StoreTypeOK
<1>3. CASE AcquireSeatLock(h)
  BY <1>3 DEF AcquireSeatLock, StoreInv, StoreTypeOK, RowsBound
<1>4. CASE HoldSeat(h)
  <2>1. TakeHold(s, p) /\ s \in Seats /\ p \in Passengers
    BY <1>4 DEF HoldSeat, At, RequestInv, RequestsBound, StartPCs
  <2>2. UNCHANGED <<waitlist, releases, redisVars, eventVars, crashes>>
    BY <1>4 DEF HoldSeat
  <2> QED BY <2>1, <2>2, TakeHoldTyped DEF StoreInv, StoreTypeOK
<1>5. CASE SetHoldKey(h)
  BY <1>1, <1>5 DEF SetHoldKey, StoreInv, StoreTypeOK, RowsBound
<1>6. CASE EndStart(h)
  BY <1>6
  DEF EndStart, ReleaseSeatLock, StoreInv, StoreTypeOK, RowsBound
<1>7. CASE AwaitPayment(h)
  <2>1. p \in Passengers /\ checkIn[p] \in CheckInRow
    BY <1>2, <1>7 DEF AwaitPayment, At
  <2>2. [checkIn[p] EXCEPT !.status = "AWAITING_PAYMENT", !.baggage = "excess"]
            \in CheckInRow
    BY <2>1 DEF CheckInRow, CheckInStatus, Baggage
  <2>3. (checkIn \in [Passengers -> CheckInRow])'
    BY <1>7, <2>1, <2>2 DEF AwaitPayment, StoreInv, StoreTypeOK
  <2> QED BY <1>7, <2>3 DEF AwaitPayment, StoreInv, StoreTypeOK, RowsBound
<1>8. CASE CompleteCheckIn(h)
  <2>1. p \in Passengers /\ checkIn[p] \in CheckInRow
    BY <1>2, <1>8 DEF CompleteCheckIn, At
  <2>2. [checkIn[p] EXCEPT !.status = "COMPLETED",
                           !.baggage = request[h].baggage,
                           !.paid = request[h].paid] \in CheckInRow
    BY <1>1, <2>1 DEF CheckInRow, CheckInStatus
  <2>3. (checkIn \in [Passengers -> CheckInRow])'
    BY <1>8, <2>1, <2>2 DEF CompleteCheckIn, StoreInv, StoreTypeOK
  <2>4. (seat \in [Seats -> SeatRow])' /\ RowsBound'
    <3>1. seat' = [seat EXCEPT ![s].status = "CONFIRMED"]
      BY <1>8 DEF CompleteCheckIn
    <3>2. "CONFIRMED" \in SeatStatus \ {"HELD"}
      BY DEF SeatStatus
    <3> QED BY <3>1, <3>2, SeatUpdateTyped
  <2> QED BY <1>8, <2>3, <2>4 DEF CompleteCheckIn, StoreInv, StoreTypeOK
<1>9. CASE CancelTransaction(h)
  <2>1. p \in Passengers /\ checkIn[p] \in CheckInRow
    BY <1>2, <1>9 DEF CancelTransaction, At
  <2>2. [checkIn[p] EXCEPT !.status = "CANCELLED"] \in CheckInRow
    BY <2>1 DEF CheckInRow, CheckInStatus
  <2>3. (checkIn \in [Passengers -> CheckInRow])'
    BY <1>9, <2>1, <2>2 DEF CancelTransaction, StoreInv, StoreTypeOK
  <2>4. (seat \in [Seats -> SeatRow])' /\ RowsBound'
    BY <1>9, SeatFreedTyped DEF CancelTransaction
  <2> QED BY <1>9, <2>3, <2>4 DEF CancelTransaction, StoreInv, StoreTypeOK
<1>10. CASE DropHoldKey(h)
  BY <1>10 DEF DropHoldKey, StoreInv, StoreTypeOK, RowsBound
<1>11. CASE EmitAfterCancel(h)
  BY <1>11, EmitTyped
  DEF EmitAfterCancel, StoreInv, StoreTypeOK, RowsBound
<1>12. CASE LoseRequest(h)
  BY <1>12, LoseTyped
  DEF LoseRequest, StoreInv, StoreTypeOK, RowsBound
<1>13. CASE UNCHANGED storeVars
  BY <1>13, StoreUnchanged
<1> QED
  BY <1>3, <1>4, <1>5, <1>6, <1>7, <1>8, <1>9, <1>10, <1>11, <1>12, <1>13
  DEF RequestNext, RequestArrives, RequestProceeds, StartCheckIn,
      ConfirmCheckIn, CancelCheckIn, SeatLockUnavailable, ReadSeatWithinLock,
      HoldSeatFails, CheckHoldKey, PayExcessFee

----------------------------------------------------------------------------
(* The expiry handlers.                                                     *)

\* An expiry handler moves on to another await.
LEMMA JobGotoTyped ==
    ASSUME JobInv, NEW h \in ExpiryHandlers, job[h].seat \in Seats,
           NEW pc \in JobPCs, JobGoto(h, pc),
           pc \in {"releaseTx", "findEntry", "saveEntry"} =>
                job[h].owner \in Passengers
    PROVE  JobInv'
BY DEF JobInv, JobTypeOK, JobsBound, JobState, JobGoto

\* An expiry handler turns to its remaining seats, or ends.
LEMMA JobContinuesTyped ==
    ASSUME JobInv, NEW h \in ExpiryHandlers, NEW todo \in SUBSET Seats,
           JobContinues(h, todo)
    PROVE  JobInv'
<1>1. NoJob \in JobState /\ [NoJob EXCEPT !.pc = "acquireLock", !.todo = todo] \in JobState
  BY DEF NoJob, JobState, JobPCs
<1>2. JobTypeOK'
  BY <1>1 DEF JobInv, JobTypeOK, JobContinues
<1>3. JobsBound'
  BY DEF JobInv, JobTypeOK, JobsBound, JobContinues, NoJob
<1> QED BY <1>2, <1>3 DEF JobInv

\* Every step of an expiry handler keeps the handlers typed.
LEMMA JobStepTyped ==
    ASSUME JobInv, StoreInv, NEW h \in ExpiryHandlers, JobNext(h)
    PROVE  JobInv'
<1>1. ASSUME NEW s \in Seats, HandleHoldExpired(h, s)
      PROVE  JobInv'
  BY <1>1, JobContinuesTyped DEF HandleHoldExpired
<1>2. CASE SweepExpiredHolds(h) \/ LoseJob(h)
  BY <1>2, JobContinuesTyped DEF SweepExpiredHolds, LoseJob
<1>3. CASE AcquireReleaseLock(h)
  BY <1>3 DEF AcquireReleaseLock, JobInv, JobTypeOK, JobsBound, JobState, JobPCs
<1>4. job[h].todo \in SUBSET Seats
  BY DEF JobInv, JobTypeOK, JobState
<1>5. CASE SkipRelease(h) \/ EndRelease(h)
  BY <1>4, <1>5, JobContinuesTyped DEF SkipRelease, EndRelease
<1>6. CASE ReadHeldSeat(h)
  <2>1. job[h].seat \in Seats
    BY <1>6 DEF ReadHeldSeat, JobAt, JobInv, JobsBound
  <2>2. CASE IsOverdue(job[h].seat)
    <3>1. seat[job[h].seat].heldBy \in Passengers
      BY <2>1, <2>2 DEF IsOverdue, StoreInv, RowsBound
    <3>2. [job[h] EXCEPT !.pc = "releaseTx", !.owner = seat[job[h].seat].heldBy]
            \in JobState
      BY <3>1 DEF JobInv, JobTypeOK, JobState, JobPCs
    <3>3. JobTypeOK'
      BY <1>6, <2>2, <3>2 DEF ReadHeldSeat, JobInv, JobTypeOK
    <3>4. JobsBound'
      BY <1>6, <2>1, <2>2, <3>1
      DEF ReadHeldSeat, JobInv, JobTypeOK, JobState, JobsBound
    <3> QED BY <3>3, <3>4 DEF JobInv
  <2>3. CASE ~IsOverdue(job[h].seat)
    BY <1>6, <2>1, <2>3, JobGotoTyped DEF ReadHeldSeat, JobPCs
  <2> QED BY <2>2, <2>3
<1>7. CASE \/ ReleaseSeat(h) \/ ReleaseSeatFails(h) \/ FindAssignedEntry(h)
           \/ SaveExpiredEntry(h) \/ EmitAfterRelease(h)
  BY <1>7, JobGotoTyped
  DEF ReleaseSeat, ReleaseSeatFails, FindAssignedEntry, SaveExpiredEntry,
      EmitAfterRelease, JobAt, JobPCs, JobInv, JobsBound
<1> QED
  BY <1>1, <1>2, <1>3, <1>5, <1>6, <1>7 DEF JobNext, JobProceeds

\* Every step of an expiry handler keeps the store typed.
LEMMA JobStepStore ==
    ASSUME StoreInv, JobInv, StoreAssumption,
           NEW h \in ExpiryHandlers, JobNext(h)
    PROVE  StoreInv'
<1> USE DEF storeVars, tableVars, redisVars, eventVars
<1>1. ASSUME NEW s \in Seats, HandleHoldExpired(h, s)
      PROVE  StoreInv'
  BY <1>1 DEF HandleHoldExpired, StoreInv, StoreTypeOK, RowsBound
<1>2. CASE AcquireReleaseLock(h)
  <2>1. PICK s \in job[h].todo : seatLock' = [seatLock EXCEPT ![s] = h]
    BY <1>2 DEF AcquireReleaseLock
  <2>2. (seatLock \in [Seats -> CheckInHandlers \cup ExpiryHandlers \cup {None}])'
    BY <2>1 DEF StoreInv, StoreTypeOK
  <2> QED BY <1>2, <2>2 DEF AcquireReleaseLock, StoreInv, StoreTypeOK, RowsBound
<1>3. CASE ReleaseSeat(h)
  <2>1. job[h].seat \in Seats /\ job[h].owner \in Passengers
    BY <1>3 DEF ReleaseSeat, JobAt, JobInv, JobsBound
  <2>2. (seat \in [Seats -> SeatRow])' /\ RowsBound'
    BY <1>3, SeatFreedTyped DEF ReleaseSeat
  <2>3. (checkIn \in [Passengers -> CheckInRow])'
    <3>1. \A p \in Passengers :
            [checkIn[p] EXCEPT !.status = "CANCELLED"] \in CheckInRow
      BY DEF StoreInv, StoreTypeOK, CheckInRow, CheckInStatus
    <3> QED BY <1>3, <3>1
            DEF ReleaseSeat, CancelInProgress, StoreInv, StoreTypeOK
  <2>4. (releases \in [Passengers -> Nat])'
    BY <1>3, <2>1 DEF ReleaseSeat, StoreInv, StoreTypeOK
  <2> QED BY <1>3, <2>2, <2>3, <2>4 DEF ReleaseSeat, StoreInv, StoreTypeOK
<1>4. CASE SaveExpiredEntry(h)
  BY <1>4, EntryStatusTyped
  DEF SaveExpiredEntry, StoreInv, StoreTypeOK, RowsBound, WaitlistStatus
<1>5. CASE EmitAfterRelease(h)
  <2>1. job[h].seat \in Seats \cup {None}
    BY DEF JobInv, JobTypeOK, JobState
  <2>2. (waitlistEvents \in [Seats \cup {None} -> Nat])'
    BY <1>5, <2>1, EmitTyped DEF EmitAfterRelease
  <2> QED BY <1>5, <2>2 DEF EmitAfterRelease, StoreInv, StoreTypeOK, RowsBound
<1>6. CASE EndRelease(h)
  BY <1>6 DEF EndRelease, ReleaseSeatLock, StoreInv, StoreTypeOK, RowsBound
<1>7. CASE LoseJob(h)
  BY <1>7, LoseTyped DEF LoseJob, StoreInv, StoreTypeOK, RowsBound
<1>8. CASE UNCHANGED storeVars
  BY <1>8, StoreUnchanged
<1> QED
  BY <1>1, <1>2, <1>3, <1>4, <1>5, <1>6, <1>7, <1>8
  DEF JobNext, JobProceeds, SweepExpiredHolds, SkipRelease, ReadHeldSeat,
      ReleaseSeatFails, FindAssignedEntry

----------------------------------------------------------------------------
(* The waitlist handlers.                                                   *)

\* A waitlist handler moves on to another await.
LEMMA RunGotoTyped ==
    ASSUME RunInv, NEW h \in WaitlistHandlers, NEW pc \in RunPCs, RunGoto(h, pc),
           pc # "insert", pc # "saveCancelled", pc # "readSeat",
           pc # "assignTx",
           pc = "setHoldKey" => run[h].pc = "assignTx"
    PROVE  RunInv'
BY DEF RunInv, RunTypeOK, RunsBound, RunState, RunGoto

\* A waitlist handler ends.
LEMMA RunEndsTyped ==
    ASSUME RunInv, NEW h \in WaitlistHandlers, RunEnds(h)
    PROVE  RunInv'
<1>1. NoRun \in RunState
  BY DEF NoRun, RunState, RunPCs
<1>2. RunTypeOK'
  BY <1>1 DEF RunInv, RunTypeOK, RunEnds
<1>3. RunsBound'
  BY DEF RunInv, RunTypeOK, RunsBound, RunEnds, NoRun
<1> QED BY <1>2, <1>3 DEF RunInv

\* A handler's new state, spelled out.
LEMMA RunBeginsTyped ==
    ASSUME RunInv, NEW h \in WaitlistHandlers,
           NEW r \in RunState, run' = [run EXCEPT ![h] = r],
           r.pc \in {"insert", "saveCancelled", "readSeat", "assignTx"}
                => r.passenger \in Passengers,
           r.pc = "assignTx" => r.seat \in Seats,
           r.pc # "setHoldKey"
    PROVE  RunInv'
BY DEF RunInv, RunTypeOK, RunsBound

\* Every step of a waitlist handler keeps the handlers typed.
LEMMA RunStepTyped ==
    ASSUME RunInv, StoreInv, WaitlistAssumption,
           NEW h \in WaitlistHandlers, RunNext(h)
    PROVE  RunInv'
<1>1. ASSUME NEW p \in Passengers, JoinWaitlist(h, p)
      PROVE  RunInv'
  <2>1. PICK last \in {0} \cup {waitlist[q].position : q \in Passengers} :
            run' = [run EXCEPT ![h] = [NoRun EXCEPT !.pc = "insert",
                                                   !.passenger = p,
                                                   !.position = last + 1]]
    BY <1>1 DEF JoinWaitlist
  <2>2. last + 1 \in Nat
    BY DEF StoreInv, StoreTypeOK, WaitlistRow
  <2>3. [NoRun EXCEPT !.pc = "insert", !.passenger = p, !.position = last + 1]
            \in RunState
    BY <2>2 DEF NoRun, RunState, RunPCs
  <2> QED BY <2>1, <2>3, RunBeginsTyped DEF NoRun
<1>2. ASSUME NEW p \in Passengers, LeaveWaitlist(h, p)
      PROVE  RunInv'
  <2>1. [NoRun EXCEPT !.pc = "saveCancelled", !.passenger = p] \in RunState
    BY DEF NoRun, RunState, RunPCs
  <2> QED BY <1>2, <2>1, RunBeginsTyped DEF LeaveWaitlist, NoRun
<1>3. ASSUME NEW e \in Seats \cup {None}, ProcessWaitlist(h, e)
      PROVE  RunInv'
  <2>1. [NoRun EXCEPT !.pc = "acquireLock", !.wanted = e] \in RunState
    BY DEF NoRun, RunState, RunPCs
  <2> QED BY <1>3, <2>1, RunBeginsTyped DEF ProcessWaitlist, NoRun
<1>4. run[h] \in RunState
  BY DEF RunInv, RunTypeOK
<1>5. ASSUME NEW p \in Passengers,
             run' = [run EXCEPT ![h].pc = "readSeat", ![h].passenger = p]
      PROVE  RunInv'
  <2>1. [run[h] EXCEPT !.pc = "readSeat", !.passenger = p] \in RunState
    BY <1>4 DEF RunState, RunPCs
  <2>2. run' = [run EXCEPT ![h] =
                    [run[h] EXCEPT !.pc = "readSeat", !.passenger = p]]
    BY <1>5
  <2> QED BY <1>4, <2>1, <2>2, RunBeginsTyped DEF RunState
<1>6. ASSUME NEW s \in Seats, RunAt(h, "readSeat"),
             run' = [run EXCEPT ![h].pc = "assignTx", ![h].seat = s]
      PROVE  RunInv'
  <2>1. [run[h] EXCEPT !.pc = "assignTx", !.seat = s] \in RunState
    BY <1>4 DEF RunState, RunPCs
  <2>2. run' = [run EXCEPT ![h] =
                    [run[h] EXCEPT !.pc = "assignTx", !.seat = s]]
    BY <1>6
  <2>3. run[h].passenger \in Passengers
    BY <1>6 DEF RunAt, RunInv, RunsBound
  <2> QED BY <1>4, <2>1, <2>2, <2>3, RunBeginsTyped DEF RunState
<1>7. CASE ReadHead(h) \/ ReadFreeSeat(h)
  BY <1>5, <1>6, <1>7, RunGotoTyped
  DEF ReadHead, ReadFreeSeat, Candidates, RunPCs
<1>8. CASE \/ InsertEntry(h) \/ SaveCancelledEntry(h) \/ SkipProcessing(h)
           \/ EndProcessing(h) \/ LoseRun(h)
  BY <1>8, RunEndsTyped
  DEF InsertEntry, SaveCancelledEntry, SkipProcessing, EndProcessing, LoseRun
<1>9. CASE AcquireWaitlistLock(h)
  <2>1. RunTypeOK'
    BY <1>4, <1>9
    DEF AcquireWaitlistLock, RunGoto, RunInv, RunTypeOK, RunState, RunPCs
  <2> QED BY <1>9, <2>1, RunGotoTyped DEF AcquireWaitlistLock, RunPCs
<1>10. CASE AssignSeat(h) \/ AssignSeatFails(h) \/ SetAssignedHoldKey(h)
  BY <1>10, RunGotoTyped
  DEF AssignSeat, AssignSeatFails, SetAssignedHoldKey, RunAt, RunPCs
<1> QED
  BY <1>1, <1>2, <1>3, <1>7, <1>8, <1>9, <1>10
  DEF RunNext, RunProceeds, WaitlistAssumption

\* Every step of a waitlist handler keeps the store typed.
LEMMA RunStepStore ==
    ASSUME StoreInv, RunInv, StoreAssumption,
           NEW h \in WaitlistHandlers, RunNext(h)
    PROVE  StoreInv'
<1> USE DEF storeVars, tableVars, redisVars, eventVars
<1>1. run[h].position \in Nat
  BY DEF RunInv, RunTypeOK, RunState
<1>2. CASE InsertEntry(h)
  BY <1>1, <1>2
  DEF InsertEntry, StoreInv, StoreTypeOK, RowsBound, WaitlistRow, WaitlistStatus
<1>3. CASE SaveCancelledEntry(h)
  BY <1>3, EntryStatusTyped
  DEF SaveCancelledEntry, StoreInv, StoreTypeOK, RowsBound, WaitlistStatus
<1>4. ASSUME NEW e \in Seats \cup {None}, ProcessWaitlist(h, e)
      PROVE  StoreInv'
  BY <1>4 DEF ProcessWaitlist, StoreInv, StoreTypeOK, RowsBound
<1>5. CASE AcquireWaitlistLock(h)
  BY <1>5 DEF AcquireWaitlistLock, StoreInv, StoreTypeOK, RowsBound
<1>6. CASE AssignSeat(h)
  <2>1. run[h].passenger \in Passengers /\ run[h].seat \in Seats
    BY <1>6 DEF AssignSeat, RunAt, RunInv, RunsBound
  <2>2. TakeHold(run[h].seat, run[h].passenger)
    BY <1>6 DEF AssignSeat
  <2>3. (waitlist \in [Passengers -> WaitlistRow])'
    BY <1>6, EntryStatusTyped DEF AssignSeat, WaitlistStatus
  <2> QED BY <1>6, <2>1, <2>2, <2>3, TakeHoldTyped
          DEF AssignSeat, StoreInv, StoreTypeOK
<1>7. CASE SetAssignedHoldKey(h)
  BY <1>7
  DEF SetAssignedHoldKey, RunAt, RunInv, RunsBound,
      StoreInv, StoreTypeOK, RowsBound
<1>8. CASE EndProcessing(h)
  BY <1>8 DEF EndProcessing, StoreInv, StoreTypeOK, RowsBound
<1>9. CASE LoseRun(h)
  BY <1>9, LoseTyped DEF LoseRun, StoreInv, StoreTypeOK, RowsBound
<1>10. CASE UNCHANGED storeVars
  BY <1>10, StoreUnchanged
<1> QED
  BY <1>2, <1>3, <1>4, <1>5, <1>6, <1>7, <1>8, <1>9, <1>10
  DEF RunNext, RunProceeds, JoinWaitlist, LeaveWaitlist, SkipProcessing,
      ReadHead, ReadFreeSeat, AssignSeatFails, WaitlistAssumption

----------------------------------------------------------------------------
(* Time, and the whole system.                                              *)

\* The passing of time keeps the store typed.
LEMMA TimeStepStore ==
    ASSUME StoreInv, TimePasses
    PROVE  StoreInv'
<1> USE DEF storeVars, tableVars, redisVars, eventVars
<1>1. ASSUME NEW s \in Seats, HoldFallsDue(s)
      PROVE  StoreInv'
  BY <1>1 DEF HoldFallsDue, StoreInv, StoreTypeOK, RowsBound, SeatRow, HeldAt
<1>2. ASSUME NEW s \in Seats, HoldKeyExpires(s)
      PROVE  StoreInv'
  BY <1>2 DEF HoldKeyExpires, StoreInv, StoreTypeOK, RowsBound
<1>3. ASSUME NEW s \in Seats, SeatLockExpires(s)
      PROVE  StoreInv'
  BY <1>3 DEF SeatLockExpires, StoreInv, StoreTypeOK, RowsBound
<1>4. CASE WaitlistLockExpires
  BY <1>4 DEF WaitlistLockExpires, StoreInv, StoreTypeOK, RowsBound
<1> QED BY <1>1, <1>2, <1>3, <1>4 DEF TimePasses

\* Losing an event keeps the store typed.
LEMMA LoseEventStore ==
    ASSUME StoreInv, StoreAssumption, NEW e \in Seats \cup {None}, LoseEvent(e)
    PROVE  StoreInv'
BY LoseTyped
DEF LoseEvent, StoreInv, StoreTypeOK, RowsBound, tableVars, redisVars

\* The initial state is typed.
LEMMA InitTyped == Init => TypeInv
<1> SUFFICES ASSUME Init PROVE TypeInv
  OBVIOUS
<1> USE DEF Init
<1>1. StoreInv
  BY StoreAssumption
  DEF StoreInit, StoreInv, StoreTypeOK, RowsBound, FreeSeat, SeatRow,
      SeatStatus, HeldAt, NoCheckIn, CheckInRow, Baggage, NotListed, WaitlistRow
<1>2. RequestInv
  BY DEF RequestInit, RequestInv, RequestTypeOK, RequestsBound, NoRequest,
     RequestState, Baggage, At, StartPCs
<1>3. JobInv
  BY DEF JobInit, JobInv, JobTypeOK, JobsBound, NoJob, JobState, JobPCs
<1>4. RunInv
  BY DEF RunInit, RunInv, RunTypeOK, RunsBound, NoRun, RunState, RunPCs
<1> QED BY <1>1, <1>2, <1>3, <1>4 DEF TypeInv

\* Every step preserves the typing.
LEMMA StepTyped ==
    ASSUME TypeInv, Next
    PROVE  TypeInv'
<1> USE StoreAssumption, CheckInAssumption, WaitlistAssumption DEF TypeInv
<1>1. UNCHANGED request => RequestInv'
  BY DEF RequestInv, RequestTypeOK, RequestsBound, At
<1>2. UNCHANGED job => JobInv'
  BY DEF JobInv, JobTypeOK, JobsBound
<1>3. UNCHANGED run => RunInv'
  BY DEF RunInv, RunTypeOK, RunsBound
<1>4. CASE CheckInStep /\ UNCHANGED <<job, run>>
  BY <1>2, <1>3, <1>4, RequestStepTyped, RequestStepStore DEF CheckInStep
<1>5. CASE ExpiryStep /\ UNCHANGED <<request, run>>
  BY <1>1, <1>3, <1>5, JobStepTyped, JobStepStore DEF ExpiryStep
<1>6. CASE WaitlistStep /\ UNCHANGED <<request, job>>
  BY <1>1, <1>2, <1>6, RunStepTyped, RunStepStore DEF WaitlistStep
<1>7. CASE (\E e \in Seats \cup {None} : LoseEvent(e)) /\ UNCHANGED <<request, job>>
  <2>1. UNCHANGED run
    BY <1>7 DEF LoseEvent
  <2> QED BY <1>1, <1>2, <1>3, <1>7, <2>1, LoseEventStore
<1>8. CASE TimePasses /\ UNCHANGED <<request, job, run>>
  BY <1>1, <1>2, <1>3, <1>8, TimeStepStore
<1> QED BY <1>4, <1>5, <1>6, <1>7, <1>8 DEF Next

\* So does a step that changes nothing.
LEMMA StutterTyped ==
    ASSUME TypeInv, UNCHANGED vars
    PROVE  TypeInv'
BY StoreUnchanged
DEF TypeInv, vars, RequestInv, RequestTypeOK, RequestsBound, At,
    JobInv, JobTypeOK, JobsBound, RunInv, RunTypeOK, RunsBound

\* Every row, key, event count and handler state stays within its type, and no
\* handler works on a passenger or a seat it has not got: whatever the number of
\* handlers, and whichever of them the locks' expiry, crashes or stale reads
\* bring into conflict.
THEOREM TypeInvariant == Spec => []TypeInv
<1>1. TypeInv /\ [Next]_vars => TypeInv'
  BY StepTyped, StutterTyped
<1> QED BY InitTyped, <1>1, PTL DEF Spec

\* The columns keep the values of the entities' enums and references.
THEOREM TypeCorrect == Spec => []TypeOK
<1>1. TypeInv => TypeOK
  BY DEF TypeInv, TypeOK, StoreInv, RequestInv, JobInv, RunInv
<1> QED BY <1>1, TypeInvariant, PTL
============================================================================

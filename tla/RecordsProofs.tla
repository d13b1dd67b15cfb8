--------------------------- MODULE RecordsProofs ---------------------------
(***************************************************************************)
(* What audit rows and notifications say is true, for any passengers, seats *)
(* and handlers. Nothing about locks is used: a row is true because it is   *)
(* written in the transaction it is about, and a notification because its   *)
(* run goes on only after the transaction.                                  *)
(***************************************************************************)
EXTENDS Records, WaitlistProofs

\* Every step of Records is one of the system.
LEMMA RecordsAreSteps ==
    ASSUME [RecordNext]_allVars
    PROVE  [Next]_vars
<1>1. ASSUME NEW h \in CheckInHandlers,
             RecordedHold(h) \/ RecordedCompletion(h) \/ RecordedCancellation(h)
      PROVE  RequestNext(h)
  BY <1>1 DEF RecordedHold, RecordedCompletion, RecordedCancellation, RequestNext,
              RequestProceeds
<1>2. ASSUME NEW h \in ExpiryHandlers, RecordedRelease(h)
      PROVE  JobNext(h)
  BY <1>2 DEF RecordedRelease, JobNext, JobProceeds
<1>3. ASSUME NEW h \in WaitlistHandlers, RecordedAssignment(h) \/ NotifiedAssignment(h)
      PROVE  RunNext(h)
  BY <1>3 DEF RecordedAssignment, NotifiedAssignment, RunNext, RunProceeds
<1>4. ASSUME NEW n \in Notice, HandleWaitlistAssignment(n)
      PROVE  UNCHANGED vars
  BY <1>4 DEF HandleWaitlistAssignment
<1>5. ASSUME UNCHANGED allVars
      PROVE  UNCHANGED vars
  BY <1>5 DEF allVars
<1> QED
  BY <1>1, <1>2, <1>3, <1>4, <1>5
  DEF RecordNext, Unrecorded, Next, CheckInStep, ExpiryStep, WaitlistStep

\* The invariants of the system hold here too.
LEMMA RecordsKeepEntries == RecordSpec => []EntryInv
<1>1. RecordInit => EntryInv
  BY InitEntries DEF RecordInit
<1>2. EntryInv /\ [RecordNext]_allVars => EntryInv'
  BY StepEntries, RecordsAreSteps
<1> QED BY <1>1, <1>2, PTL DEF RecordSpec

----------------------------------------------------------------------------
(* The audit rows.                                                          *)

\* HistoryTellsStatus, with the type of the rows.
HistoryInv ==
    /\ lastRow \in [Seats \cup Passengers -> AuditAction \cup {None}]
    /\ HistoryTellsStatus

\* Steps that write no row.
Silent ==
    /\ \A s \in Seats : seat'[s].status = seat[s].status
    /\ \A p \in Passengers :
        checkIn'[p].status = "COMPLETED" => checkIn[p].status = "COMPLETED"
    /\ UNCHANGED lastRow

\* A step that writes no row neither changes the status of a seat nor completes
\* a check-in.
LEMMA UnrecordedIsSilent ==
    ASSUME EntryInv, Unrecorded, UNCHANGED lastRow
    PROVE  Silent
<1> USE DEF storeVars, tableVars, redisVars, eventVars
<1>1. /\ seat \in [Seats -> SeatRow]
      /\ checkIn \in [Passengers -> CheckInRow]
  BY DEF EntryInv, HoldInv, TypeInv, StoreInv, StoreTypeOK
<1>2. CASE UNCHANGED <<seat, checkIn>>
  BY <1>2 DEF Silent
<1>3. ASSUME NEW h \in CheckInHandlers, RequestNext(h)
      PROVE  Silent
  <2>1. CASE AwaitPayment(h)
    <3>1. request[h].passenger \in Passengers
      BY <2>1 DEF AwaitPayment, At, EntryInv, HoldInv, TypeInv, RequestInv, RequestsBound
    <3> QED BY <1>1, <2>1, <3>1 DEF AwaitPayment, Silent, CheckInRow
  <2> QED
    BY <1>2, <1>3, <2>1
    DEF Unrecorded, RequestNext, RequestArrives, RequestProceeds, StartCheckIn,
        ConfirmCheckIn, CancelCheckIn, AcquireSeatLock, SeatLockUnavailable,
        ReadSeatWithinLock, HoldSeatFails, SetHoldKey, EndStart, CheckHoldKey,
        PayExcessFee, DropHoldKey, EmitAfterCancel, LoseRequest
<1>4. ASSUME NEW h \in ExpiryHandlers, JobNext(h)
      PROVE  Silent
  BY <1>2, <1>4
  DEF Unrecorded, JobNext, JobProceeds, HandleHoldExpired, SweepExpiredHolds,
      AcquireReleaseLock, SkipRelease, ReadHeldSeat, ReleaseSeatFails,
      FindAssignedEntry, SaveExpiredEntry, EmitAfterRelease, EndRelease, LoseJob
<1>5. ASSUME NEW h \in WaitlistHandlers, RunNext(h)
      PROVE  Silent
  BY <1>2, <1>5
  DEF Unrecorded, RunNext, RunProceeds, JoinWaitlist, LeaveWaitlist, ProcessWaitlist,
      InsertEntry, SaveCancelledEntry, AcquireWaitlistLock, SkipProcessing,
      ReadHead, ReadFreeSeat, AssignSeatFails, EndProcessing, LoseRun
<1>6. ASSUME NEW s \in Seats, HoldFallsDue(s)
      PROVE  Silent
  BY <1>1, <1>6 DEF HoldFallsDue, Silent, SeatRow
<1>7. ASSUME NEW s \in Seats, HoldKeyExpires(s) \/ SeatLockExpires(s)
      PROVE  Silent
  BY <1>2, <1>7 DEF HoldKeyExpires, SeatLockExpires
<1>8. ASSUME WaitlistLockExpires \/ \E e \in Seats \cup {None} : LoseEvent(e)
      PROVE  Silent
  BY <1>2, <1>8 DEF WaitlistLockExpires, LoseEvent
<1> QED
  BY <1>3, <1>4, <1>5, <1>6, <1>7, <1>8
  DEF Unrecorded, Next, CheckInStep, ExpiryStep, WaitlistStep, TimePasses

\* A silent step leaves the rows true.
LEMMA SilenceKeepsHistory ==
    ASSUME HistoryInv, Silent
    PROVE  HistoryInv'
BY DEF HistoryInv, HistoryTellsStatus, Silent

\* A row about a seat tells the status its transaction leaves, and the check-ins
\* of the transaction are not completed by it.
LEMMA RowIsTrue ==
    ASSUME HistoryInv, NEW s \in Seats, NEW action \in AuditAction,
           LogWithTransaction(s, action),
           seat'[s].status = StatusTold(action),
           \A t \in Seats \ {s} : seat'[t] = seat[t],
           \A p \in Passengers : checkIn'[p].status = "COMPLETED"
                                    => checkIn[p].status = "COMPLETED"
    PROVE  HistoryInv'
<1>1. /\ lastRow'[s] = action
      /\ \A e \in (Seats \cup Passengers) \ {s} : lastRow'[e] = lastRow[e]
      /\ lastRow' \in [Seats \cup Passengers -> AuditAction \cup {None}]
  BY DEF HistoryInv, LogWithTransaction
<1>2. ASSUME NEW t \in Seats PROVE seat'[t].status = StatusTold(lastRow'[t])
  BY <1>1 DEF HistoryInv, HistoryTellsStatus
<1>3. ASSUME NEW p \in Passengers, checkIn'[p].status = "COMPLETED"
      PROVE  lastRow'[p] = "CHECKIN_COMPLETED"
  BY <1>1, <1>3, RecordAssumption DEF HistoryInv, HistoryTellsStatus
<1> QED BY <1>1, <1>2, <1>3 DEF HistoryInv, HistoryTellsStatus

\* So do the two rows of a transaction about a seat and a check-in.
LEMMA BothRowsAreTrue ==
    ASSUME HistoryInv, NEW s \in Seats, NEW seatAction \in AuditAction,
           NEW p \in Passengers, NEW checkInAction \in AuditAction,
           LogBoth(s, seatAction, p, checkInAction),
           seat'[s].status = StatusTold(seatAction),
           \A t \in Seats \ {s} : seat'[t] = seat[t],
           checkIn'[p].status = "COMPLETED" => checkInAction = "CHECKIN_COMPLETED",
           \A q \in Passengers \ {p} : checkIn'[q] = checkIn[q]
    PROVE  HistoryInv'
<1>1. /\ lastRow'[s] = seatAction /\ lastRow'[p] = checkInAction
      /\ \A e \in (Seats \cup Passengers) \ {s, p} : lastRow'[e] = lastRow[e]
      /\ lastRow' \in [Seats \cup Passengers -> AuditAction \cup {None}]
  BY RecordAssumption DEF HistoryInv, LogBoth
<1>2. ASSUME NEW t \in Seats PROVE seat'[t].status = StatusTold(lastRow'[t])
  BY <1>1, RecordAssumption DEF HistoryInv, HistoryTellsStatus
<1>3. ASSUME NEW q \in Passengers, checkIn'[q].status = "COMPLETED"
      PROVE  lastRow'[q] = "CHECKIN_COMPLETED"
  BY <1>1, <1>3, RecordAssumption DEF HistoryInv, HistoryTellsStatus
<1> QED BY <1>1, <1>2, <1>3 DEF HistoryInv, HistoryTellsStatus

\* Every step keeps the history true.
LEMMA HistoryStep ==
    ASSUME EntryInv, HistoryInv, [RecordNext]_allVars
    PROVE  HistoryInv'
<1>1. /\ seat \in [Seats -> SeatRow]
      /\ checkIn \in [Passengers -> CheckInRow]
  BY DEF EntryInv, HoldInv, TypeInv, StoreInv, StoreTypeOK
<1>2. ASSUME NEW s \in Seats, NEW p \in Passengers, TakeHold(s, p)
      PROVE  /\ seat'[s].status = "HELD"
             /\ \A t \in Seats \ {s} : seat'[t] = seat[t]
             /\ \A q \in Passengers : checkIn'[q].status = "COMPLETED"
                                        => checkIn[q].status = "COMPLETED"
  BY <1>1, <1>2 DEF TakeHold
<1>3. ASSUME NEW h \in CheckInHandlers, RecordedHold(h)
      PROVE  HistoryInv'
  <2>1. request[h].seat \in Seats /\ request[h].passenger \in Passengers
    BY <1>3 DEF RecordedHold, HoldSeat, At, StartPCs, EntryInv, HoldInv, TypeInv,
                RequestInv, RequestsBound
  <2>2. /\ TakeHold(request[h].seat, request[h].passenger)
        /\ LogWithTransaction(request[h].seat, "SEAT_HELD")
    BY <1>3 DEF RecordedHold, HoldSeat
  <2>3. "SEAT_HELD" \in AuditAction /\ StatusTold("SEAT_HELD") = "HELD"
    BY DEF AuditAction, StatusTold
  <2> QED BY <1>2, <2>1, <2>2, <2>3, RowIsTrue
<1>4. ASSUME NEW h \in WaitlistHandlers, RecordedAssignment(h)
      PROVE  HistoryInv'
  <2>1. run[h].seat \in Seats /\ run[h].passenger \in Passengers
    BY <1>4 DEF RecordedAssignment, AssignSeat, RunAt, EntryInv, HoldInv, TypeInv,
                RunInv, RunsBound
  <2>2. /\ TakeHold(run[h].seat, run[h].passenger)
        /\ LogWithTransaction(run[h].seat, "WAITLIST_ASSIGNED")
    BY <1>4 DEF RecordedAssignment, AssignSeat
  <2>3. "WAITLIST_ASSIGNED" \in AuditAction /\ StatusTold("WAITLIST_ASSIGNED") = "HELD"
    BY DEF AuditAction, StatusTold
  <2> QED BY <1>2, <2>1, <2>2, <2>3, RowIsTrue
<1>5. ASSUME NEW h \in ExpiryHandlers, RecordedRelease(h)
      PROVE  HistoryInv'
  <2>1. job[h].seat \in Seats
    BY <1>5 DEF RecordedRelease, ReleaseSeat, JobAt, EntryInv, HoldInv, TypeInv,
                JobInv, JobsBound
  <2>2. /\ seat'[job[h].seat].status = "AVAILABLE"
        /\ \A t \in Seats \ {job[h].seat} : seat'[t] = seat[t]
        /\ LogWithTransaction(job[h].seat, "SEAT_RELEASED")
    BY <1>1, <1>5, <2>1 DEF RecordedRelease, ReleaseSeat, FreeSeat
  <2>3. ASSUME NEW q \in Passengers, checkIn'[q].status = "COMPLETED"
        PROVE  checkIn[q].status = "COMPLETED"
    BY <1>1, <1>5, <2>3 DEF RecordedRelease, ReleaseSeat, CancelInProgress, CheckInRow
  <2>4. "SEAT_RELEASED" \in AuditAction /\ StatusTold("SEAT_RELEASED") = "AVAILABLE"
    BY DEF AuditAction, StatusTold
  <2> QED BY <2>1, <2>2, <2>3, <2>4, RowIsTrue
<1>6. ASSUME NEW h \in CheckInHandlers, request[h].pc \in {"completeTx", "cancelTx"}
      PROVE  /\ request[h].passenger \in Passengers
             /\ request[h].seat \in Seats
  <2>1. request[h].pc \in ConfirmPCs \cup CancelPCs /\ ~At(h, "idle")
    BY <1>6 DEF ConfirmPCs, CancelPCs, At
  <2> QED BY <2>1 DEF EntryInv, HoldInv, TypeInv, RequestInv, RequestsBound,
                      RequestsMatch, CheckInsHaveSeats
<1>7. ASSUME NEW h \in CheckInHandlers, RecordedCompletion(h)
      PROVE  HistoryInv'
  <2>1. request[h].passenger \in Passengers /\ request[h].seat \in Seats
    BY <1>6, <1>7 DEF RecordedCompletion, CompleteCheckIn, At
  <2>2. /\ seat'[request[h].seat].status = "CONFIRMED"
        /\ \A t \in Seats \ {request[h].seat} : seat'[t] = seat[t]
        /\ \A q \in Passengers \ {request[h].passenger} : checkIn'[q] = checkIn[q]
        /\ LogBoth(request[h].seat, "SEAT_CONFIRMED",
                   request[h].passenger, "CHECKIN_COMPLETED")
    BY <1>1, <1>7, <2>1 DEF RecordedCompletion, CompleteCheckIn, SeatRow
  <2>3. /\ {"SEAT_CONFIRMED", "CHECKIN_COMPLETED"} \subseteq AuditAction
        /\ StatusTold("SEAT_CONFIRMED") = "CONFIRMED"
    BY DEF AuditAction, StatusTold
  <2> QED BY <2>1, <2>2, <2>3, BothRowsAreTrue
<1>8. ASSUME NEW h \in CheckInHandlers, RecordedCancellation(h)
      PROVE  HistoryInv'
  <2>1. request[h].passenger \in Passengers /\ request[h].seat \in Seats
    BY <1>6, <1>8 DEF RecordedCancellation, CancelTransaction, At
  <2>2. /\ seat'[request[h].seat].status = "AVAILABLE"
        /\ \A t \in Seats \ {request[h].seat} : seat'[t] = seat[t]
        /\ checkIn'[request[h].passenger].status = "CANCELLED"
        /\ \A q \in Passengers \ {request[h].passenger} : checkIn'[q] = checkIn[q]
        /\ LogBoth(request[h].seat, "SEAT_CANCELLED",
                   request[h].passenger, "CHECKIN_CANCELLED")
    BY <1>1, <1>8, <2>1
    DEF RecordedCancellation, CancelTransaction, FreeSeat, CheckInRow
  <2>3. /\ {"SEAT_CANCELLED", "CHECKIN_CANCELLED"} \subseteq AuditAction
        /\ StatusTold("SEAT_CANCELLED") = "AVAILABLE"
    BY DEF AuditAction, StatusTold
  <2> QED BY <2>1, <2>2, <2>3, BothRowsAreTrue
<1>9. ASSUME NEW h \in WaitlistHandlers, NotifiedAssignment(h), UNCHANGED lastRow
      PROVE  HistoryInv'
  BY <1>9, SilenceKeepsHistory
  DEF NotifiedAssignment, SetAssignedHoldKey, tableVars, Silent
<1>10. ASSUME UNCHANGED <<vars, lastRow>>
       PROVE  HistoryInv'
  BY <1>10, SilenceKeepsHistory DEF vars, storeVars, tableVars, Silent
<1>11. CASE Unrecorded /\ UNCHANGED recordVars
  BY <1>11, UnrecordedIsSilent, SilenceKeepsHistory DEF recordVars
<1> QED
  BY <1>3, <1>4, <1>5, <1>7, <1>8, <1>9, <1>10, <1>11
  DEF RecordNext, HandleWaitlistAssignment, allVars, recordVars

\* HistoryInv is inductive.
LEMMA HistoryHolds == RecordSpec => []HistoryInv
<1>1. RecordInit => HistoryInv
  <2> SUFFICES ASSUME RecordInit PROVE HistoryInv
    OBVIOUS
  <2>1. /\ lastRow = [e \in Seats \cup Passengers |-> None]
        /\ \A s \in Seats : seat[s].status = "AVAILABLE"
        /\ \A p \in Passengers : checkIn[p].status = "NONE"
    BY DEF RecordInit, Init, StoreInit, FreeSeat, NoCheckIn
  <2>2. StatusTold(None) = "AVAILABLE"
    BY RecordAssumption DEF StatusTold, AuditAction
  <2> QED BY <2>1, <2>2 DEF HistoryInv, HistoryTellsStatus
<1>2. HistoryInv /\ EntryInv /\ [RecordNext]_allVars => HistoryInv'
  BY HistoryStep
<1> QED BY <1>1, <1>2, RecordsKeepEntries, PTL DEF RecordSpec

\* Whatever the order of overlapping transactions, the last row about a seat
\* tells its status and a completed check-in's last row is its completion.
THEOREM HistoryIsTrue == RecordSpec => []HistoryTellsStatus
<1>1. HistoryInv => HistoryTellsStatus
  BY DEF HistoryInv
<1> QED BY <1>1, HistoryHolds, PTL

----------------------------------------------------------------------------
(* The notifications.                                                       *)

\* NoticesAreTrue, with what keeps it.
NoticeInv ==
    \A n \in noticeEvents \cup notices :
        /\ n \in Notice
        /\ HasCheckIn(n.passenger)
        /\ checkIn[n.passenger].seat = n.seat
        /\ GivenSeat(waitlist[n.passenger].status)

\* Every step keeps the notices true, and a new one is of an assignment made.
LEMMA NoticeStep ==
    ASSUME EntryInv, NoticeInv, [RecordNext]_allVars
    PROVE  NoticeInv'
<1> SUFFICES ASSUME NEW n \in noticeEvents' \cup notices'
             PROVE  /\ n \in Notice
                    /\ HasCheckIn(n.passenger)'
                    /\ checkIn'[n.passenger].seat = n.seat
                    /\ GivenSeat(waitlist'[n.passenger].status)
  BY DEF NoticeInv, HasCheckIn, GivenSeat
<1>1. /\ n \in Notice
      /\ HasCheckIn(n.passenger)
      /\ checkIn[n.passenger].seat = n.seat
      /\ GivenSeat(waitlist[n.passenger].status)
  <2>1. CASE n \in noticeEvents \cup notices
    BY <2>1 DEF NoticeInv
  <2>2. CASE n \notin noticeEvents \cup notices
    <3>1. PICK h \in WaitlistHandlers : NotifiedAssignment(h) /\ n = NoticeOf(h)
      BY <2>2 DEF RecordNext, HandleWaitlistAssignment, NotifiedAssignment, allVars,
                  recordVars
    <3>2. run[h].pc = "setHoldKey"
      BY <3>1 DEF NotifiedAssignment, SetAssignedHoldKey, RunAt
    <3>3. run[h].passenger \in Passengers /\ run[h].seat \in Seats
      BY <3>2 DEF EntryInv, HoldInv, TypeInv, RunInv, RunsBound
    <3> QED BY <3>1, <3>2, <3>3 DEF NoticeOf, Notice, EntryInv, RunsMatch
  <2> QED BY <2>1, <2>2
<1>2. n.passenger \in Passengers
  BY <1>1 DEF Notice
<1>3. [Next]_vars /\ RowsStep
  BY RecordsAreSteps, StepKinds DEF EntryInv
<1> QED BY <1>1, <1>2, <1>3, CheckInsStay, GivenSeatStays DEF EntryInv

\* NoticeInv is inductive.
LEMMA NoticesHold == RecordSpec => []NoticeInv
<1>1. RecordInit => NoticeInv
  BY DEF RecordInit, NoticeInv
<1>2. NoticeInv /\ EntryInv /\ [RecordNext]_allVars => NoticeInv'
  BY NoticeStep
<1> QED BY <1>1, <1>2, RecordsKeepEntries, PTL DEF RecordSpec

\* assignSeatToWaitlistPassenger tells a passenger of a seat only after the
\* transaction that assigned it, and it is the seat of the check-in for good.
THEOREM NoticesTrue == RecordSpec => []NoticesAreTrue
<1>1. NoticeInv => NoticesAreTrue
  BY DEF NoticeInv, NoticesAreTrue, GivenSeat
<1> QED BY <1>1, NoticesHold, PTL

\* What recordVars can be: the type invariant of Records, which no run checks.
THEOREM RecordsTyped == RecordSpec => []RecordTypeOK
<1>1. HistoryInv /\ NoticeInv => RecordTypeOK
  BY DEF HistoryInv, NoticeInv, RecordTypeOK
<1> QED BY <1>1, HistoryHolds, NoticesHold, PTL
----------------------------------------------------------------------------
(* Records and the system.                                                  *)

\* Writing audit rows and sending notifications (logWithTransaction,
\* handleWaitlistAssignment) adds no behaviour to the services: whatever is proved
\* of CheckInSystem holds of the runs that record it.
THEOREM RecordsImplementSystem == RecordSpec => Spec
<1>1. RecordInit => Init
  BY DEF RecordInit
<1>2. [RecordNext]_allVars => [Next]_vars
  BY RecordsAreSteps
<1> QED BY <1>1, <1>2, PTL DEF RecordSpec, Spec

\* So the properties that runs check of RecordSpec, about holds, releases and the
\* waitlist, hold of it too.
THEOREM RecordsKeepProperties ==
    RecordSpec =>
        /\ []ReleasedAtMostOnce /\ NoEarlyRelease /\ ReleaseCancelsCheckIn
        /\ []AssignedEntryHasCheckIn /\ []ReleasedEntryExpires
        /\ ExpiredEntryStaysExpired /\ ListRefined
BY RecordsImplementSystem, AtMostOneRelease, ReleasesAreDue, ReleasesCancel,
   AssignmentsAreWhole, ReleasedEntriesExpire, ExpiredEntriesStay, ListImplemented, PTL
=============================================================================

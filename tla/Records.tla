------------------------------ MODULE Records ------------------------------
(***************************************************************************)
(* What CheckInSystem leaves behind for people to read: the rows of table   *)
(* audit_log that transactions write (audit.service.ts) and the messages of *)
(* notification.service.ts to passengers the waitlist gives a seat.         *)
(*                                                                          *)
(* Rows that are saved in the background (AuditService.log) are left out:   *)
(* WAITLIST_JOINED here, those of payments are in PaymentService. So are    *)
(* fromState, which the code fills in with constants or from a check-in     *)
(* read earlier, and the identity of the actor.                             *)
(***************************************************************************)
EXTENDS CheckInSystem

VARIABLES
    lastRow,      \* audit_log: the action of the last row about each entity
    noticeEvents, \* waitlist.notification events whose handler has not begun
    notices       \* notifications the service has sent

recordVars == <<lastRow, noticeEvents, notices>>
allVars == <<vars, recordVars>>

AuditAction ==
    {"SEAT_HELD", "SEAT_CONFIRMED", "SEAT_RELEASED", "SEAT_CANCELLED",
     "WAITLIST_ASSIGNED", "CHECKIN_COMPLETED", "CHECKIN_CANCELLED"}

ASSUME RecordAssumption == Passengers \cap Seats = {} /\ None \notin AuditAction

Notice == [passenger : Passengers, seat : Seats]

\* Entities are named by their passenger, or by their seat; a row about a
\* waitlist entry is looked up by the seat in its metadata.
RecordTypeOK ==
    /\ lastRow \in [Seats \cup Passengers -> AuditAction \cup {None}]
    /\ noticeEvents \subseteq Notice
    /\ notices \subseteq Notice

RecordInit ==
    /\ Init
    /\ lastRow = [e \in Seats \cup Passengers |-> None]
    /\ noticeEvents = {}
    /\ notices = {}

----------------------------------------------------------------------------
(* AuditService.logWithTransaction                                          *)

\* Faulty variant: the row is saved in the background, or not at all.
LogWithTransactionUnawaited(e, action) ==
    lastRow' = [lastRow EXCEPT ![e] = action] \/ UNCHANGED lastRow

LogWithTransaction(e, action) == lastRow' = [lastRow EXCEPT ![e] = action]

\* Two rows of one transaction.
LogBoth(s, seatAction, p, checkInAction) ==
    lastRow' = [lastRow EXCEPT ![s] = seatAction, ![p] = checkInAction]

RecordedHold(h) ==
    /\ HoldSeat(h)
    /\ LogWithTransaction(request[h].seat, "SEAT_HELD")

RecordedCompletion(h) ==
    /\ CompleteCheckIn(h)
    /\ LogBoth(request[h].seat, "SEAT_CONFIRMED", request[h].passenger, "CHECKIN_COMPLETED")

RecordedCancellation(h) ==
    /\ CancelTransaction(h)
    /\ LogBoth(request[h].seat, "SEAT_CANCELLED", request[h].passenger, "CHECKIN_CANCELLED")

RecordedRelease(h) ==
    /\ ReleaseSeat(h)
    /\ LogWithTransaction(job[h].seat, "SEAT_RELEASED")

RecordedAssignment(h) ==
    /\ AssignSeat(h)
    /\ LogWithTransaction(run[h].seat, "WAITLIST_ASSIGNED")

----------------------------------------------------------------------------
(* The notification of an assignment                                        *)

NoticeOf(h) == [passenger |-> run[h].passenger, seat |-> run[h].seat]

\* Faulty variant: the result of the transaction is not tested.
NotifiedAssignmentUntested(h) ==
    /\ SetAssignedHoldKey(h) \/ AssignSeatFails(h)
    /\ noticeEvents' = noticeEvents \cup {NoticeOf(h)}

\* The event follows the hold key and the invalidation of the seat map, at
\* which the handler may be lost.
NotifiedAssignment(h) ==
    /\ SetAssignedHoldKey(h)
    /\ \/ noticeEvents' = noticeEvents \cup {NoticeOf(h)}
       \/ UNCHANGED noticeEvents

\* handleWaitlistAssignment: one attempt, whose failure is only logged.
HandleWaitlistAssignment(n) ==
    /\ n \in noticeEvents
    /\ noticeEvents' = noticeEvents \ {n}
    /\ notices' = notices \cup {n} \/ UNCHANGED notices
    /\ UNCHANGED <<vars, lastRow>>

----------------------------------------------------------------------------

\* The steps of CheckInSystem that write no such row and emit no such event.
Unrecorded ==
    /\ Next
    /\ \A h \in CheckInHandlers : ~HoldSeat(h) /\ ~CompleteCheckIn(h) /\ ~CancelTransaction(h)
    /\ \A h \in ExpiryHandlers : ~ReleaseSeat(h)
    /\ \A h \in WaitlistHandlers : ~AssignSeat(h) /\ ~SetAssignedHoldKey(h)

RecordNext ==
    \/ /\ \E h \in CheckInHandlers :
            RecordedHold(h) \/ RecordedCompletion(h) \/ RecordedCancellation(h)
       /\ UNCHANGED <<job, run, noticeEvents, notices>>
    \/ /\ \E h \in ExpiryHandlers : RecordedRelease(h)
       /\ UNCHANGED <<request, run, noticeEvents, notices>>
    \/ /\ \E h \in WaitlistHandlers : RecordedAssignment(h)
       /\ UNCHANGED <<request, job, noticeEvents, notices>>
    \/ /\ \E h \in WaitlistHandlers : NotifiedAssignment(h)
       /\ UNCHANGED <<request, job, lastRow, notices>>
    \/ \E n \in Notice : HandleWaitlistAssignment(n)
    \/ Unrecorded /\ UNCHANGED recordVars

RecordSpec == RecordInit /\ [][RecordNext]_allVars

----------------------------------------------------------------------------
(* Properties                                                               *)

StatusTold(action) ==
    CASE action \in {"SEAT_HELD", "WAITLIST_ASSIGNED"} -> "HELD"
      [] action = "SEAT_CONFIRMED" -> "CONFIRMED"
      [] OTHER -> "AVAILABLE"

\* The audit trail tells the truth: whatever transactions overlap, the last row
\* about a seat tells its status, and no check-in is completed but by its last
\* row.
HistoryTellsStatus ==
    /\ \A s \in Seats : seat[s].status = StatusTold(lastRow[s])
    /\ \A p \in Passengers :
        checkIn[p].status = "COMPLETED" => lastRow[p] = "CHECKIN_COMPLETED"

\* A passenger is told of one seat only, the one the check-in is for, and never
\* of an assignment that was rolled back.
NoticesAreTrue ==
    \A n \in noticeEvents \cup notices :
        /\ checkIn[n.passenger].seat = n.seat
        /\ waitlist[n.passenger].status \in {"ASSIGNED", "EXPIRED", "CANCELLED"}
=============================================================================

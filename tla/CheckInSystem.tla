--------------------------- MODULE CheckInSystem ---------------------------
(***************************************************************************)
(* The check-in, hold-expiry and waitlist services over the shared store,   *)
(* with the passing of time, and the properties of the whole.               *)
(***************************************************************************)
EXTENDS CheckInService, HoldExpiryService, WaitlistService

vars == <<storeVars, request, job, run>>

TypeOK == StoreTypeOK /\ RequestTypeOK /\ JobTypeOK /\ RunTypeOK

Init == StoreInit /\ RequestInit /\ JobInit /\ RunInit

TimePasses ==
    \/ \E s \in Seats :
        \/ HoldFallsDue(s) /\ (OrderlyClients => HandledInTime(s))
        \/ HoldKeyExpires(s)
        \/ SeatLockExpires(s)
    \/ WaitlistLockExpires

CheckInStep == \E h \in CheckInHandlers : RequestNext(h)
ExpiryStep == \E h \in ExpiryHandlers : JobNext(h)
WaitlistStep == \E h \in WaitlistHandlers : RunNext(h)

Next ==
    \/ CheckInStep /\ UNCHANGED <<job, run>>
    \/ ExpiryStep /\ UNCHANGED <<request, run>>
    \/ WaitlistStep /\ UNCHANGED <<request, job>>
    \/ (\E e \in Seats \cup {None} : LoseEvent(e)) /\ UNCHANGED <<request, job>>
    \/ TimePasses /\ UNCHANGED <<request, job, run>>

Spec == Init /\ [][Next]_vars

(***************************************************************************)
(* Fairness. Handlers proceed, clocks advance, and the cron job starts a    *)
(* sweep every 30 s. Nothing is assumed of clients or of notifications. An  *)
(* attempt on the seat's lock may fail under contention, but the lock is    *)
(* never owned for more than 5 s and Redlock retries with random jitter: of *)
(* infinitely many failing attempts, some succeed.                          *)
(***************************************************************************)
RetriesSucceed(h) ==
    []<><<SkipRelease(h)>>_vars => []<><<AcquireReleaseLock(h)>>_vars

Fairness ==
    /\ \A h \in CheckInHandlers :
        WF_vars(RequestProceeds(h) /\ UNCHANGED <<job, run>>)
    /\ \A h \in ExpiryHandlers :
        /\ WF_vars(JobProceeds(h) /\ UNCHANGED <<request, run>>)
        /\ SF_vars(SweepExpiredHolds(h) /\ UNCHANGED <<request, run>>)
        /\ RetriesSucceed(h)
    /\ \A h \in WaitlistHandlers :
        /\ WF_vars(RunProceeds(h) /\ UNCHANGED <<request, job>>)
        /\ \A e \in Seats \cup {None} :
            WF_vars(ProcessWaitlist(h, e) /\ UNCHANGED <<request, job>>)
    /\ \A s \in Seats :
        /\ WF_vars(HoldFallsDue(s) /\ UNCHANGED <<request, job, run>>)
        /\ WF_vars(SeatLockExpires(s) /\ UNCHANGED <<request, job, run>>)
    /\ WF_vars(WaitlistLockExpires /\ UNCHANGED <<request, job, run>>)

FairSpec == Spec /\ Fairness

----------------------------------------------------------------------------
(* Safety: holds.                                                           *)

\* A seat is HELD only by a passenger whose own check-in is for that seat and
\* still active: the two tables never disagree about a hold, although
\* confirmations and cancellations write both without a lock or a condition.
HeldSeatHasActiveCheckIn ==
    \A s \in Seats : seat[s].status = "HELD" =>
        \E p \in Passengers :
            /\ seat[s].heldBy = p
            /\ checkIn[p].seat = s
            /\ IsActive(checkIn[p].status)

\* At-most-once release: however many notifications and sweeps run, and even
\* after the lock has expired under one of them, a hold is released (and a
\* SEAT_RELEASED row written) at most once.
ReleasedAtMostOnce == \A p \in Passengers : releases[p] <= 1

\* Expiry ends overdue holds only: a hold taken by someone else between a
\* handler's read of the seat and its conditional UPDATE is left alone.
NoEarlyRelease ==
    [][\A p \in Passengers : releases'[p] # releases[p] =>
        \E s \in Seats : HeldBy(s, p) /\ seat[s].heldAt = "overdue"]_vars

\* A released hold takes its check-in with it, unless that awaits payment: the
\* release finds the check-in by the seat, and it is the one of the hold's owner.
ReleaseCancelsCheckIn ==
    [][\A p \in Passengers : releases'[p] # releases[p] =>
        checkIn'[p].status = IF checkIn[p].status = "AWAITING_PAYMENT"
                               THEN "AWAITING_PAYMENT" ELSE "CANCELLED"]_vars

\* Exactly one hold wins: a held or confirmed seat is never taken over by a hold;
\* in any state of the locks the seat has to become AVAILABLE in between.
HoldsTakeFreeSeatsOnly ==
    [][\A s \in Seats :
        seat'[s].status = "HELD" /\ seat[s].heldBy # seat'[s].heldBy
            => seat[s].status = "AVAILABLE"]_vars

\* A check-in is COMPLETED with excess baggage only if its fee was paid, also
\* when confirmations of the same check-in with different baggage overlap.
ExcessBaggageIsPaid ==
    \A p \in Passengers :
        checkIn[p].status = "COMPLETED" /\ checkIn[p].baggage = "excess"
            => checkIn[p].paid

\* A completed check-in owns its seat: the seat is CONFIRMED and its held_by is
\* the passenger. It holds with OrderlyClients; see NoDoubleBooking for any others.
CompletedCheckInOwnsSeat ==
    \A p \in Passengers : checkIn[p].status = "COMPLETED" =>
        /\ seat[checkIn[p].seat].status = "CONFIRMED"
        /\ seat[checkIn[p].seat].heldBy = p

\* With OrderlyClients check-ins change status along the documented arrows only: a
\* confirmation neither revives a check-in that was cancelled nor takes back one
\* that was completed, with or without excess baggage.
CheckInLifecycle ==
    [][\A p \in Passengers :
        checkIn[p].status # checkIn'[p].status =>
            <<checkIn[p].status, checkIn'[p].status>> \in
                {<<"NONE", "IN_PROGRESS">>,
                 <<"IN_PROGRESS", "COMPLETED">>,
                 <<"IN_PROGRESS", "AWAITING_PAYMENT">>,
                 <<"AWAITING_PAYMENT", "COMPLETED">>,
                 <<"IN_PROGRESS", "CANCELLED">>,
                 <<"AWAITING_PAYMENT", "CANCELLED">>,
                 <<"COMPLETED", "CANCELLED">>}]_vars

(* Safety: keys and locks.                                                  *)

\* hold:{seatId} names a passenger with a check-in for that very seat: the key is
\* written after the transaction, in another store, and never for one that failed.
HoldKeysNameCheckIns ==
    \A s \in Seats : holdKey[s] # None =>
        HasCheckIn(holdKey[s]) /\ checkIn[holdKey[s]].seat = s

\* No path of a handler leaves its lock behind, be it refused, rolled back or done:
\* as long as no handler was lost, the owner of a lock is still working under it.
LocksAreOwned ==
    crashes = 0 =>
        /\ \A h \in CheckInHandlers, s \in Seats : seatLock[s] = h =>
            request[h].seat = s /\ request[h].pc \in StartPCs \ {"acquireLock"}
        /\ \A h \in ExpiryHandlers, s \in Seats : seatLock[s] = h =>
            job[h].seat = s /\ job[h].pc \in JobPCs \ {"idle", "acquireLock"}
        /\ \A h \in WaitlistHandlers : waitlistLock = h =>
            run[h].pc \in {"readHead", "readSeat", "assignTx", "setHoldKey", "releaseLock"}

(* Safety: the waitlist.                                                    *)

\* A waitlist entry is given a seat at most once: an entry whose assignment
\* has expired is not assigned again, whatever stale head a run still has.
ExpiredEntryStaysExpired ==
    [][\A p \in Passengers :
        waitlist[p].status = "EXPIRED" => waitlist'[p].status # "ASSIGNED"]_vars

\* An ASSIGNED entry has a check-in, written in the same transaction.
AssignedEntryHasCheckIn ==
    \A p \in Passengers : waitlist[p].status = "ASSIGNED" => HasCheckIn(p)

\* A passenger whose hold was released does not stay ASSIGNED for it: either some
\* handler is about to end the entry, or a handler was lost. Nothing later looks at
\* the entry, so the handler that released the hold must find it.
ReleasedEntryExpires ==
    \A p \in Passengers :
        releases[p] > 0 /\ waitlist[p].status = "ASSIGNED" =>
            \/ crashes > 0
            \/ \E h \in ExpiryHandlers :
                job[h].owner = p /\ job[h].pc \in {"findEntry", "saveEntry"}

(* Liveness.                                                                *)

\* No hold outlives its window for ever: the sweep finds it even if the key was
\* never set, the notification was lost or handlers crashed.
OverdueHoldsEnd ==
    \A s \in Seats, p \in Passengers :
        HeldBy(s, p) /\ seat[s].heldAt = "overdue" ~> ~HeldBy(s, p)

----------------------------------------------------------------------------
(* Refinement: the protocol keeps the promises of HoldLedger.               *)

Ledger == INSTANCE HoldLedger WITH
    holder <- [s \in Seats |->
                IF seat[s].status = "HELD" THEN seat[s].heldBy ELSE None],
    served <- {p \in Passengers : HasCheckIn(p)}

\* Every step of the services is a step of the ledger, or none.
LedgerRefined == Ledger!LedgerSpec

Booking == INSTANCE BookingLedger WITH
    holder <- [s \in Seats |-> IF SeatIsFree(s) THEN None ELSE seat[s].heldBy],
    served <- {p \in Passengers : HasCheckIn(p)},
    booked <- {p \in Passengers : checkIn[p].status = "COMPLETED"}

\* With OrderlyClients every step is one of the promise of bookings: no seat changes
\* hands between the hold and the booking, and no booking outlives its seat.
BookingRefined == Booking!BookSpec

List == INSTANCE WaitlistLedger WITH
    holder <- [s \in Seats |->
                IF seat[s].status = "HELD" THEN seat[s].heldBy ELSE None],
    served <- {p \in Passengers : HasCheckIn(p)},
    entry <- [p \in Passengers |-> waitlist[p].status]

\* Every step is also one of the waitlist's promise: an entry is given a seat only
\* with the hold, once at most, and an offer is over only when the hold is.
ListRefined == List!ListSpec

----------------------------------------------------------------------------
(* What the documentation says, in the words of its state machines.         *)

\* No double booking: two completed check-ins never share a seat.
NoDoubleBooking ==
    \A p, q \in Passengers :
        /\ checkIn[p].status = "COMPLETED"
        /\ checkIn[q].status = "COMPLETED"
        /\ checkIn[p].seat = checkIn[q].seat
        => p = q

\* During the hold window no other passenger can reserve the seat: a hold that
\* is not overdue ends only in a step on behalf of its owner.
HoldIsExclusive ==
    [][\A s \in Seats, p \in Passengers :
        HeldBy(s, p) /\ seat[s].heldAt = "recent" /\ ~HeldBy(s, p)'
            => checkIn'[p].status \in {"COMPLETED", "CANCELLED"}]_vars

\* A freed seat is assigned: once its event is pending and an eligible passenger
\* heads the list, the seat is given away (or the passenger is served or leaves).
FreedSeatIsAssigned ==
    \A s \in Seats, p \in Passengers :
        /\ waitlistEvents[None] > 0
        /\ SeatIsFree(s) /\ IsHead(p) /\ ~HasCheckIn(p)
        ~> ~SeatIsFree(s) \/ ~IsWaiting(p) \/ HasCheckIn(p)
=============================================================================

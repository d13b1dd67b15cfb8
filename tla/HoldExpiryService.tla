------------------------- MODULE HoldExpiryService -------------------------
(***************************************************************************)
(* hold-expiry.service.ts: the two mechanisms that end overdue holds, the   *)
(* keyspace notification and the sweep, both through releaseSeat. Several   *)
(* handlers may run at once: every instance receives the notification, and  *)
(* the cron job starts whether or not an earlier sweep still runs.          *)
(***************************************************************************)
EXTENDS SeatStore

VARIABLE job \* the state of each expiry handler

JobPCs == {"idle", "acquireLock", "readSeat", "releaseTx", "findEntry",
           "saveEntry", "emit", "releaseLock"}

\* owner is the held_by the handler read; todo the seats still to release.
JobState == [pc : JobPCs, seat : Seats \cup {None},
             owner : Passengers \cup {None}, todo : SUBSET Seats]

NoJob == [pc |-> "idle", seat |-> None, owner |-> None, todo |-> {}]

JobTypeOK == job \in [ExpiryHandlers -> JobState]
JobInit == job = [h \in ExpiryHandlers |-> NoJob]

JobAt(h, pc) == job[h].pc = pc
JobGoto(h, pc) == job' = [job EXCEPT ![h].pc = pc]

\* On to the remaining seats, or done.
JobContinues(h, todo) ==
    job' = [job EXCEPT ![h] =
        IF todo = {} THEN NoJob
                     ELSE [NoJob EXCEPT !.pc = "acquireLock", !.todo = todo]]

\* Faulty variant: every hold is taken for overdue.
IsOverdueAnyHold(s) == seat[s].status = "HELD"

IsOverdue(s) == seat[s].status = "HELD" /\ seat[s].heldAt = "overdue"

----------------------------------------------------------------------------

\* @OnEvent(SEAT_HOLD_EXPIRED_EVENT)
HandleHoldExpired(h, s) ==
    /\ JobAt(h, "idle")
    /\ s \in keyEvents[h]
    /\ keyEvents' = [keyEvents EXCEPT ![h] = @ \ {s}]
    /\ JobContinues(h, {s})
    /\ UNCHANGED <<tableVars, redisVars, waitlistEvents, crashes>>

\* Faulty variant: the sweep asks for holds whose key exists.
SweepExpiredHoldsByKey(h) ==
    /\ JobAt(h, "idle")
    /\ \E s \in Seats : IsOverdue(s) /\ holdKey[s] # None
    /\ JobContinues(h, {s \in Seats : IsOverdue(s) /\ holdKey[s] # None})
    /\ UNCHANGED storeVars

\* @Cron: the query for overdue holds.
SweepExpiredHolds(h) ==
    /\ JobAt(h, "idle")
    /\ \E s \in Seats : IsOverdue(s)
    /\ JobContinues(h, {s \in Seats : IsOverdue(s)})
    /\ UNCHANGED storeVars

AcquireReleaseLock(h) ==
    /\ JobAt(h, "acquireLock")
    /\ \E s \in job[h].todo :
        /\ seatLock[s] = None
        /\ seatLock' = [seatLock EXCEPT ![s] = h]
        /\ job' = [job EXCEPT ![h].pc = "readSeat", ![h].seat = s,
                              ![h].todo = @ \ {s}]
    /\ UNCHANGED <<tableVars, holdKey, waitlistLock, eventVars, crashes>>

\* The lock is taken: this seat is skipped.
SkipRelease(h) ==
    /\ JobAt(h, "acquireLock")
    /\ \E s \in job[h].todo :
        /\ seatLock[s] # None
        /\ JobContinues(h, job[h].todo \ {s})
    /\ UNCHANGED storeVars

\* Faulty variant: the entry is marked before the hold is released.
ReadHeldSeatMarksEntry(h) ==
    LET owner == seat[job[h].seat].heldBy IN
    /\ JobAt(h, "readSeat")
    /\ IF IsOverdue(job[h].seat)
         THEN /\ job' = [job EXCEPT ![h].pc = "releaseTx", ![h].owner = owner]
              /\ waitlist' = [waitlist EXCEPT ![owner].status =
                                IF @ = "ASSIGNED" THEN "EXPIRED" ELSE @]
         ELSE JobGoto(h, "releaseLock") /\ UNCHANGED waitlist
    /\ UNCHANGED <<seat, checkIn, releases, redisVars, eventVars, crashes>>

ReadHeldSeat(h) ==
    /\ JobAt(h, "readSeat")
    /\ IF IsOverdue(job[h].seat)
         THEN job' = [job EXCEPT ![h].pc = "releaseTx",
                                 ![h].owner = seat[job[h].seat].heldBy]
         ELSE JobGoto(h, "releaseLock")
    /\ UNCHANGED storeVars

\* Faulty variant: the WHERE clause omits held_by.
StillHeldByAnyone(s, owner) == seat[s].status = "HELD"

\* Faulty variant: the UPDATE goes by id only.
StillHeldUnchecked(s, owner) == TRUE

\* The WHERE clause of the release: still HELD, and by the same passenger.
StillHeld(s, owner) == seat[s].status = "HELD" /\ seat[s].heldBy = owner

\* Faulty variant: the check-ins are left alone.
CancelInProgressNone(s) == UNCHANGED checkIn

\* The UPDATE of the check-ins of the seat: only those IN_PROGRESS.
CancelInProgress(s) ==
    checkIn' = [p \in Passengers |->
        IF checkIn[p].seat = s /\ checkIn[p].status = "IN_PROGRESS"
          THEN [checkIn[p] EXCEPT !.status = "CANCELLED"]
          ELSE checkIn[p]]

\* One transaction: the seat, the check-in and the SEAT_RELEASED row.
ReleaseSeat(h) ==
    LET s == job[h].seat
        p == job[h].owner
    IN  /\ JobAt(h, "releaseTx")
        /\ StillHeld(s, p)
        /\ seat' = [seat EXCEPT ![s] = FreeSeat]
        /\ CancelInProgress(s)
        /\ releases' = [releases EXCEPT ![p] = @ + 1]
        /\ JobGoto(h, "findEntry")
        /\ UNCHANGED <<waitlist, redisVars, eventVars, crashes>>

ReleaseSeatFails(h) ==
    /\ JobAt(h, "releaseTx")
    /\ ~StillHeld(job[h].seat, job[h].owner)
    /\ JobGoto(h, "releaseLock")
    /\ UNCHANGED storeVars

\* Faulty variant: the entry of the passenger the seat names after the release.
FindEntryOfHolder(h) ==
    LET holder == seat[job[h].seat].heldBy IN
    /\ JobAt(h, "findEntry")
    /\ job' = [job EXCEPT ![h].owner = holder,
                          ![h].pc = IF holder # None /\ waitlist[holder].status = "ASSIGNED"
                                      THEN "saveEntry" ELSE "emit"]
    /\ UNCHANGED storeVars

\* markWaitlistEntryExpired: find the passenger's ASSIGNED entry ...
FindAssignedEntry(h) ==
    /\ JobAt(h, "findEntry")
    /\ JobGoto(h, IF waitlist[job[h].owner].status = "ASSIGNED"
                    THEN "saveEntry" ELSE "emit")
    /\ UNCHANGED storeVars

\* ... and save it EXPIRED.
SaveExpiredEntry(h) ==
    /\ JobAt(h, "saveEntry")
    /\ waitlist' = [waitlist EXCEPT ![job[h].owner].status = "EXPIRED"]
    /\ JobGoto(h, "emit")
    /\ UNCHANGED <<seat, checkIn, releases, redisVars, eventVars, crashes>>

EmitAfterRelease(h) ==
    /\ JobAt(h, "emit")
    /\ EmitWaitlistProcess(job[h].seat)
    /\ JobGoto(h, "releaseLock")
    /\ UNCHANGED <<tableVars, redisVars, keyEvents, crashes>>

\* If the lock has expired meanwhile, releasing it throws, and the exception
\* ends the sweep before its remaining seats.
EndRelease(h) ==
    LET s == job[h].seat IN
    /\ JobAt(h, "releaseLock")
    /\ ReleaseSeatLock(s, h)
    /\ JobContinues(h, IF seatLock[s] = h THEN job[h].todo ELSE {})
    /\ UNCHANGED <<tableVars, holdKey, waitlistLock, eventVars, crashes>>

LoseJob(h) ==
    /\ ~JobAt(h, "idle")
    /\ LoseHandler
    /\ JobContinues(h, {})
    /\ UNCHANGED <<tableVars, redisVars, eventVars>>

----------------------------------------------------------------------------

JobProceeds(h) ==
    \/ AcquireReleaseLock(h) \/ SkipRelease(h)
    \/ ReadHeldSeat(h)
    \/ ReleaseSeat(h) \/ ReleaseSeatFails(h)
    \/ FindAssignedEntry(h) \/ SaveExpiredEntry(h)
    \/ EmitAfterRelease(h)
    \/ EndRelease(h)

JobNext(h) ==
    \/ \E s \in Seats : HandleHoldExpired(h, s)
    \/ SweepExpiredHolds(h)
    \/ JobProceeds(h)
    \/ LoseJob(h)
============================================================================

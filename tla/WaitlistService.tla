-------------------------- MODULE WaitlistService --------------------------
(***************************************************************************)
(* waitlist.service.ts: joining and leaving the waitlist, without a lock,   *)
(* and the processing of a waitlist.process event under the lock            *)
(* lock:waitlist:{flightId}, which gives one freed seat to the head of the  *)
(* list. handleWaitlistHoldExpiry has no caller and is left out.            *)
(***************************************************************************)
EXTENDS SeatStore

CONSTANT Joiners \* the passengers who may join the waitlist

ASSUME WaitlistAssumption == Joiners \subseteq Passengers

VARIABLE run \* the state of each waitlist handler

RunPCs == {"idle", "insert", "saveCancelled", "acquireLock", "readHead",
           "readSeat", "assignTx", "setHoldKey", "releaseLock"}

\* wanted is the seat of the event's payload, None for any seat.
RunState == [pc : RunPCs, passenger : Passengers \cup {None},
             position : Nat, wanted : Seats \cup {None}, seat : Seats \cup {None}]

NoRun == [pc |-> "idle", passenger |-> None, position |-> 0,
          wanted |-> None, seat |-> None]

RunTypeOK == run \in [WaitlistHandlers -> RunState]
RunInit == run = [h \in WaitlistHandlers |-> NoRun]

RunAt(h, pc) == run[h].pc = pc
RunGoto(h, pc) == run' = [run EXCEPT ![h].pc = pc]
RunEnds(h) == run' = [run EXCEPT ![h] = NoRun]

IsWaiting(p) == waitlist[p].status = "WAITING"

\* SELECT MAX(position), over entries in every status, 0 if there is none.
IsMaxPosition(n) == \A p \in Passengers : waitlist[p].position <= n

\* The first waiting entry: ORDER BY position, ties in any order.
IsHead(p) ==
    /\ IsWaiting(p)
    /\ \A q \in Passengers :
        IsWaiting(q) => waitlist[p].position <= waitlist[q].position

----------------------------------------------------------------------------
(* joinWaitlist and leaveWaitlist                                           *)

\* Not WAITING already; the next position is read before the insert.
JoinWaitlist(h, p) ==
    /\ RunAt(h, "idle")
    /\ ~IsWaiting(p)
    /\ \E last \in {0} \cup {waitlist[q].position : q \in Passengers} :
        /\ IsMaxPosition(last)
        /\ run' = [run EXCEPT ![h] = [NoRun EXCEPT !.pc = "insert",
                                                   !.passenger = p,
                                                   !.position = last + 1]]
    /\ UNCHANGED storeVars

\* UNIQUE(flight_id, passenger_id) rejects a passenger who ever had an entry.
InsertEntry(h) ==
    LET p == run[h].passenger IN
    /\ RunAt(h, "insert")
    /\ waitlist' = IF waitlist[p].status = "NONE"
                     THEN [waitlist EXCEPT ![p] =
                            [status |-> "WAITING", position |-> run[h].position]]
                     ELSE waitlist
    /\ RunEnds(h)
    /\ UNCHANGED <<seat, checkIn, releases, redisVars, eventVars, crashes>>

LeaveWaitlist(h, p) ==
    /\ RunAt(h, "idle")
    /\ IsWaiting(p)
    /\ run' = [run EXCEPT ![h] =
                [NoRun EXCEPT !.pc = "saveCancelled", !.passenger = p]]
    /\ UNCHANGED storeVars

\* The entry is saved by id, whatever its status has become.
SaveCancelledEntry(h) ==
    /\ RunAt(h, "saveCancelled")
    /\ waitlist' = [waitlist EXCEPT ![run[h].passenger].status = "CANCELLED"]
    /\ RunEnds(h)
    /\ UNCHANGED <<seat, checkIn, releases, redisVars, eventVars, crashes>>

----------------------------------------------------------------------------
(* processWaitlist                                                          *)

\* @OnEvent(WAITLIST_PROCESS_EVENT)
ProcessWaitlist(h, e) ==
    /\ RunAt(h, "idle")
    /\ waitlistEvents[e] > 0
    /\ waitlistEvents' = [waitlistEvents EXCEPT ![e] = @ - 1]
    /\ run' = [run EXCEPT ![h] =
                [NoRun EXCEPT !.pc = "acquireLock", !.wanted = e]]
    /\ UNCHANGED <<tableVars, redisVars, keyEvents, crashes>>

AcquireWaitlistLock(h) ==
    /\ RunAt(h, "acquireLock")
    /\ waitlistLock = None
    /\ waitlistLock' = h
    /\ RunGoto(h, "readHead")
    /\ UNCHANGED <<tableVars, holdKey, seatLock, eventVars, crashes>>

\* The event is dropped.
SkipProcessing(h) ==
    /\ RunAt(h, "acquireLock")
    /\ waitlistLock # None
    /\ RunEnds(h)
    /\ UNCHANGED storeVars

ReadHead(h) ==
    /\ RunAt(h, "readHead")
    /\ \/ \E p \in Passengers :
            /\ IsHead(p)
            /\ run' = [run EXCEPT ![h].pc = "readSeat", ![h].passenger = p]
       \/ /\ ~\E p \in Passengers : IsWaiting(p)
          /\ RunGoto(h, "releaseLock")
    /\ UNCHANGED storeVars

\* The seats the run may assign: the wanted one, or any that is free.
Candidates(h) ==
    {s \in Seats : seat[s].status = "AVAILABLE" /\ run[h].wanted \in {s, None}}

ReadFreeSeat(h) ==
    /\ RunAt(h, "readSeat")
    /\ \/ \E s \in Candidates(h) :
            run' = [run EXCEPT ![h].pc = "assignTx", ![h].seat = s]
       \/ Candidates(h) = {} /\ RunGoto(h, "releaseLock")
    /\ UNCHANGED storeVars

\* One transaction: the conditional UPDATE of the seat, the UPDATE of the
\* entry by id only, and the INSERT of the check-in.
AssignSeat(h) ==
    LET s == run[h].seat
        p == run[h].passenger
    IN  /\ RunAt(h, "assignTx")
        /\ SeatIsFree(s)
        /\ CheckInIsUnique(p)
        /\ TakeHold(s, p)
        /\ waitlist' = [waitlist EXCEPT ![p].status = "ASSIGNED"]
        /\ RunGoto(h, "setHoldKey")
        /\ UNCHANGED <<releases, redisVars, eventVars, crashes>>

\* Faulty variant: the UPDATE of the entry is outside the transaction.
AssignSeatFailsButMarks(h) ==
    /\ RunAt(h, "assignTx")
    /\ ~(SeatIsFree(run[h].seat) /\ CheckInIsUnique(run[h].passenger))
    /\ waitlist' = [waitlist EXCEPT ![run[h].passenger].status = "ASSIGNED"]
    /\ RunGoto(h, "releaseLock")
    /\ UNCHANGED <<seat, checkIn, releases, redisVars, eventVars, crashes>>

AssignSeatFails(h) ==
    /\ RunAt(h, "assignTx")
    /\ ~(SeatIsFree(run[h].seat) /\ CheckInIsUnique(run[h].passenger))
    /\ RunGoto(h, "releaseLock")
    /\ UNCHANGED storeVars

\* Faulty variant: the entry the run has in memory is saved once more.
SetAssignedHoldKeySavesEntry(h) ==
    /\ RunAt(h, "setHoldKey")
    /\ holdKey' = [holdKey EXCEPT ![run[h].seat] = run[h].passenger]
    /\ waitlist' = [waitlist EXCEPT ![run[h].passenger].status = "ASSIGNED"]
    /\ RunGoto(h, "releaseLock")
    /\ UNCHANGED <<seat, checkIn, releases, seatLock, waitlistLock, eventVars, crashes>>

SetAssignedHoldKey(h) ==
    /\ RunAt(h, "setHoldKey")
    /\ holdKey' = [holdKey EXCEPT ![run[h].seat] = run[h].passenger]
    /\ RunGoto(h, "releaseLock")
    /\ UNCHANGED <<tableVars, seatLock, waitlistLock, eventVars, crashes>>

EndProcessing(h) ==
    /\ RunAt(h, "releaseLock")
    /\ waitlistLock' = IF waitlistLock = h THEN None ELSE waitlistLock
    /\ RunEnds(h)
    /\ UNCHANGED <<tableVars, holdKey, seatLock, eventVars, crashes>>

LoseRun(h) ==
    /\ ~RunAt(h, "idle")
    /\ LoseHandler
    /\ RunEnds(h)
    /\ UNCHANGED <<tableVars, redisVars, eventVars>>

\* The instance that holds a pending event crashes.
LoseEvent(e) ==
    /\ waitlistEvents[e] > 0
    /\ LoseHandler
    /\ waitlistEvents' = [waitlistEvents EXCEPT ![e] = @ - 1]
    /\ UNCHANGED <<tableVars, redisVars, keyEvents, run>>

----------------------------------------------------------------------------

RunProceeds(h) ==
    \/ InsertEntry(h)
    \/ SaveCancelledEntry(h)
    \/ AcquireWaitlistLock(h) \/ SkipProcessing(h)
    \/ ReadHead(h)
    \/ ReadFreeSeat(h)
    \/ AssignSeat(h) \/ AssignSeatFails(h)
    \/ SetAssignedHoldKey(h)
    \/ EndProcessing(h)

RunNext(h) ==
    \/ \E p \in Joiners : JoinWaitlist(h, p) \/ LeaveWaitlist(h, p)
    \/ \E e \in Seats \cup {None} : ProcessWaitlist(h, e)
    \/ RunProceeds(h)
    \/ LoseRun(h)
============================================================================

----------------------------- MODULE SeatStore -----------------------------
(***************************************************************************)
(* The state the services share, for one flight: the rows of the PostgreSQL *)
(* tables seat, check_in, waitlist and audit_log, the Redis keys            *)
(* hold:{seatId}, lock:seat:{seatId} and lock:waitlist:{flightId}, and the  *)
(* two kinds of events the services pass to each other.                     *)
(*                                                                          *)
(* The primary key of a check-in is a generated id, but the table has       *)
(* UNIQUE(passenger, flight) and rows are never deleted, so on one flight a *)
(* passenger names at most one check-in (and at most one waitlist entry):   *)
(* both tables are functions of the passenger, status "NONE" for no row.    *)
(***************************************************************************)
EXTENDS Naturals, FiniteSets

CONSTANTS
    Passengers,         \* the passengers of the flight
    Seats,              \* the seats of the flight
    CheckInHandlers,    \* slots for concurrent check-in requests
    ExpiryHandlers,     \* slots for concurrent expiry handlers and sweeps
    WaitlistHandlers,   \* slots for concurrent waitlist requests and runs
    None,               \* SQL NULL, an absent Redis key
    MaxEvents,          \* bound: pending waitlist.process events per payload
    MaxCrashes          \* bound: handlers lost to a crash or an I/O error

ASSUME StoreAssumption ==
    /\ None \notin Passengers
    /\ None \notin Seats
    /\ None \notin CheckInHandlers
    /\ None \notin ExpiryHandlers
    /\ None \notin WaitlistHandlers
    /\ CheckInHandlers \cap ExpiryHandlers = {}
    /\ MaxEvents \in Nat
    /\ MaxCrashes \in Nat

VARIABLES
    seat,           \* table seat: status, held_by, held_at
    checkIn,        \* table check_in
    waitlist,       \* table waitlist
    releases,       \* audit_log: SEAT_RELEASED rows, by the hold's passenger
    holdKey,        \* Redis hold:{seatId}: the passenger stored, or None
    seatLock,       \* Redis lock:seat:{seatId}: its owner, or None
    waitlistLock,   \* Redis lock:waitlist:{flightId}: its owner, or None
    keyEvents,      \* expired-key notifications a subscriber has received
    waitlistEvents, \* waitlist.process events whose handler has not begun
    crashes         \* how many handlers have been lost

tableVars == <<seat, checkIn, waitlist, releases>>
redisVars == <<holdKey, seatLock, waitlistLock>>
eventVars == <<keyEvents, waitlistEvents>>
storeVars == <<tableVars, redisVars, eventVars, crashes>>

SeatStatus == {"AVAILABLE", "HELD", "CONFIRMED"}
CheckInStatus == {"IN_PROGRESS", "AWAITING_PAYMENT", "COMPLETED", "CANCELLED"}
WaitlistStatus == {"WAITING", "ASSIGNED", "CANCELLED", "EXPIRED"}

\* held_at, seen from now: a hold is overdue once held_at + 120 s has passed.
HeldAt == {None, "recent", "overdue"}

\* Baggage declared in a confirmation: within the allowance, or in excess.
Baggage == {"none", "within", "excess"}

SeatRow == [status : SeatStatus, heldBy : Passengers \cup {None}, heldAt : HeldAt]
CheckInRow == [status : CheckInStatus \cup {"NONE"}, seat : Seats \cup {None},
               baggage : Baggage, paid : BOOLEAN]
WaitlistRow == [status : WaitlistStatus \cup {"NONE"}, position : Nat]

FreeSeat == [status |-> "AVAILABLE", heldBy |-> None, heldAt |-> None]
NoCheckIn == [status |-> "NONE", seat |-> None, baggage |-> "none", paid |-> FALSE]
NotListed == [status |-> "NONE", position |-> 0]

StoreTypeOK ==
    /\ seat \in [Seats -> SeatRow]
    /\ checkIn \in [Passengers -> CheckInRow]
    /\ waitlist \in [Passengers -> WaitlistRow]
    /\ releases \in [Passengers -> Nat]
    /\ holdKey \in [Seats -> Passengers \cup {None}]
    /\ seatLock \in [Seats -> CheckInHandlers \cup ExpiryHandlers \cup {None}]
    /\ waitlistLock \in WaitlistHandlers \cup {None}
    /\ keyEvents \in [ExpiryHandlers -> SUBSET Seats]
    /\ waitlistEvents \in [Seats \cup {None} -> Nat]
    /\ crashes \in 0..MaxCrashes

StoreInit ==
    /\ seat = [s \in Seats |-> FreeSeat]
    /\ checkIn = [p \in Passengers |-> NoCheckIn]
    /\ waitlist = [p \in Passengers |-> NotListed]
    /\ releases = [p \in Passengers |-> 0]
    /\ holdKey = [s \in Seats |-> None]
    /\ seatLock = [s \in Seats |-> None]
    /\ waitlistLock = None
    /\ keyEvents = [h \in ExpiryHandlers |-> {}]
    /\ waitlistEvents = [e \in Seats \cup {None} |-> 0]
    /\ crashes = 0

----------------------------------------------------------------------------
(* Statements that several transactions share.                              *)

HasCheckIn(p) == checkIn[p].status # "NONE"
IsActive(status) == status \in {"IN_PROGRESS", "AWAITING_PAYMENT"}
HeldBy(s, p) == seat[s].status = "HELD" /\ seat[s].heldBy = p

\* The conditional UPDATE of a hold: it affects a row only if the seat is free.
SeatIsFree(s) == seat[s].status = "AVAILABLE"

\* Faulty variant: no such constraint.
CheckInIsUniqueUnchecked(p) == TRUE

\* INSERT INTO check_in: UNIQUE(passenger_id, flight_id).
CheckInIsUnique(p) == ~HasCheckIn(p)

\* Seat AVAILABLE -> HELD and the new check-in, in one transaction.
TakeHold(s, p) ==
    /\ seat' = [seat EXCEPT ![s] =
                    [status |-> "HELD", heldBy |-> p, heldAt |-> "recent"]]
    /\ checkIn' = [checkIn EXCEPT ![p] =
                    [status |-> "IN_PROGRESS", seat |-> s,
                     baggage |-> "none", paid |-> FALSE]]

\* waitlist.process is an in-memory event; None stands for a payload without a
\* seat. Past MaxEvents pending handlers one more counts as skipped, as a
\* handler does that cannot get the waitlist lock.
EmitWaitlistProcess(e) ==
    waitlistEvents' =
        [waitlistEvents EXCEPT ![e] = IF @ < MaxEvents THEN @ + 1 ELSE @]

\* A handler is lost: its instance crashes, or an await of it throws. A lock it
\* owns stays until its TTL runs out.
LoseHandler == crashes < MaxCrashes /\ crashes' = crashes + 1

----------------------------------------------------------------------------
(* Time.                                                                    *)

\* 120 s have passed since held_at. held_at survives a confirmation, so the
\* status does not matter.
HoldFallsDue(s) ==
    /\ seat[s].heldAt = "recent"
    /\ seat' = [seat EXCEPT ![s].heldAt = "overdue"]
    /\ UNCHANGED <<checkIn, waitlist, releases, redisVars, eventVars, crashes>>

\* The TTL of hold:{seatId} starts after the transaction that writes held_at, so
\* while that hold lasts the key outlives it; the key of a hold that has ended
\* may run out at any time. Notifications are published, not queued: any subset
\* of the subscribers receives it.
HoldKeyExpires(s) ==
    /\ holdKey[s] # None
    /\ seat[s].heldBy = holdKey[s] => seat[s].heldAt = "overdue"
    /\ holdKey' = [holdKey EXCEPT ![s] = None]
    /\ \E subscribers \in SUBSET ExpiryHandlers :
        keyEvents' = [h \in ExpiryHandlers |->
            IF h \in subscribers THEN keyEvents[h] \cup {s} ELSE keyEvents[h]]
    /\ UNCHANGED <<tableVars, seatLock, waitlistLock, waitlistEvents, crashes>>

\* Locks are never extended: 5 s after the acquisition they are gone, whatever
\* the owner is doing.
SeatLockExpires(s) ==
    /\ seatLock[s] # None
    /\ seatLock' = [seatLock EXCEPT ![s] = None]
    /\ UNCHANGED <<tableVars, holdKey, waitlistLock, eventVars, crashes>>

WaitlistLockExpires ==
    /\ waitlistLock # None
    /\ waitlistLock' = None
    /\ UNCHANGED <<tableVars, holdKey, seatLock, eventVars, crashes>>

\* Redlock's release: if the lock has expired it throws and changes nothing.
ReleaseSeatLock(s, h) ==
    seatLock' = [seatLock EXCEPT ![s] = IF @ = h THEN None ELSE @]
============================================================================

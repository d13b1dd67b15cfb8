# Sky-High Core: specifications, model checking and proofs

TLA+ modules for the check-in backend in `src/`: the seat-hold protocol shared
by check-in, hold expiry and waitlist with the audit rows and notifications it
leaves behind, the confirmation with its fee and its payment, the seat map's
cache and the rate limiter. TLC checks small instances; TLAPS proves theorems for
any passengers, seats, handlers, calls, limits and times. Paths below are
relative to the repository, `*.service.ts` under `src/`. Run
`tlc -config X.cfg M` and `tlapm M.tla` in this directory.

## 1. Inventory

| Component | State it keeps | Operations | What makes it correct |
|---|---|---|---|
| Seat store: PostgreSQL tables, Redis keys, Redlock locks, events | `seat`, `check_in`, `waitlist`, `audit_log`; `hold:{seatId}`, `lock:seat:{id}`, `lock:waitlist:{flight}`; keyspace notifications, `waitlist.process` | conditional and unconditional UPDATEs, INSERTs under unique constraints, TTLs that run out | rows agree with each other in whatever order the services write them |
| Check-in service (`check-in/check-in.service.ts`) | requests in flight | `startCheckIn`, `confirmCheckIn`, `cancelCheckIn` (`getCheckIn` reads) | one hold per seat; a completed check-in owns its seat and has paid |
| Hold expiry (`check-in/hold-expiry.service.ts`) | handlers and sweeps in flight | `handleHoldExpired`, `sweepExpiredHolds`, `releaseSeat` | overdue holds end, once, and only overdue ones |
| Waitlist (`waitlist/waitlist.service.ts`) | requests and runs in flight | `joinWaitlist`, `leaveWaitlist`, `processWaitlist` | an entry is assigned once, with a check-in |
| Baggage (`baggage/baggage.service.ts`) | columns of `check_in` | `calculateFee`, `validateBaggage` | the fee is that of the weight stored, to the cent |
| Payment (`payment/payment.service.ts`) | calls with their attempts, messages | `processPayment` | success only for a charge; bounded retries; it returns |
| Audit log (`audit/audit.service.ts`) | rows, append only | `log` (fire and forget), `logWithTransaction` | the last row about an entity tells its status |
| Notification (`notification/notification.service.ts`) | events, messages sent | `handleWaitlistAssignment` | passengers are told of their own seat, and only of committed assignments |
| Seat map cache (`seat/seat.service.ts`) | `seatmap:{flightId}`, TTL 2 s | `getSeatMap`, `invalidateCache` | staleness is bounded and has a cause |
| Rate limiter (`common/middleware`, `redis.service.ts:116`) and abuse events (`audit/abuse-event.service.ts`) | sorted set per client, sliding window; `abuse_event` | `use`, `addRateLimitEntry`, `record`, `cleanupOldAbuseEvents` | no window admits more than the limit; events accuse the right client |
| Flights, passengers, aircraft; JWT guard; errors, logs, metrics; configuration; stubs, seeds, k6 | none that the protocol depends on | reads, formatting, start-up | not modelled |

**Interaction.** The services never call each other, but for check-in calling
baggage and payment. They share rows and Redis keys, and meet through events:
Redis publishes the expiry of `hold:{seatId}` to every instance (lost if nobody
listens); cancellation and expiry emit `waitlist.process` in memory; the waitlist
creates holds of its own, which the expiry ends again, and emits
`waitlist.notification`. Every transaction on a seat is followed by a DEL of the
seat map. Confirmation waits for the weight and the payment service between
reading its check-in and writing it.

**What is hard.** Locks are Redlock locks of 5 s that are never extended, so
every critical section may be overlapped. `confirmCheckIn` and `cancelCheckIn`
take no lock at all and write rows by id from a check-in read several awaits
earlier. The same release may be started by a notification in each instance and
by the sweep. A process may die between a transaction and the Redis command
after it. A payment that timed out goes on at the other end. Readers of the seat
map and requests to the limiter overtake each other. `PROJECT.json` lists these
hazards with their lines and the properties that cover them.

## 2. Modules

| Module | Models | Extends |
|---|---|---|
| `SeatStore` | the shared state of one flight, the statements several transactions share, the passing of time | - |
| `CheckInService` | `check-in.service.ts` | `SeatStore` |
| `HoldExpiryService` | `hold-expiry.service.ts` | `SeatStore` |
| `WaitlistService` | `waitlist.service.ts` | `SeatStore` |
| `CheckInSystem` | the composition, its fairness and its properties | the three services |
| `HoldLedger` | the abstract promise: who holds which seat, and who has ever held one | - |
| `BookingLedger` | the abstract promise to orderly clients: holds become bookings, and seats are given up with them | `HoldLedger` |
| `WaitlistLedger` | the abstract waitlist: an entry is given a seat in the step that begins the hold | `HoldLedger` |
| `Records` | audit rows and notifications of that composition | `CheckInSystem` |
| `BaggageService` | the fee, its rounding, and the columns of weight and fee | - |
| `PaymentService` | `payment.service.ts`, the service behind it and the network | - |
| `Confirmation` | the confirmations of one check-in with both | `PaymentService`, `BaggageService` |
| `BillingLedger` | the abstract billing: who has asked for a payment, who was charged, when a check-in completes | - |
| `SeatMap` | `seat.service.ts` and the invalidations | - |
| `RateLimiter` | the middleware, the sorted set and `abuse-event.service.ts` | - |
| `MCCheckInSystem`, `MCRecords` | symmetry sets for TLC | `CheckInSystem`, `Records` |
| `CheckInSystemTyping`, `CheckInSystemProofs` | proofs about types, holds, releases and the refinement | `CheckInSystem` |
| `CheckInLifecycleProofs` | proofs about the life of a check-in and its booking | `CheckInSystemProofs` |
| `WaitlistProofs`, `RecordsProofs` | proofs about waitlist entries, hold keys and locks; about audit rows and notifications | `CheckInSystemProofs`; `Records` and `WaitlistProofs` |
| `ConfirmationProofs`, `SeatMapProofs`, `RateLimiterProofs` | proofs about the modules they are named for | these |

**State.** `seat` has status, `held_by` and `held_at`; `held_at` is seen from
now: `"recent"` within 120 s, `"overdue"` after. `check_in` and `waitlist` are
UNIQUE(passenger, flight) and rows are never deleted, so on one flight both are
functions of the passenger. A Redis key or lock is its value or `None`. The
state of a handler is `request[h]` (HTTP requests to check-in), `job[h]` (expiry
handlers and sweeps), `run[h]` (waitlist requests and runs), `confirmation[c]`,
`payment[c]` or `visit[v]` (requests for the seat map): its `pc` names the await
it is about to make, its fields the locals that survive it. Variables and fields
whose comment says *history* have no counterpart in the code; no action reads
them.

**Actions.** An action is what runs between two awaits together with the
statement the first of them executes; a database transaction is one action,
because every transaction here begins with an UPDATE of the seat row, whose row
lock orders it with the others on that seat, and re-evaluates its condition under
that lock; what follows touches one check-in by id, status or unique constraint. Examples:

- `StartCheckIn`, `AcquireSeatLock`, `ReadSeatWithinLock`, `HoldSeat` or
  `HoldSeatFails`, `SetHoldKey`, `EndStart` are `startCheckIn`, in order;
- `ConfirmCheckIn`, `CheckHoldKey`, `AwaitPayment`, `PayExcessFee`,
  `CompleteCheckIn`, `DropHoldKey` are `confirmCheckIn`;
- `AcquireReleaseLock` (or `SkipRelease`), `ReadHeldSeat`, `ReleaseSeat` (or
  `ReleaseSeatFails`), `FindAssignedEntry`, `SaveExpiredEntry`,
  `EmitAfterRelease`, `EndRelease` are one seat of a sweep or a notification;
- `ProcessWaitlist`, `AcquireWaitlistLock` (or `SkipProcessing`, which drops the
  event as the code does), `ReadHead`, `ReadFreeSeat`, `AssignSeat` (or
  `AssignSeatFails`), `SetAssignedHoldKey`, `EndProcessing` are one event;
- `RequestSeatMap`, `CacheHit` or `CacheMiss`, `QuerySeats`, `StoreSeatMap` are
  `getSeatMap`;
- `AdmitRequest`, `RejectRequest` and `AdmitUncounted` (the pipeline failed and the
  limiter fails open) are `use`.

`HoldFallsDue`, `HoldKeyExpires` and the two lock expiries are the clocks of the
hold protocol. Locks expire at any moment, also under their owner. The hold key
of a hold that still lasts does not run out before that hold is overdue (its TTL
starts later), a leftover key may run out at any time, and any subset of the
subscribers gets the notification. `LoseRequest`, `LoseJob`, `LoseRun` and
`LoseEvent` are a crash of the instance or an exception at that await; the lock
of a lost handler stays until its TTL ends it. `Confirmation`, `SeatMap` and
`RateLimiter` have such losses as well (`LoseConfirmation`, `LoseCall`,
`VisitFails`, `LoseInvalidation`, `AdmitUncounted`).

**Two views of a confirmation.** `CheckInService` has its statuses, locks and
seats, with baggage as `"within"` or `"excess"` and the payment as one step
`PayExcessFee`, paid or not. `Confirmation` has one check-in with weights, fees
and columns, and the payment message by message; what the rest of the system does
to the check-in is that it may be cancelled at any time (`CancelCheckIn`, with
which hold expiry and cancellation write the same value), and the hold key may be
there or not. `PayExcessFee` relies on what `BillingRefined` says of every
confirmation (it asks once, and goes on only after a charge for itself) and on
`ConfirmationEnds`. A payment attempt that timed out is given up by the
caller only: `timeout()` unsubscribes, but the request may still be charged and
its answer still arrive while later attempts, or another call, run. Weights are in
grams and fees in cents; JavaScript rounds a product of doubles, so of two nearest
cents the model allows either (`RoundedFees`).

**Audit rows and notifications.** `Records` keeps of each entity the action of
its last row, which is what a reader of the log sees, for the rows that are
written inside transactions (`LogWithTransaction`). Rows handed to
`AuditService.log` are saved in the background and may be missing; the
`PAYMENT_*` ones are in `PaymentService`, `WAITLIST_JOINED` is left out.
Notification events are in memory and sent once.

**Left out of the four service modules:** requests refused before they change
anything, the contents of responses, departed flights (`cancelCheckIn` refuses
before any change), and `handleWaitlistHoldExpiry`, which nothing calls. The
invalidation of the seat map is in `SeatMap`, where it follows every commit.

Operators marked *Faulty variant* are not part of any specification. Each stands
for a plausible bug (a dropped condition, a missing write) at the definition that
follows it and makes one property fail when put in its place, which shows that
the property depends on that code.

**Orderly clients.** `confirmCheckIn` and `cancelCheckIn` write by id what they read
several awaits earlier, so what they promise depends on who calls them when. The
constant `OrderlyClients` states the condition under which the documented
properties hold. A passenger sends a confirmation or a cancellation only when the
one before has been handled (`Waited`), for a hold whose window is open
(`HoldLasts`) or to cancel a completed check-in, and the request is handled before
the hold is due (`HandledInTime`). It is an assumption about clients and time,
a guard of `ConfirmCheckIn`, `CancelCheckIn` and `TimePasses`; it is TRUE in run
orderly and in the theorems that name it, and FALSE in every other run.

## 3. What TLC checks

| Run (cfg) | Instance | Shows |
|---|---|---|
| requests (`MCRequests`) | 2 passengers, 1 seat, 2 requests, 1 expiry handler; everybody may start, confirm with or without excess baggage, and cancel | `TypeOK`, `HeldSeatHasActiveCheckIn`, `HoldsTakeFreeSeatsOnly`, `ExcessBaggageIsPaid` |
| release (`MCRelease`, module `MCRecords`) | as above with 1 request and 2 expiry handlers | `ReleasedAtMostOnce`, `NoEarlyRelease`, `ReleaseCancelsCheckIn`, `HistoryTellsStatus` |
| waitlist (`MCWaitlist`, module `MCRecords`) | 3 passengers, 1 seat, 1 request, 1 expiry and 2 waitlist handlers; p1 and p3 take the seat and let it expire, p2 waits | `AssignedEntryHasCheckIn`, `ReleasedEntryExpires`, `ExpiredEntryStaysExpired`, `HistoryTellsStatus`, `NoticesAreTrue`, `ListRefined`: every behaviour is one of `WaitlistLedger` |
| system (`MCSystem`) | 2 seats, one handler of each kind, 1 loss | `HoldKeysNameCheckIns`, `LocksAreOwned`, `LedgerRefined`: every behaviour is one of `HoldLedger` |
| orderly (`MCOrderly`) | 3 passengers, 1 seat, 2 requests, 1 expiry handler, `OrderlyClients`; everybody may start, confirm with or without excess baggage, and cancel | `CompletedCheckInOwnsSeat`, `NoDoubleBooking`, `HoldIsExclusive`, `CheckInLifecycle`, `BookingRefined`: every behaviour is one of `BookingLedger` |
| sweep (`MCSweep`) | 2 passengers, 1 seat, 1 loss, `FairSpec` | `OverdueHoldsEnd` |
| confirmation (`MCConfirmation`) | 2 overlapping confirmations, 1 retry each, 4 weights, `FairSpec` | `ConfirmedIsCharged`, `FailureIsExhausted`, `CompletedIsPaid`, `FeeIsNearest`, `AwaitedFeeIsForWeight`, `ConfirmationEnds`, `BillingRefined`: every behaviour is one of `BillingLedger` |
| seat_map (`MCSeatMap`) | 2 requests, 2 changes of the seats, TTL 2, fill 1 | `AnswersAreRecent`, `StaleMapHasCause` |
| rate_limit (`MCRateLimiter`) | 2 clients, limit 3, window 4, delay 1 | `WindowBound`, `AbuseEventsAreTrue` |

Deadlock is checked in all of them but two: orderly ends when everybody is
checked in or turned away, confirmation when its confirmations have ended.

**Bounds of the hold protocol.** Two passengers contend for one seat, and a
passenger has at most one check-in on a flight, so a third adds only more of the
same contender; orderly has three because there a passenger whose hold has ended
sends nothing any more, and a third still finds the seat after two were turned away. Two
handlers of one kind give every pairwise overlap; a stale handler needs one other
to be overtaken by. Two seats matter where a handler goes from seat to seat (the
sweep) or chooses one (the waitlist), which is the system run. The waitlist run
has a third passenger who takes the seat between a run's read and its
transaction. `MaxEvents` bounds the pending events per payload; a further one
counts as dropped, as it would be by `SkipProcessing`. `MaxCrashes` bounds
losses; each is independent of the others and one is enough to leave a hold
without key, a lock without owner or a seat without its event. `releases` counts
per passenger and is not bounded; it is 1 at most, which is what
`ReleasedAtMostOnce` says. Symmetry: handlers of a kind are interchangeable, so
are passengers with the same role, and seats where no configuration names one.
The sweep run, which checks liveness, uses no symmetry.

**Bounds of the other modules.** Two confirmations are enough for one to
overtake the other between any two awaits, and one retry for an attempt that was
given up to be answered late. The weights are the allowance itself (25 kg), 50 g
more (half a cent, which may be rounded up or to 0), 1.59 kg more, and
999.995 kg, which the column `numeric(5,2)` does not hold. Times are integers:
in `SeatMap`, `MaxFill` bounds the time from the query to the SET, 2 and 1 stand
for the TTL and that bound, and `MaxTime` is three TTLs, so that a cached map runs
out, is stored late by an overtaken request and runs out again; with two changes
(`MaxVersion`) one may be invalidated while the other's invalidation is lost. In
`RateLimiter`, `MaxDelay` is the time from `Date.now()` to the pipeline, clock skew
between instances included; `MaxTime` exceeds the window, so that members and keys
leave it; `MaxEvents` bounds the table of abuse events. The commands of one
pipeline are sent in one write and taken to run back to back.

**Fairness.** Handlers, once begun, proceed (weak fairness: the event loop and
the database answer). Clocks advance. The cron job of every 30 s is strong
fairness on `SweepExpiredHolds`, because between two sweeps the handler slot may
be used by a notification. An attempt on a lock may fail, but the lock is never
owned for longer than 5 s and Redlock retries with jitter: of infinitely many
failing attempts infinitely many succeed (`RetriesSucceed`). Pending events are
taken up. Nothing is assumed of passengers or of Redis notifications. In
`Confirmation` the steps of the process itself are fair, which includes its
timers (`timeout()`, the delay before a retry); nothing is assumed of the network
or of the payment service. `SeatMap` and `RateLimiter` state no liveness.

### Where code and documents disagree

Each of these runs checks one documented statement and TLC finds a behaviour of
the code that breaks it.

| Run | Statement | Counterexample |
|---|---|---|
| double_booking | ARCHITECTURE.md:167, no double booking | p1's confirmation passes the hold check, the hold expires and is released, p2 takes and confirms the seat, p1's transaction then completes by id |
| hold_exclusive | PRD.md:91, the hold window is exclusive | p1 cancels, p2 takes the seat, p1 cancels the same check-in again and frees p2's seat |
| lost_wakeup | PRD.md:102, a freed seat is assigned automatically | the event comes while a run that has found no seat still owns the lock; it is dropped, and nothing comes after it |

Further disagreements are behaviours of the models that no run singles out:

- *Statuses.* A release leaves a check-in AWAITING_PAYMENT as it is, against
  API-SPECIFICATION.yml:335 (`ReleaseCancelsCheckIn` states what does hold).
  Overlapping confirmations move a check-in from COMPLETED back to
  AWAITING_PAYMENT, against WORKFLOW_DESIGN.md:13-16, so `CheckInLifecycle` holds
  for `OrderlyClients` only. `check-in.service.spec.ts:369` lets a
  cancelled check-in be followed by a new one; the insert violates the UNIQUE
  constraint of `check-in.entity.ts:17`.
- *Waitlist.* An entry that leaves between `ReadHead` and the assignment by id
  (`waitlist.service.ts:291`) becomes ASSIGNED although CANCELLED is final in
  WORKFLOW_DESIGN.md:18. Two passengers joining at once get the same position
  (`waitlist.service.ts:57` promises FIFO). A head of the list that already has a
  check-in makes every assignment fail and blocks those behind it (PRD.md:102). A
  crash after the release transaction leaves an entry ASSIGNED for good
  (`hold-expiry.service.ts:172`), and nothing but the loss of that handler does
  (`ReleasedEntryExpires`).
- *Payment and baggage.* Attempts carry no idempotency key, so a retry after a
  late charge charges twice, and a failed call may have been charged. After a
  failed payment the passenger may confirm again with a lower weight, which
  completes the check-in unpaid (PRD.md:28) and keeps the old `excess_fee`
  (technical-prd.md:522). A weight of 999.995 kg or more passes the validation and
  fails at the column, with a 500.
- *Seat map.* A map read before and stored after an invalidation stays for its
  TTL, against "invalidated on any seat state change" (WORKFLOW_DESIGN.md:58,
  technical-prd.md:310); `StaleMapHasCause` names the three causes, and
  `AnswersAreRecent` how long it lasts.
- *Rate limiter.* The sorted set's member is the timestamp, so requests of one
  millisecond count once (technical-prd.md section 9.1, PRD.md:122); `WindowBound` is
  about distinct timestamps for that reason.
- *Records.* `fromState` of audit rows is a constant or comes from a check-in
  read earlier (`check-in.service.ts:305` and `:451`); the move to
  AWAITING_PAYMENT and the cancellation by a release write no row about the
  check-in. The gauge of the waitlist's depth counts an entry down twice
  that leaves while it is being assigned (`waitlist.service.ts:134` and `:331`).

`HeldSeatHasActiveCheckIn` holds all the same: none of these behaviours leaves a
HELD seat without an active check-in.

## 4. What is proved

All theorems hold for every value of the constants that satisfies the named
ASSUMEs of the modules: `None` is distinct, the two kinds of seat-lock owners are
disjoint, passengers are not seats, the bounds are numbers. Five theorems have
`OrderlyClients` as a further assumption (section 2); the runs double_booking and
hold_exclusive show that two of the five statements fail without it.

| Theorem | Statement |
|---|---|
| `TypeInvariant`, `TypeCorrect` | rows, keys and handlers are well typed |
| `HoldInvariant` | the inductive invariant of holds |
| `HeldSeats`, `AtMostOneRelease`, `ReleasesAreDue`, `ReleasesCancel`, `HoldsTakeFreeSeats` | `HeldSeatHasActiveCheckIn`, `ReleasedAtMostOnce`, `NoEarlyRelease`, `ReleaseCancelsCheckIn`, `HoldsTakeFreeSeatsOnly` |
| `LedgerImplemented` | `LedgerRefined`, the refinement of `HoldLedger` |
| `ExcessBaggagePaid` | `ExcessBaggageIsPaid` |
| `CompletedOwnsSeat`, `NeverDoubleBooked`, `HoldsAreExclusive`, `DocumentedLifecycle` | `CompletedCheckInOwnsSeat`, `NoDoubleBooking`, `HoldIsExclusive`, `CheckInLifecycle`, with `OrderlyClients` |
| `BookingImplemented` | `BookingRefined`, the refinement of `BookingLedger`, with `OrderlyClients` |
| `EntryInvariant`, `AssignmentsAreWhole`, `ReleasedEntriesExpire`, `ExpiredEntriesStay` | the invariant of waitlist entries, `AssignedEntryHasCheckIn`, `ReleasedEntryExpires`, `ExpiredEntryStaysExpired` |
| `ListImplemented` | `ListRefined`, the refinement of `WaitlistLedger` |
| `KeysNameCheckIns`, `LocksOwned` | `HoldKeysNameCheckIns`, `LocksAreOwned` |
| `RecordsImplementSystem`, `RecordsKeepProperties` | every behaviour of `Records` is one of `CheckInSystem`; so what the runs release and waitlist check of both holds there too |
| `RecordsTyped`, `HistoryIsTrue`, `NoticesTrue` | the types of `Records`, `HistoryTellsStatus`, `NoticesAreTrue` |
| `ConfirmationInvariant`, `ConfirmationsAreCharged`, `FailuresAreExhausted`, `CompletedCheckInsArePaid`, `FeesAreNearest`, `AwaitedFeesMatch` | the invariant of confirmations, `ConfirmedIsCharged`, `FailureIsExhausted`, `CompletedIsPaid`, `FeeIsNearest`, `AwaitedFeeIsForWeight` |
| `BillingImplemented` | `BillingRefined`, the refinement of `BillingLedger` |
| `SeatMapInvariant`, `StalenessIsBounded`, `StaleMapsHaveCause` | the invariant of the seat map, `AnswersAreRecent`, `StaleMapHasCause` |
| `LimiterInvariant`, `WindowsAreBounded`, `AbuseEventsTrue` | the invariant of the limiter, `WindowBound`, `AbuseEventsAreTrue` |

**Types.** `TypeOK` is not inductive: a handler at `holdTx` writes its passenger
into a row, and nothing in `TypeOK` says that it has one. `TypeInv` adds for each
`pc` which fields are set, and that a held seat has an owner.

**Holds.** `HoldInv` adds to `TypeInv` what handlers remember. `RequestsMatch`:
the check-in a request read is still there, for the same seat, since rows are
neither deleted nor moved. `JobsMatch`: an expiry handler's memory can be stale in
one way only. If the passenger it read still holds the seat, then it is the same
hold and overdue, because a passenger never holds twice. `ReleasesMatch`: a
passenger once released has a check-in and no hold, so there is no second release.
None of them mentions a lock: the conditional UPDATE, the unique constraint and
the fact that rows stay carry the protocol, and the locks only save work.

`StepKinds` reduces some forty actions to seven kinds of writes on the rows
(`Holds`, `AwaitsPayment`, `Completes`, `Cancels`, `Releases`, `FallsDue`, none);
each conjunct is then checked against the kinds, and the ledger's `BeginHold` and
`EndHold` are read off them: a hold begins in `Holds`, and ends in `Completes`,
`Cancels` or `Releases`.

**Check-ins.** `ExcessBaggageIsPaid` needs `RequestsPaid`: a request about to
complete with excess baggage has passed its own payment. `ConfirmationSteps` lists
how a request comes to each await of a confirmation and that it keeps its
passenger, seat and baggage on the way.

**Orderly clients.** `OrderInv` adds three things to `HoldInv`. A request that has
yet to write is the only one of its passenger (`OneUnderWay`). Its passenger still
has the hold, with the window open, or it cancels a completed check-in
(`RequestsInOrder`). And completed check-ins own their seats. The three need each
other. Two requests under way have different passengers, so by the other two they
write different seats (`UnderWayOwns`); a release ends overdue holds, so it never
meets a request under way; and a hold falls due only with no such request. So what
a request relies on is changed by nobody else until it writes (`UnderWayStays`),
and then its UPDATEs by id do what conditional ones would. `OrderlyStep` are the
kinds of steps again, with the request that writes. Without `OrderlyClients` none
of the three parts is an invariant.

**Bookings.** `HoldLedger` forgets a seat when it is confirmed; `BookingLedger` keeps
its passenger. Its steps are read off `OrderlyStep`: `Holds` is `BeginHold`, a
completion is `Book` because by `UnderWayOwns` its passenger still holds the seat, a
cancellation is `GiveUp` of the passenger's own seat for the same reason, and a
release is `GiveUp` of a seat that is not booked, since a held seat has an active
check-in.

**Keys and locks.** `HoldKeysNameCheckIns` needs what a handler knows between its
transaction and the SET of the key: the passenger's check-in is there and for that
seat (`StartsMatch` for requests, `RunsMatch` for runs). The owner of the seat may
have changed by then, which is why the key says no more than that. `LocksAreOwned`
is inductive once lost handlers are set aside (`NoneLost`): each service keeps its
seat from the acquisition on (`RequestKeepsLock`, `JobKeepsLock`, `RunKeepsLock`),
and all its paths lead to the step that gives the lock back. No more can be said of
the locks: they run out under their owners, so two handlers may be in one critical
section, and no other invariant here relies on them.

**Waitlist and records.** Entries are saved by id from copies read earlier. An
entry in ASSIGNED or EXPIRED has a check-in (`EntriesMatch`), an expiry handler
saves the entry of a passenger that has one (`SavesMatch`), and check-ins stay,
so the unique constraint refuses a second assignment. `RunsMatch` says what a run
knows between its transaction and its notification. For `ReleasedEntryExpires`, the
handler that releases a hold goes on to the entry (`ReleaseMarks`) and stays with it
until it is no longer ASSIGNED (`MarkingGoesOn`); a released passenger has a check-in,
so no assignment comes after. The refinement of `WaitlistLedger` needs more of the
handlers' memory: the owner an expiry handler goes on with after its release has
been released, so has a check-in and no hold, and the entry it saves as EXPIRED was
given a seat (`MarkersMatch`); the passenger a run has read has an entry
(`ChosenMatch`). An
assignment is the ledger's `Offer`, one step for the hold and the entry; the ledger
lets an entry that has left be given a seat, as the code does. `HistoryInv` is checked
against the kinds of steps: every kind that changes a seat's status writes the row
that tells it, in the same transaction.

**Confirmations and payments.** Every confirmation under way is of a charge; a
call has a result exactly when it is done; a confirmation past `pay` has the result
of its own call; the columns of the check-in are those of some confirmation. The
refinement of `BillingLedger` maps a confirmation to a stage (`Stage`: asked,
billed, paid, over) and forgets messages and timers. Settling needs a charge for
this very confirmation, which the invariant gives; that no attempt is charged twice
needs `AttemptsAreNew`, that a request under way or still to be sent is of an
attempt not yet charged. Further attempts of the call may be charged after the
settlement, as late as the network likes.

**Seat map.** What a request has read (`IsTrue`) was current when it was read, and
if it has been replaced since, an invalidation is on its way, was lost, or has
come already; it is stored within `MaxFill` and expires within `CacheTtl` after
that.

**Rate limiter.** `KeptInv`: a request admitted less than a window ago is still in
the sorted set, because a pipeline prunes only what is older than a window before
its own clock reading, which is not ahead of now. So at the last admission to a
window all the others are counted.

**Records over the system.** `Records` adds variables and conjuncts, so each of its
steps is one of `CheckInSystem` (`RecordsImplementSystem`), whose theorems carry
over as they are.

Each invariant was checked by TLC before it was proved. **Model-checked only:**
`OverdueHoldsEnd` and `ConfirmationEnds`. They are liveness under fairness, which
rests on ENABLED and is out of the prover's reach.

## 5. Plan

Everything planned is in sections 2 to 4. Two items were considered and dropped. An
abstract cache for `SeatMap` would only repeat `AnswersAreRecent`, which speaks of
the answers alone and already is what a reader is promised. The safety part of
`OverdueHoldsEnd`, that an overdue hold keeps the sweep's query non-empty, holds by
the query itself; what could go wrong is in the fairness, which TLC checks.

## 6. Not modelled

Flights, passengers and aircraft types are only read. The JWT guard verifies a
token with a library. Error filter, logging, metrics and tracing decide nothing.
Configuration, health checks, stubs (but for payment), seeds and load tests are
start-up or test code. Of the modelled components: `getCheckIn` and
`getFlightWaitlist`, which change nothing; `fromState`, actors and metadata of
audit rows; the contents of notifications; the log lines of all services.

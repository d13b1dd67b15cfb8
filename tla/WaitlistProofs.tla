--------------------------- MODULE WaitlistProofs ---------------------------
(***************************************************************************)
(* Safety of the waitlist, for any passengers, seats and handlers. The      *)
(* entries are written without a condition on their status, by handlers     *)
(* that read them in an earlier statement; what protects them is that a     *)
(* passenger's check-in, once inserted, stays. So it is with the hold keys, *)
(* which both check-ins and assignments set: they are the last but one      *)
(* section, and the locks of the three services the last.                   *)
(***************************************************************************)
EXTENDS CheckInSystemProofs

\* The statuses of an entry that was given a seat; one that left since is
\* CANCELLED.
GivenSeat(status) == status \in {"ASSIGNED", "EXPIRED", "CANCELLED"}

\* An assignment leaves a check-in, which outlives it.
EntriesMatch ==
    \A p \in Passengers :
        waitlist[p].status \in {"ASSIGNED", "EXPIRED"} => HasCheckIn(p)

\* An expiry handler saves the entry of a passenger that had been assigned.
SavesMatch ==
    \A h \in ExpiryHandlers :
        job[h].pc = "saveEntry" => HasCheckIn(job[h].owner)

\* A run that has assigned a seat knows the seat of the passenger's check-in.
RunsMatch ==
    \A h \in WaitlistHandlers :
        run[h].pc = "setHoldKey" =>
            /\ HasCheckIn(run[h].passenger)
            /\ checkIn[run[h].passenger].seat = run[h].seat
            /\ GivenSeat(waitlist[run[h].passenger].status)

EntryInv == HoldInv /\ EntriesMatch /\ SavesMatch /\ RunsMatch

----------------------------------------------------------------------------
(* Who moves a handler.                                                     *)

\* An expiry handler is moved by its own steps only.
LEMMA JobsStepAlone ==
    ASSUME HoldInv, [Next]_vars, NEW h \in ExpiryHandlers
    PROVE  job'[h] = job[h] \/ JobNext(h)
<1>1. job \in [ExpiryHandlers -> JobState]
  BY DEF HoldInv, TypeInv, JobInv, JobTypeOK
<1>2. ASSUME NEW g \in ExpiryHandlers, JobNext(g), g # h
      PROVE  job'[h] = job[h]
  BY <1>1, <1>2
  DEF JobNext, JobProceeds, HandleHoldExpired, SweepExpiredHolds,
      AcquireReleaseLock, SkipRelease, ReadHeldSeat, ReleaseSeat,
      ReleaseSeatFails, FindAssignedEntry, SaveExpiredEntry,
      EmitAfterRelease, EndRelease, LoseJob, JobContinues, JobGoto
<1> QED BY <1>2 DEF Next, ExpiryStep, vars

\* So is a waitlist handler.
LEMMA RunsStepAlone ==
    ASSUME HoldInv, [Next]_vars, NEW h \in WaitlistHandlers
    PROVE  run'[h] = run[h] \/ RunNext(h)
<1>1. run \in [WaitlistHandlers -> RunState]
  BY DEF HoldInv, TypeInv, RunInv, RunTypeOK
<1>2. ASSUME NEW g \in WaitlistHandlers, RunNext(g), g # h
      PROVE  run'[h] = run[h]
  BY <1>1, <1>2
  DEF RunNext, RunProceeds, JoinWaitlist, LeaveWaitlist, ProcessWaitlist,
      InsertEntry, SaveCancelledEntry, AcquireWaitlistLock, SkipProcessing,
      ReadHead, ReadFreeSeat, AssignSeat, AssignSeatFails, SetAssignedHoldKey,
      EndProcessing, LoseRun, RunGoto, RunEnds
<1>3. ASSUME NEW e \in Seats \cup {None}, LoseEvent(e)
      PROVE  run' = run
  BY <1>3 DEF LoseEvent
<1> QED BY <1>2, <1>3 DEF Next, WaitlistStep, vars

----------------------------------------------------------------------------
(* The kinds of writes.                                                     *)

\* What a step writes in the entry of one passenger.
EntryStep(p) ==
    \/ waitlist'[p] = waitlist[p]
    \/ waitlist[p].status = "NONE" /\ waitlist'[p].status = "WAITING"
    \/ waitlist'[p].status = "CANCELLED"
    \/ ~HasCheckIn(p) /\ HasCheckIn(p)' /\ waitlist'[p].status = "ASSIGNED"
    \/ HasCheckIn(p) /\ waitlist'[p].status = "EXPIRED"

\* Every step writes an entry in one of the four ways, or leaves it alone.
LEMMA EntryKinds ==
    ASSUME EntryInv, [Next]_vars, NEW p \in Passengers
    PROVE  EntryStep(p)
<1> USE DEF storeVars, tableVars, redisVars, eventVars
<1>0. waitlist \in [Passengers -> WaitlistRow] /\ checkIn \in [Passengers -> CheckInRow]
  BY DEF EntryInv, HoldInv, TypeInv, StoreInv, StoreTypeOK
<1>1. CASE UNCHANGED waitlist
  BY <1>1 DEF EntryStep
<1>2. ASSUME NEW h \in CheckInHandlers, RequestNext(h)
      PROVE  UNCHANGED waitlist
  BY <1>2
  DEF RequestNext, RequestArrives, RequestProceeds, StartCheckIn,
      ConfirmCheckIn, CancelCheckIn, AcquireSeatLock, SeatLockUnavailable,
      ReadSeatWithinLock, HoldSeat, HoldSeatFails, SetHoldKey, EndStart, CheckHoldKey,
      AwaitPayment, PayExcessFee, CompleteCheckIn, CancelTransaction, DropHoldKey,
      EmitAfterCancel, LoseRequest
<1>3. ASSUME NEW h \in ExpiryHandlers, JobNext(h)
      PROVE  EntryStep(p)
  <2>1. CASE SaveExpiredEntry(h)
    BY <1>0, <2>1
    DEF SaveExpiredEntry, JobAt, EntryInv, SavesMatch, EntryStep, WaitlistRow
  <2> QED
    BY <1>1, <1>3, <2>1
    DEF JobNext, JobProceeds, HandleHoldExpired, SweepExpiredHolds,
        AcquireReleaseLock, SkipRelease, ReadHeldSeat, ReleaseSeat, ReleaseSeatFails,
        FindAssignedEntry, EmitAfterRelease, EndRelease, LoseJob
<1>4. ASSUME NEW h \in WaitlistHandlers, RunNext(h)
      PROVE  EntryStep(p)
  <2>1. CASE InsertEntry(h)
    BY <1>0, <2>1 DEF InsertEntry, EntryStep, WaitlistRow
  <2>2. CASE SaveCancelledEntry(h)
    BY <1>0, <2>2 DEF SaveCancelledEntry, EntryStep, WaitlistRow
  <2>3. CASE AssignSeat(h)
    BY <1>0, <2>3
    DEF AssignSeat, TakeHold, CheckInIsUnique, HasCheckIn, EntryStep, WaitlistRow
  <2> QED
    BY <1>1, <1>4, <2>1, <2>2, <2>3
    DEF RunNext, RunProceeds, JoinWaitlist, LeaveWaitlist, ProcessWaitlist,
        AcquireWaitlistLock, SkipProcessing, ReadHead, ReadFreeSeat, AssignSeatFails,
        SetAssignedHoldKey, EndProcessing, LoseRun
<1>5. ASSUME TimePasses \/ (\E e \in Seats \cup {None} : LoseEvent(e)) \/ UNCHANGED vars
      PROVE  UNCHANGED waitlist
  BY <1>5 DEF TimePasses, HoldFallsDue, HoldKeyExpires, SeatLockExpires,
              WaitlistLockExpires, LoseEvent, vars
<1> QED
  BY <1>1, <1>2, <1>3, <1>4, <1>5 DEF Next, CheckInStep, ExpiryStep, WaitlistStep

----------------------------------------------------------------------------
(* Preservation of the parts of the invariant.                              *)

\* Check-ins stay, so entries keep theirs.
LEMMA EntriesMatchStep ==
    ASSUME EntryInv, [Next]_vars, RowsStep
    PROVE  EntriesMatch'
<1> SUFFICES ASSUME NEW p \in Passengers,
                    waitlist'[p].status \in {"ASSIGNED", "EXPIRED"}
             PROVE  HasCheckIn(p)'
  BY DEF EntriesMatch, HasCheckIn
<1>1. HasCheckIn(p) \/ HasCheckIn(p)'
  BY EntryKinds DEF EntryStep, EntryInv, EntriesMatch
<1> QED BY <1>1, CheckInsStay DEF EntryInv

\* The entry a handler is about to save was ASSIGNED when it found it.
LEMMA SavesMatchStep ==
    ASSUME EntryInv, [Next]_vars, RowsStep
    PROVE  SavesMatch'
<1> SUFFICES ASSUME NEW h \in ExpiryHandlers, job'[h].pc = "saveEntry",
                    NEW p, p = job'[h].owner
             PROVE  HasCheckIn(p)'
  BY DEF SavesMatch, HasCheckIn
<1>1. job \in [ExpiryHandlers -> JobState]
  BY DEF EntryInv, HoldInv, TypeInv, JobInv, JobTypeOK
<1>2. p \in Passengers /\ HasCheckIn(p)
  <2>1. CASE job'[h] = job[h]
    BY <2>1 DEF EntryInv, SavesMatch, HoldInv, TypeInv, JobInv, JobsBound
  <2>2. CASE JobNext(h)
    <3>1. ASSUME NEW pc, pc # "saveEntry", JobGoto(h, pc)
          PROVE  FALSE
      BY <1>1, <3>1 DEF JobGoto, JobState
    <3>2. ASSUME NEW todo, JobContinues(h, todo)
          PROVE  FALSE
      BY <1>1, <3>2 DEF JobContinues, NoJob
    <3>3. CASE \/ \E t \in Seats : HandleHoldExpired(h, t)
               \/ SweepExpiredHolds(h) \/ SkipRelease(h) \/ EndRelease(h) \/ LoseJob(h)
      BY <3>2, <3>3
      DEF HandleHoldExpired, SweepExpiredHolds, SkipRelease, EndRelease, LoseJob
    <3>4. CASE \/ ReleaseSeat(h) \/ ReleaseSeatFails(h) \/ SaveExpiredEntry(h)
               \/ EmitAfterRelease(h)
      BY <3>1, <3>4 DEF ReleaseSeat, ReleaseSeatFails, SaveExpiredEntry, EmitAfterRelease
    <3>5. CASE AcquireReleaseLock(h) \/ ReadHeldSeat(h)
      BY <1>1, <3>1, <3>5 DEF AcquireReleaseLock, ReadHeldSeat, JobState
    <3>6. CASE FindAssignedEntry(h)
      <4>1. /\ job[h].pc = "findEntry" /\ p = job[h].owner
            /\ waitlist[job[h].owner].status = "ASSIGNED"
        BY <1>1, <3>6 DEF FindAssignedEntry, JobAt, JobGoto, JobState
      <4> QED BY <4>1 DEF EntryInv, EntriesMatch, HoldInv, TypeInv, JobInv, JobsBound
    <3> QED BY <2>2, <3>3, <3>4, <3>5, <3>6 DEF JobNext, JobProceeds
  <2> QED BY <2>1, <2>2, JobsStepAlone DEF EntryInv
<1> QED BY <1>2, CheckInsStay DEF EntryInv

\* An entry that was given a seat is never WAITING again.
LEMMA GivenSeatStays ==
    ASSUME EntryInv, [Next]_vars, NEW p \in Passengers, GivenSeat(waitlist[p].status)
    PROVE  GivenSeat(waitlist'[p].status)
BY EntryKinds DEF EntryStep, GivenSeat

\* Between an assignment and its hold key the passenger keeps the check-in.
LEMMA RunsMatchStep ==
    ASSUME EntryInv, [Next]_vars, RowsStep
    PROVE  RunsMatch'
<1> SUFFICES ASSUME NEW h \in WaitlistHandlers, run'[h].pc = "setHoldKey",
                    NEW p, p = run'[h].passenger
             PROVE  /\ HasCheckIn(p)'
                    /\ checkIn'[p].seat = run'[h].seat
                    /\ GivenSeat(waitlist'[p].status)
  BY DEF RunsMatch, HasCheckIn, GivenSeat
<1>1. run \in [WaitlistHandlers -> RunState]
  BY DEF EntryInv, HoldInv, TypeInv, RunInv, RunTypeOK
<1>2. CASE run'[h] = run[h]
  <2>1. /\ p \in Passengers /\ HasCheckIn(p)
        /\ checkIn[p].seat = run'[h].seat
        /\ GivenSeat(waitlist[p].status)
    BY <1>2 DEF EntryInv, RunsMatch, HoldInv, TypeInv, RunInv, RunsBound
  <2> QED BY <2>1, CheckInsStay, GivenSeatStays DEF EntryInv
<1>3. CASE RunNext(h)
  <2>1. ASSUME NEW pc, pc # "setHoldKey", RunGoto(h, pc)
        PROVE  FALSE
    BY <1>1, <2>1 DEF RunGoto, RunState
  <2>2. ASSUME RunEnds(h)
        PROVE  FALSE
    BY <1>1, <2>2 DEF RunEnds, NoRun
  <2>3. CASE \/ \E q \in Joiners : JoinWaitlist(h, q) \/ LeaveWaitlist(h, q)
             \/ \E e \in Seats \cup {None} : ProcessWaitlist(h, e)
    BY <1>1, <2>3 DEF JoinWaitlist, LeaveWaitlist, ProcessWaitlist, NoRun
  <2>4. CASE \/ InsertEntry(h) \/ SaveCancelledEntry(h) \/ SkipProcessing(h)
             \/ EndProcessing(h) \/ LoseRun(h)
    BY <2>2, <2>4
    DEF InsertEntry, SaveCancelledEntry, SkipProcessing, EndProcessing, LoseRun
  <2>5. CASE AcquireWaitlistLock(h) \/ AssignSeatFails(h) \/ SetAssignedHoldKey(h)
    BY <2>1, <2>5 DEF AcquireWaitlistLock, AssignSeatFails, SetAssignedHoldKey
  <2>6. CASE AssignSeat(h)
    <3>1. p = run[h].passenger /\ run'[h].seat = run[h].seat /\ p \in Passengers
      BY <1>1, <2>6
      DEF AssignSeat, RunAt, RunGoto, RunState, EntryInv, HoldInv, TypeInv, RunInv,
          RunsBound
    <3>2. /\ checkIn \in [Passengers -> CheckInRow]
          /\ waitlist \in [Passengers -> WaitlistRow]
      BY DEF EntryInv, HoldInv, TypeInv, StoreInv, StoreTypeOK
    <3> QED BY <2>6, <3>1, <3>2
            DEF AssignSeat, TakeHold, HasCheckIn, GivenSeat, WaitlistRow
  <2>7. CASE ReadHead(h) \/ ReadFreeSeat(h)
    BY <1>1, <2>1, <2>7 DEF ReadHead, ReadFreeSeat, RunState
  <2> QED BY <1>3, <2>3, <2>4, <2>5, <2>6, <2>7 DEF RunNext, RunProceeds
<1> QED BY <1>2, <1>3, RunsStepAlone DEF EntryInv

----------------------------------------------------------------------------
(* The entries of released holds.                                           *)

\* Handlers that are lost stay lost.
LEMMA CrashesStay ==
    ASSUME EntryInv, [Next]_vars, crashes > 0
    PROVE  crashes' > 0
<1> USE DEF storeVars, tableVars, redisVars, eventVars
<1>1. crashes \in Nat
  BY DEF EntryInv, HoldInv, TypeInv, StoreInv, StoreTypeOK
<1>2. crashes' = crashes \/ LoseHandler
  <2>1. ASSUME NEW h \in CheckInHandlers, RequestNext(h)
        PROVE  crashes' = crashes \/ LoseHandler
    BY <2>1
    DEF RequestNext, RequestArrives, RequestProceeds, StartCheckIn,
        ConfirmCheckIn, CancelCheckIn, AcquireSeatLock, SeatLockUnavailable,
        ReadSeatWithinLock, HoldSeat, HoldSeatFails, SetHoldKey, EndStart, CheckHoldKey,
        AwaitPayment, PayExcessFee, CompleteCheckIn, CancelTransaction, DropHoldKey,
        EmitAfterCancel, LoseRequest
  <2>2. ASSUME NEW h \in ExpiryHandlers, JobNext(h)
        PROVE  crashes' = crashes \/ LoseHandler
    BY <2>2
    DEF JobNext, JobProceeds, HandleHoldExpired, SweepExpiredHolds,
        AcquireReleaseLock, SkipRelease, ReadHeldSeat, ReleaseSeat, ReleaseSeatFails,
        FindAssignedEntry, SaveExpiredEntry, EmitAfterRelease, EndRelease, LoseJob
  <2>3. ASSUME NEW h \in WaitlistHandlers, RunNext(h)
        PROVE  crashes' = crashes \/ LoseHandler
    BY <2>3
    DEF RunNext, RunProceeds, JoinWaitlist, LeaveWaitlist, ProcessWaitlist,
        InsertEntry, SaveCancelledEntry, AcquireWaitlistLock, SkipProcessing,
        ReadHead, ReadFreeSeat, AssignSeat, AssignSeatFails, SetAssignedHoldKey,
        EndProcessing, LoseRun
  <2>4. ASSUME TimePasses \/ (\E e \in Seats \cup {None} : LoseEvent(e)) \/ UNCHANGED vars
        PROVE  crashes' = crashes \/ LoseHandler
    BY <2>4 DEF TimePasses, HoldFallsDue, HoldKeyExpires, SeatLockExpires,
                WaitlistLockExpires, LoseEvent, vars
  <2> QED BY <2>1, <2>2, <2>3, <2>4 DEF Next, CheckInStep, ExpiryStep, WaitlistStep
<1> QED BY <1>1, <1>2 DEF LoseHandler

Marks(h, p) == job[h].owner = p /\ job[h].pc \in {"findEntry", "saveEntry"}

\* A handler goes on to the entry until it is no longer ASSIGNED.
LEMMA MarkingGoesOn ==
    ASSUME EntryInv, [Next]_vars, NEW h \in ExpiryHandlers, NEW p \in Passengers,
           Marks(h, p), waitlist[p].status = "ASSIGNED"
    PROVE  Marks(h, p)' \/ waitlist'[p].status # "ASSIGNED" \/ crashes' > 0
<1>1. /\ job \in [ExpiryHandlers -> JobState]
      /\ waitlist \in [Passengers -> WaitlistRow]
      /\ crashes \in Nat
  BY DEF EntryInv, HoldInv, TypeInv, JobInv, JobTypeOK, StoreInv, StoreTypeOK
<1>2. CASE job'[h] = job[h]
  BY <1>2 DEF Marks
<1>3. CASE JobNext(h)
  <2>1. CASE FindAssignedEntry(h)
    BY <1>1, <2>1 DEF FindAssignedEntry, JobAt, JobGoto, JobState, Marks
  <2>2. CASE SaveExpiredEntry(h)
    BY <1>1, <2>2 DEF SaveExpiredEntry, Marks, WaitlistRow
  <2>3. CASE LoseJob(h)
    BY <1>1, <2>3 DEF LoseJob, LoseHandler
  <2> QED
    BY <1>3, <2>1, <2>2, <2>3
    DEF JobNext, JobProceeds, HandleHoldExpired, SweepExpiredHolds,
        AcquireReleaseLock, SkipRelease, ReadHeldSeat, ReleaseSeat, ReleaseSeatFails,
        EmitAfterRelease, EndRelease, JobAt, Marks
<1> QED BY <1>2, <1>3, JobsStepAlone DEF EntryInv

\* The handler that releases a hold goes on to the entry of its owner.
LEMMA ReleaseMarks ==
    ASSUME EntryInv, [Next]_vars, NEW p \in Passengers, releases'[p] # releases[p]
    PROVE  \E h \in ExpiryHandlers : Marks(h, p)'
<1> USE DEF storeVars, tableVars, redisVars, eventVars
<1>1. /\ job \in [ExpiryHandlers -> JobState]
      /\ releases \in [Passengers -> Nat]
  BY DEF EntryInv, HoldInv, TypeInv, JobInv, JobTypeOK, StoreInv, StoreTypeOK
<1>2. ASSUME NEW h \in CheckInHandlers, RequestNext(h)
      PROVE  UNCHANGED releases
  BY <1>2
  DEF RequestNext, RequestArrives, RequestProceeds, StartCheckIn,
      ConfirmCheckIn, CancelCheckIn, AcquireSeatLock, SeatLockUnavailable,
      ReadSeatWithinLock, HoldSeat, HoldSeatFails, SetHoldKey, EndStart, CheckHoldKey,
      AwaitPayment, PayExcessFee, CompleteCheckIn, CancelTransaction, DropHoldKey,
      EmitAfterCancel, LoseRequest
<1>3. ASSUME NEW h \in WaitlistHandlers, RunNext(h)
      PROVE  UNCHANGED releases
  BY <1>3
  DEF RunNext, RunProceeds, JoinWaitlist, LeaveWaitlist, ProcessWaitlist,
      InsertEntry, SaveCancelledEntry, AcquireWaitlistLock, SkipProcessing,
      ReadHead, ReadFreeSeat, AssignSeat, AssignSeatFails, SetAssignedHoldKey,
      EndProcessing, LoseRun
<1>4. ASSUME TimePasses \/ (\E e \in Seats \cup {None} : LoseEvent(e)) \/ UNCHANGED vars
      PROVE  UNCHANGED releases
  BY <1>4 DEF TimePasses, HoldFallsDue, HoldKeyExpires, SeatLockExpires,
              WaitlistLockExpires, LoseEvent, vars
<1>5. PICK h \in ExpiryHandlers : JobNext(h)
  BY <1>2, <1>3, <1>4 DEF Next, CheckInStep, ExpiryStep, WaitlistStep
<1>6. ReleaseSeat(h)
  BY <1>5
  DEF JobNext, JobProceeds, HandleHoldExpired, SweepExpiredHolds,
      AcquireReleaseLock, SkipRelease, ReadHeldSeat, ReleaseSeatFails,
      FindAssignedEntry, SaveExpiredEntry, EmitAfterRelease, EndRelease, LoseJob
<1>7. job[h].owner = p
  BY <1>1, <1>6 DEF ReleaseSeat
<1> QED BY <1>1, <1>6, <1>7 DEF ReleaseSeat, JobGoto, JobState, Marks

\* ReleasedEntryExpires is inductive relative to EntryInv: a released passenger has
\* a check-in, so no later assignment makes the entry ASSIGNED once more.
LEMMA ReleasedEntryStep ==
    ASSUME EntryInv, ReleasedEntryExpires, [Next]_vars
    PROVE  ReleasedEntryExpires'
<1> SUFFICES ASSUME NEW p \in Passengers, releases'[p] > 0,
                    waitlist'[p].status = "ASSIGNED", ~(crashes' > 0)
             PROVE  \E h \in ExpiryHandlers : Marks(h, p)'
  BY DEF ReleasedEntryExpires, Marks
<1>1. CASE releases'[p] = releases[p]
  <2>1. HasCheckIn(p)
    BY <1>1 DEF EntryInv, HoldInv, ReleasesMatch
  <2>2. waitlist[p].status = "ASSIGNED"
    BY <2>1, EntryKinds DEF EntryStep
  <2>3. PICK h \in ExpiryHandlers : Marks(h, p)
    BY <1>1, <2>2, CrashesStay DEF ReleasedEntryExpires, Marks
  <2> QED BY <2>2, <2>3, MarkingGoesOn
<1> QED BY <1>1, ReleaseMarks

----------------------------------------------------------------------------
(* The theorems.                                                            *)

\* At the start nobody is on the waitlist.
LEMMA InitEntries == Init => EntryInv
<1> SUFFICES ASSUME Init PROVE EntryInv
  OBVIOUS
<1>1. EntriesMatch /\ SavesMatch /\ RunsMatch
  BY DEF Init, StoreInit, JobInit, RunInit, NotListed, NoJob, NoRun, EntriesMatch,
         SavesMatch, RunsMatch
<1> QED BY <1>1, InitHolds DEF EntryInv

\* EntryInv is inductive.
LEMMA StepEntries ==
    ASSUME EntryInv, [Next]_vars
    PROVE  EntryInv'
<1>1. RowsStep
  BY StepKinds DEF EntryInv
<1> QED
  BY <1>1, StepHolds, EntriesMatchStep, SavesMatchStep, RunsMatchStep DEF EntryInv

\* The invariant of the waitlist. AssignedEntryHasCheckIn is not inductive: the
\* expiry saves an entry it read earlier (SavesMatch) and a run goes on to set the
\* key of a hold it took earlier (RunsMatch).
THEOREM EntryInvariant == Spec => []EntryInv
BY InitEntries, StepEntries, PTL DEF Spec

\* assignSeatToWaitlistPassenger never leaves an ASSIGNED entry without a check-in.
THEOREM AssignmentsAreWhole == Spec => []AssignedEntryHasCheckIn
<1>1. EntryInv => AssignedEntryHasCheckIn
  BY DEF EntryInv, EntriesMatch, AssignedEntryHasCheckIn
<1> QED BY <1>1, EntryInvariant, PTL

\* An entry whose assignment expired is not assigned again by a run that read it
\* before, although the UPDATE of the entry goes by id: the insert of a second
\* check-in rolls it back.
THEOREM ExpiredEntriesStay == Spec => ExpiredEntryStaysExpired
<1> DEFINE Stays ==
      \A p \in Passengers :
        waitlist[p].status = "EXPIRED" => waitlist'[p].status # "ASSIGNED"
<1>1. EntryInv /\ [Next]_vars => [Stays]_vars
  BY EntryKinds DEF EntryStep, EntryInv, EntriesMatch
<1> QED BY <1>1, EntryInvariant, PTL DEF Spec, ExpiredEntryStaysExpired
\* releaseSeat ends the entry of the hold it releases (markWaitlistEntryExpired)
\* unless its handler is lost in between.
THEOREM ReleasedEntriesExpire == Spec => []ReleasedEntryExpires
<1>1. Init => ReleasedEntryExpires
  BY DEF Init, StoreInit, ReleasedEntryExpires
<1>2. EntryInv /\ ReleasedEntryExpires /\ [Next]_vars => ReleasedEntryExpires'
  BY ReleasedEntryStep
<1> QED BY <1>1, <1>2, EntryInvariant, PTL DEF Spec
----------------------------------------------------------------------------
(* The refinement of WaitlistLedger.                                        *)

\* A handler at the entry has released its owner's hold, and saves an entry that
\* was given a seat.
MarkersMatch ==
    \A h \in ExpiryHandlers :
        /\ job[h].pc \in {"findEntry", "saveEntry"} => releases[job[h].owner] > 0
        /\ job[h].pc = "saveEntry" => GivenSeat(waitlist[job[h].owner].status)

\* The passenger a waitlist handler has read has an entry, whatever became of it.
ChosenMatch ==
    \A h \in WaitlistHandlers :
        run[h].pc \in {"saveCancelled", "readSeat", "assignTx"} =>
            waitlist[run[h].passenger].status # "NONE"

ListInv == EntryInv /\ MarkersMatch /\ ChosenMatch

\* A release stays counted.
LEMMA ReleasesStay ==
    ASSUME EntryInv, RowsStep, NEW p \in Passengers, releases[p] > 0
    PROVE  releases'[p] > 0
<1>1. releases \in [Passengers -> Nat]
  BY DEF EntryInv, HoldInv, TypeInv, StoreInv, StoreTypeOK
<1>2. ASSUME NEW s \in Seats, NEW q \in Passengers, Releases(s, q)
      PROVE  releases'[p] > 0
  BY <1>1, <1>2 DEF Releases
<1>3. CASE UNCHANGED releases
  BY <1>3
<1> QED BY <1>2, <1>3 DEF RowsStep, Holds, AwaitsPayment, Cancels, Completes, FallsDue

\* A handler comes to the entry by its release, and to the save by the entry it
\* found ASSIGNED.
LEMMA MarkersMatchStep ==
    ASSUME EntryInv, MarkersMatch, [Next]_vars, RowsStep
    PROVE  MarkersMatch'
<1> SUFFICES ASSUME NEW h \in ExpiryHandlers,
                    job'[h].pc \in {"findEntry", "saveEntry"}
             PROVE  /\ releases'[job'[h].owner] > 0
                    /\ job'[h].pc = "saveEntry" => GivenSeat(waitlist'[job'[h].owner].status)
  BY DEF MarkersMatch, GivenSeat
<1> DEFINE p == job'[h].owner
<1>1. /\ job \in [ExpiryHandlers -> JobState]
      /\ releases \in [Passengers -> Nat]
  BY DEF EntryInv, HoldInv, TypeInv, JobInv, JobTypeOK, StoreInv, StoreTypeOK
<1>2. CASE job'[h] = job[h]
  <2>1. p \in Passengers /\ releases[p] > 0
    BY <1>2 DEF MarkersMatch, EntryInv, HoldInv, TypeInv, JobInv, JobsBound
  <2>2. job'[h].pc = "saveEntry" => GivenSeat(waitlist[p].status)
    BY <1>2 DEF MarkersMatch
  <2> QED BY <2>1, <2>2, ReleasesStay, GivenSeatStays
<1>3. CASE JobNext(h)
  <2>1. ASSUME NEW pc, pc \notin {"findEntry", "saveEntry"}, JobGoto(h, pc)
        PROVE  FALSE
    BY <1>1, <2>1 DEF JobGoto, JobState
  <2>2. ASSUME NEW todo, JobContinues(h, todo)
        PROVE  FALSE
    BY <1>1, <2>2 DEF JobContinues, NoJob
  <2>3. CASE ReleaseSeat(h)
    <3>1. p = job[h].owner /\ p \in Passengers /\ job'[h].pc = "findEntry"
      BY <1>1, <2>3 DEF ReleaseSeat, JobAt, JobGoto, JobState, EntryInv, HoldInv, TypeInv,
                        JobInv, JobsBound
    <3> QED BY <1>1, <2>3, <3>1 DEF ReleaseSeat
  <2>4. CASE FindAssignedEntry(h)
    <3>1. /\ p = job[h].owner /\ p \in Passengers /\ releases[p] > 0
          /\ waitlist[p].status = "ASSIGNED" /\ UNCHANGED <<releases, waitlist>>
      BY <1>1, <2>4 DEF FindAssignedEntry, JobAt, JobGoto, JobState, MarkersMatch, EntryInv,
                        HoldInv, TypeInv, JobInv, JobsBound, storeVars, tableVars
    <3> QED BY <3>1 DEF GivenSeat
  <2>5. CASE \/ \E t \in Seats : HandleHoldExpired(h, t)
             \/ SweepExpiredHolds(h) \/ SkipRelease(h) \/ EndRelease(h) \/ LoseJob(h)
    BY <2>2, <2>5
    DEF HandleHoldExpired, SweepExpiredHolds, SkipRelease, EndRelease, LoseJob
  <2>6. CASE ReleaseSeatFails(h) \/ SaveExpiredEntry(h) \/ EmitAfterRelease(h)
    BY <2>1, <2>6 DEF ReleaseSeatFails, SaveExpiredEntry, EmitAfterRelease
  <2>7. CASE AcquireReleaseLock(h)
    <3>1. PICK s \in job[h].todo : job'[h] = [job[h] EXCEPT !.pc = "readSeat", !.seat = s,
                                                          !.todo = job[h].todo \ {s}]
      BY <1>1, <2>7 DEF AcquireReleaseLock
    <3>2. job'[h].pc = "readSeat"
      BY <1>1, <3>1 DEF JobState
    <3> QED BY <3>2
  <2>8. CASE ReadHeldSeat(h)
    <3>1. \/ job'[h] = [job[h] EXCEPT !.pc = "releaseTx",
                                      !.owner = seat[job[h].seat].heldBy]
          \/ JobGoto(h, "releaseLock")
      BY <1>1, <2>8 DEF ReadHeldSeat
    <3>2. job[h] \in JobState
      BY <1>1
    <3> QED BY <2>1, <3>1, <3>2 DEF JobState
  <2> QED BY <1>3, <2>3, <2>4, <2>5, <2>6, <2>7, <2>8 DEF JobNext, JobProceeds
<1> QED BY <1>2, <1>3, JobsStepAlone DEF EntryInv

\* Entries stay, as rows do.
LEMMA ChosenMatchStep ==
    ASSUME EntryInv, ChosenMatch, [Next]_vars
    PROVE  ChosenMatch'
<1> SUFFICES ASSUME NEW h \in WaitlistHandlers,
                    run'[h].pc \in {"saveCancelled", "readSeat", "assignTx"}
             PROVE  waitlist'[run'[h].passenger].status # "NONE"
  BY DEF ChosenMatch
<1> DEFINE p == run'[h].passenger
<1>1. run \in [WaitlistHandlers -> RunState]
  BY DEF EntryInv, HoldInv, TypeInv, RunInv, RunTypeOK
<1>2. SUFFICES p \in Passengers /\ waitlist[p].status # "NONE"
  BY <1>2, EntryKinds DEF EntryStep
<1>3. CASE run'[h] = run[h]
  BY <1>3 DEF ChosenMatch, EntryInv, HoldInv, TypeInv, RunInv, RunsBound
<1>4. CASE RunNext(h)
  <2>1. ASSUME NEW pc, pc \notin {"saveCancelled", "readSeat", "assignTx"}, RunGoto(h, pc)
        PROVE  FALSE
    BY <1>1, <2>1 DEF RunGoto, RunState
  <2>2. ASSUME RunEnds(h) PROVE FALSE
    BY <1>1, <2>2 DEF RunEnds, NoRun
  <2>3. CASE \E q \in Joiners : JoinWaitlist(h, q)
    BY <1>1, <2>3 DEF JoinWaitlist, NoRun
  <2>4. CASE \E q \in Joiners : LeaveWaitlist(h, q)
    BY <1>1, <2>4, WaitlistAssumption DEF LeaveWaitlist, IsWaiting, NoRun
  <2>5. CASE \E e \in Seats \cup {None} : ProcessWaitlist(h, e)
    BY <1>1, <2>5 DEF ProcessWaitlist, NoRun
  <2>6. CASE \/ InsertEntry(h) \/ SaveCancelledEntry(h) \/ SkipProcessing(h)
             \/ EndProcessing(h) \/ LoseRun(h)
    BY <2>2, <2>6
    DEF InsertEntry, SaveCancelledEntry, SkipProcessing, EndProcessing, LoseRun
  <2>7. CASE \/ AcquireWaitlistLock(h) \/ AssignSeat(h) \/ AssignSeatFails(h)
             \/ SetAssignedHoldKey(h)
    BY <2>1, <2>7 DEF AcquireWaitlistLock, AssignSeat, AssignSeatFails, SetAssignedHoldKey
  <2>8. CASE ReadHead(h)
    BY <1>1, <2>1, <2>8 DEF ReadHead, IsHead, IsWaiting, RunState
  <2>9. CASE ReadFreeSeat(h)
    <3>1. run[h].pc = "readSeat" /\ p = run[h].passenger
      BY <1>1, <2>1, <2>9 DEF ReadFreeSeat, RunAt, RunState
    <3> QED BY <3>1 DEF ChosenMatch, EntryInv, HoldInv, TypeInv, RunInv, RunsBound
  <2> QED BY <1>4, <2>3, <2>4, <2>5, <2>6, <2>7, <2>8, <2>9 DEF RunNext, RunProceeds
<1> QED BY <1>3, <1>4, RunsStepAlone DEF EntryInv

\* ListInv is inductive.
LEMMA ListHolds == Spec => []ListInv
<1>1. Init => ListInv
  <2> SUFFICES ASSUME Init PROVE MarkersMatch /\ ChosenMatch
    BY InitEntries DEF ListInv
  <2> QED BY DEF Init, JobInit, RunInit, NoJob, NoRun, MarkersMatch, ChosenMatch
<1>2. ASSUME ListInv, [Next]_vars
      PROVE  ListInv'
  <2>1. RowsStep
    BY <1>2, StepKinds DEF ListInv, EntryInv
  <2> QED BY <1>2, <2>1, StepEntries, MarkersMatchStep, ChosenMatchStep DEF ListInv
<1> QED BY <1>1, <1>2, PTL DEF Spec

\* A step is one of the ledger's that leaves the entries alone, or a step on one
\* entry that is one of the list's.
LEMMA ListStep ==
    ASSUME ListInv, [Next]_vars
    PROVE  [List!ListNext]_(List!listVars)
<1> DEFINE holder == [s \in Seats |->
                IF seat[s].status = "HELD" THEN seat[s].heldBy ELSE None]
           served == {p \in Passengers : HasCheckIn(p)}
           entry == [p \in Passengers |-> waitlist[p].status]
<1> USE DEF storeVars, tableVars, redisVars, eventVars
<1>0. /\ waitlist \in [Passengers -> WaitlistRow]
      /\ seat \in [Seats -> SeatRow]
      /\ checkIn \in [Passengers -> CheckInRow]
      /\ job \in [ExpiryHandlers -> JobState]
      /\ run \in [WaitlistHandlers -> RunState]
  BY DEF ListInv, EntryInv, HoldInv, TypeInv, StoreInv, StoreTypeOK, JobInv, JobTypeOK,
         RunInv, RunTypeOK
<1>1. CASE UNCHANGED waitlist
  <2>1. UNCHANGED entry
    BY <1>1
  <2>2. [List!LedgerNext]_(List!ledgerVars)
    <3>1. [Ledger!LedgerNext]_(Ledger!ledgerVars)
      BY StepKinds, LedgerStep DEF ListInv, EntryInv
    <3> QED
      BY <3>1 DEF Ledger!LedgerNext, Ledger!BeginHold, Ledger!EndHold, Ledger!ledgerVars,
                  List!LedgerNext, List!BeginHold, List!EndHold, List!ledgerVars
  <2> QED BY <2>1, <2>2 DEF List!ListNext, List!listVars, List!ledgerVars
<1>2. ASSUME UNCHANGED <<seat, checkIn>>
      PROVE  UNCHANGED <<holder, served>>
  BY <1>2 DEF HasCheckIn
<1>3. ASSUME NEW p \in Passengers, NEW row, waitlist' = [waitlist EXCEPT ![p] = row]
      PROVE  entry' = [entry EXCEPT ![p] = row.status]
  BY <1>0, <1>3
<1>4. ASSUME NEW h \in ExpiryHandlers, JobNext(h)
      PROVE  [List!ListNext]_(List!listVars)
  <2>1. CASE SaveExpiredEntry(h)
    <3> DEFINE p == job[h].owner
    <3>1. p \in Passengers /\ releases[p] > 0 /\ GivenSeat(waitlist[p].status)
      BY <2>1 DEF SaveExpiredEntry, JobAt, ListInv, MarkersMatch, EntryInv, HoldInv,
                  TypeInv, JobInv, JobsBound
    <3>2. HasCheckIn(p) /\ \A s \in Seats : ~HeldBy(s, p)
      BY <3>1 DEF ListInv, EntryInv, HoldInv, ReleasesMatch
    <3>3. /\ entry[p] \notin {"NONE", "WAITING"} /\ p \in served
          /\ \A s \in Seats : holder[s] # p
      BY <3>1, <3>2, StoreAssumption DEF GivenSeat, HeldBy
    <3>4. entry' = [entry EXCEPT ![p] = "EXPIRED"]
      BY <1>0, <2>1, <3>1 DEF SaveExpiredEntry, WaitlistRow
    <3>5. UNCHANGED <<holder, served>>
      BY <1>2, <2>1 DEF SaveExpiredEntry
    <3> QED BY <3>1, <3>3, <3>4, <3>5
            DEF List!ListNext, List!Expire, List!EntryBecomes, List!ledgerVars
  <2> QED
    BY <1>1, <1>4, <2>1
    DEF JobNext, JobProceeds, HandleHoldExpired, SweepExpiredHolds,
        AcquireReleaseLock, SkipRelease, ReadHeldSeat, ReleaseSeat, ReleaseSeatFails,
        FindAssignedEntry, EmitAfterRelease, EndRelease, LoseJob
<1>5. ASSUME NEW h \in WaitlistHandlers, RunNext(h)
      PROVE  [List!ListNext]_(List!listVars)
  <2> DEFINE p == run[h].passenger
  <2>1. CASE InsertEntry(h)
    <3>1. p \in Passengers
      BY <2>1 DEF InsertEntry, RunAt, ListInv, EntryInv, HoldInv, TypeInv, RunInv, RunsBound
    <3>2. UNCHANGED <<holder, served>>
      BY <1>2, <2>1 DEF InsertEntry
    <3>3. CASE waitlist[p].status = "NONE"
      <4>1. entry' = [entry EXCEPT ![p] = "WAITING"] /\ entry[p] = "NONE"
        BY <1>0, <2>1, <3>1, <3>3 DEF InsertEntry
      <4> QED BY <3>1, <3>2, <4>1
              DEF List!ListNext, List!Join, List!HasEntry, List!EntryBecomes, List!ledgerVars
    <3>4. CASE waitlist[p].status # "NONE"
      BY <1>1, <2>1, <3>4 DEF InsertEntry
    <3> QED BY <3>3, <3>4
  <2>2. CASE SaveCancelledEntry(h)
    <3>1. p \in Passengers /\ entry[p] # "NONE"
      BY <2>2 DEF SaveCancelledEntry, RunAt, ListInv, ChosenMatch, EntryInv, HoldInv,
                  TypeInv, RunInv, RunsBound
    <3>2. UNCHANGED <<holder, served>>
      BY <1>2, <2>2 DEF SaveCancelledEntry
    <3>3. entry' = [entry EXCEPT ![p] = "CANCELLED"]
      BY <1>0, <2>2, <3>1 DEF SaveCancelledEntry, WaitlistRow
    <3> QED BY <3>1, <3>2, <3>3
            DEF List!ListNext, List!Leave, List!HasEntry, List!EntryBecomes, List!ledgerVars
  <2>3. CASE AssignSeat(h)
    <3> DEFINE s == run[h].seat
    <3>1. p \in Passengers /\ s \in Seats /\ entry[p] # "NONE"
      BY <2>3 DEF AssignSeat, RunAt, ListInv, ChosenMatch, EntryInv, HoldInv, TypeInv,
                  RunInv, RunsBound
    <3>2. holder[s] = None /\ p \notin served
      BY <2>3, <3>1 DEF AssignSeat, SeatIsFree, CheckInIsUnique
    <3>3. holder' = [holder EXCEPT ![s] = p]
      BY <1>0, <2>3, <3>1 DEF AssignSeat, TakeHold
    <3>4. served' = served \cup {p}
      BY <1>0, <2>3, <3>1 DEF AssignSeat, TakeHold, HasCheckIn
    <3>5. entry' = [entry EXCEPT ![p] = "ASSIGNED"]
      BY <1>0, <2>3, <3>1 DEF AssignSeat, WaitlistRow
    <3> QED BY <3>1, <3>2, <3>3, <3>4, <3>5
            DEF List!ListNext, List!Offer, List!HasEntry, List!BeginHold,
                List!EntryBecomes
  <2> QED
    BY <1>1, <1>5, <2>1, <2>2, <2>3
    DEF RunNext, RunProceeds, JoinWaitlist, LeaveWaitlist, ProcessWaitlist,
        AcquireWaitlistLock, SkipProcessing, ReadHead, ReadFreeSeat, AssignSeatFails,
        SetAssignedHoldKey, EndProcessing, LoseRun
<1>6. ASSUME NEW h \in CheckInHandlers, RequestNext(h)
      PROVE  UNCHANGED waitlist
  BY <1>6
  DEF RequestNext, RequestArrives, RequestProceeds, StartCheckIn,
      ConfirmCheckIn, CancelCheckIn, AcquireSeatLock, SeatLockUnavailable,
      ReadSeatWithinLock, HoldSeat, HoldSeatFails, SetHoldKey, EndStart, CheckHoldKey,
      AwaitPayment, PayExcessFee, CompleteCheckIn, CancelTransaction, DropHoldKey,
      EmitAfterCancel, LoseRequest
<1>7. ASSUME TimePasses \/ (\E e \in Seats \cup {None} : LoseEvent(e)) \/ UNCHANGED vars
      PROVE  UNCHANGED waitlist
  BY <1>7 DEF TimePasses, HoldFallsDue, HoldKeyExpires, SeatLockExpires,
              WaitlistLockExpires, LoseEvent, vars
<1> QED
  BY <1>1, <1>4, <1>5, <1>6, <1>7 DEF Next, CheckInStep, ExpiryStep, WaitlistStep

\* joinWaitlist, leaveWaitlist, processWaitlist and markWaitlistEntryExpired, which
\* write entries by id from what they read earlier, implement the list: a seat is
\* offered with its hold, once at most, and an offer expires after its hold.
THEOREM ListImplemented == Spec => ListRefined
<1>1. Init => List!ListInit
  BY DEF Init, StoreInit, FreeSeat, NoCheckIn, NotListed, HasCheckIn, List!ListInit,
         List!LedgerInit
<1>2. ListInv /\ [Next]_vars => [List!ListNext]_(List!listVars)
  BY ListStep
<1> QED BY <1>1, <1>2, ListHolds, PTL DEF Spec, ListRefined, List!ListSpec

----------------------------------------------------------------------------
(* The hold keys.                                                           *)

\* A request that has taken a hold knows the seat of the passenger's check-in.
StartsMatch ==
    \A h \in CheckInHandlers :
        request[h].pc = "setHoldKey" =>
            /\ HasCheckIn(request[h].passenger)
            /\ checkIn[request[h].passenger].seat = request[h].seat

KeyInv == EntryInv /\ StartsMatch /\ HoldKeysNameCheckIns

\* A request is moved by its own steps only.
LEMMA RequestsStepAlone ==
    ASSUME HoldInv, [Next]_vars, NEW h \in CheckInHandlers
    PROVE  request'[h] = request[h] \/ RequestNext(h)
BY OthersStay DEF Next, CheckInStep, vars

\* Between a hold and its key the passenger keeps the check-in.
LEMMA StartsMatchStep ==
    ASSUME KeyInv, [Next]_vars, RowsStep
    PROVE  StartsMatch'
<1> SUFFICES ASSUME NEW h \in CheckInHandlers, request'[h].pc = "setHoldKey",
                    NEW p, p = request'[h].passenger
             PROVE  HasCheckIn(p)' /\ checkIn'[p].seat = request'[h].seat
  BY DEF StartsMatch, HasCheckIn
<1>1. /\ request \in [CheckInHandlers -> RequestState]
      /\ checkIn \in [Passengers -> CheckInRow]
  BY DEF KeyInv, EntryInv, HoldInv, TypeInv, RequestInv, RequestTypeOK, StoreInv,
         StoreTypeOK
<1>2. ASSUME ~At(h, "idle") PROVE request[h].passenger \in Passengers
  BY <1>2 DEF KeyInv, EntryInv, HoldInv, TypeInv, RequestInv, RequestsBound
<1>3. CASE request'[h] = request[h]
  <2>1. p \in Passengers /\ HasCheckIn(p) /\ checkIn[p].seat = request'[h].seat
    BY <1>2, <1>3 DEF KeyInv, StartsMatch, At
  <2> QED BY <2>1, CheckInsStay DEF KeyInv, EntryInv
<1>4. CASE RequestNext(h)
  <2>1. ASSUME NEW pc, pc # "setHoldKey", Goto(h, pc)
        PROVE  FALSE
    BY <1>1, <2>1 DEF Goto, RequestState
  <2>2. ASSUME Respond(h)
        PROVE  FALSE
    BY <1>1, <2>2 DEF Respond, NoRequest
  <2>3. CASE RequestArrives(h)
    BY <1>1, <2>3
    DEF RequestArrives, StartCheckIn, ConfirmCheckIn, CancelCheckIn, Accept
  <2>4. CASE HoldSeat(h)
    <3>1. p = request[h].passenger /\ request'[h].seat = request[h].seat /\ p \in Passengers
      BY <1>1, <1>2, <2>4 DEF HoldSeat, At, Goto, RequestState
    <3> QED BY <1>1, <2>4, <3>1 DEF HoldSeat, TakeHold, HasCheckIn
  <2>5. CASE \/ SeatLockUnavailable(h) \/ EndStart(h) \/ EmitAfterCancel(h)
             \/ LoseRequest(h)
    BY <2>2, <2>5 DEF SeatLockUnavailable, EndStart, EmitAfterCancel, LoseRequest
  <2>6. CASE \/ AcquireSeatLock(h) \/ ReadSeatWithinLock(h) \/ HoldSeatFails(h)
             \/ SetHoldKey(h) \/ AwaitPayment(h) \/ CompleteCheckIn(h)
             \/ CancelTransaction(h)
    BY <2>1, <2>6
    DEF AcquireSeatLock, ReadSeatWithinLock, HoldSeatFails, SetHoldKey, AwaitPayment,
        CompleteCheckIn, CancelTransaction
  <2>7. CASE CheckHoldKey(h) \/ DropHoldKey(h)
    BY <2>1, <2>2, <2>7 DEF CheckHoldKey, ValidateBaggage, DropHoldKey
  <2>8. CASE PayExcessFee(h)
    BY <1>1, <2>2, <2>8 DEF PayExcessFee, RequestState
  <2> QED
    BY <1>4, <2>3, <2>4, <2>5, <2>6, <2>7, <2>8 DEF RequestNext, RequestProceeds
<1> QED BY <1>3, <1>4, RequestsStepAlone DEF KeyInv, EntryInv

\* A hold key is set by a request or a run that has just taken the hold.
LEMMA KeyWrites ==
    ASSUME EntryInv, [Next]_vars, NEW s \in Seats, holdKey'[s] # None
    PROVE  \/ holdKey'[s] = holdKey[s]
           \/ \E h \in CheckInHandlers :
                /\ request[h].pc = "setHoldKey" /\ request[h].seat = s
                /\ holdKey'[s] = request[h].passenger
           \/ \E h \in WaitlistHandlers :
                /\ run[h].pc = "setHoldKey" /\ run[h].seat = s
                /\ holdKey'[s] = run[h].passenger
<1> USE DEF storeVars, tableVars, redisVars, eventVars
<1>1. holdKey \in [Seats -> Passengers \cup {None}]
  BY DEF EntryInv, HoldInv, TypeInv, StoreInv, StoreTypeOK
<1>2. ASSUME NEW h \in CheckInHandlers, RequestNext(h)
      PROVE  \/ holdKey'[s] = holdKey[s]
             \/ /\ request[h].pc = "setHoldKey" /\ request[h].seat = s
                /\ holdKey'[s] = request[h].passenger
  <2>1. CASE SetHoldKey(h) \/ DropHoldKey(h)
    BY <1>1, <2>1 DEF SetHoldKey, DropHoldKey, At
  <2> QED
    BY <1>2, <2>1
    DEF RequestNext, RequestArrives, RequestProceeds, StartCheckIn,
        ConfirmCheckIn, CancelCheckIn, AcquireSeatLock, SeatLockUnavailable,
        ReadSeatWithinLock, HoldSeat, HoldSeatFails, EndStart, CheckHoldKey,
        AwaitPayment, PayExcessFee, CompleteCheckIn, CancelTransaction,
        EmitAfterCancel, LoseRequest
<1>3. ASSUME NEW h \in ExpiryHandlers, JobNext(h)
      PROVE  holdKey' = holdKey
  BY <1>3
  DEF JobNext, JobProceeds, HandleHoldExpired, SweepExpiredHolds,
      AcquireReleaseLock, SkipRelease, ReadHeldSeat, ReleaseSeat, ReleaseSeatFails,
      FindAssignedEntry, SaveExpiredEntry, EmitAfterRelease, EndRelease, LoseJob
<1>4. ASSUME NEW h \in WaitlistHandlers, RunNext(h)
      PROVE  \/ holdKey'[s] = holdKey[s]
             \/ /\ run[h].pc = "setHoldKey" /\ run[h].seat = s
                /\ holdKey'[s] = run[h].passenger
  <2>1. CASE SetAssignedHoldKey(h)
    BY <1>1, <2>1 DEF SetAssignedHoldKey, RunAt
  <2> QED
    BY <1>4, <2>1
    DEF RunNext, RunProceeds, JoinWaitlist, LeaveWaitlist, ProcessWaitlist,
        InsertEntry, SaveCancelledEntry, AcquireWaitlistLock, SkipProcessing,
        ReadHead, ReadFreeSeat, AssignSeat, AssignSeatFails, EndProcessing, LoseRun
<1>5. ASSUME TimePasses \/ (\E e \in Seats \cup {None} : LoseEvent(e)) \/ UNCHANGED vars
      PROVE  holdKey'[s] = holdKey[s]
  BY <1>1, <1>5 DEF TimePasses, HoldFallsDue, HoldKeyExpires, SeatLockExpires,
                    WaitlistLockExpires, LoseEvent, vars
<1> QED
  BY <1>2, <1>3, <1>4, <1>5 DEF Next, CheckInStep, ExpiryStep, WaitlistStep

\* KeyInv is inductive.
LEMMA StepKeys ==
    ASSUME KeyInv, [Next]_vars
    PROVE  KeyInv'
<1>1. RowsStep
  BY StepKinds DEF KeyInv, EntryInv
<1>2. HoldKeysNameCheckIns'
  <2> SUFFICES ASSUME NEW s \in Seats, NEW p, p = holdKey'[s], p # None
               PROVE  HasCheckIn(p)' /\ checkIn'[p].seat = s
    BY DEF HoldKeysNameCheckIns, HasCheckIn
  <2>1. /\ holdKey[s] \in Passengers \cup {None}
        /\ \A h \in CheckInHandlers :
            request[h].pc = "setHoldKey" => request[h].passenger \in Passengers
        /\ \A h \in WaitlistHandlers :
            run[h].pc = "setHoldKey" => run[h].passenger \in Passengers
    BY DEF KeyInv, EntryInv, HoldInv, TypeInv, StoreInv, StoreTypeOK, RequestInv,
           RequestsBound, RunInv, RunsBound, At
  <2>2. p \in Passengers /\ HasCheckIn(p) /\ checkIn[p].seat = s
    BY <2>1, KeyWrites DEF KeyInv, EntryInv, StartsMatch, RunsMatch, HoldKeysNameCheckIns
  <2> QED BY <1>1, <2>2, CheckInsStay DEF KeyInv, EntryInv
<1> QED BY <1>1, <1>2, StepEntries, StartsMatchStep DEF KeyInv

\* The key startCheckIn and processWaitlist set after their transactions names a
\* passenger whose check-in is for the seat, whoever held the seat in between.
THEOREM KeysNameCheckIns == Spec => []HoldKeysNameCheckIns
<1>1. Init => KeyInv
  <2> SUFFICES ASSUME Init PROVE StartsMatch /\ HoldKeysNameCheckIns
    BY InitEntries DEF KeyInv
  <2> QED BY DEF Init, StoreInit, RequestInit, NoRequest, StartsMatch, HoldKeysNameCheckIns
<1>2. KeyInv => HoldKeysNameCheckIns
  BY DEF KeyInv
<1> QED BY <1>1, <1>2, StepKeys, PTL DEF Spec

----------------------------------------------------------------------------
(* The locks.                                                               *)

LockInv == EntryInv /\ LocksAreOwned

\* A handler that goes on has not been lost, nor had any before.
LEMMA NoneLost ==
    ASSUME EntryInv, [Next]_vars, crashes' = 0
    PROVE  crashes = 0 /\ ~LoseHandler
<1>1. crashes \in Nat
  BY DEF EntryInv, HoldInv, TypeInv, StoreInv, StoreTypeOK
<1> QED BY <1>1, CrashesStay DEF LoseHandler

\* A seat's lock is acquired for the seat a request asks for or an expiry handler
\* has chosen.
LEMMA SeatLockWrites ==
    ASSUME EntryInv, [Next]_vars, NEW s \in Seats, seatLock'[s] # None
    PROVE  \/ seatLock'[s] = seatLock[s]
           \/ \E h \in CheckInHandlers :
                AcquireSeatLock(h) /\ request[h].seat = s /\ seatLock'[s] = h
           \/ \E h \in ExpiryHandlers :
                AcquireReleaseLock(h) /\ job'[h].seat = s /\ seatLock'[s] = h
<1> USE DEF storeVars, tableVars, redisVars, eventVars
<1>1. /\ seatLock \in [Seats -> CheckInHandlers \cup ExpiryHandlers \cup {None}]
      /\ job \in [ExpiryHandlers -> JobState]
  BY DEF EntryInv, HoldInv, TypeInv, StoreInv, StoreTypeOK, JobInv, JobTypeOK
<1>2. ASSUME NEW h \in CheckInHandlers, RequestNext(h)
      PROVE  \/ seatLock'[s] = seatLock[s]
             \/ AcquireSeatLock(h) /\ request[h].seat = s /\ seatLock'[s] = h
  <2>1. CASE AcquireSeatLock(h)
    BY <1>1, <2>1 DEF AcquireSeatLock
  <2>2. CASE EndStart(h)
    BY <1>1, <2>2 DEF EndStart, ReleaseSeatLock
  <2> QED
    BY <1>2, <2>1, <2>2
    DEF RequestNext, RequestArrives, RequestProceeds, StartCheckIn,
        ConfirmCheckIn, CancelCheckIn, SeatLockUnavailable,
        ReadSeatWithinLock, HoldSeat, HoldSeatFails, SetHoldKey, CheckHoldKey,
        AwaitPayment, PayExcessFee, CompleteCheckIn, CancelTransaction, DropHoldKey,
        EmitAfterCancel, LoseRequest
<1>3. ASSUME NEW h \in ExpiryHandlers, JobNext(h)
      PROVE  \/ seatLock'[s] = seatLock[s]
             \/ AcquireReleaseLock(h) /\ job'[h].seat = s /\ seatLock'[s] = h
  <2>1. CASE AcquireReleaseLock(h)
    <3>1. PICK t \in job[h].todo :
            /\ seatLock' = [seatLock EXCEPT ![t] = h]
            /\ job' = [job EXCEPT ![h].pc = "readSeat", ![h].seat = t,
                                  ![h].todo = @ \ {t}]
      BY <2>1 DEF AcquireReleaseLock
    <3>2. job'[h].seat = t
      BY <1>1, <3>1 DEF JobState
    <3> QED BY <1>1, <2>1, <3>1, <3>2
  <2>2. CASE EndRelease(h)
    BY <1>1, <2>2 DEF EndRelease, ReleaseSeatLock
  <2> QED
    BY <1>3, <2>1, <2>2
    DEF JobNext, JobProceeds, HandleHoldExpired, SweepExpiredHolds, SkipRelease,
        ReadHeldSeat, ReleaseSeat, ReleaseSeatFails, FindAssignedEntry,
        SaveExpiredEntry, EmitAfterRelease, LoseJob
<1>4. ASSUME NEW h \in WaitlistHandlers, RunNext(h)
      PROVE  seatLock' = seatLock
  BY <1>4
  DEF RunNext, RunProceeds, JoinWaitlist, LeaveWaitlist, ProcessWaitlist,
      InsertEntry, SaveCancelledEntry, AcquireWaitlistLock, SkipProcessing,
      ReadHead, ReadFreeSeat, AssignSeat, AssignSeatFails, SetAssignedHoldKey,
      EndProcessing, LoseRun
<1>5. ASSUME TimePasses \/ (\E e \in Seats \cup {None} : LoseEvent(e)) \/ UNCHANGED vars
      PROVE  seatLock'[s] = seatLock[s]
  BY <1>1, <1>5 DEF TimePasses, HoldFallsDue, HoldKeyExpires, SeatLockExpires,
                    WaitlistLockExpires, LoseEvent, vars
<1> QED
  BY <1>2, <1>3, <1>4, <1>5 DEF Next, CheckInStep, ExpiryStep, WaitlistStep

\* A request under its seat's lock stays there until it gives the lock back.
LEMMA RequestKeepsLock ==
    ASSUME LockInv, [Next]_vars, crashes' = 0, NEW h \in CheckInHandlers,
           NEW s \in Seats, seatLock'[s] = h
    PROVE  request'[h].seat = s /\ request'[h].pc \in StartPCs \ {"acquireLock"}
<1>1. request \in [CheckInHandlers -> RequestState]
  BY DEF LockInv, EntryInv, HoldInv, TypeInv, RequestInv, RequestTypeOK
<1>2. h # None /\ h \notin ExpiryHandlers
  BY StoreAssumption
<1>3. ASSUME NEW pc, Goto(h, pc)
      PROVE  request'[h].pc = pc /\ request'[h].seat = request[h].seat
  BY <1>1, <1>3 DEF Goto, RequestState
<1>4. CASE seatLock'[s] = seatLock[s]
  <2>1. request[h].seat = s /\ request[h].pc \in StartPCs \ {"acquireLock"}
    BY <1>4, NoneLost DEF LockInv, LocksAreOwned
  <2>2. CASE ReadSeatWithinLock(h) \/ HoldSeat(h) \/ HoldSeatFails(h) \/ SetHoldKey(h)
    <3>1. \E pc \in {"holdTx", "setHoldKey", "releaseLock"} : Goto(h, pc)
      BY <2>2 DEF ReadSeatWithinLock, HoldSeat, HoldSeatFails, SetHoldKey
    <3> QED BY <1>3, <2>1, <3>1 DEF StartPCs
  <2>3. CASE EndStart(h)
    <3>1. seatLock \in [Seats -> CheckInHandlers \cup ExpiryHandlers \cup {None}]
      BY DEF LockInv, EntryInv, HoldInv, TypeInv, StoreInv, StoreTypeOK
    <3> QED BY <1>2, <1>4, <2>1, <2>3, <3>1 DEF EndStart, ReleaseSeatLock
  <2>4. CASE RequestNext(h)
    BY <2>1, <2>2, <2>3, <2>4, NoneLost
    DEF LockInv, RequestNext, RequestArrives, RequestProceeds, StartCheckIn,
        ConfirmCheckIn, CancelCheckIn, AcquireSeatLock, SeatLockUnavailable,
        CheckHoldKey, AwaitPayment, PayExcessFee, CompleteCheckIn, CancelTransaction,
        DropHoldKey, EmitAfterCancel, LoseRequest, At, StartPCs
  <2> QED BY <2>1, <2>4, RequestsStepAlone DEF LockInv, EntryInv
<1>5. CASE AcquireSeatLock(h) /\ request[h].seat = s
  BY <1>3, <1>5 DEF AcquireSeatLock, StartPCs
<1> QED BY <1>2, <1>4, <1>5, SeatLockWrites DEF LockInv

\* So does an expiry handler.
LEMMA JobKeepsLock ==
    ASSUME LockInv, [Next]_vars, crashes' = 0, NEW h \in ExpiryHandlers,
           NEW s \in Seats, seatLock'[s] = h
    PROVE  job'[h].seat = s /\ job'[h].pc \in JobPCs \ {"idle", "acquireLock"}
<1>1. job \in [ExpiryHandlers -> JobState]
  BY DEF LockInv, EntryInv, HoldInv, TypeInv, JobInv, JobTypeOK
<1>2. h # None /\ h \notin CheckInHandlers
  BY StoreAssumption
<1>3. ASSUME NEW pc, JobGoto(h, pc)
      PROVE  job'[h].pc = pc /\ job'[h].seat = job[h].seat
  BY <1>1, <1>3 DEF JobGoto, JobState
<1>4. CASE seatLock'[s] = seatLock[s]
  <2>1. job[h].seat = s /\ job[h].pc \in JobPCs \ {"idle", "acquireLock"}
    BY <1>4, NoneLost DEF LockInv, LocksAreOwned
  <2>2. CASE \/ ReleaseSeat(h) \/ ReleaseSeatFails(h) \/ FindAssignedEntry(h)
             \/ SaveExpiredEntry(h) \/ EmitAfterRelease(h)
    <3>1. \E pc \in {"findEntry", "saveEntry", "emit", "releaseLock"} : JobGoto(h, pc)
      BY <2>2 DEF ReleaseSeat, ReleaseSeatFails, FindAssignedEntry, SaveExpiredEntry,
                  EmitAfterRelease
    <3> QED BY <1>3, <2>1, <3>1 DEF JobPCs
  <2>3. CASE ReadHeldSeat(h)
    <3>1. CASE JobGoto(h, "releaseLock")
      BY <1>3, <2>1, <3>1 DEF JobPCs
    <3>2. CASE job' = [job EXCEPT ![h].pc = "releaseTx",
                                  ![h].owner = seat[job[h].seat].heldBy]
      BY <1>1, <2>1, <3>2 DEF JobState, JobPCs
    <3> QED BY <2>3, <3>1, <3>2 DEF ReadHeldSeat
  <2>4. CASE EndRelease(h)
    <3>1. seatLock \in [Seats -> CheckInHandlers \cup ExpiryHandlers \cup {None}]
      BY DEF LockInv, EntryInv, HoldInv, TypeInv, StoreInv, StoreTypeOK
    <3> QED BY <1>2, <1>4, <2>1, <2>4, <3>1 DEF EndRelease, ReleaseSeatLock
  <2>5. CASE JobNext(h)
    BY <2>1, <2>2, <2>3, <2>4, <2>5, NoneLost
    DEF LockInv, JobNext, JobProceeds, HandleHoldExpired, SweepExpiredHolds,
        AcquireReleaseLock, SkipRelease, LoseJob, JobAt
  <2> QED BY <2>1, <2>5, JobsStepAlone DEF LockInv, EntryInv
<1>5. CASE AcquireReleaseLock(h) /\ job'[h].seat = s
  BY <1>1, <1>5 DEF AcquireReleaseLock, JobState, JobPCs
<1> QED BY <1>2, <1>4, <1>5, SeatLockWrites DEF LockInv

\* So does a run under the lock of the waitlist.
LEMMA RunKeepsLock ==
    ASSUME LockInv, [Next]_vars, crashes' = 0, NEW h \in WaitlistHandlers,
           waitlistLock' = h
    PROVE  run'[h].pc \in {"readHead", "readSeat", "assignTx", "setHoldKey", "releaseLock"}
<1> USE DEF storeVars, tableVars, redisVars, eventVars
<1>1. run \in [WaitlistHandlers -> RunState]
  BY DEF LockInv, EntryInv, HoldInv, TypeInv, RunInv, RunTypeOK
<1>2. h # None
  BY StoreAssumption
<1>3. ASSUME NEW pc, RunGoto(h, pc)
      PROVE  run'[h].pc = pc
  BY <1>1, <1>3 DEF RunGoto, RunState
<1>4. waitlistLock = h \/ AcquireWaitlistLock(h)
  <2>1. ASSUME NEW g \in CheckInHandlers, RequestNext(g)
        PROVE  waitlistLock' = waitlistLock
    BY <2>1
    DEF RequestNext, RequestArrives, RequestProceeds, StartCheckIn,
        ConfirmCheckIn, CancelCheckIn, AcquireSeatLock, SeatLockUnavailable,
        ReadSeatWithinLock, HoldSeat, HoldSeatFails, SetHoldKey, EndStart, CheckHoldKey,
        AwaitPayment, PayExcessFee, CompleteCheckIn, CancelTransaction, DropHoldKey,
        EmitAfterCancel, LoseRequest
  <2>2. ASSUME NEW g \in ExpiryHandlers, JobNext(g)
        PROVE  waitlistLock' = waitlistLock
    BY <2>2
    DEF JobNext, JobProceeds, HandleHoldExpired, SweepExpiredHolds,
        AcquireReleaseLock, SkipRelease, ReadHeldSeat, ReleaseSeat, ReleaseSeatFails,
        FindAssignedEntry, SaveExpiredEntry, EmitAfterRelease, EndRelease, LoseJob
  <2>3. ASSUME NEW g \in WaitlistHandlers, RunNext(g)
        PROVE  waitlistLock = h \/ AcquireWaitlistLock(h)
    <3>1. CASE AcquireWaitlistLock(g)
      BY <3>1 DEF AcquireWaitlistLock
    <3> QED
      BY <1>2, <2>3, <3>1
      DEF RunNext, RunProceeds, JoinWaitlist, LeaveWaitlist, ProcessWaitlist,
          InsertEntry, SaveCancelledEntry, SkipProcessing, ReadHead, ReadFreeSeat,
          AssignSeat, AssignSeatFails, SetAssignedHoldKey, EndProcessing, LoseRun
  <2>4. ASSUME TimePasses \/ (\E e \in Seats \cup {None} : LoseEvent(e)) \/ UNCHANGED vars
        PROVE  waitlistLock = h
    BY <1>2, <2>4 DEF TimePasses, HoldFallsDue, HoldKeyExpires, SeatLockExpires,
                      WaitlistLockExpires, LoseEvent, vars
  <2> QED BY <2>1, <2>2, <2>3, <2>4 DEF Next, CheckInStep, ExpiryStep, WaitlistStep
<1>5. CASE AcquireWaitlistLock(h)
  BY <1>3, <1>5 DEF AcquireWaitlistLock
<1>6. CASE waitlistLock = h
  <2>1. run[h].pc \in {"readHead", "readSeat", "assignTx", "setHoldKey", "releaseLock"}
    BY <1>6, NoneLost DEF LockInv, LocksAreOwned
  <2>2. CASE AssignSeat(h) \/ AssignSeatFails(h) \/ SetAssignedHoldKey(h)
    BY <1>3, <2>2 DEF AssignSeat, AssignSeatFails, SetAssignedHoldKey
  <2>3. CASE ReadHead(h) \/ ReadFreeSeat(h)
    BY <1>1, <1>3, <2>3 DEF ReadHead, ReadFreeSeat, RunState
  <2>4. CASE EndProcessing(h)
    BY <1>2, <1>6, <2>4 DEF EndProcessing
  <2>5. CASE RunNext(h)
    BY <2>1, <2>2, <2>3, <2>4, <2>5, NoneLost
    DEF LockInv, RunNext, RunProceeds, JoinWaitlist, LeaveWaitlist, ProcessWaitlist,
        InsertEntry, SaveCancelledEntry, AcquireWaitlistLock, SkipProcessing, LoseRun,
        RunAt
  <2> QED BY <2>1, <2>5, RunsStepAlone DEF LockInv, EntryInv
<1> QED BY <1>4, <1>5, <1>6

\* No path through startCheckIn, releaseSeat or processWaitlist leaves its lock
\* behind: whoever owns one is still between its acquisition and its release.
THEOREM LocksOwned == Spec => []LocksAreOwned
<1>1. Init => LockInv
  <2> SUFFICES ASSUME Init PROVE LocksAreOwned
    BY InitEntries DEF LockInv
  <2> QED BY StoreAssumption DEF Init, StoreInit, LocksAreOwned
<1>2. ASSUME LockInv, [Next]_vars
      PROVE  LockInv'
  <2>1. LocksAreOwned'
    BY <1>2, RequestKeepsLock, JobKeepsLock, RunKeepsLock DEF LocksAreOwned
  <2> QED BY <1>2, <2>1, StepEntries DEF LockInv
<1>3. LockInv => LocksAreOwned
  BY DEF LockInv
<1> QED BY <1>1, <1>2, <1>3, PTL DEF Spec
=============================================================================

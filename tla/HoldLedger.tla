----------------------------- MODULE HoldLedger -----------------------------
(***************************************************************************)
(* What the seat-hold protocol promises, without rows, keys, locks or       *)
(* handlers: which passenger holds which seat, and who has ever held one.   *)
(* A hold begins on a seat nobody holds, for a passenger who never had one, *)
(* and ends before the seat is held again.                                  *)
(***************************************************************************)
CONSTANTS Passengers, Seats, None

VARIABLES
    holder, \* for each seat, the passenger holding it, or None
    served  \* the passengers who have, or have had, a hold

ledgerVars == <<holder, served>>

LedgerInit ==
    /\ holder = [s \in Seats |-> None]
    /\ served = {}

BeginHold(s, p) ==
    /\ holder[s] = None
    /\ p \notin served
    /\ holder' = [holder EXCEPT ![s] = p]
    /\ served' = served \cup {p}

EndHold(s) ==
    /\ holder[s] # None
    /\ holder' = [holder EXCEPT ![s] = None]
    /\ UNCHANGED served

LedgerNext ==
    \E s \in Seats : EndHold(s) \/ \E p \in Passengers : BeginHold(s, p)

LedgerSpec == LedgerInit /\ [][LedgerNext]_ledgerVars
=============================================================================

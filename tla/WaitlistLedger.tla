--------------------------- MODULE WaitlistLedger ---------------------------
(***************************************************************************)
(* What the waitlist promises beside HoldLedger, without positions, events, *)
(* locks or runs: a passenger on the list is given a seat in the very step  *)
(* in which the hold begins, so once at most, and the offer is over only    *)
(* when the hold is. The order of the list is not promised.                 *)
(***************************************************************************)
EXTENDS HoldLedger

VARIABLE entry \* for each passenger, the status of the entry, "NONE" if none

listVars == <<ledgerVars, entry>>

ListInit ==
    /\ LedgerInit
    /\ entry = [p \in Passengers |-> "NONE"]

HasEntry(p) == entry[p] # "NONE"

EntryBecomes(p, status) == entry' = [entry EXCEPT ![p] = status]

Join(p) ==
    /\ ~HasEntry(p)
    /\ EntryBecomes(p, "WAITING")
    /\ UNCHANGED ledgerVars

\* The hold and the entry, in one step. An entry that has left meanwhile may be
\* given the seat all the same.
Offer(s, p) ==
    /\ HasEntry(p)
    /\ BeginHold(s, p)
    /\ EntryBecomes(p, "ASSIGNED")

Leave(p) ==
    /\ HasEntry(p)
    /\ EntryBecomes(p, "CANCELLED")
    /\ UNCHANGED ledgerVars

\* An offer has expired: the passenger had a hold and has none now.
Expire(p) ==
    /\ entry[p] \notin {"NONE", "WAITING"}
    /\ p \in served
    /\ \A s \in Seats : holder[s] # p
    /\ EntryBecomes(p, "EXPIRED")
    /\ UNCHANGED ledgerVars

ListNext ==
    \/ LedgerNext /\ UNCHANGED entry
    \/ \E p \in Passengers :
        \/ Join(p) \/ Leave(p) \/ Expire(p)
        \/ \E s \in Seats : Offer(s, p)

ListSpec == ListInit /\ [][ListNext]_listVars
=============================================================================

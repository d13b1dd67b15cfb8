--------------------------- MODULE BookingLedger ---------------------------
(***************************************************************************)
(* What orderly clients are promised beyond HoldLedger: a hold becomes a    *)
(* booking of the same seat by the same passenger, a booked seat is held by *)
(* nobody else, and a seat is given up together with its booking.           *)
(***************************************************************************)
EXTENDS HoldLedger

\* The passengers whose hold has become a booking. In this module holder names
\* the passenger of a booked seat too.
VARIABLE booked

bookVars == <<ledgerVars, booked>>

BookInit == LedgerInit /\ booked = {}

Book(s) ==
    /\ holder[s] # None
    /\ holder[s] \notin booked
    /\ booked' = booked \cup {holder[s]}
    /\ UNCHANGED ledgerVars

GiveUp(s) ==
    /\ EndHold(s)
    /\ booked' = booked \ {holder[s]}

BookNext ==
    \E s \in Seats :
        \/ Book(s)
        \/ GiveUp(s)
        \/ \E p \in Passengers : BeginHold(s, p) /\ UNCHANGED booked

BookSpec == BookInit /\ [][BookNext]_bookVars
=============================================================================

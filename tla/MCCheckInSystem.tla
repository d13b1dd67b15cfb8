-------------------------- MODULE MCCheckInSystem --------------------------
(***************************************************************************)
(* Instances of CheckInSystem for TLC.                                      *)
(***************************************************************************)
EXTENDS CheckInSystem, TLC

\* The handlers of a service are interchangeable.
HandlerSymmetry ==
    Permutations(CheckInHandlers) \cup Permutations(ExpiryHandlers)
        \cup Permutations(WaitlistHandlers)

\* So are the seats: no configuration names one.
SeatSymmetry == Permutations(Seats)

\* So are the passengers who start check-ins, if none of them has another role.
StarterSymmetry == Permutations(Starters) \cup HandlerSymmetry

\* So are all passengers, in a configuration that lets all of them do the same.
Symmetry == Permutations(Passengers) \cup HandlerSymmetry
============================================================================

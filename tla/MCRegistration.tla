--------------------------- MODULE MCRegistration ---------------------------
(* Constants for the runs of Registration. *)
EXTENDS Registration, TLC

Symmetry == Permutations(Attendees)

Nothing == [closeNow |-> FALSE, capacity |-> Keep, opens |-> Keep, closes |-> Keep, hours |-> Keep]

\* Opening registration with one place; more places, with offers held longer; a
\* later window, before which no place can be offered; closing early.
OpenOnePlace == [Nothing EXCEPT !.capacity = 1, !.opens = 0, !.closes = 2, !.hours = 1]
TwoPlaces    == [Nothing EXCEPT !.capacity = 2, !.hours = 2]
LaterWindow  == [Nothing EXCEPT !.opens = 2, !.closes = 3]
CloseNow     == [Nothing EXCEPT !.closeNow = TRUE]

MCPatches == {OpenOnePlace, TwoPlaces, LaterWindow, CloseNow}
FewPatches == {OpenOnePlace, LaterWindow}
MCDates == {3, 4}
OneDate == {4}
=============================================================================

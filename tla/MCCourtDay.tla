----------------------------- MODULE MCCourtDay -----------------------------
(***************************************************************************)
(* Small instances of CourtDay, of a few holds of one court.  One time     *)
(* unit stands for half an hour of a short day.                            *)
(***************************************************************************)
EXTENDS CourtDay

HourSlots == [open |-> 1, close |-> 5, duration |-> 2]
OneLayout == {HourSlots}

\* The slots 1-3 and 3-5 of the grid.
GridStarts == {1, 3}
\* A start between two grid lines as well.
MixedStarts == {1, 2}
=============================================================================

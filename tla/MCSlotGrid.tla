----------------------------- MODULE MCSlotGrid -----------------------------
(***************************************************************************)
(* A small instance of SlotGrid for a court that is open till late.        *)
(***************************************************************************)
EXTENDS SlotGrid

\* The last slot would end after midnight, as with 06:00 to 23:30 and slots
\* of an hour.
LateHours == [open |-> 6, close |-> 9, duration |-> 2]
=============================================================================

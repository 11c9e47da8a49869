----------------------------- MODULE SlotLedger -----------------------------
(***************************************************************************)
(* What the booking system promises about one court on one day, seen from  *)
(* outside: every start time has at most one holder, a booking takes a     *)
(* start time only while it is free and takes one only once in its life,   *)
(* and a start time becomes free again when its holder gives it up.        *)
(* CourtDay is shown to implement this ledger.                             *)
(***************************************************************************)
CONSTANTS
  Starts,   \* the start times that can be asked for
  Tickets,  \* the bookings, each of which may be made once
  Free      \* the holder of a start time nobody holds

VARIABLES
  holder,   \* who holds each start time
  spent     \* the tickets that have held a start time already

ledgerVars == <<holder, spent>>

LedgerInit ==
  /\ holder = [s \in Starts |-> Free]
  /\ spent = {}

Take(s, t) ==
  /\ holder[s] = Free
  /\ t \notin spent
  /\ holder' = [holder EXCEPT ![s] = t]
  /\ spent' = spent \union {t}

Release(s) ==
  /\ holder[s] # Free
  /\ holder' = [holder EXCEPT ![s] = Free]
  /\ UNCHANGED spent

LedgerNext ==
  \E s \in Starts : Release(s) \/ \E t \in Tickets : Take(s, t)

LedgerSpec == LedgerInit /\ [][LedgerNext]_ledgerVars
=============================================================================

--------------------------- MODULE MCCourtScenes ---------------------------
(***************************************************************************)
(* An instance of CourtDay in two scenes, small enough for TLC: two holds  *)
(* and a walk-in booking on the two slots of one grid; two holds and a     *)
(* block whose times overlap off the grid, while the owner may change the  *)
(* duration of the slots, but nothing is completed and the court stays.    *)
(* One time unit stands for half an hour of a short day.                   *)
(***************************************************************************)
EXTENDS MCCourtDay, TLC

VARIABLE scene

ShortSlots == [open |-> 1, close |-> 5, duration |-> 1]
TwoLayouts == {HourSlots, ShortSlots}
AllStarts == GridStarts \union MixedStarts

Scenes == {"grid", "ranges"}

HoldSymmetry == Permutations(Holds)

\* A request that has no part in the scene stays idle, and the others ask for
\* the scene's start times (0 while they have no slot).
Only(requests, starts) ==
  \A r \in Requests :
    /\ pc'[r] # "idle" => r \in requests
    /\ slot'[r].start \in starts \union {0}

InScene ==
  \/ /\ scene = "grid"
     /\ Only(Bookings, GridStarts)
     /\ court'.layout = HourSlots
  \/ /\ scene = "ranges"
     /\ Only(Holds \union Blocks, MixedStarts)
     /\ closing' = {}
     /\ ~retiring'

ScenesInit ==
  /\ scene \in Scenes
  /\ Init
  /\ scene = "grid" => court.layout = HourSlots

ScenesNext == Next /\ InScene /\ UNCHANGED scene

ScenesSpec == ScenesInit /\ [][ScenesNext]_<<scene, vars>>
=============================================================================

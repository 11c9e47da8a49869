------------------------------ MODULE Standing ------------------------------
(***************************************************************************)
(* The standing of one player: the suspension, which holds look at, and    *)
(* the history of penalties an admin sees.                                 *)
(*                                                                         *)
(* Suspending and reinstating are transactions that lock the player's row  *)
(* first, so each is one step.  Overriding a penalty reads its row before  *)
(* its transaction, and does not touch the player: no code writes the bans *)
(* it would lift.                                                          *)
(***************************************************************************)
EXTENDS Integers, FiniteSets

CONSTANTS
  Suspensions,  \* calls of suspendUser, each of which makes one penalty
  Overrides,    \* calls of overridePenalty
  NoPenalty     \* not a penalty

ASSUME StandingAssumption == NoPenalty \notin Suspensions

VARIABLES
  is_suspended,  \* users.is_suspended
  penalty,       \* the rows of penalty_history
  overriding,    \* the row each overridePenalty has read
  overrides      \* calls of overridePenalty that have ended

standingVars == <<is_suspended, penalty, overriding, overrides>>

Active == {s \in Suspensions : penalty[s].status = "active"}

-----------------------------------------------------------------------------
StandingInit ==
  /\ is_suspended = FALSE
  /\ penalty = [s \in Suspensions |-> [status |-> "none", note |-> "none"]]
  /\ overriding = [v \in Overrides |-> NoPenalty]
  /\ overrides = {}

\* suspendUser, of a player who may be suspended already.
SuspendUser(s) ==
  /\ penalty[s].status = "none"
  /\ is_suspended' = TRUE
  /\ penalty' = [penalty EXCEPT ![s] = [status |-> "active", note |-> "none"]]
  /\ UNCHANGED <<overriding, overrides>>

\* Mutant of Closed: reinstating closes the oldest penalty only.
ClosedOne == IF Active = {} THEN {} ELSE {CHOOSE s \in Active : TRUE}

\* reinstateUser closes every penalty that is active.
Closed == Active

ReinstateUser ==
  /\ is_suspended' = FALSE
  /\ penalty' = [s \in Suspensions |->
                   IF s \in Closed
                     THEN [status |-> "overridden", note |-> "reinstated"]
                     ELSE penalty[s]]
  /\ UNCHANGED <<overriding, overrides>>

\* overridePenalty reads a row that is active ...
BeginOverride(v) ==
  /\ v \notin overrides
  /\ overriding[v] = NoPenalty
  /\ \E s \in Active : overriding' = [overriding EXCEPT ![v] = s]
  /\ UNCHANGED <<is_suspended, penalty, overrides>>

\* ... and writes it whatever it has become.
CommitOverride(v) ==
  /\ overriding[v] # NoPenalty
  /\ penalty' = [penalty EXCEPT
       ![overriding[v]] = [status |-> "overridden", note |-> "admin"]]
  /\ overriding' = [overriding EXCEPT ![v] = NoPenalty]
  /\ overrides' = overrides \union {v}
  /\ UNCHANGED <<is_suspended>>

-----------------------------------------------------------------------------
StandingNext ==
  \/ ReinstateUser
  \/ \E s \in Suspensions : SuspendUser(s)
  \/ \E v \in Overrides : BeginOverride(v) \/ CommitOverride(v)

StandingSpec == StandingInit /\ [][StandingNext]_standingVars

-----------------------------------------------------------------------------
(***************************************************************************)
(* Properties                                                              *)
(***************************************************************************)
StandingTypeOK ==
  /\ is_suspended \in BOOLEAN
  /\ penalty \in [Suspensions ->
                    [status : {"none", "active", "overridden"},
                     note : {"none", "admin", "reinstated"}]]
  /\ overriding \in [Overrides -> Suspensions \union {NoPenalty}]
  /\ overrides \subseteq Overrides

\* The history agrees with the player, however often the player was suspended
\* and in whatever order the calls end: an active penalty means a suspended
\* player, and a suspended player without one has had a penalty overridden,
\* which does not end the suspension.
HistoryAgrees ==
  /\ Active # {} => is_suspended
  /\ is_suspended /\ Active = {} =>
       \E s \in Suspensions : penalty[s].note = "admin"
=============================================================================

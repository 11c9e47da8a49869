------------------------------ MODULE MCMoney -------------------------------
(***************************************************************************)
(* One instance for TLC of what players pay and of what owners are paid.   *)
(* The two modules share no variable, so nothing is learnt from running    *)
(* both at once: a behaviour is a scene of one of them, with some of its   *)
(* calls, while the other keeps still in one initial state.                *)
(***************************************************************************)
EXTENDS HoldPayment, Payouts, TLC

CONSTANTS
  HoldCasts,   \* the sets of calls a scene of HoldPayment may make
  PayoutCasts  \* the sets of calls a scene of Payouts may make

VARIABLE scene  \* the module that runs, and its calls

moneyVars == <<scene, vars, payoutVars>>

Scenes ==
  [part : {"hold"}, cast : HoldCasts]
    \union [part : {"payouts"}, cast : PayoutCasts]

Plays(p) == scene.part = p
Makes(c) == Plays("hold") /\ c \in scene.cast

MoneyInit ==
  /\ scene \in Scenes
  /\ Init
  /\ PayoutsInit
  /\ ~Plays("hold") => Bypassed(0)
  /\ ~Plays("payouts") =>
       /\ deposit = [b \in Bookings |-> CHOOSE d \in Deposits : TRUE]
       /\ feePct = CHOOSE n \in Percents : TRUE

HoldScene ==
  /\ Next
  /\ \A c \in Calls \ scene.cast : pc'[c] = pc[c]

PayoutsScene ==
  /\ PayoutsNext
  /\ \A c \in PayCalls \ scene.cast : payStep'[c] = payStep[c]

MoneyNext ==
  \/ Plays("hold") /\ HoldScene /\ UNCHANGED <<scene, payoutVars>>
  \/ Plays("payouts") /\ PayoutsScene /\ UNCHANGED <<scene, vars>>

\* The fairness of HoldPayment, in its own scenes and for the calls these
\* have; nothing is said to happen in the end in the scenes of Payouts.
MoneySpec ==
  /\ MoneyInit
  /\ [][MoneyNext]_moneyVars
  /\ WF_vars(Plays("hold") /\ Lapse)
  /\ \A c \in Sweeps : WF_vars(Makes(c) /\ (Verify(c) \/ Sweep(c)))
  /\ \A c \in Initiations :
       WF_vars(Makes(c) /\ (WritePayment(c) \/ RefusePayment(c)))
  /\ WF_vars(Plays("hold") /\ (EnqueueRefund \/ RefundStep))
=============================================================================

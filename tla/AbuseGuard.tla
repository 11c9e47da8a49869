----------------------------- MODULE AbuseGuard -----------------------------
(***************************************************************************)
(* The guard in front of every endpoint, for the requests of one client:   *)
(* a counter per window of time, and, for what comes above the limit, a    *)
(* score of risk, a cooldown whose length depends on the score, and a flag *)
(* for a manual review.  The record of the incident that ends a refusal is *)
(* a job of the queues (Deliveries has it), and its failure is caught.     *)
(*                                                                         *)
(* Everything is in Redis, one command at a time, and requests of the same *)
(* client overlap.                                                         *)
(***************************************************************************)
EXTENDS Integers, FiniteSets

CONSTANTS
  Arrivals,     \* requests of the client
  MaxRequests,  \* maxRequestsPerWindow
  MaxWindows    \* bound of the windows that pass

ASSUME AbuseAssumption ==
  /\ MaxRequests \in Nat \ {0}
  /\ MaxWindows \in Nat

VARIABLES
  window,     \* the number of the current window
  hits,       \* the counter of each window
  risk,       \* the score
  cooldown,   \* the level whose cooldown is in force, 0 for none
  flagged,    \* the flag for a manual review
  guardPc,    \* how far each request has come
  own,        \* the window of each request, and later its score
  passed,     \* requests let through in each window
  blind,      \* windows in which the counter failed
  outrun      \* whether two requests were between score and cooldown at once

abuseVars == <<window, hits, risk, cooldown, flagged, guardPc, own,
               passed, blind, outrun>>

Windows == 0 .. MaxWindows

-----------------------------------------------------------------------------
\* riskDelta, of a count above the limit.
RiskDelta(count) == IF count >= MaxRequests * 2 THEN 35
                    ELSE IF count >= (MaxRequests * 3) \div 2 THEN 20
                    ELSE 10

\* resolveLevel: 1 has no cooldown, and 2 to 5 have longer and longer ones.
LevelOf(score) == 1 + Cardinality({t \in {30, 60, 100, 160} : score >= t})
CooldownOf(level) == IF level <= 1 THEN 0 ELSE level

Scored == {r \in Arrivals : guardPc[r] = "scored"}

-----------------------------------------------------------------------------
AbuseInit ==
  /\ window = 0
  /\ hits = [w \in Windows |-> 0]
  /\ risk = 0
  /\ cooldown = 0
  /\ flagged = FALSE
  /\ guardPc = [r \in Arrivals |-> "idle"]
  /\ own = [r \in Arrivals |-> 0]
  /\ passed = [w \in Windows |-> 0]
  /\ blind = {}
  /\ outrun = FALSE

\* readCooldownTtl: a client with a cooldown is refused; an error is taken
\* for no cooldown.
ReadCooldown(r) ==
  /\ guardPc[r] = "idle"
  /\ \E seen \in {cooldown, 0} :
       guardPc' = [guardPc EXCEPT ![r] = IF seen > 0 THEN "refused"
                                                     ELSE "free"]
  /\ own' = [own EXCEPT ![r] = window]
  /\ UNCHANGED <<window, hits, risk, cooldown, flagged, passed, blind, outrun>>

\* Mutant of Counted: the counter is read before it is raised.
CountedAfter(w) == hits[w]

\* INCR answers the new count.
Counted(w) == hits[w] + 1

Count(r) ==
  LET n == Counted(own[r]) IN
  /\ guardPc[r] = "free"
  /\ hits' = [hits EXCEPT ![own[r]] = @ + 1]
  /\ IF n <= MaxRequests
       THEN /\ guardPc' = [guardPc EXCEPT ![r] = "passed"]
            /\ passed' = [passed EXCEPT ![own[r]] = @ + 1]
            /\ UNCHANGED own
       ELSE /\ guardPc' = [guardPc EXCEPT ![r] = "over"]
            /\ own' = [own EXCEPT ![r] = n]
            /\ UNCHANGED passed
  /\ UNCHANGED <<window, risk, cooldown, flagged, blind, outrun>>

\* The counter cannot be raised, or has no answer: the request passes.
LoseCount(r) ==
  /\ guardPc[r] = "free"
  /\ \E n \in {0, 1} : hits' = [hits EXCEPT ![own[r]] = @ + n]
  /\ guardPc' = [guardPc EXCEPT ![r] = "passed"]
  /\ passed' = [passed EXCEPT ![own[r]] = @ + 1]
  /\ blind' = blind \union {own[r]}
  /\ UNCHANGED <<window, risk, cooldown, flagged, own, outrun>>

\* Mutant of Score: the request goes by the score before its own.
ScoreBefore(count) == risk

\* INCRBY answers the new score.
Score(count) == risk + RiskDelta(count)

\* bumpRiskScore.
BumpRisk(r) ==
  /\ guardPc[r] = "over"
  /\ risk' = risk + RiskDelta(own[r])
  /\ own' = [own EXCEPT ![r] = Score(own[r])]
  /\ guardPc' = [guardPc EXCEPT ![r] = "scored"]
  /\ outrun' = (outrun \/ Scored # {})
  /\ UNCHANGED <<window, hits, cooldown, flagged, passed, blind>>

\* setCooldown: the newest one replaces what is there.
SetCooldown(r) ==
  LET level == LevelOf(own[r]) IN
  /\ guardPc[r] = "scored"
  /\ IF CooldownOf(level) > 0 THEN cooldown' = CooldownOf(level)
                              ELSE UNCHANGED cooldown
  /\ guardPc' = [guardPc EXCEPT ![r] = IF level >= 4 THEN "flag"
                                                         ELSE "refused"]
  /\ UNCHANGED <<window, hits, risk, flagged, own, passed, blind, outrun>>

\* setReviewFlag.
SetReview(r) ==
  /\ guardPc[r] = "flag"
  /\ flagged' = TRUE
  /\ guardPc' = [guardPc EXCEPT ![r] = "refused"]
  /\ UNCHANGED <<window, hits, risk, cooldown, own, passed, blind, outrun>>

\* A command fails once the request is above the limit: nothing catches it.
\* The score may have been raised all the same.
FailRequest(r) ==
  /\ guardPc[r] \in {"over", "scored", "flag"}
  /\ IF guardPc[r] = "over" THEN risk' \in {risk, risk + RiskDelta(own[r])}
                            ELSE UNCHANGED risk
  /\ guardPc' = [guardPc EXCEPT ![r] = "failed"]
  /\ UNCHANGED <<window, hits, cooldown, flagged, own, passed, blind, outrun>>

\* The key of the counter has the number of the window in it.
NextWindow ==
  /\ window < MaxWindows
  /\ window' = window + 1
  /\ UNCHANGED <<hits, risk, cooldown, flagged, guardPc, own, passed, blind,
                 outrun>>

EndCooldown ==
  /\ cooldown > 0
  /\ cooldown' = 0
  /\ UNCHANGED <<window, hits, risk, flagged, guardPc, own, passed, blind,
                 outrun>>

\* The score is kept for an hour after it was raised last, twice as long as
\* the longest cooldown, and the flag for a day.
ForgetRisk ==
  /\ cooldown = 0 /\ Scored = {}
  /\ risk > 0
  /\ risk' = 0
  /\ flagged' \in {flagged, FALSE}
  /\ UNCHANGED <<window, hits, cooldown, guardPc, own, passed, blind, outrun>>

-----------------------------------------------------------------------------
AbuseNext ==
  \/ \E r \in Arrivals :
       \/ ReadCooldown(r) \/ Count(r) \/ LoseCount(r) \/ BumpRisk(r)
       \/ SetCooldown(r) \/ SetReview(r) \/ FailRequest(r)
  \/ NextWindow \/ EndCooldown \/ ForgetRisk

AbuseSpec == AbuseInit /\ [][AbuseNext]_abuseVars

-----------------------------------------------------------------------------
(***************************************************************************)
(* Properties                                                              *)
(***************************************************************************)
AbuseTypeOK ==
  /\ window \in Windows
  /\ hits \in [Windows -> Nat]
  /\ risk \in Nat
  /\ cooldown \in {0, 2, 3, 4, 5}
  /\ flagged \in BOOLEAN
  /\ guardPc \in [Arrivals -> {"idle", "free", "over", "scored", "flag",
                               "passed", "refused", "failed"}]
  /\ own \in [Arrivals -> Nat]
  /\ passed \in [Windows -> Nat]
  /\ blind \subseteq Windows
  /\ outrun \in BOOLEAN

\* No window lets more requests through than the limit, however many come at
\* once and whether or not their cooldown has been set yet, unless the counter
\* failed in it.
LimitHoldsUnlessBlind ==
  \A w \in Windows \ blind : passed[w] <= MaxRequests

\* The cooldown in force is the one of the score, unless a request that came
\* with a lower score overtook one with a higher: the last one to write wins,
\* and shortens the cooldown.  A request that failed in between leaves the
\* score without a cooldown, and an old cooldown too short.
CooldownFitsUnlessOutrun ==
  \/ outrun \/ cooldown = 0 \/ Scored # {}
  \/ \E r \in Arrivals : guardPc[r] = "failed"
  \/ cooldown = CooldownOf(LevelOf(risk))

\* What the guard promises of a burst: few requests pass in a window, and who
\* sent it waits as long as the score says.
BurstsAreHeld == LimitHoldsUnlessBlind /\ CooldownFitsUnlessOutrun
=============================================================================

----------------------- MODULE MatchMembershipProofs ------------------------
(***************************************************************************)
(* Theorems about MatchMembership and MatchResult, for any players, any    *)
(* numbers of calls of each kind and any number of places.                 *)
(***************************************************************************)
EXTENDS MatchMembership, MatchResult, FiniteSetTheorems, TLAPS

Status == SeatStatus \union RequestStatus

\* Init establishes the types.
LEMMA InitTypeOK == Init => TypeOK
<1> SUFFICES ASSUME Init PROVE TypeOK
  OBVIOUS
<1>0. /\ ClosedMatch \in [open : BOOLEAN, autoAccept : BOOLEAN]
      /\ OpenMatch \in [open : BOOLEAN, autoAccept : BOOLEAN]
  BY Zenon DEF ClosedMatch, OpenMatch
<1>1. match \in [open : BOOLEAN, autoAccept : BOOLEAN]
  BY <1>0, Zenon DEF Init
<1>2. row \in [Rows -> SeatStatus \union RequestStatus]
  BY DEF Init, SeatStatus
<1>3. player \in [Rows -> Players \union {Nobody}]
  BY DEF Init
<1>4. NoView \in [Rows -> SeatStatus \union RequestStatus]
  BY DEF NoView, SeatStatus
<1>5. QED
  BY <1>1, <1>2, <1>3, <1>4 DEF Init, TypeOK, Stages

\* The steps that calls share keep the types.
LEMMA CallTypes ==
  ASSUME TypeOK, NEW c \in Calls,
         UNCHANGED <<match, asked, archived, snapshot>>,
         \/ Refuse(c) /\ UNCHANGED <<player, before>>
         \/ \E stage \in Stages :
              Pass(c, stage) /\ UNCHANGED <<player, before>>
         \/ \E rows \in [Rows -> Status] :
              Commit(c, rows) /\ UNCHANGED <<player, before>>
         \/ \E p \in Players \union {Nobody} :
              Start(c, p) /\ UNCHANGED <<row, rowLock, advisory>>
  PROVE  TypeOK'
<1> USE DEF TypeOK
<1>1. ASSUME Unlock(c)
      PROVE  /\ rowLock' \in Joiners \union {Nobody}
             /\ advisory' \in Invitations \union {Nobody}
  BY <1>1 DEF Unlock
<1>2. c \in Rows
  BY DEF Rows, Seats
<1>3. CASE Refuse(c) /\ UNCHANGED <<player, before>>
  BY <1>1, <1>3 DEF Refuse, Stages
<1>4. ASSUME NEW stage \in Stages, Pass(c, stage), UNCHANGED <<player, before>>
      PROVE  TypeOK'
  BY <1>4 DEF Pass
<1>5. ASSUME NEW rows \in [Rows -> Status], Commit(c, rows),
             UNCHANGED <<player, before>>
      PROVE  TypeOK'
  BY <1>1, <1>5 DEF Commit, Status, Stages
<1>6. ASSUME NEW p \in Players \union {Nobody}, Start(c, p),
             UNCHANGED <<row, rowLock, advisory>>
      PROVE  TypeOK'
  BY <1>2, <1>6 DEF Start, Stages
<1>7. QED
  BY <1>3, <1>4, <1>5, <1>6

\* Every step keeps the types.
LEMMA NextTypeOK == TypeOK /\ [Next]_vars => TypeOK'
<1> SUFFICES ASSUME TypeOK, [Next]_vars PROVE TypeOK'
  OBVIOUS
<1> USE DEF TypeOK
<1>0. Seats \subseteq Rows /\ Requests \subseteq Rows /\ Calls \subseteq Seats
  BY DEF Rows, Seats
<1>1. ASSUME NEW c \in Calls, NEW p \in Players,
             BeginJoin(c, p) \/ BeginAddition(c, p)
      PROVE  TypeOK'
  BY <1>1, CallTypes DEF BeginJoin, BeginAddition
<1>2. ASSUME NEW c \in Calls, NEW q \in Requests, ReadRequest(c, q)
      PROVE  TypeOK'
  <2>1. player[q] \in Players \union {Nobody} /\ c \in Rows
    BY <1>0
  <2>2. QED
    BY <1>2, <2>1 DEF ReadRequest, Start, Stages
<1>3. ASSUME NEW c \in Calls, RejectRequest(c)
      PROVE  TypeOK'
  <2>1. [row EXCEPT ![asked[c]] = "REJECTED"] \in [Rows -> Status]
    BY DEF Status, RequestStatus
  <2>2. QED
    BY <1>3, <2>1, CallTypes DEF RejectRequest
<1>4. ASSUME NEW c \in Calls, LockMatch(c) \/ TryLock(c)
      PROVE  TypeOK'
  <2>1. CASE LockMatch(c)
    BY <2>1 DEF LockMatch, Stages
  <2>2. CASE TryLock(c) /\ Refuse(c)
    BY <2>2, CallTypes DEF TryLock
  <2>3. CASE TryLock(c) /\ ~Refuse(c)
    BY <2>3 DEF TryLock, Stages
  <2>4. QED
    BY <1>4, <2>1, <2>2, <2>3
<1>5. ASSUME NEW c \in Calls, CheckSeat(c) \/ CheckSpace(c)
      PROVE  TypeOK'
  <2>1. "unseated" \in Stages /\ "counted" \in Stages
    BY DEF Stages
  <2>2. QED
    BY <1>5, <2>1, CallTypes DEF CheckSeat, CheckSpace
<1>6. ASSUME NEW c \in Calls, TakeSeat(c) \/ AddFriend(c)
      PROVE  TypeOK'
  <2>1. ASSUME NEW x \in {"confirmed", "pending"}
        PROVE  [row EXCEPT ![c] = x] \in [Rows -> Status]
    BY DEF Status, SeatStatus
  <2>2. QED
    BY <1>6, <2>1, CallTypes DEF TakeSeat, AddFriend
<1>7. ASSUME NEW c \in Calls, AcceptRequest(c)
      PROVE  TypeOK'
  <2>1. Accepted(c) \in [Rows -> Status]
    BY DEF Accepted, Status, SeatStatus, RequestStatus
  <2>2. QED
    BY <1>7, <2>1, CallTypes DEF AcceptRequest
<1>8. ASSUME NEW c \in Calls, Abort(c)
      PROVE  TypeOK'
  BY <1>8, CallTypes DEF Abort
<1>9. ASSUME NEW c \in Calls, TakeSnapshot(c)
      PROVE  TypeOK'
  BY <1>9 DEF TakeSnapshot, Stages
<1>10. ASSUME NEW q \in Requests, NEW p \in Players, CheckRequest(q, p)
       PROVE  TypeOK'
  BY <1>0, <1>10 DEF CheckRequest
<1>11. ASSUME NEW q \in Requests, CreateRequest(q)
       PROVE  TypeOK'
  BY <1>11 DEF CreateRequest, RequestStatus
<1>12. ASSUME NEW r \in Seats, ApproveMember(r) \/ RemoveMember(r)
       PROVE  TypeOK'
  BY <1>12 DEF ApproveMember, RemoveMember, SeatStatus
<1>13. CASE UNCHANGED vars
  BY <1>13 DEF vars
<1>14. QED
  BY <1>1, <1>2, <1>3, <1>4, <1>5, <1>6, <1>7, <1>8, <1>9, <1>10, <1>11,
     <1>12, <1>13
  DEF Next, CallStep

\* Every reachable state has the types MatchMembership declares.
THEOREM MembershipTypes == Spec => []TypeOK
  BY InitTypeOK, NextTypeOK, PTL DEF Spec

-----------------------------------------------------------------------------
(***************************************************************************)
(* The shapes of a step, as far as seats are concerned.  Every action does *)
(* one of six things to <<match, row, player, pc, snapshot, before>>.      *)
(***************************************************************************)
SeatsStay == \A r \in Seats : row'[r] = row[r]

Starts(c, p) ==
  /\ pc[c] = "idle"
  /\ c \in Joiners => match.open
  /\ c \in Additions => ~Seated(row, p)
  /\ pc' = [pc EXCEPT ![c] = "started"]
  /\ player' = [player EXCEPT ![c] = p]
  /\ before' = [before EXCEPT ![c] = {r \in Seats : Taken(row, r)}]
  /\ UNCHANGED <<match, row, snapshot>>

Counts(c) ==
  /\ pc[c] = IF c \in Joiners THEN "unseated" ELSE "locked"
  /\ ~Full(View(c))
  /\ pc' = [pc EXCEPT ![c] = "counted"]
  /\ UNCHANGED <<match, row, player, snapshot, before>>

Sits(c) ==
  /\ pc[c] = "counted"
  /\ c \in Answers => ~Seated(snapshot[c], player[c])
  /\ c \in Invitations => rowLock = Nobody
  /\ row'[c] = "confirmed"
  /\ \A r \in Seats : r # c => row'[r] = row[r]
  /\ pc' = [pc EXCEPT ![c] = "done"]
  /\ UNCHANGED <<match, player, snapshot, before>>

Moves(c, stage) ==
  /\ pc[c] \in Running
  /\ \/ stage \in {"done", "refused"}
     \/ stage = "locked" /\ (c \in Joins \/ pc[c] = "waiting")
     \/ /\ stage = "unseated"
        /\ c \in Joiners
        /\ pc[c] = "locked"
        /\ ~Seated(View(c), player[c])
  /\ SeatsStay
  /\ pc' = [pc EXCEPT ![c] = stage]
  /\ UNCHANGED <<match, player, snapshot, before>>

Leaves ==
  /\ \A r \in Seats :
       row'[r] = row[r] \/ (row[r] = "confirmed" /\ row'[r] = "removed")
  /\ \A r \in Seats : player'[r] = player[r]
  /\ UNCHANGED <<match, pc, snapshot, before>>

SeatStep ==
  \/ \E c \in Calls, p \in Players \union {Nobody} : Starts(c, p)
  \/ \E c \in Calls : TakeSnapshot(c)
  \/ \E c \in Calls : Counts(c)
  \/ \E c \in Calls : Sits(c)
  \/ \E c \in Calls, stage \in Stages : Moves(c, stage)
  \/ Leaves

\* A match is one of the two kinds, and who joins it found it open.
JoinersAreWelcome ==
  /\ match \in {ClosedMatch, OpenMatch}
  /\ \A c \in Joiners : pc[c] # "idle" => match.open

\* Every step of the match has one of the six shapes.
LEMMA StepShapes ==
  ASSUME TypeOK, NobodyWaits, JoinersAreWelcome, [Next]_vars
  PROVE  SeatStep
<1> USE DEF TypeOK
<1>0. /\ Seats \subseteq Rows
      /\ Requests \subseteq Rows
      /\ Calls \subseteq Seats
      /\ Seats \intersect Requests = {}
      /\ Joiners \intersect Invitations = {}
      /\ Answers \intersect Additions = {}
      /\ Additions \subseteq Invitations
      /\ Answers \subseteq Invitations
      /\ Joins \subseteq Joiners
      /\ Nobody \notin Rows
  BY CallsAssumption DEF Rows, Seats, Calls, Invitations, Joiners
<1>1. ASSUME NEW c \in Calls, NEW p \in Players, BeginJoin(c, p)
      PROVE  Starts(c, p)
  BY <1>0, <1>1 DEF BeginJoin, Start, Starts
<1>2. ASSUME NEW c \in Calls, NEW p \in Players, BeginAddition(c, p)
      PROVE  Starts(c, p)
  BY <1>0, <1>2 DEF BeginAddition, Start, Starts
<1>3. ASSUME NEW c \in Calls, NEW q \in Requests, ReadRequest(c, q)
      PROVE  Starts(c, player[q]) /\ player[q] \in Players \union {Nobody}
  BY <1>0, <1>3 DEF ReadRequest, Start, Starts
<1>4. ASSUME NEW c \in Calls, RejectRequest(c)
      PROVE  Moves(c, "done")
  <2>1. asked[c] \notin Seats
    BY <1>0, <1>4 DEF RejectRequest, Rows
  <2>2. SeatsStay
    BY <1>0, <1>4, <2>1 DEF RejectRequest, Commit, SeatsStay
  <2>3. QED
    BY <1>4, <2>2 DEF RejectRequest, Commit, Moves, Running, Stages
<1>5. ASSUME NEW c \in Calls, LockMatch(c)
      PROVE  Moves(c, "locked")
  BY <1>5 DEF LockMatch, Moves, SeatsStay, Running, Stages
<1>6. ASSUME NEW c \in Calls, Refuse(c), pc[c] \in Running,
             UNCHANGED <<match, player, snapshot, before>>
      PROVE  Moves(c, "refused")
  BY <1>6 DEF Refuse, Moves, SeatsStay
<1>7. ASSUME NEW c \in Calls, TryLock(c)
      PROVE  Moves(c, "locked") \/ Moves(c, "refused")
  <2>1. pc[c] \in Running
    BY <1>7 DEF TryLock, Running, Stages
  <2>2. QED
    BY <1>6, <1>7, <2>1 DEF TryLock, Moves, SeatsStay
<1>8. ASSUME NEW c \in Calls, CheckSeat(c)
      PROVE  Moves(c, "unseated") \/ Moves(c, "refused")
  <2>1. pc[c] \in Running
    BY <1>8 DEF CheckSeat, Running, Stages
  <2>2. QED
    BY <1>6, <1>8, <2>1 DEF CheckSeat, Pass, Moves, SeatsStay
<1>9. ASSUME NEW c \in Calls, CheckSpace(c)
      PROVE  Counts(c) \/ Moves(c, "refused")
  <2>1. pc[c] \in Running
    BY <1>9 DEF CheckSpace, Running, Stages
  <2>2. QED
    BY <1>6, <1>9, <2>1 DEF CheckSpace, Pass, Counts
<1>10. ASSUME NEW c \in Calls, TakeSeat(c)
       PROVE  Sits(c)
  <2>1. match.open /\ match.autoAccept
    BY <1>10 DEF TakeSeat, JoinersAreWelcome, ClosedMatch, OpenMatch
  <2>2. c \notin Answers
    BY <1>0, <1>10 DEF TakeSeat
  <2>3. QED
    BY <1>0, <1>10, <2>1, <2>2 DEF TakeSeat, Commit, Sits
<1>11. ASSUME NEW c \in Calls, AddFriend(c)
       PROVE  Sits(c)
  BY <1>0, <1>11 DEF AddFriend, Commit, Sits
<1>12. ASSUME NEW c \in Calls, AcceptRequest(c)
       PROVE  Sits(c) \/ \E stage \in Stages : Moves(c, stage)
  <2>0. /\ pc[c] \in Running
        /\ "done" \in Stages
        /\ "refused" \in Stages
    BY <1>12 DEF AcceptRequest, Running, Stages
  <2>1. asked[c] \notin Seats
    BY <1>0, <1>12 DEF AcceptRequest, Rows
  <2>2. CASE Refuse(c)
    BY <1>6, <1>12, <2>0, <2>2 DEF AcceptRequest
  <2>3. CASE Commit(c, Accepted(c)) /\ Seated(snapshot[c], player[c])
    <3>1. SeatsStay
      BY <1>0, <2>1, <2>3 DEF Commit, Accepted, SeatsStay
    <3>2. Moves(c, "done")
      BY <1>12, <2>0, <2>3, <3>1 DEF AcceptRequest, Commit, Moves
    <3>3. QED
      BY <2>0, <3>2
  <2>4. CASE Commit(c, Accepted(c)) /\ ~Seated(snapshot[c], player[c])
    BY <1>0, <1>12, <2>1, <2>4 DEF AcceptRequest, Commit, Accepted, Sits
  <2>5. QED
    BY <1>12, <2>2, <2>3, <2>4 DEF AcceptRequest
<1>13. ASSUME NEW c \in Calls, Abort(c)
       PROVE  Moves(c, "refused")
  BY <1>6, <1>13 DEF Abort
<1>14. ASSUME NEW q \in Requests, NEW p \in Players,
              CheckRequest(q, p) \/ CreateRequest(q)
       PROVE  Leaves
  BY <1>0, <1>14 DEF CheckRequest, CreateRequest, Leaves
<1>15. ASSUME NEW r \in Seats, ApproveMember(r) \/ RemoveMember(r)
       PROVE  Leaves
  BY <1>0, <1>15 DEF ApproveMember, RemoveMember, Leaves, NobodyWaits, Taken
<1>16. CASE UNCHANGED vars
  BY <1>16 DEF vars, Leaves, SeatStep
<1>17. /\ "done" \in Stages
       /\ "refused" \in Stages
       /\ "locked" \in Stages
       /\ "unseated" \in Stages
  BY DEF Stages
<1>18. ASSUME Next PROVE SeatStep
  <2>1. ASSUME NEW c \in Calls,
               \/ \E p \in Players : BeginJoin(c, p) \/ BeginAddition(c, p)
               \/ \E q \in Requests : ReadRequest(c, q)
        PROVE  SeatStep
    BY <1>1, <1>2, <1>3, <2>1 DEF SeatStep
  <2>2. ASSUME NEW c \in Calls, RejectRequest(c) \/ CallStep(c) \/ Abort(c)
        PROVE  SeatStep
    BY <1>4, <1>5, <1>7, <1>8, <1>9, <1>10, <1>11, <1>12, <1>13, <1>17, <2>2
    DEF CallStep, SeatStep
  <2>3. ASSUME \/ \E q \in Requests :
                    (\E p \in Players : CheckRequest(q, p)) \/ CreateRequest(q)
               \/ \E r \in Seats : ApproveMember(r) \/ RemoveMember(r)
        PROVE  SeatStep
    <3>1. ASSUME NEW q \in Requests, CreateRequest(q)
          PROVE  Leaves
      BY <1>0, <3>1 DEF CreateRequest, Leaves
    <3>2. QED
      BY <1>14, <1>15, <2>3, <3>1 DEF SeatStep
  <2>4. QED
    BY <1>18, <2>1, <2>2, <2>3 DEF Next
<1>19. QED
  BY <1>16, <1>18 DEF SeatStep

-----------------------------------------------------------------------------
(***************************************************************************)
(* What makes members who did not race fit.  A call's count may be of an   *)
(* old snapshot, but a snapshot is never older than the call, so it shows  *)
(* every seat that was taken before the call began and is still taken.     *)
(***************************************************************************)

\* The seats taken before a call began that are taken still.
Elders(c) == {r \in before[c] : row[r] = "confirmed"}

\* A seat is free, taken, or given up.
SeatsSettled == \A r \in Seats : row[r] \in {"none", "confirmed", "removed"}

\* A call has no seat until it has committed.
SeatsComeLast == \A c \in Calls : row[c] # "none" => pc[c] = "done"

\* The seats a call found were taken.
EldersWereSeated == \A c \in Calls : \A r \in before[c] : row[r] # "none"

\* A snapshot shows every elder of its call.
SnapshotShowsElders ==
  \A c \in Calls \ Joins :
    pc[c] \in Running \ {"started"} =>
      \A r \in Elders(c) : snapshot[c][r] = "confirmed"

\* A call that has counted leaves a place beside its elders.
CountLeavesPlace ==
  \A c \in Calls : pc[c] = "counted" => Cardinality(Elders(c)) < MaxPlayers

\* A call whose player was not found is not for a player with a seat among
\* its elders.
EldersAreOthers ==
  \A c \in Calls :
    (\/ c \in Additions /\ pc[c] \in Running
     \/ c \in Joiners /\ pc[c] \in {"unseated", "counted"})
    => \A r \in Elders(c) : player[r] # player[c]

RaceInv ==
  /\ TypeOK
  /\ SeatsSettled
  /\ JoinersAreWelcome
  /\ SeatsComeLast
  /\ EldersWereSeated
  /\ SnapshotShowsElders
  /\ CountLeavesPlace
  /\ EldersAreOthers
  /\ FitsUnlessRaced
  /\ OneSeatUnlessRaced

\* The same invariant, from the start.
LEMMA InitRace == Init => RaceInv
<1> SUFFICES ASSUME Init PROVE RaceInv
  OBVIOUS
<1>0. /\ Calls \subseteq Seats /\ Seats \subseteq Rows
      /\ Players \subseteq Seats
      /\ Calls \intersect Players = {}
      /\ Joiners \subseteq Calls
  BY CallsAssumption DEF Rows, Seats, Calls
<1>1. TypeOK
  BY InitTypeOK
<1>2. PICK F \in FirstSeats(match) :
        row = [r \in Rows |-> IF r \in F THEN "confirmed" ELSE "none"]
  BY Zenon DEF Init
<1>3. F \subseteq Players /\ IsFiniteSet(F) /\ Cardinality(F) <= MaxPlayers
  <2>1. CASE match.open
    <3>1. F \subseteq Players /\ Cardinality(F) \in 2 .. MaxPlayers - 1
      BY <2>1 DEF FirstSeats
    <3>2. IsFiniteSet(F)
      BY <1>0, <3>1, CallsAssumption, FS_Subset
    <3>3. QED
      BY <3>1, <3>2, MatchAssumption
  <2>2. CASE ~match.open
    <3>1. F = {Organiser}
      BY <2>2 DEF FirstSeats
    <3>2. IsFiniteSet(F) /\ Cardinality(F) = 1
      BY <3>1, FS_Singleton
    <3>3. QED
      BY <3>1, <3>2, MatchAssumption
  <2>3. QED
    BY <2>1, <2>2
<1>4. \A r \in Seats : row[r] = IF r \in F THEN "confirmed" ELSE "none"
  BY <1>0, <1>2
<1>5. /\ \A c \in Calls : row[c] = "none" /\ pc[c] = "idle" /\ before[c] = {}
      /\ \A r \in Players : player[r] = r
  BY <1>0, <1>3, <1>4 DEF Init
<1>6. JoinersAreWelcome /\ SeatsSettled
  BY <1>0, <1>4, <1>5 DEF Init, JoinersAreWelcome, SeatsSettled
<1>7. SeatsComeLast /\ EldersWereSeated /\ SnapshotShowsElders
      /\ CountLeavesPlace /\ EldersAreOthers
  BY <1>0, <1>5 DEF SeatsComeLast, EldersWereSeated, SnapshotShowsElders,
                  CountLeavesPlace, EldersAreOthers, Running, Elders,
                  Invitations, Calls
<1>8. FitsUnlessRaced
  <2>1. ASSUME NEW T \in SUBSET Confirmed(row)
        PROVE  Cardinality(T) <= MaxPlayers
    <3>1. T \subseteq F
      BY <1>4 DEF Confirmed
    <3>2. /\ Cardinality(T) <= Cardinality(F)
          /\ Cardinality(T) \in Nat /\ Cardinality(F) \in Nat
      BY <1>3, <3>1, FS_Subset, FS_CardinalityType
    <3>3. QED
      BY <1>3, <3>2, MatchAssumption
  <2>2. QED
    BY <2>1 DEF FitsUnlessRaced
<1>9. OneSeatUnlessRaced
  BY <1>3, <1>4, <1>5 DEF OneSeatUnlessRaced, Taken
<1>10. QED
  BY <1>1, <1>6, <1>7, <1>8, <1>9 DEF RaceInv

\* The plain conjuncts survive every step.
LEMMA SeatsKept ==
  ASSUME RaceInv, SeatStep
  PROVE  /\ SeatsSettled'
         /\ JoinersAreWelcome'
         /\ SeatsComeLast'
         /\ EldersWereSeated'
<1> USE DEF RaceInv, TypeOK
<1>0. Calls \subseteq Seats /\ Joiners \subseteq Calls /\ Seats \subseteq Rows
  BY DEF Seats, Calls, Rows
<1>1. ASSUME NEW c \in Calls, NEW p \in Players \union {Nobody}, Starts(c, p)
      PROVE  /\ SeatsSettled' /\ JoinersAreWelcome'
             /\ SeatsComeLast' /\ EldersWereSeated'
  BY <1>0, <1>1 DEF Starts, SeatsSettled, JoinersAreWelcome, SeatsComeLast,
                  EldersWereSeated, Taken
<1>2. ASSUME NEW c \in Calls, TakeSnapshot(c) \/ Counts(c)
      PROVE  /\ SeatsSettled' /\ JoinersAreWelcome'
             /\ SeatsComeLast' /\ EldersWereSeated'
  BY <1>0, <1>2 DEF TakeSnapshot, Counts, SeatsSettled, JoinersAreWelcome,
                  SeatsComeLast, EldersWereSeated
<1>3. ASSUME NEW c \in Calls, Sits(c)
      PROVE  /\ SeatsSettled' /\ JoinersAreWelcome'
             /\ SeatsComeLast' /\ EldersWereSeated'
  BY <1>0, <1>3 DEF Sits, SeatsSettled, JoinersAreWelcome, SeatsComeLast,
                  EldersWereSeated
<1>4. ASSUME NEW c \in Calls, NEW stage \in Stages, Moves(c, stage)
      PROVE  /\ SeatsSettled' /\ JoinersAreWelcome'
             /\ SeatsComeLast' /\ EldersWereSeated'
  BY <1>0, <1>4 DEF Moves, SeatsStay, Running, SeatsSettled, JoinersAreWelcome,
                  SeatsComeLast, EldersWereSeated
<1>5. ASSUME Leaves
      PROVE  /\ SeatsSettled' /\ JoinersAreWelcome'
             /\ SeatsComeLast' /\ EldersWereSeated'
  BY <1>0, <1>5 DEF Leaves, SeatsSettled, JoinersAreWelcome, SeatsComeLast,
                  EldersWereSeated
<1>6. QED
  BY <1>1, <1>2, <1>3, <1>4, <1>5 DEF SeatStep

\* The elders of a call that has begun only ever leave.
LEMMA EldersOnlyLeave ==
  ASSUME RaceInv, SeatStep, NEW d \in Calls, pc[d] # "idle"
  PROVE  /\ Elders(d)' \subseteq Elders(d)
         /\ player'[d] = player[d]
         /\ \A r \in Elders(d) : player'[r] = player[r]
<1> USE DEF RaceInv, TypeOK, Elders
<1>0. /\ Calls \subseteq Seats /\ Seats \subseteq Rows
      /\ before[d] \subseteq Seats
  BY DEF Seats, Calls, Rows
<1>1. ASSUME NEW c \in Calls, NEW p \in Players \union {Nobody}, Starts(c, p)
      PROVE  /\ Elders(d)' \subseteq Elders(d)
             /\ player'[d] = player[d]
             /\ \A r \in Elders(d) : player'[r] = player[r]
  BY <1>0, <1>1 DEF Starts, SeatsComeLast
<1>2. ASSUME NEW c \in Calls, TakeSnapshot(c) \/ Counts(c)
      PROVE  /\ Elders(d)' \subseteq Elders(d) /\ player' = player
  BY <1>2 DEF TakeSnapshot, Counts
<1>3. ASSUME NEW c \in Calls, Sits(c)
      PROVE  /\ Elders(d)' \subseteq Elders(d) /\ player' = player
  <2>1. row[c] = "none"
    BY <1>3 DEF Sits, SeatsComeLast
  <2>2. c \notin before[d]
    BY <2>1 DEF EldersWereSeated
  <2>3. QED
    BY <1>0, <1>3, <2>2 DEF Sits
<1>4. ASSUME NEW c \in Calls, NEW stage \in Stages, Moves(c, stage)
      PROVE  /\ Elders(d)' \subseteq Elders(d) /\ player' = player
  BY <1>0, <1>4 DEF Moves, SeatsStay
<1>5. ASSUME Leaves
      PROVE  /\ Elders(d)' \subseteq Elders(d)
             /\ \A r \in Seats : player'[r] = player[r]
  BY <1>0, <1>5 DEF Leaves
<1>6. QED
  BY <1>0, <1>1, <1>2, <1>3, <1>4, <1>5 DEF SeatStep

\* A snapshot goes on showing the elders of its call.
LEMMA SnapshotKept ==
  ASSUME RaceInv, SeatStep
  PROVE  SnapshotShowsElders'
<1> USE DEF RaceInv, TypeOK
<1> SUFFICES ASSUME NEW d \in Calls \ Joins,
                    pc'[d] \in Running \ {"started"},
                    NEW r \in Elders(d)'
             PROVE  snapshot'[d][r] = "confirmed"
  BY DEF SnapshotShowsElders
<1>0. /\ pc[d] \in Running /\ pc[d] # "idle"
      /\ \/ pc[d] # "started" /\ snapshot'[d] = snapshot[d]
         \/ pc[d] = "started" /\ TakeSnapshot(d)
  <2>1. ASSUME NEW c \in Calls, NEW p \in Players \union {Nobody}, Starts(c, p)
        PROVE  pc[d] \in Running \ {"started"} /\ snapshot' = snapshot
    BY <2>1 DEF Starts, Running, Stages
  <2>2. ASSUME NEW c \in Calls, TakeSnapshot(c)
        PROVE  \/ pc[d] \in Running \ {"started"} /\ snapshot'[d] = snapshot[d]
               \/ pc[d] = "started" /\ TakeSnapshot(d)
    BY <2>2 DEF TakeSnapshot
  <2>3. ASSUME NEW c \in Calls, Counts(c) \/ Sits(c)
        PROVE  pc[d] \in Running \ {"started"} /\ snapshot' = snapshot
    BY <2>3 DEF Counts, Sits, Running, Stages
  <2>4. ASSUME NEW c \in Calls, NEW stage \in Stages, Moves(c, stage)
        PROVE  pc[d] \in Running \ {"started"} /\ snapshot' = snapshot
    BY <2>4 DEF Moves, Running, Stages
  <2>5. ASSUME Leaves
        PROVE  pc[d] \in Running \ {"started"} /\ snapshot' = snapshot
    BY <2>5 DEF Leaves
  <2>6. QED
    BY <2>1, <2>2, <2>3, <2>4, <2>5 DEF SeatStep, Running, Stages
<1>1. r \in Elders(d)
  BY <1>0, EldersOnlyLeave
<1>2. CASE pc[d] # "started" /\ snapshot'[d] = snapshot[d]
  BY <1>0, <1>1, <1>2 DEF SnapshotShowsElders
<1>3. CASE TakeSnapshot(d)
  BY <1>1, <1>3 DEF TakeSnapshot, Elders
<1>4. QED
  BY <1>0, <1>2, <1>3

\* What a call saw when it looked, it saw of its elders too.
LEMMA ViewShowsElders ==
  ASSUME RaceInv, NEW c \in Calls, pc[c] \in {"waiting", "locked", "unseated"}
  PROVE  \A r \in Elders(c) : r \in Seats /\ View(c)[r] = "confirmed"
<1> USE DEF RaceInv, TypeOK
<1>1. CASE c \in Joins
  BY <1>1 DEF View, Elders
<1>2. CASE c \notin Joins
  BY <1>2 DEF View, Elders, SnapshotShowsElders, Running, Stages
<1>3. QED
  BY <1>1, <1>2

\* The elders of a call can be counted.
LEMMA EldersFinite ==
  ASSUME RaceInv, NEW c \in Calls
  PROVE  IsFiniteSet(Elders(c)) /\ Cardinality(Elders(c)) \in Nat
<1>1. Elders(c) \subseteq Seats
  BY DEF RaceInv, TypeOK, Elders
<1>2. QED
  BY <1>1, CallsAssumption, FS_Subset, FS_CardinalityType

\* A call that counts leaves a place beside its elders, and keeps it.
LEMMA CountKept ==
  ASSUME RaceInv, SeatStep
  PROVE  CountLeavesPlace'
<1> USE DEF RaceInv, TypeOK
<1> SUFFICES ASSUME NEW d \in Calls, pc'[d] = "counted"
             PROVE  Cardinality(Elders(d)') < MaxPlayers
  BY DEF CountLeavesPlace
<1>0. pc[d] # "idle" /\ (pc[d] = "counted" \/ Counts(d))
  <2>1. ASSUME NEW c \in Calls, NEW p \in Players \union {Nobody}, Starts(c, p)
        PROVE  pc[d] = "counted"
    BY <2>1 DEF Starts
  <2>2. ASSUME NEW c \in Calls, TakeSnapshot(c)
        PROVE  pc[d] = "counted"
    BY <2>2 DEF TakeSnapshot
  <2>3. ASSUME NEW c \in Calls, Counts(c)
        PROVE  pc[d] # "idle" /\ (pc[d] = "counted" \/ Counts(d))
    BY <2>3 DEF Counts
  <2>4. ASSUME NEW c \in Calls, Sits(c)
        PROVE  pc[d] = "counted"
    BY <2>4 DEF Sits
  <2>5. ASSUME NEW c \in Calls, NEW stage \in Stages, Moves(c, stage)
        PROVE  pc[d] = "counted"
    BY <2>5 DEF Moves
  <2>6. ASSUME Leaves PROVE pc[d] = "counted"
    BY <2>6 DEF Leaves
  <2>7. QED
    BY <2>1, <2>2, <2>3, <2>4, <2>5, <2>6 DEF SeatStep
<1>1. Elders(d)' \subseteq Elders(d)
  BY <1>0, EldersOnlyLeave
<1>2. Cardinality(Elders(d)) < MaxPlayers
  <2>1. CASE pc[d] = "counted"
    BY <2>1 DEF CountLeavesPlace
  <2>2. CASE Counts(d)
    <3>1. Elders(d) \subseteq Confirmed(View(d))
      BY <2>2, ViewShowsElders DEF Counts, Confirmed
    <3>2. IsFiniteSet(Confirmed(View(d)))
      BY CallsAssumption, FS_Subset DEF Confirmed
    <3>3. /\ Cardinality(Elders(d)) <= Cardinality(Confirmed(View(d)))
          /\ Cardinality(Elders(d)) \in Nat
          /\ Cardinality(Confirmed(View(d))) \in Nat
      BY <3>1, <3>2, FS_Subset, FS_CardinalityType
    <3>4. Cardinality(Confirmed(View(d))) < MaxPlayers
      BY <2>2, <3>3, MatchAssumption DEF Counts, Full
    <3>5. QED
      BY <3>3, <3>4, MatchAssumption
  <2>3. QED
    BY <1>0, <2>1, <2>2
<1>3. /\ Cardinality(Elders(d)') <= Cardinality(Elders(d))
      /\ Cardinality(Elders(d)') \in Nat
      /\ Cardinality(Elders(d)) \in Nat
  BY <1>1, EldersFinite, FS_Subset, FS_CardinalityType
<1>4. QED
  BY <1>2, <1>3, MatchAssumption

\* A call whose player was not found has no elder of the same player.
LEMMA OthersKept ==
  ASSUME RaceInv, SeatStep
  PROVE  EldersAreOthers'
<1> USE DEF RaceInv, TypeOK
<1> DEFINE Looked(d) == \/ d \in Additions /\ pc[d] \in Running
                        \/ d \in Joiners /\ pc[d] \in {"unseated", "counted"}
<1> SUFFICES ASSUME NEW d \in Calls, Looked(d)', NEW r \in Elders(d)'
             PROVE  player'[r] # player'[d]
  BY DEF EldersAreOthers
<1>0. Calls \subseteq Seats /\ Seats \subseteq Rows
  BY DEF Seats, Calls, Rows
<1>1. CASE pc[d] = "idle"
  <2>1. PICK p \in Players \union {Nobody} : Starts(d, p)
    BY <1>1 DEF SeatStep, Starts, TakeSnapshot, Counts, Sits, Moves, Leaves,
             Running, Stages
  <2>2. d \in Additions
    BY <2>1 DEF Starts
  <2>3. r \in Seats /\ Taken(row, r)
    BY <2>1 DEF Starts, Elders
  <2>4. r # d
    BY <1>1, <2>3 DEF SeatsComeLast, Taken
  <2>5. QED
    BY <1>0, <2>1, <2>2, <2>3, <2>4 DEF Starts, Seated
<1>2. CASE pc[d] # "idle"
  <2>1. /\ r \in Elders(d)
        /\ player'[r] = player[r]
        /\ player'[d] = player[d]
    BY <1>2, EldersOnlyLeave
  <2>2. CASE Looked(d)
    BY <2>1, <2>2 DEF EldersAreOthers
  <2>3. CASE ~Looked(d)
    <3>1. /\ pc[d] = "locked"
          /\ ~Seated(View(d), player[d])
      BY <1>2, <2>3, CallsAssumption
      DEF SeatStep, Starts, TakeSnapshot, Counts, Sits, Moves, Leaves,
          Running, Stages, Invitations
    <3>2. r \in Seats /\ Taken(View(d), r)
      BY <2>1, <3>1, ViewShowsElders DEF Taken
    <3>3. QED
      BY <2>1, <3>1, <3>2 DEF Seated
  <2>4. QED
    BY <2>2, <2>3
<1>3. QED
  BY <1>1, <1>2

\* Seats that are taken later were taken before, or have just been taken by
\* a call: and then every other one that did not race it is an elder of it.
LEMMA NewSeat ==
  ASSUME RaceInv, SeatStep
  PROVE  \/ /\ Confirmed(row)' \subseteq Confirmed(row)
            /\ \A r, s \in Confirmed(row)' :
                 /\ player'[r] = player[r]
                 /\ Ordered(r, s)' => Ordered(r, s)
         \/ \E c \in Calls :
              /\ Sits(c)
              /\ \A r \in Confirmed(row)' \ {c} :
                   Ordered(r, c)' \/ Ordered(c, r)' => r \in Elders(c)
<1> USE DEF RaceInv, TypeOK
<1>0. /\ Calls \subseteq Seats /\ Seats \subseteq Rows
      /\ Calls \intersect Players = {}
  BY CallsAssumption DEF Seats, Calls, Rows
<1>1. ASSUME NEW c \in Calls, NEW p \in Players \union {Nobody}, Starts(c, p)
      PROVE  /\ Confirmed(row)' \subseteq Confirmed(row)
             /\ \A r, s \in Confirmed(row)' :
                  player'[r] = player[r] /\ (Ordered(r, s)' => Ordered(r, s))
  BY <1>0, <1>1 DEF Starts, Confirmed, Ordered, SeatsComeLast
<1>2. ASSUME NEW c \in Calls, TakeSnapshot(c) \/ Counts(c)
      PROVE  /\ Confirmed(row)' \subseteq Confirmed(row)
             /\ \A r, s \in Confirmed(row)' :
                  player'[r] = player[r] /\ (Ordered(r, s)' => Ordered(r, s))
  BY <1>2 DEF TakeSnapshot, Counts, Confirmed, Ordered
<1>3. ASSUME NEW c \in Calls, Sits(c)
      PROVE  \A r \in Confirmed(row)' \ {c} :
               Ordered(r, c)' \/ Ordered(c, r)' => r \in Elders(c)
  <2>1. row[c] = "none"
    BY <1>3 DEF Sits, SeatsComeLast
  <2>2. \A r \in Calls : c \notin before[r]
    BY <2>1 DEF EldersWereSeated
  <2>3. QED
    BY <1>0, <1>3, <2>2 DEF Sits, Confirmed, Ordered, Elders
<1>4. ASSUME NEW c \in Calls, NEW stage \in Stages, Moves(c, stage)
      PROVE  /\ Confirmed(row)' \subseteq Confirmed(row)
             /\ \A r, s \in Confirmed(row)' :
                  player'[r] = player[r] /\ (Ordered(r, s)' => Ordered(r, s))
  BY <1>4 DEF Moves, SeatsStay, Confirmed, Ordered
<1>5. ASSUME Leaves
      PROVE  /\ Confirmed(row)' \subseteq Confirmed(row)
             /\ \A r, s \in Confirmed(row)' :
                  player'[r] = player[r] /\ (Ordered(r, s)' => Ordered(r, s))
  BY <1>5 DEF Leaves, Confirmed, Ordered
<1>6. QED
  BY <1>1, <1>2, <1>3, <1>4, <1>5 DEF SeatStep

\* Members who did not race one another go on fitting.
LEMMA FitsKept ==
  ASSUME RaceInv, SeatStep
  PROVE  FitsUnlessRaced'
<1> SUFFICES ASSUME NEW T \in SUBSET Confirmed(row)',
                    \A r, s \in T : r # s => Ordered(r, s)'
             PROVE  Cardinality(T) <= MaxPlayers
  BY DEF FitsUnlessRaced
<1>1. CASE T \subseteq Confirmed(row) /\ \A r, s \in T : r # s => Ordered(r, s)
  BY <1>1 DEF RaceInv, FitsUnlessRaced
<1>2. ASSUME NEW c \in Calls, Sits(c),
             \A r \in Confirmed(row)' \ {c} :
               Ordered(r, c)' \/ Ordered(c, r)' => r \in Elders(c)
      PROVE  Cardinality(T) <= MaxPlayers
  <2>1. CASE c \in T
    <3>1. T \ {c} \subseteq Elders(c)
      BY <1>2, <2>1
    <3>2. /\ IsFiniteSet(T \ {c})
          /\ Cardinality(T \ {c}) <= Cardinality(Elders(c))
      BY <3>1, EldersFinite, FS_Subset
    <3>3. Cardinality(Elders(c)) < MaxPlayers
      BY <1>2 DEF Sits, RaceInv, CountLeavesPlace
    <3>4. Cardinality(T) = Cardinality(T \ {c}) + 1
      <4>1. T = (T \ {c}) \union {c} /\ c \notin T \ {c}
        BY <2>1
      <4>2. QED
        BY <3>2, <4>1, FS_AddElement
    <3>5. Cardinality(T \ {c}) \in Nat /\ Cardinality(Elders(c)) \in Nat
      BY <3>2, EldersFinite, FS_CardinalityType
    <3>6. QED
      BY <3>2, <3>3, <3>4, <3>5, MatchAssumption
  <2>2. CASE c \notin T
    <3>1. T \subseteq Confirmed(row) /\ \A r, s \in T : r # s => Ordered(r, s)
      BY <1>2, <2>2 DEF Sits, Confirmed, Ordered
    <3>2. QED
      BY <1>1, <3>1
  <2>3. QED
    BY <2>1, <2>2
<1>3. QED
  BY <1>1, <1>2, NewSeat

\* Seats of one player that did not race one another stay one.
LEMMA OneSeatKept ==
  ASSUME RaceInv, SeatStep
  PROVE  OneSeatUnlessRaced'
<1> USE DEF RaceInv, TypeOK
<1>0. SeatsSettled'
  BY SeatsKept
<1> SUFFICES ASSUME NEW r \in Confirmed(row)', NEW s \in Confirmed(row)',
                    r # s, Ordered(r, s)'
             PROVE  player'[r] # player'[s]
  BY <1>0 DEF OneSeatUnlessRaced, SeatsSettled, Taken, Confirmed
<1>1. CASE /\ Confirmed(row)' \subseteq Confirmed(row)
           /\ player'[r] = player[r] /\ player'[s] = player[s]
           /\ Ordered(r, s)
  BY <1>1 DEF OneSeatUnlessRaced, Confirmed, Taken
<1>2. ASSUME NEW c \in Calls, Sits(c),
             \A x \in Confirmed(row)' \ {c} :
               Ordered(x, c)' \/ Ordered(c, x)' => x \in Elders(c)
      PROVE  player'[r] # player'[s]
  <2>1. ASSUME NEW x \in Elders(c) PROVE player[x] # player[c]
    <3>1. CASE c \in Answers
      <4>1. x \in Seats /\ Taken(snapshot[c], x)
        BY <1>2, <3>1, CallsAssumption
        DEF Sits, Joiners, Invitations, SnapshotShowsElders, Elders, Running,
            Stages, Taken
      <4>2. QED
        BY <1>2, <3>1, <4>1 DEF Sits, Seated
    <3>2. CASE c \notin Answers
      BY <1>2, <3>2
      DEF Sits, EldersAreOthers, Calls, Joiners, Invitations, Running, Stages
    <3>3. QED
      BY <3>1, <3>2
  <2>2. CASE r = c
    BY <1>2, <2>1, <2>2 DEF Sits
  <2>3. CASE s = c
    BY <1>2, <2>1, <2>3 DEF Sits
  <2>4. CASE r # c /\ s # c
    BY <1>1, <1>2, <2>4 DEF Sits, Confirmed, Ordered, OneSeatUnlessRaced, Taken
  <2>5. QED
    BY <2>2, <2>3, <2>4
<1>3. QED
  BY <1>1, <1>2, NewSeat

\* Every step keeps the invariant.
LEMMA RaceKept == RaceInv /\ [Next]_vars => RaceInv'
<1> SUFFICES ASSUME RaceInv, [Next]_vars PROVE RaceInv'
  OBVIOUS
<1>1. TypeOK /\ JoinersAreWelcome /\ NobodyWaits
  BY DEF RaceInv, SeatsSettled, NobodyWaits
<1>2. SeatStep
  BY <1>1, StepShapes
<1>3. TypeOK'
  BY <1>1, NextTypeOK
<1>4. QED
  BY <1>2, <1>3, SeatsKept, SnapshotKept, CountKept, OthersKept, FitsKept,
     OneSeatKept
  DEF RaceInv

\* Nobody who joins is left waiting for an approval, so that approveMember,
\* which does not count, never adds a confirmed member.
THEOREM NobodyIsKeptWaiting == Spec => []NobodyWaits
<1>1. RaceInv => NobodyWaits
  BY DEF RaceInv, SeatsSettled, NobodyWaits
<1>2. QED
  BY <1>1, InitRace, RaceKept, PTL DEF Spec

\* A match is overfull only through calls that ran at once.
THEOREM OnlyRacesOverfill == Spec => []FitsUnlessRaced
<1>1. RaceInv => FitsUnlessRaced
  BY DEF RaceInv
<1>2. QED
  BY <1>1, InitRace, RaceKept, PTL DEF Spec

\* A player has two places only through calls that ran at once.
THEOREM OnlyRacesSeatTwice == Spec => []OneSeatUnlessRaced
<1>1. RaceInv => OneSeatUnlessRaced
  BY DEF RaceInv
<1>2. QED
  BY <1>1, InitRace, RaceKept, PTL DEF Spec

-----------------------------------------------------------------------------
(***************************************************************************)
(* Requests.  An answer is about the player who asked; a seat its snapshot *)
(* shows may have been given up since, but nobody else has come by it.     *)
(***************************************************************************)
Kept(r) == row[r] \in {"confirmed", "removed"}

RequestsAreNamed ==
  \A q \in Requests : row[q] # "none" => player[q] # Nobody

AnswersFollowRequests ==
  \A a \in Answers : pc[a] # "idle" =>
    /\ asked[a] \in Requests
    /\ row[asked[a]] # "none"
    /\ player[a] = player[asked[a]]

SnapshotSeatsAreKept ==
  \A c \in Calls \ Joins, r \in Seats : Taken(snapshot[c], r) => Kept(r)

RequestInv ==
  /\ RaceInv
  /\ RequestsAreNamed
  /\ AnswersFollowRequests
  /\ SnapshotSeatsAreKept
  /\ AcceptedGotSeat

RequestsStay ==
  /\ \A q \in Requests : row'[q] = row[q] /\ player'[q] = player[q]
  /\ asked' = asked

\* A player who has come by a seat keeps it or gives it up.
LEMMA KeptSeatsStay ==
  ASSUME RaceInv, [Next]_vars, NEW r \in Seats, Kept(r)
  PROVE  Kept(r)' /\ player'[r] = player[r]
<1>1. SeatStep
  BY StepShapes DEF RaceInv, SeatsSettled, NobodyWaits
<1>2. r \in Calls => pc[r] = "done"
  BY DEF RaceInv, SeatsComeLast, Kept
<1>3. ASSUME NEW c \in Calls, NEW p \in Players \union {Nobody}, Starts(c, p)
      PROVE  Kept(r)' /\ player'[r] = player[r]
  BY <1>2, <1>3 DEF Starts, Kept, RaceInv, TypeOK
<1>4. ASSUME NEW c \in Calls, TakeSnapshot(c) \/ Counts(c) \/ Sits(c)
      PROVE  Kept(r)' /\ player'[r] = player[r]
  BY <1>4 DEF TakeSnapshot, Counts, Sits, Kept
<1>5. ASSUME NEW c \in Calls, NEW stage \in Stages, Moves(c, stage)
      PROVE  Kept(r)' /\ player'[r] = player[r]
  BY <1>5 DEF Moves, SeatsStay, Kept
<1>6. CASE Leaves
  BY <1>6 DEF Leaves, Kept
<1>7. QED
  BY <1>1, <1>3, <1>4, <1>5, <1>6 DEF SeatStep

\* Which steps touch a request, and how.
LEMMA RequestShapes ==
  ASSUME RaceInv, [Next]_vars
  PROVE  \/ RequestsStay
         \/ \E a \in Answers, q \in Requests : ReadRequest(a, q)
         \/ \E a \in Answers : RejectRequest(a) \/ AcceptRequest(a)
         \/ \E q \in Requests :
              (\E p \in Players : CheckRequest(q, p)) \/ CreateRequest(q)
<1> USE DEF RequestsStay
<1>0. /\ Seats \intersect Requests = {}
      /\ Calls \subseteq Seats
      /\ row \in [Rows -> Status]
         /\ player \in [Rows -> Players \union {Nobody}]
      /\ Requests \subseteq Rows
  BY CallsAssumption DEF RaceInv, TypeOK, Status, Rows, Seats
<1>1. ASSUME NEW c \in Calls, NEW p \in Players,
             BeginJoin(c, p) \/ BeginAddition(c, p)
      PROVE  RequestsStay
  BY <1>0, <1>1 DEF BeginJoin, BeginAddition, Start
<1>2. ASSUME NEW c \in Calls,
             \/ LockMatch(c) \/ CheckSeat(c) \/ TakeSnapshot(c)
             \/ CheckSpace(c) \/ TryLock(c) \/ Abort(c)
      PROVE  RequestsStay
  BY <1>2 DEF LockMatch, CheckSeat, TakeSnapshot, CheckSpace, TryLock, Abort,
              Refuse, Pass
<1>3. ASSUME NEW c \in Calls, TakeSeat(c) \/ AddFriend(c)
      PROVE  RequestsStay
  BY <1>0, <1>3 DEF TakeSeat, AddFriend, Commit
<1>4. ASSUME NEW r \in Seats, ApproveMember(r) \/ RemoveMember(r)
      PROVE  RequestsStay
  BY <1>0, <1>4 DEF ApproveMember, RemoveMember
<1>5. CASE UNCHANGED vars
  BY <1>5 DEF vars
<1>6. \A c \in Calls :
        /\ AcceptRequest(c) \/ RejectRequest(c) => c \in Answers
        /\ \A q \in Requests : ReadRequest(c, q) => c \in Answers
  BY DEF AcceptRequest, RejectRequest, ReadRequest
<1>7. QED
  BY <1>1, <1>2, <1>3, <1>4, <1>5, <1>6 DEF Next, CallStep

\* An answer that accepts leaves the player with a seat.
LEMMA AcceptedSeat ==
  ASSUME RequestInv, [Next]_vars, NEW a \in Answers, AcceptRequest(a),
         row[asked[a]] = snapshot[a][asked[a]]
  PROVE  \E r \in Seats : Kept(r)' /\ player'[r] = player[asked[a]]
<1>0. a \in Calls \ Joins /\ a \in Seats /\ a \in Rows /\ a \notin Requests
  BY CallsAssumption DEF Calls, Invitations, Seats, Rows, Joiners
<1>1. /\ asked[a] \in Requests /\ player[a] = player[asked[a]]
      /\ player' = player /\ row' = Accepted(a)
  BY DEF AcceptRequest, Commit, RequestInv, AnswersFollowRequests
<1>2. CASE Seated(snapshot[a], player[a])
  <2>1. PICK r \in Seats : Taken(snapshot[a], r) /\ player[r] = player[a]
    BY <1>2 DEF Seated
  <2>2. Kept(r)
    BY <1>0, <2>1 DEF RequestInv, SnapshotSeatsAreKept
  <2>3. Kept(r)' /\ player'[r] = player[r]
    BY <2>2, KeptSeatsStay DEF RequestInv
  <2>4. QED
    BY <1>1, <2>1, <2>3
<1>3. CASE ~Seated(snapshot[a], player[a])
  <2>1. row'[a] = "confirmed"
    BY <1>0, <1>1, <1>3 DEF Accepted, RequestInv, RaceInv, TypeOK
  <2>2. QED
    BY <1>0, <1>1, <2>1 DEF Kept
<1>4. QED
  BY <1>2, <1>3

\* Every step keeps the invariant.
LEMMA RequestsKept == RequestInv /\ [Next]_vars => RequestInv'
<1> SUFFICES ASSUME RequestInv, [Next]_vars PROVE RequestInv'
  OBVIOUS
<1>0. /\ Answers \subseteq Calls \ Joins /\ Calls \subseteq Seats
      /\ Seats \subseteq Rows /\ Requests \subseteq Rows
      /\ Seats \intersect Requests = {} /\ Players \subseteq Seats
      /\ Nobody \notin Rows
  BY CallsAssumption DEF Calls, Invitations, Seats, Rows, Joiners
<1>1. RaceInv'
  BY RaceKept DEF RequestInv
<1>2. TypeOK
  BY DEF RequestInv, RaceInv
<1>3. \A r \in Seats : Kept(r) => Kept(r)' /\ player'[r] = player[r]
  BY KeptSeatsStay DEF RequestInv
<1>4. SnapshotSeatsAreKept'
  <2>1. \A r \in Seats : Taken(row, r) => Kept(r)
    BY DEF RequestInv, RaceInv, SeatsSettled, Taken, Kept
  <2>2. \A c \in Calls \ Joins : snapshot'[c] \in {snapshot[c], row}
    <3>1. SeatStep
      BY StepShapes DEF RequestInv, RaceInv, SeatsSettled, NobodyWaits
    <3>2. ASSUME NEW d \in Calls, TakeSnapshot(d)
          PROVE  \A c \in Calls \ Joins : snapshot'[c] \in {snapshot[c], row}
      BY <1>2, <3>2 DEF TakeSnapshot, TypeOK
    <3>3. (~\E d \in Calls : TakeSnapshot(d)) => UNCHANGED snapshot
      BY <3>1 DEF SeatStep, Starts, Counts, Sits, Moves, Leaves
    <3>4. QED
      BY <3>2, <3>3
  <2>3. QED
    BY <1>3, <2>1, <2>2 DEF RequestInv, SnapshotSeatsAreKept, Taken
\* What happens to a request that is there.
<1>5. \A q \in Requests : row[q] # "none" =>
        /\ row'[q] # "none" /\ player'[q] = player[q]
        /\ row'[q] = "ACCEPTED" =>
             \/ row[q] = "ACCEPTED"
             \/ \E r \in Seats : Kept(r)' /\ player'[r] = player[q]
  <2> SUFFICES ASSUME NEW q \in Requests, row[q] # "none"
               PROVE  /\ row'[q] # "none" /\ player'[q] = player[q]
                      /\ row'[q] = "ACCEPTED" =>
                           \/ row[q] = "ACCEPTED"
                           \/ \E r \in Seats :
                                Kept(r)' /\ player'[r] = player[q]
    OBVIOUS
  <2>1. CASE RequestsStay
    BY <2>1 DEF RequestsStay
  <2>2. ASSUME NEW a \in Answers, NEW o \in Requests, ReadRequest(a, o)
        PROVE  row'[q] = row[q] /\ player'[q] = player[q]
    BY <1>0, <1>2, <2>2 DEF ReadRequest, Start, TypeOK
  <2>3. ASSUME NEW a \in Answers, RejectRequest(a)
        PROVE  row'[q] \in {row[q], "REJECTED"} /\ player'[q] = player[q]
    BY <1>0, <1>2, <2>3 DEF RejectRequest, Commit, TypeOK
  <2>4. ASSUME NEW a \in Answers, AcceptRequest(a)
        PROVE  /\ row'[q] # "none" /\ player'[q] = player[q]
               /\ row'[q] = "ACCEPTED" =>
                    \/ row[q] = "ACCEPTED"
                    \/ \E r \in Seats : Kept(r)' /\ player'[r] = player[q]
    <3>1. CASE row[asked[a]] = snapshot[a][asked[a]]
      <4>1. /\ row' = Accepted(a) /\ player' = player
        BY <2>4, <3>1 DEF AcceptRequest, Commit
      <4>2. q # asked[a] => row'[q] = row[q]
        BY <1>0, <1>2, <4>1 DEF Accepted, TypeOK
      <4>3. q = asked[a] => row'[q] = "ACCEPTED"
        BY <1>0, <1>2, <4>1 DEF Accepted, TypeOK
      <4>4. q = asked[a] => \E r \in Seats : Kept(r)' /\ player'[r] = player[q]
        BY <2>4, <3>1, AcceptedSeat
      <4>5. QED
        BY <4>1, <4>2, <4>3, <4>4
    <3>2. CASE row[asked[a]] # snapshot[a][asked[a]]
      BY <2>4, <3>2 DEF AcceptRequest, Refuse
    <3>3. QED
      BY <3>1, <3>2
  <2>5. ASSUME NEW o \in Requests,
               (\E p \in Players : CheckRequest(o, p)) \/ CreateRequest(o)
        PROVE  row'[q] = row[q] /\ player'[q] = player[q]
    BY <1>0, <1>2, <2>5 DEF CheckRequest, CreateRequest, TypeOK
  <2>6. QED
    BY <2>1, <2>2, <2>3, <2>4, <2>5, RequestShapes DEF RequestInv
<1>6. \A q \in Requests : row[q] = "none" /\ row'[q] # "none" =>
        row'[q] = "PENDING" /\ player'[q] # Nobody
  <2> SUFFICES ASSUME NEW q \in Requests, row[q] = "none", row'[q] # "none"
               PROVE  row'[q] = "PENDING" /\ player'[q] # Nobody
    OBVIOUS
  <2>1. ~RequestsStay
    BY DEF RequestsStay
  <2>2. ASSUME NEW a \in Answers, RejectRequest(a) \/ AcceptRequest(a)
        PROVE  FALSE
    <3>1. q # asked[a]
      BY <2>2 DEF RejectRequest, AcceptRequest, RequestInv,
                  AnswersFollowRequests
    <3>2. row'[q] = row[q]
      BY <1>0, <1>2, <2>2, <3>1 DEF RejectRequest, AcceptRequest, Commit,
         Accepted, Refuse, TypeOK
    <3>3. QED
      BY <3>2
  <2>3. ASSUME NEW o \in Requests, CreateRequest(o)
        PROVE  row'[q] = "PENDING" /\ player'[q] # Nobody
    BY <1>0, <1>2, <2>3 DEF CreateRequest, TypeOK
  <2>4. QED
    BY <2>1, <2>2, <2>3, RequestShapes
       DEF ReadRequest, CheckRequest, RequestInv
<1>7. RequestsAreNamed'
  BY <1>5, <1>6 DEF RequestInv, RequestsAreNamed
<1>8. AcceptedGotSeat'
  <2> SUFFICES ASSUME NEW q \in Requests, row'[q] = "ACCEPTED"
               PROVE  \E r \in Seats : player'[r] = player'[q] /\ Kept(r)'
    BY DEF AcceptedGotSeat, Kept
  <2>1. row[q] # "none" /\ player'[q] = player[q]
    BY <1>5, <1>6
  <2>2. CASE row[q] = "ACCEPTED"
    BY <1>3, <2>1, <2>2 DEF RequestInv, AcceptedGotSeat, Kept
  <2>3. QED
    BY <1>5, <2>1, <2>2
<1>9. AnswersFollowRequests'
  <2> SUFFICES ASSUME NEW a \in Answers, pc'[a] # "idle"
               PROVE  /\ asked'[a] \in Requests
                      /\ row'[asked'[a]] # "none"
                      /\ player'[a] = player'[asked'[a]]
    BY DEF AnswersFollowRequests
  <2>1. ASSUME NEW q \in Requests, ReadRequest(a, q)
        PROVE  /\ asked'[a] \in Requests
               /\ row'[asked'[a]] # "none"
               /\ player'[a] = player'[asked'[a]]
    <3>1. asked'[a] = q /\ row' = row /\ row[q] = "PENDING"
      BY <1>2, <2>1 DEF ReadRequest, TypeOK
    <3>2. player'[a] = player[q] /\ player'[q] = player[q]
      BY <1>0, <1>2, <2>1 DEF ReadRequest, Start, TypeOK
    <3>3. QED
      BY <3>1, <3>2
  <2>2. ASSUME \A q \in Requests : ~ReadRequest(a, q)
        PROVE  pc[a] # "idle" /\ asked'[a] = asked[a] /\ player'[a] = player[a]
    <3>1. asked'[a] = asked[a]
      BY <2>2, <1>2, RequestShapes
         DEF RequestsStay, ReadRequest, RejectRequest, AcceptRequest,
             CheckRequest, CreateRequest, TypeOK, RequestInv
    <3>2. pc[a] # "idle" /\ player'[a] = player[a]
      <4>1. CASE \E c \in Calls, p \in Players :
                   BeginJoin(c, p) \/ BeginAddition(c, p)
        <5>1. PICK c \in Calls, p \in Players : 
                     BeginJoin(c, p) \/ BeginAddition(c, p)
          BY <4>1
        <5>2. c # a
          BY <5>1, CallsAssumption DEF BeginJoin, BeginAddition, Invitations
        <5>3. QED
          BY <1>0, <1>2, <5>1, <5>2 DEF BeginJoin, BeginAddition, Start, TypeOK
      <4>2. CASE \E c \in Calls, q \in Requests : ReadRequest(c, q)
        <5>1. PICK c \in Calls, q \in Requests : ReadRequest(c, q)
          BY <4>2
        <5>2. QED
          BY <1>0, <1>2, <2>2, <5>1 DEF ReadRequest, Start, TypeOK
      <4>3. CASE \E q \in Requests, p \in Players : CheckRequest(q, p)
        BY <1>0, <1>2, <4>3 DEF CheckRequest, TypeOK
      <4>4. CASE \E c \in Calls : RejectRequest(c) \/ CallStep(c) \/ Abort(c)
        <5>1. PICK c \in Calls : RejectRequest(c) \/ CallStep(c) \/ Abort(c)
          BY <4>4
        <5>2. player' = player /\ pc[c] # "idle"
              /\ (\A d \in Calls : d # c => pc'[d] = pc[d])
          BY <1>2, <5>1
             DEF RejectRequest, CallStep, Abort, LockMatch, CheckSeat,
                 TakeSeat, TakeSnapshot, CheckSpace, TryLock, AcceptRequest,
                 AddFriend, Commit, Refuse, Pass, Running, TypeOK
        <5>3. QED
          BY <1>0, <5>2
      <4>5. CASE \/ \E q \in Requests : CreateRequest(q)
                 \/ \E r \in Seats : ApproveMember(r) \/ RemoveMember(r)
                 \/ UNCHANGED vars
        BY <4>5 DEF CreateRequest, ApproveMember, RemoveMember, vars
      <4>6. QED
        BY <4>1, <4>2, <4>3, <4>4, <4>5 DEF Next
    <3>3. QED
      BY <3>1, <3>2
  <2>3. QED
    BY <1>5, <2>1, <2>2 DEF RequestInv, AnswersFollowRequests
<1>10. QED
  BY <1>1, <1>4, <1>7, <1>8, <1>9 DEF RequestInv

\* The same invariant, from the start.
LEMMA InitRequests == Init => RequestInv
<1> SUFFICES ASSUME Init PROVE RequestInv
  OBVIOUS
<1>1. RaceInv
  BY InitRace
<1>2. \A q \in Requests : row[q] = "none"
  <2>1. Requests \subseteq Rows /\ Requests \intersect Players = {}
    BY CallsAssumption DEF Rows, Seats
  <2>2. PICK F \in FirstSeats(match) :
          row = [r \in Rows |-> IF r \in F THEN "confirmed" ELSE "none"]
    BY Zenon DEF Init
  <2>3. F \subseteq Players
    BY <2>2, MatchAssumption DEF FirstSeats
  <2>4. QED
    BY <2>1, <2>2, <2>3
<1>3. /\ \A a \in Answers : a \in Calls
      /\ Seats \subseteq Rows
  BY DEF Calls, Invitations, Rows
<1>4. QED
  BY <1>1, <1>2, <1>3
     DEF Init, RequestInv, RequestsAreNamed, AnswersFollowRequests,
         SnapshotSeatsAreKept, AcceptedGotSeat, Taken, NoView

\* Whoever asked and was accepted has got a place, for any number of requests,
\* answers and calls that run at once: an accepting transaction at REPEATABLE
\* READ seats the player or has seen a seat of his.
THEOREM AcceptedPlayersGotSeats == Spec => []AcceptedGotSeat
<1>1. RequestInv => AcceptedGotSeat
  BY DEF RequestInv
<1>2. QED
  BY <1>1, InitRequests, RequestsKept, PTL DEF Spec

-----------------------------------------------------------------------------
(***************************************************************************)
(* Joins through the match service keep the row lock from their search to  *)
(* their insert, and every other insert waits for it.                      *)
(***************************************************************************)
LockHeld ==
  \A c \in Joiners : pc[c] \in {"locked", "unseated", "counted"} => rowLock = c

\* What a join saw and counted is so until it sits.
LookHolds ==
  \A c \in Joins :
    pc[c] \in {"unseated", "counted"} =>
      \A r \in Confirmed(row) : player[r] # player[c]

CountHolds ==
  \A c \in Joins :
    pc[c] = "counted" => Cardinality(Confirmed(row)) < MaxPlayers

JoinedSeats == Confirmed(row) \intersect Joined

SerialInv ==
  /\ RaceInv
  /\ LockHeld
  /\ LookHolds
  /\ CountHolds
  /\ JoinsFit
  /\ JoinsSeatOnce

\* Init establishes it.
LEMMA InitSerial == Init => SerialInv
<1> SUFFICES ASSUME Init PROVE SerialInv
  OBVIOUS
<1>1. RaceInv
  BY InitRace
<1>2. LockHeld /\ LookHolds /\ CountHolds
  BY CallsAssumption
  DEF Init, LockHeld, LookHolds, CountHolds, Calls, Joiners
<1>3. Confirmed(row) \subseteq Players /\ \A r \in Players : player[r] = r
  <2>1. PICK F \in FirstSeats(match) :
          row = [r \in Rows |-> IF r \in F THEN "confirmed" ELSE "none"]
    BY Zenon DEF Init
  <2>2. F \subseteq Players
    BY MatchAssumption DEF FirstSeats
  <2>3. player = [r \in Rows |-> IF r \in Players THEN r ELSE Nobody]
    BY DEF Init
  <2>4. QED
    BY <2>1, <2>2, <2>3 DEF Confirmed, Rows, Seats
<1>4. \A r, s \in Confirmed(row) : Ordered(r, s)
  BY <1>3 DEF Ordered
<1>5. JoinsFit
  <2>1. Confirmed(row) \intersect Joined = Confirmed(row)
    BY <1>3 DEF Joined
  <2>2. Cardinality(Confirmed(row)) <= MaxPlayers
    BY <1>1, <1>4 DEF RaceInv, FitsUnlessRaced
  <2>3. QED
    BY <2>1, <2>2 DEF JoinsFit
<1>6. JoinsSeatOnce
  <2>1. Joined \subseteq Seats
    BY DEF Joined, Seats, Calls, Joiners
  <2>2. QED
    BY <1>1, <1>4, <2>1
    DEF RaceInv, OneSeatUnlessRaced, SeatsSettled, JoinsSeatOnce, Taken,
        Confirmed
<1>7. QED
  BY <1>1, <1>2, <1>5, <1>6 DEF SerialInv

\* The lock is held while a join looks, counts and sits.
LEMMA LockKept ==
  ASSUME SerialInv, [Next]_vars
  PROVE  LockHeld'
<1> USE DEF SerialInv, RaceInv, TypeOK, LockHeld
<1>0. /\ Joiners \subseteq Calls
      /\ Joiners \intersect Invitations = {}
      /\ Nobody \notin Joiners
  BY CallsAssumption DEF Calls, Rows, Seats
<1>1. ASSUME NEW c \in Calls, NEW p \in Players \union {Nobody}, Start(c, p),
             UNCHANGED rowLock
      PROVE  LockHeld'
  BY <1>0, <1>1 DEF Start
<1>2. ASSUME NEW c \in Calls, LockMatch(c)
      PROVE  LockHeld'
  <2>1. \A d \in Joiners : pc[d] \notin {"locked", "unseated", "counted"}
    BY <1>0, <1>2 DEF LockMatch
  <2>2. QED
    BY <1>0, <1>2, <2>1 DEF LockMatch
<1>3. ASSUME NEW c \in Calls, Refuse(c)
      PROVE  LockHeld'
  BY <1>0, <1>3 DEF Refuse, Unlock
<1>4. ASSUME NEW c \in Calls, NEW rows, Commit(c, rows)
      PROVE  LockHeld'
  BY <1>0, <1>4 DEF Commit, Unlock
<1>5. ASSUME NEW c \in Calls, CheckSeat(c) \/ CheckSpace(c)
      PROVE  LockHeld'
  BY <1>0, <1>3, <1>5 DEF CheckSeat, CheckSpace, Pass
<1>6. ASSUME NEW c \in Calls, TakeSnapshot(c)
      PROVE  LockHeld'
  BY <1>0, <1>6 DEF TakeSnapshot
<1>7. ASSUME NEW c \in Calls, TryLock(c)
      PROVE  LockHeld'
  BY <1>0, <1>3, <1>7 DEF TryLock
<1>8. ASSUME NEW c \in Calls,
             \/ TakeSeat(c) \/ AddFriend(c) \/ AcceptRequest(c)
             \/ RejectRequest(c) \/ Abort(c)
      PROVE  LockHeld'
  BY <1>3, <1>4, <1>8
  DEF TakeSeat, AddFriend, AcceptRequest, RejectRequest, Abort
<1>9. ASSUME \/ \E q \in Requests :
                  (\E p \in Players : CheckRequest(q, p)) \/ CreateRequest(q)
             \/ \E r \in Seats : ApproveMember(r) \/ RemoveMember(r)
             \/ UNCHANGED vars
      PROVE  LockHeld'
  BY <1>9 DEF CheckRequest, CreateRequest, ApproveMember, RemoveMember, vars
<1>10. ASSUME NEW c \in Calls,
              \/ \E p \in Players : BeginJoin(c, p) \/ BeginAddition(c, p)
              \/ \E q \in Requests : ReadRequest(c, q)
       PROVE  LockHeld'
  <2>1. ASSUME NEW q \in Requests
        PROVE  player[q] \in Players \union {Nobody}
    BY DEF Rows
  <2>2. QED
    BY <1>1, <1>10, <2>1 DEF BeginJoin, BeginAddition, ReadRequest
<1>11. QED
  BY <1>2, <1>5, <1>6, <1>7, <1>8, <1>9, <1>10 DEF Next, CallStep

\* Nobody sits while a join is between its search and its insert.
LEMMA NobodyElseSits ==
  ASSUME RaceInv, LockHeld, NEW c \in Joins,
         pc[c] \in {"unseated", "counted"},
         NEW d \in Calls, Sits(d)
  PROVE  d = c
<1>1. rowLock = c /\ c # Nobody
  BY CallsAssumption DEF LockHeld, Joiners, Calls, Rows, Seats
<1>2. CASE d \in Joiners
  BY <1>1, <1>2 DEF Sits, LockHeld
<1>3. CASE d \in Invitations
  BY <1>1, <1>3 DEF Sits
<1>4. QED
  BY <1>2, <1>3 DEF Calls

\* So what a join saw and counted is still so when it sits.
LEMMA SerialKept ==
  ASSUME SerialInv, [Next]_vars
  PROVE  SerialInv'
<1> USE DEF SerialInv, RaceInv, TypeOK
<1>0. /\ Joins \subseteq Joiners /\ Joins \subseteq Calls
      /\ Calls \subseteq Seats /\ Seats \subseteq Rows
      /\ Joined \subseteq Seats
      /\ Calls \intersect Joined = Joins
      /\ \A c \in Joins : View(c) = row
  BY CallsAssumption DEF Calls, Joiners, Seats, Rows, View, Joined
<1>1. /\ RaceInv'
      /\ LockHeld'
      /\ SeatStep
      /\ IsFiniteSet(Confirmed(row))
      /\ Cardinality(Confirmed(row)) \in Nat
  <2>1. NobodyWaits
    BY DEF SeatsSettled, NobodyWaits
  <2>2. IsFiniteSet(Confirmed(row))
    BY CallsAssumption, FS_Subset DEF Confirmed
  <2>3. QED
    BY <2>1, <2>2, RaceKept, LockKept, StepShapes, FS_CardinalityType
<1>2. ASSUME Confirmed(row)' \subseteq Confirmed(row)
      PROVE  /\ Cardinality(Confirmed(row)') <= Cardinality(Confirmed(row))
             /\ Cardinality(Confirmed(row)') \in Nat
  BY <1>1, <1>2, FS_Subset, FS_CardinalityType
<1>3. LookHolds'
  <2>1. ASSUME NEW c \in Calls, NEW p \in Players \union {Nobody}, Starts(c, p)
        PROVE  LookHolds'
    BY <1>0, <2>1 DEF Starts, LookHolds, SeatsComeLast, Confirmed
  <2>2. ASSUME NEW c \in Calls, TakeSnapshot(c) \/ Counts(c)
        PROVE  LookHolds'
    BY <1>0, <2>2 DEF TakeSnapshot, Counts, LookHolds, Confirmed
  <2>3. ASSUME NEW c \in Calls, Sits(c)
        PROVE  LookHolds'
    <3>1. \A d \in Joins : pc[d] \in {"unseated", "counted"} => d = c
      BY <2>3, NobodyElseSits
    <3>2. QED
      BY <1>0, <2>3, <3>1 DEF Sits, LookHolds
  <2>4. ASSUME NEW c \in Calls, NEW stage \in Stages, Moves(c, stage)
        PROVE  LookHolds'
    BY <1>0, <2>4 DEF Moves, SeatsStay, LookHolds, Confirmed, Seated, Taken
  <2>5. ASSUME Leaves
        PROVE  LookHolds'
    BY <1>0, <2>5 DEF Leaves, LookHolds, Confirmed
  <2>6. QED
    BY <1>1, <2>1, <2>2, <2>3, <2>4, <2>5 DEF SeatStep
<1>4. CountHolds'
  <2>1. ASSUME NEW c \in Calls, NEW p \in Players \union {Nobody}, Starts(c, p)
        PROVE  CountHolds'
    BY <1>0, <2>1 DEF Starts, CountHolds, Confirmed
  <2>2. ASSUME NEW c \in Calls, TakeSnapshot(c) \/ Counts(c)
        PROVE  CountHolds'
    <3>1. Confirmed(row)' = Confirmed(row)
      BY <2>2 DEF TakeSnapshot, Counts, Confirmed
    <3>2. c \in Joins /\ Counts(c) => Cardinality(Confirmed(row)) < MaxPlayers
      BY <1>0, <1>1, MatchAssumption DEF Counts, Full
    <3>3. QED
      BY <1>0, <2>2, <3>1, <3>2 DEF TakeSnapshot, Counts, CountHolds
  <2>3. ASSUME NEW c \in Calls, Sits(c)
        PROVE  CountHolds'
    <3>1. \A d \in Joins : pc[d] \in {"unseated", "counted"} => d = c
      BY <2>3, NobodyElseSits
    <3>2. QED
      BY <1>0, <2>3, <3>1 DEF Sits, CountHolds
  <2>4. ASSUME NEW c \in Calls, NEW stage \in Stages, Moves(c, stage)
        PROVE  CountHolds'
    <3>1. Confirmed(row)' = Confirmed(row)
      BY <2>4 DEF Moves, SeatsStay, Confirmed
    <3>2. stage # "counted"
      BY <2>4 DEF Moves
    <3>3. QED
      BY <1>0, <2>4, <3>1, <3>2 DEF Moves, CountHolds
  <2>5. ASSUME Leaves
        PROVE  CountHolds'
    <3>1. Confirmed(row)' \subseteq Confirmed(row)
      BY <2>5 DEF Leaves, Confirmed
    <3>2. QED
      BY <1>1, <1>2, <2>5, <3>1, MatchAssumption DEF Leaves, CountHolds
  <2>6. QED
    BY <1>1, <2>1, <2>2, <2>3, <2>4, <2>5 DEF SeatStep
<1>5. ASSUME NEW c \in Calls, Sits(c)
      PROVE  /\ Confirmed(row)' = Confirmed(row) \union {c}
             /\ c \notin Confirmed(row)
  BY <1>0, <1>5 DEF Sits, Confirmed, SeatsComeLast
<1>6. JoinsFit'
  <2>0. /\ JoinedSeats \subseteq Confirmed(row)
        /\ IsFiniteSet(JoinedSeats)
        /\ Cardinality(JoinedSeats) \in Nat
        /\ Cardinality(JoinedSeats) <= Cardinality(Confirmed(row))
        /\ Cardinality(JoinedSeats) <= MaxPlayers
    BY <1>1, FS_Subset, FS_CardinalityType DEF JoinedSeats, JoinsFit
  <2>1. CASE JoinedSeats' \subseteq JoinedSeats
    <3>1. /\ Cardinality(JoinedSeats') <= Cardinality(JoinedSeats)
          /\ Cardinality(JoinedSeats') \in Nat
      BY <2>0, <2>1, FS_Subset, FS_CardinalityType
    <3>2. QED
      BY <2>0, <3>1, MatchAssumption DEF JoinsFit, JoinedSeats
  <2>2. ASSUME NEW c \in Joins, Sits(c)
        PROVE  JoinsFit'
    <3>1. /\ JoinedSeats' = JoinedSeats \union {c}
          /\ c \notin JoinedSeats
      BY <1>0, <1>5, <2>2 DEF JoinedSeats
    <3>2. Cardinality(JoinedSeats') = Cardinality(JoinedSeats) + 1
      BY <2>0, <3>1, FS_AddElement
    <3>3. Cardinality(Confirmed(row)) < MaxPlayers
      BY <2>2 DEF Sits, CountHolds
    <3>4. QED
      BY <1>1, <2>0, <3>2, <3>3, MatchAssumption DEF JoinsFit, JoinedSeats
  <2>3. ASSUME NEW c \in Calls \ Joins, Sits(c)
        PROVE  JoinedSeats' \subseteq JoinedSeats
    BY <1>0, <1>5, <2>3 DEF JoinedSeats
  <2>4. Confirmed(row)' \subseteq Confirmed(row)
          => JoinedSeats' \subseteq JoinedSeats
    BY DEF JoinedSeats
  <2>5. QED
    BY <1>1, <2>1, <2>2, <2>3, <2>4, NewSeat
<1>7. JoinsSeatOnce'
  <2>0. SUFFICES ASSUME NEW r \in JoinedSeats', NEW s \in JoinedSeats',
                        r # s
                 PROVE  player'[r] # player'[s]
    BY <1>0, <1>1 DEF JoinsSeatOnce, SeatsSettled, Taken, Confirmed,
                      JoinedSeats
  <2>1. ASSUME r \in JoinedSeats, s \in JoinedSeats
        PROVE  player[r] # player[s]
    BY <2>0, <2>1 DEF JoinsSeatOnce, JoinedSeats, Taken, Confirmed
  <2>2. CASE /\ Confirmed(row)' \subseteq Confirmed(row)
             /\ player'[r] = player[r] /\ player'[s] = player[s]
    BY <2>0, <2>1, <2>2 DEF JoinedSeats
  <2>3. ASSUME NEW c \in Calls, Sits(c)
        PROVE  player'[r] # player'[s]
    <3>1. player' = player
      BY <2>3 DEF Sits
    <3>2. CASE c \in Joins
      <4>1. \A m \in Confirmed(row) : player[m] # player[c]
        BY <2>3, <3>2 DEF Sits, LookHolds
      <4>2. \A m \in {r, s} :
              m = c \/ (m \in JoinedSeats /\ m \in Confirmed(row))
        BY <1>5, <2>0, <2>3 DEF JoinedSeats
      <4>3. QED
        BY <2>0, <2>1, <3>1, <4>1, <4>2
    <3>3. CASE c \notin Joins
      BY <1>0, <1>5, <2>0, <2>1, <2>3, <3>1, <3>3 DEF JoinedSeats
    <3>4. QED
      BY <3>2, <3>3
  <2>4. \A m \in JoinedSeats' : m \in Confirmed(row)'
    BY DEF JoinedSeats
  <2>5. QED
    BY <1>1, <2>0, <2>2, <2>3, <2>4, NewSeat
<1>8. QED
  BY <1>1, <1>3, <1>4, <1>6, <1>7

\* The members the booking brought and those who joined through the match
\* service fit into the match, for any number of calls of any kind that run
\* beside the joins.
THEOREM SerialJoinsFit == Spec => []JoinsFit
<1>1. SerialInv /\ [Next]_vars => SerialInv'
  BY SerialKept
<1>2. SerialInv => JoinsFit
  BY DEF SerialInv
<1>3. QED
  BY <1>1, <1>2, InitSerial, PTL DEF Spec

\* Nor does any of them have two places.
THEOREM SerialJoinsSeatOnce == Spec => []JoinsSeatOnce
<1>1. SerialInv /\ [Next]_vars => SerialInv'
  BY SerialKept
<1>2. SerialInv => JoinsSeatOnce
  BY DEF SerialInv
<1>3. QED
  BY <1>1, <1>2, InitSerial, PTL DEF Spec

-----------------------------------------------------------------------------
(***************************************************************************)
(* The result of a match                                                   *)
(***************************************************************************)

Begun == {c \in Records : job[c].state \notin {"none", "waiting"}}

\* The rows of a player that a job has begun with and has no more to do.
CountedRows(p) == {r \in RowsOf(p) : \E c \in Begun : r \notin job[c].todo}

\* A call that has looked for a result has been given one, and the result of
\* one that has written is there; a job comes after the writing, and is about
\* rows that have a player.
RecordsInOrder ==
  \A c \in Records :
    /\ recPc[c] # "idle" => said[c] \in Winners
    /\ recPc[c] \in {"queueing", "done"} => winner # NoResult
    /\ job[c].state # "none" => recPc[c] = "done"
    /\ job[c].todo \subseteq ConfirmedRows

OneRecord ==
  ~recRaced =>
    \A c \in Records :
      /\ recPc[c] \in {"queueing", "done"} => winner = said[c]
      /\ \A d \in Records : recPc[c] # "idle" /\ recPc[d] # "idle" => c = d

GamesInStep ==
  recRaced \/ retried \/
  \A p \in Members :
    /\ PlayedOf(p) <= Cardinality(CountedRows(p))
    /\ tally[p].draw > 0 => winner = "draw"

ResultInv == ResultTypeOK /\ RecordsInOrder /\ OneRecord /\ GamesInStep

\* What the update of one member adds: one game, and a draw only if the call
\* was told so.
LEMMA CountedGame ==
  ASSUME ResultTypeOK, RecordsInOrder,
         NEW c \in Records, NEW r \in MemberRows, CountMember(c, r)
  PROVE  /\ holder[r] \in Members
         /\ tally' \in [Members -> Tally]
         /\ \A p \in Members :
              /\ p # holder[r] => tally'[p] = tally[p]
              /\ p = holder[r] => PlayedOf(p)' = PlayedOf(p) + 1
         /\ tally'[holder[r]].draw > tally[holder[r]].draw
              => said[c] = "draw"
<1> DEFINE o == Outcome(job[c].sides[r], said[c])
<1>0. holder[r] \in Members
  BY ResultAssumption
     DEF CountMember, RecordsInOrder, ConfirmedRows, ResultTypeOK
<1>1. PICK h \in Members : h = holder[r]
  BY <1>0
<1>2. said[c] \in Winners
  BY DEF CountMember, RecordsInOrder
<1>3. (o = "draw" /\ said[c] = "draw") \/ o \in {"won", "lost"}
  BY DEF Outcome
<1>4. tally' = [tally EXCEPT ![h] = [tally[h] EXCEPT ![o] = tally[h][o] + 1]]
  BY <1>1 DEF CountMember, AddTo
<1>5. tally \in [Members -> Tally] /\ tally[h] \in Tally
  BY <1>1 DEF ResultTypeOK
<1>6. CASE o = "draw"
  <2>1. tally'[h] = [tally[h] EXCEPT !.draw = tally[h].draw + 1]
    BY <1>1, <1>4, <1>5, <1>6
  <2>2. tally'[h] \in Tally /\ PlayedOf(h)' = PlayedOf(h) + 1
    BY <1>5, <2>1 DEF Tally, PlayedOf
  <2> QED
    BY <1>1, <1>3, <1>4, <1>5, <1>6, <2>2
<1>7. CASE o = "won"
  <2>1. tally'[h] = [tally[h] EXCEPT !.won = tally[h].won + 1]
    BY <1>1, <1>4, <1>5, <1>7
  <2>2. /\ tally'[h] \in Tally /\ PlayedOf(h)' = PlayedOf(h) + 1
        /\ tally'[h].draw = tally[h].draw
    BY <1>5, <2>1 DEF Tally, PlayedOf
  <2>3. ~(tally[h].draw > tally[h].draw)
    BY <1>5 DEF Tally
  <2> QED
    BY <1>1, <1>4, <1>5, <2>2, <2>3
<1>8. CASE o = "lost"
  <2>1. tally'[h] = [tally[h] EXCEPT !.lost = tally[h].lost + 1]
    BY <1>1, <1>4, <1>5, <1>8
  <2>2. /\ tally'[h] \in Tally /\ PlayedOf(h)' = PlayedOf(h) + 1
        /\ tally'[h].draw = tally[h].draw
    BY <1>5, <2>1 DEF Tally, PlayedOf
  <2>3. ~(tally[h].draw > tally[h].draw)
    BY <1>5 DEF Tally
  <2> QED
    BY <1>1, <1>4, <1>5, <2>2, <2>3
<1> QED
  BY <1>3, <1>6, <1>7, <1>8

JobRecords == [state : JobStates, left : 0 .. JobAttempts,
               todo : SUBSET MemberRows, sides : [MemberRows -> Sides]]

LEMMA EndedJobs ==
  /\ NoJob \in JobRecords
  /\ \A s \in JobStates : \A n \in 0 .. JobAttempts :
       /\ [NoJob EXCEPT !.state = s] \in JobRecords
       /\ [NoJob EXCEPT !.state = s].todo = {}
       /\ [NoJob EXCEPT !.state = s, !.left = n] \in JobRecords
       /\ [NoJob EXCEPT !.state = s, !.left = n].todo = {}
<1>1. NoTeams \in [MemberRows -> Sides] /\ 0 \in 0 .. JobAttempts
  BY ResultAssumption DEF NoTeams, Sides
<1>2. NoJob \in JobRecords /\ NoJob.todo = {}
  BY <1>1 DEF NoJob, JobStates, JobRecords
<1> QED
  BY <1>2 DEF JobRecords

\* Whatever the worker does to the job of a call, it has no other rows to do
\* than before or those confirmed now.
LEMMA WorkerSteps ==
  ASSUME ResultTypeOK, NEW c \in Records,
         \/ StartJob(c) \/ FailCount(c)
         \/ \E r \in MemberRows : CountMember(c, r)
  PROVE  \E j \in JobRecords :
           /\ job' = [job EXCEPT ![c] = j]
           /\ j.todo \subseteq job[c].todo \union ConfirmedRows
<1> DEFINE Done(j) == /\ j \in JobRecords /\ job' = [job EXCEPT ![c] = j]
                      /\ j.todo \subseteq job[c].todo \union ConfirmedRows
<1> SUFFICES \E j \in JobRecords : Done(j)
  OBVIOUS
<1>0. job[c] \in JobRecords
  BY DEF ResultTypeOK, JobRecords
<1>1. ASSUME NEW s \in JobStates, job' = EndJob(c, s)
      PROVE  \E j \in JobRecords : Done(j)
  <2> DEFINE j == [NoJob EXCEPT !.state = s]
  <2>1. 0 \in 0 .. JobAttempts
    BY ResultAssumption
  <2>2. j \in JobRecords /\ j.todo = {}
    BY <2>1, EndedJobs
  <2>3. job' = [job EXCEPT ![c] = j]
    BY <1>1 DEF EndJob
  <2> HIDE DEF j
  <2> QED
    BY <2>2, <2>3
<1>2. CASE StartJob(c)
  <2>1. CASE ConfirmedRows = {}
    BY <1>1, <1>2, <2>1 DEF StartJob, JobStates
  <2>2. CASE ConfirmedRows # {}
    <3> DEFINE j == [job[c] EXCEPT !.state = "active",
                                   !.todo = ConfirmedRows, !.sides = side]
    <3>1. job' = [job EXCEPT ![c] = j]
      BY <1>2, <2>2 DEF StartJob
    <3>2. j \in JobRecords /\ j.todo = ConfirmedRows
      BY <1>0 DEF JobRecords, JobStates, ConfirmedRows, ResultTypeOK
    <3> HIDE DEF j
    <3> QED
      BY <3>1, <3>2
  <2> QED
    BY <2>1, <2>2
<1>3. CASE FailCount(c)
  <2>1. CASE job[c].left > 1
    <3>1. job[c].left - 1 \in 0 .. JobAttempts
      BY <1>0, <2>1, ResultAssumption DEF JobRecords
    <3> DEFINE j == [NoJob EXCEPT !.state = "waiting",
                                  !.left = job[c].left - 1]
    <3>2. j \in JobRecords /\ j.todo = {}
      BY <3>1, EndedJobs DEF JobStates
    <3>3. job' = [job EXCEPT ![c] = j]
      BY <1>3, <2>1 DEF FailCount
    <3> HIDE DEF j
    <3> QED
      BY <3>2, <3>3
  <2>2. CASE ~(job[c].left > 1)
    BY <1>1, <1>3, <2>2 DEF FailCount, JobStates
  <2> QED
    BY <2>1, <2>2
<1>4. ASSUME NEW r \in MemberRows, CountMember(c, r)
      PROVE  \E j \in JobRecords : Done(j)
  <2>1. CASE job[c].todo = {r}
    BY <1>1, <1>4, <2>1 DEF CountMember, JobStates
  <2>2. CASE job[c].todo # {r}
    <3> DEFINE j == [job[c] EXCEPT !.todo = job[c].todo \ {r}]
    <3>1. job' = [job EXCEPT ![c] = j]
      BY <1>4, <2>2 DEF CountMember
    <3>2. j \in JobRecords /\ j.todo = job[c].todo \ {r}
      BY <1>0 DEF JobRecords
    <3> HIDE DEF j
    <3> QED
      BY <3>1, <3>2
  <2> QED
    BY <2>1, <2>2
<1> QED
  BY <1>2, <1>3, <1>4

LEMMA ResultTypesKept ==
  ResultTypeOK /\ RecordsInOrder /\ [ResultNext]_resultVars => ResultTypeOK'
<1> SUFFICES ASSUME ResultTypeOK, RecordsInOrder, [ResultNext]_resultVars
             PROVE  ResultTypeOK'
  OBVIOUS
<1> USE ResultAssumption DEF ResultTypeOK
<1>0. job \in [Records -> JobRecords]
  BY DEF JobRecords
<1>1. CASE UNCHANGED resultVars
  BY <1>1 DEF resultVars, teamVars
<1>2. CASE SetTeams
  BY <1>2 DEF SetTeams
<1>3. ASSUME NEW p \in Members, LeaveTeam(p)
      PROVE  ResultTypeOK'
  <2>1. Present(p) \subseteq MemberRows
    BY DEF Present, RowsOf
  <2> QED
    BY <1>3, <2>1 DEF LeaveTeam
<1>4. ASSUME NEW p \in Members, NEW r \in MemberRows, JoinTeam(r, p)
      PROVE  ResultTypeOK'
  BY <1>4 DEF JoinTeam
<1>5. ASSUME NEW c \in Records, NEW w \in Winners, ReadResult(c, w)
      PROVE  ResultTypeOK'
  BY <1>5 DEF ReadResult, teamVars
<1>6. ASSUME NEW c \in Records, WriteResult(c)
      PROVE  ResultTypeOK'
  BY <1>6 DEF WriteResult, teamVars
<1>7. ASSUME NEW c \in Records, QueueJob(c)
      PROVE  ResultTypeOK'
  <2> DEFINE j == [job[c] EXCEPT !.state = "waiting", !.left = JobAttempts]
  <2>1. j \in JobRecords
    <3>1. job[c] \in JobRecords /\ JobAttempts \in 0 .. JobAttempts
      BY <1>0
    <3> QED
      BY <3>1 DEF JobRecords, JobStates
  <2>2. UNCHANGED job \/ job' = [job EXCEPT ![c] = j]
    BY <1>7 DEF QueueJob
  <2> HIDE DEF j
  <2>3. job' \in [Records -> JobRecords]
    BY <1>0, <2>1, <2>2
  <2> QED
    BY <1>7, <2>3 DEF QueueJob, teamVars, JobRecords
<1>8. ASSUME NEW c \in Records,
             \/ StartJob(c) \/ FailCount(c)
             \/ \E r \in MemberRows : CountMember(c, r)
      PROVE  ResultTypeOK'
  <2>1. job' \in [Records -> JobRecords]
    BY <1>0, <1>8, WorkerSteps
  <2>2. retried' \in BOOLEAN /\ UNCHANGED <<winner, recPc, said, recRaced>>
    BY <1>8 DEF StartJob, FailCount, CountMember, teamVars
  <2>3. UNCHANGED <<holder, gone, side>>
    BY <1>8 DEF StartJob, FailCount, CountMember, teamVars
  <2>4. tally' \in [Members -> Tally]
    <3>1. CASE UNCHANGED tally
      BY <3>1
    <3>2. CASE \E r \in MemberRows : CountMember(c, r)
      BY <3>2, CountedGame
    <3> QED
      BY <1>8, <3>1, <3>2 DEF StartJob, FailCount
  <2> QED
    BY <2>1, <2>2, <2>3, <2>4 DEF JobRecords
<1> QED
  BY <1>1, <1>2, <1>3, <1>4, <1>5, <1>6, <1>7, <1>8 DEF ResultNext

\* What a step does to the records: it looks, writes, puts a job into the
\* queue or leaves them alone, and a job goes on in its order.
LEMMA OrderKept ==
  ResultInv /\ [ResultNext]_resultVars => RecordsInOrder' /\ OneRecord'
<1> SUFFICES ASSUME ResultInv, [ResultNext]_resultVars
             PROVE  RecordsInOrder' /\ OneRecord'
  OBVIOUS
<1> USE ResultAssumption
<1>0. /\ ResultTypeOK /\ RecordsInOrder /\ OneRecord
      /\ NoResult \notin Winners
  BY DEF ResultInv
<1>1. CASE UNCHANGED resultVars
  BY <1>0, <1>1 DEF resultVars, teamVars, RecordsInOrder, OneRecord,
                    ConfirmedRows
<1>2. CASE SetTeams \/ \E p \in Members : LeaveTeam(p)
  BY <1>0, <1>2 DEF SetTeams, LeaveTeam, RecordsInOrder, OneRecord,
                    ConfirmedRows
<1>3. ASSUME NEW p \in Members, NEW r \in MemberRows, JoinTeam(r, p)
      PROVE  RecordsInOrder' /\ OneRecord'
  <2>1. ConfirmedRows \subseteq ConfirmedRows'
    BY <1>0, <1>3 DEF JoinTeam, ConfirmedRows, ResultTypeOK
  <2> QED
    BY <1>0, <1>3, <2>1 DEF JoinTeam, RecordsInOrder, OneRecord
<1>4. ASSUME NEW c \in Records, NEW w \in Winners, ReadResult(c, w)
      PROVE  RecordsInOrder' /\ OneRecord'
  <2>1. /\ recPc[c] = "idle" /\ winner = NoResult
        /\ said' = [said EXCEPT ![c] = w]
        /\ recPc' = [recPc EXCEPT ![c] = "writing"]
        /\ recRaced' = (recRaced \/ \E d \in Records : recPc[d] = "writing")
        /\ UNCHANGED <<winner, holder, job>>
    BY <1>4 DEF ReadResult, MayRecord, teamVars
  <2>2. RecordsInOrder'
    BY <1>0, <2>1 DEF RecordsInOrder, ResultTypeOK, ConfirmedRows
  <2>3. ~recRaced' => \A d \in Records : recPc[d] = "idle"
    BY <1>0, <2>1 DEF RecordsInOrder, ResultTypeOK
  <2>4. OneRecord'
    BY <1>0, <2>1, <2>3 DEF OneRecord, ResultTypeOK
  <2> QED
    BY <2>2, <2>4
<1>5. ASSUME NEW c \in Records, WriteResult(c)
      PROVE  RecordsInOrder' /\ OneRecord'
  <2>1. /\ recPc[c] = "writing" /\ winner' = said[c]
        /\ recPc' = [recPc EXCEPT ![c] = "queueing"]
        /\ UNCHANGED <<said, holder, job, recRaced>>
    BY <1>5 DEF WriteResult, teamVars
  <2>2. RecordsInOrder'
    BY <1>0, <2>1 DEF RecordsInOrder, ResultTypeOK, ConfirmedRows
  <2>3. OneRecord'
    BY <1>0, <2>1 DEF OneRecord, ResultTypeOK
  <2> QED
    BY <2>2, <2>3
<1>6. ASSUME NEW c \in Records, QueueJob(c)
      PROVE  RecordsInOrder' /\ OneRecord'
  <2>1. /\ recPc[c] = "queueing"
        /\ recPc' = [recPc EXCEPT ![c] = "done"]
        /\ \A d \in Records : /\ d # c => job'[d] = job[d]
                              /\ job'[d].todo = job[d].todo
        /\ UNCHANGED <<winner, said, holder, recRaced>>
    BY <1>0, <1>6 DEF QueueJob, teamVars, ResultTypeOK
  <2>2. RecordsInOrder'
    BY <1>0, <2>1 DEF RecordsInOrder, ResultTypeOK, ConfirmedRows
  <2>3. OneRecord'
    BY <1>0, <2>1 DEF OneRecord, ResultTypeOK
  <2> QED
    BY <2>2, <2>3
<1>7. ASSUME NEW c \in Records,
             \/ StartJob(c) \/ FailCount(c)
             \/ \E r \in MemberRows : CountMember(c, r)
      PROVE  RecordsInOrder' /\ OneRecord'
  <2>1. /\ UNCHANGED <<winner, recPc, said, holder, recRaced>>
        /\ job[c].state # "none"
    BY <1>7 DEF StartJob, FailCount, CountMember, teamVars
  <2>2. /\ \A d \in Records \ {c} : job'[d] = job[d]
        /\ job'[c].todo \subseteq ConfirmedRows
    <3>1. job[c].todo \subseteq ConfirmedRows
      BY <1>0 DEF RecordsInOrder
    <3>2. PICK j \in JobRecords :
            /\ job' = [job EXCEPT ![c] = j]
            /\ j.todo \subseteq job[c].todo \union ConfirmedRows
      BY <1>0, <1>7, WorkerSteps
    <3> QED
      BY <1>0, <3>1, <3>2 DEF ResultTypeOK
  <2>3. RecordsInOrder'
    BY <1>0, <2>1, <2>2 DEF RecordsInOrder, ConfirmedRows
  <2> QED
    BY <1>0, <2>1, <2>3 DEF OneRecord
<1> QED
  BY <1>1, <1>2, <1>3, <1>4, <1>5, <1>6, <1>7 DEF ResultNext

\* The rows a job has counted stay counted while no job is begun or run again,
\* and with them what has been added.
LEMMA MoreCounted ==
  ASSUME ResultInv, ResultTypeOK',
         UNCHANGED <<tally, winner>>,
         \A p \in Members : CountedRows(p) \subseteq CountedRows(p)',
         recRaced => recRaced', retried => retried'
  PROVE  GamesInStep'
<1>1. \A p \in Members :
        /\ IsFiniteSet(CountedRows(p)')
        /\ Cardinality(CountedRows(p)) \in Nat
        /\ Cardinality(CountedRows(p)') \in Nat
        /\ Cardinality(CountedRows(p)) <= Cardinality(CountedRows(p)')
  <2> TAKE p \in Members
  <2>1. CountedRows(p)' \subseteq MemberRows
    BY DEF CountedRows, RowsOf
  <2>2. IsFiniteSet(CountedRows(p)')
    BY <2>1, FS_Subset, ResultAssumption
  <2> QED
    BY <2>2, FS_Subset, FS_CardinalityType
<1>2. \A p \in Members : PlayedOf(p)' = PlayedOf(p) /\ PlayedOf(p) \in Nat
  BY DEF ResultInv, ResultTypeOK, Tally, PlayedOf
<1> QED
  BY <1>1, <1>2 DEF ResultInv, GamesInStep

\* Without a race the job of a call is the only one there is.
LEMMA OnlyJob ==
  ASSUME ResultInv, ~recRaced, NEW c \in Records, recPc[c] # "idle",
         NEW d \in Records, job[d].state # "none"
  PROVE  d = c
BY DEF ResultInv, OneRecord, RecordsInOrder

LEMMA GamesKept == ResultInv /\ [ResultNext]_resultVars => GamesInStep'
<1> SUFFICES ASSUME ResultInv, [ResultNext]_resultVars, ~recRaced', ~retried'
             PROVE  GamesInStep'
  BY DEF GamesInStep
<1> USE ResultAssumption
<1>0. /\ ResultTypeOK /\ RecordsInOrder /\ OneRecord /\ GamesInStep
      /\ ResultTypeOK'
  BY ResultTypesKept DEF ResultInv
<1>01. ~recRaced /\ ~retried
  BY <1>0 DEF ResultTypeOK, ResultNext, resultVars, teamVars, SetTeams,
       LeaveTeam, JoinTeam, ReadResult, WriteResult, QueueJob, StartJob,
       FailCount, CountMember
<1>1. CASE \/ UNCHANGED resultVars \/ SetTeams
           \/ \E p \in Members : LeaveTeam(p)
           \/ \E c \in Records, w \in Winners : ReadResult(c, w)
  <2>1. UNCHANGED <<tally, winner, holder, job>>
    BY <1>1 DEF resultVars, teamVars, SetTeams, LeaveTeam, ReadResult
  <2>2. \A p \in Members : CountedRows(p)' = CountedRows(p)
    BY <2>1 DEF CountedRows, RowsOf, Begun
  <2> QED
    BY <1>0, <1>01, <2>1, <2>2, MoreCounted
<1>2. ASSUME NEW p \in Members, NEW r \in MemberRows, JoinTeam(r, p)
      PROVE  GamesInStep'
  <2>1. \A q \in Members : RowsOf(q) \subseteq RowsOf(q)'
    BY <1>0, <1>2 DEF JoinTeam, RowsOf, ResultTypeOK
  <2>2. \A q \in Members : CountedRows(q) \subseteq CountedRows(q)'
    BY <1>2, <2>1 DEF JoinTeam, CountedRows, Begun
  <2> QED
    BY <1>0, <1>01, <1>2, <2>2, MoreCounted DEF JoinTeam
<1>3. ASSUME NEW c \in Records, WriteResult(c)
      PROVE  GamesInStep'
  <2>1. /\ recPc[c] = "writing"
        /\ UNCHANGED <<tally, holder, job>>
    BY <1>3 DEF WriteResult, teamVars
  <2>2. \A d \in Records : job[d].state = "none"
    BY <1>0, <1>01, <2>1, OnlyJob DEF RecordsInOrder
  <2>3. \A p \in Members :
          /\ CountedRows(p) = {} /\ CountedRows(p)' = {}
    BY <2>1, <2>2 DEF CountedRows, Begun
  <2>4. \A p \in Members : PlayedOf(p) <= 0 /\ PlayedOf(p)' = PlayedOf(p)
    BY <1>0, <1>01, <2>1, <2>3, FS_EmptySet DEF GamesInStep, PlayedOf
  <2>5. \A p \in Members : ~(tally[p].draw > 0)
    BY <1>0, <2>4 DEF PlayedOf, ResultTypeOK, Tally
  <2> QED
    BY <2>1, <2>3, <2>4, <2>5, FS_EmptySet DEF GamesInStep
<1>4. ASSUME NEW c \in Records, QueueJob(c)
      PROVE  GamesInStep'
  <2>1. /\ recPc[c] = "queueing" /\ UNCHANGED <<tally, winner, holder>>
        /\ \/ UNCHANGED job
           \/ job' = [job EXCEPT ![c].state = "waiting",
                                 ![c].left = JobAttempts]
    BY <1>4 DEF QueueJob, teamVars
  <2>2. job[c].state = "none"
    BY <1>0, <2>1 DEF RecordsInOrder
  <2>3. \A d \in Begun : d \in Begun' /\ job'[d].todo = job[d].todo
    BY <1>0, <2>1, <2>2 DEF Begun, ResultTypeOK
  <2>4. \A p \in Members : CountedRows(p) \subseteq CountedRows(p)'
    BY <2>1, <2>3 DEF CountedRows, RowsOf
  <2> QED
    BY <1>0, <1>01, <2>1, <2>4, MoreCounted
<1>5. ASSUME NEW c \in Records, StartJob(c)
      PROVE  GamesInStep'
  <2>1. /\ job[c].state = "waiting"
        /\ UNCHANGED <<tally, winner, holder>>
    BY <1>5 DEF StartJob, teamVars
  <2>2. Begun = {}
    BY <1>0, <1>01, <2>1, OnlyJob DEF RecordsInOrder, Begun
  <2>3. \A p \in Members : CountedRows(p) \subseteq CountedRows(p)'
    BY <2>2 DEF CountedRows
  <2> QED
    BY <1>0, <1>01, <2>1, <2>3, MoreCounted
<1>6. ASSUME NEW c \in Records, FailCount(c)
      PROVE  GamesInStep'
  <2>1. /\ job[c].state = "active"
        /\ job' = EndJob(c, "failed")
        /\ UNCHANGED <<tally, winner, holder>>
    BY <1>0, <1>6 DEF FailCount, teamVars
  <2>2. /\ c \in Begun' /\ job'[c].todo = {}
        /\ \A d \in Begun \ {c} : d \in Begun' /\ job'[d].todo = job[d].todo
    BY <1>0, <2>1 DEF Begun, EndJob, NoJob, ResultTypeOK
  <2>3. \A p \in Members : CountedRows(p) \subseteq CountedRows(p)'
    BY <2>1, <2>2 DEF CountedRows, RowsOf
  <2> QED
    BY <1>0, <1>01, <2>1, <2>3, MoreCounted
<1>7. ASSUME NEW c \in Records, NEW r \in MemberRows, CountMember(c, r)
      PROVE  GamesInStep'
  <2>1. /\ job[c].state = "active" /\ r \in job[c].todo
        /\ UNCHANGED <<winner, holder>>
        /\ job' = IF job[c].todo = {r} THEN EndJob(c, "done")
                  ELSE [job EXCEPT ![c].todo = @ \ {r}]
    BY <1>7 DEF CountMember, teamVars
  <2>2. Begun = {c}
    BY <1>0, <1>01, <2>1, OnlyJob DEF RecordsInOrder, Begun
  <2>3. c \in Begun' /\ job'[c].todo = job[c].todo \ {r}
    <3>1. CASE job[c].todo = {r}
      BY <1>0, <2>1, <3>1 DEF Begun, EndJob, NoJob, ResultTypeOK
    <3>2. CASE job[c].todo # {r}
      BY <1>0, <2>1, <3>2 DEF Begun, ResultTypeOK
    <3> QED
      BY <3>1, <3>2
  <2>4. ASSUME NEW p \in Members
        PROVE  /\ PlayedOf(p)' <= Cardinality(CountedRows(p)')
               /\ tally'[p].draw > 0 => winner = "draw"
    <3>0. /\ PlayedOf(p) <= Cardinality(CountedRows(p))
          /\ tally[p].draw > 0 => winner = "draw"
          /\ PlayedOf(p) \in Nat /\ PlayedOf(p)' \in Nat
          /\ tally[p].draw \in Nat /\ tally'[p].draw \in Nat
      BY <1>0, <1>01 DEF GamesInStep, ResultTypeOK, Tally, PlayedOf
    <3>1. CountedRows(p)' \subseteq MemberRows
      BY DEF CountedRows, RowsOf
    <3>2. /\ IsFiniteSet(CountedRows(p)')
          /\ Cardinality(CountedRows(p)') \in Nat
      BY <3>1, FS_Subset, FS_CardinalityType
    <3>3. CountedRows(p) \subseteq CountedRows(p)'
      BY <2>1, <2>2, <2>3 DEF CountedRows, RowsOf
    <3>4. /\ IsFiniteSet(CountedRows(p))
          /\ Cardinality(CountedRows(p)) \in Nat
          /\ Cardinality(CountedRows(p)) <= Cardinality(CountedRows(p)')
      BY <3>2, <3>3, FS_Subset, FS_CardinalityType
    <3>5. CASE p # holder[r]
      <4>1. tally'[p] = tally[p]
        BY <1>0, <1>7, <3>5, CountedGame
      <4>2. PlayedOf(p)' = PlayedOf(p)
        BY <4>1 DEF PlayedOf
      <4> QED
        BY <3>0, <3>2, <3>4, <4>1, <4>2
    <3>6. CASE p = holder[r]
      <4>1. r \in CountedRows(p)' /\ r \notin CountedRows(p)
        BY <2>1, <2>2, <2>3, <3>6 DEF CountedRows, RowsOf
      <4>2. /\ CountedRows(p) \union {r} \subseteq CountedRows(p)'
            /\ IsFiniteSet(CountedRows(p) \union {r})
            /\ Cardinality(CountedRows(p) \union {r})
                 = Cardinality(CountedRows(p)) + 1
        BY <3>3, <3>4, <4>1, FS_AddElement
      <4>3. Cardinality(CountedRows(p)) + 1 <= Cardinality(CountedRows(p)')
        BY <3>2, <4>2, FS_Subset
      <4>4. /\ PlayedOf(p)' = PlayedOf(p) + 1
            /\ tally'[p].draw > tally[p].draw => said[c] = "draw"
        BY <1>0, <1>7, <3>6, CountedGame
      <4>5. said[c] = winner
        BY <1>0, <1>01, <2>1 DEF RecordsInOrder, OneRecord
      <4> QED
        BY <3>0, <3>2, <3>4, <4>3, <4>4, <4>5
    <3> QED
      BY <3>5, <3>6
  <2> QED
    BY <2>1, <2>4 DEF GamesInStep
<1> QED
  BY <1>1, <1>2, <1>3, <1>4, <1>5, <1>6, <1>7 DEF ResultNext

\* CountedOnceUnlessRetried: a match adds one game to a player for each row of
\* match_group_members the player has had, and a draw only where one was
\* recorded, unless two calls of recordResult found no result or the update-elo
\* job was run again.
THEOREM GamesAreCountedOnce == ResultSpec => []CountedOnceUnlessRetried
<1>1. ResultInit => ResultInv
  <2> SUFFICES ASSUME ResultInit
               PROVE  ResultInv
    OBVIOUS
  <2> USE ResultAssumption DEF ResultInit
  <2>1. /\ NoTeams \in [MemberRows -> Sides]
        /\ \A c \in Records : job[c].state = "none" /\ job[c].todo = {}
    BY DEF NoTeams, NoJob, Sides
  <2>2. NoJob \in [state : JobStates, left : 0 .. JobAttempts,
                   todo : SUBSET MemberRows, sides : [MemberRows -> Sides]]
    BY <2>1 DEF NoJob, JobStates
  <2>3. tally \in [Members -> Tally]
    BY DEF Tally
  <2>4. ResultTypeOK
    BY <2>1, <2>2, <2>3 DEF ResultTypeOK
  <2>5. RecordsInOrder /\ OneRecord
    BY <2>1 DEF RecordsInOrder, OneRecord
  <2>6. \A p \in Members :
          PlayedOf(p) = 0 /\ tally[p].draw = 0 /\ CountedRows(p) = {}
    BY <2>1 DEF PlayedOf, CountedRows, Begun
  <2>7. GamesInStep
    BY <2>6, FS_EmptySet DEF GamesInStep
  <2> QED
    BY <2>4, <2>5, <2>7 DEF ResultInv
<1>2. ResultInv /\ [ResultNext]_resultVars => ResultInv'
  BY ResultTypesKept, OrderKept, GamesKept DEF ResultInv
<1>3. ResultInv => CountedOnceUnlessRetried
  <2> SUFFICES ASSUME ResultInv, ~recRaced, ~retried, NEW p \in Members
               PROVE  /\ PlayedOf(p) <= Cardinality(RowsOf(p))
                      /\ tally[p].draw > 0 => winner = "draw"
    BY DEF CountedOnceUnlessRetried
  <2>1. /\ PlayedOf(p) <= Cardinality(CountedRows(p)) /\ PlayedOf(p) \in Nat
        /\ tally[p].draw > 0 => winner = "draw"
    BY DEF ResultInv, GamesInStep, ResultTypeOK, Tally, PlayedOf
  <2>2. CountedRows(p) \subseteq RowsOf(p) /\ RowsOf(p) \subseteq MemberRows
    BY DEF CountedRows, RowsOf
  <2>3. IsFiniteSet(RowsOf(p)) /\ IsFiniteSet(CountedRows(p))
    BY <2>2, FS_Subset, ResultAssumption
  <2>4. /\ Cardinality(CountedRows(p)) <= Cardinality(RowsOf(p))
        /\ Cardinality(CountedRows(p)) \in Nat
        /\ Cardinality(RowsOf(p)) \in Nat
    BY <2>2, <2>3, FS_Subset, FS_CardinalityType
  <2> QED
    BY <2>1, <2>4
<1> QED
  BY <1>1, <1>2, <1>3, PTL DEF ResultSpec
=============================================================================

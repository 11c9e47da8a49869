--------------------------- MODULE MatchMembership --------------------------
(***************************************************************************)
(* The ways into one match: joining it through the match service or        *)
(* through the booking service, asking to join and being accepted, and     *)
(* being added by the organiser; and the ways out of it.                   *)
(*                                                                         *)
(* The match service joins at READ COMMITTED, so each of its queries sees  *)
(* the rows as they are.  The booking service's transactions run at        *)
(* REPEATABLE READ: PostgreSQL fixes what they see when their first        *)
(* statement starts, which is the statement that then takes (or waits for) *)
(* a lock.  Joins lock the row of the match, answers and additions take an *)
(* advisory lock: calls of one kind do not exclude calls of the other.     *)
(*                                                                         *)
(* A call that inserts a row gives it its own identity; the rows that came *)
(* with the booking have the identity of their player.                     *)
(***************************************************************************)
EXTENDS Naturals, FiniteSets

CONSTANTS
  Players,
  Organiser,   \* the player who made the booking
  MaxPlayers,
  Joins,       \* calls of MatchService.joinMatch
  SlotJoins,   \* calls of BookingMatchService.joinBookingSlot
  Requests,    \* calls of requestJoinMatch
  Answers,     \* calls of respondToJoinRequest
  Additions,   \* calls of addFriendToMatch
  Nobody       \* no player, no call

Joiners == Joins \union SlotJoins
Invitations == Answers \union Additions
Calls == Joiners \union Invitations

\* The rows of match_group_members and of match_join_requests.
Seats == Calls \union Players
Rows == Seats \union Requests

ASSUME CallsAssumption ==
  /\ Joins \intersect SlotJoins = {}
  /\ Joiners \intersect Invitations = {}
  /\ Answers \intersect Additions = {}
  /\ Calls \intersect Players = {}
  /\ Seats \intersect Requests = {}
  /\ Nobody \notin Rows
  /\ IsFiniteSet(Seats)

ASSUME MatchAssumption ==
  /\ Organiser \in Players
  /\ MaxPlayers \in Nat \ {0}

VARIABLES
  match,      \* is_open and auto_accept of the match
  row,        \* the status of each row
  player,     \* the player each row is for
  pc,         \* how far each call has come
  asked,      \* the request each answer is about
  archived,   \* the requests with deleted_at set
  snapshot,   \* what each transaction at REPEATABLE READ sees
  rowLock,    \* the join that has the match row FOR UPDATE
  advisory,   \* the invitation that has the match's advisory lock
  before      \* history: the seats that were taken when a call began

vars == <<match, row, player, pc, asked, archived, snapshot, rowLock,
          advisory, before>>

-----------------------------------------------------------------------------
SeatStatus == {"none", "pending", "confirmed", "removed"}
RequestStatus == {"none", "PENDING", "ACCEPTED", "REJECTED"}
Stages == {"idle", "started", "waiting", "locked", "unseated", "counted",
           "done", "refused"}
Running == Stages \ {"idle", "done", "refused"}

\* deriveSlotConfig: a FULL booking makes a closed match, a PARTIAL one a
\* match that is open and accepts whoever joins.
ClosedMatch == [open |-> FALSE, autoAccept |-> FALSE]
OpenMatch == [open |-> TRUE, autoAccept |-> TRUE]

NoView == [r \in Rows |-> "none"]

\* A row of match_group_members that is not deleted.
Taken(view, r) == view[r] \in {"pending", "confirmed"}

Confirmed(view) == {r \in Seats : view[r] = "confirmed"}

\* Mutant of Full: off by one.
FullWhenExceeded(view) == Cardinality(Confirmed(view)) > MaxPlayers

Full(view) == Cardinality(Confirmed(view)) >= MaxPlayers

Seated(view, p) == \E r \in Seats : Taken(view, r) /\ player[r] = p

\* What a call's queries see: the rows as they are, or as they were when its
\* transaction began.
View(c) == IF c \in Joins THEN row ELSE snapshot[c]

-----------------------------------------------------------------------------
(***************************************************************************)
(* The steps the calls share                                               *)
(***************************************************************************)
Start(c, p) ==
  /\ pc[c] = "idle"
  /\ pc' = [pc EXCEPT ![c] = "started"]
  /\ player' = [player EXCEPT ![c] = p]
  /\ before' = [before EXCEPT ![c] = {r \in Seats : Taken(row, r)}]

\* Mutant of Unlock: the row lock outlives its transaction.
UnlockAdvisory(c) ==
  /\ advisory' = IF advisory = c THEN Nobody ELSE advisory
  /\ UNCHANGED rowLock

Unlock(c) ==
  /\ rowLock' = IF rowLock = c THEN Nobody ELSE rowLock
  /\ advisory' = IF advisory = c THEN Nobody ELSE advisory

\* The call throws and its transaction is rolled back.
Refuse(c) ==
  /\ pc' = [pc EXCEPT ![c] = "refused"]
  /\ Unlock(c)
  /\ UNCHANGED row

\* Mutant of Pass: every query is a transaction of its own.
PassAndUnlock(c, stage) ==
  /\ pc' = [pc EXCEPT ![c] = stage]
  /\ Unlock(c)
  /\ UNCHANGED row

Pass(c, stage) ==
  /\ pc' = [pc EXCEPT ![c] = stage]
  /\ UNCHANGED <<row, rowLock, advisory>>

\* The writes of the transaction take effect, and its locks are released.
Commit(c, rows) ==
  /\ row' = rows
  /\ pc' = [pc EXCEPT ![c] = "done"]
  /\ Unlock(c)

\* The first statement of a transaction at REPEATABLE READ.
TakeSnapshot(c) ==
  /\ c \in Calls \ Joins
  /\ pc[c] = "started"
  /\ pc' = [pc EXCEPT ![c] = "waiting"]
  /\ snapshot' = [snapshot EXCEPT ![c] = row]
  /\ UNCHANGED <<match, row, player, asked, archived, rowLock, advisory,
                 before>>

\* Mutant of CheckSpace: no count.
SkipSpaceCheck(c) ==
  /\ pc[c] = IF c \in Joiners THEN "unseated" ELSE "locked"
  /\ Pass(c, "counted")
  /\ UNCHANGED <<match, player, asked, archived, snapshot, before>>

\* The count of confirmed members, against max_players.
CheckSpace(c) ==
  /\ pc[c] = IF c \in Joiners THEN "unseated" ELSE "locked"
  /\ IF Full(View(c)) THEN Refuse(c) ELSE Pass(c, "counted")
  /\ UNCHANGED <<match, player, asked, archived, snapshot, before>>

-----------------------------------------------------------------------------
(***************************************************************************)
(* Joining                                                                 *)
(***************************************************************************)

\* joinBookingSlot counts, and then calls joinMatch, which looks again.
SlotJoinable == match.open /\ ~Full(row)

\* The checks before the transaction.
BeginJoin(c, p) ==
  /\ c \in Joiners
  /\ match.open
  /\ c \in SlotJoins => SlotJoinable
  /\ Start(c, p)
  /\ UNCHANGED <<match, row, asked, archived, snapshot, rowLock, advisory>>

\* SELECT ... FOR UPDATE on the match: waits for the join that has it.
LockMatch(c) ==
  /\ c \in Joiners
  /\ pc[c] = IF c \in Joins THEN "started" ELSE "waiting"
  /\ rowLock = Nobody
  /\ rowLock' = c
  /\ pc' = [pc EXCEPT ![c] = "locked"]
  /\ UNCHANGED <<match, row, player, asked, archived, snapshot, advisory,
                 before>>

\* Mutant of CheckSeat: the search is one of the checks before the lock.
CheckSeatBeforeLock(c) ==
  /\ c \in Joiners
  /\ pc[c] = "locked"
  /\ IF \E r \in before[c] : player[r] = player[c]
     THEN Refuse(c) ELSE Pass(c, "unseated")
  /\ UNCHANGED <<match, player, asked, archived, snapshot, before>>

\* The search for a row of this player.
CheckSeat(c) ==
  /\ c \in Joiners
  /\ pc[c] = "locked"
  /\ IF Seated(View(c), player[c]) THEN Refuse(c) ELSE Pass(c, "unseated")
  /\ UNCHANGED <<match, player, asked, archived, snapshot, before>>

TakeSeat(c) ==
  /\ c \in Joiners
  /\ pc[c] = "counted"
  /\ Commit(c, [row EXCEPT ![c] =
                  IF match.autoAccept THEN "confirmed" ELSE "pending"])
  /\ UNCHANGED <<match, player, asked, archived, snapshot, before>>

-----------------------------------------------------------------------------
(***************************************************************************)
(* Requests, answers and additions                                         *)
(***************************************************************************)

\* requestJoinMatch up to its insert.  An older answered request of the
\* player is marked deleted; which one is found is the database's choice.
CheckRequest(q, p) ==
  LET older == {o \in Requests \ archived :
                  row[o] # "none" /\ player[o] = p}
  IN
  /\ row[q] = "none"
  /\ player[q] = Nobody
  /\ match.open
  /\ p # Organiser
  /\ ~Full(row)
  /\ ~Seated(row, p)
  /\ \/ older = {} /\ UNCHANGED archived
     \/ \E o \in older :
          row[o] # "PENDING" /\ archived' = archived \union {o}
  /\ player' = [player EXCEPT ![q] = p]
  /\ UNCHANGED <<match, row, pc, asked, snapshot, rowLock, advisory, before>>

\* The insert.  Its foreign key locks the match row against FOR UPDATE, so
\* it waits for a join, as does every insert below.
CreateRequest(q) ==
  /\ row[q] = "none"
  /\ player[q] # Nobody
  /\ rowLock = Nobody
  /\ row' = [row EXCEPT ![q] = "PENDING"]
  /\ UNCHANGED <<match, player, pc, asked, archived, snapshot, rowLock,
                 advisory, before>>

\* respondToJoinRequest reads the request outside its transaction.
ReadRequest(a, q) ==
  /\ a \in Answers
  /\ row[q] = "PENDING"
  /\ Start(a, player[q])
  /\ asked' = [asked EXCEPT ![a] = q]
  /\ UNCHANGED <<match, row, archived, snapshot, rowLock, advisory>>

\* The answer is REJECT: one unconditional update.
RejectRequest(a) ==
  /\ a \in Answers
  /\ pc[a] = "started"
  /\ Commit(a, [row EXCEPT ![asked[a]] = "REJECTED"])
  /\ UNCHANGED <<match, player, asked, archived, snapshot, before>>

\* addFriendToMatch looks for the friend's row only here.
BeginAddition(d, p) ==
  /\ d \in Additions
  /\ p # Organiser
  /\ ~Full(row)
  /\ ~Seated(row, p)
  /\ Start(d, p)
  /\ UNCHANGED <<match, row, asked, archived, snapshot, rowLock, advisory>>

\* pg_try_advisory_xact_lock does not wait.
TryLock(c) ==
  /\ c \in Invitations
  /\ pc[c] = "waiting"
  /\ \/ /\ advisory = Nobody
        /\ advisory' = c
        /\ pc' = [pc EXCEPT ![c] = "locked"]
        /\ UNCHANGED <<row, rowLock>>
     \/ advisory # Nobody /\ Refuse(c)
  /\ UNCHANGED <<match, player, asked, archived, snapshot, before>>

\* Mutant of Accepted: no search for a seat the player has.
AcceptedAgain(a) ==
  [row EXCEPT ![asked[a]] = "ACCEPTED", ![a] = "confirmed"]

\* The rows as an accepting answer leaves them: a seat unless the player had
\* one in the snapshot, and the request accepted.
Accepted(a) ==
  [row EXCEPT ![asked[a]] = "ACCEPTED",
              ![a] = IF Seated(snapshot[a], player[a]) THEN @ ELSE "confirmed"]

\* Mutant of AcceptRequest: the request is updated outside the transaction.
AcceptOutsideTransaction(a) ==
  /\ a \in Answers
  /\ pc[a] = "counted"
  /\ Seated(snapshot[a], player[a]) \/ rowLock = Nobody
  /\ IF row[asked[a]] = snapshot[a][asked[a]]
     THEN Commit(a, Accepted(a))
     ELSE Commit(a, [row EXCEPT ![asked[a]] = "ACCEPTED"])
  /\ UNCHANGED <<match, player, asked, archived, snapshot, before>>

\* The rest of the ACCEPT transaction.  At REPEATABLE READ the update of a
\* request that has changed since the snapshot is refused.
AcceptRequest(a) ==
  /\ a \in Answers
  /\ pc[a] = "counted"
  /\ Seated(snapshot[a], player[a]) \/ rowLock = Nobody
  /\ IF row[asked[a]] = snapshot[a][asked[a]]
     THEN Commit(a, Accepted(a))
     ELSE Refuse(a)
  /\ UNCHANGED <<match, player, asked, archived, snapshot, before>>

AddFriend(d) ==
  /\ d \in Additions
  /\ pc[d] = "counted"
  /\ rowLock = Nobody
  /\ Commit(d, [row EXCEPT ![d] = "confirmed"])
  /\ UNCHANGED <<match, player, asked, archived, snapshot, before>>

\* A transaction times out, or its process dies.
Abort(c) ==
  /\ pc[c] \in Running
  /\ Refuse(c)
  /\ UNCHANGED <<match, player, asked, archived, snapshot, before>>

-----------------------------------------------------------------------------
(***************************************************************************)
(* Members                                                                 *)
(***************************************************************************)

\* approveMember: no look at the number of members.
ApproveMember(r) ==
  /\ Taken(row, r)
  /\ row' = [row EXCEPT ![r] = "confirmed"]
  /\ UNCHANGED <<match, player, pc, asked, archived, snapshot, rowLock,
                 advisory, before>>

\* rejectMember, by the organiser, and leaveMatch, by anybody else.
RemoveMember(r) ==
  /\ Taken(row, r)
  /\ row' = [row EXCEPT ![r] = "removed"]
  /\ UNCHANGED <<match, player, pc, asked, archived, snapshot, rowLock,
                 advisory, before>>

-----------------------------------------------------------------------------
\* holdSlot seats the organiser, and for an open match at least one friend
\* with at least one place left.
FirstSeats(m) ==
  IF m.open
  THEN {F \in SUBSET Players : /\ Organiser \in F
                              /\ Cardinality(F) \in 2 .. MaxPlayers - 1}
  ELSE {{Organiser}}

Init ==
  /\ match \in {ClosedMatch, OpenMatch}
  /\ \E F \in FirstSeats(match) :
       row = [r \in Rows |-> IF r \in F THEN "confirmed" ELSE "none"]
  /\ player = [r \in Rows |-> IF r \in Players THEN r ELSE Nobody]
  /\ pc = [c \in Calls |-> "idle"]
  /\ asked = [a \in Answers |-> Nobody]
  /\ archived = {}
  /\ snapshot = [c \in Calls \ Joins |-> NoView]
  /\ rowLock = Nobody
  /\ advisory = Nobody
  /\ before = [c \in Calls |-> {}]

CallStep(c) ==
  \/ LockMatch(c)
  \/ CheckSeat(c)
  \/ TakeSeat(c)
  \/ TakeSnapshot(c)
  \/ CheckSpace(c)
  \/ TryLock(c)
  \/ AcceptRequest(c)
  \/ AddFriend(c)

Next ==
  \/ \E c \in Calls :
       \/ \E p \in Players : BeginJoin(c, p) \/ BeginAddition(c, p)
       \/ \E q \in Requests : ReadRequest(c, q)
       \/ RejectRequest(c)
       \/ CallStep(c)
       \/ Abort(c)
  \/ \E q \in Requests :
       (\E p \in Players : CheckRequest(q, p)) \/ CreateRequest(q)
  \/ \E r \in Seats : ApproveMember(r) \/ RemoveMember(r)

Spec == Init /\ [][Next]_vars

\* A call's statements are issued one after the other; a lock it waits for
\* is granted when it is free.
FairSpec == Spec /\ \A c \in Calls : WF_vars(CallStep(c))

-----------------------------------------------------------------------------
(***************************************************************************)
(* Properties                                                              *)
(***************************************************************************)

\* The type invariant.
TypeOK ==
  /\ match \in [open : BOOLEAN, autoAccept : BOOLEAN]
  /\ row \in [Rows -> SeatStatus \union RequestStatus]
  /\ player \in [Rows -> Players \union {Nobody}]
  /\ pc \in [Calls -> Stages]
  /\ asked \in [Answers -> Requests \union {Nobody}]
  /\ archived \subseteq Requests
  /\ snapshot \in [Calls \ Joins ->
                     [Rows -> SeatStatus \union RequestStatus]]
  /\ rowLock \in Joiners \union {Nobody}
  /\ advisory \in Invitations \union {Nobody}
  /\ before \in [Calls -> SUBSET Seats]

\* One of two seats was taken before the call for the other began.
Ordered(r, s) ==
  \/ {r, s} \subseteq Players
  \/ r \in Calls /\ s \in before[r]
  \/ s \in Calls /\ r \in before[s]

\* Members who did not race one another fit into the match, however they
\* came in: a match is overfull only through calls that ran at once.
FitsUnlessRaced ==
  \A T \in SUBSET Confirmed(row) :
    (\A r, s \in T : r # s => Ordered(r, s)) => Cardinality(T) <= MaxPlayers

\* A player has two places only through calls that ran at once.
OneSeatUnlessRaced ==
  \A r, s \in Seats :
    (r # s /\ Taken(row, r) /\ Taken(row, s) /\ Ordered(r, s))
      => player[r] # player[s]

\* The confirmed members never outnumber max_players ("capacity enforced by
\* member count").  The booking service's joins break it.
CapacityRespected == Cardinality(Confirmed(row)) <= MaxPlayers

\* The seats that came with the booking or through the match service.
Joined == Players \union Joins

\* The members the booking brought and those who joined through the match
\* service fit into the match, whatever calls of other kinds run beside them:
\* a join keeps the row lock from its search to its insert.
JoinsFit == Cardinality(Confirmed(row) \intersect Joined) <= MaxPlayers

\* Nor does any of them have two places (unique_active_member).
JoinsSeatOnce ==
  \A r, s \in Joined :
    (r # s /\ Taken(row, r) /\ Taken(row, s)) => player[r] # player[s]

\* Nobody who joins is left waiting for approveMember, the one way to become
\* a confirmed member without a count: open matches accept automatically.
NobodyWaits == \A r \in Seats : row[r] # "pending"

\* Whoever asked and was accepted has got a place.
AcceptedGotSeat ==
  \A q \in Requests :
    row[q] = "ACCEPTED" =>
      \E r \in Seats :
        player[r] = player[q] /\ row[r] \in {"confirmed", "removed"}

\* No call waits for ever: the row lock, the advisory lock and the foreign
\* key never make calls wait for one another in a circle.
CallsEnd == \A c \in Calls : pc[c] \in Running ~> pc[c] \in {"done", "refused"}
=============================================================================

----------------------------- MODULE MatchResult ----------------------------
(***************************************************************************)
(* The result of one match, and the job that adds it to the members'       *)
(* statistics.                                                             *)
(*                                                                         *)
(* The organiser's recordResult looks for a result, writes one and adds a  *)
(* job to the queue, in three steps.  The job updates one member after     *)
(* another and is run again from the start when it fails on the way.       *)
(***************************************************************************)
EXTENDS Naturals, FiniteSets

CONSTANTS
  Members,       \* the players who are in the match at some time
  MemberRows,    \* the rows of match_group_members
  Records,       \* calls of recordResult, each of which may add one job
  JobAttempts,   \* attempts
  NoResult       \* result_winner is null; a row that has no player

Sides == {"A", "B", "none"}
Winners == {"A", "B", "draw"}

ASSUME ResultAssumption ==
  /\ IsFiniteSet(MemberRows)
  /\ JobAttempts \in Nat \ {0}
  /\ NoResult \notin Winners \union Members

VARIABLES
  winner,     \* match_groups.result_winner
  holder,     \* the player of each row
  gone,       \* the rows with deleted_at set
  side,       \* the team_side of the rows
  recPc,      \* how far each recordResult has come
  said,       \* the winner each call was given
  job,        \* the update-elo job of each call
  tally,      \* what the jobs have added to each player
  recRaced,   \* history: two calls found no result
  retried     \* history: a job was run again

teamVars == <<holder, gone, side>>
resultVars ==
  <<winner, teamVars, recPc, said, job, tally, recRaced, retried>>

-----------------------------------------------------------------------------
NoTeams == [r \in MemberRows |-> "none"]
NoJob == [state |-> "none", left |-> 0, todo |-> {}, sides |-> NoTeams]

JobStates == {"none", "waiting", "active", "done", "failed"}

Tally == [won : Nat, lost : Nat, draw : Nat]

\* matches_played
PlayedOf(p) == tally[p].won + tally[p].lost + tally[p].draw

\* A player on neither side has lost, unless it was a draw.
Outcome(s, w) == CASE w = "draw" -> "draw"
                   [] w # "draw" /\ s = w -> "won"
                   [] w # "draw" /\ s # w -> "lost"

RowsOf(p) == {r \in MemberRows : holder[r] = p}
Present(p) == RowsOf(p) \ gone

\* The rows the job counts: leaving a match sets deleted_at and leaves the
\* status confirmed.
ConfirmedRows == {r \in MemberRows : holder[r] # NoResult}

-----------------------------------------------------------------------------
ResultInit ==
  /\ winner = NoResult
  /\ holder = [r \in MemberRows |-> NoResult]
  /\ gone = {}
  /\ side = NoTeams
  /\ recPc = [c \in Records |-> "idle"]
  /\ said = [c \in Records |-> NoResult]
  /\ job = [c \in Records |-> NoJob]
  /\ tally = [p \in Members |-> [won |-> 0, lost |-> 0, draw |-> 0]]
  /\ recRaced = FALSE
  /\ retried = FALSE

\* Every way into the match, one after the other: a player whose row is
\* deleted gets another.
JoinTeam(r, p) ==
  /\ holder[r] = NoResult
  /\ Present(p) = {}
  /\ holder' = [holder EXCEPT ![r] = p]
  /\ UNCHANGED <<winner, gone, side, recPc, said, job, tally, recRaced,
                 retried>>

\* leaveMatch and rejectMember
LeaveTeam(p) ==
  /\ Present(p) # {}
  /\ gone' = gone \union Present(p)
  /\ UNCHANGED <<winner, holder, side, recPc, said, job, tally, recRaced,
                 retried>>

\* setTeams, of some of the members, in one transaction.
SetTeams ==
  /\ \E T \in [MemberRows -> Sides] :
       /\ \A r \in MemberRows : T[r] # "none" => r \in ConfirmedRows \ gone
       /\ side' = [r \in MemberRows |->
                     IF T[r] = "none" THEN side[r] ELSE T[r]]
  /\ UNCHANGED <<winner, holder, gone, recPc, said, job, tally, recRaced,
                 retried>>

\* Mutant of MayRecord: the last result stands.
MayRecordAgain == TRUE

MayRecord == winner = NoResult

ReadResult(c, w) ==
  /\ recPc[c] = "idle"
  /\ MayRecord
  /\ said' = [said EXCEPT ![c] = w]
  /\ recPc' = [recPc EXCEPT ![c] = "writing"]
  /\ recRaced' = (recRaced \/ \E d \in Records : recPc[d] = "writing")
  /\ UNCHANGED <<winner, teamVars, job, tally, retried>>

WriteResult(c) ==
  /\ recPc[c] = "writing"
  /\ winner' = said[c]
  /\ recPc' = [recPc EXCEPT ![c] = "queueing"]
  /\ UNCHANGED <<teamVars, said, job, tally, recRaced, retried>>

\* An error of the queue is swallowed: then nothing is ever counted.
QueueJob(c) ==
  /\ recPc[c] = "queueing"
  /\ \/ job' = [job EXCEPT ![c].state = "waiting", ![c].left = JobAttempts]
     \/ UNCHANGED job
  /\ recPc' = [recPc EXCEPT ![c] = "done"]
  /\ UNCHANGED <<winner, teamVars, said, tally, recRaced, retried>>

EndJob(c, state) == [job EXCEPT ![c] = [NoJob EXCEPT !.state = state]]

\* The worker reads the confirmed members and their sides once.
StartJob(c) ==
  /\ job[c].state = "waiting"
  /\ job' = IF ConfirmedRows = {} THEN EndJob(c, "done")
            ELSE [job EXCEPT ![c].state = "active",
                             ![c].todo = ConfirmedRows,
                             ![c].sides = side]
  /\ UNCHANGED <<winner, teamVars, recPc, said, tally, recRaced,
                 retried>>

AddTo(p, o) == [tally EXCEPT ![p][o] = @ + 1]

\* users.update, one member at a time and no transaction around them.
CountMember(c, r) ==
  /\ job[c].state = "active"
  /\ r \in job[c].todo
  /\ tally' = AddTo(holder[r], Outcome(job[c].sides[r], said[c]))
  /\ job' = IF job[c].todo = {r} THEN EndJob(c, "done")
            ELSE [job EXCEPT ![c].todo = @ \ {r}]
  /\ UNCHANGED <<winner, teamVars, recPc, said, recRaced, retried>>

\* An update throws, or the worker dies: the queue runs the job again.
FailCount(c) ==
  /\ job[c].state = "active"
  /\ IF job[c].left > 1
       THEN /\ job' = [job EXCEPT ![c] =
                         [NoJob EXCEPT !.state = "waiting",
                                       !.left = job[c].left - 1]]
            /\ retried' = TRUE
       ELSE job' = EndJob(c, "failed") /\ UNCHANGED retried
  /\ UNCHANGED <<winner, teamVars, recPc, said, tally, recRaced>>

-----------------------------------------------------------------------------
ResultNext ==
  \/ SetTeams
  \/ \E p \in Members :
       LeaveTeam(p) \/ \E r \in MemberRows : JoinTeam(r, p)
  \/ \E c \in Records :
       \/ \E w \in Winners : ReadResult(c, w)
       \/ WriteResult(c) \/ QueueJob(c) \/ StartJob(c) \/ FailCount(c)
       \/ \E r \in MemberRows : CountMember(c, r)

ResultSpec == ResultInit /\ [][ResultNext]_resultVars

-----------------------------------------------------------------------------
(***************************************************************************)
(* Properties                                                              *)
(***************************************************************************)
ResultTypeOK ==
  /\ winner \in Winners \union {NoResult}
  /\ holder \in [MemberRows -> Members \union {NoResult}]
  /\ gone \subseteq MemberRows
  /\ side \in [MemberRows -> Sides]
  /\ recPc \in [Records -> {"idle", "writing", "queueing", "done"}]
  /\ said \in [Records -> Winners \union {NoResult}]
  /\ job \in [Records -> [state : JobStates, left : 0 .. JobAttempts,
                          todo : SUBSET MemberRows,
                          sides : [MemberRows -> Sides]]]
  /\ tally \in [Members -> Tally]
  /\ recRaced \in BOOLEAN
  /\ retried \in BOOLEAN

\* A match adds one game to a player for each row the player has had, so one
\* to whoever has come only once, and a draw only if the recorded result is
\* one: unless two calls recorded a result at once, or the job was run again.
CountedOnceUnlessRetried ==
  \/ recRaced \/ retried
  \/ \A p \in Members :
       /\ PlayedOf(p) <= Cardinality(RowsOf(p))
       /\ tally[p].draw > 0 => winner = "draw"
=============================================================================

----------------------------- MODULE Friendship -----------------------------
(***************************************************************************)
(* Two players and the one row of friendships between them: sendRequest,   *)
(* acceptRequest, remove and block.  The row does not say who asked or who *)
(* blocked; either player may make any of the calls.                       *)
(*                                                                         *)
(* Every call finds the row, decides, and writes the row it found (or      *)
(* inserts the one it did not find) in a later statement.                  *)
(***************************************************************************)
EXTENDS FiniteSets

CONSTANTS
  Asks,        \* calls of sendRequest
  Accepts,     \* calls of acceptRequest
  Removals,    \* calls of remove
  BlockCalls,  \* calls of block
  NoFriend     \* there is no row; not a call

FriendCalls == Asks \union Accepts \union Removals \union BlockCalls
Inserters == Asks \union BlockCalls     \* a row's id is the call's

ASSUME FriendAssumption ==
  /\ NoFriend \notin FriendCalls
  /\ Asks \intersect (Accepts \union Removals \union BlockCalls) = {}
  /\ Accepts \intersect (Removals \union BlockCalls) = {}
  /\ Removals \intersect BlockCalls = {}

VARIABLES
  pair,        \* the row of the two players
  seen,        \* the id of the row each call has found
  friendPc,    \* how far each call has come
  standing,    \* history: a block has been written and its row not removed
  blockRaced   \* history: a block was written during an acceptRequest

friendVars == <<pair, seen, friendPc, standing, blockRaced>>

-----------------------------------------------------------------------------
FriendStatus == {"pending", "accepted", "blocked"}
Friendships == [id : Inserters, status : FriendStatus]
NoPair == [id |-> NoFriend, status |-> "none"]

FriendInit ==
  /\ pair = NoPair
  /\ seen = [c \in FriendCalls |-> NoFriend]
  /\ friendPc = [c \in FriendCalls |-> "idle"]
  /\ standing = FALSE
  /\ blockRaced = FALSE

\* Mutant of MayAccept: any friendship will do.
MayAcceptAny == pair # NoPair

MayAccept == pair.status = "pending"

\* The read of each call, with its refusals.
FindPair(c) ==
  /\ friendPc[c] = "idle"
  /\ c \in Asks => pair = NoPair
  /\ c \in Accepts => MayAccept
  /\ c \in Removals => pair # NoPair
  /\ seen' = [seen EXCEPT ![c] = pair.id]
  /\ friendPc' = [friendPc EXCEPT ![c] = "found"]
  /\ UNCHANGED <<pair, standing, blockRaced>>

\* The pair is unique: a second insert is refused.
InsertPair(c, status) ==
  IF pair = NoPair THEN pair' = [id |-> c, status |-> status]
                   ELSE UNCHANGED pair

\* An update by id is refused when the row is gone.
UpdatePair(c, status) ==
  IF pair.id = seen[c] THEN pair' = [pair EXCEPT !.status = status]
                       ELSE UNCHANGED pair

Writes(c) ==
  /\ friendPc[c] = "found"
  /\ friendPc' = [friendPc EXCEPT ![c] = "done"]
  /\ UNCHANGED seen

SendRequest(c) ==
  /\ c \in Asks
  /\ Writes(c)
  /\ InsertPair(c, "pending")
  /\ UNCHANGED <<standing, blockRaced>>

AcceptFriend(c) ==
  /\ c \in Accepts
  /\ Writes(c)
  /\ UpdatePair(c, "accepted")
  /\ UNCHANGED <<standing, blockRaced>>

\* Either player may remove the row, a block that the other has made too.
RemoveFriend(c) ==
  /\ c \in Removals
  /\ Writes(c)
  /\ IF pair.id = seen[c]
       THEN pair' = NoPair /\ standing' = FALSE
       ELSE UNCHANGED <<pair, standing>>
  /\ UNCHANGED blockRaced

Block(c) ==
  /\ c \in BlockCalls
  /\ Writes(c)
  /\ IF seen[c] = NoFriend THEN InsertPair(c, "blocked")
                           ELSE UpdatePair(c, "blocked")
  /\ standing' = (standing \/ pair'.status = "blocked")
  /\ blockRaced' = (blockRaced \/ \E a \in Accepts :
                      friendPc[a] = "found" /\ seen[a] = pair.id)

FriendNext ==
  \E c \in FriendCalls :
    \/ FindPair(c)
    \/ SendRequest(c) \/ AcceptFriend(c) \/ RemoveFriend(c) \/ Block(c)

FriendSpec == FriendInit /\ [][FriendNext]_friendVars

-----------------------------------------------------------------------------
(***************************************************************************)
(* Properties                                                              *)
(***************************************************************************)
FriendTypeOK ==
  /\ pair \in Friendships \union {NoPair}
  /\ seen \in [FriendCalls -> Inserters \union {NoFriend}]
  /\ friendPc \in [FriendCalls -> {"idle", "found", "done"}]
  /\ standing \in BOOLEAN
  /\ blockRaced \in BOOLEAN

\* Two players of whom one has blocked the other are not friends again before
\* the row is removed, whatever was asked before: unless the block was written
\* while the request was being accepted.
BlockHoldsUnlessRaced ==
  standing => blockRaced \/ pair.status = "blocked"
=============================================================================

----------------------------- MODULE PeopleProofs ----------------------------
(***************************************************************************)
(* What players are to each other and to the admins: a block holds, the    *)
(* history of penalties agrees with the player, a link that was passed on  *)
(* works, and a chat is one, heard and read by its members, for any number *)
(* of calls.                                                               *)
(***************************************************************************)
EXTENDS Friendship, Standing, InviteLinks, Chat, SumsProofs, Discovery,
        FiniteSetTheorems, TLAPS

-----------------------------------------------------------------------------
(***************************************************************************)
(* Friendship                                                              *)
(***************************************************************************)

\* A call that has not written is not the id of a row anybody has seen.
IdsAreFresh ==
  \A c \in FriendCalls : friendPc[c] # "done" =>
    /\ pair.id # c
    /\ \A d \in FriendCalls : seen[d] # c

\* A block that stands is in the row, and no request that has been found there
\* waits to be accepted.
BlockIsSettled ==
  standing /\ ~blockRaced =>
    /\ pair.status = "blocked"
    /\ \A a \in Accepts : friendPc[a] = "found" => seen[a] # pair.id

\* acceptRequest goes on only when it has found a row.
AcceptsFoundRow ==
  \A a \in Accepts : friendPc[a] = "found" => seen[a] # NoFriend

FriendInv ==
  FriendTypeOK /\ AcceptsFoundRow /\ IdsAreFresh /\ BlockIsSettled

LEMMA FriendTypeStep ==
  FriendTypeOK /\ AcceptsFoundRow /\ [FriendNext]_friendVars => FriendTypeOK'
<1> SUFFICES ASSUME FriendTypeOK, AcceptsFoundRow, [FriendNext]_friendVars
             PROVE  FriendTypeOK'
  OBVIOUS
<1> USE FriendAssumption DEF FriendTypeOK
<1> DEFINE PairType == Friendships \union {NoPair}
<1>1. CASE UNCHANGED friendVars
  BY <1>1 DEF friendVars
<1>2. pair.id \in Inserters \union {NoFriend}
  BY DEF Friendships, NoPair
<1>3. ASSUME NEW c \in FriendCalls, FindPair(c)
      PROVE  FriendTypeOK'
  BY <1>2, <1>3 DEF FindPair
<1>4. ASSUME NEW c \in FriendCalls, Writes(c)
      PROVE  /\ seen' \in [FriendCalls -> Inserters \union {NoFriend}]
             /\ friendPc' \in [FriendCalls -> {"idle", "found", "done"}]
  BY <1>4 DEF Writes
<1>5. ASSUME NEW c \in Inserters, NEW s \in FriendStatus, InsertPair(c, s)
      PROVE  pair' \in PairType
  BY <1>5 DEF InsertPair, Friendships
<1>6. ASSUME NEW c \in FriendCalls, NEW s \in FriendStatus,
             seen[c] # NoFriend, UpdatePair(c, s)
      PROVE  pair' \in PairType
  <2>1. CASE pair = NoPair
    BY <1>6, <2>1 DEF UpdatePair, NoPair
  <2>2. CASE pair \in Friendships
    BY <1>6, <2>2 DEF UpdatePair, Friendships
  <2> QED
    BY <2>1, <2>2
<1>7. ASSUME NEW c \in FriendCalls, SendRequest(c)
      PROVE  FriendTypeOK'
  BY <1>4, <1>5, <1>7 DEF SendRequest, Inserters, FriendStatus
<1>8. ASSUME NEW c \in FriendCalls, RemoveFriend(c)
      PROVE  FriendTypeOK'
  BY <1>4, <1>8 DEF RemoveFriend
<1>9. ASSUME NEW c \in FriendCalls, Block(c)
      PROVE  FriendTypeOK'
  <2>1. pair' \in PairType
    BY <1>5, <1>6, <1>9 DEF Block, Inserters, FriendStatus
  <2>2. standing' \in BOOLEAN /\ blockRaced' \in BOOLEAN
    BY <1>9 DEF Block
  <2> QED
    BY <1>4, <1>9, <2>1, <2>2 DEF Block
<1>10. ASSUME NEW c \in FriendCalls, AcceptFriend(c)
       PROVE  FriendTypeOK'
  <2>1. seen[c] # NoFriend
    BY <1>10 DEF AcceptFriend, Writes, AcceptsFoundRow
  <2> QED
    BY <1>4, <1>6, <1>10, <2>1 DEF AcceptFriend, FriendStatus
<1> QED
  BY <1>1, <1>3, <1>7, <1>8, <1>9, <1>10 DEF FriendNext

LEMMA AcceptsFoundRowStep ==
  FriendInv /\ [FriendNext]_friendVars => AcceptsFoundRow'
<1> SUFFICES ASSUME FriendInv, [FriendNext]_friendVars,
                    NEW a \in Accepts, friendPc'[a] = "found"
             PROVE  seen'[a] # NoFriend
  BY DEF AcceptsFoundRow
<1> USE FriendAssumption DEF FriendInv, FriendTypeOK, AcceptsFoundRow
<1>1. CASE UNCHANGED friendVars
  BY <1>1 DEF friendVars
<1>2. ASSUME NEW c \in FriendCalls, FindPair(c)
      PROVE  seen'[a] # NoFriend
  <2>1. CASE c = a
    <3>1. pair.status = "pending"
      BY <1>2, <2>1 DEF FindPair, MayAccept
    <3>2. pair \in Friendships
      BY <3>1 DEF NoPair
    <3>3. pair.id \in Inserters
      BY <3>2 DEF Friendships
    <3> QED
      BY <1>2, <2>1, <3>3 DEF FindPair, Inserters, FriendCalls
  <2>2. CASE c # a
    BY <1>2, <2>2 DEF FindPair, FriendCalls
  <2> QED
    BY <2>1, <2>2
<1>3. ASSUME NEW c \in FriendCalls, Writes(c)
      PROVE  seen'[a] # NoFriend
  BY <1>3 DEF Writes, FriendCalls
<1> QED
  BY <1>1, <1>2, <1>3
     DEF FriendNext, SendRequest, AcceptFriend, RemoveFriend, Block

LEMMA IdsAreFreshStep ==
  FriendInv /\ [FriendNext]_friendVars => IdsAreFresh'
<1> SUFFICES ASSUME FriendInv, [FriendNext]_friendVars,
                    NEW c \in FriendCalls, friendPc'[c] # "done"
             PROVE  /\ pair'.id # c
                    /\ \A d \in FriendCalls : seen'[d] # c
  BY DEF IdsAreFresh
<1> USE FriendAssumption DEF FriendInv, FriendTypeOK, IdsAreFresh
<1>1. CASE UNCHANGED friendVars
  BY <1>1 DEF friendVars
<1>2. ASSUME NEW d \in FriendCalls, FindPair(d)
      PROVE  friendPc[c] # "done" /\ pair' = pair
               /\ \A e \in FriendCalls : seen'[e] \in {seen[e], pair.id}
  BY <1>2 DEF FindPair
<1>3. ASSUME NEW d \in FriendCalls, Writes(d)
      PROVE  friendPc[c] # "done" /\ c # d /\ seen' = seen
  BY <1>3 DEF Writes
<1>4. ASSUME NEW d \in FriendCalls, NEW s \in FriendStatus, InsertPair(d, s)
      PROVE  pair'.id \in {pair.id, d}
  BY <1>4 DEF InsertPair
<1>5. ASSUME NEW d \in FriendCalls, NEW s \in FriendStatus, UpdatePair(d, s)
      PROVE  pair'.id = pair.id
  BY <1>5 DEF UpdatePair, Friendships, NoPair
<1>6. ASSUME NEW d \in FriendCalls, SendRequest(d)
      PROVE  pair'.id \in {pair.id, d} /\ Writes(d)
  BY <1>4, <1>6 DEF SendRequest, FriendStatus
<1>7. ASSUME NEW d \in FriendCalls, AcceptFriend(d)
      PROVE  pair'.id = pair.id /\ Writes(d)
  BY <1>5, <1>7 DEF AcceptFriend, FriendStatus
<1>8. ASSUME NEW d \in FriendCalls, RemoveFriend(d)
      PROVE  pair'.id \in {pair.id, NoFriend} /\ Writes(d)
  BY <1>8 DEF RemoveFriend, NoPair
<1>9. ASSUME NEW d \in FriendCalls, Block(d)
      PROVE  pair'.id \in {pair.id, d} /\ Writes(d)
  BY <1>4, <1>5, <1>9 DEF Block, FriendStatus
<1> QED
  BY <1>1, <1>2, <1>3, <1>6, <1>7, <1>8, <1>9 DEF FriendNext

LEMMA BlockIsSettledStep ==
  FriendInv /\ [FriendNext]_friendVars => BlockIsSettled'
<1> SUFFICES ASSUME FriendInv, [FriendNext]_friendVars,
                    standing', ~blockRaced'
             PROVE  /\ pair'.status = "blocked"
                    /\ \A a \in Accepts :
                         friendPc'[a] = "found" => seen'[a] # pair'.id
  BY DEF BlockIsSettled
<1> USE FriendAssumption DEF FriendInv, FriendTypeOK, BlockIsSettled
<1>1. CASE UNCHANGED friendVars
  BY <1>1 DEF friendVars
<1>2. ASSUME NEW c \in FriendCalls, FindPair(c)
      PROVE  /\ pair'.status = "blocked"
             /\ \A a \in Accepts :
                  friendPc'[a] = "found" => seen'[a] # pair'.id
  <2>1. pair' = pair /\ pair.status = "blocked"
    BY <1>2 DEF FindPair
  <2>2. c \notin Accepts
    BY <1>2, <2>1 DEF FindPair, MayAccept
  <2> QED
    BY <1>2, <2>1, <2>2 DEF FindPair, FriendCalls
<1>3. ASSUME NEW c \in FriendCalls, Writes(c), NEW a \in Accepts,
             friendPc'[a] = "found"
      PROVE  friendPc[a] = "found" /\ a # c /\ seen'[a] = seen[a]
  BY <1>3 DEF Writes, FriendCalls
<1>4. ASSUME NEW c \in FriendCalls, SendRequest(c)
      PROVE  pair' = pair /\ standing /\ ~blockRaced /\ Writes(c)
  BY <1>4 DEF SendRequest, InsertPair, NoPair
<1>5. ASSUME NEW c \in FriendCalls, AcceptFriend(c)
      PROVE  pair' = pair /\ standing /\ ~blockRaced /\ Writes(c)
  BY <1>5 DEF AcceptFriend, UpdatePair, Writes
<1>6. ASSUME NEW c \in FriendCalls, RemoveFriend(c)
      PROVE  pair' = pair /\ standing /\ ~blockRaced /\ Writes(c)
  BY <1>6 DEF RemoveFriend
<1>7. ASSUME NEW c \in FriendCalls, Block(c)
      PROVE  /\ pair'.status = "blocked"
             /\ \A a \in Accepts :
                  friendPc'[a] = "found" => seen'[a] # pair'.id
  <2>1. /\ Writes(c) /\ ~blockRaced
        /\ standing \/ pair'.status = "blocked"
        /\ \A a \in Accepts : friendPc[a] = "found" => seen[a] # pair.id
    BY <1>7 DEF Block
  <2>2. CASE pair' = pair
    BY <1>3, <2>1, <2>2
  <2>3. CASE pair.id = seen[c] /\ pair' = [pair EXCEPT !.status = "blocked"]
    <3>1. pair'.status = "blocked" /\ pair'.id = pair.id
      BY <2>3 DEF Friendships, NoPair
    <3> QED
      BY <1>3, <2>1, <3>1
  <2>4. CASE pair' = [id |-> c, status |-> "blocked"]
    <3>1. \A a \in Accepts : seen[a] # c
      BY <2>1 DEF IdsAreFresh, Writes, FriendCalls
    <3> QED
      BY <1>3, <2>1, <2>4, <3>1
  <2> QED
    BY <1>7, <2>2, <2>3, <2>4 DEF Block, InsertPair, UpdatePair
<1> QED
  BY <1>1, <1>2, <1>3, <1>4, <1>5, <1>6, <1>7 DEF FriendNext

\* BlockHoldsUnlessRaced: after block has answered, the two are not friends
\* again until the row is removed.
THEOREM BlockHolds == FriendSpec => []BlockHoldsUnlessRaced
<1>1. FriendInit => FriendInv
  <2> SUFFICES ASSUME FriendInit
               PROVE  FriendInv
    OBVIOUS
  <2> USE FriendAssumption DEF FriendInit
  <2>1. FriendTypeOK
    BY DEF FriendTypeOK
  <2>2. AcceptsFoundRow
    BY DEF AcceptsFoundRow, FriendCalls
  <2>3. IdsAreFresh
    BY DEF IdsAreFresh, NoPair
  <2>4. BlockIsSettled
    BY DEF BlockIsSettled
  <2> QED
    BY <2>1, <2>2, <2>3, <2>4 DEF FriendInv
<1>2. FriendInv /\ [FriendNext]_friendVars => FriendInv'
  BY FriendTypeStep, AcceptsFoundRowStep, IdsAreFreshStep, BlockIsSettledStep
     DEF FriendInv
<1>3. FriendInv => BlockHoldsUnlessRaced
  BY DEF FriendInv, BlockIsSettled, BlockHoldsUnlessRaced
<1> QED
  BY <1>1, <1>2, <1>3, PTL DEF FriendSpec

-----------------------------------------------------------------------------
(***************************************************************************)
(* Standing                                                                *)
(***************************************************************************)
StandingInv == StandingTypeOK /\ HistoryAgrees

LEMMA StandingTypeStep ==
  StandingTypeOK /\ [StandingNext]_standingVars => StandingTypeOK'
<1> SUFFICES ASSUME StandingTypeOK, [StandingNext]_standingVars
             PROVE  StandingTypeOK'
  OBVIOUS
<1> USE DEF StandingTypeOK
<1>1. CASE UNCHANGED standingVars
  BY <1>1 DEF standingVars
<1>2. CASE ReinstateUser
  BY <1>2 DEF ReinstateUser
<1>3. ASSUME NEW s \in Suspensions, SuspendUser(s)
      PROVE  StandingTypeOK'
  BY <1>3 DEF SuspendUser
<1>4. ASSUME NEW v \in Overrides, BeginOverride(v)
      PROVE  StandingTypeOK'
  BY <1>4 DEF BeginOverride, Active
<1>5. ASSUME NEW v \in Overrides, CommitOverride(v)
      PROVE  StandingTypeOK'
  BY <1>5 DEF CommitOverride
<1> QED
  BY <1>1, <1>2, <1>3, <1>4, <1>5 DEF StandingNext

LEMMA HistoryAgreesStep ==
  StandingInv /\ [StandingNext]_standingVars => HistoryAgrees'
<1> SUFFICES ASSUME StandingInv, [StandingNext]_standingVars
             PROVE  HistoryAgrees'
  OBVIOUS
<1> USE DEF StandingInv, StandingTypeOK, HistoryAgrees, Active
<1>1. CASE UNCHANGED standingVars
  BY <1>1 DEF standingVars
<1>2. CASE ReinstateUser
  BY <1>2 DEF ReinstateUser, Closed
<1>3. ASSUME NEW s \in Suspensions, SuspendUser(s)
      PROVE  HistoryAgrees'
  BY <1>3 DEF SuspendUser
<1>4. ASSUME NEW v \in Overrides, BeginOverride(v)
      PROVE  HistoryAgrees'
  BY <1>4 DEF BeginOverride
<1>5. ASSUME NEW v \in Overrides, CommitOverride(v)
      PROVE  HistoryAgrees'
  <2> DEFINE s == overriding[v]
  <2>1. s \in Suspensions /\ penalty'[s].note = "admin"
    BY <1>5 DEF CommitOverride
  <2>2. Active' \subseteq Active /\ is_suspended' = is_suspended
    BY <1>5, <2>1 DEF CommitOverride
  <2> QED
    BY <2>1, <2>2
<1> QED
  BY <1>1, <1>2, <1>3, <1>4, <1>5 DEF StandingNext

\* HistoryAgrees: an active penalty means a suspended player, and a player
\* who is suspended without one has had a penalty overridden.
THEOREM HistoryAndPlayerAgree == StandingSpec => []HistoryAgrees
<1>1. StandingInit => StandingInv
  <2>1. StandingInit => StandingTypeOK
    <3> SUFFICES ASSUME StandingInit
                 PROVE  StandingTypeOK
      OBVIOUS
    <3>1. penalty \in [Suspensions ->
                         [status : {"none", "active", "overridden"},
                          note : {"none", "admin", "reinstated"}]]
      BY DEF StandingInit
    <3>2. overriding \in [Overrides -> Suspensions \union {NoPenalty}]
      BY DEF StandingInit
    <3> QED
      BY <3>1, <3>2 DEF StandingInit, StandingTypeOK
  <2>2. StandingInit => HistoryAgrees
    BY DEF StandingInit, HistoryAgrees, Active
  <2> QED
    BY <2>1, <2>2 DEF StandingInv
<1>2. StandingInv /\ [StandingNext]_standingVars => StandingInv'
  BY StandingTypeStep, HistoryAgreesStep DEF StandingInv
<1>3. StandingInv => HistoryAgrees
  BY DEF StandingInv
<1> QED
  BY <1>1, <1>2, <1>3, PTL DEF StandingSpec

-----------------------------------------------------------------------------
(***************************************************************************)
(* Invite links                                                            *)
(***************************************************************************)
Links == [token : Generations \union {NoLink}, until : Nat]

\* Without a race one call at most is between its read and its write, and then
\* no link is good; every link that was handed out and has not run out is the
\* one in the row.
LinkIsKept ==
  ~inviteRaced =>
    /\ \A g, h \in Generations :
         invitePc[g] = "drawn" /\ invitePc[h] = "drawn" => g = h
    /\ \A g \in Generations : invitePc[g] = "drawn" =>
         ~GoodLink /\ givenLink[g].token # NoLink
    /\ deadLinks = {}
    /\ \A g \in Generations :
         invitePc[g] = "done" /\ givenLink[g].until > hour
           => invite = givenLink[g] /\ invite.token # NoLink

InviteInv == InviteTypeOK /\ LinkIsKept

LEMMA InviteTypeStep ==
  InviteTypeOK /\ [InviteNext]_inviteVars => InviteTypeOK'
<1> SUFFICES ASSUME InviteTypeOK, [InviteNext]_inviteVars
             PROVE  InviteTypeOK'
  OBVIOUS
<1> USE InviteAssumption DEF InviteTypeOK
<1>1. CASE UNCHANGED inviteVars
  BY <1>1 DEF inviteVars
<1>2. ASSUME NEW g \in Generations, FindLink(g)
      PROVE  InviteTypeOK'
  <2>1. [token |-> g, until |-> hour + LinkLife] \in Links
    BY DEF Links
  <2>2. givenLink' \in [Generations -> Links]
    BY <1>2, <2>1 DEF FindLink, Links
  <2>3. invitePc' \in [Generations \union Followers ->
                        {"idle", "drawn", "done"}]
    BY <1>2 DEF FindLink
  <2> QED
    BY <1>2, <2>2, <2>3 DEF FindLink, Links
<1>3. ASSUME NEW g \in Generations, WriteLink(g)
      PROVE  InviteTypeOK'
  BY <1>3 DEF WriteLink
<1>4. ASSUME NEW c \in Followers, NEW g \in Generations, FollowLink(c, g)
      PROVE  InviteTypeOK'
  BY <1>4 DEF FollowLink
<1>5. CASE PassHour
  BY <1>5 DEF PassHour
<1> QED
  BY <1>1, <1>2, <1>3, <1>4, <1>5 DEF InviteNext

LEMMA LinkIsKeptStep ==
  InviteInv /\ [InviteNext]_inviteVars => LinkIsKept'
<1> SUFFICES ASSUME InviteInv, [InviteNext]_inviteVars, ~inviteRaced'
             PROVE  LinkIsKept'
  BY DEF LinkIsKept
<1> USE InviteAssumption
    DEF InviteInv, InviteTypeOK, LinkIsKept, GoodLink
<1>1. CASE UNCHANGED inviteVars
  BY <1>1 DEF inviteVars
<1>2. ASSUME NEW g \in Generations, FindLink(g)
      PROVE  LinkIsKept'
  <2>1. ~inviteRaced
    BY <1>2 DEF FindLink
  <2>2. CASE GoodLink
    BY <1>2, <2>1, <2>2 DEF FindLink
  <2>3. CASE ~GoodLink
    <3>1. \A h \in Generations : invitePc[h] # "drawn"
      BY <1>2, <2>3 DEF FindLink
    <3>2. givenLink'[g].token # NoLink
      BY <1>2, <2>3 DEF FindLink
    <3> QED
      BY <1>2, <2>1, <2>3, <3>1, <3>2 DEF FindLink
  <2> QED
    BY <2>2, <2>3
<1>3. ASSUME NEW g \in Generations, WriteLink(g)
      PROVE  LinkIsKept'
  <2>1. \A h \in Generations : invitePc[h] = "done" =>
          ~(givenLink[h].until > hour)
    BY <1>3 DEF WriteLink
  <2>2. \A h \in Generations : invitePc'[h] # "drawn"
    BY <1>3 DEF WriteLink
  <2> QED
    BY <1>3, <2>1, <2>2 DEF WriteLink
<1>4. ASSUME NEW c \in Followers, NEW g \in Generations, FollowLink(c, g)
      PROVE  LinkIsKept'
  <2>1. \A h \in Generations : invitePc'[h] = invitePc[h]
    BY <1>4 DEF FollowLink
  <2>2. Previews(givenLink[g].token)
    BY <1>4 DEF FollowLink, Previews
  <2> QED
    BY <1>4, <2>1, <2>2 DEF FollowLink
<1>5. CASE PassHour
  BY <1>5 DEF PassHour
<1> QED
  BY <1>1, <1>2, <1>3, <1>4, <1>5 DEF InviteNext

\* LinksWorkUnlessRaced: a link that was handed out works until it expires.
THEOREM LinksWork == InviteSpec => []LinksWorkUnlessRaced
<1>1. InviteInit => InviteInv
  <2>1. InviteInit => InviteTypeOK
    <3> SUFFICES ASSUME InviteInit
                 PROVE  InviteTypeOK
      OBVIOUS
    <3>1. hour \in 0..LastHour
      BY InviteAssumption DEF InviteInit
    <3>2. invite \in Links
      BY DEF InviteInit, Links
    <3>3. givenLink \in [Generations -> Links]
      BY DEF InviteInit, Links
    <3>4. invitePc \in [Generations \union Followers ->
                          {"idle", "drawn", "done"}]
      BY DEF InviteInit
    <3> QED
      BY <3>1, <3>2, <3>3, <3>4 DEF InviteInit, InviteTypeOK, Links
  <2>2. InviteInit => LinkIsKept
    BY DEF InviteInit, LinkIsKept
  <2> QED
    BY <2>1, <2>2 DEF InviteInv
<1>2. InviteInv /\ [InviteNext]_inviteVars => InviteInv'
  BY InviteTypeStep, LinkIsKeptStep DEF InviteInv
<1>3. InviteInv => LinksWorkUnlessRaced
  BY DEF InviteInv, LinkIsKept, LinksWorkUnlessRaced
<1> QED
  BY <1>1, <1>2, <1>3, PTL DEF InviteSpec
-----------------------------------------------------------------------------
(***************************************************************************)
(* Chat                                                                    *)
(***************************************************************************)

\* A receipt that was checked is of a message and for a person.
ReceiptsAreSet ==
  \A c \in Receipts : chatPc[c] = "checked" =>
    cursor[c] \in Messages /\ target[c] \in People

ChatTyped == ChatTypeOK /\ ReceiptsAreSet

LEMMA ChatKinds ==
  /\ \A c \in ChatCalls :
       /\ c \in Directs =>
            c \notin Messages /\ c \notin Readings /\ c \notin Receipts
       /\ c \in Entries =>
            c \notin Exits /\ c \notin Posts /\ c \notin Readings
            /\ c \notin Receipts
       /\ c \in Exits =>
            c \notin Posts /\ c \notin Readings /\ c \notin Receipts
       /\ c \in Posts => c \notin Readings /\ c \notin Receipts
       /\ c \in Readings => c \notin Receipts
  /\ Messages \subseteq ChatCalls /\ Readings \subseteq ChatCalls
  /\ Receipts \subseteq ChatCalls /\ Directs \subseteq ChatCalls
  /\ Messages = Posts \union Entries \union Exits
BY ChatAssumption DEF Messages, ChatCalls

LEMMA ChatTypedInit == ChatInit => ChatTyped
<1> SUFFICES ASSUME ChatInit
             PROVE  ChatTyped
  OBVIOUS
<1>1. \A c \in Receipts : chatPc[c] = "idle"
  BY DEF ChatInit, ChatCalls
<1>2. /\ chats \subseteq Directs /\ room \subseteq Sockets
      /\ lingering \subseteq Sockets /\ twice \subseteq Readings
      /\ chatRaced \in BOOLEAN /\ reads \subseteq Messages \X People
  BY DEF ChatInit
<1>3. /\ member \in [People -> MemberState]
      /\ socket \in [Sockets -> SocketState]
  BY DEF ChatInit, MemberState, SocketState
<1>4. clock \in 1..LastStamp /\ stamp \in [Messages -> 0..LastStamp]
  BY ChatAssumption DEF ChatInit
<1> QED
  BY <1>1, <1>2, <1>3, <1>4 DEF ChatInit, ChatTyped, ChatTypeOK, ReceiptsAreSet

LEMMA ChatTypedStep == ChatTyped /\ [ChatNext]_chatVars => ChatTyped'
<1> SUFFICES ASSUME ChatTyped, [ChatNext]_chatVars
             PROVE  ChatTyped'
  OBVIOUS
<1> USE ChatKinds, ChatAssumption
   DEF ChatTyped, ChatTypeOK, ReceiptsAreSet, ChatTo, MemberState, SocketState
<1>1. ASSUME NEW d \in Directs, FindDirect(d) \/ CreateDirect(d)
      PROVE  ChatTyped'
  <2>1. UNCHANGED groupVars
    BY <1>1 DEF FindDirect, CreateDirect
  <2>2. chatPc' \in [ChatCalls -> {"idle", "creating", "checked", "noting",
          "stored", "done"}]
        /\ \A c \in Receipts : chatPc'[c] = chatPc[c]
    BY <1>1 DEF FindDirect, CreateDirect
  <2>3. chats' \subseteq Directs
    BY <1>1 DEF FindDirect, CreateDirect
  <2>4. chatRaced' \in BOOLEAN
    <3>1. CASE FindDirect(d)
      BY <3>1 DEF FindDirect
    <3>2. CASE CreateDirect(d)
      BY <3>2 DEF CreateDirect
    <3> QED
      BY <1>1, <3>1, <3>2
  <2> QED
    BY <2>1, <2>2, <2>3, <2>4 DEF groupVars, logVars, pageVars
<1>2. ASSUME CreateGroup
      PROVE  ChatTyped'
  BY <1>2 DEF CreateGroup, logVars, pageVars
<1>3. ASSUME NEW c \in ChatCalls, NEW p \in People,
             CheckAddition(c, p) \/ CheckExit(c, p) \/ CheckPage(c, p)
      PROVE  ChatTyped'
  BY <1>3 DEF CheckAddition, CheckExit, CheckPage, logVars, pageVars
<1>4. ASSUME NEW c \in ChatCalls, NEW s \in Sockets, CheckPost(c, s)
      PROVE  ChatTyped'
  BY <1>4 DEF CheckPost, logVars, pageVars
<1>5. ASSUME NEW c \in ChatCalls, NEW s \in Sockets, CheckReceipt(c, s)
      PROVE  ChatTyped'
  <2>1. PICK m \in Messages : cursor' = [cursor EXCEPT ![c] = m]
    BY <1>5 DEF CheckReceipt, StoredMessages
  <2>2. target' = [target EXCEPT ![c] = OwnerOf[s]] /\ OwnerOf[s] \in People
    BY <1>5 DEF CheckReceipt
  <2> QED
    BY <1>5, <2>1, <2>2 DEF CheckReceipt
<1>6. ASSUME NEW c \in ChatCalls,
             \/ AddMember(c) \/ ExitMember(c) \/ NoteChange(c)
             \/ StorePost(c) \/ SendPost(c)
      PROVE  ChatTyped'
  <2>1. CASE AddMember(c)
    BY <2>1 DEF AddMember, logVars, pageVars
  <2>2. CASE ExitMember(c)
    BY <2>2 DEF ExitMember, logVars, pageVars
  <2>3. CASE NoteChange(c) \/ StorePost(c)
    BY <2>3 DEF NoteChange, StorePost, pageVars
  <2>4. CASE SendPost(c)
    BY <2>4 DEF SendPost, logVars, pageVars
  <2> QED
    BY <1>6, <2>1, <2>2, <2>3, <2>4
<1>7. ASSUME NEW c \in ChatCalls, MarkRead(c)
      PROVE  ChatTyped'
  BY <1>7 DEF MarkRead
<1>8. ASSUME NEW c \in ChatCalls, ReadPage(c)
      PROVE  ChatTyped'
  <2>1. StoredMessages \subseteq Messages
    BY DEF StoredMessages
  <2>2. Behind(cursor[c]) \subseteq Messages
    BY <2>1 DEF Behind
  <2>3. PICK P \in Pages(Behind(cursor[c])) :
       /\ readBack' = [readBack EXCEPT ![c] = @ \union P]
       /\ twice' = IF readBack[c] \intersect P = {} THEN twice
                   ELSE twice \union {c}
       /\ IF P # Behind(cursor[c])
            THEN /\ \E m \in NextCursors(P) :
                      cursor' = [cursor EXCEPT ![c] = m]
                 /\ ChatTo(c, "idle")
            ELSE UNCHANGED cursor /\ ChatTo(c, "done")
    BY <1>8 DEF ReadPage
  <2>4. P \subseteq Messages
    BY <2>2, <2>3 DEF Pages
  <2>5. /\ c \in Readings
        /\ begun' \in [Readings -> SUBSET Messages]
        /\ UNCHANGED <<chats, member, target, socket, room, heard, chatRaced,
                 lingering, clock, stamp, reads>>
    BY <1>8, <2>2 DEF ReadPage
  <2>6. readBack' \in [Readings -> SUBSET Messages]
        /\ twice' \subseteq Readings
    BY <2>3, <2>4, <2>5
  <2>7. /\ cursor' \in [Readings \union Receipts -> Messages \union {NoPost}]
        /\ \A d \in Receipts : cursor'[d] = cursor[d]
    BY <2>3, <2>4, <2>5 DEF NextCursors
  <2>8. /\ chatPc' \in [ChatCalls -> {"idle", "creating", "checked", "noting",
             "stored", "done"}]
        /\ \A d \in Receipts : chatPc'[d] = chatPc[d]
    BY <2>3, <2>5
  <2> QED
    BY <2>5, <2>6, <2>7, <2>8
<1>9. ASSUME Tick
      PROVE  ChatTyped'
  BY <1>9 DEF Tick, pageVars
<1>10. ASSUME NEW s \in Sockets, Connect(s) \/ AskForRoom(s) \/ JoinRoom(s)
                  \/ Disconnect(s)
       PROVE  ChatTyped'
  BY <1>10 DEF Connect, AskForRoom, JoinRoom, Disconnect, logVars, pageVars
<1>11. CASE UNCHANGED chatVars
  BY <1>11 DEF chatVars, logVars, pageVars
<1> QED
  BY <1>1, <1>2, <1>3, <1>4, <1>5, <1>6, <1>7, <1>8, <1>9, <1>10, <1>11
     DEF ChatNext

\* A call that has not written its message.
Unstored(m) == chatPc[m] \in {"idle", "checked", "noting"}

\* What a step leaves alone.
DirectsStay ==
  /\ \A d \in Directs : chatPc'[d] = chatPc[d]
  /\ UNCHANGED <<chats, chatRaced>>

RoomStays == UNCHANGED <<member, socket, room, lingering>>

\* Messages that are in the tables stay as they are, and so does what a
\* reading has got.
PagesStay ==
  /\ \A m \in Messages : stamp[m] # 0 => stamp'[m] = stamp[m]
  /\ \A m \in Messages : Unstored(m)' => Unstored(m) /\ stamp'[m] = stamp[m]
  /\ \A r \in Readings : /\ cursor'[r] = cursor[r]
                         /\ chatPc'[r] = "done" <=> chatPc[r] = "done"
  /\ UNCHANGED <<readBack, begun, twice>>

\* Direct chats: without a race one call at a time creates a chat, and only
\* where there is none.
DirectsInStep ==
  \/ chatRaced
  \/ /\ \A c, d \in chats : c = d
     /\ \A d \in Directs : chatPc[d] = "creating" => chats = {}
     /\ \A d, e \in Directs :
          chatPc[d] = "creating" /\ chatPc[e] = "creating" => d = e

LEMMA DirectsKept ==
  ASSUME ChatTyped, DirectsInStep, [ChatNext]_chatVars
  PROVE  DirectsInStep'
<1> USE ChatKinds DEF ChatTyped, ChatTypeOK
<1>1. ASSUME NEW d \in Directs, FindDirect(d)
      PROVE  DirectsInStep'
  <2>1. chats' = chats
        /\ chatPc' =
             [chatPc EXCEPT ![d] = IF chats # {} THEN "done" ELSE "creating"]
    BY <1>1 DEF FindDirect, ChatTo, ChatFound
  <2>2. ASSUME ~chatRaced'
        PROVE  /\ ~chatRaced
               /\ chats # {} \/ \A e \in Directs : chatPc[e] # "creating"
    BY <1>1, <2>2 DEF FindDirect, ChatFound
  <2> QED
    BY <2>1, <2>2 DEF DirectsInStep
<1>2. ASSUME NEW d \in Directs, CreateDirect(d)
      PROVE  DirectsInStep'
  BY <1>2 DEF CreateDirect, ChatTo, DirectsInStep
<1>3. CASE DirectsStay
  BY <1>3 DEF DirectsStay, DirectsInStep
<1>4. ASSUME NEW c \in ChatCalls,
       \/ \E p \in People :
            CheckAddition(c, p) \/ CheckExit(c, p) \/ CheckPage(c, p)
       \/ \E s \in Sockets : CheckPost(c, s) \/ CheckReceipt(c, s)
       \/ AddMember(c) \/ ExitMember(c) \/ NoteChange(c)
       \/ StorePost(c) \/ SendPost(c)
       \/ ReadPage(c) \/ MarkRead(c)
      PROVE  DirectsStay
  BY <1>4
     DEF DirectsStay, ChatTo, CheckAddition, CheckExit, CheckPage, CheckPost,
         CheckReceipt, AddMember, ExitMember, NoteChange, StorePost, SendPost,
         ReadPage, MarkRead
<1>5. ASSUME \/ CreateGroup \/ Tick \/ UNCHANGED chatVars
             \/ \E s \in Sockets :
                 Connect(s) \/ AskForRoom(s) \/ JoinRoom(s) \/ Disconnect(s)
      PROVE  DirectsStay
  BY <1>5 DEF DirectsStay, CreateGroup, Tick, chatVars, Connect, AskForRoom,
              JoinRoom, Disconnect
<1> QED
  BY <1>1, <1>2, <1>3, <1>4, <1>5 DEF ChatNext

\* A socket that is in the room, or about to join it, is a member's, or its
\* person has left while it was open.
RoomInStep ==
  \A s \in Sockets :
    /\ s \in room => socket[s] # "closed"
    /\ s \in room \/ socket[s] \in {"listed", "asked"} =>
         member[OwnerOf[s]] = "active" \/ s \in lingering

LEMMA RoomKept ==
  ASSUME ChatTyped, RoomInStep, [ChatNext]_chatVars
  PROVE  RoomInStep'
<1> USE ChatKinds, ChatAssumption DEF ChatTyped, ChatTypeOK, SocketState
<1>1. CASE RoomStays
  BY <1>1 DEF RoomStays, RoomInStep
<1>2. ASSUME NEW d \in Directs, FindDirect(d) \/ CreateDirect(d)
      PROVE  RoomStays
  BY <1>2 DEF FindDirect, CreateDirect, RoomStays, groupVars
<1>3. ASSUME NEW c \in ChatCalls,
       \/ \E p \in People :
            CheckAddition(c, p) \/ CheckExit(c, p) \/ CheckPage(c, p)
       \/ \E s \in Sockets : CheckPost(c, s) \/ CheckReceipt(c, s)
       \/ NoteChange(c)
       \/ StorePost(c) \/ SendPost(c)
       \/ ReadPage(c) \/ MarkRead(c)
      PROVE  RoomStays
  BY <1>3 DEF RoomStays, CheckAddition, CheckExit, CheckPage, CheckPost,
       CheckReceipt, NoteChange, StorePost, SendPost,
       ReadPage, MarkRead
<1>4. ASSUME Tick \/ UNCHANGED chatVars
      PROVE  RoomStays
  BY <1>4 DEF RoomStays, Tick, chatVars
<1>5. CASE CreateGroup
  <2>1. /\ \A p \in People : member[p] = "none"
        /\ UNCHANGED <<socket, room, lingering>>
    BY <1>5 DEF CreateGroup
  <2> QED
    BY <2>1 DEF RoomInStep
<1>6. ASSUME NEW c \in ChatCalls, AddMember(c)
      PROVE  RoomInStep'
  <2>1. /\ \A p \in People : member[p] = "active" => member'[p] = "active"
        /\ UNCHANGED <<socket, room, lingering>>
    BY <1>6 DEF AddMember
  <2> QED
    BY <2>1 DEF RoomInStep
<1>7. ASSUME NEW c \in ChatCalls, ExitMember(c)
      PROVE  RoomInStep'
  <2>1. /\ \A p \in People : p # target[c] => member'[p] = member[p]
        /\ lingering' = lingering \union
             {s \in Sockets : /\ OwnerOf[s] = target[c]
                              /\ member[target[c]] = "active"
                              /\ socket[s] # "closed"}
        /\ UNCHANGED <<socket, room>>
    BY <1>7 DEF ExitMember, Belongs
  <2> QED
    BY <2>1 DEF RoomInStep
<1>8. ASSUME NEW s \in Sockets,
             Connect(s) \/ AskForRoom(s) \/ JoinRoom(s) \/ Disconnect(s)
      PROVE  RoomInStep'
  <2>1. CASE Connect(s)
    BY <2>1 DEF Connect, InGroup, Belongs, RoomInStep
  <2>2. CASE AskForRoom(s)
    BY <2>2 DEF AskForRoom, Belongs, RoomInStep
  <2>3. CASE JoinRoom(s)
    BY <2>3 DEF JoinRoom, RoomInStep
  <2>4. CASE Disconnect(s)
    BY <2>4 DEF Disconnect, RoomInStep
  <2> QED
    BY <1>8, <2>1, <2>2, <2>3, <2>4
<1> QED
  BY <1>1, <1>2, <1>3, <1>4, <1>5, <1>6, <1>7, <1>8 DEF ChatNext

\* A reading has got what is stored, down to its cursor; without messages of
\* one time, what there was at its first page and it has not got is behind it.
Covered(r) ==
  \A m \in begun[r] :
    \/ m \in readBack[r]
    \/ chatPc[r] # "done" /\ cursor[r] # NoPost /\ stamp[m] < stamp[cursor[r]]

ReadingInStep(r) ==
  /\ readBack[r] \subseteq StoredMessages
  /\ begun[r] \subseteq StoredMessages
  /\ cursor[r] = NoPost => readBack[r] = {} \/ chatPc[r] = "done"
  /\ cursor[r] # NoPost =>
       /\ cursor[r] \in readBack[r]
       /\ \/ chatPc[r] = "done"
          \/ \A m \in readBack[r] : stamp[m] >= stamp[cursor[r]]
  /\ Tied \/ (r \notin twice /\ Covered(r))

PagesInStep ==
  /\ \A m \in Messages : Unstored(m) => stamp[m] = 0
  /\ \A r \in Readings : ReadingInStep(r)

LEMMA PagesUndisturbed ==
  ASSUME ChatTyped, PagesInStep, PagesStay
  PROVE  PagesInStep'
<1>1. \A m \in Messages : Unstored(m)' => stamp'[m] = 0
  BY DEF PagesStay, PagesInStep
<1>2. /\ StoredMessages \subseteq StoredMessages'
      /\ \A m \in StoredMessages : stamp'[m] = stamp[m]
  BY DEF PagesStay, StoredMessages
<1>3. Tied => Tied'
  BY <1>2 DEF Tied
<1> SUFFICES ASSUME NEW r \in Readings
             PROVE  ReadingInStep(r)'
  BY <1>1 DEF PagesInStep
<1>4. ReadingInStep(r)
  BY DEF PagesInStep
<1>5. /\ readBack' = readBack /\ begun' = begun /\ twice' = twice
      /\ cursor'[r] = cursor[r] /\ (chatPc'[r] = "done" <=> chatPc[r] = "done")
  BY DEF PagesStay
<1>6. cursor[r] # NoPost => cursor[r] \in StoredMessages
  BY <1>4 DEF ReadingInStep
<1>7. Covered(r) => Covered(r)'
  BY <1>2, <1>4, <1>5, <1>6 DEF Covered, ReadingInStep
<1> QED
  BY <1>2, <1>3, <1>4, <1>5, <1>6, <1>7 DEF ReadingInStep

LEMMA PageRead ==
  ASSUME ChatTyped, PagesInStep, NEW c \in ChatCalls, ReadPage(c)
  PROVE  PagesInStep'
<1> USE ChatKinds DEF ChatTyped, ChatTypeOK
<1> DEFINE older == Behind(cursor[c])
<1>0. c \in Readings /\ stamp' = stamp
  BY DEF ReadPage
<1>1. PICK P \in Pages(older) :
       /\ readBack' = [readBack EXCEPT ![c] = @ \union P]
       /\ twice' = IF readBack[c] \intersect P = {} THEN twice
                   ELSE twice \union {c}
       /\ IF P # older
            THEN /\ \E m \in NextCursors(P) :
                      cursor' = [cursor EXCEPT ![c] = m]
                 /\ ChatTo(c, "idle")
            ELSE UNCHANGED cursor /\ ChatTo(c, "done")
  BY DEF ReadPage
<1>2. begun' =
        IF cursor[c] = NoPost THEN [begun EXCEPT ![c] = older] ELSE begun
  BY DEF ReadPage
<1>3. StoredMessages \subseteq Messages /\ StoredMessages' = StoredMessages
      /\ (Tied' <=> Tied)
  BY <1>0 DEF StoredMessages, Tied
<1>4. P \subseteq older /\ older \subseteq StoredMessages
      /\ \A m \in P, n \in older \ P : stamp[m] >= stamp[n]
  BY DEF Pages, Behind
<1>5. \A d \in Readings : d # c =>
        /\ readBack'[d] = readBack[d] /\ begun'[d] = begun[d]
        /\ cursor'[d] = cursor[d] /\ chatPc'[d] = chatPc[d]
        /\ (d \in twice' <=> d \in twice)
  BY <1>0, <1>1, <1>2 DEF ChatTo
<1>6. \A m \in Messages : chatPc'[m] = chatPc[m]
  BY <1>0, <1>1 DEF ChatTo
<1>7. \A d \in Readings : d # c => ReadingInStep(d)'
  BY <1>0, <1>3, <1>5 DEF PagesInStep, ReadingInStep, Covered
<1>8. ReadingInStep(c)
  BY <1>0 DEF PagesInStep
<1>9. /\ readBack'[c] = readBack[c] \union P
      /\ begun'[c] = IF cursor[c] = NoPost THEN older ELSE begun[c]
      /\ chatPc[c] = "checked"
  BY <1>0, <1>1, <1>2 DEF ReadPage
<1>10. /\ readBack'[c] \subseteq StoredMessages
       /\ begun'[c] \subseteq StoredMessages
  BY <1>4, <1>8, <1>9 DEF ReadingInStep
<1>11. cursor[c] # NoPost =>
         /\ \A m \in P : stamp[m] < stamp[cursor[c]]
         /\ cursor[c] \in StoredMessages
  BY <1>4, <1>8 DEF Behind, ReadingInStep
<1>12. stamp \in [StoredMessages -> Nat] \/ \A m \in StoredMessages :
         stamp[m] \in Nat
  BY DEF StoredMessages
<1>13. readBack[c] \intersect P = {}
  BY <1>4, <1>8, <1>9, <1>11, <1>12 DEF ReadingInStep
<1>14. c \in twice' <=> c \in twice
  BY <1>1, <1>13
<1>15. ~Tied => \A m \in begun'[c] : m \in readBack[c] \/ m \in older
  BY <1>8, <1>9 DEF ReadingInStep, Covered, Behind
<1>16. CASE P = older
  <2>1. cursor' = cursor /\ chatPc'[c] = "done"
    BY <1>0, <1>1, <1>16 DEF ChatTo
  <2>2. ~Tied => Covered(c)'
    BY <1>9, <1>15, <1>16 DEF Covered
  <2>3. ReadingInStep(c)'
    BY <1>0, <1>3, <1>8, <1>9, <1>10, <1>14, <2>1, <2>2
       DEF ReadingInStep
  <2> QED
    BY <1>0, <1>6, <1>7, <2>3 DEF PagesInStep, Unstored
<1>17. CASE P # older
  <2>1. PICK m \in NextCursors(P) : cursor' = [cursor EXCEPT ![c] = m]
    BY <1>1, <1>17
  <2>2. /\ m \in P /\ m # NoPost /\ cursor'[c] = m
        /\ chatPc'[c] = "idle"
        /\ \A n \in P : stamp[m] <= stamp[n]
    BY <1>0, <1>1, <1>3, <1>4, <1>17, <2>1, ChatAssumption
       DEF NextCursors, ChatTo
  <2>3. \A n \in readBack'[c] : stamp[n] >= stamp[m]
    BY <1>4, <1>8, <1>9, <1>11, <1>12, <2>2 DEF ReadingInStep
  <2>4. ASSUME ~Tied
        PROVE  Covered(c)'
    <3>1. \A n \in older \ P : stamp[n] < stamp[m]
      BY <1>4, <1>12, <2>2, <2>4 DEF Tied
    <3> QED
      BY <1>0, <1>9, <1>15, <2>2, <2>4, <3>1 DEF Covered
  <2> QED
    BY <1>0, <1>3, <1>6, <1>7, <1>8, <1>9, <1>10, <1>14, <2>2, <2>3, <2>4
       DEF PagesInStep, ReadingInStep, Unstored
<1> QED
  BY <1>16, <1>17

LEMMA PagesKept ==
  ASSUME ChatTyped, PagesInStep, [ChatNext]_chatVars
  PROVE  PagesInStep'
<1> USE ChatKinds DEF ChatTyped, ChatTypeOK
<1>1. ASSUME NEW d \in Directs, FindDirect(d) \/ CreateDirect(d)
      PROVE  PagesStay
  BY <1>1
     DEF FindDirect, CreateDirect, PagesStay, groupVars, logVars, pageVars,
         ChatTo, Unstored
<1>2. ASSUME NEW c \in ChatCalls,
       \/ \E p \in People :
            CheckAddition(c, p) \/ CheckExit(c, p) \/ CheckPage(c, p)
       \/ \E s \in Sockets : CheckPost(c, s) \/ CheckReceipt(c, s)
       \/ AddMember(c) \/ ExitMember(c) \/ SendPost(c) \/ MarkRead(c)
      PROVE  PagesStay
  <2>1. UNCHANGED <<stamp, readBack, begun, twice>>
    BY <1>2
       DEF CheckAddition, CheckExit, CheckPage, CheckPost, CheckReceipt,
           AddMember, ExitMember, SendPost, MarkRead, logVars, pageVars
  <2>2. \A m \in Messages : Unstored(m)' => Unstored(m)
    BY <1>2
       DEF CheckAddition, CheckExit, CheckPage, CheckPost, CheckReceipt,
           AddMember, ExitMember, SendPost, MarkRead, ChatTo, Unstored
  <2>3. \A r \in Readings : cursor'[r] = cursor[r]
    BY <1>2
       DEF CheckAddition, CheckExit, CheckPage, CheckPost, CheckReceipt,
           AddMember, ExitMember, SendPost, MarkRead, logVars, pageVars
  <2>4. \A r \in Readings : chatPc'[r] = "done" <=> chatPc[r] = "done"
    BY <1>2 DEF CheckAddition, CheckExit, CheckPage, CheckPost,
       CheckReceipt, AddMember, ExitMember, SendPost, MarkRead, ChatTo
  <2> QED
    BY <2>1, <2>2, <2>3, <2>4 DEF PagesStay
<1>3. ASSUME NEW c \in ChatCalls, NoteChange(c) \/ StorePost(c)
      PROVE  PagesStay
  <2>1. /\ Unstored(c) /\ c \in Messages /\ ~Unstored(c)'
        /\ \A d \in ChatCalls : d # c => chatPc'[d] = chatPc[d]
    BY <1>3 DEF NoteChange, StorePost, Unstored, ChatTo
  <2>2. stamp[c] = 0
    BY <2>1 DEF PagesInStep
  <2>3. /\ \A m \in Messages : m # c => stamp'[m] = stamp[m]
        /\ UNCHANGED pageVars
    BY <1>3 DEF NoteChange, StorePost
  <2>4. c \notin Readings
    BY <1>3 DEF NoteChange, StorePost
  <2> QED
    BY <2>1, <2>2, <2>3, <2>4 DEF PagesStay, pageVars, Unstored
<1>4. ASSUME \/ CreateGroup \/ Tick \/ UNCHANGED chatVars
             \/ \E s \in Sockets :
                 Connect(s) \/ AskForRoom(s) \/ JoinRoom(s) \/ Disconnect(s)
      PROVE  PagesStay
  BY <1>4 DEF PagesStay, CreateGroup, Tick, chatVars, Connect, AskForRoom,
              JoinRoom, Disconnect, logVars, pageVars, Unstored
<1> QED
  BY <1>1, <1>2, <1>3, <1>4, PagesUndisturbed, PageRead DEF ChatNext

ChatInv == ChatTyped /\ DirectsInStep /\ RoomInStep /\ PagesInStep

\* ChatsHoldUnlessRaced: getOrCreateDirectChat leaves one chat to two people,
\* the room of a group holds its members' sockets, and the pages getMessages
\* gives cover the messages, each unless what its name says has happened.
THEOREM ChatsHold == ChatSpec => []ChatsHoldUnlessRaced
<1>1. ChatInit => ChatInv
  <2> SUFFICES ASSUME ChatInit
               PROVE  ChatInv
    OBVIOUS
  <2>1. DirectsInStep
    BY DEF ChatInit, DirectsInStep, ChatCalls
  <2>2. RoomInStep
    BY DEF ChatInit, RoomInStep
  <2>3. PagesInStep
    BY DEF ChatInit, PagesInStep, ReadingInStep, Covered, StoredMessages
  <2> QED
    BY <2>1, <2>2, <2>3, ChatTypedInit DEF ChatInv
<1>2. ChatInv /\ [ChatNext]_chatVars => ChatInv'
  BY ChatTypedStep, DirectsKept, RoomKept, PagesKept DEF ChatInv
<1>3. ChatInv => ChatsHoldUnlessRaced
  <2> SUFFICES ASSUME ChatInv
               PROVE  ChatsHoldUnlessRaced
    OBVIOUS
  <2>1. OneDirectChatUnlessRaced
    <3> SUFFICES ASSUME ~chatRaced
                 PROVE  Cardinality(chats) <= 1
      BY DEF OneDirectChatUnlessRaced
    <3>1. CASE chats = {}
      BY <3>1, FS_EmptySet
    <3>2. CASE chats # {}
      <4>1. PICK d \in chats : chats = {d}
        BY <3>2 DEF ChatInv, DirectsInStep
      <4> QED
        BY <4>1, FS_Singleton
    <3> QED
      BY <3>1, <3>2
  <2>2. RoomIsMembersUnlessLeft
    BY DEF ChatInv, ChatTyped, ChatTypeOK, RoomInStep, RoomIsMembersUnlessLeft
  <2>3. PagesCoverUnlessTied
    BY DEF ChatInv, ChatTyped, ChatTypeOK, PagesInStep, ReadingInStep, Covered,
           PagesCoverUnlessTied
  <2> QED
    BY <2>1, <2>2, <2>3 DEF ChatsHoldUnlessRaced
<1> QED
  BY <1>1, <1>2, <1>3, PTL DEF ChatSpec
-----------------------------------------------------------------------------
(***************************************************************************)
(* The feeds of open matches                                               *)
(***************************************************************************)

LEMMA DivTyped ==
  ASSUME NEW D \in Nat \ {0}, NEW x \in Int
  PROVE  /\ x \div D \in Int /\ x % D \in 0..(D - 1)
         /\ x = D * (x \div D) + (x % D)
OBVIOUS

LEMMA DivUnique ==
  ASSUME NEW D \in Nat \ {0}, NEW q \in Int, NEW p \in Int,
         NEW r \in 0..(D - 1), NEW s \in 0..(D - 1),
         D * q + r = D * p + s
  PROVE  q = p /\ r = s
<1>1. CASE q = p
  BY <1>1
<1>2. CASE q >= p + 1
  <2>1. D * q >= D * (p + 1)
    BY <1>2
  <2> QED
    BY <2>1
<1>3. CASE p >= q + 1
  <2>1. D * p >= D * (q + 1)
    BY <1>3
  <2> QED
    BY <2>1
<1> QED
  BY <1>1, <1>2, <1>3

LEMMA DaysLater ==
  ASSUME NEW D \in Nat \ {0}, NEW x \in Int, NEW i \in Int
  PROVE  (x + i * D) \div D = x \div D + i
<1> DEFINE q == x \div D
           y == x + i * D
<1>1. q \in Int /\ x % D \in 0..(D - 1) /\ x = D * q + (x % D)
  BY DivTyped
<1>2. y \in Int
  OBVIOUS
<1>3. y \div D \in Int /\ y % D \in 0..(D - 1) /\ y = D * (y \div D) + (y % D)
  BY <1>2, DivTyped
<1>4. y = D * (q + i) + (x % D)
  BY <1>1
<1>5. q + i \in Int
  BY <1>1
<1> HIDE DEF q, y
<1> QED
  BY <1>1, <1>3, <1>4, <1>5, DivUnique DEF y, q

\* Of two moments of one day the later one has the later hour.
LEMMA HoursInOrder ==
  ASSUME NEW D \in Nat \ {0}, NEW x \in Int, NEW y \in Int,
         x \div D = y \div D, x <= y
  PROVE  x % D <= y % D
<1>1. /\ x = D * (x \div D) + (x % D) /\ y = D * (y \div D) + (y % D)
      /\ x % D \in Int /\ y % D \in Int /\ x \div D \in Int
  BY DivTyped
<1> DEFINE q == D * (x \div D)
           r == x % D
           s == y % D
<1>2. x = q + r /\ y = q + s /\ q \in Int
  BY <1>1
<1> HIDE DEF q
<1>3. r \in Int /\ s \in Int
  BY <1>1
<1> HIDE DEF r, s
<1>4. r <= s
  BY <1>2, <1>3
<1> QED
  BY <1>4 DEF r, s

LEMMA BestOfTwo ==
  ASSUME NEW x \in Int, NEW y \in Int
  PROVE  /\ Max({x, y}) = IF x >= y THEN x ELSE y
         /\ Min({x, y}) = IF x <= y THEN x ELSE y
<1>1. Max({x, y}) \in {x, y} /\ \A z \in {x, y} : Max({x, y}) >= z
  <2>1. \E z \in {x, y} : \A k \in {x, y} : z >= k
    OBVIOUS
  <2> QED
    BY <2>1 DEF Max
<1>2. Min({x, y}) \in {x, y} /\ \A z \in {x, y} : Min({x, y}) <= z
  <2>1. \E z \in {x, y} : \A k \in {x, y} : z <= k
    OBVIOUS
  <2> QED
    BY <2>1 DEF Min
<1> QED
  BY <1>1, <1>2

-----------------------------------------------------------------------------
\* In any seven days there are three of a weekend.
LEMMA ThreeWeekendDays ==
  ASSUME NEW w \in Int
  PROVE  \E a, b, c \in 0..6 :
           /\ a < b /\ b < c
           /\ \A i \in 0..6 : (w + i) % 7 \in {0, 5, 6} <=> i \in {a, b, c}
<1> DEFINE Only(a, b, c) ==
             \A i \in 0..6 : (w + i) % 7 \in {0, 5, 6} <=> i \in {a, b, c}
           Three == \E a, b, c \in 0..6 : a < b /\ b < c /\ Only(a, b, c)
<1>1. w % 7 \in 0..6
  OBVIOUS
<1>2. ASSUME w % 7 = 0 PROVE Three
  <2>1. Only(0, 5, 6)
    BY <1>2
  <2> HIDE DEF Only
  <2> QED
    BY <2>1
<1>3. ASSUME w % 7 = 1 PROVE Three
  <2>1. Only(4, 5, 6)
    BY <1>3
  <2> HIDE DEF Only
  <2> QED
    BY <2>1
<1>4. ASSUME w % 7 = 2 PROVE Three
  <2>1. Only(3, 4, 5)
    BY <1>4
  <2> HIDE DEF Only
  <2> QED
    BY <2>1
<1>5. ASSUME w % 7 = 3 PROVE Three
  <2>1. Only(2, 3, 4)
    BY <1>5
  <2> HIDE DEF Only
  <2> QED
    BY <2>1
<1>6. ASSUME w % 7 = 4 PROVE Three
  <2>1. Only(1, 2, 3)
    BY <1>6
  <2> HIDE DEF Only
  <2> QED
    BY <2>1
<1>7. ASSUME w % 7 = 5 PROVE Three
  <2>1. Only(0, 1, 2)
    BY <1>7
  <2> HIDE DEF Only
  <2> QED
    BY <2>1
<1>8. ASSUME w % 7 = 6 PROVE Three
  <2>1. Only(0, 1, 6)
    BY <1>8
  <2> HIDE DEF Only
  <2> QED
    BY <2>1
<1>9. Three
  <2> HIDE DEF Three
  <2> QED
    BY <1>1, <1>2, <1>3, <1>4, <1>5, <1>6, <1>7, <1>8
<1> QED
  BY <1>9

\* How many members of a set of integers come before one.
BeforeIt(S, x) == Cardinality({k \in S : k < x})

\* The next member of such a set has one more member before it.
LEMMA OneMoreBefore ==
  ASSUME NEW S, IsFiniteSet(S), NEW x \in S, NEW y,
         \A k \in S : k < y <=> k < x \/ k = x, ~(x < x)
  PROVE  BeforeIt(S, x) \in Nat /\ BeforeIt(S, y) = BeforeIt(S, x) + 1
<1> DEFINE Lower == {k \in S : k < x}
<1>1. {k \in S : k < y} = Lower \union {x} /\ x \notin Lower
  OBVIOUS
<1>2. IsFiniteSet(Lower)
  BY FS_Subset
<1> HIDE DEF Lower
<1>3. /\ Cardinality(Lower) \in Nat
      /\ Cardinality(Lower \union {x}) = Cardinality(Lower) + 1
  BY <1>1, <1>2, FS_AddElement, FS_CardinalityType
<1>4. Cardinality({k \in S : k < y}) = Cardinality(Lower) + 1
  BY <1>1, <1>3
<1> QED
  BY <1>3, <1>4 DEF Lower, BeforeIt

\* How many days of a set of at most four come before each of them.
LEMMA DaysBefore ==
  ASSUME NEW near, near \subseteq Int, IsFiniteSet(near),
         NEW a \in Int, NEW b \in Int, NEW c \in Int,
         a < b, b < c, c < 7, {a, b, c} \subseteq near,
         \A i \in near : i \in {a, b, c} \/ i = 7
  PROVE  \A i \in near : BeforeIt(near, i) < 3 <=> i <= 6
<1>1. \A i \in near : i = a \/ i = b \/ i = c \/ i = 7
  OBVIOUS
<1>2. /\ \A k \in near : ~(k < a)
      /\ \A k \in near : k < b <=> k < a \/ k = a
      /\ \A k \in near : k < c <=> k < b \/ k = b
      /\ \A k \in near : k < 7 <=> k < c \/ k = c
      /\ ~(a < a) /\ ~(b < b) /\ ~(c < c)
  BY <1>1
<1>3. a \in near /\ b \in near /\ c \in near
  OBVIOUS
<1>4. BeforeIt(near, a) = 0
  <2>1. {k \in near : k < a} = {}
    BY <1>2, Zenon
  <2> QED
    BY <2>1, FS_EmptySet DEF BeforeIt
<1>5. BeforeIt(near, b) = BeforeIt(near, a) + 1
  BY <1>2, <1>3, OneMoreBefore
<1>6. BeforeIt(near, c) = BeforeIt(near, b) + 1
  BY <1>2, <1>3, OneMoreBefore
<1>7. BeforeIt(near, 7) = BeforeIt(near, c) + 1
  BY <1>2, <1>3, OneMoreBefore
<1>8. \A i \in near : BeforeIt(near, i) < 3 <=> i <= 6
  <2> SUFFICES ASSUME NEW i \in near
               PROVE  BeforeIt(near, i) < 3 <=> i <= 6
    OBVIOUS
  <2>1. CASE i = a
    BY <1>4, <2>1
  <2>2. CASE i = b
    BY <1>4, <1>5, <2>2
  <2>3. CASE i = c
    BY <1>4, <1>5, <1>6, <2>3
  <2>4. CASE i = 7
    BY <1>4, <1>5, <1>6, <1>7, <2>4
  <2> QED
    BY <1>1, <2>1, <2>2, <2>3, <2>4
<1> QED
  BY <1>8

\* The days of an interval are finitely many.
LEMMA DaysAreFinite ==
  ASSUME NEW n \in Nat
  PROVE  IsFiniteSet(0..n)
<1>1. 0 \in Int /\ n \in Int
  OBVIOUS
<1> QED
  BY <1>1, FS_Interval

\* The first three weekend days of today and the week after it are those of
\* the next seven days.
LEMMA FirstThree ==
  ASSUME NEW w \in Int, NEW near,
         near = {i \in 0..7 : (w + i) % 7 \in {0, 5, 6}}
  PROVE  {i \in near : Cardinality({k \in near : k < i}) < 3}
           = {i \in near : i <= 6}
<1>1. PICK a, b, c \in 0..6 :
        /\ a < b /\ b < c
        /\ \A i \in 0..6 : (w + i) % 7 \in {0, 5, 6} <=> i \in {a, b, c}
  BY ThreeWeekendDays
<1>2. \A i \in near : i \in {a, b, c} \/ i = 7
  BY <1>1
<1>3. {a, b, c} \subseteq near /\ near \subseteq Int /\ c < 7
  BY <1>1
<1>4. IsFiniteSet(near)
  <2>1. near \in SUBSET (0..7)
    OBVIOUS
  <2>2. IsFiniteSet(0..7)
    BY DaysAreFinite
  <2> QED
    BY <2>1, <2>2, FS_Subset, Zenon
<1>5. \A i \in near : BeforeIt(near, i) < 3 <=> i <= 6
  BY <1>1, <1>2, <1>3, <1>4, DaysBefore
<1>6. {i \in near : BeforeIt(near, i) < 3} = {i \in near : i <= 6}
  BY <1>5, Zenon
<1> QED
  BY <1>6 DEF BeforeIt

-----------------------------------------------------------------------------
\* A guest with a row that is not deleted has one.
SeatsHaveRows ==
  \A m \in OpenMatches : \A p \in seated[m] : sittings[m][p] > 0

FeedInv == FeedTypeOK /\ SeatsHaveRows

\* What the feeds count is no less than who is there.
LEMMA RowsCountGuests ==
  ASSUME FeedInv, NEW m \in OpenMatches
  PROVE  /\ RowsInFeed(m) \in Int /\ Cardinality(seated[m]) \in Nat
         /\ RowsInFeed(m) >= Cardinality(seated[m])
<1>1. /\ IsFiniteSet(Guests) /\ seated[m] \in SUBSET Guests
      /\ \A p \in Guests : sittings[m][p] \in Nat /\ sittings[m][p] \in Int
      /\ \A p \in seated[m] : sittings[m][p] > 0
  BY DiscoveryAssumption DEF FeedInv, FeedTypeOK, SeatsHaveRows
<1>2. IsFiniteSet(seated[m])
  BY <1>1, FS_Subset
<1> QED
  BY <1>1, <1>2, SumInt, SumCounts, FS_CardinalityType DEF RowsInFeed

LEMMA Places ==
  ASSUME FeedInv, NEW m \in OpenMatches
  PROVE  /\ SpotsLeft(m) \in Int /\ SlotsAvailable(m) \in Nat
         /\ SpotsLeft(m) <= SlotsAvailable(m)
         /\ SlotsAvailable(m) > 0 /\ RowsInFeed(m) <= Cardinality(seated[m])
              => SpotsLeft(m) > 0
<1>1. /\ RowsInFeed(m) \in Int /\ Cardinality(seated[m]) \in Nat
      /\ RowsInFeed(m) >= Cardinality(seated[m])
  BY RowsCountGuests
<1>2. Spots[m] \in Nat
  BY DiscoveryAssumption
<1> DEFINE x == Spots[m] - Cardinality(seated[m])
<1>3. x \in Int
  BY <1>1, <1>2
<1>4. SlotsAvailable(m) = IF x >= 0 THEN x ELSE 0
  <2> HIDE DEF x
  <2>1. Max({x, 0}) = IF x >= 0 THEN x ELSE 0
    BY <1>3, BestOfTwo
  <2> QED
    BY <2>1 DEF SlotsAvailable, x
<1> QED
  BY <1>1, <1>2, <1>4 DEF SpotsLeft

\* What a page shows.
LEMMA PagesShow ==
  ASSUME NEW feed \in Feeds, NEW page \in FeedPages(feed)
  PROVE  /\ page \subseteq NotMine(Roomy(feed))
         /\ \A m \in page :
              /\ m \in OpenMatches /\ m \in Found(feed) /\ SpotsLeft(m) > 0
              /\ sittings[m][Me] = 0
         /\ \A m \in NotMine(Roomy(feed)) \ page :
              Cardinality(page) = PageSize /\ \A n \in page :
                Points(n) >= Points(m)
<1> DEFINE ms == NotMine(Roomy(feed))
<1>1. ms \subseteq OpenMatches /\ \A m \in ms :
        /\ m \in Found(feed) /\ SpotsLeft(m) > 0 /\ sittings[m][Me] = 0
  BY DEF NotMine, Roomy, Found, Tonight, Tomorrow, Weekend, Feeds
<1>2. /\ page \subseteq ms
      /\ Cardinality(page) = Min({PageSize, Cardinality(ms)})
      /\ \A m \in page, n \in ms \ page : Points(m) >= Points(n)
  BY DEF FeedPages, Best, kSubset
<1>3. ASSUME NEW m \in ms \ page
      PROVE  Cardinality(page) = PageSize
  <2>1. IsFiniteSet(ms) /\ IsFiniteSet(page)
    <3> HIDE DEF ms
    <3> QED
      BY <1>1, <1>2, DiscoveryAssumption, FS_Subset
  <2>2. /\ Cardinality(page) \in Nat /\ Cardinality(ms) \in Nat
        /\ Cardinality(page) <= Cardinality(ms)
        /\ Cardinality(page) # Cardinality(ms)
    <3> HIDE DEF ms
    <3> QED
      BY <1>2, <1>3, <2>1, FS_Subset, FS_CardinalityType
  <2>3. PageSize \in Int
    BY DiscoveryAssumption
  <2>4. Min({PageSize, Cardinality(ms)})
          = IF PageSize <= Cardinality(ms) THEN PageSize ELSE Cardinality(ms)
    <3> HIDE DEF ms
    <3> QED
      BY <2>2, <2>3, BestOfTwo
  <2> QED
    BY <1>2, <2>2, <2>4
<1> QED
  BY <1>1, <1>2, <1>3

\* The dates in UTC of the days to come.
LEMMA Dates ==
  ASSUME FeedTypeOK
  PROVE  /\ serverTime - ahead \in Int /\ DayOf(serverTime) \in Int
         /\ UtcDate(serverTime) \in Int /\ NepalTime \in Int
         /\ NepalTime - NepalAhead = serverTime - ahead
         /\ \A i \in Int : UtcDate(serverTime + i * DayTicks)
                             = UtcDate(serverTime) + i
         /\ UtcDate(serverTime + DayTicks) = UtcDate(serverTime) + 1
<1>1. /\ serverTime \in Nat /\ ahead \in Nat /\ NepalAhead \in Nat
      /\ DayTicks \in Nat \ {0}
  BY DiscoveryAssumption DEF FeedTypeOK
<1> DEFINE x == serverTime - ahead
<1>2. x \in Int
  BY <1>1
<1>3. ASSUME NEW i \in Int
      PROVE  (x + i * DayTicks) \div DayTicks = x \div DayTicks + i
  <2> HIDE DEF x
  <2> QED
    BY <1>1, <1>2, DaysLater
<1>4. \A i \in Int : (serverTime + i * DayTicks) - ahead = x + i * DayTicks
  BY <1>1
<1>5. \A i \in Int :
        UtcDate(serverTime + i * DayTicks) = UtcDate(serverTime) + i
  BY <1>3, <1>4 DEF UtcDate, DayOf
<1>6. serverTime + 1 * DayTicks = serverTime + DayTicks
  BY <1>1
<1>7. UtcDate(serverTime + DayTicks) = UtcDate(serverTime) + 1
  BY <1>5, <1>6
<1>8. DayOf(serverTime) \in Int /\ x \div DayTicks \in Int
  <2> HIDE DEF x
  <2> QED
    BY <1>1, <1>2, DivTyped DEF DayOf
<1> QED
  BY <1>1, <1>2, <1>5, <1>7, <1>8 DEF UtcDate, DayOf, NepalTime

LEMMA OffersPossible ==
  ASSUME FeedInv
  PROVE  OffersArePossible
<1> SUFFICES ASSUME NEW feed \in Feeds, NEW page \in FeedPages(feed),
                    NEW m \in page
             PROVE  /\ m \in OpenList
                    /\ Me \notin seated[m] /\ SlotsAvailable(m) > 0
                    /\ SpotsLeft(m) <= SlotsAvailable(m)
  BY DEF OffersArePossible
<1>1. /\ m \in OpenMatches /\ m \in Found(feed) /\ SpotsLeft(m) > 0
      /\ sittings[m][Me] = 0
  BY PagesShow
<1>2. Me \notin seated[m]
  BY <1>1 DEF FeedInv, SeatsHaveRows
<1>3. SlotsAvailable(m) > 0 /\ SpotsLeft(m) <= SlotsAvailable(m)
  BY <1>1, Places
<1>4. MatchDay[m] >= UtcDate(serverTime)
  <2>1. /\ UtcDate(serverTime) \in Int
        /\ \A i \in Int : UtcDate(serverTime + i * DayTicks)
                            = UtcDate(serverTime) + i
        /\ UtcDate(serverTime + DayTicks) = UtcDate(serverTime) + 1
    BY Dates DEF FeedInv
  <2>2. CASE feed = "tonight"
    BY <1>1, <2>1, <2>2 DEF Found, Tonight
  <2>3. CASE feed = "tomorrow"
    BY <1>1, <2>1, <2>3 DEF Found, Tomorrow
  <2>4. CASE feed = "weekend"
    <3>1. PICK i \in 0..7 : MatchDay[m] = UtcDate(serverTime + i * DayTicks)
      BY <1>1, <2>4 DEF Found, Weekend
    <3> QED
      BY <2>1, <3>1
  <2> QED
    BY <2>2, <2>3, <2>4 DEF Feeds
<1> QED
  BY <1>1, <1>2, <1>3, <1>4 DEF OpenList

\* The weekend's feed is that of the next seven days.
LEMMA WeekendIsNear ==
  ASSUME FeedTypeOK, NEW m \in OpenMatches
  PROVE  m \in Weekend <=>
           \E i \in 0..6 : /\ IsWeekend(DayOf(serverTime) + i)
                           /\ MatchDay[m] = UtcDate(serverTime) + i
<1> DEFINE near == {i \in 0..7 : IsWeekend(DayOf(serverTime) + i)}
           three == {i \in near : Cardinality({k \in near : k < i}) < 3}
           w == weekday0 + DayOf(serverTime)
<1>1. weekday0 \in Int /\ DayOf(serverTime) \in Int /\ w \in Int
  BY Dates DEF FeedTypeOK
<1>2. near = {i \in 0..7 : (w + i) % 7 \in {0, 5, 6}}
  <2>1. \A i \in 0..7 : weekday0 + (DayOf(serverTime) + i) = w + i
    BY <1>1
  <2> QED
    BY <2>1 DEF IsWeekend
<1>3. three = {i \in near : i <= 6}
  <2> HIDE DEF near, w
  <2> QED
    BY <1>1, <1>2, FirstThree
<1>4. m \in Weekend <=>
        \E i \in three : MatchDay[m] = UtcDate(serverTime + i * DayTicks)
  BY DEF Weekend
<1>5. \A i \in 0..7 :
        UtcDate(serverTime + i * DayTicks) = UtcDate(serverTime) + i
  BY Dates
<1>6. \A i : i \in three <=> i \in 0..6 /\ IsWeekend(DayOf(serverTime) + i)
  BY <1>3
<1> HIDE DEF three, near
<1> QED
  BY <1>4, <1>5, <1>6

\* While the days agree they are one.
LEMMA OneDay ==
  ASSUME FeedTypeOK, SameDay
  PROVE  /\ UtcDate(serverTime) = DayOf(NepalTime)
         /\ DayOf(serverTime) = DayOf(NepalTime)
         /\ HourOf(serverTime) \in Int /\ HourOf(NepalTime) \in Int
         /\ HourOf(serverTime) <= HourOf(NepalTime)
         /\ ahead = NepalAhead => NepalTime = serverTime
<1>1. /\ NepalTime - NepalAhead = serverTime - ahead
      /\ UtcDate(serverTime) = DayOf(serverTime - ahead)
  BY Dates DEF UtcDate
<1>2. /\ serverTime \in Int /\ NepalTime \in Int /\ serverTime <= NepalTime
      /\ DayTicks \in Nat \ {0}
      /\ ahead = NepalAhead => NepalTime = serverTime
  BY DiscoveryAssumption DEF FeedTypeOK, NepalTime
<1>3. /\ serverTime \div DayTicks = NepalTime \div DayTicks
      /\ DayOf(serverTime - ahead) = DayOf(NepalTime)
  BY <1>1 DEF SameDay, DayOf
<1>4. HourOf(serverTime) <= HourOf(NepalTime)
  BY <1>2, <1>3, HoursInOrder DEF HourOf
<1>5. HourOf(serverTime) \in Int /\ HourOf(NepalTime) \in Int
  BY <1>2, DivTyped DEF HourOf
<1> QED
  BY <1>1, <1>2, <1>3, <1>4, <1>5 DEF SameDay

LEMMA OffersInTime ==
  ASSUME FeedInv
  PROVE  OffersAreInTime
<1> SUFFICES ASSUME SameDay, NEW feed \in Feeds,
                    NEW page \in FeedPages(feed), NEW m \in page,
                    feed = "tonight" => ahead = NepalAhead
             PROVE  IsOf(m, feed)
  BY DEF OffersAreInTime
<1>1. m \in OpenMatches /\ m \in Found(feed)
  BY PagesShow
<1>2. /\ UtcDate(serverTime) = DayOf(NepalTime)
      /\ DayOf(serverTime) = DayOf(NepalTime) /\ DayOf(serverTime) \in Int
      /\ ahead = NepalAhead => NepalTime = serverTime
  BY OneDay, Dates DEF FeedInv
<1>3. CASE feed = "tonight"
  BY <1>1, <1>2, <1>3 DEF Found, Tonight, IsOf
<1>4. CASE feed = "tomorrow"
  <2>1. UtcDate(serverTime + DayTicks) = UtcDate(serverTime) + 1
    BY Dates DEF FeedInv
  <2> QED
    BY <1>1, <1>2, <1>4, <2>1 DEF Found, Tomorrow, IsOf
<1>5. CASE feed = "weekend"
  <2>1. PICK i \in 0..6 : /\ IsWeekend(DayOf(serverTime) + i)
                          /\ MatchDay[m] = UtcDate(serverTime) + i
    BY <1>1, <1>5, WeekendIsNear DEF Found, FeedInv
  <2>2. MatchDay[m] \in DayOf(NepalTime)..(DayOf(NepalTime) + 6)
    BY <1>2, <2>1
  <2>3. IsWeekend(MatchDay[m])
    BY <1>2, <2>1
  <2> QED
    BY <1>5, <2>2, <2>3 DEF IsOf
<1> QED
  BY <1>3, <1>4, <1>5 DEF Feeds

LEMMA NoneMissed ==
  ASSUME FeedInv
  PROVE  NothingIsMissed
<1> SUFFICES ASSUME SameDay, NEW feed \in Feeds,
                    NEW page \in FeedPages(feed),
                    NEW m \in OpenMatches \ page,
                    IsOf(m, feed), sittings[m][Me] = 0, SlotsAvailable(m) > 0,
                    ~(RowsInFeed(m) > Cardinality(seated[m]))
             PROVE  /\ Cardinality(page) = PageSize
                    /\ \A n \in page : Points(n) >= Points(m)
  BY DEF NothingIsMissed
<1>1. /\ UtcDate(serverTime) = DayOf(NepalTime)
      /\ DayOf(serverTime) = DayOf(NepalTime) /\ DayOf(serverTime) \in Int
      /\ HourOf(serverTime) \in Int /\ HourOf(NepalTime) \in Int
      /\ HourOf(serverTime) <= HourOf(NepalTime)
  BY OneDay, Dates DEF FeedInv
<1>2. m \in Found(feed)
  <2>1. CASE feed = "tonight"
    <3>1. /\ MatchDay[m] = UtcDate(serverTime)
          /\ HourOf(NepalTime) <= Cutoff
          /\ StartTick[m] >= HourOf(NepalTime) + Lead
      BY <1>1, <2>1 DEF IsOf
    <3>2. Cutoff \in Int /\ Lead \in Int /\ StartTick[m] \in Int
      BY DiscoveryAssumption
    <3>3. /\ HourOf(serverTime) <= Cutoff
          /\ StartTick[m] >= HourOf(serverTime) + Lead
      BY <1>1, <3>1, <3>2
    <3> QED
      BY <2>1, <3>1, <3>3 DEF Found, Tonight
  <2>2. CASE feed = "tomorrow"
    <3>1. UtcDate(serverTime + DayTicks) = UtcDate(serverTime) + 1
      BY Dates DEF FeedInv
    <3> QED
      BY <1>1, <2>2, <3>1 DEF Found, Tomorrow, IsOf
  <2>3. CASE feed = "weekend"
    <3>1. /\ MatchDay[m] \in DayOf(NepalTime)..(DayOf(NepalTime) + 6)
          /\ IsWeekend(MatchDay[m])
      BY <2>3 DEF IsOf
    <3> DEFINE i == MatchDay[m] - DayOf(NepalTime)
    <3>2. i \in 0..6 /\ MatchDay[m] = DayOf(NepalTime) + i
      BY <1>1, <3>1
    <3>3. m \in Weekend
      <4> HIDE DEF i
      <4> QED
        BY <1>1, <3>1, <3>2, WeekendIsNear DEF FeedInv
    <3> QED
      BY <2>3, <3>3 DEF Found
  <2> QED
    BY <2>1, <2>2, <2>3 DEF Feeds
<1>3. RowsInFeed(m) <= Cardinality(seated[m])
  BY RowsCountGuests
<1>4. SpotsLeft(m) > 0
  BY <1>3, Places
<1>5. m \in NotMine(Roomy(feed)) \ page
  BY <1>2, <1>4 DEF NotMine, Roomy
<1> QED
  BY <1>5, PagesShow

LEMMA FeedInvInit == FeedInit => FeedInv
<1> SUFFICES ASSUME FeedInit PROVE FeedInv
  OBVIOUS
<1>1. FeedTypeOK
  BY DiscoveryAssumption DEF FeedInit, FeedTypeOK
<1>2. SeatsHaveRows
  BY DEF FeedInit, SeatsHaveRows
<1> QED
  BY <1>1, <1>2 DEF FeedInv

LEMMA FeedInvStep ==
  ASSUME FeedInv, [FeedNext]_feedVars
  PROVE  FeedInv'
<1> USE DEF FeedInv, FeedTypeOK, SeatsHaveRows
<1>1. ASSUME NEW p \in Guests, NEW m \in OpenMatches, Sit(p, m)
      PROVE  FeedInv'
  <2>1. /\ sittings' = [sittings EXCEPT ![m][p] = @ + 1]
        /\ seated' = [seated EXCEPT ![m] = @ \union {p}]
        /\ UNCHANGED <<serverTime, ahead, weekday0>>
    BY <1>1 DEF Sit
  <2>2. sittings[m] \in [Guests -> Nat]
    OBVIOUS
  <2>3. /\ sittings' \in [OpenMatches -> [Guests -> Nat]]
        /\ seated' \in [OpenMatches -> SUBSET Guests]
    BY <2>1, <2>2
  <2>4. SeatsHaveRows'
    <3> SUFFICES ASSUME NEW n \in OpenMatches, NEW g \in seated'[n]
                 PROVE  sittings'[n][g] > 0
      OBVIOUS
    <3>1. g \in Guests /\ sittings[n][g] \in Nat /\ sittings[m][p] \in Nat
      BY <2>3
    <3>2. CASE n = m /\ g = p
      <4>1. sittings'[n][g] = sittings[m][p] + 1
        BY <2>1, <2>2, <3>2
      <4> QED
        BY <3>1, <4>1
    <3>3. CASE ~(n = m /\ g = p)
      <4>1. sittings'[n][g] = sittings[n][g] /\ g \in seated[n]
        BY <2>1, <2>2, <3>1, <3>3
      <4> QED
        BY <4>1
    <3> QED
      BY <3>2, <3>3
  <2> QED
    BY <2>1, <2>3, <2>4
<1>2. ASSUME NEW p \in Guests, NEW m \in OpenMatches, GetUp(p, m)
      PROVE  FeedInv'
  BY <1>2 DEF GetUp
<1>3. CASE FeedTick
  <2>1. serverTime' \in 0..LastFeedTick
    BY <1>3, DiscoveryAssumption DEF FeedTick
  <2> QED
    BY <1>3, <2>1 DEF FeedTick
<1>4. CASE UNCHANGED feedVars
  BY <1>4 DEF feedVars
<1> QED
  BY <1>1, <1>2, <1>3, <1>4 DEF FeedNext

\* A player finds the matches of the day a feed names, and those only, with no
\* more places than they have, for any matches, guests and length of a day.
THEOREM FeedsHold == FeedSpec => []FeedsHoldUnlessSkewed
<1>1. FeedInit => FeedInv
  BY FeedInvInit
<1>2. FeedInv /\ [FeedNext]_feedVars => FeedInv'
  BY FeedInvStep
<1>3. FeedInv => FeedsHoldUnlessSkewed
  BY OffersPossible, OffersInTime, NoneMissed DEF FeedsHoldUnlessSkewed
<1> QED
  BY <1>1, <1>2, <1>3, PTL DEF FeedSpec
=============================================================================

-------------------------------- MODULE Chat --------------------------------
(***************************************************************************)
(* The chats between two people, one group chat, and the sockets that hear *)
(* them: ChatService with ChatGateway.                                     *)
(*                                                                         *)
(* The tables say who belongs to a chat; the rooms of the socket server    *)
(* say who hears it.  The gateway looks into the tables when a socket      *)
(* connects or asks for a room, and joins the room some steps later;       *)
(* nothing tells it that somebody has left.                                *)
(*                                                                         *)
(* Messages are read back in pages, newest first: a page begins behind the *)
(* time of the oldest message of the page before.                          *)
(***************************************************************************)
EXTENDS Naturals, FiniteSets

CONSTANTS
  People,      \* the people
  Founder,     \* the one who makes the group, and its only admin
  Directs,     \* calls of getOrCreateDirectChat, for one pair of people
  Entries,     \* calls of addParticipant
  Exits,       \* calls of removeParticipant
  Posts,       \* calls of sendMessage
  Readings,    \* series of calls of getMessages, each with the cursor it got
  Receipts,    \* calls of markMessageRead
  PageLimit,   \* limit of getMessages
  LastStamp,   \* bound: the times a message may be stored at
  Sockets,     \* connections of a client
  OwnerOf,     \* the person behind each socket
  NoPerson,    \* not a person
  NoPost       \* not a message

\* Entries and exits leave a message of the system behind.
Messages == Posts \union Entries \union Exits

ChatCalls == Directs \union Entries \union Exits \union Posts
               \union Readings \union Receipts

ASSUME ChatAssumption ==
  /\ Directs \intersect (Messages \union Readings \union Receipts) = {}
  /\ Entries \intersect (Exits \union Posts \union Readings \union Receipts)
       = {}
  /\ Exits \intersect (Posts \union Readings \union Receipts) = {}
  /\ Posts \intersect (Readings \union Receipts) = {}
  /\ Readings \intersect Receipts = {}
  /\ Founder \in People
  /\ NoPerson \notin People
  /\ NoPost \notin Messages
  /\ {PageLimit, LastStamp} \subseteq Nat \ {0}
  /\ OwnerOf \in [Sockets -> People]

VARIABLES
  chats,        \* the direct chats of the pair
  member,       \* the row of chat_participants of each person in the group
  chatPc,       \* how far each call has come
  target,       \* whom a call is about: who is added, leaves or writes
  socket,       \* the state of each connection
  room,         \* the sockets in the group's room
  heard,        \* the sockets that have got each message
  clock,        \* the time
  stamp,        \* created_at of each message; 0, it is not stored
  reads,        \* the rows of message_reads
  cursor,       \* the nextCursor of each reading, the message of a receipt
  readBack,     \* the messages each reading has got
  begun,        \* history: the messages there were at its first page
  twice,        \* history: the readings that got a message again
  chatRaced,    \* history: two calls found no direct chat
  lingering     \* history: the sockets whose person left while they were open

pageVars == <<reads, cursor, readBack, begun, twice>>
logVars == <<clock, stamp, pageVars>>
chatVars == <<chats, member, chatPc, target, socket, room, heard, chatRaced,
              lingering, logVars>>
groupVars == <<member, target, socket, room, heard, lingering, logVars>>

-----------------------------------------------------------------------------
MemberState == {"none", "active", "left"}
SocketState == {"closed", "listed", "asked", "open"}

\* Mutant of Belongs: a row is enough, and left_at is not looked at.
BelongsOnce(p) == member[p] # "none"

\* assertParticipant: the row is there, and nobody has left.
Belongs(p) == member[p] = "active"

\* getUserChats of the person behind a socket: the group is among the chats.
InGroup(s) == Belongs(OwnerOf[s])

\* assertAdmin: only who made the group is an admin of it.
Admin(p) == p = Founder /\ Belongs(p)

ChatInit ==
  /\ chats = {}
  /\ member = [p \in People |-> "none"]
  /\ chatPc = [c \in ChatCalls |-> "idle"]
  /\ target = [c \in ChatCalls \ Directs |-> NoPerson]
  /\ clock = 1
  /\ stamp = [m \in Messages |-> 0]
  /\ reads = {}
  /\ cursor = [c \in Readings \union Receipts |-> NoPost]
  /\ readBack = [r \in Readings |-> {}]
  /\ begun = [r \in Readings |-> {}]
  /\ twice = {}
  /\ socket = [s \in Sockets |-> "closed"]
  /\ room = {}
  /\ heard = [c \in Posts |-> {}]
  /\ chatRaced = FALSE
  /\ lingering = {}

ChatTo(c, s) == chatPc' = [chatPc EXCEPT ![c] = s]

-----------------------------------------------------------------------------
(***************************************************************************)
(* Direct chats                                                            *)
(***************************************************************************)

ChatFound == chats # {}

FindDirect(d) ==
  /\ d \in Directs
  /\ chatPc[d] = "idle"
  /\ ChatTo(d, IF ChatFound THEN "done" ELSE "creating")
  /\ chatRaced' = (chatRaced \/
       (~ChatFound /\ \E e \in Directs : chatPc[e] = "creating"))
  /\ UNCHANGED <<chats, groupVars>>

CreateDirect(d) ==
  /\ d \in Directs
  /\ chatPc[d] = "creating"
  /\ chats' = chats \union {d}
  /\ ChatTo(d, "done")
  /\ UNCHANGED <<groupVars, chatRaced>>

-----------------------------------------------------------------------------
(***************************************************************************)
(* The group                                                               *)
(***************************************************************************)

\* createGroupChat: at least two participants are named, but they are counted
\* before repeated names are dropped, so that one other person is enough.  The
\* founder's own name among them is a second row of the same person, which the
\* database refuses.
CreateGroup ==
  /\ \A p \in People : member[p] = "none"
  /\ \E S \in SUBSET (People \ {Founder}) :
       /\ S # {}
       /\ member' = [p \in People |-> IF p \in S \union {Founder}
                                      THEN "active" ELSE "none"]
  /\ UNCHANGED <<chats, chatPc, target, socket, room, heard, chatRaced,
                 lingering, logVars>>

\* addParticipant: by an admin, of somebody who is not in the group now.
CheckAddition(c, p) ==
  /\ c \in Entries
  /\ chatPc[c] = "idle"
  /\ \E a \in People : Admin(a)
  /\ member[p] # "active"
  /\ target' = [target EXCEPT ![c] = p]
  /\ ChatTo(c, "checked")
  /\ UNCHANGED <<chats, member, socket, room, heard, chatRaced, lingering,
                 logVars>>

\* One row for each person and chat: who has left cannot come back.
AddMember(c) ==
  /\ c \in Entries
  /\ chatPc[c] = "checked"
  /\ IF member[target[c]] = "none"
       THEN /\ member' = [member EXCEPT ![target[c]] = "active"]
            /\ ChatTo(c, "noting")
       ELSE UNCHANGED member /\ ChatTo(c, "done")
  /\ UNCHANGED <<chats, target, socket, room, heard, chatRaced, lingering,
                 logVars>>

\* removeParticipant: by an admin, or of oneself.
CheckExit(c, p) ==
  /\ c \in Exits
  /\ chatPc[c] = "idle"
  /\ member[p] = "active"
  /\ target' = [target EXCEPT ![c] = p]
  /\ ChatTo(c, "checked")
  /\ UNCHANGED <<chats, member, socket, room, heard, chatRaced, lingering,
                 logVars>>

ExitMember(c) ==
  /\ c \in Exits
  /\ chatPc[c] = "checked"
  /\ member' = [member EXCEPT ![target[c]] = "left"]
  /\ lingering' = lingering \union
       {s \in Sockets : /\ OwnerOf[s] = target[c]
                        /\ Belongs(target[c])
                        /\ socket[s] # "closed"}
  /\ ChatTo(c, "noting")
  /\ UNCHANGED <<chats, target, socket, room, heard, chatRaced, logVars>>

\* createSystemMessage: stored, and sent to nobody.
NoteChange(c) ==
  /\ c \in Entries \union Exits
  /\ chatPc[c] = "noting"
  /\ stamp' = [stamp EXCEPT ![c] = clock]
  /\ ChatTo(c, "done")
  /\ UNCHANGED <<chats, member, target, socket, room, heard, chatRaced,
                 lingering, clock, pageVars>>

-----------------------------------------------------------------------------
(***************************************************************************)
(* Sockets                                                                 *)
(***************************************************************************)

\* handleConnection reads the person's chats, and then joins their rooms.
Connect(s) ==
  /\ socket[s] = "closed"
  /\ socket' = [socket EXCEPT ![s] = IF InGroup(s) THEN "listed"
                                     ELSE "open"]
  /\ UNCHANGED <<chats, member, chatPc, target, room, heard, chatRaced,
                 lingering, logVars>>

\* handleJoinChat: assertParticipant.
AskForRoom(s) ==
  /\ socket[s] = "open"
  /\ s \notin room
  /\ Belongs(OwnerOf[s])
  /\ socket' = [socket EXCEPT ![s] = "asked"]
  /\ UNCHANGED <<chats, member, chatPc, target, room, heard, chatRaced,
                 lingering, logVars>>

JoinRoom(s) ==
  /\ socket[s] \in {"listed", "asked"}
  /\ room' = room \union {s}
  /\ socket' = [socket EXCEPT ![s] = "open"]
  /\ UNCHANGED <<chats, member, chatPc, target, heard, chatRaced, lingering,
                 logVars>>

Disconnect(s) ==
  /\ socket[s] # "closed"
  /\ room' = room \ {s}
  /\ socket' = [socket EXCEPT ![s] = "closed"]
  /\ lingering' = lingering \ {s}
  /\ UNCHANGED <<chats, member, chatPc, target, heard, chatRaced, logVars>>

\* sendMessage, which only a socket can ask for: assertParticipant.
CheckPost(c, s) ==
  /\ c \in Posts
  /\ chatPc[c] = "idle"
  /\ socket[s] # "closed"
  /\ Belongs(OwnerOf[s])
  /\ target' = [target EXCEPT ![c] = OwnerOf[s]]
  /\ ChatTo(c, "checked")
  /\ UNCHANGED <<chats, member, socket, room, heard, chatRaced, lingering,
                 logVars>>

\* The message is stored, and then sent to all in the room.
StorePost(c) ==
  /\ c \in Posts
  /\ chatPc[c] = "checked"
  /\ stamp' = [stamp EXCEPT ![c] = clock]
  /\ ChatTo(c, "stored")
  /\ UNCHANGED <<chats, member, target, socket, room, heard, chatRaced,
                 lingering, clock, pageVars>>

SendPost(c) ==
  /\ c \in Posts
  /\ chatPc[c] = "stored"
  /\ heard' = [heard EXCEPT ![c] = room]
  /\ ChatTo(c, "done")
  /\ UNCHANGED <<chats, member, target, socket, room, chatRaced, lingering,
                 logVars>>

Tick ==
  /\ clock < LastStamp
  /\ clock' = clock + 1
  /\ UNCHANGED <<chats, member, chatPc, target, socket, room, heard, chatRaced,
                 lingering, stamp, pageVars>>

-----------------------------------------------------------------------------
(***************************************************************************)
(* Reading                                                                 *)
(***************************************************************************)
StoredMessages == {m \in Messages : stamp[m] # 0}

\* What comes behind a cursor: messages of an earlier time.
Behind(m) ==
  IF m = NoPost THEN StoredMessages
                ELSE {n \in StoredMessages : stamp[n] < stamp[m]}

\* The newest of some messages, as many as a page holds; of messages of one
\* time any may come first.
Pages(S) ==
  {P \in SUBSET S :
     /\ Cardinality(P) = PageLimit \/ (P = S /\ Cardinality(P) < PageLimit)
     /\ \A m \in P, n \in S \ P : stamp[m] >= stamp[n]}

\* Mutant of NextCursors: the newest of the page, as it was before reverse.
NextCursorsNewest(P) == {m \in P : \A n \in P : stamp[m] >= stamp[n]}

\* messages[0] of the page that has been put into the order of time.
NextCursors(P) == {m \in P : \A n \in P : stamp[m] <= stamp[n]}

CheckPage(c, p) ==
  /\ c \in Readings
  /\ chatPc[c] = "idle"
  /\ target[c] \in {NoPerson, p}
  /\ Belongs(p)
  /\ target' = [target EXCEPT ![c] = p]
  /\ ChatTo(c, "checked")
  /\ UNCHANGED <<chats, member, socket, room, heard, chatRaced, lingering,
                 logVars>>

\* One more than the limit is read, to see whether there is more.
ReadPage(c) ==
  LET older == Behind(cursor[c]) IN
  /\ c \in Readings
  /\ chatPc[c] = "checked"
  /\ \E P \in Pages(older) :
       /\ readBack' = [readBack EXCEPT ![c] = @ \union P]
       /\ twice' = IF readBack[c] \intersect P = {} THEN twice
                   ELSE twice \union {c}
       /\ IF P # older
            THEN /\ \E m \in NextCursors(P) :
                      cursor' = [cursor EXCEPT ![c] = m]
                 /\ ChatTo(c, "idle")
            ELSE UNCHANGED cursor /\ ChatTo(c, "done")
  /\ begun' = IF cursor[c] = NoPost THEN [begun EXCEPT ![c] = older]
              ELSE begun
  /\ UNCHANGED <<chats, member, target, socket, room, heard, chatRaced,
                 lingering, clock, stamp, reads>>

\* markMessageRead, which only a socket can ask for: assertParticipant.
CheckReceipt(c, s) ==
  /\ c \in Receipts
  /\ chatPc[c] = "idle"
  /\ socket[s] # "closed"
  /\ Belongs(OwnerOf[s])
  /\ \E m \in StoredMessages : cursor' = [cursor EXCEPT ![c] = m]
  /\ target' = [target EXCEPT ![c] = OwnerOf[s]]
  /\ ChatTo(c, "checked")
  /\ UNCHANGED <<chats, member, socket, room, heard, chatRaced, lingering,
                 clock, stamp, reads, readBack, begun, twice>>

\* One row for each message and person.
MarkRead(c) ==
  /\ c \in Receipts
  /\ chatPc[c] = "checked"
  /\ reads' = reads \union {<<cursor[c], target[c]>>}
  /\ ChatTo(c, "done")
  /\ UNCHANGED <<chats, member, target, socket, room, heard, chatRaced,
                 lingering, clock, stamp, cursor, readBack, begun, twice>>

-----------------------------------------------------------------------------
ChatNext ==
  \/ \E d \in Directs : FindDirect(d) \/ CreateDirect(d)
  \/ CreateGroup
  \/ \E c \in ChatCalls :
       \/ \E p \in People :
            CheckAddition(c, p) \/ CheckExit(c, p) \/ CheckPage(c, p)
       \/ \E s \in Sockets : CheckPost(c, s) \/ CheckReceipt(c, s)
       \/ AddMember(c) \/ ExitMember(c) \/ NoteChange(c)
       \/ StorePost(c) \/ SendPost(c)
       \/ ReadPage(c) \/ MarkRead(c)
  \/ Tick
  \/ \E s \in Sockets :
       Connect(s) \/ AskForRoom(s) \/ JoinRoom(s) \/ Disconnect(s)

ChatSpec == ChatInit /\ [][ChatNext]_chatVars

-----------------------------------------------------------------------------
(***************************************************************************)
(* Properties                                                              *)
(***************************************************************************)
ChatTypeOK ==
  /\ chats \subseteq Directs
  /\ member \in [People -> MemberState]
  /\ chatPc \in [ChatCalls ->
                  {"idle", "creating", "checked", "noting", "stored", "done"}]
  /\ target \in [ChatCalls \ Directs -> People \union {NoPerson}]
  /\ socket \in [Sockets -> SocketState]
  /\ room \subseteq Sockets
  /\ heard \in [Posts -> SUBSET Sockets]
  /\ chatRaced \in BOOLEAN
  /\ lingering \subseteq Sockets
  /\ clock \in 1..LastStamp
  /\ stamp \in [Messages -> 0..LastStamp]
  /\ reads \subseteq Messages \X People
  /\ cursor \in [Readings \union Receipts -> Messages \union {NoPost}]
  /\ {readBack, begun} \subseteq [Readings -> SUBSET Messages]
  /\ twice \subseteq Readings

\* "Only ONE direct chat per (userId+role) pair", unless the two people (or
\* one of them twice) open it at once: no key stands behind the search.
OneDirectChatUnlessRaced == chatRaced \/ Cardinality(chats) <= 1

\* The sockets in a group's room are those of its members; only one that was
\* open, or just connecting, when its person left goes on hearing the group,
\* and no longer than until it is closed.
RoomIsMembersUnlessLeft ==
  \A s \in room : member[OwnerOf[s]] = "active" \/ s \in lingering

Tied == \E m, n \in StoredMessages : m # n /\ stamp[m] = stamp[n]

\* Who follows the cursors to the end gets every message there was when the
\* first page was read, and none twice, whatever is written meanwhile; unless
\* two messages have the same time, when those behind the cursor are skipped.
PagesCoverUnlessTied ==
  \/ Tied
  \/ /\ twice = {}
     /\ \A r \in Readings :
          chatPc[r] = "done" => begun[r] \subseteq readBack[r]

\* Two people find the same chat, a group is heard by its members, and its
\* messages can be read back.
ChatsHoldUnlessRaced ==
  OneDirectChatUnlessRaced /\ RoomIsMembersUnlessLeft /\ PagesCoverUnlessTied
=============================================================================

----------------------------- MODULE InviteLinks -----------------------------
(***************************************************************************)
(* The invite link of one match: generateInviteLink gives the organiser    *)
(* the link there is while it is good and makes another when it is not,    *)
(* and getInvitePreview answers whoever follows a link.                    *)
(*                                                                         *)
(* The match row holds one token and its expiry.  The row is read, and     *)
(* the new token written without looking at it again.                      *)
(***************************************************************************)
EXTENDS Naturals

CONSTANTS
  Generations,  \* calls of generateInviteLink
  Followers,    \* calls of getInvitePreview
  LinkLife,     \* the 48 hours of a token
  LastHour,     \* bound: the last value of the time
  NoLink        \* no token

ASSUME InviteAssumption ==
  /\ {LinkLife, LastHour} \subseteq Nat
  /\ LinkLife > 0
  /\ NoLink \notin Generations
  /\ Generations \intersect Followers = {}

VARIABLES
  hour,        \* the time
  invite,      \* invite_token and token_expires_at of the match row
  givenLink,   \* the link each generation answers
  invitePc,    \* how far each call has come
  deadLinks,   \* history: links that did not work and should have
  inviteRaced  \* history: two generations found no good link

inviteVars == <<hour, invite, givenLink, invitePc, deadLinks, inviteRaced>>

-----------------------------------------------------------------------------
\* A token is named after the call that made it.
InviteInit ==
  /\ hour = 0
  /\ invite = [token |-> NoLink, until |-> 0]
  /\ givenLink = [g \in Generations |-> [token |-> NoLink, until |-> 0]]
  /\ invitePc = [c \in Generations \union Followers |-> "idle"]
  /\ deadLinks = {}
  /\ inviteRaced = FALSE

\* Mutant of GoodLink: each call makes a token of its own.
GoodLinkNever == FALSE

\* The link of the match is good for longer than now.
GoodLink == invite.token # NoLink /\ invite.until > hour

\* The read: the link that is there is answered, or another is drawn.
FindLink(g) ==
  LET drawn == [token |-> g, until |-> hour + LinkLife] IN
  /\ invitePc[g] = "idle"
  /\ givenLink' = [givenLink EXCEPT ![g] = IF GoodLink THEN invite ELSE drawn]
  /\ invitePc' = [invitePc EXCEPT ![g] = IF GoodLink THEN "done" ELSE "drawn"]
  /\ inviteRaced' = (inviteRaced \/
       (~GoodLink /\ \E h \in Generations : invitePc[h] = "drawn"))
  /\ UNCHANGED <<hour, invite, deadLinks>>

\* The update, whatever the row has become.
WriteLink(g) ==
  /\ invitePc[g] = "drawn"
  /\ invite' = givenLink[g]
  /\ invitePc' = [invitePc EXCEPT ![g] = "done"]
  /\ UNCHANGED <<hour, givenLink, deadLinks, inviteRaced>>

\* getInvitePreview refuses a token that no match has, or that has expired.
Previews(t) == invite.token = t /\ invite.until >= hour

\* Somebody follows a link that was handed out and has not run out.
FollowLink(c, g) ==
  /\ invitePc[c] = "idle"
  /\ invitePc[g] = "done"
  /\ givenLink[g].until > hour
  /\ deadLinks' = IF Previews(givenLink[g].token) THEN deadLinks
                  ELSE deadLinks \union {g}
  /\ invitePc' = [invitePc EXCEPT ![c] = "done"]
  /\ UNCHANGED <<hour, invite, givenLink, inviteRaced>>

PassHour ==
  /\ hour < LastHour
  /\ hour' = hour + 1
  /\ UNCHANGED <<invite, givenLink, invitePc, deadLinks, inviteRaced>>

InviteNext ==
  \/ \E g \in Generations : FindLink(g) \/ WriteLink(g)
  \/ \E c \in Followers, g \in Generations : FollowLink(c, g)
  \/ PassHour

InviteSpec == InviteInit /\ [][InviteNext]_inviteVars

-----------------------------------------------------------------------------
(***************************************************************************)
(* Properties                                                              *)
(***************************************************************************)
InviteTypeOK ==
  /\ hour \in 0..LastHour
  /\ invite \in [token : Generations \union {NoLink}, until : Nat]
  /\ givenLink \in [Generations ->
                     [token : Generations \union {NoLink}, until : Nat]]
  /\ invitePc \in [Generations \union Followers -> {"idle", "drawn", "done"}]
  /\ deadLinks \subseteq Generations
  /\ inviteRaced \in BOOLEAN

\* A link that the organiser has passed on works until it expires, however
\* often links are asked for; unless two calls found no good link at the same
\* time, when the second token takes the place of the first.
LinksWorkUnlessRaced ==
  \/ inviteRaced
  \/ /\ deadLinks = {}
     /\ \A g \in Generations :
          invitePc[g] = "done" /\ givenLink[g].until > hour
            => invite.token = givenLink[g].token
=============================================================================

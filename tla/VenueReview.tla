----------------------------- MODULE VenueReview ----------------------------
(***************************************************************************)
(* An owner's venues before the admins: verifying and rejecting a venue,   *)
(* approving and rejecting the owner's papers.                             *)
(*                                                                         *)
(* Two flags of the owner follow the venues, and no transaction ties them  *)
(* to a venue: is_kyc_approved, and is_verified, which is also the flag of *)
(* the proven email address that login asks for.                           *)
(***************************************************************************)
EXTENDS Naturals, FiniteSets

CONSTANTS
  Venues,       \* the venues of one owner
  VenueCalls,   \* calls of verifyVenue and rejectVenue
  KycCalls      \* calls of approveKyc and rejectKyc

ReviewCalls == VenueCalls \union KycCalls

ASSUME ReviewAssumption == VenueCalls \intersect KycCalls = {}

VARIABLES
  venue,        \* the rows of venues
  owner,        \* the flags of the owner
  ruling,       \* the venue each call is about
  revPc,        \* how far each call has come
  revRaced,     \* history: two calls were under way at once
  kycRevoked    \* history: rejectKyc was the last to rule on the papers

reviewVars == <<venue, owner, ruling, revPc, revRaced, kycRevoked>>

-----------------------------------------------------------------------------
NoVenue == [exists |-> FALSE, verified |-> FALSE, active |-> FALSE]

VenueRow == [exists : BOOLEAN, verified : BOOLEAN, active : BOOLEAN]
OwnerFlags == [kyc : BOOLEAN, verified : BOOLEAN]

\* The venues a player can find.
Listed(v) == venue[v].exists /\ venue[v].verified /\ venue[v].active

\* Mutant of RemainingApproved: the papers go with any venue.
RemainingApprovedNone == {}

\* rejectVenue counts the approved venues that remain.
RemainingApproved == {v \in Venues : Listed(v)}

\* A call that has been let in and has not answered, or never will.
Reviewing(c) == revPc[c] \notin {"idle", "done"}

ReviewTo(c, s) == revPc' = [revPc EXCEPT ![c] = s]

-----------------------------------------------------------------------------
ReviewInit ==
  /\ venue = [v \in Venues |-> NoVenue]
  /\ owner = [kyc |-> FALSE, verified |-> FALSE]
  /\ ruling = [c \in ReviewCalls |-> {}]
  /\ revPc = [c \in ReviewCalls |-> "idle"]
  /\ revRaced = FALSE
  /\ kycRevoked = FALSE

CreateVenue(v) ==
  /\ ~venue[v].exists
  /\ venue' = [venue EXCEPT ![v] =
                 [exists |-> TRUE, verified |-> FALSE, active |-> TRUE]]
  /\ UNCHANGED <<owner, ruling, revPc, revRaced, kycRevoked>>

\* The owner proves the email address with a code: OtpService.
ProveEmail ==
  /\ ~owner.verified
  /\ owner' = [owner EXCEPT !.verified = TRUE]
  /\ UNCHANGED <<venue, ruling, revPc, revRaced, kycRevoked>>

\* The read each call begins with; approveKyc is refused when it is done.
BeginRuling(c) ==
  /\ revPc[c] = "idle"
  /\ \/ /\ c \in VenueCalls
        /\ \E v \in Venues :
             venue[v].exists /\ ruling' = [ruling EXCEPT ![c] = {v}]
        /\ ReviewTo(c, "verifying") \/ ReviewTo(c, "rejecting")
     \/ /\ c \in KycCalls
        /\ \/ ~owner.kyc /\ ReviewTo(c, "approving")
           \/ ReviewTo(c, "revoking")
        /\ UNCHANGED ruling
  /\ revRaced' = (revRaced \/ \E d \in ReviewCalls : Reviewing(d))
  /\ UNCHANGED <<venue, owner, kycRevoked>>

\* verifyVenue leaves is_active alone: a venue rejected before stays hidden.
MarkVerified(c) ==
  /\ revPc[c] = "verifying"
  /\ venue' = [v \in Venues |-> IF v \in ruling[c]
                                THEN [venue[v] EXCEPT !.verified = TRUE]
                                ELSE venue[v]]
  /\ ReviewTo(c, "approving")
  /\ UNCHANGED <<owner, ruling, revRaced, kycRevoked>>

\* The owner's row, in verifyVenue and approveKyc.
ApproveOwner(c) ==
  /\ revPc[c] = "approving"
  /\ owner' = [kyc |-> TRUE, verified |-> TRUE]
  /\ kycRevoked' = FALSE
  /\ ReviewTo(c, "done")
  /\ UNCHANGED <<venue, ruling, revRaced>>

MarkRejected(c) ==
  /\ revPc[c] = "rejecting"
  /\ venue' = [v \in Venues |-> IF v \in ruling[c]
                                THEN [venue[v] EXCEPT !.verified = FALSE,
                                                      !.active = FALSE]
                                ELSE venue[v]]
  /\ ReviewTo(c, "counting")
  /\ UNCHANGED <<owner, ruling, revRaced, kycRevoked>>

CountApproved(c) ==
  /\ revPc[c] = "counting"
  /\ ReviewTo(c, IF RemainingApproved = {} THEN "revoking" ELSE "done")
  /\ UNCHANGED <<venue, owner, ruling, revRaced, kycRevoked>>

\* The owner's row, in rejectVenue and rejectKyc.
RevokeOwner(c) ==
  /\ revPc[c] = "revoking"
  /\ owner' = [kyc |-> FALSE, verified |-> FALSE]
  /\ kycRevoked' = (c \in KycCalls \/ kycRevoked)
  /\ ReviewTo(c, "done")
  /\ UNCHANGED <<venue, ruling, revRaced>>

-----------------------------------------------------------------------------
RulingStep(c) ==
  MarkVerified(c) \/ ApproveOwner(c) \/ MarkRejected(c) \/ CountApproved(c)
    \/ RevokeOwner(c)

ReviewNext ==
  \/ \E v \in Venues : CreateVenue(v)
  \/ ProveEmail
  \/ \E c \in ReviewCalls : BeginRuling(c) \/ RulingStep(c)

ReviewSpec == ReviewInit /\ [][ReviewNext]_reviewVars

-----------------------------------------------------------------------------
(***************************************************************************)
(* Properties                                                              *)
(***************************************************************************)
ReviewTypeOK ==
  /\ venue \in [Venues -> VenueRow]
  /\ owner \in OwnerFlags
  /\ ruling \in [ReviewCalls -> SUBSET Venues]
  /\ revPc \in [ReviewCalls -> {"idle", "verifying", "approving",
                                "rejecting", "counting", "revoking", "done"}]
  /\ revRaced \in BOOLEAN
  /\ kycRevoked \in BOOLEAN

\* The owner of a venue that players can find has approved papers: rejecting
\* another venue takes them away "only if no other approved venues remain".
\* Not so while a verifyVenue is between its two updates (or died there), when
\* two admins ruled at once, or after rejectKyc, which leaves the venues.
ListedOwnerApprovedUnlessRaced ==
  \/ revRaced \/ kycRevoked
  \/ \E c \in ReviewCalls : revPc[c] = "approving"
  \/ \A v \in Venues : Listed(v) => owner.kyc
=============================================================================

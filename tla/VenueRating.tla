----------------------------- MODULE VenueRating ----------------------------
(***************************************************************************)
(* The reviews of one venue, their moderation, and the average and number  *)
(* the venue shows.                                                        *)
(*                                                                         *)
(* The rating is computed from the approved reviews and written a step     *)
(* later: inside approveReview's transaction, which no other sees before   *)
(* it commits, and outside any in deleteReview.                            *)
(***************************************************************************)
EXTENDS Naturals, FiniteSetsExt

CONSTANTS
  Played,        \* the bookings of completed games at the venue
  Writers,       \* calls of writeReview
  Approvals,     \* calls of approveReview
  Deletions,     \* calls of deleteReview
  Stars          \* the ratings players give

Moderations == Approvals \union Deletions

ASSUME RatingAssumption ==
  /\ IsFiniteSet(Played) /\ Stars \subseteq Nat
  /\ Approvals \intersect Deletions = {}
  /\ Writers \intersect Moderations = {}

VARIABLES
  review,        \* the row of reviews of each booking
  shown,         \* the avg_rating, as a sum, and the total_reviews
  ratePc,        \* how far each call has come
  about,         \* the bookings whose review a call is about
  computed,      \* what a moderation is about to write
  rateRaced      \* history: two moderations were under way at once

ratingVars == <<review, shown, ratePc, about, computed, rateRaced>>

-----------------------------------------------------------------------------
NoReview == [stars |-> 0, approved |-> FALSE]
Reviewed == {b \in Played : review[b].stars > 0}
Approved == {b \in Reviewed : review[b].approved}

\* recalcVenueRating's aggregate: always from all approved reviews.
Aggregate(S) ==
  [sum |-> SumFunctionOnSet([b \in Played |-> review[b].stars], S),
   total |-> Cardinality(S)]

\* The review's row is locked by the approval that has updated it.
RowLocked(b) ==
  \E a \in Approvals : ratePc[a] = "updated" /\ b \in about[a]

Underway(c) == ratePc[c] \notin {"idle", "done"}
Enter(c, b) ==
  /\ ratePc[c] = "idle"
  /\ about' = [about EXCEPT ![c] = {b}]

RateTo(c, s) == ratePc' = [ratePc EXCEPT ![c] = s]

-----------------------------------------------------------------------------
RatingInit ==
  /\ review = [b \in Played |-> NoReview]
  /\ shown = [sum |-> 0, total |-> 0]
  /\ ratePc = [c \in Writers \union Moderations |-> "idle"]
  /\ about = [c \in Writers \union Moderations |-> {}]
  /\ computed = [c \in Moderations |-> [sum |-> 0, total |-> 0]]
  /\ rateRaced = FALSE

CheckReview(w, b) ==
  /\ w \in Writers
  /\ Enter(w, b)
  /\ b \notin Reviewed
  /\ RateTo(w, "checked")
  /\ UNCHANGED <<review, shown, computed, rateRaced>>

\* booking_id is unique.
WriteReview(w) ==
  /\ w \in Writers
  /\ ratePc[w] = "checked"
  /\ \E b \in about[w] :
       IF b \in Reviewed
         THEN UNCHANGED review
         ELSE \E n \in Stars :
                review' = [review EXCEPT ![b] = [stars |-> n,
                                                 approved |-> FALSE]]
  /\ RateTo(w, "done")
  /\ UNCHANGED <<shown, about, computed, rateRaced>>

\* The read both moderations begin with; a deletion keeps what it has read.
BeginModeration(m, b) ==
  /\ m \in Moderations
  /\ Enter(m, b)
  /\ b \in Reviewed
  /\ RateTo(m, IF m \in Approvals THEN "approve"
               ELSE IF b \in Approved THEN "deleteCounted" ELSE "delete")
  /\ rateRaced' = (rateRaced \/ \E d \in Moderations : Underway(d))
  /\ UNCHANGED <<review, shown, computed>>

\* approveReview's transaction: the update, and the aggregate that sees it.
Approve(a) ==
  /\ a \in Approvals
  /\ ratePc[a] = "approve"
  /\ \E b \in about[a] :
       /\ ~RowLocked(b)
       /\ IF b \in Reviewed
            THEN /\ computed' = [computed EXCEPT ![a] =
                                   Aggregate(Approved \union {b})]
                 /\ RateTo(a, "updated")
            ELSE RateTo(a, "done") /\ UNCHANGED computed
  /\ UNCHANGED <<review, shown, about, rateRaced>>

\* The venue, and the commit.
CommitApproval(a) ==
  /\ a \in Approvals
  /\ ratePc[a] = "updated"
  /\ review' = [b \in Played |-> IF b \in about[a]
                                 THEN [review[b] EXCEPT !.approved = TRUE]
                                 ELSE review[b]]
  /\ shown' = computed[a]
  /\ RateTo(a, "done")
  /\ UNCHANGED <<about, computed, rateRaced>>

\* Mutant of MustRecalc: the rating is left for the next approval.
MustRecalcNever(d) == FALSE

\* Only a review that was counted changes the rating.
MustRecalc(d) == ratePc[d] = "deleteCounted"

DeleteReview(d) ==
  /\ d \in Deletions
  /\ ratePc[d] \in {"delete", "deleteCounted"}
  /\ \A b \in about[d] : ~RowLocked(b)
  /\ IF about[d] \subseteq Reviewed
       THEN /\ review' = [b \in Played |-> IF b \in about[d] THEN NoReview
                                           ELSE review[b]]
            /\ RateTo(d, IF MustRecalc(d) THEN "recalc" ELSE "done")
       ELSE RateTo(d, "done") /\ UNCHANGED review
  /\ UNCHANGED <<shown, about, computed, rateRaced>>

RecalcAfterDelete(d) ==
  /\ ratePc[d] = "recalc"
  /\ computed' = [computed EXCEPT ![d] = Aggregate(Approved)]
  /\ RateTo(d, "computed")
  /\ UNCHANGED <<review, shown, about, rateRaced>>

WriteRating(d) ==
  /\ ratePc[d] = "computed"
  /\ shown' = computed[d]
  /\ RateTo(d, "done")
  /\ UNCHANGED <<review, about, computed, rateRaced>>

-----------------------------------------------------------------------------
RatingNext ==
  \/ \E w \in Writers :
       (\E b \in Played : CheckReview(w, b)) \/ WriteReview(w)
  \/ \E m \in Moderations :
       \/ \E b \in Played : BeginModeration(m, b)
       \/ Approve(m) \/ CommitApproval(m)
       \/ DeleteReview(m) \/ RecalcAfterDelete(m) \/ WriteRating(m)

RatingSpec == RatingInit /\ [][RatingNext]_ratingVars

-----------------------------------------------------------------------------
(***************************************************************************)
(* Properties                                                              *)
(***************************************************************************)
RatingTypeOK ==
  /\ review \in [Played -> [stars : {0} \union Stars, approved : BOOLEAN]]
  /\ shown \in [sum : Nat, total : Nat]
  /\ ratePc \in [Writers \union Moderations ->
                   {"idle", "checked", "approve", "updated", "delete",
                    "deleteCounted", "recalc", "computed", "done"}]
  /\ about \in [Writers \union Moderations -> SUBSET Played]
  /\ computed \in [Moderations -> [sum : Nat, total : Nat]]
  /\ rateRaced \in BOOLEAN

\* The rating a venue shows is that of its approved reviews whenever no
\* moderation is under way, or has died on the way, and no two overlapped.
RatingIsCurrentUnlessRaced ==
  \/ rateRaced
  \/ \E m \in Moderations : Underway(m)
  \/ shown = Aggregate(Approved)
=============================================================================

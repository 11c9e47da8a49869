----------------------------- MODULE Deliveries -----------------------------
(***************************************************************************)
(* The jobs that the services add to a queue when their own work is done:  *)
(* notices to players and to owners, the SMS those give rise to, mails,    *)
(* records of the audit log and of security incidents.                     *)
(*                                                                         *)
(* Three worker processes run, one of each API, and take their jobs from   *)
(* the same Redis.  Some queues have a processor in one of them, some in   *)
(* several, and the processors of one queue are not copies of each other:  *)
(* what becomes of a job depends on the worker that takes it.              *)
(*                                                                         *)
(* Pushes are left out: no code writes the tokens they are sent to.        *)
(***************************************************************************)
EXTENDS Integers, FiniteSets

CONSTANTS
  Notices,       \* jobs of queue notifications, to players
  OwnerNotices,  \* jobs of queue notifications, to owners
  Texts,         \* jobs of queue sms, which notices add
  Mails,         \* jobs of the three queues of mails
  Audits,        \* jobs of queue audit-logs
  Incidents,     \* jobs of queue security-incidents
  JobTries,      \* attempts of a job
  MaxStalls,     \* times BullMQ starts a job again whose worker is gone
  NoWorker       \* not a worker

Workers == {"player", "owner", "admin"}
Deliverables ==
  UNION {Notices, OwnerNotices, Texts, Mails, Audits, Incidents}

ASSUME DeliveriesAssumption ==
  /\ JobTries \in Nat \ {0}
  /\ MaxStalls \in Nat
  /\ NoWorker \notin Workers
  /\ Notices \intersect
       UNION {OwnerNotices, Texts, Mails, Audits, Incidents} = {}
  /\ OwnerNotices \intersect UNION {Texts, Mails, Audits, Incidents} = {}
  /\ Texts \intersect UNION {Mails, Audits, Incidents} = {}
  /\ Mails \intersect (Audits \union Incidents) = {}
  /\ Audits \intersect Incidents = {}

VARIABLES
  keyed,     \* whether the keys of the providers are in the environment
  delivery,  \* the state of each job
  desk,      \* the API whose queue of mails a mail is in
  letter,    \* what the service put in a mail: see AddMail
  taker,     \* the worker that has a job, or had it last
  tries,     \* attempts of a job that failed
  stalls,    \* workers a job has lost
  effect,    \* rows inserted or messages sent for a job
  unread,    \* rows of a notice the player has not read
  cause      \* the notice an SMS was added for

deliveryVars ==
  <<keyed, delivery, desk, letter, taker, tries, stalls, effect, unread,
    cause>>

-----------------------------------------------------------------------------
\* The workers with a processor for the queue of a job.
Listeners(j) ==
  CASE j \in Notices \union OwnerNotices \union Texts -> {"player", "owner"}
    [] j \in Mails                                    -> {desk[j]}
    [] j \in Audits \union Incidents                  -> Workers

\* The owner's processor returns at once when a job of the shared queue is
\* not an 'owner-notification'.
Ignores(j, w) == j \in Notices /\ w = "owner"

\* The player's processor does not look at the name: the row of an owner's
\* notice has no user, and the insert throws.
Rejects(j, w) == j \in OwnerNotices /\ w = "player"

\* What a processor catches ends the job as if it had succeeded: the answer
\* of the mail provider, but for the admin's; a failed insert of an audit
\* record, in the player's worker; a failed insert of an incident.
CatchesMail(j, w)     == j \in Mails /\ w # "admin"
CatchesAudit(j, w)    == j \in Audits /\ w = "player"
CatchesIncident(j, w) == j \in Incidents

\* Mutant of Swallows: the processor of the admin's mails returns too.
SwallowsMails(j, w) ==
  j \in Mails \/ CatchesAudit(j, w) \/ CatchesIncident(j, w)

Swallows(j, w) ==
  CatchesMail(j, w) \/ CatchesAudit(j, w) \/ CatchesIncident(j, w)

\* The processor returns for want of a RESEND_API_KEY, or of the
\* SPARROW_SMS_TOKEN, which only the owner's processor looks for.
LacksKey(j, w) == ~keyed /\ (j \in Mails \/ (j \in Texts /\ w = "owner"))

\* The processors of mails return for want of a recipient; the admin's, for
\* want of a template, which it looks up by the type in the job's data.
LacksContent(j, w) ==
  /\ j \in Mails
  /\ letter[j] = "unaddressed" \/ (letter[j] = "untyped" /\ w = "admin")

PassesOver(j, w) == Ignores(j, w) \/ LacksKey(j, w) \/ LacksContent(j, w)

\* The provider refuses a message that comes without a key.
Refused(j) == ~keyed /\ j \in Mails \union Texts

HasJob(j) == delivery[j] \in {"taken", "applied", "told"}

-----------------------------------------------------------------------------
DeliveriesInit ==
  /\ keyed \in BOOLEAN
  /\ delivery = [j \in Deliverables |-> "none"]
  /\ desk = [m \in Mails |-> "player"]
  /\ letter = [m \in Mails |-> "whole"]
  /\ taker = [j \in Deliverables |-> NoWorker]
  /\ tries = [j \in Deliverables |-> 0]
  /\ stalls = [j \in Deliverables |-> 0]
  /\ effect = [j \in Deliverables |-> 0]
  /\ unread = [n \in Notices |-> 0]
  /\ cause = [t \in Texts |-> t]

\* A service adds a job when its own transaction has ended; what goes wrong
\* is caught, and then there is no job.
Queued == {"waiting", "unqueued"}

Add(j) ==
  /\ delivery[j] = "none"
  /\ \E got \in Queued : delivery' = [delivery EXCEPT ![j] = got]
  /\ UNCHANGED <<keyed, taker, tries, stalls, effect, unread, cause>>

Unmailed == UNCHANGED <<desk, letter>>

AddNotice(n) == n \in Notices /\ Add(n) /\ Unmailed

\* No code calls notifyOwner at present.
AddOwnerNotice(n) == n \in OwnerNotices /\ Add(n) /\ Unmailed

\* approveKyc and rejectKyc name the job 'kyc-approved' or 'kyc-rejected' and
\* put no type in its data: those two mails of the admin's are untyped.  The
\* others have a type, and whom a mail is to may be an empty string.
AddMail(m) ==
  /\ m \in Mails
  /\ Add(m)
  /\ \E w \in Workers, l \in {"whole", "untyped", "unaddressed"} :
       /\ l = "untyped" => w = "admin"
       /\ desk' = [desk EXCEPT ![m] = w]
       /\ letter' = [letter EXCEPT ![m] = l]

\* After each request that is not a read, whether it failed or not.
AddAudit(r) == r \in Audits /\ Add(r) /\ Unmailed

\* After each request above the limit.
AddIncident(i) == i \in Incidents /\ Add(i) /\ Unmailed

TakeJob(j, w) ==
  /\ delivery[j] = "waiting"
  /\ w \in Listeners(j)
  /\ delivery' = [delivery EXCEPT ![j] = "taken"]
  /\ taker' = [taker EXCEPT ![j] = w]
  /\ Unmailed /\ UNCHANGED <<keyed, tries, stalls, effect, unread, cause>>

\* A processor that returns without having done anything.
PassOver(j) ==
  /\ delivery[j] = "taken"
  /\ PassesOver(j, taker[j])
  /\ delivery' = [delivery EXCEPT ![j] = "done"]
  /\ Unmailed
  /\ UNCHANGED <<keyed, taker, tries, stalls, effect, unread, cause>>

\* What a processor is there for: a row is inserted, or the provider has the
\* message.
Apply(j) ==
  /\ delivery[j] = "taken"
  /\ ~PassesOver(j, taker[j]) /\ ~Rejects(j, taker[j]) /\ ~Refused(j)
  /\ delivery' = [delivery EXCEPT ![j] = "applied"]
  /\ Unmailed /\ UNCHANGED <<keyed, taker, tries, stalls, cause>>

Lands(j) == Apply(j) /\ effect' = [effect EXCEPT ![j] = @ + 1]

InsertNotice(n) ==
  /\ n \in Notices
  /\ Lands(n)
  /\ unread' = [unread EXCEPT ![n] = @ + 1]

\* An owner's notice has no inbox: the processor only reads the owner.
ReadOwner(n) == n \in OwnerNotices /\ Apply(n) /\ UNCHANGED <<effect, unread>>

SendText(t)      == t \in Texts /\ Lands(t) /\ UNCHANGED unread
SendMail(m)      == m \in Mails /\ Lands(m) /\ UNCHANGED unread
WriteAudit(r)    == r \in Audits /\ Lands(r) /\ UNCHANGED unread
WriteIncident(i) == i \in Incidents /\ Lands(i) /\ UNCHANGED unread

\* An urgent notice adds an SMS, or fails to, which is caught.
AddText(j, t) ==
  /\ j \in Notices \union OwnerNotices
  /\ delivery[j] = "applied"
  /\ delivery[t] = "none"
  /\ \E got \in Queued :
       delivery' = [delivery EXCEPT ![j] = "told", ![t] = got]
  /\ cause' = [cause EXCEPT ![t] = j]
  /\ Unmailed /\ UNCHANGED <<keyed, taker, tries, stalls, effect, unread>>

FinishJob(j) ==
  /\ delivery[j] \in {"applied", "told"}
  /\ delivery' = [delivery EXCEPT ![j] = "done"]
  /\ Unmailed
  /\ UNCHANGED <<keyed, taker, tries, stalls, effect, unread, cause>>

\* An error before the effect or after it, when the answer was lost or the
\* next statement failed: another attempt, unless the processor catches it or
\* the attempts are used up.  Nothing throws once the SMS has been added.
FailJob(j) ==
  /\ delivery[j] \in {"taken", "applied"}
  /\ ~PassesOver(j, taker[j])
  /\ IF Swallows(j, taker[j])
       THEN delivery' = [delivery EXCEPT ![j] = "done"] /\ UNCHANGED tries
       ELSE /\ tries' = [tries EXCEPT ![j] = @ + 1]
            /\ delivery' = [delivery EXCEPT
                 ![j] = IF tries[j] + 1 < JobTries THEN "waiting"
                                                   ELSE "failed"]
  /\ Unmailed /\ UNCHANGED <<keyed, taker, stalls, effect, unread, cause>>

\* The worker is gone: the job has stalled, and another worker gets it.
LoseWorker(j) ==
  /\ HasJob(j)
  /\ stalls' = [stalls EXCEPT ![j] = @ + 1]
  /\ delivery' = [delivery EXCEPT
       ![j] = IF stalls[j] < MaxStalls THEN "waiting" ELSE "failed"]
  /\ Unmailed /\ UNCHANGED <<keyed, taker, tries, effect, unread, cause>>

\* The player reads one row of the inbox, or all of them.
ReadInbox(n) ==
  /\ unread[n] > 0
  /\ \E left \in {0, unread[n] - 1} : unread' = [unread EXCEPT ![n] = left]
  /\ Unmailed
  /\ UNCHANGED <<keyed, delivery, taker, tries, stalls, effect, cause>>

-----------------------------------------------------------------------------
DeliveriesNext ==
  \/ \E j \in Deliverables :
       \/ AddNotice(j) \/ AddOwnerNotice(j) \/ AddMail(j)
       \/ AddAudit(j) \/ AddIncident(j)
       \/ InsertNotice(j) \/ ReadOwner(j) \/ SendText(j) \/ SendMail(j)
       \/ WriteAudit(j) \/ WriteIncident(j)
       \/ PassOver(j) \/ FinishJob(j) \/ FailJob(j) \/ LoseWorker(j)
       \/ \E w \in Workers : TakeJob(j, w)
       \/ \E t \in Texts : AddText(j, t)
  \/ \E n \in Notices : ReadInbox(n)

DeliveriesSpec == DeliveriesInit /\ [][DeliveriesNext]_deliveryVars

-----------------------------------------------------------------------------
(***************************************************************************)
(* Properties                                                              *)
(***************************************************************************)
DeliveriesTypeOK ==
  /\ keyed \in BOOLEAN
  /\ delivery \in [Deliverables -> {"none", "unqueued", "waiting", "taken",
                                    "applied", "told", "done", "failed"}]
  /\ desk \in [Mails -> Workers]
  /\ letter \in [Mails -> {"whole", "untyped", "unaddressed"}]
  /\ taker \in [Deliverables -> Workers \union {NoWorker}]
  /\ tries \in [Deliverables -> 0 .. JobTries]
  /\ stalls \in [Deliverables -> 0 .. MaxStalls + 1]
  /\ effect \in [Deliverables -> Nat]
  /\ unread \in [Notices -> Nat]
  /\ cause \in [Texts -> Deliverables]

\* A job that is said to be done had its effect, whatever attempts failed and
\* whatever workers were lost on the way, except where a processor gives up
\* quietly: the owner's on a player's notice, the mails' of players and of
\* owners, the player's on an audit record, everyone's on an incident, any
\* for want of a key, and the admin's for want of a recipient or of a template,
\* which is how every mail of approveKyc and of rejectKyc ends.
DoneHadEffect ==
  \A j \in Deliverables : delivery[j] = "done" =>
    \/ effect[j] >= 1
    \/ j \in Notices /\ taker[j] = "owner"
    \/ j \in Audits /\ taker[j] = "player"
    \/ j \in Mails /\ (desk[j] # "admin" \/ letter[j] # "whole")
    \/ j \in Mails \union Texts /\ ~keyed
    \/ j \in OwnerNotices \union Incidents

\* The processor of notices "handles FCM push + DB inbox save": a notice whose
\* job is done is in the player's inbox.
DoneIsInInbox == \A n \in Notices : delivery[n] = "done" => effect[n] >= 1

\* The admin's processor "sends verification status emails to owners", and is
\* "triggered when admin approves or rejects a venue/owner verification": a
\* mail of the admin's that has a recipient, and is done where there is a key,
\* has been sent.
VerdictsAreMailed ==
  \A m \in Mails :
    delivery[m] = "done" /\ desk[m] = "admin" /\ letter[m] # "unaddressed"
      /\ keyed => effect[m] >= 1
=============================================================================

--------------------------- MODULE BackgroundProofs --------------------------
(***************************************************************************)
(* What becomes of queued jobs, for any number of jobs, attempts, stalls   *)
(* and workers that are lost; of uploaded files and what refers to them,   *)
(* for any number of uploads, confirmations, jobs and deletions; and of    *)
(* the requests of processes that are stopped and started again.           *)
(***************************************************************************)
EXTENDS Deliveries, MediaAssets, Lifecycle, FiniteSetTheorems, TLAPS

-----------------------------------------------------------------------------
LEMMA KindsApart ==
  /\ \A j \in Notices : j \notin OwnerNotices \union Texts \union Mails
                                   \union Audits \union Incidents
  /\ \A j \in OwnerNotices : j \notin Texts \union Mails \union Audits
                                        \union Incidents
  /\ \A j \in Texts : j \notin Mails \union Audits \union Incidents
  /\ \A j \in Mails : j \notin Audits \union Incidents
  /\ \A j \in Audits : j \notin Incidents
BY DeliveriesAssumption

LEMMA KindsAreJobs ==
  /\ Notices \subseteq Deliverables /\ OwnerNotices \subseteq Deliverables
  /\ Texts \subseteq Deliverables /\ Mails \subseteq Deliverables
BY DEF Deliverables

JobsTyped ==
  /\ keyed \in BOOLEAN
  /\ delivery \in [Deliverables -> {"none", "unqueued", "waiting", "taken",
                                    "applied", "told", "done", "failed"}]
  /\ desk \in [Mails -> Workers]
  /\ letter \in [Mails -> {"whole", "untyped", "unaddressed"}]
  /\ taker \in [Deliverables -> Workers \union {NoWorker}]
  /\ effect \in [Deliverables -> Nat]

\* A processor that has come to the end of its work had an effect, and a mail
\* is taken by a worker of the queue it is in.
WorkIsDone ==
  /\ \A j \in Deliverables : delivery[j] \in {"applied", "told"} =>
       effect[j] >= 1 \/ j \in OwnerNotices
  /\ \A m \in Mails : HasJob(m) \/ delivery[m] = "done" => taker[m] = desk[m]

JobInv == JobsTyped /\ WorkIsDone /\ DoneHadEffect

\* A step of one job that leaves every other alone.
OneJob(j) ==
  /\ \A k \in Deliverables : k # j =>
       /\ delivery'[k] = delivery[k] /\ taker'[k] = taker[k]
       /\ effect'[k] = effect[k]
  /\ \A m \in Mails : m # j =>
       desk'[m] = desk[m] /\ letter'[m] = letter[m]
  /\ keyed' = keyed

LEMMA OtherJobsKeep ==
  ASSUME JobInv, NEW j \in Deliverables, OneJob(j), JobsTyped',
         delivery'[j] \in {"applied", "told"} =>
           effect'[j] >= 1 \/ j \in OwnerNotices,
         j \in Mails /\ (HasJob(j)' \/ delivery'[j] = "done") =>
           taker'[j] = desk'[j],
         delivery'[j] = "done" =>
           \/ effect'[j] >= 1
           \/ j \in Notices /\ taker'[j] = "owner"
           \/ j \in Audits /\ taker'[j] = "player"
           \/ j \in Mails /\ (desk'[j] # "admin" \/ letter'[j] # "whole")
           \/ j \in Mails \union Texts /\ ~keyed'
           \/ j \in OwnerNotices \union Incidents
  PROVE  JobInv'
<1>1. WorkIsDone'
  BY KindsAreJobs DEF JobInv, WorkIsDone, OneJob, HasJob
<1>2. DoneHadEffect'
  BY DEF JobInv, DoneHadEffect, OneJob
<1> QED
  BY <1>1, <1>2 DEF JobInv

LEMMA AddStep ==
  ASSUME JobInv, NEW j \in Deliverables,
         \/ AddNotice(j) \/ AddOwnerNotice(j) \/ AddMail(j)
         \/ AddAudit(j) \/ AddIncident(j)
  PROVE  JobInv'
<1>1. Add(j)
  BY DEF AddNotice, AddOwnerNotice, AddMail, AddAudit, AddIncident
<1>2. /\ desk' \in [Mails -> Workers]
      /\ letter' \in [Mails -> {"whole", "untyped", "unaddressed"}]
      /\ \A m \in Mails : m # j =>
           desk'[m] = desk[m] /\ letter'[m] = letter[m]
  BY DEF AddNotice, AddOwnerNotice, AddMail, AddAudit, AddIncident, Unmailed,
         JobInv, JobsTyped
<1>3. PICK got \in Queued : delivery' = [delivery EXCEPT ![j] = got]
  BY <1>1 DEF Add
<1>4. UNCHANGED <<keyed, taker, effect>>
  BY <1>1 DEF Add
<1>5. JobsTyped'
  BY <1>2, <1>3, <1>4 DEF JobInv, JobsTyped, Queued
<1>6. delivery'[j] = got /\ OneJob(j)
  BY <1>2, <1>3, <1>4 DEF JobInv, JobsTyped, OneJob
<1>7. got \notin {"taken", "applied", "told", "done"}
  BY DEF Queued
<1> QED
  BY <1>5, <1>6, <1>7, OtherJobsKeep DEF HasJob

LEMMA TakeStep ==
  ASSUME JobInv, NEW j \in Deliverables, NEW w \in Workers, TakeJob(j, w)
  PROVE  JobInv'
<1>1. /\ delivery' = [delivery EXCEPT ![j] = "taken"]
      /\ taker' = [taker EXCEPT ![j] = w]
      /\ UNCHANGED <<keyed, desk, letter, effect>>
  BY DEF TakeJob, Unmailed
<1>2. JobsTyped'
  BY <1>1 DEF JobInv, JobsTyped
<1>3. delivery'[j] = "taken" /\ taker'[j] = w /\ OneJob(j)
  BY <1>1 DEF JobInv, JobsTyped, OneJob
<1>4. j \in Mails => w = desk[j]
  <2> SUFFICES ASSUME j \in Mails
               PROVE  w = desk[j]
    OBVIOUS
  <2>1. j \notin Notices \union OwnerNotices \union Texts
    BY KindsApart
  <2>2. j \notin Audits \union Incidents
    BY KindsApart
  <2>3. Listeners(j) = {desk[j]}
    BY <2>1, <2>2 DEF Listeners
  <2> QED
    BY <2>3 DEF TakeJob
<1> QED
  BY <1>1, <1>2, <1>3, <1>4, OtherJobsKeep DEF HasJob

LEMMA ApplyStep ==
  ASSUME JobInv, NEW j \in Deliverables,
         \/ InsertNotice(j) \/ ReadOwner(j) \/ SendText(j) \/ SendMail(j)
         \/ WriteAudit(j) \/ WriteIncident(j)
  PROVE  JobInv'
<1>1. /\ delivery[j] = "taken"
      /\ delivery' = [delivery EXCEPT ![j] = "applied"]
      /\ UNCHANGED <<keyed, desk, letter, taker>>
  BY DEF InsertNotice, ReadOwner, SendText, SendMail, WriteAudit,
         WriteIncident, Lands, Apply, Unmailed
<1>2. \/ effect' = [effect EXCEPT ![j] = @ + 1]
      \/ effect' = effect /\ j \in OwnerNotices
  BY DEF InsertNotice, ReadOwner, SendText, SendMail, WriteAudit,
         WriteIncident, Lands
<1>3. effect' \in [Deliverables -> Nat]
  BY <1>2 DEF JobInv, JobsTyped
<1>4. JobsTyped'
  BY <1>1, <1>3 DEF JobInv, JobsTyped
<1>5. effect'[j] >= 1 \/ j \in OwnerNotices
  BY <1>2 DEF JobInv, JobsTyped
<1>6. delivery'[j] = "applied" /\ OneJob(j)
  BY <1>1, <1>2 DEF JobInv, JobsTyped, OneJob
<1>7. j \in Mails => taker'[j] = desk'[j]
  BY <1>1 DEF JobInv, WorkIsDone, HasJob
<1> QED
  BY <1>4, <1>5, <1>6, <1>7, OtherJobsKeep

LEMMA EndStep ==
  ASSUME JobInv, NEW j \in Deliverables,
         PassOver(j) \/ FinishJob(j) \/ FailJob(j) \/ LoseWorker(j)
  PROVE  JobInv'
<1>1. UNCHANGED <<keyed, desk, letter, taker, effect>>
  BY DEF PassOver, FinishJob, FailJob, LoseWorker, Unmailed
<1>2. PICK s \in {"waiting", "done", "failed"} :
        delivery' = [delivery EXCEPT ![j] = s]
  BY DEF PassOver, FinishJob, FailJob, LoseWorker
<1>3. JobsTyped'
  BY <1>1, <1>2 DEF JobInv, JobsTyped
<1>4. delivery'[j] = s /\ OneJob(j)
  BY <1>1, <1>2 DEF JobInv, JobsTyped, OneJob
<1>5. HasJob(j)
  BY DEF PassOver, FinishJob, FailJob, LoseWorker, HasJob
<1>6. j \in Mails => taker'[j] = desk'[j]
  BY <1>1, <1>5 DEF JobInv, WorkIsDone
<1>7. ASSUME s = "done"
      PROVE  \/ effect'[j] >= 1
             \/ j \in Notices /\ taker'[j] = "owner"
             \/ j \in Audits /\ taker'[j] = "player"
             \/ j \in Mails /\ (desk'[j] # "admin" \/ letter'[j] # "whole")
             \/ j \in Mails \union Texts /\ ~keyed'
             \/ j \in OwnerNotices \union Incidents
  <2>1. CASE PassOver(j)
    BY <1>1, <2>1 DEF PassOver, PassesOver, Ignores, LacksKey, LacksContent
  <2>2. CASE FinishJob(j)
    BY <1>1, <2>2 DEF FinishJob, JobInv, WorkIsDone
  <2>3. CASE FailJob(j)
    <3>1. Swallows(j, taker[j])
      <4>1. ASSUME ~Swallows(j, taker[j])
            PROVE  delivery'[j] \in {"waiting", "failed"}
        BY <2>3, <4>1 DEF FailJob, JobInv, JobsTyped
      <4> QED
        BY <1>4, <1>7, <4>1
    <3> QED
      BY <1>1, <1>6, <3>1
         DEF Swallows, CatchesMail, CatchesAudit, CatchesIncident
  <2>4. CASE LoseWorker(j)
    <3>1. delivery'[j] \in {"waiting", "failed"}
      BY <2>4 DEF LoseWorker, JobInv, JobsTyped
    <3> QED
      BY <1>4, <1>7, <3>1
  <2> QED
    BY <2>1, <2>2, <2>3, <2>4
<1> QED
  BY <1>3, <1>4, <1>6, <1>7, OtherJobsKeep

LEMMA AddTextStep ==
  ASSUME JobInv, NEW j \in Deliverables, NEW t \in Texts, AddText(j, t)
  PROVE  JobInv'
<1> USE KindsApart, KindsAreJobs DEF JobInv, JobsTyped
<1>1. PICK got \in Queued :
        delivery' = [delivery EXCEPT ![j] = "told", ![t] = got]
  BY DEF AddText
<1>2. /\ j # t /\ j \notin Mails /\ delivery[j] = "applied"
      /\ UNCHANGED <<keyed, desk, letter, taker, effect>>
  BY DEF AddText, Unmailed
<1>3. /\ delivery'[j] = "told" /\ delivery'[t] = got
      /\ \A k \in Deliverables \ {j, t} : delivery'[k] = delivery[k]
  BY <1>1, <1>2
<1>4. got \in {"waiting", "unqueued"}
  BY DEF Queued
<1>5. JobsTyped'
  BY <1>1, <1>2, <1>4
<1>6. WorkIsDone'
  BY <1>2, <1>3, <1>4 DEF WorkIsDone, HasJob
<1>7. DoneHadEffect'
  BY <1>2, <1>3, <1>4 DEF DoneHadEffect
<1> QED
  BY <1>5, <1>6, <1>7

\* DoneHadEffect: a job that is said to be done had its effect, whatever
\* attempts failed and whatever workers were lost, but for the processors that
\* give up quietly, the admin's on the mails of approveKyc and rejectKyc among
\* them.
THEOREM JobsHaveEffects == DeliveriesSpec => []DoneHadEffect
<1>1. DeliveriesInit => JobInv
  <2> SUFFICES ASSUME DeliveriesInit
               PROVE  JobInv
    OBVIOUS
  <2> USE DEF DeliveriesInit
  <2>1. /\ delivery \in [Deliverables -> {"none", "unqueued", "waiting",
                          "taken", "applied", "told", "done", "failed"}]
        /\ effect \in [Deliverables -> Nat]
    OBVIOUS
  <2>2. /\ desk \in [Mails -> Workers]
        /\ letter \in [Mails -> {"whole", "untyped", "unaddressed"}]
    BY DEF Workers
  <2>3. taker \in [Deliverables -> Workers \union {NoWorker}]
    OBVIOUS
  <2>4. \A j \in Deliverables : delivery[j] = "none"
    OBVIOUS
  <2>5. WorkIsDone /\ DoneHadEffect
    BY <2>4, KindsAreJobs DEF WorkIsDone, DoneHadEffect, HasJob
  <2> QED
    BY <2>1, <2>2, <2>3, <2>5 DEF JobInv, JobsTyped
<1>2. JobInv /\ [DeliveriesNext]_deliveryVars => JobInv'
  <2> SUFFICES ASSUME JobInv, [DeliveriesNext]_deliveryVars
               PROVE  JobInv'
    OBVIOUS
  <2>1. CASE UNCHANGED <<keyed, delivery, desk, letter, taker, effect>>
    BY <2>1 DEF JobInv, JobsTyped, WorkIsDone, HasJob, DoneHadEffect
  <2>2. (\E n \in Notices : ReadInbox(n)) \/ UNCHANGED deliveryVars
          => UNCHANGED <<keyed, delivery, desk, letter, taker, effect>>
    BY DEF ReadInbox, Unmailed, deliveryVars
  <2> QED
    BY <2>1, <2>2, AddStep, TakeStep, ApplyStep, EndStep, AddTextStep
       DEF DeliveriesNext
<1>3. JobInv => DoneHadEffect
  BY DEF JobInv
<1> QED
  BY <1>1, <1>2, <1>3, PTL DEF DeliveriesSpec

-----------------------------------------------------------------------------
(***************************************************************************)
(* Uploads: the order of a confirmation                                    *)
(***************************************************************************)
MediaJobs ==
  [Confirms -> [stage : {"none", "waiting", "loaded", "copied", "skipped",
                         "done", "failed"},
                left : Int]]

MediaTyped ==
  /\ MediaTypeOK
  /\ job \in MediaJobs
  /\ mediaStep \in [MediaCalls -> {"idle", "checked", "refused", "writing",
                                   "done", "read", "found", "emptied"}]
  /\ about \in [MediaCalls -> Assets \union {Nothing}]
  /\ todo \in [Confirms -> SUBSET {"status", "job", "coverMedia", "coverUrl",
                                   "gallery", "avatar", "document"}]
  /\ DOMAIN snapshot = MediaCalls
  /\ snapshot = [c \in MediaCalls |-> snapshot[c]]

\* A confirmation has writes to make only while it is writing, and they are
\* those of its kind of upload; its job comes with one of them.
ConfirmsInOrder ==
  \A c \in Confirms :
    /\ mediaStep[c] \in {"checked", "writing"} => about[c] \in Assets
    /\ mediaStep[c] # "writing" => todo[c] = {}
    /\ "job" \in todo[c] => about[c] \in Images
    /\ todo[c] \intersect {"coverMedia", "coverUrl"} # {} =>
         about[c] \in Covers
    /\ "gallery" \in todo[c] => about[c] \in Galleries
    /\ "avatar" \in todo[c] => about[c] \in Avatars
    /\ mediaStep[c] \notin {"writing", "done"} => job[c].stage = "none"
    /\ job[c].stage # "none" => about[c] \in Images

\* A deletion under way has found an upload.
DeletionsInOrder ==
  \A d \in MediaCalls :
    mediaStep[d] \in {"found", "emptied"} => about[d] \in Assets

MediaOrder == MediaTyped /\ ConfirmsInOrder /\ DeletionsInOrder

LEMMA KindsOfUpload ==
  /\ Covers \subseteq Images /\ Galleries \subseteq Images
  /\ Avatars \subseteq Images /\ Images \subseteq Assets
  /\ Documents \subseteq Assets /\ Documents \intersect Images = {}
  /\ Confirms \subseteq MediaCalls /\ Polls \subseteq MediaCalls
  /\ Readers \subseteq MediaCalls /\ Deletions \subseteq MediaCalls
<1>1. \A a \in Documents :
        a \notin Covers /\ a \notin Galleries /\ a \notin Avatars
  BY MediaAssumption
<1> QED
  BY <1>1 DEF Images, Assets, MediaCalls

LEMMA OrderInit == MediaInit => MediaOrder
BY KindsOfUpload
   DEF MediaInit, MediaOrder, MediaTyped, MediaTypeOK, MediaJobs,
       ConfirmsInOrder, DeletionsInOrder, Transient

LEMMA UploadKeeps ==
  ASSUME MediaOrder, NEW a \in Assets,
         \/ RequestUpload(a) \/ PutFile(a) \/ SweepFile(a) \/ SweepRow(a)
         \/ ExpireStatus(a)
  PROVE  MediaOrder'
<1> USE
   DEF MediaOrder, MediaTyped, MediaTypeOK, Status, Transient, SetAsset,
       BustStatus
<1>1. UNCHANGED <<variants, recorded, links, galleryCache, progress, job>>
  BY DEF RequestUpload, PutFile, SweepFile, SweepRow, ExpireStatus, stores,
         links, caches, progress
<1>2. asset' \in [Assets -> Status \union {"none", "gone"}]
  BY DEF RequestUpload, PutFile, SweepFile, SweepRow, ExpireStatus, stores
<1>3. file' \in [Assets -> {"none", "image", "junk"}]
  BY DEF RequestUpload, PutFile, SweepFile, SweepRow, ExpireStatus, stores
<1>4. statusCache' \in [Assets -> Transient \union {Nothing}]
      /\ sweeping' \subseteq Assets
      /\ excused' \subseteq Assets \X {"sweep", "deletion"}
  BY DEF RequestUpload, PutFile, SweepFile, SweepRow, ExpireStatus, stores,
         caches, Excuse
<1>5. MediaTyped'
  BY <1>1, <1>2, <1>3, <1>4 DEF links, progress
<1>6. ConfirmsInOrder' /\ DeletionsInOrder'
  BY <1>1 DEF ConfirmsInOrder, DeletionsInOrder, progress
<1> QED
  BY <1>5, <1>6

\* A step of one call that leaves the order of every other alone.
OneCall(c) ==
  /\ \A d \in MediaCalls : d # c =>
       mediaStep'[d] = mediaStep[d] /\ about'[d] = about[d]
  /\ \A d \in Confirms : d # c => todo'[d] = todo[d] /\ job'[d] = job[d]

LEMMA OtherCallsKeep ==
  ASSUME MediaOrder, NEW c \in MediaCalls, OneCall(c), MediaTyped',
         mediaStep'[c] \in {"found", "emptied"} => about'[c] \in Assets,
         c \in Confirms =>
           /\ mediaStep'[c] \in {"checked", "writing"} => about'[c] \in Assets
           /\ mediaStep'[c] # "writing" => todo'[c] = {}
           /\ "job" \in todo'[c] => about'[c] \in Images
           /\ todo'[c] \intersect {"coverMedia", "coverUrl"} # {} =>
                about'[c] \in Covers
           /\ "gallery" \in todo'[c] => about'[c] \in Galleries
           /\ "avatar" \in todo'[c] => about'[c] \in Avatars
           /\ mediaStep'[c] \notin {"writing", "done"} =>
                job'[c].stage = "none"
           /\ job'[c].stage # "none" => about'[c] \in Images
  PROVE  MediaOrder'
BY KindsOfUpload
   DEF MediaOrder, ConfirmsInOrder, DeletionsInOrder, OneCall

LEMMA BeginsAndEnds ==
  ASSUME MediaOrder, NEW c \in Confirms,
         BeginConfirm(c) \/ RejectBytes(c) \/ PassBytes(c) \/ EndConfirm(c)
  PROVE  MediaOrder'
<1> USE KindsOfUpload DEF MediaOrder, MediaTyped
<1>1. UNCHANGED <<file, variants, recorded, links, job, caches, snapshot,
        sweeping, excused>>
  BY DEF BeginConfirm, RejectBytes, PassBytes, EndConfirm, stores
<1>2. asset' \in [Assets -> Status \union {"none", "gone"}]
  BY DEF BeginConfirm, RejectBytes, PassBytes, EndConfirm, stores, SetAsset,
         MediaTypeOK, Status
<1>3. MediaTypeOK'
  BY <1>1, <1>2 DEF MediaTypeOK, links, caches
<1>4. CASE BeginConfirm(c)
  <2>1. PICK a \in Assets : about' = [about EXCEPT ![c] = a]
    BY <1>4 DEF BeginConfirm
  <2>2. /\ mediaStep[c] = "idle"
        /\ mediaStep' = [mediaStep EXCEPT ![c] = "checked"]
        /\ todo' = todo
    BY <1>4 DEF BeginConfirm, Idle, Advance
  <2>3. MediaTyped'
    BY <1>1, <1>3, <2>1, <2>2
  <2>4. OneCall(c)
    BY <1>1, <2>1, <2>2 DEF OneCall
  <2>5. todo[c] = {} /\ job[c].stage = "none"
    BY <2>2 DEF ConfirmsInOrder
  <2> QED
    BY <1>1, <2>1, <2>2, <2>3, <2>4, <2>5, OtherCallsKeep
<1>5. CASE RejectBytes(c) \/ EndConfirm(c)
  <2>1. PICK s \in {"refused", "done"} :
          /\ mediaStep' = [mediaStep EXCEPT ![c] = s]
          /\ mediaStep[c] # "writing" \/ s = "done"
          /\ UNCHANGED <<about, todo>>
          /\ todo[c] = {}
    BY <1>5 DEF RejectBytes, EndConfirm, Advance, ConfirmsInOrder
  <2>2. MediaTyped'
    BY <1>1, <1>3, <2>1
  <2>3. OneCall(c)
    BY <1>1, <2>1 DEF OneCall
  <2>4. s # "done" => job[c].stage = "none"
    BY <1>5, <2>1 DEF ConfirmsInOrder, RejectBytes, EndConfirm, Advance
  <2>5. job[c].stage # "none" => about[c] \in Images
    BY DEF ConfirmsInOrder
  <2> QED
    BY <1>1, <2>1, <2>2, <2>3, <2>4, <2>5, OtherCallsKeep
<1>6. CASE PassBytes(c)
  <2>1. /\ mediaStep[c] = "checked"
        /\ mediaStep' = [mediaStep EXCEPT ![c] = "writing"]
        /\ about' = about
        /\ todo' = [todo EXCEPT ![c] =
               {"status"} \union LinkWrites(about[c])
                 \union IF about[c] \in Images THEN {"job"} ELSE {}]
    BY <1>6 DEF PassBytes, Advance
  <2>2. about[c] \in Assets /\ job[c].stage = "none"
    BY <2>1 DEF ConfirmsInOrder
  <2>3. /\ LinkWrites(about[c]) \in SUBSET {"coverMedia", "coverUrl",
                                           "gallery", "avatar", "document"}
        /\ LinkWrites(about[c]) \intersect {"coverMedia", "coverUrl"} # {} =>
             about[c] \in Covers
        /\ "gallery" \in LinkWrites(about[c]) => about[c] \in Galleries
        /\ "avatar" \in LinkWrites(about[c]) => about[c] \in Avatars
    BY <2>2, MediaAssumption DEF LinkWrites, Assets, Images
  <2>4. /\ todo'[c] = {"status"} \union LinkWrites(about[c])
                 \union IF about[c] \in Images THEN {"job"} ELSE {}
        /\ mediaStep'[c] = "writing"
    BY <2>1
  <2>5. MediaTyped'
    BY <1>1, <1>3, <2>1, <2>3
  <2>6. OneCall(c)
    BY <1>1, <2>1 DEF OneCall
  <2> QED
    BY <1>1, <2>1, <2>2, <2>3, <2>4, <2>5, <2>6, OtherCallsKeep
<1> QED
  BY <1>4, <1>5, <1>6

LEMMA WritesKeepOrder ==
  ASSUME MediaOrder, NEW c \in Confirms, NEW w, Outstanding(c, w),
         Written(c, w),
         UNCHANGED <<file, variants, recorded, mediaStep, about, sweeping>>,
         MediaTypeOK', DOMAIN snapshot' = MediaCalls,
         snapshot' = [d \in MediaCalls |-> snapshot'[d]],
         job' \in MediaJobs,
         \A d \in Confirms : d # c => job'[d] = job[d],
         job'[c] # job[c] => w = "job"
  PROVE  MediaOrder'
<1> USE KindsOfUpload DEF MediaOrder, MediaTyped
<1>1. todo' = [todo EXCEPT ![c] = todo[c] \ {w}] /\ mediaStep[c] = "writing"
      /\ w \in todo[c]
  BY DEF Written, Outstanding
<1>2. MediaTyped'
  BY <1>1
<1>3. OneCall(c)
  BY <1>1 DEF OneCall
<1>4. todo'[c] = todo[c] \ {w}
  BY <1>1
<1> QED
  BY <1>1, <1>2, <1>3, <1>4, OtherCallsKeep DEF ConfirmsInOrder

LEMMA WritesAndLinks ==
  ASSUME MediaOrder, NEW c \in Confirms,
         \/ WriteStatus(c) \/ AddJob(c)
         \/ LinkCoverMedia(c) \/ LinkCoverUrl(c) \/ LinkGallery(c)
         \/ AddAvatar(c) \/ LinkDocument(c)
  PROVE  MediaOrder'
<1> USE KindsOfUpload
<1>1. /\ UNCHANGED <<file, variants, recorded, mediaStep, about, snapshot,
           sweeping>>
      /\ excused' \subseteq excused \union (Assets \X {"sweep", "deletion"})
      /\ about[c] \in Assets
    <2>1. mediaStep[c] = "writing"
      BY DEF WriteStatus, AddJob, LinkCoverMedia, LinkCoverUrl, LinkGallery,
             AddAvatar, LinkDocument, Outstanding
    <2> QED
      BY <2>1 DEF WriteStatus, AddJob, LinkCoverMedia, LinkCoverUrl,
             LinkGallery, AddAvatar, LinkDocument, stores, Excuse, MediaOrder,
             ConfirmsInOrder
<1>2. CASE WriteStatus(c)
  <2>1. /\ Outstanding(c, "status") /\ Written(c, "status")
        /\ UNCHANGED <<links, job, galleryCache>>
        /\ \/ UNCHANGED <<asset, statusCache>>
           \/ /\ asset' = [asset EXCEPT ![about[c]] = "completed"]
              /\ statusCache' = [statusCache EXCEPT ![about[c]] = Nothing]
           \/ /\ asset' = [asset EXCEPT ![about[c]] = "processing"]
              /\ statusCache' = statusCache
    BY <1>2 DEF WriteStatus, SetAsset, BustStatus
  <2>2. MediaTypeOK'
    BY <1>1, <2>1 DEF MediaOrder, MediaTyped, MediaTypeOK, Status, Transient,
                      links
  <2> QED
    BY <1>1, <2>1, <2>2, WritesKeepOrder DEF MediaOrder, MediaTyped
<1>3. CASE AddJob(c)
  <2>1. /\ Outstanding(c, "job") /\ Written(c, "job")
        /\ job' = [job EXCEPT ![c] = [stage |-> "waiting", left |-> Attempts]]
        /\ UNCHANGED <<asset, links, caches>>
    BY <1>3 DEF AddJob, stores
  <2>2. MediaTypeOK'
    BY <1>1, <2>1 DEF MediaOrder, MediaTyped, MediaTypeOK, links, caches
  <2>3. /\ job' \in MediaJobs
        /\ \A d \in Confirms : d # c => job'[d] = job[d]
    BY <2>1, MediaAssumption DEF MediaOrder, MediaTyped, MediaJobs
  <2>4. /\ DOMAIN snapshot' = MediaCalls
        /\ snapshot' = [d \in MediaCalls |-> snapshot'[d]]
    BY <1>1 DEF MediaOrder, MediaTyped
  <2> QED
    BY <1>1, <2>1, <2>2, <2>3, <2>4, WritesKeepOrder
<1>4. ASSUME NEW w, Outstanding(c, w), Written(c, w), MediaTypeOK',
             UNCHANGED job
      PROVE  MediaOrder'
  BY <1>1, <1>4, WritesKeepOrder DEF MediaOrder, MediaTyped
<1>5. CASE LinkCoverMedia(c)
  <2>1. about[c] \in Covers
    BY <1>5 DEF LinkCoverMedia, Outstanding, MediaOrder, ConfirmsInOrder
  <2>2. MediaTypeOK'
    BY <1>1, <1>5, <2>1 DEF LinkCoverMedia, MediaOrder, MediaTyped,
                            MediaTypeOK, stores, caches
  <2> QED
    BY <1>4, <1>5, <2>2 DEF LinkCoverMedia
<1>6. CASE LinkCoverUrl(c)
  <2>1. about[c] \in Covers
    BY <1>6 DEF LinkCoverUrl, Outstanding, MediaOrder, ConfirmsInOrder
  <2>2. MediaTypeOK'
    BY <1>1, <1>6, <2>1 DEF LinkCoverUrl, MediaOrder, MediaTyped,
                            MediaTypeOK, stores, caches
  <2> QED
    BY <1>4, <1>6, <2>2 DEF LinkCoverUrl
<1>7. CASE LinkGallery(c)
  <2>1. about[c] \in Galleries
    BY <1>7 DEF LinkGallery, Outstanding, MediaOrder, ConfirmsInOrder
  <2>2. MediaTypeOK'
    BY <1>1, <1>7, <2>1 DEF LinkGallery, MediaOrder, MediaTyped,
                            MediaTypeOK, stores
  <2> QED
    BY <1>4, <1>7, <2>2 DEF LinkGallery
<1>8. CASE AddAvatar(c)
  <2>1. about[c] \in Avatars
    BY <1>8 DEF AddAvatar, Outstanding, MediaOrder, ConfirmsInOrder
  <2>2. /\ activeAvatars' \subseteq activeAvatars \union {about[c]}
        /\ linked' \subseteq linked \union {about[c]}
    BY <1>8 DEF AddAvatar
  <2>3. UNCHANGED <<asset, coverMedia, coverUrl, galleryMedia, statusCache>>
    BY <1>8 DEF AddAvatar, stores, caches
  <2>4. MediaTypeOK'
    BY <1>1, <2>1, <2>2, <2>3 DEF MediaOrder, MediaTyped, MediaTypeOK
  <2> QED
    BY <1>4, <1>8, <2>4 DEF AddAvatar
<1>9. CASE LinkDocument(c)
  <2>1. MediaTypeOK'
    BY <1>1, <1>9 DEF LinkDocument, MediaOrder, MediaTyped,
                            MediaTypeOK, stores, caches
  <2> QED
    BY <1>4, <1>9, <2>1 DEF LinkDocument
<1> QED
  BY <1>2, <1>3, <1>5, <1>6, <1>7, <1>8, <1>9

LEMMA JobsKeepOrder ==
  ASSUME MediaOrder, NEW c \in Confirms, JobStep(c)
  PROVE  MediaOrder'
<1> USE KindsOfUpload DEF JobStep
<1>1. UNCHANGED <<links, galleryCache, mediaStep, about, todo, snapshot,
        sweeping, excused>>
  BY DEF LoadFile, StoreVariants, SkipVariants, MarkReady, FailProcessing,
         stores, caches, progress
<1>2. /\ job[c].stage # "none"
      /\ \A d \in Confirms : d # c => job'[d] = job[d]
      /\ job' \in MediaJobs
  BY DEF LoadFile, StoreVariants, SkipVariants, MarkReady, FailProcessing,
         JobStage, UnderWay, MediaOrder, MediaTyped, MediaJobs
<1>3. about[c] \in Images
  BY <1>2 DEF MediaOrder, ConfirmsInOrder
<1>4. MediaTypeOK'
  BY <1>1, <1>3
     DEF LoadFile, StoreVariants, SkipVariants, MarkReady, FailProcessing,
         stores, caches, links, SetAsset, BustStatus, MediaOrder, MediaTyped,
         MediaTypeOK, Status
<1>5. MediaTyped'
  BY <1>1, <1>2, <1>4 DEF MediaOrder, MediaTyped
<1>6. OneCall(c)
  BY <1>1, <1>2 DEF OneCall
<1>7. mediaStep[c] \in {"writing", "done"}
  BY <1>2 DEF MediaOrder, ConfirmsInOrder
<1> QED
  BY <1>1, <1>3, <1>5, <1>6, <1>7, OtherCallsKeep
     DEF MediaOrder, ConfirmsInOrder

LEMMA EndAvatarsKeepsOrder ==
  ASSUME MediaOrder, NEW c \in Confirms, EndAvatars(c)
  PROVE  MediaOrder'
<1>1. /\ UNCHANGED <<stores, links, job, caches, mediaStep, about, todo,
           sweeping, excused>>
      /\ snapshot' = [snapshot EXCEPT ![c] = activeAvatars]
  BY DEF EndAvatars
<1>2. MediaTypeOK'
  BY <1>1 DEF MediaOrder, MediaTyped, MediaTypeOK, stores, links, caches
<1>3. /\ DOMAIN snapshot' = MediaCalls
      /\ snapshot' = [d \in MediaCalls |-> snapshot'[d]]
  BY <1>1 DEF MediaOrder, MediaTyped
<1>4. MediaTyped'
  BY <1>1, <1>2, <1>3 DEF MediaOrder, MediaTyped
<1> QED
  BY <1>1, <1>4 DEF MediaOrder, ConfirmsInOrder, DeletionsInOrder

LEMMA ReadsKeepOrder ==
  ASSUME MediaOrder, NEW p \in MediaCalls \ Confirms,
         \/ ReadStatus(p) \/ CacheStatus(p) \/ ReadGallery(p)
            \/ CacheGallery(p)
         \/ BeginDelete(p) \/ DeleteFiles(p) \/ DeleteRow(p)
  PROVE  MediaOrder'
<1> USE KindsOfUpload
<1>1. /\ UNCHANGED <<links, job, todo, sweeping>>
      /\ \A d \in MediaCalls : d # p =>
           mediaStep'[d] = mediaStep[d] /\ about'[d] = about[d]
      /\ mediaStep' \in [MediaCalls -> {"idle", "checked", "refused",
                                      "writing", "done", "read", "found",
                                      "emptied"}]
      /\ about' \in [MediaCalls -> Assets \union {Nothing}]
      /\ DOMAIN snapshot' = MediaCalls
      /\ snapshot' = [c \in MediaCalls |-> snapshot'[c]]
  BY DEF ReadStatus, CacheStatus, ReadGallery, CacheGallery, BeginDelete,
         DeleteFiles, DeleteRow, Advance, MediaOrder, MediaTyped
<1>2. MediaTypeOK'
  <2>1. CASE BeginDelete(p) \/ DeleteFiles(p)
    <3>1. /\ UNCHANGED <<asset, recorded, links, caches, sweeping>>
          /\ file' \in [Assets -> {"none", "image", "junk"}]
          /\ variants' \subseteq variants
      BY <2>1 DEF BeginDelete, DeleteFiles, stores, MediaOrder, MediaTyped,
                  MediaTypeOK
    <3>2. mediaStep[p] = "found" => about[p] \in Assets
      BY DEF MediaOrder, DeletionsInOrder
    <3>3. excused' \subseteq Assets \X {"sweep", "deletion"}
      BY <2>1, <3>2 DEF BeginDelete, DeleteFiles, Excuse, MediaOrder,
                        MediaTyped, MediaTypeOK
    <3> QED
      BY <3>1, <3>3 DEF links, caches, MediaOrder, MediaTyped, MediaTypeOK
  <2>2. CASE ~BeginDelete(p) /\ ~DeleteFiles(p)
    BY <1>1, <2>2
       DEF ReadStatus, CacheStatus, ReadGallery, CacheGallery, DeleteRow,
           Advance, MediaOrder, MediaTyped, MediaTypeOK, stores, links,
           caches, SetAsset, BustStatus, Status
  <2> QED
    BY <2>1, <2>2
<1>3. MediaTyped'
  BY <1>1, <1>2 DEF MediaOrder, MediaTyped
<1>4. OneCall(p)
  BY <1>1 DEF OneCall
<1>5. mediaStep'[p] \in {"found", "emptied"} => about'[p] \in Assets
  BY DEF ReadStatus, CacheStatus, ReadGallery, CacheGallery, BeginDelete,
         DeleteFiles, DeleteRow, Advance, MediaOrder, MediaTyped,
         DeletionsInOrder
<1> QED
  BY <1>3, <1>4, <1>5, OtherCallsKeep

-----------------------------------------------------------------------------
(***************************************************************************)
(* Uploads: the files of processed images                                  *)
(***************************************************************************)
\* Of the image there are copies, or a worker is about to store some.
Copying(a) == a \in variants \/ HeldFor(a)

\* While the recurring job may take the file of an image with copies, the image
\* is excused or its job still runs.
KeptWhileLive ==
  \A a \in variants :
    asset[a] = "processing" => <<a, "sweep">> \in excused \/ LiveFor(a)

FileKept ==
  \A a \in Images : Copying(a) /\ file[a] = "none" =>
    <<a, "sweep">> \in excused \/ Erased(a)

\* A row names copies only of an image that has left "pending" for good.
RecordedIsThere ==
  \A a \in recorded : asset[a] \notin {"none", "pending", "gone"}

\* What a deletion has read, if the image is not excused.
KeysAreRead ==
  \A d \in Deletions : \A a \in Images :
    /\ about[d] = a /\ mediaStep[d] = "found"
    /\ <<a, "deletion">> \notin excused
    => snapshot[d] = {a} /\ asset[a] \notin {"none", "pending"}

\* The files have been deleted, and the row will be next or has been.
Emptied(a) ==
  \/ asset[a] = "gone"
  \/ \E d \in Deletions : about[d] = a /\ mediaStep[d] = "emptied"

\* Then nothing is left in storage, and nothing comes back.
NothingLeft ==
  \A a \in Images : Emptied(a) /\ <<a, "deletion">> \notin excused =>
    /\ asset[a] \notin {"none", "pending"}
    /\ file[a] = "none"
    /\ ~Copying(a)

FilesKept ==
  /\ KeptWhileLive /\ FileKept
  /\ RecordedIsThere /\ KeysAreRead /\ NothingLeft

LEMMA FilesAreAccountedFor ==
  ASSUME MediaOrder, FilesKept
  PROVE  CopiesAccountedFor
BY DEF MediaOrder, MediaTyped, MediaTypeOK, FilesKept, FileKept, NothingLeft,
       Copying, Emptied, CopiesAccountedFor, ProcessedKeepsFile,
       DeletedLeavesNoCopies

\* A step that takes no file, deletes no row and is not of a deletion.
LEMMA StaysKept ==
  ASSUME MediaOrder, FilesKept, excused \subseteq excused',
         \A d \in Deletions : /\ mediaStep'[d] = mediaStep[d]
                              /\ about'[d] = about[d]
                              /\ snapshot'[d] = snapshot[d],
         \A a \in Images :
           /\ asset'[a] = "gone" => asset[a] = "gone"
           /\ asset[a] \notin {"none", "pending"} =>
                asset'[a] \notin {"none", "pending"}
           /\ \/ file'[a] = file[a]
              \/ file'[a] # "none" /\ (asset[a] = "pending" \/ Copying(a))
           /\ Copying(a)' => Copying(a) \/ file[a] # "none",
         \A a \in variants' : asset'[a] = "processing" =>
           \/ <<a, "sweep">> \in excused' \/ LiveFor(a)'
           \/ /\ a \in variants /\ asset[a] = "processing"
              /\ LiveFor(a) => LiveFor(a)',
         \A a \in recorded' :
           \/ a \in recorded
           \/ a \in Images /\ asset'[a] \notin {"none", "pending", "gone"}
  PROVE  FilesKept'
<1>1. recorded \subseteq Images
  BY DEF MediaOrder, MediaTyped, MediaTypeOK
<1>2. \A a \in Images : /\ Erased(a) => Erased(a)'
                        /\ Emptied(a)' => Emptied(a)
  BY DEF Erased, Emptied
<1>3. KeptWhileLive'
  BY DEF FilesKept, KeptWhileLive
<1>4. FileKept'
  BY <1>2 DEF FilesKept, FileKept
<1>5. RecordedIsThere'
  BY <1>1 DEF FilesKept, RecordedIsThere
<1>6. KeysAreRead'
  BY DEF FilesKept, KeysAreRead
<1>7. NothingLeft'
  BY <1>2 DEF FilesKept, NothingLeft
<1> QED
  BY <1>3, <1>4, <1>5, <1>6, <1>7 DEF FilesKept

LEMMA KeptInit == MediaInit => FilesKept
BY KindsOfUpload
   DEF MediaInit, FilesKept, KeptWhileLive, FileKept, RecordedIsThere,
       KeysAreRead, NothingLeft, Emptied, Copying, HeldFor

LEMMA UploadsStayKept ==
  ASSUME MediaOrder, FilesKept, NEW a \in Assets,
         \/ RequestUpload(a) \/ PutFile(a) \/ SweepRow(a) \/ ExpireStatus(a)
  PROVE  FilesKept'
<1> USE KindsOfUpload
<1>1. UNCHANGED <<variants, recorded, excused, job, mediaStep, about,
        snapshot>>
  BY DEF RequestUpload, PutFile, SweepRow, ExpireStatus, stores, progress
<1>2. \A b \in Assets : /\ LiveFor(b) <=> LiveFor(b)'
                        /\ Copying(b) <=> Copying(b)'
  BY <1>1 DEF LiveFor, HeldFor, UnderWay, Copying
<1>3. \A b \in Images :
        /\ file'[b] = file[b] \/ (file'[b] # "none" /\ asset[b] = "pending")
        /\ asset'[b] = "processing" => asset[b] = "processing"
        /\ asset'[b] = "gone" => asset[b] = "gone"
        /\ asset[b] \notin {"none", "pending"} =>
             asset'[b] \notin {"none", "pending"}
  BY DEF RequestUpload, PutFile, SweepRow, ExpireStatus, stores, KeyIsFresh,
         SetAsset, MediaOrder, MediaTyped, MediaTypeOK
<1>4. variants \subseteq Images
  BY DEF MediaOrder, MediaTyped, MediaTypeOK
<1> QED
  BY <1>1, <1>2, <1>3, <1>4, StaysKept

LEMMA SweepStaysKept ==
  ASSUME MediaOrder, FilesKept, NEW a \in Assets, SweepFile(a)
  PROVE  FilesKept'
<1> USE KindsOfUpload
<1>1. /\ UNCHANGED <<asset, variants, recorded, job, mediaStep, about,
           snapshot>>
      /\ asset[a] = "processing"
      /\ file' = [file EXCEPT ![a] = "none"]
      /\ excused \subseteq excused'
      /\ LiveFor(a) => <<a, "sweep">> \in excused'
  BY DEF SweepFile, Orphaned, Excuse, progress
<1>2. \A b \in Assets : /\ LiveFor(b) <=> LiveFor(b)'
                        /\ Copying(b) <=> Copying(b)'
                        /\ Erased(b) <=> Erased(b)'
                        /\ Emptied(b) <=> Emptied(b)'
                        /\ HeldFor(b) => LiveFor(b)
  BY <1>1 DEF LiveFor, HeldFor, UnderWay, Copying, Erased, Emptied
<1>3. \A b \in Images : /\ b # a => file'[b] = file[b]
                        /\ file[b] = "none" => file'[b] = "none"
  BY <1>1 DEF MediaOrder, MediaTyped, MediaTypeOK
<1>4. variants \subseteq Images
  BY DEF MediaOrder, MediaTyped, MediaTypeOK
<1>5. KeptWhileLive'
  BY <1>1, <1>2, <1>4 DEF FilesKept, KeptWhileLive
<1>6. Copying(a) => <<a, "sweep">> \in excused'
  BY <1>1, <1>2 DEF FilesKept, KeptWhileLive, Copying
<1>7. FileKept'
  BY <1>1, <1>2, <1>3, <1>6 DEF FilesKept, FileKept
<1>8. RecordedIsThere' /\ KeysAreRead' /\ NothingLeft'
  BY <1>1, <1>2, <1>3
     DEF FilesKept, RecordedIsThere, KeysAreRead, NothingLeft
<1> QED
  BY <1>5, <1>7, <1>8 DEF FilesKept

LEMMA ConfirmStaysKept ==
  ASSUME MediaOrder, FilesKept, NEW c \in Confirms, ConfirmStep(c)
  PROVE  FilesKept'
<1> USE KindsOfUpload DEF ConfirmStep
<1>1. UNCHANGED <<file, variants, recorded>> /\ excused \subseteq excused'
  BY DEF BeginConfirm, RejectBytes, PassBytes, WriteStatus, AddJob,
         LinkCoverMedia, LinkCoverUrl, LinkGallery, EndAvatars, AddAvatar,
         LinkDocument, EndConfirm, stores, Excuse
<1>2. \A d \in Confirms :
        /\ UnderWay(d) => about'[d] = about[d] /\ UnderWay(d)'
        /\ job'[d].stage = "loaded" =>
             about'[d] = about[d] /\ job[d].stage = "loaded"
  <2>1. CASE BeginConfirm(c)
    <3>1. job[c].stage = "none"
      BY <2>1 DEF BeginConfirm, Idle, MediaOrder, ConfirmsInOrder
    <3>2. \A d \in Confirms \ {c} : about'[d] = about[d]
      BY <2>1 DEF BeginConfirm, MediaOrder, MediaTyped
    <3>3. UNCHANGED job
      BY <2>1 DEF BeginConfirm
    <3> QED
      BY <3>1, <3>2, <3>3 DEF UnderWay
  <2>2. CASE AddJob(c)
    BY <2>2 DEF AddJob, UnderWay, MediaOrder, MediaTyped, MediaJobs, progress
  <2>3. CASE UNCHANGED <<job, about>>
    BY <2>3 DEF UnderWay
  <2> QED
    BY <2>1, <2>2, <2>3
       DEF RejectBytes, PassBytes, WriteStatus, LinkCoverMedia, LinkCoverUrl,
           LinkGallery, EndAvatars, AddAvatar, LinkDocument, EndConfirm
<1>3. \A a \in Assets : /\ LiveFor(a) => LiveFor(a)'
                        /\ Copying(a)' => Copying(a)
  BY <1>1, <1>2 DEF LiveFor, HeldFor, Copying
<1>4. \A a \in Images :
        /\ a \in variants /\ asset'[a] = "processing" =>
             asset[a] = "processing" \/ <<a, "sweep">> \in excused'
        /\ asset'[a] = "gone" => asset[a] = "gone"
        /\ asset[a] \notin {"none", "pending"} =>
             asset'[a] \notin {"none", "pending"}
  <2>1. CASE WriteStatus(c)
    BY <2>1
       DEF WriteStatus, SetAsset, Excuse, MediaOrder, MediaTyped, MediaTypeOK
  <2>2. CASE RejectBytes(c)
    BY <2>2 DEF RejectBytes, SetAsset, MediaOrder, MediaTyped, MediaTypeOK
  <2>3. CASE UNCHANGED asset
    BY <2>3
  <2> QED
    BY <2>1, <2>2, <2>3
       DEF BeginConfirm, PassBytes, AddJob, LinkCoverMedia, LinkCoverUrl,
           LinkGallery, EndAvatars, AddAvatar, LinkDocument, EndConfirm, stores
<1>5. \A d \in Deletions : /\ mediaStep'[d] = mediaStep[d]
                           /\ about'[d] = about[d]
                           /\ snapshot'[d] = snapshot[d]
  BY MediaAssumption
     DEF BeginConfirm, RejectBytes, PassBytes, WriteStatus, AddJob,
         LinkCoverMedia, LinkCoverUrl, LinkGallery, EndAvatars, AddAvatar,
         LinkDocument, EndConfirm, Advance, MediaOrder, MediaTyped
<1>6. variants \subseteq Images
  BY DEF MediaOrder, MediaTyped, MediaTypeOK
<1> QED
  BY <1>1, <1>3, <1>4, <1>5, <1>6, StaysKept

LEMMA JobsStayKept ==
  ASSUME MediaOrder, FilesKept, NEW c \in Confirms, JobStep(c)
  PROVE  FilesKept'
<1> USE KindsOfUpload DEF JobStep
<1>1. UNCHANGED <<mediaStep, about, snapshot, excused>>
  BY DEF LoadFile, StoreVariants, SkipVariants, MarkReady, FailProcessing,
         stores, progress
<1>2. job[c].stage # "none" /\ about[c] \in Images
  BY DEF LoadFile, StoreVariants, SkipVariants, MarkReady, FailProcessing,
         UnderWay, MediaOrder, ConfirmsInOrder
<1>3. \A d \in Confirms \ {c} : job'[d] = job[d]
  BY DEF LoadFile, StoreVariants, SkipVariants, MarkReady, FailProcessing,
         JobStage, MediaOrder, MediaTyped, MediaJobs
<1>4. job'[c].stage = "loaded" => file[about[c]] # "none"
  BY DEF LoadFile, StoreVariants, SkipVariants, MarkReady, FailProcessing,
         JobStage, MediaOrder, MediaTyped, MediaJobs
<1>5. \A a \in Images : HeldFor(a)' => HeldFor(a) \/ file[a] # "none"
  BY <1>1, <1>3, <1>4 DEF HeldFor
<1>6. /\ \/ variants' = variants
         \/ variants' = variants \union {about[c]} /\ HeldFor(about[c])
      /\ \A a \in Images :
           file'[a] = file[a] \/ (file'[a] # "none" /\ HeldFor(a))
  BY DEF LoadFile, StoreVariants, SkipVariants, MarkReady, FailProcessing,
         HeldFor, stores, MediaOrder, MediaTyped, MediaTypeOK
<1>7. \A a \in Images : /\ Copying(a)' => Copying(a) \/ file[a] # "none"
                        /\ HeldFor(a) => Copying(a)
  BY <1>5, <1>6 DEF Copying
<1>8. \A a \in Images :
        /\ asset'[a] = "processing" => asset[a] = "processing"
        /\ asset'[a] = "gone" => asset[a] = "gone"
        /\ asset[a] \notin {"none", "pending"} =>
             asset'[a] \notin {"none", "pending"}
  BY DEF LoadFile, StoreVariants, SkipVariants, MarkReady, FailProcessing,
         SetAsset, Exists, stores, MediaOrder, MediaTyped, MediaTypeOK
<1>9. \A a \in Images : a # about[c] => (LiveFor(a) => LiveFor(a)')
  BY <1>1, <1>3 DEF LiveFor, UnderWay
<1>10. asset'[about[c]] = "processing" => LiveFor(about[c])'
  <2>1. CASE LoadFile(c) \/ StoreVariants(c) \/ SkipVariants(c)
    BY <1>1, <2>1
       DEF LoadFile, StoreVariants, SkipVariants, JobStage, LiveFor, UnderWay,
           MediaOrder, MediaTyped, MediaJobs
  <2>2. CASE MarkReady(c) \/ FailProcessing(c)
    BY <1>2, <2>2
       DEF MarkReady, FailProcessing, SetAsset, Exists, MediaOrder, MediaTyped,
           MediaTypeOK
  <2> QED
    BY <2>1, <2>2
<1>11. \A a \in recorded' :
         \/ a \in recorded
         \/ a \in Images /\ asset'[a] \notin {"none", "pending", "gone"}
  BY <1>2 DEF LoadFile, StoreVariants, SkipVariants, MarkReady, FailProcessing,
         SetAsset, stores, MediaOrder, MediaTyped, MediaTypeOK
<1>12. variants \subseteq Images
  BY DEF MediaOrder, MediaTyped, MediaTypeOK
<1>13. \A a \in variants' : asset'[a] = "processing" =>
         \/ LiveFor(a)'
         \/ /\ a \in variants /\ asset[a] = "processing"
            /\ LiveFor(a) => LiveFor(a)'
  BY <1>1, <1>6, <1>8, <1>9, <1>10, <1>12
<1> QED
  BY <1>1, <1>6, <1>7, <1>8, <1>11, <1>13, StaysKept

LEMMA ReadsStayKept ==
  ASSUME MediaOrder, FilesKept, NEW p \in Polls \union Readers,
         \/ ReadStatus(p) \/ CacheStatus(p) \/ ReadGallery(p)
            \/ CacheGallery(p)
  PROVE  FilesKept'
<1> USE KindsOfUpload
<1>1. p \in MediaCalls /\ p \notin Confirms /\ p \notin Deletions
  BY MediaAssumption
<1>2. UNCHANGED <<asset, file, variants, recorded, job, excused>>
  BY DEF ReadStatus, CacheStatus, ReadGallery, CacheGallery, stores
<1>3. \A d \in MediaCalls : d # p =>
        mediaStep'[d] = mediaStep[d] /\ about'[d] = about[d]
        /\ snapshot'[d] = snapshot[d]
  BY DEF ReadStatus, CacheStatus, ReadGallery, CacheGallery, Advance,
         MediaOrder, MediaTyped
<1>4. \A a \in Assets : /\ LiveFor(a) <=> LiveFor(a)'
                        /\ Copying(a) <=> Copying(a)'
  BY <1>1, <1>2, <1>3 DEF LiveFor, HeldFor, UnderWay, Copying
<1>5. variants \subseteq Images
  BY DEF MediaOrder, MediaTyped, MediaTypeOK
<1> QED
  BY <1>1, <1>2, <1>3, <1>4, <1>5, StaysKept

\* What the three steps of a deletion leave alone.
LEMMA DeletionsKeepRest ==
  ASSUME MediaOrder, FilesKept, NEW c \in Deletions,
         BeginDelete(c) \/ DeleteFiles(c) \/ DeleteRow(c)
  PROVE  /\ excused \subseteq excused' /\ job' = job
         /\ \A d \in MediaCalls : d # c =>
              /\ mediaStep'[d] = mediaStep[d] /\ about'[d] = about[d]
              /\ snapshot'[d] = snapshot[d]
         /\ \A a \in Assets : /\ LiveFor(a) <=> LiveFor(a)'
                              /\ HeldFor(a) <=> HeldFor(a)'
         /\ \A a \in Images : Erased(a) => Erased(a)'
         /\ variants \subseteq Images /\ recorded \subseteq Images
<1> USE KindsOfUpload
<1>1. c \notin Confirms /\ c \in MediaCalls
  BY MediaAssumption
<1>2. excused \subseteq excused' /\ job' = job
  BY DEF BeginDelete, DeleteFiles, DeleteRow, Excuse
<1>3. \A d \in MediaCalls : d # c =>
        /\ mediaStep'[d] = mediaStep[d] /\ about'[d] = about[d]
        /\ snapshot'[d] = snapshot[d]
  BY DEF BeginDelete, DeleteFiles, DeleteRow, Advance, MediaOrder, MediaTyped
<1>4. \A a \in Assets : /\ LiveFor(a) <=> LiveFor(a)'
                        /\ HeldFor(a) <=> HeldFor(a)'
  BY <1>1, <1>2, <1>3 DEF LiveFor, HeldFor, UnderWay
<1>5. mediaStep[c] \in {"emptied", "refused", "done"} =>
        /\ about'[c] = about[c]
        /\ mediaStep'[c] \in {"emptied", "refused", "done"}
  BY <1>1 DEF BeginDelete, DeleteFiles, DeleteRow, Idle, Advance, MediaOrder,
              MediaTyped
<1>6. \A a \in Images : Erased(a) => Erased(a)'
  BY <1>3, <1>5 DEF Erased
<1> QED
  BY <1>2, <1>3, <1>4, <1>6 DEF MediaOrder, MediaTyped, MediaTypeOK

LEMMA BeginDeleteStaysKept ==
  ASSUME MediaOrder, FilesKept, NEW c \in Deletions, BeginDelete(c)
  PROVE  FilesKept'
<1> USE KindsOfUpload, DeletionsKeepRest
<1>1. UNCHANGED <<asset, file, variants, recorded>>
  BY DEF BeginDelete, stores
<1>2. PICK a \in Assets :
        /\ about' = [about EXCEPT ![c] = a]
        /\ snapshot' = [snapshot EXCEPT ![c] = {a} \intersect recorded]
        /\ a \notin recorded => <<a, "deletion">> \in excused'
  BY DEF BeginDelete, Excuse
<1>3. /\ mediaStep'[c] = "found" /\ about'[c] = a
      /\ snapshot'[c] = {a} \intersect recorded
  BY <1>2 DEF BeginDelete, Advance, MediaOrder, MediaTyped
<1>4. \A b \in Images : /\ Copying(b)' <=> Copying(b)
                        /\ Emptied(b)' => Emptied(b)
  BY <1>1, <1>3 DEF Copying, Emptied
<1>5. KeptWhileLive' /\ FileKept' /\ RecordedIsThere' /\ NothingLeft'
  BY <1>1, <1>4
     DEF FilesKept, KeptWhileLive, FileKept, RecordedIsThere, NothingLeft
<1>6. KeysAreRead'
  BY <1>1, <1>2, <1>3 DEF FilesKept, KeysAreRead, RecordedIsThere
<1> QED
  BY <1>5, <1>6 DEF FilesKept

LEMMA DeleteFilesStaysKept ==
  ASSUME MediaOrder, FilesKept, NEW c \in Deletions, DeleteFiles(c)
  PROVE  FilesKept'
<1> USE KindsOfUpload, DeletionsKeepRest
<1> DEFINE a == about[c]
<1>1. /\ UNCHANGED <<asset, recorded, about, snapshot>>
      /\ mediaStep[c] = "found" /\ mediaStep'[c] = "emptied"
      /\ a \in Assets
  BY DEF DeleteFiles, Advance, MediaOrder, MediaTyped, DeletionsInOrder
<1>2. /\ variants' \subseteq variants
      /\ \A b \in Images : /\ b # a => file'[b] = file[b]
                           /\ file[b] = "none" => file'[b] = "none"
      /\ \/ <<a, "deletion">> \in excused'
         \/ /\ ~HeldFor(a) /\ file'[a] = "none"
            /\ variants' = variants \ snapshot[c]
  BY <1>1 DEF DeleteFiles, ErasedCopies, Excuse, MediaOrder, MediaTyped,
              MediaTypeOK
<1>3. Erased(a)'
  BY <1>1 DEF Erased
<1>4. \A b \in Images : /\ Copying(b)' => Copying(b)
                        /\ b # a => (Emptied(b)' => Emptied(b))
  BY <1>1, <1>2 DEF Copying, Emptied
<1>5. KeptWhileLive' /\ RecordedIsThere' /\ KeysAreRead'
  BY <1>1, <1>2
     DEF FilesKept, KeptWhileLive, RecordedIsThere, KeysAreRead
<1>6. FileKept'
  <2>1. \A b \in Images : b # a /\ Copying(b)' /\ file'[b] = "none" =>
          <<b, "sweep">> \in excused' \/ Erased(b)'
    BY <1>2, <1>4 DEF FilesKept, FileKept
  <2>2. \A b \in Images : b = a => Erased(b)'
    BY <1>1, <1>3
  <2> QED
    BY <2>1, <2>2 DEF FileKept
<1>7. a \in Images /\ <<a, "deletion">> \notin excused' =>
        asset'[a] \notin {"none", "pending"} /\ file'[a] = "none"
        /\ ~Copying(a)'
  BY <1>1, <1>2 DEF FilesKept, KeysAreRead, Copying
<1>8. NothingLeft'
  BY <1>1, <1>2, <1>4, <1>7 DEF FilesKept, NothingLeft
<1> QED
  BY <1>5, <1>6, <1>8 DEF FilesKept

LEMMA DeleteRowStaysKept ==
  ASSUME MediaOrder, FilesKept, NEW c \in Deletions, DeleteRow(c)
  PROVE  FilesKept'
<1> USE KindsOfUpload, DeletionsKeepRest
<1> DEFINE a == about[c]
<1>1. /\ UNCHANGED <<file, variants, about, snapshot>>
      /\ mediaStep[c] = "emptied"
      /\ mediaStep'[c] \notin {"found", "emptied"}
      /\ recorded' = recorded \/ recorded' = recorded \ {a}
      /\ recorded' = recorded => asset' = asset \/ a \notin recorded
  BY DEF DeleteRow, Advance, MediaOrder, MediaTyped
<1>2. \A b \in Images :
        /\ asset'[b] = asset[b] \/ (b = a /\ asset'[b] = "gone")
        /\ Copying(b)' <=> Copying(b)
        /\ Emptied(b)' => Emptied(b)
  <2>1. \A b \in Images :
          asset'[b] = asset[b] \/ (b = a /\ asset'[b] = "gone")
    BY <1>1 DEF DeleteRow, SetAsset, KeyIsFresh, MediaOrder, MediaTyped,
                MediaTypeOK, DeletionsInOrder
  <2> QED
    BY <1>1, <2>1 DEF Copying, Emptied
<1>3. KeptWhileLive' /\ FileKept'
  BY <1>1, <1>2 DEF FilesKept, KeptWhileLive, FileKept
<1>4. RecordedIsThere'
  BY <1>1, <1>2 DEF FilesKept, RecordedIsThere
<1>5. KeysAreRead' /\ NothingLeft'
  BY <1>1, <1>2 DEF FilesKept, KeysAreRead, NothingLeft
<1> QED
  BY <1>3, <1>4, <1>5 DEF FilesKept

-----------------------------------------------------------------------------
(***************************************************************************)
(* Uploads: links                                                          *)
(***************************************************************************)
\* No row goes while its upload is being confirmed.
ConfirmedExists ==
  \A c \in Confirms : mediaStep[c] \in {"checked", "writing"} =>
    Exists(about[c]) /\ ~BeingDeleted(about[c])

\* One confirmation at a time writes.
OneWriter ==
  \A c, d \in Confirms :
    mediaStep[c] = "writing" /\ mediaStep[d] = "writing" => c = d

\* The transaction that replaces a picture has seen every active one.
OneAvatar ==
  /\ \A a, b \in activeAvatars : a = b
  /\ \A c \in Confirms : "avatar" \in todo[c] /\ snapshot[c] # Nothing =>
       activeAvatars \subseteq snapshot[c]

\* Each write of a cover that has been made is there.
CoverWritten ==
  \A c \in Confirms : mediaStep[c] = "writing" /\ about[c] \in Covers =>
    /\ "coverMedia" \notin todo[c] => coverMedia = about[c]
    /\ "coverUrl" \notin todo[c] => coverUrl = about[c]

CoverAgrees ==
  (\A c \in Confirms : todo[c] \intersect {"coverMedia", "coverUrl"} = {})
    => coverUrl = coverMedia

NoneSeenYet ==
  \A c \in Confirms :
    mediaStep[c] \in {"idle", "checked"} => snapshot[c] = Nothing

LinksInStep ==
  /\ NoneSeenYet
  /\ \/ linkRaced
     \/ ConfirmedExists /\ OneWriter /\ OneAvatar /\ CoverWritten
        /\ CoverAgrees

LEMMA LinksInit == MediaInit => LinksInStep
BY DEF MediaInit, LinksInStep, ConfirmedExists, OneWriter, OneAvatar,
       CoverWritten, CoverAgrees, NoneSeenYet, MediaCalls

\* A step that makes none of the writes these links depend on.
LEMMA LinksStay ==
  ASSUME MediaOrder, LinksInStep, linkRaced => linkRaced',
         UNCHANGED <<coverMedia, coverUrl, activeAvatars>>,
         ~linkRaced' => ConfirmedExists',
         \A d \in Confirms :
           /\ mediaStep'[d] = "writing" =>
                mediaStep[d] = "writing" /\ about'[d] = about[d]
           /\ mediaStep'[d] \in {"idle", "checked"} =>
                mediaStep[d] \in {"idle", "checked"}
           /\ snapshot'[d] = snapshot[d]
           /\ \A w \in {"coverMedia", "coverUrl", "avatar"} :
                w \in todo'[d] <=> w \in todo[d]
  PROVE  LinksInStep'
<1> USE DEF LinksInStep
<1>1. NoneSeenYet'
  BY DEF NoneSeenYet
<1>2. ASSUME ~linkRaced'
      PROVE  OneWriter' /\ OneAvatar' /\ CoverWritten' /\ CoverAgrees'
  <2>1. OneWriter'
    BY <1>2 DEF OneWriter
  <2>2. OneAvatar'
    BY <1>2 DEF OneAvatar
  <2>3. CoverWritten'
    BY <1>2 DEF CoverWritten
  <2>4. CoverAgrees'
    BY <1>2 DEF CoverAgrees
  <2> QED
    BY <2>1, <2>2, <2>3, <2>4
<1> QED
  BY <1>1, <1>2

\* A step that removes no row and begins no deletion.
LEMMA ConfirmedStays ==
  ASSUME ConfirmedExists,
         \A a \in Assets : Exists(a) => Exists(a)',
         \A d \in Deletions :
           about'[d] = about[d] /\ mediaStep'[d] = mediaStep[d],
         MediaOrder,
         \A c \in Confirms : mediaStep'[c] \in {"checked", "writing"} =>
           about'[c] = about[c] /\ mediaStep[c] \in {"checked", "writing"}
  PROVE  ConfirmedExists'
<1>1. \A a \in Assets : BeingDeleted(a)' <=> BeingDeleted(a)
  BY DEF BeingDeleted
<1>2. \A c \in Confirms : mediaStep[c] \in {"checked", "writing"} =>
        about[c] \in Assets
  BY DEF MediaOrder, ConfirmsInOrder
<1> QED
  BY <1>1, <1>2 DEF ConfirmedExists

LEMMA UploadsKeepLinks ==
  ASSUME MediaOrder, LinksInStep, NEW a \in Assets,
         \/ RequestUpload(a) \/ PutFile(a) \/ SweepFile(a) \/ SweepRow(a)
         \/ ExpireStatus(a)
  PROVE  LinksInStep'
<1> USE KindsOfUpload
<1>1. UNCHANGED <<linkRaced, coverMedia, coverUrl, activeAvatars, mediaStep,
        about, todo, snapshot>>
  BY DEF RequestUpload, PutFile, SweepFile, SweepRow, ExpireStatus, links,
         progress
<1>2. \A b \in Assets : Exists(b) => Exists(b)'
  BY DEF RequestUpload, PutFile, SweepFile, SweepRow, ExpireStatus, stores,
         SetAsset, Exists, MediaOrder, MediaTyped, MediaTypeOK
<1>3. ConfirmedExists => ConfirmedExists'
  BY <1>1, <1>2, ConfirmedStays
<1> QED
  BY <1>1, <1>3, LinksStay DEF LinksInStep

LEMMA JobsKeepLinks ==
  ASSUME MediaOrder, LinksInStep, NEW c \in Confirms, JobStep(c)
  PROVE  LinksInStep'
<1> USE KindsOfUpload DEF JobStep
<1>1. UNCHANGED <<linkRaced, coverMedia, coverUrl, activeAvatars, mediaStep,
        about, todo, snapshot>>
  BY DEF LoadFile, StoreVariants, SkipVariants, MarkReady, FailProcessing,
         links, progress
<1>2. \A b \in Assets : Exists(b) => Exists(b)'
  BY DEF LoadFile, StoreVariants, SkipVariants, MarkReady, FailProcessing,
         stores, SetAsset, Exists, MediaOrder, MediaTyped, MediaTypeOK
<1>3. ConfirmedExists => ConfirmedExists'
  BY <1>1, <1>2, ConfirmedStays
<1> QED
  BY <1>1, <1>3, LinksStay DEF LinksInStep

LEMMA ReadsKeepLinks ==
  ASSUME MediaOrder, LinksInStep, NEW p \in Polls \union Readers,
         \/ ReadStatus(p) \/ CacheStatus(p) \/ ReadGallery(p)
            \/ CacheGallery(p)
  PROVE  LinksInStep'
<1> USE KindsOfUpload
<1>1. p \notin Confirms /\ p \notin Deletions
  BY MediaAssumption
<1>2. UNCHANGED <<linkRaced, coverMedia, coverUrl, activeAvatars, asset, todo>>
  BY DEF ReadStatus, CacheStatus, ReadGallery, CacheGallery, stores, links
<1>3. \A d \in MediaCalls : d # p =>
        mediaStep'[d] = mediaStep[d] /\ about'[d] = about[d]
        /\ snapshot'[d] = snapshot[d]
  BY DEF ReadStatus, CacheStatus, ReadGallery, CacheGallery, Advance,
         MediaOrder, MediaTyped
<1>4. ConfirmedExists => ConfirmedExists'
  BY <1>1, <1>2, <1>3, ConfirmedStays DEF Exists
<1> QED
  BY <1>1, <1>2, <1>3, <1>4, LinksStay DEF LinksInStep

LEMMA DeletionsKeepLinks ==
  ASSUME MediaOrder, LinksInStep, NEW c \in Deletions,
         BeginDelete(c) \/ DeleteFiles(c) \/ DeleteRow(c)
  PROVE  LinksInStep'
<1> USE KindsOfUpload
<1>1. c \notin Confirms
  BY MediaAssumption
<1>2. /\ UNCHANGED <<coverMedia, coverUrl, activeAvatars, todo>>
      /\ linkRaced => linkRaced'
  <2>1. CASE BeginDelete(c)
    BY <2>1 DEF BeginDelete, links
  <2>2. CASE ~BeginDelete(c)
    BY <2>2 DEF DeleteFiles, DeleteRow, links
  <2> QED
    BY <2>1, <2>2
<1>3. \A d \in MediaCalls : d # c =>
        mediaStep'[d] = mediaStep[d] /\ about'[d] = about[d]
        /\ snapshot'[d] = snapshot[d]
  BY DEF BeginDelete, DeleteFiles, DeleteRow, Advance, MediaOrder, MediaTyped
<1>4. ASSUME ~linkRaced' PROVE ConfirmedExists'
  <2>1. ConfirmedExists
    BY <1>2, <1>4 DEF LinksInStep
  <2>2. CASE BeginDelete(c)
    <3>1. PICK a \in Assets :
             /\ about' = [about EXCEPT ![c] = a]
             /\ \A d \in Confirms : mediaStep[d] \in {"checked", "writing"} =>
                  about[d] # a
      BY <1>4, <2>2 DEF BeginDelete
    <3>2. \A b \in Assets : b # a => (BeingDeleted(b)' => BeingDeleted(b))
      BY <1>3, <3>1 DEF BeingDeleted, MediaOrder, MediaTyped
    <3>3. asset' = asset
      BY <2>2 DEF BeginDelete, stores
    <3>4. \A d \in Confirms : mediaStep[d] \in {"checked", "writing"} =>
            about[d] \in Assets
      BY DEF MediaOrder, ConfirmsInOrder
    <3> QED
      BY <1>1, <1>3, <2>1, <3>1, <3>2, <3>3, <3>4 DEF ConfirmedExists, Exists
  <2>3. CASE DeleteFiles(c)
    <3>1. mediaStep[c] = "found" /\ UNCHANGED <<asset, about>>
      BY <2>3 DEF DeleteFiles
    <3>2. \A b \in Assets : BeingDeleted(b)' => BeingDeleted(b)
      BY <1>3, <3>1 DEF BeingDeleted
    <3>3. \A d \in Confirms : mediaStep[d] \in {"checked", "writing"} =>
             about[d] \in Assets
      BY DEF MediaOrder, ConfirmsInOrder
    <3> QED
      BY <1>1, <1>3, <2>1, <3>1, <3>2, <3>3 DEF ConfirmedExists, Exists
  <2>4. CASE DeleteRow(c)
    <3>1. /\ mediaStep[c] = "emptied" /\ about' = about
          /\ mediaStep'[c] # "emptied"
      BY <2>4 DEF DeleteRow, Advance, MediaOrder, MediaTyped
    <3>2. BeingDeleted(about[c])
      BY <3>1 DEF BeingDeleted
    <3>3. \A b \in Assets : b # about[c] => (Exists(b) => Exists(b)')
      BY <2>4
         DEF DeleteRow, SetAsset, Exists, MediaOrder, MediaTyped, MediaTypeOK
    <3>4. \A b \in Assets : BeingDeleted(b)' => BeingDeleted(b)
      BY <1>3, <3>1 DEF BeingDeleted
    <3>5. \A d \in Confirms : mediaStep[d] \in {"checked", "writing"} =>
             about[d] \in Assets /\ about[d] # about[c]
      BY <2>1, <3>2 DEF MediaOrder, ConfirmsInOrder, ConfirmedExists
    <3> QED
      BY <1>1, <1>3, <2>1, <3>1, <3>3, <3>4, <3>5 DEF ConfirmedExists
  <2> QED
    BY <2>2, <2>3, <2>4
<1> QED
  BY <1>1, <1>2, <1>3, <1>4, LinksStay

LEMMA ConfirmsStay ==
  ASSUME MediaOrder, ConfirmedExists, NEW c \in Confirms, ConfirmStep(c),
         ~linkRaced'
  PROVE  ConfirmedExists'
<1> USE KindsOfUpload DEF ConfirmStep
<1>1. \A b \in Assets : Exists(b) => Exists(b)'
  BY DEF BeginConfirm, RejectBytes, PassBytes, WriteStatus, AddJob,
         LinkCoverMedia, LinkCoverUrl, LinkGallery, EndAvatars, AddAvatar,
         LinkDocument, EndConfirm, stores, SetAsset, Exists, MediaOrder,
         MediaTyped, MediaTypeOK
<1>2. /\ \A d \in MediaCalls : d # c =>
           mediaStep'[d] = mediaStep[d] /\ about'[d] = about[d]
      /\ c \notin Deletions
  BY MediaAssumption
     DEF BeginConfirm, RejectBytes, PassBytes, WriteStatus, AddJob,
         LinkCoverMedia, LinkCoverUrl, LinkGallery, EndAvatars, AddAvatar,
         LinkDocument, EndConfirm, Advance, MediaOrder, MediaTyped
<1>3. CASE BeginConfirm(c)
  <2>1. PICK a \in Assets :
          /\ asset[a] = "pending"
          /\ about' = [about EXCEPT ![c] = a]
          /\ ~BeingDeleted(a)
    BY <1>3 DEF BeginConfirm
  <2>2. \A b \in Assets : BeingDeleted(b)' <=> BeingDeleted(b)
    BY <1>2 DEF BeingDeleted
  <2>3. about'[c] = a /\ Exists(a)'
    BY <1>1, <2>1 DEF Exists, MediaOrder, MediaTyped
  <2>4. \A d \in Confirms : mediaStep[d] \in {"checked", "writing"} =>
          about[d] \in Assets
    BY DEF MediaOrder, ConfirmsInOrder
  <2> QED
    BY <1>1, <1>2, <2>1, <2>2, <2>3, <2>4 DEF ConfirmedExists
<1>4. CASE ~BeginConfirm(c)
  <2>1. mediaStep'[c] \in {"checked", "writing"} =>
          mediaStep[c] \in {"checked", "writing"} /\ about'[c] = about[c]
    BY <1>4
       DEF RejectBytes, PassBytes, WriteStatus, AddJob, LinkCoverMedia,
           LinkCoverUrl, LinkGallery, EndAvatars, AddAvatar, LinkDocument,
           EndConfirm, Advance, MediaOrder, MediaTyped, Outstanding
  <2> QED
    BY <1>1, <1>2, <2>1, ConfirmedStays
<1> QED
  BY <1>3, <1>4

\* The steps of a confirmation that write no cover and no picture.
LEMMA QuietStepsKeepLinks ==
  ASSUME MediaOrder, LinksInStep, NEW c \in Confirms,
         \/ BeginConfirm(c) \/ RejectBytes(c) \/ WriteStatus(c) \/ AddJob(c)
         \/ LinkGallery(c) \/ LinkDocument(c)
  PROVE  LinksInStep'
<1> USE KindsOfUpload
<1>1. UNCHANGED <<coverMedia, coverUrl, activeAvatars, snapshot>>
  BY DEF BeginConfirm, RejectBytes, WriteStatus, AddJob, LinkGallery,
         LinkDocument, links
<1>2. linkRaced => linkRaced'
  <2>1. CASE BeginConfirm(c)
    BY <2>1 DEF BeginConfirm
  <2> QED
    BY <2>1 DEF RejectBytes, WriteStatus, AddJob, LinkGallery, LinkDocument
<1>3. \A d \in Confirms : d # c =>
        mediaStep'[d] = mediaStep[d] /\ about'[d] = about[d]
        /\ todo'[d] = todo[d]
  BY DEF BeginConfirm, RejectBytes, WriteStatus, AddJob, LinkGallery,
         LinkDocument, Written, Advance, MediaOrder, MediaTyped
<1>4. /\ mediaStep'[c] = "writing" =>
           mediaStep[c] = "writing" /\ about'[c] = about[c]
      /\ mediaStep'[c] \in {"idle", "checked"} =>
           mediaStep[c] \in {"idle", "checked"}
  BY DEF BeginConfirm, RejectBytes, WriteStatus, AddJob, LinkGallery,
         LinkDocument, Idle, Outstanding, Advance, MediaOrder, MediaTyped
<1>5. \A w \in {"coverMedia", "coverUrl", "avatar"} : w \in todo'[c] <=>
        w \in todo[c]
  BY DEF BeginConfirm, RejectBytes, WriteStatus, AddJob, LinkGallery,
         LinkDocument, Written, MediaOrder, MediaTyped
<1>6. ~linkRaced' => ConfirmedExists'
  BY <1>2, ConfirmsStay DEF LinksInStep, ConfirmStep
<1> QED
  BY <1>1, <1>2, <1>3, <1>4, <1>5, <1>6, LinksStay

\* A step of one confirmation among those that write.
LEMMA OneWriterStays ==
  ASSUME OneWriter, NEW c \in Confirms, mediaStep[c] = "writing",
         \A d \in Confirms : d # c => mediaStep'[d] = mediaStep[d]
  PROVE  OneWriter'
BY DEF OneWriter

LEMMA PassKeepsLinks ==
  ASSUME MediaOrder, LinksInStep, NEW c \in Confirms, PassBytes(c)
  PROVE  LinksInStep'
<1> USE KindsOfUpload
<1>1. /\ UNCHANGED <<coverMedia, coverUrl, activeAvatars, about, snapshot>>
      /\ mediaStep[c] = "checked" /\ mediaStep'[c] = "writing"
      /\ \A d \in Confirms : d # c =>
          mediaStep'[d] = mediaStep[d] /\ todo'[d] = todo[d]
      /\ linkRaced' =
           (linkRaced \/ \E d \in Confirms : mediaStep[d] = "writing")
  BY DEF PassBytes, links, Advance, MediaOrder, MediaTyped
<1>2. /\ about[c] \in Covers => {"coverMedia", "coverUrl"} \subseteq todo'[c]
      /\ about[c] \notin Covers =>
           todo'[c] \intersect {"coverMedia", "coverUrl"} = {}
  <2>1. todo'[c] = {"status"} \union LinkWrites(about[c])
                 \union IF about[c] \in Images THEN {"job"} ELSE {}
    BY DEF PassBytes, MediaOrder, MediaTyped
  <2>2. about[c] \in Assets
    BY <1>1 DEF MediaOrder, ConfirmsInOrder
  <2>3. CASE about[c] \in Covers
    <3>1. LinkWrites(about[c]) = {"coverMedia", "coverUrl"}
      BY <2>3, MediaAssumption DEF LinkWrites
    <3> QED
      BY <2>1, <2>3, <3>1
  <2>4. CASE about[c] \notin Covers
    <3>1. LinkWrites(about[c]) \in {{"gallery"}, {"avatar"}, {"document"}}
      BY <2>2, <2>4, MediaAssumption DEF LinkWrites, Assets, Images
    <3> QED
      BY <2>1, <2>4, <3>1
  <2> QED
    BY <2>3, <2>4
<1>3. NoneSeenYet' /\ snapshot[c] = Nothing
  BY <1>1 DEF LinksInStep, NoneSeenYet
<1>4. ASSUME ~linkRaced'
      PROVE  ConfirmedExists' /\ OneWriter' /\ OneAvatar' /\ CoverWritten'
             /\ CoverAgrees'
  <2>1. /\ \A d \in Confirms : mediaStep[d] # "writing"
        /\ ConfirmedExists /\ OneAvatar /\ CoverAgrees
    BY <1>1, <1>4 DEF LinksInStep
  <2>2. ConfirmedExists'
    BY <1>4, <2>1, ConfirmsStay DEF ConfirmStep
  <2>3. OneWriter'
    BY <1>1, <2>1 DEF OneWriter
  <2>4. OneAvatar'
    BY <1>1, <1>3, <2>1 DEF OneAvatar
  <2>5. CoverWritten'
    BY <1>1, <1>2, <2>1 DEF CoverWritten
  <2>6. todo[c] = {}
    BY <1>1 DEF MediaOrder, ConfirmsInOrder
  <2>7. CoverAgrees'
    BY <1>1, <1>2, <2>1, <2>6 DEF CoverAgrees
  <2> QED
    BY <2>2, <2>3, <2>4, <2>5, <2>7
<1> QED
  BY <1>3, <1>4 DEF LinksInStep

\* What the writes of a cover and of a picture, and the end of a confirmation,
\* have in common.
LEMMA WriteKeepsRest ==
  ASSUME MediaOrder, LinksInStep, NEW c \in Confirms,
         \/ LinkCoverMedia(c) \/ LinkCoverUrl(c) \/ EndAvatars(c)
            \/ AddAvatar(c)
         \/ EndConfirm(c)
  PROVE  /\ linkRaced' = linkRaced /\ about' = about
         /\ \A d \in Confirms : d # c =>
              /\ mediaStep'[d] = mediaStep[d] /\ todo'[d] = todo[d]
              /\ snapshot'[d] = snapshot[d]
         /\ mediaStep[c] = "writing" /\ mediaStep'[c] \in {"writing", "done"}
         /\ todo'[c] \subseteq todo[c]
         /\ NoneSeenYet'
         /\ ~linkRaced => ConfirmedExists' /\ OneWriter'
<1> USE KindsOfUpload
<1>1. /\ linkRaced' = linkRaced /\ about' = about
      /\ mediaStep[c] = "writing" /\ mediaStep'[c] \in {"writing", "done"}
  BY DEF LinkCoverMedia, LinkCoverUrl, EndAvatars, AddAvatar, EndConfirm,
         Outstanding, Advance, MediaOrder, MediaTyped
<1>2. /\ \A d \in Confirms : d # c =>
              /\ mediaStep'[d] = mediaStep[d] /\ todo'[d] = todo[d]
              /\ snapshot'[d] = snapshot[d]
      /\ todo'[c] \subseteq todo[c]
  BY DEF LinkCoverMedia, LinkCoverUrl, EndAvatars, AddAvatar, EndConfirm,
         Written, Advance, MediaOrder, MediaTyped
<1>3. NoneSeenYet'
  BY <1>1, <1>2 DEF LinksInStep, NoneSeenYet
<1>4. ~linkRaced => ConfirmedExists'
  BY <1>1, ConfirmsStay DEF LinksInStep, ConfirmStep
<1>5. ~linkRaced => OneWriter'
  BY <1>1, <1>2, OneWriterStays DEF LinksInStep
<1> QED
  BY <1>1, <1>2, <1>3, <1>4, <1>5

LEMMA CoversKeepLinks ==
  ASSUME MediaOrder, LinksInStep, NEW c \in Confirms,
         LinkCoverMedia(c) \/ LinkCoverUrl(c)
  PROVE  LinksInStep'
<1> USE WriteKeepsRest
<1> SUFFICES ASSUME ~linkRaced
             PROVE  OneAvatar' /\ CoverWritten' /\ CoverAgrees'
  BY DEF LinksInStep
<1>1. ConfirmedExists /\ OneWriter /\ OneAvatar /\ CoverWritten /\ CoverAgrees
  BY DEF LinksInStep
<1>2. /\ about[c] \in Covers /\ Exists(about[c])
      /\ UNCHANGED <<activeAvatars, snapshot, mediaStep>>
  BY <1>1
     DEF LinkCoverMedia, LinkCoverUrl, Outstanding, MediaOrder,
         ConfirmsInOrder, ConfirmedExists
<1>3. \/ coverMedia' = about[c] /\ coverUrl' = coverUrl
         /\ todo'[c] = todo[c] \ {"coverMedia"}
      \/ coverUrl' = about[c] /\ coverMedia' = coverMedia
         /\ todo'[c] = todo[c] \ {"coverUrl"}
  BY <1>2 DEF LinkCoverMedia, LinkCoverUrl, Written, MediaOrder, MediaTyped
<1>4. OneAvatar'
  BY <1>1, <1>2, <1>3 DEF OneAvatar
<1>5. CoverWritten'
  BY <1>1, <1>2, <1>3 DEF CoverWritten, OneWriter
<1>6. CoverAgrees'
  BY <1>2, <1>5 DEF CoverWritten, CoverAgrees
<1> QED
  BY <1>4, <1>5, <1>6

LEMMA AvatarsKeepLinks ==
  ASSUME MediaOrder, LinksInStep, NEW c \in Confirms,
         EndAvatars(c) \/ AddAvatar(c)
  PROVE  LinksInStep'
<1> USE WriteKeepsRest
<1> SUFFICES ASSUME ~linkRaced
             PROVE  OneAvatar' /\ CoverWritten' /\ CoverAgrees'
  BY DEF LinksInStep
<1>1. ConfirmedExists /\ OneWriter /\ OneAvatar /\ CoverWritten /\ CoverAgrees
  BY DEF LinksInStep
<1>2. UNCHANGED <<coverMedia, coverUrl, mediaStep>>
  BY DEF EndAvatars, AddAvatar, links
<1>3. \A w \in {"coverMedia", "coverUrl"} : w \in todo'[c] <=> w \in todo[c]
  BY DEF EndAvatars, AddAvatar, Written, MediaOrder, MediaTyped
<1>4. CoverWritten' /\ CoverAgrees'
  BY <1>1, <1>2, <1>3 DEF CoverWritten, CoverAgrees
<1>5. \A d \in Confirms : d # c => todo[d] = {}
  BY <1>1 DEF MediaOrder, ConfirmsInOrder, OneWriter
<1>6. CASE EndAvatars(c)
  <2>1. activeAvatars' = activeAvatars /\ snapshot'[c] = activeAvatars
    BY <1>6, KindsOfUpload DEF EndAvatars, links, MediaOrder, MediaTyped
  <2> QED
    BY <1>1, <1>4, <1>5, <2>1 DEF OneAvatar
<1>7. CASE AddAvatar(c)
  <2>1. /\ activeAvatars \subseteq snapshot[c]
        /\ \/ activeAvatars' = activeAvatars
           \/ activeAvatars' \subseteq
                (activeAvatars \ snapshot[c]) \union {about[c]}
        /\ "avatar" \notin todo'[c]
    BY <1>1, <1>7
       DEF AddAvatar, Outstanding, Written, OneAvatar, MediaOrder, MediaTyped
  <2>2. \A a, b \in activeAvatars' : a = b
    BY <1>1, <2>1 DEF OneAvatar
  <2> QED
    BY <1>4, <1>5, <2>1, <2>2 DEF OneAvatar
<1> QED
  BY <1>6, <1>7

LEMMA EndKeepsLinks ==
  ASSUME MediaOrder, LinksInStep, NEW c \in Confirms, EndConfirm(c)
  PROVE  LinksInStep'
<1> USE WriteKeepsRest
<1> SUFFICES ASSUME ~linkRaced
             PROVE  OneAvatar' /\ CoverWritten' /\ CoverAgrees'
  BY DEF LinksInStep
<1>1. UNCHANGED <<coverMedia, coverUrl, activeAvatars, todo, snapshot>>
      /\ mediaStep'[c] = "done"
  BY KindsOfUpload DEF EndConfirm, links, Advance, MediaOrder, MediaTyped
<1> QED
  BY <1>1 DEF LinksInStep, OneAvatar, CoverWritten, CoverAgrees

-----------------------------------------------------------------------------
MediaInv == MediaOrder /\ FilesKept /\ LinksInStep

LEMMA MediaInvStays == MediaInv /\ [MediaNext]_mediaVars => MediaInv'
<1> SUFFICES ASSUME MediaInv, [MediaNext]_mediaVars
             PROVE  MediaInv'
  OBVIOUS
<1> USE DEF MediaInv
<1>1. CASE \E a \in Assets : RequestUpload(a) \/ PutFile(a) \/ SweepRow(a)
                               \/ ExpireStatus(a)
  BY <1>1, UploadKeeps, UploadsStayKept, UploadsKeepLinks
<1>2. CASE \E a \in Assets : SweepFile(a)
  BY <1>2, UploadKeeps, SweepStaysKept, UploadsKeepLinks
<1>3. CASE \E c \in Confirms : ConfirmStep(c)
  <2>1. PICK c \in Confirms : ConfirmStep(c)
    BY <1>3
  <2>2. MediaOrder'
    BY <2>1, BeginsAndEnds, WritesAndLinks, EndAvatarsKeepsOrder
       DEF ConfirmStep
  <2>3. LinksInStep'
    BY <2>1, QuietStepsKeepLinks, PassKeepsLinks, CoversKeepLinks,
       AvatarsKeepLinks, EndKeepsLinks
       DEF ConfirmStep
  <2> QED
    BY <2>1, <2>2, <2>3, ConfirmStaysKept
<1>4. CASE \E c \in Confirms : JobStep(c)
  BY <1>4, JobsKeepOrder, JobsStayKept, JobsKeepLinks
<1>5. CASE \E p \in Polls \union Readers :
             ReadStatus(p) \/ CacheStatus(p) \/ ReadGallery(p)
             \/ CacheGallery(p)
  <2>1. Polls \union Readers \subseteq MediaCalls \ Confirms
    BY MediaAssumption DEF MediaCalls
  <2> QED
    BY <1>5, <2>1, ReadsKeepOrder, ReadsStayKept, ReadsKeepLinks
<1>6. CASE \E c \in Deletions :
             BeginDelete(c) \/ DeleteFiles(c) \/ DeleteRow(c)
  <2>1. Deletions \subseteq MediaCalls \ Confirms
    BY MediaAssumption DEF MediaCalls
  <2> QED
    BY <1>6, <2>1, ReadsKeepOrder, BeginDeleteStaysKept, DeleteFilesStaysKept,
       DeleteRowStaysKept, DeletionsKeepLinks
<1>7. CASE ExpireGallery
  <2>1. UNCHANGED <<stores, links, job, statusCache, progress, sweeping,
          excused, linkRaced>>
    BY <1>7 DEF ExpireGallery
  <2>2. MediaOrder'
    BY <2>1
       DEF MediaOrder, MediaTyped, MediaTypeOK, ConfirmsInOrder,
           DeletionsInOrder, stores, links, progress
  <2>3. FilesKept'
    BY <2>1
       DEF FilesKept, KeptWhileLive, FileKept, RecordedIsThere, KeysAreRead,
           NothingLeft, Emptied, Erased, Copying, HeldFor, LiveFor, UnderWay,
           stores, progress
  <2>4. LinksInStep'
    BY <2>1
       DEF LinksInStep, NoneSeenYet, ConfirmedExists, BeingDeleted, Exists,
           OneWriter, OneAvatar, CoverWritten, CoverAgrees, stores, links,
           progress
  <2> QED
    BY <2>2, <2>3, <2>4
<1>8. CASE UNCHANGED mediaVars
  <2>1. UNCHANGED <<stores, links, job, caches, progress, sweeping, excused,
          linkRaced>>
    BY <1>8 DEF mediaVars
  <2>2. MediaOrder'
    BY <2>1
       DEF MediaOrder, MediaTyped, MediaTypeOK, ConfirmsInOrder,
           DeletionsInOrder, stores, links, caches, progress
  <2>3. FilesKept'
    BY <2>1
       DEF FilesKept, KeptWhileLive, FileKept, RecordedIsThere, KeysAreRead,
           NothingLeft, Emptied, Erased, Copying, HeldFor, LiveFor, UnderWay,
           stores, progress
  <2>4. LinksInStep'
    BY <2>1
       DEF LinksInStep, NoneSeenYet, ConfirmedExists, BeingDeleted, Exists,
           OneWriter, OneAvatar, CoverWritten, CoverAgrees, stores, links,
           progress
  <2> QED
    BY <2>2, <2>3, <2>4
<1> QED
  BY <1>1, <1>2, <1>3, <1>4, <1>5, <1>6, <1>7, <1>8 DEF MediaNext

LEMMA AtMostOne ==
  ASSUME NEW S, \A x, y \in S : x = y
  PROVE  Cardinality(S) <= 1
<1>1. CASE S = {}
  BY <1>1, FS_EmptySet
<1>2. CASE S # {}
  <2>1. PICK x \in S : S = {x}
    BY <1>2
  <2> QED
    BY <2>1, FS_Singleton
<1> QED
  BY <1>1, <1>2

LEMMA MediaAlways == MediaSpec => []MediaInv
<1>1. MediaInit => MediaInv
  BY OrderInit, KeptInit, LinksInit DEF MediaInv
<1> QED
  BY <1>1, MediaInvStays, PTL DEF MediaSpec

\* MediaTypeOK: every row, link and cache entry is about an upload of its kind,
\* whatever the interleaving of confirmations, jobs, sweeps and deletions.
THEOREM MediaTypes == MediaSpec => []MediaTypeOK
<1>1. MediaInv => MediaTypeOK
  BY DEF MediaInv, MediaOrder, MediaTyped
<1> QED
  BY <1>1, MediaAlways, PTL

\* CopiesAccountedFor: for any uploads and calls, the recurring job takes no
\* file from an image with copies, unless "processing" was written after the
\* copies were stored or a job was running after twelve hours; and an image
\* whose row is deleted leaves no copies in storage, unless its row did not
\* name them when the deletion read it, a worker held the image then, or the
\* storage did not delete them.
THEOREM CopiesAreAccountedFor == MediaSpec => []CopiesAccountedFor
<1>1. MediaInv => CopiesAccountedFor
  BY FilesAreAccountedFor DEF MediaInv
<1> QED
  BY <1>1, MediaAlways, PTL

\* LinksAgreeUnlessRaced: for any number of confirmations and deletions, a
\* player has one active picture and the two records of the venue's cover
\* agree, as long as confirmations come one after another and no file is
\* confirmed while it is being deleted.
THEOREM LinksAgree == MediaSpec => []LinksAgreeUnlessRaced
<1>1. MediaInv => LinksAgreeUnlessRaced
  BY AtMostOne
     DEF MediaInv, LinksInStep, OneAvatar, CoverAgrees, LinksAgreeUnlessRaced
<1> QED
  BY <1>1, MediaAlways, PTL
-----------------------------------------------------------------------------
(***************************************************************************)
(* Processes                                                               *)
(***************************************************************************)

\* What a process says of itself agrees with its step: only one that was sent a
\* signal stops in order, and a server has validated what it runs with.
ProcessesInStep ==
  /\ DOMAIN step = Programs
  /\ \A p \in Programs :
       /\ step[p] \in {"close", "drain"} => told[p]
       /\ told[p] => signals > 0
       /\ p \in Servers /\ step[p] \notin {"validate", "exited"} =>
            AlwaysRequired \union KeysOf[p] \subseteq env

LifeInv == LifeTypeOK /\ ProcessesInStep /\ RequestsAreServed

Plan(p) == {StepsOf[p][i] : i \in 1..Len(StepsOf[p])}

\* The step after one of a sequence is one of it.
LEMMA StepAfter ==
  ASSUME NEW s, NEW n \in Nat, Len(s) = n, NEW x, NEW i \in 2..n,
         s[i - 1] = x
  PROVE  \E k \in 2..n :
           /\ s[CHOOSE m \in 2..Len(s) : s[m - 1] = x] = s[k]
           /\ s[k - 1] = x
<1> DEFINE m == CHOOSE m \in 2..Len(s) : s[m - 1] = x
<1>1. m \in 2..n /\ s[m - 1] = x
  OBVIOUS
<1> HIDE DEF m
<1> QED
  BY <1>1

\* The plans of the processes: each begins with its first step, a step that is
\* not the last is followed by another, and "handle" by "serve".
LEMMA Plans ==
  ASSUME NEW p \in Servers \union WorkerPrograms
  PROVE  /\ StepsOf[p][1] \in Plan(p)
         /\ p \in Servers => StepsOf[p][1] = "validate"
         /\ \A x \in Plan(p) : x \notin {"close", "drain", "exited"}
         /\ step[p] \in Plan(p) /\ step[p] # "serve" =>
              NextStep(p) \in Plan(p) /\ NextStep(p) # "validate"
         /\ p \in Servers /\ step[p] = "handle" => NextStep(p) = "serve"
<1> DEFINE s == StepsOf[p]
           n == Len(s)
<1>1. \/ n = 4 /\ s[1] = "init" /\ s[2] = "ready" /\ s[3] = "handle"
         /\ s[4] = "serve" /\ p \notin Servers
      \/ n = 5 /\ s[1] = "init" /\ s[2] = "schedule" /\ s[3] = "ready"
         /\ s[4] = "handle" /\ s[5] = "serve" /\ p \notin Servers
      \/ n = 5 /\ s[1] = "validate" /\ s[2] = "init" /\ s[3] = "listen"
         /\ s[4] = "handle" /\ s[5] = "serve"
      \/ n = 6 /\ s[1] = "validate" /\ s[2] = "adapter" /\ s[3] = "init"
         /\ s[4] = "listen" /\ s[5] = "handle" /\ s[6] = "serve"
  BY DEF StepsOf, Servers, WorkerPrograms, PlayerSteps, OwnerSteps,
         AdminSteps, ChatSteps, PlayerWorkerSteps, OwnerWorkerSteps,
         AdminWorkerSteps
<1> HIDE DEF s
<1>2. n \in Nat /\ n >= 1 /\ s[n] = "serve"
  BY <1>1
<1>3. ASSUME NEW k \in 2..n
      PROVE  s[k] # "validate" /\ (s[k - 1] = "handle" => s[k] = "serve")
  <2> HIDE DEF n
  <2>1. CASE n = 4
    <3>1. k = 2 \/ k = 3 \/ k = 4
      BY <2>1
    <3> QED
      BY <1>1, <2>1, <3>1
  <2>2. CASE n = 5
    <3>1. k = 2 \/ k = 3 \/ k = 4 \/ k = 5
      BY <2>2
    <3> QED
      BY <1>1, <2>2, <3>1
  <2>3. CASE n = 6
    <3>1. k = 2 \/ k = 3 \/ k = 4 \/ k = 5 \/ k = 6
      BY <2>3
    <3> QED
      BY <1>1, <2>3, <3>1
  <2> QED
    BY <1>1, <2>1, <2>2, <2>3
<1>4. Plan(p) = {s[i] : i \in 1..n}
  BY DEF Plan, s
<1>5. s[1] \in Plan(p) /\ (p \in Servers => s[1] = "validate")
  BY <1>1, <1>2, <1>4
<1>6. \A x \in Plan(p) : x \notin {"close", "drain", "exited"}
  BY <1>1, <1>4
<1>7. ASSUME step[p] \in Plan(p), step[p] # "serve"
      PROVE  \E k \in 2..n : NextStep(p) = s[k] /\ s[k - 1] = step[p]
  <2>1. PICK i \in 1..n : s[i] = step[p]
    BY <1>4, <1>7
  <2>2. i # n
    BY <1>2, <1>7, <2>1
  <2>3. i + 1 \in 2..n /\ s[(i + 1) - 1] = step[p]
    BY <1>2, <2>1, <2>2
  <2>4. \E k \in 2..n :
          /\ s[CHOOSE m \in 2..Len(s) : s[m - 1] = step[p]] = s[k]
          /\ s[k - 1] = step[p]
    BY <1>2, <2>3, StepAfter
  <2> QED
    BY <2>4 DEF NextStep, s
<1>8. ASSUME step[p] \in Plan(p), step[p] # "serve"
      PROVE  /\ NextStep(p) \in Plan(p) /\ NextStep(p) # "validate"
             /\ step[p] = "handle" => NextStep(p) = "serve"
  <2>1. PICK k \in 2..n : NextStep(p) = s[k] /\ s[k - 1] = step[p]
    BY <1>7, <1>8
  <2>2. k \in 1..n
    BY <1>2, <2>1
  <2>3. s[k] # "validate" /\ (s[k - 1] = "handle" => s[k] = "serve")
    BY <1>3
  <2> QED
    BY <1>4, <2>1, <2>2, <2>3
<1>9. p \in Servers => "handle" \in Plan(p)
  BY <1>1, <1>4
<1> QED
  BY <1>5, <1>6, <1>8, <1>9 DEF s

\* A process whose plan goes on goes to a step of it.
LEMMA GoesOn ==
  ASSUME LifeInv, NEW p \in Programs, Goes(p),
         step[p] \notin {"serve", "close", "drain", "exited"}
  PROVE  /\ step' = [step EXCEPT ![p] = NextStep(p)]
         /\ NextStep(p) \in Plan(p) /\ NextStep(p) # "validate"
         /\ NextStep(p) \notin {"close", "drain", "exited"}
         /\ p \in Servers /\ step[p] = "handle" => NextStep(p) = "serve"
<1>1. p \in Servers \union WorkerPrograms
  BY LifecycleAssumption
<1>2. step[p] \in Plan(p)
  BY DEF LifeInv, LifeTypeOK, Plan
<1> QED
  BY <1>1, <1>2, Plans DEF Goes

\* What a process keeps that goes to a step and touches no request: it has what
\* the step asks for, and does not turn away from requests it has begun.
Ends == {"close", "drain", "exited"}

Quiet(p) == \A j \in Jobs : ServerOf[j] = p => request[j] # "wrote"

MovesTo(p, x) ==
  /\ x \in Plan(p) \union Ends
  /\ step' = [step EXCEPT ![p] = x]
  /\ UNCHANGED <<env, worldVars, signals, workVars>>
  /\ link' \in [Programs -> {"wait", "ready", "lost", "ended"}]
  /\ redials' \in [Programs -> 0..(MaxRetries + 1)]
  /\ told' \in [Programs -> BOOLEAN]
  /\ \A q \in Programs : told'[q] => told[q]
  /\ \A q \in Programs \ {p} : told'[q] = told[q]
  /\ x \in {"close", "drain"} => told'[p]
  /\ p \in Servers /\ x \notin {"validate", "exited"} =>
       AlwaysRequired \union KeysOf[p] \subseteq env
  /\ Listens(p) => x \in {"handle", "serve", "close", "drain"} \/ Quiet(p)

LEMMA MovesKeepLife ==
  ASSUME LifeInv, NEW p \in Programs, NEW x, MovesTo(p, x)
  PROVE  LifeInv'
<1>1. /\ DOMAIN step' = Programs /\ step'[p] = x
      /\ \A q \in Programs \ {p} : step'[q] = step[q]
  BY DEF LifeInv, ProcessesInStep, MovesTo
<1>2. ASSUME NEW q \in Programs
      PROVE  step'[q] \in Plan(q) \union Ends
  <2>1. step[q] \in Plan(q) \union Ends
    BY DEF LifeInv, LifeTypeOK, Plan, Ends
  <2>2. x \in Plan(p) \union Ends
    BY DEF MovesTo
  <2>3. CASE q = p
    BY <1>1, <2>2, <2>3
  <2>4. CASE q # p
    BY <1>1, <2>1, <2>4
  <2> QED
    BY <2>3, <2>4
<1>3. LifeTypeOK'
  <2>1. \A q \in Programs :
          step'[q] \in {StepsOf[q][i] : i \in 1..Len(StepsOf[q])}
                         \union {"close", "drain", "exited"}
    BY <1>2 DEF Plan, Ends
  <2> QED
    BY <2>1 DEF LifeInv, LifeTypeOK, MovesTo, workVars, worldVars
<1>4. ProcessesInStep'
  BY <1>1 DEF LifeInv, ProcessesInStep, MovesTo
<1>5. \A q \in Programs :
        Listens(q)' => AlwaysRequired \union KeysOf[q] \subseteq env'
  BY <1>4 DEF ProcessesInStep, Listens
<1>6. ASSUME NEW j \in Jobs, request[j] = "wrote"
      PROVE  Listens(ServerOf[j])'
  <2>1. Listens(ServerOf[j]) /\ ServerOf[j] \in Programs
    BY <1>6, LifecycleAssumption DEF LifeInv, RequestsAreServed
  <2>2. CASE ServerOf[j] = p
    <3>1. x \in {"handle", "serve", "close", "drain"}
      BY <1>6, <2>1, <2>2 DEF MovesTo, Quiet
    <3> QED
      BY <1>1, <2>1, <2>2, <3>1 DEF Listens
  <2>3. CASE ServerOf[j] # p
    BY <1>1, <2>1, <2>3 DEF Listens
  <2> QED
    BY <2>2, <2>3
<1>7. UNCHANGED <<request, work, signals>>
  BY DEF MovesTo, workVars
<1>8. RequestsAreServed'
  BY <1>5, <1>6, <1>7 DEF LifeInv, RequestsAreServed
<1> QED
  BY <1>3, <1>4, <1>8 DEF LifeInv

\* The connections of the processes.
LEMMA LinksKeepLife ==
  ASSUME LifeInv, NEW p \in Programs, Dial(p) \/ LoseLink(p) \/ Retry(p)
  PROVE  LifeInv'
<1> USE LifecycleAssumption DEF LifeInv, LifeTypeOK
<1>1. /\ UNCHANGED <<env, dbUp, redisUp, outages, step, told, signals, request,
                     work, holder>>
      /\ link' \in [Programs -> {"wait", "ready", "lost", "ended"}]
  BY DEF Dial, LoseLink, Retry, worldVars, workVars
<1>2. redials' \in [Programs -> 0..(MaxRetries + 1)]
  <2>1. 0 \in 0..(MaxRetries + 1) /\ 1 \in 0..(MaxRetries + 1)
    OBVIOUS
  <2>2. CASE Dial(p)
    BY <2>1, <2>2 DEF Dial
  <2>3. CASE LoseLink(p)
    BY <2>1, <2>3 DEF LoseLink
  <2>4. CASE Retry(p)
    <3>1. CASE TriesAgain(p, redials[p]) /\ ~Reaches(p)
      <4>1. redials' = [redials EXCEPT ![p] = redials[p] + 1]
        BY <2>4, <3>1 DEF Retry
      <4>2. redials[p] + 1 \in 0..(MaxRetries + 1)
        BY <3>1 DEF TriesAgain
      <4> QED
        BY <4>1, <4>2
    <3>2. CASE ~(TriesAgain(p, redials[p]) /\ ~Reaches(p))
      BY <2>1, <2>4, <3>2 DEF Retry
    <3> QED
      BY <3>1, <3>2
  <2> QED
    BY <2>2, <2>3, <2>4
<1>3. LifeTypeOK'
  BY <1>1, <1>2
<1>4. ProcessesInStep' /\ RequestsAreServed'
  BY <1>1 DEF ProcessesInStep, RequestsAreServed, Listens
<1> QED
  BY <1>3, <1>4

\* A process goes on with its plan, or exits, with its connection as it is.
OthersStay ==
  UNCHANGED <<env, worldVars, link, redials, told, signals, workVars>>

LEMMA GoingOn ==
  ASSUME LifeInv, NEW p \in Programs, Goes(p), OthersStay,
         step[p] \notin {"serve", "close", "drain", "exited"},
         p \in Servers /\ step[p] = "validate" =>
           AlwaysRequired \union KeysOf[p] \subseteq env
  PROVE  LifeInv'
<1>1. MovesTo(p, NextStep(p))
  <2>1. /\ p \in Servers => AlwaysRequired \union KeysOf[p] \subseteq env
        /\ Listens(p) => p \in Servers /\ step[p] = "handle"
    BY DEF LifeInv, ProcessesInStep, Listens
  <2> QED
    BY <2>1, GoesOn
    DEF OthersStay, MovesTo, LifeInv, LifeTypeOK
<1> QED
  BY <1>1, MovesKeepLife

LEMMA GoingOut ==
  ASSUME LifeInv, NEW p \in Programs, Exits(p), OthersStay,
         step[p] \in {"validate", "init", "adapter"} \/ Quiet(p)
  PROVE  LifeInv'
<1>1. MovesTo(p, "exited")
  BY DEF Exits, OthersStay, MovesTo, LifeInv, LifeTypeOK, Listens, Ends
<1> QED
  BY <1>1, MovesKeepLife

\* The steps of a process from its start to its exit.
LEMMA StepsKeepLife ==
  ASSUME LifeInv, NEW p \in Programs,
         \/ Validate(p) \/ ConnectDatabase(p) \/ ConnectAdapter(p) \/ Await(p)
         \/ SetUp(p) \/ CloseClients(p) \/ Drain(p) \/ Restart(p)
  PROVE  LifeInv'
<1>1. CASE Validate(p)
  BY <1>1, GoingOn, GoingOut DEF Validate, OthersStay
<1>2. CASE ConnectDatabase(p)
  BY <1>2, GoingOn, GoingOut DEF ConnectDatabase, OthersStay
<1>3. CASE ConnectAdapter(p)
  BY <1>3, GoingOn, GoingOut DEF ConnectAdapter, OthersStay
<1>4. CASE Await(p)
  BY <1>4, GoingOn DEF Await, OthersStay
<1>5. CASE SetUp(p)
  BY <1>5, GoingOn DEF SetUp, OthersStay
<1>6. CASE CloseClients(p)
  <2>1. MovesTo(p, "drain")
    <3>1. /\ told[p] /\ step' = [step EXCEPT ![p] = "drain"]
          /\ p \in Servers => AlwaysRequired \union KeysOf[p] \subseteq env
      BY <1>6 DEF CloseClients, LifeInv, ProcessesInStep
    <3>2. /\ link' \in [Programs -> {"wait", "ready", "lost", "ended"}]
          /\ UNCHANGED <<env, worldVars, redials, told, signals, workVars>>
      BY <1>6 DEF CloseClients, LifeInv, LifeTypeOK
    <3> QED
      BY <3>1, <3>2 DEF MovesTo, LifeInv, LifeTypeOK, Ends
  <2> QED
    BY <2>1, MovesKeepLife
<1>7. CASE Drain(p)
  BY <1>7, GoingOut DEF Drain, OthersStay, Quiet
<1>8. CASE Restart(p)
  <2>1. MovesTo(p, StepsOf[p][1])
    <3>1. /\ step[p] = "exited" /\ step' = [step EXCEPT ![p] = StepsOf[p][1]]
          /\ link' \in [Programs -> {"wait", "ready", "lost", "ended"}]
          /\ redials' \in [Programs -> 0..(MaxRetries + 1)]
          /\ told' = [told EXCEPT ![p] = FALSE]
          /\ UNCHANGED <<env, worldVars, signals, workVars>>
      BY <1>8, LifecycleAssumption DEF Restart, LifeInv, LifeTypeOK
    <3>2. /\ StepsOf[p][1] \in Plan(p)
          /\ p \in Servers => StepsOf[p][1] = "validate"
          /\ StepsOf[p][1] \notin {"close", "drain"}
      BY LifecycleAssumption, Plans
    <3>3. ~Listens(p)
      BY <3>1 DEF Listens
    <3>4. told \in [Programs -> BOOLEAN]
      BY DEF LifeInv, LifeTypeOK
    <3> QED
      BY <3>1, <3>2, <3>3, <3>4 DEF MovesTo
  <2> QED
    BY <2>1, MovesKeepLife
<1> QED
  BY <1>1, <1>2, <1>3, <1>4, <1>5, <1>6, <1>7, <1>8

\* A signal cuts off the requests of a process that has set up no handler.
LEMMA SignalKeepsLife ==
  ASSUME LifeInv, NEW p \in Programs, Signal(p)
  PROVE  LifeInv'
<1> USE DEF LifeInv, LifeTypeOK
<1>1. /\ UNCHANGED <<env, dbUp, redisUp, outages, link, redials, work, holder>>
      /\ signals' = signals + 1 /\ signals' \in 0..MaxSignals /\ signals' > 0
  BY LifecycleAssumption DEF Signal, worldVars
<1>2. \E x \in {"close", "exited"} :
        /\ step' = [step EXCEPT ![p] = x]
        /\ told' \in [Programs -> BOOLEAN]
        /\ \A q \in Programs \ {p} : told'[q] = told[q]
        /\ x = "close" => told'[p] /\ step[p] = "serve" /\ UNCHANGED request
        /\ x = "exited" => Cuts(p)
  <2>1. CASE step[p] = "serve"
    BY <2>1 DEF Signal
  <2>2. CASE step[p] # "serve"
    BY <2>2 DEF Signal, Exits
  <2> QED
    BY <2>1, <2>2
<1>3. PICK x \in {"close", "exited"} :
        /\ step' = [step EXCEPT ![p] = x]
        /\ told' \in [Programs -> BOOLEAN]
        /\ \A q \in Programs \ {p} : told'[q] = told[q]
        /\ x = "close" => told'[p] /\ step[p] = "serve" /\ UNCHANGED request
        /\ x = "exited" => Cuts(p)
  BY <1>2
<1>4. /\ DOMAIN step' = Programs /\ step'[p] = x
      /\ \A q \in Programs \ {p} : step'[q] = step[q]
  BY <1>3 DEF ProcessesInStep
<1>5. /\ request' \in [Jobs -> {"none", "wrote", "answered", "failed", "cut"}]
      /\ \A j \in Jobs :
           /\ request'[j] = "wrote" =>
                request[j] = "wrote" /\ (ServerOf[j] = p => x = "close")
           /\ request'[j] = "answered" <=> request[j] = "answered"
  BY <1>3 DEF Cuts
<1>6. LifeTypeOK'
  BY <1>1, <1>3, <1>4, <1>5
<1>7. ProcessesInStep'
  BY <1>1, <1>3, <1>4 DEF ProcessesInStep
<1>8. \A q \in Programs :
        Listens(q)' => AlwaysRequired \union KeysOf[q] \subseteq env'
  BY <1>7 DEF Listens, ProcessesInStep
<1>9. ASSUME NEW j \in Jobs, request'[j] = "wrote"
      PROVE  Listens(ServerOf[j])'
  <2>1. Listens(ServerOf[j]) /\ ServerOf[j] \in Programs
    BY <1>5, <1>9, LifecycleAssumption DEF RequestsAreServed
  <2> QED
    BY <1>4, <1>5, <1>9, <2>1 DEF Listens
<1>10. RequestsAreServed'
  BY <1>1, <1>5, <1>8, <1>9 DEF RequestsAreServed
<1> QED
  BY <1>6, <1>7, <1>10

\* What a step on a request or a job keeps: no process moves.
WorksOn ==
  /\ UNCHANGED <<env, worldVars, step, link, redials, told, signals>>
  /\ request' \in [Jobs -> {"none", "wrote", "answered", "failed", "cut"}]
  /\ work' \in [Jobs -> {"none", "queued", "active", "done"}]
  /\ holder' \in [Jobs -> Programs \union {NoProgram}]
  /\ \A k \in Jobs :
       /\ request'[k] = "wrote" => Listens(ServerOf[k])
       /\ request'[k] = "answered" <=> work'[k] # "none"
       /\ request'[k] = "cut" => signals > 0

LEMMA WorksOnKeepsLife ==
  ASSUME LifeInv, WorksOn
  PROVE  LifeInv'
<1>1. LifeTypeOK'
  BY DEF LifeInv, LifeTypeOK, WorksOn, worldVars
<1>2. ProcessesInStep'
  BY DEF LifeInv, ProcessesInStep, WorksOn
<1>3. \A q \in Programs : Listens(q)' <=> Listens(q)
  BY DEF WorksOn, Listens
<1>4. \A k \in Jobs : ServerOf[k] \in Programs
  BY LifecycleAssumption
<1>5. RequestsAreServed'
  BY <1>3, <1>4 DEF LifeInv, RequestsAreServed, WorksOn
<1> QED
  BY <1>1, <1>2, <1>5 DEF LifeInv

\* A request that writes its rows, and one that adds its job.
LEMMA RequestsKeepLife ==
  ASSUME LifeInv, NEW j \in Jobs, WriteRows(j) \/ AddWork(j)
  PROVE  LifeInv'
<1>1. /\ request \in [Jobs -> {"none", "wrote", "answered", "failed", "cut"}]
      /\ work \in [Jobs -> {"none", "queued", "active", "done"}]
      /\ holder \in [Jobs -> Programs \union {NoProgram}]
      /\ \A k \in Jobs :
           /\ request[k] = "wrote" => Listens(ServerOf[k])
           /\ request[k] = "answered" <=> work[k] # "none"
           /\ request[k] = "cut" => signals > 0
  BY DEF LifeInv, LifeTypeOK, RequestsAreServed
<1>2. CASE WriteRows(j)
  <2>1. /\ Listens(ServerOf[j]) /\ request[j] = "none"
        /\ request' = [request EXCEPT ![j] = "wrote"]
        /\ UNCHANGED <<env, worldVars, step, link, redials, told, signals,
                       work, holder>>
    BY <1>2 DEF WriteRows
  <2>2. WorksOn
    BY <1>1, <2>1 DEF WorksOn
  <2> QED
    BY <2>2, WorksOnKeepsLife
<1>3. CASE AddWork(j)
  <2>1. told[ServerOf[j]] => signals > 0
    BY LifecycleAssumption DEF LifeInv, ProcessesInStep
  <2>2. \E x \in {"answered", "failed", "cut"}, w \in {"none", "queued"} :
          /\ request' = [request EXCEPT ![j] = x]
          /\ work' = [work EXCEPT ![j] = w]
          /\ x = "answered" <=> w # "none"
          /\ x = "cut" => signals > 0
    <3>1. request[j] = "wrote" /\ work[j] = "none"
      BY <1>1, <1>3 DEF AddWork
    <3>2. work = [work EXCEPT ![j] = "none"]
      BY <1>1, <3>1
    <3>3. CASE /\ work' = [work EXCEPT ![j] = "queued"]
               /\ request' = [request EXCEPT ![j] = "answered"]
      BY <3>3
    <3>4. CASE /\ request' = [request EXCEPT ![j] =
                                IF told[ServerOf[j]] THEN "cut" ELSE "failed"]
               /\ UNCHANGED work
      BY <2>1, <3>2, <3>4
    <3> QED
      BY <1>3, <3>3, <3>4 DEF AddWork
  <2>3. UNCHANGED <<env, worldVars, step, link, redials, told, signals,
                    holder>>
    BY <1>3 DEF AddWork
  <2>4. WorksOn
    BY <1>1, <2>2, <2>3 DEF WorksOn
  <2> QED
    BY <2>4, WorksOnKeepsLife
<1> QED
  BY <1>2, <1>3

\* A job that is taken, finished, or taken back, stays one that was added.
LEMMA JobsKeepLife ==
  ASSUME LifeInv, NEW j \in Jobs,
         \/ StallJob(j)
         \/ \E p \in Programs : TakeWork(p, j) \/ FinishWork(p, j)
  PROVE  LifeInv'
<1> DEFINE
      Moved ==
        /\ work[j] # "none"
        /\ \E w \in {"queued", "active", "done"} :
             work' = [work EXCEPT ![j] = w]
        /\ \E h \in Programs \union {NoProgram} :
             holder' = [holder EXCEPT ![j] = h]
        /\ UNCHANGED <<env, worldVars, step, link, redials, told, signals,
                       request>>
<1>1. Moved
  <2>1. CASE StallJob(j)
    BY <2>1 DEF StallJob
  <2>2. ASSUME NEW p \in Programs, TakeWork(p, j)
        PROVE  Moved
    BY <2>2 DEF TakeWork
  <2>3. ASSUME NEW p \in Programs, FinishWork(p, j)
        PROVE  Moved
    BY <2>3 DEF FinishWork
  <2> QED
    BY <2>1, <2>2, <2>3
<1>2. WorksOn
  BY <1>1 DEF LifeInv, LifeTypeOK, RequestsAreServed, WorksOn
<1> QED
  BY <1>2, WorksOnKeepsLife

\* An outage, and its end.
LEMMA WorldKeepsLife ==
  ASSUME LifeInv, Fail \/ Recover \/ UNCHANGED lifeVars
  PROVE  LifeInv'
<1>1. /\ UNCHANGED <<env, step, link, redials, told, signals, request, work,
                     holder>>
      /\ dbUp' \in BOOLEAN /\ redisUp' \in BOOLEAN
      /\ outages' \in 0..MaxOutages
  <2>1. /\ dbUp \in BOOLEAN /\ redisUp \in BOOLEAN
        /\ outages \in 0..MaxOutages /\ MaxOutages \in Nat
    BY LifecycleAssumption DEF LifeInv, LifeTypeOK
  <2>2. CASE Fail
    <3>1. /\ UNCHANGED <<env, step, link, redials, told, signals, workVars>>
          /\ outages < MaxOutages /\ outages' = outages + 1
      BY <2>2 DEF Fail
    <3>2. dbUp' \in BOOLEAN /\ redisUp' \in BOOLEAN
      BY <2>1, <2>2, Zenon DEF Fail
    <3> QED
      BY <2>1, <3>1, <3>2 DEF workVars
  <2>3. CASE Recover
    BY <2>1, <2>3 DEF Recover, workVars
  <2>4. CASE UNCHANGED lifeVars
    BY <2>1, <2>4 DEF lifeVars
  <2> QED
    BY <2>2, <2>3, <2>4
<1>2. LifeTypeOK'
  BY <1>1 DEF LifeInv, LifeTypeOK
<1>3. ProcessesInStep'
  BY <1>1 DEF LifeInv, ProcessesInStep
<1>4. RequestsAreServed'
  BY <1>1 DEF LifeInv, RequestsAreServed, Listens
<1> QED
  BY <1>2, <1>3, <1>4 DEF LifeInv

\* RequestsAreServed: a request between its rows and its job is one of a
\* process that serves, with its settings, whatever fails, stops and starts.
THEOREM NoRequestIsForgotten == LifeSpec => []RequestsAreServed
<1>1. LifeInit => LifeInv
  <2> SUFFICES ASSUME LifeInit PROVE LifeInv
    OBVIOUS
  <2>1. \A p \in Programs :
          /\ step[p] = StepsOf[p][1] /\ StepsOf[p][1] \in Plan(p)
          /\ p \in Servers => StepsOf[p][1] = "validate"
          /\ StepsOf[p][1] \notin {"close", "drain", "exited"}
    BY LifecycleAssumption, Plans DEF LifeInit
  <2>2. LifeTypeOK
    BY <2>1, LifecycleAssumption DEF LifeInit, LifeTypeOK, Plan
  <2>3. ProcessesInStep
    BY <2>1 DEF LifeInit, ProcessesInStep
  <2>4. RequestsAreServed
    BY <2>1 DEF LifeInit, RequestsAreServed, Listens
  <2> QED
    BY <2>2, <2>3, <2>4 DEF LifeInv
<1>2. LifeInv /\ [LifeNext]_lifeVars => LifeInv'
  BY LinksKeepLife, StepsKeepLife, SignalKeepsLife,
     RequestsKeepLife, JobsKeepLife, WorldKeepsLife
  DEF LifeNext, LifeStep
<1>3. LifeInv => RequestsAreServed
  BY DEF LifeInv
<1> QED
  BY <1>1, <1>2, <1>3, PTL DEF LifeSpec
=============================================================================

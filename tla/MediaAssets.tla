----------------------------- MODULE MediaAssets ----------------------------
(***************************************************************************)
(* The life of an uploaded file: the pre-signed upload, its confirmation,  *)
(* the processing of an image by a worker, the link to a venue, a player   *)
(* or an owner, polling, deletion, and the recurring job that clears away  *)
(* uploads left in processing.                                             *)
(*                                                                         *)
(* The confirmation starts three writes at once, the status, the job and   *)
(* the link, and waits for all of them: they may take effect in any order, *)
(* and the job may even end before the status is written.                  *)
(*                                                                         *)
(* One venue, one player and one owner.  Twelve hours may pass between any *)
(* two steps.  A cache entry is removed without waiting; the removal is    *)
(* part of the step that orders it.                                        *)
(***************************************************************************)
EXTENDS Naturals, FiniteSets

CONSTANTS
  Covers,       \* uploads of the venue's cover image
  Galleries,    \* uploads to the venue's gallery
  Avatars,      \* uploads of the player's picture
  Documents,    \* documents of the owner, each under a key of its own
  Webps,        \* images that are WebP: their copy has the key of the file
  Confirms,     \* calls of MediaService.confirmUpload
  Polls,        \* calls of MediaService.getUploadStatus
  Readers,      \* calls of MediaService.getGallery
  Deletions,    \* calls of MediaService.deleteAsset
  Attempts,     \* attempts of a processing job
  Nothing       \* no entry, no row, no asset

Images == Covers \union Galleries \union Avatars
Assets == Images \union Documents
MediaCalls == Confirms \union Polls \union Readers \union Deletions

ASSUME MediaAssumption ==
  /\ Attempts \in Nat \ {0}
  /\ Nothing \notin Assets
  /\ Covers \intersect (Galleries \union Avatars \union Documents) = {}
  /\ Galleries \intersect (Avatars \union Documents) = {}
  /\ Avatars \intersect Documents = {}
  /\ Webps \subseteq Images
  /\ Confirms \intersect (Polls \union Readers \union Deletions) = {}
  /\ Deletions \intersect (Polls \union Readers) = {}

VARIABLES
  asset,         \* status of the media_assets row of each upload
  file,          \* what is stored under its key
  variants,      \* the images of which there are resized copies in storage
  recorded,      \* the images whose row names the keys of the copies
  coverMedia,    \* venue_media, the COVER row
  coverUrl,      \* venues.cover_image_url
  galleryMedia,  \* venue_media, the GALLERY row
  activeAvatars, \* user_avatars with is_active
  linked,        \* the uploads some row refers to
  job,           \* the processing job of each confirmation
  statusCache,   \* the cached answer of getUploadStatus
  galleryCache,  \* the cached answer of getGallery
  mediaStep,     \* how far each call has come
  about,         \* the upload a call is about
  todo,          \* the writes a confirmation waits for
  snapshot,      \* what a call has read
  sweeping,      \* uploads whose file the recurring job has removed
  excused,       \* history: why an image may have lost its file, or have left
                 \* copies behind
  linkRaced      \* history: two confirmations linked a file at once, or a
                 \* file was being confirmed and deleted at once

stores == <<asset, file, variants, recorded>>
links == <<coverMedia, coverUrl, galleryMedia, activeAvatars, linked>>
caches == <<statusCache, galleryCache>>
progress == <<mediaStep, about, todo, snapshot>>
mediaVars == <<stores, links, job, caches, progress, sweeping, excused,
               linkRaced>>

-----------------------------------------------------------------------------
Status == {"pending", "processing", "completed", "failed"}
Transient == {"pending", "processing"}

Exists(a) == asset[a] \notin {"none", "gone"}
SetAsset(a, status) == asset' = [asset EXCEPT ![a] = status]
Advance(c, s) == mediaStep' = [mediaStep EXCEPT ![c] = s]
Idle(c) == mediaStep[c] = "idle"

BustStatus(a) == statusCache' = [statusCache EXCEPT ![a] = Nothing]

\* A processing job that has not come to its end.
UnderWay(c) == job[c].stage \in {"waiting", "loaded", "copied", "skipped"}
LiveFor(a) == \E c \in Confirms : about[c] = a /\ UnderWay(c)

\* A worker has the image in memory, and will store copies of it.
HeldFor(a) == \E c \in Confirms : about[c] = a /\ job[c].stage = "loaded"

Excuse(a, why, holds) ==
  excused' = IF holds THEN excused \union {<<a, why>>} ELSE excused

MediaInit ==
  /\ asset = [a \in Assets |-> "none"]
  /\ file = [a \in Assets |-> "none"]
  /\ variants = {} /\ recorded = {}
  /\ coverMedia = Nothing /\ coverUrl = Nothing /\ galleryMedia = Nothing
  /\ activeAvatars = {} /\ linked = {}
  /\ job = [c \in Confirms |-> [stage |-> "none", left |-> 0]]
  /\ statusCache = [a \in Assets |-> Nothing]
  /\ galleryCache = Nothing
  /\ mediaStep = [c \in MediaCalls |-> "idle"]
  /\ about = [c \in MediaCalls |-> Nothing]
  /\ todo = [c \in Confirms |-> {}]
  /\ snapshot = [c \in MediaCalls |-> Nothing]
  /\ sweeping = {} /\ excused = {} /\ linkRaced = FALSE

-----------------------------------------------------------------------------
(***************************************************************************)
(* Uploading                                                               *)
(***************************************************************************)

\* The key of an image has a random part; the key of a document is made of
\* its owner and its kind, and comes again with the next upload.
KeyIsFresh(a) == a \notin Documents

\* requestUploadUrl: the row of a key that is used again is put back to
\* pending, whatever its status.
RequestUpload(a) ==
  /\ asset[a] # "none" => ~KeyIsFresh(a) /\ asset[a] # "pending"
  /\ SetAsset(a, "pending")
  /\ UNCHANGED <<file, variants, recorded, links, job, caches, progress,
                 sweeping, excused, linkRaced>>

\* The client's PUT: an image, or something that is none.
PutFile(a) ==
  /\ asset[a] = "pending"
  /\ file[a] = "none"
  /\ \E content \in {"image", "junk"} : file' = [file EXCEPT ![a] = content]
  /\ UNCHANGED <<asset, variants, recorded, links, job, caches, progress,
                 sweeping, excused, linkRaced>>

-----------------------------------------------------------------------------
(***************************************************************************)
(* confirmUpload                                                           *)
(***************************************************************************)

\* A deletion has read the row, and has not come to its end.
BeingDeleted(a) ==
  \E d \in Deletions : about[d] = a /\ mediaStep[d] \in {"found", "emptied"}

\* Only a pending upload is confirmed; for another the answer is its status.
BeginConfirm(c) ==
  /\ Idle(c)
  /\ \E a \in Assets :
       /\ asset[a] = "pending"
       /\ about' = [about EXCEPT ![c] = a]
       /\ linkRaced' = (linkRaced \/ BeingDeleted(a))
  /\ Advance(c, "checked")
  /\ UNCHANGED <<stores, links, job, caches, todo, snapshot, sweeping,
                 excused>>

\* The first bytes are of no known kind.
RejectBytes(c) ==
  /\ mediaStep[c] = "checked"
  /\ file[about[c]] = "junk"
  /\ Exists(about[c])
  /\ SetAsset(about[c], "failed")
  /\ Advance(c, "refused")
  /\ UNCHANGED <<file, variants, recorded, links, job, caches, about, todo,
                 snapshot, sweeping, excused, linkRaced>>

LinkWrites(a) ==
  CASE a \in Covers -> {"coverMedia", "coverUrl"}
    [] a \in Galleries -> {"gallery"}
    [] a \in Avatars -> {"avatar"}
    [] a \in Documents -> {"document"}

\* A range request that fails is not fatal: nothing may have been stored yet.
PassBytes(c) ==
  /\ mediaStep[c] = "checked"
  /\ file[about[c]] # "junk"
  /\ todo' = [todo EXCEPT ![c] =
               {"status"} \union LinkWrites(about[c])
                 \union IF about[c] \in Images THEN {"job"} ELSE {}]
  /\ Advance(c, "writing")
  /\ linkRaced' = (linkRaced \/ \E d \in Confirms : mediaStep[d] = "writing")
  /\ UNCHANGED <<stores, links, job, caches, about, snapshot, sweeping,
                 excused>>

Outstanding(c, w) == mediaStep[c] = "writing" /\ w \in todo[c]
Written(c, w) == todo' = [todo EXCEPT ![c] = @ \ {w}]

\* An image is processing from now on, even if it has been processed already; a
\* document is completed at once, and its cached status removed.
WriteStatus(c) ==
  LET a == about[c] IN
  /\ Outstanding(c, "status")
  /\ Written(c, "status")
  /\ IF ~Exists(a) THEN UNCHANGED <<asset, statusCache>>
     ELSE IF a \in Documents THEN SetAsset(a, "completed") /\ BustStatus(a)
     ELSE SetAsset(a, "processing") /\ UNCHANGED statusCache
  /\ Excuse(a, "sweep", a \in variants)
  /\ UNCHANGED <<file, variants, recorded, links, job, galleryCache,
                 mediaStep, about, snapshot, sweeping, linkRaced>>

AddJob(c) ==
  /\ Outstanding(c, "job")
  /\ Written(c, "job")
  /\ job' = [job EXCEPT ![c] = [stage |-> "waiting", left |-> Attempts]]
  /\ UNCHANGED <<stores, links, caches, mediaStep, about, snapshot, sweeping,
                 excused, linkRaced>>

\* The link of a cover is two writes in parallel; a row that links an upload
\* needs the upload's row to be there.
LinkCoverMedia(c) ==
  /\ Outstanding(c, "coverMedia")
  /\ Written(c, "coverMedia")
  /\ IF Exists(about[c])
       THEN /\ coverMedia' = about[c]
            /\ linked' = (linked \ {coverMedia}) \union {about[c]}
       ELSE UNCHANGED <<coverMedia, linked>>
  /\ UNCHANGED <<stores, coverUrl, galleryMedia, activeAvatars, job, caches,
                 mediaStep, about, snapshot, sweeping, excused, linkRaced>>

\* Mutant of LinkCoverUrl: the first cover stays.
LinkCoverUrlOnce(c) ==
  /\ Outstanding(c, "coverUrl")
  /\ Written(c, "coverUrl")
  /\ coverUrl' = IF coverUrl = Nothing THEN about[c] ELSE coverUrl
  /\ UNCHANGED <<stores, coverMedia, galleryMedia, activeAvatars, linked, job,
                 caches, mediaStep, about, snapshot, sweeping, excused,
                 linkRaced>>

LinkCoverUrl(c) ==
  /\ Outstanding(c, "coverUrl")
  /\ Written(c, "coverUrl")
  /\ coverUrl' = about[c]
  /\ UNCHANGED <<stores, coverMedia, galleryMedia, activeAvatars, linked, job,
                 caches, mediaStep, about, snapshot, sweeping, excused,
                 linkRaced>>

\* A venue has one venue_media row of each type: a second gallery image gets
\* none, and the error is only logged.
LinkGallery(c) ==
  /\ Outstanding(c, "gallery")
  /\ Written(c, "gallery")
  /\ IF galleryMedia = Nothing /\ Exists(about[c])
       THEN /\ galleryMedia' = about[c]
            /\ linked' = linked \union {about[c]}
            /\ galleryCache' = Nothing
       ELSE UNCHANGED <<galleryMedia, linked, galleryCache>>
  /\ UNCHANGED <<stores, coverMedia, coverUrl, activeAvatars, job, statusCache,
                 mediaStep, about, snapshot, sweeping, excused, linkRaced>>

\* The transaction that replaces the picture: it ends the pictures that are
\* active as it begins, and adds its own as it commits.
EndAvatars(c) ==
  /\ Outstanding(c, "avatar")
  /\ snapshot[c] = Nothing
  /\ snapshot' = [snapshot EXCEPT ![c] = activeAvatars]
  /\ UNCHANGED <<stores, links, job, caches, mediaStep, about, todo, sweeping,
                 excused, linkRaced>>

AddAvatar(c) ==
  /\ Outstanding(c, "avatar")
  /\ snapshot[c] # Nothing
  /\ Written(c, "avatar")
  /\ IF Exists(about[c])
       THEN /\ activeAvatars' = (activeAvatars \ snapshot[c]) \union {about[c]}
            /\ linked' = linked \union {about[c]}
       ELSE UNCHANGED <<activeAvatars, linked>>
  /\ UNCHANGED <<stores, coverMedia, coverUrl, galleryMedia, job, caches,
                 mediaStep, about, snapshot, sweeping, excused, linkRaced>>

\* One owner_kyc_documents row for each kind, waiting for review again.
LinkDocument(c) ==
  /\ Outstanding(c, "document")
  /\ Written(c, "document")
  /\ linked' = linked \union {a \in {about[c]} : Exists(a)}
  /\ UNCHANGED <<stores, coverMedia, coverUrl, galleryMedia, activeAvatars,
                 job, caches, mediaStep, about, snapshot, sweeping, excused,
                 linkRaced>>

EndConfirm(c) ==
  /\ mediaStep[c] = "writing"
  /\ todo[c] = {}
  /\ Advance(c, "done")
  /\ UNCHANGED <<stores, links, job, caches, about, todo, snapshot, sweeping,
                 excused, linkRaced>>

-----------------------------------------------------------------------------
(***************************************************************************)
(* ImageProcessingProcessor                                                *)
(***************************************************************************)
JobStage(c, stage) == job' = [job EXCEPT ![c].stage = stage]

\* The download.
LoadFile(c) ==
  /\ job[c].stage = "waiting"
  /\ file[about[c]] = "image"
  /\ JobStage(c, "loaded")
  /\ UNCHANGED <<stores, links, caches, progress, sweeping, excused,
                 linkRaced>>

\* The two copies, whatever has become of the file: the copy of a WebP image
\* takes its place.
StoreVariants(c) ==
  LET a == about[c] IN
  /\ job[c].stage = "loaded"
  /\ variants' = variants \union {a}
  /\ file' = IF a \in Webps THEN [file EXCEPT ![a] = "image"] ELSE file
  /\ JobStage(c, "copied")
  /\ UNCHANGED <<asset, recorded, links, caches, progress, sweeping, excused,
                 linkRaced>>

\* The image library cannot be loaded: the image is taken as it is.
SkipVariants(c) ==
  /\ job[c].stage = "waiting"
  /\ JobStage(c, "skipped")
  /\ UNCHANGED <<stores, links, caches, progress, sweeping, excused,
                 linkRaced>>

\* The row gets the keys of the copies, if there are any.
MarkReady(c) ==
  LET a == about[c] IN
  /\ job[c].stage \in {"copied", "skipped"}
  /\ Exists(a)
  /\ SetAsset(a, "completed")
  /\ recorded' = IF job[c].stage = "copied" THEN recorded \union {a}
                                            ELSE recorded
  /\ BustStatus(a)
  /\ JobStage(c, "done")
  /\ UNCHANGED <<file, variants, links, galleryCache, progress, sweeping,
                 excused, linkRaced>>

\* Anything may fail while the job runs: the row says so, and the job is tried
\* again while it has attempts left.
FailProcessing(c) ==
  /\ UnderWay(c)
  /\ IF Exists(about[c]) THEN SetAsset(about[c], "failed") ELSE UNCHANGED asset
  /\ BustStatus(about[c])
  /\ job' = [job EXCEPT ![c] =
              [stage |-> IF job[c].left > 1 THEN "waiting" ELSE "failed",
               left |-> job[c].left - 1]]
  /\ UNCHANGED <<file, variants, recorded, links, galleryCache, progress,
                 sweeping, excused, linkRaced>>

-----------------------------------------------------------------------------
(***************************************************************************)
(* MediaOrphanCleanupProcessor                                             *)
(***************************************************************************)

\* Mutant of Orphaned: everything that has not been confirmed for long.
OrphanedAny(a) == asset[a] = "failed"

\* Left in processing for twelve hours.
Orphaned(a) == asset[a] = "processing"

SweepFile(a) ==
  /\ Orphaned(a)
  /\ a \notin sweeping
  /\ file' = [file EXCEPT ![a] = "none"]
  /\ sweeping' = sweeping \union {a}
  /\ Excuse(a, "sweep", LiveFor(a))
  /\ UNCHANGED <<asset, variants, recorded, links, job, caches, progress,
                 linkRaced>>

\* The row is written whatever has become of it.
SweepRow(a) ==
  /\ a \in sweeping
  /\ sweeping' = sweeping \ {a}
  /\ IF Exists(a) THEN SetAsset(a, "failed") ELSE UNCHANGED asset
  /\ UNCHANGED <<file, variants, recorded, links, job, caches, progress,
                 excused, linkRaced>>

-----------------------------------------------------------------------------
(***************************************************************************)
(* Reading                                                                 *)
(***************************************************************************)

\* getUploadStatus: only an upload that is not at its end is answered from the
\* cache, or put there.
ReadStatus(p) ==
  /\ Idle(p)
  /\ \E a \in Assets :
       /\ Exists(a)
       /\ statusCache[a] = Nothing
       /\ about' = [about EXCEPT ![p] = a]
       /\ snapshot' = [snapshot EXCEPT ![p] = asset[a]]
  /\ Advance(p, "read")
  /\ UNCHANGED <<stores, links, job, caches, todo, sweeping, excused,
                 linkRaced>>

CacheStatus(p) ==
  /\ p \in Polls
  /\ mediaStep[p] = "read"
  /\ statusCache' = IF snapshot[p] \in Transient
                      THEN [statusCache EXCEPT ![about[p]] = snapshot[p]]
                      ELSE statusCache
  /\ Advance(p, "done")
  /\ UNCHANGED <<stores, links, job, galleryCache, about, todo, snapshot,
                 sweeping, excused, linkRaced>>

\* Mutant of ExpireStatus: the entry has no time to live.
ExpireStatusNever(a) ==
  /\ a \notin Assets
  /\ UNCHANGED mediaVars

\* STATUS_CACHE_TTL_TRANSIENT has passed.
ExpireStatus(a) ==
  /\ statusCache[a] # Nothing
  /\ BustStatus(a)
  /\ UNCHANGED <<stores, links, job, galleryCache, progress, sweeping, excused,
                 linkRaced>>

\* getGallery reads the rows by their key, not by their link.
PublicGallery == {g \in Galleries : asset[g] = "completed"}

\* VenueManagementService.listGalleryImages reads them by their link.
OwnerGallery == {g \in Galleries : asset[g] = "completed" /\ galleryMedia = g}

ReadGallery(r) ==
  /\ Idle(r)
  /\ galleryCache = Nothing
  /\ snapshot' = [snapshot EXCEPT ![r] = PublicGallery]
  /\ Advance(r, "read")
  /\ UNCHANGED <<stores, links, job, caches, about, todo, sweeping, excused,
                 linkRaced>>

CacheGallery(r) ==
  /\ r \in Readers
  /\ mediaStep[r] = "read"
  /\ galleryCache' = snapshot[r]
  /\ Advance(r, "done")
  /\ UNCHANGED <<stores, links, job, statusCache, about, todo, snapshot,
                 sweeping, excused, linkRaced>>

\* GALLERY_CACHE_TTL has passed.
ExpireGallery ==
  /\ galleryCache # Nothing
  /\ galleryCache' = Nothing
  /\ UNCHANGED <<stores, links, job, statusCache, progress, sweeping, excused,
                 linkRaced>>

-----------------------------------------------------------------------------
(***************************************************************************)
(* deleteAsset                                                             *)
(***************************************************************************)

\* The row is read: it names the keys of the copies once the worker has
\* written them there.
BeginDelete(c) ==
  /\ Idle(c)
  /\ \E a \in Assets :
       /\ Exists(a)
       /\ about' = [about EXCEPT ![c] = a]
       /\ snapshot' = [snapshot EXCEPT ![c] = {a} \intersect recorded]
       /\ Excuse(a, "deletion", a \notin recorded)
       /\ linkRaced' = (linkRaced \/ \E d \in Confirms :
                          /\ about[d] = a
                          /\ mediaStep[d] \in {"checked", "writing"})
  /\ Advance(c, "found")
  /\ UNCHANGED <<stores, links, job, caches, todo, sweeping>>

\* Mutant of ErasedCopies: only the file itself.
ErasedFileOnly(c) == {}

\* The copies whose keys the row had.
ErasedCopies(c) == snapshot[c]

\* The files go first.  Nothing is made of a key that the storage did not
\* delete.
DeleteFiles(c) ==
  LET a == about[c] IN
  /\ mediaStep[c] = "found"
  /\ \E refused \in SUBSET {"file", "copies"} :
       /\ file' = IF "file" \in refused THEN file
                                        ELSE [file EXCEPT ![a] = "none"]
       /\ variants' = IF "copies" \in refused THEN variants
                                              ELSE variants \ ErasedCopies(c)
       /\ Excuse(a, "deletion", refused # {} \/ HeldFor(a))
  /\ Advance(c, "emptied")
  /\ UNCHANGED <<asset, recorded, links, job, caches, about, todo, snapshot,
                 sweeping, linkRaced>>

\* The row of an upload that something refers to cannot be deleted.
DeleteRow(c) ==
  LET a == about[c] IN
  /\ mediaStep[c] = "emptied"
  /\ IF ~Exists(a) \/ a \in linked
       THEN /\ Advance(c, "refused")
            /\ UNCHANGED <<asset, recorded, caches>>
       ELSE /\ SetAsset(a, IF KeyIsFresh(a) THEN "gone" ELSE "none")
            /\ recorded' = recorded \ {a}
            /\ BustStatus(a)
            /\ galleryCache' =
                 IF a \in Galleries THEN Nothing ELSE galleryCache
            /\ Advance(c, "done")
  /\ UNCHANGED <<file, variants, links, job, about, todo, snapshot, sweeping,
                 excused, linkRaced>>

-----------------------------------------------------------------------------
ConfirmStep(c) ==
  \/ BeginConfirm(c) \/ RejectBytes(c) \/ PassBytes(c)
  \/ WriteStatus(c) \/ AddJob(c)
  \/ LinkCoverMedia(c) \/ LinkCoverUrl(c) \/ LinkGallery(c)
  \/ EndAvatars(c) \/ AddAvatar(c) \/ LinkDocument(c)
  \/ EndConfirm(c)

JobStep(c) ==
  \/ LoadFile(c) \/ StoreVariants(c) \/ SkipVariants(c)
  \/ MarkReady(c) \/ FailProcessing(c)

MediaNext ==
  \/ \E a \in Assets : RequestUpload(a) \/ PutFile(a)
  \/ \E c \in Confirms : ConfirmStep(c) \/ JobStep(c)
  \/ \E a \in Assets : SweepFile(a) \/ SweepRow(a)
  \/ \E p \in Polls : ReadStatus(p) \/ CacheStatus(p)
  \/ \E r \in Readers : ReadGallery(r) \/ CacheGallery(r)
  \/ \E a \in Assets : ExpireStatus(a)
  \/ ExpireGallery
  \/ \E c \in Deletions : BeginDelete(c) \/ DeleteFiles(c) \/ DeleteRow(c)

\* The recurring job comes back, and cache entries have a time to live.
MediaFairness ==
  /\ \A a \in Assets : WF_mediaVars(SweepFile(a)) /\ WF_mediaVars(SweepRow(a))
  /\ \A a \in Assets : WF_mediaVars(ExpireStatus(a))
  /\ WF_mediaVars(ExpireGallery)

MediaSpec == MediaInit /\ [][MediaNext]_mediaVars /\ MediaFairness

-----------------------------------------------------------------------------
(***************************************************************************)
(* Properties                                                              *)
(***************************************************************************)
MediaTypeOK ==
  /\ asset \in [Assets -> Status \union {"none", "gone"}]
  /\ file \in [Assets -> {"none", "image", "junk"}]
  /\ variants \subseteq Images /\ recorded \subseteq Images
  /\ coverMedia \in Covers \union {Nothing}
  /\ coverUrl \in Covers \union {Nothing}
  /\ galleryMedia \in Galleries \union {Nothing}
  /\ activeAvatars \subseteq Avatars
  /\ linked \subseteq Assets
  /\ statusCache \in [Assets -> Transient \union {Nothing}]
  /\ sweeping \subseteq Assets
  /\ excused \subseteq Assets \X {"sweep", "deletion"}

\* A deletion has been at the files of an upload.
Erased(a) ==
  \E d \in Deletions :
    about[d] = a /\ mediaStep[d] \in {"emptied", "refused", "done"}

\* The recurring job takes no file from an image of which copies have been
\* stored, unless the confirmation wrote "processing" after that, or the worker
\* was not yet done after twelve hours.  Only a deletion takes it.
ProcessedKeepsFile ==
  \A a \in variants :
    file[a] = "none" => <<a, "sweep">> \in excused \/ Erased(a)

\* An image whose row has been deleted leaves copies behind only if the row did
\* not name them yet when the deletion read it, a worker held the image when
\* the files were deleted, or the storage did not delete them.
DeletedLeavesNoCopies ==
  \A a \in variants : asset[a] = "gone" => <<a, "deletion">> \in excused

CopiesAccountedFor == ProcessedKeepsFile /\ DeletedLeavesNoCopies

\* Unless two confirmations were linking at once, or a file was confirmed while
\* it was being deleted, a player has one active picture at most, and the
\* venue's address of its cover is the one its media row refers to once both
\* have been written.
LinksAgreeUnlessRaced ==
  \/ linkRaced
  \/ /\ Cardinality(activeAvatars) <= 1
     /\ \/ \E c \in Confirms :
             todo[c] \intersect {"coverMedia", "coverUrl"} # {}
        \/ coverUrl = coverMedia

\* No upload stays in processing for ever, whatever becomes of its job and of
\* the writes of its confirmation.
UploadsSettle == []<>(\A a \in Assets : asset[a] # "processing")

\* What the clients are told from a cache gives way to what the rows say, even
\* where a read that overlapped the change put the old answer back.
CachesCatchUp ==
  []<>(/\ \A a \in Assets : statusCache[a] \in {Nothing, asset[a]}
       /\ galleryCache \in {Nothing, PublicGallery})
=============================================================================

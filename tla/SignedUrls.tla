----------------------------- MODULE SignedUrls -----------------------------
(***************************************************************************)
(* The signed download URLs of stored files.  Every process keeps the URLs *)
(* it has signed for CacheTtl, whatever life the caller asked for: a URL   *)
(* signed for ten minutes is handed out for fifty.  A file that is deleted *)
(* is evicted from the cache of the process that deletes it and of no      *)
(* other.                                                                  *)
(*                                                                         *)
(* A call reads the rows of its files, takes from the cache what it can,   *)
(* and signs the rest; getSignedUrl is awaited, so that a deletion in the  *)
(* same process may come in between.                                       *)
(*                                                                         *)
(* A file has one key here.  The list signs the key of the processed copy  *)
(* where the row names one and the key of the file otherwise, the other    *)
(* calls sign the key of the file; confirmUpload completes a document      *)
(* without processing it (MediaAssets), so that its row never names a copy *)
(* and the two are the same key.                                           *)
(***************************************************************************)
EXTENDS Naturals

CONSTANTS
  Procs,        \* processes with a StorageService each
  Papers,       \* the KYC documents of one owner
  TypeOf,       \* the document type of each
  Sheets,       \* the verification documents of one venue
  Pictures,     \* cover images
  PaperLists,   \* calls of getAllKycDocUrls
  PaperViews,   \* calls of getKycDocUrl
  SheetViews,   \* calls of getVerificationDocUrl
  PictureViews, \* calls of getImageUrl
  Erasures,     \* calls of deleteAsset
  HostOf,       \* the process of each call
  CacheTtl, DocumentLife, PictureLife,
                \* for how long a URL is cached, and is signed
  LastTick      \* bound: the last value of the clock

Documents == Papers \union Sheets
Files == Documents \union Pictures
UrlCalls == PaperLists \union PaperViews \union SheetViews \union PictureViews
StorageCalls == UrlCalls \union Erasures

ASSUME UrlAssumption ==
  /\ Papers \intersect Sheets = {} /\ Documents \intersect Pictures = {}
  /\ PaperLists \intersect PaperViews = {}
  /\ (PaperLists \union PaperViews) \intersect SheetViews = {}
  /\ (PaperLists \union PaperViews \union SheetViews) \intersect PictureViews
       = {}
  /\ UrlCalls \intersect Erasures = {}
  /\ HostOf \in [StorageCalls -> Procs]
  /\ DOMAIN TypeOf = Papers
  /\ {CacheTtl, DocumentLife, PictureLife} \subseteq Nat \ {0}
  /\ LastTick \in Nat

VARIABLES
  ticks,     \* the time
  created,   \* when the row of each document was created; 0, there is none
  cache,     \* the URLs each process keeps
  urlStep,   \* how far each call has come
  wanted,    \* the files whose URL a call is signing, or that it deletes
  handed,    \* the URLs a call has handed out, and when
  evicted,   \* history: the files each process has evicted
  knew,      \* history: evicted, as each call began
  signRaced  \* history: files evicted while a call was signing their URL

urlVars == <<ticks, created, cache, urlStep, wanted, handed, evicted, knew,
             signRaced>>

-----------------------------------------------------------------------------
Ticks == 0..LastTick

\* kept is when a URL was put into the cache; gone says that the process had
\* evicted its file before it was signed.
Urls == [file : Files, life : {DocumentLife, PictureLife}, kept : Ticks,
         gone : BOOLEAN]

\* The rows are those of uploads that have been requested; no two were
\* created at one time.
UrlInit ==
  /\ ticks = 0
  /\ created \in {r \in [Documents -> 0..2] :
                   \A d, e \in Documents : r[d] = r[e] => d = e \/ r[d] = 0}
  /\ cache = [p \in Procs |-> {}]
  /\ urlStep = [c \in StorageCalls |-> "idle"]
  /\ wanted = [c \in StorageCalls |-> {}]
  /\ handed = [c \in UrlCalls |-> {}]
  /\ evicted = [p \in Procs |-> {}]
  /\ knew = [c \in UrlCalls |-> {}]
  /\ signRaced = {}

-----------------------------------------------------------------------------
(***************************************************************************)
(* What the calls ask for                                                  *)
(***************************************************************************)
LatestOfType(t) ==
  {d \in Papers : /\ TypeOf[d] = t /\ created[d] # 0
                  /\ \A e \in Papers :
                       TypeOf[e] = t => created[e] <= created[d]}

\* The newest document of every type, whatever has become of its upload.
ListedPapers == UNION {LatestOfType(TypeOf[d]) : d \in Papers}

\* The files a call may ask for; a picture is asked for by its key, whether
\* it has a row or not.
AskedFor(c) ==
  CASE c \in PaperLists   -> {ListedPapers}
    [] c \in PaperViews   -> {LatestOfType(TypeOf[d]) : d \in Papers} \ {{}}
    [] c \in SheetViews   -> {{d} : d \in {s \in Sheets : created[s] # 0}}
    [] c \in PictureViews -> {{k} : k \in Pictures}

LifeOf(c) == IF c \in PictureViews THEN PictureLife ELSE DocumentLife

-----------------------------------------------------------------------------
(***************************************************************************)
(* presignGet                                                              *)
(***************************************************************************)
\* Mutant of StillKept: what is in the cache is used.
StillKeptAlways(u) == TRUE

\* Mutant of Evictions: only the URL of the default life, which nobody uses.
EvictionsOfDefault(p, file) ==
  {u \in cache[p] : u.file = file /\ u.life \notin {DocumentLife, PictureLife}}

\* The place of a URL in the cache is named by its life and its file.
InSlot(u, file, life) == u.file = file /\ u.life = life

\* An entry is used until CacheTtl after it was made, not until it expires.
StillKept(u) == ticks < u.kept + CacheTtl

Evictions(p, file) == {u \in cache[p] : u.file = file}

Cached(c, file) ==
  {u \in cache[HostOf[c]] : InSlot(u, file, LifeOf(c)) /\ StillKept(u)}

HandedNow(urls) == [url : urls, at : {ticks}]

\* The call reads its rows and takes what the cache has.
Ask(c) ==
  /\ urlStep[c] = "idle"
  /\ \E files \in AskedFor(c) :
       LET hits == {file \in files : Cached(c, file) # {}} IN
       /\ handed' = [handed EXCEPT ![c] =
                       HandedNow(UNION {Cached(c, k) : k \in hits})]
       /\ wanted' = [wanted EXCEPT ![c] = files \ hits]
       /\ urlStep' = [urlStep EXCEPT ![c] =
                        IF files = hits THEN "done" ELSE "signing"]
  /\ knew' = [knew EXCEPT ![c] = evicted[HostOf[c]]]
  /\ UNCHANGED <<ticks, created, cache, evicted, signRaced>>

Signed(c, file) ==
  [file |-> file, life |-> LifeOf(c), kept |-> ticks,
   gone |-> file \in knew[c]]

\* The URLs are signed, kept and handed out.  One that cannot be signed is
\* left out of a list, and ends any other call with an error.
SignUrls(c) ==
  /\ urlStep[c] = "signing"
  /\ \E ok \in SUBSET wanted[c] :
       LET new == {Signed(c, file) : file \in ok}
           p == HostOf[c] IN
       /\ cache' = [cache EXCEPT ![p] = new \union
            {u \in @ : \A n \in new : ~InSlot(u, n.file, n.life)}]
       /\ handed' = [handed EXCEPT ![c] = @ \union HandedNow(new)]
  /\ wanted' = [wanted EXCEPT ![c] = {}]
  /\ urlStep' = [urlStep EXCEPT ![c] = "done"]
  /\ UNCHANGED <<ticks, created, evicted, knew, signRaced>>

-----------------------------------------------------------------------------
(***************************************************************************)
(* deleteAsset                                                             *)
(***************************************************************************)
FindAsset(e) ==
  /\ urlStep[e] = "idle"
  /\ \E file \in Files :
       /\ file \in Documents => created[file] # 0
       /\ wanted' = [wanted EXCEPT ![e] = {file}]
  /\ urlStep' = [urlStep EXCEPT ![e] = "found"]
  /\ UNCHANGED <<ticks, created, cache, handed, evicted, knew, signRaced>>

\* The file is deleted, and its URLs leave the cache of this process.
DeleteFile(e) ==
  /\ urlStep[e] = "found"
  /\ LET p == HostOf[e] IN
     /\ cache' = [cache EXCEPT ![p] =
                    @ \ UNION {Evictions(p, k) : k \in wanted[e]}]
     /\ evicted' = [evicted EXCEPT ![p] = @ \union wanted[e]]
     /\ signRaced' = signRaced \union {k \in wanted[e] :
          \E c \in UrlCalls : HostOf[c] = p /\ k \in wanted[c]}
  /\ urlStep' = [urlStep EXCEPT ![e] = "deleted"]
  /\ UNCHANGED <<ticks, created, wanted, handed, knew>>

\* The store refuses, which deleteAsset does not ask: nothing is evicted.
KeepFile(e) ==
  /\ urlStep[e] = "found"
  /\ urlStep' = [urlStep EXCEPT ![e] = "deleted"]
  /\ UNCHANGED <<ticks, created, cache, wanted, handed, evicted, knew,
                 signRaced>>

DeleteAssetRow(e) ==
  /\ urlStep[e] = "deleted"
  /\ created' = [d \in Documents |-> IF d \in wanted[e] THEN 0 ELSE created[d]]
  /\ urlStep' = [urlStep EXCEPT ![e] = "done"]
  /\ UNCHANGED <<ticks, cache, wanted, handed, evicted, knew, signRaced>>

-----------------------------------------------------------------------------
\* The purge that each process makes every five minutes.
Purge(p) ==
  /\ \E u \in cache[p] : ~(ticks < u.kept + CacheTtl)
  /\ cache' = [cache EXCEPT ![p] = {u \in @ : ticks < u.kept + CacheTtl}]
  /\ UNCHANGED <<ticks, created, urlStep, wanted, handed, evicted, knew,
                 signRaced>>

PassTime ==
  /\ ticks < LastTick
  /\ ticks' = ticks + 1
  /\ UNCHANGED <<created, cache, urlStep, wanted, handed, evicted, knew,
                 signRaced>>

UrlNext ==
  \/ \E c \in UrlCalls : Ask(c) \/ SignUrls(c)
  \/ \E e \in Erasures :
       FindAsset(e) \/ DeleteFile(e) \/ KeepFile(e) \/ DeleteAssetRow(e)
  \/ \E p \in Procs : Purge(p)
  \/ PassTime

UrlSpec == UrlInit /\ [][UrlNext]_urlVars

-----------------------------------------------------------------------------
(***************************************************************************)
(* Properties                                                              *)
(***************************************************************************)
UrlTypeOK ==
  /\ ticks \in Ticks
  /\ created \in [Documents -> 0..2]
  /\ cache \in [Procs -> SUBSET Urls]
  /\ urlStep \in [StorageCalls ->
                   {"idle", "signing", "found", "deleted", "done"}]
  /\ wanted \in [StorageCalls -> SUBSET Files]
  /\ handed \in [UrlCalls -> SUBSET [url : Urls, at : Ticks]]
  /\ evicted \in [Procs -> SUBSET Files]
  /\ knew \in [UrlCalls -> SUBSET Files]
  /\ signRaced \in SUBSET Files

\* A URL that is handed out has been kept for less than CacheTtl (it may have
\* expired long before), and does not lead to a file that this process had
\* deleted before it was asked, unless it was signed since, or the deletion
\* came while it was being signed.
HandedUrlsFitUnlessRaced ==
  \A c \in UrlCalls : \A h \in handed[c] :
    /\ h.at < h.url.kept + CacheTtl
    /\ h.url.file \in knew[c] => h.url.gone \/ h.url.file \in signRaced
=============================================================================

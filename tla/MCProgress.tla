----------------------------- MODULE MCProgress -----------------------------
(***************************************************************************)
(* One instance for TLC of what must come to an end: the uploads and their *)
(* caches, the jobs of processes that stop and lose their connections, the *)
(* locks of a court, and the calls of a match that wait for one another.   *)
(* The modules share no variable, so nothing is learnt from running two of *)
(* them at once: a behaviour is a scene of one of them, with some of its   *)
(* calls, while the others keep still.                                     *)
(***************************************************************************)
EXTENDS CourtDay, MediaAssets, Lifecycle, TLC

CONSTANTS
  MediaCasts,   \* the sets of calls a scene of MediaAssets may make
  LifeCasts,    \* the processes of each scene of Lifecycle
  Players, Organiser, SlotJoins, Additions, Nobody

VARIABLES
  scene,        \* the module that runs, and its calls
  match, row, player, matchPc, asked, archived, seats, rowLock, advisory,
  elders

matchVars == <<match, row, player, matchPc, asked, archived, seats, rowLock,
               advisory, elders>>

\* The requests of the player's server; one of its keys, or the URL of Redis,
\* may be missing.
PlayerServes == [j \in Jobs |-> "player"]
AllKeys ==
  AlwaysRequired \union PlayerKeys \union OwnerKeys \union AdminKeys
    \union ChatKeys
SomeKeys == {AllKeys, AllKeys \ {"APP_URL"}, AllKeys \ {"REDIS_URL"}}

\* The slots 1-3 and 3-5.
GridStarts == {1, 3}
GridLayouts == {[open |-> 1, close |-> 5, duration |-> 2]}

\* A join under the row lock and an addition under the advisory lock.
Membership == INSTANCE MatchMembership WITH
  MaxPlayers <- 3, Joins <- {}, Requests <- {}, Answers <- {},
  pc <- matchPc, snapshot <- seats, before <- elders

Scenes ==
  [part : {"court", "match"}, cast : {{}}]
    \union [part : {"media"}, cast : MediaCasts]
    \union [part : {"life"}, cast : LifeCasts]

Plays(p) == scene.part = p

ProgressInit ==
  /\ scene \in Scenes
  /\ MediaInit
  /\ LifeInit
  /\ Init
  /\ Membership!Init
  /\ ~Plays("life") => env = AllKeys
  /\ ~Plays("court") => day = "future"
  /\ ~Plays("match") => /\ match = Membership!ClosedMatch
                        /\ \A r \in DOMAIN row \ {Organiser} : row[r] = "none"

MediaScene ==
  /\ MediaNext
  /\ \A c \in MediaCalls \ scene.cast : mediaStep'[c] = mediaStep[c]
  /\ \A a \in Assets \ scene.cast : asset'[a] = asset[a]
  /\ \A c \in Confirms :
       "worker" \in scene.cast \/ job[c].stage = "none" \/ job'[c] = job[c]

LifeScene ==
  /\ LifeNext
  /\ \A p \in Programs \ scene.cast : step'[p] = step[p]

ProgressNext ==
  /\ UNCHANGED scene
  /\ IF Plays("media") THEN TRUE ELSE UNCHANGED mediaVars
  /\ IF Plays("life") THEN TRUE ELSE UNCHANGED lifeVars
  /\ IF Plays("court") THEN TRUE ELSE UNCHANGED vars
  /\ IF Plays("match") THEN TRUE ELSE UNCHANGED matchVars
  /\ \/ Plays("media") /\ MediaScene
     \/ Plays("life") /\ LifeScene
     \/ Plays("court") /\ Next
     \/ Plays("match") /\ Membership!Next

\* The fairness of each module, in its own scenes.
ProgressSpec ==
  /\ ProgressInit
  /\ [][ProgressNext]_<<scene, mediaVars, lifeVars, vars, matchVars>>
  /\ \A a \in Assets :
       /\ WF_mediaVars(Plays("media") /\ SweepFile(a))
       /\ WF_mediaVars(Plays("media") /\ SweepRow(a))
       /\ WF_mediaVars(Plays("media") /\ ExpireStatus(a))
  /\ WF_mediaVars(Plays("media") /\ ExpireGallery)
  /\ WF_lifeVars(Plays("life") /\ Recover)
  /\ \A p \in Programs :
       WF_lifeVars(Plays("life") /\ p \in scene.cast /\ LifeStep(p))
  /\ \A j \in Jobs :
       /\ WF_lifeVars(Plays("life") /\ AddWork(j))
       /\ WF_lifeVars(Plays("life") /\ StallJob(j))
       /\ WF_lifeVars(Plays("life")
            /\ \E p \in Programs : TakeWork(p, j) \/ FinishWork(p, j))
  /\ \A h \in Holds : WF_vars(
       Plays("court") /\ (RequestStep(h) \/ Abort(h)))
  /\ \A c \in SlotJoins \union Additions :
       WF_matchVars(Plays("match") /\ Membership!CallStep(c))

\* CallsEnd of MatchMembership: no call waits for ever.
CallsEnd == Membership!CallsEnd
=============================================================================

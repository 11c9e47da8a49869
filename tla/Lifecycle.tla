----------------------------- MODULE Lifecycle -----------------------------
(***************************************************************************)
(* The processes of the system from start to exit: the steps of each       *)
(* bootstrap, the connection that carries the jobs and its retries, what   *)
(* becomes of a request that has written its rows and has a job to add,    *)
(* the orderly shutdown, and the supervisor that starts a process again    *)
(* when it has exited.                                                     *)
(*                                                                         *)
(* A command on a connection that is being retried waits for it; when the  *)
(* retries are used up the connection has ended for good, and every        *)
(* command is refused.  The process goes on: only an exit is restarted.    *)
(***************************************************************************)
EXTENDS Naturals, Sequences

CONSTANTS
  Environments,  \* what may be set in the environment: sets of keys
  Programs,      \* the processes that are started
  Jobs,          \* jobs, each of one request
  ServerOf,      \* the process that serves the request of each job
  MaxRetries,    \* MAX_RETRY_ATTEMPTS
  MaxOutages,    \* bound: outages of Redis, and of the database
  MaxSignals,    \* bound: signals that stop a process
  NoProgram      \* no process has the job

Servers == {"player", "owner", "admin", "chat"}
WorkerPrograms == {"playerWorker", "ownerWorker", "adminWorker"}

ASSUME LifecycleAssumption ==
  /\ Programs \subseteq Servers \union WorkerPrograms
  /\ NoProgram \notin Programs
  /\ ServerOf \in [Jobs -> Programs \intersect Servers]
  /\ {MaxRetries, MaxOutages, MaxSignals} \subseteq Nat

VARIABLES
  env,      \* what is set in the environment
  dbUp, redisUp,
  outages,  \* how often either has been down
  step,     \* what each process does next; "exited", it has ended
  link,     \* its connection to the queues
  redials,  \* the attempts that the connection has made since it was lost
  told,     \* isRedisShuttingDown of the process
  signals,  \* how many signals have been sent
  request,  \* the request of each job
  work,     \* the job
  holder    \* the process that has it

lifeVars == <<env, dbUp, redisUp, outages, step, link, redials, told, signals,
              request, work, holder>>
worldVars == <<dbUp, redisUp, outages>>
workVars == <<request, work, holder>>

-----------------------------------------------------------------------------
(***************************************************************************)
(* The programs                                                            *)
(***************************************************************************)
AlwaysRequired == {"DATABASE_URL", "DIRECT_DATABASE_URL", "REDIS_URL"}

PlayerKeys == {"PLAYER_JWT_SECRET", "KHALTI_SECRET_KEY", "ESEWA_SECRET_KEY",
               "ESEWA_PRODUCT_CODE", "APP_URL"}
OwnerKeys == {"OWNER_JWT_SECRET", "STORAGE_PROVIDER", "S3_ENDPOINT",
              "S3_REGION", "S3_ACCESS_KEY", "S3_SECRET_KEY", "S3_BUCKET"}
AdminKeys == {"ADMIN_JWT_SECRET"}
ChatKeys == {"PLAYER_JWT_SECRET", "OWNER_JWT_SECRET"}

\* A secret that is too short counts as one that is not set.
KeysOf == [player |-> PlayerKeys, owner |-> OwnerKeys, admin |-> AdminKeys,
           chat |-> ChatKeys]

\* app.listen runs the hooks that connect the database when app.init has not.
\* The signal handlers are the last thing that is set up.
PlayerSteps == <<"validate", "init", "listen", "handle", "serve">>
OwnerSteps  == <<"validate", "init", "listen", "handle", "serve">>
AdminSteps  == <<"validate", "init", "listen", "handle", "serve">>
ChatSteps   == <<"validate", "adapter", "init", "listen", "handle", "serve">>

\* createApplicationContext runs the hooks, the scheduler's among them, before
\* waitForReady is called.  No worker validates its environment.
PlayerWorkerSteps == <<"init", "schedule", "ready", "handle", "serve">>
OwnerWorkerSteps  == <<"init", "ready", "handle", "serve">>
AdminWorkerSteps  == <<"init", "ready", "handle", "serve">>

StepsOf == [player |-> PlayerSteps, owner |-> OwnerSteps,
            admin |-> AdminSteps, chat |-> ChatSteps,
            playerWorker |-> PlayerWorkerSteps,
            ownerWorker |-> OwnerWorkerSteps,
            adminWorker |-> AdminWorkerSteps]

NextStep(p) ==
  LET s == StepsOf[p] IN
  s[CHOOSE i \in 2..Len(s) : s[i - 1] = step[p]]

Running(p) == step[p] # "exited"

\* Requests are served once the socket listens, and jobs taken once the hooks
\* have run.
Listens(p) ==
  p \in Servers /\ step[p] \in {"handle", "serve", "close", "drain"}
TakesJobs(p) ==
  p \in WorkerPrograms /\ step[p] \in {"schedule", "ready", "handle", "serve"}

\* Without a URL the client dials an address where no Redis answers.
Reaches(p) == redisUp /\ "REDIS_URL" \in env

-----------------------------------------------------------------------------
LifeInit ==
  /\ env \in Environments
  /\ dbUp = TRUE
  /\ redisUp = TRUE
  /\ outages = 0
  /\ step = [p \in Programs |-> StepsOf[p][1]]
  /\ link = [p \in Programs |-> "wait"]
  /\ redials = [p \in Programs |-> 0]
  /\ told = [p \in Programs |-> FALSE]
  /\ signals = 0
  /\ request = [j \in Jobs |-> "none"]
  /\ work = [j \in Jobs |-> "none"]
  /\ holder = [j \in Jobs |-> NoProgram]

-----------------------------------------------------------------------------
(***************************************************************************)
(* The connection                                                          *)
(***************************************************************************)
\* Mutant of Queues: commands are refused while the connection is retried.
QueuesNothing == FALSE

\* enableOfflineQueue, with maxRetriesPerRequest null.
Queues == TRUE

\* A command is refused at once.
Refuses(p) == link[p] = "ended" \/ (~Queues /\ link[p] = "lost")

\* retryStrategy: whether the connection is tried again.
TriesAgain(p, n) == ~told[p] /\ n <= MaxRetries

\* A client dials when it is first used.
Uses(p) ==
  \/ step[p] \in {"schedule", "ready"}
  \/ \E j \in Jobs : request[j] = "wrote" /\ ServerOf[j] = p
  \/ TakesJobs(p)

Dial(p) ==
  /\ Running(p) /\ link[p] = "wait" /\ Uses(p)
  /\ link' = [link EXCEPT ![p] = IF Reaches(p) THEN "ready" ELSE "lost"]
  /\ redials' = [redials EXCEPT ![p] = IF Reaches(p) THEN 0 ELSE 1]
  /\ UNCHANGED <<env, worldVars, step, told, signals, workVars>>

\* An outage closes the socket.
LoseLink(p) ==
  /\ Running(p) /\ link[p] = "ready" /\ ~redisUp
  /\ link' = [link EXCEPT ![p] = "lost"]
  /\ redials' = [redials EXCEPT ![p] = 1]
  /\ UNCHANGED <<env, worldVars, step, told, signals, workVars>>

Retry(p) ==
  /\ Running(p) /\ link[p] = "lost"
  /\ IF ~TriesAgain(p, redials[p])
       THEN link' = [link EXCEPT ![p] = "ended"] /\ UNCHANGED redials
       ELSE IF Reaches(p)
       THEN /\ link' = [link EXCEPT ![p] = "ready"]
            /\ redials' = [redials EXCEPT ![p] = 0]
       ELSE /\ UNCHANGED link
            /\ redials' = [redials EXCEPT ![p] = @ + 1]
  /\ UNCHANGED <<env, worldVars, step, told, signals, workVars>>

-----------------------------------------------------------------------------
(***************************************************************************)
(* Starting                                                                *)
(***************************************************************************)
Goes(p) == step' = [step EXCEPT ![p] = NextStep(p)]
Exits(p) == step' = [step EXCEPT ![p] = "exited"]

\* validateENV ends the process when a key is missing.
Validate(p) ==
  /\ step[p] = "validate"
  /\ IF AlwaysRequired \union KeysOf[p] \subseteq env
       THEN Goes(p) ELSE Exits(p)
  /\ UNCHANGED <<env, worldVars, link, redials, told, signals, workVars>>

\* PrismaService needs a URL, and connects or throws.
ConnectDatabase(p) ==
  /\ step[p] = "init"
  /\ IF dbUp /\ "DATABASE_URL" \in env THEN Goes(p) ELSE Exits(p)
  /\ UNCHANGED <<env, worldVars, link, redials, told, signals, workVars>>

\* The chat server's sockets are joined through Redis, or it does not start.
ConnectAdapter(p) ==
  /\ step[p] = "adapter"
  /\ IF Reaches(p) THEN Goes(p) ELSE Exits(p)
  /\ UNCHANGED <<env, worldVars, link, redials, told, signals, workVars>>

\* The scheduler adds its recurring jobs, and starts without them when the
\* connection refuses.  waitForReady returns when it is answered; its deadline
\* counts only when the connection refuses, as the command would wait.
Await(p) ==
  /\ step[p] \in {"schedule", "ready"}
  /\ link[p] = "ready" \/ Refuses(p)
  /\ Goes(p)
  /\ UNCHANGED <<env, worldVars, link, redials, told, signals, workVars>>

SetUp(p) ==
  /\ step[p] \in {"listen", "handle"}
  /\ Goes(p)
  /\ UNCHANGED <<env, worldVars, link, redials, told, signals, workVars>>

-----------------------------------------------------------------------------
(***************************************************************************)
(* Working                                                                 *)
(***************************************************************************)
\* A request commits its rows; its job is added in a later statement.
WriteRows(j) ==
  /\ request[j] = "none" /\ Listens(ServerOf[j]) /\ dbUp
  /\ step[ServerOf[j]] # "drain"
  /\ request' = [request EXCEPT ![j] = "wrote"]
  /\ UNCHANGED <<env, worldVars, step, link, redials, told, signals, work,
                 holder>>

AddWork(j) ==
  LET p == ServerOf[j] IN
  /\ request[j] = "wrote" /\ Listens(p)
  /\ \/ /\ link[p] = "ready" /\ redisUp
        /\ work' = [work EXCEPT ![j] = "queued"]
        /\ request' = [request EXCEPT ![j] = "answered"]
     \/ /\ Refuses(p)
        /\ request' = [request EXCEPT ![j] = IF told[p] THEN "cut"
                                                         ELSE "failed"]
        /\ UNCHANGED work
  /\ UNCHANGED <<env, worldVars, step, link, redials, told, signals, holder>>

TakeWork(p, j) ==
  /\ TakesJobs(p) /\ link[p] = "ready" /\ redisUp
  /\ work[j] = "queued"
  /\ work' = [work EXCEPT ![j] = "active"]
  /\ holder' = [holder EXCEPT ![j] = p]
  /\ UNCHANGED <<env, worldVars, step, link, redials, told, signals, request>>

FinishWork(p, j) ==
  /\ Running(p) /\ link[p] = "ready" /\ redisUp
  /\ work[j] = "active" /\ holder[j] = p
  /\ work' = [work EXCEPT ![j] = "done"]
  /\ holder' = [holder EXCEPT ![j] = NoProgram]
  /\ UNCHANGED <<env, worldVars, step, link, redials, told, signals, request>>

\* The lock of a job whose process has gone expires.
StallJob(j) ==
  /\ work[j] = "active" /\ ~Running(holder[j])
  /\ \E p \in Programs : TakesJobs(p) /\ link[p] = "ready" /\ redisUp
  /\ work' = [work EXCEPT ![j] = "queued"]
  /\ holder' = [holder EXCEPT ![j] = NoProgram]
  /\ UNCHANGED <<env, worldVars, step, link, redials, told, signals, request>>

-----------------------------------------------------------------------------
(***************************************************************************)
(* Stopping                                                                *)
(***************************************************************************)
\* The requests of a process that exits are cut off.
Cuts(p) ==
  request' = [j \in Jobs |->
    IF ServerOf[j] = p /\ request[j] = "wrote" THEN "cut" ELSE request[j]]

\* Before its handlers are set up a signal kills the process.
Signal(p) ==
  /\ Running(p) /\ signals < MaxSignals
  /\ signals' = signals + 1
  /\ IF step[p] = "serve"
       THEN /\ step' = [step EXCEPT ![p] = "close"]
            /\ told' = [told EXCEPT ![p] = TRUE]
            /\ UNCHANGED request
       ELSE Exits(p) /\ Cuts(p) /\ UNCHANGED told
  /\ UNCHANGED <<env, worldVars, link, redials, work, holder>>

\* app.close: the hooks leave the database and Redis before the server stops.
CloseClients(p) ==
  /\ step[p] = "close"
  /\ step' = [step EXCEPT ![p] = "drain"]
  /\ link' = [link EXCEPT ![p] = "ended"]
  /\ UNCHANGED <<env, worldVars, redials, told, signals, workVars>>

\* The server waits for the requests it has begun.
Drain(p) ==
  /\ step[p] = "drain"
  /\ \A j \in Jobs : ServerOf[j] = p => request[j] # "wrote"
  /\ Exits(p)
  /\ UNCHANGED <<env, worldVars, link, redials, told, signals, workVars>>

\* restart: unless-stopped.
Restart(p) ==
  /\ step[p] = "exited"
  /\ step' = [step EXCEPT ![p] = StepsOf[p][1]]
  /\ link' = [link EXCEPT ![p] = "wait"]
  /\ redials' = [redials EXCEPT ![p] = 0]
  /\ told' = [told EXCEPT ![p] = FALSE]
  /\ UNCHANGED <<env, worldVars, signals, workVars>>

-----------------------------------------------------------------------------
Fail ==
  /\ outages < MaxOutages
  /\ outages' = outages + 1
  /\ \/ redisUp /\ redisUp' = FALSE /\ UNCHANGED dbUp
     \/ dbUp /\ dbUp' = FALSE /\ UNCHANGED redisUp
  /\ UNCHANGED <<env, step, link, redials, told, signals, workVars>>

Recover ==
  /\ ~redisUp \/ ~dbUp
  /\ redisUp' = TRUE /\ dbUp' = TRUE
  /\ UNCHANGED <<env, outages, step, link, redials, told, signals, workVars>>

\* What a process does by itself.
LifeStep(p) ==
  \/ Dial(p) \/ LoseLink(p) \/ Retry(p)
  \/ Validate(p) \/ ConnectDatabase(p) \/ ConnectAdapter(p) \/ Await(p)
  \/ SetUp(p) \/ CloseClients(p) \/ Drain(p) \/ Restart(p)

LifeNext ==
  \/ \E p \in Programs : LifeStep(p) \/ Signal(p)
  \/ \E j \in Jobs : WriteRows(j) \/ AddWork(j) \/ StallJob(j)
  \/ \E p \in Programs, j \in Jobs : TakeWork(p, j) \/ FinishWork(p, j)
  \/ Fail \/ Recover

\* Redis and the database come back, a process goes on and is restarted, and
\* a queue hands its jobs out.
LifeFairness ==
  /\ WF_lifeVars(Recover)
  /\ \A p \in Programs : WF_lifeVars(LifeStep(p))
  /\ \A j \in Jobs :
       /\ WF_lifeVars(AddWork(j))
       /\ WF_lifeVars(StallJob(j))
       /\ WF_lifeVars(\E p \in Programs : TakeWork(p, j) \/ FinishWork(p, j))

LifeSpec == LifeInit /\ [][LifeNext]_lifeVars /\ LifeFairness

-----------------------------------------------------------------------------
(***************************************************************************)
(* Properties                                                              *)
(***************************************************************************)
LifeTypeOK ==
  /\ env \in Environments
  /\ dbUp \in BOOLEAN /\ redisUp \in BOOLEAN
  /\ outages \in 0..MaxOutages
  /\ \A p \in Programs :
       step[p] \in {StepsOf[p][i] : i \in 1..Len(StepsOf[p])}
                    \union {"close", "drain", "exited"}
  /\ link \in [Programs -> {"wait", "ready", "lost", "ended"}]
  /\ redials \in [Programs -> 0..(MaxRetries + 1)]
  /\ told \in [Programs -> BOOLEAN]
  /\ signals \in 0..MaxSignals
  /\ request \in [Jobs -> {"none", "wrote", "answered", "failed", "cut"}]
  /\ work \in [Jobs -> {"none", "queued", "active", "done"}]
  /\ holder \in [Jobs -> Programs \union {NoProgram}]

\* Whoever serves requests has the settings that validateENV asks for.  A
\* request between its rows and its job is one of a process that is there to
\* add it, through every start, crash and orderly stop; its client is answered
\* when the job is in the queues; and none is cut off but by a signal.
RequestsAreServed ==
  /\ \A p \in Programs :
       Listens(p) => AlwaysRequired \union KeysOf[p] \subseteq env
  /\ \A j \in Jobs :
       /\ request[j] = "wrote" => Listens(ServerOf[j])
       /\ request[j] = "answered" <=> work[j] # "none"
       /\ request[j] = "cut" => signals > 0

\* A process that runs on, told nothing, with a connection that has ended.
Deaf(p) == Running(p) /\ link[p] = "ended" /\ ~told[p]

\* A request that has written its rows gets its job done, through outages,
\* restarts and stops of the worker: unless its own process was stopped under
\* it, or a process has used up its retries and runs on without its queues.
JobsRunUnlessGivenUp ==
  \A j \in Jobs :
    request[j] = "wrote" ~>
      work[j] = "done" \/ request[j] = "cut" \/ \E p \in Programs : Deaf(p)
=============================================================================

----------------------------- MODULE Transfers -----------------------------
(***************************************************************************)
(* runTransfers and reconnectCoordinator of internal/transfer/mirror.go:   *)
(* the goroutines of one phase of a mirror share one RemoteClient, and     *)
(* when its connection dies one of them replaces it under the others.      *)
(*                                                                         *)
(* The client is its connection: up, dead (its fields are set, the server  *)
(* no longer answers) or closed (Close has set its fields to nil and       *)
(* Connect has not succeeded since).                                       *)
(***************************************************************************)
EXTENDS Integers, FiniteSets

CONSTANTS
    Workers,           \* goroutines that runTransfers starts
    NoWorker,          \* the lock is not being written
    NJobs,             \* number of jobs, handed out in the order 1, 2, ...
    Hopeless,          \* jobs the server refuses on any connection
    Once,              \* jobs it refuses when they were already done (rmdir)
    Kinds,             \* the kinds of client there are
    MaxDeaths,         \* bound: how often the connection dies
    MaxRefusals        \* bound: how often Connect fails

Jobs == 1..NJobs

ASSUME NoWorkerAssumption == NoWorker \notin Workers
ASSUME NJobsAssumption    == NJobs \in Nat
ASSUME JobsAssumption     == Hopeless \subseteq Jobs /\ Once \subseteq Jobs
ASSUME KindsAssumption    == Kinds \subseteq {"sftp", "ftp"}
ASSUME BoundsAssumption   == MaxDeaths \in Nat /\ MaxRefusals \in Nat

VARIABLES
    kind,      \* the client: with one of SFTP a request through the nil session
               \* that Close left panics, one of FTP returns errPoolClosed
    next,      \* jobs the loop of runTransfers has sent to the workers
    pc,        \* where each worker stands
    job,       \* the job it has, 0 between jobs
    seen,      \* the generation its first attempt observed
    failed,    \* err # nil of its last attempt
    retrying,  \* the attempt under way is the second one
    gen,       \* rc.gen
    readers,   \* workers that hold rc.rw for reading
    writer,    \* the worker that asked for rc.rw or holds it for writing
    conn,      \* "up", "dead", "closed"
    done,      \* jobs whose effect the server has
    result,    \* what onResult was told of each job
    crashed,   \* a panic ended the process
    deaths, refusals

workVars == <<next, pc, job, seen, failed, retrying>>
lockVars == <<gen, readers, writer>>
connVars == <<kind, conn, deaths, refusals>>
vars == <<workVars, lockVars, connVars, done, result, crashed>>

(* idle: waiting for a job.  attempt: about to take the read lock for fn.  *)
(* running: in fn, nothing done yet.  answered: the server has acted, its  *)
(* reply is on the way.  doubting: about to take the read lock in healthy. *)
(* probing: in IsAlive.  reconnect: about to take the write lock.          *)
(* waiting: has asked for it, the readers are finishing.  connecting: the  *)
(* old connection is closed, Connect under way.  report: about to call     *)
(* onResult.  returned: the channel was closed.                            *)
States == {"idle", "attempt", "running", "answered", "doubting", "probing",
           "reconnect", "waiting", "connecting", "report", "returned"}

Requests == {"running", "answered", "probing"}

Init ==
    /\ kind \in Kinds
    /\ next = 0 /\ gen = 0 /\ deaths = 0 /\ refusals = 0
    /\ pc = [w \in Workers |-> "idle"]
    /\ job = [w \in Workers |-> 0] /\ seen = [w \in Workers |-> 0]
    /\ failed = [w \in Workers |-> FALSE]
    /\ retrying = [w \in Workers |-> FALSE]
    /\ readers = {} /\ writer = NoWorker
    /\ conn = "up" /\ done = {} /\ crashed = FALSE
    /\ result = [j \in Jobs |-> "none"]

-----------------------------------------------------------------------------
Goto(w, s) == pc' = [pc EXCEPT ![w] = s]

\* A pending writer keeps new readers out, as in sync.RWMutex.
RLock(w)   == writer = NoWorker /\ readers' = readers \cup {w}
RUnlock(w) == readers' = readers \ {w}

\* for job := range jobsCh: a free worker takes the next job, or returns once
\* all of them were sent and the channel is closed.
Take(w) ==
    /\ pc[w] = "idle" /\ next < NJobs
    /\ next' = next + 1 /\ job' = [job EXCEPT ![w] = next + 1]
    /\ Goto(w, "attempt")
    /\ UNCHANGED <<seen, failed, retrying, lockVars, connVars, done, result, crashed>>

Return(w) ==
    /\ pc[w] = "idle" /\ next = NJobs
    /\ Goto(w, "returned")
    /\ UNCHANGED <<next, job, seen, failed, retrying, lockVars, connVars,
                   done, result, crashed>>

\* runGuarded takes the read lock and calls fn.
Attempt(w) ==
    /\ pc[w] = "attempt" /\ RLock(w)
    /\ Goto(w, "running")
    /\ UNCHANGED <<next, job, seen, failed, retrying, gen, writer, connVars,
                   done, result, crashed>>

\* fn returned: the read lock is given up and the generation read under it is
\* kept.  A first attempt that failed leads to healthy, anything else to the
\* report.
Finish(w, err) ==
    /\ RUnlock(w)
    /\ failed' = [failed EXCEPT ![w] = err]
    /\ seen' = IF retrying[w] THEN seen ELSE [seen EXCEPT ![w] = gen]
    /\ Goto(w, IF err /\ ~retrying[w] THEN "doubting" ELSE "report")
    /\ UNCHANGED <<next, job, retrying, gen, writer, connVars, result, crashed>>

Refuses(j) == j \in Hopeless \/ (j \in Once /\ j \in done)

Perform(w) ==
    /\ pc[w] = "running" /\ conn = "up" /\ ~Refuses(job[w])
    /\ done' = done \cup {job[w]}
    /\ Goto(w, "answered")
    /\ UNCHANGED <<next, job, seen, failed, retrying, lockVars, connVars,
                   result, crashed>>

Succeed(w) == pc[w] = "answered" /\ conn = "up" /\ Finish(w, FALSE)
              /\ UNCHANGED done

\* An error reply, or no reply: the deadline of the operation expires.
Fail(w) ==
    /\ \/ pc[w] = "running" /\ conn = "up" /\ Refuses(job[w])
       \/ pc[w] \in {"running", "answered"} /\ conn = "dead"
       \/ pc[w] = "running" /\ conn = "closed" /\ kind = "ftp"
    /\ Finish(w, TRUE)
    /\ UNCHANGED done

\* The nil *sftp.Client that Close left is dereferenced by the first request.
Panic(w) ==
    /\ pc[w] = "running" /\ conn = "closed" /\ kind = "sftp"
    /\ crashed' = TRUE
    /\ UNCHANGED <<workVars, lockVars, connVars, done, result>>

\* Mutant: healthy probes without the read lock.
DoubtUnlocked(w) ==
    /\ pc[w] = "doubting"
    /\ Goto(w, "probing")
    /\ UNCHANGED <<next, job, seen, failed, retrying, lockVars, connVars,
                   done, result, crashed>>

\* healthy: `rc.gen == observedGen && client.IsAlive()` under the read lock.
Doubt(w) ==
    /\ pc[w] = "doubting" /\ RLock(w)
    /\ Goto(w, "probing")
    /\ UNCHANGED <<next, job, seen, failed, retrying, gen, writer, connVars,
                   done, result, crashed>>

\* Mutant: healthy looks only at the connection there is now.
HealthyIfAlive(w) == pc[w] = "probing" /\ conn = "up"

Healthy(w) == gen = seen[w] /\ conn = "up"

Probe(w) ==
    /\ pc[w] = "probing" /\ RUnlock(w)
    /\ Goto(w, IF Healthy(w) THEN "report" ELSE "reconnect")
    /\ UNCHANGED <<next, job, seen, failed, retrying, gen, writer, connVars,
                   done, result, crashed>>

-----------------------------------------------------------------------------
\* rc.rw.Lock() announces the writer, then waits for the readers there are.
Lock(w) ==
    /\ pc[w] = "reconnect" /\ writer = NoWorker
    /\ writer' = w
    /\ Goto(w, "waiting")
    /\ UNCHANGED <<next, job, seen, failed, retrying, gen, readers, connVars,
                   done, result, crashed>>

Retry(w) == Goto(w, "attempt") /\ retrying' = [retrying EXCEPT ![w] = TRUE]

\* rc.gen has moved: another worker has reconnected, this one just retries.
Skip(w) ==
    /\ pc[w] = "waiting" /\ readers = {} /\ gen # seen[w]
    /\ writer' = NoWorker
    /\ Retry(w)
    /\ UNCHANGED <<next, job, seen, failed, gen, readers, connVars, done,
                   result, crashed>>

\* Mutant: reconnect does not compare the generations.
CloseAnyway(w) ==
    /\ pc[w] = "waiting" /\ readers = {}
    /\ conn' = "closed"
    /\ Goto(w, "connecting")
    /\ UNCHANGED <<next, job, seen, failed, retrying, lockVars, kind,
                   deaths, refusals, done, result, crashed>>

Close(w) ==
    /\ pc[w] = "waiting" /\ readers = {} /\ gen = seen[w]
    /\ conn' = "closed"
    /\ Goto(w, "connecting")
    /\ UNCHANGED <<next, job, seen, failed, retrying, lockVars, kind,
                   deaths, refusals, done, result, crashed>>

Connect(w) ==
    /\ pc[w] = "connecting"
    /\ conn' = "up" /\ gen' = gen + 1 /\ writer' = NoWorker
    /\ Retry(w)
    /\ UNCHANGED <<next, job, seen, failed, readers, kind, deaths, refusals,
                   done, result, crashed>>

\* Mutant: the early return of a failed Connect without the deferred Unlock.
RefusedKeepsLock(w) ==
    /\ pc[w] = "connecting" /\ refusals < MaxRefusals
    /\ refusals' = refusals + 1
    /\ Goto(w, "report")
    /\ UNCHANGED <<next, job, seen, failed, retrying, lockVars, kind, conn,
                   deaths, done, result, crashed>>

\* Connect fails: gen stays, the job is reported with the error it had.
Refused(w) ==
    /\ pc[w] = "connecting" /\ refusals < MaxRefusals
    /\ refusals' = refusals + 1 /\ writer' = NoWorker
    /\ Goto(w, "report")
    /\ UNCHANGED <<next, job, seen, failed, retrying, gen, readers, kind,
                   conn, deaths, done, result, crashed>>

\* onResult, under resultMu; the variables of the loop's body end with it.
Report(w) ==
    /\ pc[w] = "report"
    /\ result' = [result EXCEPT ![job[w]] = IF failed[w] THEN "error" ELSE "ok"]
    /\ job' = [job EXCEPT ![w] = 0] /\ seen' = [seen EXCEPT ![w] = 0]
    /\ failed' = [failed EXCEPT ![w] = FALSE]
    /\ retrying' = [retrying EXCEPT ![w] = FALSE]
    /\ Goto(w, "idle")
    /\ UNCHANGED <<next, lockVars, connVars, done, crashed>>

\* The network or the server ends the connection.
Dies ==
    /\ conn = "up" /\ deaths < MaxDeaths /\ ~crashed
    /\ conn' = "dead" /\ deaths' = deaths + 1
    /\ UNCHANGED <<workVars, lockVars, kind, refusals, done, result, crashed>>

Worker(w) ==
    /\ ~crashed
    /\ \/ Take(w) \/ Return(w) \/ Attempt(w) \/ Perform(w) \/ Succeed(w)
       \/ Fail(w) \/ Panic(w) \/ Doubt(w) \/ Probe(w) \/ Lock(w) \/ Skip(w)
       \/ Close(w) \/ Connect(w) \/ Refused(w) \/ Report(w)

\* wg.Wait returns when every worker has; a panic ends everything.
Ended ==
    /\ crashed \/ \A w \in Workers : pc[w] = "returned"
    /\ UNCHANGED vars

Next == (\E w \in Workers : Worker(w)) \/ Dies \/ Ended

Spec == Init /\ [][Next]_vars

\* A goroutine that can run does: requests end by their deadline and Connect
\* by its timeout.  Nothing obliges a connection to die or to be refused.
FairSpec == Spec /\ \A w \in Workers : WF_vars(Worker(w))

-----------------------------------------------------------------------------
TypeOK ==
    /\ kind \in Kinds
    /\ next \in 0..NJobs
    /\ pc \in [Workers -> States]
    /\ job \in [Workers -> 0..NJobs]
    /\ seen \in [Workers -> Nat]
    /\ failed \in [Workers -> BOOLEAN] /\ retrying \in [Workers -> BOOLEAN]
    /\ gen \in Nat /\ readers \subseteq Workers
    /\ writer \in Workers \cup {NoWorker}
    /\ conn \in {"up", "dead", "closed"}
    /\ done \subseteq Jobs
    /\ result \in [Jobs -> {"none", "ok", "error"}]
    /\ crashed \in BOOLEAN
    /\ deaths \in 0..MaxDeaths /\ refusals \in 0..MaxRefusals

\* mirror.go:656: "a reconnect must never run while any other worker still has
\* a request in flight on the same client, and no worker may start a new
\* request while a reconnect is in progress".
NoRequestDuringReconnect ==
    \A w, v \in Workers : pc[w] = "connecting" => pc[v] \notin Requests

\* Several workers fail when a connection dies: none of them closes the
\* connection that another has just opened.
LiveConnectionKept == [][conn = "up" => conn' # "closed"]_conn

\* A connection that dies once, and is replaced at the first try, costs no
\* job: an error is reported only for a job the server refuses.
OneDeathIsInvisible ==
    deaths <= 1 /\ refusals = 0 =>
        \A j \in Jobs : result[j] = "error" => j \in Hopeless \cup Once

\* A job reported as done has been done.
SuccessIsReal == \A j \in Jobs : result[j] = "ok" => j \in done

\* No job is lost and nobody waits for the lock forever.
EveryJobAnswered == <>(crashed \/ \A j \in Jobs : result[j] # "none")

\* client.go:66: Errors are the "fatal errors (transfer failures after retry)":
\* a job that fails is reported, the process goes on.
FailuresAreReported == ~crashed
=============================================================================

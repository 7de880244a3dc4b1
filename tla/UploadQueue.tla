---------------------------- MODULE UploadQueue ----------------------------
(***************************************************************************)
(* The upload queue of the daemon, internal/watcher/queue.go: a bounded    *)
(* channel of changed paths and a fixed set of workers that bring the      *)
(* remote side up to date, with retries, for one profile.                  *)
(*                                                                         *)
(* A path is a key: a file with a parent directory, or a directory.  The   *)
(* mutexes flightMu, dirsMu and profilesMu are implicit in the atomicity   *)
(* of the actions; between two of them, and around each request to the     *)
(* server, any other worker, the user or a reload of the configuration may *)
(* act.  The debounced watcher is external here: a change of a path leads  *)
(* to one Enqueue of it some time later.                                   *)
(***************************************************************************)
EXTENDS Integers, Sequences, FiniteSets

CONSTANTS
    Files, Dirs,   \* paths inside the context directory
    Parent,        \* the directory each file is in
    Ignored,       \* files that .syncignore or a partial name keeps out
    Workers,       \* the goroutines of Start
    NoKey,         \* a worker has no task
    Capacity,      \* capacity of the channel
    MaxRetries,    \* maxRetries
    MaxEdits,      \* bound: changes the user makes
    MaxMoves,      \* bound: times the context directory disappears or is back
    MaxReloads     \* bound: reloads of the configuration

Keys == Files \cup Dirs

ASSUME KeysAssumption == /\ Files \cap Dirs = {}
                         /\ NoKey \notin Keys
                         /\ Parent \in [Files -> Dirs]
                         /\ Ignored \subseteq Files
ASSUME NumbersAssumption == /\ Capacity \in Nat \ {0}
                            /\ MaxRetries \in Nat \ {0}
                            /\ MaxEdits \in Nat /\ MaxMoves \in Nat
                            /\ MaxReloads \in Nat

VARIABLES
    queue,      \* q.queue
    done,       \* q.done is closed
    inFlight,   \* q.inFlight
    pending,    \* the keys with a task in q.pending
    knownDirs,  \* q.knownDirs
    profile,    \* q.profiles[name]: is it there, does it sync deletions
    reloading,  \* UpdateProfiles has swapped the profiles, not yet forgotten the
                \* directories
    pc,         \* where each worker stands
    task,       \* the key each worker has in hand, or NoKey
    attempt,    \* attempt of each worker's retry loop
    mine,       \* the profile each worker read when it began
    missing,    \* what the worker's os.Stat of its path said
    snap,       \* what the worker's upload read of the file
    tree,       \* the user's files: a version, or Gone
    context,    \* the context directory is there
    timers,     \* paths with a change that was not enqueued yet
    remote,     \* the files on the server
    remoteDirs, \* the directories on the server
    lastOK,     \* the last processUpload of each key had nothing left to do
    removed,    \* history: files the user has deleted at some time
    fooled,     \* history: paths the context directory came back for between
                \* the two looks of a worker, and not uploaded since
    edits, moves, reloads

gateVars  == <<inFlight, pending>>
localVars == <<attempt, mine, missing, snap>>
userVars  == <<tree, context, timers, removed, fooled, edits, moves>>
confVars  == <<profile, reloading, reloads>>
sideVars  == <<remote, remoteDirs>>
vars == <<queue, done, gateVars, knownDirs, confVars, pc, task, localVars,
          userVars, sideVars, lastOK>>

Gone == -1      \* no such path
Torn == -2      \* parts of several versions
Versions == 0..MaxEdits
NoProfile == [present |-> FALSE, autoSyncDeletes |-> FALSE]
Profiles == {NoProfile} \cup [present : {TRUE}, autoSyncDeletes : BOOLEAN]
Below(d) == {f \in Files : Parent[f] = d}

\* What os.Stat sees of a path.
Visible(k) == IF context THEN tree[k] ELSE Gone

WorkerStates == {"select", "claim", "begin", "stat", "statContext", "acquire",
                 "remove", "ensure", "remember", "upload", "uploading",
                 "forgetDeleted", "forgetFailed", "backoff", "finish",
                 "returned"}
\* Between claim and finish.
Syncing == WorkerStates \ {"select", "claim", "returned"}

Init ==
    /\ queue = <<>> /\ done = FALSE
    /\ inFlight = {} /\ pending = {} /\ knownDirs = {}
    /\ profile = [present |-> TRUE, autoSyncDeletes |-> TRUE]
    /\ reloading = FALSE
    /\ pc = [w \in Workers |-> "select"]
    /\ task = [w \in Workers |-> NoKey]
    /\ attempt = [w \in Workers |-> 0]
    /\ mine = [w \in Workers |-> NoProfile]
    /\ missing = [w \in Workers |-> FALSE]
    /\ snap = [w \in Workers |-> Gone]
    /\ tree = [k \in Keys |-> 0] /\ context = TRUE
    /\ timers = {} /\ removed = {} /\ fooled = {}
    /\ remote = [f \in Files |-> IF f \in Ignored THEN Gone ELSE 0]
    /\ remoteDirs = Dirs
    /\ lastOK = [k \in Keys |-> TRUE]
    /\ edits = 0 /\ moves = 0 /\ reloads = 0

-----------------------------------------------------------------------------
(* The user, and what the watcher makes of it (external).                  *)

Write(f) ==
    /\ context /\ edits < MaxEdits
    /\ edits' = edits + 1
    /\ tree' = [tree EXCEPT ![f] = edits + 1, ![Parent[f]] = 0]
    /\ timers' = timers \cup {f}
    /\ UNCHANGED <<context, removed, fooled, moves>>

Delete(k) ==
    /\ context /\ edits < MaxEdits
    /\ tree[k] # Gone
    /\ edits' = edits + 1
    /\ LET gone == {k} \cup IF k \in Dirs THEN {f \in Below(k) : tree[f] # Gone} ELSE {}
       IN  /\ tree' = [j \in Keys |-> IF j \in gone THEN Gone ELSE tree[j]]
           /\ timers' = timers \cup gone
           /\ removed' = removed \cup gone
    /\ UNCHANGED <<context, fooled, moves>>

\* The project is moved away, or a drive unmounted, and it comes back: for some
\* worker, it may be, after the look at the path and before the one at it.
MoveContext ==
    /\ moves < MaxMoves
    /\ moves' = moves + 1
    /\ context' = ~context
    /\ fooled' = fooled \cup
          IF context THEN {}
                     ELSE {task[w] : w \in {v \in Workers : pc[v] = "statContext"}}
    /\ UNCHANGED <<tree, timers, removed, edits>>

User ==
    /\ \/ \E f \in Files : Write(f)
       \/ \E k \in Keys : Delete(k)
       \/ MoveContext
    /\ UNCHANGED <<queue, done, gateVars, knownDirs, confVars, pc, task,
                   localVars, sideVars, lastOK>>

-----------------------------------------------------------------------------
(* Enqueue, Stop and UpdateProfiles, called by other goroutines.           *)

\* The channel has room (it may win the select even when done is closed).
Enqueue(k) ==
    /\ k \in timers
    /\ Len(queue) < Capacity
    /\ queue' = Append(queue, k)
    /\ timers' = timers \ {k}
    /\ UNCHANGED <<done, gateVars, knownDirs, confVars, pc, task, localVars,
                   tree, context, removed, fooled, edits, moves, sideVars,
                   lastOK>>

\* done is closed: the task is dropped.
EnqueueDrops(k) ==
    /\ k \in timers
    /\ done
    /\ timers' = timers \ {k}
    /\ UNCHANGED <<queue, done, gateVars, knownDirs, confVars, pc, task,
                   localVars, tree, context, removed, fooled, edits, moves,
                   sideVars, lastOK>>

Stop ==
    /\ ~done
    /\ done' = TRUE
    /\ UNCHANGED <<queue, gateVars, knownDirs, confVars, pc, task, localVars,
                   userVars, sideVars, lastOK>>

\* The profiles are swapped, under profilesMu.
UpdateProfiles ==
    /\ ~reloading /\ reloads < MaxReloads
    /\ reloads' = reloads + 1 /\ reloading' = TRUE
    /\ profile' \in Profiles
    /\ UNCHANGED <<queue, done, gateVars, knownDirs, pc, task, localVars,
                   userVars, sideVars, lastOK>>

\* The remembered directories are forgotten, under dirsMu.
ForgetAll ==
    /\ reloading
    /\ reloading' = FALSE
    /\ knownDirs' = {}
    /\ UNCHANGED <<queue, done, gateVars, profile, reloads, pc, task, localVars,
                   userVars, sideVars, lastOK>>

-----------------------------------------------------------------------------
(* The loop of a worker.                                                   *)

Goto(w, s) == pc' = [pc EXCEPT ![w] = s]

Receive(w) ==
    /\ pc[w] = "select"
    /\ queue # <<>>
    /\ task' = [task EXCEPT ![w] = Head(queue)]
    /\ queue' = Tail(queue)
    /\ Goto(w, "claim")
    /\ UNCHANGED <<done, gateVars, knownDirs, confVars, localVars, userVars,
                   sideVars, lastOK>>

Return(w) ==
    /\ pc[w] = "select"
    /\ done
    /\ Goto(w, "returned")
    /\ UNCHANGED <<queue, done, gateVars, knownDirs, confVars, task, localVars,
                   userVars, sideVars, lastOK>>

\* Mutant: the task of a file in flight is dropped.
ParkDrops(w) ==
    /\ pc[w] = "claim"
    /\ task[w] \in inFlight
    /\ task' = [task EXCEPT ![w] = NoKey]
    /\ Goto(w, "select")
    /\ UNCHANGED <<queue, done, gateVars, knownDirs, confVars, localVars,
                   userVars, sideVars, lastOK>>

\* claim: another worker has the file, which gets this task as its next.
Park(w) ==
    /\ pc[w] = "claim"
    /\ task[w] \in inFlight
    /\ pending' = pending \cup {task[w]}
    /\ task' = [task EXCEPT ![w] = NoKey]
    /\ Goto(w, "select")
    /\ UNCHANGED <<queue, done, inFlight, knownDirs, confVars, localVars,
                   userVars, sideVars, lastOK>>

Claim(w) ==
    /\ pc[w] = "claim"
    /\ task[w] \notin inFlight
    /\ inFlight' = inFlight \cup {task[w]}
    /\ Goto(w, "begin")
    /\ UNCHANGED <<queue, done, pending, knownDirs, confVars, task, localVars,
                   userVars, sideVars, lastOK>>

\* Mutants of finish: the parked task is not deleted, or not returned, or the
\* file is not released.
FinishWith(w, released, unparked, again) ==
    /\ pc[w] = "finish"
    /\ inFlight' = inFlight \ released
    /\ pending' = pending \ unparked
    /\ IF again
         THEN Goto(w, "claim") /\ UNCHANGED task
         ELSE Goto(w, "select") /\ task' = [task EXCEPT ![w] = NoKey]
    /\ attempt' = [attempt EXCEPT ![w] = 0]
    /\ mine' = [mine EXCEPT ![w] = NoProfile]
    /\ missing' = [missing EXCEPT ![w] = FALSE]
    /\ snap' = [snap EXCEPT ![w] = Gone]
    /\ UNCHANGED <<queue, done, knownDirs, confVars, userVars, sideVars, lastOK>>
FinishDropsPending(w) == FinishWith(w, {task[w]}, {task[w]}, FALSE)
FinishKeepsClaim(w)   == FinishWith(w, {}, {task[w]}, task[w] \in pending)

\* finish: the file is released; a task parked for it is this worker's next.
\* The locals of processUpload are gone.
Finish(w) ==
    /\ pc[w] = "finish"
    /\ inFlight' = inFlight \ {task[w]}
    /\ pending' = pending \ {task[w]}
    /\ IF task[w] \in pending
         THEN Goto(w, "claim") /\ UNCHANGED task
         ELSE Goto(w, "select") /\ task' = [task EXCEPT ![w] = NoKey]
    /\ attempt' = [attempt EXCEPT ![w] = 0]
    /\ mine' = [mine EXCEPT ![w] = NoProfile]
    /\ missing' = [missing EXCEPT ![w] = FALSE]
    /\ snap' = [snap EXCEPT ![w] = Gone]
    /\ UNCHANGED <<queue, done, knownDirs, confVars, userVars, sideVars, lastOK>>

-----------------------------------------------------------------------------
(* processUpload.                                                          *)

\* processUpload returns; `well` if the path needed nothing or was synced.
Ends(w, well) ==
    /\ lastOK' = [lastOK EXCEPT ![task[w]] = well]
    /\ Goto(w, "finish")

\* An attempt failed: wait for the next one, or report with onError.
Failed(w) ==
    IF attempt[w] < MaxRetries - 1
      THEN Goto(w, "backoff") /\ UNCHANGED lastOK
      ELSE Ends(w, FALSE)

LoopVars == <<queue, done, gateVars, confVars, task, userVars>>

BeginUpload(w) ==
    /\ pc[w] = "begin"
    /\ mine' = [mine EXCEPT ![w] = profile]
    /\ \/ ~profile.present /\ Ends(w, FALSE)
       \/ profile.present /\ task[w] \in Ignored /\ Ends(w, FALSE)
       \/ /\ profile.present /\ task[w] \notin Ignored
          /\ Goto(w, "stat") /\ UNCHANGED lastOK
    /\ UNCHANGED <<LoopVars, knownDirs, attempt, missing, snap, sideVars>>

\* os.Stat of the path.
StatPath(w) ==
    /\ pc[w] = "stat"
    /\ LET gone == Visible(task[w]) = Gone
       IN  /\ missing' = [missing EXCEPT ![w] = gone]
           /\ \/ gone /\ ~mine[w].autoSyncDeletes /\ Ends(w, FALSE)
              \/ gone /\ mine[w].autoSyncDeletes /\ Goto(w, "statContext")
                      /\ UNCHANGED lastOK
              \/ ~gone /\ task[w] \in Dirs /\ Ends(w, TRUE)
              \/ ~gone /\ task[w] \in Files /\ Goto(w, "acquire")
                       /\ UNCHANGED lastOK
    /\ UNCHANGED <<LoopVars, knownDirs, attempt, mine, snap, sideVars>>

\* Mutant: no guard against a context directory that is away.
StatContextUnguarded(w) ==
    /\ pc[w] = "statContext"
    /\ Goto(w, "acquire")
    /\ UNCHANGED <<LoopVars, knownDirs, localVars, sideVars, lastOK>>

\* os.Stat of the context directory, for a path that is missing.
StatContext(w) ==
    /\ pc[w] = "statContext"
    /\ \/ context /\ Goto(w, "acquire") /\ UNCHANGED lastOK
       \/ ~context /\ Ends(w, FALSE)
    /\ UNCHANGED <<LoopVars, knownDirs, localVars, sideVars>>

AcquireClient(w) ==
    /\ pc[w] = "acquire"
    /\ \/ Goto(w, IF missing[w] THEN "remove" ELSE "ensure") /\ UNCHANGED lastOK
       \/ Failed(w)
    /\ UNCHANGED <<LoopVars, knownDirs, localVars, sideVars>>

\* The server removes a file, or a directory that is empty.
Removes(k) ==
    /\ IF k \in Dirs THEN k \in remoteDirs /\ \A f \in Below(k) : remote[f] = Gone
                     ELSE remote[k] # Gone
    /\ remote' = IF k \in Files THEN [remote EXCEPT ![k] = Gone] ELSE remote
    /\ remoteDirs' = remoteDirs \ {k}

\* deleteRemote, and release.  A request that fails may have been carried out
\* all the same, when only the reply is lost.
RemoveRemote(w) ==
    /\ pc[w] = "remove"
    /\ LET k == task[w]
           there == IF k \in Dirs THEN k \in remoteDirs ELSE remote[k] # Gone
       IN  \/ ~there /\ Ends(w, TRUE) /\ UNCHANGED sideVars
           \/ Removes(k) /\ Goto(w, "forgetDeleted") /\ UNCHANGED lastOK
           \/ /\ k \in Dirs /\ there /\ attempt[w] = MaxRetries - 1
              /\ Ends(w, FALSE) /\ (Removes(k) \/ UNCHANGED sideVars)
           \/ Failed(w) /\ (Removes(k) \/ UNCHANGED sideVars)
    /\ UNCHANGED <<LoopVars, knownDirs, localVars>>

\* dirKnown, or MkdirAll.
EnsureDir(w) ==
    /\ pc[w] = "ensure"
    /\ LET d == Parent[task[w]]
       IN  \/ /\ d \in knownDirs
              /\ Goto(w, "remember") /\ UNCHANGED <<remoteDirs, lastOK>>
           \/ /\ d \notin knownDirs
              /\ remoteDirs' = remoteDirs \cup {d}
              /\ Goto(w, "remember") /\ UNCHANGED lastOK
           \/ /\ d \notin knownDirs /\ Failed(w)
              /\ remoteDirs' \in {remoteDirs, remoteDirs \cup {d}}
    /\ UNCHANGED <<LoopVars, knownDirs, localVars, remote>>

RememberDir(w) ==
    /\ pc[w] = "remember"
    /\ knownDirs' = knownDirs \cup {Parent[task[w]]}
    /\ Goto(w, "upload")
    /\ UNCHANGED <<LoopVars, localVars, sideVars, lastOK>>

\* Upload or UploadResume opens the file.
UploadOpens(w) ==
    /\ pc[w] = "upload"
    /\ snap' = [snap EXCEPT ![w] = Visible(task[w])]
    /\ Goto(w, "uploading")
    /\ UNCHANGED <<LoopVars, knownDirs, attempt, mine, missing, sideVars,
                   lastOK>>

\* The remote file is replaced.  A file that changed meanwhile may have been
\* read in part before and in part after.
Replaces(w) ==
    /\ snap[w] # Gone
    /\ Parent[task[w]] \in remoteDirs
    /\ \E content \in {snap[w]} \cup IF tree[task[w]] = snap[w] THEN {} ELSE {Torn} :
           remote' = [remote EXCEPT ![task[w]] = content]

\* The upload has succeeded, and the lease is released.
UploadSucceeds(w) ==
    /\ pc[w] = "uploading"
    /\ Replaces(w)
    /\ Ends(w, TRUE)
    /\ fooled' = fooled \ {task[w]}
    /\ UNCHANGED <<queue, done, gateVars, confVars, task, tree, context, timers,
                   removed, edits, moves, knownDirs, localVars, remoteDirs>>

\* It has failed, for want of the file, of the directory or of the network; of
\* the last, it may have been the reply that was lost.
UploadFails(w) ==
    /\ pc[w] = "uploading"
    /\ Replaces(w) \/ UNCHANGED remote
    /\ Goto(w, "forgetFailed")
    /\ UNCHANGED <<LoopVars, knownDirs, localVars, remoteDirs, lastOK>>

\* forgetDirs after a deletion, and onSuccess.
ForgetDeleted(w) ==
    /\ pc[w] = "forgetDeleted"
    /\ knownDirs' = {}
    /\ Ends(w, TRUE)
    /\ UNCHANGED <<LoopVars, localVars, sideVars>>

\* forgetDirs after a failed upload.
ForgetFailed(w) ==
    /\ pc[w] = "forgetFailed"
    /\ knownDirs' = {}
    /\ Failed(w)
    /\ UNCHANGED <<LoopVars, localVars, sideVars>>

\* Mutant: the attempts are not counted.
BackoffUncounted(w) ==
    /\ pc[w] = "backoff"
    /\ Goto(w, "stat")
    /\ UNCHANGED <<LoopVars, knownDirs, localVars, sideVars, lastOK>>

\* The delay is over, or Stop cuts it short.
Backoff(w) ==
    /\ pc[w] = "backoff"
    /\ \/ /\ attempt' = [attempt EXCEPT ![w] = @ + 1]
          /\ Goto(w, "stat") /\ UNCHANGED lastOK
       \/ done /\ Ends(w, FALSE) /\ UNCHANGED attempt
    /\ UNCHANGED <<LoopVars, knownDirs, mine, missing, snap, sideVars>>

ProcessUpload(w) ==
    \/ BeginUpload(w) \/ StatPath(w) \/ StatContext(w) \/ AcquireClient(w)
    \/ RemoveRemote(w) \/ EnsureDir(w) \/ RememberDir(w) \/ UploadOpens(w)
    \/ UploadSucceeds(w) \/ UploadFails(w) \/ ForgetDeleted(w)
    \/ ForgetFailed(w) \/ Backoff(w)

Worker(w) == \/ Receive(w) \/ Return(w) \/ Park(w) \/ Claim(w) \/ Finish(w)
             \/ ProcessUpload(w)

-----------------------------------------------------------------------------
Stopped == \A w \in Workers : pc[w] = "returned"

Terminated == Stopped /\ UNCHANGED vars

Next ==
    \/ User
    \/ \E k \in Keys : Enqueue(k) \/ EnqueueDrops(k)
    \/ Stop \/ UpdateProfiles \/ ForgetAll
    \/ \E w \in Workers : Worker(w)
    \/ Terminated

Spec == Init /\ [][Next]_vars

(* Every goroutine that can run does: timers fire, requests have deadlines,*)
(* and a worker leaves the select when it can.  Of the two branches of an  *)
(* Enqueue or a select no one is favoured.                                 *)
Fairness ==
    /\ \A k \in Keys : WF_vars(Enqueue(k) \/ EnqueueDrops(k))
    /\ \A w \in Workers : WF_vars(Worker(w))
    /\ WF_vars(ForgetAll)

FairSpec == Spec /\ Fairness

-----------------------------------------------------------------------------
(* Properties.                                                             *)

\* The values each variable can take.
TypeOK ==
    /\ queue \in Seq(Keys) /\ Len(queue) <= Capacity
    /\ done \in BOOLEAN /\ context \in BOOLEAN
    /\ inFlight \subseteq Keys /\ pending \subseteq Keys
    /\ knownDirs \subseteq Dirs /\ remoteDirs \subseteq Dirs
    /\ profile \in Profiles /\ reloading \in BOOLEAN
    /\ pc \in [Workers -> WorkerStates]
    /\ task \in [Workers -> Keys \cup {NoKey}]
    /\ attempt \in [Workers -> 0..(MaxRetries - 1)]
    /\ mine \in [Workers -> Profiles]
    /\ missing \in [Workers -> BOOLEAN]
    /\ snap \in [Workers -> Versions \cup {Gone}]
    /\ lastOK \in [Keys -> BOOLEAN]
    /\ tree \in [Keys -> Versions \cup {Gone}]
    /\ remote \in [Files -> Versions \cup {Gone, Torn}]
    /\ timers \subseteq Keys /\ removed \subseteq Keys /\ fooled \subseteq Keys
    /\ edits \in Nat /\ moves \in Nat /\ reloads \in Nat

\* "A given file is never synced by two workers at once", and the mark in
\* inFlight is exactly that some worker is between claim and finish.
OneSyncPerFile ==
    /\ \A v, w \in Workers :
           pc[v] \in Syncing /\ pc[w] \in Syncing /\ task[v] = task[w] => v = w
    /\ inFlight = {task[w] : w \in {v \in Workers : pc[v] \in Syncing}}

\* A parked task has a worker that will find it in finish: it is not orphaned
\* by the steps between the finish of one worker and the claim of another.
ParkedHasOwner == pending \subseteq inFlight

\* Nothing is on its way any more.
Settled ==
    /\ timers = {} /\ queue = <<>>
    /\ \A w \in Workers : pc[w] \in {"select", "returned"}

\* When all is quiet, a file whose last sync ended well is on the server as it
\* is on disk: no interleaving of edits, deletions, syncs of the same file and
\* removals of its directory leaves an old or torn version behind.  Except that
\* it is missing when the guard below was defeated, until its next upload.
SettledIsSynced ==
    Settled /\ ~done =>
        \A f \in Files \ Ignored :
            lastOK[f] => \/ remote[f] = tree[f]
                         \/ remote[f] = Gone /\ f \in fooled

\* The guard against mass deletion, queue.go:229-235: a file the user never
\* deleted is deleted on the server only when the context directory came back
\* between the two os.Stat calls of one attempt, the one of the path, which it
\* fails, and the one of the directory.  However often the directory goes and
\* comes back otherwise, and whatever is retried or reloaded meanwhile.
OnlyDeletedFilesAreRemoved ==
    \A f \in Files \ Ignored : f \notin removed \cup fooled => remote[f] # Gone

\* What the comment there says, without exception: that the files of a context
\* directory that is away look deleted is "never something to mirror".
NeverMirrored ==
    \A f \in Files \ Ignored : f \notin removed => remote[f] # Gone

\* What each key looks like from outside.
Dirty(k) == \/ k \in pending
            \/ \E i \in 1..Len(queue) : queue[i] = k
            \/ \E w \in Workers : pc[w] = "claim" /\ task[w] = k
Gate == INSTANCE SyncGate WITH
            dirty <- [k \in Keys |-> Dirty(k)],
            busy <- [k \in Keys |-> k \in inFlight],
            halted <- done

\* The queue implements the abstract gate: an enqueued change is always
\* followed by a sync that starts later, one at a time, although tasks are
\* merged, parked and handed from one worker to another.
ImplementsGate == Gate!Spec

\* ... and unless Stop is called every enqueued change is taken up.
ChangesAnswered == Gate!Answered

\* After Stop every worker returns, so Stop returns: none is stuck in a retry
\* or waits for a task.
StopReturns == done ~> Stopped
=============================================================================

------------------------- MODULE UploadQueueProofs -------------------------
(***************************************************************************)
(* The upload queue for any set of paths, any number of workers, any       *)
(* capacity and any number of retries: one sync per file (IInv), the       *)
(* implementation of the abstract gate, the guard against mass deletion    *)
(* (Deliberate), and what is on the server when all is quiet (Mirrored).   *)
(*                                                                         *)
(* The last two rest on what a step of processUpload can do (Effect), and  *)
(* except the paths that the context directory came back for in the middle *)
(* of a decision (fooled).                                                 *)
(***************************************************************************)
EXTENDS UploadQueue, SequenceTheorems, TLAPS

\* A worker that is not in the select has a task.
HasTask == \A w \in Workers : pc[w] \notin {"select", "returned"} => task[w] \in Keys

\* A directory is never opened for upload, and attempts remain in a backoff.
LocalsFit ==
    /\ \A w \in Workers :
           pc[w] \in {"ensure", "remember", "upload", "uploading", "forgetFailed"} =>
               task[w] \in Files
    /\ \A w \in Workers :
           /\ pc[w] = "acquire" => task[w] \in Files \/ missing[w]
           /\ pc[w] = "statContext" => missing[w]
    /\ \A w \in Workers : pc[w] = "backoff" => attempt[w] < MaxRetries - 1

\* The inductive invariant: exclusivity needs that inFlight is exactly what the
\* workers between claim and finish have in hand.
IInv == /\ TypeOK
        /\ HasTask
        /\ LocalsFit
        /\ OneSyncPerFile
        /\ ParkedHasOwner

-----------------------------------------------------------------------------
(* processUpload, as the rest of the queue sees it.                        *)

\* Where processUpload goes.
LEMMA EndsGoes ==
    ASSUME NEW w \in Workers, NEW well \in BOOLEAN, TypeOK, HasTask,
           pc[w] \in Syncing, Ends(w, well)
    PROVE  /\ pc' = [pc EXCEPT ![w] = "finish"]
           /\ lastOK' \in [Keys -> BOOLEAN]
BY DEF Ends, Goto, TypeOK, HasTask, Syncing, WorkerStates

\* Where a failed attempt goes.
LEMMA FailedGoes ==
    ASSUME NEW w \in Workers, TypeOK, HasTask, pc[w] \in Syncing, Failed(w)
    PROVE  /\ \/ pc' = [pc EXCEPT ![w] = "finish"]
              \/ pc' = [pc EXCEPT ![w] = "backoff"] /\ attempt[w] < MaxRetries - 1
           /\ lastOK' \in [Keys -> BOOLEAN]
<1>1. CASE attempt[w] < MaxRetries - 1
  BY <1>1 DEF Failed, Goto, TypeOK
<1>2. CASE ~(attempt[w] < MaxRetries - 1)
  BY <1>2, EndsGoes DEF Failed
<1> QED
  BY <1>1, <1>2

\* One worker in processUpload stays between claim and finish, and touches
\* neither the channel nor the marks of the files.
Stays(w) ==
    /\ pc[w] \in Syncing \ {"finish"}
    /\ \E s \in Syncing \ {"begin"} : pc' = [pc EXCEPT ![w] = s]
    /\ UNCHANGED <<queue, done, inFlight, pending, task>>

-----------------------------------------------------------------------------
\* Nothing is in flight, and every worker is in the select.
LEMMA InitIInv == Init => IInv
<1> SUFFICES ASSUME Init PROVE IInv
  OBVIOUS
<1> USE KeysAssumption, NumbersAssumption
<1>1. /\ queue = <<>> /\ inFlight = {} /\ pending = {}
      /\ \A w \in Workers : pc[w] = "select"
  BY DEF Init
<1>2. TypeOK
  <2>1. queue \in Seq(Keys) /\ Len(queue) <= Capacity
    BY <1>1
  <2>2. /\ pc \in [Workers -> WorkerStates] /\ task \in [Workers -> Keys \cup {NoKey}]
        /\ attempt \in [Workers -> 0..(MaxRetries - 1)] /\ mine \in [Workers -> Profiles]
        /\ missing \in [Workers -> BOOLEAN] /\ snap \in [Workers -> Versions \cup {Gone}]
    BY DEF Init, WorkerStates, Profiles
  <2>3. /\ lastOK \in [Keys -> BOOLEAN] /\ tree \in [Keys -> Versions \cup {Gone}]
        /\ remote \in [Files -> Versions \cup {Gone, Torn}]
    BY DEF Init, Versions
  <2>4. profile \in Profiles
    BY DEF Init, Profiles
  <2>5. /\ done \in BOOLEAN /\ context \in BOOLEAN
        /\ inFlight \subseteq Keys /\ pending \subseteq Keys
        /\ knownDirs \subseteq Dirs /\ remoteDirs \subseteq Dirs
        /\ timers \subseteq Keys /\ removed \subseteq Keys /\ fooled \subseteq Keys
        /\ reloading \in BOOLEAN
        /\ edits \in Nat /\ moves \in Nat /\ reloads \in Nat
    BY DEF Init
  <2> QED
    BY <2>1, <2>2, <2>3, <2>4, <2>5 DEF TypeOK
<1>3. HasTask /\ LocalsFit /\ OneSyncPerFile /\ ParkedHasOwner
  BY <1>1 DEF HasTask, LocalsFit, OneSyncPerFile, ParkedHasOwner, Syncing
<1> QED
  BY <1>2, <1>3 DEF IInv

\* processUpload begins.
LEMMA BeginUploadKeeps ==
    ASSUME IInv, NEW w \in Workers, BeginUpload(w)
    PROVE  Stays(w) /\ TypeOK' /\ LocalsFit'
<1> USE KeysAssumption, NumbersAssumption
<1>0. TypeOK /\ HasTask /\ LocalsFit /\ pc[w] = "begin" /\ pc[w] \in Syncing
      /\ task[w] \in Keys
  BY DEF IInv, HasTask, Syncing, WorkerStates, BeginUpload
<1>4. /\ lastOK' \in [Keys -> BOOLEAN]
      /\ \/ pc' = [pc EXCEPT ![w] = "finish"]
         \/ pc' = [pc EXCEPT ![w] = "stat"]
  BY <1>0, EndsGoes DEF BeginUpload, Goto, TypeOK
<1>1. Stays(w)
  BY <1>0, <1>4 DEF Stays, Syncing, WorkerStates, BeginUpload, LoopVars, gateVars
<1>5. pc' \in [Workers -> WorkerStates] /\ \A v \in Workers \ {w} : pc'[v] = pc[v]
  BY <1>0, <1>4 DEF TypeOK, WorkerStates
<1>6. mine' \in [Workers -> Profiles]
  BY <1>0 DEF BeginUpload, TypeOK
<1>2. TypeOK'
  BY <1>0, <1>4, <1>5, <1>6 DEF TypeOK, BeginUpload, LoopVars, gateVars, confVars, userVars, localVars, sideVars
<1>3. LocalsFit'
  BY <1>0, <1>4, <1>5, <1>6 DEF LocalsFit, TypeOK, BeginUpload, LoopVars, gateVars, confVars, userVars, localVars, sideVars
<1> QED
  BY <1>1, <1>2, <1>3

\* The path is looked at.
LEMMA StatPathKeeps ==
    ASSUME IInv, NEW w \in Workers, StatPath(w)
    PROVE  Stays(w) /\ TypeOK' /\ LocalsFit'
<1> USE KeysAssumption, NumbersAssumption
<1>0. TypeOK /\ HasTask /\ LocalsFit /\ pc[w] = "stat" /\ pc[w] \in Syncing
      /\ task[w] \in Keys
  BY DEF IInv, HasTask, Syncing, WorkerStates, StatPath
<1>4. /\ lastOK' \in [Keys -> BOOLEAN]
      /\ missing' \in [Workers -> BOOLEAN]
      /\ \A v \in Workers \ {w} : missing'[v] = missing[v]
      /\ \/ pc' = [pc EXCEPT ![w] = "finish"]
         \/ pc' = [pc EXCEPT ![w] = "statContext"] /\ missing'[w]
         \/ pc' = [pc EXCEPT ![w] = "acquire"] /\ task[w] \in Files
  BY <1>0, EndsGoes DEF StatPath, Goto, TypeOK
<1>1. Stays(w)
  BY <1>0, <1>4 DEF Stays, Syncing, WorkerStates, StatPath, LoopVars, gateVars
<1>5. pc' \in [Workers -> WorkerStates] /\ \A v \in Workers \ {w} : pc'[v] = pc[v]
  BY <1>0, <1>4 DEF TypeOK, WorkerStates
<1>6. UNCHANGED <<task, attempt>>
  BY DEF StatPath, LoopVars
<1>2. TypeOK'
  BY <1>0, <1>4, <1>5, <1>6 DEF TypeOK, StatPath, LoopVars, gateVars, confVars, userVars, localVars, sideVars
<1>3. LocalsFit'
  BY <1>0, <1>4, <1>5, <1>6 DEF LocalsFit, TypeOK, StatPath, LoopVars, gateVars, confVars, userVars, localVars, sideVars
<1> QED
  BY <1>1, <1>2, <1>3

\* The context directory is looked at.
LEMMA StatContextKeeps ==
    ASSUME IInv, NEW w \in Workers, StatContext(w)
    PROVE  Stays(w) /\ TypeOK' /\ LocalsFit'
<1> USE KeysAssumption, NumbersAssumption
<1>0. TypeOK /\ HasTask /\ LocalsFit /\ pc[w] = "statContext" /\ pc[w] \in Syncing
      /\ task[w] \in Keys
  BY DEF IInv, HasTask, Syncing, WorkerStates, StatContext
<1>4. /\ lastOK' \in [Keys -> BOOLEAN]
      /\ \/ pc' = [pc EXCEPT ![w] = "finish"]
         \/ pc' = [pc EXCEPT ![w] = "acquire"] /\ missing[w]
  BY <1>0, EndsGoes DEF StatContext, Goto, TypeOK, LocalsFit
<1>1. Stays(w)
  BY <1>0, <1>4 DEF Stays, Syncing, WorkerStates, StatContext, LoopVars, gateVars
<1>5. pc' \in [Workers -> WorkerStates] /\ \A v \in Workers \ {w} : pc'[v] = pc[v]
  BY <1>0, <1>4 DEF TypeOK, WorkerStates
<1>6. UNCHANGED <<task, attempt, missing>>
  BY DEF StatContext, LoopVars, localVars
<1>2. TypeOK'
  BY <1>0, <1>4, <1>5, <1>6 DEF TypeOK, StatContext, LoopVars, gateVars, confVars, userVars, localVars, sideVars
<1>3. LocalsFit'
  BY <1>0, <1>4, <1>5, <1>6 DEF LocalsFit, TypeOK, StatContext, LoopVars, gateVars, confVars, userVars, localVars, sideVars
<1> QED
  BY <1>1, <1>2, <1>3

\* A client is leased, or not.
LEMMA AcquireClientKeeps ==
    ASSUME IInv, NEW w \in Workers, AcquireClient(w)
    PROVE  Stays(w) /\ TypeOK' /\ LocalsFit'
<1> USE KeysAssumption, NumbersAssumption
<1>0. TypeOK /\ HasTask /\ LocalsFit /\ pc[w] = "acquire" /\ pc[w] \in Syncing
      /\ task[w] \in Keys
  BY DEF IInv, HasTask, Syncing, WorkerStates, AcquireClient
<1>4. /\ lastOK' \in [Keys -> BOOLEAN]
      /\ \/ pc' = [pc EXCEPT ![w] = "finish"]
         \/ pc' = [pc EXCEPT ![w] = "backoff"] /\ attempt[w] < MaxRetries - 1
         \/ pc' = [pc EXCEPT ![w] = "remove"]
         \/ pc' = [pc EXCEPT ![w] = "ensure"] /\ task[w] \in Files
  BY <1>0, FailedGoes DEF AcquireClient, Goto, TypeOK, LocalsFit
<1>1. Stays(w)
  BY <1>0, <1>4 DEF Stays, Syncing, WorkerStates, AcquireClient, LoopVars, gateVars
<1>5. pc' \in [Workers -> WorkerStates] /\ \A v \in Workers \ {w} : pc'[v] = pc[v]
  BY <1>0, <1>4 DEF TypeOK, WorkerStates
<1>6. UNCHANGED <<task, attempt, missing>>
  BY DEF AcquireClient, LoopVars, localVars
<1>2. TypeOK'
  BY <1>0, <1>4, <1>5, <1>6 DEF TypeOK, AcquireClient, LoopVars, gateVars, confVars, userVars, localVars, sideVars
<1>3. LocalsFit'
  BY <1>0, <1>4, <1>5, <1>6 DEF LocalsFit, TypeOK, AcquireClient, LoopVars, gateVars, confVars, userVars, localVars, sideVars
<1> QED
  BY <1>1, <1>2, <1>3

\* The remote path is deleted, or not.
LEMMA RemoveRemoteKeeps ==
    ASSUME IInv, NEW w \in Workers, RemoveRemote(w)
    PROVE  Stays(w) /\ TypeOK' /\ LocalsFit'
<1> USE KeysAssumption, NumbersAssumption
<1>0. TypeOK /\ HasTask /\ LocalsFit /\ pc[w] = "remove" /\ pc[w] \in Syncing
      /\ task[w] \in Keys
  BY DEF IInv, HasTask, Syncing, WorkerStates, RemoveRemote
<1>4. /\ lastOK' \in [Keys -> BOOLEAN]
      /\ \/ pc' = [pc EXCEPT ![w] = "finish"]
         \/ pc' = [pc EXCEPT ![w] = "backoff"] /\ attempt[w] < MaxRetries - 1
         \/ pc' = [pc EXCEPT ![w] = "forgetDeleted"]
  BY <1>0, FailedGoes, EndsGoes DEF RemoveRemote, Goto, TypeOK
<1>1. Stays(w)
  BY <1>0, <1>4 DEF Stays, Syncing, WorkerStates, RemoveRemote, LoopVars, gateVars
<1>5. pc' \in [Workers -> WorkerStates] /\ \A v \in Workers \ {w} : pc'[v] = pc[v]
  BY <1>0, <1>4 DEF TypeOK, WorkerStates
<1>7. /\ \/ task[w] \in Files /\ remote' = [remote EXCEPT ![task[w]] = Gone]
         \/ remote' = remote
      /\ remoteDirs' \subseteq remoteDirs
  BY DEF RemoveRemote, Removes, sideVars
<1>8. remote \in [Files -> Versions \cup {Gone, Torn}] /\ remoteDirs \subseteq Dirs
  BY <1>0 DEF TypeOK
<1>9. remote' \in [Files -> Versions \cup {Gone, Torn}] /\ remoteDirs' \subseteq Dirs
  BY <1>7, <1>8
<1>6. /\ UNCHANGED <<task, attempt, missing>>
      /\ remote' \in [Files -> Versions \cup {Gone, Torn}] /\ remoteDirs' \subseteq Dirs
  BY <1>9 DEF RemoveRemote, LoopVars, localVars
<1>2. TypeOK'
  BY <1>0, <1>4, <1>5, <1>6 DEF TypeOK, RemoveRemote, LoopVars, gateVars, confVars, userVars, localVars, sideVars
<1>3. LocalsFit'
  BY <1>0, <1>4, <1>5, <1>6 DEF LocalsFit, TypeOK, RemoveRemote, LoopVars, gateVars, confVars, userVars, localVars, sideVars
<1> QED
  BY <1>1, <1>2, <1>3

\* The remote directory is known or made, or not.
LEMMA EnsureDirKeeps ==
    ASSUME IInv, NEW w \in Workers, EnsureDir(w)
    PROVE  Stays(w) /\ TypeOK' /\ LocalsFit'
<1> USE KeysAssumption, NumbersAssumption
<1>0. TypeOK /\ HasTask /\ LocalsFit /\ pc[w] = "ensure" /\ pc[w] \in Syncing
      /\ task[w] \in Keys
  BY DEF IInv, HasTask, Syncing, WorkerStates, EnsureDir
<1>4. /\ lastOK' \in [Keys -> BOOLEAN]
      /\ \/ pc' = [pc EXCEPT ![w] = "finish"]
         \/ pc' = [pc EXCEPT ![w] = "backoff"] /\ attempt[w] < MaxRetries - 1
         \/ pc' = [pc EXCEPT ![w] = "remember"]
  BY <1>0, FailedGoes DEF EnsureDir, Goto, TypeOK
<1>1. Stays(w)
  BY <1>0, <1>4 DEF Stays, Syncing, WorkerStates, EnsureDir, LoopVars, gateVars
<1>5. pc' \in [Workers -> WorkerStates] /\ \A v \in Workers \ {w} : pc'[v] = pc[v]
  BY <1>0, <1>4 DEF TypeOK, WorkerStates
<1>7. task[w] \in Files
  BY <1>0 DEF LocalsFit
<1>6. /\ UNCHANGED <<task, attempt, missing>> /\ remoteDirs' \subseteq Dirs /\ task[w] \in Files
  BY <1>0, <1>7 DEF EnsureDir, LoopVars, localVars, sideVars, TypeOK
<1>2. TypeOK'
  BY <1>0, <1>4, <1>5, <1>6 DEF TypeOK, EnsureDir, LoopVars, gateVars, confVars, userVars, localVars, sideVars
<1>3. LocalsFit'
  BY <1>0, <1>4, <1>5, <1>6 DEF LocalsFit, TypeOK, EnsureDir, LoopVars, gateVars, confVars, userVars, localVars, sideVars
<1> QED
  BY <1>1, <1>2, <1>3

\* The directory is remembered.
LEMMA RememberDirKeeps ==
    ASSUME IInv, NEW w \in Workers, RememberDir(w)
    PROVE  Stays(w) /\ TypeOK' /\ LocalsFit'
<1> USE KeysAssumption, NumbersAssumption
<1>0. TypeOK /\ HasTask /\ LocalsFit /\ pc[w] = "remember" /\ pc[w] \in Syncing
      /\ task[w] \in Keys
  BY DEF IInv, HasTask, Syncing, WorkerStates, RememberDir
<1>4. pc' = [pc EXCEPT ![w] = "upload"]
  BY DEF RememberDir, Goto
<1>1. Stays(w)
  BY <1>0, <1>4 DEF Stays, Syncing, WorkerStates, RememberDir, LoopVars, gateVars
<1>5. pc' \in [Workers -> WorkerStates] /\ \A v \in Workers \ {w} : pc'[v] = pc[v]
  BY <1>0, <1>4 DEF TypeOK, WorkerStates
<1>7. task[w] \in Files
  BY <1>0 DEF LocalsFit
<1>6. /\ UNCHANGED <<task, attempt, missing>> /\ knownDirs' \subseteq Dirs /\ task[w] \in Files
  BY <1>0, <1>7 DEF RememberDir, LoopVars, localVars, TypeOK
<1>2. TypeOK'
  BY <1>0, <1>4, <1>5, <1>6 DEF TypeOK, RememberDir, LoopVars, gateVars, confVars, userVars, localVars, sideVars
<1>3. LocalsFit'
  BY <1>0, <1>4, <1>5, <1>6 DEF LocalsFit, TypeOK, RememberDir, LoopVars, gateVars, confVars, userVars, localVars, sideVars
<1> QED
  BY <1>1, <1>2, <1>3

\* The upload opens the file.
LEMMA UploadOpensKeeps ==
    ASSUME IInv, NEW w \in Workers, UploadOpens(w)
    PROVE  Stays(w) /\ TypeOK' /\ LocalsFit'
<1> USE KeysAssumption, NumbersAssumption
<1>0. TypeOK /\ HasTask /\ LocalsFit /\ pc[w] = "upload" /\ pc[w] \in Syncing
      /\ task[w] \in Keys
  BY DEF IInv, HasTask, Syncing, WorkerStates, UploadOpens
<1>4. pc' = [pc EXCEPT ![w] = "uploading"]
  BY DEF UploadOpens, Goto
<1>1. Stays(w)
  BY <1>0, <1>4 DEF Stays, Syncing, WorkerStates, UploadOpens, LoopVars, gateVars
<1>5. pc' \in [Workers -> WorkerStates] /\ \A v \in Workers \ {w} : pc'[v] = pc[v]
  BY <1>0, <1>4 DEF TypeOK, WorkerStates
<1>7. task[w] \in Files
  BY <1>0 DEF LocalsFit
<1>6. /\ UNCHANGED <<task, attempt, missing>> /\ task[w] \in Files
      /\ snap' \in [Workers -> Versions \cup {Gone}]
  BY <1>0, <1>7 DEF UploadOpens, LoopVars, Visible, TypeOK
<1>2. TypeOK'
  BY <1>0, <1>4, <1>5, <1>6 DEF TypeOK, UploadOpens, LoopVars, gateVars, confVars, userVars, localVars, sideVars
<1>3. LocalsFit'
  BY <1>0, <1>4, <1>5, <1>6 DEF LocalsFit, TypeOK, UploadOpens, LoopVars, gateVars, confVars, userVars, localVars, sideVars
<1> QED
  BY <1>1, <1>2, <1>3

\* The upload replaces the remote file.
LEMMA UploadSucceedsKeeps ==
    ASSUME IInv, NEW w \in Workers, UploadSucceeds(w)
    PROVE  Stays(w) /\ TypeOK' /\ LocalsFit'
<1> USE KeysAssumption, NumbersAssumption
<1>0. TypeOK /\ HasTask /\ LocalsFit /\ pc[w] = "uploading" /\ pc[w] \in Syncing
      /\ task[w] \in Keys
  BY DEF IInv, HasTask, Syncing, WorkerStates, UploadSucceeds
<1>4. /\ lastOK' \in [Keys -> BOOLEAN]
      /\ pc' = [pc EXCEPT ![w] = "finish"]
  BY <1>0, EndsGoes DEF UploadSucceeds
<1>1. Stays(w)
  BY <1>0, <1>4 DEF Stays, Syncing, WorkerStates, UploadSucceeds, LoopVars, gateVars
<1>5. pc' \in [Workers -> WorkerStates] /\ \A v \in Workers \ {w} : pc'[v] = pc[v]
  BY <1>0, <1>4 DEF TypeOK, WorkerStates
<1>7. /\ remote \in [Files -> Versions \cup {Gone, Torn}]
      /\ snap[w] \in Versions \cup {Gone}
  BY <1>0 DEF TypeOK
<1>8. PICK content \in {snap[w], Torn} : remote' = [remote EXCEPT ![task[w]] = content]
  BY DEF UploadSucceeds, Replaces
<1>6. /\ UNCHANGED <<task, attempt, missing>>
      /\ remote' \in [Files -> Versions \cup {Gone, Torn}]
  BY <1>7, <1>8 DEF UploadSucceeds, LoopVars, localVars
<1>2. TypeOK'
  BY <1>0, <1>4, <1>5, <1>6 DEF TypeOK, UploadSucceeds, LoopVars, gateVars, confVars, userVars, localVars, sideVars
<1>3. LocalsFit'
  BY <1>0, <1>4, <1>5, <1>6 DEF LocalsFit, TypeOK, UploadSucceeds, LoopVars, gateVars, confVars, userVars, localVars, sideVars
<1> QED
  BY <1>1, <1>2, <1>3

\* The upload fails.
LEMMA UploadFailsKeeps ==
    ASSUME IInv, NEW w \in Workers, UploadFails(w)
    PROVE  Stays(w) /\ TypeOK' /\ LocalsFit'
<1> USE KeysAssumption, NumbersAssumption
<1>0. TypeOK /\ HasTask /\ LocalsFit /\ pc[w] = "uploading" /\ pc[w] \in Syncing
      /\ task[w] \in Keys
  BY DEF IInv, HasTask, Syncing, WorkerStates, UploadFails
<1>4. pc' = [pc EXCEPT ![w] = "forgetFailed"]
  BY DEF UploadFails, Goto
<1>1. Stays(w)
  BY <1>0, <1>4 DEF Stays, Syncing, WorkerStates, UploadFails, LoopVars, gateVars
<1>5. pc' \in [Workers -> WorkerStates] /\ \A v \in Workers \ {w} : pc'[v] = pc[v]
  BY <1>0, <1>4 DEF TypeOK, WorkerStates
<1>7. task[w] \in Files
  BY <1>0 DEF LocalsFit
<1>8. /\ remote \in [Files -> Versions \cup {Gone, Torn}]
      /\ snap[w] \in Versions \cup {Gone}
  BY <1>0 DEF TypeOK
<1>9. \/ \E content \in {snap[w], Torn} : remote' = [remote EXCEPT ![task[w]] = content]
      \/ remote' = remote
  BY DEF UploadFails, Replaces
<1>6. /\ UNCHANGED <<task, attempt, missing>> /\ task[w] \in Files
      /\ remote' \in [Files -> Versions \cup {Gone, Torn}]
  BY <1>7, <1>8, <1>9 DEF UploadFails, LoopVars, localVars
<1>2. TypeOK'
  BY <1>0, <1>4, <1>5, <1>6 DEF TypeOK, UploadFails, LoopVars, gateVars, confVars, userVars, localVars, sideVars
<1>3. LocalsFit'
  BY <1>0, <1>4, <1>5, <1>6 DEF LocalsFit, TypeOK, UploadFails, LoopVars, gateVars, confVars, userVars, localVars, sideVars
<1> QED
  BY <1>1, <1>2, <1>3

\* Directories are forgotten after a deletion.
LEMMA ForgetDeletedKeeps ==
    ASSUME IInv, NEW w \in Workers, ForgetDeleted(w)
    PROVE  Stays(w) /\ TypeOK' /\ LocalsFit'
<1> USE KeysAssumption, NumbersAssumption
<1>0. TypeOK /\ HasTask /\ LocalsFit /\ pc[w] = "forgetDeleted" /\ pc[w] \in Syncing
      /\ task[w] \in Keys
  BY DEF IInv, HasTask, Syncing, WorkerStates, ForgetDeleted
<1>4. /\ lastOK' \in [Keys -> BOOLEAN]
      /\ pc' = [pc EXCEPT ![w] = "finish"]
  BY <1>0, EndsGoes DEF ForgetDeleted
<1>1. Stays(w)
  BY <1>0, <1>4 DEF Stays, Syncing, WorkerStates, ForgetDeleted, LoopVars, gateVars
<1>5. pc' \in [Workers -> WorkerStates] /\ \A v \in Workers \ {w} : pc'[v] = pc[v]
  BY <1>0, <1>4 DEF TypeOK, WorkerStates
<1>6. UNCHANGED <<task, attempt, missing>>
  BY DEF ForgetDeleted, LoopVars, localVars
<1>2. TypeOK'
  BY <1>0, <1>4, <1>5, <1>6 DEF TypeOK, ForgetDeleted, LoopVars, gateVars, confVars, userVars, localVars, sideVars
<1>3. LocalsFit'
  BY <1>0, <1>4, <1>5, <1>6 DEF LocalsFit, TypeOK, ForgetDeleted, LoopVars, gateVars, confVars, userVars, localVars, sideVars
<1> QED
  BY <1>1, <1>2, <1>3

\* Directories are forgotten after a failure.
LEMMA ForgetFailedKeeps ==
    ASSUME IInv, NEW w \in Workers, ForgetFailed(w)
    PROVE  Stays(w) /\ TypeOK' /\ LocalsFit'
<1> USE KeysAssumption, NumbersAssumption
<1>0. TypeOK /\ HasTask /\ LocalsFit /\ pc[w] = "forgetFailed" /\ pc[w] \in Syncing
      /\ task[w] \in Keys
  BY DEF IInv, HasTask, Syncing, WorkerStates, ForgetFailed
<1>4. /\ lastOK' \in [Keys -> BOOLEAN]
      /\ \/ pc' = [pc EXCEPT ![w] = "finish"]
         \/ pc' = [pc EXCEPT ![w] = "backoff"] /\ attempt[w] < MaxRetries - 1
  BY <1>0, FailedGoes DEF ForgetFailed
<1>1. Stays(w)
  BY <1>0, <1>4 DEF Stays, Syncing, WorkerStates, ForgetFailed, LoopVars, gateVars
<1>5. pc' \in [Workers -> WorkerStates] /\ \A v \in Workers \ {w} : pc'[v] = pc[v]
  BY <1>0, <1>4 DEF TypeOK, WorkerStates
<1>6. UNCHANGED <<task, attempt, missing>>
  BY DEF ForgetFailed, LoopVars, localVars
<1>2. TypeOK'
  BY <1>0, <1>4, <1>5, <1>6 DEF TypeOK, ForgetFailed, LoopVars, gateVars, confVars, userVars, localVars, sideVars
<1>3. LocalsFit'
  BY <1>0, <1>4, <1>5, <1>6 DEF LocalsFit, TypeOK, ForgetFailed, LoopVars, gateVars, confVars, userVars, localVars, sideVars
<1> QED
  BY <1>1, <1>2, <1>3

\* The delay of a failed attempt ends.
LEMMA BackoffKeeps ==
    ASSUME IInv, NEW w \in Workers, Backoff(w)
    PROVE  Stays(w) /\ TypeOK' /\ LocalsFit'
<1> USE KeysAssumption, NumbersAssumption
<1>0. TypeOK /\ HasTask /\ LocalsFit /\ pc[w] = "backoff" /\ pc[w] \in Syncing
      /\ task[w] \in Keys
  BY DEF IInv, HasTask, Syncing, WorkerStates, Backoff
<1>4. /\ lastOK' \in [Keys -> BOOLEAN]
      /\ \/ pc' = [pc EXCEPT ![w] = "finish"]
         \/ pc' = [pc EXCEPT ![w] = "stat"]
  BY <1>0, EndsGoes DEF Backoff, Goto, TypeOK
<1>1. Stays(w)
  BY <1>0, <1>4 DEF Stays, Syncing, WorkerStates, Backoff, LoopVars, gateVars
<1>5. pc' \in [Workers -> WorkerStates] /\ \A v \in Workers \ {w} : pc'[v] = pc[v]
  BY <1>0, <1>4 DEF TypeOK, WorkerStates
<1>7. attempt[w] < MaxRetries - 1 /\ attempt \in [Workers -> 0..(MaxRetries - 1)]
  BY <1>0 DEF LocalsFit, TypeOK
<1>8. attempt[w] + 1 \in 0..(MaxRetries - 1)
  BY <1>7
<1>9. attempt' = [attempt EXCEPT ![w] = attempt[w] + 1] \/ attempt' = attempt
  BY DEF Backoff
<1>6. /\ UNCHANGED <<task, missing>>
      /\ attempt' \in [Workers -> 0..(MaxRetries - 1)]
      /\ \A v \in Workers \ {w} : attempt'[v] = attempt[v]
  BY <1>7, <1>8, <1>9 DEF Backoff, LoopVars
<1>2. TypeOK'
  BY <1>0, <1>4, <1>5, <1>6 DEF TypeOK, Backoff, LoopVars, gateVars, confVars, userVars, localVars, sideVars
<1>3. LocalsFit'
  <2>1. pc'[w] \in {"finish", "stat"}
    BY <1>0, <1>4 DEF TypeOK
  <2> QED
    BY <1>0, <1>5, <1>6, <2>1 DEF LocalsFit
<1> QED
  BY <1>1, <1>2, <1>3

\* A step of processUpload keeps the whole invariant.
LEMMA ProcessKeeps ==
    ASSUME IInv, NEW w \in Workers, ProcessUpload(w)
    PROVE  IInv' /\ Stays(w)
<1>1. Stays(w) /\ TypeOK' /\ LocalsFit'
  BY BeginUploadKeeps, StatPathKeeps, StatContextKeeps, AcquireClientKeeps,
     RemoveRemoteKeeps, EnsureDirKeeps, RememberDirKeeps, UploadOpensKeeps,
     UploadSucceedsKeeps, UploadFailsKeeps, ForgetDeletedKeeps, ForgetFailedKeeps,
     BackoffKeeps DEF ProcessUpload
<1>2. PICK s \in Syncing \ {"begin"} : pc' = [pc EXCEPT ![w] = s]
  BY <1>1 DEF Stays
<1>3. /\ pc[w] \in Syncing /\ pc'[w] \in Syncing
      /\ \A v \in Workers \ {w} : pc'[v] = pc[v]
      /\ UNCHANGED <<inFlight, pending, task>>
  BY <1>1, <1>2 DEF IInv, TypeOK, Stays
<1>4. \A v \in Workers : pc'[v] \in Syncing <=> pc[v] \in Syncing
  BY <1>3
<1>5. HasTask'
  BY <1>3 DEF IInv, HasTask, Syncing
<1>6. OneSyncPerFile' /\ ParkedHasOwner'
  BY <1>3, <1>4 DEF IInv, OneSyncPerFile, ParkedHasOwner
<1> QED
  BY <1>1, <1>5, <1>6 DEF IInv

-----------------------------------------------------------------------------
(* The loop of a worker.                                                   *)

\* The rest of the invariant does not see a worker outside claim and finish.
LEMMA OutsideKeeps ==
    ASSUME IInv, NEW w \in Workers,
           pc[w] \notin Syncing, pc'[w] \in {"select", "claim", "returned"},
           pc'[w] = "claim" => task'[w] \in Keys,
           \A v \in Workers \ {w} : pc'[v] = pc[v] /\ task'[v] = task[v],
           UNCHANGED <<inFlight, localVars>>, pending' \subseteq inFlight
    PROVE  HasTask' /\ LocalsFit' /\ OneSyncPerFile' /\ ParkedHasOwner'
<1>1. pc'[w] \notin Syncing
  BY DEF Syncing
<1>2. HasTask'
  BY DEF IInv, HasTask
<1>3. LocalsFit'
  BY DEF IInv, LocalsFit, localVars
<1>4. {v \in Workers : pc'[v] \in Syncing} = {v \in Workers : pc[v] \in Syncing}
  BY <1>1
<1>5. \A v \in Workers : pc[v] \in Syncing => task'[v] = task[v]
  OBVIOUS
<1>6. OneSyncPerFile'
  BY <1>4, <1>5 DEF IInv, OneSyncPerFile
<1>7. ParkedHasOwner'
  BY DEF ParkedHasOwner
<1> QED
  BY <1>2, <1>3, <1>6, <1>7

\* A worker takes a task from the channel.
LEMMA ReceiveKeeps ==
    ASSUME IInv, NEW w \in Workers, Receive(w)
    PROVE  IInv'
<1> USE KeysAssumption, NumbersAssumption
<1>0. /\ TypeOK /\ ParkedHasOwner /\ pc[w] = "select" /\ queue # <<>>
      /\ task' = [task EXCEPT ![w] = Head(queue)] /\ queue' = Tail(queue)
      /\ pc' = [pc EXCEPT ![w] = "claim"]
      /\ UNCHANGED <<inFlight, pending, localVars>>
  BY DEF IInv, Receive, Goto, gateVars
<1>1. queue \in Seq(Keys) /\ Len(queue) <= Capacity
  BY <1>0 DEF TypeOK
<1>2. Head(queue) \in Keys /\ queue' \in Seq(Keys) /\ Len(queue') <= Capacity
  BY <1>0, <1>1
<1>3. /\ pc' \in [Workers -> WorkerStates] /\ task' \in [Workers -> Keys \cup {NoKey}]
      /\ pc'[w] = "claim" /\ task'[w] \in Keys
      /\ \A v \in Workers \ {w} : pc'[v] = pc[v] /\ task'[v] = task[v]
  BY <1>0, <1>2 DEF TypeOK, WorkerStates
<1>4. TypeOK'
  BY <1>0, <1>2, <1>3 DEF TypeOK, Receive, gateVars, confVars, userVars,
     localVars, sideVars
<1>5. pc[w] \notin Syncing /\ pending' \subseteq inFlight
  BY <1>0 DEF Syncing, ParkedHasOwner
<1> QED
  BY <1>0, <1>3, <1>4, <1>5, OutsideKeeps DEF IInv

\* A worker returns.
LEMMA ReturnKeeps ==
    ASSUME IInv, NEW w \in Workers, Return(w)
    PROVE  IInv'
<1>0. /\ TypeOK /\ ParkedHasOwner /\ pc[w] = "select"
      /\ pc' = [pc EXCEPT ![w] = "returned"]
      /\ UNCHANGED <<inFlight, pending, task, localVars>>
  BY DEF IInv, Return, Goto, gateVars
<1>3. /\ pc' \in [Workers -> WorkerStates] /\ pc'[w] = "returned"
      /\ \A v \in Workers \ {w} : pc'[v] = pc[v] /\ task'[v] = task[v]
  BY <1>0 DEF TypeOK, WorkerStates
<1>4. TypeOK'
  BY <1>0, <1>3 DEF TypeOK, Return, gateVars, confVars, userVars, localVars, sideVars
<1>5. pc[w] \notin Syncing /\ pending' \subseteq inFlight
  BY <1>0 DEF Syncing, ParkedHasOwner
<1> QED
  BY <1>0, <1>3, <1>4, <1>5, OutsideKeeps DEF IInv

\* A task is parked with the worker that has its file.
LEMMA ParkKeeps ==
    ASSUME IInv, NEW w \in Workers, Park(w)
    PROVE  IInv'
<1>0. /\ TypeOK /\ ParkedHasOwner /\ pc[w] = "claim" /\ task[w] \in inFlight
      /\ pc' = [pc EXCEPT ![w] = "select"] /\ task' = [task EXCEPT ![w] = NoKey]
      /\ pending' = pending \cup {task[w]}
      /\ UNCHANGED <<inFlight, localVars>>
  BY DEF IInv, Park, Goto
<1>3. /\ pc' \in [Workers -> WorkerStates] /\ pc'[w] = "select"
      /\ task' \in [Workers -> Keys \cup {NoKey}]
      /\ \A v \in Workers \ {w} : pc'[v] = pc[v] /\ task'[v] = task[v]
  BY <1>0 DEF TypeOK, WorkerStates
<1>6. pending' \subseteq inFlight /\ pending' \subseteq Keys
  BY <1>0 DEF ParkedHasOwner, TypeOK
<1>4. TypeOK'
  BY <1>0, <1>3, <1>6 DEF TypeOK, Park, confVars, userVars, localVars, sideVars
<1>5. pc[w] \notin Syncing
  BY <1>0 DEF Syncing
<1> QED
  BY <1>0, <1>3, <1>4, <1>5, <1>6, OutsideKeeps DEF IInv

\* A worker claims a file nobody has: it is the only one between claim and
\* finish with that file, because inFlight lists all the others.
LEMMA ClaimKeeps ==
    ASSUME IInv, NEW w \in Workers, Claim(w)
    PROVE  IInv'
<1>0. /\ TypeOK /\ ParkedHasOwner /\ pc[w] = "claim" /\ task[w] \notin inFlight
      /\ pc' = [pc EXCEPT ![w] = "begin"]
      /\ inFlight' = inFlight \cup {task[w]}
      /\ UNCHANGED <<pending, task, localVars>>
  BY DEF IInv, Claim, Goto
<1>1. task[w] \in Keys
  BY <1>0 DEF IInv, HasTask
<1>2. /\ pc' \in [Workers -> WorkerStates] /\ pc'[w] = "begin"
      /\ \A v \in Workers \ {w} : pc'[v] = pc[v]
  BY <1>0 DEF TypeOK, WorkerStates
<1>3. TypeOK'
  BY <1>0, <1>1, <1>2 DEF TypeOK, Claim, confVars, userVars, localVars, sideVars
<1>4. HasTask'
  BY <1>0, <1>1, <1>2 DEF IInv, HasTask
<1>5. LocalsFit'
  BY <1>0, <1>2 DEF IInv, LocalsFit, localVars
<1>6. pc[w] \notin Syncing /\ pc'[w] \in Syncing
  BY <1>0, <1>2 DEF Syncing, WorkerStates
<1>7. \A v \in Workers \ {w} : pc[v] \in Syncing => task[v] \in inFlight
  BY DEF IInv, OneSyncPerFile
<1>8. {v \in Workers : pc'[v] \in Syncing} = {v \in Workers : pc[v] \in Syncing} \cup {w}
  BY <1>2, <1>6
<1>9. inFlight = {task[v] : v \in {u \in Workers : pc[u] \in Syncing}}
  BY DEF IInv, OneSyncPerFile
<1>10. inFlight' = {task'[v] : v \in {u \in Workers : pc'[u] \in Syncing}}
  BY <1>0, <1>8, <1>9
<1>11. \A u, v \in Workers :
           pc'[u] \in Syncing /\ pc'[v] \in Syncing /\ task'[u] = task'[v] => u = v
  BY <1>0, <1>2, <1>7 DEF IInv, OneSyncPerFile
<1>12. ParkedHasOwner'
  BY <1>0 DEF ParkedHasOwner
<1> QED
  BY <1>3, <1>4, <1>5, <1>10, <1>11, <1>12 DEF IInv, OneSyncPerFile

\* A worker releases its file: no other worker has it.
LEMMA FinishKeeps ==
    ASSUME IInv, NEW w \in Workers, Finish(w)
    PROVE  IInv'
<1> USE KeysAssumption, NumbersAssumption
<1>0. /\ TypeOK /\ ParkedHasOwner /\ pc[w] = "finish" /\ task[w] \in Keys
      /\ inFlight' = inFlight \ {task[w]} /\ pending' = pending \ {task[w]}
  BY DEF IInv, HasTask, Finish
<1>1. \/ pc' = [pc EXCEPT ![w] = "claim"] /\ task' = task
      \/ pc' = [pc EXCEPT ![w] = "select"] /\ task' = [task EXCEPT ![w] = NoKey]
  BY DEF Finish, Goto
<1>2. /\ pc' \in [Workers -> WorkerStates] /\ task' \in [Workers -> Keys \cup {NoKey}]
      /\ pc'[w] \in {"claim", "select"}
      /\ pc'[w] = "claim" => task'[w] \in Keys
      /\ \A v \in Workers \ {w} : pc'[v] = pc[v] /\ task'[v] = task[v]
  BY <1>0, <1>1 DEF TypeOK, WorkerStates
<1>3. /\ attempt' \in [Workers -> 0..(MaxRetries - 1)]
      /\ mine' \in [Workers -> Profiles]
      /\ missing' \in [Workers -> BOOLEAN] /\ snap' \in [Workers -> Versions \cup {Gone}]
      /\ \A v \in Workers \ {w} : attempt'[v] = attempt[v] /\ missing'[v] = missing[v]
  <2>1. /\ attempt' = [attempt EXCEPT ![w] = 0] /\ mine' = [mine EXCEPT ![w] = NoProfile]
        /\ missing' = [missing EXCEPT ![w] = FALSE] /\ snap' = [snap EXCEPT ![w] = Gone]
    BY DEF Finish
  <2>2. /\ attempt \in [Workers -> 0..(MaxRetries - 1)] /\ mine \in [Workers -> Profiles]
        /\ missing \in [Workers -> BOOLEAN] /\ snap \in [Workers -> Versions \cup {Gone}]
    BY <1>0 DEF TypeOK
  <2>3. 0 \in 0..(MaxRetries - 1) /\ NoProfile \in Profiles
    BY DEF Profiles
  <2>4. /\ attempt' \in [Workers -> 0..(MaxRetries - 1)]
        /\ \A v \in Workers \ {w} : attempt'[v] = attempt[v]
    BY <2>1, <2>2, <2>3
  <2>5. mine' \in [Workers -> Profiles]
    BY <2>1, <2>2, <2>3
  <2>6. /\ missing' \in [Workers -> BOOLEAN] /\ snap' \in [Workers -> Versions \cup {Gone}]
        /\ \A v \in Workers \ {w} : missing'[v] = missing[v]
    BY <2>1, <2>2
  <2> QED
    BY <2>4, <2>5, <2>6
<1>4. TypeOK'
  BY <1>0, <1>2, <1>3 DEF TypeOK, Finish, confVars, userVars, sideVars
<1>5. HasTask'
  BY <1>2 DEF IInv, HasTask
<1>6. LocalsFit'
  BY <1>2, <1>3 DEF IInv, LocalsFit
<1>7. pc[w] \in Syncing /\ pc'[w] \notin Syncing
  BY <1>0, <1>2 DEF Syncing, WorkerStates
<1>8. \A v \in Workers \ {w} : pc[v] \in Syncing => task[v] # task[w]
  BY <1>7 DEF IInv, OneSyncPerFile
<1>9. {v \in Workers : pc'[v] \in Syncing} = {v \in Workers : pc[v] \in Syncing} \ {w}
  BY <1>2, <1>7
<1>10. inFlight = {task[v] : v \in {u \in Workers : pc[u] \in Syncing}}
  BY DEF IInv, OneSyncPerFile
<1>11. inFlight' = {task'[v] : v \in {u \in Workers : pc'[u] \in Syncing}}
  BY <1>0, <1>2, <1>8, <1>9, <1>10
<1>12. \A u, v \in Workers :
           pc'[u] \in Syncing /\ pc'[v] \in Syncing /\ task'[u] = task'[v] => u = v
  BY <1>2, <1>7 DEF IInv, OneSyncPerFile
<1>13. ParkedHasOwner'
  BY <1>0 DEF ParkedHasOwner
<1> QED
  BY <1>4, <1>5, <1>6, <1>11, <1>12, <1>13 DEF IInv, OneSyncPerFile

-----------------------------------------------------------------------------
(* Everybody else.                                                         *)

\* What the others leave alone.
LEMMA OthersKeep ==
    ASSUME IInv, UNCHANGED <<gateVars, pc, task, localVars>>
    PROVE  HasTask' /\ LocalsFit' /\ OneSyncPerFile' /\ ParkedHasOwner'
<1>1. HasTask' /\ LocalsFit'
  BY DEF IInv, HasTask, LocalsFit, localVars
<1>2. OneSyncPerFile' /\ ParkedHasOwner'
  BY DEF IInv, OneSyncPerFile, ParkedHasOwner, gateVars
<1> QED
  BY <1>1, <1>2

\* The user changes files.
LEMMA UserKeeps ==
    ASSUME IInv, User
    PROVE  IInv'
<1> USE KeysAssumption, NumbersAssumption
<1>1. /\ edits \in Nat /\ moves \in Nat /\ tree \in [Keys -> Versions \cup {Gone}]
      /\ timers \subseteq Keys /\ removed \subseteq Keys /\ fooled \subseteq Keys
      /\ context \in BOOLEAN
  BY DEF IInv, TypeOK
<1>2. /\ edits' \in Nat /\ moves' \in Nat /\ tree' \in [Keys -> Versions \cup {Gone}]
      /\ timers' \subseteq Keys /\ removed' \subseteq Keys /\ fooled' \subseteq Keys
      /\ context' \in BOOLEAN
  <2>1. CASE \E f \in Files : Write(f)
    <3>1. PICK f \in Files : Write(f)
      BY <2>1
    <3>2. edits + 1 \in Versions /\ 0 \in Versions
      BY <1>1, <3>1 DEF Write, Versions
    <3>3. tree' = [tree EXCEPT ![f] = edits + 1, ![Parent[f]] = 0]
      BY <3>1 DEF Write
    <3>4. tree' \in [Keys -> Versions \cup {Gone}]
      BY <1>1, <3>2, <3>3
    <3> QED
      BY <1>1, <3>1, <3>4 DEF Write, Keys
  <2>2. CASE \E k \in Keys : Delete(k)
    <3>1. PICK k \in Keys : Delete(k)
      BY <2>2
    <3>2. PICK gone \in SUBSET Keys :
             /\ tree' = [j \in Keys |-> IF j \in gone THEN Gone ELSE tree[j]]
             /\ timers' = timers \cup gone /\ removed' = removed \cup gone
      BY <3>1 DEF Delete, Below, Keys
    <3> QED
      BY <1>1, <3>1, <3>2 DEF Delete
  <2>3. CASE MoveContext
    <3>1. {task[w] : w \in {v \in Workers : pc[v] = "statContext"}} \subseteq Keys
      BY DEF IInv, HasTask
    <3> QED
      BY <1>1, <2>3, <3>1 DEF MoveContext
  <2> QED
    BY <2>1, <2>2, <2>3 DEF User
<1>3. UNCHANGED <<queue, done, gateVars, knownDirs, confVars, pc, task, localVars,
                  sideVars, lastOK>>
  BY DEF User
<1>4. TypeOK'
  BY <1>2, <1>3 DEF IInv, TypeOK, gateVars, confVars, localVars, sideVars
<1> QED
  BY <1>3, <1>4, OthersKeep DEF IInv

\* A change reaches the channel.
LEMMA EnqueueKeeps ==
    ASSUME IInv, NEW k \in Keys, Enqueue(k)
    PROVE  IInv'
<1> USE NumbersAssumption
<1>1. queue \in Seq(Keys) /\ Len(queue) < Capacity /\ timers \subseteq Keys
  BY DEF IInv, TypeOK, Enqueue
<1>2. queue' = Append(queue, k) /\ timers' = timers \ {k}
  BY DEF Enqueue
<1>3. queue' \in Seq(Keys) /\ Len(queue') <= Capacity /\ timers' \subseteq Keys
  <2>1. queue' \in Seq(Keys) /\ Len(queue') = Len(queue) + 1
    BY <1>1, <1>2
  <2>2. Len(queue) \in Nat
    BY <1>1
  <2> QED
    BY <1>1, <1>2, <2>1, <2>2
<1>4. TypeOK'
  BY <1>3 DEF IInv, TypeOK, Enqueue, gateVars, confVars, localVars, sideVars
<1> QED
  BY <1>4, OthersKeep DEF IInv, Enqueue

\* The other calls, and a step in which nothing happens.
LEMMA CallsKeep ==
    ASSUME IInv,
           \/ \E k \in Keys : EnqueueDrops(k)
           \/ Stop \/ UpdateProfiles \/ ForgetAll \/ UNCHANGED vars
    PROVE  IInv'
<1>1. CASE \E k \in Keys : EnqueueDrops(k)
  <2>1. TypeOK'
    BY <1>1 DEF IInv, TypeOK, EnqueueDrops, gateVars, confVars, localVars, sideVars
  <2> QED
    BY <1>1, <2>1, OthersKeep DEF IInv, EnqueueDrops
<1>2. CASE Stop
  <2>1. TypeOK'
    BY <1>2 DEF IInv, TypeOK, Stop, gateVars, confVars, localVars, sideVars, userVars
  <2> QED
    BY <1>2, <2>1, OthersKeep DEF IInv, Stop
<1>3. CASE UpdateProfiles
  <2>1. TypeOK'
    BY <1>3, NumbersAssumption DEF IInv, TypeOK, UpdateProfiles, gateVars, localVars,
       sideVars, userVars
  <2> QED
    BY <1>3, <2>1, OthersKeep DEF IInv, UpdateProfiles
<1>4. CASE UNCHANGED vars
  <2>1. TypeOK'
    BY <1>4 DEF IInv, TypeOK, vars, gateVars, confVars, localVars, sideVars, userVars
  <2> QED
    BY <1>4, <2>1, OthersKeep DEF IInv, vars
<1>5. CASE ForgetAll
  <2>1. TypeOK'
    BY <1>5 DEF IInv, TypeOK, ForgetAll, gateVars, localVars, sideVars, userVars
  <2> QED
    BY <1>5, <2>1, OthersKeep DEF IInv, ForgetAll
<1> QED
  BY <1>1, <1>2, <1>3, <1>4, <1>5

-----------------------------------------------------------------------------
(* The theorems.                                                           *)

\* The inductive invariant is one.
THEOREM Invariance == Spec => []IInv
<1>1. ASSUME IInv, [Next]_vars PROVE IInv'
  <2>1. CASE User
    BY <1>1, <2>1, UserKeeps
  <2>2. CASE \E k \in Keys : Enqueue(k) \/ EnqueueDrops(k)
    BY <1>1, <2>2, EnqueueKeeps, CallsKeep
  <2>3. CASE Stop \/ UpdateProfiles \/ ForgetAll \/ UNCHANGED vars
    BY <1>1, <2>3, CallsKeep
  <2>4. CASE \E w \in Workers : Worker(w)
    BY <1>1, <2>4, ReceiveKeeps, ReturnKeeps, ParkKeeps, ClaimKeeps, FinishKeeps,
       ProcessKeeps DEF Worker
  <2>5. CASE Terminated
    BY <1>1, <2>5, CallsKeep DEF Terminated
  <2> QED
    BY <1>1, <2>1, <2>2, <2>3, <2>4, <2>5 DEF Next
<1> QED
  BY InitIInv, <1>1, PTL DEF Spec

\* The variables of the queue keep their types: the channel never holds more
\* than its capacity and no worker runs out of attempts in its backoff.
THEOREM TypeCorrect == Spec => []TypeOK
<1>1. IInv => TypeOK
  BY DEF IInv
<1> QED
  BY <1>1, Invariance, PTL

\* "A given file is never synced by two workers at once", for any number of
\* workers, and inFlight says exactly which files are being synced.
THEOREM OneSyncAtATime == Spec => []OneSyncPerFile
<1>1. IInv => OneSyncPerFile
  BY DEF IInv
<1> QED
  BY <1>1, Invariance, PTL

\* Every parked task has a worker that will find it when it finishes.
THEOREM NoOrphans == Spec => []ParkedHasOwner
<1>1. IInv => ParkedHasOwner
  BY DEF IInv
<1> QED
  BY <1>1, Invariance, PTL

-----------------------------------------------------------------------------
(* The queue implements the abstract gate.                                 *)

\* A worker before claim is what is left of a task that was in the channel.
Held(k) == \E w \in Workers : pc[w] = "claim" /\ task[w] = k
Queued(k) == \E i \in 1..Len(queue) : queue[i] = k

\* A key is dirty as parked, queued or about to be claimed.
LEMMA DirtyIs == \A k \in Keys : Dirty(k) <=> k \in pending \/ Queued(k) \/ Held(k)
BY DEF Dirty, Queued, Held

\* A step the gate does not see.
LEMMA Stutters ==
    ASSUME UNCHANGED <<inFlight, done>>, \A k \in Keys : Dirty(k)' <=> Dirty(k)
    PROVE  UNCHANGED Gate!gateVars
<1>1. [k \in Keys |-> Dirty(k)]' = [k \in Keys |-> Dirty(k)]
  BY DEF Dirty
<1>2. [k \in Keys |-> k \in inFlight]' = [k \in Keys |-> k \in inFlight]
  OBVIOUS
<1> QED
  BY <1>1, <1>2 DEF Gate!gateVars

\* A step that leaves alone what the gate looks at.
LEMMA QuietStutters ==
    ASSUME UNCHANGED <<queue, done, gateVars>>,
           \A w \in Workers : \/ pc'[w] = pc[w] /\ task'[w] = task[w]
                              \/ pc[w] # "claim" /\ pc'[w] # "claim"
    PROVE  UNCHANGED Gate!gateVars
<1>1. \A k \in Keys : Held(k)' <=> Held(k)
  BY DEF Held
<1>2. \A k \in Keys : Queued(k)' <=> Queued(k)
  BY DEF Queued
<1>3. \A k \in Keys : Dirty(k)' <=> k \in pending' \/ Queued(k)' \/ Held(k)'
  BY DEF Dirty, Queued, Held
<1>4. \A k \in Keys : Dirty(k)' <=> Dirty(k)
  BY <1>1, <1>2, <1>3, DirtyIs DEF gateVars
<1> QED
  BY <1>4, Stutters DEF gateVars

\* An enqueued task is an announcement.
LEMMA EnqueueAnnounces ==
    ASSUME IInv, NEW k \in Keys, Enqueue(k)
    PROVE  Gate!Announce(k)
<1>1. queue \in Seq(Keys) /\ queue' = Append(queue, k)
      /\ UNCHANGED <<inFlight, pending, done, pc, task>>
  BY DEF IInv, TypeOK, Enqueue, gateVars
<1>2. Len(queue) \in Nat /\ Len(queue') = Len(queue) + 1
      /\ queue'[Len(queue) + 1] = k
      /\ \A i \in 1..Len(queue) : queue'[i] = queue[i]
  BY <1>1
<1>3. \A j \in Keys : Queued(j)' <=> Queued(j) \/ j = k
  BY <1>2 DEF Queued
<1>4. \A j \in Keys : Held(j)' <=> Held(j)
  BY <1>1 DEF Held
<1>5. \A j \in Keys : Dirty(j)' <=> j \in pending' \/ Queued(j)' \/ Held(j)'
  BY DEF Dirty, Queued, Held
<1>6. \A j \in Keys : Dirty(j)' <=> Dirty(j) \/ j = k
  BY <1>1, <1>3, <1>4, <1>5, DirtyIs
<1>7. \A j \in Keys : Dirty(j) \in BOOLEAN /\ Dirty(j)' \in BOOLEAN
  BY DEF Dirty
<1>8. [j \in Keys |-> Dirty(j)'] = [[j \in Keys |-> Dirty(j)] EXCEPT ![k] = TRUE]
  BY <1>6, <1>7
<1>9. [j \in Keys |-> j \in inFlight]' = [j \in Keys |-> j \in inFlight]
  BY <1>1
<1> QED
  BY <1>1, <1>8, <1>9 DEF Gate!Announce

\* A task that leaves the channel is held by its worker.
LEMMA ReceiveStutters ==
    ASSUME IInv, NEW w \in Workers, Receive(w)
    PROVE  UNCHANGED Gate!gateVars
<1>1. /\ queue \in Seq(Keys) /\ queue # <<>> /\ queue' = Tail(queue)
      /\ pc[w] = "select" /\ pc'[w] = "claim" /\ task'[w] = Head(queue)
      /\ \A v \in Workers \ {w} : pc'[v] = pc[v] /\ task'[v] = task[v]
      /\ UNCHANGED <<inFlight, pending, done>>
  BY DEF IInv, TypeOK, Receive, Goto, gateVars
<1>2. /\ Len(queue) \in Nat \ {0} /\ Len(queue') = Len(queue) - 1
      /\ Head(queue) = queue[1]
      /\ \A i \in 1..Len(queue') : queue'[i] = queue[i + 1]
  BY <1>1
<1>3. \A k \in Keys : Queued(k) <=> k = queue[1] \/ Queued(k)'
  <2> TAKE k \in Keys
  <2>1. ASSUME Queued(k) PROVE k = queue[1] \/ Queued(k)'
    <3>1. PICK i \in 1..Len(queue) : queue[i] = k
      BY <2>1 DEF Queued
    <3>2. CASE i = 1
      BY <3>1, <3>2
    <3>3. CASE i # 1
      <4>1. i - 1 \in 1..Len(queue') /\ (i - 1) + 1 = i
        BY <1>2, <3>1, <3>3
      <4>2. queue'[i - 1] = k
        BY <1>2, <3>1, <4>1
      <4> QED
        BY <4>1, <4>2 DEF Queued
    <3> QED
      BY <3>2, <3>3
  <2>2. ASSUME Queued(k)' PROVE Queued(k)
    <3>1. PICK i \in 1..Len(queue') : queue'[i] = k
      BY <2>2 DEF Queued
    <3>2. i + 1 \in 1..Len(queue) /\ queue[i + 1] = k
      BY <1>2, <3>1
    <3> QED
      BY <3>2 DEF Queued
  <2>3. k = queue[1] => Queued(k)
    BY <1>2 DEF Queued
  <2> QED
    BY <2>1, <2>2, <2>3
<1>4. \A k \in Keys : Held(k)' <=> Held(k) \/ k = queue[1]
  BY <1>1, <1>2 DEF Held
<1>5. \A k \in Keys : Dirty(k)' <=> k \in pending' \/ Queued(k)' \/ Held(k)'
  BY DEF Dirty, Queued, Held
<1>6. \A k \in Keys : Dirty(k)' <=> Dirty(k)
  BY <1>1, <1>3, <1>4, <1>5, DirtyIs
<1> QED
  BY <1>1, <1>6, Stutters

\* A task that was held is parked.
LEMMA ParkStutters ==
    ASSUME IInv, NEW w \in Workers, Park(w)
    PROVE  UNCHANGED Gate!gateVars
<1>1. /\ pc[w] = "claim" /\ pc'[w] = "select"
      /\ pending' = pending \cup {task[w]}
      /\ \A v \in Workers \ {w} : pc'[v] = pc[v] /\ task'[v] = task[v]
      /\ UNCHANGED <<queue, inFlight, done>>
  BY DEF IInv, TypeOK, Park, Goto
<1>2. \A k \in Keys : Held(k) <=> Held(k)' \/ k = task[w]
  BY <1>1 DEF Held
<1>3. \A k \in Keys : Queued(k)' <=> Queued(k)
  BY <1>1 DEF Queued
<1>4. \A k \in Keys : Dirty(k)' <=> k \in pending' \/ Queued(k)' \/ Held(k)'
  BY DEF Dirty, Queued, Held
<1>5. \A k \in Keys : Dirty(k)' <=> Dirty(k)
  BY <1>1, <1>2, <1>3, <1>4, DirtyIs
<1> QED
  BY <1>1, <1>5, Stutters

\* A function that changed at one key.
LEMMA ChangedAt ==
    ASSUME NEW F \in [Keys -> BOOLEAN], NEW G \in [Keys -> BOOLEAN],
           NEW k \in Keys, NEW b \in BOOLEAN,
           G[k] = b, \A j \in Keys \ {k} : G[j] = F[j]
    PROVE  G = [F EXCEPT ![k] = b]
OBVIOUS

\* A claimed file begins a sync; if it stays dirty it is synced once more.
LEMMA ClaimBegins ==
    ASSUME IInv, NEW w \in Workers, Claim(w), NEW k \in Keys, k = task[w]
    PROVE  Gate!Begin(k)
<1>1. /\ pc[w] = "claim" /\ pc'[w] = "begin" /\ k \notin inFlight
      /\ inFlight' = inFlight \cup {k}
      /\ \A v \in Workers \ {w} : pc'[v] = pc[v]
      /\ UNCHANGED <<queue, pending, done, task>>
  BY DEF IInv, TypeOK, Claim, Goto
<1>3. \A j \in Keys : Held(j) <=> Held(j)' \/ j = k
  BY <1>1 DEF Held
<1>4. \A j \in Keys : Queued(j)' <=> Queued(j)
  BY <1>1 DEF Queued
<1>5. \A j \in Keys : Dirty(j)' <=> j \in pending' \/ Queued(j)' \/ Held(j)'
  BY DEF Dirty, Queued, Held
<1>6. Dirty(k) /\ \A j \in Keys \ {k} : Dirty(j)' <=> Dirty(j)
  BY <1>1, <1>3, <1>4, <1>5, DirtyIs
<1>7. \A j \in Keys : Dirty(j) \in BOOLEAN /\ Dirty(j)' \in BOOLEAN
  BY DEF Dirty
<1>8. [j \in Keys |-> Dirty(j)'] =
          [[j \in Keys |-> Dirty(j)] EXCEPT ![k] = Dirty(k)']
  <2> DEFINE F == [j \in Keys |-> Dirty(j)]
             G == [j \in Keys |-> Dirty(j)']
  <2>1. F \in [Keys -> BOOLEAN] /\ G \in [Keys -> BOOLEAN]
    BY <1>7, Zenon
  <2>2. \A j \in Keys \ {k} : (Dirty(j))' = Dirty(j)
    BY <1>6, <1>7
  <2>3. \A j \in Keys \ {k} : G[j] = F[j]
    BY <2>2, Zenon
  <2>4. G[k] = Dirty(k)' /\ Dirty(k)' \in BOOLEAN
    BY <1>7, Zenon
  <2> HIDE DEF F, G
  <2>5. G = [F EXCEPT ![k] = Dirty(k)']
    BY <2>1, <2>3, <2>4, ChangedAt, Zenon
  <2> QED
    BY <2>5 DEF F, G
<1>9. [j \in Keys |-> j \in inFlight'] =
          [[j \in Keys |-> j \in inFlight] EXCEPT ![k] = TRUE]
  <2> DEFINE F == [j \in Keys |-> j \in inFlight]
             G == [j \in Keys |-> j \in inFlight']
  <2>0. \A j \in Keys : (j \in inFlight) \in BOOLEAN /\ (j \in inFlight') \in BOOLEAN
    OBVIOUS
  <2>1. F \in [Keys -> BOOLEAN] /\ G \in [Keys -> BOOLEAN]
    BY <2>0, Zenon
  <2>2. (k \in inFlight') = TRUE /\ \A j \in Keys \ {k} : (j \in inFlight') = (j \in inFlight)
    BY <1>1
  <2>3. G[k] = TRUE /\ \A j \in Keys \ {k} : G[j] = F[j]
    BY <2>2, Zenon
  <2> HIDE DEF F, G
  <2>4. G = [F EXCEPT ![k] = TRUE]
    BY <2>1, <2>3, ChangedAt, Zenon
  <2> QED
    BY <2>4 DEF F, G
<1>10. [j \in Keys |-> Dirty(j)][k] /\ ~[j \in Keys |-> j \in inFlight][k]
  BY <1>1, <1>6
<1> QED
  BY <1>1, <1>7, <1>8, <1>9, <1>10 DEF Gate!Begin

\* A released file ends its sync; a task parked for it is held again.
LEMMA FinishEnds ==
    ASSUME IInv, NEW w \in Workers, Finish(w), NEW k \in Keys, k = task[w]
    PROVE  Gate!End(k)
<1>1. /\ pc[w] = "finish" /\ k \in Keys
      /\ inFlight' = inFlight \ {k} /\ pending' = pending \ {k}
      /\ IF k \in pending THEN pc'[w] = "claim" /\ task'[w] = k
                          ELSE pc'[w] = "select"
      /\ \A v \in Workers \ {w} : pc'[v] = pc[v] /\ task'[v] = task[v]
      /\ UNCHANGED <<queue, done>>
  BY DEF IInv, HasTask, TypeOK, Finish, Goto
<1>2. k \in inFlight
  BY <1>1 DEF IInv, OneSyncPerFile, Syncing, WorkerStates
<1>3. \A j \in Keys : Held(j)' <=> Held(j) \/ (j = k /\ k \in pending)
  BY <1>1 DEF Held
<1>4. \A j \in Keys : Queued(j)' <=> Queued(j)
  BY <1>1 DEF Queued
<1>5. \A j \in Keys : Dirty(j)' <=> j \in pending' \/ Queued(j)' \/ Held(j)'
  BY DEF Dirty, Queued, Held
<1>6. \A j \in Keys : Dirty(j)' <=> Dirty(j)
  BY <1>1, <1>3, <1>4, <1>5, DirtyIs
<1>7. [j \in Keys |-> Dirty(j)]' = [j \in Keys |-> Dirty(j)]
  BY <1>6 DEF Dirty
<1>8. [j \in Keys |-> j \in inFlight'] =
          [[j \in Keys |-> j \in inFlight] EXCEPT ![k] = FALSE]
  <2> DEFINE F == [j \in Keys |-> j \in inFlight]
             G == [j \in Keys |-> j \in inFlight']
  <2>0. \A j \in Keys : (j \in inFlight) \in BOOLEAN /\ (j \in inFlight') \in BOOLEAN
    OBVIOUS
  <2>1. F \in [Keys -> BOOLEAN] /\ G \in [Keys -> BOOLEAN]
    BY <2>0, Zenon
  <2>2. (k \in inFlight') = FALSE /\ \A j \in Keys \ {k} : (j \in inFlight') = (j \in inFlight)
    BY <1>1
  <2>3. G[k] = FALSE /\ \A j \in Keys \ {k} : G[j] = F[j]
    BY <2>2, Zenon
  <2> HIDE DEF F, G
  <2>4. G = [F EXCEPT ![k] = FALSE]
    BY <2>1, <2>3, ChangedAt, Zenon
  <2> QED
    BY <2>4 DEF F, G
<1>9. [j \in Keys |-> j \in inFlight][k]
  BY <1>1, <1>2
<1> QED
  BY <1>1, <1>7, <1>8, <1>9 DEF Gate!End

\* Everything else is no step of the gate, except Stop.
LEMMA WorkerMaps ==
    ASSUME IInv, NEW w \in Workers, Worker(w)
    PROVE  \/ \E k \in Keys : Gate!Begin(k) \/ Gate!End(k)
           \/ UNCHANGED Gate!gateVars
<1>1. CASE Receive(w)
  BY <1>1, ReceiveStutters
<1>2. CASE Return(w)
  <2>1. /\ pc' = [pc EXCEPT ![w] = "returned"] /\ pc[w] = "select"
        /\ UNCHANGED <<queue, done, gateVars, task>>
    BY <1>2 DEF Return, Goto
  <2>2. \A v \in Workers : \/ pc'[v] = pc[v] /\ task'[v] = task[v]
                           \/ pc[v] # "claim" /\ pc'[v] # "claim"
    BY <2>1 DEF IInv, TypeOK
  <2> QED
    BY <2>1, <2>2, QuietStutters
<1>3. CASE Park(w)
  BY <1>3, ParkStutters
<1>4. CASE Claim(w)
  <2>1. PICK k \in Keys : k = task[w]
    BY <1>4 DEF Claim, IInv, HasTask
  <2> QED
    BY <1>4, <2>1, ClaimBegins
<1>5. CASE Finish(w)
  <2>1. PICK k \in Keys : k = task[w]
    BY <1>5 DEF Finish, IInv, HasTask
  <2> QED
    BY <1>5, <2>1, FinishEnds
<1>6. CASE ProcessUpload(w)
  <2>1. Stays(w)
    BY <1>6, ProcessKeeps
  <2>2. PICK s \in Syncing \ {"begin"} : pc' = [pc EXCEPT ![w] = s]
    BY <2>1 DEF Stays
  <2>3. \A v \in Workers : \/ pc'[v] = pc[v] /\ task'[v] = task[v]
                           \/ pc[v] # "claim" /\ pc'[v] # "claim"
    BY <2>1, <2>2 DEF IInv, TypeOK, Stays, Syncing
  <2> QED
    BY <2>1, <2>3, QuietStutters DEF Stays, gateVars
<1> QED
  BY <1>1, <1>2, <1>3, <1>4, <1>5, <1>6 DEF Worker

\* The queue implements the gate, whatever the number of files, workers and
\* retries and whatever the user and the server do: the merging and parking of
\* tasks never loses a change and never lets two syncs of a file overlap.
THEOREM QueueImplementsGate == Spec => ImplementsGate
<1>1. Init => Gate!Init
  <2> SUFFICES ASSUME Init PROVE Gate!Init
    OBVIOUS
  <2>1. \A k \in Keys : ~Dirty(k) /\ k \notin inFlight
    BY DEF Init, Dirty
  <2>2. [k \in Keys |-> Dirty(k)] = [k \in Keys |-> FALSE]
    BY <2>1 DEF Dirty
  <2>3. [k \in Keys |-> k \in inFlight] = [k \in Keys |-> FALSE]
    <3>1. \A k \in Keys : (k \in inFlight) = FALSE
      BY <2>1
    <3> QED
      BY <3>1, Zenon
  <2> QED
    BY <2>2, <2>3 DEF Init, Gate!Init
<1>2. ASSUME IInv, [Next]_vars PROVE [Gate!Next]_(Gate!gateVars)
  <2>1. CASE \/ User \/ \E k \in Keys : EnqueueDrops(k)
             \/ UpdateProfiles \/ ForgetAll \/ Terminated \/ UNCHANGED vars
    <3>1. UNCHANGED <<queue, done, gateVars, pc, task>>
      BY <2>1 DEF User, EnqueueDrops, UpdateProfiles, ForgetAll, Terminated, vars
    <3> QED
      BY <3>1, QuietStutters
  <2>2. CASE \E k \in Keys : Enqueue(k)
    BY <1>2, <2>2, EnqueueAnnounces DEF Gate!Next
  <2>3. CASE Stop
    <3>1. done' = TRUE /\ UNCHANGED <<queue, inFlight, pending, pc, task>>
      BY <2>3 DEF Stop, gateVars
    <3>2. [k \in Keys |-> Dirty(k)]' = [k \in Keys |-> Dirty(k)]
      BY <3>1 DEF Dirty
    <3>3. [k \in Keys |-> k \in inFlight]' = [k \in Keys |-> k \in inFlight]
      BY <3>1
    <3> QED
      BY <3>1, <3>2, <3>3 DEF Gate!Halt, Gate!Next
  <2>4. CASE \E w \in Workers : Worker(w)
    BY <1>2, <2>4, WorkerMaps DEF Gate!Next
  <2> QED
    BY <1>2, <2>1, <2>2, <2>3, <2>4 DEF Next
<1> QED
  BY <1>1, <1>2, Invariance, PTL DEF Spec, ImplementsGate, Gate!Spec

-----------------------------------------------------------------------------
(* What processUpload does to a path, the server and its own knowledge.    *)

\* What a step of processUpload may do, by where it leads.  A path was seen
\* missing before the context directory is looked at, a deletion is gone
\* through only with one that was there, and a sync ends well if there was
\* nothing to delete, if it has deleted, or if it has put there what it read.
Effect(w) ==
    LET k == task[w] IN
    /\ UNCHANGED <<done, tree, timers, removed, context>>
    /\ \/ fooled' = fooled
       \/ /\ fooled' = fooled \ {k} /\ k \in Files /\ remote'[k] # Gone
          /\ pc[w] = "uploading" /\ pc'[w] = "finish"
    /\ \A v \in Workers \ {w} : UNCHANGED <<snap[v], missing[v]>>
    /\ \A f \in Files \ {k} : UNCHANGED <<remote[f], lastOK[f]>>
    /\ k \in Files /\ remote'[k] = Gone => remote[k] = Gone \/ pc[w] = "remove"
    /\ pc'[w] = "statContext" => Visible(k) = Gone
    /\ pc'[w] = "acquire" =>
          ~missing'[w] \/ (missing[w] /\ pc[w] = "statContext" /\ context)
    /\ pc'[w] = "remove" => pc[w] = "acquire" /\ missing[w]
    /\ pc'[w] = "forgetDeleted" =>
          pc[w] = "remove" /\ (k \in Files => remote'[k] = Gone)
    /\ pc'[w] = "uploading" => snap'[w] = Visible(k)
    /\ pc'[w] = "finish" /\ k \in Files /\ lastOK'[k] =>
          \/ pc[w] = "remove" /\ remote[k] = Gone /\ remote'[k] = Gone
          \/ pc[w] = "forgetDeleted" /\ remote'[k] = remote[k]
          \/ /\ pc[w] = "uploading" /\ snap[w] # Gone
             /\ tree[k] = snap[w] => remote'[k] = snap[w]

\* The end of processUpload, of one path.
LEMMA EndsEffect ==
    ASSUME NEW w \in Workers, NEW well \in BOOLEAN, TypeOK, task[w] \in Keys, Ends(w, well)
    PROVE  /\ pc'[w] = "finish" /\ (lastOK'[task[w]] <=> well)
           /\ \A k \in Keys \ {task[w]} : lastOK'[k] = lastOK[k]
BY DEF Ends, Goto, TypeOK

\* An attempt that failed, of one path.
LEMMA FailedEffect ==
    ASSUME NEW w \in Workers, TypeOK, task[w] \in Keys, Failed(w)
    PROVE  /\ pc'[w] \in {"finish", "backoff"}
           /\ pc'[w] = "finish" => ~lastOK'[task[w]]
           /\ \A k \in Keys \ {task[w]} : lastOK'[k] = lastOK[k]
<1>1. CASE attempt[w] < MaxRetries - 1
  BY <1>1 DEF Failed, Goto, TypeOK
<1>2. CASE ~(attempt[w] < MaxRetries - 1)
  BY <1>2, EndsEffect DEF Failed
<1> QED
  BY <1>1, <1>2

\* The server removes one path at most.
LEMMA RemovesOne ==
    ASSUME TypeOK, NEW k \in Keys, Removes(k)
    PROVE  /\ \A f \in Files \ {k} : remote'[f] = remote[f]
           /\ k \in Files => remote'[k] = Gone
           /\ k \in Dirs => \A f \in Files : remote'[f] = remote[f]
BY KeysAssumption DEF Removes, TypeOK

\* The server replaces one file at most, never by nothing.
LEMMA ReplacesOne ==
    ASSUME TypeOK, NEW w \in Workers, task[w] \in Files, Replaces(w)
    PROVE  /\ \A f \in Files \ {task[w]} : remote'[f] = remote[f]
           /\ snap[w] # Gone /\ remote'[task[w]] # Gone
           /\ tree[task[w]] = snap[w] => remote'[task[w]] = snap[w]
BY DEF Replaces, TypeOK, Gone, Torn

\* Every step of processUpload has that effect.
LEMMA ProcessHasEffect ==
    ASSUME IInv, NEW w \in Workers, ProcessUpload(w)
    PROVE  Effect(w)
<1> USE KeysAssumption
<1>0. /\ TypeOK /\ HasTask /\ LocalsFit /\ pc[w] \in Syncing /\ task[w] \in Keys
      /\ pc \in [Workers -> WorkerStates]
      /\ Files \subseteq Keys
  <2>1. pc[w] \in Syncing
    BY ProcessKeeps DEF Stays
  <2> QED
    BY <2>1 DEF IInv, HasTask, TypeOK, Syncing, Keys
<1>1. UNCHANGED <<queue, done, gateVars, confVars, task, tree, timers, removed, context>>
  BY DEF ProcessUpload, BeginUpload, StatPath, StatContext, AcquireClient, RemoveRemote, EnsureDir,
         RememberDir, UploadOpens, UploadSucceeds, UploadFails, ForgetDeleted, ForgetFailed,
         Backoff, LoopVars, userVars
<1>u. \/ BeginUpload(w) \/ StatPath(w) \/ StatContext(w) \/ AcquireClient(w) \/ RemoveRemote(w)
      \/ EnsureDir(w) \/ RememberDir(w) \/ UploadOpens(w) \/ UploadFails(w)
      \/ ForgetDeleted(w) \/ ForgetFailed(w) \/ Backoff(w)
      => fooled' = fooled
  BY DEF BeginUpload, StatPath, StatContext, AcquireClient, RemoveRemote, EnsureDir,
         RememberDir, UploadOpens, UploadFails, ForgetDeleted, ForgetFailed, Backoff,
         LoopVars, userVars

<1>2. CASE BeginUpload(w)
  <2>1. /\ pc[w] = "begin" /\ UNCHANGED <<snap, missing, remote>>
        /\ Ends(w, FALSE) \/ (Goto(w, "stat") /\ UNCHANGED lastOK)
    BY <1>2 DEF BeginUpload, sideVars
  <2> QED
    BY <1>0, <1>1, <1>u, <1>2, <2>1, EndsEffect DEF Effect, Goto
<1>3. CASE StatPath(w)
  <2>1. /\ pc[w] = "stat" /\ UNCHANGED <<snap, remote>>
        /\ \A v \in Workers \ {w} : missing'[v] = missing[v]
        /\ missing'[w] = (Visible(task[w]) = Gone)
        /\ \/ Ends(w, FALSE)
           \/ Visible(task[w]) = Gone /\ Goto(w, "statContext") /\ UNCHANGED lastOK
           \/ task[w] \in Dirs /\ Ends(w, TRUE)
           \/ Visible(task[w]) # Gone /\ Goto(w, "acquire") /\ UNCHANGED lastOK
    BY <1>0, <1>3 DEF StatPath, sideVars, TypeOK
  <2>2. pc'[w] = "acquire" => ~missing'[w]
    BY <1>0, <2>1, EndsEffect DEF Goto
  <2>3. pc'[w] = "statContext" => Visible(task[w]) = Gone
    BY <1>0, <2>1, EndsEffect DEF Goto
  <2>4. /\ pc'[w] \in {"finish", "statContext", "acquire"}
        /\ \A k \in Keys \ {task[w]} : lastOK'[k] = lastOK[k]
        /\ task[w] \in Files /\ pc'[w] = "finish" => ~lastOK'[task[w]]
    BY <1>0, <2>1, EndsEffect DEF Goto
  <2> QED
    BY <1>0, <1>1, <1>u, <1>3, <2>1, <2>2, <2>3, <2>4 DEF Effect
<1>4. CASE StatContext(w)
  <2>1. /\ pc[w] = "statContext" /\ UNCHANGED <<snap, missing, remote>>
        /\ \/ context /\ Goto(w, "acquire") /\ UNCHANGED lastOK
           \/ Ends(w, FALSE)
    BY <1>4 DEF StatContext, sideVars, localVars
  <2>2. missing[w]
    BY <1>0, <2>1 DEF LocalsFit
  <2> QED
    BY <1>0, <1>1, <1>u, <1>4, <2>1, <2>2, EndsEffect DEF Effect, Goto
<1>5. CASE AcquireClient(w)
  <2>1. /\ pc[w] = "acquire" /\ UNCHANGED <<snap, missing, remote>>
        /\ \/ Goto(w, IF missing[w] THEN "remove" ELSE "ensure") /\ UNCHANGED lastOK
           \/ Failed(w)
    BY <1>5 DEF AcquireClient, sideVars, localVars
  <2> QED
    BY <1>0, <1>1, <1>u, <1>5, <2>1, FailedEffect DEF Effect, Goto
<1>6. CASE RemoveRemote(w)
  <2> DEFINE k == task[w]
             there == IF k \in Dirs THEN k \in remoteDirs ELSE remote[k] # Gone
  <2>1. /\ pc[w] = "remove" /\ UNCHANGED <<snap, missing>>
        /\ \/ ~there /\ Ends(w, TRUE) /\ UNCHANGED sideVars
           \/ Removes(k) /\ Goto(w, "forgetDeleted") /\ UNCHANGED lastOK
           \/ Ends(w, FALSE) /\ (Removes(k) \/ UNCHANGED sideVars)
           \/ Failed(w) /\ (Removes(k) \/ UNCHANGED sideVars)
    BY <1>6 DEF RemoveRemote, localVars
  <2>2. \A f \in Files \ {k} : remote'[f] = remote[f]
    BY <1>0, <2>1, RemovesOne DEF sideVars
  <2>3. /\ pc'[w] \in {"finish", "forgetDeleted", "backoff"}
        /\ \A j \in Keys \ {k} : lastOK'[j] = lastOK[j]
    BY <1>0, <2>1, EndsEffect, FailedEffect DEF Goto
  <2>4. pc'[w] = "forgetDeleted" => (k \in Files => remote'[k] = Gone)
    BY <1>0, <2>1, EndsEffect, FailedEffect, RemovesOne DEF Goto
  <2>5. pc'[w] = "finish" /\ k \in Files /\ lastOK'[k] => remote[k] = Gone /\ remote'[k] = Gone
    BY <1>0, <2>1, EndsEffect, FailedEffect DEF Goto, sideVars
  <2> HIDE DEF there
  <2> QED
    BY <1>0, <1>1, <1>u, <1>6, <2>1, <2>2, <2>3, <2>4, <2>5 DEF Effect
<1>7. CASE EnsureDir(w)
  <2>1. /\ pc[w] = "ensure" /\ UNCHANGED <<snap, missing, remote>>
        /\ (Goto(w, "remember") /\ UNCHANGED lastOK) \/ Failed(w)
    BY <1>7 DEF EnsureDir, localVars
  <2> QED
    BY <1>0, <1>1, <1>u, <1>7, <2>1, FailedEffect DEF Effect, Goto
<1>8. CASE RememberDir(w)
  <2>1. /\ Goto(w, "upload") /\ UNCHANGED <<snap, missing, remote, lastOK>>
    BY <1>8 DEF RememberDir, localVars, sideVars
  <2> QED
    BY <1>0, <1>1, <1>u, <1>8, <2>1 DEF Effect, Goto
<1>9. CASE UploadOpens(w)
  <2>1. /\ Goto(w, "uploading") /\ UNCHANGED <<missing, remote, lastOK>>
        /\ snap' = [snap EXCEPT ![w] = Visible(task[w])]
    BY <1>9 DEF UploadOpens, sideVars
  <2> QED
    BY <1>0, <1>1, <1>u, <1>9, <2>1 DEF Effect, Goto, TypeOK
<1>10. CASE UploadSucceeds(w)
  <2>1. /\ pc[w] = "uploading" /\ Replaces(w) /\ Ends(w, TRUE) /\ UNCHANGED <<snap, missing>>
        /\ task[w] \in Files
    BY <1>0, <1>10 DEF UploadSucceeds, localVars, LocalsFit
  <2>3. fooled' = fooled \ {task[w]}
    BY <1>10 DEF UploadSucceeds
  <2>2. pc'[w] = "finish" /\ \A k \in Keys \ {task[w]} : lastOK'[k] = lastOK[k]
    BY <1>0, <2>1, EndsEffect
  <2> QED
    BY <1>0, <1>1, <2>1, <2>2, <2>3, ReplacesOne DEF Effect
<1>11. CASE UploadFails(w)
  <2>1. /\ Goto(w, "forgetFailed") /\ UNCHANGED <<snap, missing, lastOK>>
        /\ Replaces(w) \/ UNCHANGED remote
        /\ task[w] \in Files
    BY <1>0, <1>11 DEF UploadFails, localVars, LocalsFit
  <2> QED
    BY <1>0, <1>1, <1>u, <1>11, <2>1, ReplacesOne DEF Effect, Goto
<1>12. CASE ForgetDeleted(w)
  <2>1. /\ pc[w] = "forgetDeleted" /\ Ends(w, TRUE) /\ UNCHANGED <<snap, missing, remote>>
    BY <1>12 DEF ForgetDeleted, localVars, sideVars
  <2> QED
    BY <1>0, <1>1, <1>u, <1>12, <2>1, EndsEffect DEF Effect
<1>13. CASE ForgetFailed(w)
  <2>1. /\ Failed(w) /\ UNCHANGED <<snap, missing, remote>>
    BY <1>13 DEF ForgetFailed, localVars, sideVars
  <2> QED
    BY <1>0, <1>1, <1>u, <1>13, <2>1, FailedEffect DEF Effect
<1>14. CASE Backoff(w)
  <2>1. /\ UNCHANGED <<snap, missing, remote>>
        /\ (Goto(w, "stat") /\ UNCHANGED lastOK) \/ Ends(w, FALSE)
    BY <1>14 DEF Backoff, sideVars
  <2> QED
    BY <1>0, <1>1, <1>u, <1>14, <2>1, EndsEffect DEF Effect, Goto
<1> QED
  BY <1>2, <1>3, <1>4, <1>5, <1>6, <1>7, <1>8, <1>9, <1>10, <1>11, <1>12, <1>13, <1>14
     DEF ProcessUpload

-----------------------------------------------------------------------------
(* The guard against mass deletion.                                        *)

\* What is gone was deleted by the user, and a worker that is past the look at
\* the context directory has a path that was, or one for which the directory
\* came back in the middle.
Deliberate ==
    /\ \A k \in Keys : tree[k] = Gone => k \in removed
    /\ \A w \in Workers :
          /\ pc[w] = "statContext" => task[w] \in removed \cup fooled \/ ~context
          /\ pc[w] = "acquire" /\ missing[w] => task[w] \in removed \cup fooled
          /\ pc[w] = "remove" => task[w] \in removed \cup fooled
    /\ OnlyDeletedFilesAreRemoved

\* The user only adds to what was removed, and a context directory that comes
\* back marks the paths that were being looked at.
LEMMA UserRemoves ==
    ASSUME TypeOK, User
    PROVE  /\ removed \subseteq removed' /\ timers \subseteq timers' /\ fooled \subseteq fooled'
           /\ \A w \in Workers :
                 pc[w] = "statContext" /\ ~context => ~context' \/ task[w] \in fooled'
           /\ \A k \in Keys : tree'[k] = Gone => tree[k] = Gone \/ k \in removed'
           /\ \A f \in Files : tree'[f] = tree[f] \/ f \in timers'
<1> USE KeysAssumption, NumbersAssumption
<1>1. ASSUME NEW f \in Files, Write(f)
      PROVE  /\ UNCHANGED <<context, removed, fooled>> /\ timers' = timers \cup {f}
             /\ \A k \in Keys : tree'[k] = Gone => tree[k] = Gone
             /\ \A g \in Files : tree'[g] = tree[g] \/ g = f
  <2>1. /\ tree' = [tree EXCEPT ![f] = edits + 1, ![Parent[f]] = 0]
        /\ UNCHANGED <<context, removed, fooled>> /\ timers' = timers \cup {f}
    BY <1>1 DEF Write
  <2>2. edits \in Nat /\ edits + 1 # Gone /\ 0 # Gone /\ Parent[f] \in Dirs
    BY DEF TypeOK, Gone
  <2>3. \A k \in Keys : k = f \/ k = Parent[f] \/ tree'[k] = tree[k]
    BY <2>1 DEF TypeOK
  <2>4. tree'[f] # Gone /\ tree'[Parent[f]] # Gone
    BY <2>1, <2>2 DEF TypeOK, Keys
  <2> QED
    BY <2>1, <2>2, <2>3, <2>4 DEF Keys
<1>2. ASSUME NEW d \in Keys, Delete(d)
      PROVE  /\ UNCHANGED <<context, fooled>>
             /\ timers \subseteq timers' /\ removed \subseteq removed'
             /\ \A k \in Keys : tree'[k] = tree[k] \/ (k \in timers' /\ k \in removed')
  <2> DEFINE gone == {d} \cup IF d \in Dirs THEN {f \in Below(d) : tree[f] # Gone} ELSE {}
  <2>1. /\ tree' = [j \in Keys |-> IF j \in gone THEN Gone ELSE tree[j]]
        /\ timers' = timers \cup gone /\ removed' = removed \cup gone
        /\ UNCHANGED <<context, fooled>>
    BY <1>2 DEF Delete
  <2> HIDE DEF gone
  <2> QED
    BY <2>1
<1>3. CASE MoveContext
  BY <1>3 DEF MoveContext
<1>4. CASE \E f \in Files : Write(f)
  BY <1>1, <1>4
<1>5. CASE \E k \in Keys : Delete(k)
  BY <1>2, <1>5 DEF Keys
<1> QED
  BY <1>3, <1>4, <1>5 DEF User

\* No step makes a worker delete what the user did not, but for those paths.
LEMMA DeliberateStep ==
    ASSUME IInv, Deliberate, [Next]_vars
    PROVE  Deliberate'
<1> USE KeysAssumption, NumbersAssumption
<1>0. TypeOK /\ Files \subseteq Keys
  BY DEF IInv, Keys
<1>1. CASE User
  <2>1. UNCHANGED <<pc, task, missing, remote>>
    BY <1>1 DEF User, localVars, sideVars
  <2> QED
    BY <1>0, <1>1, <2>1, UserRemoves DEF Deliberate, OnlyDeletedFilesAreRemoved
<1>2. CASE \E w \in Workers : ProcessUpload(w)
  <2>1. PICK w \in Workers : ProcessUpload(w)
    BY <1>2
  <2>2. /\ Effect(w) /\ task' = task /\ task[w] \in Keys
        /\ \A v \in Workers \ {w} : pc'[v] = pc[v] /\ missing'[v] = missing[v]
    BY <2>1, ProcessHasEffect, ProcessKeeps DEF Stays, Effect, IInv, TypeOK, HasTask, Syncing, WorkerStates
  <2>3. UNCHANGED <<tree, removed, context>>
    BY <2>2 DEF Effect
  <2>4. /\ pc'[w] = "statContext" => task[w] \in removed \cup fooled \/ ~context
        /\ pc'[w] = "acquire" /\ missing'[w] => task[w] \in removed \cup fooled
        /\ pc'[w] = "remove" => task[w] \in removed \cup fooled
    BY <2>2 DEF Effect, Deliberate, Visible
  <2>5. OnlyDeletedFilesAreRemoved'
    BY <2>2, <2>3 DEF Effect, Deliberate, OnlyDeletedFilesAreRemoved
  <2>6. CASE fooled' = fooled
    BY <2>2, <2>3, <2>4, <2>5, <2>6 DEF Deliberate
  <2>7. CASE /\ fooled' = fooled \ {task[w]}
             /\ pc[w] = "uploading" /\ pc'[w] = "finish"
    <3>1. \A v \in Workers \ {w} : pc[v] \in Syncing => task[v] # task[w]
      BY <2>7 DEF IInv, OneSyncPerFile, Syncing, WorkerStates
    <3>2. \A v \in Workers \ {w} :
             /\ pc'[v] = "statContext" => task[v] \in removed \cup fooled' \/ ~context
             /\ pc'[v] = "acquire" /\ missing'[v] => task[v] \in removed \cup fooled'
             /\ pc'[v] = "remove" => task[v] \in removed \cup fooled'
      BY <2>2, <2>7, <3>1 DEF Deliberate, Syncing, WorkerStates
    <3> QED
      BY <2>2, <2>3, <2>5, <2>7, <3>2 DEF Deliberate
  <2> QED
    BY <2>2, <2>6, <2>7 DEF Effect
<1>3. CASE \E w \in Workers : Receive(w) \/ Return(w) \/ Park(w) \/ Claim(w) \/ Finish(w)
  <2>1. PICK w \in Workers : Receive(w) \/ Return(w) \/ Park(w) \/ Claim(w) \/ Finish(w)
    BY <1>3
  <2>2. /\ UNCHANGED <<tree, removed, fooled, context, remote>>
        /\ pc'[w] \in {"claim", "returned", "select", "begin"}
        /\ \A v \in Workers \ {w} : /\ pc'[v] = pc[v] /\ task'[v] = task[v]
                                    /\ missing'[v] = missing[v]
    BY <1>0, <2>1 DEF Receive, Return, Park, Claim, Finish, Goto, TypeOK, userVars, localVars, sideVars
  <2> QED
    BY <2>2 DEF Deliberate, OnlyDeletedFilesAreRemoved
<1>4. CASE (\E k \in Keys : Enqueue(k) \/ EnqueueDrops(k)) \/ Stop \/ UpdateProfiles
          \/ ForgetAll \/ UNCHANGED vars
  <2>1. UNCHANGED <<tree, removed, fooled, context, remote, pc, task, missing>>
    BY <1>4 DEF Enqueue, EnqueueDrops, Stop, UpdateProfiles, ForgetAll, vars, userVars, localVars, sideVars
  <2> QED
    BY <2>1 DEF Deliberate, OnlyDeletedFilesAreRemoved
<1> QED
  BY <1>1, <1>2, <1>3, <1>4 DEF Next, Worker, Terminated

\* Before anything happens nothing is missing.
LEMMA InitDeliberate == Init => Deliberate
BY DEF Init, Deliberate, OnlyDeletedFilesAreRemoved, Gone

\* "Guard against mass deletion": however often the context directory goes away
\* and comes back, and whatever is retried, reloaded or done by other workers,
\* a file that the user did not delete is deleted on the server only if the
\* directory came back between the two os.Stat calls about it.
THEOREM GuardHolds == Spec => []OnlyDeletedFilesAreRemoved
<1>1. IInv /\ Deliberate /\ [Next]_vars => Deliberate'
  BY DeliberateStep
<1>2. Deliberate => OnlyDeletedFilesAreRemoved
  BY DEF Deliberate
<1> QED
  BY <1>1, <1>2, InitDeliberate, Invariance, PTL DEF Spec

-----------------------------------------------------------------------------
(* When all is quiet.                                                      *)

\* A change of the path is on its way to a sync that has not begun.
Due(f) == f \in timers \/ Dirty(f)

\* The server has the file as it is on disk, or lacks it because the guard was
\* defeated, or it is due again.
Kept(f) == remote[f] = tree[f] \/ (remote[f] = Gone /\ f \in fooled) \/ Due(f)

\* What a worker knows of its file is so, or the guard was defeated for it, or
\* the file is due again.
Knows(w) ==
    LET f == task[w] IN
    /\ pc[w] = "statContext" => tree[f] = Gone \/ ~context \/ f \in fooled \/ Due(f)
    /\ pc[w] = "acquire" /\ missing[w] => tree[f] = Gone \/ f \in fooled \/ Due(f)
    /\ pc[w] = "remove" => tree[f] = Gone \/ f \in fooled \/ Due(f)
    /\ pc[w] = "forgetDeleted" =>
          remote[f] = Gone /\ (tree[f] = Gone \/ f \in fooled \/ Due(f))
    /\ pc[w] = "uploading" => snap[w] = Gone \/ snap[w] = tree[f] \/ Due(f)
    /\ pc[w] = "finish" => (lastOK[f] => Kept(f))

\* A file that nobody syncs is kept in that sense, or its last sync did not end
\* well.
Mirrored ==
    ~done =>
      /\ \A f \in Files \ Ignored :
            f \notin inFlight /\ lastOK[f] => Kept(f)
      /\ \A w \in Workers : task[w] \in Files \ Ignored => Knows(w)

\* A task that changes hands remains due until its file is claimed.
LEMMA DueInHand ==
    ASSUME IInv, NEW w \in Workers, Receive(w) \/ Return(w) \/ Park(w) \/ Claim(w) \/ Finish(w)
    PROVE  /\ \A k \in Keys : Due(k) => Due(k)' \/ (Claim(w) /\ k = task[w])
           /\ \A v \in Workers \ {w} : /\ pc'[v] = pc[v] /\ task'[v] = task[v]
                                       /\ missing'[v] = missing[v] /\ snap'[v] = snap[v]
           /\ UNCHANGED <<done, tree, context, fooled, remote, lastOK, timers>>
           /\ pc'[w] \in {"claim", "select", "returned", "begin"}
<1>0. TypeOK
  BY DEF IInv
<1>1. /\ \A v \in Workers \ {w} : /\ pc'[v] = pc[v] /\ task'[v] = task[v]
                                  /\ missing'[v] = missing[v] /\ snap'[v] = snap[v]
      /\ UNCHANGED <<done, tree, context, fooled, remote, lastOK, timers>>
      /\ pc'[w] \in {"claim", "select", "returned", "begin"}
  BY <1>0 DEF Receive, Return, Park, Claim, Finish, Goto, TypeOK, userVars, localVars, sideVars
<1>2. CASE Claim(w)
  <2>1. /\ \A k \in Keys : Held(k) => Held(k)' \/ k = task[w]
        /\ UNCHANGED <<queue, pending, task>>
    BY <1>1, <1>2 DEF Held, Claim
  <2>2. \A k \in Keys : Queued(k)' <=> Queued(k)
    BY <2>1 DEF Queued
  <2>3. \A k \in Keys : Dirty(k)' <=> k \in pending' \/ Queued(k)' \/ Held(k)'
    BY DEF Dirty, Queued, Held
  <2>4. \A k \in Keys : Due(k) => Due(k)' \/ k = task[w]
    BY <1>1, <2>1, <2>2, <2>3, DirtyIs DEF Due
  <2> QED
    BY <1>1, <1>2, <2>4
<1>3. CASE ~Claim(w)
  <2>1. \/ UNCHANGED Gate!gateVars
        \/ \E k \in Keys : Gate!End(k)
    <3>1. CASE Receive(w)
      BY <3>1, ReceiveStutters
    <3>2. CASE Park(w)
      BY <3>2, ParkStutters
    <3>3. CASE Finish(w)
      <4>1. task[w] \in Keys
        BY <3>3 DEF Finish, IInv, HasTask
      <4> QED
        BY <3>3, <4>1, FinishEnds
    <3>4. CASE Return(w)
      <4>1. /\ pc' = [pc EXCEPT ![w] = "returned"] /\ pc[w] = "select"
            /\ UNCHANGED <<queue, done, gateVars, task>>
        BY <3>4 DEF Return, Goto
      <4>2. \A v \in Workers : \/ pc'[v] = pc[v] /\ task'[v] = task[v]
                               \/ pc[v] # "claim" /\ pc'[v] # "claim"
        BY <4>1 DEF IInv, TypeOK
      <4> QED
        BY <4>1, <4>2, QuietStutters
    <3> QED
      BY <1>3, <3>1, <3>2, <3>3, <3>4
  <2>2. [k \in Keys |-> Dirty(k)]' = [k \in Keys |-> Dirty(k)]
    BY <2>1 DEF Gate!gateVars, Gate!End
  <2>3. \A k \in Keys : Dirty(k)' = Dirty(k)
    <3> DEFINE F == [k \in Keys |-> Dirty(k)]
    <3>1. \A k \in Keys : F'[k] = Dirty(k)' /\ F[k] = Dirty(k)
      OBVIOUS
    <3>2. F' = F
      BY <2>2
    <3> HIDE DEF F
    <3> QED
      BY <3>1, <3>2
  <2> QED
    BY <1>1, <2>3 DEF Due
<1> QED
  BY <1>2, <1>3

\* A step of processUpload does not change what is due.
LEMMA DueInProcess ==
    ASSUME IInv, NEW w \in Workers, ProcessUpload(w)
    PROVE  \A k \in Keys : Due(k)' <=> Due(k)
<1>1. Stays(w) /\ timers' = timers
  BY ProcessKeeps, ProcessHasEffect DEF Effect
<1>2. PICK s \in Syncing \ {"begin"} : pc' = [pc EXCEPT ![w] = s]
  BY <1>1 DEF Stays
<1>3. \A v \in Workers : pc'[v] = "claim" <=> pc[v] = "claim"
  BY <1>1, <1>2 DEF IInv, TypeOK, Stays, Syncing
<1>4. \A k \in Keys : Dirty(k)' <=> Dirty(k)
  BY <1>1, <1>3 DEF Dirty, Stays
<1> QED
  BY <1>1, <1>4 DEF Due

\* No step of processUpload leaves an old or torn version behind unseen.
LEMMA ProcessMirrors ==
    ASSUME IInv, NEW w \in Workers, ProcessUpload(w), Mirrored
    PROVE  Mirrored'
<1> DEFINE k == task[w]
<1>0. /\ Effect(w) /\ task' = task /\ inFlight' = inFlight /\ k \in Keys
      /\ pc[w] \in Syncing /\ pc'[w] \in Syncing \ {"begin"}
      /\ \A v \in Workers \ {w} : pc'[v] = pc[v]
  BY ProcessHasEffect, ProcessKeeps DEF Stays, IInv, TypeOK, HasTask, Syncing, WorkerStates
<1>1. \A j \in Keys : Due(j)' <=> Due(j)
  BY DueInProcess
<1>2. /\ UNCHANGED <<done, tree, context>>
      /\ \A v \in Workers \ {w} : UNCHANGED <<snap[v], missing[v]>>
      /\ \A f \in Files \ {k} : UNCHANGED <<remote[f], lastOK[f]>>
  BY <1>0 DEF Effect
<1>3. SUFFICES ASSUME ~done PROVE Mirrored'
  BY <1>2 DEF Mirrored
<1>4. k \in inFlight /\ \A v \in Workers \ {w} : pc[v] \in Syncing => task[v] # k
  BY <1>0 DEF IInv, OneSyncPerFile
<1>5. ASSUME NEW f \in Files \ Ignored, f \notin inFlight', lastOK'[f]
      PROVE  Kept(f)'
  <2>1. f # k /\ f \in Keys /\ Kept(f)
    BY <1>0, <1>2, <1>3, <1>4, <1>5 DEF Mirrored, Keys
  <2> QED
    BY <1>0, <1>1, <1>2, <2>1 DEF Kept, Effect
<1>6. ASSUME NEW v \in Workers \ {w}, task[v] \in Files \ Ignored PROVE Knows(v)'
  <2>1. Knows(v) /\ task[v] \in Keys
    BY <1>3, <1>6 DEF Mirrored, Keys
  <2>2. CASE pc[v] \in Syncing
    <3>1. task[v] # k /\ (task[v] \in fooled' <=> task[v] \in fooled)
      BY <1>0, <1>4, <1>6, <2>2 DEF Effect
    <3> QED
      BY <1>0, <1>1, <1>2, <1>6, <2>1, <3>1 DEF Knows, Kept
  <2>3. CASE pc[v] \notin Syncing
    BY <1>0, <2>3 DEF Knows, Syncing, WorkerStates
  <2> QED
    BY <2>2, <2>3
<1>7. ASSUME k \in Files \ Ignored PROVE Knows(w)'
  <2>0. PICK j \in Keys : j = task[w]
    BY <1>0
  <2>1. Knows(w) /\ j \in Files /\ tree'[j] = tree[j] /\ (Due(j)' <=> Due(j))
    BY <1>0, <1>1, <1>2, <1>3, <1>7, <2>0 DEF Mirrored
  <2>2. /\ pc'[w] = "statContext" => tree[j] = Gone \/ ~context
        /\ pc'[w] = "acquire" /\ missing'[w] => tree[j] = Gone \/ j \in fooled' \/ Due(j)
        /\ pc'[w] = "remove" => tree[j] = Gone \/ j \in fooled' \/ Due(j)
    BY <1>0, <2>0, <2>1 DEF Effect, Knows, Visible
  <2>3. pc'[w] = "forgetDeleted" =>
           remote'[j] = Gone /\ (tree[j] = Gone \/ j \in fooled' \/ Due(j))
    BY <1>0, <2>0, <2>1 DEF Effect, Knows
  <2>4. pc'[w] = "uploading" => snap'[w] = Gone \/ snap'[w] = tree[j] \/ Due(j)
    BY <1>0, <2>0, <2>1 DEF Effect, Visible
  <2>5. ASSUME pc'[w] = "finish", lastOK'[j]
        PROVE  remote'[j] = tree[j] \/ (remote'[j] = Gone /\ j \in fooled') \/ Due(j)
    <3>0. pc[w] # "uploading" => fooled' = fooled
      BY <1>0 DEF Effect
    <3>1. CASE pc[w] = "remove" /\ remote[j] = Gone /\ remote'[j] = Gone
      BY <2>0, <2>1, <3>0, <3>1 DEF Knows
    <3>2. CASE pc[w] = "forgetDeleted" /\ remote'[j] = remote[j]
      BY <2>0, <2>1, <3>0, <3>2 DEF Knows
    <3>3. CASE /\ pc[w] = "uploading" /\ snap[w] # Gone
               /\ tree[j] = snap[w] => remote'[j] = snap[w]
      BY <2>0, <2>1, <3>3 DEF Knows
    <3> QED
      BY <1>0, <2>0, <2>1, <2>5, <3>1, <3>2, <3>3 DEF Effect
  <2>6. j = task'[w] /\ UNCHANGED <<tree, context>>
    BY <1>0, <1>2, <2>0
  <2> QED
    BY <2>1, <2>2, <2>3, <2>4, <2>5, <2>6 DEF Knows, Kept
<1>8. \A v \in Workers : task'[v] \in Files \ Ignored => Knows(v)'
  BY <1>0, <1>6, <1>7
<1> QED
  BY <1>5, <1>8 DEF Mirrored

\* Nor does a task that changes hands.
LEMMA HandsMirror ==
    ASSUME IInv, NEW w \in Workers, Mirrored,
           Receive(w) \/ Return(w) \/ Park(w) \/ Claim(w) \/ Finish(w)
    PROVE  Mirrored'
<1>1. /\ \A k \in Keys : Due(k) => Due(k)' \/ (Claim(w) /\ k = task[w])
      /\ \A v \in Workers \ {w} : /\ pc'[v] = pc[v] /\ task'[v] = task[v]
                                  /\ missing'[v] = missing[v] /\ snap'[v] = snap[v]
      /\ UNCHANGED <<done, tree, context, fooled, remote, lastOK>>
      /\ pc'[w] \in {"claim", "select", "returned", "begin"}
  BY DueInHand
<1>2. SUFFICES ASSUME ~done PROVE Mirrored'
  BY <1>1 DEF Mirrored
<1>3. ASSUME NEW f \in Files \ Ignored, f \notin inFlight', lastOK[f]
      PROVE  Kept(f)'
  <2>1. f \in Keys /\ (f \notin inFlight => Kept(f))
    BY <1>2, <1>3 DEF Mirrored, Keys
  <2>2. CASE Claim(w) /\ f = task[w]
    BY <1>3, <2>2 DEF Claim
  <2>3. CASE f \in inFlight
    <3>1. Finish(w) /\ f = task[w]
      BY <1>3, <2>3 DEF Receive, Return, Park, Claim, Finish, gateVars
    <3>2. pc[w] = "finish" /\ ~Claim(w)
      BY <3>1 DEF Finish, Claim
    <3> QED
      BY <1>1, <1>2, <1>3, <2>1, <3>1, <3>2 DEF Mirrored, Knows, Kept
  <2> QED
    BY <1>1, <2>1, <2>2, <2>3 DEF Kept
<1>4. ASSUME NEW v \in Workers \ {w}, task[v] \in Files \ Ignored PROVE Knows(v)'
  <2>1. Knows(v) /\ task[v] \in Keys
    BY <1>2, <1>4 DEF Mirrored, Keys
  <2>2. CASE pc[v] \in Syncing
    <3>1. ~(Claim(w) /\ task[v] = task[w])
      BY <2>2 DEF Claim, IInv, OneSyncPerFile
    <3> QED
      BY <1>1, <2>1, <3>1 DEF Knows, Kept
  <2>3. CASE pc[v] \notin Syncing
    BY <1>1, <2>3 DEF Knows, Syncing, WorkerStates
  <2> QED
    BY <2>2, <2>3
<1>5. Knows(w)'
  BY <1>1 DEF Knows
<1> QED
  BY <1>1, <1>3, <1>4, <1>5 DEF Mirrored

\* Nor do the user, the calls of others, and steps in which nothing happens.
LEMMA OthersMirror ==
    ASSUME IInv, Mirrored,
           \/ User \/ Stop \/ UpdateProfiles \/ ForgetAll \/ UNCHANGED vars
           \/ \E k \in Keys : Enqueue(k) \/ EnqueueDrops(k)
    PROVE  Mirrored'
<1>1. UNCHANGED <<inFlight, pending, pc, task, missing, snap, remote, lastOK>>
  BY DEF User, Stop, UpdateProfiles, ForgetAll, Enqueue, EnqueueDrops, vars, gateVars, localVars, sideVars
<1>2. CASE Stop \/ \E k \in Keys : EnqueueDrops(k)
  BY <1>2 DEF Stop, EnqueueDrops, Mirrored
<1>3. CASE User \/ UpdateProfiles \/ ForgetAll \/ UNCHANGED vars \/ \E k \in Keys : Enqueue(k)
  <2>1. /\ done' = done /\ fooled \subseteq fooled'
        /\ \A w \in Workers :
              pc[w] = "statContext" /\ ~context => ~context' \/ task[w] \in fooled'
        /\ \A f \in Files : tree'[f] = tree[f] \/ Due(f)'
        /\ \A k \in Keys : Due(k) => Due(k)'
    <3>1. CASE User
      <4>1. /\ timers \subseteq timers' /\ UNCHANGED <<done, queue>> /\ fooled \subseteq fooled'
            /\ \A w \in Workers :
                  pc[w] = "statContext" /\ ~context => ~context' \/ task[w] \in fooled'
            /\ \A f \in Files : tree'[f] = tree[f] \/ f \in timers'
        BY <3>1, UserRemoves DEF User, IInv
      <4>2. \A k \in Keys : Dirty(k)' <=> Dirty(k)
        BY <1>1, <4>1 DEF Dirty
      <4> QED
        BY <4>1, <4>2 DEF Due
    <3>2. CASE UpdateProfiles \/ ForgetAll \/ UNCHANGED vars
      BY <1>1, <3>2 DEF UpdateProfiles, ForgetAll, vars, userVars, Due, Dirty
    <3>3. ASSUME NEW k \in Keys, Enqueue(k)
          PROVE  /\ UNCHANGED <<done, context, fooled, tree>>
                 /\ \A j \in Keys : Due(j) => Due(j)'
      <4>1. /\ UNCHANGED <<done, context, fooled, tree>> /\ queue \in Seq(Keys)
            /\ queue' = Append(queue, k) /\ timers' = timers \ {k}
        BY <3>3 DEF Enqueue, IInv, TypeOK
      <4>2. /\ Len(queue) \in Nat /\ Len(queue') = Len(queue) + 1
            /\ queue'[Len(queue) + 1] = k
            /\ \A i \in 1..Len(queue) : queue'[i] = queue[i]
        BY <4>1
      <4>3. \A j \in Keys : Queued(j) \/ j = k => Queued(j)'
        BY <4>2 DEF Queued
      <4>4. \A j \in Keys : Held(j) => Held(j)'
        BY <1>1 DEF Held
      <4>5. \A j \in Keys : Dirty(j)' <=> j \in pending' \/ Queued(j)' \/ Held(j)'
        BY DEF Dirty, Queued, Held
      <4>6. \A j \in Keys : Due(j) => Due(j)'
        BY <1>1, <4>1, <4>3, <4>4, <4>5, DirtyIs DEF Due
      <4> QED
        BY <4>1, <4>6
    <3> QED
      BY <1>3, <3>1, <3>2, <3>3
  <2>2. SUFFICES ASSUME ~done PROVE Mirrored'
    BY <2>1 DEF Mirrored
  <2>3. \A f \in Files \ Ignored :
           f \notin inFlight' /\ lastOK'[f] => Kept(f)'
    BY <1>1, <2>1, <2>2 DEF Mirrored, Keys, Kept
  <2>4. ASSUME NEW w \in Workers, task[w] \in Files \ Ignored PROVE Knows(w)'
    <3>1. Knows(w) /\ task[w] \in Keys /\ task[w] \in Files
      BY <2>2, <2>4 DEF Mirrored, Keys
    <3> QED
      BY <1>1, <2>1, <3>1 DEF Knows, Kept
  <2> QED
    BY <1>1, <2>3, <2>4 DEF Mirrored
<1> QED
  BY <1>2, <1>3

\* Everything is on the server at first, but what is ignored.
LEMMA InitMirrored == Init => Mirrored
<1> SUFFICES ASSUME Init PROVE Mirrored
  OBVIOUS
<1>1. \A f \in Files \ Ignored : remote[f] = tree[f]
  BY DEF Init, Keys
<1>2. \A w \in Workers : pc[w] = "select"
  BY DEF Init
<1> QED
  BY <1>1, <1>2 DEF Mirrored, Knows, Kept

\* When all is quiet, a file whose last sync ended well is on the server as it
\* is on disk: no interleaving of edits, deletions, retries and syncs of the
\* same file or its directory leaves an old or torn version behind, and only a
\* context directory that came back in the middle of a decision a missing one.
THEOREM QuietIsSynced == Spec => []SettledIsSynced
<1>1. IInv /\ Mirrored /\ [Next]_vars => Mirrored'
  BY ProcessMirrors, HandsMirror, OthersMirror DEF Next, Worker, Terminated
<1>2. IInv /\ Mirrored => SettledIsSynced
  <2> SUFFICES ASSUME IInv, Mirrored, Settled, ~done, NEW f \in Files \ Ignored, lastOK[f]
               PROVE  remote[f] = tree[f] \/ (remote[f] = Gone /\ f \in fooled)
    BY DEF SettledIsSynced
  <2>1. inFlight = {}
    BY DEF Settled, IInv, OneSyncPerFile, Syncing
  <2>2. ~Due(f)
    BY <2>1 DEF Due, Dirty, Settled, IInv, ParkedHasOwner
  <2> QED
    BY <2>1, <2>2 DEF Mirrored, Kept
<1> QED
  BY <1>1, <1>2, InitMirrored, Invariance, PTL DEF Spec
=============================================================================

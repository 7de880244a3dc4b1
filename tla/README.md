# sfync in TLA+

TLA+ models of the concurrent and failure-prone parts of
[sfync](https://github.com/deppess/sfync), a tool that synchronises local
directories with servers over SFTP and FTP, once (`sfync up`, `down`, `push`)
or continuously (`sfync daemon`); TLC runs over small instances; and proofs,
checked by TLAPS, that hold for every instance. Paths below are relative to the
repository (`internal/...`, `cmd/...`).

## 1. The system

```
 user -> file system -> inotify -> Watcher -> Debouncer -> UploadQueue (workers)
                                     ^                        |  Acquire/release
 config file -> handleConfigReload --+----> UpdateProfiles -> ConnectionPool
                                                              |  RemoteClient
 sfync up / down -> Mirror -> runTransfers (goroutines) ------+
                                                              v
                                  SFTPClient / FTPClient: connPool of sessions,
                                  upload through a partial file and a rename
```

| Component | State it keeps | Operations | What is hard | What makes it correct |
|---|---|---|---|---|
| connection pool of a client, `transfer/connpool.go` | idle stack, number of open slots, limit, closed flag, last dial error, a condition variable | `acquire`, `release`, `tryAcquireIdle`, `closeAll` | wake-ups, dials outside the mutex, failing dials that shrink the limit, closing under way | slots counted exactly, one user per connection, nobody sleeps for ever |
| client pool of the daemon, `transfer/pool.go` | one entry per profile with users, retired flag, time of the last success | `Acquire`, release, `UpdateProfiles`, `CloseAll` | two dials at once, dead clients with several users, reloads during a dial | never closed under a user, closed once, none forgotten, none of outdated settings |
| upload queue, `watcher/queue.go` | channel, in-flight and pending sets, known remote directories | `Enqueue`, workers, `claim`/`finish`, `processUpload`, `deleteRemote`, `Stop`, `UpdateProfiles` | changes during a sync, merged tasks, lost replies, directories that go | one sync per file, no change lost, no deletion the user did not make, `Stop` returns |
| watcher and debouncer, `watcher/watcher.go`, `debounce.go` | kernel watches, profiles with their contexts, pattern cache, timers | `Watch`, `Unwatch`, event loop, `watchNewDir`, `Add` | the tree changes under the walks, nested contexts, stale patterns | no change of a watched profile is missed |
| parallel transfers, `transfer/mirror.go:640-769` | generation, read-write lock, the jobs of a phase | `runTransfers`, `healthy`, `reconnect` | several workers fail on one connection | no request during a reconnection, a new connection is kept, every job is answered truthfully |
| mirror, `transfer/mirror.go:23-640` | two scanned trees, plan, result | scan, `diffTrees`, `sortActions`, `executeUp`, `executeDown` | order of directories and files, times cut by servers, failed listings | a quiet mirror leaves equal trees, only what the source lacks is deleted |
| atomic, resumable uploads, `transfer/sftp.go`, `ftp.go`, `atomic.go` | the partial file on the server | `upload`, `sftpReplace`, `ftpReplace`, `canResumePartial` | connections lost at any point, stale partial files, times of two clocks, renames that are refused | the destination is always some complete version |
| FTP client, `transfer/ftp.go`, `ftpsession.go` | a pool of control connections, each with its deadline and working directory; the offset of the server's listings under `offsetMu` | `Connect`, `Close`, `IsAlive`, every operation as a sequence of commands | replies that come late, errors that are overlooked or hidden by a local one, `MkdirAll` by trial, a mutex held over a round trip | a session returns to the pool clean and in step, every call returns, the offset is the server's |
| SFTP client, `transfer/sftp.go`, `deadline.go` | one SSH connection with one deadline; slots and extra sessions for large transfers | `Connect`, `Close`, `IsAlive`, metadata, `MkdirAll`, transfers | overlapping operations on one deadline, extra sessions refused, sessions closed under no deadline, several callers of `MkdirAll` | the deadline is the latest of those in flight, every call returns, the path is made |
| daemon, `cmd/daemon.go` | the map of watched profiles; the profiles of the pool, the queue and the watcher | start, watch on the configuration, `handleConfigReload`, shutdown | order of the updates, watches that fail, ways in which editors save | what is watched is what is configured, no file is synced by half a configuration |
| configuration, `config/config.go`, `types.go` | a file | `Load`, `SetDefaults`, `Validate` | files half written, partly valid | all of a file or nothing, and complete |
| mounts, `mount/*.go`, `cmd/mount.go` | the table of mounts, directories, a temporary file with a password | `Mount`, `Unmount`, `UnmountAll`, listing | commands at the same time, killed while their tool goes on, failing; mounts that vanish or whose program dies | remote files survive the clean-up, nothing is left behind, what is told is so |
| notifier, `watcher/notifier.go` | counters per profile behind a mutex | `NotifySuccess`, `NotifyError`, `ResetErrorCount` | - | wording of desktop notifications only |
| downloads, `.syncignore` matching, host keys, commands, installation, completion | files | parsing, string matching, external programs | - | covered by the repository's table tests |

## 2. The modules and how they correspond to the code

Each model is read off the Go code: an action is a critical section, or the
stretch between two calls that can be interleaved with something, with all that
the code changes in it. A mutex held across a section is implicit in the
atomicity of the action; what the code does outside of it (dialling, closing,
probing, transferring, reading the disk) takes steps of its own. Data are
abstracted to what the properties tell apart. The operators marked "Mutant" in
the modules are slips that the properties must notice; no specification uses
them.

| Module | Models | State | Actions |
|---|---|---|---|
| `ConnPool` | `connpool.go` | `idle`, `open`, `dialing`, `dialErr`, `limit`, `closed`, per goroutine its place and connection | `Acquire` (one pass of the loop), `DialReturns`, `Release`, `CloseReleased`, `TryAcquireIdle`, `CloseAll`, `CloseDoomed` |
| `SyncGate` | what the queue promises per file (abstract) | dirty, busy, halted | `Announce`, `Begin`, `End`, `Halt` |
| `UploadQueue` | `queue.go` with the file system and the server around it | channel, `inFlight`, `pending`, `knownDirs`, per worker its place in `processUpload` | `Enqueue`, `Receive`, `Claim`, `Park`, `Finish`, the stations of `processUpload` and `deleteRemote`, `Stop`, `UpdateProfiles` and `ForgetAll` (its two halves); the user edits, deletes and moves the context |
| `ClientPool` | `pool.go` | entries with `users`, `retired`, the freshness mark; per caller its place | `Acquire` in its stations (share, probe, discard, dial, install or share after all), `Release`, `UpdateProfiles`, `CloseAll` |
| `Transfers` | `runTransfers`, `reconnectCoordinator` | `gen`, readers and writer of `rc.rw`, the client's connection, per worker its place | `Take`, `Attempt`, `Perform`, `Fail`, `Doubt`, `Probe`, `Lock`, `Skip`, `Close`, `Connect`, `Refused`, `Report`; the connection dies |
| `AtomicUpload` | one file's uploads | server inodes by name, blocks, per uploader its attempt | open and resume, write blocks in order or concurrently, set times, rename, remove and rename after a refusal, clean up; the user edits; faults; what a comparison of times may say (`Stamped`) |
| `Replace` | what an upload promises to who reads the file on the server (abstract) | the local version, the live file, the version it was uploaded as | `Save`, `Put`, `TakeAway`, `Answer` |
| `Mirror` | `MirrorUp`, `MirrorDown` | two trees, scan, plan, result | `ScanTrees`, `Mkdir`, `Transfer`, `Delete`, `DeleteDir` in the order of the phases; faults and edits under way |
| `Watcher` | `watcher.go`, `debounce.go`, calls from `handleConfigReload` | tree, kernel watches and events, registered profiles, cache, the two walks, timers | `Register`, `LoadPatterns`, `StorePatterns`, `Visit`, `Read`, `WatchReturns`, `Unwatch`...; `HandleMade`, `HandleWritten`, `HandleGone`, `HandleIgnore`, `VisitNew` (`VisitDir`, `VisitFile`), `ReadNew`; `Expire`, `Enqueue` |
| `RemoteClient` | the interface in `client.go`, as a caller sees it | per goroutine its operation and place in it, the path `MkdirAll` makes | entering and returning; who may run beside whom |
| `FTPClient` | `ftp.go`, `ftpsession.go` | sessions: in the pool or in use, deadline, line, working directory, the command whose reply is missing; `offsetMu` and what is known | `Acquire`, `Dialled`, `DialFails`, `Reply`, `Lose`, `Release`, `Quit`, `Closing`, `Detect`, `Probed`, `WaitsTooLong` |
| `SFTPClient` | `sftp.go`, `deadline.go` | link, the budgets in flight and the connection's deadline, slots, extra sessions | `ConnectSFTP`, `Handshaken`, `Shut`, `Answer`, `TakeSlot`, `TakeSession`, `OpenSession`, `WaitedInVain`, `Finish`; `Tick` and `Tear` for time |
| `Clients` | the two clients behind `NewClient` | the above | a step of the client in use; the fairness |
| `ListOffset` | `listOffsetFrom` | none: an operator | - |
| `Config` | `Load`, `SetDefaults`, `Validate` | none: operators on files and profiles | - |
| `Daemon` | `cmd/daemon.go`, over reductions of the pool, queue and watcher to their profiles | file and its watch, the place of the reload, the four copies of the profiles, one file being synced | `BootLoad`, `Booted`, `HandleEvent`, `UpdatePool`, `Revise`, `Revised`, `Start`, `UpdateQueue`, `Change`, `Take`, `Send`, `Signalled`, `Exit`; the editor's `Truncate`, `Write`, `Replace`, `MoveAway` |
| `Mounts` | `internal/mount`, `cmd/mount.go` | mounts and directories by mount point, secrets in `/tmp`, per command its place | `Begin`, `IsFree`, `Reach`, `MakeDir`, `WriteConfig`, `MountTool`, `Verify`, `CleanUp`, `List`, `StillMounted`, `Fusermount`, `RemoveDir`, `Kill`, `LateMount`, `Drops`, `Dies`... |

The commands of an FTP operation are tables rather than actions: `First(o)` is
the command an operation begins with, `OnDone`, `OnRefusal` and `OnLoss` say
where each answer leads, and `Reply` and `Lose` are the two ways a command ends.
Each row is an `if err` of the code; `Overlooks` are the commands whose error
the code looks at without asking what kind it is, and `LocalFails` the transfers
whose lost end a failure of the local file hides. `slip` is the abstraction of
a reply that is still to come: from then on what the session reads is the
answer to some earlier command and may say anything.

The modules are composed through what they promise each other where one product
could not be enumerated: a step of `Mirror` is a job of `Transfers`; a worker of
`UploadQueue` is a caller of `ClientPool` and, while uploading, the one uploader
of `AtomicUpload`; the calls of `Enqueue` in `UploadQueue` are the ends of the
timers of `Watcher`; `ConnPool` is what `FTPClient` and `SFTPClient` keep their
sessions in, in `FTPClient` with the outcomes of its dials and in `SFTPClient`
with the slots it allows; an attempt of `AtomicUpload` is the transfer request
of either. Two modules are compositions: `Clients` extends both clients and runs
the one in use under a common fairness, and `Daemon` puts the reload in front of
a pool, a queue and a watcher that are reduced to the profiles each of them
holds, with one file on its way through all three. `UploadQueue` is connected
to `SyncGate` by a refinement mapping (`Gate == INSTANCE SyncGate WITH ...`),
and `AtomicUpload` to `Replace` (`Promise`): the live file is the contents of the
destination's inode, so that a write through a handle would show in it.

External, modelled from how the code uses them: the kernel's watches, the
user and the editor, `sshfs`, `rclone` and `fusermount`, servers (which answer, refuse, or lose the connection before or after
they have acted), `time.AfterFunc`, the condition variable, `sync.RWMutex`
(a pending writer keeps new readers out) and directory listings.

## 3. The runs

| Run | Instance | Asks |
|---|---|---|
| `connpool` | 3 goroutines, limit 2, 3 connections, 2 calls each | exact slots, exclusive use, no stranded waiter, honest dial errors; under fairness every `acquire` returns and a closed pool drains |
| `queue` | 2 workers, a file and its directory, channel of 1, 2 attempts, 2 edits, the context away and back, 1 reload | what settled well is synced, no deletion but the user's, or where the context came back between the two looks at it, implementation of `SyncGate` (one sync per file, no change forgotten) |
| `queue_live` | 2 workers, one file and its directory, 2 edits, fair | every change is taken up, `Stop` returns |
| `clientpool` | 2 workers, 1 profile, 2 reloads, 2 connections, fair | never closed under a user, no leak, retired ones close |
| `transfers` | 3 workers, 3 jobs (ordinary, refused, not repeatable), 2 deaths, 1 refused reconnection, both kinds of client, fair | separation of requests and reconnections, kept connections, one death costs no job, complete answers |
| `upload` | 1 uploader, 3 blocks, 4 attempts, 3 faults, 2 edits, SFTP with and without `posix-rename` and FTP, with and without an overwriting rename, every time the two clocks and the user can set | what is installed is whole and one version, never truncated; implementation of `Replace` (the live file changes in one step, never to an older version, and vanishes on a server that overwrites only after it refused a rename); an undisturbed attempt succeeds |
| `mirror` | every pair of trees over a directory with two names, one ignored; each side unlistable somewhere; 1 fault, 1 edit | a quiet mirror made the trees equal, the phases are in a sufficient order, ignored paths untouched, only absent ones deleted |
| `watcher` | 2 nested contexts, a directory with a file, 3 changes, 1 change of `.syncignore`, 3 calls of `Watch`/`Unwatch` | nothing missed |
| `client` | 2 goroutines, 3 calls of any kind, an FTP client with 2 connections or an SFTP client with 2 slots, a path of 2 components, 1 fault, timeouts 1 and 2, fair | `MkdirAll` makes the path, sessions come back clean, out of step only where an error is overlooked or hidden, the deadline is the latest, calls return |
| `ftp_step` | the same | *violated*, see finding 1 |
| `daemon` | 6 configurations of 2 profiles (shared and separate contexts, another host, switched off, without a context, invalid), 2 saves, 1 watch that fails, 1 file, 2 attempts | complete profiles only, watched as configured, nothing astray or dropped but across a reload, nothing unasked for, what is on disk is in force |
| `mounts` | 2 profiles, by `sshfs` and `rclone`, 2 terminals, 3 commands, 1 failure, kill, vanished or dead mount, 1 change of a context; the tool of a killed command may mount later | remote files survive where no mount runs into another command, nothing left behind, what is told is so |

Seven more configurations check one property each that documents the code's
divergence from its documentation; TLC finds the violation described in
section 4. They are no regular runs: `StaleClientPool.cfg` (`OfferedIsCurrent`),
`PanicTransfers.cfg` (`FailuresAreReported`), `HolesAtomicUpload.cfg`
(`InstalledComplete`), `StaleAtomicUpload.cfg` (`ContinuesCurrent`),
`GoneAtomicUpload.cfg` (`MissingBriefly`), `BackUploadQueue.cfg` of
`MCUploadQueue` (`NeverMirrored`) and `IgnoreWatcher.cfg` of `MCWatcher`
(`LivePatterns`).
The operators `TypeOK` (`TreesTyped` in `Mirror`) document the types of the
variables. They are part of the inductive invariants of section 5 and may be
added to any configuration of their module.

**Why these bounds.** Each is the least at which the case a property is about
happens. `connpool`: two slots and three goroutines, so that a dial fails while
one connection is established, while another dial is under way, and while a
third goroutine sleeps. `queue`: a task is parked only if a second worker meets
the first one's file, a retry needs two attempts, and an edit during a sync or
a deletion followed by a new file needs two edits; two moves take the context
away and bring it back, between the two looks of a worker or not. `queue_live`
has neither moves nor reloads, with which the liveness check does not end in
reasonable time; neither adds a place at which a worker waits. No path of the runs
is one that `.syncignore` covers: such a task ends before the transfer, and
is in the theorems with all others. `transfers`: a third worker
is needed for the second failing one to find the connection replaced; a second
death, for a retry to fail. `upload`: three blocks are the least with a hole
before a written end, three faults let partial files of two versions meet, or a
rename be refused, the next request fail, and a third go wrong in the retry.
`mirror`: three files, one differing from the first in size alone and one in
time alone, by more than the slack and the server's precision together, so that
a difference counts exactly if it is real. `watcher`: three changes are the least that make a directory
and change a file in it twice while it is walked; the second, nested
profile takes over a part of the first one's tree. `clientpool` has two
connections; a race of two dials and a replacement are both in it, but not one
after the other with a third. `client`: two callers overlap in every pair of
operations, the third call uses what they left behind (the first is a `Connect`
in many behaviours, which is why three), a path of two components has an inner
and a last one, and two lengths of a timeout are the least of which one is the
latest. `daemon`: two saves are a configuration in force and its replacement
with an editor's two-step save in between, or one on top of another; two
attempts are the least with a retry across a reload. `mounts`: two terminals
meet at one mount point, the third command comes after both; a kill is enough
for a mount that comes late, under any of the commands that follow.

Deadlock is checked where the code must not stop (`connpool`, `queue`,
`queue_live`, `transfers`; the normal end is a stuttering action there).
The other models end at their bounds or when the process is down, where nothing
is wrong with stopping.

**Fairness.** Weak fairness, and only of goroutines that can run: the Go
scheduler is preemptive, dials, requests and probes have deadlines
(`transfer/deadline.go`, the dialler's timeout), timers fire, and a lease or a
connection is released by a `defer` or on every path. In `Clients`: the steps of
a goroutine, each of which is enabled only while the server answers, the
deadline has run out or the connection has ended; and time. A server that went silent need
not speak again, a cut line is not restored, nobody has to call anything. No
fairness is assumed of the user, of reloads, of the network, or of one branch
of a `select` over another. Strong fairness is not used anywhere; `ConnPool`
needs none because each call is bounded by `MaxCalls`. `Daemon` and `Mounts`
state safety only.

**Exceptions in the properties.** Where the code has a known gap, the property
names it with a variable of its own instead of being weakened as a whole, so
that it still speaks about everything else: `fooled` (the context came back
between the two looks at it) in `UploadQueue`, `dirty` (an edit under an attempt,
or one that the times do not show) and `Balked` (a rename refused by a server
that overwrites) in `AtomicUpload`, `trampled`, `raced` and `uncovered` in
`Watcher`, `robbed`, `half` and `missed` and the `crossed` of a task in `Daemon`,
`overlapped` and `disturbed` in `Mounts`, `excused` and `slip` in the clients
(`"local"` where a failure of the local file hid the loss),
`Stranded` in `SFTPClient`. Dropping any of them makes TLC show the gap.

## 4. What the code does against its documentation

1. **An FTP session is reused out of step** (`ftp.go:568`, run `ftp_step`). Two
   things hide a timeout from `sessionBroken`. The code drops an error without
   asking what it was: `detectListOffset` takes one of `GetTime` for an unknown
   offset, `MkdirAll` one of `CurrentDir` for a missing directory (`ftp.go:468`),
   and `upload` ignores one of the deletion of its partial file (`ftp.go:299`,
   `319`). Or the local side of a transfer has failed too: `writeLocalAtomic`
   drops the error of `finish`, with which a download waits for the end of the
   transfer (`atomic.go:63-67`, `77-82`, `ftp.go:400`), and what is left is an
   `*fs.PathError`, which `sessionBroken` returns false for (`ftp.go:132`); so
   does an upload that cannot read its local file. In each case `withConn` puts
   the session back with the late reply still to come: the next operation reads
   it as its own. The comment at `ftp.go:139` says that an expired deadline
   discards the connection. The trace of the run is one of these ways, not
   always the same. `OutOfStepOnlyWhenOverlooked` lists them: every other
   command of the model whose reply is lost ends its session.
2. **A client of old settings is installed** (`pool.go:95`,
   `StaleClientPool.cfg`). `Acquire` reads the profile, dials outside of the lock
   and installs what it gets; a reload in between is not noticed and nothing
   retires the client later, against the comment at `pool.go:21`.
3. **A failed reconnection ends the process** (`mirror.go:705`,
   `PanicTransfers.cfg`). `Close` has set the SFTP session to nil when `Connect`
   fails, the worker takes its next job, and the request dereferences nil;
   `client.go:66` speaks of errors that are reported. An FTP client returns an
   error and is not affected.
4. **A file with a hole is installed** (`sftp.go:355`, `HolesAtomicUpload.cfg`).
   The session writes concurrently, so the size of a partial file does not say how
   much of it was written; resuming at that size and renaming installs zeros in
   the middle of the file, against `README.md:89`. `InstalledWhole` therefore
   excepts SFTP uploads that were continued, and states the rest.
5. **A directory that is no longer ignored is not watched** (`watcher.go:207`,
   `IgnoreWatcher.cfg`). A write of `.syncignore` only empties the cache; the
   directories that were skipped get no watch until the daemon is restarted,
   against `README.md:105`. Removing `.syncignore` does not even empty it.
6. **A file is deleted that the user did not delete** (`queue.go:232`,
   `BackUploadQueue.cfg`). The guard of `queue.go:229`, "Guard against
   mass-delete", looks at the context directory after the file was found
   missing. If the directory comes back in between (a disk mounted, a branch
   checked out), the guard passes and the file is deleted on the server.
   `OnlyDeletedFilesAreRemoved` excepts exactly this (`fooled`), and the file
   stays excepted until it is uploaded again.
7. **A partial file of an older version is continued** (`atomic.go:43`,
   `StaleAtomicUpload.cfg`). `canResumePartial` is there lest the partial file
   be a "prefix of an older version" (`atomic.go:39-42`), and compares the time
   the server gives it with that of the local file: two clocks, if the attempt
   ended before `chtimes`, and a local time that `cp -p` and `mv` bring along.
   What is installed is then the head of one version and the tail of another.
   `InstalledWhole` excepts what was edited unseen (`dirty`).
8. **A destination goes missing on a server that overwrites** (`ftp.go:333`,
   `sftp.go:442`, `GoneAtomicUpload.cfg`). After any refusal of a plain rename,
   be it for lack of permission or space, the destination is deleted and the
   rename tried again. If that fails as well, or the connection ends in
   between, the file is gone until the next upload; the comment at
   `ftp.go:329-331` has this only for servers that refuse to overwrite, and
   there for "a brief window". `posix-rename` is not affected: its refusal is
   returned (`sftp.go:439`). `ImplementsReplace` and `DestinationKept` except an
   attempt so refused (`Balked`).

Further observations, each of them a state or a behaviour of the models that a
property states an exception for, or that no run is about:

- `connpool.go:129`: `release` gives the slot of a broken connection up before
  it is closed, so the server may see one connection more than the limit
  (`README.md:59`) until the close returns.
- `pool.go:114`: a success released after another user's failure restores the
  mark of a dead client, so the retry of the failed operation gets it without a
  probe, against `pool.go:15`; the attempt after that probes.
- `ftp.go:337`: two uploaders of one file (the daemon and a command) share the
  partial file's name; over FTP the slower one may take the missing partial
  file for a server that does not overwrite and delete the destination. Over both protocols the one that
  opens the partial file empties it under the other, which then installs what
  there is of it; the second goes on writing into the live file
  (`ImplementsReplace` with two `Uploaders`).
- `mirror.go:311`, `361`: what lies under a conflict is deleted although
  `mirror.go:457` announces the conflict as skipped.
- `mirror.go:141`, `222`: a directory that cannot be listed counts as empty,
  with deletions on the other side as the consequence
  (`OnlyAbsentAreDeleted` excepts it). `queue.go:229` has a guard for this
  case, the mirror has none.
- `sftp.go:383`: a local file edited in place while it is being copied can be
  installed as a mixture of two versions; in the daemon the event of the edit
  uploads it again.
- `mirror.go:520`: a repeated `RemoveDir` whose first reply was lost reports an
  error for what was done (the jobs `Once` of `Transfers`).
- `mirror.go:501`: a mirror acts on the trees it has scanned; what the user
  creates or edits afterwards at a path of the plan is overwritten or deleted.
- `watcher.go:69`, `118`, `240`: patterns loaded before a change of
  `.syncignore` are stored in the cache after it, or walked with; and a new
  directory is walked by the cached patterns while the event of the change
  still waits in the queue, so that what the new `.syncignore` no longer covers
  is skipped for good. `NothingMissed` excepts this (`raced`).
- `watcher.go:163`: `Unwatch` removes watches that a profile with an
  overlapping context relies on; `NothingMissed` excepts this (`trampled`).
- `watcher.go:233`: an overflow of the kernel's event queue is only printed.
- `sftp.go:197`: the extra session of a large transfer is opened without a
  `begin`, so a server that falls silent then keeps the caller, its slot and
  those who wait for the slot, unless another operation in flight ends the
  connection (`Stranded`). For the same reason the 5 seconds of `IsAlive` count
  for little while a transfer is in flight: the connection's deadline is the
  latest one.
- `sftp.go:227`, `52`: `Close`, which a reconnection begins with, closes the
  session and the extra ones under no deadline of its own, and the library waits
  there for the server to end its side. The comment at `sftp.go:64` has a
  silent server that "would hang Connect forever" in mind for what follows it
  only (`Stranded`).
- `sftp.go:569`: the component-wise part of `MkdirAll` takes an existing *file*
  for a directory; its fast path does not.
- `daemon.go:136-145`: a save that renames a new file over the configuration
  sends `Remove` and no `Write`; one that moves the old file away sends
  `Rename`, on which the watch is not added again; one between loading and
  watching the file at start-up is not seen at all. `README.md:109` promises
  hot reloads on save (`missed`).
- `daemon.go:207-213`: a profile whose context was removed while `autoSync`
  stays is not unwatched but moved, and `Watch` of the empty context watches
  the daemon's working directory. The model has the empty context as a
  directory of its own.
- `daemon.go:201`, `watcher.go:163`: removing or moving one of two profiles
  with a common directory takes the watch away from the other (`robbed`).
- `watcher.go:85-113`: a `Watch` that fails half-way leaves its profile in
  `w.profiles`; the daemon does not know it, and a file that changes in what
  was watched so far is uploaded (`half`).
- `daemon.go:188`, `259`, `queue.go:153`: in the stretch between the updates of
  the pool and of the queue, or on a retry across a reload, a file goes to the
  new host with the remote path of the old profile; a file of a profile watched
  anew before `daemon.go:259` is dropped (`crossed`).
- `mount.go:141`, `187`: `os.RemoveAll` of a mount point goes through whatever
  another command has mounted there meanwhile (`overlapped`). The other command
  may have been killed: `rclone --daemon` (`rclone.go:147`) is a session of its
  own and mounts when it is ready, under whatever is running by then
  (`LateMount`).
- `mount.go:113`, `165`: a mount whose program has died is none for `mountpoint`,
  though it is in the kernel's table: `mount` goes on and fails, `unmount` says
  that it is not mounted, and only `fusermount` by hand helps (`Dies`).
- `mount.go:195`: `unmount --all` knows the mounts under `~/.mounted` only;
  those on a context directory stay (`README.md:78`, `main.go:197`). A context
  that changes between mounting and unmounting makes `unmount` look in the
  wrong place; `cmd/mount.go:160` leaves the mount when no terminal is found.
- `rclone.go:118`: a `mount` that is killed leaves its configuration with the
  password in `/tmp` (`disturbed`).
- `notifier.go:48-66`: the counter of successes is reset with every
  notification, the first of which comes at a count of one: the count is never
  anything else, so that the batches of `README.md:109` do not form.
- The comment at `mirror.go:712` speaks of a single worker for FTP; with
  `ftpConnections` above 1 there are several, which `Transfers` covers.

## 5. The proofs

The theorems are about the specifications themselves, for every value of the
constants that the `ASSUME`s of the modules allow: any number of goroutines,
workers, connections, profiles and commands, any tree, and any bound on calls,
edits, faults and retries. Every safety property of the runs, invariant or
action property, is a theorem. The assumptions are that sets of goroutines are finite where they
are counted, that "none" values are not among the values proper, that bounds are
naturals, and that paths are paths: what is above a path is finite, does not
contain it, and is a chain (`PathsAssumption` of `Mirror` and of `Watcher`).
`CallersAssumption` has at least one caller of a client, and that none of them
is the "none" of `offsetMu`.

The theorems of `AtomicUploadProofs` have one hypothesis besides, which is
stated in them and needed: `Sole`, one uploader at a time. The daemon keeps to
it, by `OneSyncAtATime` of the queue; the daemon and a command at one file do
not, and share the partial file. TLC shows the counterexample without it
(section 4). No theorem has a hypothesis on a bound.

A component's proofs go by an inductive invariant, since hardly any property is
inductive as it stands: `Init` gives it, every action keeps it (one lemma per
action or group of actions), and it gives the property. What the invariants add
to the properties is the argument of why the code is right:

**`ConnPoolProofs`** (`IInv`). That a sleeping waiter is never stranded needs the
slot counter to be exact (a full pool has somebody who will release), the
counter needs each connection in one place, and a dial error is kept only while
every slot is a dial. Cardinalities are handled by three lemmas on one goroutine
arriving at a place, leaving it, or none moving.

**`UploadQueueProofs`**. `IInv`: a worker outside of the `select` has a task, its
locals fit its place, and `inFlight` is *exactly* the tasks between `claim` and
`finish`, which makes exclusivity inductive. The refinement of `SyncGate` then
maps every step to one of it or a stutter: `Enqueue` announces, `claim` begins,
`finish` ends, and parking is invisible since the key is dirty before and
after. `GuardHolds` follows the user's deletions through the two calls of
`os.Stat` (`Deliberate`): who finds the context there after a missing file was
told so by the user's deletion, or the context came back in between and the
file is `fooled`. `QuietIsSynced` rests on `Mirrored`: a file that
nobody syncs is on the server as on disk, or its last sync did not end well, or
it is due again; and what a worker knows of its file at each station is so, or
the file is due again (`Knows`). Both share the lemma on what a step of
`processUpload` can do to a path (`Effect`).

**`ClientPoolProofs`** (`IInv`). An open client is in one of four situations: with
the caller that dialled it, offered, retired under its users, or about to be
closed by one goroutine; and the counter of its users is their number
(`Counted`). `release` and `retire` look at nothing else, so that the last user closes
(`ClosedByTheLast`), nobody closes twice (`Once`), and nothing is forgotten
(`AllAccountedFor`).

**`MirrorProofs`**, in two parts: the trees and the transfers are the two halves
of `mirror.go`. *The mirror*: what is out of the plan and went well is done and stays
done (`Progress`), and in between each path is as the phases expect it
(`Orderly`): a directory is made before what is in it and removed after it,
which sorting by depth sees to, for trees of any depth. `IgnoredStays` and
`OnlyAbsentGo` are action properties. *The transfers*: the readers and the
writer of the lock are the workers at the corresponding places (`LockOK`); no
generation observed is newer than `rc.gen`, and who is on the way to reconnect
while still holding the newest has seen that connection fail (`Justified`,
needed because `Close` itself looks only at generations); what was answered is
done (`Honest`); and until the second death the connection, the generation and
the workers on the way to the lock agree so that nobody loses a job
(`Recovering`, for `DeathIsInvisible`).

**`AtomicUploadProofs`** (`IInv`). The invariant follows the partial file from one
attempt to the next: while nothing is `dirty`, its blocks are those of the
version that the attempt opened, and a partial file which the times let be
continued is of the version of the local file. The times themselves may say
anything at any write and any edit; what the invariant adds is that an edit
which they do not show makes the partial file dirty, and that only emptying it
makes it clean. What is continued is therefore of another version only then
(`OneVersionInstalled`), and the length at which an attempt ends is that of the
file (`NeverCutShort`).
`UploadImplementsReplace` is the step simulation: edits save, the rename puts,
the removal after a refused rename takes away, and everything else cannot be seen at the destination. It needs that the handle of an attempt
is never the destination's (`Placed`) and that attempts do not go back to older
versions (`Forward`). With two uploaders neither the one nor the other holds.

**`DaemonProofs`**, in two parts: the daemon and its watcher. *The daemon*: each
property is about the time between reloads or about a task that has ended, so
`IInv` says what holds *during* a reload: what is in force and what is on its
way is complete (`InForce`, which rests on the lemma `LoadedIsSound` about
`SetDefaults` and `Validate`); the watcher's copy follows the map of what is
watched but for what a failed watch left (`Followed`); the names that the
loop at hand has been through are as the new profiles ask for (`Applied`); a
task that met no reload still finds the profile its file changed under
(`Unmoved`). `LoadedAtRest` adds that every save which completes leaves an
event behind or could not be seen (`Seen`). *The watcher* (`WatcherInv`):
between a directory that a profile covers and its watch there is nothing but a
walk that is to come (`AllGuarded`, for a profile being added `Adding`), and what the queue was not
told of has a timer, or an event or a walk that will start one (`AllDue`). The
order of `handleEvent` carries the argument: a directory is watched before it
is read, so that what is made in it is either read or reported. The proof
attempt brought to light the walk by cached patterns of section 4, which
appears only in trees deeper than that of the run.

**`ClientsProofs`** (`IInv`). *FTP*: a session is in the pool, with one call, or as
good as new; a call that missed a reply whose loss the code looks at, with no
local failure to hide it, is doomed: it has failed or its next command will, so
its session is not given back. *SFTP*:
the deadline is the greatest of the budgets after each `begin` and `end`, and
they run down together. *MkdirAll*: the component a call has just been told of
is there, whoever made it, unless the call was excused (`MkdirKnows`). `OffsetRecovered` is integer
arithmetic: for every time and every zone that is a multiple of a quarter of an
hour within 14 hours, rounding the difference of the listed minute and the exact
time gives the zone.

**`MountsProofs`**. `IInv`: where no mount has run into another command at most one
file system is mounted, who mounts there is alone with it, and every command
which counts on a free mount point, up to the removal, has it (`Alone`). A mount
that comes late either finds nobody who counts on its place or marks it. `LInv`,
for what is left behind: a directory without a mount has a command that will
remove it or mount there (`Tidy`), a profile is mounted only where its
configuration says (`Faithful`, of late mounts too), a dead mount is a
disturbance, and the password is there for the time that
`rclone` takes (`Secret`). `TellsTheTruth` is the action property that a command
tells what is so at that moment; it uses `IInv`.

**Only model-checked**: liveness (`AcquireReturns`, `ClosedPoolDrains`,
`ChangesAnswered`, `StopReturns`, `RetiredCloses`, `EveryJobAnswered`,
`CallsReturn`), which needs fairness and with it `ENABLED`, out of reach of the
provers; and the disagreements of section 4, which are counterexamples.

## 6. What is not modelled

- Matching of patterns, path arguments, the paths and the home directory in the
  configuration, host keys and authentication, completions and installation:
  string processing and external programs without state the other parts share.
- Downloads (`writeLocalAtomic`): a private temporary file and one rename, no
  retry over it; a step of `Mirror`.
- The notifier: counters behind one mutex that only choose the wording and the
  number of desktop notifications.
- In `AtomicUpload`: versions of different lengths, and with them an edit that
  shortens the file under an upload; the sizes that are compared are those of
  partial files.
- In `Watcher`: symbolic links, renames of whole directories, removal of a
  context directory, the limit of the kernel's watches, `StopAll`. In
  `ConnPool`: the log line of `onCap`. In `UploadQueue`: several profiles and
  remote paths that change on a reload, which `Daemon` has. In `Mirror`: dry
  runs, symbolic links, and a scan that is not atomic.
- In the clients: what the transfers write (`AtomicUpload`), names, listings
  and their parsing, passive mode, the strings by which errors are told apart.
  The server's tree is one path; a session out of step reads any answer.
- In `Daemon`: subdirectories of a context (`Watcher`), files of one profile
  racing each other (`UploadQueue`), clients and their dials (`ClientPool`). In
  `Mounts`: a context directory under `~/.mounted`, the operating systems
  without `/proc/mounts`, the arguments of the tools.

## 7. Plan

The models and the proofs of the safety properties that the plan began with are
done. Left, the most important first:

1. *A reload in `UploadQueue`* that changes the remote path, now that `Daemon`
   says in which order it comes, with `QuietIsSynced` for the path in force.
2. *The daemon and its queue together*: that a file which is told to the queue
   (`AllTold`) is synced (`QuietIsSynced`), by what `SyncGate` promises, and put
   on the server as `Replace` says.

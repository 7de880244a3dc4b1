----------------------------- MODULE DaemonProofs -----------------------------
(***************************************************************************)
(* What the daemon has in force, for any configurations, any number of     *)
(* profiles, and any number of saves, changes and faults; and what its     *)
(* watcher has seen, for any tree and any profiles on it.                  *)
(*                                                                         *)
(* The three copies of the profiles agree between reloads and apart from   *)
(* them the watcher's fourth copy follows the map of what is watched       *)
(* (Followed); what the loops have been through is as the new profiles ask *)
(* for (Applied); a task that met no reload finds the queue and the pool   *)
(* as they were when its file changed (Unmoved).  On its own stands what   *)
(* the saves and the events agree on (Seen).                               *)
(*                                                                         *)
(* Inside the watcher nothing is between a directory that a profile covers *)
(* and its watch but a walk that is to come (AllGuarded, Adding), and what *)
(* the queue was not told of has a timer, or an event or a walk that will  *)
(* start one (AllDue): while no event and no walk is left, all is watched, *)
(* and when no timer is left either, all is told.                          *)
(***************************************************************************)
EXTENDS Daemon, Watcher, FiniteSetTheorems, SequenceTheorems, WellFoundedInduction, TLAPS

Readable(f) == \A n \in DOMAIN f : f[n] \in Profile
Sound(f)    == \A n \in DOMAIN f : Complete(f[n])

InForce ==
    /\ Readable(disk.profiles) /\ Readable(saving)
    /\ Sound(pool) /\ Sound(queue) /\ Sound(fresh)

\* The watcher keeps what is watched, where it is watched, and what failed.
Followed ==
    /\ half \subseteq DOMAIN stored /\ DOMAIN watching = DOMAIN stored \ half
    /\ \A n \in DOMAIN watching :
          stored[n] = watching[n].context /\ (stored[n] \in kernel \/ n \in robbed)

\* n is watched as the profiles p ask for.
AsIn(p, n) == n \in DOMAIN p /\ p[n].auto /\ watching[n] = p[n]

Applied ==
    /\ faults \in Nat
    /\ up = "boot" => at \in {"load", "start"} /\ task = NoTask
    /\ at = "load" => up \in {"boot", "down"} /\ DOMAIN watching = {} /\ DOMAIN stored = {} /\ half = {}
    /\ at = "stop" => /\ pool = fresh /\ todo \subseteq DOMAIN watching
                      /\ \A n \in DOMAIN watching \ todo : AsIn(fresh, n)
    /\ at = "start" => /\ pool = fresh /\ (up = "boot" => queue = fresh)
                       /\ todo \subseteq Wanted(fresh) \ DOMAIN watching
                       /\ \A n \in DOMAIN watching : AsIn(fresh, n)
                       /\ faults = 0 => Wanted(fresh) \subseteq DOMAIN watching \cup todo
    /\ at \in {"idle", "never", "pool"} =>
                       /\ pool = queue
                       /\ \A n \in DOMAIN watching : AsIn(queue, n)
                       /\ faults = 0 => Wanted(queue) \subseteq DOMAIN watching

Unmoved ==
    /\ task = NoTask \/
       /\ task.phase \in {"queued", "read"}
       /\ task = [phase |-> task.phase, name |-> task.name, root |-> task.root,
                  left |-> task.left, plan |-> task.plan, crossed |-> task.crossed,
                  asked |-> task.asked, half |-> task.half]
       /\ task.asked \/ task.half
       /\ task.crossed \/ task.half \/
          /\ at \in {"idle", "never", "pool"}
          /\ task.name \in DOMAIN queue /\ queue[task.name].context = task.root
          /\ task.phase = "read" => task.plan = queue[task.name]
    /\ AppliedTogether /\ NothingUnasked

IInv == InForce /\ Followed /\ Applied /\ Unmoved

-----------------------------------------------------------------------------
\* A text without a file names no profile.
LEMMA NothingIsEmpty == DOMAIN Nothing = {}
BY DEF Nothing

\* Load stores nothing but profiles with their defaults, each of them valid.
LEMMA LoadedIsSound ==
    ASSUME NEW file, Readable(file.profiles), Loads(file)
    PROVE  Sound(Parsed(file))
<1> SUFFICES ASSUME NEW n \in DOMAIN file.profiles PROVE Complete(SetDefaults(file.profiles[n]))
  BY DEF Sound, Parsed
<1>1. file.profiles[n] \in Profile /\ Validate(SetDefaults(file.profiles[n]))
  BY DEF Readable, Loads
<1>2. ASSUME NEW p \in Profile PROVE SetDefaults(p).protocol = "sftp" \/ SetDefaults(p).connections # 0
  <2> DEFINE named == IF p.protocol = "" THEN "sftp" ELSE p.protocol
             port == IF p.port # 0 THEN p.port ELSE IF named = "sftp" THEN 22 ELSE 21
             most == IF p.connections = 0 /\ named # "sftp" THEN 8 ELSE p.connections
             q    == [p EXCEPT !.protocol = named]
  <2>0. p \in [{"host", "credentials", "protocol", "port", "connections", "context", "auto"} ->
                UNION {STRING, Int, BOOLEAN}]
    BY <1>2 DEF Profile
  <2>1. /\ q.protocol = named /\ q.port = p.port /\ q.connections = p.connections
        /\ "port" \in DOMAIN q /\ "connections" \in DOMAIN q /\ "protocol" \in DOMAIN q
    BY <2>0
  <2>2. SetDefaults(p) = [q EXCEPT !.port = port, !.connections = most]
    BY <2>1 DEF SetDefaults
  <2>3. SetDefaults(p).protocol = named /\ SetDefaults(p).connections = most
    BY <2>1, <2>2
  <2>4. p.connections \in Int
    BY <1>2 DEF Profile
  <2>5. named = "sftp" \/ most # 0
    <3> HIDE DEF named
    <3>q. QED BY <2>4
  <2> HIDE DEF named, most
  <2>q. QED BY <2>3, <2>5
<1>3. ASSUME NEW s, Validate(s), s.protocol = "sftp" \/ s.connections # 0 PROVE Complete(s)
  <2>0. s.credentials \in IF s.protocol = "sftp" THEN {"password", "key"} ELSE {"password"}
    BY <1>3, Zenon DEF Validate
  <2>1. s.protocol \in {"ftp", "ftps", "sftp"} /\ s.port \in Ports /\ s.credentials # "none"
    <3>1. s.protocol \in {"ftp", "ftps", "sftp"} /\ s.port \in Ports
      BY <1>3, Zenon DEF Validate
    <3>q. QED BY <2>0, <3>1
  <2>2. s.protocol # "sftp" => s.credentials = "password"
    BY <2>0
  <2>3. s.connections \in 0..16
    BY <1>3, Zenon DEF Validate
  <2>4. s.protocol # "sftp" => s.connections \in 1..16
    BY <1>3, <2>3
  <2>q. QED BY <2>1, <2>2, <2>4, Zenon DEF Complete
<1>q. QED BY <1>1, <1>2, <1>3

\* The initial states satisfy the strengthening.
LEMMA InitIInv == Init => IInv
<1> SUFFICES ASSUME Init PROVE IInv
  OBVIOUS
<1>1. disk.profiles \in Texts
  BY DEF Init
<1>2. InForce
  BY <1>1, NothingIsEmpty, TextsAssumption DEF Init, InForce, Readable, Sound
<1>3. Followed /\ Applied
  BY NothingIsEmpty DEF Init, Followed, Applied
<1>4. Unmoved
  BY DEF Init, Unmoved, NoTask, AppliedTogether, NothingUnasked
<1>q. QED BY <1>2, <1>3, <1>4 DEF IInv

-----------------------------------------------------------------------------
(* The watcher.                                                            *)

\* n is watched anew, by a watcher that has nothing of it but what failed.
LEMMA Watching ==
    ASSUME NEW n, NEW s, NEW k, NEW h, NEW r, faults \in Nat,
           Watch(n, [stored |-> s, kernel |-> k, half |-> h, robbed |-> r]),
           h \subseteq DOMAIN s, n \in DOMAIN s => n \in h,
           DOMAIN watching \ {n} = (DOMAIN s \ h) \ {n},
           \A m \in DOMAIN watching \ {n} : s[m] = watching[m].context /\ (s[m] \in k \/ m \in r)
    PROVE  /\ Followed'
           /\ DOMAIN watching' \ {n} = DOMAIN watching \ {n}
           /\ \A m \in DOMAIN watching' \ {n} : watching'[m] = watching[m]
           /\ n \in DOMAIN watching' => watching'[n] = fresh[n]
           /\ faults' \in Nat /\ (faults' = 0 => faults = 0 /\ n \in DOMAIN watching')
<1> DEFINE c == fresh[n].context
<1>1. PICK outcome \in {"watched", "failed", "part", "half"} :
          /\ SetWatcher(Watched([stored |-> s, kernel |-> k, half |-> h, robbed |-> r], n, outcome))
          /\ watching' = IF outcome = "watched" THEN With(watching, n, fresh[n])
                         ELSE Without(watching, n)
          /\ faults' = IF outcome = "watched" THEN faults ELSE faults + 1
  BY DEF Watch, Outcomes
<1>2. CASE outcome = "watched"
  <2>0. Watched([stored |-> s, kernel |-> k, half |-> h, robbed |-> r], n, outcome) =
          [stored |-> With(s, n, c), kernel |-> k \cup {c}, half |-> h \ {n},
           robbed |-> {m \in r \ {n} : s[m] # c}]
    BY <1>2 DEF Watched
  <2>1. /\ stored' = With(s, n, c) /\ kernel' = k \cup {c} /\ half' = h \ {n}
        /\ robbed' = {m \in r \ {n} : s[m] # c}
        /\ watching' = With(watching, n, fresh[n]) /\ faults' = faults
    BY <1>1, <2>0, <1>2 DEF SetWatcher
  <2>q. QED BY <2>1 DEF Followed, With
<1>3. CASE outcome = "failed"
  <2>0. Watched([stored |-> s, kernel |-> k, half |-> h, robbed |-> r], n, outcome) =
          [stored |-> s, kernel |-> k, half |-> h, robbed |-> r]
    BY <1>3 DEF Watched
  <2>1. /\ stored' = s /\ kernel' = k /\ half' = h /\ robbed' = r
        /\ watching' = Without(watching, n) /\ faults' = faults + 1
    BY <1>1, <2>0, <1>3 DEF SetWatcher
  <2>q. QED BY <2>1 DEF Followed, Without
<1>4. CASE outcome = "half"
  <2>0. Watched([stored |-> s, kernel |-> k, half |-> h, robbed |-> r], n, outcome) =
          [stored |-> With(s, n, c), kernel |-> k, half |-> h \cup {n}, robbed |-> r \ {n}]
    BY <1>4 DEF Watched
  <2>1. /\ stored' = With(s, n, c) /\ kernel' = k /\ half' = h \cup {n} /\ robbed' = r \ {n}
        /\ watching' = Without(watching, n) /\ faults' = faults + 1
    BY <1>1, <2>0, <1>4 DEF SetWatcher
  <2>q. QED BY <2>1 DEF Followed, With, Without
<1>5. CASE outcome = "part"
  <2>0. Watched([stored |-> s, kernel |-> k, half |-> h, robbed |-> r], n, outcome) =
          [stored |-> With(s, n, c), kernel |-> k \cup {c}, half |-> h \cup {n},
           robbed |-> {m \in r \ {n} : s[m] # c}]
    BY <1>5 DEF Watched
  <2>1. /\ stored' = With(s, n, c) /\ kernel' = k \cup {c} /\ half' = h \cup {n}
        /\ robbed' = {m \in r \ {n} : s[m] # c}
        /\ watching' = Without(watching, n) /\ faults' = faults + 1
    BY <1>1, <2>0, <1>5 DEF SetWatcher
  <2>q. QED BY <2>1 DEF Followed, With, Without
<1>q. QED BY <1>1, <1>2, <1>3, <1>4, <1>5

\* A task that is not disturbed in what it relies on.
LEMMA TaskKept ==
    ASSUME IInv, UNCHANGED <<task, last, pool, queue>>,
           at' \in {"idle", "never", "pool"} \/ at \notin {"idle", "never", "pool"} \/ task = NoTask
    PROVE  Unmoved'
BY DEF IInv, Unmoved, AppliedTogether, NothingUnasked

\* What a reload does about a profile it knew keeps the strengthening.
LEMMA ReviseStep ==
    ASSUME IInv, NEW n, Revise(n)
    PROVE  IInv'
<1> USE DEF configVars, taskVars
<1>1. /\ at = "stop" /\ up # "boot" /\ n \in todo /\ todo' = todo \ {n} /\ n \in DOMAIN watching
      /\ UNCHANGED <<up, at, fresh, pool, queue, disk, saving, task, last>>
  BY DEF Revise, Alive, IInv, Applied
<1>2. InForce' /\ Unmoved'
  BY <1>1, TaskKept DEF IInv, InForce, Readable, Sound
<1>3. faults \in Nat /\ pool = fresh /\ todo \subseteq DOMAIN watching
      /\ \A m \in DOMAIN watching \ todo : AsIn(fresh, m)
  BY <1>1 DEF IInv, Applied
<1>4. CASE Gone(n) /\ watching' = Without(watching, n) /\ SetWatcher(Unwatched(n)) /\ UNCHANGED faults
  <2>1. /\ stored' = Without(stored, n) /\ kernel' = kernel \ {stored[n]} /\ half' = half \ {n}
        /\ robbed' = (robbed \ {n}) \cup {m \in DOMAIN stored \ {n} : stored[m] = stored[n]}
    BY <1>4 DEF SetWatcher, Unwatched
  <2>2. Followed'
    BY <1>1, <1>4, <2>1 DEF IInv, Followed, Without
  <2>3. Applied'
    BY <1>1, <1>3, <1>4 DEF Applied, AsIn, Without
  <2>q. QED BY <1>2, <2>2, <2>3 DEF IInv
<1>5. CASE Moved(n) /\ Watch(n, Unwatched(n))
  <2>1. /\ Followed'
        /\ DOMAIN watching' \ {n} = DOMAIN watching \ {n}
        /\ \A m \in DOMAIN watching' \ {n} : watching'[m] = watching[m]
        /\ n \in DOMAIN watching' => watching'[n] = fresh[n]
        /\ faults' \in Nat
    <3> DEFINE s == Without(stored, n)
               k == kernel \ {stored[n]}
               h == half \ {n}
               r == (robbed \ {n}) \cup {m \in DOMAIN stored \ {n} : stored[m] = stored[n]}
    <3>1. Watch(n, [stored |-> s, kernel |-> k, half |-> h, robbed |-> r])
      BY <1>5 DEF Unwatched
    <3>2. /\ h \subseteq DOMAIN s /\ n \notin DOMAIN s
          /\ DOMAIN watching \ {n} = (DOMAIN s \ h) \ {n}
          /\ \A m \in DOMAIN watching \ {n} : s[m] = watching[m].context /\ (s[m] \in k \/ m \in r)
      BY DEF IInv, Followed, Without
    <3> HIDE DEF s, k, h, r
    <3>q. QED BY <1>3, <3>1, <3>2, Watching
  <2>2. Gone(n) = (n \in DOMAIN fresh => ~fresh[n].auto)
    BY DEF Gone
  <2>3. Applied'
    BY <1>1, <1>3, <1>5, <2>1, <2>2 DEF Applied, AsIn, Moved
  <2>q. QED BY <1>2, <2>1, <2>3 DEF IInv
<1>6. CASE /\ ~Gone(n) /\ ~Moved(n) /\ watching' = With(watching, n, fresh[n])
           /\ UNCHANGED <<stored, kernel, half, robbed, faults>>
  <2>1. n \in DOMAIN fresh /\ fresh[n].auto /\ fresh[n].context = watching[n].context
    BY <1>6 DEF Gone, Moved
  <2>2. Followed'
    BY <1>1, <1>6, <2>1 DEF IInv, Followed, With
  <2>3. Applied'
    BY <1>1, <1>3, <1>6, <2>1 DEF Applied, AsIn, With
  <2>q. QED BY <1>2, <2>2, <2>3 DEF IInv
<1>q. QED BY <1>4, <1>5, <1>6 DEF Revise

\* What a reload does about a new profile keeps it.
LEMMA StartStep ==
    ASSUME IInv, NEW n, Start(n)
    PROVE  IInv'
<1> USE DEF configVars, taskVars
<1>1. /\ at = "start" /\ n \in todo /\ todo' = todo \ {n} /\ Watch(n, WatcherNow)
      /\ UNCHANGED <<up, at, fresh, pool, queue, disk, saving, task, last>>
  BY DEF Start
<1>2. InForce' /\ Unmoved'
  BY <1>1, TaskKept DEF IInv, InForce, Readable, Sound
<1>3. /\ faults \in Nat /\ pool = fresh /\ (up = "boot" => queue = fresh)
      /\ todo \subseteq Wanted(fresh) \ DOMAIN watching
      /\ \A m \in DOMAIN watching : AsIn(fresh, m)
      /\ faults = 0 => Wanted(fresh) \subseteq DOMAIN watching \cup todo
      /\ up = "boot" => task = NoTask
  BY <1>1 DEF IInv, Applied
<1>4. n \in DOMAIN fresh /\ fresh[n].auto
  BY <1>1, <1>3 DEF Wanted
<1>5. /\ Followed'
      /\ DOMAIN watching' \ {n} = DOMAIN watching \ {n}
      /\ \A m \in DOMAIN watching' \ {n} : watching'[m] = watching[m]
      /\ n \in DOMAIN watching' => watching'[n] = fresh[n]
      /\ faults' \in Nat /\ (faults' = 0 => faults = 0 /\ n \in DOMAIN watching')
  <2>1. Watch(n, [stored |-> stored, kernel |-> kernel, half |-> half, robbed |-> robbed])
    BY <1>1 DEF WatcherNow
  <2>2. /\ half \subseteq DOMAIN stored /\ (n \in DOMAIN stored => n \in half)
        /\ DOMAIN watching \ {n} = (DOMAIN stored \ half) \ {n}
        /\ \A m \in DOMAIN watching \ {n} :
              stored[m] = watching[m].context /\ (stored[m] \in kernel \/ m \in robbed)
    BY <1>1, <1>3 DEF IInv, Followed
  <2>q. QED BY <1>3, <2>1, <2>2, Watching
<1>6. Applied'
  <2>1. \A m \in DOMAIN watching' : AsIn(fresh, m)'
    BY <1>1, <1>3, <1>4, <1>5 DEF AsIn
  <2>2. Wanted(fresh)' = Wanted(fresh)
    BY <1>1 DEF Wanted
  <2>3. todo' \subseteq Wanted(fresh) \ DOMAIN watching'
    BY <1>1, <1>3, <1>5
  <2>4. faults' = 0 => Wanted(fresh) \subseteq DOMAIN watching' \cup todo'
    BY <1>1, <1>3, <1>5
  <2>q. QED BY <1>1, <1>3, <1>5, <2>1, <2>2, <2>3, <2>4 DEF Applied
<1>q. QED BY <1>2, <1>5, <1>6 DEF IInv

-----------------------------------------------------------------------------
(* Start-up, the reload and the end.                                       *)

\* The boot, up to the watch of the last profile, keeps it.
LEMMA BootStep ==
    ASSUME IInv, BootLoad \/ Booted \/ Signalled \/ Exit
    PROVE  IInv'
<1> USE DEF configVars, watchVars, taskVars, reloadVars
<1>1. CASE BootLoad
  <2>0. task = NoTask /\ at = "load" /\ up = "boot"
        /\ UNCHANGED <<disk, saving, watching, stored, kernel, half, robbed, faults, task, last>>
    BY <1>1 DEF BootLoad, IInv, Applied
  <2>1. CASE Loads(disk)
    <3>1. /\ pool' = Parsed(disk) /\ queue' = Parsed(disk) /\ fresh' = Parsed(disk)
          /\ at' = "start" /\ todo' = Wanted(Parsed(disk)) /\ up' = up
      BY <1>1, <2>1 DEF BootLoad
    <3>2. Sound(Parsed(disk))
      BY <2>1, LoadedIsSound DEF IInv, InForce
    <3>3. InForce'
      BY <2>0, <3>1, <3>2 DEF IInv, InForce
    <3>4. Wanted(fresh)' = todo'
      BY <3>1 DEF Wanted
    <3>5. Applied'
      BY <2>0, <3>1, <3>4 DEF IInv, Applied
    <3>6. Followed' /\ Unmoved'
      BY <2>0, <3>1 DEF IInv, Followed, Unmoved, AppliedTogether, NothingUnasked
    <3>q. QED BY <3>3, <3>5, <3>6 DEF IInv
  <2>2. CASE ~Loads(disk)
    <3>1. up' = "down" /\ UNCHANGED <<pool, queue, fresh, at, todo>>
      BY <1>1, <2>2 DEF BootLoad
    <3>q. QED BY <2>0, <3>1 DEF IInv, InForce, Followed, Applied, AsIn, Unmoved, AppliedTogether, NothingUnasked
  <2>q. QED BY <2>1, <2>2
<1>2. CASE Booted
  <2>1. /\ up = "boot" /\ at = "start" /\ todo = {} /\ task = NoTask
        /\ pool = fresh /\ queue = fresh
        /\ (up' = "down" /\ at' = at) \/ (up' = "running" /\ at' \in {"idle", "never"})
        /\ UNCHANGED <<disk, saving, pool, queue, fresh, todo, watching, stored, kernel, half, robbed,
                       faults, task, last>>
    BY <1>2 DEF Booted, IInv, Applied
  <2>2. InForce' /\ Followed' /\ Unmoved'
    BY <2>1 DEF IInv, InForce, Readable, Sound, Followed, Unmoved, AppliedTogether, NothingUnasked
  <2>3. \A n \in DOMAIN watching' : AsIn(queue, n)' /\ AsIn(fresh, n)'
    BY <2>1 DEF IInv, Applied, AsIn
  <2>4. Wanted(queue)' = Wanted(fresh) /\ Wanted(fresh)' = Wanted(fresh)
    BY <2>1 DEF Wanted
  <2>5. Applied'
    BY <2>1, <2>3, <2>4 DEF IInv, Applied
  <2>q. QED BY <2>2, <2>5 DEF IInv
<1>3. CASE Signalled
  <2>1. up = "running" /\ up' = "stopping"
        /\ UNCHANGED <<disk, saving, at, fresh, todo, pool, queue, watching, stored, kernel, half,
                       robbed, faults, task, last>>
    BY <1>3 DEF Signalled
  <2>q. QED
    BY <2>1 DEF IInv, InForce, Readable, Sound, Followed, Applied, AsIn, Wanted, Unmoved,
                AppliedTogether, NothingUnasked
<1>4. CASE Exit
  <2>1. /\ up = "stopping" /\ up' = "down" /\ task' = NoTask
        /\ UNCHANGED <<disk, saving, at, fresh, todo, pool, queue, watching, stored, kernel, half,
                       robbed, faults, last>>
    BY <1>4 DEF Exit
  <2>2. Unmoved'
    BY <2>1 DEF IInv, Unmoved, AppliedTogether, NothingUnasked
  <2>q. QED
    BY <2>1, <2>2 DEF IInv, InForce, Readable, Sound, Followed, Applied, AsIn, Wanted
<1>q. QED BY <1>1, <1>2, <1>3, <1>4

\* A reload, from the event to its last profile, keeps it.
LEMMA ReloadStep ==
    ASSUME IInv, HandleEvent \/ UpdatePool \/ Revised \/ UpdateQueue
    PROVE  IInv'
<1> USE DEF configVars, watchVars, taskVars
<1>0. up # "boot" /\ UNCHANGED <<up, disk, saving, watching, stored, kernel, half, robbed, faults, last>>
  BY DEF HandleEvent, UpdatePool, Revised, UpdateQueue, Alive
<1>1. Followed'
  BY <1>0 DEF IInv, Followed
<1>2. CASE HandleEvent
  <2>1. /\ at = "idle" /\ UNCHANGED <<todo, pool, queue, task>>
        /\ \/ Loads(disk) /\ at' = "pool" /\ fresh' = Parsed(disk)
           \/ UNCHANGED <<at, fresh>>
    BY <1>2 DEF HandleEvent
  <2>2. InForce'
    BY <1>0, <2>1, LoadedIsSound DEF IInv, InForce, Readable, Sound
  <2>3. Applied'
    BY <1>0, <2>1 DEF IInv, Applied, AsIn, Wanted
  <2>4. Unmoved'
    BY <1>0, <2>1, TaskKept
  <2>q. QED BY <1>1, <2>2, <2>3, <2>4 DEF IInv
<1>3. CASE UpdatePool
  <2>1. /\ at = "pool" /\ pool' = fresh /\ at' = "stop" /\ todo' = DOMAIN watching
        /\ task' = Crossed /\ UNCHANGED <<fresh, queue>>
    BY <1>3 DEF UpdatePool
  <2>2. InForce'
    BY <1>0, <2>1 DEF IInv, InForce, Readable, Sound
  <2>3. Applied'
    BY <1>0, <2>1 DEF IInv, Applied, AsIn
  <2>4. task' = NoTask \/ (task # NoTask /\ task' = [task EXCEPT !.crossed = TRUE])
    BY <2>1 DEF Crossed, NoTask, IInv, Unmoved
  <2>5. Unmoved'
    BY <1>0, <2>4 DEF IInv, Unmoved, AppliedTogether, NothingUnasked
  <2>q. QED BY <1>1, <2>2, <2>3, <2>5 DEF IInv
<1>4. CASE Revised
  <2>1. /\ at = "stop" /\ todo = {} /\ at' = "start" /\ todo' = Wanted(fresh) \ DOMAIN watching
        /\ UNCHANGED <<fresh, pool, queue, task>>
    BY <1>4 DEF Revised
  <2>2. InForce'
    BY <1>0, <2>1 DEF IInv, InForce, Readable, Sound
  <2>3. Applied'
    BY <1>0, <2>1 DEF IInv, Applied, AsIn, Wanted
  <2>4. Unmoved'
    BY <1>0, <2>1, TaskKept
  <2>q. QED BY <1>1, <2>2, <2>3, <2>4 DEF IInv
<1>5. CASE UpdateQueue
  <2>1. /\ at = "start" /\ todo = {} /\ queue' = fresh /\ at' = "idle"
        /\ UNCHANGED <<fresh, todo, pool, task>>
    BY <1>5 DEF UpdateQueue, UpdatedQueue
  <2>2. InForce'
    BY <1>0, <2>1 DEF IInv, InForce, Readable, Sound
  <2>3. Applied'
    BY <1>0, <2>1 DEF IInv, Applied, AsIn, Wanted
  <2>4. Unmoved'
    BY <1>0, <2>1 DEF IInv, Unmoved, AppliedTogether, NothingUnasked
  <2>q. QED BY <1>1, <2>2, <2>3, <2>4 DEF IInv
<1>q. QED BY <1>2, <1>3, <1>4, <1>5

-----------------------------------------------------------------------------
(* A file on its way, and the user.                                        *)

\* A file on its way to the server keeps it.
LEMMA TaskStep ==
    ASSUME IInv, (\E n \in Names : Change(n)) \/ Take \/ Send
    PROVE  IInv'
<1> USE DEF configVars, watchVars, taskVars, reloadVars
<1>0. /\ up # "boot"
      /\ UNCHANGED <<up, disk, saving, at, fresh, todo, pool, queue, watching, stored, kernel, half,
                     robbed, faults>>
  BY DEF Change, Take, Send, Alive
<1>1. InForce' /\ Followed' /\ Applied'
  BY <1>0 DEF IInv, InForce, Readable, Sound, Followed, Applied, AsIn, Wanted
<1>2. ASSUME NEW n \in Names, Change(n) PROVE Unmoved'
  <2>1. /\ n \in DOMAIN stored /\ last' = last
        /\ task' = [phase |-> "queued", name |-> n, root |-> stored[n], left |-> Attempts,
                    plan |-> Nothing, crossed |-> at \notin {"idle", "never"},
                    asked |-> n \in DOMAIN watching, half |-> n \in half]
    BY <1>2 DEF Change
  <2>2. n \in DOMAIN watching \/ n \in half
    BY <2>1 DEF IInv, Followed
  <2>3. n \in DOMAIN watching /\ at \in {"idle", "never"} =>
           n \in DOMAIN queue /\ queue[n].context = stored[n]
    BY DEF IInv, Followed, Applied, AsIn
  <2>q. QED BY <1>0, <2>1, <2>2, <2>3 DEF IInv, Unmoved, AppliedTogether, NothingUnasked
<1>3. ASSUME NEW how, End(how), task # NoTask,
             how \in {"dropped", "astray", "sent", "failed"},
             how \in {"dropped", "astray"} => task.crossed \/ task.half
      PROVE  Unmoved'
  <2>1. task' = NoTask /\ last' = [phase |-> how, crossed |-> task.crossed,
                                  asked |-> task.asked, half |-> task.half]
    BY <1>3 DEF End
  <2>2. task.asked \/ task.half
    BY <1>3 DEF IInv, Unmoved
  <2>q. QED BY <1>3, <2>1, <2>2 DEF Unmoved, AppliedTogether, NothingUnasked
<1>4. ASSUME Take PROVE Unmoved'
  <2>0. task # NoTask /\ task.phase = "queued"
    BY <1>4 DEF Take, NoTask
  <2>1. CASE task.name \in DOMAIN queue /\ queue[task.name].context = task.root
    <3>1. task' = [task EXCEPT !.phase = "read", !.plan = queue[task.name]] /\ last' = last
      BY <1>4, <2>1 DEF Take
    <3>q. QED BY <1>0, <2>0, <2>1, <3>1 DEF IInv, Unmoved, AppliedTogether, NothingUnasked
  <2>2. CASE ~(task.name \in DOMAIN queue /\ queue[task.name].context = task.root)
    <3>1. End("dropped")
      BY <1>4, <2>2 DEF Take
    <3>2. task.crossed \/ task.half
      BY <2>0, <2>2 DEF IInv, Unmoved
    <3>q. QED BY <1>3, <2>0, <3>1, <3>2
  <2>q. QED BY <2>1, <2>2
<1>5. ASSUME Send PROVE Unmoved'
  <2>0. task # NoTask /\ task.phase = "read"
    BY <1>5 DEF Send, NoTask
  <2>1. CASE /\ task.name \in DOMAIN pool
             /\ End(IF pool[task.name].host = task.plan.host THEN "sent" ELSE "astray")
    <3>1. pool[task.name].host # task.plan.host => task.crossed \/ task.half
      BY <2>0, <2>1 DEF IInv, Unmoved, Applied
    <3>q. QED BY <1>3, <2>0, <2>1, <3>1
  <2>2. CASE task' = [task EXCEPT !.left = @ - 1] /\ UNCHANGED last
    BY <1>0, <2>0, <2>2 DEF IInv, Unmoved, AppliedTogether, NothingUnasked
  <2>3. CASE End("failed")
    BY <1>3, <2>0, <2>3
  <2>q. QED BY <1>5, <2>1, <2>2, <2>3 DEF Send
<1>6. Unmoved'
  BY <1>2, <1>4, <1>5
<1>q. QED BY <1>1, <1>6 DEF IInv

\* The user who saves the configuration does not touch it.
LEMMA UserStep ==
    ASSUME IInv, User \/ UNCHANGED vars
    PROVE  IInv'
<1> USE DEF configVars, watchVars, taskVars, reloadVars
<1>1. UNCHANGED <<up, at, fresh, todo, pool, queue, watching, stored, kernel, half, robbed, faults,
                  task, last>>
  BY DEF User, vars
<1>2. Readable(disk.profiles)' /\ Readable(saving)'
  <2>0. Readable(disk.profiles) /\ Readable(saving)
    BY DEF IInv, InForce
  <2>1. ASSUME NEW t \in Texts PROVE Readable(t)
    BY <2>1, TextsAssumption DEF Readable
  <2>2. Readable(Nothing)
    BY NothingIsEmpty DEF Readable
  <2>3. CASE Truncate
    <3>1. disk'.profiles = Nothing /\ saving' \in Texts
      BY <2>3 DEF Truncate, EmptyFile, Nothing
    <3>q. QED BY <2>1, <2>2, <3>1 DEF Readable
  <2>4. CASE Replace
    <3>1. disk'.profiles \in Texts /\ saving' = saving
      BY <2>4 DEF Replace
    <3>q. QED BY <2>0, <2>1, <3>1 DEF Readable
  <2>5. CASE MoveAway
    <3>1. disk'.profiles = Nothing /\ saving' \in Texts
      BY <2>5 DEF MoveAway, EmptyFile, Nothing
    <3>q. QED BY <2>1, <2>2, <3>1 DEF Readable
  <2>6. CASE Write
    <3>1. disk'.profiles = saving /\ saving' = Nothing
      BY <2>6 DEF Write
    <3>q. QED BY <2>0, <2>2, <3>1 DEF Readable
  <2>7. CASE UNCHANGED vars
    BY <2>0, <2>7 DEF vars, Readable
  <2>q. QED BY <2>3, <2>4, <2>5, <2>6, <2>7 DEF User
<1>3. InForce'
  BY <1>1, <1>2 DEF IInv, InForce, Sound
<1>4. Followed' /\ Applied'
  BY <1>1 DEF IInv, Followed, Applied, AsIn, Wanted
<1>5. Unmoved'
  BY <1>1 DEF IInv, Unmoved, AppliedTogether, NothingUnasked
<1>q. QED BY <1>3, <1>4, <1>5 DEF IInv

\* Theorem: the strengthening that the theorems below follow from holds.
THEOREM Invariance == Spec => []IInv
<1>1. Init => IInv
  BY InitIInv
<1>2. IInv /\ [Next]_vars => IInv'
  BY BootStep, ReloadStep, ReviseStep, StartStep, TaskStep, UserStep DEF Next
<1>q. QED BY <1>1, <1>2, PTL DEF Spec

\* Theorem: whatever is saved, the profiles in force are complete.
THEOREM CompleteInForce == Spec => []OnlyCompleteInForce
<1>1. IInv => OnlyCompleteInForce
  BY DEF IInv, InForce, Sound, OnlyCompleteInForce
<1>q. QED BY <1>1, Invariance, PTL

\* Theorem: between reloads what is watched is what the profiles in force ask
\* for, as long as watching works and nobody's watch was taken away.
THEOREM Configured == Spec => []WatchedAsConfigured
<1>1. IInv => WatchedAsConfigured
  BY DEF IInv, Followed, Applied, AsIn, Wanted, WatchedAsConfigured, Settled
<1>q. QED BY <1>1, Invariance, PTL

\* Theorem: without a reload in between no file is dropped or sent to a host
\* that its remote path was not read for.
THEOREM Together == Spec => []AppliedTogether
<1>1. IInv => AppliedTogether
  BY DEF IInv, Unmoved
<1>q. QED BY <1>1, Invariance, PTL

\* Theorem: nothing is synced for a profile that is not watched on purpose.
THEOREM Unasked == Spec => []NothingUnasked
<1>1. IInv => NothingUnasked
  BY DEF IInv, Unmoved
<1>q. QED BY <1>1, Invariance, PTL

-----------------------------------------------------------------------------
(* What is on disk comes into force.                                       *)

\* The reload, or what is in force between reloads, has the profiles p.
Heading(p) == /\ at \in {"pool", "stop", "start"} => fresh = p
              /\ at = "idle" => pool = p /\ queue = p

Coming == \E i \in 1..Len(events) : events[i] = "write"

\* A file that loads, and whose last change could be seen, has been read for
\* what is in force or about to be, or there is an event left that will have
\* it read.
Seen ==
    /\ events \in Seq({"write", "remove", "rename"})
    /\ saving = Nothing /\ ~missed /\ Loads(disk) /\ at \notin {"load", "never"} =>
         Heading(Parsed(disk)) \/ Coming

\* The user's part of it: every save that completes leaves an event behind,
\* or nobody could see it.
LEMMA SavedIsSeen ==
    ASSUME IInv, Seen, User
    PROVE  Seen'
<1>1. UNCHANGED <<at, fresh, pool, queue>>
  BY DEF User, reloadVars
<1>2. events \in Seq({"write", "remove", "rename"})
  BY DEF Seen
<1>3. CASE Truncate \/ MoveAway
  <2>1. ~Loads(disk)'
    BY <1>3 DEF Truncate, MoveAway, EmptyFile, Loads
  <2>2. events' = events \/ events' = Append(events, "write") \/ events' = Append(events, "rename")
    BY <1>3 DEF Truncate, MoveAway, Notice
  <2>q. QED BY <1>2, <2>1, <2>2 DEF Seen
<1>4. CASE Replace
  <2>1. missed' /\ (events' = events \/ events' = Append(events, "remove"))
    BY <1>4 DEF Replace, Notice
  <2>q. QED BY <1>2, <2>1 DEF Seen
<1>5. CASE Write
  <2>1. missed' = ~hooked /\ events' = IF hooked THEN Append(events, "write") ELSE events
    BY <1>5 DEF Write, Notice
  <2>2. CASE hooked
    <3>1. events' = Append(events, "write")
      BY <2>1, <2>2
    <3>2. events' \in Seq({"write", "remove", "rename"})
      BY <1>2, <3>1
    <3>3. Len(events') = Len(events) + 1 /\ events'[Len(events) + 1] = "write" /\ Len(events) \in Nat
      BY <1>2, <3>1
    <3>q. QED BY <3>2, <3>3 DEF Seen, Coming
  <2>3. CASE ~hooked
    BY <1>2, <2>1, <2>3 DEF Seen
  <2>q. QED BY <2>2, <2>3
<1>q. QED BY <1>3, <1>4, <1>5 DEF User

\* The daemon's part: an event is spent only on a reload of what is on disk
\* or when there is nothing to load, and a reload ends with what it began with.
LEMMA EventIsSeen ==
    ASSUME Seen, HandleEvent
    PROVE  Seen'
<1>1. /\ at = "idle" /\ events # << >> /\ events' = Tail(events)
      /\ UNCHANGED <<disk, saving, missed, pool, queue>>
      /\ IF Reacts(Head(events)) /\ Loads(disk)
           THEN at' = "pool" /\ fresh' = Parsed(disk)
           ELSE UNCHANGED <<at, fresh>>
  BY DEF HandleEvent
<1>2. /\ events \in Seq({"write", "remove", "rename"}) /\ events' \in Seq({"write", "remove", "rename"})
      /\ Len(events) \in Nat /\ Len(events') = Len(events) - 1
      /\ \A i \in 1..Len(events') : events'[i] = events[i + 1]
      /\ Head(events) = events[1]
  BY <1>1 DEF Seen
<1>3. CASE Reacts(Head(events)) /\ Loads(disk)
  <2>1. Parsed(disk)' = Parsed(disk) /\ at' = "pool" /\ fresh' = Parsed(disk)
    BY <1>1, <1>3 DEF Parsed
  <2>q. QED BY <1>2, <2>1 DEF Seen, Heading
<1>4. CASE ~(Reacts(Head(events)) /\ Loads(disk))
  <2>1. /\ Parsed(disk)' = Parsed(disk) /\ (Loads(disk)' <=> Loads(disk))
        /\ UNCHANGED <<at, fresh, pool, queue, disk, saving, missed>>
    BY <1>1, <1>4 DEF Parsed, Loads
  <2>2. Loads(disk) => events[1] # "write"
    BY <1>2, <1>4 DEF Reacts
  <2>3. Loads(disk) /\ Coming => Coming'
    <3>1. ASSUME Loads(disk), Coming PROVE Coming'
      <4>1. PICK i \in 1..Len(events) : events[i] = "write"
        BY <3>1 DEF Coming
      <4>2. i - 1 \in 1..Len(events') /\ events'[i - 1] = events[i]
        BY <1>2, <2>2, <3>1, <4>1
      <4>q. QED BY <4>1, <4>2 DEF Coming
    <3>q. QED BY <3>1
  <2>q. QED BY <1>2, <2>1, <2>3 DEF Seen, Heading
<1>q. QED BY <1>3, <1>4

\* A reload, and start-up, come to what they began with.
LEMMA ReloadIsSeen ==
    ASSUME IInv, Seen, UpdatePool \/ Revised \/ UpdateQueue \/ BootLoad \/ Booted
    PROVE  Seen'
<1> USE DEF configVars, reloadVars
<1>1. UNCHANGED <<disk, saving, events, missed>>
  BY DEF UpdatePool, Revised, UpdateQueue, BootLoad, Booted
<1>2. /\ Parsed(disk)' = Parsed(disk) /\ (Loads(disk)' <=> Loads(disk)) /\ (Coming' <=> Coming)
  BY <1>1 DEF Parsed, Loads, Coming
<1>3. CASE UpdatePool \/ Revised
  <2>1. at \in {"pool", "stop"} /\ at' \in {"stop", "start"} /\ fresh' = fresh
    BY <1>3 DEF UpdatePool, Revised
  <2>q. QED BY <1>1, <1>2, <2>1 DEF Seen, Heading
<1>4. CASE UpdateQueue \/ (Booted /\ at' # at)
  <2>1. /\ at = "start" /\ at' \in {"idle", "never"} /\ pool = fresh
        /\ pool' = pool /\ queue' = fresh
    BY <1>4 DEF UpdateQueue, UpdatedQueue, Booted, IInv, Applied
  <2>q. QED BY <1>1, <1>2, <2>1 DEF Seen, Heading
<1>5. CASE BootLoad \/ (Booted /\ at' = at)
  <2>1. \/ Loads(disk) /\ at' = "start" /\ fresh' = Parsed(disk)
        \/ UNCHANGED <<at, fresh, pool, queue>>
    BY <1>5 DEF BootLoad, Booted
  <2>q. QED BY <1>1, <1>2, <2>1 DEF Seen, Heading
<1>q. QED BY <1>3, <1>4, <1>5

\* Nothing else touches it.
LEMMA OthersSee ==
    ASSUME Seen,
           \/ Signalled \/ Exit \/ Take \/ Send \/ UNCHANGED vars
           \/ \E n \in Names : Revise(n) \/ Start(n) \/ Change(n)
    PROVE  Seen'
<1>1. UNCHANGED <<disk, saving, events, missed, at, fresh, pool, queue>>
  BY DEF Signalled, Exit, Take, Send, Revise, Start, Change, vars, configVars, reloadVars
<1>2. /\ Parsed(disk)' = Parsed(disk) /\ (Loads(disk)' <=> Loads(disk)) /\ (Coming' <=> Coming)
  BY <1>1 DEF Parsed, Loads, Coming
<1>q. QED BY <1>1, <1>2 DEF Seen, Heading

\* Theorem: when the reload is at rest, nothing is half saved and the last
\* change could be seen, a file that loads is what is in force, however the
\* saves, the events and the reloads overlapped.
THEOREM LoadedAtRest == Spec => []QuietMeansLoaded
<1>1. Init => Seen
  <2>1. << >> \in Seq({"write", "remove", "rename"})
    OBVIOUS
  <2>q. QED BY <2>1 DEF Init, Seen
<1>2. IInv /\ Seen /\ [Next]_vars => Seen'
  BY SavedIsSeen, EventIsSeen, ReloadIsSeen, OthersSee DEF Next
<1>3. IInv /\ Seen => QuietMeansLoaded
  BY DEF Seen, Heading, Coming, QuietMeansLoaded
<1>q. QED BY <1>1, <1>2, <1>3, Invariance, PTL DEF Spec

-----------------------------------------------------------------------------
(* The watcher: the inductive invariant.                                   *)

\* What there is is in directories that there are, the contexts among them.
Grown == Contexts \subseteq exists /\ \A p \in exists : Above[p] \subseteq exists

\* Watch and Unwatch are at a profile that is not, or no longer, in force; the
\* latter takes watches of its context only, which is nobody else's.
Reloading ==
    /\ reload.at # "idle" => reload.name \in registered \ inForce
    /\ reload.at = "remove" =>
          /\ \A d \in reload.visit : Under(d, reload.name)
          /\ ~trampled => \A m \in registered \ {reload.name} : ~Overlaps(reload.name, m)
    /\ \A n \in Profiles \ inForce : unseen[n] = {}

Queued(op, p) == \E i \in 1..Len(fsEvents) : fsEvents[i] = [op |-> op, path |-> p]

\* The event goroutine will come by p on a walk of what is n's.
Ahead(n, p) ==
    \/ \E d \in Above[p] \cup {p} : Under(d, n) /\ (d \in walk.visit \/ Queued("made", d))
    \/ \E d \in Above[p] \cap walk.read : Under(d, n)

Uncovered(p, n) == Under(p, n) /\ ~Covered(p, n, ignoring[Context[n]])

\* Nothing is between a directory and its watch but a walk that is to come.
Guarded(n, d) == d \in watches \/ Ahead(n, d)

AllGuarded ==
    \A n \in inForce : \A d \in exists \cap Dirs : Uncovered(d, n) => Guarded(n, d)

\* So it is for the profile that Watch is at, or its own walk is to come.
Adding ==
    reload.at = "add" =>
        \A d \in exists \cap Dirs :
            Uncovered(d, reload.name) /\ ~Covered(d, reload.name, reload.patterns) =>
                \/ Guarded(reload.name, d)
                \/ \E e \in Above[d] \cup {d} : e \in reload.visit
                \/ \E e \in Above[d] : e \in reload.read

Running(k) == timer[k] # "none" \/ loose[k] > 0 \/ firing[k] > 0

\* What the queue was not told of has a timer, or an event or a walk that will
\* start one.
AllDue ==
    \A n \in inForce : \A p \in unseen[n] :
        /\ n \in Matching(p, registered) /\ Uncovered(p, n)
        /\ \/ Running(<<n, p>>) \/ Queued("gone", p)
           \/ p \in exists \cap Files /\ (Queued("written", p) \/ Ahead(n, p))

Excepted == trampled \/ raced \/ uncovered

WatcherInv == /\ TypeOK /\ Grown /\ Reloading
              /\ ~Excepted => AllGuarded /\ Adding /\ AllDue

-----------------------------------------------------------------------------
(* The watcher: paths.                                                     *)

\* The directories above a path are fewer than the path is deep.
LEMMA AboveAreShallower ==
    ASSUME NEW p \in Paths, NEW d \in Above[p]
    PROVE  /\ d \in Dirs /\ d \in Paths /\ Above[d] \subseteq Above[p]
           /\ Depth(d) \in Nat /\ Depth(p) \in Nat /\ Depth(d) < Depth(p)
<1>1. d \in Dirs /\ d \in Paths /\ Above[d] \cup {d} \subseteq Above[p] /\ d \notin Above[d]
  BY PathsAssumption DEF Paths
<1>2. IsFiniteSet(Above[d]) /\ IsFiniteSet(Above[p])
  BY <1>1, PathsAssumption
<1>3. Cardinality(Above[d] \cup {d}) = Cardinality(Above[d]) + 1
  BY <1>1, <1>2, FS_AddElement
<1>4. Cardinality(Above[d] \cup {d}) <= Cardinality(Above[p])
  BY <1>1, <1>2, FS_Subset
<1>5. Depth(d) \in Nat /\ Depth(p) \in Nat
  BY <1>2, FS_CardinalityType DEF Depth
<1>q. QED BY <1>1, <1>3, <1>4, <1>5 DEF Depth

\* Of some numbers one is the least.
LEMMA LeastNumber ==
    ASSUME NEW T \in SUBSET Nat, T # {}
    PROVE  \E m \in T : \A k \in T : m <= k
<1>1. PICK m \in T : \A k \in T : <<k, m>> \notin OpToRel(<, Nat)
  BY WFMin, NatLessThanWellFounded
<1>2. \A k \in T : ~(k < m)
  BY <1>1, Zenon DEF OpToRel
<1>q. QED BY <1>2

\* A directory that has all the others above a path above itself is the one
\* that the path is in.
LEMMA IsIn ==
    ASSUME NEW p \in Paths, NEW d \in Above[p], Above[p] = Above[d] \cup {d}
    PROVE  InDir(p, d)
<1>1. IsFiniteSet(Above[d]) /\ d \notin Above[d]
  BY AboveAreShallower, PathsAssumption
<1>q. QED BY <1>1, FS_AddElement DEF InDir, Depth

\* A path that is not at the top is in some directory.
LEMMA InSome ==
    ASSUME NEW p \in Paths, Above[p] # {}
    PROVE  \E d \in Above[p] : InDir(p, d) /\ Above[p] = Above[d] \cup {d}
<1> DEFINE T == {k \in Nat : \E d \in Above[p] : k = Depth(p) - Depth(d)}
<1>1. \A d \in Above[p] : Depth(p) - Depth(d) \in Nat
  BY AboveAreShallower
<1>2. T # {} /\ T \in SUBSET Nat
  BY <1>1
<1>3. PICK m \in T : \A k \in T : m <= k
  <2> HIDE DEF T
  <2>q. QED BY <1>2, LeastNumber
<1>4. PICK d \in Above[p] : m = Depth(p) - Depth(d)
  BY <1>3
<1>5. ASSUME NEW e \in Above[p], e # d PROVE e \in Above[d]
  <2>1. e \in Above[d] \/ d \in Above[e]
    BY <1>5, PathsAssumption
  <2>2. CASE d \in Above[e]
    <3>1. Depth(p) - Depth(e) \in T
      BY <1>1
    <3>2. /\ Depth(d) < Depth(e) /\ Depth(d) \in Nat
          /\ Depth(e) \in Nat /\ Depth(p) \in Nat
      BY <2>2, AboveAreShallower
    <3>q. QED BY <1>3, <1>4, <3>1, <3>2
  <2>q. QED BY <2>1, <2>2
<1>6. Above[p] = Above[d] \cup {d}
  BY <1>5, AboveAreShallower
<1>q. QED BY <1>6, IsIn

\* It is in one directory only.
LEMMA InOneOnly ==
    ASSUME NEW p \in Paths, NEW d, InDir(p, d), d \in watches
    PROVE  Reported(p)
<1>1. ASSUME NEW e \in Dirs, InDir(p, e) PROVE e = d
  <2>1. d \in Above[p] /\ e \in Above[p] /\ Depth(d) + 1 = Depth(e) + 1
    BY <1>1 DEF InDir
  <2>2. d = e \/ d \in Above[e] \/ e \in Above[d]
    BY <2>1, PathsAssumption
  <2>3. Depth(d) \in Nat /\ Depth(e) \in Nat /\ d \in Paths /\ e \in Paths
    BY <2>1, AboveAreShallower
  <2>q. QED BY <2>1, <2>2, <2>3, AboveAreShallower
<1>q. QED BY <1>1 DEF Reported, Parent

\* From a directory down to a path under it there is a first step.
LEMMA FirstStep ==
    ASSUME NEW p \in Paths, NEW d \in Above[p]
    PROVE  \E c \in Above[p] \cup {p} : InDir(c, d) /\ c \in Paths
<1> DEFINE C == {c \in Above[p] \cup {p} : d \in Above[c]}
           T == {k \in Nat : \E c \in C : k = Depth(c)}
<1>1. \A c \in C : c \in Paths /\ Depth(c) \in Nat
  BY AboveAreShallower
<1>2. T # {} /\ T \in SUBSET Nat
  <2>1. p \in C
    OBVIOUS
  <2>q. QED BY <1>1, <2>1
<1>3. PICK m \in T : \A k \in T : m <= k
  <2> HIDE DEF T
  <2>q. QED BY <1>2, LeastNumber
<1>4. PICK c \in C : m = Depth(c)
  BY <1>3
<1>5. ASSUME NEW e \in Above[c], e # d PROVE e \in Above[d]
  <2>1. c \in Paths /\ d \in Above[c]
    BY <1>1, <1>4
  <2>2. e \in Above[d] \/ d \in Above[e]
    BY <1>5, <2>1, PathsAssumption
  <2>3. CASE d \in Above[e]
    <3>1. e \in Above[p] /\ Depth(e) < Depth(c)
      BY <1>5, <2>1, AboveAreShallower, <1>4
    <3>2. e \in C /\ Depth(e) \in T
      BY <1>1, <2>3, <3>1
    <3>q. QED BY <1>1, <1>3, <1>4, <3>1, <3>2
  <2>q. QED BY <2>2, <2>3
<1>6. Above[c] = Above[d] \cup {d}
  BY <1>1, <1>4, <1>5, AboveAreShallower
<1>q. QED BY <1>1, <1>4, <1>6, IsIn

\* What is under a directory of a context is in the context, and covered by
\* what covers the directory.
LEMMA UnderBelow ==
    ASSUME NEW p \in Paths, NEW d \in Above[p], NEW n, Under(d, n)
    PROVE  /\ Under(p, n)
           /\ \A pats : Covered(d, n, pats) => Covered(p, n, pats)
           /\ Uncovered(p, n) => Uncovered(d, n)
<1>1. Under(p, n)
  BY AboveAreShallower DEF Under
<1>2. ASSUME NEW pats, Covered(d, n, pats) PROVE Covered(p, n, pats)
  BY <1>1, <1>2, AboveAreShallower DEF Covered
<1>q. QED BY <1>1, <1>2 DEF Uncovered

-----------------------------------------------------------------------------
(* The watcher: events and walks.                                          *)

Event == [op : {"made", "written", "gone", "ignore"}, path : Paths]

\* What is in the queue stays there when an event is added.
LEMMA Appended ==
    ASSUME TypeOK, NEW ev \in Event, fsEvents' = Append(fsEvents, ev)
    PROVE  /\ \A op, p : Queued(op, p) => Queued(op, p)'
           /\ Queued(ev.op, ev.path)'
<1>1. /\ fsEvents \in Seq(Event) /\ Len(fsEvents) \in Nat /\ Len(fsEvents') = Len(fsEvents) + 1
      /\ \A i \in 1..Len(fsEvents) : fsEvents'[i] = fsEvents[i]
      /\ fsEvents'[Len(fsEvents) + 1] = ev
  BY DEF TypeOK, Event
<1>2. ASSUME NEW op, NEW p, Queued(op, p) PROVE Queued(op, p)'
  BY <1>1, <1>2 DEF Queued
<1>3. Queued(ev.op, ev.path)'
  <2>1. ev = [op |-> ev.op, path |-> ev.path] /\ Len(fsEvents) + 1 \in 1..Len(fsEvents')
    BY <1>1 DEF Event
  <2>q. QED BY <1>1, <2>1 DEF Queued
<1>q. QED BY <1>2, <1>3

\* All but the first one stays when it is taken.
LEMMA Taken ==
    ASSUME TypeOK, NEW op, NextEvent(op)
    PROVE  /\ Head(fsEvents) \in Event /\ Head(fsEvents).op = op
           /\ fsEvents' \in Seq(Event)
           /\ \A o, p : Queued(o, p) =>
                 Queued(o, p)' \/ (o = op /\ Head(fsEvents).path = p)
<1>1. /\ fsEvents \in Seq(Event) /\ fsEvents # <<>> /\ fsEvents' = Tail(fsEvents)
      /\ Head(fsEvents).op = op
  BY DEF TypeOK, Event, NextEvent
<1>2. /\ Len(fsEvents) \in Nat /\ Len(fsEvents) > 0 /\ Head(fsEvents) = fsEvents[1]
      /\ fsEvents[1] \in Event /\ fsEvents' \in Seq(Event)
      /\ Len(fsEvents') = Len(fsEvents) - 1
      /\ \A i \in 1..Len(fsEvents') : fsEvents'[i] = fsEvents[i + 1]
  BY <1>1
<1>3. ASSUME NEW o, NEW p, Queued(o, p)
      PROVE  Queued(o, p)' \/ (o = op /\ Head(fsEvents).path = p)
  <2>1. PICK i \in 1..Len(fsEvents) : fsEvents[i] = [op |-> o, path |-> p]
    BY <1>3 DEF Queued
  <2>2. CASE i = 1
    BY <1>1, <1>2, <2>1, <2>2
  <2>3. CASE i > 1
    <3>1. i - 1 \in 1..Len(fsEvents') /\ fsEvents'[i - 1] = fsEvents[i]
      BY <1>2, <2>1, <2>3
    <3>q. QED BY <2>1, <3>1 DEF Queued
  <2>q. QED BY <1>2, <2>1, <2>2, <2>3
<1>q. QED BY <1>1, <1>2, <1>3

\* The inotify queue gets an event, if anything.
Grows == fsEvents' = fsEvents \/ \E ev \in Event : fsEvents' = Append(fsEvents, ev)

\* Where the event goroutine does not move, nothing is lost.
LEMMA Waits ==
    ASSUME TypeOK, Grows, walk' = walk
    PROVE  /\ \A op, p : Queued(op, p) => Queued(op, p)'
           /\ \A n, p : Ahead(n, p) => Ahead(n, p)'
           /\ fsEvents' \in Seq(Event)
<1>1. \A op, p : Queued(op, p) => Queued(op, p)'
  <2>1. CASE fsEvents' = fsEvents
    BY <2>1 DEF Queued
  <2>q. QED BY <2>1, Appended DEF Grows
<1>2. \A n, p : Ahead(n, p) => Ahead(n, p)'
  BY <1>1 DEF Ahead, Under
<1>3. fsEvents' \in Seq(Event)
  <2>1. fsEvents \in Seq(Event)
    BY DEF TypeOK, Event
  <2>q. QED BY <2>1 DEF Grows
<1>q. QED BY <1>1, <1>2, <1>3

\* An event that does not make a directory takes no walk away.
LEMMA NoneMade ==
    ASSUME TypeOK, NEW op, op # "made", NextEvent(op), walk' = walk
    PROVE  \A n, p : Ahead(n, p) => Ahead(n, p)'
<1>1. \A d : Queued("made", d) => Queued("made", d)'
  BY Taken
<1>q. QED BY <1>1 DEF Ahead, Under

\* A walk begins with the directory of the event.
LEMMA WalkBegins ==
    ASSUME TypeOK, Grown, HandleMade, NEW n, NEW p \in exists, Ahead(n, p)
    PROVE  Ahead(n, p)'
<1>1. walk = NoWalk /\ walk'.visit = {Head(fsEvents).path} \cap exists
  BY DEF HandleMade, NextEvent, NoWalk
<1>2. PICK d \in Above[p] \cup {p} : Under(d, n) /\ Queued("made", d)
  BY <1>1 DEF Ahead, NoWalk
<1>3. d \in exists
  BY <1>2 DEF Grown
<1>4. Queued("made", d)' \/ d \in walk'.visit
  BY <1>1, <1>2, <1>3, Taken DEF HandleMade
<1>5. Under(d, n)'
  BY <1>2 DEF Under
<1>q. QED BY <1>2, <1>4, <1>5 DEF Ahead

\* It goes on from a directory to what there is in it.
LEMMA WalkReads ==
    ASSUME TypeOK, Grown, NEW r, ReadNew(r), NEW n, NEW p \in exists, Ahead(n, p)
    PROVE  Ahead(n, p)'
<1>1. /\ walk'.visit = walk.visit \cup Children(r) /\ walk'.read = walk.read \ {r}
      /\ fsEvents' = fsEvents /\ p \in Paths
  BY DEF ReadNew, inotify, TypeOK
<1>2. \A d : (Queued("made", d) => Queued("made", d)') /\ (Under(d, n)' <=> Under(d, n))
  BY <1>1 DEF Queued, Under
<1>3. CASE r \in Above[p] /\ Under(r, n)
  <2>1. PICK c \in Above[p] \cup {p} : InDir(c, r) /\ c \in Paths
    BY <1>1, <1>3, FirstStep
  <2>2. c \in exists /\ r \in Above[c]
    BY <2>1 DEF Grown, InDir
  <2>3. c \in Children(r) /\ Under(c, n)
    BY <1>3, <2>1, <2>2, UnderBelow DEF Children
  <2>q. QED BY <1>1, <1>2, <2>1, <2>3 DEF Ahead
<1>4. CASE ~(r \in Above[p] /\ Under(r, n))
  BY <1>1, <1>2, <1>4 DEF Ahead
<1>q. QED BY <1>3, <1>4

\* A walk that skips a directory is not on the way to what is uncovered: its
\* patterns are those on disk, or the walk is excepted.
LEMMA WalkVisits ==
    ASSUME TypeOK, Grown, NEW v \in Dirs, VisitNew(v), ~raced',
           NEW n \in registered, NEW p \in exists, Uncovered(p, n), Ahead(n, p)
    PROVE  Ahead(n, p)' \/ (p = v /\ v \in watches')
<1>1. /\ v \notin Files /\ v \in walk.visit /\ fsEvents' = fsEvents /\ p \in Paths
      /\ VisitDir(v)
  BY PathsAssumption DEF VisitNew, TypeOK
<1>2. \A d : (Queued("made", d) => Queued("made", d)') /\ (Under(d, n)' <=> Under(d, n))
  BY <1>1 DEF Queued, Under
<1>3. CASE v \in Above[p] \cup {p} /\ Under(v, n)
  <2>1. Uncovered(v, n) /\ n \in Asked(v)
    BY <1>1, <1>3, UnderBelow DEF Asked
  <2>2. PICK S \in Questions(v) : raced' = (raced \/ Outdated(S))
    BY <1>1 DEF VisitDir, Ask
  <2>3. WatchedByAny(v)
    <3>1. CASE S = Asked(v)
      <4>1. Patterns(n) = ignoring[Context[n]]
        BY <2>1, <2>2, <3>1 DEF Outdated
      <4>q. QED BY <2>1, <4>1 DEF WatchedByAny, Wants, Uncovered
    <3>q. QED BY <2>2, <3>1 DEF Questions
  <2>4. v \in walk'.read /\ (v \in exists => v \in watches')
    BY <1>1, <2>3 DEF VisitDir
  <2>q. QED BY <1>2, <1>3, <2>4 DEF Ahead
<1>4. CASE ~(v \in Above[p] \cup {p} /\ Under(v, n))
  <2>1. walk'.visit = walk.visit \ {v} /\ walk.read \subseteq walk'.read
    BY <1>1 DEF VisitDir
  <2>q. QED BY <1>2, <1>4, <2>1 DEF Ahead
<1>q. QED BY <1>3, <1>4

\* A file on the walk is under no other path.
LEMMA WalkSchedules ==
    ASSUME TypeOK, Grown, NEW f \in Files, VisitNew(f), NEW n, NEW p \in exists, Ahead(n, p)
    PROVE  Ahead(n, p)' \/ p = f
<1>1. /\ fsEvents' = fsEvents /\ p \in Paths /\ f \notin Above[p]
      /\ walk'.visit = walk.visit \ {f} /\ walk'.read = walk.read
  BY PathsAssumption DEF VisitNew, VisitFile, TypeOK
<1>2. \A d : (Queued("made", d) => Queued("made", d)') /\ (Under(d, n)' <=> Under(d, n))
  BY <1>1 DEF Queued, Under
<1>q. QED BY <1>1, <1>2 DEF Ahead

-----------------------------------------------------------------------------
(* The watcher: types, and what there is.                                  *)

\* The timers after Add.
LEMMA Added ==
    ASSUME TypeOK, NEW K \in SUBSET Keys, AddAll(K)
    PROVE  /\ timer' \in [Keys -> {"none", "armed", "fired"}]
           /\ loose' \in [Keys -> Nat] /\ firing' \in [Keys -> Nat]
           /\ \A k \in Keys : Running(k) \/ k \in K => Running(k)'
BY DEF AddAll, TypeOK, Running

\* What schedule does.
LEMMA Scheduled ==
    ASSUME TypeOK, NEW p \in Paths, Schedule(p)
    PROVE  /\ timer' \in [Keys -> {"none", "armed", "fired"}]
           /\ loose' \in [Keys -> Nat] /\ firing' \in [Keys -> Nat]
           /\ \A k \in Keys : Running(k) => Running(k)'
           /\ \A n \in Matching(p, registered) : Running(<<n, p>>)'
<1> DEFINE K == {<<n, p>> : n \in Matching(p, registered)}
<1>1. K \in SUBSET Keys /\ AddAll(K)
  BY DEF Schedule, Matching, TypeOK, Keys
<1> HIDE DEF K
<1>2. /\ timer' \in [Keys -> {"none", "armed", "fired"}]
      /\ loose' \in [Keys -> Nat] /\ firing' \in [Keys -> Nat]
      /\ \A k \in Keys : Running(k) \/ k \in K => Running(k)'
  BY <1>1, Added
<1>3. \A n \in Matching(p, registered) : <<n, p>> \in K
  BY DEF K
<1>q. QED BY <1>1, <1>2, <1>3

\* What is asked for comes into the cache.
LEMMA AskedCached ==
    ASSUME TypeOK, NEW d \in Paths, Ask(d)
    PROVE  /\ DOMAIN cache' \subseteq Contexts
           /\ cache' \in [DOMAIN cache' -> SUBSET Ignorable]
           /\ raced' \in BOOLEAN /\ (raced => raced')
<1>1. PICK S \in Questions(d) : cache' = Filled(S) /\ raced' = (raced \/ Outdated(S))
  BY DEF Ask
<1>2. S \subseteq Profiles
  BY <1>1 DEF Questions, Asked, TypeOK
<1>3. {Context[n] : n \in S} \subseteq Contexts
  BY <1>2 DEF Contexts
<1>4. DOMAIN cache \subseteq Contexts /\ ignoring \in [Contexts -> SUBSET Ignorable]
      /\ \A c \in DOMAIN cache : cache[c] \in SUBSET Ignorable
  BY DEF TypeOK
<1>5. DOMAIN cache' \subseteq Contexts /\ cache' \in [DOMAIN cache' -> SUBSET Ignorable]
  BY <1>1, <1>3, <1>4 DEF Filled
<1>q. QED BY <1>1, <1>5 DEF TypeOK

\* The user keeps the types.
LEMMA UserTyped ==
    ASSUME TypeOK, TheUser
    PROVE  TypeOK' /\ Grows /\ walk' = walk
<1> USE DEF TypeOK, user, inotify, shared, timers, history
<1>1. ASSUME NEW p \in Paths, WriteFile(p) \/ MakeDir(p) \/ Remove(p)
      PROVE  TypeOK' /\ Grows /\ walk' = walk
  <2>1. PICK op \in {"made", "written", "gone"} : Touch(op, p)
    BY <1>1 DEF WriteFile, MakeDir, Remove
  <2>2. Grows /\ walk' = walk
    BY <2>1 DEF Touch, Grows, Event
  <2>3. fsEvents' \in Seq([op : {"made", "written", "gone", "ignore"}, path : Paths])
    BY <2>2, Waits DEF Event
  <2>4. exists' \subseteq Paths /\ watches' \subseteq exists' \cap Dirs
    BY <1>1 DEF WriteFile, MakeDir, Remove, Paths
  <2>5. unseen' \in [Profiles -> SUBSET Paths]
    <3>1. unseen \in [Profiles -> SUBSET Paths]
      OBVIOUS
    <3>2. Owe(p) \in [Profiles -> SUBSET Paths]
      BY <3>1 DEF Owe
    <3>3. [n \in Profiles |-> unseen[n] \ {p}] \in [Profiles -> SUBSET Paths]
      BY <3>1
    <3>q. QED BY <1>1, <3>1, <3>2, <3>3 DEF WriteFile, MakeDir, Remove
  <2>q. QED BY <2>1, <2>2, <2>3, <2>4, <2>5 DEF Touch
<1>2. ASSUME NEW c \in Contexts, NEW op, NEW patterns \in SUBSET Ignorable,
             EditIgnore(c, op, patterns)
      PROVE  TypeOK' /\ Grows /\ walk' = walk
  <2>1. c \in Paths
    BY ContextAssumption DEF Contexts, Paths
  <2>2. Grows /\ walk' = walk
    BY <1>2, <2>1 DEF EditIgnore, Grows, Event
  <2>3. fsEvents' \in Seq([op : {"made", "written", "gone", "ignore"}, path : Paths])
    BY <2>2, Waits DEF Event
  <2>4. /\ ignoring' \in [Contexts -> SUBSET Ignorable]
        /\ unseen' \in [Profiles -> SUBSET Paths]
        /\ {trampled, raced, uncovered}' \subseteq BOOLEAN
    BY <1>2 DEF EditIgnore
  <2>q. QED BY <1>2, <2>2, <2>3, <2>4 DEF EditIgnore
<1>q. QED BY <1>1, <1>2 DEF TheUser

\* So do the timers.
LEMMA DebouncerTyped ==
    ASSUME TypeOK, NEW k \in Keys, Expire(k) \/ Enqueue(k)
    PROVE  TypeOK' /\ UNCHANGED <<user, inotify, shared, reload, walk, inForce, trampled, raced, uncovered>>
<1> USE DEF TypeOK, user, inotify, shared, timers, history
<1>1. /\ timer' \in [Keys -> {"none", "armed", "fired"}]
      /\ loose' \in [Keys -> Nat] /\ firing' \in [Keys -> Nat]
  <2>0. /\ timer \in [Keys -> {"none", "armed", "fired"}]
        /\ loose \in [Keys -> Nat] /\ firing \in [Keys -> Nat]
    OBVIOUS
  <2> HIDE DEF TypeOK
  <2>1. CASE Expire(k)
    <3>1. loose[k] \in Nat /\ firing[k] \in Nat /\ (loose[k] > 0 => loose[k] - 1 \in Nat)
      BY <2>0
    <3>q. QED BY <2>0, <2>1, <3>1 DEF Expire
  <2>2. CASE Enqueue(k)
    BY <2>0, <2>2 DEF Enqueue
  <2>q. QED BY <2>1, <2>2
<1>2. unseen' \in [Profiles -> SUBSET Paths]
  <2>1. CASE Expire(k)
    BY <2>1 DEF Expire
  <2>2. CASE Enqueue(k)
    <3>1. unseen' = [unseen EXCEPT ![k[1]] = @ \ {k[2]}]
      BY <2>2 DEF Enqueue
    <3>2. unseen \in [Profiles -> SUBSET Paths]
      OBVIOUS
    <3>q. QED BY <3>1, <3>2
  <2>q. QED BY <2>1, <2>2
<1>q. QED BY <1>1, <1>2 DEF Expire, Enqueue

\* And the event goroutine.
LEMMA LoopTyped ==
    ASSUME TypeOK, Loop
    PROVE  TypeOK' /\ (raced => raced')
           /\ UNCHANGED <<user, registered, reload, inForce, unseen, trampled, uncovered>>
<1> USE DEF TypeOK, user, inotify, shared, timers, history
<1>1. ASSUME HandleIgnore \/ HandleMade \/ HandleWritten \/ HandleGone
      PROVE  TypeOK' /\ UNCHANGED <<user, registered, reload, inForce, unseen, trampled, raced, uncovered>>
  <2>1. PICK op : NextEvent(op)
    BY <1>1 DEF HandleIgnore, HandleMade, HandleWritten, HandleGone
  <2>2. /\ fsEvents' \in Seq([op : {"made", "written", "gone", "ignore"}, path : Paths])
        /\ Head(fsEvents).path \in Paths
    BY <2>1, Taken DEF Event
  <2>3. /\ timer' \in [Keys -> {"none", "armed", "fired"}]
        /\ loose' \in [Keys -> Nat] /\ firing' \in [Keys -> Nat]
    BY <1>1, <2>2, Scheduled DEF HandleIgnore, HandleMade, HandleWritten, HandleGone
  <2>4. walk' \in [visit : SUBSET Paths, read : SUBSET Dirs]
    <3>1. CASE HandleMade
      <4>1. walk' = [visit |-> {Head(fsEvents).path} \cap exists, read |-> {}]
        BY <3>1 DEF HandleMade, NoWalk
      <4>2. {Head(fsEvents).path} \cap exists \in SUBSET Paths
        BY <2>2
      <4>q. QED BY <4>1, <4>2
    <3>2. CASE walk' = walk
      BY <3>2
    <3>q. QED BY <1>1, <3>1, <3>2 DEF HandleIgnore, HandleWritten, HandleGone
  <2>5. DOMAIN cache' \subseteq Contexts /\ cache' \in [DOMAIN cache' -> SUBSET Ignorable]
    BY <1>1 DEF HandleIgnore, HandleMade, HandleWritten, HandleGone
  <2>q. QED BY <1>1, <2>2, <2>3, <2>4, <2>5
            DEF HandleIgnore, HandleMade, HandleWritten, HandleGone
<1>2. ASSUME NEW p \in Paths, VisitNew(p)
      PROVE  TypeOK' /\ (raced => raced') /\ UNCHANGED <<user, registered, reload, inForce, unseen, trampled, uncovered>>
  <2>1. CASE p \in Files
    <3>1. VisitFile(p)
      BY <1>2, <2>1 DEF VisitNew
    <3>2. /\ timer' \in [Keys -> {"none", "armed", "fired"}]
          /\ loose' \in [Keys -> Nat] /\ firing' \in [Keys -> Nat]
      BY <3>1, Scheduled DEF VisitFile
    <3>q. QED BY <1>2, <3>1, <3>2 DEF VisitNew, VisitFile
  <2>2. CASE p \notin Files
    <3>1. VisitDir(p) /\ p \in Dirs
      BY <1>2, <2>2 DEF VisitNew, Paths
    <3>2. /\ DOMAIN cache' \subseteq Contexts
          /\ cache' \in [DOMAIN cache' -> SUBSET Ignorable]
          /\ raced' \in BOOLEAN /\ (raced => raced')
      BY <3>1, AskedCached DEF VisitDir
    <3>q. QED BY <1>2, <3>1, <3>2 DEF VisitNew, VisitDir
  <2>q. QED BY <2>1, <2>2
<1>3. ASSUME NEW p \in Paths, ReadNew(p)
      PROVE  TypeOK' /\ (raced => raced') /\ UNCHANGED <<user, registered, reload, inForce, unseen, trampled, uncovered>>
  BY <1>3 DEF ReadNew, Children
<1> HIDE DEF TypeOK, user
<1>q. QED BY <1>1, <1>2, <1>3 DEF Loop

\* And Watch and Unwatch.
LEMMA ReloaderTyped ==
    ASSUME TypeOK, Reloading, Reloader
    PROVE  TypeOK' /\ UNCHANGED <<user, fsEvents, walk, timers, uncovered>>
<1> USE DEF TypeOK, user, inotify, shared, timers, history
<1> DEFINE Rs == [at : {"idle", "load", "store", "add", "remove"},
                   name : Profiles \cup {"none"}, patterns : SUBSET Ignorable,
                   visit : SUBSET Dirs, read : SUBSET Dirs]
<1>1. ASSUME NEW n \in Profiles, Register(n) \/ Unwatch(n)
      PROVE  TypeOK' /\ UNCHANGED <<user, fsEvents, walk, timers, uncovered>>
  <2>1. reload' \in Rs
    <3>1. \/ reload' = [at |-> "load", name |-> n, patterns |-> {}, visit |-> {}, read |-> {}]
          \/ reload' = [at |-> "remove", name |-> n, patterns |-> {},
                        visit |-> {Context[n]}, read |-> {}]
      BY <1>1 DEF Register, Unwatch, Idle
    <3>2. Context[n] \in Dirs
      BY ContextAssumption
    <3>q. QED BY <3>1, <3>2
  <2>2. unseen' \in [Profiles -> SUBSET Paths] /\ {trampled, raced, uncovered}' \subseteq BOOLEAN
    <3>1. unseen \in [Profiles -> SUBSET Paths] /\ {trampled, raced, uncovered} \subseteq BOOLEAN
      OBVIOUS
    <3> HIDE DEF TypeOK
    <3>2. CASE Register(n)
      <4>1. unseen' = [m \in Profiles |-> {p \in unseen[m] : m \in Matching(p, registered')}]
        BY <3>2 DEF Register
      <4>2. \A m \in Profiles : {p \in unseen[m] : m \in Matching(p, registered')} \in SUBSET Paths
        BY <3>1
      <4>q. QED BY <3>1, <3>2, <4>1, <4>2 DEF Register
    <3>3. CASE Unwatch(n)
      BY <3>1, <3>3 DEF Unwatch
    <3>q. QED BY <1>1, <3>2, <3>3
  <2>q. QED BY <1>1, <2>1, <2>2 DEF Register, Unwatch
<1>2. ASSUME LoadPatterns \/ StorePatterns
      PROVE  TypeOK' /\ UNCHANGED <<user, fsEvents, walk, timers, uncovered>>
  <2>1. reload.name \in Profiles /\ Context[reload.name] \in Contexts
    BY <1>2 DEF LoadPatterns, StorePatterns, Reloading, Contexts
  <2>2. reload' \in Rs
    <3>1. reload \in Rs /\ Context[reload.name] \in Dirs
          /\ (Context[reload.name] \in DOMAIN cache => cache[Context[reload.name]] \in SUBSET Ignorable)
          /\ ignoring[Context[reload.name]] \in SUBSET Ignorable
      BY <2>1, ContextAssumption
    <3>2. \E pats \in SUBSET Ignorable :
             \/ reload' = [at |-> "add", name |-> reload.name, patterns |-> pats,
                           visit |-> {Context[reload.name]}, read |-> {}]
             \/ reload' = [reload EXCEPT !.at = "store", !.patterns = pats]
      BY <1>2, <3>1 DEF LoadPatterns, StorePatterns, Starts
    <3>3. PICK pats \in SUBSET Ignorable :
             \/ reload' = [at |-> "add", name |-> reload.name, patterns |-> pats,
                           visit |-> {Context[reload.name]}, read |-> {}]
             \/ reload' = [reload EXCEPT !.at = "store", !.patterns = pats]
      BY <3>2
    <3>4. CASE reload' = [reload EXCEPT !.at = "store", !.patterns = pats]
      BY <3>1, <3>4
    <3>5. CASE reload' = [at |-> "add", name |-> reload.name, patterns |-> pats,
                          visit |-> {Context[reload.name]}, read |-> {}]
      BY <2>1, <3>1, <3>5
    <3>q. QED BY <3>3, <3>4, <3>5
  <2>3. DOMAIN cache' \subseteq Contexts /\ cache' \in [DOMAIN cache' -> SUBSET Ignorable]
    <3>1. CASE LoadPatterns
      BY <3>1 DEF LoadPatterns
    <3>2. CASE StorePatterns
      <4>1. cache' = [c \in {Context[reload.name]} \cup DOMAIN cache |->
                         IF c = Context[reload.name] THEN reload.patterns ELSE cache[c]]
        BY <3>2 DEF StorePatterns
      <4>2. reload.patterns \in SUBSET Ignorable
        OBVIOUS
      <4>q. QED BY <2>1, <4>1, <4>2
    <3>q. QED BY <1>2, <3>1, <3>2
  <2>4. {trampled, raced, uncovered}' \subseteq BOOLEAN
    BY <1>2 DEF LoadPatterns, StorePatterns
  <2>q. QED BY <1>2, <2>2, <2>3, <2>4 DEF LoadPatterns, StorePatterns
<1>3. ASSUME WatchFails \/ WatchReturns \/ Unregister
      PROVE  TypeOK' /\ UNCHANGED <<user, fsEvents, walk, timers, uncovered>>
  <2>1. reload' = Idle /\ Idle \in Rs
    BY <1>3 DEF WatchFails, WatchReturns, Unregister, Idle
  <2>2. inForce' \subseteq registered' /\ registered' \subseteq Profiles
    BY <1>3 DEF WatchFails, WatchReturns, Unregister, Reloading
  <2>q. QED BY <1>3, <2>1, <2>2 DEF WatchFails, WatchReturns, Unregister
<1>4. ASSUME NEW d \in Dirs, Visit(d) \/ Read(d) \/ Unvisit(d)
      PROVE  TypeOK' /\ UNCHANGED <<user, fsEvents, walk, timers, uncovered>>
  <2>1. reload' \in Rs
    <3>1. \E V \in SUBSET Dirs, R \in SUBSET Dirs :
             reload' = [reload EXCEPT !.visit = V, !.read = R]
      <4>1. reload \in Rs
        OBVIOUS
      <4> HIDE DEF TypeOK
      <4>2. CASE Visit(d)
        <5>1. \/ reload' = [reload EXCEPT !.visit = reload.visit \ {d}, !.read = reload.read]
              \/ reload' = [reload EXCEPT !.visit = reload.visit \ {d}, !.read = reload.read \cup {d}]
          BY <4>1, <4>2 DEF Visit
        <5>q. QED BY <4>1, <5>1
      <4>3. CASE Read(d)
        <5>1. reload' = [reload EXCEPT !.visit = reload.visit \cup (Children(d) \cap Dirs),
                                       !.read = reload.read \ {d}]
          BY <4>3 DEF Read
        <5>q. QED BY <4>1, <5>1
      <4>4. CASE Unvisit(d)
        <5>1. reload' = [reload EXCEPT !.visit = (reload.visit \ {d}) \cup (Children(d) \cap Dirs),
                                       !.read = reload.read]
          BY <4>1, <4>4 DEF Unvisit
        <5>q. QED BY <4>1, <5>1
      <4>q. QED BY <1>4, <4>2, <4>3, <4>4
    <3>2. reload \in Rs
      OBVIOUS
    <3>q. QED BY <3>1, <3>2
  <2>q. QED BY <1>4, <2>1 DEF Visit, Read, Unvisit
<1>q. QED BY <1>1, <1>2, <1>3, <1>4 DEF Reloader

\* What there is stays in directories that there are.
LEMMA StaysGrown ==
    ASSUME TypeOK, Grown, TheUser
    PROVE  Grown'
<1>1. ASSUME NEW p \in Paths, WriteFile(p) \/ MakeDir(p)
      PROVE  Grown'
  BY <1>1 DEF WriteFile, MakeDir, Touch, Grown, Contexts
<1>2. ASSUME NEW p \in Paths, Remove(p)
      PROVE  Grown'
  <2>1. p \in exists /\ exists' = exists \ {p} /\ p \notin Contexts
    BY <1>2 DEF Remove, Touch
  <2>2. ASSUME NEW q \in exists, p \in Above[q] PROVE FALSE
    <3>1. q \in Paths /\ p \in Dirs
      BY <2>2, AboveAreShallower DEF TypeOK
    <3>2. Children(p) = {}
      BY <1>2, <3>1, PathsAssumption DEF Remove
    <3>3. PICK c \in Above[q] \cup {q} : InDir(c, p)
      BY <2>2, <3>1, FirstStep
    <3>4. c \in Children(p)
      BY <2>2, <3>3 DEF Grown, Children
    <3>q. QED BY <3>2, <3>4
  <2>q. QED BY <2>1, <2>2 DEF Grown, Contexts
<1>3. ASSUME exists' = exists PROVE Grown'
  BY <1>3 DEF Grown, Contexts
<1>q. QED BY <1>1, <1>2, <1>3 DEF TheUser, EditIgnore

\* Nobody but Watch and Unwatch changes what they are at.
LEMMA ReloadingStays ==
    ASSUME TypeOK, Grown, Reloading, UNCHANGED <<reload, registered, inForce>>, trampled' = trampled,
           \A n \in Profiles \ inForce : unseen'[n] \subseteq unseen[n]
    PROVE  Reloading'
BY DEF Reloading, Under, Overlaps

\* These are, from their first step to their last, at a profile that is not in
\* force.
LEMMA ReloadingGoesOn ==
    ASSUME TypeOK, Grown, Reloading, Reloader
    PROVE  Reloading'
<1> USE DEF shared, history
<1>1. ASSUME NEW n \in Profiles, Register(n) PROVE Reloading'
  <2>1. /\ registered' = registered \cup {n} /\ inForce' = inForce /\ n \notin inForce
        /\ reload'.at = "load" /\ reload'.name = n
        /\ \A m \in Profiles : unseen'[m] \subseteq unseen[m]
    BY <1>1 DEF Register, Idle, TypeOK
  <2>q. QED BY <2>1 DEF Reloading
<1>2. ASSUME NEW n \in Profiles, Unwatch(n) PROVE Reloading'
  <2>1. /\ registered' = registered /\ inForce' = inForce \ {n} /\ n \in registered
        /\ reload'.at = "remove" /\ reload'.name = n /\ reload'.visit = {Context[n]}
        /\ unseen' = [unseen EXCEPT ![n] = {}]
        /\ trampled' = (trampled \/ \E m \in registered \ {n} : Overlaps(n, m))
    BY <1>2 DEF Unwatch, Idle, TypeOK
  <2>2. \A m \in Profiles \ inForce' : unseen'[m] = {}
    BY <2>1 DEF Reloading, TypeOK
  <2>3. Under(Context[n], n)'
    BY DEF Under
  <2>4. \A m \in registered : Overlaps(n, m)' <=> Overlaps(n, m)
    BY DEF Overlaps, Under
  <2>q. QED BY <2>1, <2>2, <2>3, <2>4 DEF Reloading
<1>3. ASSUME LoadPatterns \/ StorePatterns PROVE Reloading'
  <2>1. /\ UNCHANGED <<registered, inForce, unseen>> /\ reload'.name = reload.name
        /\ reload'.at \in {"store", "add"} /\ reload.at # "idle"
    <3>1. reload' = [reload EXCEPT !.at = "store", !.patterns = ignoring[Context[reload.name]]] =>
              reload'.name = reload.name /\ reload'.at = "store"
      BY DEF TypeOK
    <3>q. QED BY <1>3, <3>1 DEF LoadPatterns, StorePatterns, Starts
  <2>q. QED BY <2>1 DEF Reloading
<1>4. ASSUME WatchFails \/ WatchReturns \/ Unregister PROVE Reloading'
  <2>1. reload'.at = "idle" /\ inForce \subseteq inForce' /\ unseen' = unseen
    BY <1>4 DEF WatchFails, WatchReturns, Unregister, Idle
  <2>q. QED BY <2>1 DEF Reloading
<1>5. ASSUME NEW d \in Dirs, Visit(d) \/ Read(d) PROVE Reloading'
  <2>1. /\ UNCHANGED <<registered, inForce, unseen>> /\ reload'.name = reload.name
        /\ reload'.at = "add" /\ reload.at = "add"
    BY <1>5 DEF Visit, Read, TypeOK
  <2>q. QED BY <2>1 DEF Reloading
<1>6. ASSUME NEW d \in Dirs, Unvisit(d) PROVE Reloading'
  <2>1. /\ UNCHANGED <<registered, inForce, unseen, trampled>> /\ reload'.name = reload.name
        /\ reload'.at = "remove" /\ reload.at = "remove" /\ d \in reload.visit
        /\ reload'.visit = (reload.visit \ {d}) \cup (Children(d) \cap Dirs)
    BY <1>6 DEF Unvisit, TypeOK
  <2>2. \A c \in Children(d) : Under(c, reload.name)
    <3>1. \A c \in Children(d) : c \in Paths /\ d \in Above[c]
      BY DEF Children, InDir, TypeOK
    <3>2. Under(d, reload.name)
      BY <2>1 DEF Reloading
    <3>q. QED BY <3>1, <3>2, UnderBelow
  <2>q. QED BY <2>1, <2>2 DEF Reloading, Under, Overlaps
<1>q. QED BY <1>1, <1>2, <1>3, <1>4, <1>5, <1>6 DEF Reloader

-----------------------------------------------------------------------------
(* The watcher: nothing is missed.                                         *)

\* Steps that take no watch, no walk, no event and no timer away keep what is
\* guarded, and what is due.
LEMMA StaysGuarded ==
    ASSUME UNCHANGED <<exists, ignoring>>, watches \subseteq watches', inForce' \subseteq inForce,
           \A n, p : Ahead(n, p) => Ahead(n, p)', AllGuarded
    PROVE  AllGuarded'
BY DEF AllGuarded, Guarded, Uncovered, Covered, Under

\* So they keep what Watch itself is to come by,
LEMMA StaysAdding ==
    ASSUME UNCHANGED <<exists, ignoring, reload>>, watches \subseteq watches',
           \A n, p : Ahead(n, p) => Ahead(n, p)', Adding
    PROVE  Adding'
BY DEF Adding, Guarded, Uncovered, Covered, Under

\* and with what is due.
LEMMA StaysDue ==
    ASSUME TypeOK, UNCHANGED <<exists, ignoring, registered>>, inForce' \subseteq inForce,
           \A n \in inForce' : unseen'[n] \subseteq unseen[n],
           \A n, p : Ahead(n, p) => Ahead(n, p)',
           \A op, p : Queued(op, p) => Queued(op, p)',
           \A n \in inForce' : \A p \in unseen'[n] : Running(<<n, p>>) => Running(<<n, p>>)',
           AllDue
    PROVE  AllDue'
<1> SUFFICES ASSUME NEW n \in inForce', NEW p \in unseen'[n]
             PROVE  /\ n \in Matching(p, registered)' /\ Uncovered(p, n)'
                    /\ \/ Running(<<n, p>>)' \/ Queued("gone", p)'
                       \/ p \in exists' \cap Files /\ (Queued("written", p)' \/ Ahead(n, p)')
  BY DEF AllDue
<1>1. /\ n \in Matching(p, registered) /\ Uncovered(p, n)
      /\ \/ Running(<<n, p>>) \/ Queued("gone", p)
         \/ p \in exists \cap Files /\ (Queued("written", p) \/ Ahead(n, p))
  BY DEF AllDue
<1>2. n \in Matching(p, registered)' /\ Uncovered(p, n)'
  BY <1>1 DEF Matching, Uncovered, Covered, Under
<1>q. QED BY <1>1, <1>2

\* Above an uncovered path that can be made there is an uncovered directory,
\* and who walks to that one will come by the path.
LEMMA ParentUncovered ==
    ASSUME NEW n \in Profiles, NEW p \in Paths, p # Context[n], Above[p] \subseteq exists,
           Uncovered(p, n)
    PROVE  \E d \in Above[p] : /\ d \in exists \cap Dirs /\ d \in Paths /\ InDir(p, d)
                               /\ Above[d] \cup {d} \subseteq Above[p]
                               /\ Uncovered(d, n) /\ (Ahead(n, d) => Ahead(n, p))
<1>1. Context[n] \in Above[p]
  BY DEF Uncovered, Under
<1>2. PICK d \in Above[p] : InDir(p, d) /\ Above[p] = Above[d] \cup {d}
  BY <1>1, InSome
<1>3. d \in Dirs /\ d \in Paths
  BY AboveAreShallower
<1>4. Under(d, n)
  BY <1>1, <1>2 DEF Under
<1>5. Uncovered(d, n)
  BY <1>4, UnderBelow
<1>6. Ahead(n, d) => Ahead(n, p)
  BY <1>2 DEF Ahead
<1>q. QED BY <1>2, <1>3, <1>5, <1>6

\* A file that is written is due: by an event, if its directory is watched, or
\* by the walk that is on its way there.
LEMMA WriteIsDue ==
    ASSUME TypeOK, Grown, AllGuarded, Adding, AllDue, NEW f \in Paths, WriteFile(f)
    PROVE  AllGuarded' /\ Adding' /\ AllDue'
<1> USE DEF inotify, shared, timers
<1>1. /\ f \in Files /\ Touch("written", f) /\ exists' = exists \cup {f} /\ unseen' = Owe(f)
      /\ UNCHANGED <<watches, ignoring, registered, inForce, reload, walk, timer, loose, firing>>
      /\ Above[f] \subseteq exists /\ f \notin Dirs
  BY PathsAssumption DEF WriteFile, Touch
<1>2. /\ Grows
      /\ Reported(f) => Queued("written", f)'
  <2>1. [op |-> "written", path |-> f] \in Event
    BY DEF Event
  <2>q. QED BY <1>1, <2>1, Appended DEF Touch, Grows
<1>3. /\ \A n, p : Ahead(n, p) => Ahead(n, p)'
      /\ \A op, p : Queued(op, p) => Queued(op, p)'
  BY <1>1, <1>2, Waits
<1>4. exists' \cap Dirs = exists \cap Dirs
  BY <1>1
<1>5. AllGuarded' /\ Adding'
  BY <1>1, <1>3, <1>4 DEF AllGuarded, Adding, Guarded, Uncovered, Covered, Under
<1>6. ASSUME NEW n \in inForce, NEW p \in unseen'[n]
      PROVE  /\ n \in Matching(p, registered) /\ Uncovered(p, n)
             /\ \/ Running(<<n, p>>) \/ Queued("gone", p)'
                \/ p \in exists' \cap Files /\ (Queued("written", p)' \/ Ahead(n, p)')
  <2>1. CASE p \in unseen[n]
    BY <1>1, <1>3, <2>1 DEF AllDue
  <2>2. CASE p \notin unseen[n]
    <3>1. p = f /\ n \in Matching(f, registered) /\ ~Covered(f, n, ignoring[Context[n]])
      BY <1>1, <1>6, <2>2 DEF Owe, TypeOK
    <3>2. Uncovered(f, n) /\ n \in Profiles /\ f # Context[n]
      BY <1>1, <3>1, ContextAssumption DEF Matching, Uncovered, TypeOK
    <3>3. PICK d \in Above[f] : /\ d \in exists \cap Dirs /\ InDir(f, d) /\ Uncovered(d, n)
                                /\ (Ahead(n, d) => Ahead(n, f))
      BY <1>1, <3>2, ParentUncovered
    <3>4. Guarded(n, d)
      BY <3>3 DEF AllGuarded
    <3>5. Queued("written", f)' \/ Ahead(n, f)'
      BY <1>2, <1>3, <3>3, <3>4, InOneOnly DEF Guarded
    <3>q. QED BY <1>1, <3>1, <3>2, <3>5
  <2>q. QED BY <2>1, <2>2
<1>7. AllDue'
  BY <1>1, <1>6 DEF AllDue, Matching, Uncovered, Covered, Under, Running
<1>q. QED BY <1>5, <1>7

\* So is a directory that is made guarded: the event of its making will be
\* followed by a walk, or one is on its way to where it is.
LEMMA MadeIsGuarded ==
    ASSUME TypeOK, Grown, Reloading, AllGuarded, Adding, AllDue, NEW m \in Paths, MakeDir(m)
    PROVE  AllGuarded' /\ Adding' /\ AllDue'
<1> USE DEF inotify, shared, timers
<1>1. /\ m \in Dirs /\ Touch("made", m) /\ exists' = exists \cup {m} /\ m \notin Contexts
      /\ UNCHANGED <<watches, ignoring, registered, inForce, unseen, reload, walk, timer, loose, firing>>
      /\ Above[m] \subseteq exists
  BY DEF MakeDir, Touch
<1>2. /\ Grows
      /\ Reported(m) => Queued("made", m)'
  <2>1. [op |-> "made", path |-> m] \in Event
    BY DEF Event
  <2>q. QED BY <1>1, <2>1, Appended DEF Touch, Grows
<1>3. /\ \A n, p : Ahead(n, p) => Ahead(n, p)'
      /\ \A op, p : Queued(op, p) => Queued(op, p)'
  BY <1>1, <1>2, Waits
<1>4. ASSUME NEW n \in Profiles, Uncovered(m, n)
      PROVE  \E d \in Above[m] : /\ d \in exists \cap Dirs /\ Uncovered(d, n)
                                 /\ d \in Paths /\ Above[d] \cup {d} \subseteq Above[m]
                                 /\ Under(d, n)
                                 /\ (Guarded(n, d) => Ahead(n, m)')
  <2>1. m # Context[n]
    BY <1>1 DEF Contexts
  <2>2. PICK d \in Above[m] : /\ d \in exists \cap Dirs /\ d \in Paths /\ InDir(m, d)
                              /\ Above[d] \cup {d} \subseteq Above[m]
                              /\ Uncovered(d, n) /\ (Ahead(n, d) => Ahead(n, m))
    BY <1>1, <1>4, <2>1, ParentUncovered
  <2>3. CASE d \in watches
    <3>1. Queued("made", m)'
      BY <1>2, <2>2, <2>3, InOneOnly
    <3>q. QED BY <1>4, <2>2, <3>1 DEF Ahead, Uncovered, Under
  <2>4. CASE Ahead(n, d)
    BY <1>3, <2>2, <2>4 DEF Uncovered
  <2>5. CASE ~Guarded(n, d)
    BY <2>2, <2>5 DEF Uncovered
  <2>q. QED BY <2>3, <2>4, <2>5 DEF Guarded
<1>5. AllGuarded'
  <2> SUFFICES ASSUME NEW n \in inForce, NEW d \in exists' \cap Dirs, Uncovered(d, n)'
               PROVE  Guarded(n, d)'
    BY <1>1 DEF AllGuarded
  <2>1. Uncovered(d, n) /\ n \in Profiles
    BY <1>1 DEF Uncovered, Covered, Under, TypeOK
  <2>2. CASE d \in exists
    BY <1>1, <1>3, <2>1, <2>2 DEF AllGuarded, Guarded
  <2>3. CASE d = m
    BY <1>4, <2>1, <2>3 DEF AllGuarded, Guarded
  <2>q. QED BY <1>1, <2>2, <2>3
<1>6. Adding'
  <2> DEFINE Comes(d) == \/ \E e \in Above[d] \cup {d} : e \in reload.visit
                         \/ \E e \in Above[d] : e \in reload.read
  <2> SUFFICES ASSUME reload.at = "add", NEW n \in {reload.name}, NEW d \in exists' \cap Dirs,
                      Uncovered(d, n)', ~Covered(d, n, reload.patterns)
               PROVE  Guarded(n, d)' \/ Comes(d)
    BY <1>1 DEF Adding, Covered, Under
  <2>1. Uncovered(d, n) /\ n \in Profiles
    BY <1>1 DEF Uncovered, Covered, Under, TypeOK, Reloading
  <2>2. CASE d \in exists
    BY <1>1, <1>3, <2>1, <2>2 DEF Adding, Guarded
  <2>3. CASE d = m
    <3>1. PICK e \in Above[m] : /\ e \in exists \cap Dirs /\ Uncovered(e, n)
                                /\ e \in Paths /\ Above[e] \cup {e} \subseteq Above[m]
                                /\ Under(e, n)
                                /\ (Guarded(n, e) => Ahead(n, m)')
      BY <1>4, <2>1, <2>3
    <3>2. ~Covered(e, n, reload.patterns)
      BY <2>3, <3>1, UnderBelow
    <3>3. Guarded(n, e) \/ Comes(e)
      BY <3>1, <3>2 DEF Adding
    <3>4. Comes(e) => Comes(m)
      BY <3>1
    <3>q. QED BY <2>3, <3>1, <3>3, <3>4 DEF Guarded
  <2>q. QED BY <1>1, <2>2, <2>3
<1>7. AllDue'
  <2>1. ASSUME NEW n \in inForce, NEW p \in unseen[n]
        PROVE  /\ n \in Matching(p, registered) /\ Uncovered(p, n)
               /\ \/ Running(<<n, p>>) \/ Queued("gone", p)'
                  \/ p \in exists' \cap Files /\ (Queued("written", p)' \/ Ahead(n, p)')
    BY <1>1, <1>3 DEF AllDue
  <2>q. QED BY <1>1, <2>1 DEF AllDue, Matching, Uncovered, Covered, Under, Running
<1>q. QED BY <1>5, <1>6, <1>7

\* What goes is reported, or owed no more.
LEMMA GoneIsDue ==
    ASSUME TypeOK, Grown, AllGuarded, Adding, AllDue, NEW g \in Paths, Remove(g)
    PROVE  AllGuarded' /\ Adding' /\ AllDue'
<1> USE DEF inotify, shared, timers
<1>1. /\ Touch("gone", g) /\ exists' = exists \ {g} /\ watches' = watches \ {g}
      /\ UNCHANGED <<ignoring, registered, inForce, reload, walk, timer, loose, firing>>
      /\ unseen' = IF Reported(g) THEN Owe(g) ELSE [n \in Profiles |-> unseen[n] \ {g}]
  BY DEF Remove, Touch
<1>2. /\ Grows
      /\ Reported(g) => Queued("gone", g)'
  <2>1. [op |-> "gone", path |-> g] \in Event
    BY DEF Event
  <2>q. QED BY <1>1, <2>1, Appended DEF Touch, Grows
<1>3. /\ \A n, p : Ahead(n, p) => Ahead(n, p)'
      /\ \A op, p : Queued(op, p) => Queued(op, p)'
  BY <1>1, <1>2, Waits
<1>4. AllGuarded' /\ Adding'
  BY <1>1, <1>3 DEF AllGuarded, Adding, Guarded, Uncovered, Covered, Under
<1>5. ASSUME NEW n \in inForce, NEW p \in unseen'[n]
      PROVE  /\ n \in Matching(p, registered) /\ Uncovered(p, n)
             /\ \/ Running(<<n, p>>) \/ Queued("gone", p)'
                \/ p \in exists' \cap Files /\ (Queued("written", p)' \/ Ahead(n, p)')
  <2>0. n \in Profiles
    BY DEF TypeOK
  <2>1. CASE p = g
    <3>1. Reported(g)
      BY <1>1, <1>5, <2>0, <2>1
    <3>2. n \in Matching(p, registered) /\ Uncovered(p, n)
      <4>1. CASE p \in unseen[n]
        BY <4>1 DEF AllDue
      <4>2. CASE p \notin unseen[n]
        BY <1>1, <1>5, <2>0, <2>1, <3>1, <4>2 DEF Owe, Matching, Uncovered
      <4>q. QED BY <4>1, <4>2
    <3>q. QED BY <1>2, <2>1, <3>1, <3>2
  <2>2. CASE p # g
    <3>1. p \in unseen[n]
      BY <1>1, <1>5, <2>0, <2>2 DEF Owe
    <3>q. QED BY <1>1, <1>3, <2>2, <3>1 DEF AllDue
  <2>q. QED BY <2>1, <2>2
<1>6. AllDue'
  BY <1>1, <1>5 DEF AllDue, Matching, Uncovered, Covered, Under, Running
<1>q. QED BY <1>4, <1>6

\* A line taken out of .syncignore uncovers nothing that is there, or it is
\* excepted.
LEMMA EditIsExcepted ==
    ASSUME TypeOK, Grown, Reloading, AllGuarded, Adding, AllDue, NEW c \in Contexts, NEW op,
           NEW patterns \in SUBSET Ignorable, EditIgnore(c, op, patterns), ~uncovered'
    PROVE  AllGuarded' /\ Adding' /\ AllDue'
<1> USE DEF inotify, shared, timers
<1>1. /\ ignoring' = [ignoring EXCEPT ![c] = patterns]
      /\ UNCHANGED <<exists, watches, registered, inForce, reload, walk, timer, loose, firing>>
      /\ (ignoring[c] \ patterns) \cap exists = {}
      /\ unseen' = [n \in Profiles |-> {p \in unseen[n] : ~Covered(p, n, ignoring'[Context[n]])}]
  BY DEF EditIgnore
<1>2. Grows
  <2>1. [op |-> "ignore", path |-> c] \in Event
    BY ContextAssumption DEF Event, Contexts, Paths
  <2>q. QED BY <2>1 DEF EditIgnore, Grows
<1>3. /\ \A n, p : Ahead(n, p) => Ahead(n, p)'
      /\ \A o, p : Queued(o, p) => Queued(o, p)'
  BY <1>1, <1>2, Waits
<1>4. ASSUME NEW n \in Profiles, NEW d \in exists, Uncovered(d, n)'
      PROVE  Uncovered(d, n)
  <2>1. Under(d, n) /\ ~Covered(d, n, ignoring'[Context[n]])
    BY <1>4 DEF Uncovered, Covered, Under
  <2>2. CASE Context[n] = c
    <3>1. \A e \in ignoring[c] : e \in Above[d] \cup {d} => e \in patterns
      BY <1>1 DEF Grown
    <3>2. ignoring'[c] = patterns
      BY <1>1 DEF TypeOK
    <3>q. QED BY <2>1, <2>2, <3>1, <3>2 DEF Uncovered, Covered
  <2>3. CASE Context[n] # c
    BY <1>1, <2>1, <2>3 DEF Uncovered, TypeOK
  <2>q. QED BY <2>2, <2>3
<1>5. AllGuarded' /\ Adding'
  <2>1. inForce \subseteq Profiles /\ (reload.at = "add" => reload.name \in Profiles)
    BY DEF TypeOK, Reloading
  <2>q. QED BY <1>1, <1>3, <1>4, <2>1 DEF AllGuarded, Adding, Guarded, Covered, Under
<1>6. ASSUME NEW n \in inForce, NEW p \in unseen'[n]
      PROVE  /\ n \in Matching(p, registered) /\ Uncovered(p, n)'
             /\ \/ Running(<<n, p>>) \/ Queued("gone", p)'
                \/ p \in exists \cap Files /\ (Queued("written", p)' \/ Ahead(n, p)')
  <2>1. n \in Profiles /\ p \in unseen[n] /\ ~Covered(p, n, ignoring'[Context[n]])
    BY <1>1, <1>6 DEF TypeOK
  <2>q. QED BY <1>3, <2>1 DEF AllDue, Uncovered, Covered, Under
<1>7. AllDue'
  BY <1>1, <1>6 DEF AllDue, Matching, Under, Running
<1>q. QED BY <1>5, <1>7

\* A timer that has fired tells the queue, and that is all it ends.
LEMMA TimersEnd ==
    ASSUME TypeOK, AllGuarded, Adding, AllDue, NEW k \in Keys, Expire(k) \/ Enqueue(k)
    PROVE  AllGuarded' /\ Adding' /\ AllDue'
<1> USE DEF user, inotify, shared, history
<1>1. UNCHANGED <<exists, ignoring, watches, fsEvents, registered, reload, walk, inForce>>
  BY DEF Expire, Enqueue
<1>2. /\ \A n, p : Ahead(n, p) => Ahead(n, p)'
      /\ \A op, p : Queued(op, p) => Queued(op, p)'
  BY <1>1, Waits DEF Grows
<1>3. AllGuarded' /\ Adding'
  BY <1>1, <1>2, StaysGuarded, StaysAdding
<1>4. \A n \in Profiles : unseen'[n] \subseteq unseen[n]
  <2>1. CASE Expire(k)
    BY <2>1 DEF Expire
  <2>2. CASE Enqueue(k)
    <3>1. unseen' = [unseen EXCEPT ![k[1]] = @ \ {k[2]}]
      BY <2>2 DEF Enqueue
    <3>q. QED BY <3>1 DEF TypeOK
  <2>q. QED BY <2>1, <2>2
<1>5. ASSUME NEW n \in inForce, NEW p \in unseen'[n], Running(<<n, p>>) PROVE Running(<<n, p>>)'
  <2>1. n \in Profiles /\ p \in Paths /\ <<n, p>> \in Keys
    BY <1>4, <1>5 DEF TypeOK, Keys
  <2>2. /\ timer \in [Keys -> {"none", "armed", "fired"}]
        /\ loose \in [Keys -> Nat] /\ firing \in [Keys -> Nat]
    BY DEF TypeOK
  <2>3. CASE k # <<n, p>>
    BY <1>5, <2>1, <2>2, <2>3 DEF Expire, Enqueue, Running
  <2>4. CASE k = <<n, p>> /\ Expire(k)
    BY <1>5, <2>1, <2>2, <2>4 DEF Expire, Running
  <2>5. CASE k = <<n, p>> /\ Enqueue(k)
    BY <1>5, <2>1, <2>5 DEF Enqueue, TypeOK
  <2>q. QED BY <2>3, <2>4, <2>5
<1>6. AllDue'
  <2>1. inForce \subseteq Profiles
    BY DEF TypeOK
  <2>q. QED BY <1>1, <1>2, <1>4, <1>5, <2>1, StaysDue
<1>q. QED BY <1>3, <1>6

\* Whether by the walk itself, by the watch it has set or by the timer it has
\* started: what the event goroutine was to come by is not forgotten.
LEMMA LoopGoesOn ==
    ASSUME TypeOK, Grown, AllGuarded, Adding, AllDue, Reloading, Loop, ~raced'
    PROVE  AllGuarded' /\ Adding' /\ AllDue'
<1>0. TypeOK' /\ UNCHANGED <<exists, ignoring, registered, reload, inForce, unseen>>
  BY LoopTyped DEF user
<1>1. /\ watches \subseteq watches'
      /\ \A k \in Keys : Running(k) => Running(k)'
  <2>1. ASSUME HandleIgnore \/ HandleMade
        PROVE  UNCHANGED <<watches, timer, loose, firing>>
    BY <2>1 DEF HandleIgnore, HandleMade, timers
  <2>2. ASSUME HandleWritten \/ HandleGone
        PROVE  /\ watches' = watches
               /\ UNCHANGED timers \/ Schedule(Head(fsEvents).path)
               /\ Head(fsEvents).path \in Paths
    <3>1. \E op : NextEvent(op)
      BY <2>2 DEF HandleWritten, HandleGone
    <3>q. QED BY <2>2, <3>1, Taken DEF HandleWritten, HandleGone, Event
  <2>3. ASSUME NEW p \in Paths, VisitNew(p)
        PROVE  /\ watches \subseteq watches'
               /\ UNCHANGED timers \/ Schedule(p)
    BY <2>3 DEF VisitNew, VisitFile, VisitDir
  <2>4. ASSUME NEW p \in Paths, ReadNew(p)
        PROVE  watches' = watches /\ UNCHANGED timers
    BY <2>4 DEF ReadNew, inotify
  <2>5. UNCHANGED timers => \A k : Running(k) => Running(k)'
    BY DEF timers, Running
  <2>q. QED BY <2>1, <2>2, <2>3, <2>4, <2>5, Scheduled DEF Loop, timers
<1>2. ASSUME NEW n \in registered, NEW p \in exists, Uncovered(p, n), Ahead(n, p)
      PROVE  \/ Ahead(n, p)' \/ (p \in Dirs /\ p \in watches')
             \/ p \in Files /\ (n \in Matching(p, registered) => Running(<<n, p>>)')
  <2>1. CASE HandleIgnore \/ HandleWritten \/ HandleGone
    <3>1. \E op : op # "made" /\ NextEvent(op) /\ walk' = walk
      BY <2>1 DEF HandleIgnore, HandleWritten, HandleGone
    <3>q. QED BY <1>2, <3>1, NoneMade
  <2>2. CASE HandleMade
    BY <1>2, <2>2, WalkBegins
  <2>3. ASSUME NEW r \in Paths, ReadNew(r) PROVE Ahead(n, p)'
    BY <1>2, <2>3, WalkReads
  <2>4. ASSUME NEW v \in Dirs, VisitNew(v) PROVE Ahead(n, p)' \/ (p \in Dirs /\ p \in watches')
    BY <1>2, <2>4, WalkVisits
  <2>5. ASSUME NEW f \in Files, VisitNew(f)
        PROVE  \/ Ahead(n, p)'
               \/ p \in Files /\ (n \in Matching(p, registered) => Running(<<n, p>>)')
    <3>1. Ahead(n, p)' \/ p = f
      BY <1>2, <2>5, WalkSchedules
    <3>2. f \in Paths /\ Schedule(f)
      BY <2>5 DEF VisitNew, VisitFile, Paths
    <3>q. QED BY <3>1, <3>2, Scheduled
  <2>q. QED BY <2>1, <2>2, <2>3, <2>4, <2>5 DEF Loop, Paths
<1>3. inForce \subseteq registered /\ (reload.at = "add" => reload.name \in registered)
  BY DEF TypeOK, Reloading
<1>4. ASSUME NEW n \in registered, NEW d \in exists \cap Dirs, Uncovered(d, n), Guarded(n, d)
      PROVE  Guarded(n, d)'
  <2>1. CASE d \in watches
    BY <1>1, <2>1 DEF Guarded
  <2>2. d \notin Files
    BY PathsAssumption
  <2>q. QED BY <1>2, <1>4, <2>1, <2>2 DEF Guarded
<1>5. AllGuarded' /\ Adding'
  BY <1>0, <1>3, <1>4 DEF AllGuarded, Adding, Uncovered, Covered, Under
<1>6. ASSUME NEW n \in inForce, NEW p \in unseen[n]
      PROVE  \/ Running(<<n, p>>)' \/ Queued("gone", p)'
             \/ p \in exists \cap Files /\ (Queued("written", p)' \/ Ahead(n, p)')
  <2>1. /\ n \in Matching(p, registered) /\ Uncovered(p, n) /\ n \in registered
        /\ p \in Paths /\ <<n, p>> \in Keys
        /\ \/ Running(<<n, p>>) \/ Queued("gone", p)
           \/ p \in exists \cap Files /\ (Queued("written", p) \/ Ahead(n, p))
    BY <1>3 DEF AllDue, TypeOK, Keys
  <2>2. CASE Running(<<n, p>>)
    BY <1>1, <2>1, <2>2
  <2>3. ASSUME NEW op \in {"gone", "written"}, Queued(op, p), op = "written" => p \in exists
        PROVE  Queued(op, p)' \/ Running(<<n, p>>)'
    <3>1. CASE UNCHANGED fsEvents
      BY <2>3, <3>1 DEF Queued
    <3>2. ASSUME NEW o, NextEvent(o), ~Queued(op, p)' PROVE o = op /\ Head(fsEvents).path = p
      BY <2>3, <3>2, Taken
    <3>3. CASE HandleIgnore \/ HandleMade
      BY <3>2, <3>3 DEF HandleIgnore, HandleMade
    <3>4. CASE HandleWritten \/ HandleGone
      <4>1. Queued(op, p)' \/ Schedule(p)
        BY <2>3, <3>2, <3>4 DEF HandleWritten, HandleGone
      <4>q. QED BY <2>1, <4>1, Scheduled
    <3>q. QED BY <3>1, <3>3, <3>4 DEF Loop, VisitNew, ReadNew, inotify
  <2>4. CASE p \in exists \cap Files /\ Ahead(n, p)
    <3>1. p \notin Dirs
      BY <2>4, PathsAssumption
    <3>q. QED BY <1>2, <2>1, <2>4, <3>1
  <2>q. QED BY <2>1, <2>2, <2>3, <2>4
<1>7. AllDue'
  BY <1>0, <1>6 DEF AllDue, Matching, Uncovered, Covered, Under
<1>q. QED BY <1>5, <1>7

\* Watch and Unwatch leave what is in force guarded; the walk of Watch itself
\* comes by all that is uncovered, unless its patterns were changed meanwhile.
LEMMA ReloadKeeps ==
    ASSUME TypeOK, Grown, Reloading, AllGuarded, Adding, AllDue, Reloader,
           ~trampled', ~raced'
    PROVE  AllGuarded' /\ Adding' /\ AllDue'
<1> USE DEF user, inotify, shared, timers, history
<1>0. /\ TypeOK' /\ UNCHANGED <<exists, ignoring, fsEvents, walk, timer, loose, firing>>
      /\ inForce \subseteq registered /\ registered \subseteq Profiles
  BY ReloaderTyped DEF TypeOK
<1>1. /\ \A n, p : Ahead(n, p) => Ahead(n, p)'
      /\ \A op, p : Queued(op, p) => Queued(op, p)'
      /\ \A k : Running(k) => Running(k)'
  BY <1>0, Waits DEF Grows, Running
<1>2. ASSUME NEW n \in Profiles, Register(n)
      PROVE  AllGuarded' /\ Adding' /\ AllDue'
  <2>1. /\ UNCHANGED <<watches, inForce>> /\ reload'.at = "load"
        /\ \A m \in inForce : unseen'[m] = {p \in unseen[m] : m \in Matching(p, registered')}
    BY <1>0, <1>2 DEF Register, Idle
  <2>2. AllGuarded'
    BY <1>0, <1>1, <2>1, StaysGuarded
  <2>3. ASSUME NEW m \in inForce, NEW p \in unseen'[m]
        PROVE  m \in Matching(p, registered') /\ p \in unseen[m]
    BY <2>1, <2>3
  <2>4. AllDue'
    BY <1>0, <1>1, <2>1, <2>3 DEF AllDue, Matching, Uncovered, Covered, Under
  <2>q. QED BY <2>1, <2>2, <2>4 DEF Adding
<1>3. ASSUME LoadPatterns \/ StorePatterns
      PROVE  AllGuarded' /\ Adding' /\ AllDue'
  <2>1. UNCHANGED <<watches, registered, inForce, unseen>>
    BY <1>3 DEF LoadPatterns, StorePatterns
  <2>2. AllGuarded' /\ AllDue'
    BY <1>0, <1>1, <2>1, StaysGuarded, StaysDue
  <2>3. \/ reload'.at = "store"
        \/ reload'.visit = {Context[reload'.name]}
    <3>1. [reload EXCEPT !.at = "store", !.patterns = ignoring[Context[reload.name]]].at = "store"
      BY DEF TypeOK
    <3>2. ASSUME NEW pats, Starts(reload.name, pats) PROVE reload'.visit = {Context[reload'.name]}
      BY <3>2 DEF Starts
    <3>q. QED BY <1>3, <3>1, <3>2 DEF LoadPatterns, StorePatterns
  <2>4. Adding'
    BY <2>3 DEF Adding, Uncovered, Under
  <2>q. QED BY <2>2, <2>4
<1>4. ASSUME NEW v \in Dirs, Visit(v)
      PROVE  AllGuarded' /\ Adding' /\ AllDue'
  <2>1. /\ UNCHANGED <<registered, inForce, unseen>> /\ watches \subseteq watches'
        /\ reload.at = "add" /\ v \in exists
        /\ UNCHANGED <<reload.name, reload.patterns>>
        /\ reload'.visit = reload.visit \ {v}
        /\ Covered(v, reload.name, reload.patterns) => reload'.read = reload.read
        /\ ~Covered(v, reload.name, reload.patterns) =>
              reload'.read = reload.read \cup {v} /\ v \in watches'
    BY <1>4 DEF Visit, TypeOK
  <2>2. AllGuarded' /\ AllDue'
    BY <1>0, <1>1, <2>1, StaysGuarded, StaysDue
  <2>3. ASSUME NEW n \in {reload.name}, NEW d \in exists \cap Dirs,
               Uncovered(d, n), ~Covered(d, n, reload.patterns)
        PROVE  \/ Guarded(n, d)'
               \/ \E e \in Above[d] \cup {d} : e \in reload'.visit
               \/ \E e \in Above[d] : e \in reload'.read
    <3>1. CASE Guarded(n, d)
      BY <1>1, <2>1, <3>1 DEF Guarded
    <3>2. ASSUME NEW e \in Above[d] \cup {d}, e \in reload.visit, e # v
          PROVE  e \in reload'.visit
      BY <2>1, <3>2
    <3>3. CASE v \in Above[d] \cup {d}
      <4>1. ~Covered(v, n, reload.patterns)
        <5>1. SUFFICES ASSUME Covered(v, n, reload.patterns) PROVE FALSE
          OBVIOUS
        <5>2. Under(v, n) /\ d \in Paths
          BY <5>1 DEF Covered, Paths
        <5>q. QED BY <2>3, <3>3, <5>1, <5>2, UnderBelow
      <4>q. QED BY <2>1, <3>3, <4>1 DEF Guarded
    <3>4. reload.read \subseteq reload'.read
      BY <2>1
    <3>q. QED BY <2>1, <2>3, <3>1, <3>2, <3>3, <3>4 DEF Adding
  <2>4. Adding'
    BY <1>0, <2>1, <2>3 DEF Adding, Uncovered, Covered, Under
  <2>q. QED BY <2>2, <2>4
<1>5. ASSUME NEW v \in Dirs, Read(v)
      PROVE  AllGuarded' /\ Adding' /\ AllDue'
  <2>1. /\ UNCHANGED <<registered, inForce, unseen, watches>>
        /\ reload.at = "add" /\ v \in exists
        /\ UNCHANGED <<reload.name, reload.patterns>>
        /\ reload'.visit = reload.visit \cup (Children(v) \cap Dirs)
        /\ reload'.read = reload.read \ {v}
    BY <1>5 DEF Read, TypeOK
  <2>2. AllGuarded' /\ AllDue'
    BY <1>0, <1>1, <2>1, StaysGuarded, StaysDue
  <2>3. ASSUME NEW n \in {reload.name}, NEW d \in exists \cap Dirs,
               Uncovered(d, n), ~Covered(d, n, reload.patterns)
        PROVE  \/ Guarded(n, d)'
               \/ \E e \in Above[d] \cup {d} : e \in reload'.visit
               \/ \E e \in Above[d] : e \in reload'.read
    <3>1. CASE Guarded(n, d)
      BY <1>1, <2>1, <3>1 DEF Guarded
    <3>2. CASE v \in Above[d]
      <4>1. PICK c \in Above[d] \cup {d} : InDir(c, v) /\ c \in Paths
        BY <3>2, FirstStep DEF Paths
      <4>2. c \in exists /\ c \in Dirs
        BY <4>1, AboveAreShallower DEF Grown, Paths
      <4>q. QED BY <2>1, <4>1, <4>2 DEF Children
    <3>3. CASE v \notin Above[d]
      BY <2>1, <2>3, <3>1, <3>3 DEF Adding
    <3>q. QED BY <3>2, <3>3
  <2>4. Adding'
    BY <1>0, <2>1, <2>3 DEF Adding, Uncovered, Covered, Under
  <2>q. QED BY <2>2, <2>4
<1>6. ASSUME WatchFails
      PROVE  AllGuarded' /\ Adding' /\ AllDue'
  <2>1. UNCHANGED <<watches, registered, inForce, unseen>> /\ reload'.at = "idle"
    BY <1>6 DEF WatchFails, Idle
  <2>2. AllGuarded' /\ AllDue'
    BY <1>0, <1>1, <2>1, StaysGuarded, StaysDue
  <2>q. QED BY <2>1, <2>2 DEF Adding
<1>7. ASSUME WatchReturns
      PROVE  AllGuarded' /\ Adding' /\ AllDue'
  <2>1. /\ UNCHANGED <<watches, registered, unseen>> /\ reload'.at = "idle"
        /\ inForce' = inForce \cup {reload.name}
        /\ reload.at = "add" /\ reload.visit = {} /\ reload.read = {}
        /\ reload.patterns = ignoring[Context[reload.name]]
    BY <1>7 DEF WatchReturns, Idle
  <2>2. ASSUME NEW d \in exists \cap Dirs, Uncovered(d, reload.name)
        PROVE  Guarded(reload.name, d)
    BY <2>1, <2>2 DEF Adding, Uncovered
  <2>3. AllGuarded'
    BY <1>0, <1>1, <2>1, <2>2 DEF AllGuarded, Guarded, Uncovered, Covered, Under
  <2>4. unseen[reload.name] = {}
    BY <2>1 DEF Reloading, TypeOK
  <2>5. ASSUME NEW n \in inForce, NEW p \in unseen[n]
        PROVE  /\ n \in Matching(p, registered) /\ Uncovered(p, n)
               /\ \/ Running(<<n, p>>)' \/ Queued("gone", p)'
                  \/ p \in exists \cap Files /\ (Queued("written", p)' \/ Ahead(n, p)')
    BY <1>1 DEF AllDue
  <2>6. AllDue'
    BY <1>0, <2>1, <2>4, <2>5 DEF AllDue, Matching, Uncovered, Covered, Under
  <2>q. QED BY <2>1, <2>3, <2>6 DEF Adding
<1>8. ASSUME NEW n \in Profiles, Unwatch(n)
      PROVE  AllGuarded' /\ Adding' /\ AllDue'
  <2>1. /\ UNCHANGED <<watches, registered>> /\ reload'.at = "remove" /\ inForce' = inForce \ {n}
        /\ unseen' = [unseen EXCEPT ![n] = {}]
    BY <1>8 DEF Unwatch, Idle
  <2>2. \A m \in inForce' : unseen'[m] \subseteq unseen[m]
    BY <1>0, <2>1 DEF TypeOK
  <2>3. AllGuarded' /\ AllDue'
    BY <1>0, <1>1, <2>1, <2>2, StaysGuarded, StaysDue
  <2>q. QED BY <2>1, <2>3 DEF Adding
<1>9. ASSUME NEW v \in Dirs, Unvisit(v)
      PROVE  AllGuarded' /\ Adding' /\ AllDue'
  <2>1. /\ UNCHANGED <<registered, inForce, unseen, trampled>> /\ watches' = watches \ {v}
        /\ reload.at = "remove" /\ reload'.at = "remove" /\ v \in reload.visit
    BY <1>9 DEF Unvisit, TypeOK
  <2>2. /\ Under(v, reload.name) /\ reload.name \in registered \ inForce
        /\ \A m \in registered \ {reload.name} : ~Overlaps(reload.name, m)
    BY <2>1 DEF Reloading
  <2>3. ASSUME NEW n \in inForce PROVE ~Under(v, n)
    <3>1. SUFFICES ASSUME Under(v, n) PROVE Overlaps(reload.name, n)
      BY <1>0, <2>2
    <3>2. v \in Paths
      BY DEF Paths
    <3>q. QED BY <2>2, <3>1, <3>2, PathsAssumption DEF Overlaps, Under
  <2>4. AllGuarded'
    BY <1>0, <1>1, <2>1, <2>3 DEF AllGuarded, Guarded, Uncovered, Covered, Under
  <2>5. AllDue'
    BY <1>0, <1>1, <2>1, StaysDue
  <2>q. QED BY <2>1, <2>4, <2>5 DEF Adding
<1>10. ASSUME Unregister
       PROVE  AllGuarded' /\ Adding' /\ AllDue'
  <2>1. /\ UNCHANGED <<watches, inForce, unseen>> /\ reload'.at = "idle"
        /\ registered' = registered \ {reload.name} /\ reload.name \notin inForce
    BY <1>10 DEF Unregister, Idle, Reloading
  <2>2. AllGuarded'
    BY <1>0, <1>1, <2>1, StaysGuarded
  <2>3. ASSUME NEW n \in inForce, NEW p \in unseen[n]
        PROVE  /\ n \in Matching(p, registered') /\ Uncovered(p, n)
               /\ \/ Running(<<n, p>>)' \/ Queued("gone", p)'
                  \/ p \in exists \cap Files /\ (Queued("written", p)' \/ Ahead(n, p)')
    BY <1>1, <2>1 DEF AllDue, Matching
  <2>4. AllDue'
    BY <1>0, <2>1, <2>3 DEF AllDue, Matching, Uncovered, Covered, Under
  <2>q. QED BY <2>1, <2>2, <2>4 DEF Adding
<1>q. QED BY <1>2, <1>3, <1>4, <1>5, <1>6, <1>7, <1>8, <1>9, <1>10 DEF Reloader

-----------------------------------------------------------------------------
(* The watcher: theorems.                                                  *)

\* At first nothing is watched and nothing is owed.
LEMMA WatcherStarts == InitWatcher => WatcherInv
<1> SUFFICES ASSUME InitWatcher PROVE WatcherInv
  OBVIOUS
<1>1. TypeOK
  <2>1. /\ reload \in [at : {"idle", "load", "store", "add", "remove"},
                       name : Profiles \cup {"none"}, patterns : SUBSET Ignorable,
                       visit : SUBSET Dirs, read : SUBSET Dirs]
        /\ walk \in [visit : SUBSET Paths, read : SUBSET Dirs]
    BY DEF InitWatcher, Idle, NoWalk
  <2>2. DOMAIN cache = {} /\ cache \in [DOMAIN cache -> SUBSET Ignorable]
    BY DEF InitWatcher
  <2>3. fsEvents \in Seq([op : {"made", "written", "gone", "ignore"}, path : Paths])
    BY DEF InitWatcher
  <2>q. QED BY <2>1, <2>2, <2>3 DEF InitWatcher, TypeOK
<1>2. Grown /\ Reloading /\ AllGuarded /\ Adding /\ AllDue
  BY DEF InitWatcher, Grown, Reloading, AllGuarded, Adding, AllDue, Idle
<1>q. QED BY <1>1, <1>2 DEF WatcherInv

\* Every step keeps the invariant.
LEMMA WatcherKeeps ==
    ASSUME WatcherInv, [NextWatcher]_watcherVars
    PROVE  WatcherInv'
<1> USE DEF WatcherInv
<1>1. CASE TheUser
  <2>1. TypeOK' /\ Grown'
    BY <1>1, UserTyped, StaysGrown
  <2>2. /\ UNCHANGED <<reload, registered, inForce, trampled>>
        /\ (raced => raced') /\ (uncovered => uncovered')
    <3>1. ASSUME NEW p \in Paths, WriteFile(p) \/ MakeDir(p) \/ Remove(p)
          PROVE  UNCHANGED <<reload, registered, inForce, trampled, raced, uncovered>>
      BY <3>1 DEF WriteFile, MakeDir, Remove, Touch, shared
    <3>2. ASSUME NEW c, NEW op, NEW patterns, EditIgnore(c, op, patterns)
          PROVE  /\ UNCHANGED <<reload, registered, inForce, trampled>>
                 /\ (raced => raced') /\ (uncovered => uncovered')
      BY <3>2 DEF EditIgnore, shared
    <3>q. QED BY <1>1, <3>1, <3>2 DEF TheUser
  <2>3. \A n \in Profiles \ inForce : unseen'[n] \subseteq unseen[n]
    BY <1>1 DEF TheUser, WriteFile, MakeDir, Remove, EditIgnore, Owe
  <2>4. Reloading'
    BY <2>2, <2>3, ReloadingStays
  <2>5. ASSUME ~Excepted' PROVE AllGuarded' /\ Adding' /\ AllDue'
    BY <1>1, <2>2, <2>5, WriteIsDue, MadeIsGuarded, GoneIsDue, EditIsExcepted
       DEF TheUser, Excepted
  <2>q. QED BY <2>1, <2>4, <2>5
<1>2. CASE Debouncer
  <2>1. PICK k \in Keys : Expire(k) \/ Enqueue(k)
    BY <1>2 DEF Debouncer
  <2>2. /\ TypeOK'
        /\ UNCHANGED <<user, inotify, shared, reload, walk, inForce, trampled, raced, uncovered>>
    BY <2>1, DebouncerTyped
  <2>3. Grown' /\ (Excepted' <=> Excepted)
    BY <2>2 DEF Grown, Contexts, Excepted, user
  <2>4. \A n \in Profiles : unseen'[n] \subseteq unseen[n]
    <3>1. CASE Expire(k)
      BY <3>1 DEF Expire, history
    <3>2. CASE Enqueue(k)
      <4>1. unseen' = [unseen EXCEPT ![k[1]] = @ \ {k[2]}]
        BY <3>2 DEF Enqueue
      <4>q. QED BY <4>1 DEF TypeOK
    <3>q. QED BY <2>1, <3>1, <3>2
  <2>5. Reloading'
    BY <2>2, <2>4, ReloadingStays DEF shared
  <2>6. ~Excepted' => AllGuarded' /\ Adding' /\ AllDue'
    BY <2>1, <2>3, TimersEnd
  <2>q. QED BY <2>2, <2>3, <2>5, <2>6
<1>3. CASE Loop
  <2>1. /\ TypeOK' /\ (raced => raced')
        /\ UNCHANGED <<user, registered, reload, inForce, unseen, trampled, uncovered>>
    BY <1>3, LoopTyped
  <2>2. Grown' /\ (Excepted => Excepted') /\ (~Excepted' => ~raced')
    BY <2>1 DEF Grown, Contexts, Excepted, user
  <2>3. Reloading'
    BY <2>1, ReloadingStays
  <2>4. ~Excepted' => AllGuarded' /\ Adding' /\ AllDue'
    BY <1>3, <2>2, LoopGoesOn
  <2>q. QED BY <2>1, <2>2, <2>3, <2>4
<1>4. CASE Reloader
  <2>1. TypeOK' /\ UNCHANGED <<user, fsEvents, walk, timers, uncovered>>
    BY <1>4, ReloaderTyped
  <2>2. Grown' /\ Reloading'
    BY <1>4, <2>1, ReloadingGoesOn DEF Grown, Contexts, user
  <2>3. (raced => raced') /\ (trampled => trampled') /\ uncovered' = uncovered
    <3>0. raced \in BOOLEAN /\ trampled \in BOOLEAN
      BY DEF TypeOK
    <3>1. ASSUME NEW n \in Profiles, Register(n) \/ Unwatch(n)
          PROVE  (raced => raced') /\ (trampled => trampled')
      <4>1. Register(n) => raced' = raced /\ trampled' = trampled
        BY DEF Register
      <4>2. Unwatch(n) => /\ raced' = raced
                          /\ trampled' = (trampled \/ \E m \in registered \ {n} : Overlaps(n, m))
        BY DEF Unwatch
      <4> HIDE DEF WatcherInv
      <4>q. QED BY <3>0, <3>1, <4>1, <4>2
    <3>2. ASSUME LoadPatterns \/ StorePatterns \/ WatchFails \/ WatchReturns \/ Unregister
          PROVE  (raced => raced') /\ (trampled => trampled')
      <4>1. LoadPatterns \/ WatchFails \/ Unregister => raced' = raced /\ trampled' = trampled
        BY DEF LoadPatterns, WatchFails, Unregister, history
      <4>2. StorePatterns \/ WatchReturns =>
                /\ trampled' = trampled
                /\ raced' = (raced \/ reload.patterns # ignoring[Context[reload.name]])
        BY DEF StorePatterns, WatchReturns
      <4> HIDE DEF WatcherInv
      <4>q. QED BY <3>0, <3>2, <4>1, <4>2
    <3>3. ASSUME NEW d \in Dirs, Visit(d) \/ Read(d) \/ Unvisit(d)
          PROVE  (raced => raced') /\ (trampled => trampled')
      BY <3>3 DEF Visit, Read, Unvisit, history
    <3>q. QED BY <1>4, <2>1, <3>1, <3>2, <3>3 DEF Reloader
  <2>4. ~Excepted' => AllGuarded' /\ Adding' /\ AllDue'
    BY <1>4, <2>3, ReloadKeeps DEF Excepted
  <2>q. QED BY <2>1, <2>2, <2>4
<1>5. CASE UNCHANGED watcherVars
  <2> USE DEF watcherVars, user, inotify, shared, timers, history
  <2>1. TypeOK' /\ Grown' /\ Reloading' /\ (Excepted' <=> Excepted)
    <3>1. \A n \in Profiles \ inForce : unseen'[n] \subseteq unseen[n]
      BY <1>5
    <3>q. QED BY <1>5, <3>1, ReloadingStays DEF TypeOK, Grown, Excepted
  <2>2. /\ \A n, p : Ahead(n, p) => Ahead(n, p)'
        /\ \A op, p : Queued(op, p) => Queued(op, p)'
    BY <1>5, Waits DEF Grows
  <2>3. \A k : Running(k) => Running(k)'
    BY <1>5 DEF Running
  <2>4. AllGuarded /\ Adding /\ AllDue => AllGuarded' /\ Adding' /\ AllDue'
    BY <1>5, <2>2, <2>3, StaysGuarded, StaysAdding, StaysDue
  <2>q. QED BY <2>1, <2>4
<1>q. QED BY <1>1, <1>2, <1>3, <1>4, <1>5 DEF NextWatcher

\* Theorem: the invariant of the watcher.
THEOREM WatcherInvariance == SpecWatcher => []WatcherInv
BY WatcherStarts, WatcherKeeps, PTL DEF SpecWatcher

\* Theorem: when all is quiet the queue was told of every change, for any tree,
\* profiles nested in any way, and any number of changes and reloads.
THEOREM AllTold == SpecWatcher => []NothingMissed
<1>1. WatcherInv => NothingMissed
  <2> SUFFICES ASSUME WatcherInv, Quiet, ~Excepted, NEW n \in inForce, NEW p \in unseen[n]
               PROVE  FALSE
    BY DEF NothingMissed, Told, Excepted
  <2>1. n \in Profiles /\ p \in Paths /\ <<n, p>> \in Keys
    BY DEF WatcherInv, TypeOK, Keys
  <2>2. ~Running(<<n, p>>)
    BY <2>1 DEF Quiet, Running
  <2>3. \A op, q : ~Queued(op, q)
    BY DEF Quiet, Queued
  <2>4. ~Ahead(n, p)
    BY <2>3 DEF Quiet, Ahead, NoWalk
  <2>q. QED BY <2>2, <2>3, <2>4 DEF WatcherInv, AllDue
<1>q. QED BY <1>1, WatcherInvariance, PTL
=============================================================================

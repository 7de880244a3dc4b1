------------------------------- MODULE Watcher -------------------------------
(***************************************************************************)
(* The file watcher of the daemon: internal/watcher/watcher.go and         *)
(* debounce.go, with the goroutine that reloads the configuration          *)
(* (cmd/daemon.go) calling Watch and Unwatch.                              *)
(*                                                                         *)
(* The kernel reports a change of a path if the directory it is in has a   *)
(* watch at that moment.  One goroutine takes the events in order and      *)
(* walks new directories; another walks the contexts of profiles that come *)
(* and go; timers of the debouncer hand paths to the queue.  The walks are *)
(* not atomic: the user goes on changing the tree under them.              *)
(***************************************************************************)
EXTENDS Integers, Sequences, FiniteSets

CONSTANTS
    Profiles,    \* profiles with autoSync
    Context,     \* the context directory of each
    Dirs, Files, \* paths
    Above,       \* the directories above a path
    Ignorable,   \* directories a line of .syncignore can cover
    MaxChanges,  \* bound: changes of files and directories
    MaxIgnores,  \* bound: changes of .syncignore
    MaxReloads   \* bound: calls of Watch and Unwatch

Paths == Dirs \cup Files

\* The directories above a path are a chain.
ASSUME PathsAssumption ==
    /\ Dirs \cap Files = {} /\ Ignorable \subseteq Dirs
    /\ Above \in [Paths -> SUBSET Dirs]
    /\ \A p \in Paths : IsFiniteSet(Above[p]) /\ p \notin Above[p]
    /\ \A p \in Paths : \A d \in Above[p] :
          /\ Above[d] \subseteq Above[p]
          /\ \A e \in Above[p] : e = d \/ e \in Above[d] \/ d \in Above[e]
ASSUME ContextAssumption == Context \in [Profiles -> Dirs]
ASSUME BoundsAssumption == {MaxChanges, MaxIgnores, MaxReloads} \subseteq Nat

VARIABLES
    exists,      \* paths there are
    ignoring,    \* of each context: the directories its .syncignore covers
    watches,     \* directories with a watch of the kernel
    fsEvents,    \* w.fsWatcher.Events
    registered,  \* keys of w.profiles
    cache,       \* w.syncignoreCache: the patterns of some of the contexts
    reload,      \* the reloading goroutine: what it does, for which profile,
                 \* with which patterns, what it will visit and read
    walk,        \* the event goroutine: what watchNewDir will visit and read
    timer,       \* w.debouncer.timers: none, armed, or fired and waiting for
                 \* the mutex to delete its entry
    loose,       \* armed timers whose entry another one has deleted
    firing,      \* fired ones, likewise
    inForce,     \* history: profiles whose Watch has returned
    unseen,      \* history: changes of a profile the queue was not told of
    trampled,    \* history: Unwatch of a context that overlaps another
    raced,       \* history: a walk went by patterns no longer on disk, or
                 \* they are in the cache and no event takes them out
    uncovered,   \* history: .syncignore no longer covers a directory there is
    changes, ignores, reloads

user    == <<exists, ignoring, changes, ignores>>
inotify == <<watches, fsEvents>>
shared  == <<registered, cache>>
timers  == <<timer, loose, firing>>
history == <<inForce, unseen, trampled, raced, uncovered>>
watcherVars ==
    <<user, inotify, shared, reload, walk, timers, history, reloads>>

Keys     == Profiles \X Paths
Contexts == {Context[n] : n \in Profiles}
Idle     == [at |-> "idle", name |-> "none", patterns |-> {}, visit |-> {}, read |-> {}]
NoWalk   == [visit |-> {}, read |-> {}]

Depth(p)  == Cardinality(Above[p])
InDir(p, d)  == d \in Above[p] /\ Depth(p) = Depth(d) + 1
Children(d)  == {p \in exists : InDir(p, d)}
Under(p, n)  == p = Context[n] \/ Context[n] \in Above[p]
Parent(p)    == {d \in Dirs : InDir(p, d)}

\* ShouldIgnore, for a path inside the context of n.
Covered(p, n, patterns) ==
    Under(p, n) /\ \E d \in patterns : d \in Above[p] \cup {p} /\ Context[n] \in Above[d]

\* findMatchingProfiles: only the profiles with the deepest context count.
Matching(p, names) ==
    {n \in names : Under(p, n) /\ \A m \in names : Under(p, m) =>
                       Depth(Context[m]) <= Depth(Context[n])}

InitWatcher ==
    /\ exists \in SUBSET Paths /\ Contexts \subseteq exists
    /\ \A p \in exists : Above[p] \subseteq exists
    /\ ignoring \in [Contexts -> SUBSET Ignorable]
    /\ watches = {} /\ fsEvents = <<>>
    /\ registered = {} /\ cache = << >>
    /\ reload = Idle /\ walk = NoWalk
    /\ timer = [k \in Keys |-> "none"]
    /\ loose = [k \in Keys |-> 0] /\ firing = [k \in Keys |-> 0]
    /\ inForce = {} /\ unseen = [n \in Profiles |-> {}]
    /\ trampled = FALSE /\ raced = FALSE /\ uncovered = FALSE
    /\ changes = 0 /\ ignores = 0 /\ reloads = 0

-----------------------------------------------------------------------------
(* The user.                                                               *)

Reported(p) == Parent(p) \subseteq watches

Owe(p) == [n \in Profiles |->
    IF n \in Matching(p, registered) \cap inForce /\ ~Covered(p, n, ignoring[Context[n]])
    THEN unseen[n] \cup {p} ELSE unseen[n]]

Touch(op, p) ==
    /\ changes < MaxChanges /\ changes' = changes + 1
    /\ Above[p] \subseteq exists /\ p \notin Contexts
    /\ fsEvents' = IF Reported(p) THEN Append(fsEvents, [op |-> op, path |-> p])
                                 ELSE fsEvents
    /\ UNCHANGED <<ignoring, ignores, shared, reload, walk, timers, inForce,
                   trampled, raced, uncovered, reloads>>

WriteFile(f) ==
    /\ f \in Files /\ Touch("written", f)
    /\ exists' = exists \cup {f} /\ unseen' = Owe(f)
    /\ UNCHANGED watches

MakeDir(d) ==
    /\ d \in Dirs \ exists /\ Touch("made", d)
    /\ exists' = exists \cup {d}
    /\ UNCHANGED <<watches, unseen>>

\* The kernel drops the watch of a directory that goes.  A path that went
\* before its directory had a watch is owed no more.
Remove(p) ==
    /\ p \in exists /\ (p \in Files \/ Children(p) = {}) /\ Touch("gone", p)
    /\ exists' = exists \ {p} /\ watches' = watches \ {p}
    /\ unseen' = IF Reported(p) THEN Owe(p) ELSE [n \in Profiles |-> unseen[n] \ {p}]

\* .syncignore of the context c is written or, with op = "gone", removed.
EditIgnore(c, op, patterns) ==
    /\ ignores < MaxIgnores /\ ignores' = ignores + 1
    /\ patterns # ignoring[c] /\ (op = "gone" => patterns = {})
    /\ ignoring' = [ignoring EXCEPT ![c] = patterns]
    /\ fsEvents' = IF c \in watches /\ op = "written"
                 THEN Append(fsEvents, [op |-> "ignore", path |-> c]) ELSE fsEvents
    /\ raced' = (raced \/ (c \in DOMAIN cache /\ fsEvents' = fsEvents))
    /\ uncovered' = (uncovered \/ (ignoring[c] \ patterns) \cap exists # {})
    /\ unseen' = [n \in Profiles |->
           {p \in unseen[n] : ~Covered(p, n, ignoring'[Context[n]])}]
    /\ UNCHANGED <<exists, changes, watches, shared, reload, walk, timers,
                   inForce, trampled, reloads>>

-----------------------------------------------------------------------------
(* The debouncer.                                                          *)

\* Add, for each of the keys: a timer that has not fired is stopped, one that
\* has is not, and the entry is the new timer's.
AddAll(keys) ==
    /\ timer' = [k \in Keys |-> IF k \in keys THEN "armed" ELSE timer[k]]
    /\ firing' = [k \in Keys |->
           IF k \in keys /\ timer[k] = "fired" THEN firing[k] + 1 ELSE firing[k]]
    /\ UNCHANGED loose

\* schedule, for each profile the path belongs to.
Schedule(p) == AddAll({<<n, p>> : n \in Matching(p, registered)})

Expire(k) ==
    /\ \/ timer[k] = "armed" /\ timer' = [timer EXCEPT ![k] = "fired"]
          /\ UNCHANGED <<loose, firing>>
       \/ loose[k] > 0 /\ loose' = [loose EXCEPT ![k] = @ - 1]
          /\ firing' = [firing EXCEPT ![k] = @ + 1] /\ UNCHANGED timer
    /\ UNCHANGED <<user, inotify, shared, reload, walk, history, reloads>>

\* The function of a timer that has fired: it deletes the entry of its path,
\* whichever timer it is of, and calls Enqueue.
Enqueue(k) ==
    /\ timer' = [timer EXCEPT ![k] = "none"]
    /\ \/ timer[k] = "fired" /\ UNCHANGED <<loose, firing>>
       \/ /\ firing[k] > 0
          /\ firing' = [firing EXCEPT ![k] = IF timer[k] = "fired" THEN @ ELSE @ - 1]
          /\ loose' = [loose EXCEPT ![k] = IF timer[k] = "armed" THEN @ + 1 ELSE @]
    /\ unseen' = [unseen EXCEPT ![k[1]] = @ \ {k[2]}]
    /\ UNCHANGED <<user, inotify, shared, reload, walk, inForce, trampled, raced,
                   uncovered, reloads>>

-----------------------------------------------------------------------------
(* The goroutine of Start.                                                 *)

Patterns(n) ==
    IF Context[n] \in DOMAIN cache THEN cache[Context[n]] ELSE ignoring[Context[n]]

\* watchedByAnyProfile: the profiles are asked in some order until one wants
\* the directory, and the patterns of those asked come into the cache.
Asked(d) == {n \in registered : Under(d, n)}
Wants(n, d) == ~Covered(d, n, Patterns(n))
WatchedByAny(d) == \E n \in Asked(d) : Wants(n, d)
Questions(d) ==
    {S \in SUBSET Asked(d) : IF WatchedByAny(d) THEN \E n \in S : {m \in S : Wants(m, d)} = {n}
                                              ELSE S = Asked(d)}
Filled(S) == [c \in DOMAIN cache \cup {Context[n] : n \in S} |->
                 IF c \in DOMAIN cache THEN cache[c] ELSE ignoring[c]]
Outdated(S) == \E n \in S : Patterns(n) # ignoring[Context[n]]

NextEvent(op) ==
    /\ walk = NoWalk /\ fsEvents # <<>> /\ Head(fsEvents).op = op
    /\ fsEvents' = Tail(fsEvents)

\* invalidatePatterns: only when .syncignore was written, not when it is gone.
HandleIgnore ==
    /\ NextEvent("ignore")
    /\ cache' = [c \in DOMAIN cache \ {Head(fsEvents).path} |-> cache[c]]
    /\ UNCHANGED <<user, watches, registered, reload, walk, timers, history, reloads>>

\* handleEvent for a path that is there: a directory is walked, a file is
\* scheduled; one that is gone again is nobody's business.
HandleMade ==
    /\ NextEvent("made")
    /\ walk' = [NoWalk EXCEPT !.visit = {Head(fsEvents).path} \cap exists]
    /\ UNCHANGED <<user, watches, shared, timers, reload, history, reloads>>

HandleWritten ==
    /\ NextEvent("written")
    /\ IF Head(fsEvents).path \in exists THEN Schedule(Head(fsEvents).path)
                                       ELSE UNCHANGED timers
    /\ UNCHANGED <<user, watches, shared, walk, reload, history, reloads>>

HandleGone ==
    /\ NextEvent("gone") /\ Schedule(Head(fsEvents).path)
    /\ UNCHANGED <<user, watches, shared, walk, reload, history, reloads>>

\* The answers to watchedByAnyProfile, and what is left of them in the cache.
Ask(d) == \E S \in Questions(d) : cache' = Filled(S) /\ raced' = (raced \/ Outdated(S))

\* Mutant: a new directory is watched, but what is inside is not looked at.
VisitDirWatchesOnly(d) ==
    /\ walk' = [walk EXCEPT !.visit = @ \ {d}]
    /\ watches' = watches \cup (IF WatchedByAny(d) THEN {d} \cap exists ELSE {})
    /\ Ask(d) /\ UNCHANGED timers

\* A directory some profile wants is watched, if it is still there, and read.
VisitDir(d) ==
    /\ walk' = [visit |-> walk.visit \ {d},
                read |-> walk.read \cup (IF WatchedByAny(d) THEN {d} ELSE {})]
    /\ watches' = watches \cup (IF WatchedByAny(d) THEN {d} \cap exists ELSE {})
    /\ Ask(d) /\ UNCHANGED timers

VisitFile(p) ==
    /\ walk' = [walk EXCEPT !.visit = @ \ {p}]
    /\ Schedule(p) /\ UNCHANGED <<watches, cache, raced>>

\* watchNewDir, a path at a time.
VisitNew(p) ==
    /\ p \in walk.visit
    /\ IF p \in Files THEN VisitFile(p) ELSE VisitDir(p)
    /\ UNCHANGED <<user, fsEvents, registered, reload, inForce, unseen, trampled,
                   uncovered, reloads>>

ReadNew(d) ==
    /\ d \in walk.read
    /\ walk' = [visit |-> walk.visit \cup Children(d), read |-> walk.read \ {d}]
    /\ UNCHANGED <<user, inotify, shared, reload, timers, history, reloads>>

-----------------------------------------------------------------------------
(* Watch and Unwatch, called one after the other.                          *)

\* The profile is entered in the maps; from now on it owns what is under its
\* context, and profiles with a context above it no longer do.
Register(n) ==
    /\ reload = Idle /\ n \notin registered
    /\ reloads < MaxReloads /\ reloads' = reloads + 1
    /\ registered' = registered \cup {n}
    /\ unseen' = [m \in Profiles |-> {p \in unseen[m] : m \in Matching(p, registered')}]
    /\ reload' = [Idle EXCEPT !.at = "load", !.name = n]
    /\ UNCHANGED <<user, inotify, cache, walk, timers, inForce, trampled, raced,
                   uncovered>>

Starts(n, patterns) ==
    reload' = [at |-> "add", name |-> n, patterns |-> patterns,
               visit |-> {Context[n]}, read |-> {}]

\* getPatterns: from the cache, or from the disk and only then into the cache.
LoadPatterns ==
    /\ reload.at = "load"
    /\ IF Context[reload.name] \in DOMAIN cache
         THEN Starts(reload.name, cache[Context[reload.name]])
         ELSE reload' = [reload EXCEPT !.at = "store",
                                       !.patterns = ignoring[Context[reload.name]]]
    /\ UNCHANGED <<user, inotify, shared, walk, timers, history, reloads>>

StorePatterns ==
    /\ reload.at = "store"
    /\ cache' = [c \in DOMAIN cache \cup {Context[reload.name]} |->
                     IF c = Context[reload.name] THEN reload.patterns ELSE cache[c]]
    /\ raced' = (raced \/ reload.patterns # ignoring[Context[reload.name]])
    /\ Starts(reload.name, reload.patterns)
    /\ UNCHANGED <<user, inotify, registered, walk, timers, inForce, unseen,
                   trampled, uncovered, reloads>>

\* addRecursive: a directory is watched, unless it is covered, and then read.
Visit(d) ==
    /\ reload.at = "add" /\ d \in reload.visit \cap exists
    /\ IF Covered(d, reload.name, reload.patterns)
         THEN reload' = [reload EXCEPT !.visit = @ \ {d}] /\ UNCHANGED watches
         ELSE /\ watches' = watches \cup {d}
              /\ reload' = [reload EXCEPT !.visit = @ \ {d}, !.read = @ \cup {d}]
    /\ UNCHANGED <<user, fsEvents, shared, walk, timers, history, reloads>>

Read(d) ==
    /\ reload.at = "add" /\ d \in reload.read \cap exists
    /\ reload' = [reload EXCEPT !.visit = @ \cup (Children(d) \cap Dirs),
                                !.read = @ \ {d}]
    /\ UNCHANGED <<user, inotify, shared, walk, timers, history, reloads>>

\* A directory vanished under the walk: Watch fails, and leaves what it did.
WatchFails ==
    /\ reload.at = "add" /\ ~(reload.visit \cup reload.read \subseteq exists)
    /\ reload' = Idle
    /\ UNCHANGED <<user, inotify, shared, walk, timers, history, reloads>>

WatchReturns ==
    /\ reload.at = "add" /\ reload.visit \cup reload.read = {}
    /\ inForce' = inForce \cup {reload.name} /\ reload' = Idle
    /\ raced' = (raced \/ reload.patterns # ignoring[Context[reload.name]])
    /\ UNCHANGED <<user, inotify, shared, walk, timers, unseen, trampled,
                   uncovered, reloads>>

Overlaps(n, m) == Under(Context[n], m) \/ Under(Context[m], n)

\* Unwatch takes the watches of the directories there are under the context,
\* one by one, and then the profile out of the maps; its timers stay.
Unwatch(n) ==
    /\ reload = Idle /\ n \in inForce
    /\ reloads < MaxReloads /\ reloads' = reloads + 1
    /\ reload' = [Idle EXCEPT !.at = "remove", !.name = n, !.visit = {Context[n]}]
    /\ inForce' = inForce \ {n} /\ unseen' = [unseen EXCEPT ![n] = {}]
    /\ trampled' = (trampled \/ \E m \in registered \ {n} : Overlaps(n, m))
    /\ UNCHANGED <<user, inotify, shared, walk, timers, raced, uncovered>>

Unvisit(d) ==
    /\ reload.at = "remove" /\ d \in reload.visit
    /\ watches' = watches \ {d}
    /\ reload' = [reload EXCEPT !.visit = (@ \ {d}) \cup (Children(d) \cap Dirs)]
    /\ UNCHANGED <<user, fsEvents, shared, walk, timers, history, reloads>>

Unregister ==
    /\ reload.at = "remove" /\ reload.visit = {}
    /\ registered' = registered \ {reload.name} /\ reload' = Idle
    /\ UNCHANGED <<user, inotify, cache, walk, timers, history, reloads>>

-----------------------------------------------------------------------------
TheUser == \/ \E p \in Paths : WriteFile(p) \/ MakeDir(p) \/ Remove(p)
        \/ \E c \in Contexts, op \in {"written", "gone"}, patterns \in SUBSET Ignorable :
               EditIgnore(c, op, patterns)

Debouncer == \E k \in Keys : Expire(k) \/ Enqueue(k)

Loop == \/ HandleIgnore \/ HandleMade \/ HandleWritten \/ HandleGone
        \/ \E p \in Paths : VisitNew(p) \/ ReadNew(p)

Reloader ==
    \/ \E n \in Profiles : Register(n) \/ Unwatch(n)
    \/ LoadPatterns \/ StorePatterns \/ WatchFails \/ WatchReturns \/ Unregister
    \/ \E d \in Dirs : Visit(d) \/ Read(d) \/ Unvisit(d)

NextWatcher == TheUser \/ Debouncer \/ Loop \/ Reloader

SpecWatcher == InitWatcher /\ [][NextWatcher]_watcherVars

-----------------------------------------------------------------------------
TypeOK ==
    /\ exists \subseteq Paths /\ ignoring \in [Contexts -> SUBSET Ignorable]
    /\ watches \subseteq exists \cap Dirs
    /\ fsEvents \in Seq([op : {"made", "written", "gone", "ignore"}, path : Paths])
    /\ inForce \subseteq registered /\ registered \subseteq Profiles
    /\ DOMAIN cache \subseteq Contexts
    /\ cache \in [DOMAIN cache -> SUBSET Ignorable]
    /\ reload \in [at : {"idle", "load", "store", "add", "remove"},
                   name : Profiles \cup {"none"}, patterns : SUBSET Ignorable,
                   visit : SUBSET Dirs, read : SUBSET Dirs]
    /\ walk \in [visit : SUBSET Paths, read : SUBSET Dirs]
    /\ timer \in [Keys -> {"none", "armed", "fired"}]
    /\ loose \in [Keys -> Nat] /\ firing \in [Keys -> Nat]
    /\ unseen \in [Profiles -> SUBSET Paths]
    /\ {trampled, raced, uncovered} \subseteq BOOLEAN

Quiet ==
    /\ fsEvents = <<>> /\ walk = NoWalk /\ reload = Idle
    /\ \A k \in Keys : timer[k] = "none" /\ loose[k] = 0 /\ firing[k] = 0

Told == \A n \in inForce : unseen[n] = {}

\* Once the events are handled, the walks done and the timers gone, the queue
\* was told of every change made in the context of a watched profile, in
\* directories created under the walks too (README.md:109: "New folders are
\* picked up with everything already inside them").  Excepted are a context
\* that overlaps one that was unwatched (trampled), a walk with patterns from
\* before a change of .syncignore, whether the cache missed the change or its
\* event is still in the queue (raced), and a directory that .syncignore no
\* longer covers (uncovered, see LivePatterns).
NothingMissed == Quiet /\ ~trampled /\ ~raced /\ ~uncovered => Told

\* README.md:105: "Changes to `.syncignore` are picked up live without
\* restarting the daemon."
LivePatterns == Quiet /\ ~trampled /\ ~raced => Told
=============================================================================

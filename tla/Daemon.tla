-------------------------------- MODULE Daemon --------------------------------
(***************************************************************************)
(* The daemon (cmd/daemon.go): how it starts, what it makes of a change of *)
(* the configuration file, and what a file that changes meanwhile goes     *)
(* through.  Three goroutines: the main one, the one that watches the      *)
(* configuration, and a worker of the queue; and the user with an editor.  *)
(*                                                                         *)
(* The profiles are kept three times: by the pool of clients, by the queue *)
(* and by the map of what is watched; the watcher has a fourth copy.       *)
(***************************************************************************)
EXTENDS Config, Sequences

CONSTANTS
    Texts,       \* configurations the user may save
    MaxSaves,    \* bound: saves
    MaxFiles,    \* bound: changes of files under a context
    MaxFaults,   \* bound: attempts to watch a directory that fail
    Attempts     \* attempts at an upload (maxRetries)

ASSUME TextsAssumption == \A t \in Texts : \A n \in DOMAIN t : t[n] \in Profile

VARIABLES
    up,          \* "boot", "running", "stopping" or "down"
    disk,        \* the configuration file
    saving,      \* what the editor has yet to put there
    hooked,      \* there is a watch on the file that bears its name
    events,      \* of that watch, not handled yet
    missed,      \* the last change of the file happened while there was none
    at,          \* where the reload is; "idle" between reloads
    fresh,       \* the profiles being put in force
    todo,        \* the names the loop at hand has not come to
    pool, queue, \* their profiles
    watching,    \* profiles by name
    stored,      \* the watcher's contexts by name
    kernel,      \* the directories that are watched
    half,        \* names that the watcher kept although watching them failed
    robbed,      \* names whose directory was unwatched for another profile
    task,        \* the file that is being synced
    last,        \* how the previous one ended
    saves, files, faults

configVars == <<disk, saving, hooked, events, missed, saves>>
watchVars  == <<watching, stored, kernel, half, robbed, faults>>
reloadVars == <<at, fresh, todo>>
taskVars   == <<task, last, files>>
vars == <<up, configVars, reloadVars, pool, queue, watchVars, taskVars>>

Nothing == << >>
NoTask == [phase |-> "none"]

\* A function with one name more, or less.
With(f, n, v) == [m \in DOMAIN f \cup {n} |-> IF m = n THEN v ELSE f[m]]
Without(f, n) == [m \in DOMAIN f \ {n} |-> f[m]]

Init ==
    /\ up = "boot" /\ disk \in [state : {"whole"}, profiles : Texts]
    /\ saving = Nothing /\ hooked = FALSE /\ events = << >> /\ missed = FALSE
    /\ at = "load" /\ fresh = Nothing /\ todo = {}
    /\ pool = Nothing /\ queue = Nothing /\ watching = Nothing
    /\ stored = Nothing /\ kernel = {} /\ half = {} /\ robbed = {}
    /\ task = NoTask /\ last = NoTask /\ saves = 0 /\ files = 0 /\ faults = 0

-----------------------------------------------------------------------------
(* The watcher, as the daemon calls it: w.profiles and the watches.        *)

\* Unwatch, if it forgot its entries.
UnwatchedKeepsEntry(n) ==
    [stored |-> stored, kernel |-> kernel \ {stored[n]}, half |-> half, robbed |-> robbed]

\* Unwatch takes away the watch on the directory, whoever else relies on it.
Unwatched(n) ==
    [stored |-> Without(stored, n), kernel |-> kernel \ {stored[n]}, half |-> half \ {n},
     robbed |-> (robbed \ {n}) \cup {m \in DOMAIN stored \ {n} : stored[m] = stored[n]}]

WatcherNow == [stored |-> stored, kernel |-> kernel, half |-> half, robbed |-> robbed]

\* Watch on what Unwatch or nothing has left: all of it, nothing as the
\* directory is missing, or an entry that is watched in part or not at all.
Watched(w, n, outcome) ==
    LET r == fresh[n].context IN
    CASE outcome = "watched" ->
           [w EXCEPT !.stored = With(@, n, r), !.kernel = @ \cup {r}, !.half = @ \ {n},
                     !.robbed = {m \in @ \ {n} : w.stored[m] # r}]
      [] outcome = "failed"  -> w
      [] outcome = "part"    ->
           [w EXCEPT !.stored = With(@, n, r), !.kernel = @ \cup {r}, !.half = @ \cup {n},
                     !.robbed = {m \in @ \ {n} : w.stored[m] # r}]
      [] outcome = "half"    -> [w EXCEPT !.stored = With(@, n, r), !.half = @ \cup {n},
                                          !.robbed = @ \ {n}]

SetWatcher(w) == stored' = w.stored /\ kernel' = w.kernel /\ half' = w.half /\ robbed' = w.robbed

Outcomes == {"watched"} \cup IF faults < MaxFaults THEN {"failed", "part", "half"} ELSE {}

\* What becomes of n when its context is watched, from w on.
Watch(n, w) ==
    \E outcome \in Outcomes :
        /\ SetWatcher(Watched(w, n, outcome))
        /\ watching' = IF outcome = "watched" THEN With(watching, n, fresh[n])
                       ELSE Without(watching, n)
        /\ faults' = IF outcome = "watched" THEN faults ELSE faults + 1

-----------------------------------------------------------------------------
(* Start-up.                                                               *)

Wanted(p) == {n \in DOMAIN p : p[n].auto /\ p[n].context # ""}

BootLoad ==
    /\ up = "boot" /\ at = "load"
    /\ IF Loads(disk)
         THEN /\ pool' = Parsed(disk) /\ queue' = Parsed(disk) /\ fresh' = Parsed(disk)
              /\ at' = "start" /\ todo' = Wanted(Parsed(disk)) /\ UNCHANGED up
         ELSE up' = "down" /\ UNCHANGED <<pool, queue, reloadVars>>
    /\ UNCHANGED <<configVars, watchVars, taskVars>>

\* Everything is watched that could be; without any the daemon ends.  Only
\* now is the configuration file watched.
Booted ==
    /\ up = "boot" /\ at = "start" /\ todo = {}
    /\ IF watching = Nothing THEN up' = "down" /\ UNCHANGED <<hooked, at>>
       ELSE /\ up' = "running" /\ hooked' = (disk.state # "missing")
            /\ at' = IF hooked' THEN "idle" ELSE "never"
    /\ UNCHANGED <<disk, saving, events, missed, saves, fresh, todo, pool, queue,
                   watchVars, taskVars>>

\* The signal; the queue waits for the upload under way, and the rest ends.
Signalled == up = "running" /\ up' = "stopping"
             /\ UNCHANGED <<configVars, reloadVars, pool, queue, watchVars, taskVars>>
Exit ==
    /\ up = "stopping" /\ task.phase # "read"
    /\ up' = "down" /\ task' = NoTask
    /\ UNCHANGED <<configVars, reloadVars, pool, queue, watchVars, last, files>>

-----------------------------------------------------------------------------
(* handleConfigReload.                                                     *)

Alive == up \in {"running", "stopping"}

\* If only a file that replaces the old one counted.
ReactsToRemove(e) == e = "remove"
Reacts(e) == e = "write"

HandleEvent ==
    /\ Alive /\ at = "idle" /\ events # << >>
    /\ events' = Tail(events)
    /\ IF Reacts(Head(events)) /\ Loads(disk)
         THEN at' = "pool" /\ fresh' = Parsed(disk)
         ELSE UNCHANGED <<at, fresh>>
    /\ hooked' = (hooked \/ (Head(events) = "remove" /\ disk.state # "missing"))
    /\ UNCHANGED <<up, disk, saving, missed, saves, todo, pool, queue, watchVars, taskVars>>

\* A task under way is remembered to have met a reload.
Crossed == IF task.phase = "none" THEN task ELSE [task EXCEPT !.crossed = TRUE]

UpdatePool ==
    /\ Alive /\ at = "pool"
    /\ pool' = fresh /\ at' = "stop" /\ todo' = DOMAIN watching
    /\ task' = Crossed
    /\ UNCHANGED <<up, configVars, fresh, queue, watchVars, last, files>>

\* What was watched: no longer, somewhere else, or as before.  The first
\* forgets the profiles that only stopped being synced.
GoneIfRemoved(n) == n \notin DOMAIN fresh
Gone(n)  == n \in DOMAIN fresh => ~fresh[n].auto
Moved(n) == ~Gone(n) /\ fresh[n].context # watching[n].context

Revise(n) ==
    /\ Alive /\ at = "stop" /\ n \in todo
    /\ todo' = todo \ {n}
    /\ \/ /\ Gone(n) /\ watching' = Without(watching, n)
          /\ SetWatcher(Unwatched(n)) /\ UNCHANGED faults
       \/ /\ Moved(n) /\ Watch(n, Unwatched(n))
       \/ /\ ~Gone(n) /\ ~Moved(n) /\ watching' = With(watching, n, fresh[n])
          /\ UNCHANGED <<stored, kernel, half, robbed, faults>>
    /\ UNCHANGED <<up, configVars, at, fresh, pool, queue, taskVars>>

Revised ==
    /\ Alive /\ at = "stop" /\ todo = {}
    /\ at' = "start" /\ todo' = Wanted(fresh) \ DOMAIN watching
    /\ UNCHANGED <<up, configVars, fresh, pool, queue, watchVars, taskVars>>

\* A profile that is not watched yet; start-up watches them all this way.
Start(n) ==
    /\ up # "down" /\ at = "start" /\ n \in todo
    /\ todo' = todo \ {n}
    /\ Watch(n, WatcherNow)
    /\ UNCHANGED <<up, configVars, at, fresh, pool, queue, taskVars>>

\* The queue's profiles, and as they would be if a watch that failed ended it.
UpdatedQueueUnlessFailed == IF Wanted(fresh) = DOMAIN watching THEN fresh ELSE queue
UpdatedQueue == fresh

UpdateQueue ==
    /\ Alive /\ at = "start" /\ todo = {}
    /\ queue' = UpdatedQueue /\ at' = "idle"
    /\ UNCHANGED <<up, configVars, fresh, todo, pool, watchVars, taskVars>>

-----------------------------------------------------------------------------
(* A file changes in a directory that is watched.                          *)

Change(n) ==
    /\ up = "running" /\ task.phase = "none" /\ files < MaxFiles
    /\ n \in DOMAIN stored /\ stored[n] \in kernel
    /\ files' = files + 1
    /\ task' = [phase |-> "queued", name |-> n, root |-> stored[n], left |-> Attempts,
                plan |-> Nothing, crossed |-> at \notin {"idle", "never"},
                asked |-> n \in DOMAIN watching, half |-> n \in half]
    /\ UNCHANGED <<up, configVars, reloadVars, pool, queue, watchVars, last>>

End(how) == task' = NoTask /\ last' = [phase |-> how, crossed |-> task.crossed,
                                       asked |-> task.asked, half |-> task.half]

\* processUpload: the profile as the queue has it, and the file inside it.
Take ==
    /\ Alive /\ task.phase = "queued"
    /\ IF task.name \in DOMAIN queue /\ queue[task.name].context = task.root
         THEN /\ task' = [task EXCEPT !.phase = "read", !.plan = queue[task.name]]
              /\ UNCHANGED last
         ELSE End("dropped")
    /\ UNCHANGED <<up, configVars, reloadVars, pool, queue, watchVars, files>>

\* An attempt: a client of the profile as the pool has it now.
Send ==
    /\ Alive /\ task.phase = "read"
    /\ \/ /\ task.name \in DOMAIN pool
          /\ End(IF pool[task.name].host = task.plan.host THEN "sent" ELSE "astray")
       \/ /\ task.left > 1 /\ task' = [task EXCEPT !.left = @ - 1] /\ UNCHANGED last
       \/ /\ task.left = 1 /\ End("failed")
    /\ UNCHANGED <<up, configVars, reloadVars, pool, queue, watchVars, files>>

-----------------------------------------------------------------------------
(* The user saves the configuration, as editors do.                        *)

Edit == saving = Nothing /\ saves < MaxSaves /\ saves' = saves + 1

Notice(e) == events' = IF hooked THEN Append(events, e) ELSE events

\* In place: the file is cut short, then written.
Truncate ==
    /\ Edit /\ disk.state = "whole" /\ \E t \in Texts : saving' = t
    /\ disk' = EmptyFile("torn") /\ Notice("write")
    /\ UNCHANGED <<hooked, missed>>

\* By a new file that is renamed over it: the old one's watch goes with it.
Replace ==
    /\ Edit /\ \E t \in Texts : disk' = [state |-> "whole", profiles |-> t]
    /\ Notice("remove") /\ hooked' = FALSE /\ missed' = TRUE /\ UNCHANGED saving

\* By a new file in the place of the old one, which becomes the backup.
MoveAway ==
    /\ Edit /\ disk.state = "whole" /\ \E t \in Texts : saving' = t
    /\ disk' = EmptyFile("missing") /\ Notice("rename") /\ hooked' = FALSE
    /\ UNCHANGED missed

Write ==
    /\ saving # Nothing /\ saving' = Nothing
    /\ disk' = [state |-> "whole", profiles |-> saving]
    /\ Notice("write") /\ missed' = ~hooked
    /\ UNCHANGED <<hooked, saves>>

User == /\ up # "down"
        /\ Truncate \/ Replace \/ MoveAway \/ Write
        /\ UNCHANGED <<up, reloadVars, pool, queue, watchVars, taskVars>>

-----------------------------------------------------------------------------
Names == UNION {DOMAIN t : t \in Texts}

Next ==
    \/ BootLoad \/ Booted \/ Signalled \/ Exit
    \/ HandleEvent \/ UpdatePool \/ Revised \/ UpdateQueue
    \/ \E n \in Names : Revise(n) \/ Start(n) \/ Change(n)
    \/ Take \/ Send \/ User

Spec == Init /\ [][Next]_vars

-----------------------------------------------------------------------------
Settled == up = "running" /\ at \in {"idle", "never"}

\* Property: every profile in force has its defaults and is valid, whatever
\* has been saved (config.go:78-87).
OnlyCompleteInForce ==
    \A p \in {pool[n] : n \in DOMAIN pool} \cup {queue[n] : n \in DOMAIN queue} : Complete(p)

\* Property: between reloads what is watched is what the configuration in
\* force asks for: the right profiles, each in the context it has now; but
\* for those that could not be watched, and those whose directory another
\* profile's Unwatch took away.
WatchedAsConfigured ==
    Settled =>
      /\ \A n \in DOMAIN watching :
            /\ n \in DOMAIN queue /\ queue[n].auto
            /\ n \in DOMAIN stored /\ stored[n] = queue[n].context
            /\ stored[n] \in kernel \/ n \in robbed
      /\ faults = 0 => \A n \in DOMAIN queue :
            queue[n].auto /\ queue[n].context # "" => n \in DOMAIN watching

\* Property: a file is dropped, or sent to another host than the one its
\* remote path was read for, only if a reload came in between.
AppliedTogether ==
    last.phase \in {"dropped", "astray"} => last.crossed \/ last.half

\* Property: a file is synced only for a profile whose context is watched on
\* purpose; what Watch left behind when it failed is the exception.
NothingUnasked ==
    last.phase \in {"sent", "failed"} => last.asked \/ last.crossed \/ last.half

\* Property: once the daemon has come to rest, the configuration in force is
\* the one on disk, if its last change could be seen at all.
QuietMeansLoaded ==
    Settled /\ at = "idle" /\ events = << >> /\ saving = Nothing /\ ~missed /\ Loads(disk) =>
        pool = Parsed(disk) /\ queue = Parsed(disk)
===============================================================================

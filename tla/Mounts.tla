-------------------------------- MODULE Mounts --------------------------------
(***************************************************************************)
(* The mount commands (internal/mount, cmd/mount.go).  Each is a process   *)
(* of its own; all that they share is the file system, the table of mounts *)
(* and the configuration, and nothing locks any of it.                     *)
(*                                                                         *)
(* A mount point is a pair of a profile's name and "default", for          *)
(* ~/.mounted/<name>, or "context", for the directory that is set in the   *)
(* configuration; a context under ~/.mounted is left out.                  *)
(***************************************************************************)
EXTENDS Integers, FiniteSets

CONSTANTS
    Names,          \* profiles
    Rclone,         \* those that mount by rclone (UsesRclone); sshfs the others
    Commands,       \* processes
    MaxCommands,    \* bound: commands run
    MaxFaults,      \* bound: requests that fail, commands that are killed,
                    \* mounts that go away by themselves
    MaxEdits        \* bound: changes of the configuration

ASSUME RcloneAssumption == Rclone \subseteq Names

VARIABLES
    contexts,    \* profiles with a context
    dirs,        \* mount points that are directories
    stack,       \* how many file systems are mounted at each, on one another
    dead,        \* mount points where the program of the topmost has died
    orphans,     \* how many sshfs and rclone are still mounting at each that
                 \* the command that started them was killed
    secrets,     \* commands whose configuration for rclone is in /tmp
    cmd,         \* what each command is at
    runs, faults, edits,
    \* What the properties look back on:
    lost,        \* mount points through which the remote files were deleted
    overlapped,  \* where a mount ran into another command, or came late and
                 \* ran into another mount
    disturbed    \* where one was killed, came late, went away or was moved

diskVars == <<contexts, dirs, stack, dead, orphans>>
pastVars == <<lost, overlapped, disturbed>>
vars == <<diskVars, secrets, cmd, runs, faults, edits, pastVars>>

Points == Names \X {"default", "context"}

\* isManagedMountPoint
Managed(p) == p[2] = "default"

\* GetMountPoint
MountPoint(n) == <<n, IF n \in contexts THEN "context" ELSE "default">>

\* IsMounted, by the mount point of the configuration as the command read it;
\* `mountpoint -q` fails for one whose program has died.
IsMounted(p) == stack[p] > 0 /\ p \notin dead

\* ListMounted: it knows of the directories under ~/.mounted only.
ListMounted == {p \in dirs : Managed(p) /\ IsMounted(p)}

\* Mounts, and what it would list of the managed ones only.
ListedManaged == ListMounted
Listed == ListMounted \cup
    {p \in Points : /\ ~Managed(p) /\ p[1] \in contexts /\ IsMounted(p)
                    /\ <<p[1], "default">> \notin ListMounted}

\* A command that has read the configuration and is about to run.
Command(pc, kind, point) ==
    [pc |-> pc, kind |-> kind, point |-> point, how |-> "running",
     todo |-> {}, failed |-> {}]
Idle == Command("idle", "none", <<>>)

Init ==
    /\ contexts \in SUBSET Names
    /\ dirs = Names \X {"context"} /\ stack = [p \in Points |-> 0]
    /\ dead = {} /\ orphans = [p \in Points |-> 0]
    /\ secrets = {} /\ cmd = [c \in Commands |-> Idle]
    /\ runs = 0 /\ faults = 0 /\ edits = 0
    /\ lost = {} /\ overlapped = {} /\ disturbed = {}

At(c, pc) == cmd[c].pc = pc
Goto(c, pc) == cmd' = [cmd EXCEPT ![c].pc = pc]

\* A command ends, and tells how.
Tell(c, how) == cmd' = [cmd EXCEPT ![c].pc = "told", ![c].how = how]

Fault == faults < MaxFaults /\ faults' = faults + 1

-----------------------------------------------------------------------------
\* Past its look at the mount point a command acts on what it saw; one that
\* mounts must not meet another.
Mounting(c)  == cmd[c].pc \in {"reach", "mkdir", "write", "tool", "verify", "cleanup"}
Committed(c) == Mounting(c) \/ cmd[c].pc \in {"fuser", "rmdir"}

Commits(c, mounts) ==
    overlapped' = overlapped \cup
        {cmd[c].point : d \in {d \in Commands \ {c} :
            Committed(d) /\ cmd[d].point = cmd[c].point /\ (mounts \/ Mounting(d))}}

\* RemoveAll, which goes through whatever is mounted there, and gets nowhere
\* when that is dead.
RemoveAll(p) ==
    /\ lost' = IF IsMounted(p) THEN lost \cup {p} ELSE lost
    /\ dirs' = IF stack[p] > 0 THEN dirs ELSE dirs \ {p}

RemoveManaged(p) == IF Managed(p) THEN RemoveAll(p) ELSE UNCHANGED <<dirs, lost>>

\* Load and GetProfile.
Begin(c) ==
    /\ At(c, "idle") /\ runs < MaxCommands /\ runs' = runs + 1
    /\ \/ \E n \in Names, kind \in {"mount", "browse"} :
            cmd' = [cmd EXCEPT ![c] = Command("free?", kind, MountPoint(n))]
       \/ \E n \in Names : cmd' = [cmd EXCEPT ![c] = Command("mounted?", "unmount", MountPoint(n))]
       \/ cmd' = [cmd EXCEPT ![c] =
                    Command(IF ListMounted = {} THEN "told" ELSE "list", "all", <<>>)]
    /\ UNCHANGED <<diskVars, secrets, faults, edits, pastVars>>

-----------------------------------------------------------------------------
(* Mount.                                                                  *)

Point(c) == cmd[c].point

IsFree(c) ==
    /\ At(c, "free?")
    /\ IF IsMounted(Point(c)) THEN Tell(c, "already mounted") /\ UNCHANGED overlapped
                              ELSE Goto(c, "reach") /\ Commits(c, TRUE)
    /\ UNCHANGED <<diskVars, secrets, runs, faults, edits, lost, disturbed>>

\* IsReachable and preflightHostKey; nothing has been made yet.
Reach(c) ==
    /\ At(c, "reach")
    /\ \/ Goto(c, "mkdir") /\ UNCHANGED faults
       \/ Fault /\ Tell(c, "unreachable")
    /\ UNCHANGED <<diskVars, secrets, runs, edits, pastVars>>

MakeDir(c) ==
    /\ At(c, "mkdir")
    /\ \/ /\ Point(c) \notin dead
          /\ dirs' = dirs \cup {Point(c)} /\ UNCHANGED faults
          /\ Goto(c, IF Point(c)[1] \in Rclone THEN "write" ELSE "tool")
       \/ /\ Fault \/ (Point(c) \in dead /\ UNCHANGED faults)
          /\ Tell(c, "no mount point") /\ UNCHANGED dirs
    /\ UNCHANGED <<contexts, stack, dead, orphans, secrets, runs, edits, pastVars>>

\* mountRclone hands rclone the password in a file of its own.
WriteConfig(c) ==
    /\ At(c, "write")
    /\ \/ secrets' = secrets \cup {c} /\ Goto(c, "tool") /\ UNCHANGED faults
       \/ Fault /\ Goto(c, "cleanup") /\ UNCHANGED secrets
    /\ UNCHANGED <<diskVars, runs, edits, pastVars>>

\* A live directory is there to mount on.
CanMount(p) == p \in dirs /\ p \notin dead

\* mountSSHFS or mountRclone: mounted, on top of what is there; or an error;
\* or an exit status of 0 and nothing mounted.  The password's file goes.
MountTool(c) ==
    /\ At(c, "tool")
    /\ \/ /\ CanMount(Point(c)) /\ stack' = [stack EXCEPT ![Point(c)] = @ + 1]
          /\ secrets' = secrets \ {c} /\ Goto(c, "verify") /\ UNCHANGED faults
       \/ /\ Fault \/ (~CanMount(Point(c)) /\ UNCHANGED faults)
          /\ secrets' = secrets \ {c} /\ Goto(c, "cleanup") /\ UNCHANGED stack
       \/ /\ Fault
          /\ secrets' = secrets \ {c} /\ Goto(c, "verify") /\ UNCHANGED stack
    /\ UNCHANGED <<contexts, dirs, dead, orphans, runs, edits, pastVars>>

\* With the exit status for the only proof.
MountedAsToldBy(c) == TRUE
MountedAsSeenBy(c) == IsMounted(Point(c))

\* The terminal with yazi is part of "browse".
Verify(c) ==
    /\ At(c, "verify")
    /\ IF ~MountedAsSeenBy(c) THEN Goto(c, "cleanup")
       ELSE IF cmd[c].kind = "mount" THEN Tell(c, "mounted")
       ELSE Goto(c, "yazi")
    /\ UNCHANGED <<diskVars, secrets, runs, faults, edits, pastVars>>

CleanUp(c) ==
    /\ At(c, "cleanup")
    /\ RemoveManaged(Point(c)) /\ Tell(c, "not mounted")
    /\ UNCHANGED <<contexts, stack, dead, orphans, secrets, runs, faults, edits, overlapped, disturbed>>

\* The terminal is closed; or it was not to be found, and the mount stays.
CloseYazi(c) ==
    /\ At(c, "yazi")
    /\ \/ Goto(c, "mounted?") /\ UNCHANGED faults
       \/ Fault /\ Tell(c, "no terminal")
    /\ UNCHANGED <<diskVars, secrets, runs, edits, pastVars>>

-----------------------------------------------------------------------------
(* Unmount, of one or of all that ListMounted finds.                       *)

\* Unmount returns; UnmountAll notes the error and goes on.
Unmounted(c, ok) ==
    cmd' = [cmd EXCEPT
        ![c].pc = IF @ # "idle" /\ cmd[c].kind = "all" THEN "next" ELSE "told",
        ![c].how = IF cmd[c].kind = "all" THEN @ ELSE IF ok THEN "unmounted" ELSE "still mounted",
        ![c].todo = @ \ {Point(c)},
        ![c].failed = IF ok THEN @ ELSE @ \cup {Point(c)}]

List(c) ==
    /\ At(c, "list")
    /\ cmd' = [cmd EXCEPT ![c].pc = "next", ![c].todo = ListMounted]
    /\ UNCHANGED <<diskVars, secrets, runs, faults, edits, pastVars>>

NextOfAll(c) ==
    /\ At(c, "next")
    /\ IF cmd[c].todo = {} THEN Tell(c, "all unmounted")
       ELSE \E p \in cmd[c].todo : cmd' = [cmd EXCEPT ![c].pc = "mounted?", ![c].point = p]
    /\ UNCHANGED <<diskVars, secrets, runs, faults, edits, pastVars>>

StillMounted(c) ==
    /\ At(c, "mounted?")
    /\ IF IsMounted(Point(c)) THEN Goto(c, "fuser") /\ Commits(c, FALSE)
                              ELSE Unmounted(c, FALSE) /\ UNCHANGED overlapped
    /\ UNCHANGED <<diskVars, secrets, runs, faults, edits, lost, disturbed>>

\* What follows a failed fusermount; the first overlooks the failure.
AfterFailedIgnoring(c) == Goto(c, "rmdir")
AfterFailed(c) == Unmounted(c, FALSE)

\* The topmost file system is taken off, dead or alive.
TakeOff(p) == /\ stack[p] > 0 /\ stack' = [stack EXCEPT ![p] = @ - 1]
              /\ dead' = dead \ {p}

\* fusermount -uz.
Fusermount(c) ==
    /\ At(c, "fuser")
    /\ \/ TakeOff(Point(c)) /\ Goto(c, "rmdir") /\ UNCHANGED faults
       \/ /\ Fault \/ (stack[Point(c)] = 0 /\ UNCHANGED faults)
          /\ AfterFailed(c) /\ UNCHANGED <<stack, dead>>
    /\ UNCHANGED <<contexts, dirs, orphans, secrets, runs, edits, pastVars>>

RemoveDir(c) ==
    /\ At(c, "rmdir")
    /\ RemoveManaged(Point(c))
    /\ Unmounted(c, ~Managed(Point(c)) \/ Point(c) \notin dirs')
    /\ UNCHANGED <<contexts, stack, dead, orphans, secrets, runs, faults, edits, overlapped, disturbed>>

-----------------------------------------------------------------------------
(* What surrounds the commands.                                            *)

Return(c) == /\ At(c, "told") /\ cmd' = [cmd EXCEPT ![c] = Idle]
             /\ UNCHANGED <<diskVars, secrets, runs, faults, edits, pastVars>>

\* Interrupted, or the terminal it runs in is closed.  The sshfs or rclone it
\* waits for ends with it or goes on (rclone --daemon is a session of its own).
Kill(c) ==
    /\ cmd[c].pc \notin {"idle", "told"} /\ Fault
    /\ disturbed' = disturbed \cup {Point(c)}
    /\ cmd' = [cmd EXCEPT ![c] = Idle]
    /\ \/ UNCHANGED orphans
       \/ At(c, "tool") /\ orphans' = [orphans EXCEPT ![Point(c)] = @ + 1]
    /\ UNCHANGED <<contexts, dirs, stack, dead, secrets, runs, edits, lost, overlapped>>

\* One that went on mounts, whatever other commands are at by then, or gives up.
LateMount(p) ==
    /\ orphans[p] > 0 /\ orphans' = [orphans EXCEPT ![p] = @ - 1]
    /\ \/ /\ CanMount(p) /\ stack' = [stack EXCEPT ![p] = @ + 1]
          /\ overlapped' = overlapped \cup
                {q \in {p} : stack[p] > 0 \/ \E c \in Commands : Committed(c) /\ Point(c) = p}
       \/ UNCHANGED <<stack, overlapped>>
    /\ disturbed' = disturbed \cup {p}
    /\ UNCHANGED <<contexts, dirs, dead, secrets, cmd, runs, faults, edits, lost>>

\* A file system is unmounted by hand.
Drops(p) ==
    /\ TakeOff(p) /\ Fault
    /\ disturbed' = disturbed \cup {p}
    /\ UNCHANGED <<contexts, dirs, orphans, secrets, cmd, runs, edits, lost, overlapped>>

\* Its program dies, and leaves a mount that nothing can be done with.
Dies(p) ==
    /\ IsMounted(p) /\ Fault
    /\ dead' = dead \cup {p} /\ disturbed' = disturbed \cup {p}
    /\ UNCHANGED <<contexts, dirs, stack, orphans, secrets, cmd, runs, edits, lost, overlapped>>

\* The context of a profile is set or taken out.
Configure(n) ==
    /\ edits < MaxEdits /\ edits' = edits + 1
    /\ contexts' = (contexts \ {n}) \cup ({n} \ contexts)
    /\ disturbed' = disturbed \cup {<<n, "context">>}
    /\ UNCHANGED <<dirs, stack, dead, orphans, secrets, cmd, runs, faults, lost, overlapped>>

Step(c) ==
    \/ Begin(c) \/ IsFree(c) \/ Reach(c) \/ MakeDir(c) \/ WriteConfig(c) \/ MountTool(c)
    \/ Verify(c) \/ CleanUp(c) \/ CloseYazi(c)
    \/ List(c) \/ NextOfAll(c) \/ StillMounted(c) \/ Fusermount(c) \/ RemoveDir(c)
    \/ Return(c) \/ Kill(c)

Next ==
    \/ \E c \in Commands : Step(c)
    \/ \E p \in Points : Drops(p) \/ Dies(p) \/ LateMount(p)
    \/ \E n \in Names : Configure(n)

Spec == Init /\ [][Next]_vars

-----------------------------------------------------------------------------
\* Property: the files on the server are deleted through a mount point only
\* where a mount ran into another command or, late, into another mount, and
\* never through a directory of the user, which stays (mount.go:20-22).
RemoteKept ==
    /\ lost \subseteq overlapped
    /\ \A p \in Points : ~Managed(p) => p \in dirs /\ p \notin lost

\* Property: where nothing was disturbed, commands that have come to an end
\* leave a directory under ~/.mounted only with something mounted in it, and
\* no password in /tmp; and what is mounted is listed by Mounts.
NothingLeftBehind ==
    (\A c \in Commands : At(c, "idle") \/ At(c, "told")) =>
        /\ \A p \in Points \ (overlapped \cup disturbed) :
              /\ Managed(p) => (p \in dirs <=> IsMounted(p))
              /\ IsMounted(p) => p \in Listed \/ <<p[1], "context">> \in disturbed
        /\ \A c \in secrets : disturbed # {}

\* Property: what a command tells is so when it tells it, but where others
\* came between: it mounted, it unmounted; and it is through with a mount
\* point of all (README.md:78) only when nothing is mounted there or it will
\* say so.
Tells(c, how) == ~At(c, "told") /\ cmd'[c].pc = "told" /\ cmd'[c].how = how
Passes(c, p)  == /\ cmd[c].pc # "idle" /\ cmd'[c].pc # "idle"
                 /\ p \in cmd[c].todo \ cmd'[c].todo

ToldTrue ==
    [][\A c \in Commands :
        /\ Tells(c, "mounted") => stack'[Point(c)] > 0 \/ Point(c) \in overlapped \cup disturbed
        /\ Tells(c, "unmounted") => stack'[Point(c)] = 0 \/ Point(c) \in overlapped
        /\ \A p \in Points : Passes(c, p) =>
              p \in cmd'[c].failed \/ ~IsMounted(p) \/ p \in overlapped]_vars
===============================================================================

---------------------------- MODULE AtomicUpload ----------------------------
(***************************************************************************)
(* The uploads of one file: upload, uploadOn and sftpReplace of            *)
(* internal/transfer/sftp.go, upload and ftpReplace of ftp.go and          *)
(* canResumePartial of atomic.go.  The bytes go to a partial file beside   *)
(* the destination, which is renamed over the destination when complete.   *)
(*                                                                         *)
(* Uploaders are the goroutines and processes that upload the file: the    *)
(* workers of the daemon take turns (see UploadQueue), `sfync push` and    *)
(* `sfync up` run beside it.  Server files are inodes, since a handle      *)
(* follows its file through a rename.  A file is a sequence of blocks; a   *)
(* block is the version of the local file that it was read from, or Hole   *)
(* where nothing has been written.  All versions have the same length.     *)
(***************************************************************************)
EXTENDS Integers, Sequences, FiniteSets

CONSTANTS
    Uploaders,    \* who uploads the file
    Blocks,       \* length of the file
    Kinds,        \* the protocols there are
    MaxAttempts,  \* bound: attempts
    MaxEdits,     \* bound: changes of the local file
    MaxFaults     \* bound: requests refused and connections lost

ASSUME UploadersAssumption == IsFiniteSet(Uploaders)
ASSUME BlocksAssumption    == Blocks \in Nat \ {0}
ASSUME KindsAssumption     == Kinds \subseteq {"sftp", "ftp"}
ASSUME BoundsAssumption    == {MaxAttempts, MaxEdits, MaxFaults} \subseteq Nat

VARIABLES
    kind,         \* the protocol
    overwrites,   \* the server's rename replaces its target
    posix,        \* it has the extension posix-rename@openssh.com
    large,        \* the file is at least ResumeThreshold: UploadResume
    version,      \* version of the local file
    name,         \* the inodes of the partial file and of the destination
    content,      \* blocks of each inode
    fresh,        \* by their times, the local file is not newer than the partial
    pc, handle,   \* per uploader: where it stands, the inode it writes to,
    opened, src,  \* the version os.Stat saw, the version a read returns now,
    offset,       \* where the transfer starts,
    written,      \* the blocks the server has written,
    smooth,       \* history: no fault in this attempt
    attempts, edits, faults,
    dirty,        \* history: edited during an attempt that fed the partial, or
                  \* so that the times do not show it
    last          \* history: the latest installation

serverVars  == <<name, content>>
attemptVars == <<handle, opened, src, offset, written>>
confVars    == <<kind, overwrites, posix, large>>
countVars   == <<attempts, edits, faults>>
histVars    == <<dirty, last>>
vars == <<confVars, version, serverVars, fresh, pc, attemptVars, smooth,
          countVars, histVars>>

Hole     == 0
Absent   == 0
Versions == 1..(MaxEdits + 1)
Inodes   == 1..(Cardinality(Uploaders) + 2)
NoUpload == [version |-> 0, resumed |-> FALSE, dirty |-> FALSE]

(* idle: no attempt.  stat: local file open, about to look at the partial  *)
(* file.  open: about to open it.  copying.  attrs: all written, closing   *)
(* and setting the times.  rename, remove, rename2: the steps of replace.  *)
(* cleanup: about to remove the partial file.                              *)
States == {"idle", "stat", "open", "copying", "attrs", "rename", "remove",
           "rename2", "cleanup"}

Init ==
    /\ kind \in Kinds /\ overwrites \in BOOLEAN /\ large \in BOOLEAN
    /\ posix \in BOOLEAN /\ (posix => kind = "sftp" /\ overwrites)
    /\ version = 1 /\ fresh = FALSE
    /\ name = [partial |-> Absent, dest |-> Absent]
    /\ content = [i \in Inodes |-> <<>>]
    /\ pc = [u \in Uploaders |-> "idle"]
    /\ handle = [u \in Uploaders |-> Absent]
    /\ opened = [u \in Uploaders |-> 0] /\ src = [u \in Uploaders |-> 0]
    /\ offset = [u \in Uploaders |-> 0] /\ written = [u \in Uploaders |-> {}]
    /\ smooth = [u \in Uploaders |-> TRUE]
    /\ attempts = 0 /\ edits = 0 /\ faults = 0
    /\ dirty = FALSE /\ last = NoUpload

-----------------------------------------------------------------------------
Goto(u, s) == pc' = [pc EXCEPT ![u] = s]

PartialLen == IF name.partial = Absent THEN 0 ELSE Len(content[name.partial])

\* Mutant: a partial file is continued however old it is.
CanResumeAnyAge == PartialLen > 0 /\ PartialLen <= Blocks

\* canResumePartial: not empty, no larger than the local file, and the time of
\* the local file not after that of the partial file.
CanResume == PartialLen > 0 /\ PartialLen <= Blocks /\ fresh

\* The times compared are of two clocks, and a file can be saved with any time
\* (cp -p, mv): neither an edit need make the local file the newer one, nor a
\* write on the server the partial file.
Stamped == IF name'.partial = Absent THEN {FALSE} ELSE BOOLEAN

\* The user saves the file: in place, so that a reader of the old file goes on
\* in the new contents, or by replacing it, so that it stays with the old ones.
Edit(inPlace) ==
    /\ edits < MaxEdits
    /\ edits' = edits + 1 /\ version' = version + 1
    /\ UNCHANGED name /\ fresh' \in Stamped
    /\ src' = IF inPlace
                THEN [u \in Uploaders |-> IF src[u] = version /\ pc[u] # "idle"
                                            THEN version + 1 ELSE src[u]]
                ELSE src
    /\ dirty' = (dirty \/ fresh' \/ \E u \in Uploaders : pc[u] # "idle")
    /\ UNCHANGED <<confVars, content, pc, handle, opened, offset, written,
                   smooth, attempts, faults, last>>

\* os.Open and Stat of the local file.
Start(u) ==
    /\ pc[u] = "idle" /\ attempts < MaxAttempts
    /\ attempts' = attempts + 1
    /\ opened' = [opened EXCEPT ![u] = version]
    /\ src' = [src EXCEPT ![u] = version]
    /\ smooth' = [smooth EXCEPT ![u] = TRUE]
    /\ Goto(u, IF large THEN "stat" ELSE "open")
    /\ UNCHANGED <<confVars, version, serverVars, fresh, handle, offset,
                   written, edits, faults, histVars>>

\* The partial file of an earlier attempt is continued if it is still valid.
Stat(u) ==
    /\ pc[u] = "stat"
    /\ offset' = [offset EXCEPT ![u] = IF CanResume THEN PartialLen ELSE 0]
    /\ Goto(u, "open")
    /\ UNCHANGED <<confVars, version, serverVars, fresh, handle, opened, src,
                   written, smooth, countVars, histVars>>

Unused == Inodes \ ({name.partial, name.dest} \cup
                    {handle[v] : v \in {w \in Uploaders : pc[w] # "idle"}})

\* The partial file is created, or opened: emptied when the transfer starts
\* from zero (O_TRUNC, STOR), as it is when it is continued.
Opens(u, from) ==
    LET i == IF name.partial = Absent THEN CHOOSE j \in Unused : TRUE
                                      ELSE name.partial
    IN /\ name' = [name EXCEPT !.partial = i]
       /\ content' = IF from = 0 \/ name.partial = Absent
                       THEN [content EXCEPT ![i] = <<>>] ELSE content
       /\ fresh' \in IF from = 0 \/ name.partial = Absent THEN Stamped ELSE {fresh}
       /\ handle' = [handle EXCEPT ![u] = i]
       /\ offset' = [offset EXCEPT ![u] = from]
       /\ written' = [written EXCEPT ![u] = 1..from]
       /\ dirty' = IF from = 0 THEN version # opened[u] ELSE dirty

OpenPartial(u) ==
    /\ pc[u] = "open"
    /\ Opens(u, offset[u])
    /\ Goto(u, "copying")
    /\ UNCHANGED <<confVars, version, opened, src, smooth, countVars, last>>

\* FTP: the server refuses to continue a file (no REST, disk full), so the
\* upload starts from zero.
Restart(u) ==
    /\ pc[u] = "copying" /\ kind = "ftp" /\ offset[u] > 0
    /\ faults < MaxFaults
    /\ faults' = faults + 1
    /\ Opens(u, 0)
    /\ UNCHANGED <<confVars, version, pc, opened, src, smooth, attempts, edits,
                   last>>

Missing(u) == 1..Blocks \ written[u]

\* FTP sends the blocks in order.  SFTP sends many WRITE requests at once
\* (UseConcurrentWrites): the server gets to them in any order.
Write(u, b) ==
    /\ pc[u] = "copying" /\ b \in Missing(u)
    /\ kind = "ftp" => \A c \in Missing(u) : b <= c
    /\ content' =
         [content EXCEPT ![handle[u]] =
             [c \in 1..(IF Len(@) > b THEN Len(@) ELSE b) |->
                 IF c = b THEN src[u] ELSE IF c <= Len(@) THEN @[c] ELSE Hole]]
    /\ UNCHANGED name
    /\ fresh' \in IF handle[u] = name.partial THEN Stamped ELSE {fresh}
    /\ written' = [written EXCEPT ![u] = @ \cup {b}]
    /\ UNCHANGED <<confVars, version, pc, handle, opened, src, offset, smooth,
                   countVars, histVars>>

\* Every write is acknowledged.
Copied(u) ==
    /\ pc[u] = "copying" /\ Missing(u) = {}
    /\ Goto(u, "attrs")
    /\ UNCHANGED <<confVars, version, serverVars, fresh, attemptVars, smooth,
                   countVars, histVars>>

\* Mutant: the destination is removed before the first rename.
SetAttributesThenRemove(u) ==
    /\ pc[u] = "attrs"
    /\ UNCHANGED serverVars /\ fresh' \in Stamped
    /\ Goto(u, "remove")
    /\ UNCHANGED <<confVars, version, attemptVars, smooth,
                   countVars, histVars>>

\* close, chmod and chtimes of the partial path.  The time it gets is the one
\* the local file had when it was opened, possibly cut to a second; setting it
\* may fail, with a warning.
SetAttributes(u) ==
    /\ pc[u] = "attrs"
    /\ UNCHANGED serverVars /\ fresh' \in Stamped
    /\ Goto(u, "rename")
    /\ UNCHANGED <<confVars, version, attemptVars, smooth, countVars, histVars>>

-----------------------------------------------------------------------------
\* The partial file takes the place of the destination.
Install(u) ==
    /\ name' = [partial |-> Absent, dest |-> name.partial]
    /\ fresh' = FALSE
    /\ last' = [version |-> opened[u], resumed |-> offset[u] > 0,
                dirty |-> dirty]
    /\ Goto(u, "idle")
    /\ UNCHANGED <<confVars, version, content, attemptVars, smooth, countVars,
                   dirty>>

\* One more request that fails, or a connection.
Fault(u) ==
    /\ faults < MaxFaults
    /\ faults' = faults + 1
    /\ smooth' = [smooth EXCEPT ![u] = FALSE]

Renames == name.partial # Absent /\ (overwrites \/ name.dest = Absent)

Rename(u) == pc[u] \in {"rename", "rename2"} /\ Renames /\ Install(u)

\* Mutant: no second rename for a server that does not replace the target.
RenameRefusedOnce(u) ==
    /\ pc[u] = "rename" /\ ~Renames
    /\ Goto(u, "cleanup")
    /\ UNCHANGED <<confVars, version, serverVars, fresh, attemptVars, smooth,
                   countVars, histVars>>

\* The server refuses a rename: because of the target, or for a reason of its
\* own (no permission, no space, busy), which counts as a fault.
Refuses(u) == IF Renames THEN Fault(u) ELSE UNCHANGED <<faults, smooth>>

\* The first rename is refused.  posix-rename is the last word; a plain rename
\* of SFTP or FTP is tried again without the destination, whatever the reason.
RenameRefused(u) ==
    /\ pc[u] = "rename" /\ Refuses(u)
    /\ Goto(u, IF posix THEN "cleanup" ELSE "remove")
    /\ UNCHANGED <<confVars, version, serverVars, fresh, attemptVars, attempts,
                   edits, histVars>>

RemoveDest(u) ==
    /\ pc[u] = "remove"
    /\ name' = [name EXCEPT !.dest = Absent]
    /\ Goto(u, "rename2")
    /\ UNCHANGED <<confVars, version, content, fresh, attemptVars, smooth,
                   countVars, histVars>>

SecondRefused(u) ==
    /\ pc[u] = "rename2" /\ Refuses(u)
    /\ Goto(u, "cleanup")
    /\ UNCHANGED <<confVars, version, serverVars, fresh, attemptVars, attempts,
                   edits, histVars>>

Cleanup(u) ==
    /\ pc[u] = "cleanup"
    /\ name' = [name EXCEPT !.partial = Absent] /\ fresh' = FALSE
    /\ Goto(u, "idle")
    /\ UNCHANGED <<confVars, version, content, attemptVars, smooth, countVars,
                   histVars>>

\* Mutant: the error of a write or of the close is overlooked.
RefusedUnnoticed(u) ==
    /\ pc[u] \in {"copying", "attrs"} /\ Fault(u)
    /\ Goto(u, "rename")
    /\ UNCHANGED <<confVars, version, serverVars, fresh, attemptVars, attempts,
                   edits, histVars>>

\* The server refuses a write (disk full) or, SFTP only, the close, beside
\* which the times may have been set: a small upload removes its partial file,
\* a large one keeps it for the next attempt.
Refused(u) ==
    /\ \/ pc[u] = "copying" /\ (kind = "ftp" => offset[u] = 0)
       \/ pc[u] = "attrs" /\ kind = "sftp"
    /\ Fault(u)
    /\ UNCHANGED serverVars
    /\ fresh' \in IF pc[u] = "attrs" THEN Stamped ELSE {fresh}
    /\ Goto(u, IF large THEN "idle" ELSE "cleanup")
    /\ UNCHANGED <<confVars, version, attemptVars, attempts, edits,
                   histVars>>

\* The destination cannot be removed: SFTP gives up, FTP renames all the same.
RemoveRefused(u) ==
    /\ pc[u] = "remove" /\ Fault(u)
    /\ Goto(u, IF kind = "sftp" THEN "cleanup" ELSE "rename2")
    /\ UNCHANGED <<confVars, version, serverVars, fresh, attemptVars, attempts,
                   edits, histVars>>

\* The connection is lost or the process ends, wherever the attempt is: what
\* the server has stays as it is.
Lost(u) ==
    /\ pc[u] # "idle" /\ Fault(u)
    /\ Goto(u, "idle")
    /\ UNCHANGED <<confVars, version, serverVars, fresh, attemptVars, attempts,
                   edits, histVars>>

Uploader(u) ==
    \/ Start(u) \/ Stat(u) \/ OpenPartial(u) \/ Restart(u)
    \/ \E b \in 1..Blocks : Write(u, b)
    \/ Copied(u) \/ SetAttributes(u)
    \/ Rename(u) \/ RenameRefused(u) \/ RemoveDest(u) \/ SecondRefused(u)
    \/ Cleanup(u) \/ Refused(u) \/ RemoveRefused(u) \/ Lost(u)

Next ==
    \/ \E u \in Uploaders : Uploader(u)
    \/ \E inPlace \in BOOLEAN : Edit(inPlace)

Spec == Init /\ [][Next]_vars

-----------------------------------------------------------------------------
TypeOK ==
    /\ kind \in Kinds /\ overwrites \in BOOLEAN /\ large \in BOOLEAN
    /\ posix \in BOOLEAN /\ (posix => kind = "sftp" /\ overwrites)
    /\ version \in Versions /\ fresh \in BOOLEAN
    /\ name \in [partial : Inodes \cup {Absent}, dest : Inodes \cup {Absent}]
    /\ \A i \in Inodes : /\ Len(content[i]) <= Blocks
                         /\ content[i] \in Seq(Versions \cup {Hole})
    /\ pc \in [Uploaders -> States]
    /\ handle \in [Uploaders -> Inodes \cup {Absent}]
    /\ opened \in [Uploaders -> 0..(MaxEdits + 1)]
    /\ src \in [Uploaders -> 0..(MaxEdits + 1)]
    /\ offset \in [Uploaders -> 0..Blocks]
    /\ written \in [Uploaders -> SUBSET (1..Blocks)]
    /\ smooth \in [Uploaders -> BOOLEAN]
    /\ dirty \in BOOLEAN
    /\ last \in [version : 0..(MaxEdits + 1), resumed : BOOLEAN, dirty : BOOLEAN]

Installed == content[name.dest]

\* README.md:89: files are "renamed into place only once complete".
InstalledComplete ==
    name.dest # Absent => /\ Len(Installed) = Blocks
                          /\ \A b \in 1..Blocks : Installed[b] # Hole

\* What the server has is one version of the file, the one the upload opened,
\* unless it was edited under an attempt that fed the partial file, or left
\* between two attempts with a time that does not show it, or an SFTP upload
\* was continued: otherwise a partial file of another version is never continued.
InstalledWhole ==
    name.dest # Absent /\ ~last.dirty /\ ~(kind = "sftp" /\ last.resumed) =>
        Installed = [b \in 1..Blocks |-> last.version]

\* What atomic.go:39-42 says of a partial file that is continued: that it is no
\* "prefix of an older version".
ContinuesCurrent ==
    \A u \in Uploaders : pc[u] = "open" /\ offset[u] > 0 =>
        \A b \in 1..offset[u] : content[name.partial][b] \in {opened[u], Hole}

\* Nothing is ever cut short on the live server, edits and faults or not.
NeverTruncated == name.dest # Absent => Len(Installed) = Blocks

\* An attempt about to remove the destination on a server that would replace
\* it, whose rename was refused for some other reason.
Balked == overwrites /\ \E u \in Uploaders : pc[u] \in {"remove", "rename2"} /\ ~smooth[u]

\* On a server whose rename replaces its target, the destination is not missing
\* once it was there, but after such a refusal.
DestinationKept ==
    [][overwrites /\ name.dest # Absent => name'.dest # Absent \/ Balked]_name

\* What ftp.go:329-331 says of servers whose rename replaces the target, that
\* only "servers that refuse (e.g. IIS) get dst deleted first, leaving only a
\* brief window where dst is missing".
MissingBriefly ==
    overwrites /\ last.version # 0 /\ (\A u \in Uploaders : pc[u] = "idle") =>
        name.dest # Absent

\* Replace, which is what an upload promises: the live file changes in one step
\* only, to a version not older than the one before, whole unless it is one of
\* those that InstalledWhole excepts.
Promise == INSTANCE Replace WITH
    Length   <- Blocks,
    local    <- version,
    live     <- IF name.dest = Absent THEN <<>> ELSE Installed,
    latest   <- last.version,
    flawed   <- last.dirty \/ (kind = "sftp" /\ last.resumed),
    replaces <- overwrites /\ ~Balked

\* Every step of an upload is one of Replace or changes nothing that a reader
\* on the server can see: what is written goes to the partial file alone, and
\* is installed, or was removed before, as Replace says.
ImplementsReplace == Promise!Spec

\* An attempt that meets no fault installs the file, whatever the attempts
\* before it left behind, and leaves no partial file.
UndisturbedSucceeds ==
    \A u \in Uploaders : pc[u] = "idle" /\ opened[u] # 0 /\ smooth[u] =>
        name.dest # Absent /\ name.partial = Absent /\ last.version = opened[u]
=============================================================================

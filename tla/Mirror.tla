------------------------------- MODULE Mirror -------------------------------
(***************************************************************************)
(* MirrorUp and MirrorDown of internal/transfer/mirror.go: both trees are  *)
(* scanned, the differences become a plan, and the plan is carried out on  *)
(* the destination in phases.                                              *)
(*                                                                         *)
(* src is the tree mirrored from, dst the one mirrored to: local and       *)
(* remote for "up", remote and local for "down".  A tree gives each path   *)
(* what is there: None, Dir or a file, of which the program knows the size *)
(* and the time in seconds; two files that differ in contents alone are    *)
(* not told apart by the program, and are not here.  A step of a phase is  *)
(* one job of runTransfers, including its retry (see Transfers), or one    *)
(* call of the os package.                                                 *)
(***************************************************************************)
EXTENDS Integers, FiniteSets

CONSTANTS
    Paths,       \* relative paths
    Root,        \* the context directory and its remote counterpart
    Above,       \* the directories above a path, Root among them
    Files,       \* the files there are: records of size and time
    Ignored,     \* paths that a pattern of .syncignore matches, or that are
                 \* partial files of transfers, which the walks pass over too
    Now,         \* the time of the mirror, for what is stamped by the server
    Slack,       \* seconds isDifferent forgives
    Precision,   \* granularity of the times the server lists
    MaxFaults,   \* bound: operations that fail
    MaxEdits     \* bound: changes of the local tree after the scan

None == [type |-> "none"]
Dir  == [type |-> "dir"]
IsFile(x) == x.type = "file"
Nodes == {None, Dir} \cup Files

\* A directory and those above it.
Chain(d) == IF d = Root THEN {Root} ELSE Above[d] \cup {d}

ASSUME PathsAssumption == /\ IsFiniteSet(Paths) /\ Root \notin Paths
                          /\ Ignored \subseteq Paths
                          /\ Above \in [Paths -> SUBSET (Paths \cup {Root})]
                          /\ \A p \in Paths : /\ Root \in Above[p] /\ p \notin Above[p]
                                               /\ \E d \in Above[p] : Above[p] = Chain(d)
ASSUME FilesAssumption == Files \subseteq [type : {"file"}, size : Nat, time : Nat]
ASSUME TimesAssumption == Slack \in Nat /\ Precision \in Nat \ {0} /\ Now \in Nat
ASSUME ChangesAssumption == MaxFaults \in Nat /\ MaxEdits \in Nat

VARIABLES
    direction,   \* "up" or "down"
    src, dst,    \* the trees
    unseen,      \* directories whose listing fails, on either side
    seenSrc, seenDst,   \* the trees as scanned
    stage,       \* "scan", "execute", "done"
    todo,        \* paths whose action is still to be carried out
    errors, warnings,   \* result.Errors and result.Warnings, by path
    keepsTimes,  \* the server lets the client set a file's time
    faults, edits

trees   == <<src, dst>>
scans   == <<seenSrc, seenDst, unseen>>
results == <<errors, warnings>>
mirrorVars == <<direction, trees, scans, stage, todo, results, keepsTimes, faults, edits>>

-----------------------------------------------------------------------------
Depth(p) == Cardinality(Above[p])

\* The directory a path is in: the deepest of those above it.
Parent(p) == CHOOSE d \in Above[p] : Above[p] = Chain(d)

Holds(tree, d) == d # Root => tree[d] = Dir
Children(tree, d) == {p \in Paths : Parent(p) = d /\ tree[p] # None}

Trees == {t \in [Paths -> Nodes] :
              \A p \in Paths : t[p] # None => Holds(t, Parent(p))}

\* A path that .syncignore covers: it or a directory above it matches.
Covered(p) == (Above[p] \cup {p}) \cap Ignored # {}

\* walkLocal and walkRemote: a directory that cannot be listed is passed over
\* with a warning on the terminal, and so is all that is in it.
Visible(p, blind) == ~Covered(p) /\ Above[p] \cap blind = {}

Scan(tree, blind) == [p \in Paths |-> IF Visible(p, blind) THEN tree[p] ELSE None]

\* The server lists times cut to its precision; local times are exact.
Listed(tree) == [p \in Paths |->
    IF IsFile(tree[p])
      THEN [tree[p] EXCEPT !.time = @ - (@ % Precision)] ELSE tree[p]]

\* isDifferent, forgetting that listed times are cut.
DifferentImprecise(local, remote) ==
    \/ local.size # remote.size
    \/ local.time - remote.time < -Slack
    \/ local.time - remote.time > Slack

\* isDifferent.
Different(local, remote) ==
    \/ local.size # remote.size
    \/ LET diff == local.time - remote.time
       IN diff < -Slack \/ diff > Precision + Slack

Unequal(s, d) == IF direction = "up" THEN Different(s, d) ELSE Different(d, s)

\* diffTrees, path by path.
Action(p) ==
    LET s == seenSrc[p]
        d == seenDst[p]
    IN CASE s = None /\ d = None           -> "nothing"
         [] s = Dir /\ d = None            -> "mkdir"
         [] s = Dir /\ d = Dir             -> "nothing"
         [] s = Dir /\ IsFile(d)           -> "conflict"
         [] IsFile(s) /\ d = None          -> "transfer"
         [] IsFile(s) /\ d = Dir           -> "conflict"
         [] IsFile(s) /\ IsFile(d)         -> IF Unequal(s, d) THEN "transfer" ELSE "skip"
         [] s = None /\ d = Dir            -> "deleteDir"
         [] s = None /\ IsFile(d)          -> "delete"

Planned == {p \in Paths : Action(p) \notin {"nothing", "skip"}}

\* sortActions and the phases of executeUp and executeDown: directories from
\* the top down, then transfers (up), deletions, directories from the bottom
\* up; a mirror down transfers last.
Bottom == Cardinality(Paths) + 1

\* Directories deleted from the top down, as they are made.
RankTopDown(p) ==
    CASE Action(p) = "mkdir"     -> Depth(p)
      [] Action(p) = "transfer"  -> IF direction = "up" THEN Bottom ELSE 3 * Bottom
      [] Action(p) = "delete"    -> Bottom + 1
      [] Action(p) = "deleteDir" -> Bottom + 1 + Depth(p)
      [] Action(p) = "conflict"  -> 0

Rank(p) ==
    CASE Action(p) = "mkdir"     -> Depth(p)
      [] Action(p) = "transfer"  -> IF direction = "up" THEN Bottom ELSE 3 * Bottom
      [] Action(p) = "delete"    -> Bottom + 1
      [] Action(p) = "deleteDir" -> 3 * Bottom - Depth(p)
      [] Action(p) = "conflict"  -> 0
Due == {p \in todo : \A q \in todo : Rank(p) <= Rank(q)}

-----------------------------------------------------------------------------
Blindness == {{}} \cup {{d} : d \in UNION {Above[p] : p \in Paths}}

InitMirror ==
    /\ direction \in {"up", "down"}
    /\ src \in Trees /\ dst \in Trees
    /\ unseen \in [src : Blindness, dst : Blindness]
    /\ seenSrc = [p \in Paths |-> None] /\ seenDst = [p \in Paths |-> None]
    /\ stage = "scan" /\ todo = {} /\ errors = {} /\ warnings = {}
    /\ keepsTimes \in BOOLEAN /\ faults = 0 /\ edits = 0

\* .syncignore is applied to the source only.
ScanTreesUnevenly ==
    /\ stage = "scan" /\ stage' = "execute"
    /\ seenSrc' = Scan(src, unseen.src) /\ seenDst' = dst
    /\ UNCHANGED <<direction, trees, unseen, results, keepsTimes, faults, edits>>
    /\ todo' = Planned'

\* Both trees are scanned and the differences planned.
ScanTrees ==
    /\ stage = "scan" /\ stage' = "execute"
    /\ seenSrc' = LET s == Scan(src, unseen.src)
                  IN IF direction = "down" THEN Listed(s) ELSE s
    /\ seenDst' = LET d == Scan(dst, unseen.dst)
                  IN IF direction = "up" THEN Listed(d) ELSE d
    /\ UNCHANGED <<direction, trees, unseen, results, keepsTimes, faults, edits>>
    /\ todo' = Planned'

\* The operation on p is over: it did `effect` to the destination.
Did(p, effect) ==
    /\ todo' = todo \ {p} /\ dst' = effect
    /\ UNCHANGED <<direction, src, scans, stage, results, keepsTimes, faults, edits>>

\* It failed: an error for a transfer, a warning for anything else.
Failed(p) ==
    /\ todo' = todo \ {p}
    /\ IF Action(p) = "transfer"
         THEN errors' = errors \cup {p} /\ UNCHANGED warnings
         ELSE warnings' = warnings \cup {p} /\ UNCHANGED errors
    /\ UNCHANGED <<direction, trees, scans, stage, keepsTimes, edits>>

Doing(p, action) == stage = "execute" /\ p \in Due /\ Action(p) = action

\* MkdirAll: p and the directories above it, unless a file is in the way.
Clear(p)     == \A q \in (Above[p] \cup {p}) \ {Root} : ~IsFile(dst[q])
WithDirs(ds) == [q \in Paths |-> IF q \in ds THEN Dir ELSE dst[q]]

Mkdir(p) ==
    /\ Doing(p, "mkdir") /\ Clear(p)
    /\ Did(p, WithDirs(Above[p] \cup {p}))

\* Up, the directory must be there; down, the download makes it.
Reachable(p) ==
    IF direction = "up" THEN Holds(dst, Parent(p))
                        ELSE \A q \in Above[p] \ {Root} : ~IsFile(dst[q])

\* The source is read as it is now.  An upload keeps its time if the server
\* allows it; a download gets the time that was listed.
Transferred(p) ==
    [src[p] EXCEPT !.time = IF direction = "down" THEN seenSrc[p].time
                            ELSE IF keepsTimes THEN @ ELSE Now]

Transfer(p) ==
    /\ Doing(p, "transfer")
    /\ IsFile(src[p]) /\ ~Holds(dst, p) /\ Reachable(p)
    /\ Did(p, [(IF direction = "up" THEN dst ELSE WithDirs(Above[p]))
               EXCEPT ![p] = Transferred(p)])

\* A remote file that is gone already counts as deleted.
Delete(p) ==
    /\ Doing(p, "delete")
    /\ IsFile(dst[p]) \/ (dst[p] = None /\ direction = "up")
    /\ Did(p, [dst EXCEPT ![p] = None])

\* A directory deleted with whatever is left in it.
DeleteDirRecursively(p) ==
    /\ Doing(p, "deleteDir")
    /\ Did(p, [q \in Paths |-> IF q = p \/ p \in Above[q] THEN None ELSE dst[q]])

DeleteDir(p) ==
    /\ Doing(p, "deleteDir") /\ Children(dst, p) = {}
    /\ Did(p, [dst EXCEPT ![p] = None])

\* What the action cannot do, the server or the file system refuses.
Impossible(p) ==
    CASE Action(p) = "mkdir"     -> ~Clear(p)
      [] Action(p) = "transfer"  -> ~IsFile(src[p]) \/ Holds(dst, p) \/ ~Reachable(p)
      [] Action(p) = "delete"    -> dst[p] = None /\ direction = "down"
      [] Action(p) = "deleteDir" -> Children(dst, p) # {}
      [] Action(p) = "conflict"  -> TRUE

RefusedAction(p) ==
    /\ stage = "execute" /\ p \in Due /\ Impossible(p)
    /\ Failed(p) /\ UNCHANGED faults

\* Anything may fail: permissions, a full disk, a connection lost for good.
Faulty(p) ==
    /\ stage = "execute" /\ p \in Due /\ Action(p) # "conflict"
    /\ faults < MaxFaults /\ faults' = faults + 1
    /\ Failed(p)

FinishMirror ==
    /\ stage = "execute" /\ todo = {}
    /\ stage' = "done"
    /\ UNCHANGED <<direction, trees, scans, todo, results, keepsTimes, faults, edits>>

\* The user changes or deletes a local file while the plan is carried out.
Edit(p, x) ==
    /\ stage = "execute" /\ edits < MaxEdits /\ edits' = edits + 1
    /\ x \in Files \cup {None}
    /\ \/ /\ direction = "up" /\ IsFile(src[p]) /\ x # src[p]
          /\ src' = [src EXCEPT ![p] = x] /\ UNCHANGED dst
       \/ /\ direction = "down" /\ IsFile(dst[p]) /\ x # dst[p]
          /\ dst' = [dst EXCEPT ![p] = x] /\ UNCHANGED src
    /\ UNCHANGED <<direction, scans, stage, todo, results, keepsTimes, faults>>

Step(p) == Mkdir(p) \/ Transfer(p) \/ Delete(p) \/ DeleteDir(p) \/ RefusedAction(p)

NextMirror ==
    \/ ScanTrees \/ FinishMirror
    \/ \E p \in Paths : Step(p) \/ Faulty(p)
    \/ \E p \in Paths, x \in Files \cup {None} : Edit(p, x)

SpecMirror == InitMirror /\ [][NextMirror]_mirrorVars

-----------------------------------------------------------------------------
Looks(x) == \/ x \in {None, Dir}
            \/ IsFile(x) /\ x.size \in Nat /\ x.time \in Nat

\* The variables keep their types, and each tree stays one: what is in it is
\* in a directory.
TreesTyped ==
    /\ direction \in {"up", "down"}
    /\ \A p \in Paths, tree \in {src, dst} :
           tree[p] # None => Holds(tree, Parent(p)) /\ Looks(tree[p])
    /\ \A p \in Paths : Looks(seenSrc[p]) /\ Looks(seenDst[p])
    /\ stage \in {"scan", "execute", "done"}
    /\ todo \cup errors \cup warnings \subseteq Paths
    /\ faults \in 0..MaxFaults /\ edits \in 0..MaxEdits

Sighted == unseen.src = {} /\ unseen.dst = {}
Conflicts == {p \in Paths : Action(p) = "conflict"}
Quiet == stage = "done" /\ errors = {} /\ warnings = {}

\* The same directory, or files of one size whose times the next mirror would
\* not tell apart.
Agree(p) ==
    LET s == IF direction = "down" THEN Listed(src) ELSE src
        d == IF direction = "up" THEN Listed(dst) ELSE dst
    IN \/ s[p] = d[p]
       \/ IsFile(s[p]) /\ IsFile(d[p]) /\ s[p].size = d[p].size /\ ~Unequal(s[p], d[p])

\* A mirror that reports neither an error nor a warning has made the trees
\* agree, so that the next one finds nothing to do: if both trees were seen
\* whole, the user changed nothing meanwhile and the server keeps the times it
\* is given (MirrorUp, MirrorDown, isDifferent).
QuietMeansEqual ==
    Quiet /\ Sighted /\ edits = 0 /\ keepsTimes =>
        \A p \in Paths : Covered(p) \/ Agree(p)

\* The order of the phases is enough (sortActions, depthLevels): without
\* faults, edits and conflicts nothing is refused, but for the removal of a
\* directory in which something ignored is left.
OrderSuffices ==
    stage = "done" /\ Sighted /\ edits = 0 /\ faults = 0 /\ Conflicts = {} =>
        /\ errors = {}
        /\ \A p \in warnings :
               \E q \in Paths : p \in Above[q] /\ Covered(q) /\ dst[q] # None

\* A mirror never touches what .syncignore covers, on either side, not even to
\* remove the directory it is in (walkLocal, walkRemote, RemoveDir).
IgnoredUntouched ==
    [][edits' = edits =>
           \A p \in Paths : Covered(p) => dst'[p] = dst[p]]_dst

\* A mirror takes away from the destination only what the source does not
\* have, unless it could not list the directory of the source
\* (diffTrees; see the README for what a failed listing does).
OnlyAbsentAreDeleted ==
    [][edits' = edits =>
           \A p \in Paths : dst[p] # None /\ dst'[p] = None =>
               src[p] = None \/ Above[p] \cap unseen.src # {}]_dst
=============================================================================

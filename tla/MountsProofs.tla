----------------------------- MODULE MountsProofs -----------------------------
(***************************************************************************)
(* What the mount commands leave behind and what they tell, for any number *)
(* of profiles and commands and any failures.                              *)
(*                                                                         *)
(* The files on the server survive as long as no mount runs into another   *)
(* command on its mount point: then at most one file system is mounted     *)
(* there, who mounts is alone, and a command that counts on a free mount   *)
(* point has it (Alone).                                                   *)
(*                                                                         *)
(* What is left behind: a directory without a mount has a command that     *)
(* will remove it or mount there (Tidy), a profile is mounted only where   *)
(* its configuration says (Faithful), and the password is there for the    *)
(* time that rclone takes (Secret).  What a command tells follows from     *)
(* what it has just seen, and nobody else changes (ToldTrue).              *)
(***************************************************************************)
EXTENDS Mounts, TLAPS

MountingPcs  == {"reach", "mkdir", "write", "tool", "verify", "cleanup"}
CommittedPcs == MountingPcs \cup {"fuser", "rmdir"}

\* Where a command counts on there being nothing mounted.
FreePcs == {"reach", "mkdir", "write", "tool", "cleanup", "rmdir"}

\* Where a command has a mount point of its own.
PlacedPcs == CommittedPcs \cup {"free?", "yazi", "mounted?"}

Pcs    == PlacedPcs \cup {"idle", "told", "list", "next"}
Kinds  == {"none", "mount", "browse", "unmount", "all"}
Tales  == {"running", "already mounted", "unreachable", "no mount point", "mounted",
           "not mounted", "no terminal", "unmounted", "still mounted", "all unmounted"}
Places == Points \cup {<<>>}
Todos  == SUBSET Points
Failures == SUBSET Places
Cmds == [pc : Pcs, kind : Kinds, point : Places, how : Tales, todo : Todos,
         failed : Failures]

Types ==
    /\ cmd \in [Commands -> Cmds] /\ stack \in [Points -> Nat]
    /\ contexts \subseteq Names /\ dirs \subseteq Points
    /\ dead \subseteq Points /\ orphans \in [Points -> Nat]

Placed == \A c \in Commands : cmd[c].pc \in PlacedPcs => cmd[c].point \in Points

\* At a mount point where nothing has overlapped there is one file system at
\* most, who mounts there is alone, and who counts on a free mount point has it.
Alone ==
    \A p \in Points \ overlapped :
        /\ stack[p] \in {0, 1}
        /\ \A c, d \in Commands :
              c # d /\ cmd[c].point = p /\ cmd[d].point = p /\ cmd[c].pc \in CommittedPcs
                => cmd[d].pc \notin MountingPcs
        /\ \A c \in Commands : cmd[c].point = p =>
              /\ cmd[c].pc \in FreePcs => ~IsMounted(p)
              /\ cmd[c].pc = "rmdir" => stack[p] = 0

Kept ==
    /\ lost \subseteq overlapped /\ lost \subseteq Points
    /\ \A p \in Points : ~Managed(p) => p \in dirs /\ p \notin lost

IInv == Types /\ Placed /\ Alone /\ Kept

-----------------------------------------------------------------------------
\* A command that goes on without a change of the mounts keeps Alone if it
\* does not become committed by it, and has reason to count on a free point.
LEMMA GoingOn ==
    ASSUME IInv, NEW c \in Commands, NEW r \in Cmds,
           cmd' = [cmd EXCEPT ![c] = r], UNCHANGED <<stack, dead, overlapped>>,
           r.pc \in PlacedPcs => r.point \in Points, r.pc = "rmdir" => cmd[c].pc = "rmdir",
           r.pc \in CommittedPcs => cmd[c].pc \in CommittedPcs /\ r.point = cmd[c].point,
           r.pc \in MountingPcs => cmd[c].pc \in MountingPcs,
           r.pc \in FreePcs => \/ cmd[c].pc \in FreePcs
                               \/ ~IsMounted(cmd[c].point)
                               \/ cmd[c].point \in overlapped
    PROVE  cmd' \in [Commands -> Cmds] /\ Placed' /\ Alone'
<1>1. cmd' \in [Commands -> Cmds] /\ Placed'
  BY DEF IInv, Types, Placed
<1>2. ASSUME NEW p \in Points \ overlapped PROVE stack'[p] \in {0, 1}
  BY <1>2 DEF IInv, Alone
<1>3. ASSUME NEW p \in Points \ overlapped, NEW a \in Commands, NEW d \in Commands, a # d,
             cmd'[a].point = p, cmd'[d].point = p, cmd'[a].pc \in CommittedPcs,
             cmd'[d].pc \in MountingPcs
      PROVE  FALSE
  <2>1. cmd[a].point = p /\ cmd[a].pc \in CommittedPcs
    BY <1>3 DEF IInv, Types
  <2>2. cmd[d].point = p /\ cmd[d].pc \in MountingPcs
    BY <1>3 DEF IInv, Types, CommittedPcs
  <2>q. QED BY <1>3, <2>1, <2>2 DEF IInv, Alone
<1>4. ASSUME NEW p \in Points \ overlapped, NEW d \in Commands,
             cmd'[d].point = p, cmd'[d].pc \in FreePcs
      PROVE  ~IsMounted(p)' /\ (cmd'[d].pc = "rmdir" => stack'[p] = 0)
  <2>1. CASE d # c
    BY <1>4, <2>1 DEF IInv, Types, Alone, IsMounted
  <2>2. CASE d = c
    BY <1>4, <2>2 DEF IInv, Types, Alone, IsMounted, FreePcs, CommittedPcs, MountingPcs
  <2>q. QED BY <2>1, <2>2
<1>q. QED BY <1>1, <1>2, <1>3, <1>4 DEF Alone, FreePcs

\* The places of a command are the ones the invariant speaks of.
LEMMA PcsKnown == PlacedPcs \subseteq Pcs /\ CommittedPcs \subseteq PlacedPcs /\
    {"reach", "mkdir", "write", "tool", "verify", "cleanup", "fuser", "rmdir", "free?", "yazi",
     "mounted?", "idle", "told", "list", "next"} \subseteq Pcs /\
    FreePcs = {"reach", "mkdir", "write", "tool", "cleanup", "rmdir"} /\
    MountingPcs = {"reach", "mkdir", "write", "tool", "verify", "cleanup"} /\
    CommittedPcs = MountingPcs \cup {"fuser", "rmdir"} /\
    PlacedPcs = CommittedPcs \cup {"free?", "yazi", "mounted?"} /\
    Tales = {"running", "already mounted", "unreachable", "no mount point", "mounted",
             "not mounted", "no terminal", "unmounted", "still mounted", "all unmounted"}
BY DEF Pcs, PlacedPcs, CommittedPcs, FreePcs, MountingPcs, Tales

\* The same for a command that only moves on.
LEMMA MovingOn ==
    ASSUME IInv, NEW c \in Commands, NEW to \in Pcs, NEW say \in Tales,
           cmd' = [cmd EXCEPT ![c].pc = to] \/ cmd' = [cmd EXCEPT ![c].pc = to, ![c].how = say],
           UNCHANGED <<stack, dead, overlapped>>, to # "rmdir",
           to \in PlacedPcs => cmd[c].pc \in PlacedPcs,
           to \in CommittedPcs => cmd[c].pc \in CommittedPcs,
           to \in MountingPcs => cmd[c].pc \in MountingPcs,
           to \in FreePcs => \/ cmd[c].pc \in FreePcs
                             \/ ~IsMounted(cmd[c].point)
                             \/ cmd[c].point \in overlapped
    PROVE  cmd' \in [Commands -> Cmds] /\ Placed' /\ Alone'
<1>0. cmd \in [Commands -> Cmds]
  BY DEF IInv, Types
<1>1. PICK r \in Cmds : cmd' = [cmd EXCEPT ![c] = r] /\ r.pc = to /\ r.point = cmd[c].point
  <2>1. CASE cmd' = [cmd EXCEPT ![c].pc = to]
    <3>1. /\ [cmd[c] EXCEPT !.pc = to] \in Cmds
          /\ [cmd[c] EXCEPT !.pc = to].pc = to
          /\ [cmd[c] EXCEPT !.pc = to].point = cmd[c].point
      BY <1>0 DEF Cmds
    <3>q. QED BY <2>1, <3>1
  <2>2. CASE cmd' = [cmd EXCEPT ![c].pc = to, ![c].how = say]
    <3>1. /\ [cmd[c] EXCEPT !.pc = to, !.how = say] \in Cmds
          /\ [cmd[c] EXCEPT !.pc = to, !.how = say].pc = to
          /\ [cmd[c] EXCEPT !.pc = to, !.how = say].point = cmd[c].point
      BY <1>0 DEF Cmds
    <3>q. QED BY <1>0, <2>2, <3>1
  <2>q. QED BY <2>1, <2>2
<1>2. to \in PlacedPcs => cmd[c].point \in Points
  BY DEF IInv, Placed
<1>q. QED BY <1>1, <1>2, GoingOn

\* A command starts out with a record of its own kind.
LEMMA CommandTyped ==
    ASSUME NEW pc \in Pcs, NEW kind \in Kinds, NEW point \in Places
    PROVE  /\ Command(pc, kind, point) \in Cmds
           /\ Command(pc, kind, point).pc = pc /\ Command(pc, kind, point).point = point
<1>1. {} \in Todos /\ {} \in Failures
  BY DEF Todos, Failures
<1>2. ASSUME NEW none \in Todos, none \in Failures
      PROVE  [pc |-> pc, kind |-> kind, point |-> point, how |-> "running",
              todo |-> none, failed |-> none] \in Cmds
  BY <1>2 DEF Cmds, Tales
<1>3. Command(pc, kind, point) \in Cmds
  BY <1>1, <1>2, Zenon DEF Command
<1>q. QED BY <1>3 DEF Command

\* A terminal without a command is in its type.
LEMMA IdleTyped == Idle \in Cmds /\ Idle.pc = "idle"
<1>1. <<>> \in Places
  BY DEF Places
<1>2. "idle" \in Pcs /\ "none" \in Kinds
  BY DEF Pcs, Kinds
<1>q. QED BY <1>1, <1>2, CommandTyped, Zenon DEF Idle

\* Unmount returns, with or without UnmountAll around it.
LEMMA Unmounting ==
    ASSUME IInv, NEW c \in Commands, NEW ok \in BOOLEAN, Unmounted(c, ok),
           cmd[c].point \in Points, UNCHANGED <<stack, dead, overlapped>>
    PROVE  cmd' \in [Commands -> Cmds] /\ Placed' /\ Alone'
<1>0. cmd \in [Commands -> Cmds]
  BY DEF IInv, Types
<1>1. PICK pc \in {"next", "told"}, how \in Tales, todo \in Todos, failed \in Failures :
          cmd' = [cmd EXCEPT ![c].pc = pc, ![c].how = how, ![c].todo = todo, ![c].failed = failed]
  <2>1. /\ cmd[c].how \in Tales /\ cmd[c].todo \ {cmd[c].point} \in Todos
        /\ cmd[c].failed \in Failures /\ cmd[c].failed \cup {cmd[c].point} \in Failures
    BY <1>0 DEF Cmds, Todos, Failures, Places
  <2>2. "unmounted" \in Tales /\ "still mounted" \in Tales
    BY PcsKnown
  <2>q. QED BY <1>0, <2>1, <2>2 DEF Unmounted, Point
<1>2. PICK r \in Cmds : cmd' = [cmd EXCEPT ![c] = r] /\ r.pc \in {"next", "told"}
  <2> DEFINE r == [cmd[c] EXCEPT !.pc = pc, !.how = how, !.todo = todo, !.failed = failed]
  <2>1. r \in Cmds /\ r.pc \in {"next", "told"}
    BY <1>0, <1>1, PcsKnown DEF Cmds
  <2>2. cmd' = [cmd EXCEPT ![c] = r]
    BY <1>0, <1>1
  <2>q. QED BY <2>1, <2>2
<1>3. r.pc \notin PlacedPcs /\ r.pc \notin CommittedPcs /\ r.pc \notin MountingPcs /\ r.pc \notin FreePcs
  BY <1>2, PcsKnown
<1>q. QED BY <1>2, <1>3, GoingOn

\* Nothing is mounted at first.
LEMMA InitIInv == Init => IInv
<1> SUFFICES ASSUME Init PROVE IInv
  OBVIOUS
<1>1. Idle \in Cmds
  BY IdleTyped
<1>2. Types
  BY <1>1 DEF Init, Types, Points
<1>3. Placed /\ Alone
  BY DEF Init, Placed, Alone, IsMounted, Idle, Command, PlacedPcs, CommittedPcs, MountingPcs, FreePcs
<1>4. Kept
  BY DEF Init, Kept, Points, Managed
<1>q. QED BY <1>2, <1>3, <1>4 DEF IInv

-----------------------------------------------------------------------------
\* What RemoveManaged may do when the mount point is free or has overlapped.
LEMMA Removing ==
    ASSUME IInv, NEW p \in Points, RemoveManaged(p), UNCHANGED overlapped,
           ~IsMounted(p) \/ p \in overlapped
    PROVE  Kept' /\ dirs' \subseteq Points
BY DEF IInv, Kept, Types, RemoveManaged, RemoveAll, Managed

\* A command that commits itself to a mount point it found free, or, if it
\* unmounts, to any: whoever it runs into makes the point an overlapped one.
LEMMA Committing ==
    ASSUME IInv, NEW c \in Commands, NEW to \in {"reach", "fuser"},
           cmd[c].point \in Points, Commits(c, to = "reach"),
           to = "reach" => ~IsMounted(cmd[c].point),
           cmd' = [cmd EXCEPT ![c].pc = to],
           UNCHANGED <<stack, dead, orphans, contexts, dirs, lost>>
    PROVE  IInv'
<1>0. cmd \in [Commands -> Cmds] /\ to \in Pcs
  BY PcsKnown DEF IInv, Types
<1>1. /\ cmd' \in [Commands -> Cmds] /\ cmd'[c].pc = to /\ cmd'[c].point = cmd[c].point
      /\ \A d \in Commands : d # c => cmd'[d] = cmd[d]
  BY <1>0 DEF Cmds
<1>2. Placed'
  BY <1>1 DEF IInv, Placed
<1>3. overlapped \subseteq overlapped'
  BY DEF Commits
<1>4. ASSUME NEW d \in Commands, d # c, cmd[d].point = cmd[c].point, cmd[d].pc \in CommittedPcs,
             to = "reach" \/ cmd[d].pc \in MountingPcs
      PROVE  cmd[c].point \in overlapped'
  BY <1>4 DEF Commits, Committed, Mounting, CommittedPcs, MountingPcs
<1>5. ASSUME NEW p \in Points, p \notin overlapped', NEW a \in Commands, NEW d \in Commands,
             a # d, cmd'[a].point = p, cmd'[d].point = p,
             cmd'[a].pc \in CommittedPcs, cmd'[d].pc \in MountingPcs
      PROVE  FALSE
  <2>1. CASE a # c /\ d # c
    BY <1>1, <1>3, <1>5, <2>1 DEF IInv, Alone
  <2>2. CASE a = c
    BY <1>1, <1>4, <1>5, <2>2 DEF CommittedPcs
  <2>3. CASE d = c
    BY <1>1, <1>4, <1>5, <2>3 DEF MountingPcs
  <2>q. QED BY <2>1, <2>2, <2>3
<1>6. ASSUME NEW p \in Points, p \notin overlapped'
      PROVE  /\ stack'[p] \in {0, 1}
             /\ \A d \in Commands : cmd'[d].point = p =>
                   /\ cmd'[d].pc \in FreePcs => ~IsMounted(p)'
                   /\ cmd'[d].pc = "rmdir" => stack'[p] = 0
  BY <1>1, <1>3, <1>6 DEF IInv, Alone, FreePcs, IsMounted
<1>7. Alone'
  BY <1>5, <1>6 DEF Alone
<1>8. Kept'
  BY <1>3 DEF IInv, Kept, Managed
<1>q. QED BY <1>1, <1>2, <1>7, <1>8 DEF IInv, Types

\* Every step of a mount command keeps the strengthening.
LEMMA MountStep ==
    ASSUME IInv, NEW c \in Commands,
           \/ Begin(c) \/ IsFree(c) \/ Reach(c) \/ MakeDir(c) \/ WriteConfig(c) \/ MountTool(c)
           \/ Verify(c) \/ CleanUp(c) \/ CloseYazi(c)
    PROVE  IInv'
<1> USE DEF Point, At
<1>0. cmd \in [Commands -> Cmds] /\ contexts \subseteq Names
  BY DEF IInv, Types
<1>1. CASE Begin(c)
  <2>1. \A n \in Names : MountPoint(n) \in Points
    BY DEF MountPoint, Points
  <2>2. <<>> \in Places /\ Points \subseteq Places
    BY DEF Places
  <2>3. \E r \in Cmds : /\ cmd' = [cmd EXCEPT ![c] = r]
                        /\ r.pc \in {"free?", "mounted?", "told", "list"}
                        /\ r.pc \in PlacedPcs => r.point \in Points
    <3>1. ASSUME NEW pc \in Pcs, NEW kind \in Kinds, NEW p \in Places,
                 pc \in {"free?", "mounted?", "told", "list"},
                 pc \in PlacedPcs => p \in Points,
                 cmd' = [cmd EXCEPT ![c] = Command(pc, kind, p)]
          PROVE  <2>3!:
      <4>1. /\ Command(pc, kind, p) \in Cmds
            /\ Command(pc, kind, p).pc = pc /\ Command(pc, kind, p).point = p
        BY <3>1, CommandTyped, Zenon
      <4>q. QED BY <3>1, <4>1, Zenon
    <3>2. ASSUME NEW n \in Names, NEW kind \in {"mount", "browse"},
                 cmd' = [cmd EXCEPT ![c] = Command("free?", kind, MountPoint(n))]
          PROVE  <2>3!:
      <4>1. kind \in Kinds /\ "free?" \in Pcs
        BY <3>2 DEF Kinds, Pcs, PlacedPcs
      <4>2. MountPoint(n) \in Points /\ MountPoint(n) \in Places
        BY <2>1, <2>2, <3>2
      <4>q. QED BY <3>1, <3>2, <4>1, <4>2, Zenon
    <3>3. ASSUME NEW n \in Names,
                 cmd' = [cmd EXCEPT ![c] = Command("mounted?", "unmount", MountPoint(n))]
          PROVE  <2>3!:
      <4>1. "unmount" \in Kinds /\ "mounted?" \in Pcs
        BY DEF Kinds, Pcs, PlacedPcs
      <4>2. MountPoint(n) \in Points /\ MountPoint(n) \in Places
        BY <2>1, <2>2, <3>3
      <4>q. QED BY <3>1, <3>3, <4>1, <4>2, Zenon
    <3>4. ASSUME NEW pc \in {"told", "list"},
                 cmd' = [cmd EXCEPT ![c] = Command(pc, "all", <<>>)]
          PROVE  <2>3!:
      <4>1. pc \in Pcs /\ pc \notin PlacedPcs /\ "all" \in Kinds
        BY <3>4 DEF Kinds, Pcs, PlacedPcs, CommittedPcs, MountingPcs
      <4>2. pc \in {"free?", "mounted?", "told", "list"}
        BY <3>4
      <4>q. QED BY <2>2, <3>1, <3>4, <4>1, <4>2, Zenon
    <3>q. QED BY <1>1, <3>2, <3>3, <3>4 DEF Begin
  <2>4. UNCHANGED <<stack, dead, orphans, overlapped, contexts, dirs, lost>>
    BY <1>1 DEF Begin, diskVars, pastVars
  <2>q. QED BY <1>0, <2>3, <2>4, GoingOn DEF IInv, Types, Kept, CommittedPcs, MountingPcs, FreePcs, Managed
<1> USE DEF diskVars, pastVars
<1>2. CASE IsFree(c)
  <2>1. CASE IsMounted(cmd[c].point)
    <3>1. cmd' = [cmd EXCEPT ![c].pc = "told", ![c].how = "already mounted"]
          /\ UNCHANGED <<stack, dead, orphans, overlapped, contexts, dirs, lost>>
      BY <1>2, <2>1 DEF IsFree, Tell
    <3>q. QED BY <3>1, MovingOn, PcsKnown DEF IInv, Types, Kept
  <2>2. CASE ~IsMounted(cmd[c].point)
    <3>1. /\ cmd[c].pc = "free?" /\ cmd' = [cmd EXCEPT ![c].pc = "reach"]
          /\ Commits(c, TRUE) /\ UNCHANGED <<stack, dead, orphans, contexts, dirs, lost>>
      BY <1>2, <2>2 DEF IsFree, Goto
    <3>2. cmd[c].point \in Points
      BY <3>1 DEF IInv, Placed, PlacedPcs
    <3>q. QED BY <2>2, <3>1, <3>2, Committing, PcsKnown
  <2>q. QED BY <2>1, <2>2
<1>3. CASE Reach(c)
  <2>1. /\ cmd[c].pc = "reach" /\ UNCHANGED <<stack, dead, orphans, overlapped, contexts, dirs, lost>>
        /\ \/ cmd' = [cmd EXCEPT ![c].pc = "mkdir"]
           \/ cmd' = [cmd EXCEPT ![c].pc = "told", ![c].how = "unreachable"]
    BY <1>3 DEF Reach, Goto, Tell
  <2>q. QED BY <2>1, MovingOn, PcsKnown DEF IInv, Types, Kept
<1>4. CASE MakeDir(c)
  <2>1. /\ cmd[c].pc = "mkdir" /\ UNCHANGED <<stack, dead, orphans, overlapped, contexts, lost>>
        /\ dirs' = dirs \cup {cmd[c].point} \/ dirs' = dirs
        /\ \/ cmd' = [cmd EXCEPT ![c].pc = "write"]
           \/ cmd' = [cmd EXCEPT ![c].pc = "tool"]
           \/ cmd' = [cmd EXCEPT ![c].pc = "told", ![c].how = "no mount point"]
    BY <1>4 DEF MakeDir, Goto, Tell
  <2>2. cmd[c].point \in Points
    BY <2>1 DEF IInv, Placed, PlacedPcs, CommittedPcs, MountingPcs
  <2>3. dirs' \subseteq Points /\ Kept'
    BY <2>1, <2>2 DEF IInv, Types, Kept, Managed
  <2>4. cmd' \in [Commands -> Cmds] /\ Placed' /\ Alone'
    BY <2>1, MovingOn, PcsKnown
  <2>q. QED BY <2>1, <2>3, <2>4 DEF IInv, Types
<1>5. CASE WriteConfig(c)
  <2>1. /\ cmd[c].pc = "write" /\ UNCHANGED <<stack, dead, orphans, overlapped, contexts, dirs, lost>>
        /\ \/ cmd' = [cmd EXCEPT ![c].pc = "tool"]
           \/ cmd' = [cmd EXCEPT ![c].pc = "cleanup"]
    BY <1>5 DEF WriteConfig, Goto
  <2>q. QED BY <2>1, MovingOn, PcsKnown DEF IInv, Types, Kept
<1>6. CASE MountTool(c)
  <2>1. /\ cmd[c].pc = "tool" /\ UNCHANGED <<dead, orphans, overlapped, contexts, dirs, lost>>
        /\ \/ /\ stack' = [stack EXCEPT ![cmd[c].point] = @ + 1] /\ cmd[c].point \notin dead
              /\ cmd' = [cmd EXCEPT ![c].pc = "verify"]
           \/ stack' = stack /\ cmd' = [cmd EXCEPT ![c].pc = "cleanup"]
           \/ stack' = stack /\ cmd' = [cmd EXCEPT ![c].pc = "verify"]
    BY <1>6 DEF MountTool, Goto, CanMount
  <2>2. CASE UNCHANGED stack
    BY <2>1, <2>2, MovingOn, PcsKnown DEF IInv, Types, Kept
  <2>3. CASE /\ stack' = [stack EXCEPT ![cmd[c].point] = @ + 1] /\ cmd[c].point \notin dead
             /\ cmd' = [cmd EXCEPT ![c].pc = "verify"]
    <3>1. cmd[c].point \in Points
      BY <2>1 DEF IInv, Placed, PlacedPcs, CommittedPcs, MountingPcs
    <3>2. cmd' \in [Commands -> Cmds] /\ stack' \in [Points -> Nat]
          /\ cmd'[c].pc = "verify" /\ cmd'[c].point = cmd[c].point
          /\ \A d \in Commands : d # c => cmd'[d] = cmd[d]
      <4>1. [cmd[c] EXCEPT !.pc = "verify"] \in Cmds
        BY <1>0 DEF Cmds, Pcs, PlacedPcs, CommittedPcs, MountingPcs
      <4>2. stack' \in [Points -> Nat]
        BY <2>3, <3>1 DEF IInv, Types
      <4>q. QED BY <1>0, <2>3, <4>1, <4>2 DEF Cmds
    <3>3. Placed'
      BY <3>1, <3>2 DEF IInv, Placed
    <3>4. ASSUME NEW p \in Points \ overlapped
          PROVE  /\ stack'[p] \in {0, 1}
                 /\ \A d \in Commands : cmd'[d].point = p => cmd'[d].pc \notin FreePcs \/ stack'[p] = stack[p]
      <4>1. CASE p # cmd[c].point
        BY <2>3, <3>1, <3>2, <3>4, <4>1 DEF IInv, Types, Alone
      <4>2. CASE p = cmd[c].point
        <5>1. stack[p] = 0
          BY <2>1, <2>3, <3>4, <4>2 DEF IInv, Types, Alone, FreePcs, IsMounted
        <5>2. ASSUME NEW d \in Commands, d # c, cmd[d].point = p, cmd[d].pc \in FreePcs PROVE FALSE
          BY <2>1, <3>4, <4>2, <5>2 DEF IInv, Alone, FreePcs, CommittedPcs, MountingPcs
        <5>3. "verify" \notin FreePcs
          BY DEF FreePcs
        <5>q. QED BY <2>3, <3>2, <3>4, <4>2, <5>1, <5>2, <5>3 DEF IInv, Types
      <4>q. QED BY <4>1, <4>2
    <3>5. ASSUME NEW p \in Points \ overlapped, NEW a \in Commands, NEW d \in Commands, a # d,
                 cmd'[a].point = p, cmd'[d].point = p, cmd'[a].pc \in CommittedPcs,
                 cmd'[d].pc \in MountingPcs
          PROVE  FALSE
      <4>1. cmd[a].point = p /\ cmd[a].pc \in CommittedPcs /\ cmd[d].point = p /\ cmd[d].pc \in MountingPcs
        BY <2>1, <3>2, <3>5 DEF CommittedPcs, MountingPcs
      <4>q. QED BY <3>5, <4>1 DEF IInv, Alone
    <3>6. ASSUME NEW p \in Points \ overlapped, NEW d \in Commands, cmd'[d].point = p,
                 cmd'[d].pc \in FreePcs
          PROVE  ~IsMounted(p)' /\ (cmd'[d].pc = "rmdir" => stack'[p] = 0)
      <4>1. stack'[p] = stack[p] /\ dead' = dead
        BY <2>1, <3>4, <3>6
      <4>2. cmd'[d] = cmd[d]
        BY <3>2, <3>6 DEF FreePcs
      <4>q. QED BY <3>6, <4>1, <4>2 DEF IInv, Alone, IsMounted
    <3>7. Alone'
      BY <2>1, <3>4, <3>5, <3>6 DEF Alone, FreePcs
    <3>q. QED BY <2>1, <3>2, <3>3, <3>7 DEF IInv, Types, Kept
  <2>q. QED BY <2>1, <2>2, <2>3
<1>7. CASE Verify(c)
  <2>1. /\ cmd[c].pc = "verify" /\ UNCHANGED <<stack, dead, orphans, overlapped, contexts, dirs, lost>>
        /\ \/ cmd' = [cmd EXCEPT ![c].pc = "cleanup"] /\ ~IsMounted(cmd[c].point)
           \/ cmd' = [cmd EXCEPT ![c].pc = "yazi"]
           \/ cmd' = [cmd EXCEPT ![c].pc = "told", ![c].how = "mounted"]
    BY <1>7 DEF Verify, Goto, Tell, MountedAsSeenBy
  <2>3. cmd' \in [Commands -> Cmds] /\ Placed' /\ Alone'
    <3>1. CASE cmd' = [cmd EXCEPT ![c].pc = "cleanup"] /\ ~IsMounted(cmd[c].point)
      BY <2>1, <3>1, MovingOn, PcsKnown
    <3>2. CASE cmd' = [cmd EXCEPT ![c].pc = "yazi"]
      <4>1. /\ "yazi" \in Pcs /\ "running" \in Tales /\ cmd[c].pc \in PlacedPcs
            /\ "yazi" \notin CommittedPcs /\ "yazi" \notin MountingPcs /\ "yazi" \notin FreePcs
        BY <2>1, PcsKnown
      <4>q. QED BY <2>1, <3>2, <4>1, MovingOn
    <3>3. CASE cmd' = [cmd EXCEPT ![c].pc = "told", ![c].how = "mounted"]
      BY <2>1, <3>3, MovingOn, PcsKnown
    <3>q. QED BY <2>1, <3>1, <3>2, <3>3
  <2>q. QED BY <2>1, <2>3 DEF IInv, Types, Kept
<1>8. CASE CleanUp(c)
  <2>1. /\ cmd[c].pc = "cleanup" /\ UNCHANGED <<stack, dead, orphans, overlapped, contexts>>
        /\ cmd' = [cmd EXCEPT ![c].pc = "told", ![c].how = "not mounted"]
        /\ RemoveManaged(cmd[c].point)
    BY <1>8 DEF CleanUp, Tell
  <2>2. cmd[c].point \in Points
    BY <2>1 DEF IInv, Placed, PlacedPcs, CommittedPcs, MountingPcs
  <2>3. ~IsMounted(cmd[c].point) \/ cmd[c].point \in overlapped
    BY <2>1, <2>2 DEF IInv, Alone, FreePcs
  <2>4. dirs' \subseteq Points /\ Kept'
    BY <2>1, <2>2, <2>3, Removing
  <2>5. cmd' \in [Commands -> Cmds] /\ Placed' /\ Alone'
    BY <2>1, MovingOn, PcsKnown
  <2>q. QED BY <2>1, <2>4, <2>5 DEF IInv, Types
<1>9. CASE CloseYazi(c)
  <2>1. /\ cmd[c].pc = "yazi" /\ UNCHANGED <<stack, dead, orphans, overlapped, contexts, dirs, lost>>
        /\ \/ cmd' = [cmd EXCEPT ![c].pc = "mounted?"]
           \/ cmd' = [cmd EXCEPT ![c].pc = "told", ![c].how = "no terminal"]
    BY <1>9 DEF CloseYazi, Goto, Tell
  <2>q. QED BY <2>1, MovingOn, PcsKnown DEF IInv, Types, Kept
<1>q. QED BY <1>1, <1>2, <1>3, <1>4, <1>5, <1>6, <1>7, <1>8, <1>9

\* Every step of an unmount command keeps it.
LEMMA UnmountStep ==
    ASSUME IInv, NEW c \in Commands,
           \/ List(c) \/ NextOfAll(c) \/ StillMounted(c) \/ Fusermount(c) \/ RemoveDir(c)
           \/ Return(c) \/ Kill(c)
    PROVE  IInv'
<1> USE DEF Point, At, diskVars, pastVars
<1>0. /\ cmd \in [Commands -> Cmds] /\ contexts \subseteq Names
      /\ dirs \subseteq Points /\ ListMounted \subseteq Points
  BY DEF IInv, Types, ListMounted
<1>1. CASE List(c)
  <2>1. /\ cmd[c].pc = "list" /\ UNCHANGED <<stack, dead, orphans, overlapped, contexts, dirs, lost>>
        /\ cmd' = [cmd EXCEPT ![c] = [cmd[c] EXCEPT !.pc = "next", !.todo = ListMounted]]
    BY <1>0, <1>1 DEF List
  <2>2. /\ [cmd[c] EXCEPT !.pc = "next", !.todo = ListMounted] \in Cmds
        /\ [cmd[c] EXCEPT !.pc = "next", !.todo = ListMounted].pc = "next"
    BY <1>0, PcsKnown DEF Cmds, Todos
  <2>3. "next" \notin PlacedPcs /\ "next" \notin CommittedPcs /\ "next" \notin MountingPcs
        /\ "next" \notin FreePcs
    BY PcsKnown
  <2>q. QED BY <2>1, <2>2, <2>3, GoingOn DEF IInv, Types, Kept
<1>2. CASE NextOfAll(c)
  <2>0. cmd[c].pc = "next" /\ UNCHANGED <<stack, dead, orphans, overlapped, contexts, dirs, lost>>
    BY <1>2 DEF NextOfAll
  <2>1. CASE cmd[c].todo = {}
    <3>1. cmd' = [cmd EXCEPT ![c].pc = "told", ![c].how = "all unmounted"]
      BY <1>2, <2>1 DEF NextOfAll, Tell
    <3>2. /\ "told" \in Pcs /\ "all unmounted" \in Tales /\ "told" \notin PlacedPcs
          /\ "told" \notin CommittedPcs /\ "told" \notin MountingPcs /\ "told" \notin FreePcs
      BY PcsKnown
    <3>3. cmd' \in [Commands -> Cmds] /\ Placed' /\ Alone'
      BY <2>0, <3>1, <3>2, MovingOn
    <3>q. QED BY <2>0, <3>3 DEF IInv, Types, Kept
  <2>2. CASE cmd[c].todo # {}
    <3>1. PICK p \in cmd[c].todo :
               cmd' = [cmd EXCEPT ![c] = [cmd[c] EXCEPT !.pc = "mounted?", !.point = p]]
      BY <1>0, <1>2, <2>2 DEF NextOfAll
    <3>2. p \in Points /\ p \in Places
      BY <1>0, <3>1 DEF Cmds, Todos, Places
    <3>3. /\ [cmd[c] EXCEPT !.pc = "mounted?", !.point = p] \in Cmds
          /\ [cmd[c] EXCEPT !.pc = "mounted?", !.point = p].pc = "mounted?"
          /\ [cmd[c] EXCEPT !.pc = "mounted?", !.point = p].point = p
      BY <1>0, <3>2, PcsKnown DEF Cmds
    <3>4. "mounted?" \notin CommittedPcs /\ "mounted?" \notin MountingPcs /\ "mounted?" \notin FreePcs
      BY PcsKnown
    <3>q. QED BY <2>0, <3>1, <3>2, <3>3, <3>4, GoingOn DEF IInv, Types, Kept
  <2>q. QED BY <2>1, <2>2
<1>3. CASE StillMounted(c)
  <2>0. cmd[c].pc = "mounted?" /\ UNCHANGED <<stack, dead, orphans, contexts, dirs, lost>> /\ cmd[c].point \in Points
    BY <1>3, PcsKnown DEF StillMounted, IInv, Placed
  <2>1. CASE IsMounted(cmd[c].point)
    <3>1. cmd' = [cmd EXCEPT ![c].pc = "fuser"] /\ Commits(c, FALSE)
      BY <1>3, <2>1 DEF StillMounted, Goto
    <3>q. QED BY <2>0, <3>1, Committing
  <2>2. CASE ~IsMounted(cmd[c].point)
    <3>1. Unmounted(c, FALSE) /\ UNCHANGED overlapped
      BY <1>3, <2>2 DEF StillMounted
    <3>2. cmd' \in [Commands -> Cmds] /\ Placed' /\ Alone'
      BY <2>0, <3>1, Unmounting
    <3>q. QED BY <2>0, <3>1, <3>2 DEF IInv, Types, Kept
  <2>q. QED BY <2>1, <2>2
<1>4. CASE Fusermount(c)
  <2>0. cmd[c].pc = "fuser" /\ UNCHANGED <<orphans, overlapped, contexts, dirs, lost>> /\ cmd[c].point \in Points
    BY <1>4, PcsKnown DEF Fusermount, IInv, Placed
  <2>1. CASE /\ stack[cmd[c].point] > 0 /\ stack' = [stack EXCEPT ![cmd[c].point] = @ - 1]
             /\ dead' = dead \ {cmd[c].point}
             /\ cmd' = [cmd EXCEPT ![c].pc = "rmdir"]
    <3>1. /\ cmd' \in [Commands -> Cmds] /\ stack' \in [Points -> Nat]
          /\ cmd'[c].pc = "rmdir" /\ cmd'[c].point = cmd[c].point
          /\ \A d \in Commands : d # c => cmd'[d] = cmd[d]
      <4>1. [cmd[c] EXCEPT !.pc = "rmdir"] \in Cmds
        BY <1>0 DEF Cmds, Pcs, PlacedPcs, CommittedPcs, MountingPcs
      <4>2. stack' \in [Points -> Nat]
        BY <2>0, <2>1 DEF IInv, Types
      <4>q. QED BY <1>0, <2>1, <4>1, <4>2 DEF Cmds
    <3>2. Placed'
      BY <2>0, <3>1 DEF IInv, Placed
    <3>3. ASSUME NEW p \in Points \ overlapped
          PROVE  /\ stack'[p] \in {0, 1}
                 /\ \A d \in Commands : cmd'[d].point = p =>
                       /\ cmd'[d].pc \in FreePcs => ~IsMounted(p)'
                       /\ cmd'[d].pc = "rmdir" => stack'[p] = 0
      <4>1. CASE p # cmd[c].point
        BY <2>0, <2>1, <3>1, <3>3, <4>1 DEF IInv, Types, Alone, IsMounted
      <4>2. CASE p = cmd[c].point
        BY <2>0, <2>1, <3>3, <4>2 DEF IInv, Types, Alone, IsMounted
      <4>q. QED BY <4>1, <4>2
    <3>4. ASSUME NEW p \in Points \ overlapped, NEW a \in Commands, NEW d \in Commands, a # d,
                 cmd'[a].point = p, cmd'[d].point = p, cmd'[a].pc \in CommittedPcs,
                 cmd'[d].pc \in MountingPcs
          PROVE  FALSE
      <4>1. cmd[a].point = p /\ cmd[a].pc \in CommittedPcs /\ cmd[d].point = p /\ cmd[d].pc \in MountingPcs
        BY <2>0, <3>1, <3>4 DEF CommittedPcs, MountingPcs
      <4>q. QED BY <3>4, <4>1 DEF IInv, Alone
    <3>5. Alone'
      BY <2>0, <3>3, <3>4 DEF Alone
    <3>q. QED BY <2>0, <2>1, <3>1, <3>2, <3>5 DEF IInv, Types, Kept
  <2>2. CASE Unmounted(c, FALSE) /\ UNCHANGED <<stack, dead>>
    <3>1. cmd' \in [Commands -> Cmds] /\ Placed' /\ Alone'
      BY <2>0, <2>2, Unmounting
    <3>q. QED BY <2>0, <2>2, <3>1 DEF IInv, Types, Kept
  <2>q. QED BY <1>4, <2>1, <2>2 DEF Fusermount, TakeOff, Goto, AfterFailed
<1>5. CASE RemoveDir(c)
  <2>1. /\ cmd[c].pc = "rmdir" /\ UNCHANGED <<stack, dead, orphans, overlapped, contexts>>
        /\ RemoveManaged(cmd[c].point)
        /\ \E ok \in BOOLEAN : Unmounted(c, ok)
    BY <1>5 DEF RemoveDir
  <2>2. cmd[c].point \in Points
    BY <2>1, PcsKnown DEF IInv, Placed
  <2>3. ~IsMounted(cmd[c].point) \/ cmd[c].point \in overlapped
    BY <2>1, <2>2, PcsKnown DEF IInv, Alone
  <2>4. dirs' \subseteq Points /\ Kept'
    BY <2>1, <2>2, <2>3, Removing
  <2>5. cmd' \in [Commands -> Cmds] /\ Placed' /\ Alone'
    BY <2>1, <2>2, Unmounting
  <2>q. QED BY <2>1, <2>4, <2>5 DEF IInv, Types
<1>6. CASE Return(c) \/ Kill(c)
  <2>1. cmd' = [cmd EXCEPT ![c] = Idle] /\ UNCHANGED <<stack, dead, overlapped, contexts, dirs, lost>>
    BY <1>6 DEF Return, Kill
  <2>1a. orphans' \in [Points -> Nat]
    <3>1. CASE orphans' = orphans
      BY <3>1 DEF IInv, Types
    <3>2. CASE cmd[c].pc = "tool" /\ orphans' = [orphans EXCEPT ![cmd[c].point] = @ + 1]
      <4>1. cmd[c].point \in Points
        BY <3>2, PcsKnown DEF IInv, Placed
      <4>q. QED BY <3>2, <4>1 DEF IInv, Types
    <3>q. QED BY <1>6, <3>1, <3>2 DEF Return, Kill
  <2>2. Idle \in Cmds /\ Idle.pc = "idle"
    BY IdleTyped
  <2>3. "idle" \notin PlacedPcs /\ "idle" \notin CommittedPcs /\ "idle" \notin MountingPcs
        /\ "idle" \notin FreePcs
    BY PcsKnown
  <2>q. QED BY <2>1, <2>1a, <2>2, <2>3, PcsKnown, GoingOn DEF IInv, Types, Kept
<1>q. QED BY <1>1, <1>2, <1>3, <1>4, <1>5, <1>6

\* The user, the programs of the mounts and what goes on of killed commands
\* keep it.
LEMMA OutsideStep ==
    ASSUME IInv,
           \/ \E p \in Points : Drops(p) \/ Dies(p) \/ LateMount(p)
           \/ \E n \in Names : Configure(n)
           \/ UNCHANGED vars
    PROVE  IInv'
<1> USE DEF diskVars, pastVars
<1>1. ASSUME NEW p \in Points, Drops(p) PROVE IInv'
  <2>1. /\ stack[p] > 0 /\ stack' = [stack EXCEPT ![p] = @ - 1] /\ dead' = dead \ {p}
        /\ UNCHANGED <<contexts, dirs, orphans, cmd, lost, overlapped>>
    BY <1>1 DEF Drops, TakeOff
  <2>2. /\ stack' \in [Points -> Nat] /\ \A q \in Points : stack'[q] <= stack[q]
        /\ \A q \in Points \ {p} : stack'[q] = stack[q] /\ stack'[p] = stack[p] - 1
    BY <1>1, <2>1 DEF IInv, Types
  <2>3. ASSUME NEW q \in Points \ overlapped, ~IsMounted(q) PROVE ~IsMounted(q)'
    BY <2>1, <2>2, <2>3 DEF IInv, Types, Alone, IsMounted
  <2>4. Alone'
    BY <2>1, <2>2, <2>3 DEF IInv, Types, Alone
  <2>q. QED BY <2>1, <2>2, <2>4 DEF IInv, Types, Placed, Kept
<1>2. ASSUME NEW n \in Names, Configure(n) PROVE IInv'
  BY <1>2 DEF Configure, IInv, Types, Placed, Alone, Kept, IsMounted
<1>3. CASE UNCHANGED vars
  BY <1>3 DEF vars, IInv, Types, Placed, Alone, Kept, IsMounted
<1>4. ASSUME NEW p \in Points, Dies(p) PROVE IInv'
  <2>1. /\ dead' = dead \cup {p} /\ UNCHANGED <<contexts, dirs, stack, orphans, cmd, lost, overlapped>>
    BY <1>4 DEF Dies
  <2>2. Alone'
    BY <2>1 DEF IInv, Alone, IsMounted
  <2>q. QED BY <2>1, <2>2 DEF IInv, Types, Placed, Kept
<1>5. ASSUME NEW p \in Points, LateMount(p) PROVE IInv'
  <2>1. UNCHANGED <<contexts, dirs, dead, cmd, lost>> /\ orphans' \in [Points -> Nat]
    BY <1>5 DEF LateMount, IInv, Types
  <2>2. CASE UNCHANGED <<stack, overlapped>>
    BY <2>1, <2>2 DEF IInv, Types, Placed, Alone, Kept, IsMounted
  <2>3. CASE /\ stack' = [stack EXCEPT ![p] = @ + 1]
             /\ overlapped' = overlapped \cup
                  {q \in {p} : stack[p] > 0 \/ \E c \in Commands : Committed(c) /\ Point(c) = p}
    <3>1. /\ stack' \in [Points -> Nat] /\ stack'[p] = stack[p] + 1
          /\ \A q \in Points \ {p} : stack'[q] = stack[q]
      BY <2>3 DEF IInv, Types
    <3>2. overlapped \subseteq overlapped'
      BY <2>3
    <3>3. ASSUME p \notin overlapped'
          PROVE  stack[p] = 0 /\ \A c \in Commands : cmd[c].point = p => cmd[c].pc \notin CommittedPcs
      <4>1. ~(stack[p] > 0) /\ ~\E c \in Commands : Committed(c) /\ Point(c) = p
        BY <2>3, <3>3
      <4>q. QED BY <4>1 DEF IInv, Types, Committed, Mounting, Point, CommittedPcs, MountingPcs
    <3>4. FreePcs \subseteq CommittedPcs
      BY PcsKnown
    <3>5. ASSUME NEW q \in Points \ overlapped'
          PROVE  /\ stack'[q] \in {0, 1}
                 /\ \A c \in Commands : cmd[c].point = q =>
                       /\ cmd[c].pc \in FreePcs => ~IsMounted(q)'
                       /\ cmd[c].pc = "rmdir" => stack'[q] = 0
      <4>1. CASE q = p
        <5>1. stack[p] = 0 /\ \A c \in Commands : cmd[c].point = p => cmd[c].pc \notin CommittedPcs
          BY <3>3, <3>5, <4>1
        <5>2. stack'[q] = 1
          BY <3>1, <4>1, <5>1
        <5>3. \A c \in Commands : cmd[c].point = q => cmd[c].pc \notin FreePcs /\ cmd[c].pc # "rmdir"
          BY <3>4, <4>1, <5>1, PcsKnown
        <5>q. QED BY <5>2, <5>3
      <4>2. CASE q # p
        BY <2>1, <3>1, <3>2, <3>5, <4>2 DEF IInv, Alone, IsMounted
      <4>q. QED BY <4>1, <4>2
    <3>6. Alone'
      BY <2>1, <3>2, <3>5 DEF IInv, Alone
    <3>q. QED BY <2>1, <3>1, <3>2, <3>6 DEF IInv, Types, Placed, Kept
  <2>q. QED BY <1>5, <2>2, <2>3 DEF LateMount
<1>q. QED BY <1>1, <1>2, <1>3, <1>4, <1>5

\* Theorem: however many profiles and commands there are, the files on the
\* server are deleted through a mount point only where a mount ran into
\* another command or, late, into another mount, and a directory of the user's
\* is never removed.
THEOREM RemoteFilesKept == Spec => []RemoteKept
<1>1. Init => IInv
  BY InitIInv
<1>2. IInv /\ [Next]_vars => IInv'
  BY MountStep, UnmountStep, OutsideStep DEF Next, Step
<1>3. IInv => RemoteKept
  BY DEF IInv, Kept, RemoteKept
<1>q. QED BY <1>1, <1>2, <1>3, PTL DEF Spec

-----------------------------------------------------------------------------
(* What the commands leave behind.                                         *)

\* Where a command has yet to remove the directory it made or emptied.
TidyPcs == {"write", "tool", "verify", "cleanup", "rmdir"}

\* Under ~/.mounted, where nothing came between, what is mounted is in a
\* directory, and a directory without a mount has a command that will remove
\* it or mount there.
Tidy ==
    \A p \in Points \ (overlapped \cup disturbed) : Managed(p) =>
        /\ stack[p] > 0 => p \in dirs
        /\ p \in dirs /\ stack[p] = 0 =>
              \E c \in Commands : cmd[c].point = p /\ cmd[c].pc \in TidyPcs

\* A profile whose context was not changed is mounted, being mounted by what
\* goes on of a killed command, and looked for only where its configuration says.
Faithful ==
    \A n \in Names : <<n, "context">> \notin disturbed =>
        /\ \A p \in Points : p[1] = n /\ (stack[p] > 0 \/ orphans[p] > 0) => p = MountPoint(n)
        /\ \A c \in Commands :
              /\ cmd[c].point \in Points /\ cmd[c].point[1] = n => cmd[c].point = MountPoint(n)
              /\ \A p \in cmd[c].todo : p[1] = n => p = MountPoint(n)

\* The password is in /tmp only for the time of rclone, but for commands that
\* were killed.
Secret == \A c \in secrets : disturbed # {} \/ (c \in Commands /\ cmd[c].pc = "tool")

\* UnmountAll has nothing to do before it has listed the mounts.
Fresh == \A c \in Commands : cmd[c].pc = "list" => cmd[c].todo = {}

LInv == Tidy /\ Faithful /\ Secret /\ Fresh /\ dead \subseteq disturbed

\* What a step of c may do, for these five to carry over.
Carries(c) ==
    /\ \A d \in Commands \ {c} : cmd'[d] = cmd[d]
    /\ contexts' = contexts /\ disturbed \subseteq disturbed' /\ overlapped \subseteq overlapped'
    /\ dead' \subseteq dead
    /\ \A p \in Points : orphans'[p] > 0 => orphans[p] > 0 \/ p = cmd[c].point
    /\ cmd'[c].point \in Points =>
          \/ cmd'[c].point = cmd[c].point
          \/ cmd'[c].point \in cmd[c].todo
          \/ cmd'[c].point = MountPoint(cmd'[c].point[1])
    /\ cmd'[c].todo \subseteq cmd[c].todo \cup ListMounted
    /\ cmd'[c].pc = "list" => cmd'[c].todo = {}
    /\ secrets' \subseteq secrets \cup {c}
    /\ c \in secrets' => disturbed' # {} \/ cmd'[c].pc = "tool"
    /\ \A p \in Points \ {cmd[c].point} : stack'[p] = stack[p] /\ (p \in dirs' <=> p \in dirs)
    /\ \A p \in Points \ (overlapped' \cup disturbed') : p = cmd[c].point /\ Managed(p) =>
          /\ stack'[p] > 0 => p \in dirs'
          /\ p \in dirs' /\ stack'[p] = 0 =>
                \/ p \in dirs /\ stack[p] = 0 /\ cmd[c].pc \notin TidyPcs
                \/ cmd'[c].pc \in TidyPcs /\ cmd'[c].point = p

\* They do.
LEMMA CarriedOver ==
    ASSUME IInv, LInv, NEW c \in Commands, Carries(c)
    PROVE  LInv'
<1>1. Tidy'
  <2> SUFFICES ASSUME NEW p \in Points, p \notin overlapped', p \notin disturbed', Managed(p)
               PROVE  /\ stack'[p] > 0 => p \in dirs'
                      /\ p \in dirs' /\ stack'[p] = 0 =>
                            \E d \in Commands : cmd'[d].point = p /\ cmd'[d].pc \in TidyPcs
    BY DEF Tidy, Managed, TidyPcs
  <2>1. /\ p \notin overlapped /\ p \notin disturbed
        /\ stack[p] > 0 => p \in dirs
        /\ p \in dirs /\ stack[p] = 0 =>
              \E d \in Commands : cmd[d].point = p /\ cmd[d].pc \in TidyPcs
    BY DEF Carries, LInv, Tidy
  <2>2. CASE p = cmd[c].point
    <3>1. /\ stack'[p] > 0 => p \in dirs'
          /\ p \in dirs' /\ stack'[p] = 0 =>
                \/ p \in dirs /\ stack[p] = 0 /\ cmd[c].pc \notin TidyPcs
                \/ cmd'[c].pc \in TidyPcs /\ cmd'[c].point = p
      BY <2>2 DEF Carries
    <3>2. ASSUME p \in dirs, stack[p] = 0, cmd[c].pc \notin TidyPcs
          PROVE  \E d \in Commands : cmd'[d].point = p /\ cmd'[d].pc \in TidyPcs
      <4>1. PICK d \in Commands : cmd[d].point = p /\ cmd[d].pc \in TidyPcs
        BY <2>1, <3>2
      <4>q. QED BY <3>2, <4>1 DEF Carries
    <3>q. QED BY <3>1, <3>2
  <2>3. CASE p # cmd[c].point
    <3>1. stack'[p] = stack[p] /\ (p \in dirs' <=> p \in dirs)
      BY <2>3 DEF Carries
    <3>2. ASSUME p \in dirs, stack[p] = 0
          PROVE  \E d \in Commands : cmd'[d].point = p /\ cmd'[d].pc \in TidyPcs
      <4>1. PICK d \in Commands : cmd[d].point = p /\ cmd[d].pc \in TidyPcs
        BY <2>1, <3>2
      <4>q. QED BY <2>3, <4>1 DEF Carries
    <3>q. QED BY <2>1, <3>1, <3>2
  <2>q. QED BY <2>2, <2>3
<1>2. Faithful'
  <2> SUFFICES ASSUME NEW n \in Names, <<n, "context">> \notin disturbed'
               PROVE  /\ \A p \in Points : p[1] = n /\ (stack'[p] > 0 \/ orphans'[p] > 0) => p = MountPoint(n)'
                      /\ \A d \in Commands :
                            /\ cmd'[d].point \in Points /\ cmd'[d].point[1] = n
                                  => cmd'[d].point = MountPoint(n)'
                            /\ \A p \in cmd'[d].todo : p[1] = n => p = MountPoint(n)'
    BY DEF Faithful
  <2>1. MountPoint(n)' = MountPoint(n)
    BY DEF Carries, MountPoint
  <2>2. /\ \A p \in Points : p[1] = n /\ (stack[p] > 0 \/ orphans[p] > 0) => p = MountPoint(n)
        /\ \A d \in Commands :
              /\ cmd[d].point \in Points /\ cmd[d].point[1] = n => cmd[d].point = MountPoint(n)
              /\ \A p \in cmd[d].todo : p[1] = n => p = MountPoint(n)
    BY DEF Carries, LInv, Faithful
  <2>3. \A p \in ListMounted : p[1] = n => p = MountPoint(n)
    BY <2>2 DEF ListMounted, IsMounted, IInv, Types
  <2>4. \A p \in Points : p[1] = n /\ (stack'[p] > 0 \/ orphans'[p] > 0) => p = MountPoint(n)
    BY <2>2 DEF Carries
  <2>5. \A d \in Commands \ {c} :
           /\ cmd'[d].point \in Points /\ cmd'[d].point[1] = n => cmd'[d].point = MountPoint(n)
           /\ \A p \in cmd'[d].todo : p[1] = n => p = MountPoint(n)
    BY <2>2 DEF Carries
  <2>6. cmd'[c].point \in Points /\ cmd'[c].point[1] = n => cmd'[c].point = MountPoint(n)
    BY <2>2 DEF Carries
  <2>7. \A p \in cmd'[c].todo : p[1] = n => p = MountPoint(n)
    BY <2>2, <2>3 DEF Carries
  <2>q. QED BY <2>1, <2>4, <2>5, <2>6, <2>7
<1>3. Secret'
  BY DEF Carries, LInv, Secret
<1>4. Fresh'
  BY DEF Carries, LInv, Fresh
<1>5. dead' \subseteq disturbed'
  BY DEF Carries, LInv
<1>q. QED BY <1>1, <1>2, <1>3, <1>4, <1>5 DEF LInv

\* A step that leaves directories and mounts alone carries them over, if it
\* does not walk away from a directory that it is to remove.
LEMMA Staying ==
    ASSUME IInv, LInv, NEW c \in Commands, NEW r \in Cmds,
           cmd' = [cmd EXCEPT ![c] = r], UNCHANGED <<contexts, dirs, stack>>, dead' \subseteq dead,
           \A p \in Points : orphans'[p] > 0 => orphans[p] > 0 \/ p = cmd[c].point,
           overlapped \subseteq overlapped', disturbed \subseteq disturbed',
           r.point \in Points => \/ r.point = cmd[c].point
                                 \/ r.point \in cmd[c].todo
                                 \/ r.point = MountPoint(r.point[1]),
           r.todo \subseteq cmd[c].todo \cup ListMounted,
           r.pc = "list" => r.todo = {},
           secrets' \subseteq secrets \cup {c},
           c \in secrets' => disturbed' # {} \/ r.pc = "tool",
           cmd[c].pc \in TidyPcs => \/ r.pc \in TidyPcs /\ r.point = cmd[c].point
                                    \/ stack[cmd[c].point] # 0
                                    \/ cmd[c].point \in disturbed'
    PROVE  Carries(c)
<1>1. cmd'[c] = r /\ \A d \in Commands \ {c} : cmd'[d] = cmd[d]
  BY DEF IInv, Types
<1>2. ASSUME NEW p \in Points, p \notin overlapped', p \notin disturbed', p = cmd[c].point, Managed(p)
      PROVE  /\ stack'[p] > 0 => p \in dirs'
             /\ p \in dirs' /\ stack'[p] = 0 =>
                   \/ p \in dirs /\ stack[p] = 0 /\ cmd[c].pc \notin TidyPcs
                   \/ cmd'[c].pc \in TidyPcs /\ cmd'[c].point = p
  <2>1. stack[p] > 0 => p \in dirs
    BY <1>2 DEF LInv, Tidy
  <2>q. QED BY <1>1, <1>2, <2>1
<1>q. QED BY <1>1, <1>2 DEF Carries

\* The same for a command that only moves on.
LEMMA MovesOn ==
    ASSUME IInv, LInv, NEW c \in Commands, NEW to \in Pcs, NEW say \in Tales,
           cmd' = [cmd EXCEPT ![c].pc = to] \/ cmd' = [cmd EXCEPT ![c].pc = to, ![c].how = say],
           UNCHANGED <<contexts, dirs, stack, dead, orphans, disturbed>>, overlapped \subseteq overlapped',
           to # "list", secrets' \subseteq secrets \cup {c},
           c \in secrets' => disturbed # {} \/ to = "tool",
           cmd[c].pc \in TidyPcs => to \in TidyPcs \/ stack[cmd[c].point] # 0
    PROVE  Carries(c)
<1>0. cmd \in [Commands -> Cmds]
  BY DEF IInv, Types
<1>1. PICK r \in Cmds : /\ cmd' = [cmd EXCEPT ![c] = r] /\ r.pc = to
                        /\ r.point = cmd[c].point /\ r.todo = cmd[c].todo
  <2>1. CASE cmd' = [cmd EXCEPT ![c].pc = to]
    <3> DEFINE r == [cmd[c] EXCEPT !.pc = to]
    <3>1. r \in Cmds /\ r.pc = to /\ r.point = cmd[c].point /\ r.todo = cmd[c].todo
      BY <1>0 DEF Cmds
    <3>2. cmd' = [cmd EXCEPT ![c] = r]
      BY <1>0, <2>1
    <3>q. QED BY <3>1, <3>2
  <2>2. CASE cmd' = [cmd EXCEPT ![c].pc = to, ![c].how = say]
    <3> DEFINE r == [cmd[c] EXCEPT !.pc = to, !.how = say]
    <3>0. r \in Cmds
      BY <1>0 DEF Cmds
    <3>1. r \in Cmds /\ r.pc = to /\ r.point = cmd[c].point /\ r.todo = cmd[c].todo
      BY <1>0, <3>0 DEF Cmds
    <3>2. cmd' = [cmd EXCEPT ![c] = r]
      BY <1>0, <2>2
    <3>q. QED BY <3>1, <3>2
  <2>q. QED BY <2>1, <2>2
<1>2. disturbed \subseteq disturbed' /\ (c \in secrets' => disturbed' # {} \/ r.pc = "tool")
  BY <1>1
<1>3. r.point \in Points => r.point = cmd[c].point
  BY <1>1
<1>4. r.todo \subseteq cmd[c].todo \cup ListMounted /\ (r.pc = "list" => r.todo = {})
  BY <1>1
<1>5. cmd[c].pc \in TidyPcs => (r.pc \in TidyPcs /\ r.point = cmd[c].point) \/ stack[cmd[c].point] # 0
  BY <1>1
<1>q. QED BY <1>1, <1>2, <1>3, <1>4, <1>5, Staying

\* A command that is not at the mounting itself has its password in /tmp only
\* if commands were killed.
LEMMA NoSecret ==
    ASSUME LInv, NEW c \in Commands, cmd[c].pc # "tool"
    PROVE  c \in secrets => disturbed # {}
BY DEF LInv, Secret

\* A free mount point under ~/.mounted is removed, and no other is touched.
LEMMA RemovesDir ==
    ASSUME NEW p \in Points, RemoveManaged(p)
    PROVE  /\ \A q \in Points \ {p} : q \in dirs' <=> q \in dirs
           /\ Managed(p) /\ stack[p] = 0 => p \notin dirs'
<1>1. CASE Managed(p)
  <2>1. CASE stack[p] > 0
    BY <1>1, <2>1 DEF RemoveManaged, RemoveAll, IsMounted
  <2>2. CASE ~(stack[p] > 0)
    BY <1>1, <2>2 DEF RemoveManaged, RemoveAll, IsMounted
  <2>q. QED BY <2>1, <2>2
<1>2. CASE ~Managed(p)
  BY <1>2 DEF RemoveManaged
<1>q. QED BY <1>1, <1>2

\* The places that the steps below go to.
LEMMA PcsTidy ==
    /\ {"write", "tool", "verify", "cleanup", "rmdir"} = TidyPcs
    /\ {"idle", "told", "list", "next", "free?", "reach", "mkdir", "yazi", "mounted?", "fuser"}
          \cap TidyPcs = {}
BY DEF TidyPcs

\* Unmount that returns, around it or not UnmountAll, changes neither the
\* mount point nor what is left to do but by that mount point.
LEMMA Returning ==
    ASSUME IInv, NEW c \in Commands, NEW ok \in BOOLEAN, Unmounted(c, ok), cmd[c].point \in Points
    PROVE  \E r \in Cmds :
              /\ cmd' = [cmd EXCEPT ![c] = r] /\ r.pc \in {"next", "told"}
              /\ r.point = cmd[c].point /\ r.todo = cmd[c].todo \ {cmd[c].point}
<1>0. cmd \in [Commands -> Cmds]
  BY DEF IInv, Types
<1>1. PICK pc \in {"next", "told"}, how \in Tales, failed \in Failures :
          cmd' = [cmd EXCEPT ![c].pc = pc, ![c].how = how,
                             ![c].todo = cmd[c].todo \ {cmd[c].point}, ![c].failed = failed]
  <2>1. /\ cmd[c].how \in Tales
        /\ cmd[c].failed \in Failures /\ cmd[c].failed \cup {cmd[c].point} \in Failures
    BY <1>0 DEF Cmds, Failures, Places
  <2>2. "unmounted" \in Tales /\ "still mounted" \in Tales
    BY PcsKnown
  <2>q. QED BY <1>0, <2>1, <2>2 DEF Unmounted, Point
<1> DEFINE todo == cmd[c].todo \ {cmd[c].point}
           r == [cmd[c] EXCEPT !.pc = pc, !.how = how, !.todo = todo, !.failed = failed]
<1>2. todo \in Todos
  BY <1>0 DEF Cmds, Todos
<1>3. r \in Cmds /\ r.pc \in {"next", "told"} /\ r.point = cmd[c].point /\ r.todo = todo
  BY <1>0, <1>1, <1>2, PcsKnown DEF Cmds
<1>4. cmd' = [cmd EXCEPT ![c] = r]
  BY <1>0, <1>1
<1>q. QED BY <1>3, <1>4

\* Every step of a mount command carries over what it may leave behind.
LEMMA MountCarries ==
    ASSUME IInv, LInv, NEW c \in Commands,
           \/ Begin(c) \/ IsFree(c) \/ Reach(c) \/ MakeDir(c) \/ WriteConfig(c) \/ MountTool(c)
           \/ Verify(c) \/ CleanUp(c) \/ CloseYazi(c)
    PROVE  Carries(c)
<1> USE DEF Point, At, diskVars, pastVars
<1>0. /\ cmd \in [Commands -> Cmds] /\ stack \in [Points -> Nat]
      /\ cmd[c].pc \in PlacedPcs => cmd[c].point \in Points
  BY DEF IInv, Types, Placed
<1>1. CASE Begin(c)
  <2>1. /\ cmd[c].pc = "idle" /\ UNCHANGED <<contexts, dirs, stack, dead, orphans, secrets, disturbed, overlapped>>
    BY <1>1 DEF Begin
  <2>2. \E r \in Cmds : /\ cmd' = [cmd EXCEPT ![c] = r] /\ r.todo = {}
                        /\ r.point \in Points => r.point = MountPoint(r.point[1])
    <3>0. \A n \in Names : /\ MountPoint(n) \in Points /\ MountPoint(n) \in Places
                           /\ MountPoint(n) = MountPoint(MountPoint(n)[1])
      BY DEF MountPoint, Points, Places
    <3>1. ASSUME NEW pc \in Pcs, NEW kind \in Kinds, NEW p \in Places,
                 p \in Points => p = MountPoint(p[1]),
                 cmd' = [cmd EXCEPT ![c] = Command(pc, kind, p)]
          PROVE  <2>2!:
      <4>1. Command(pc, kind, p) \in Cmds /\ Command(pc, kind, p).point = p
        BY <3>1, CommandTyped, Zenon
      <4>2. Command(pc, kind, p).todo = {}
        BY DEF Command
      <4>q. QED BY <3>1, <4>1, <4>2, Zenon
    <3>2. ASSUME NEW n \in Names, NEW kind \in {"mount", "browse"},
                 cmd' = [cmd EXCEPT ![c] = Command("free?", kind, MountPoint(n))]
          PROVE  <2>2!:
      <4>1. kind \in Kinds /\ "free?" \in Pcs
        BY <3>2 DEF Kinds, Pcs, PlacedPcs
      <4>q. QED BY <3>0, <3>1, <3>2, <4>1, Zenon
    <3>3. ASSUME NEW n \in Names,
                 cmd' = [cmd EXCEPT ![c] = Command("mounted?", "unmount", MountPoint(n))]
          PROVE  <2>2!:
      <4>1. "unmount" \in Kinds /\ "mounted?" \in Pcs
        BY DEF Kinds, Pcs, PlacedPcs
      <4>q. QED BY <3>0, <3>1, <3>3, <4>1, Zenon
    <3>4. ASSUME NEW pc \in {"told", "list"}, cmd' = [cmd EXCEPT ![c] = Command(pc, "all", <<>>)]
          PROVE  <2>2!:
      <4>1. pc \in Pcs /\ "all" \in Kinds
        BY <3>4 DEF Kinds, Pcs
      <4>2. <<>> \in Places /\ <<>> \notin Points
        BY DEF Places, Points
      <4>q. QED BY <3>1, <3>4, <4>1, <4>2, Zenon
    <3>q. QED BY <1>1, <3>2, <3>3, <3>4 DEF Begin
  <2>3. c \in secrets => disturbed # {}
    BY <2>1, NoSecret
  <2>4. cmd[c].pc \notin TidyPcs
    BY <2>1, PcsTidy
  <2>q. QED BY <2>1, <2>2, <2>3, <2>4, Staying
<1>2. CASE IsFree(c)
  <2>1. /\ cmd[c].pc = "free?" /\ UNCHANGED <<contexts, dirs, stack, dead, orphans, secrets, disturbed>>
        /\ overlapped \subseteq overlapped'
        /\ \/ cmd' = [cmd EXCEPT ![c].pc = "told", ![c].how = "already mounted"]
           \/ cmd' = [cmd EXCEPT ![c].pc = "reach"]
    BY <1>2 DEF IsFree, Tell, Goto, Commits
  <2>q. QED BY <2>1, MovesOn, NoSecret, PcsKnown, PcsTidy
<1>3. CASE Reach(c)
  <2>1. /\ cmd[c].pc = "reach" /\ UNCHANGED <<contexts, dirs, stack, dead, orphans, secrets, disturbed, overlapped>>
        /\ \/ cmd' = [cmd EXCEPT ![c].pc = "mkdir"]
           \/ cmd' = [cmd EXCEPT ![c].pc = "told", ![c].how = "unreachable"]
    BY <1>3 DEF Reach, Goto, Tell
  <2>q. QED BY <2>1, MovesOn, NoSecret, PcsKnown, PcsTidy
<1>4. CASE MakeDir(c)
  <2>1. cmd[c].pc = "mkdir" /\ UNCHANGED <<contexts, stack, dead, orphans, secrets, disturbed, overlapped>>
    BY <1>4 DEF MakeDir
  <2>2. c \in secrets => disturbed # {}
    BY <2>1, NoSecret
  <2>3. CASE dirs' = dirs /\ cmd' = [cmd EXCEPT ![c].pc = "told", ![c].how = "no mount point"]
    BY <2>1, <2>2, <2>3, MovesOn, PcsKnown, PcsTidy
  <2>4. ASSUME NEW to \in {"write", "tool"}, dirs' = dirs \cup {cmd[c].point},
               cmd' = [cmd EXCEPT ![c].pc = to]
        PROVE  Carries(c)
    <3>1. /\ \A d \in Commands \ {c} : cmd'[d] = cmd[d]
          /\ cmd'[c].pc = to /\ cmd'[c].point = cmd[c].point /\ cmd'[c].todo = cmd[c].todo
      BY <1>0, <2>4 DEF Cmds
    <3>2. to \in TidyPcs /\ to # "list"
      BY PcsTidy
    <3>q. QED BY <2>1, <2>2, <2>4, <3>1, <3>2 DEF Carries
  <2>q. QED BY <1>4, <2>3, <2>4 DEF MakeDir, Goto, Tell
<1>5. CASE WriteConfig(c)
  <2>1. /\ cmd[c].pc = "write" /\ UNCHANGED <<contexts, dirs, stack, dead, orphans, disturbed, overlapped>>
        /\ \/ cmd' = [cmd EXCEPT ![c].pc = "tool"] /\ secrets' = secrets \cup {c}
           \/ cmd' = [cmd EXCEPT ![c].pc = "cleanup"] /\ secrets' = secrets
    BY <1>5 DEF WriteConfig, Goto
  <2>q. QED BY <2>1, MovesOn, NoSecret, PcsKnown, PcsTidy
<1>6. CASE MountTool(c)
  <2>1. /\ cmd[c].pc = "tool" /\ UNCHANGED <<contexts, dirs, dead, orphans, disturbed, overlapped>>
        /\ secrets' = secrets \ {c}
        /\ \/ /\ cmd[c].point \in dirs /\ stack' = [stack EXCEPT ![cmd[c].point] = @ + 1]
              /\ cmd' = [cmd EXCEPT ![c].pc = "verify"]
           \/ stack' = stack /\ cmd' = [cmd EXCEPT ![c].pc = "cleanup"]
           \/ stack' = stack /\ cmd' = [cmd EXCEPT ![c].pc = "verify"]
    BY <1>6 DEF MountTool, CanMount, Goto
  <2>2. CASE stack' = stack
    BY <1>0, <2>1, <2>2, MovesOn, PcsKnown, PcsTidy
  <2>3. CASE /\ cmd[c].point \in dirs /\ stack' = [stack EXCEPT ![cmd[c].point] = @ + 1]
             /\ cmd' = [cmd EXCEPT ![c].pc = "verify"]
    <3>1. /\ \A d \in Commands \ {c} : cmd'[d] = cmd[d]
          /\ cmd'[c].pc = "verify" /\ cmd'[c].point = cmd[c].point /\ cmd'[c].todo = cmd[c].todo
      BY <1>0, <2>3 DEF Cmds
    <3>2. "verify" \in TidyPcs
      BY PcsTidy
    <3>3. \A p \in Points \ {cmd[c].point} : stack'[p] = stack[p]
      BY <1>0, <2>3
    <3>q. QED BY <2>1, <2>3, <3>1, <3>2, <3>3 DEF Carries
  <2>q. QED BY <2>1, <2>2, <2>3
<1>7. CASE Verify(c)
  <2>1. /\ cmd[c].pc = "verify" /\ UNCHANGED <<contexts, dirs, stack, dead, orphans, secrets, disturbed, overlapped>>
        /\ \/ cmd' = [cmd EXCEPT ![c].pc = "cleanup"]
           \/ /\ IsMounted(cmd[c].point)
              /\ \/ cmd' = [cmd EXCEPT ![c].pc = "yazi"]
                 \/ cmd' = [cmd EXCEPT ![c].pc = "told", ![c].how = "mounted"]
    BY <1>7 DEF Verify, Goto, Tell, MountedAsSeenBy
  <2>2. IsMounted(cmd[c].point) => stack[cmd[c].point] # 0
    BY DEF IsMounted
  <2>3. c \in secrets => disturbed # {}
    BY <2>1, NoSecret
  <2>q. QED BY <2>1, <2>2, <2>3, MovesOn, PcsKnown, PcsTidy
<1>8. CASE CleanUp(c)
  <2>1. /\ cmd[c].pc = "cleanup" /\ UNCHANGED <<stack, dead, orphans, overlapped, contexts, disturbed, secrets>>
        /\ cmd' = [cmd EXCEPT ![c].pc = "told", ![c].how = "not mounted"]
        /\ RemoveManaged(cmd[c].point)
    BY <1>8 DEF CleanUp, Tell
  <2>2. cmd[c].point \in Points /\ (stack[cmd[c].point] = 0 \/ cmd[c].point \in overlapped \cup disturbed)
    <3>1. cmd[c].point \in Points /\ cmd[c].pc \in FreePcs
      BY <1>0, <2>1, PcsKnown
    <3>2. ~IsMounted(cmd[c].point) \/ cmd[c].point \in overlapped
      BY <3>1 DEF IInv, Alone
    <3>3. stack[cmd[c].point] \in Nat /\ dead \subseteq disturbed
      BY <1>0, <3>1 DEF LInv
    <3>q. QED BY <3>1, <3>2, <3>3 DEF IsMounted
  <2>3. /\ \A d \in Commands \ {c} : cmd'[d] = cmd[d]
        /\ cmd'[c].pc = "told" /\ cmd'[c].point = cmd[c].point /\ cmd'[c].todo = cmd[c].todo
    BY <1>0, <2>1 DEF Cmds
  <2>4. c \in secrets => disturbed # {}
    BY <2>1, NoSecret
  <2>5. /\ \A q \in Points \ {cmd[c].point} : q \in dirs' <=> q \in dirs
        /\ Managed(cmd[c].point) /\ stack[cmd[c].point] = 0 => cmd[c].point \notin dirs'
    BY <2>1, <2>2, RemovesDir
  <2>6. ASSUME NEW p \in Points, p \notin overlapped', p \notin disturbed', p = cmd[c].point, Managed(p)
        PROVE  ~(stack'[p] > 0) /\ p \notin dirs'
    <3>1. stack[p] = 0
      BY <2>1, <2>2, <2>6
    <3>2. p \notin dirs'
      BY <2>5, <2>6, <3>1, Zenon
    <3>3. stack'[p] = 0
      BY <2>1, <3>1
    <3>q. QED BY <3>2, <3>3
  <2>q. QED BY <2>1, <2>3, <2>4, <2>5, <2>6 DEF Carries
<1>9. CASE CloseYazi(c)
  <2>1. /\ cmd[c].pc = "yazi" /\ UNCHANGED <<contexts, dirs, stack, dead, orphans, secrets, disturbed, overlapped>>
        /\ \/ cmd' = [cmd EXCEPT ![c].pc = "mounted?"]
           \/ cmd' = [cmd EXCEPT ![c].pc = "told", ![c].how = "no terminal"]
    BY <1>9 DEF CloseYazi, Goto, Tell
  <2>q. QED BY <2>1, MovesOn, NoSecret, PcsKnown, PcsTidy
<1>q. QED BY <1>1, <1>2, <1>3, <1>4, <1>5, <1>6, <1>7, <1>8, <1>9

\* Every step of an unmount command, and the end of any, carries it over.
LEMMA UnmountCarries ==
    ASSUME IInv, LInv, NEW c \in Commands,
           \/ List(c) \/ NextOfAll(c) \/ StillMounted(c) \/ Fusermount(c) \/ RemoveDir(c)
           \/ Return(c) \/ Kill(c)
    PROVE  Carries(c)
<1> USE DEF Point, At, diskVars, pastVars
<1>0. /\ cmd \in [Commands -> Cmds] /\ stack \in [Points -> Nat]
      /\ cmd[c].pc \in PlacedPcs => cmd[c].point \in Points
      /\ ListMounted \in Todos
  BY DEF IInv, Types, Placed, ListMounted, Todos
<1>1. CASE List(c)
  <2>1. /\ cmd[c].pc = "list" /\ UNCHANGED <<contexts, dirs, stack, dead, orphans, secrets, disturbed, overlapped>>
        /\ cmd' = [cmd EXCEPT ![c] = [cmd[c] EXCEPT !.pc = "next", !.todo = ListMounted]]
    BY <1>0, <1>1 DEF List
  <2> DEFINE r == [cmd[c] EXCEPT !.pc = "next", !.todo = ListMounted]
  <2>2. r \in Cmds /\ r.pc = "next" /\ r.todo = ListMounted /\ r.point = cmd[c].point
    BY <1>0, PcsKnown DEF Cmds
  <2>3. c \in secrets => disturbed # {}
    BY <2>1, NoSecret
  <2>4. cmd[c].pc \notin TidyPcs
    BY <2>1, PcsTidy
  <2> HIDE DEF r
  <2>q. QED BY <2>1, <2>2, <2>3, <2>4, Staying DEF r
<1>2. CASE NextOfAll(c)
  <2>1. cmd[c].pc = "next" /\ UNCHANGED <<contexts, dirs, stack, dead, orphans, secrets, disturbed, overlapped>>
    BY <1>2 DEF NextOfAll
  <2>2. CASE cmd' = [cmd EXCEPT ![c].pc = "told", ![c].how = "all unmounted"]
    BY <2>1, <2>2, MovesOn, NoSecret, PcsKnown, PcsTidy
  <2>3. ASSUME NEW p \in cmd[c].todo, cmd' = [cmd EXCEPT ![c].pc = "mounted?", ![c].point = p]
        PROVE  Carries(c)
    <3> DEFINE r == [cmd[c] EXCEPT !.pc = "mounted?", !.point = p]
    <3>1. p \in Places
      BY <1>0, <2>3 DEF Cmds, Todos, Places
    <3>2. r \in Cmds /\ r.pc = "mounted?" /\ r.point = p /\ r.todo = cmd[c].todo
      BY <1>0, <3>1, PcsKnown DEF Cmds
    <3>3. cmd' = [cmd EXCEPT ![c] = r]
      BY <1>0, <2>3
    <3>4. c \in secrets => disturbed # {}
      BY <2>1, NoSecret
    <3>5. cmd[c].pc \notin TidyPcs
      BY <2>1, PcsTidy
    <3> HIDE DEF r
    <3>q. QED BY <2>1, <2>3, <3>2, <3>3, <3>4, <3>5, Staying
  <2>q. QED BY <1>2, <2>2, <2>3 DEF NextOfAll, Tell
\* Unmount returns.
<1>0a. ASSUME NEW ok \in BOOLEAN, Unmounted(c, ok), cmd[c].point \in Points,
              cmd[c].pc \in {"mounted?", "fuser"},
              UNCHANGED <<contexts, dirs, stack, dead, orphans, secrets, disturbed, overlapped>>
       PROVE  Carries(c)
  <2>1. PICK r \in Cmds : /\ cmd' = [cmd EXCEPT ![c] = r] /\ r.pc \in {"next", "told"}
                          /\ r.point = cmd[c].point /\ r.todo = cmd[c].todo \ {cmd[c].point}
    BY <1>0a, Returning
  <2>2. c \in secrets => disturbed # {}
    BY <1>0a, NoSecret
  <2>3. cmd[c].pc \notin TidyPcs
    BY <1>0a, PcsTidy
  <2>q. QED BY <1>0a, <2>1, <2>2, <2>3, Staying
<1>3. CASE StillMounted(c)
  <2>1. cmd[c].pc = "mounted?" /\ UNCHANGED <<contexts, dirs, stack, dead, orphans, secrets, disturbed>>
    BY <1>3 DEF StillMounted
  <2>2. CASE cmd' = [cmd EXCEPT ![c].pc = "fuser"] /\ overlapped \subseteq overlapped'
    BY <2>1, <2>2, MovesOn, NoSecret, PcsKnown, PcsTidy
  <2>3. CASE Unmounted(c, FALSE) /\ UNCHANGED overlapped
    BY <1>0, <1>0a, <2>1, <2>3, PcsKnown
  <2>q. QED BY <1>3, <2>2, <2>3 DEF StillMounted, Goto, Commits
<1>4. CASE Fusermount(c)
  <2>1. /\ cmd[c].pc = "fuser" /\ cmd[c].point \in Points
        /\ dead' \subseteq dead /\ UNCHANGED <<contexts, dirs, orphans, secrets, disturbed, overlapped>>
    BY <1>0, <1>4, PcsKnown DEF Fusermount, TakeOff
  <2>2. CASE Unmounted(c, FALSE) /\ UNCHANGED <<stack, dead>>
    BY <1>0a, <2>1, <2>2
  <2>3. CASE /\ stack[cmd[c].point] > 0 /\ stack' = [stack EXCEPT ![cmd[c].point] = @ - 1]
             /\ cmd' = [cmd EXCEPT ![c].pc = "rmdir"]
    <3>1. /\ \A d \in Commands \ {c} : cmd'[d] = cmd[d]
          /\ cmd'[c].pc = "rmdir" /\ cmd'[c].point = cmd[c].point /\ cmd'[c].todo = cmd[c].todo
      BY <1>0, <2>3 DEF Cmds
    <3>2. "rmdir" \in TidyPcs
      BY PcsTidy
    <3>3. \A p \in Points \ {cmd[c].point} : stack'[p] = stack[p]
      BY <1>0, <2>3
    <3>4. c \in secrets => disturbed # {}
      BY <2>1, NoSecret
    <3>5. ASSUME NEW p \in Points, p \notin overlapped', p \notin disturbed', p = cmd[c].point, Managed(p)
          PROVE  p \in dirs'
      BY <2>1, <2>3, <3>5 DEF LInv, Tidy
    <3>q. QED BY <2>1, <3>1, <3>2, <3>3, <3>4, <3>5 DEF Carries
  <2>q. QED BY <1>4, <2>2, <2>3 DEF Fusermount, TakeOff, Goto, AfterFailed
<1>5. CASE RemoveDir(c)
  <2>1. /\ cmd[c].pc = "rmdir" /\ UNCHANGED <<stack, dead, orphans, overlapped, contexts, disturbed, secrets>>
        /\ RemoveManaged(cmd[c].point) /\ \E ok \in BOOLEAN : Unmounted(c, ok)
    BY <1>5 DEF RemoveDir
  <2>2. cmd[c].point \in Points /\ (stack[cmd[c].point] = 0 \/ cmd[c].point \in overlapped)
    BY <1>0, <2>1, PcsKnown DEF IInv, Alone
  <2>3. PICK r \in Cmds : /\ cmd' = [cmd EXCEPT ![c] = r] /\ r.pc \in {"next", "told"}
                          /\ r.point = cmd[c].point /\ r.todo = cmd[c].todo \ {cmd[c].point}
    BY <2>1, <2>2, Returning
  <2>4. /\ \A d \in Commands \ {c} : cmd'[d] = cmd[d]
        /\ cmd'[c].pc # "list" /\ cmd'[c].point = cmd[c].point
        /\ cmd'[c].todo \subseteq cmd[c].todo
    BY <1>0, <2>3
  <2>5. c \in secrets => disturbed # {}
    BY <2>1, NoSecret
  <2>6. /\ \A q \in Points \ {cmd[c].point} : q \in dirs' <=> q \in dirs
        /\ Managed(cmd[c].point) /\ stack[cmd[c].point] = 0 => cmd[c].point \notin dirs'
    BY <2>1, <2>2, RemovesDir
  <2>7. ASSUME NEW p \in Points, p \notin overlapped', p = cmd[c].point, Managed(p)
        PROVE  ~(stack'[p] > 0) /\ p \notin dirs'
    <3>1. stack[p] = 0
      BY <2>1, <2>2, <2>7
    <3>2. p \notin dirs'
      BY <2>6, <2>7, <3>1, Zenon
    <3>3. stack'[p] = 0
      BY <2>1, <3>1
    <3>q. QED BY <3>2, <3>3
  <2>q. QED BY <2>1, <2>4, <2>5, <2>6, <2>7 DEF Carries
<1>6. CASE Return(c) \/ Kill(c)
  <2>1. /\ cmd' = [cmd EXCEPT ![c] = Idle] /\ UNCHANGED <<contexts, dirs, stack, dead, secrets, overlapped>>
        /\ orphans' = orphans \/ orphans' = [orphans EXCEPT ![cmd[c].point] = @ + 1]
        /\ \/ cmd[c].pc = "told" /\ disturbed' = disturbed
           \/ disturbed' = disturbed \cup {cmd[c].point}
    BY <1>6 DEF Return, Kill
  <2>2. Idle \in Cmds /\ Idle.pc = "idle" /\ Idle.todo = {} /\ Idle.point = <<>> /\ <<>> \notin Points
    BY IdleTyped DEF Idle, Command, Points
  <2>3. c \in secrets => disturbed' # {}
    BY <2>1, NoSecret
  <2>4. cmd[c].pc \in TidyPcs => cmd[c].point \in disturbed'
    BY <2>1, PcsTidy
  <2>5. \A p \in Points : orphans'[p] > 0 => orphans[p] > 0 \/ p = cmd[c].point
    BY <2>1 DEF IInv, Types
  <2>q. QED BY <2>1, <2>2, <2>3, <2>4, <2>5, Staying
<1>q. QED BY <1>1, <1>2, <1>3, <1>4, <1>5, <1>6

\* What happens to the mounts and to the configuration without a command
\* carries it over too: where something happened is no longer undisturbed.
LEMMA OutsideCarries ==
    ASSUME IInv, LInv,
           \/ \E p \in Points : Drops(p) \/ Dies(p) \/ LateMount(p)
           \/ \E n \in Names : Configure(n)
           \/ UNCHANGED vars
    PROVE  LInv'
<1> USE DEF diskVars, pastVars
<1>1. ASSUME NEW p \in Points, Drops(p) \/ Dies(p) PROVE LInv'
  <2>1. /\ \/ stack[p] > 0 /\ stack' = [stack EXCEPT ![p] = @ - 1]
           \/ stack' = stack
        /\ disturbed' = disturbed \cup {p} /\ dead' \subseteq dead \cup {p}
        /\ UNCHANGED <<contexts, dirs, orphans, secrets, cmd, overlapped>>
    BY <1>1 DEF Drops, Dies, TakeOff
  <2>2. /\ \A q \in Points \ {p} : stack'[q] = stack[q]
        /\ \A q \in Points : stack'[q] > 0 => stack[q] > 0
    BY <2>1 DEF IInv, Types
  <2>3. Tidy'
    <3> SUFFICES ASSUME NEW q \in Points, q \notin overlapped', q \notin disturbed', Managed(q)
                 PROVE  /\ stack'[q] > 0 => q \in dirs'
                        /\ q \in dirs' /\ stack'[q] = 0 =>
                              \E c \in Commands : cmd'[c].point = q /\ cmd'[c].pc \in TidyPcs
      BY DEF Tidy, Managed, TidyPcs
    <3>1. /\ stack[q] > 0 => q \in dirs
          /\ q \in dirs /\ stack[q] = 0 =>
                \E c \in Commands : cmd[c].point = q /\ cmd[c].pc \in TidyPcs
      BY <2>1 DEF LInv, Tidy
    <3>q. QED BY <2>1, <2>2, <3>1
  <2>4. Faithful'
    <3> SUFFICES ASSUME NEW n \in Names, <<n, "context">> \notin disturbed'
                 PROVE  /\ \A q \in Points : q[1] = n /\ (stack'[q] > 0 \/ orphans'[q] > 0) => q = MountPoint(n)
                        /\ \A c \in Commands :
                              /\ cmd[c].point \in Points /\ cmd[c].point[1] = n
                                    => cmd[c].point = MountPoint(n)
                              /\ \A q \in cmd[c].todo : q[1] = n => q = MountPoint(n)
      BY <2>1 DEF Faithful, MountPoint
    <3>q. QED BY <2>1, <2>2 DEF LInv, Faithful
  <2>5. Secret' /\ Fresh' /\ dead' \subseteq disturbed'
    BY <2>1 DEF LInv, Secret, Fresh
  <2>q. QED BY <2>3, <2>4, <2>5 DEF LInv
<1>2. ASSUME NEW m \in Names, Configure(m) PROVE LInv'
  <2>1. /\ contexts' = (contexts \ {m}) \cup ({m} \ contexts)
        /\ disturbed' = disturbed \cup {<<m, "context">>}
        /\ UNCHANGED <<dirs, stack, dead, orphans, secrets, cmd, overlapped>>
    BY <1>2 DEF Configure
  <2>2. Tidy'
    BY <2>1 DEF LInv, Tidy
  <2>3. Faithful'
    <3> SUFFICES ASSUME NEW n \in Names, <<n, "context">> \notin disturbed'
                 PROVE  /\ \A q \in Points : q[1] = n /\ (stack[q] > 0 \/ orphans[q] > 0) => q = MountPoint(n)'
                        /\ \A c \in Commands :
                              /\ cmd[c].point \in Points /\ cmd[c].point[1] = n
                                    => cmd[c].point = MountPoint(n)'
                              /\ \A q \in cmd[c].todo : q[1] = n => q = MountPoint(n)'
      BY <2>1 DEF Faithful
    <3>1. n # m
      BY <2>1
    <3>2. MountPoint(n)' = MountPoint(n)
      BY <2>1, <3>1 DEF MountPoint
    <3>q. QED BY <2>1, <3>2 DEF LInv, Faithful
  <2>4. Secret' /\ Fresh' /\ dead' \subseteq disturbed'
    BY <2>1 DEF LInv, Secret, Fresh
  <2>q. QED BY <2>2, <2>3, <2>4 DEF LInv
<1>3. CASE UNCHANGED vars
  BY <1>3 DEF vars, LInv, Tidy, Faithful, Secret, Fresh, MountPoint
<1>4. ASSUME NEW p \in Points, LateMount(p) PROVE LInv'
  <2>1. /\ orphans[p] > 0 /\ orphans' = [orphans EXCEPT ![p] = @ - 1]
        /\ stack' = stack \/ stack' = [stack EXCEPT ![p] = @ + 1]
        /\ disturbed' = disturbed \cup {p} /\ overlapped \subseteq overlapped'
        /\ UNCHANGED <<contexts, dirs, dead, secrets, cmd>>
    BY <1>4 DEF LateMount
  <2>2. /\ \A q \in Points \ {p} : stack'[q] = stack[q]
        /\ \A q \in Points : stack'[q] > 0 \/ orphans'[q] > 0 => stack[q] > 0 \/ orphans[q] > 0
    BY <2>1 DEF IInv, Types
  <2>3. Tidy'
    <3> SUFFICES ASSUME NEW q \in Points, q \notin overlapped', q \notin disturbed', Managed(q)
                 PROVE  /\ stack'[q] > 0 => q \in dirs'
                        /\ q \in dirs' /\ stack'[q] = 0 =>
                              \E c \in Commands : cmd'[c].point = q /\ cmd'[c].pc \in TidyPcs
      BY DEF Tidy, Managed, TidyPcs
    <3>1. /\ stack[q] > 0 => q \in dirs
          /\ q \in dirs /\ stack[q] = 0 =>
                \E c \in Commands : cmd[c].point = q /\ cmd[c].pc \in TidyPcs
      BY <2>1 DEF LInv, Tidy
    <3>q. QED BY <2>1, <2>2, <3>1
  <2>4. Faithful'
    <3> SUFFICES ASSUME NEW n \in Names, <<n, "context">> \notin disturbed'
                 PROVE  /\ \A q \in Points : q[1] = n /\ (stack'[q] > 0 \/ orphans'[q] > 0) => q = MountPoint(n)
                        /\ \A c \in Commands :
                              /\ cmd[c].point \in Points /\ cmd[c].point[1] = n
                                    => cmd[c].point = MountPoint(n)
                              /\ \A q \in cmd[c].todo : q[1] = n => q = MountPoint(n)
      BY <2>1 DEF Faithful, MountPoint
    <3>q. QED BY <2>1, <2>2 DEF LInv, Faithful
  <2>5. Secret' /\ Fresh' /\ dead' \subseteq disturbed'
    BY <2>1 DEF LInv, Secret, Fresh
  <2>q. QED BY <2>3, <2>4, <2>5 DEF LInv
<1>q. QED BY <1>1, <1>2, <1>3, <1>4

\* At first there is nothing to leave behind.
LEMMA InitLInv == Init => LInv
<1> SUFFICES ASSUME Init PROVE LInv
  OBVIOUS
<1>1. /\ Idle.pc = "idle" /\ Idle.todo = {} /\ Idle.point = <<>> /\ <<>> \notin Points
  BY DEF Idle, Command, Points
<1>2. Tidy
  BY DEF Init, Tidy, Managed, Points
<1>3. Faithful
  BY <1>1 DEF Init, Faithful
<1>4. Secret /\ Fresh /\ dead \subseteq disturbed
  BY <1>1 DEF Init, Secret, Fresh
<1>q. QED BY <1>2, <1>3, <1>4 DEF LInv

\* Both strengthenings together hold throughout.
THEOREM Leavings == Spec => [](IInv /\ LInv)
<1>1. Init => IInv /\ LInv
  BY InitIInv, InitLInv
<1>2. IInv /\ LInv /\ [Next]_vars => (IInv /\ LInv)'
  <2> SUFFICES ASSUME IInv, LInv, [Next]_vars PROVE IInv' /\ LInv'
    OBVIOUS
  <2>1. IInv'
    BY MountStep, UnmountStep, OutsideStep DEF Next, Step
  <2>2. ASSUME NEW c \in Commands, Step(c) PROVE LInv'
    BY <2>2, MountCarries, UnmountCarries, CarriedOver DEF Step
  <2>q. QED BY <2>1, <2>2, OutsideCarries DEF Next
<1>q. QED BY <1>1, <1>2, PTL DEF Spec

\* Theorem: where nothing was disturbed, commands that have come to an end
\* leave under ~/.mounted a directory only with a mount in it, no password in
\* /tmp, and no mount that Mounts would not list.
THEOREM LeftTidy == Spec => []NothingLeftBehind
<1>1. IInv /\ LInv => NothingLeftBehind
  <2> SUFFICES ASSUME IInv, LInv, \A c \in Commands : At(c, "idle") \/ At(c, "told")
               PROVE  /\ \A p \in Points \ (overlapped \cup disturbed) :
                            /\ Managed(p) => (p \in dirs <=> IsMounted(p))
                            /\ IsMounted(p) => p \in Listed \/ <<p[1], "context">> \in disturbed
                      /\ \A c \in secrets : disturbed # {}
    BY DEF NothingLeftBehind
  <2>1. \A c \in Commands : cmd[c].pc \notin TidyPcs /\ cmd[c].pc # "tool"
    BY PcsTidy DEF At
  <2>2. ASSUME NEW p \in Points, p \notin overlapped, p \notin disturbed, Managed(p)
        PROVE  p \in dirs <=> IsMounted(p)
    <3>0. IsMounted(p) <=> stack[p] > 0
      BY <2>2 DEF LInv, IsMounted
    <3>1. stack[p] \in Nat
      BY DEF IInv, Types
    <3>2. stack[p] > 0 => p \in dirs
      BY <2>2 DEF LInv, Tidy
    <3>3. ~(p \in dirs /\ stack[p] = 0)
      BY <2>1, <2>2 DEF LInv, Tidy
    <3>q. QED BY <3>0, <3>1, <3>2, <3>3
  <2>3. ASSUME NEW p \in Points, p \notin overlapped, p \notin disturbed, IsMounted(p),
               <<p[1], "context">> \notin disturbed
        PROVE  p \in Listed
    <3>1. CASE Managed(p)
      BY <2>2, <2>3, <3>1 DEF Listed, ListMounted
    <3>2. CASE ~Managed(p)
      <4>1. p[1] \in Names /\ p = MountPoint(p[1])
        BY <2>3 DEF LInv, Faithful, Points, IsMounted
      <4>2. p[1] \in contexts
        BY <3>2, <4>1 DEF MountPoint, Managed
      <4>3. <<p[1], "default">> \in Points /\ <<p[1], "default">> # MountPoint(p[1])
        BY <4>1, <4>2 DEF MountPoint, Points
      <4>4. ~(stack[<<p[1], "default">>] > 0)
        BY <2>3, <4>1, <4>3 DEF LInv, Faithful
      <4>q. QED BY <2>3, <3>2, <4>2, <4>4 DEF Listed, ListMounted, IsMounted
    <3>q. QED BY <3>1, <3>2
  <2>4. \A c \in secrets : disturbed # {}
    BY <2>1 DEF LInv, Secret
  <2>q. QED BY <2>2, <2>3, <2>4
<1>q. QED BY <1>1, Leavings, PTL

-----------------------------------------------------------------------------
(* What the commands tell.                                                 *)

Told(c) ==
    /\ Tells(c, "mounted") => stack'[Point(c)] > 0 \/ Point(c) \in overlapped \cup disturbed
    /\ Tells(c, "unmounted") => stack'[Point(c)] = 0 \/ Point(c) \in overlapped
    /\ \A p \in Points : Passes(c, p) =>
          p \in cmd'[c].failed \/ ~IsMounted(p) \/ p \in overlapped

\* A command that goes on, or that ends with something else to tell, and that
\* passes none of its mount points, has nothing to prove.
LEMMA SaysNothing ==
    ASSUME IInv, NEW c \in Commands, NEW to \in Pcs, NEW say \in Tales,
           \/ cmd' = [cmd EXCEPT ![c].pc = to] /\ to # "told"
           \/ cmd' = [cmd EXCEPT ![c].pc = to, ![c].how = say] /\ say \notin {"mounted", "unmounted"}
    PROVE  Told(c)
<1>1. cmd \in [Commands -> Cmds]
  BY DEF IInv, Types
<1>2. /\ cmd'[c].todo = cmd[c].todo
      /\ cmd'[c].pc # "told" \/ cmd'[c].how \notin {"mounted", "unmounted"}
  BY <1>1 DEF Cmds
<1>q. QED BY <1>2 DEF Told, Tells, Passes

\* Unmount, alone or for UnmountAll, fails for what it leaves mounted.
LEMMA TellsUnmounted ==
    ASSUME IInv, NEW c \in Commands, NEW ok \in BOOLEAN, Unmounted(c, ok),
           cmd[c].pc # "idle", UNCHANGED stack,
           ok => stack[cmd[c].point] = 0 \/ cmd[c].point \in overlapped
    PROVE  Told(c)
<1>1. cmd \in [Commands -> Cmds]
  BY DEF IInv, Types
<1>2. /\ cmd'[c].pc = IF cmd[c].kind = "all" THEN "next" ELSE "told"
      /\ cmd'[c].how = IF cmd[c].kind = "all" THEN cmd[c].how
                       ELSE IF ok THEN "unmounted" ELSE "still mounted"
      /\ cmd'[c].todo = cmd[c].todo \ {cmd[c].point}
      /\ cmd'[c].failed = IF ok THEN cmd[c].failed ELSE cmd[c].failed \cup {cmd[c].point}
  BY <1>1 DEF Unmounted, Point, Cmds
<1>3. ~Tells(c, "mounted")
  BY <1>2 DEF Tells
<1>4. Tells(c, "unmounted") => ok
  BY <1>2 DEF Tells
<1>5. ASSUME NEW p \in Points, Passes(c, p)
      PROVE  p \in cmd'[c].failed \/ ~IsMounted(p) \/ p \in overlapped
  <2>1. p = cmd[c].point
    BY <1>2, <1>5 DEF Passes
  <2>2. CASE ok
    BY <2>1, <2>2 DEF IsMounted
  <2>3. CASE ~ok
    BY <1>2, <2>1, <2>3
  <2>q. QED BY <2>2, <2>3
<1>q. QED BY <1>3, <1>4, <1>5 DEF Told, Point

\* Every step of a mount command tells the truth.
LEMMA MountTells ==
    ASSUME IInv, NEW c \in Commands,
           \/ Begin(c) \/ IsFree(c) \/ Reach(c) \/ MakeDir(c) \/ WriteConfig(c) \/ MountTool(c)
           \/ Verify(c) \/ CleanUp(c) \/ CloseYazi(c)
    PROVE  Told(c)
<1> USE PcsKnown
<1>0. cmd \in [Commands -> Cmds]
  BY DEF IInv, Types
<1>1. CASE Begin(c)
  <2>1. cmd[c].pc = "idle" /\
        \E pc, kind, p : cmd' = [cmd EXCEPT ![c] = Command(pc, kind, p)]
    BY <1>1, Zenon DEF Begin, At
  <2>2. cmd'[c].how = "running"
    <3>1. PICK pc, kind, p : cmd' = [cmd EXCEPT ![c] = Command(pc, kind, p)]
      BY <2>1
    <3>2. cmd'[c] = Command(pc, kind, p)
      BY <1>0, <3>1
    <3>3. Command(pc, kind, p).how = "running"
      BY DEF Command
    <3>q. QED BY <3>2, <3>3
  <2>q. QED BY <2>1, <2>2 DEF Told, Tells, Passes
<1>2. CASE IsFree(c)
  <2>1. \/ cmd' = [cmd EXCEPT ![c].pc = "told", ![c].how = "already mounted"]
        \/ cmd' = [cmd EXCEPT ![c].pc = "reach"]
    BY <1>2 DEF IsFree, Tell, Goto
  <2>q. QED BY <2>1, SaysNothing
<1>3. CASE Reach(c)
  <2>1. \/ cmd' = [cmd EXCEPT ![c].pc = "told", ![c].how = "unreachable"]
        \/ cmd' = [cmd EXCEPT ![c].pc = "mkdir"]
    BY <1>3 DEF Reach, Tell, Goto
  <2>q. QED BY <2>1, SaysNothing
<1>4. CASE MakeDir(c)
  <2>1. \/ cmd' = [cmd EXCEPT ![c].pc = "told", ![c].how = "no mount point"]
        \/ cmd' = [cmd EXCEPT ![c].pc = "write"]
        \/ cmd' = [cmd EXCEPT ![c].pc = "tool"]
    BY <1>4 DEF MakeDir, Tell, Goto
  <2>q. QED BY <2>1, SaysNothing
<1>5. CASE WriteConfig(c)
  <2>1. \/ cmd' = [cmd EXCEPT ![c].pc = "tool"]
        \/ cmd' = [cmd EXCEPT ![c].pc = "cleanup"]
    BY <1>5 DEF WriteConfig, Goto
  <2>q. QED BY <2>1, SaysNothing
<1>6. CASE MountTool(c)
  <2>1. \/ cmd' = [cmd EXCEPT ![c].pc = "verify"]
        \/ cmd' = [cmd EXCEPT ![c].pc = "cleanup"]
    BY <1>6 DEF MountTool, Goto
  <2>q. QED BY <2>1, SaysNothing
<1>7. CASE Verify(c)
  <2>1. CASE ~IsMounted(Point(c)) \/ cmd[c].kind # "mount"
    <3>1. \/ cmd' = [cmd EXCEPT ![c].pc = "yazi"]
          \/ cmd' = [cmd EXCEPT ![c].pc = "cleanup"]
      BY <1>7, <2>1 DEF Verify, Goto, MountedAsSeenBy
    <3>2. "yazi" \in Pcs /\ "cleanup" \in Pcs /\ "running" \in Tales
      OBVIOUS
    <3>3. CASE cmd' = [cmd EXCEPT ![c].pc = "yazi"]
      BY <3>2, <3>3, SaysNothing
    <3>4. CASE cmd' = [cmd EXCEPT ![c].pc = "cleanup"]
      BY <3>2, <3>4, SaysNothing
    <3>q. QED BY <3>1, <3>3, <3>4
  <2>2. CASE IsMounted(Point(c)) /\ cmd[c].kind = "mount"
    <3>1. cmd' = [cmd EXCEPT ![c].pc = "told", ![c].how = "mounted"] /\ UNCHANGED stack
      BY <1>7, <2>2 DEF Verify, Tell, MountedAsSeenBy, diskVars
    <3>2. cmd'[c].todo = cmd[c].todo /\ cmd'[c].how = "mounted"
      BY <1>0, <3>1 DEF Cmds
    <3>q. QED BY <2>2, <3>1, <3>2 DEF Told, Tells, Passes, IsMounted
  <2>q. QED BY <2>1, <2>2
<1>8. CASE CleanUp(c)
  <2>1. cmd' = [cmd EXCEPT ![c].pc = "told", ![c].how = "not mounted"]
    BY <1>8 DEF CleanUp, Tell
  <2>q. QED BY <2>1, SaysNothing
<1>9. CASE CloseYazi(c)
  <2>1. \/ cmd' = [cmd EXCEPT ![c].pc = "mounted?"]
        \/ cmd' = [cmd EXCEPT ![c].pc = "told", ![c].how = "no terminal"]
    BY <1>9 DEF CloseYazi, Goto, Tell
  <2>q. QED BY <2>1, SaysNothing
<1>q. QED BY <1>1, <1>2, <1>3, <1>4, <1>5, <1>6, <1>7, <1>8, <1>9

\* So does every step of an unmount command.
LEMMA UnmountTells ==
    ASSUME IInv, LInv, NEW c \in Commands,
           \/ List(c) \/ NextOfAll(c) \/ StillMounted(c) \/ Fusermount(c) \/ RemoveDir(c)
           \/ Return(c) \/ Kill(c)
    PROVE  Told(c)
<1> USE PcsKnown DEF diskVars, At
<1>0. cmd \in [Commands -> Cmds]
  BY DEF IInv, Types
<1>1. CASE List(c)
  <2>1. cmd[c].todo = {} /\ cmd'[c].pc = "next"
    BY <1>0, <1>1 DEF List, LInv, Fresh, Cmds
  <2>q. QED BY <2>1 DEF Told, Tells, Passes
<1>2. CASE NextOfAll(c)
  <2>1. CASE cmd' = [cmd EXCEPT ![c].pc = "told", ![c].how = "all unmounted"]
    BY <2>1, SaysNothing
  <2>2. ASSUME NEW p \in cmd[c].todo, cmd' = [cmd EXCEPT ![c].pc = "mounted?", ![c].point = p]
        PROVE  Told(c)
    <3>1. cmd'[c].todo = cmd[c].todo /\ cmd'[c].pc = "mounted?"
      BY <1>0, <2>2 DEF Cmds
    <3>q. QED BY <3>1 DEF Told, Tells, Passes
  <2>q. QED BY <1>2, <2>1, <2>2 DEF NextOfAll, Tell
<1>3. CASE StillMounted(c)
  <2>1. CASE cmd' = [cmd EXCEPT ![c].pc = "fuser"]
    BY <2>1, SaysNothing
  <2>2. CASE Unmounted(c, FALSE)
    BY <1>3, <2>2, TellsUnmounted DEF StillMounted
  <2>q. QED BY <1>3, <2>1, <2>2 DEF StillMounted, Goto
<1>4. CASE Fusermount(c)
  <2>1. CASE cmd' = [cmd EXCEPT ![c].pc = "rmdir"]
    BY <2>1, SaysNothing
  <2>2. CASE Unmounted(c, FALSE) /\ UNCHANGED <<stack, dead>>
    BY <1>4, <2>2, TellsUnmounted DEF Fusermount
  <2>q. QED BY <1>4, <2>1, <2>2 DEF Fusermount, Goto, AfterFailed
<1>5. CASE RemoveDir(c)
  <2>1. cmd[c].pc = "rmdir" /\ UNCHANGED stack /\ \E ok \in BOOLEAN : Unmounted(c, ok)
    BY <1>5 DEF RemoveDir
  <2>2. stack[cmd[c].point] = 0 \/ cmd[c].point \in overlapped
    BY <2>1 DEF IInv, Placed, Alone
  <2>q. QED BY <2>1, <2>2, TellsUnmounted
<1>6. CASE Return(c) \/ Kill(c)
  <2>1. cmd'[c].pc = "idle"
    BY <1>0, <1>6, IdleTyped DEF Return, Kill
  <2>q. QED BY <2>1 DEF Told, Tells, Passes
<1>q. QED BY <1>1, <1>2, <1>3, <1>4, <1>5, <1>6

\* Theorem: what a command tells of a mount point is so when it tells it, but
\* where others came between, however many there are.
THEOREM TellsTheTruth == Spec => ToldTrue
<1>1. IInv /\ LInv /\ [Next]_vars =>
        [\A c \in Commands :
            /\ Tells(c, "mounted") => stack'[Point(c)] > 0 \/ Point(c) \in overlapped \cup disturbed
            /\ Tells(c, "unmounted") => stack'[Point(c)] = 0 \/ Point(c) \in overlapped
            /\ \A p \in Points : Passes(c, p) =>
                  p \in cmd'[c].failed \/ ~IsMounted(p) \/ p \in overlapped]_vars
  <2> SUFFICES ASSUME IInv, LInv, Next, NEW c \in Commands PROVE Told(c)
    BY DEF Told
  <2>1. CASE cmd'[c] = cmd[c]
    BY <2>1 DEF Told, Tells, Passes, At
  <2>2. ASSUME NEW d \in Commands, Step(d) PROVE Told(c)
    <3>1. CASE d = c
      BY <2>2, <3>1, MountTells, UnmountTells DEF Step
    <3>2. CASE d # c
      <4>1. cmd'[c] = cmd[c]
        BY <2>2, <3>2, MountCarries, UnmountCarries DEF Step, Carries
      <4>q. QED BY <2>1, <4>1
    <3>q. QED BY <3>1, <3>2
  <2>3. CASE \/ \E p \in Points : Drops(p) \/ Dies(p) \/ LateMount(p)
             \/ \E n \in Names : Configure(n)
    BY <2>1, <2>3 DEF Drops, Dies, LateMount, Configure
  <2>q. QED BY <2>2, <2>3 DEF Next
<1>q. QED BY <1>1, Leavings, PTL DEF Spec, ToldTrue
=============================================================================

---------------------------- MODULE MirrorProofs ----------------------------
(***************************************************************************)
(* Proofs about mirrors: what one does to the trees, for trees of any size *)
(* and depth, and the parallel transfers that its jobs are, for any number *)
(* of workers and jobs, any kind of client and any number of deaths and    *)
(* refusals.                                                               *)
(*                                                                         *)
(* The mirror.  What is out of the plan and went well is done, and stays   *)
(* so (Progress); in between each path is as the phases expect it          *)
(* (Orderly), as directories come before what is in them and go after it,  *)
(* which the depths see to.                                                *)
(*                                                                         *)
(* The transfers.  The lock: who waits for it or holds it for writing is   *)
(* the writer, who has a request in flight is a reader, and a reconnection *)
(* has no readers beside it (LockOK).  The generations: none observed is   *)
(* newer than rc.gen, and a worker on its way to reconnect that still      *)
(* holds the newest saw that connection fail (Justified).  The results:    *)
(* what the server answered is done, and only a failed job gets as far as  *)
(* the lock (Honest).  The first death: what the connection, the           *)
(* generation and the workers on their way to the lock agree on until a    *)
(* second one, or until a reconnection is refused (Recovering).            *)
(***************************************************************************)
EXTENDS Mirror, Transfers, FiniteSetTheorems, WellFoundedInduction, TLAPS

-----------------------------------------------------------------------------
(* The mirror: the inductive invariant.                                    *)

\* What a path can be once the mirror has been at it.
AnyFile == [type : {"file"}, size : Nat, time : Nat]
AnyNode == {None, Dir} \cup AnyFile

\* In a tree what there is lies in directories.
Planted(tree) == \A p \in Paths : tree[p] # None => Holds(tree, Parent(p))

TreesIn ==
    /\ direction \in {"up", "down"} /\ stage \in {"scan", "execute", "done"}
    /\ src \in [Paths -> Nodes] /\ Planted(src)
    /\ dst \in [Paths -> AnyNode] /\ Planted(dst)
    /\ seenSrc \in [Paths -> AnyNode] /\ Planted(seenSrc)
    /\ seenDst \in [Paths -> AnyNode]
    /\ unseen \in [src : Blindness, dst : Blindness] /\ keepsTimes \in BOOLEAN
    /\ todo \subseteq Paths /\ errors \subseteq Paths /\ warnings \subseteq Paths
    /\ faults \in 0..MaxFaults /\ edits \in 0..MaxEdits

\* The scans know nothing of what is covered.  What the source was not seen to
\* have it does not have, but for what is covered or could not be listed.
Scanned ==
    /\ \A p \in Paths : Covered(p) => seenSrc[p] = None /\ seenDst[p] = None
    /\ stage # "scan" => \A p \in Paths :
           seenSrc[p] = None => \/ src[p] = None \/ Covered(p)
                                \/ Above[p] \cap unseen.src # {}
    /\ stage = "scan" => errors = {} /\ warnings = {} /\ edits = 0 /\ faults = 0
    /\ stage = "done" => todo = {}

\* Nobody edits and all is seen: the plan is that of the trees as they are.
Still == stage # "scan" /\ Sighted /\ edits = 0
AsSeen ==
    Still => \A p \in Paths : ~Covered(p) =>
                 seenSrc[p] = (IF direction = "down" THEN Listed(src) ELSE src)[p]

\* What is not to be done any more, and went well, is done.
Done(p) == p \in todo \/ Covered(p) \/ Agree(p)
Progress == Still /\ keepsTimes /\ errors = {} /\ warnings = {} => \A p \in Paths : Done(p)

\* Something covered is left under p.
Remains(p) == \E q \in Paths : p \in Above[q] /\ Covered(q) /\ dst[q] # None

\* Without faults and conflicts every path is as the phases expect it.
Smooth == Still /\ faults = 0 /\ Conflicts = {}
Expected(p) ==
    /\ seenSrc[p] = Dir => /\ ~IsFile(dst[p])
                           /\ p \notin todo => dst[p] = Dir
    /\ IsFile(seenSrc[p]) => dst[p] # Dir
    /\ seenSrc[p] = None /\ IsFile(seenDst[p]) /\ p \in todo => IsFile(dst[p])
    /\ seenSrc[p] = None /\ dst[p] # None => p \in todo \/ p \in warnings
Orderly ==
    Smooth => /\ todo \subseteq Planned /\ errors = {}
              /\ \A p \in Paths : ~Covered(p) => Expected(p)
              /\ \A p \in warnings : Remains(p)

MirrorInv == TreesIn /\ Scanned /\ AsSeen /\ Progress /\ Orderly

-----------------------------------------------------------------------------
(* Paths.                                                                  *)

\* The directory that a path is in has all the others above it above itself.
LEMMA ParentOf ==
    ASSUME NEW p \in Paths
    PROVE  Parent(p) \in Above[p] /\ Above[p] = Chain(Parent(p))
<1>1. \E d \in Above[p] : Above[p] = Chain(d)
  BY PathsAssumption
<1>q. QED BY <1>1, SMT DEF Parent

\* Depths are naturals, and there are as many as paths.
LEMMA DepthType ==
    ASSUME NEW p \in Paths
    PROVE  /\ Cardinality(Paths) \in Nat /\ IsFiniteSet(Above[p])
           /\ Depth(p) \in Nat /\ Depth(p) <= Cardinality(Paths)
<1>1. IsFiniteSet(Paths) /\ Cardinality(Paths) \in Nat
  BY PathsAssumption, FS_CardinalityType
<1>2. /\ IsFiniteSet(Paths \ {p})
      /\ Cardinality(Paths \ {p}) = Cardinality(Paths) - 1
  BY <1>1, FS_RemoveElement
<1> DEFINE B == (Paths \ {p}) \cup {Root}
<1>3. IsFiniteSet(B) /\ Cardinality(B) = Cardinality(Paths)
  <2>1. Root \notin Paths \ {p}
    BY PathsAssumption
  <2>2. /\ IsFiniteSet((Paths \ {p}) \cup {Root})
        /\ Cardinality((Paths \ {p}) \cup {Root}) = Cardinality(Paths \ {p}) + 1
    BY <1>2, <2>1, FS_AddElement
  <2>q. QED BY <1>1, <1>2, <2>2
<1>4. Above[p] \in SUBSET B
  BY PathsAssumption
<1> HIDE DEF B
<1>5. IsFiniteSet(Above[p]) /\ Cardinality(Above[p]) <= Cardinality(B)
  BY <1>3, <1>4, FS_Subset
<1>6. Cardinality(Above[p]) \in Nat
  BY <1>5, FS_CardinalityType
<1>q. QED BY <1>1, <1>3, <1>5, <1>6 DEF Depth

\* A path is one deeper than the directory it is in.
LEMMA DeeperByOne ==
    ASSUME NEW p \in Paths, Parent(p) # Root
    PROVE  Parent(p) \in Paths /\ Depth(p) = Depth(Parent(p)) + 1
<1>1. Parent(p) \in Paths
  BY ParentOf, PathsAssumption
<1>2. Above[p] = Above[Parent(p)] \cup {Parent(p)} /\ Parent(p) \notin Above[Parent(p)]
  BY <1>1, ParentOf, PathsAssumption DEF Chain
<1>3. IsFiniteSet(Above[Parent(p)])
  BY <1>1, DepthType
<1>q. QED BY <1>1, <1>2, <1>3, FS_AddElement DEF Depth

\* What passes from each directory to what is in it holds of all paths.
LEMMA PathInduction ==
    ASSUME NEW S \in SUBSET Paths,
           \A p \in Paths : Parent(p) = Root \/ Parent(p) \in S => p \in S
    PROVE  S = Paths
<1> SUFFICES ASSUME Paths \ S # {} PROVE FALSE
  OBVIOUS
<1> DEFINE T == {n \in Nat : \E p \in Paths \ S : n = Depth(p)}
<1>1. T \subseteq Nat /\ T # {}
  <2>1. PICK p : p \in Paths \ S
    OBVIOUS
  <2>2. Depth(p) \in Nat
    BY <2>1, DepthType
  <2>q. QED BY <2>1, <2>2
<1>2. PICK m \in T : \A n \in T : <<n, m>> \notin OpToRel(<, Nat)
  <2> HIDE DEF T
  <2>q. QED BY <1>1, WFMin, NatLessThanWellFounded
<1>3. \A n \in T : ~(n < m)
  BY <1>1, <1>2, Zenon DEF OpToRel
<1>4. PICK p \in Paths \ S : m = Depth(p)
  OBVIOUS
<1>5. Parent(p) # Root /\ Parent(p) \notin S
  BY <1>4
<1>6. Parent(p) \in Paths \ S /\ m = Depth(Parent(p)) + 1
  BY <1>4, <1>5, DeeperByOne
<1>7. Depth(Parent(p)) \in Nat
  BY <1>6, DepthType
<1>q. QED BY <1>3, <1>6, <1>7

\* What is above a directory is above what is in it.
LEMMA AboveTransitive ==
    ASSUME NEW p \in Paths, NEW q \in Above[p], q # Root
    PROVE  q \in Paths /\ Above[q] \subseteq Above[p]
<1> DEFINE S == {r \in Paths : \A d \in Above[r] \ {Root} : Above[d] \subseteq Above[r]}
<1>1. ASSUME NEW r \in Paths, Parent(r) = Root \/ Parent(r) \in S
      PROVE  r \in S
  <2>1. CASE Parent(r) = Root
    BY <2>1, ParentOf DEF Chain
  <2>2. CASE Parent(r) # Root
    <3>1. \A d \in Above[Parent(r)] \ {Root} : Above[d] \subseteq Above[Parent(r)]
      BY <1>1, <2>2
    <3>2. Above[r] = Above[Parent(r)] \cup {Parent(r)}
      BY <2>2, ParentOf DEF Chain
    <3>3. ASSUME NEW d \in Above[r], d # Root PROVE Above[d] \subseteq Above[r]
      BY <3>1, <3>2, <3>3
    <3>q. QED BY <3>3
  <2>q. QED BY <2>1, <2>2
<1>2. S = Paths
  <2> HIDE DEF S
  <2>1. S \in SUBSET Paths
    BY DEF S
  <2>q. QED BY <1>1, <2>1, PathInduction
<1>q. QED BY <1>2, PathsAssumption

\* Directories are less deep than what is under them.
LEMMA AboveIsHigher ==
    ASSUME NEW p \in Paths, NEW q \in Above[p], q # Root
    PROVE  Depth(q) < Depth(p)
<1>1. q \in Paths /\ q \notin Above[q] /\ Above[q] \cup {q} \subseteq Above[p]
  BY AboveTransitive, PathsAssumption
<1>2. /\ IsFiniteSet(Above[q]) /\ IsFiniteSet(Above[p])
      /\ Depth(q) \in Nat /\ Depth(p) \in Nat
  BY <1>1, DepthType
<1>3. Cardinality(Above[q] \cup {q}) = Cardinality(Above[q]) + 1
  BY <1>1, <1>2, FS_AddElement
<1>4. Cardinality(Above[q] \cup {q}) <= Cardinality(Above[p])
  BY <1>1, <1>2, FS_Subset
<1>q. QED BY <1>2, <1>3, <1>4 DEF Depth

\* Patterns that cover a directory cover all that is under it.
LEMMA CoveredBelow ==
    ASSUME NEW p \in Paths, NEW q \in Above[p], q # Root, Covered(q)
    PROVE  Covered(p)
BY AboveTransitive DEF Covered

\* All that is above something in a tree is a directory.
LEMMA Rooted ==
    ASSUME NEW tree, Planted(tree), NEW p \in Paths, tree[p] # None,
           NEW q \in Above[p], q # Root
    PROVE  tree[q] = Dir
<1> DEFINE S == {r \in Paths : tree[r] # None => \A d \in Above[r] \ {Root} : tree[d] = Dir}
<1>1. ASSUME NEW r \in Paths, Parent(r) = Root \/ Parent(r) \in S
      PROVE  r \in S
  <2> SUFFICES ASSUME tree[r] # None, NEW d \in Above[r], d # Root PROVE tree[d] = Dir
    OBVIOUS
  <2>1. Parent(r) # Root /\ (d = Parent(r) \/ d \in Above[Parent(r)])
    BY ParentOf DEF Chain
  <2>2. tree[Parent(r)] = Dir
    BY <2>1 DEF Planted, Holds
  <2>3. Dir # None
    BY DEF Dir, None
  <2>q. QED BY <1>1, <2>1, <2>2, <2>3
<1>2. S = Paths
  <2> HIDE DEF S
  <2>1. S \in SUBSET Paths
    BY DEF S
  <2>q. QED BY <1>1, <2>1, PathInduction
<1>q. QED BY <1>2

-----------------------------------------------------------------------------
(* Trees.                                                                  *)

\* Something is absent, a directory or a file.
LEMMA KindsOfNode ==
    /\ None \in AnyNode /\ Dir \in AnyNode /\ None # Dir
    /\ ~IsFile(None) /\ ~IsFile(Dir) /\ Nodes \subseteq AnyNode
    /\ \A x \in AnyNode : x = None \/ x = Dir \/ IsFile(x)
    /\ \A x \in AnyNode : IsFile(x) => x \in AnyFile /\ x.size \in Nat /\ x.time \in Nat
<1>1. None # Dir /\ ~IsFile(None) /\ ~IsFile(Dir)
  BY DEF None, Dir, IsFile
<1>2. Nodes \subseteq AnyNode
  BY FilesAssumption DEF Nodes, AnyNode, AnyFile
<1>3. \A x \in AnyNode : IsFile(x) => x \in AnyFile
  BY <1>1 DEF AnyNode
<1>4. \A x \in AnyFile : IsFile(x) /\ x.size \in Nat /\ x.time \in Nat
  BY DEF AnyFile, IsFile
<1>q. QED BY <1>1, <1>2, <1>3, <1>4 DEF AnyNode

\* A server's listing shows what there is, with the times cut.
LEMMA ListedTree ==
    ASSUME NEW tree \in [Paths -> AnyNode], NEW p \in Paths
    PROVE  /\ Listed(tree)[p] \in AnyNode
           /\ ~IsFile(tree[p]) => Listed(tree)[p] = tree[p]
           /\ IsFile(tree[p]) => /\ IsFile(Listed(tree)[p])
                                 /\ Listed(tree)[p].size = tree[p].size
                                 /\ Listed(tree)[p].time <= tree[p].time
                                 /\ tree[p].time <= Listed(tree)[p].time + Precision
<1>1. CASE ~IsFile(tree[p])
  BY <1>1 DEF Listed
<1>2. CASE IsFile(tree[p])
  <2> DEFINE t == tree[p].time
             c == t - (t % Precision)
  <2>1. tree[p] \in AnyFile /\ t \in Nat
    BY <1>2, KindsOfNode
  <2>2. t % Precision \in Nat /\ t % Precision < Precision /\ t % Precision <= t
    BY <2>1, TimesAssumption
  <2>3. c \in Nat /\ c <= t /\ t <= c + Precision
    BY <2>1, <2>2, TimesAssumption
  <2>4. Listed(tree)[p] = [tree[p] EXCEPT !.time = c]
    BY <1>2 DEF Listed
  <2> HIDE DEF c, t
  <2>5. /\ Listed(tree)[p] \in AnyFile /\ Listed(tree)[p].time = c
        /\ Listed(tree)[p].size = tree[p].size
    BY <2>1, <2>3, <2>4 DEF AnyFile
  <2>6. IsFile(Listed(tree)[p]) /\ Listed(tree)[p] \in AnyNode
    BY <2>5 DEF AnyFile, AnyNode, IsFile
  <2>q. QED BY <1>2, <2>3, <2>5, <2>6 DEF t
<1>q. QED BY <1>1, <1>2

\* A tree stays one when something is put in a directory, or taken out, that
\* has nothing in it.
LEMMA PutPlanted ==
    ASSUME NEW tree, Planted(tree), NEW p \in Paths, NEW x,
           tree \in [Paths -> AnyNode],
           x # None => Holds(tree, Parent(p)),
           tree[p] # Dir \/ x = Dir \/ Children(tree, p) = {}
    PROVE  Planted([tree EXCEPT ![p] = x])
<1> DEFINE after == [tree EXCEPT ![p] = x]
<1> SUFFICES ASSUME NEW q \in Paths, after[q] # None PROVE Holds(after, Parent(q))
  BY DEF Planted
<1>1. Parent(q) # q /\ (Parent(q) = Root \/ Parent(q) \in Paths)
  BY ParentOf, PathsAssumption
<1>2. Parent(q) # p \/ x = Dir
  <2> SUFFICES ASSUME Parent(q) = p, x # Dir PROVE FALSE
    OBVIOUS
  <2>1. tree[q] # None /\ tree[p] = Dir
    BY <1>1, PathsAssumption DEF Planted, Holds
  <2>2. q \in Children(tree, p)
    BY <2>1 DEF Children
  <2>q. QED BY <2>1, <2>2
<1>3. Holds(tree, Parent(q))
  <2>1. CASE q = p
    BY <2>1
  <2>2. CASE q # p
    BY <2>2 DEF Planted
  <2>q. QED BY <2>1, <2>2
<1>q. QED BY <1>1, <1>2, <1>3 DEF Holds

\* MkdirAll leaves a tree behind.
LEMMA DirsPlanted ==
    ASSUME dst \in [Paths -> AnyNode], Planted(dst), NEW p \in Paths,
           NEW ds, ds = Above[p] \/ ds = Above[p] \cup {p}
    PROVE  /\ WithDirs(ds) \in [Paths -> AnyNode] /\ Planted(WithDirs(ds))
           /\ Holds(WithDirs(ds), Parent(p))
<1>1. WithDirs(ds) \in [Paths -> AnyNode]
  BY KindsOfNode DEF WithDirs
<1>2. ASSUME NEW q \in Paths PROVE WithDirs(ds)[q] = IF q \in ds THEN Dir ELSE dst[q]
  BY DEF WithDirs
<1>3. ASSUME NEW q \in Paths, WithDirs(ds)[q] # None PROVE Holds(WithDirs(ds), Parent(q))
  <2> SUFFICES ASSUME Parent(q) # Root PROVE WithDirs(ds)[Parent(q)] = Dir
    BY DEF Holds
  <2>1. Parent(q) \in Above[q] /\ Parent(q) \in Paths
    BY ParentOf, PathsAssumption
  <2>2. CASE q \in ds
    <3>1. Parent(q) \in ds
      BY <2>1, <2>2, AboveTransitive, PathsAssumption
    <3>q. QED BY <2>1, <3>1, <1>2
  <2>3. CASE q \notin ds
    <3>1. dst[Parent(q)] = Dir
      BY <1>2, <1>3, <2>3 DEF Planted, Holds
    <3>q. QED BY <2>1, <3>1, <1>2
  <2>q. QED BY <2>2, <2>3
<1>4. Holds(WithDirs(ds), Parent(p))
  <2> SUFFICES ASSUME Parent(p) # Root PROVE WithDirs(ds)[Parent(p)] = Dir
    BY DEF Holds
  <2>1. Parent(p) \in Above[p] /\ Parent(p) \in Paths
    BY ParentOf, PathsAssumption
  <2>q. QED BY <2>1, <1>2
<1>q. QED BY <1>1, <1>3, <1>4 DEF Planted

\* What an action says of the two sides it was chosen for.
Means(a, s, d, u) ==
    /\ a = "mkdir" <=> s = Dir /\ d = None
    /\ a = "transfer" => IsFile(s) /\ d # Dir
    /\ a = "delete" <=> s = None /\ IsFile(d)
    /\ a = "deleteDir" <=> s = None /\ d = Dir
    /\ a = "conflict" <=> (s = Dir /\ IsFile(d)) \/ (IsFile(s) /\ d = Dir)
    /\ a = "nothing" => s = d
    /\ a = "skip" => IsFile(s) /\ IsFile(d) /\ ~u
    /\ a \in {"nothing", "skip", "mkdir", "transfer", "delete", "deleteDir", "conflict"}

\* Each case of diffTrees, by what the source has.
LEMMA CasesOfAction ==
    ASSUME NEW s \in AnyNode, NEW d \in AnyNode, NEW u \in BOOLEAN, NEW a,
           a = CASE s = None /\ d = None           -> "nothing"
                 [] s = Dir /\ d = None            -> "mkdir"
                 [] s = Dir /\ d = Dir             -> "nothing"
                 [] s = Dir /\ IsFile(d)           -> "conflict"
                 [] IsFile(s) /\ d = None          -> "transfer"
                 [] IsFile(s) /\ d = Dir           -> "conflict"
                 [] IsFile(s) /\ IsFile(d)         -> IF u THEN "transfer" ELSE "skip"
                 [] s = None /\ d = Dir            -> "deleteDir"
                 [] s = None /\ IsFile(d)          -> "delete"
    PROVE  Means(a, s, d, u)
<1>1. /\ s = None \/ s = Dir \/ (IsFile(s) /\ s # None /\ s # Dir)
      /\ d = None \/ d = Dir \/ (IsFile(d) /\ d # None /\ d # Dir)
      /\ None # Dir /\ ~IsFile(None) /\ ~IsFile(Dir)
  BY KindsOfNode
<1>2. CASE s = None
  <2>1. /\ d = None => a = "nothing"
        /\ d = Dir => a = "deleteDir"
        /\ IsFile(d) => a = "delete"
    BY <1>1, <1>2
  <2>q. QED BY <1>1, <1>2, <2>1 DEF Means
<1>3. CASE s = Dir
  <2>1. /\ d = None => a = "mkdir"
        /\ d = Dir => a = "nothing"
        /\ IsFile(d) => a = "conflict"
    BY <1>1, <1>3
  <2>q. QED BY <1>1, <1>3, <2>1 DEF Means
<1>4. CASE IsFile(s) /\ s # None /\ s # Dir
  <2>1. /\ d = None => a = "transfer"
        /\ d = Dir => a = "conflict"
        /\ IsFile(d) /\ u => a = "transfer"
        /\ IsFile(d) /\ ~u => a = "skip"
    BY <1>1, <1>4
  <2>q. QED BY <1>1, <1>4, <2>1 DEF Means
<1>q. QED BY <1>1, <1>2, <1>3, <1>4

\* So it is with what was planned.
LEMMA ActionMeans ==
    ASSUME seenSrc \in [Paths -> AnyNode], seenDst \in [Paths -> AnyNode], NEW p \in Paths
    PROVE  Means(Action(p), seenSrc[p], seenDst[p], Unequal(seenSrc[p], seenDst[p]))
<1>1. Unequal(seenSrc[p], seenDst[p]) \in BOOLEAN
  BY DEF Unequal, Different
<1>q. QED BY <1>1, CasesOfAction DEF Action

\* The same of what is planned in a step.
LEMMA ActionMeansThen ==
    ASSUME (seenSrc \in [Paths -> AnyNode])', (seenDst \in [Paths -> AnyNode])', NEW p \in Paths
    PROVE  Means(Action(p)', seenSrc'[p], seenDst'[p], Unequal(seenSrc[p], seenDst[p])')
<1>1. Unequal(seenSrc[p], seenDst[p])' \in BOOLEAN
  BY DEF Unequal, Different
<1>q. QED BY <1>1, CasesOfAction DEF Action

-----------------------------------------------------------------------------
(* The steps.                                                              *)

\* Before the scan there is nothing to show.
LEMMA InitMirrorInv == InitMirror => MirrorInv
<1> SUFFICES ASSUME InitMirror PROVE MirrorInv
  OBVIOUS
<1>1. /\ src \in [Paths -> Nodes] /\ Planted(src)
      /\ dst \in [Paths -> Nodes] /\ Planted(dst)
  BY DEF InitMirror, Trees, Planted
<1>2. dst \in [Paths -> AnyNode]
  BY <1>1, KindsOfNode
<1>3. /\ seenSrc \in [Paths -> AnyNode] /\ seenDst \in [Paths -> AnyNode]
      /\ Planted(seenSrc)
  BY KindsOfNode DEF InitMirror, Planted
<1>4. faults \in 0..MaxFaults /\ edits \in 0..MaxEdits
  BY ChangesAssumption DEF InitMirror
<1>5. TreesIn
  BY <1>1, <1>2, <1>3, <1>4 DEF InitMirror, TreesIn
<1>6. Scanned
  BY DEF InitMirror, Scanned
<1>7. ~Still
  BY DEF InitMirror, Still
<1>q. QED BY <1>5, <1>6, <1>7 DEF MirrorInv, AsSeen, Progress, Orderly, Smooth

\* What the scans see: nothing of what is covered, and all the rest of what is
\* in the tree if its listings succeed.
LEMMA ScanSees ==
    ASSUME NEW tree \in [Paths -> AnyNode], NEW blind, NEW p \in Paths
    PROVE  /\ Scan(tree, blind) \in [Paths -> AnyNode]
           /\ Covered(p) => Scan(tree, blind)[p] = None
           /\ Scan(tree, blind)[p] = None =>
                  tree[p] = None \/ Covered(p) \/ Above[p] \cap blind # {}
           /\ ~Covered(p) /\ blind = {} => Scan(tree, blind)[p] = tree[p]
BY KindsOfNode DEF Scan, Visible

\* So what it sees is a tree.
LEMMA ScanPlanted ==
    ASSUME NEW tree \in [Paths -> AnyNode], Planted(tree), NEW blind
    PROVE  Planted(Scan(tree, blind))
<1> SUFFICES ASSUME NEW p \in Paths, Scan(tree, blind)[p] # None
             PROVE  Holds(Scan(tree, blind), Parent(p))
  BY DEF Planted
<1>1. tree[p] # None /\ Visible(p, blind)
  BY DEF Scan
<1> SUFFICES ASSUME Parent(p) # Root PROVE Scan(tree, blind)[Parent(p)] = Dir
  BY DEF Holds
<1>2. /\ Parent(p) \in Above[p] /\ Parent(p) \in Paths
      /\ Above[Parent(p)] \subseteq Above[p]
  BY ParentOf, AboveTransitive
<1>3. tree[Parent(p)] = Dir
  BY <1>1 DEF Planted, Holds
<1>4. Visible(Parent(p), blind)
  BY <1>1, <1>2, CoveredBelow DEF Visible
<1>q. QED BY <1>2, <1>3, <1>4 DEF Scan

\* The scan plans what is to be done, and all else is as it should be.
LEMMA ScanTreesStep ==
    ASSUME MirrorInv, ScanTrees
    PROVE  MirrorInv'
<1> DEFINE S == Scan(src, unseen.src)
           D == Scan(dst, unseen.dst)
<1>1. /\ stage = "scan" /\ stage' = "execute" /\ todo' = Planned'
      /\ seenSrc' = (IF direction = "down" THEN Listed(S) ELSE S)
      /\ seenDst' = (IF direction = "up" THEN Listed(D) ELSE D)
      /\ UNCHANGED <<direction, src, dst, unseen, errors, warnings, keepsTimes, faults, edits>>
  BY DEF ScanTrees, trees, results
<1>2. src \in [Paths -> AnyNode] /\ dst \in [Paths -> AnyNode]
  BY KindsOfNode DEF MirrorInv, TreesIn
<1>3. S \in [Paths -> AnyNode] /\ D \in [Paths -> AnyNode]
  BY <1>2, ScanSees, KindsOfNode DEF Scan
<1>4. ASSUME NEW p \in Paths
      PROVE  /\ Covered(p) => S[p] = None /\ D[p] = None
             /\ S[p] = None => src[p] = None \/ Covered(p) \/ Above[p] \cap unseen.src # {}
             /\ ~Covered(p) /\ Sighted => S[p] = src[p] /\ D[p] = dst[p]
  BY <1>2, ScanSees DEF Sighted
<1> HIDE DEF S, D
<1>5. ASSUME NEW p \in Paths
      PROVE  /\ Listed(S)[p] \in AnyNode /\ Listed(D)[p] \in AnyNode
             /\ S[p] = None <=> Listed(S)[p] = None
             /\ D[p] = None <=> Listed(D)[p] = None
  BY <1>3, ListedTree, KindsOfNode
<1>6. /\ seenSrc' \in [Paths -> AnyNode] /\ seenDst' \in [Paths -> AnyNode]
      /\ \A p \in Paths : /\ seenSrc'[p] = None <=> S[p] = None
                          /\ seenDst'[p] = None <=> D[p] = None
  <2>1. Listed(S) \in [Paths -> AnyNode] /\ Listed(D) \in [Paths -> AnyNode]
    BY <1>5 DEF Listed
  <2>q. QED BY <1>1, <1>3, <1>5, <2>1
<1>7. todo' \subseteq Paths
  BY <1>1 DEF Planned
<1>8. TreesIn'
  <2>1. Planted(src)' /\ Planted(dst)'
    BY <1>1 DEF MirrorInv, TreesIn, Planted, Holds
  <2>2. Planted(S)
    BY <1>2, ScanPlanted DEF MirrorInv, TreesIn, S
  <2>3. Planted(Listed(S))
    <3>1. \A p \in Paths : S[p] = Dir => Listed(S)[p] = Dir
      BY <1>3, ListedTree, KindsOfNode
    <3>2. \A p \in Paths : Parent(p) # Root => Parent(p) \in Paths
      BY ParentOf, PathsAssumption
    <3>q. QED BY <1>5, <2>2, <3>1, <3>2 DEF Planted, Holds
  <2>4. Planted(seenSrc)'
    BY <1>1, <2>2, <2>3 DEF Planted, Holds
  <2>q. QED BY <1>1, <1>6, <1>7, <2>1, <2>4 DEF MirrorInv, TreesIn, Blindness
<1>9. Scanned'
  <2>1. errors' = {} /\ warnings' = {}
    BY <1>1 DEF MirrorInv, Scanned
  <2>2. \A p \in Paths : Covered(p)' <=> Covered(p)
    BY DEF Covered
  <2>q. QED BY <1>1, <1>4, <1>6, <2>1, <2>2 DEF Scanned
<1>10. Sighted => \A p \in Paths : ~Covered(p) =>
           seenSrc'[p] = (IF direction = "down" THEN Listed(src) ELSE src)[p]
  <2> SUFFICES ASSUME Sighted, NEW p \in Paths, ~Covered(p)
               PROVE  seenSrc'[p] = (IF direction = "down" THEN Listed(src) ELSE src)[p]
    OBVIOUS
  <2>1. S[p] = src[p]
    BY <1>4
  <2>2. Listed(S)[p] = Listed(src)[p]
    BY <2>1 DEF Listed
  <2>q. QED BY <1>1, <2>1, <2>2
<1>11. Sighted => \A p \in Paths : ~Covered(p) =>
           seenDst'[p] = (IF direction = "up" THEN Listed(dst) ELSE dst)[p]
  <2> SUFFICES ASSUME Sighted, NEW p \in Paths, ~Covered(p)
               PROVE  seenDst'[p] = (IF direction = "up" THEN Listed(dst) ELSE dst)[p]
    OBVIOUS
  <2>1. D[p] = dst[p]
    BY <1>4
  <2>2. Listed(D)[p] = Listed(dst)[p]
    BY <2>1 DEF Listed
  <2>q. QED BY <1>1, <2>1, <2>2
<1>12. \A p \in Paths :
           Means(Action(p)', seenSrc'[p], seenDst'[p], Unequal(seenSrc[p], seenDst[p])')
  BY <1>6, ActionMeansThen
<1>13. \A p \in Paths : p \in todo' \/ Action(p)' \in {"nothing", "skip"}
  BY <1>1 DEF Planned
<1>14. Progress'
  <2> SUFFICES ASSUME Sighted, NEW p \in Paths, ~Covered(p), p \notin todo' PROVE Agree(p)'
    BY <1>1 DEF Progress, Done, Still, Sighted, Covered
  <2> DEFINE s == (IF direction = "down" THEN Listed(src) ELSE src)[p]
             d == (IF direction = "up" THEN Listed(dst) ELSE dst)[p]
  <2>1. seenSrc'[p] = s /\ seenDst'[p] = d
    BY <1>10, <1>11
  <2>2. \/ s = d
        \/ IsFile(s) /\ IsFile(d) /\ ~Unequal(seenSrc[p], seenDst[p])'
    BY <1>12, <1>13, <2>1 DEF Means
  <2>3. Unequal(seenSrc[p], seenDst[p])' <=> Unequal(s, d)
    BY <1>1, <2>1 DEF Unequal, Different
  <2>4. ~Unequal(s, d) => s.size = d.size
    BY DEF Unequal, Different
  <2> HIDE DEF s, d
  <2>5. s = d \/ (IsFile(s) /\ IsFile(d) /\ s.size = d.size /\ ~Unequal(s, d))
    BY <2>2, <2>3, <2>4
  <2>6. Agree(p) <=> s = d \/ (IsFile(s) /\ IsFile(d) /\ s.size = d.size /\ ~Unequal(s, d))
    BY Zenon DEF Agree, s, d
  <2>7. Agree(p)' <=> Agree(p)
    BY <1>1 DEF Agree, Listed, Unequal
  <2>q. QED BY <2>5, <2>6, <2>7
<1>15. Orderly'
  <2> SUFFICES ASSUME Sighted, Conflicts' = {}, errors' = {}, warnings' = {}
               PROVE  /\ todo' \subseteq Planned'
                      /\ \A p \in Paths : ~Covered(p) => Expected(p)'
    <3>1. errors' = {} /\ warnings' = {}
      BY <1>1 DEF MirrorInv, Scanned
    <3>2. Sighted' = Sighted /\ \A p \in Paths : Covered(p)' = Covered(p)
      BY <1>1 DEF Sighted, Covered
    <3>q. QED BY <3>1, <3>2 DEF Orderly, Smooth, Still
  <2>1. todo' \subseteq Planned'
    BY <1>1
  <2>2. ASSUME NEW p \in Paths, ~Covered(p) PROVE Expected(p)'
    <3>1. /\ seenDst'[p] = None <=> dst[p] = None
          /\ seenDst'[p] = Dir <=> dst[p] = Dir
          /\ IsFile(seenDst'[p]) <=> IsFile(dst[p])
      BY <1>2, <1>11, <2>2, ListedTree, KindsOfNode
    <3>2. Action(p)' # "conflict"
      BY DEF Conflicts
    <3>3. Means(Action(p)', seenSrc'[p], seenDst'[p], Unequal(seenSrc[p], seenDst[p])')
      BY <1>12
    <3>4. /\ dst[p] = None \/ dst[p] = Dir \/ IsFile(dst[p])
          /\ None # Dir /\ ~IsFile(None) /\ ~IsFile(Dir) /\ dst'[p] = dst[p]
      BY <1>1, <1>2, KindsOfNode
    <3>5. seenSrc'[p] = Dir =>
              ~IsFile(dst'[p]) /\ (p \notin todo' => dst'[p] = Dir)
      BY <1>13, <3>1, <3>2, <3>3, <3>4 DEF Means
    <3>6. IsFile(seenSrc'[p]) => dst'[p] # Dir
      BY <3>1, <3>2, <3>3, <3>4 DEF Means
    <3>7. seenSrc'[p] = None /\ IsFile(seenDst'[p]) => IsFile(dst'[p])
      BY <3>1, <3>4
    <3>8. seenSrc'[p] = None /\ dst'[p] # None => p \in todo'
      BY <1>13, <3>1, <3>2, <3>3, <3>4 DEF Means
    <3>q. QED BY <3>5, <3>6, <3>7, <3>8 DEF Expected, IsFile
  <2>q. QED BY <2>1, <2>2
<1>16. AsSeen'
  BY <1>1, <1>10 DEF AsSeen, Still, Sighted, Covered, Listed
<1>q. QED BY <1>8, <1>9, <1>14, <1>15, <1>16 DEF MirrorInv

\* What the phases leave alone, and what follows from that for the plan.
Standing == UNCHANGED <<direction, src, seenSrc, seenDst, unseen, keepsTimes, edits>>

\* So the plan stands, and all that it was made from.
LEMMA StandingPlan ==
    ASSUME Standing
    PROVE  /\ Planned' = Planned /\ Conflicts' = Conflicts
           /\ \A p \in Paths : Action(p)' = Action(p)
           /\ Sighted' = Sighted
           /\ \A p \in Paths : Covered(p)' = Covered(p)
<1>1. \A p \in Paths : Action(p)' = Action(p)
  BY DEF Standing, Action, Unequal
<1>q. QED BY <1>1 DEF Standing, Planned, Conflicts, Sighted, Covered

\* A step that carries out the action on p, or fails to, and makes directories
\* where the source has them; what it must see to, at p and in the end.
LEMMA StepKeeps ==
    ASSUME MirrorInv, Standing, stage = "execute", stage' = "execute",
           NEW p \in Paths, p \in todo, todo' = todo \ {p}, ~Covered(p),
           dst' \in [Paths -> AnyNode], Planted(dst'),
           UNCHANGED <<errors, warnings, faults>>,
           \A q \in Paths : Covered(q) => dst'[q] = dst[q],
           \A q \in Paths \ {p} : dst'[q] = dst[q] \/ (seenSrc[q] = Dir /\ dst'[q] = Dir),
           Still /\ keepsTimes => Agree(p)',
           Smooth => Expected(p)'
    PROVE  MirrorInv'
<1> USE DEF Standing
<1>1. /\ Planned' = Planned /\ Conflicts' = Conflicts /\ Sighted' = Sighted
      /\ \A q \in Paths : Covered(q)' = Covered(q)
  BY StandingPlan
<1>2. (Still' <=> Still) /\ (Smooth' <=> Smooth)
  BY <1>1 DEF Still, Smooth
<1>3. TreesIn'
  BY DEF MirrorInv, TreesIn, Planted, Holds, Blindness
<1>4. Scanned'
  BY <1>1 DEF MirrorInv, Scanned
<1>5. AsSeen'
  BY <1>1, <1>2 DEF MirrorInv, AsSeen, Listed
<1>6. Progress'
  <2> SUFFICES ASSUME Still, keepsTimes, errors = {}, warnings = {}, NEW q \in Paths
               PROVE  Done(q)'
    BY <1>2 DEF Progress
  <2>1. Done(q)
    BY DEF MirrorInv, Progress
  <2>2. CASE q = p
    BY <2>2 DEF Done
  <2>3. CASE q # p /\ dst'[q] = dst[q]
    <3>1. Agree(q)' <=> Agree(q)
      BY <2>3 DEF Agree, Listed, Unequal
    <3>q. QED BY <1>1, <2>1, <2>3, <3>1 DEF Done
  <2>4. CASE seenSrc[q] = Dir /\ dst'[q] = Dir
    <3>1. CASE Covered(q)
      BY <1>1, <3>1 DEF Done
    <3>2. CASE ~Covered(q)
      <4>1. (IF direction = "down" THEN Listed(src) ELSE src)[q] = Dir
        BY <2>4, <3>2 DEF MirrorInv, AsSeen
      <4>2. Listed(dst')[q] = Dir
        BY <2>4, KindsOfNode DEF Listed
      <4>3. Agree(q)'
        BY <2>4, <4>1, <4>2 DEF Agree, Listed
      <4>q. QED BY <4>3 DEF Done
    <3>q. QED BY <3>1, <3>2
  <2>q. QED BY <2>2, <2>3, <2>4
<1>7. Orderly'
  <2> SUFFICES ASSUME Smooth
               PROVE  /\ todo' \subseteq Planned /\ errors = {}
                      /\ \A q \in Paths : ~Covered(q) => Expected(q)'
                      /\ \A q \in warnings : Remains(q)'
    BY <1>1, <1>2 DEF Orderly
  <2>1. /\ todo \subseteq Planned /\ errors = {}
        /\ \A q \in Paths : ~Covered(q) => Expected(q)
        /\ \A q \in warnings : Remains(q)
    BY DEF MirrorInv, Orderly
  <2>2. ASSUME NEW q \in Paths, ~Covered(q) PROVE Expected(q)'
    <3>1. CASE q = p
      BY <3>1
    <3>2. CASE q # p /\ dst'[q] = dst[q]
      BY <2>1, <2>2, <3>2 DEF Expected
    <3>3. CASE q # p /\ seenSrc[q] = Dir /\ dst'[q] = Dir
      BY <3>3, KindsOfNode DEF Expected
    <3>q. QED BY <3>1, <3>2, <3>3
  <2>3. ASSUME NEW q \in warnings PROVE Remains(q)'
    BY <1>1, <2>1 DEF Remains
  <2>q. QED BY <2>1, <2>2, <2>3
<1>q. QED BY <1>3, <1>4, <1>5, <1>6, <1>7 DEF MirrorInv

\* What a step of the execution on p starts from.
LEMMA AtPath ==
    ASSUME MirrorInv, NEW p \in Paths, stage = "execute", p \in Due
    PROVE  /\ p \in todo /\ \A q \in todo : Rank(p) <= Rank(q)
           /\ Means(Action(p), seenSrc[p], seenDst[p], Unequal(seenSrc[p], seenDst[p]))
           /\ Action(p) \in {"mkdir", "transfer", "delete", "deleteDir", "conflict"} => ~Covered(p)
<1>1. Means(Action(p), seenSrc[p], seenDst[p], Unequal(seenSrc[p], seenDst[p]))
  BY ActionMeans DEF MirrorInv, TreesIn
<1>2. Covered(p) => seenSrc[p] = None /\ seenDst[p] = None
  BY DEF MirrorInv, Scanned
<1>q. QED BY <1>1, <1>2, KindsOfNode DEF Due, Means

\* The directories above what the source was seen to have are ones there too.
LEMMA DirsAbove ==
    ASSUME MirrorInv, NEW p \in Paths, seenSrc[p] # None, NEW q \in Above[p], q # Root
    PROVE  q \in Paths /\ ~Covered(q) /\ seenSrc[q] = Dir
<1>1. seenSrc[q] = Dir
  BY Rooted DEF MirrorInv, TreesIn
<1>2. q \in Paths
  BY PathsAssumption
<1>q. QED BY <1>1, <1>2, KindsOfNode DEF MirrorInv, Scanned

\* A directory is made, with those above it that are missing.
LEMMA MkdirStep ==
    ASSUME MirrorInv, NEW p \in Paths, Mkdir(p)
    PROVE  MirrorInv'
<1>1. /\ stage = "execute" /\ p \in Due /\ Action(p) = "mkdir" /\ todo' = todo \ {p}
      /\ dst' = WithDirs(Above[p] \cup {p})
      /\ stage' = "execute" /\ Standing /\ UNCHANGED <<errors, warnings, faults>>
  BY DEF Mkdir, Doing, Did, scans, results, Standing
<1>2. p \in todo /\ seenSrc[p] = Dir /\ ~Covered(p)
  BY <1>1, AtPath DEF Means
<1>3. dst' \in [Paths -> AnyNode] /\ Planted(dst')
  BY <1>1, DirsPlanted DEF MirrorInv, TreesIn
<1>4. \A q \in Paths : dst'[q] = IF q \in Above[p] \cup {p} THEN Dir ELSE dst[q]
  BY <1>1 DEF WithDirs
<1>5. ASSUME NEW q \in Paths, q \in Above[p] \cup {p} PROVE ~Covered(q) /\ seenSrc[q] = Dir
  BY <1>2, <1>5, DirsAbove, PathsAssumption, KindsOfNode
<1>6. ASSUME Still PROVE Agree(p)'
  <2>1. (IF direction = "down" THEN Listed(src) ELSE src)[p] = Dir
    BY <1>2, <1>6 DEF MirrorInv, AsSeen
  <2>2. dst'[p] = Dir /\ Listed(dst')[p] = Dir
    BY <1>4, KindsOfNode DEF Listed
  <2>q. QED BY <1>1, <2>1, <2>2 DEF Agree, Listed, Standing
<1>7. Expected(p)'
  BY <1>1, <1>2, <1>4, KindsOfNode DEF Expected, Standing
<1>q. QED BY <1>1, <1>2, <1>3, <1>4, <1>5, <1>6, <1>7, StepKeeps

\* What is deleted is taken out, and is out.
LEMMA TakenOut ==
    ASSUME MirrorInv, NEW p \in Paths, stage = "execute", p \in Due,
           Action(p) = "delete" \/ Action(p) = "deleteDir",
           dst[p] # Dir \/ Children(dst, p) = {},
           Did(p, [dst EXCEPT ![p] = None])
    PROVE  MirrorInv'
<1>1. /\ todo' = todo \ {p} /\ dst' = [dst EXCEPT ![p] = None]
      /\ stage' = "execute" /\ Standing /\ UNCHANGED <<errors, warnings, faults>>
  BY DEF Did, scans, results, Standing
<1>2. p \in todo /\ seenSrc[p] = None /\ ~Covered(p)
  BY AtPath DEF Means
<1>3. dst \in [Paths -> AnyNode] /\ Planted(dst)
  BY DEF MirrorInv, TreesIn
<1>4. dst' \in [Paths -> AnyNode] /\ Planted(dst')
  BY <1>1, <1>3, PutPlanted, KindsOfNode
<1>5. dst'[p] = None /\ \A q \in Paths \ {p} : dst'[q] = dst[q]
  BY <1>1, <1>3
<1>6. ASSUME Still PROVE Agree(p)'
  <2>1. (IF direction = "down" THEN Listed(src) ELSE src)[p] = None
    BY <1>2, <1>6 DEF MirrorInv, AsSeen
  <2>2. Listed(dst')[p] = None
    BY <1>5, KindsOfNode DEF Listed
  <2>q. QED BY <1>1, <1>5, <2>1, <2>2 DEF Agree, Listed, Standing
<1>7. Expected(p)'
  BY <1>1, <1>2, <1>5, KindsOfNode DEF Expected, Standing
<1>q. QED BY <1>1, <1>2, <1>4, <1>5, <1>6, <1>7, StepKeeps

\* A file or an empty directory is deleted.
LEMMA DeleteStep ==
    ASSUME MirrorInv, NEW p \in Paths, Delete(p) \/ DeleteDir(p)
    PROVE  MirrorInv'
<1>1. CASE Delete(p)
  BY <1>1, TakenOut, KindsOfNode DEF Delete, Doing
<1>2. CASE DeleteDir(p)
  BY <1>2, TakenOut DEF DeleteDir, Doing
<1>q. QED BY <1>1, <1>2

\* What a transfer leaves at its path: a file, and the next mirror takes it
\* for the same as that of the source.
LEMMA TransferredFile ==
    ASSUME MirrorInv, NEW p \in Paths, IsFile(src[p]), IsFile(seenSrc[p])
    PROVE  /\ Transferred(p) \in AnyFile
           /\ Transferred(p).size = src[p].size
           /\ Transferred(p).time = IF direction = "down" THEN seenSrc[p].time
                                    ELSE IF keepsTimes THEN src[p].time ELSE Now
<1>1. src[p] \in AnyFile /\ seenSrc[p].time \in Nat
  BY KindsOfNode DEF MirrorInv, TreesIn
<1> DEFINE t == IF direction = "down" THEN seenSrc[p].time
                ELSE IF keepsTimes THEN src[p].time ELSE Now
<1>2. t \in Nat
  BY <1>1, TimesAssumption DEF AnyFile
<1>3. Transferred(p) = [src[p] EXCEPT !.time = t]
  BY DEF Transferred
<1> HIDE DEF t
<1>4. Transferred(p) \in AnyFile /\ Transferred(p).size = src[p].size /\ Transferred(p).time = t
  BY <1>1, <1>2, <1>3 DEF AnyFile
<1>q. QED BY <1>4 DEF t

\* A file is transferred; down, with the directories above it.
LEMMA TransferStep ==
    ASSUME MirrorInv, NEW p \in Paths, Transfer(p)
    PROVE  MirrorInv'
<1> DEFINE base == IF direction = "up" THEN dst ELSE WithDirs(Above[p])
           x == Transferred(p)
<1>1. /\ stage = "execute" /\ p \in Due /\ Action(p) = "transfer" /\ todo' = todo \ {p}
      /\ IsFile(src[p]) /\ dst[p] # Dir /\ Reachable(p)
      /\ dst' = [base EXCEPT ![p] = x]
      /\ stage' = "execute" /\ Standing /\ UNCHANGED <<errors, warnings, faults>>
  BY PathsAssumption DEF Transfer, Doing, Did, scans, results, Standing, Holds
<1>2. p \in todo /\ IsFile(seenSrc[p]) /\ ~Covered(p)
  BY <1>1, AtPath DEF Means
<1>3. /\ x \in AnyFile /\ x.size = src[p].size
      /\ x.time = IF direction = "down" THEN seenSrc[p].time
                  ELSE IF keepsTimes THEN src[p].time ELSE Now
  BY <1>1, <1>2, TransferredFile
<1>4. x \in AnyNode /\ IsFile(x) /\ x # Dir /\ x # None
  BY <1>3, KindsOfNode DEF AnyFile, AnyNode, IsFile
<1>5. dst \in [Paths -> AnyNode] /\ Planted(dst)
  BY DEF MirrorInv, TreesIn
<1>6. /\ base \in [Paths -> AnyNode] /\ Planted(base) /\ Holds(base, Parent(p))
      /\ base[p] # Dir
  <2>1. CASE direction = "up"
    BY <1>1, <1>5, <2>1 DEF Reachable
  <2>2. CASE direction # "up"
    <3>1. WithDirs(Above[p])[p] = dst[p]
      BY PathsAssumption DEF WithDirs
    <3>q. QED BY <1>1, <1>5, <2>2, <3>1, DirsPlanted
  <2>q. QED BY <2>1, <2>2
<1>7. ASSUME NEW q \in Paths \ {p}
      PROVE  base[q] = dst[q] \/ (base[q] = Dir /\ q \in Above[p])
  BY DEF WithDirs
<1> HIDE DEF base, x
<1>8. dst' \in [Paths -> AnyNode] /\ Planted(dst')
  BY <1>1, <1>4, <1>6, PutPlanted
<1>9. dst'[p] = x /\ \A q \in Paths \ {p} : dst'[q] = base[q]
  BY <1>1, <1>6
<1>10. ASSUME NEW q \in Paths \ {p}
       PROVE  \/ dst'[q] = dst[q]
              \/ dst'[q] = Dir /\ seenSrc[q] = Dir /\ ~Covered(q)
  BY <1>2, <1>7, <1>9, DirsAbove, PathsAssumption, KindsOfNode
<1>11. ASSUME Still, keepsTimes PROVE Agree(p)'
  <2> DEFINE s == (IF direction = "down" THEN Listed(src) ELSE src)[p]
             d == (IF direction = "up" THEN Listed(dst') ELSE dst')[p]
  <2>1. seenSrc[p] = s
    BY <1>2, <1>11 DEF MirrorInv, AsSeen
  <2>2. src \in [Paths -> AnyNode]
    BY KindsOfNode DEF MirrorInv, TreesIn
  <2>3. IsFile(s) /\ s.size = src[p].size /\ s.time \in Nat
    BY <1>1, <2>2, ListedTree, KindsOfNode
  <2>4. IsFile(d) /\ d.size = x.size /\ d.time \in Nat
    BY <1>4, <1>8, <1>9, ListedTree, KindsOfNode
  <2>5. ASSUME direction = "up" PROVE ~Unequal(s, d)
    <3>1. s.time = x.time
      BY <1>3, <1>11, <2>5
    <3>2. d.time <= x.time /\ x.time <= d.time + Precision
      BY <1>4, <1>8, <1>9, <2>5, ListedTree
    <3> HIDE DEF s, d
    <3>3. ~Different(s, d)
      BY <1>3, <2>3, <2>4, <3>1, <3>2, TimesAssumption DEF Different
    <3>q. QED BY <2>5, <3>3 DEF Unequal
  <2>6. ASSUME direction # "up" PROVE ~Unequal(s, d)
    <3>1. direction = "down"
      BY <2>6 DEF MirrorInv, TreesIn
    <3>2. d.time = s.time
      BY <1>3, <1>9, <2>1, <3>1
    <3> HIDE DEF s, d
    <3>3. ~Different(d, s)
      BY <1>3, <2>3, <2>4, <3>2, TimesAssumption DEF Different
    <3>q. QED BY <2>6, <3>3 DEF Unequal
  <2>7. ~Unequal(s, d) /\ s.size = d.size
    BY <1>3, <2>3, <2>4, <2>5, <2>6
  <2>8. Agree(p)' <=> s = d \/ (IsFile(s) /\ IsFile(d) /\ s.size = d.size /\ ~Unequal(s, d))
    <3>1. direction' = direction /\ src' = src
      BY <1>1 DEF Standing
    <3>2. /\ s = (IF direction' = "down" THEN Listed(src') ELSE src')[p]
          /\ d = (IF direction' = "up" THEN Listed(dst') ELSE dst')[p]
          /\ Unequal(s, d) <=> IF direction' = "up" THEN Different(s, d) ELSE Different(d, s)
      BY <3>1 DEF Unequal
    <3>3. Agree(p)' <=>
             \/ s = d
             \/ /\ IsFile(s) /\ IsFile(d) /\ s.size = d.size
                /\ ~(IF direction' = "up" THEN Different(s, d) ELSE Different(d, s))
      <4>1. Listed(src)' = Listed(src') /\ Listed(dst)' = Listed(dst')
        BY DEF Listed
      <4>2. \A y, z : Unequal(y, z)' <=>
                IF direction' = "up" THEN Different(y, z) ELSE Different(z, y)
        BY DEF Unequal, Different
      <4>q. QED BY <3>2, <4>1, <4>2 DEF Agree, Unequal, Different
    <3>q. QED BY <3>2, <3>3
  <2>q. QED BY <2>3, <2>4, <2>7, <2>8
<1>12. Expected(p)'
  BY <1>1, <1>2, <1>4, <1>9, KindsOfNode DEF Expected, Standing
<1>q. QED BY <1>1, <1>2, <1>8, <1>9, <1>10, <1>11, <1>12, StepKeeps

\* What makes an action impossible when nothing disturbs the mirror: only a
\* directory in which something covered is left.
LEMMA OnlyNonEmptyRefused ==
    ASSUME MirrorInv, Smooth, NEW p \in Paths, stage = "execute", p \in Due, Impossible(p)
    PROVE  seenSrc[p] = None /\ Remains(p) /\ Action(p) # "transfer"
<1>1. /\ p \in todo /\ \A q \in todo : Rank(p) <= Rank(q)
      /\ Means(Action(p), seenSrc[p], seenDst[p], Unequal(seenSrc[p], seenDst[p]))
      /\ Action(p) \in {"mkdir", "transfer", "delete", "deleteDir", "conflict"} => ~Covered(p)
  BY AtPath
<1>2. /\ todo \subseteq Planned /\ errors = {}
      /\ \A q \in Paths : ~Covered(q) => Expected(q)
      /\ \A q \in warnings : Remains(q)
  BY DEF MirrorInv, Orderly
<1>3. Action(p) \in {"mkdir", "transfer", "delete", "deleteDir", "conflict"} /\ ~Covered(p)
  BY <1>1, <1>2 DEF Planned, Means
<1>4. Action(p) # "conflict"
  BY DEF Smooth, Conflicts
<1>5. \A q \in Above[p] : q # Root /\ seenSrc[p] # None =>
          q \in Paths /\ ~Covered(q) /\ seenSrc[q] = Dir /\ Expected(q)
  BY <1>2, DirsAbove
<1>6. /\ src \in [Paths -> AnyNode] /\ Planted(src) /\ dst \in [Paths -> AnyNode]
  BY KindsOfNode DEF MirrorInv, TreesIn
<1>7. seenSrc[p] = (IF direction = "down" THEN Listed(src) ELSE src)[p]
  BY <1>3 DEF MirrorInv, AsSeen, Smooth
<1>8. ASSUME Action(p) = "mkdir" PROVE FALSE
  <2>1. seenSrc[p] = Dir /\ Expected(p)
    BY <1>1, <1>2, <1>3, <1>8 DEF Means
  <2>2. \A q \in (Above[p] \cup {p}) \ {Root} : ~IsFile(dst[q])
    BY <1>5, <2>1, KindsOfNode DEF Expected
  <2>q. QED BY <1>8, <2>2 DEF Impossible, Clear
<1>9. ASSUME Action(p) = "transfer" PROVE FALSE
  <2>1. IsFile(seenSrc[p]) /\ Expected(p) /\ seenSrc[p] # None
    BY <1>1, <1>2, <1>3, <1>9, KindsOfNode DEF Means
  <2>2. IsFile(src[p])
    BY <1>6, <1>7, <2>1, ListedTree
  <2>3. ~Holds(dst, p)
    BY <2>1, PathsAssumption DEF Expected, Holds
  <2>4. Reachable(p)
    <3>1. CASE direction = "up"
      <4>1. Parent(p) \in Above[p]
        BY ParentOf
      <4>2. ASSUME Parent(p) # Root PROVE dst[Parent(p)] = Dir
        <5>1. /\ Parent(p) \in Paths /\ ~Covered(Parent(p)) /\ Expected(Parent(p))
              /\ seenSrc[Parent(p)] = Dir
          BY <1>5, <2>1, <4>1, <4>2
        <5>2. ASSUME Parent(p) \in todo PROVE FALSE
          <6>1. Action(Parent(p)) = "mkdir"
            BY <1>2, <5>1, <5>2, ActionMeans, KindsOfNode DEF MirrorInv, TreesIn, Planned, Means, Conflicts, Smooth
          <6>2. Rank(Parent(p)) = Depth(Parent(p)) /\ Rank(p) = Bottom
            BY <1>9, <3>1, <6>1 DEF Rank
          <6>3. /\ Depth(Parent(p)) \in Nat /\ Cardinality(Paths) \in Nat
                /\ Depth(Parent(p)) <= Cardinality(Paths)
            BY <5>1, DepthType
          <6>q. QED BY <1>1, <5>2, <6>2, <6>3 DEF Bottom
        <5>q. QED BY <5>1, <5>2 DEF Expected
      <4>q. QED BY <3>1, <4>2 DEF Reachable, Holds
    <3>2. CASE direction # "up"
      BY <1>5, <2>1, <3>2 DEF Reachable, Expected
    <3>q. QED BY <3>1, <3>2
  <2>q. QED BY <1>9, <2>2, <2>3, <2>4 DEF Impossible
<1>10. ASSUME Action(p) = "delete" PROVE FALSE
  <2>1. IsFile(dst[p])
    BY <1>1, <1>2, <1>3, <1>10 DEF Means, Expected
  <2>q. QED BY <1>10, <2>1, KindsOfNode DEF Impossible
<1>11. ASSUME Action(p) = "deleteDir" PROVE seenSrc[p] = None /\ Remains(p)
  <2>1. seenSrc[p] = None /\ Children(dst, p) # {}
    BY <1>1, <1>11 DEF Means, Impossible
  <2>2. PICK q \in Paths : Parent(q) = p /\ dst[q] # None
    BY <2>1 DEF Children
  <2>3. p \in Above[q] /\ p # Root
    BY <2>2, ParentOf, PathsAssumption
  <2>4. CASE Covered(q)
    BY <2>1, <2>2, <2>3, <2>4 DEF Remains
  <2>5. CASE ~Covered(q)
    <3>1. src[p] = None
      BY <1>6, <1>7, <2>1, ListedTree, KindsOfNode
    <3>2. src[q] = None
      BY <1>6, <2>2, <2>3, <3>1, KindsOfNode DEF Planted, Holds
    <3>3. seenSrc[q] = None
      BY <1>6, <2>5, <3>2, ListedTree, KindsOfNode DEF MirrorInv, AsSeen, Smooth
    <3>4. q \in todo \/ q \in warnings
      BY <1>2, <2>2, <2>5, <3>3 DEF Expected
    <3>5. ASSUME q \in todo PROVE FALSE
      <4>1. Action(q) = "delete" \/ Action(q) = "deleteDir"
        BY <1>2, <3>3, <3>5, ActionMeans, KindsOfNode DEF MirrorInv, TreesIn, Planned, Means, Conflicts, Smooth
      <4>2. /\ Rank(p) = 3 * Bottom - Depth(p)
            /\ Rank(q) = Bottom + 1 \/ Rank(q) = 3 * Bottom - Depth(q)
        BY <1>11, <4>1 DEF Rank
      <4>3. /\ Depth(p) \in Nat /\ Depth(q) \in Nat /\ Cardinality(Paths) \in Nat
            /\ Depth(p) <= Cardinality(Paths)
        BY DepthType
      <4>4. Depth(p) < Depth(q)
        BY <2>3, AboveIsHigher
      <4>5. Cardinality(Paths) >= 1
        <5>1. Cardinality(Paths) # 0
          BY PathsAssumption, FS_EmptySet
        <5>q. QED BY <4>3, <5>1
      <4>q. QED BY <1>1, <3>5, <4>2, <4>3, <4>4, <4>5 DEF Bottom
    <3>6. PICK r \in Paths : q \in Above[r] /\ Covered(r) /\ dst[r] # None
      BY <1>2, <3>4, <3>5 DEF Remains
    <3>7. p \in Above[r]
      BY <2>3, <3>6, AboveTransitive, PathsAssumption
    <3>q. QED BY <2>1, <3>6, <3>7 DEF Remains
  <2>q. QED BY <2>4, <2>5
<1>q. QED BY <1>3, <1>4, <1>8, <1>9, <1>10, <1>11

\* An action that fails, whatever for.
LEMMA FailedStep ==
    ASSUME MirrorInv, NEW p \in Paths, stage = "execute", p \in Due, Failed(p),
           \/ faults' = faults + 1 /\ faults < MaxFaults
           \/ faults' = faults /\ Impossible(p)
    PROVE  MirrorInv'
<1>1. /\ todo' = todo \ {p} /\ dst' = dst /\ stage' = "execute" /\ Standing
      /\ IF Action(p) = "transfer" THEN errors' = errors \cup {p} /\ warnings' = warnings
                                   ELSE warnings' = warnings \cup {p} /\ errors' = errors
  BY DEF Failed, trees, scans, Standing
<1>2. /\ Planned' = Planned /\ Conflicts' = Conflicts /\ Sighted' = Sighted
      /\ \A q \in Paths : Covered(q)' = Covered(q)
  BY <1>1, StandingPlan
<1>3. TreesIn'
  <2>1. faults' \in 0..MaxFaults
    BY ChangesAssumption DEF MirrorInv, TreesIn
  <2>2. Planted(src)' /\ Planted(dst)' /\ Planted(seenSrc)'
    BY <1>1 DEF MirrorInv, TreesIn, Planted, Holds, Standing
  <2>q. QED BY <1>1, <2>1, <2>2 DEF MirrorInv, TreesIn, Blindness, Standing
<1>4. Scanned'
  BY <1>1, <1>2 DEF MirrorInv, Scanned, Standing
<1>5. AsSeen'
  BY <1>1, <1>2 DEF MirrorInv, AsSeen, Listed, Still, Standing
<1>6. Progress'
  BY <1>1 DEF Progress
<1>7. Orderly'
  <2> SUFFICES ASSUME Smooth'
               PROVE  /\ todo' \subseteq Planned /\ errors' = {}
                      /\ \A q \in Paths : ~Covered(q) => Expected(q)'
                      /\ \A q \in warnings' : Remains(q)'
    BY <1>2 DEF Orderly
  <2>1. faults' = 0 /\ faults = 0 /\ Impossible(p)
    BY DEF Smooth, MirrorInv, TreesIn
  <2>2. Smooth
    BY <1>1, <1>2, <2>1 DEF Smooth, Still, Standing
  <2>3. seenSrc[p] = None /\ Remains(p) /\ Action(p) # "transfer"
    BY <2>1, <2>2, OnlyNonEmptyRefused
  <2>4. /\ todo \subseteq Planned /\ errors = {}
        /\ \A q \in Paths : ~Covered(q) => Expected(q)
        /\ \A q \in warnings : Remains(q)
    BY <2>2 DEF MirrorInv, Orderly
  <2>5. warnings' = warnings \cup {p} /\ errors' = errors
    BY <1>1, <2>3
  <2>6. ASSUME NEW q \in Paths, ~Covered(q) PROVE Expected(q)'
    BY <1>1, <2>3, <2>4, <2>5, <2>6, KindsOfNode DEF Expected, Standing
  <2>7. \A q \in warnings' : Remains(q)'
    BY <1>1, <1>2, <2>3, <2>4, <2>5 DEF Remains
  <2>q. QED BY <1>1, <2>4, <2>5, <2>6, <2>7
<1>q. QED BY <1>3, <1>4, <1>5, <1>6, <1>7 DEF MirrorInv

\* The user's edits.
LEMMA EditStep ==
    ASSUME MirrorInv, NEW p \in Paths, NEW x \in Files \cup {None}, Edit(p, x)
    PROVE  MirrorInv'
<1>1. /\ stage = "execute" /\ stage' = "execute" /\ edits < MaxEdits /\ edits' = edits + 1
      /\ UNCHANGED <<direction, seenSrc, seenDst, unseen, todo, errors, warnings, keepsTimes, faults>>
      /\ \/ /\ IsFile(src[p]) /\ src' = [src EXCEPT ![p] = x] /\ dst' = dst
         \/ /\ IsFile(dst[p]) /\ dst' = [dst EXCEPT ![p] = x] /\ src' = src
  BY DEF Edit, scans, results
<1>2. /\ src \in [Paths -> Nodes] /\ src \in [Paths -> AnyNode] /\ Planted(src)
      /\ dst \in [Paths -> AnyNode] /\ Planted(dst)
      /\ edits \in 0..MaxEdits /\ x \in Nodes /\ x \in AnyNode
  BY KindsOfNode DEF MirrorInv, TreesIn, Nodes
<1>3. ASSUME NEW tree \in [Paths -> AnyNode], Planted(tree), IsFile(tree[p])
      PROVE  Planted([tree EXCEPT ![p] = x])
  BY <1>3, PutPlanted, KindsOfNode DEF Planted
<1>4. /\ src' \in [Paths -> Nodes] /\ Planted(src')
      /\ dst' \in [Paths -> AnyNode] /\ Planted(dst')
  BY <1>1, <1>2, <1>3
<1>5. edits' \in 0..MaxEdits /\ edits' # 0
  BY <1>1, <1>2, ChangesAssumption
<1>6. TreesIn'
  <2>1. Planted(src)' /\ Planted(dst)' /\ Planted(seenSrc)'
    BY <1>1, <1>4 DEF MirrorInv, TreesIn, Planted, Holds
  <2>q. QED BY <1>1, <1>4, <1>5, <2>1 DEF MirrorInv, TreesIn, Blindness
<1>7. Scanned'
  <2>1. \A q \in Paths : src'[q] # None => src[q] # None
    BY <1>1, <1>2, KindsOfNode
  <2>q. QED BY <1>1, <2>1 DEF MirrorInv, Scanned, Covered
<1>8. ~Still'
  BY <1>5 DEF Still
<1>q. QED BY <1>6, <1>7, <1>8 DEF MirrorInv, AsSeen, Progress, Orderly, Smooth

\* A step that changes nothing but the stage at the end.
LEMMA EndStep ==
    ASSUME MirrorInv, FinishMirror \/ UNCHANGED mirrorVars
    PROVE  MirrorInv'
<1>1. /\ Standing /\ UNCHANGED <<dst, todo, errors, warnings, faults>>
      /\ \/ stage' = stage
         \/ stage = "execute" /\ stage' = "done" /\ todo = {}
  BY DEF FinishMirror, mirrorVars, trees, scans, results, Standing
<1>2. /\ Planned' = Planned /\ Conflicts' = Conflicts /\ Sighted' = Sighted
      /\ \A q \in Paths : Covered(q)' = Covered(q)
  BY <1>1, StandingPlan
<1>3. (Still' <=> Still) /\ (Smooth' <=> Smooth)
  BY <1>1, <1>2 DEF Still, Smooth, Standing
<1>4. TreesIn'
  BY <1>1 DEF MirrorInv, TreesIn, Planted, Holds, Blindness, Standing
<1>5. Scanned'
  BY <1>1, <1>2 DEF MirrorInv, Scanned, Standing
<1>6. AsSeen'
  BY <1>1, <1>2, <1>3 DEF MirrorInv, AsSeen, Listed, Standing
<1>7. \A q \in Paths : (Done(q)' <=> Done(q)) /\ (Expected(q)' <=> Expected(q))
                       /\ (Remains(q)' <=> Remains(q))
  BY <1>1, <1>2 DEF Done, Agree, Listed, Unequal, Expected, Remains, Standing
<1>8. Progress'
  BY <1>1, <1>3, <1>7 DEF MirrorInv, Progress, Standing
<1>9. Orderly'
  <2>1. warnings \subseteq Paths
    BY DEF MirrorInv, TreesIn
  <2>q. QED BY <1>1, <1>2, <1>3, <1>7, <2>1 DEF MirrorInv, Orderly
<1>q. QED BY <1>4, <1>5, <1>6, <1>8, <1>9 DEF MirrorInv

\* The inductive invariant of the mirror.
THEOREM MirrorInvariance == SpecMirror => []MirrorInv
<1>1. MirrorInv /\ [NextMirror]_mirrorVars => MirrorInv'
  <2> SUFFICES ASSUME MirrorInv, [NextMirror]_mirrorVars PROVE MirrorInv'
    OBVIOUS
  <2>1. CASE ScanTrees
    BY <2>1, ScanTreesStep
  <2>2. ASSUME NEW p \in Paths, Step(p) PROVE MirrorInv'
    <3>1. CASE Mkdir(p)
      BY <3>1, MkdirStep
    <3>2. CASE Transfer(p)
      BY <3>2, TransferStep
    <3>3. CASE Delete(p) \/ DeleteDir(p)
      BY <3>3, DeleteStep
    <3>4. CASE RefusedAction(p)
      BY <3>4, FailedStep DEF RefusedAction
    <3>q. QED BY <2>2, <3>1, <3>2, <3>3, <3>4 DEF Step
  <2>3. ASSUME NEW p \in Paths, Faulty(p) PROVE MirrorInv'
    BY <2>3, FailedStep DEF Faulty
  <2>4. ASSUME NEW p \in Paths, NEW x \in Files \cup {None}, Edit(p, x) PROVE MirrorInv'
    BY <2>4, EditStep
  <2>5. CASE FinishMirror \/ UNCHANGED mirrorVars
    BY <2>5, EndStep
  <2>q. QED BY <2>1, <2>2, <2>3, <2>4, <2>5 DEF NextMirror
<1>q. QED BY <1>1, InitMirrorInv, PTL DEF SpecMirror

-----------------------------------------------------------------------------
(* The theorems about the mirror.                                          *)

\* A mirror without complaints has made the trees agree, whatever they were
\* (MirrorUp, MirrorDown).
THEOREM QuietIsEqual == SpecMirror => []QuietMeansEqual
<1>1. MirrorInv => QuietMeansEqual
  <2> SUFFICES ASSUME MirrorInv, Quiet, Sighted, edits = 0, keepsTimes, NEW p \in Paths
               PROVE  Covered(p) \/ Agree(p)
    BY DEF QuietMeansEqual
  <2>1. Still /\ errors = {} /\ warnings = {} /\ todo = {}
    BY DEF Quiet, Still, MirrorInv, Scanned
  <2>q. QED BY <2>1 DEF MirrorInv, Progress, Done
<1>q. QED BY <1>1, MirrorInvariance, PTL

\* The order of the phases is enough, for trees of any depth (sortActions,
\* depthLevels).
THEOREM OrderIsEnough == SpecMirror => []OrderSuffices
<1>1. MirrorInv => OrderSuffices
  <2> SUFFICES ASSUME MirrorInv, stage = "done", Sighted, edits = 0, faults = 0, Conflicts = {}
               PROVE  errors = {} /\ \A p \in warnings : Remains(p)
    BY DEF OrderSuffices, Remains
  <2>1. Smooth
    BY DEF Smooth, Still
  <2>q. QED BY <2>1 DEF MirrorInv, Orderly
<1>q. QED BY <1>1, MirrorInvariance, PTL

\* What a step does to the destination.
LEMMA DestinationStep ==
    ASSUME MirrorInv, [NextMirror]_mirrorVars, edits' = edits, NEW q \in Paths
    PROVE  \/ dst'[q] = dst[q]
           \/ dst'[q] # None /\ ~Covered(q)
           \/ ~Covered(q) /\ seenSrc[q] = None /\ stage = "execute"
<1>1. ASSUME NEW p \in Paths, Mkdir(p)
      PROVE  dst'[q] = dst[q] \/ (dst'[q] # None /\ ~Covered(q))
  <2>1. /\ stage = "execute" /\ p \in Due /\ Action(p) = "mkdir"
        /\ dst' = WithDirs(Above[p] \cup {p})
    BY <1>1 DEF Mkdir, Doing, Did
  <2>2. seenSrc[p] = Dir /\ ~Covered(p)
    BY <2>1, AtPath DEF Means
  <2>3. q \in Above[p] \cup {p} => ~Covered(q)
    BY <2>2, DirsAbove, PathsAssumption, KindsOfNode
  <2>q. QED BY <2>1, <2>3, KindsOfNode DEF WithDirs
<1>2. ASSUME NEW p \in Paths, Transfer(p)
      PROVE  dst'[q] = dst[q] \/ (dst'[q] # None /\ ~Covered(q))
  <2>1. /\ stage = "execute" /\ p \in Due /\ Action(p) = "transfer" /\ IsFile(src[p])
        /\ dst' = [(IF direction = "up" THEN dst ELSE WithDirs(Above[p]))
                      EXCEPT ![p] = Transferred(p)]
    BY <1>2 DEF Transfer, Doing, Did
  <2>2. IsFile(seenSrc[p]) /\ ~Covered(p) /\ seenSrc[p] # None
    BY <2>1, AtPath, KindsOfNode DEF Means
  <2>3. Transferred(p) # None
    BY <2>1, <2>2, TransferredFile, KindsOfNode DEF AnyFile, IsFile
  <2>4. q \in Above[p] => ~Covered(q)
    BY <2>2, DirsAbove, PathsAssumption
  <2>5. dst \in [Paths -> AnyNode] /\ WithDirs(Above[p]) \in [Paths -> AnyNode]
    BY DirsPlanted DEF MirrorInv, TreesIn
  <2>6. WithDirs(Above[p])[q] = IF q \in Above[p] THEN Dir ELSE dst[q]
    BY DEF WithDirs
  <2>7. q = p => dst'[q] = Transferred(p)
    BY <2>1, <2>5
  <2>8. q # p => dst'[q] = dst[q] \/ (dst'[q] = Dir /\ q \in Above[p])
    BY <2>1, <2>5, <2>6
  <2>q. QED BY <2>2, <2>3, <2>4, <2>7, <2>8, KindsOfNode
<1>3. ASSUME NEW p \in Paths, Delete(p) \/ DeleteDir(p)
      PROVE  dst'[q] = dst[q] \/ (~Covered(q) /\ seenSrc[q] = None /\ stage = "execute")
  <2>1. /\ stage = "execute" /\ p \in Due /\ Action(p) \in {"delete", "deleteDir"}
        /\ dst' = [dst EXCEPT ![p] = None]
    BY <1>3 DEF Delete, DeleteDir, Doing, Did
  <2>2. seenSrc[p] = None /\ ~Covered(p)
    BY <2>1, AtPath DEF Means
  <2>q. QED BY <2>1, <2>2 DEF MirrorInv, TreesIn
<1>4. ASSUME NEW p \in Paths, RefusedAction(p) \/ Faulty(p) PROVE dst' = dst
  BY <1>4 DEF RefusedAction, Faulty, Failed, trees
<1>5. ASSUME NEW p \in Paths, NEW x \in Files \cup {None} PROVE ~Edit(p, x)
  BY DEF Edit, MirrorInv, TreesIn
<1>6. ASSUME ScanTrees \/ FinishMirror \/ UNCHANGED mirrorVars PROVE dst' = dst
  BY <1>6 DEF ScanTrees, FinishMirror, mirrorVars, trees
<1>q. QED BY <1>1, <1>2, <1>3, <1>4, <1>5, <1>6 DEF NextMirror, Step

\* What .syncignore covers is never touched (walkLocal, walkRemote, RemoveDir).
THEOREM IgnoredStays == SpecMirror => IgnoredUntouched
<1>1. MirrorInv /\ [NextMirror]_mirrorVars =>
          [edits' = edits => \A p \in Paths : Covered(p) => dst'[p] = dst[p]]_dst
  <2> SUFFICES ASSUME MirrorInv, [NextMirror]_mirrorVars, edits' = edits,
                      NEW p \in Paths, Covered(p)
               PROVE  dst'[p] = dst[p]
    OBVIOUS
  <2>q. QED BY DestinationStep
<1>q. QED BY <1>1, MirrorInvariance, PTL DEF SpecMirror, IgnoredUntouched

\* A mirror takes away only what the source does not have, or could not list
\* (diffTrees).
THEOREM OnlyAbsentGo == SpecMirror => OnlyAbsentAreDeleted
<1>1. MirrorInv /\ [NextMirror]_mirrorVars =>
          [edits' = edits => \A p \in Paths : dst[p] # None /\ dst'[p] = None =>
               src[p] = None \/ Above[p] \cap unseen.src # {}]_dst
  <2> SUFFICES ASSUME MirrorInv, [NextMirror]_mirrorVars, edits' = edits,
                      NEW p \in Paths, dst[p] # None, dst'[p] = None
               PROVE  src[p] = None \/ Above[p] \cap unseen.src # {}
    OBVIOUS
  <2>1. ~Covered(p) /\ seenSrc[p] = None /\ stage = "execute"
    BY DestinationStep
  <2>q. QED BY <2>1 DEF MirrorInv, Scanned
<1>q. QED BY <1>1, MirrorInvariance, PTL DEF SpecMirror, OnlyAbsentAreDeleted

\* The variables keep their types and each tree stays one.
THEOREM TreesStayTrees == SpecMirror => []TreesTyped
<1>1. MirrorInv => TreesTyped
  <2> SUFFICES ASSUME MirrorInv PROVE TreesTyped
    OBVIOUS
  <2>1. /\ src \in [Paths -> AnyNode] /\ dst \in [Paths -> AnyNode]
        /\ seenSrc \in [Paths -> AnyNode] /\ seenDst \in [Paths -> AnyNode]
    BY KindsOfNode DEF MirrorInv, TreesIn
  <2>2. \A x \in AnyNode : Looks(x)
    BY KindsOfNode DEF Looks
  <2>3. \A p \in Paths, tree \in {src, dst} :
            tree[p] # None => Holds(tree, Parent(p)) /\ Looks(tree[p])
    BY <2>1, <2>2 DEF MirrorInv, TreesIn, Planted
  <2>4. \A p \in Paths : Looks(seenSrc[p]) /\ Looks(seenDst[p])
    BY <2>1, <2>2
  <2>q. QED BY <2>3, <2>4 DEF MirrorInv, TreesIn, TreesTyped
<1>q. QED BY <1>1, MirrorInvariance, PTL

-----------------------------------------------------------------------------
(* The parallel transfers: the inductive invariant.                        *)

LockOK ==
    /\ \A w \in Workers : writer = w <=> pc[w] \in {"waiting", "connecting"}
    /\ \A w \in Workers : w \in readers <=> pc[w] \in Requests
    /\ \A w \in Workers : pc[w] = "connecting" => readers = {}

Justified ==
    /\ \A w \in Workers : seen[w] <= gen
    /\ \A w \in Workers :
           pc[w] \in {"reconnect", "waiting"} /\ seen[w] = gen => conn # "up"

Honest ==
    /\ \A w \in Workers : pc[w] \notin {"idle", "returned"} => job[w] \in Jobs
    /\ \A w \in Workers : pc[w] = "answered" => job[w] \in done
    /\ \A w \in Workers : pc[w] = "report" /\ ~failed[w] => job[w] \in done
    /\ \A w \in Workers :
           pc[w] \in {"doubting", "probing", "reconnect", "waiting", "connecting"}
               => failed[w]
    /\ SuccessIsReal

Inv == TypeOK /\ LockOK /\ Justified /\ Honest

-----------------------------------------------------------------------------
\* All of it holds before the first job is handed out.
LEMMA InitInv == Init => Inv
<1> SUFFICES ASSUME Init PROVE Inv
  OBVIOUS
<1>1. TypeOK
  <2>1. /\ kind \in Kinds /\ next \in 0..NJobs /\ gen \in Nat
        /\ deaths \in 0..MaxDeaths /\ refusals \in 0..MaxRefusals
    BY NJobsAssumption, BoundsAssumption DEF Init
  <2>2. /\ pc \in [Workers -> States] /\ seen \in [Workers -> Nat]
        /\ failed \in [Workers -> BOOLEAN] /\ retrying \in [Workers -> BOOLEAN]
    BY DEF Init, States
  <2>3. job \in [Workers -> 0..NJobs]
    BY NJobsAssumption DEF Init
  <2>4. QED
    BY <2>1, <2>2, <2>3 DEF Init, TypeOK
<1>2. LockOK /\ Justified
  BY NoWorkerAssumption DEF Init, LockOK, Justified, Requests
<1>3. Honest
  BY DEF Init, Honest, SuccessIsReal
<1>4. QED
  BY <1>1, <1>2, <1>3 DEF Inv

\* A step leaves every variable with its type.
LEMMA TypeStep ==
    ASSUME TypeOK, Honest, [Next]_vars
    PROVE  TypeOK'
<1> USE NoWorkerAssumption, NJobsAssumption, BoundsAssumption, KindsAssumption
<1>1. ASSUME NEW w \in Workers, Worker(w) PROVE TypeOK'
  <2>1. CASE Take(w)
    BY <2>1 DEF Take, Goto, TypeOK, States, Jobs, workVars, lockVars, connVars
  <2>2. CASE Return(w)
    BY <2>2 DEF Return, Goto, TypeOK, States, Jobs, workVars, lockVars, connVars
  <2>3. CASE Attempt(w)
    BY <2>3 DEF Attempt, Goto, RLock, TypeOK, States, Jobs, workVars, lockVars,
       connVars
  <2>4. CASE Perform(w)
    BY <2>4 DEF Perform, Goto, TypeOK, States, Jobs, workVars, lockVars,
       connVars, Honest
  <2>5. CASE Succeed(w)
    BY <2>5 DEF Succeed, Goto, Finish, RUnlock, TypeOK, States, Jobs, workVars,
       lockVars, connVars
  <2>6. CASE Fail(w)
    BY <2>6 DEF Fail, Goto, Finish, RUnlock, TypeOK, States, Jobs, workVars,
       lockVars, connVars
  <2>7. CASE Panic(w)
    BY <2>7 DEF Panic, TypeOK, States, Jobs, workVars, lockVars, connVars
  <2>8. CASE Doubt(w)
    BY <2>8 DEF Doubt, Goto, RLock, TypeOK, States, Jobs, workVars, lockVars,
       connVars
  <2>9. CASE Probe(w)
    BY <2>9 DEF Probe, Goto, RUnlock, Healthy, TypeOK, States, Jobs, workVars,
       lockVars, connVars
  <2>10. CASE Lock(w)
    BY <2>10 DEF Lock, Goto, TypeOK, States, Jobs, workVars, lockVars, connVars
  <2>11. CASE Skip(w)
    BY <2>11 DEF Skip, Goto, Retry, TypeOK, States, Jobs, workVars, lockVars,
       connVars
  <2>12. CASE Close(w)
    BY <2>12 DEF Close, Goto, TypeOK, States, Jobs, workVars, lockVars, connVars
  <2>13. CASE Connect(w)
    BY <2>13 DEF Connect, Goto, Retry, TypeOK, States, Jobs, workVars, lockVars,
       connVars
  <2>14. CASE Refused(w)
    BY <2>14 DEF Refused, Goto, TypeOK, States, Jobs, workVars, lockVars,
       connVars
  <2>15. CASE Report(w)
    BY <2>15 DEF Report, Goto, TypeOK, States, Jobs, workVars, lockVars,
       connVars, Honest
  <2>16. QED
    BY <1>1, <2>1, <2>2, <2>3, <2>4, <2>5, <2>6, <2>7, <2>8, <2>9,
       <2>10, <2>11, <2>12, <2>13, <2>14, <2>15 DEF Worker
<1>2. CASE Dies
  BY <1>2 DEF Dies, TypeOK, States, Jobs, workVars, lockVars, connVars
<1>3. CASE UNCHANGED vars
  BY <1>3 DEF vars, TypeOK, States, Jobs, workVars, lockVars, connVars
<1>4. QED
  BY <1>1, <1>2, <1>3 DEF Next, Ended

\* No step lets a request run beside a reconnection.
LEMMA LockStep ==
    ASSUME TypeOK, LockOK, [Next]_vars
    PROVE  LockOK'
<1> USE NoWorkerAssumption, NJobsAssumption
<1>1. ASSUME NEW w \in Workers, Worker(w) PROVE LockOK'
  <2>1. CASE Take(w)
    BY <2>1 DEF Take, Goto, LockOK, Requests, TypeOK, workVars, lockVars,
       connVars
  <2>2. CASE Return(w)
    BY <2>2 DEF Return, Goto, LockOK, Requests, TypeOK, workVars, lockVars,
       connVars
  <2>3. CASE Attempt(w)
    BY <2>3 DEF Attempt, Goto, RLock, LockOK, Requests, TypeOK, workVars,
       lockVars, connVars
  <2>4. CASE Perform(w)
    BY <2>4 DEF Perform, Goto, LockOK, Requests, TypeOK, workVars, lockVars,
       connVars
  <2>5. CASE Succeed(w)
    BY <2>5 DEF Succeed, Goto, Finish, RUnlock, LockOK, Requests, TypeOK,
       workVars, lockVars, connVars
  <2>6. CASE Fail(w)
    BY <2>6 DEF Fail, Goto, Finish, RUnlock, LockOK, Requests, TypeOK, workVars,
       lockVars, connVars
  <2>7. CASE Panic(w)
    BY <2>7 DEF Panic, LockOK, Requests, TypeOK, workVars, lockVars, connVars
  <2>8. CASE Doubt(w)
    BY <2>8 DEF Doubt, Goto, RLock, LockOK, Requests, TypeOK, workVars,
       lockVars, connVars
  <2>9. CASE Probe(w)
    BY <2>9 DEF Probe, Goto, RUnlock, Healthy, LockOK, Requests, TypeOK,
       workVars, lockVars, connVars
  <2>10. CASE Lock(w)
    BY <2>10 DEF Lock, Goto, LockOK, Requests, TypeOK, workVars, lockVars,
       connVars
  <2>11. CASE Skip(w)
    BY <2>11 DEF Skip, Goto, Retry, LockOK, Requests, TypeOK, workVars,
       lockVars, connVars
  <2>12. CASE Close(w)
    BY <2>12 DEF Close, Goto, LockOK, Requests, TypeOK, workVars, lockVars,
       connVars
  <2>13. CASE Connect(w)
    BY <2>13 DEF Connect, Goto, Retry, LockOK, Requests, TypeOK, workVars,
       lockVars, connVars
  <2>14. CASE Refused(w)
    BY <2>14 DEF Refused, Goto, LockOK, Requests, TypeOK, workVars, lockVars,
       connVars
  <2>15. CASE Report(w)
    BY <2>15 DEF Report, Goto, LockOK, Requests, TypeOK, workVars, lockVars,
       connVars
  <2>16. QED
    BY <1>1, <2>1, <2>2, <2>3, <2>4, <2>5, <2>6, <2>7, <2>8, <2>9,
       <2>10, <2>11, <2>12, <2>13, <2>14, <2>15 DEF Worker
<1>2. CASE Dies
  BY <1>2 DEF Dies, LockOK, Requests, TypeOK, workVars, lockVars, connVars
<1>3. CASE UNCHANGED vars
  BY <1>3 DEF vars, LockOK, Requests, TypeOK, workVars, lockVars, connVars
<1>4. QED
  BY <1>1, <1>2, <1>3 DEF Next, Ended

\* No step makes a worker that lags behind close what it has not seen fail.
LEMMA JustifiedStep ==
    ASSUME TypeOK, LockOK, Justified, [Next]_vars
    PROVE  Justified'
<1> USE NoWorkerAssumption, NJobsAssumption
<1>1. ASSUME NEW w \in Workers, Worker(w) PROVE Justified'
  <2>1. CASE Take(w)
    BY <2>1 DEF Take, Goto, Justified, TypeOK, workVars, lockVars, connVars
  <2>2. CASE Return(w)
    BY <2>2 DEF Return, Goto, Justified, TypeOK, workVars, lockVars, connVars
  <2>3. CASE Attempt(w)
    BY <2>3 DEF Attempt, Goto, RLock, Justified, TypeOK, workVars, lockVars,
       connVars
  <2>4. CASE Perform(w)
    BY <2>4 DEF Perform, Goto, Justified, TypeOK, workVars, lockVars, connVars
  <2>5. CASE Succeed(w)
    BY <2>5 DEF Succeed, Goto, Finish, RUnlock, Justified, TypeOK, workVars,
       lockVars, connVars
  <2>6. CASE Fail(w)
    BY <2>6 DEF Fail, Goto, Finish, RUnlock, Justified, TypeOK, workVars,
       lockVars, connVars
  <2>7. CASE Panic(w)
    BY <2>7 DEF Panic, Justified, TypeOK, workVars, lockVars, connVars
  <2>8. CASE Doubt(w)
    BY <2>8 DEF Doubt, Goto, RLock, Justified, TypeOK, workVars, lockVars,
       connVars
  <2>9. CASE Probe(w)
    BY <2>9 DEF Probe, Goto, RUnlock, Healthy, Justified, TypeOK, workVars,
       lockVars, connVars
  <2>10. CASE Lock(w)
    BY <2>10 DEF Lock, Goto, Justified, TypeOK, workVars, lockVars, connVars
  <2>11. CASE Skip(w)
    BY <2>11 DEF Skip, Goto, Retry, Justified, TypeOK, workVars, lockVars,
       connVars
  <2>12. CASE Close(w)
    BY <2>12 DEF Close, Goto, Justified, TypeOK, workVars, lockVars, connVars
  <2>13. CASE Connect(w)
    BY <2>13 DEF Connect, Goto, Retry, Justified, TypeOK, workVars, lockVars,
       connVars
  <2>14. CASE Refused(w)
    BY <2>14 DEF Refused, Goto, Justified, TypeOK, workVars, lockVars, connVars
  <2>15. CASE Report(w)
    BY <2>15 DEF Report, Goto, Justified, TypeOK, workVars, lockVars, connVars
  <2>16. QED
    BY <1>1, <2>1, <2>2, <2>3, <2>4, <2>5, <2>6, <2>7, <2>8, <2>9,
       <2>10, <2>11, <2>12, <2>13, <2>14, <2>15 DEF Worker
<1>2. CASE Dies
  BY <1>2 DEF Dies, Justified, TypeOK, workVars, lockVars, connVars
<1>3. CASE UNCHANGED vars
  BY <1>3 DEF vars, Justified, TypeOK, workVars, lockVars, connVars
<1>4. QED
  BY <1>1, <1>2, <1>3 DEF Next, Ended

\* No step reports as done what the server has not.
LEMMA HonestStep ==
    ASSUME TypeOK, Honest, [Next]_vars
    PROVE  Honest'
<1> USE NoWorkerAssumption, NJobsAssumption
<1>1. ASSUME NEW w \in Workers, Worker(w) PROVE Honest'
  <2>1. CASE Take(w)
    BY <2>1 DEF Take, Goto, Honest, SuccessIsReal, TypeOK, Jobs, workVars,
       lockVars, connVars
  <2>2. CASE Return(w)
    BY <2>2 DEF Return, Goto, Honest, SuccessIsReal, TypeOK, Jobs, workVars,
       lockVars, connVars
  <2>3. CASE Attempt(w)
    BY <2>3 DEF Attempt, Goto, RLock, Honest, SuccessIsReal, TypeOK, Jobs,
       workVars, lockVars, connVars
  <2>4. CASE Perform(w)
    BY <2>4 DEF Perform, Goto, Honest, SuccessIsReal, TypeOK, Jobs, workVars,
       lockVars, connVars
  <2>5. CASE Succeed(w)
    BY <2>5 DEF Succeed, Goto, Finish, RUnlock, Honest, SuccessIsReal, TypeOK,
       Jobs, workVars, lockVars, connVars
  <2>6. CASE Fail(w)
    BY <2>6 DEF Fail, Goto, Finish, RUnlock, Honest, SuccessIsReal, TypeOK,
       Jobs, workVars, lockVars, connVars
  <2>7. CASE Panic(w)
    BY <2>7 DEF Panic, Honest, SuccessIsReal, TypeOK, Jobs, workVars, lockVars,
       connVars
  <2>8. CASE Doubt(w)
    BY <2>8 DEF Doubt, Goto, RLock, Honest, SuccessIsReal, TypeOK, Jobs,
       workVars, lockVars, connVars
  <2>9. CASE Probe(w)
    BY <2>9 DEF Probe, Goto, RUnlock, Healthy, Honest, SuccessIsReal, TypeOK,
       Jobs, workVars, lockVars, connVars
  <2>10. CASE Lock(w)
    BY <2>10 DEF Lock, Goto, Honest, SuccessIsReal, TypeOK, Jobs, workVars,
       lockVars, connVars
  <2>11. CASE Skip(w)
    BY <2>11 DEF Skip, Goto, Retry, Honest, SuccessIsReal, TypeOK, Jobs,
       workVars, lockVars, connVars
  <2>12. CASE Close(w)
    BY <2>12 DEF Close, Goto, Honest, SuccessIsReal, TypeOK, Jobs, workVars,
       lockVars, connVars
  <2>13. CASE Connect(w)
    BY <2>13 DEF Connect, Goto, Retry, Honest, SuccessIsReal, TypeOK, Jobs,
       workVars, lockVars, connVars
  <2>14. CASE Refused(w)
    BY <2>14 DEF Refused, Goto, Honest, SuccessIsReal, TypeOK, Jobs, workVars,
       lockVars, connVars
  <2>15. CASE Report(w)
    BY <2>15 DEF Report, Goto, Honest, SuccessIsReal, TypeOK, Jobs, workVars,
       lockVars, connVars
  <2>16. QED
    BY <1>1, <2>1, <2>2, <2>3, <2>4, <2>5, <2>6, <2>7, <2>8, <2>9,
       <2>10, <2>11, <2>12, <2>13, <2>14, <2>15 DEF Worker
<1>2. CASE Dies
  BY <1>2 DEF Dies, Honest, SuccessIsReal, TypeOK, Jobs, workVars, lockVars, connVars
<1>3. CASE UNCHANGED vars
  BY <1>3 DEF vars, Honest, SuccessIsReal, TypeOK, Jobs, workVars, lockVars, connVars
<1>4. QED
  BY <1>1, <1>2, <1>3 DEF Next, Ended

\* The inductive invariant.
LEMMA Invariance == Spec => []Inv
<1>1. Inv /\ [Next]_vars => Inv'
  BY TypeStep, LockStep, JustifiedStep, HonestStep DEF Inv
<1>2. QED
  BY InitInv, <1>1, PTL DEF Spec

-----------------------------------------------------------------------------
\* Every variable has its type.
THEOREM TypeCorrect == Spec => []TypeOK
  BY Invariance, PTL DEF Inv

\* mirror.go:656: no worker has a request in flight, and none starts one, while
\* another replaces the connection.
THEOREM Separation == Spec => []NoRequestDuringReconnect
<1>1. Inv => NoRequestDuringReconnect
  BY DEF Inv, LockOK, NoRequestDuringReconnect, Requests
<1>2. QED
  BY Invariance, <1>1, PTL

\* A job onResult was told the success of has its effect on the server.
THEOREM Truthfulness == Spec => []SuccessIsReal
  BY Invariance, PTL DEF Inv, Honest

\* reconnect never closes a connection that answers: one opened by another
\* worker meanwhile has a generation the late one has not observed.
THEOREM Preservation == Spec => LiveConnectionKept
<1>1. Inv /\ [Next]_vars => [conn = "up" => conn' # "closed"]_conn
  <2> SUFFICES ASSUME Inv, Next, conn = "up", conn' = "closed" PROVE FALSE
    BY DEF vars, connVars
  <2>1. ~Dies /\ ~Ended
    BY DEF Dies, Ended, vars, connVars
  <2>2. PICK w \in Workers : Worker(w)
    BY <2>1 DEF Next
  <2>3. Close(w)
    BY <2>2 DEF Worker, Take, Return, Attempt, Perform, Succeed, Fail, Panic,
       Doubt,
       Probe, Lock, Skip, Connect, Refused, Report, Finish, connVars
  <2>4. QED
    BY <2>3 DEF Close, Inv, Justified
<1>2. QED
  BY Invariance, <1>1, PTL DEF Spec, LiveConnectionKept

-----------------------------------------------------------------------------
(* One death.                                                              *)

Ordinary(j) == j \notin Hopeless \cup Once

\* As long as there has been no second death and no refusal: the connection
\* is up in the generation that the deaths so far ask for, or one worker is
\* to replace it or does; a second attempt is made on the new one; and an
\* ordinary job that failed did so in the first generation, because of the
\* death, and is on its way to the reconnection.
Recovering ==
    deaths <= 1 /\ refusals = 0 =>
      /\ conn = "up" => gen = deaths
      /\ conn # "up" => gen = 0 /\ deaths = 1
      /\ conn = "closed" => \E w \in Workers : pc[w] = "connecting"
      /\ \A w \in Workers : pc[w] = "connecting" => conn = "closed"
      /\ \A w \in Workers : retrying[w] => gen = 1
      /\ \A w \in Workers :
            Ordinary(job[w]) =>
              /\ pc[w] = "report" => ~failed[w]
              /\ pc[w] \in {"doubting", "probing", "reconnect", "waiting", "connecting"}
                     => seen[w] = 0 /\ deaths = 1
      /\ \A j \in Jobs : result[j] = "error" => ~Ordinary(j)

\* No step of a mirror makes one death cost an ordinary job.
LEMMA RecoveringStep ==
    ASSUME Inv, Recovering, [Next]_vars
    PROVE  Recovering'
<1> USE NoWorkerAssumption, NJobsAssumption, BoundsAssumption
<1>0. TypeOK /\ LockOK /\ Justified /\ Honest
  BY DEF Inv
<1>1. ASSUME NEW w \in Workers, Worker(w) PROVE Recovering'
  <2>1. CASE Take(w)
    BY <1>0, <2>1 DEF Take, Goto, Recovering, LockOK, Justified, Honest,
       Requests, TypeOK, Jobs, workVars, lockVars, connVars
  <2>2. CASE Return(w)
    BY <1>0, <2>2 DEF Return, Goto, Recovering, LockOK, Justified, Honest,
       Requests, TypeOK, Jobs, workVars, lockVars, connVars
  <2>3. CASE Attempt(w)
    BY <1>0, <2>3 DEF Attempt, Goto, RLock, Recovering, LockOK, Justified,
       Honest, Requests, TypeOK, Jobs, workVars, lockVars, connVars
  <2>4. CASE Perform(w)
    BY <1>0, <2>4 DEF Perform, Goto, Refuses, Recovering, LockOK, Justified,
       Honest, Requests, TypeOK, Jobs, workVars, lockVars, connVars
  <2>5. CASE Succeed(w)
    BY <1>0, <2>5 DEF Succeed, Goto, Finish, RUnlock, Recovering, LockOK,
       Justified, Honest, Requests, TypeOK, Jobs, workVars, lockVars, connVars
  <2>6. CASE Fail(w)
    <3>1. /\ failed' = [failed EXCEPT ![w] = TRUE]
          /\ seen' = IF retrying[w] THEN seen ELSE [seen EXCEPT ![w] = gen]
          /\ pc' = [pc EXCEPT ![w] = IF retrying[w] THEN "report" ELSE "doubting"]
          /\ UNCHANGED <<job, retrying, gen, conn, deaths, refusals, result>>
      BY <2>6 DEF Fail, Finish, Goto, connVars
    <3>2. /\ pc[w] \in {"running", "answered"}
          /\ conn = "dead" \/ Refuses(job[w]) \/ conn = "closed"
      BY <2>6 DEF Fail
    <3>3. SUFFICES ASSUME deaths <= 1, refusals = 0 PROVE Recovering'
      BY <3>1 DEF Recovering
    <3>4. conn # "closed" /\ (conn = "up" => ~Ordinary(job[w]))
      BY <1>0, <3>2, <3>3 DEF Recovering, LockOK, Requests, Refuses, Ordinary
    <3>5. Ordinary(job[w]) => ~retrying[w] /\ gen = 0 /\ deaths = 1
      BY <3>3, <3>4 DEF Recovering
    <3>6. QED
      BY <1>0, <3>1, <3>2, <3>3, <3>4, <3>5 DEF Recovering, TypeOK
  <2>7. CASE Panic(w)
    BY <1>0, <2>7 DEF Panic, Recovering, LockOK, Justified, Honest, Requests,
       TypeOK, Jobs, workVars, lockVars, connVars
  <2>8. CASE Doubt(w)
    BY <1>0, <2>8 DEF Doubt, Goto, RLock, Recovering, LockOK, Justified, Honest,
       Requests, TypeOK, Jobs, workVars, lockVars, connVars
  <2>9. CASE Probe(w)
    BY <1>0, <2>9 DEF Probe, Goto, RUnlock, Healthy, Recovering, LockOK,
       Justified, Honest, Requests, TypeOK, Jobs, workVars, lockVars, connVars
  <2>10. CASE Lock(w)
    BY <1>0, <2>10 DEF Lock, Goto, Recovering, LockOK, Justified, Honest,
       Requests, TypeOK, Jobs, workVars, lockVars, connVars
  <2>11. CASE Skip(w)
    BY <1>0, <2>11 DEF Skip, Goto, Retry, Recovering, LockOK, Justified, Honest,
       Requests, TypeOK, Jobs, workVars, lockVars, connVars
  <2>12. CASE Close(w)
    BY <1>0, <2>12 DEF Close, Goto, Recovering, LockOK, Justified, Honest,
       Requests, TypeOK, Jobs, workVars, lockVars, connVars
  <2>13. CASE Connect(w)
    BY <1>0, <2>13 DEF Connect, Goto, Retry, Recovering, LockOK, Justified,
       Honest, Requests, TypeOK, Jobs, workVars, lockVars, connVars
  <2>14. CASE Refused(w)
    BY <1>0, <2>14 DEF Refused, Goto, Recovering, LockOK, Justified, Honest,
       Requests, TypeOK, Jobs, workVars, lockVars, connVars
  <2>15. CASE Report(w)
    BY <1>0, <2>15 DEF Report, Goto, Recovering, LockOK, Justified, Honest,
       Requests, TypeOK, Jobs, workVars, lockVars, connVars
  <2>16. QED
    BY <1>1, <2>1, <2>2, <2>3, <2>4, <2>5, <2>6, <2>7, <2>8, <2>9,
       <2>10, <2>11, <2>12, <2>13, <2>14, <2>15 DEF Worker
<1>2. CASE Dies
  BY <1>0, <1>2 DEF Dies, Recovering, TypeOK, workVars, lockVars, connVars
<1>3. CASE UNCHANGED vars
  BY <1>3 DEF vars, Recovering, workVars, lockVars, connVars
<1>4. QED
  BY <1>1, <1>2, <1>3 DEF Next, Ended

\* A connection that dies once, and is replaced at the first try, costs no job
\* that the server would do, whichever of the workers notice it, and when.
THEOREM DeathIsInvisible == Spec => []OneDeathIsInvisible
<1>1. Init => Recovering
  BY DEF Init, Recovering
<1>2. Recovering => OneDeathIsInvisible
  BY DEF Recovering, OneDeathIsInvisible, Ordinary
<1>3. Inv /\ Recovering /\ [Next]_vars => Recovering'
  BY RecoveringStep
<1>4. QED
  BY Invariance, <1>1, <1>2, <1>3, PTL DEF Spec
=============================================================================

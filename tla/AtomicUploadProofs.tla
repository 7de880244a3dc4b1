------------------------- MODULE AtomicUploadProofs -------------------------
(***************************************************************************)
(* What an upload installs, for a file of any length and any number of     *)
(* attempts, edits and faults, when one uploader at a time is at the file: *)
(* the workers of the daemon take turns (OneSyncAtATime of                 *)
(* UploadQueueProofs).  Two at once share the partial file, and one can    *)
(* empty it under the other.                                               *)
(*                                                                         *)
(* The inductive invariant follows the partial file.  As long as no edit   *)
(* fell into an attempt that fed it, nor between two attempts without the  *)
(* times showing it, a partial file that may be continued, or is being fed *)
(* (Trusted), has blocks of the version of the local file alone; so what   *)
(* is continued is never of another version.  Add that attempts do not go  *)
(* back in time (Forward), and every step is one of Replace or cannot be   *)
(* seen on the server.                                                     *)
(***************************************************************************)
EXTENDS AtomicUpload, FiniteSetTheorems, SequenceTheorems, TLAPS

\* One uploader at a time.
Sole == \A u, v \in Uploaders : u = v

-----------------------------------------------------------------------------
(* The inductive invariant.                                                *)

\* Where an attempt has the partial file open or is about to install it.
Feeding  == {"copying", "attrs", "rename", "remove", "rename2"}
Complete == Feeding \ {"copying"}

Typed ==
    /\ TypeOK
    /\ content \in [Inodes -> Seq(Versions \cup {Hole})]
    /\ edits \in Nat /\ version = edits + 1

\* The file that is fed is the partial file, and never the destination.
Placed ==
    /\ name.partial # Absent => name.partial # name.dest
    /\ \A u \in Uploaders :
          /\ pc[u] \in Feeding => name.partial # Absent /\ handle[u] = name.partial
          /\ ~large => offset[u] = 0 /\ pc[u] # "stat"
          /\ pc[u] = "open" /\ offset[u] > 0 =>
                name.partial # Absent /\ Len(content[name.partial]) = offset[u]

\* What was written is there, all of it in the end; FTP leaves no holes.
Filled ==
    /\ \A u \in Uploaders :
          /\ pc[u] \in Feeding => \A b \in written[u] : b <= Len(content[name.partial])
          /\ pc[u] \in Complete => written[u] = 1..Blocks
    /\ kind = "ftp" /\ name.partial # Absent =>
          \A b \in 1..Len(content[name.partial]) : content[name.partial][b] # Hole

\* The partial file may be continued, or is by the one attempt there is.
Trusted == fresh \/ \E u \in Uploaders : pc[u] \in Feeding \/ (pc[u] = "open" /\ offset[u] > 0)

\* It is then of one version, that of the local file, unless "dirty" says that
\* an edit fell into an attempt, or between two so that the times hide it.
OneVersion ==
    /\ \A u \in Uploaders : pc[u] # "idle" =>
          /\ opened[u] \in 1..version /\ src[u] \in 1..version
          /\ opened[u] = version => src[u] = version
          /\ ~dirty => opened[u] = version
          /\ ~dirty /\ pc[u] \in Feeding /\ (kind = "ftp" \/ offset[u] = 0) =>
                \A b \in written[u] : content[name.partial][b] = version
    /\ name.partial # Absent /\ ~dirty /\ Trusted =>
          \A b \in 1..Len(content[name.partial]) : content[name.partial][b] \in {version, Hole}

\* The destination is removed only for a server that did not replace it, and
\* an attempt that met no fault has no reason to give up.
Ends ==
    \A u \in Uploaders :
        /\ pc[u] \in {"remove", "rename2"} => ~overwrites \/ ~smooth[u]
        /\ pc[u] = "rename2" /\ smooth[u] => name.dest = Absent
        /\ pc[u] = "cleanup" => ~smooth[u]

IInv ==
    /\ Typed /\ Placed /\ Filled /\ OneVersion /\ Ends
    /\ NeverTruncated /\ InstalledWhole /\ UndisturbedSucceeds

-----------------------------------------------------------------------------
(* Lemmas.                                                                 *)

\* The one uploader is all the uploaders, and there are three inodes.
LEMMA OnlyOne ==
    ASSUME Sole, NEW u \in Uploaders
    PROVE  Uploaders = {u} /\ Inodes = 1..3
<1>1. Uploaders = {u}
  BY DEF Sole
<1>2. Cardinality(Uploaders) = 1
  BY <1>1, FS_Singleton
<1>q. QED BY <1>1, <1>2 DEF Inodes

\* A file with one more block: as long as before or up to that block, the
\* other blocks as they were, holes in between.
LEMMA OneMore ==
    ASSUME NEW S, NEW s \in Seq(S), NEW b \in Nat \ {0}, NEW v \in S, Hole \in S,
           NEW t, t = [c \in 1..(IF Len(s) > b THEN Len(s) ELSE b) |->
                          IF c = b THEN v ELSE IF c <= Len(s) THEN s[c] ELSE Hole]
    PROVE  /\ t \in Seq(S) /\ Len(t) = (IF Len(s) > b THEN Len(s) ELSE b)
           /\ \A c \in 1..Len(t) : t[c] = IF c = b THEN v ELSE IF c <= Len(s) THEN s[c] ELSE Hole
<1> DEFINE n == IF Len(s) > b THEN Len(s) ELSE b
<1>1. Len(s) \in Nat /\ n \in Nat /\ \A c \in 1..Len(s) : s[c] \in S
  BY LenProperties
<1>2. ASSUME NEW c \in 1..n
      PROVE  (IF c = b THEN v ELSE IF c <= Len(s) THEN s[c] ELSE Hole) \in S
  BY <1>1, <1>2
<1>3. t \in [1..n -> S]
  BY <1>2
<1>4. t \in Seq(S)
  BY <1>1, <1>3, SeqDef
<1>5. Len(t) = n
  BY <1>1, <1>3, <1>4, LenProperties
<1>q. QED BY <1>4, <1>5

\* The partial file that Opens opens.
Opened == IF name.partial = Absent THEN CHOOSE j \in Unused : TRUE ELSE name.partial

\* It is an inode, and not that of the destination.
LEMMA OpensBeside ==
    ASSUME IInv, Sole, NEW u \in Uploaders
    PROVE  Opened \in Inodes /\ Opened # name.dest
<1>1. CASE name.partial # Absent
  BY <1>1 DEF Opened, IInv, Typed, TypeOK, Placed
<1>2. CASE name.partial = Absent
  <2>1. Unused = (1..3) \ ({Absent, name.dest} \cup
                            {handle[v] : v \in {w \in Uploaders : pc[w] # "idle"}})
    BY <1>2, OnlyOne DEF Unused
  <2>2. {handle[v] : v \in {w \in Uploaders : pc[w] # "idle"}} \subseteq {handle[u]}
    BY OnlyOne
  <2>3. \E j \in 1..3 : j # name.dest /\ j # handle[u]
    <3>1. 1 \in 1..3 /\ 2 \in 1..3 /\ 3 \in 1..3
      OBVIOUS
    <3>q. QED BY <3>1
  <2>4. \E j : j \in Unused
    BY <2>1, <2>2, <2>3 DEF Absent
  <2>5. Opened \in Unused
    BY <1>2, <2>4 DEF Opened
  <2>q. QED BY <2>1, <2>5, OnlyOne
<1>q. QED BY <1>1, <1>2

\* There is nothing at first.
LEMMA InitIInv == Init => IInv
<1> SUFFICES ASSUME Init PROVE IInv
  OBVIOUS
<1>1. Cardinality(Uploaders) \in Nat
  BY UploadersAssumption, FS_CardinalityType
<1>2. MaxEdits \in Nat /\ Blocks \in Nat \ {0}
  BY BoundsAssumption, BlocksAssumption
<1>3. Typed
  <2>1. <<>> \in Seq(Versions \cup {Hole}) /\ Len(<<>>) = 0
    OBVIOUS
  <2>2. content \in [Inodes -> Seq(Versions \cup {Hole})]
        /\ \A i \in Inodes : Len(content[i]) <= Blocks /\ content[i] \in Seq(Versions \cup {Hole})
    BY <1>2, <2>1 DEF Init
  <2>3. version \in Versions /\ edits \in Nat /\ version = edits + 1
    BY <1>2 DEF Init, Versions
  <2>6. fresh \in BOOLEAN /\ dirty \in BOOLEAN /\ posix \in BOOLEAN
        /\ (posix => kind = "sftp" /\ overwrites)
    BY Zenon DEF Init
  <2>4. /\ name \in [partial : Inodes \cup {Absent}, dest : Inodes \cup {Absent}]
        /\ pc \in [Uploaders -> States]
        /\ handle \in [Uploaders -> Inodes \cup {Absent}]
    BY DEF Init, States
  <2>5. /\ opened \in [Uploaders -> 0..(MaxEdits + 1)]
        /\ src \in [Uploaders -> 0..(MaxEdits + 1)]
        /\ offset \in [Uploaders -> 0..Blocks]
        /\ written \in [Uploaders -> SUBSET (1..Blocks)]
    BY <1>2 DEF Init
  <2>7. /\ smooth \in [Uploaders -> BOOLEAN]
        /\ last \in [version : 0..(MaxEdits + 1), resumed : BOOLEAN, dirty : BOOLEAN]
    BY <1>2 DEF Init, NoUpload
  <2>q. QED BY <2>2, <2>3, <2>4, <2>5, <2>6, <2>7 DEF Typed, TypeOK, Init
<1>4. Placed /\ Filled /\ OneVersion /\ Ends
  BY DEF Init, Placed, Filled, OneVersion, Ends, Feeding, Complete
<1>5. NeverTruncated /\ InstalledWhole /\ UndisturbedSucceeds
  BY DEF Init, NeverTruncated, InstalledWhole, UndisturbedSucceeds
<1>q. QED BY <1>3, <1>4, <1>5 DEF IInv

-----------------------------------------------------------------------------
(* Types.                                                                  *)

\* A time compares or does not.
LEMMA StampedTyped == Stamped \subseteq BOOLEAN
BY Zenon DEF Stamped

\* What Opens is, with the partial file by its name.
LEMMA OpensIs ==
    ASSUME NEW u, NEW from, Opens(u, from)
    PROVE  /\ name' = [name EXCEPT !.partial = Opened] /\ handle' = [handle EXCEPT ![u] = Opened]
           /\ content' = IF from = 0 \/ name.partial = Absent
                           THEN [content EXCEPT ![Opened] = <<>>] ELSE content
           /\ fresh' \in IF from = 0 \/ name.partial = Absent THEN Stamped ELSE {fresh}
           /\ offset' = [offset EXCEPT ![u] = from] /\ written' = [written EXCEPT ![u] = 1..from]
           /\ dirty' = IF from = 0 THEN version # opened[u] ELSE dirty
BY Zenon DEF Opens, Opened

\* An upload that opens the partial file keeps the types.
LEMMA OpensTyped ==
    ASSUME IInv, Sole, NEW u \in Uploaders, NEW from \in 0..Blocks, Opens(u, from)
    PROVE  /\ name' = [name EXCEPT !.partial = Opened] /\ handle' = [handle EXCEPT ![u] = Opened]
           /\ name' \in [partial : Inodes \cup {Absent}, dest : Inodes \cup {Absent}]
           /\ handle' \in [Uploaders -> Inodes \cup {Absent}]
           /\ content' \in [Inodes -> Seq(Versions \cup {Hole})]
           /\ \A i \in Inodes : Len(content'[i]) <= Blocks /\ content'[i] \in Seq(Versions \cup {Hole})
           /\ fresh' \in BOOLEAN /\ dirty' \in BOOLEAN
           /\ offset' \in [Uploaders -> 0..Blocks] /\ written' \in [Uploaders -> SUBSET (1..Blocks)]
<1>1. /\ name' = [name EXCEPT !.partial = Opened] /\ handle' = [handle EXCEPT ![u] = Opened]
      /\ content' = IF from = 0 \/ name.partial = Absent
                      THEN [content EXCEPT ![Opened] = <<>>] ELSE content
      /\ fresh' \in IF from = 0 \/ name.partial = Absent THEN Stamped ELSE {fresh}
      /\ offset' = [offset EXCEPT ![u] = from] /\ written' = [written EXCEPT ![u] = 1..from]
      /\ dirty' = IF from = 0 THEN version # opened[u] ELSE dirty
  BY OpensIs, Zenon
<1>2. Opened \in Inodes
  BY OpensBeside
<1>3. Blocks \in Nat \ {0}
  BY BlocksAssumption
<1>4. /\ name' \in [partial : Inodes \cup {Absent}, dest : Inodes \cup {Absent}]
      /\ handle' \in [Uploaders -> Inodes \cup {Absent}]
  BY <1>1, <1>2 DEF IInv, Typed, TypeOK
<1>5. <<>> \in Seq(Versions \cup {Hole}) /\ Len(<<>>) = 0
  OBVIOUS
<1>6. content' \in [Inodes -> Seq(Versions \cup {Hole})]
  BY <1>1, <1>2, <1>5 DEF IInv, Typed
<1>7. \A i \in Inodes : Len(content'[i]) <= Blocks
  BY <1>1, <1>2, <1>3, <1>5 DEF IInv, Typed, TypeOK
<1>8. fresh' \in BOOLEAN /\ dirty' \in BOOLEAN
  <2>1. fresh \in BOOLEAN /\ dirty \in BOOLEAN
    BY Zenon DEF IInv, Typed, TypeOK
  <2>2. fresh' \in BOOLEAN
    BY <1>1, <2>1, StampedTyped, Zenon
  <2>3. dirty' \in BOOLEAN
    BY <1>1, <2>1, Zenon
  <2>q. QED BY <2>2, <2>3
<1>9. offset' \in [Uploaders -> 0..Blocks] /\ written' \in [Uploaders -> SUBSET (1..Blocks)]
  BY <1>1, <1>3 DEF IInv, Typed, TypeOK
<1>q. QED BY <1>1, <1>4, <1>6, <1>7, <1>8, <1>9

\* What a block written makes of the file.
LEMMA WriteTyped ==
    ASSUME IInv, Sole, NEW u \in Uploaders, NEW b \in 1..Blocks, Write(u, b)
    PROVE  /\ content' \in [Inodes -> Seq(Versions \cup {Hole})]
           /\ \A i \in Inodes : Len(content'[i]) <= Blocks
           /\ \A i \in Inodes \ {name.partial} : content'[i] = content[i]
           /\ LET s == content[name.partial]
                  t == content'[name.partial]
              IN /\ Len(t) = (IF Len(s) > b THEN Len(s) ELSE b)
                 /\ \A c \in 1..Len(t) : t[c] = IF c = b THEN src[u] ELSE IF c <= Len(s) THEN s[c] ELSE Hole
<1>1. Blocks \in Nat \ {0} /\ b \in Nat \ {0} /\ b <= Blocks
  BY BlocksAssumption
<1>2. name.partial \in Inodes /\ handle[u] = name.partial
  BY DEF Write, IInv, Placed, Feeding, Typed, TypeOK
<1> DEFINE s == content[name.partial]
           t == content'[name.partial]
<1>3. s \in Seq(Versions \cup {Hole}) /\ Len(s) \in Nat /\ Len(s) <= Blocks
  BY <1>2, LenProperties DEF IInv, Typed, TypeOK
<1>4. src[u] \in Versions \cup {Hole} /\ Hole \in Versions \cup {Hole}
  BY BoundsAssumption DEF IInv, Typed, TypeOK, Versions, Hole
<1>5. content' = [content EXCEPT ![name.partial] =
                     [c \in 1..(IF Len(s) > b THEN Len(s) ELSE b) |->
                         IF c = b THEN src[u] ELSE IF c <= Len(s) THEN s[c] ELSE Hole]]
  BY <1>2 DEF Write
<1>6. t = [c \in 1..(IF Len(s) > b THEN Len(s) ELSE b) |->
              IF c = b THEN src[u] ELSE IF c <= Len(s) THEN s[c] ELSE Hole]
  BY <1>2, <1>5 DEF IInv, Typed
<1> HIDE DEF s, t
<1>7. /\ t \in Seq(Versions \cup {Hole}) /\ Len(t) = (IF Len(s) > b THEN Len(s) ELSE b)
      /\ \A c \in 1..Len(t) : t[c] = IF c = b THEN src[u] ELSE IF c <= Len(s) THEN s[c] ELSE Hole
  BY <1>1, <1>3, <1>4, <1>6, OneMore
<1>8. \A i \in Inodes \ {name.partial} : content'[i] = content[i]
  BY <1>2, <1>5 DEF IInv, Typed
<1>9. content' \in [Inodes -> Seq(Versions \cup {Hole})]
  <2>1. content' = [content EXCEPT ![name.partial] = t]
    BY <1>5, <1>6
  <2>q. QED BY <1>2, <1>7, <2>1 DEF IInv, Typed
<1>10. \A i \in Inodes : Len(content'[i]) <= Blocks
  <2>1. Len(t) <= Blocks
    BY <1>1, <1>3, <1>7
  <2>2. \A i \in Inodes \ {name.partial} : Len(content'[i]) <= Blocks
    BY <1>8 DEF IInv, Typed, TypeOK
  <2>q. QED BY <2>1, <2>2 DEF t
<1>q. QED BY <1>7, <1>8, <1>9, <1>10 DEF s, t

\* The types are kept.
LEMMA TypedStep ==
    ASSUME IInv, Sole, [Next]_vars
    PROVE  Typed'
<1> USE DEF vars, confVars, serverVars, attemptVars, countVars, histVars
<1>0. MaxEdits \in Nat /\ Blocks \in Nat \ {0}
  BY BoundsAssumption, BlocksAssumption
<1>1. CASE UNCHANGED vars
  BY <1>1 DEF IInv, Typed, TypeOK
<1>2. ASSUME NEW inPlace \in BOOLEAN, Edit(inPlace) PROVE Typed'
  <2>1. /\ edits < MaxEdits /\ edits' = edits + 1 /\ version' = version + 1
        /\ fresh' \in Stamped /\ dirty' = (dirty \/ fresh' \/ \E u \in Uploaders : pc[u] # "idle")
        /\ UNCHANGED <<kind, overwrites, posix, large, name, content, pc, handle, opened, offset, written, smooth, last>>
    BY <1>2 DEF Edit
  <2>2. src' \in [Uploaders -> 0..(MaxEdits + 1)] /\ version' \in Versions
    <3>1. version + 1 \in 1..(MaxEdits + 1)
      BY <1>0, <2>1 DEF IInv, Typed, TypeOK, Versions
    <3>2. src' = src \/ src' = [u \in Uploaders |-> IF src[u] = version /\ pc[u] # "idle"
                                                     THEN version + 1 ELSE src[u]]
      BY <1>2 DEF Edit
    <3>3. src \in [Uploaders -> 0..(MaxEdits + 1)] /\ version + 1 \in 0..(MaxEdits + 1)
      BY <3>1 DEF IInv, Typed, TypeOK
    <3>q. QED BY <2>1, <3>1, <3>2, <3>3 DEF Versions
  <2>3. fresh' \in BOOLEAN /\ dirty' \in BOOLEAN
    BY <2>1, StampedTyped, Zenon
  <2>4. edits' \in Nat /\ version' = edits' + 1
    BY <2>1 DEF IInv, Typed
  <2>q. QED BY <2>1, <2>2, <2>3, <2>4 DEF IInv, Typed, TypeOK
<1>3. ASSUME NEW u \in Uploaders, Uploader(u) PROVE Typed'
  <2>0. /\ version \in 0..(MaxEdits + 1) /\ pc \in [Uploaders -> States]
        /\ name.partial \in Inodes \cup {Absent} /\ PartialLen \in 0..Blocks
    <3>1. /\ version \in 0..(MaxEdits + 1) /\ pc \in [Uploaders -> States]
          /\ name.partial \in Inodes \cup {Absent}
      BY <1>0 DEF IInv, Typed, TypeOK, Versions
    <3>2. \A i \in Inodes : Len(content[i]) \in 0..Blocks
      BY <1>0, LenProperties DEF IInv, Typed, TypeOK
    <3>q. QED BY <1>0, <3>1, <3>2 DEF PartialLen
  <2>1. CASE Start(u)
    <3>1. smooth' \in [Uploaders -> BOOLEAN]
      BY <2>1, Zenon DEF Start, IInv, Typed, TypeOK
    <3>q. QED BY <2>0, <2>1, <3>1 DEF Start, Goto, States, IInv, Typed, TypeOK
  <2>2. CASE Stat(u)
    BY <1>0, <2>0, <2>2 DEF Stat, Goto, States, IInv, Typed, TypeOK
  <2>3. CASE OpenPartial(u)
    <3>1. offset[u] \in 0..Blocks
      BY DEF IInv, Typed, TypeOK
    <3>q. QED BY <2>3, <3>1, OpensTyped DEF OpenPartial, Goto, States, IInv, Typed, TypeOK
  <2>4. CASE Restart(u)
    <3>1. 0 \in 0..Blocks
      BY <1>0
    <3>q. QED BY <2>4, <3>1, OpensTyped DEF Restart, IInv, Typed, TypeOK
  <2>5. ASSUME NEW b \in 1..Blocks, Write(u, b) PROVE Typed'
    <3>1. fresh' \in BOOLEAN
      BY <2>5, StampedTyped, Zenon DEF Write, IInv, Typed, TypeOK
    <3>2. written' \in [Uploaders -> SUBSET (1..Blocks)]
      BY <2>5 DEF Write, IInv, Typed, TypeOK
    <3>3. /\ content' \in [Inodes -> Seq(Versions \cup {Hole})]
          /\ \A i \in Inodes : Len(content'[i]) <= Blocks
      BY <2>5, WriteTyped
    <3>q. QED BY <2>5, <3>1, <3>2, <3>3 DEF Write, IInv, Typed, TypeOK
  <2>6. CASE Copied(u)
    BY <2>6 DEF Copied, Goto, States, IInv, Typed, TypeOK
  <2>7. CASE SetAttributes(u)
    <3>1. fresh' \in BOOLEAN
      BY <2>7, StampedTyped, Zenon DEF SetAttributes
    <3>q. QED BY <2>7, <3>1 DEF SetAttributes, Goto, States, IInv, Typed, TypeOK
  <2>8. CASE Rename(u)
    <3>0. opened[u] \in 0..(MaxEdits + 1)
      BY DEF IInv, Typed, TypeOK
    <3>1. (offset[u] > 0) \in BOOLEAN
      OBVIOUS
    <3>5. dirty \in BOOLEAN
      BY Zenon DEF IInv, Typed, TypeOK
    <3>2. last' \in [version : 0..(MaxEdits + 1), resumed : BOOLEAN, dirty : BOOLEAN]
      <4>1. last' = [version |-> opened[u], resumed |-> (offset[u] > 0), dirty |-> dirty]
        BY <2>8 DEF Rename, Install
      <4>2. ASSUME NEW v \in 0..(MaxEdits + 1), NEW r \in BOOLEAN, NEW d \in BOOLEAN
            PROVE  [version |-> v, resumed |-> r, dirty |-> d]
                      \in [version : 0..(MaxEdits + 1), resumed : BOOLEAN, dirty : BOOLEAN]
        OBVIOUS
      <4>q. QED BY <3>0, <3>1, <3>5, <4>1, <4>2, Zenon
    <3>3. name' \in [partial : Inodes \cup {Absent}, dest : Inodes \cup {Absent}]
      BY <2>0, <2>8 DEF Rename, Install
    <3>4. fresh' \in BOOLEAN
      BY <2>8, Zenon DEF Rename, Install
    <3>q. QED BY <2>8, <3>2, <3>3, <3>4 DEF Rename, Install, Goto, States, IInv, Typed, TypeOK
  <2>9. CASE RenameRefused(u)
    <3>1. smooth' \in [Uploaders -> BOOLEAN]
      BY <2>9, Zenon DEF RenameRefused, Refuses, Fault, IInv, Typed, TypeOK
    <3>q. QED BY <2>9, <3>1 DEF RenameRefused, Goto, States, IInv, Typed, TypeOK
  <2>10. CASE RemoveDest(u)
    BY <2>10 DEF RemoveDest, Goto, States, IInv, Typed, TypeOK
  <2>11. CASE SecondRefused(u)
    <3>1. smooth' \in [Uploaders -> BOOLEAN]
      BY <2>11, Zenon DEF SecondRefused, Refuses, Fault, IInv, Typed, TypeOK
    <3>q. QED BY <2>11, <3>1 DEF SecondRefused, Goto, States, IInv, Typed, TypeOK
  <2>12. CASE Cleanup(u)
    <3>1. fresh' \in BOOLEAN
      BY <2>12, Zenon DEF Cleanup
    <3>q. QED BY <2>12, <3>1 DEF Cleanup, Goto, States, IInv, Typed, TypeOK
  <2>13. CASE Refused(u) \/ RemoveRefused(u) \/ Lost(u)
    <3>1. fresh' \in BOOLEAN /\ smooth' \in [Uploaders -> BOOLEAN]
      BY <2>13, StampedTyped, Zenon DEF Refused, RemoveRefused, Lost, Fault, IInv, Typed, TypeOK
    <3>2. pc' \in [Uploaders -> States]
      BY <2>0, <2>13 DEF Refused, RemoveRefused, Lost, Goto, States
    <3>q. QED BY <2>13, <3>1, <3>2 DEF Refused, RemoveRefused, Lost, IInv, Typed, TypeOK
  <2>q. QED
    BY <1>3, <2>1, <2>2, <2>3, <2>4, <2>5, <2>6, <2>7, <2>8, <2>9, <2>10, <2>11, <2>12, <2>13
    DEF Uploader
<1>q. QED BY <1>1, <1>2, <1>3 DEF Next

-----------------------------------------------------------------------------
(* The rest of the invariant.                                              *)

Kept == /\ Placed /\ Filled /\ OneVersion /\ Ends
        /\ NeverTruncated /\ InstalledWhole /\ UndisturbedSucceeds

\* An edit during an attempt makes the partial file dirty, one between two
\* makes it stale, or dirty when its time does not show it.
LEMMA EditKept ==
    ASSUME IInv, NEW inPlace \in BOOLEAN, Edit(inPlace)
    PROVE  Kept'
<1> USE DEF confVars, serverVars
<1>0. version' = version + 1 /\ version \in Nat
  BY DEF Edit, IInv, Typed
<1>0a. \A u \in Uploaders : src'[u] \in {src[u], version'}
  BY <1>0 DEF Edit, IInv, Typed, TypeOK
<1>1. /\ dirty' \/ (~fresh' /\ \A u \in Uploaders : pc[u] = "idle")
      /\ UNCHANGED <<kind, overwrites, large, name, content, pc, handle, opened, offset, written,
                     smooth, last>>
  <2>1. dirty' = (dirty \/ fresh' \/ \E u \in Uploaders : pc[u] # "idle")
    BY DEF Edit
  <2>2. UNCHANGED <<kind, overwrites, large, name, content, pc, handle, opened, offset, written,
                    smooth, last>>
    BY DEF Edit
  <2>q. QED BY <2>1, <2>2, Zenon
<1>2. Placed' /\ Filled' /\ Ends'
  BY <1>1 DEF IInv, Placed, Filled, Ends
<1>3. OneVersion'
  BY <1>0, <1>0a, <1>1 DEF IInv, OneVersion, Trusted, Feeding
<1>4. NeverTruncated' /\ InstalledWhole' /\ UndisturbedSucceeds'
  BY <1>1 DEF IInv, NeverTruncated, InstalledWhole, UndisturbedSucceeds, Installed
<1>q. QED BY <1>2, <1>3, <1>4 DEF Kept

\* An attempt that goes on or gives up, without a change of the server's files
\* but of the time of the partial one.
LEMMA GoesOn ==
    ASSUME IInv, Sole, NEW u \in Uploaders, NEW to,
           UNCHANGED <<confVars, version, serverVars, attemptVars, histVars>>,
           pc' = [pc EXCEPT ![u] = to], pc[u] # "idle",
           smooth' = smooth \/ (smooth' = [smooth EXCEPT ![u] = FALSE]),
           to \notin {"stat", "open", "copying"},
           to \in Feeding => pc[u] \in Feeding,
           to \in Complete => pc[u] \in Complete \/ Missing(u) = {},
           fresh' => fresh \/ pc[u] \in Feeding,
           to \in {"remove", "rename2"} => ~overwrites \/ ~smooth'[u],
           to = "rename2" /\ smooth'[u] => name.dest = Absent,
           to \in {"cleanup", "idle"} => ~smooth'[u]
    PROVE  Kept'
<1> USE DEF confVars, serverVars, attemptVars, histVars
<1>1. /\ UNCHANGED <<kind, overwrites, large, version, name, content, handle, opened, src, offset,
                     written, dirty, last>>
      /\ pc'[u] = to /\ \A w \in Uploaders : w = u
  BY DEF IInv, Typed, TypeOK, Sole
<1>2. Placed'
  BY <1>1 DEF IInv, Placed, Feeding
<1>3. Missing(u) = {} => written[u] = 1..Blocks
  BY DEF Missing, IInv, Typed, TypeOK
<1>4. Filled'
  BY <1>1, <1>3 DEF IInv, Filled
<1>5. OneVersion'
  <2>1. pc'[u] # "idle" =>
          /\ opened[u] \in 1..version /\ src[u] \in 1..version
          /\ opened[u] = version => src[u] = version
          /\ ~dirty => opened[u] = version
    BY <1>1 DEF IInv, OneVersion
  <2>2. Trusted' => Trusted
    BY <1>1 DEF Trusted
  <2>3. ~dirty /\ pc'[u] \in Feeding /\ (kind = "ftp" \/ offset[u] = 0) =>
          \A b \in written[u] : content[name.partial][b] = version
    BY <1>1 DEF IInv, OneVersion
  <2>4. name.partial # Absent /\ ~dirty /\ Trusted' =>
          \A b \in 1..Len(content[name.partial]) : content[name.partial][b] \in {version, Hole}
    BY <2>2 DEF IInv, OneVersion
  <2>q. QED BY <1>1, <2>1, <2>3, <2>4 DEF OneVersion
<1>6. Ends'
  BY <1>1 DEF Ends
<1>7. NeverTruncated' /\ InstalledWhole'
  BY <1>1 DEF IInv, NeverTruncated, InstalledWhole, Installed
<1>8. UndisturbedSucceeds'
  BY <1>1 DEF UndisturbedSucceeds
<1>q. QED BY <1>2, <1>4, <1>5, <1>6, <1>7, <1>8 DEF Kept

\* The steps of an attempt that this covers.
LEMMA GoingOnKept ==
    ASSUME IInv, Sole, NEW u \in Uploaders,
           \/ Copied(u) \/ SetAttributes(u) \/ RenameRefused(u) \/ SecondRefused(u)
           \/ Refused(u) \/ RemoveRefused(u) \/ Lost(u)
    PROVE  Kept'
<1> USE DEF Goto, Feeding, Complete
<1>0. /\ smooth \in [Uploaders -> BOOLEAN]
      /\ pc[u] \in Feeding => name.partial # Absent
      /\ pc[u] \in {"remove", "rename2"} => ~overwrites \/ ~smooth[u]
      /\ pc[u] = "rename2" /\ smooth[u] => name.dest = Absent
      /\ kind \in {"sftp", "ftp"}
  BY KindsAssumption DEF IInv, Typed, TypeOK, Placed, Ends
<1>1. CASE Copied(u)
  <2>1. /\ pc[u] = "copying" /\ Missing(u) = {} /\ pc' = [pc EXCEPT ![u] = "attrs"]
        /\ UNCHANGED <<confVars, version, serverVars, attemptVars, histVars, fresh, smooth>>
    BY <1>1 DEF Copied
  <2>q. QED BY <2>1, GoesOn
<1>2. CASE SetAttributes(u)
  <2>1. /\ pc[u] = "attrs" /\ pc' = [pc EXCEPT ![u] = "rename"]
        /\ UNCHANGED <<confVars, version, serverVars, attemptVars, histVars, smooth>>
    BY <1>2 DEF SetAttributes
  <2>q. QED BY <2>1, GoesOn
<1>3. CASE RenameRefused(u)
  <2>1. /\ pc[u] = "rename" /\ pc' = [pc EXCEPT ![u] = IF posix THEN "cleanup" ELSE "remove"]
        /\ UNCHANGED <<confVars, version, serverVars, attemptVars, histVars, fresh>>
    BY <1>3 DEF RenameRefused
  <2>2. \/ ~Renames /\ smooth' = smooth
        \/ smooth' = [smooth EXCEPT ![u] = FALSE]
    BY <1>3 DEF RenameRefused, Refuses, Fault
  <2>3. ~Renames => ~overwrites /\ ~posix
    BY <1>0, <2>1 DEF Renames, IInv, Typed, TypeOK
  <2>4. ~overwrites \/ ~smooth'[u]
    BY <1>0, <2>2, <2>3
  <2>5. posix => ~smooth'[u]
    BY <1>0, <2>2, <2>3
  <2>6. CASE posix
    BY <2>1, <2>2, <2>5, <2>6, GoesOn
  <2>7. CASE ~posix
    BY <2>1, <2>2, <2>4, <2>7, GoesOn
  <2>q. QED BY <2>6, <2>7
<1>4. CASE SecondRefused(u)
  <2>1. /\ pc[u] = "rename2" /\ pc' = [pc EXCEPT ![u] = "cleanup"]
        /\ UNCHANGED <<confVars, version, serverVars, attemptVars, histVars, fresh>>
    BY <1>4 DEF SecondRefused
  <2>2. \/ ~Renames /\ smooth' = smooth
        \/ smooth' = [smooth EXCEPT ![u] = FALSE]
    BY <1>4 DEF SecondRefused, Refuses, Fault
  <2>3. ~smooth'[u]
    BY <1>0, <2>1, <2>2 DEF Renames
  <2>q. QED BY <2>1, <2>2, <2>3, GoesOn
<1>5. CASE Refused(u)
  <2>1. /\ pc[u] \in {"copying", "attrs"} /\ smooth' = [smooth EXCEPT ![u] = FALSE]
        /\ UNCHANGED <<confVars, version, serverVars, attemptVars, histVars>>
    BY <1>5 DEF Refused, Fault
  <2>2. PICK to \in {"idle", "cleanup"} : pc' = [pc EXCEPT ![u] = to]
    BY <1>5 DEF Refused
  <2>3. ~smooth'[u]
    BY <1>0, <2>1
  <2>q. QED BY <2>1, <2>2, <2>3, GoesOn
<1>6. CASE RemoveRefused(u)
  <2>1. /\ pc[u] = "remove" /\ smooth' = [smooth EXCEPT ![u] = FALSE]
        /\ UNCHANGED <<confVars, version, serverVars, attemptVars, histVars, fresh>>
    BY <1>6 DEF RemoveRefused, Fault
  <2>2. PICK to \in {"rename2", "cleanup"} : pc' = [pc EXCEPT ![u] = to]
    BY <1>6 DEF RemoveRefused
  <2>3. ~smooth'[u]
    BY <1>0, <2>1
  <2>q. QED BY <2>1, <2>2, <2>3, GoesOn
<1>7. CASE Lost(u)
  <2>1. /\ pc[u] # "idle" /\ smooth' = [smooth EXCEPT ![u] = FALSE] /\ pc' = [pc EXCEPT ![u] = "idle"]
        /\ UNCHANGED <<confVars, version, serverVars, attemptVars, histVars, fresh>>
    BY <1>7 DEF Lost, Fault
  <2>2. ~smooth'[u]
    BY <1>0, <2>1
  <2>q. QED BY <2>1, <2>2, GoesOn
<1>q. QED BY <1>1, <1>2, <1>3, <1>4, <1>5, <1>6, <1>7

\* An attempt begins with the version there is, and looks at the partial file
\* that there is.
LEMMA BeginningKept ==
    ASSUME IInv, Sole, NEW u \in Uploaders, Start(u) \/ Stat(u)
    PROVE  Kept'
<1> USE DEF confVars, serverVars, countVars, histVars, Goto
<1>0. /\ \A w \in Uploaders : w = u
      /\ pc \in [Uploaders -> States] /\ opened \in [Uploaders -> 0..(MaxEdits + 1)]
      /\ src \in [Uploaders -> 0..(MaxEdits + 1)] /\ offset \in [Uploaders -> 0..Blocks]
      /\ smooth \in [Uploaders -> BOOLEAN] /\ large \in BOOLEAN
      /\ version \in Nat /\ version >= 1
  BY BoundsAssumption DEF Sole, IInv, Typed, TypeOK, Versions
<1>1. CASE Start(u)
  <2>1. /\ UNCHANGED <<kind, overwrites, large, version, name, content, fresh, handle, offset, written,
                       dirty, last>>
        /\ pc'[u] = (IF large THEN "stat" ELSE "open")
        /\ opened'[u] = version /\ src'[u] = version
    BY <1>0, <1>1 DEF Start
  <2>2. pc[u] = "idle" /\ pc'[u] \notin Feeding /\ pc'[u] \notin Complete
        /\ pc'[u] \notin {"idle", "cleanup", "copying", "attrs", "remove", "rename2"}
        /\ (pc'[u] = "stat" => large)
    BY <1>1, <2>1 DEF Start, Feeding, Complete
  <2>3. pc'[u] = "open" => offset[u] = 0
    BY <2>1 DEF IInv, Placed
  <2>4. Placed'
    BY <1>0, <2>1, <2>2, <2>3 DEF IInv, Placed
  <2>5. Filled'
    BY <1>0, <2>1, <2>2 DEF IInv, Filled
  <2>6. OneVersion'
    BY <1>0, <2>1, <2>2, <2>3 DEF IInv, OneVersion, Trusted
  <2>7. Ends'
    BY <1>0, <2>2 DEF Ends
  <2>8. NeverTruncated' /\ InstalledWhole'
    BY <2>1 DEF IInv, NeverTruncated, InstalledWhole, Installed
  <2>9. UndisturbedSucceeds'
    BY <1>0, <2>2 DEF UndisturbedSucceeds
  <2>q. QED BY <2>4, <2>5, <2>6, <2>7, <2>8, <2>9 DEF Kept
<1>2. CASE Stat(u)
  <2>1. /\ UNCHANGED <<kind, overwrites, large, version, name, content, fresh, handle, opened, src,
                       written, dirty, last, smooth>>
        /\ pc[u] = "stat" /\ pc'[u] = "open"
        /\ offset'[u] = IF CanResume THEN PartialLen ELSE 0
    BY <1>0, <1>2 DEF Stat
  <2>2. offset'[u] > 0 => /\ fresh /\ name.partial # Absent
                          /\ Len(content[name.partial]) = offset'[u]
    BY <2>1 DEF CanResume, PartialLen
  <2>3. large
    BY <2>1 DEF IInv, Placed
  <2>4. Placed'
    BY <1>0, <2>1, <2>2, <2>3 DEF IInv, Placed, Feeding
  <2>5. Filled'
    BY <1>0, <2>1 DEF IInv, Filled, Feeding, Complete
  <2>6. OneVersion'
    BY <1>0, <2>1, <2>2 DEF IInv, OneVersion, Trusted, Feeding
  <2>7. Ends'
    BY <1>0, <2>1 DEF Ends
  <2>8. NeverTruncated' /\ InstalledWhole'
    BY <2>1 DEF IInv, NeverTruncated, InstalledWhole, Installed
  <2>9. UndisturbedSucceeds'
    BY <1>0, <2>1 DEF UndisturbedSucceeds
  <2>q. QED BY <2>4, <2>5, <2>6, <2>7, <2>8, <2>9 DEF Kept
<1>q. QED BY <1>1, <1>2

\* The partial file is emptied, or is one that may be continued.
LEMMA OpeningKept ==
    ASSUME IInv, Sole, NEW u \in Uploaders, OpenPartial(u) \/ Restart(u)
    PROVE  Kept'
<1> USE DEF Goto
<1>0. /\ \A w \in Uploaders : w = u
      /\ pc \in [Uploaders -> States] /\ handle \in [Uploaders -> Inodes \cup {Absent}]
      /\ offset \in [Uploaders -> 0..Blocks] /\ written \in [Uploaders -> SUBSET (1..Blocks)]
      /\ name \in [partial : Inodes \cup {Absent}, dest : Inodes \cup {Absent}]
      /\ content \in [Inodes -> Seq(Versions \cup {Hole})]
      /\ Blocks \in Nat
  BY BlocksAssumption DEF Sole, IInv, Typed, TypeOK
<1>1. PICK from \in 0..Blocks :
          /\ Opens(u, from) /\ (from = 0 \/ (pc[u] = "open" /\ from = offset[u]))
          /\ pc[u] # "idle" /\ pc'[u] = "copying"
          /\ UNCHANGED <<confVars, version, opened, src, smooth, last>>
  <2>1. CASE OpenPartial(u)
    <3>1. /\ pc[u] = "open" /\ Opens(u, offset[u]) /\ pc'[u] = "copying"
          /\ UNCHANGED <<confVars, version, opened, src, smooth, last>>
      BY <1>0, <2>1 DEF OpenPartial
    <3>2. offset[u] \in 0..Blocks
      BY <1>0
    <3>q. QED BY <3>1, <3>2
  <2>2. CASE Restart(u)
    <3>1. /\ pc[u] = "copying" /\ Opens(u, 0) /\ pc'[u] = "copying"
          /\ UNCHANGED <<confVars, version, opened, src, smooth, last>>
      BY <2>2 DEF Restart
    <3>2. 0 \in 0..Blocks
      BY <1>0
    <3>q. QED BY <3>1, <3>2
  <2>q. QED BY <2>1, <2>2
<1>2. /\ UNCHANGED <<kind, overwrites, large, version, opened, src, smooth, last>>
  BY <1>1 DEF confVars
<1>2a. /\ name' = [name EXCEPT !.partial = Opened] /\ handle' = [handle EXCEPT ![u] = Opened]
       /\ content' = IF from = 0 \/ name.partial = Absent
                       THEN [content EXCEPT ![Opened] = <<>>] ELSE content
       /\ offset' = [offset EXCEPT ![u] = from] /\ written' = [written EXCEPT ![u] = 1..from]
       /\ dirty' = IF from = 0 THEN version # opened[u] ELSE dirty
  BY <1>1, OpensIs, Zenon
<1>3. Opened \in Inodes /\ Opened # name.dest /\ Opened # Absent
  BY OpensBeside DEF Inodes, Absent
<1>4. /\ name'.partial = Opened /\ name'.dest = name.dest
      /\ handle'[u] = Opened /\ offset'[u] = from /\ written'[u] = 1..from
  BY <1>0, <1>2a
<1>5. from > 0 => /\ name.partial # Absent /\ Opened = name.partial
                  /\ Len(content[Opened]) = from /\ large /\ pc[u] = "open" /\ offset[u] = from
  BY <1>0, <1>1 DEF IInv, Placed, Opened
<1>6. IF from = 0 THEN content' = [content EXCEPT ![Opened] = <<>>] ELSE content' = content
  BY <1>5, <1>2a
<1>7. Len(content'[Opened]) = from /\ \A i \in Inodes \ {Opened} : content'[i] = content[i]
  <2>1. CASE from = 0
    BY <1>0, <1>3, <1>6, <2>1
  <2>2. CASE from # 0
    BY <1>5, <1>6, <2>2
  <2>q. QED BY <2>1, <2>2
<1>8. IF from = 0 THEN ~dirty' => opened[u] = version ELSE dirty' <=> dirty
  <2>1. CASE from = 0
    BY <1>2a, <2>1
  <2>2. CASE from # 0
    BY <1>2a, <2>2, Zenon
  <2>q. QED BY <2>1, <2>2
<1>9. Placed'
  BY <1>0, <1>1, <1>2, <1>3, <1>4, <1>5 DEF IInv, Placed, Feeding
<1>10. Filled'
  <2>1. \A b \in 1..from : b <= Len(content'[Opened])
    BY <1>7
  <2>2. kind = "ftp" => \A b \in 1..Len(content'[Opened]) : content'[Opened][b] # Hole
    <3>1. CASE from = 0
      BY <1>7, <3>1
    <3>2. CASE from # 0
      BY <1>5, <1>6, <3>2 DEF IInv, Filled
    <3>q. QED BY <3>1, <3>2
  <2>q. QED BY <1>0, <1>1, <1>2, <1>4, <2>1, <2>2 DEF Filled, Feeding, Complete
<1>11. OneVersion'
  <2>1. opened[u] \in 1..version /\ src[u] \in 1..version /\ (opened[u] = version => src[u] = version)
    BY <1>1 DEF IInv, OneVersion
  <2>2. ~dirty' => opened[u] = version
    BY <1>1, <1>5, <1>8 DEF IInv, OneVersion
  <2>3. ~dirty' => \A b \in 1..Len(content'[Opened]) : content'[Opened][b] \in {version, Hole}
    <3>1. CASE from = 0
      BY <1>7, <3>1
    <3>2. CASE from # 0
      BY <1>5, <1>6, <1>8, <3>2 DEF IInv, OneVersion, Trusted
    <3>q. QED BY <3>1, <3>2
  <2>4. ~dirty' /\ (kind = "ftp" \/ from = 0) =>
           \A b \in 1..from : content'[Opened][b] = version
    BY <1>2, <1>3, <1>4, <1>7, <1>10, <2>3 DEF Filled
  <2>q. QED BY <1>0, <1>1, <1>2, <1>4, <2>1, <2>2, <2>3, <2>4 DEF OneVersion
<1>12. Ends' /\ UndisturbedSucceeds'
  BY <1>0, <1>1 DEF Ends, UndisturbedSucceeds
<1>13. NeverTruncated' /\ InstalledWhole'
  BY <1>0, <1>2, <1>3, <1>4, <1>7 DEF IInv, NeverTruncated, InstalledWhole, Installed
<1>q. QED BY <1>9, <1>10, <1>11, <1>12, <1>13 DEF Kept

\* A block is written of the version that is read.
LEMMA WritingKept ==
    ASSUME IInv, Sole, NEW u \in Uploaders, NEW b \in 1..Blocks, Write(u, b)
    PROVE  Kept'
<1> USE DEF confVars, countVars, histVars
<1> DEFINE s == content[name.partial]
           t == content'[name.partial]
<1>0. /\ \A w \in Uploaders : w = u
      /\ written \in [Uploaders -> SUBSET (1..Blocks)]
      /\ name.partial # Absent /\ name.partial # name.dest /\ name.partial \in Inodes
      /\ name.dest \in Inodes \cup {Absent} /\ Blocks \in Nat
  BY BlocksAssumption DEF Sole, IInv, Typed, TypeOK, Placed, Write, Feeding
<1>1. /\ pc[u] = "copying" /\ b \in Missing(u) /\ (kind = "ftp" => \A c \in Missing(u) : b <= c)
      /\ handle[u] = name.partial /\ written'[u] = written[u] \cup {b}
      /\ UNCHANGED <<kind, overwrites, large, version, name, pc, handle, opened, src, offset, smooth,
                     dirty, last>>
  BY <1>0 DEF Write, IInv, Placed, Feeding
<1>3. Len(s) \in Nat /\ b \in Nat
  BY <1>0, LenProperties DEF IInv, Typed
<1>4. /\ \A i \in Inodes \ {name.partial} : content'[i] = content[i]
      /\ Len(t) = (IF Len(s) > b THEN Len(s) ELSE b)
      /\ \A c \in 1..Len(t) : t[c] = IF c = b THEN src[u] ELSE IF c <= Len(s) THEN s[c] ELSE Hole
  BY WriteTyped
<1> HIDE DEF s, t
<1>5. b <= Len(t) /\ Len(s) <= Len(t) /\ Len(t) \in Nat
  BY <1>3, <1>4
<1>6. Placed'
  BY <1>0, <1>1 DEF IInv, Placed
<1>7. Filled'
  <2>1. \A c \in written'[u] : c <= Len(t)
    <3>1. \A c \in written[u] : c <= Len(s) /\ c \in Nat
      BY <1>0, <1>1 DEF IInv, Filled, Feeding, s
    <3>q. QED BY <1>1, <1>3, <1>5, <3>1
  <2>2. ASSUME kind = "ftp", NEW c \in 1..Len(t) PROVE t[c] # Hole
    <3>1. src[u] # Hole
      BY <1>1 DEF IInv, OneVersion, Hole
    <3>2. CASE c = b
      BY <1>4, <3>1, <3>2
    <3>3. CASE c # b /\ c <= Len(s)
      <4>1. c \in 1..Len(s)
        BY <1>3, <3>3
      <4>2. s[c] # Hole
        BY <1>0, <2>2, <4>1 DEF IInv, Filled, s
      <4>q. QED BY <1>4, <3>3, <4>2
    <3>4. CASE c # b /\ ~(c <= Len(s))
      <4>1. c < b
        BY <1>3, <1>4, <3>4
      <4>2. c \in 1..Blocks /\ c \notin Missing(u)
        BY <1>0, <1>1, <2>2, <4>1
      <4>3. c \in written[u]
        BY <4>2 DEF Missing
      <4>q. QED BY <1>1, <3>4, <4>3 DEF IInv, Filled, Feeding, s
    <3>q. QED BY <3>2, <3>3, <3>4
  <2>q. QED BY <1>0, <1>1, <2>1, <2>2 DEF Filled, Complete, t
<1>8. OneVersion'
  <2>1. opened[u] \in 1..version /\ src[u] \in 1..version /\ (opened[u] = version => src[u] = version)
        /\ (~dirty => opened[u] = version)
    BY <1>1 DEF IInv, OneVersion
  <2>2. ASSUME ~dirty, NEW c \in 1..Len(t) PROVE t[c] \in {version, Hole}
    <3>1. src[u] = version /\ Trusted
      BY <1>1, <2>1, <2>2 DEF Trusted, Feeding
    <3>2. \A d \in 1..Len(s) : s[d] \in {version, Hole}
      BY <1>0, <2>2, <3>1 DEF IInv, OneVersion, s
    <3>q. QED BY <1>3, <1>4, <3>1, <3>2
  <2>3. ASSUME ~dirty, kind = "ftp" \/ offset[u] = 0, NEW c \in written'[u]
        PROVE  t[c] = version
    <3>1. src[u] = version
      BY <2>1, <2>3
    <3>2. CASE c = b
      BY <1>3, <1>4, <1>5, <3>1, <3>2
    <3>3. CASE c # b
      <4>1. c \in written[u] /\ c \in 1..Blocks
        BY <1>0, <1>1, <2>3, <3>3
      <4>2. c <= Len(s) /\ s[c] = version
        BY <1>1, <2>3, <4>1 DEF IInv, Filled, OneVersion, Feeding, s
      <4>q. QED BY <1>3, <1>4, <1>5, <3>3, <4>1, <4>2
    <3>q. QED BY <3>2, <3>3
  <2>q. QED BY <1>0, <1>1, <2>1, <2>2, <2>3 DEF OneVersion, t
<1>9. Ends' /\ UndisturbedSucceeds'
  BY <1>1 DEF IInv, Ends, UndisturbedSucceeds
<1>10. NeverTruncated' /\ InstalledWhole'
  BY <1>0, <1>1, <1>4 DEF IInv, NeverTruncated, InstalledWhole, Installed
<1>q. QED BY <1>6, <1>7, <1>8, <1>9, <1>10 DEF Kept

\* The partial file, complete, becomes the destination.
LEMMA InstallKept ==
    ASSUME IInv, Sole, NEW u \in Uploaders, Rename(u)
    PROVE  Kept'
<1> USE DEF confVars, attemptVars, countVars, Goto
<1>0. /\ \A w \in Uploaders : w = u
      /\ pc \in [Uploaders -> States]
      /\ name.partial \in Inodes /\ Blocks \in Nat /\ Blocks >= 1
  BY BlocksAssumption DEF Sole, IInv, Typed, TypeOK, Rename, Renames
<1>1. /\ pc[u] \in {"rename", "rename2"} /\ pc'[u] = "idle"
      /\ name' = [partial |-> Absent, dest |-> name.partial]
      /\ last' = [version |-> opened[u], resumed |-> offset[u] > 0, dirty |-> dirty]
      /\ UNCHANGED <<kind, overwrites, large, version, content, handle, opened, src, offset, written,
                     smooth, dirty>>
  BY <1>0 DEF Rename, Install
<1>2. content[name.partial] \in Seq(Versions \cup {Hole}) /\ Len(content[name.partial]) \in Nat
      /\ Len(content[name.partial]) <= Blocks
  BY <1>0, LenProperties DEF IInv, Typed, TypeOK
<1>3. Len(content[name.partial]) = Blocks
  <2>1. \A b \in 1..Blocks : b <= Len(content[name.partial])
    BY <1>1 DEF IInv, Filled, Feeding, Complete
  <2>q. QED BY <1>0, <1>2, <2>1
<1>4. Placed' /\ Filled' /\ Ends'
  BY <1>0, <1>1 DEF IInv, Placed, Filled, Ends, Feeding, Complete
<1>5. OneVersion'
  BY <1>0, <1>1 DEF OneVersion
<1>6. NeverTruncated'
  BY <1>1, <1>3 DEF NeverTruncated, Installed
<1>7. InstalledWhole'
  <2> SUFFICES ASSUME ~dirty, ~(kind = "sftp" /\ offset[u] > 0)
               PROVE  content[name.partial] = [b \in 1..Blocks |-> opened[u]]
    BY <1>1 DEF InstalledWhole, Installed
  <2>1. kind = "ftp" \/ offset[u] = 0
    BY KindsAssumption DEF IInv, Typed, TypeOK
  <2>2. opened[u] = version /\ \A b \in 1..Blocks : content[name.partial][b] = version
    BY <1>1, <2>1 DEF IInv, OneVersion, Filled, Feeding, Complete
  <2>3. content[name.partial] \in [1..Blocks -> Versions \cup {Hole}]
    BY <1>2, <1>3, LenProperties
  <2>q. QED BY <2>2, <2>3
<1>8. UndisturbedSucceeds'
  BY <1>0, <1>1 DEF UndisturbedSucceeds, Inodes, Absent
<1>q. QED BY <1>4, <1>5, <1>6, <1>7, <1>8 DEF Kept

\* The destination is taken out of the way, or the partial file.
LEMMA RemovalKept ==
    ASSUME IInv, Sole, NEW u \in Uploaders, RemoveDest(u) \/ Cleanup(u)
    PROVE  Kept'
<1> USE DEF confVars, attemptVars, countVars, histVars, Goto
<1>0. /\ \A w \in Uploaders : w = u
      /\ pc \in [Uploaders -> States]
      /\ name \in [partial : Inodes \cup {Absent}, dest : Inodes \cup {Absent}]
  BY DEF Sole, IInv, Typed, TypeOK
<1>1. CASE RemoveDest(u)
  <2>1. /\ pc[u] = "remove" /\ pc'[u] = "rename2"
        /\ name'.partial = name.partial /\ name'.dest = Absent
        /\ UNCHANGED <<kind, overwrites, large, version, content, fresh, handle, opened, src, offset,
                       written, smooth, dirty, last>>
    BY <1>0, <1>1 DEF RemoveDest
  <2>2. Placed'
    BY <1>0, <2>1 DEF IInv, Placed, Feeding
  <2>3. Filled'
    BY <1>0, <2>1 DEF IInv, Filled, Feeding, Complete
  <2>4. OneVersion'
    BY <1>0, <2>1 DEF IInv, OneVersion, Trusted, Feeding
  <2>5. Ends'
    BY <1>0, <2>1 DEF IInv, Ends
  <2>6. NeverTruncated' /\ InstalledWhole' /\ UndisturbedSucceeds'
    BY <1>0, <2>1 DEF NeverTruncated, InstalledWhole, UndisturbedSucceeds
  <2>q. QED BY <2>2, <2>3, <2>4, <2>5, <2>6 DEF Kept
<1>2. CASE Cleanup(u)
  <2>1. /\ pc[u] = "cleanup" /\ pc'[u] = "idle" /\ ~smooth[u]
        /\ name'.partial = Absent /\ name'.dest = name.dest
        /\ UNCHANGED <<kind, overwrites, large, version, content, handle, opened, src, offset,
                       written, smooth, dirty, last>>
    BY <1>0, <1>2 DEF Cleanup, IInv, Ends
  <2>2. Placed' /\ Filled' /\ Ends'
    BY <1>0, <2>1 DEF IInv, Placed, Filled, Ends, Feeding, Complete
  <2>3. OneVersion'
    BY <1>0, <2>1 DEF OneVersion
  <2>4. NeverTruncated' /\ InstalledWhole'
    BY <2>1 DEF IInv, NeverTruncated, InstalledWhole, Installed
  <2>5. UndisturbedSucceeds'
    BY <1>0, <2>1 DEF UndisturbedSucceeds
  <2>q. QED BY <2>2, <2>3, <2>4, <2>5 DEF Kept
<1>q. QED BY <1>1, <1>2

-----------------------------------------------------------------------------
(* The theorems.                                                           *)

\* What is agreed of the partial file is kept by every step.
THEOREM Invariance ==
    ASSUME Sole
    PROVE  Spec => []IInv
<1>1. ASSUME IInv, [Next]_vars PROVE IInv'
  <2>1. Typed'
    BY <1>1, TypedStep
  <2>2. Kept'
    <3>1. CASE UNCHANGED vars
      BY <1>1, <3>1
      DEF vars, confVars, serverVars, attemptVars, countVars, histVars, Kept, IInv, Placed, Filled,
          OneVersion, Trusted, Ends, NeverTruncated, InstalledWhole, UndisturbedSucceeds, Installed
    <3>2. ASSUME NEW u \in Uploaders, Uploader(u) PROVE Kept'
      BY <1>1, <3>2, BeginningKept, OpeningKept, WritingKept, GoingOnKept, InstallKept, RemovalKept
      DEF Uploader
    <3>q. QED BY <1>1, <3>1, <3>2, EditKept DEF Next
  <2>q. QED BY <2>1, <2>2 DEF Kept, IInv
<1>q. QED BY InitIInv, <1>1, PTL DEF Spec

\* What is on the server under the file's name is never cut short, whatever
\* was edited, refused or lost (README.md:89).
THEOREM NeverCutShort ==
    ASSUME Sole
    PROVE  Spec => []NeverTruncated
<1>1. IInv => NeverTruncated
  BY DEF IInv
<1>q. QED BY Invariance, <1>1, PTL

\* It is one version of the file, the one that the upload opened, unless the
\* file was edited under it, or between two attempts with a time that does not
\* show it, or an SFTP upload was continued: as far as the times tell, a
\* partial file of an older version is never continued (canResumePartial).
THEOREM OneVersionInstalled ==
    ASSUME Sole
    PROVE  Spec => []InstalledWhole
<1>1. IInv => InstalledWhole
  BY DEF IInv
<1>q. QED BY Invariance, <1>1, PTL

\* An attempt that meets no fault installs the file, whatever those before it
\* left behind.
THEOREM FaultlessSucceeds ==
    ASSUME Sole
    PROVE  Spec => []UndisturbedSucceeds
<1>1. IInv => UndisturbedSucceeds
  BY DEF IInv
<1>q. QED BY Invariance, <1>1, PTL

\* On a server whose rename replaces its target the destination is never
\* missing once it was there, but after a rename that the server refused for
\* another reason (sftpReplace, ftpReplace).
THEOREM NeverMissing ==
    ASSUME Sole
    PROVE  Spec => DestinationKept
<1>1. ASSUME IInv, [Next]_vars, overwrites, name.dest # Absent, name' # name
      PROVE  name'.dest # Absent \/ Balked
  <2>0. name \in [partial : Inodes \cup {Absent}, dest : Inodes \cup {Absent}]
    BY <1>1 DEF IInv, Typed, TypeOK
  <2>1. PICK u \in Uploaders :
            OpenPartial(u) \/ Restart(u) \/ Rename(u) \/ RemoveDest(u) \/ Cleanup(u)
    BY <1>1 DEF Next, Uploader, vars, serverVars, Edit, Start, Stat, Write, Copied, SetAttributes,
                RenameRefused, SecondRefused, Refused, RemoveRefused, Lost
  <2>2. CASE OpenPartial(u) \/ Restart(u)
    BY <1>1, <2>0, <2>2 DEF OpenPartial, Restart, Opens
  <2>3. CASE Rename(u)
    BY <2>3 DEF Rename, Renames, Install
  <2>4. CASE RemoveDest(u)
    BY <1>1, <2>4 DEF RemoveDest, IInv, Ends, Balked
  <2>5. CASE Cleanup(u)
    BY <1>1, <2>0, <2>5 DEF Cleanup
  <2>q. QED BY <2>1, <2>2, <2>3, <2>4, <2>5
<1>2. IInv /\ [Next]_vars => [overwrites /\ name.dest # Absent => name'.dest # Absent \/ Balked]_name
  BY <1>1
<1>q. QED BY Invariance, <1>2, PTL DEF Spec, DestinationKept

-----------------------------------------------------------------------------
(* Replace.                                                                *)

\* No attempt is of an older version than what was installed last.
Forward ==
    /\ last.version <= version
    /\ \A u \in Uploaders : pc[u] # "idle" => last.version <= opened[u]

\* An attempt opens the version there is, and they take turns.
LEMMA ForwardStep ==
    ASSUME Sole, IInv, Forward, [Next]_vars
    PROVE  Forward'
<1>0. /\ version \in Nat /\ last.version \in Nat
      /\ \A u \in Uploaders : pc[u] # "idle" => opened[u] \in 1..version
      /\ opened \in [Uploaders -> 0..(MaxEdits + 1)] /\ pc \in [Uploaders -> States]
  BY BoundsAssumption DEF IInv, Typed, TypeOK, OneVersion, Versions
<1>1. CASE UNCHANGED vars
  BY <1>1 DEF vars, attemptVars, histVars, Forward
<1>2. ASSUME NEW u \in Uploaders, Start(u) PROVE Forward'
  BY <1>0, <1>2 DEF Start, Goto, Forward, histVars
<1>3. ASSUME NEW u \in Uploaders, Rename(u) PROVE Forward'
  <2>1. /\ last'.version = opened[u] /\ version' = version /\ pc[u] # "idle"
        /\ pc' = [pc EXCEPT ![u] = "idle"]
    BY <1>3 DEF Rename, Install, Goto
  <2>2. \A v \in Uploaders : pc'[v] = "idle"
    BY <1>0, <2>1 DEF Sole
  <2>q. QED BY <1>0, <1>3, <2>1, <2>2 DEF Forward
<1>4. ASSUME NEW u \in Uploaders, Uploader(u), ~Start(u), ~Rename(u) PROVE Forward'
  <2>1. /\ last' = last /\ version' = version /\ opened' = opened
        /\ \A v \in Uploaders : pc'[v] # "idle" => pc[v] # "idle"
    BY <1>0, <1>4
    DEF Uploader, Stat, OpenPartial, Restart, Opens, Write, Copied, SetAttributes, RenameRefused,
        RemoveDest, SecondRefused, Cleanup, Refused, RemoveRefused, Lost, Goto, attemptVars, histVars
  <2>q. QED BY <2>1 DEF Forward
<1>5. ASSUME NEW inPlace \in BOOLEAN, Edit(inPlace) PROVE Forward'
  BY <1>0, <1>5 DEF Edit, Forward
<1>q. QED BY <1>1, <1>2, <1>3, <1>4, <1>5 DEF Next

\* An upload that installs nothing and removes nothing changes nothing that can
\* be seen under the file's name, but what is known of the server.
LEMMA InvisibleStep ==
    ASSUME Sole, IInv, NEW u \in Uploaders, Uploader(u), ~Rename(u), ~RemoveDest(u)
    PROVE  Promise!Answer
<1>1. UNCHANGED <<version, confVars, last>>
  BY DEF Uploader, Start, Stat, OpenPartial, Restart, Opens, Write, Copied, SetAttributes,
         RenameRefused, SecondRefused, Cleanup, Refused, RemoveRefused, Lost, histVars
<1>2. name'.dest = name.dest
  BY DEF IInv, Typed, TypeOK, Uploader, Start, Stat, OpenPartial, Restart, Opens, Write, Copied,
         SetAttributes, RenameRefused, SecondRefused, Cleanup, Refused, RemoveRefused, Lost,
         serverVars
<1>3. name.dest # Absent => content'[name.dest] = content[name.dest]
  <2>1. CASE OpenPartial(u) \/ Restart(u)
    <3>1. content' = content \/ content' = [content EXCEPT ![Opened] = <<>>]
      BY <2>1 DEF OpenPartial, Restart, Opens, Opened
    <3>q. QED BY <3>1, OpensBeside DEF IInv, Typed, TypeOK
  <2>2. ASSUME NEW b \in 1..Blocks, Write(u, b) PROVE content'[name.dest] = content[name.dest]
    <3>1. handle[u] # name.dest
      BY <2>2 DEF Write, IInv, Placed, Feeding
    <3>q. QED BY <2>2, <3>1 DEF Write
  <2>q. QED BY <2>1, <2>2
    DEF Uploader, Start, Stat, Copied, SetAttributes, RenameRefused, SecondRefused, Cleanup,
        Refused, RemoveRefused, Lost, serverVars
<1>4. (overwrites' /\ ~Balked') \in BOOLEAN
  OBVIOUS
<1>q. QED BY <1>1, <1>2, <1>3, <1>4 DEF Promise!Answer, Installed, confVars

\* The rename is the moment of the replacement.
LEMMA RenamePuts ==
    ASSUME IInv, IInv', Forward, NEW u \in Uploaders, Rename(u)
    PROVE  Promise!Put
<1>1. /\ name'.dest = name.partial /\ name.partial # Absent /\ UNCHANGED <<version, confVars>>
      /\ last' = [version |-> opened[u], resumed |-> offset[u] > 0, dirty |-> dirty]
      /\ pc[u] # "idle"
  BY DEF Rename, Renames, Install
<1>2. last.version <= opened[u] /\ opened[u] <= version
  BY <1>1 DEF Forward, IInv, OneVersion
<1>3. last'.version \in last.version..version
  BY <1>1, <1>2, BoundsAssumption DEF IInv, Typed, TypeOK, Versions
<1>4. Installed' \in [1..Blocks -> Nat]
  <2>1. name'.dest \in Inodes /\ content'[name'.dest] \in Seq(Versions \cup {Hole})
    BY <1>1 DEF IInv, Typed, TypeOK
  <2>2. Len(content'[name'.dest]) = Blocks
    BY <1>1 DEF IInv, NeverTruncated, Installed
  <2>3. Versions \cup {Hole} \subseteq Nat
    BY BoundsAssumption DEF Versions, Hole
  <2>q. QED BY <2>1, <2>2, <2>3, BlocksAssumption DEF Installed
<1>5. ~(last'.dirty \/ (kind' = "sftp" /\ last'.resumed)) =>
          Installed' = [b \in 1..Blocks |-> last'.version]
  BY <1>1 DEF IInv, InstalledWhole
<1>6. /\ (last'.dirty \/ (kind' = "sftp" /\ last'.resumed)) \in BOOLEAN
      /\ (overwrites' /\ ~Balked') \in BOOLEAN
  OBVIOUS
<1>q. QED BY <1>1, <1>3, <1>4, <1>5, <1>6 DEF Promise!Put, Promise!Whole, confVars

\* Theorem: the upload of a file implements Replace.  A reader on the server
\* sees the file change in one step only, whole, and never back to an older
\* version; it is taken away only on a server that does not overwrite, or has
\* just refused to (uploadOn, sftpReplace, ftpReplace).
THEOREM UploadImplementsReplace ==
    ASSUME Sole
    PROVE  Spec => ImplementsReplace
<1>1. Init => Promise!Init /\ Forward
  BY DEF Init, Promise!Init, Promise!Gone, Forward, NoUpload, Absent
<1>2. ASSUME IInv, IInv', Forward, [Next]_vars
      PROVE  [Promise!Next]_(Promise!replaceVars)
  <2>1. CASE UNCHANGED vars
    BY <2>1 DEF vars, confVars, serverVars, histVars, Promise!replaceVars, Installed, Balked
  <2>2. ASSUME NEW inPlace \in BOOLEAN, Edit(inPlace) PROVE Promise!Save
    <3>1. /\ version' = version + 1
          /\ UNCHANGED <<kind, overwrites, name, content, pc, smooth, last>>
      BY <2>2 DEF Edit, confVars
    <3>2. (overwrites' /\ ~Balked') = (overwrites /\ ~Balked)
      BY <3>1 DEF Balked
    <3>q. QED BY <3>1, <3>2 DEF Promise!Save, Installed
  <2>3. ASSUME NEW u \in Uploaders, RemoveDest(u) PROVE Promise!TakeAway
    <3>1. /\ pc[u] = "remove" /\ pc' = [pc EXCEPT ![u] = "rename2"] /\ name'.dest = Absent
          /\ UNCHANGED <<version, overwrites, kind, smooth, last>>
      BY <1>2, <2>3 DEF RemoveDest, Goto, IInv, Typed, TypeOK, confVars, histVars
    <3>2. pc'[u] = "rename2" /\ (~overwrites \/ ~smooth[u])
      BY <1>2, <3>1 DEF IInv, Ends, Typed, TypeOK
    <3>3. (overwrites /\ ~Balked) = FALSE /\ (overwrites' /\ ~Balked') = FALSE
      BY <3>1, <3>2 DEF Balked
    <3>q. QED BY <3>1, <3>3 DEF Promise!TakeAway, Promise!Gone
  <2>q. QED BY <1>2, <2>1, <2>2, <2>3, InvisibleStep, RenamePuts DEF Next, Promise!Next
<1>q. QED BY <1>1, <1>2, ForwardStep, Invariance, PTL DEF Spec, ImplementsReplace, Promise!Spec
=============================================================================

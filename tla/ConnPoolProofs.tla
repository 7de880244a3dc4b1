--------------------------- MODULE ConnPoolProofs ---------------------------
(***************************************************************************)
(* The safety of the connection pool for any number of goroutines, any     *)
(* limit and any number of calls.                                          *)
(***************************************************************************)
EXTENDS ConnPool, FiniteSetTheorems, SequenceTheorems, TLAPS

\* The inductive invariant.  The counting of slots needs the exclusivity of
\* connections only through the program counters; the absence of stranded
\* waiters needs the counting; a failure is witnessed because an error is kept
\* only while every slot is a dial.
IInv == /\ TypeOK
        /\ SlotsAccounted
        /\ Exclusive
        /\ NoStrandedWaiter
        /\ NothingKeptAfterClose
        /\ FailureWitnessed

-----------------------------------------------------------------------------
(* Counting goroutines.                                                    *)

\* The goroutines that the control state f puts at s.
Where(f, s) == {q \in Procs : f[q] = s}

\* A set of goroutines has a cardinality.
LEMMA WhereFinite ==
    ASSUME NEW f, NEW s
    PROVE  /\ IsFiniteSet(Where(f, s))
           /\ Cardinality(Where(f, s)) \in Nat
<1>1. Where(f, s) \subseteq Procs
  BY DEF Where
<1> QED
  BY <1>1, ProcsAssumption, FS_Subset, FS_CardinalityType

\* One goroutine arrives at s and no other moves to or from s.
LEMMA Arrive ==
    ASSUME NEW f, NEW g, NEW s, NEW p \in Procs,
           f[p] # s, g[p] = s,
           \A q \in Procs \ {p} : g[q] = s <=> f[q] = s
    PROVE  Cardinality(Where(g, s)) = Cardinality(Where(f, s)) + 1
<1>1. Where(g, s) = Where(f, s) \cup {p} /\ p \notin Where(f, s)
  BY DEF Where
<1> QED
  BY <1>1, WhereFinite, FS_AddElement

\* One goroutine leaves s and no other moves to or from s.
LEMMA Depart ==
    ASSUME NEW f, NEW g, NEW s, NEW p \in Procs,
           f[p] = s, g[p] # s,
           \A q \in Procs \ {p} : g[q] = s <=> f[q] = s
    PROVE  /\ Cardinality(Where(g, s)) = Cardinality(Where(f, s)) - 1
           /\ Cardinality(Where(f, s)) >= 1
<1>1. Cardinality(Where(f, s)) = Cardinality(Where(g, s)) + 1
  BY Arrive
<1> QED
  BY <1>1, WhereFinite

\* Nobody moves to or from s.
LEMMA Stay ==
    ASSUME NEW f, NEW g, NEW s,
           \A q \in Procs : g[q] = s <=> f[q] = s
    PROVE  Cardinality(Where(g, s)) = Cardinality(Where(f, s))
<1>1. Where(g, s) = Where(f, s)
  BY DEF Where
<1> QED
  BY <1>1

-----------------------------------------------------------------------------
(* The idle stack.                                                         *)

\* No connection is on the stack twice.
NoDup(s) == \A i, j \in 1..Len(s) : s[i] = s[j] => i = j

\* What pushing a connection does to the stack.
LEMMA Push ==
    ASSUME NEW s \in Seq(Conns), NEW c \in Conns, NoDup(s), c \notin Elems(s)
    PROVE  /\ Append(s, c) \in Seq(Conns)
           /\ Len(Append(s, c)) = Len(s) + 1
           /\ Elems(Append(s, c)) = Elems(s) \cup {c}
           /\ NoDup(Append(s, c))
<1> DEFINE t == Append(s, c)
<1>1. /\ t \in Seq(Conns) /\ Len(t) = Len(s) + 1 /\ Len(s) \in Nat
      /\ \A i \in 1..Len(s) : t[i] = s[i]
      /\ t[Len(s) + 1] = c
  OBVIOUS
<1>2. \A i \in 1..Len(t) : i \in 1..Len(s) \/ i = Len(s) + 1
  BY <1>1
<1>3. Elems(t) = Elems(s) \cup {c}
  BY <1>1, <1>2 DEF Elems
<1>4. NoDup(t)
  BY <1>1, <1>2 DEF NoDup, Elems
<1> QED
  BY <1>1, <1>3, <1>4

\* What is below a position of the stack.
LEMMA Prefix ==
    ASSUME NEW s \in Seq(Conns), NEW n \in Nat, n <= Len(s)
    PROVE  /\ SubSeq(s, 1, n) \in Seq(Conns)
           /\ Len(SubSeq(s, 1, n)) = n
           /\ \A i \in 1..n : SubSeq(s, 1, n)[i] = s[i]
<1>1. \A i \in 1..n : s[i] \in Conns
  OBVIOUS
<1>2. /\ SubSeq(s, 1, n) \in Seq(Conns)
      /\ Len(SubSeq(s, 1, n)) = IF 1 <= n THEN n - 1 + 1 ELSE 0
      /\ \A i \in 1 .. n - 1 + 1 : SubSeq(s, 1, n)[i] = s[1 + i - 1]
  BY <1>1, SubSeqProperties
<1> QED
  BY <1>2

\* What popping the top of the stack does to it.
LEMMA Pop ==
    ASSUME NEW s \in Seq(Conns), s # <<>>, NoDup(s)
    PROVE  /\ s[Len(s)] \in Conns
           /\ SubSeq(s, 1, Len(s) - 1) \in Seq(Conns)
           /\ Len(SubSeq(s, 1, Len(s) - 1)) = Len(s) - 1
           /\ Elems(SubSeq(s, 1, Len(s) - 1)) = Elems(s) \ {s[Len(s)]}
           /\ s[Len(s)] \in Elems(s)
           /\ NoDup(SubSeq(s, 1, Len(s) - 1))
<1> DEFINE t == SubSeq(s, 1, Len(s) - 1)
<1>1. Len(s) \in Nat \ {0}
  OBVIOUS
<1>2. /\ t \in Seq(Conns) /\ Len(t) = Len(s) - 1
      /\ \A i \in 1..(Len(s) - 1) : t[i] = s[i]
  <2>1. Len(s) - 1 \in Nat /\ Len(s) - 1 <= Len(s)
    BY <1>1
  <2> QED
    BY <2>1, Prefix, Zenon
<1>3. \A i \in 1..Len(s) : i \in 1..(Len(s) - 1) \/ i = Len(s)
  BY <1>1
<1>4. Elems(t) = Elems(s) \ {s[Len(s)]}
  BY <1>1, <1>2, <1>3 DEF Elems, NoDup
<1>5. NoDup(t)
  BY <1>1, <1>2 DEF NoDup
<1>6. s[Len(s)] \in Conns /\ s[Len(s)] \in Elems(s)
  BY <1>1 DEF Elems
<1> QED
  BY <1>2, <1>4, <1>5, <1>6

-----------------------------------------------------------------------------
(* The inductive invariant holds initially.                                *)

\* A pool just created, empty or seeded with one connection.
LEMMA InitIInv == Init => IInv
<1> SUFFICES ASSUME Init PROVE IInv
  OBVIOUS
<1> USE NoConnAssumption, LimitAssumption, CallsAssumption
<1>1. PICK first \in {<<>>} \cup {<<c>> : c \in Conns} :
          idle = first /\ open = Len(first) /\ live = Elems(first) /\ peak = Len(first)
  BY DEF Init
<1>2. /\ idle \in Seq(Conns) /\ Len(idle) \in {0, 1} /\ Elems(idle) \subseteq Conns
      /\ open = Len(idle) /\ live = Elems(idle) /\ peak = Len(idle)
  <2>1. CASE first = <<>>
    BY <1>1, <2>1 DEF Elems
  <2>2. CASE \E c \in Conns : first = <<c>>
    <3>1. PICK c \in Conns : first = <<c>>
      BY <2>2
    <3>2. idle \in Seq(Conns) /\ Len(idle) = 1 /\ idle[1] = c
      BY <1>1, <3>1
    <3>3. Elems(idle) = {c}
      BY <3>2 DEF Elems
    <3> QED
      BY <1>1, <3>2, <3>3
  <2> QED
    BY <1>1, <2>1, <2>2
<1>3. limit \in Nat /\ limit >= 1
  BY DEF Init, Larger
<1>4. TypeOK
  <2>1. pc \in [Procs -> States] /\ conn \in [Procs -> Conns \cup {NoConn}]
        /\ calls \in [Procs -> Nat]
    BY DEF Init, States
  <2>2. /\ dialErr \in BOOLEAN /\ capped \in BOOLEAN /\ closed \in BOOLEAN
        /\ doomed = {} /\ witness = {} /\ dialing = 0
    BY DEF Init
  <2> QED
    BY <1>2, <1>3, <2>1, <2>2 DEF TypeOK
<1>5. \A s \in States \ {"outside"} : At(s) = {}
  BY DEF Init, At
<1>6. SlotsAccounted
  <2>1. Cardinality(At("dialing")) = 0 /\ Cardinality(At("holding")) = 0
    BY <1>5, FS_EmptySet DEF States
  <2> QED
    BY <1>2, <1>3, <2>1 DEF Init, SlotsAccounted
<1>7. Exclusive
  <2>1. /\ conn = [p \in Procs |-> NoConn] /\ doomed = {}
        /\ \A p \in Procs : pc[p] = "outside"
    BY DEF Init
  <2>2. \A i, j \in 1..Len(idle) : i = j
    BY <1>2
  <2> QED
    BY <1>2, <2>1, <2>2 DEF Exclusive, Idle
<1>8. NoStrandedWaiter /\ NothingKeptAfterClose /\ FailureWitnessed
  BY <1>5 DEF Init, NoStrandedWaiter, NothingKeptAfterClose, FailureWitnessed, SharesFailure, States
<1> QED
  BY <1>4, <1>6, <1>7, <1>8 DEF IInv

-----------------------------------------------------------------------------
(* Every action keeps the inductive invariant.                             *)

\* At, before and after a step, in terms of Where.
LEMMA AtWhere ==
    ASSUME NEW s
    PROVE  /\ At(s) = Where(pc, s) /\ At(s)' = Where(pc', s)
           /\ Cardinality(At(s)) \in Nat /\ Cardinality(At(s)') \in Nat
<1>1. At(s) = Where(pc, s) /\ At(s)' = Where(pc', s)
  BY DEF At, Where
<1> QED
  BY <1>1, WhereFinite

Is(x, s) == IF x = s THEN 1 ELSE 0

\* Goroutine p goes to b, and whoever else moves does not move to or from s.
LEMMA CountMoves ==
    ASSUME NEW p \in Procs, NEW b, NEW s, pc'[p] = b,
           \A q \in Procs \ {p} : pc'[q] = s <=> pc[q] = s
    PROVE  Cardinality(At(s)') = Cardinality(At(s)) + Is(b, s) - Is(pc[p], s)
<1> SUFFICES Cardinality(Where(pc', s)) =
                 Cardinality(Where(pc, s)) + Is(b, s) - Is(pc[p], s)
  BY AtWhere
<1>0. Cardinality(Where(pc, s)) \in Nat
  BY WhereFinite
<1>1. CASE pc[p] = s /\ b = s
  <2>1. \A q \in Procs : pc'[q] = s <=> pc[q] = s
    BY <1>1
  <2> QED
    BY <1>0, <1>1, <2>1, Stay DEF Is
<1>2. CASE pc[p] # s /\ b # s
  <2>1. \A q \in Procs : pc'[q] = s <=> pc[q] = s
    BY <1>2
  <2> QED
    BY <1>0, <1>2, <2>1, Stay DEF Is
<1>3. CASE pc[p] = s /\ b # s
  <2>1. Cardinality(Where(pc', s)) = Cardinality(Where(pc, s)) - 1
    BY <1>3, Depart
  <2> QED
    BY <1>0, <1>3, <2>1 DEF Is
<1>4. CASE pc[p] # s /\ b = s
  <2>1. Cardinality(Where(pc', s)) = Cardinality(Where(pc, s)) + 1
    BY <1>4, Arrive
  <2> QED
    BY <1>0, <1>4, <2>1 DEF Is
<1> QED
  BY <1>1, <1>2, <1>3, <1>4

\* A step that moves p alone.
LEMMA OneMoves ==
    ASSUME NEW p \in Procs, NEW b \in States, pc \in [Procs -> States],
           pc' = [pc EXCEPT ![p] = b]
    PROVE  /\ pc' \in [Procs -> States]
           /\ pc'[p] = b /\ \A q \in Procs \ {p} : pc'[q] = pc[q]
           /\ \A s \in States : Cardinality(At(s)') =
                 Cardinality(At(s)) + Is(b, s) - Is(pc[p], s)
<1>1. /\ pc' \in [Procs -> States]
      /\ pc'[p] = b /\ \A q \in Procs \ {p} : pc'[q] = pc[q]
  OBVIOUS
<1>2. ASSUME NEW s \in States
      PROVE  Cardinality(At(s)') = Cardinality(At(s)) + Is(b, s) - Is(pc[p], s)
  BY <1>1, CountMoves
<1> QED
  BY <1>1, <1>2

\* A step that moves p and wakes every sleeper.
LEMMA AllWake ==
    ASSUME NEW p \in Procs, NEW b \in States, pc \in [Procs -> States],
           pc' = [Broadcast EXCEPT ![p] = b]
    PROVE  /\ pc' \in [Procs -> States]
           /\ pc'[p] = b
           /\ \A q \in Procs \ {p} :
                 pc'[q] = IF pc[q] = "sleeping" THEN "woken" ELSE pc[q]
           /\ \A s \in States \ {"sleeping", "woken"} : Cardinality(At(s)') =
                 Cardinality(At(s)) + Is(b, s) - Is(pc[p], s)
           /\ b # "sleeping" => At("sleeping")' = {}
<1>1. /\ pc' \in [Procs -> States]
      /\ pc'[p] = b
      /\ \A q \in Procs \ {p} :
             pc'[q] = IF pc[q] = "sleeping" THEN "woken" ELSE pc[q]
  BY DEF Broadcast, States
<1>2. ASSUME NEW s \in States \ {"sleeping", "woken"}
      PROVE  Cardinality(At(s)') = Cardinality(At(s)) + Is(b, s) - Is(pc[p], s)
  <2>1. \A q \in Procs \ {p} : pc'[q] = s <=> pc[q] = s
    BY <1>1
  <2> QED
    BY <1>1, <2>1, CountMoves
<1>3. b # "sleeping" => At("sleeping")' = {}
  BY <1>1 DEF At
<1> QED
  BY <1>1, <1>2, <1>3

\* The arithmetic of the invariant, apart from the rest of it.
LEMMA Numbers ==
    ASSUME IInv
    PROVE  /\ open \in Nat /\ dialing \in Nat /\ limit \in Nat /\ Len(idle) \in Nat
           /\ Cardinality(At("holding")) \in Nat
           /\ dialing = Cardinality(At("dialing"))
           /\ open = Cardinality(At("holding")) + Len(idle) + dialing
           /\ open <= limit /\ limit >= 1
BY AtWhere DEF IInv, TypeOK, SlotsAccounted

\* acquire takes the top of the idle stack.
LEMMA AcquireIdleKeeps ==
    ASSUME IInv, NEW p \in Procs, AcquireIdle(p)
    PROVE  IInv'
<1> USE NoConnAssumption
<1> DEFINE c == idle[Len(idle)]
<1>0. /\ TypeOK /\ SlotsAccounted /\ Exclusive /\ NoStrandedWaiter
      /\ NothingKeptAfterClose /\ FailureWitnessed
  BY DEF IInv
<1>1. /\ pc[p] \in {"calling", "woken"} /\ ~closed /\ idle # <<>>
      /\ conn' = [conn EXCEPT ![p] = c]
      /\ idle' = SubSeq(idle, 1, Len(idle) - 1)
      /\ pc' = [pc EXCEPT ![p] = "holding"]
      /\ UNCHANGED <<open, dialing, dialErr, limit, capped, closed, doomed, live,
                     calls, witness, peak>>
  BY DEF AcquireIdle, InLoop, histVars
<1>2. idle \in Seq(Conns) /\ NoDup(idle)
  BY <1>0 DEF TypeOK, Exclusive, NoDup
<1>3. /\ c \in Conns /\ idle' \in Seq(Conns) /\ Len(idle') = Len(idle) - 1
      /\ Elems(idle') = Elems(idle) \ {c} /\ c \in Elems(idle) /\ NoDup(idle')
  BY <1>1, <1>2, Pop
<1>4. /\ pc' \in [Procs -> States]
      /\ pc'[p] = "holding" /\ \A q \in Procs \ {p} : pc'[q] = pc[q]
      /\ \A s \in States : Cardinality(At(s)') =
             Cardinality(At(s)) + Is("holding", s) - Is(pc[p], s)
  BY <1>0, <1>1, OneMoves, Zenon DEF TypeOK, States
<1>5. conn'[p] = c /\ \A q \in Procs \ {p} : conn'[q] = conn[q]
  BY <1>0, <1>1 DEF TypeOK
<1>6. TypeOK'
  BY <1>0, <1>1, <1>3, <1>4 DEF TypeOK
<1>7. SlotsAccounted'
  <2>1. /\ Cardinality(At("holding")') = Cardinality(At("holding")) + 1 - 0
        /\ Cardinality(At("dialing")') = Cardinality(At("dialing")) + 0 - 0
    BY <1>1, <1>4 DEF Is, States
  <2>2. Cardinality(At("holding")) \in Nat /\ Cardinality(At("dialing")) \in Nat
    BY AtWhere
  <2> QED
    BY <1>0, <1>1, <1>2, <1>3, <2>1, <2>2 DEF SlotsAccounted
<1>8. Exclusive'
  BY <1>0, <1>1, <1>3, <1>4, <1>5 DEF Exclusive, Idle, NoDup
<1>9. NoStrandedWaiter'
  <2>1. At("sleeping")' = At("sleeping")
    BY <1>1, <1>4 DEF At
  <2> QED
    BY <1>0, <1>1, <1>2, <1>3, <1>4, <2>1, AtWhere DEF NoStrandedWaiter, Is, States
<1>10. NothingKeptAfterClose' /\ FailureWitnessed'
  BY <1>0, <1>1, <1>4 DEF NothingKeptAfterClose, FailureWitnessed, SharesFailure, Established
<1> QED
  BY <1>6, <1>7, <1>8, <1>9, <1>10 DEF IInv

\* acquire is called.
LEMMA CallKeeps ==
    ASSUME IInv, NEW p \in Procs, Call(p)
    PROVE  IInv'
<1> USE NoConnAssumption
<1>0. /\ TypeOK /\ SlotsAccounted /\ Exclusive /\ NoStrandedWaiter
      /\ NothingKeptAfterClose /\ FailureWitnessed
  BY DEF IInv
<1>1. /\ pc[p] = "outside" /\ pc' = [pc EXCEPT ![p] = "calling"]
      /\ UNCHANGED <<idle, open, dialing, dialErr, limit, capped, closed, conn,
                     doomed, live>>
      /\ calls' \in [Procs -> Nat] /\ witness' = witness \ {p} /\ peak' \in Nat
  <2>1. calls' \in [Procs -> Nat]
    BY <1>0 DEF Call, TypeOK
  <2>2. peak' \in Nat
    <3>1. IsFiniteSet(Procs \ At("outside"))
      BY ProcsAssumption, FS_Subset
    <3>2. Cardinality(Procs \ At("outside")) \in Nat
      BY <3>1, FS_CardinalityType
    <3> QED
      BY <1>0, <3>2 DEF Call, TypeOK, Larger
  <2> QED
    BY <2>1, <2>2 DEF Call, poolVars
<1>2. /\ pc' \in [Procs -> States]
      /\ pc'[p] = "calling" /\ \A q \in Procs \ {p} : pc'[q] = pc[q]
      /\ \A s \in States : Cardinality(At(s)') =
             Cardinality(At(s)) + Is("calling", s) - Is(pc[p], s)
  BY <1>0, <1>1, OneMoves, Zenon DEF TypeOK, States
<1>3. /\ Cardinality(At("holding")') = Cardinality(At("holding")) + 0 - 0
      /\ Cardinality(At("dialing")') = Cardinality(At("dialing")) + 0 - 0
  BY <1>1, <1>2 DEF Is, States
<1>4. Cardinality(At("holding")) \in Nat /\ Cardinality(At("dialing")) \in Nat
  BY AtWhere
<1>5. TypeOK'
  BY <1>0, <1>1, <1>2 DEF TypeOK
<1>6. SlotsAccounted'
  BY <1>0, <1>1, <1>3, <1>4 DEF SlotsAccounted
<1>7. Exclusive'
  BY <1>0, <1>1, <1>2 DEF Exclusive, Idle
<1>8. NoStrandedWaiter'
  <2>1. /\ At("sleeping")' = At("sleeping")
        /\ Cardinality(At("woken")') = Cardinality(At("woken")) + 0 - 0
    BY <1>1, <1>2 DEF At, Is, States
  <2>2. Cardinality(At("woken")) \in Nat
    BY AtWhere
  <2> QED
    BY <1>0, <1>1, <2>1, <2>2 DEF NoStrandedWaiter
<1>9. NothingKeptAfterClose' /\ FailureWitnessed'
  BY <1>0, <1>1, <1>2 DEF NothingKeptAfterClose, FailureWitnessed, SharesFailure, Established
<1> QED
  BY <1>5, <1>6, <1>7, <1>8, <1>9 DEF IInv

\* acquire finds the pool closed.
LEMMA AcquireClosedKeeps ==
    ASSUME IInv, NEW p \in Procs, AcquireClosed(p)
    PROVE  IInv'
<1> USE NoConnAssumption
<1>0. /\ TypeOK /\ SlotsAccounted /\ Exclusive /\ NoStrandedWaiter
      /\ NothingKeptAfterClose /\ FailureWitnessed
  BY DEF IInv
<1>1. /\ pc[p] \in {"calling", "woken"} /\ closed
      /\ pc' = [pc EXCEPT ![p] = "outside"]
      /\ UNCHANGED <<idle, open, dialing, dialErr, limit, capped, closed, conn,
                     doomed, live>>
      /\ UNCHANGED <<calls, witness, peak>>
  BY DEF AcquireClosed, InLoop, poolVars, histVars
<1>2. /\ pc' \in [Procs -> States]
      /\ pc'[p] = "outside" /\ \A q \in Procs \ {p} : pc'[q] = pc[q]
      /\ \A s \in States : Cardinality(At(s)') =
             Cardinality(At(s)) + Is("outside", s) - Is(pc[p], s)
  BY <1>0, <1>1, OneMoves, Zenon DEF TypeOK, States
<1>3. /\ Cardinality(At("holding")') = Cardinality(At("holding")) + 0 - 0
      /\ Cardinality(At("dialing")') = Cardinality(At("dialing")) + 0 - 0
  BY <1>1, <1>2 DEF Is, States
<1>4. Cardinality(At("holding")) \in Nat /\ Cardinality(At("dialing")) \in Nat
  BY AtWhere
<1>5. TypeOK'
  BY <1>0, <1>1, <1>2 DEF TypeOK
<1>6. SlotsAccounted'
  BY <1>0, <1>1, <1>3, <1>4 DEF SlotsAccounted
<1>7. Exclusive'
  BY <1>0, <1>1, <1>2 DEF Exclusive, Idle
<1>8. NoStrandedWaiter'
  <2>1. At("sleeping")' = {}
    BY <1>0, <1>1, <1>2 DEF NoStrandedWaiter, At
  <2> QED
    BY <2>1 DEF NoStrandedWaiter
<1>9. NothingKeptAfterClose' /\ FailureWitnessed'
  BY <1>0, <1>1, <1>2 DEF NothingKeptAfterClose, FailureWitnessed, SharesFailure, Established
<1> QED
  BY <1>5, <1>6, <1>7, <1>8, <1>9 DEF IInv

\* acquire returns the failure it waited through.
LEMMA AcquireFailsKeeps ==
    ASSUME IInv, NEW p \in Procs, AcquireFails(p)
    PROVE  IInv'
<1> USE NoConnAssumption
<1>0. /\ TypeOK /\ SlotsAccounted /\ Exclusive /\ NoStrandedWaiter
      /\ NothingKeptAfterClose /\ FailureWitnessed
  BY DEF IInv
<1>1. /\ pc[p] \in {"calling", "woken"} /\ open = 0
      /\ pc' = [pc EXCEPT ![p] = "outside"]
      /\ UNCHANGED <<idle, open, dialing, dialErr, limit, capped, closed, conn,
                     doomed, live>>
      /\ UNCHANGED <<calls, witness, peak>>
  BY DEF AcquireFails, SharesFailure, InLoop, poolVars, histVars
<1>2. /\ pc' \in [Procs -> States]
      /\ pc'[p] = "outside" /\ \A q \in Procs \ {p} : pc'[q] = pc[q]
      /\ \A s \in States : Cardinality(At(s)') =
             Cardinality(At(s)) + Is("outside", s) - Is(pc[p], s)
  BY <1>0, <1>1, OneMoves, Zenon DEF TypeOK, States
<1>3. /\ Cardinality(At("holding")') = Cardinality(At("holding")) + 0 - 0
      /\ Cardinality(At("dialing")') = Cardinality(At("dialing")) + 0 - 0
  BY <1>1, <1>2 DEF Is, States
<1>4. Cardinality(At("holding")) \in Nat /\ Cardinality(At("dialing")) \in Nat
  BY AtWhere
<1>5. TypeOK'
  BY <1>0, <1>1, <1>2 DEF TypeOK
<1>6. SlotsAccounted'
  BY <1>0, <1>1, <1>3, <1>4 DEF SlotsAccounted
<1>7. Exclusive'
  BY <1>0, <1>1, <1>2 DEF Exclusive, Idle
<1>8. NoStrandedWaiter'
  <2>1. At("sleeping")' = {}
    <3>1. open # limit
      BY <1>0, <1>1 DEF SlotsAccounted, TypeOK
    <3> QED
      BY <1>0, <1>1, <1>2, <3>1 DEF NoStrandedWaiter, At
  <2> QED
    BY <2>1 DEF NoStrandedWaiter
<1>9. NothingKeptAfterClose' /\ FailureWitnessed'
  BY <1>0, <1>1, <1>2 DEF NothingKeptAfterClose, FailureWitnessed, SharesFailure, Established
<1> QED
  BY <1>5, <1>6, <1>7, <1>8, <1>9 DEF IInv

\* acquire finds every slot taken and sleeps.
LEMMA AcquireWaitsKeeps ==
    ASSUME IInv, NEW p \in Procs, AcquireWaits(p)
    PROVE  IInv'
<1> USE NoConnAssumption
<1>0. /\ TypeOK /\ SlotsAccounted /\ Exclusive /\ NoStrandedWaiter
      /\ NothingKeptAfterClose /\ FailureWitnessed
  BY DEF IInv
<1>1. /\ pc[p] \in {"calling", "woken"} /\ ~closed /\ idle = <<>> /\ open >= limit
      /\ pc' = [pc EXCEPT ![p] = "sleeping"]
      /\ UNCHANGED <<idle, open, dialing, dialErr, limit, capped, closed, conn,
                     doomed, live>>
      /\ UNCHANGED <<calls, witness, peak>>
  BY DEF AcquireWaits, InLoop, poolVars, histVars
<1>2. /\ pc' \in [Procs -> States]
      /\ pc'[p] = "sleeping" /\ \A q \in Procs \ {p} : pc'[q] = pc[q]
      /\ \A s \in States : Cardinality(At(s)') =
             Cardinality(At(s)) + Is("sleeping", s) - Is(pc[p], s)
  BY <1>0, <1>1, OneMoves, Zenon DEF TypeOK, States
<1>3. /\ Cardinality(At("holding")') = Cardinality(At("holding")) + 0 - 0
      /\ Cardinality(At("dialing")') = Cardinality(At("dialing")) + 0 - 0
  BY <1>1, <1>2 DEF Is, States
<1>4. Cardinality(At("holding")) \in Nat /\ Cardinality(At("dialing")) \in Nat
  BY AtWhere
<1>5. TypeOK'
  BY <1>0, <1>1, <1>2 DEF TypeOK
<1>6. SlotsAccounted'
  BY <1>0, <1>1, <1>3, <1>4 DEF SlotsAccounted
<1>7. Exclusive'
  BY <1>0, <1>1, <1>2 DEF Exclusive, Idle
<1>8. NoStrandedWaiter'
  <2>1. Cardinality(At("woken")') \in Nat
    BY AtWhere
  <2>2. open = limit
    BY <1>0, <1>1 DEF SlotsAccounted, TypeOK
  <2>3. Len(idle') = 0
    BY <1>1
  <2> QED
    BY <1>1, <2>1, <2>2, <2>3 DEF NoStrandedWaiter
<1>9. NothingKeptAfterClose' /\ FailureWitnessed'
  BY <1>0, <1>1, <1>2 DEF NothingKeptAfterClose, FailureWitnessed, SharesFailure, Established
<1> QED
  BY <1>5, <1>6, <1>7, <1>8, <1>9 DEF IInv

\* acquire takes a free slot and dials.
LEMMA AcquireDialsKeeps ==
    ASSUME IInv, NEW p \in Procs, AcquireDials(p)
    PROVE  IInv'
<1> USE NoConnAssumption
<1>0. /\ TypeOK /\ SlotsAccounted /\ Exclusive /\ NoStrandedWaiter
      /\ NothingKeptAfterClose /\ FailureWitnessed
  BY DEF IInv
<1>1. /\ pc[p] \in {"calling", "woken"} /\ ~closed /\ idle = <<>> /\ open < limit
      /\ ~(pc[p] = "woken" /\ open = 0 /\ dialErr)
      /\ open' = open + 1 /\ dialing' = dialing + 1
      /\ pc' = [pc EXCEPT ![p] = "dialing"]
      /\ UNCHANGED <<idle, dialErr, limit, capped, closed, conn, doomed, live,
                     calls, witness, peak>>
  BY DEF AcquireDials, SharesFailure, InLoop, histVars
<1>2. /\ pc' \in [Procs -> States]
      /\ pc'[p] = "dialing" /\ \A q \in Procs \ {p} : pc'[q] = pc[q]
      /\ \A s \in States : Cardinality(At(s)') =
             Cardinality(At(s)) + Is("dialing", s) - Is(pc[p], s)
  BY <1>0, <1>1, OneMoves, Zenon DEF TypeOK, States
<1>3. /\ Cardinality(At("holding")') = Cardinality(At("holding")) + 0 - 0
      /\ Cardinality(At("dialing")') = Cardinality(At("dialing")) + 1 - 0
  BY <1>1, <1>2 DEF Is, States
<1>4. Cardinality(At("holding")) \in Nat /\ Cardinality(At("dialing")) \in Nat
  BY AtWhere
<1>5. TypeOK'
  BY <1>0, <1>1, <1>2 DEF TypeOK
<1>6. SlotsAccounted'
  BY <1>0, <1>1, <1>3, <1>4 DEF SlotsAccounted, TypeOK
<1>7. Exclusive'
  BY <1>0, <1>1, <1>2 DEF Exclusive, Idle
<1>8. NoStrandedWaiter'
  <2>1. open # limit
    BY <1>0, <1>1 DEF TypeOK
  <2>2. At("sleeping")' = {}
    BY <1>0, <1>2, <2>1 DEF NoStrandedWaiter, At
  <2> QED
    BY <2>2 DEF NoStrandedWaiter
<1>9. NothingKeptAfterClose' /\ FailureWitnessed'
  BY <1>0, <1>1, <1>2 DEF NothingKeptAfterClose, FailureWitnessed, SharesFailure, Established, TypeOK
<1> QED
  BY <1>5, <1>6, <1>7, <1>8, <1>9 DEF IInv

\* A dial succeeds.
LEMMA DialSucceedsKeeps ==
    ASSUME IInv, NEW p \in Procs, DialSucceeds(p)
    PROVE  IInv'
<1> USE NoConnAssumption
<1>0. /\ TypeOK /\ SlotsAccounted /\ Exclusive /\ NoStrandedWaiter
      /\ NothingKeptAfterClose /\ FailureWitnessed
  BY DEF IInv
<1>1. PICK c \in Conns \ live :
          /\ pc[p] = "dialing" /\ live' = live \cup {c}
          /\ dialing' = dialing - 1 /\ dialErr' = FALSE
          /\ IF closed
               THEN /\ open' = open - 1
                    /\ doomed' = doomed \cup {c}
                    /\ pc' = [pc EXCEPT ![p] = "outside"]
                    /\ UNCHANGED conn
               ELSE /\ conn' = [conn EXCEPT ![p] = c]
                    /\ pc' = [pc EXCEPT ![p] = "holding"]
                    /\ UNCHANGED <<open, doomed>>
          /\ UNCHANGED <<idle, limit, capped, closed, calls, witness, peak>>
  BY DEF DialSucceeds, histVars
<1> DEFINE b == IF closed THEN "outside" ELSE "holding"
<1>2. /\ pc' \in [Procs -> States]
      /\ pc'[p] = b /\ \A q \in Procs \ {p} : pc'[q] = pc[q]
      /\ \A s \in States : Cardinality(At(s)') =
             Cardinality(At(s)) + Is(b, s) - Is(pc[p], s)
  <2>1. pc' = [pc EXCEPT ![p] = b] /\ b \in States
    BY <1>1 DEF States
  <2> HIDE DEF b
  <2> QED
    BY <1>0, <2>1, OneMoves, Zenon DEF TypeOK
<1>3. /\ Cardinality(At("holding")') = Cardinality(At("holding")) + (IF closed THEN 0 ELSE 1) - 0
      /\ Cardinality(At("dialing")') = Cardinality(At("dialing")) + 0 - 1
      /\ Cardinality(At("woken")') = Cardinality(At("woken")) + 0 - 0
  BY <1>1, <1>2 DEF Is, States
<1>4. /\ Cardinality(At("holding")) \in Nat /\ Cardinality(At("dialing")) \in Nat
      /\ Cardinality(At("holding")') \in Nat /\ Cardinality(At("dialing")') \in Nat
      /\ Cardinality(At("woken")) \in Nat
  BY AtWhere
<1>5. TypeOK'
  <2>1. open' \in Nat /\ dialing' \in Nat
    <3>1. Cardinality(At("dialing")) >= 1
      BY <1>3, <1>4
    <3>2. dialing >= 1 /\ open >= 1
      BY <1>0, <1>4, <3>1 DEF SlotsAccounted, TypeOK
    <3> QED
      BY <1>0, <1>1, <3>2 DEF TypeOK
  <2>2. conn' \in [Procs -> Conns \cup {NoConn}] /\ doomed' \subseteq Conns /\ live' \subseteq Conns
    BY <1>0, <1>1 DEF TypeOK
  <2> QED
    BY <1>0, <1>1, <1>2, <2>1, <2>2 DEF TypeOK
<1>6. SlotsAccounted'
  <2>1. open' = open - (IF closed THEN 1 ELSE 0)
    BY <1>0, <1>1 DEF TypeOK
  <2>2. limit' = limit /\ idle' = idle /\ dialing' = dialing - 1
    BY <1>1
  <2> QED
    BY <1>3, <1>4, <2>1, <2>2, Numbers DEF SlotsAccounted
<1>7. Exclusive'
  <2>1. c \notin Idle \cup doomed /\ \A q \in Procs : conn[q] # c
    BY <1>0, <1>1 DEF Exclusive
  <2>2. conn[p] = NoConn
    BY <1>0, <1>1 DEF Exclusive
  <2>3. CASE closed
    BY <1>0, <1>1, <1>2, <2>1, <2>2, <2>3 DEF Exclusive, Idle
  <2>4. CASE ~closed
    <3>1. conn'[p] = c /\ \A q \in Procs \ {p} : conn'[q] = conn[q]
      BY <1>0, <1>1, <2>4 DEF TypeOK
    <3>2. doomed' = doomed /\ idle' = idle /\ live' = live \cup {c}
      BY <1>1, <2>4
    <3>3. pc'[p] = "holding"
      BY <1>2, <2>4
    <3> QED
      BY <1>0, <1>2, <2>1, <2>2, <3>1, <3>2, <3>3 DEF Exclusive, Idle
  <2> QED
    BY <2>3, <2>4
<1>8. NoStrandedWaiter'
  <2>1. At("sleeping")' = At("sleeping")
    BY <1>1, <1>2 DEF At
  <2> QED
    BY <1>0, <1>1, <1>3, <1>4, <2>1 DEF NoStrandedWaiter
<1>9. NothingKeptAfterClose' /\ FailureWitnessed'
  BY <1>0, <1>1 DEF NothingKeptAfterClose, FailureWitnessed, SharesFailure
<1> QED
  BY <1>5, <1>6, <1>7, <1>8, <1>9 DEF IInv

\* A dial fails and nothing is established.
LEMMA DialFailsForAllKeeps ==
    ASSUME IInv, NEW p \in Procs, DialFailsForAll(p)
    PROVE  IInv'
<1> USE NoConnAssumption
<1>0. /\ TypeOK /\ SlotsAccounted /\ Exclusive /\ NoStrandedWaiter
      /\ NothingKeptAfterClose /\ FailureWitnessed
  BY DEF IInv
<1>1. /\ pc[p] = "dialing" /\ open - dialing = 0
      /\ open' = open - 1 /\ dialing' = dialing - 1 /\ dialErr' = TRUE
      /\ pc' = [Broadcast EXCEPT ![p] = "outside"]
      /\ witness' = witness \cup At("sleeping") \cup At("woken")
      /\ UNCHANGED <<idle, limit, capped, closed, conn, doomed, live, calls, peak>>
  BY DEF DialFailsForAll, Established
<1>2. /\ pc' \in [Procs -> States]
      /\ pc'[p] = "outside"
      /\ \A q \in Procs \ {p} :
             pc'[q] = IF pc[q] = "sleeping" THEN "woken" ELSE pc[q]
      /\ \A s \in States \ {"sleeping", "woken"} : Cardinality(At(s)') =
             Cardinality(At(s)) + Is("outside", s) - Is(pc[p], s)
      /\ "outside" # "sleeping" => At("sleeping")' = {}
  BY <1>0, <1>1, AllWake, Zenon DEF TypeOK, States
<1>3. /\ Cardinality(At("holding")') = Cardinality(At("holding")) + 0 - 0
      /\ Cardinality(At("dialing")') = Cardinality(At("dialing")) + 0 - 1
  BY <1>1, <1>2 DEF Is, States
<1>4. Cardinality(At("holding")) \in Nat /\ Cardinality(At("dialing")) \in Nat
  BY AtWhere
<1>5. TypeOK'
  <2>1. open' \in Nat /\ dialing' \in Nat
    <3>1. Cardinality(At("dialing")') \in Nat
      BY AtWhere
    <3>2. dialing >= 1 /\ open >= 1
      BY <1>3, <1>4, <3>1, Numbers
    <3> QED
      BY <1>0, <1>1, <3>2 DEF TypeOK
  <2>2. witness' \subseteq Procs
    BY <1>0, <1>1 DEF TypeOK, At
  <2> QED
    BY <1>0, <1>1, <1>2, <2>1, <2>2 DEF TypeOK
<1>6. SlotsAccounted'
  <2>1. UNCHANGED <<idle, limit>> /\ open' = open - 1 /\ dialing' = dialing - 1
    BY <1>1
  <2> QED
    BY <1>3, <1>4, <2>1, Numbers DEF SlotsAccounted
<1>7. Exclusive'
  BY <1>0, <1>1, <1>2 DEF Exclusive, Idle
<1>8. NoStrandedWaiter'
  BY <1>2 DEF NoStrandedWaiter
<1>9. NothingKeptAfterClose' /\ FailureWitnessed'
  <2>1. \A q \in Procs : pc'[q] = "woken" => q \in witness'
    BY <1>1, <1>2 DEF At
  <2>2. open' - dialing' = 0
    BY <1>0, <1>1 DEF TypeOK
  <2> QED
    BY <1>0, <1>1, <2>1, <2>2 DEF NothingKeptAfterClose, FailureWitnessed, SharesFailure, Established
<1> QED
  BY <1>5, <1>6, <1>7, <1>8, <1>9 DEF IInv

\* A dial fails while a connection is established.
LEMMA DialFailsForOneKeeps ==
    ASSUME IInv, NEW p \in Procs, DialFailsForOne(p)
    PROVE  IInv'
<1> USE NoConnAssumption
<1>0. /\ TypeOK /\ SlotsAccounted /\ Exclusive /\ NoStrandedWaiter
      /\ NothingKeptAfterClose /\ FailureWitnessed
  BY DEF IInv
<1>1. /\ pc[p] = "dialing" /\ open - dialing > 0
      /\ open' = open - 1 /\ dialing' = dialing - 1 /\ limit' = open - 1
      /\ capped' = TRUE
      /\ UNCHANGED <<dialErr, closed, doomed, live, calls, witness, peak>>
  BY DEF DialFailsForOne, Established, histVars
<1>2. /\ Cardinality(At("holding")) \in Nat /\ Cardinality(At("dialing")) \in Nat
      /\ Cardinality(At("dialing")') \in Nat /\ Cardinality(At("woken")') \in Nat
      /\ Len(idle) \in Nat /\ idle \in Seq(Conns) /\ NoDup(idle)
  BY <1>0, AtWhere DEF TypeOK, Exclusive, NoDup
<1>3. ~dialErr
  BY <1>0, <1>1 DEF FailureWitnessed, Established, TypeOK
<1>4. ASSUME Cardinality(At("dialing")') = Cardinality(At("dialing")) - 1
      PROVE  /\ open' \in Nat /\ dialing' \in Nat /\ limit' \in Nat
             /\ limit' = open' /\ limit' >= 1
             /\ dialing' = Cardinality(At("dialing")')
  <2>1. dialing >= 1
    BY <1>0, <1>2, <1>4 DEF SlotsAccounted
  <2>2. open > 1
    BY <1>0, <1>1, <2>1 DEF TypeOK
  <2> QED
    BY <1>1, <1>4, <2>1, <2>2, Numbers
<1>5. CASE closed /\ pc' = [Broadcast EXCEPT ![p] = "outside"] /\ UNCHANGED <<idle, conn>>
  <2>1. /\ pc' \in [Procs -> States]
        /\ pc'[p] = "outside"
        /\ \A q \in Procs \ {p} :
               pc'[q] = IF pc[q] = "sleeping" THEN "woken" ELSE pc[q]
        /\ \A s \in States \ {"sleeping", "woken"} : Cardinality(At(s)') =
               Cardinality(At(s)) + Is("outside", s) - Is(pc[p], s)
        /\ "outside" # "sleeping" => At("sleeping")' = {}
    BY <1>0, <1>1, <1>5, AllWake, Zenon DEF TypeOK, States
  <2>2. /\ Cardinality(At("holding")') = Cardinality(At("holding")) + 0 - 0
        /\ Cardinality(At("dialing")') = Cardinality(At("dialing")) + 0 - 1
    BY <1>1, <2>1 DEF Is, States
  <2>3. TypeOK'
    BY <1>0, <1>1, <1>2, <1>4, <1>5, <2>1, <2>2 DEF TypeOK
  <2>4. SlotsAccounted'
    <3>1. open' = open - 1 /\ idle' = idle
      BY <1>1, <1>5
    <3> QED
      BY <1>4, <2>2, <3>1, Numbers DEF SlotsAccounted
  <2>5. Exclusive'
    BY <1>0, <1>1, <1>5, <2>1 DEF Exclusive, Idle
  <2>6. NoStrandedWaiter'
    BY <2>1 DEF NoStrandedWaiter
  <2>7. NothingKeptAfterClose' /\ FailureWitnessed'
    BY <1>0, <1>1, <1>3, <1>5 DEF NothingKeptAfterClose, FailureWitnessed, SharesFailure
  <2> QED
    BY <2>3, <2>4, <2>5, <2>6, <2>7 DEF IInv
<1>6. CASE /\ ~closed /\ idle # <<>>
           /\ conn' = [conn EXCEPT ![p] = idle[Len(idle)]]
           /\ idle' = SubSeq(idle, 1, Len(idle) - 1)
           /\ pc' = [Broadcast EXCEPT ![p] = "holding"]
  <2> DEFINE c == idle[Len(idle)]
  <2>1. /\ pc' \in [Procs -> States]
        /\ pc'[p] = "holding"
        /\ \A q \in Procs \ {p} :
               pc'[q] = IF pc[q] = "sleeping" THEN "woken" ELSE pc[q]
        /\ \A s \in States \ {"sleeping", "woken"} : Cardinality(At(s)') =
               Cardinality(At(s)) + Is("holding", s) - Is(pc[p], s)
        /\ "holding" # "sleeping" => At("sleeping")' = {}
    BY <1>0, <1>1, <1>6, AllWake, Zenon DEF TypeOK, States
  <2>2. /\ Cardinality(At("holding")') = Cardinality(At("holding")) + 1 - 0
        /\ Cardinality(At("dialing")') = Cardinality(At("dialing")) + 0 - 1
    BY <1>1, <2>1 DEF Is, States
  <2>3. /\ c \in Conns /\ idle' \in Seq(Conns) /\ Len(idle') = Len(idle) - 1
        /\ Elems(idle') = Elems(idle) \ {c} /\ c \in Elems(idle) /\ NoDup(idle')
    BY <1>2, <1>6, Pop
  <2>4. conn'[p] = c /\ \A q \in Procs \ {p} : conn'[q] = conn[q]
    BY <1>0, <1>6 DEF TypeOK
  <2>5. TypeOK'
    BY <1>0, <1>1, <1>2, <1>4, <1>6, <2>1, <2>2, <2>3 DEF TypeOK
  <2>6. SlotsAccounted'
    <3>1. open' = open - 1
      BY <1>1
    <3> QED
      BY <1>4, <2>2, <2>3, <3>1, Numbers DEF SlotsAccounted
  <2>7. Exclusive'
    <3>1. doomed' = doomed /\ live' = live /\ conn[p] = NoConn
      BY <1>0, <1>1 DEF Exclusive
    <3> HIDE DEF c
    <3> QED
      BY <1>0, <2>1, <2>3, <2>4, <3>1 DEF Exclusive, Idle, NoDup
  <2>8. NoStrandedWaiter'
    BY <2>1 DEF NoStrandedWaiter
  <2>9. NothingKeptAfterClose' /\ FailureWitnessed'
    BY <1>0, <1>1, <1>3, <1>6 DEF NothingKeptAfterClose, FailureWitnessed, SharesFailure
  <2> QED
    BY <2>5, <2>6, <2>7, <2>8, <2>9 DEF IInv
<1>7. CASE /\ ~closed /\ idle = <<>>
           /\ pc' = [Broadcast EXCEPT ![p] = "sleeping"]
           /\ UNCHANGED <<idle, conn>>
  <2>1. /\ pc' \in [Procs -> States]
        /\ pc'[p] = "sleeping"
        /\ \A q \in Procs \ {p} :
               pc'[q] = IF pc[q] = "sleeping" THEN "woken" ELSE pc[q]
        /\ \A s \in States \ {"sleeping", "woken"} : Cardinality(At(s)') =
               Cardinality(At(s)) + Is("sleeping", s) - Is(pc[p], s)
        /\ "sleeping" # "sleeping" => At("sleeping")' = {}
    BY <1>0, <1>1, <1>7, AllWake, Zenon DEF TypeOK, States
  <2>2. /\ Cardinality(At("holding")') = Cardinality(At("holding")) + 0 - 0
        /\ Cardinality(At("dialing")') = Cardinality(At("dialing")) + 0 - 1
    BY <1>1, <2>1 DEF Is, States
  <2>3. TypeOK'
    BY <1>0, <1>1, <1>2, <1>4, <1>7, <2>1, <2>2 DEF TypeOK
  <2>4. SlotsAccounted'
    <3>1. open' = open - 1 /\ idle' = idle
      BY <1>1, <1>7
    <3> QED
      BY <1>4, <2>2, <3>1, Numbers DEF SlotsAccounted
  <2>5. Exclusive'
    BY <1>0, <1>1, <1>7, <2>1 DEF Exclusive, Idle
  <2>6. NoStrandedWaiter'
    <3>1. Len(idle') = 0 /\ ~closed'
      BY <1>1, <1>7
    <3> QED
      BY <1>2, <1>4, <2>2, <3>1 DEF NoStrandedWaiter
  <2>7. NothingKeptAfterClose' /\ FailureWitnessed'
    BY <1>0, <1>1, <1>3, <1>7 DEF NothingKeptAfterClose, FailureWitnessed, SharesFailure
  <2> QED
    BY <2>3, <2>4, <2>5, <2>6, <2>7 DEF IInv
<1> QED
  BY <1>5, <1>6, <1>7 DEF DialFailsForOne

\* A connection goes back to the idle stack.
LEMMA ReleaseToPoolKeeps ==
    ASSUME IInv, NEW p \in Procs, ReleaseToPool(p)
    PROVE  IInv'
<1> USE NoConnAssumption
<1>0. /\ TypeOK /\ SlotsAccounted /\ Exclusive /\ NoStrandedWaiter
      /\ NothingKeptAfterClose /\ FailureWitnessed
  BY DEF IInv
<1> DEFINE c == conn[p]
           newpc == [pc EXCEPT ![p] = "outside"]
<1>1. /\ pc[p] = "holding" /\ ~closed /\ idle' = Append(idle, c)
      /\ conn' = [conn EXCEPT ![p] = NoConn] /\ Signal(newpc)
      /\ UNCHANGED <<open, dialing, dialErr, limit, capped, closed, doomed, live,
                     calls, witness, peak>>
  BY DEF ReleaseToPool, histVars
<1>2. /\ pc' \in [Procs -> States] /\ pc'[p] = "outside"
      /\ \/ /\ At("sleeping")' = {}
            /\ \A q \in Procs \ {p} : pc'[q] = pc[q]
         \/ \E w \in Procs \ {p} :
               /\ pc[w] = "sleeping" /\ pc'[w] = "woken"
               /\ \A q \in Procs \ {p, w} : pc'[q] = pc[q]
  <2>1. newpc \in [Procs -> States]
    BY <1>0 DEF TypeOK, States
  <2>2. CASE \E w \in Procs : newpc[w] = "sleeping" /\ pc' = [newpc EXCEPT ![w] = "woken"]
    BY <1>0, <2>2 DEF TypeOK, States
  <2>3. CASE pc' = newpc /\ ~ \E w \in Procs : newpc[w] = "sleeping"
    BY <1>0, <2>1, <2>3 DEF TypeOK, At
  <2> QED
    BY <1>1, <2>2, <2>3 DEF Signal
<1>3. /\ Cardinality(At("holding")') = Cardinality(At("holding")) + 0 - 1
      /\ Cardinality(At("dialing")') = Cardinality(At("dialing")) + 0 - 0
  <2>1. /\ \A q \in Procs \ {p} : pc'[q] = "holding" <=> pc[q] = "holding"
        /\ \A q \in Procs \ {p} : pc'[q] = "dialing" <=> pc[q] = "dialing"
    BY <1>2
  <2>2. /\ Cardinality(At("holding")') =
             Cardinality(At("holding")) + Is("outside", "holding") - Is(pc[p], "holding")
        /\ Cardinality(At("dialing")') =
             Cardinality(At("dialing")) + Is("outside", "dialing") - Is(pc[p], "dialing")
    BY <1>2, <2>1, CountMoves, Zenon
  <2> QED
    BY <1>1, <2>2 DEF Is
<1>4. /\ c \in Conns /\ idle' \in Seq(Conns) /\ Len(idle') = Len(idle) + 1
      /\ Elems(idle') = Elems(idle) \cup {c} /\ c \notin Elems(idle) /\ NoDup(idle')
      /\ conn'[p] = NoConn /\ \A q \in Procs \ {p} : conn'[q] = conn[q]
  <2>1. c \in Conns /\ c \notin Elems(idle)
    BY <1>0, <1>1 DEF TypeOK, Exclusive, Idle
  <2>2. idle \in Seq(Conns) /\ NoDup(idle)
    BY <1>0 DEF TypeOK, Exclusive, NoDup
  <2>3. conn'[p] = NoConn /\ \A q \in Procs \ {p} : conn'[q] = conn[q]
    BY <1>0, <1>1 DEF TypeOK
  <2> QED
    BY <1>1, <2>1, <2>2, <2>3, Push
<1>5. TypeOK'
  BY <1>0, <1>1, <1>2, <1>4 DEF TypeOK
<1>6. SlotsAccounted'
  <2>1. UNCHANGED <<open, dialing, limit>>
    BY <1>1
  <2> QED
    BY <1>3, <1>4, <2>1, Numbers DEF SlotsAccounted
<1>7. Exclusive'
  <2>1. doomed' = doomed /\ live' = live /\ pc[p] = "holding"
    BY <1>1
  <2>2. \A q \in Procs \ {p} : pc'[q] \in {"holding", "closing"} <=> pc[q] \in {"holding", "closing"}
    BY <1>2
  <2>3. pc'[p] = "outside"
    BY <1>2
  <2>0. /\ c = conn[p] /\ c # NoConn /\ c \notin doomed
        /\ \A q \in Procs \ {p} : conn[q] # c
        /\ NoConn \notin Elems(idle) \cup doomed
    BY <1>0, <1>4 DEF Exclusive, TypeOK, Elems
  <2> HIDE DEF c
  <2>4. \A q, r \in Procs : conn'[q] = conn'[r] => q = r \/ conn'[q] = NoConn
    BY <1>0, <1>4 DEF Exclusive
  <2>5. \A i, j \in 1..Len(idle') : idle'[i] = idle'[j] => i = j
    BY <1>0, <1>4 DEF Exclusive, NoDup
  <2>6. \A q \in Procs : /\ conn'[q] # NoConn <=> pc'[q] \in {"holding", "closing"}
                        /\ conn'[q] \notin Elems(idle') \cup doomed'
    BY <1>0, <1>4, <2>0, <2>1, <2>2, <2>3 DEF Exclusive, Idle
  <2>7. Elems(idle') \cap doomed' = {}
    BY <1>0, <1>4, <2>0, <2>1 DEF Exclusive, Idle
  <2>8. ASSUME NEW d \in Conns
        PROVE  d \in live' <=> \/ d \in Elems(idle') \cup doomed'
                               \/ \E q \in Procs : conn'[q] = d
    BY <1>0, <1>4, <2>0, <2>1, <2>2, <2>3 DEF Exclusive, Idle
  <2> QED
    BY <2>4, <2>5, <2>6, <2>7, <2>8 DEF Exclusive, Idle
<1>8. NoStrandedWaiter'
  <2>1. CASE At("sleeping")' = {}
    BY <2>1 DEF NoStrandedWaiter
  <2>2. CASE \E w \in Procs \ {p} :
               /\ pc[w] = "sleeping" /\ pc'[w] = "woken"
               /\ \A q \in Procs \ {p, w} : pc'[q] = pc[q]
    <3>1. PICK w \in Procs \ {p} :
               /\ pc[w] = "sleeping" /\ pc'[w] = "woken"
               /\ \A q \in Procs \ {p, w} : pc'[q] = pc[q]
      BY <2>2
    <3>2. \A q \in Procs \ {w} : pc'[q] = "woken" <=> pc[q] = "woken"
      BY <1>1, <1>2, <3>1
    <3>3. Cardinality(At("woken")') =
              Cardinality(At("woken")) + Is("woken", "woken") - Is(pc[w], "woken")
      BY <3>1, <3>2, CountMoves, Zenon
    <3>4. Cardinality(At("woken")') = Cardinality(At("woken")) + 1 - 0
      BY <3>1, <3>3 DEF Is
    <3>5. Cardinality(At("woken")) \in Nat
      BY AtWhere
    <3>6. At("sleeping") # {}
      BY <3>1 DEF At
    <3>7. UNCHANGED <<closed, open, limit>>
      BY <1>1
    <3> QED
      BY <1>0, <1>4, <3>4, <3>5, <3>6, <3>7, Numbers DEF NoStrandedWaiter
  <2> QED
    BY <1>2, <2>1, <2>2
<1>9. NothingKeptAfterClose' /\ FailureWitnessed'
  <2>1. ~dialErr
    <3>1. Cardinality(At("holding")) >= 1
      <4>1. Cardinality(At("holding")') \in Nat
        BY AtWhere
      <4> QED
        BY <1>3, <4>1, Numbers
    <3> QED
      BY <1>0, <3>1, Numbers DEF FailureWitnessed, Established
  <2> QED
    BY <1>0, <1>1, <2>1 DEF NothingKeptAfterClose, FailureWitnessed, SharesFailure
<1> QED
  BY <1>5, <1>6, <1>7, <1>8, <1>9 DEF IInv

\* A slot is freed by a connection that is to be closed.
LEMMA ReleaseToCloseKeeps ==
    ASSUME IInv, NEW p \in Procs, ReleaseToClose(p)
    PROVE  IInv'
<1> USE NoConnAssumption
<1>0. /\ TypeOK /\ SlotsAccounted /\ Exclusive /\ NoStrandedWaiter
      /\ NothingKeptAfterClose /\ FailureWitnessed
  BY DEF IInv
<1>1. /\ pc[p] = "holding" /\ open' = open - 1
      /\ pc' = [Broadcast EXCEPT ![p] = "closing"]
      /\ UNCHANGED <<idle, dialing, dialErr, limit, capped, closed, conn, doomed,
                     live, calls, witness, peak>>
  BY DEF ReleaseToClose, histVars
<1>2. /\ pc' \in [Procs -> States]
      /\ pc'[p] = "closing"
      /\ \A q \in Procs \ {p} :
             pc'[q] = IF pc[q] = "sleeping" THEN "woken" ELSE pc[q]
      /\ \A s \in States \ {"sleeping", "woken"} : Cardinality(At(s)') =
             Cardinality(At(s)) + Is("closing", s) - Is(pc[p], s)
      /\ "closing" # "sleeping" => At("sleeping")' = {}
  BY <1>0, <1>1, AllWake, Zenon DEF TypeOK, States
<1>3. /\ Cardinality(At("holding")') = Cardinality(At("holding")) + 0 - 1
      /\ Cardinality(At("dialing")') = Cardinality(At("dialing")) + 0 - 0
  BY <1>1, <1>2 DEF Is, States
<1>4. Cardinality(At("holding")) \in Nat /\ Cardinality(At("dialing")) \in Nat
  BY AtWhere
<1>5. TypeOK' /\ ~dialErr
  <2>1. open >= 1 /\ open - dialing >= 1
    <3>1. Cardinality(At("holding")') \in Nat
      BY AtWhere
    <3> QED
      BY <1>3, <3>1, Numbers
  <2>2. open' \in Nat
    BY <1>1, <2>1, Numbers
  <2>3. ~dialErr
    BY <1>0, <2>1, Numbers DEF FailureWitnessed, Established
  <2> QED
    BY <1>0, <1>1, <1>2, <2>2, <2>3 DEF TypeOK
<1>6. SlotsAccounted'
  <2>1. UNCHANGED <<idle, dialing, limit>> /\ open' = open - 1
    BY <1>1
  <2> QED
    BY <1>3, <2>1, Numbers DEF SlotsAccounted
<1>7. Exclusive'
  BY <1>0, <1>1, <1>2 DEF Exclusive, Idle
<1>8. NoStrandedWaiter'
  BY <1>2 DEF NoStrandedWaiter
<1>9. NothingKeptAfterClose' /\ FailureWitnessed'
  BY <1>0, <1>1, <1>5 DEF NothingKeptAfterClose, FailureWitnessed, SharesFailure
<1> QED
  BY <1>5, <1>6, <1>7, <1>8, <1>9 DEF IInv

\* The connection a release discards has been closed.
LEMMA CloseReleasedKeeps ==
    ASSUME IInv, NEW p \in Procs, CloseReleased(p)
    PROVE  IInv'
<1> USE NoConnAssumption
<1>0. /\ TypeOK /\ SlotsAccounted /\ Exclusive /\ NoStrandedWaiter
      /\ NothingKeptAfterClose /\ FailureWitnessed
  BY DEF IInv
<1>1. /\ pc[p] = "closing" /\ live' = live \ {conn[p]}
      /\ conn' = [conn EXCEPT ![p] = NoConn]
      /\ pc' = [pc EXCEPT ![p] = "outside"]
      /\ UNCHANGED <<idle, open, dialing, dialErr, limit, capped, closed, doomed,
                     calls, witness, peak>>
  BY DEF CloseReleased, poolVars, histVars
<1>2. /\ pc' \in [Procs -> States]
      /\ pc'[p] = "outside" /\ \A q \in Procs \ {p} : pc'[q] = pc[q]
      /\ \A s \in States : Cardinality(At(s)') =
             Cardinality(At(s)) + Is("outside", s) - Is(pc[p], s)
  BY <1>0, <1>1, OneMoves, Zenon DEF TypeOK, States
<1>3. /\ Cardinality(At("holding")') = Cardinality(At("holding")) + 0 - 0
      /\ Cardinality(At("dialing")') = Cardinality(At("dialing")) + 0 - 0
  BY <1>1, <1>2 DEF Is, States
<1>4. Cardinality(At("holding")) \in Nat /\ Cardinality(At("dialing")) \in Nat
  BY AtWhere
<1>5. TypeOK'
  BY <1>0, <1>1, <1>2 DEF TypeOK
<1>6. SlotsAccounted'
  BY <1>0, <1>1, <1>3, <1>4 DEF SlotsAccounted
<1>7. Exclusive'
  <2>1. conn'[p] = NoConn /\ \A q \in Procs \ {p} : conn'[q] = conn[q]
    BY <1>0, <1>1 DEF TypeOK
  <2>2. doomed' = doomed /\ idle' = idle /\ live' = live \ {conn[p]} /\ conn[p] # NoConn
    BY <1>0, <1>1 DEF Exclusive
  <2>3. NoConn \notin Elems(idle) \cup doomed
    BY <1>0 DEF TypeOK, Elems
  <2>4. \A q, r \in Procs : conn'[q] = conn'[r] => q = r \/ conn'[q] = NoConn
    BY <1>0, <2>1 DEF Exclusive
  <2>5. \A i, j \in 1..Len(idle') : idle'[i] = idle'[j] => i = j
    BY <1>0, <2>2 DEF Exclusive, NoDup
  <2>6. \A q \in Procs : /\ conn'[q] # NoConn <=> pc'[q] \in {"holding", "closing"}
                        /\ conn'[q] \notin Elems(idle') \cup doomed'
    BY <1>0, <1>2, <2>1, <2>2, <2>3 DEF Exclusive, Idle
  <2>7. Elems(idle') \cap doomed' = {}
    BY <1>0, <2>2, <2>1, <2>2 DEF Exclusive, Idle
  <2>8. ASSUME NEW d \in Conns
        PROVE  d \in live' <=> \/ d \in Elems(idle') \cup doomed'
                               \/ \E q \in Procs : conn'[q] = d
    BY <1>0, <1>2, <2>1, <2>2 DEF Exclusive, Idle
  <2> QED
    BY <2>4, <2>5, <2>6, <2>7, <2>8 DEF Exclusive, Idle
<1>8. NoStrandedWaiter'
  <2>1. /\ At("sleeping")' = At("sleeping")
        /\ Cardinality(At("woken")') = Cardinality(At("woken")) + 0 - 0
    BY <1>1, <1>2 DEF At, Is, States
  <2>2. Cardinality(At("woken")) \in Nat
    BY AtWhere
  <2> QED
    BY <1>0, <1>1, <2>1, <2>2 DEF NoStrandedWaiter
<1>9. NothingKeptAfterClose' /\ FailureWitnessed'
  BY <1>0, <1>1, <1>2 DEF NothingKeptAfterClose, FailureWitnessed, SharesFailure, Established
<1> QED
  BY <1>5, <1>6, <1>7, <1>8, <1>9 DEF IInv

\* tryAcquireIdle takes an idle connection, or returns without one.
LEMMA TryAcquireIdleKeeps ==
    ASSUME IInv, NEW p \in Procs, TryAcquireIdle(p)
    PROVE  IInv'
<1> USE NoConnAssumption
<1>0. /\ TypeOK /\ SlotsAccounted /\ Exclusive /\ NoStrandedWaiter
      /\ NothingKeptAfterClose /\ FailureWitnessed
  BY DEF IInv
<1>1. /\ pc[p] = "outside" /\ witness' = witness \ {p}
      /\ calls' \in [Procs -> Nat] /\ peak' \in Nat
      /\ UNCHANGED <<open, dialing, dialErr, limit, capped, closed, doomed, live>>
  <2>1. calls' \in [Procs -> Nat]
    BY <1>0 DEF TryAcquireIdle, TypeOK
  <2>2. peak' \in Nat
    <3>1. IsFiniteSet(Procs \ At("outside"))
      BY ProcsAssumption, FS_Subset
    <3>2. Cardinality(Procs \ At("outside")) \in Nat
      BY <3>1, FS_CardinalityType
    <3> QED
      BY <1>0, <3>2 DEF TryAcquireIdle, TypeOK, Larger
  <2> QED
    BY <2>1, <2>2 DEF TryAcquireIdle
<1>2. CASE UNCHANGED <<conn, idle, pc>>
  <2>1. \A s : At(s)' = At(s)
    BY <1>2 DEF At
  <2>2. TypeOK' /\ SlotsAccounted'
    BY <1>0, <1>1, <1>2, <2>1 DEF TypeOK, SlotsAccounted
  <2>3. Exclusive' /\ NoStrandedWaiter' /\ NothingKeptAfterClose'
    BY <1>0, <1>1, <1>2, <2>1 DEF Exclusive, Idle, NoStrandedWaiter, NothingKeptAfterClose
  <2>4. FailureWitnessed'
    BY <1>0, <1>1, <1>2 DEF FailureWitnessed, SharesFailure, Established
  <2> QED
    BY <2>2, <2>3, <2>4 DEF IInv
<1>3. CASE /\ idle # <<>> /\ ~closed
           /\ conn' = [conn EXCEPT ![p] = idle[Len(idle)]]
           /\ idle' = SubSeq(idle, 1, Len(idle) - 1)
           /\ pc' = [pc EXCEPT ![p] = "holding"]
  <2> DEFINE c == idle[Len(idle)]
  <2>1. /\ pc' \in [Procs -> States]
        /\ pc'[p] = "holding" /\ \A q \in Procs \ {p} : pc'[q] = pc[q]
        /\ \A s \in States : Cardinality(At(s)') =
               Cardinality(At(s)) + Is("holding", s) - Is(pc[p], s)
    BY <1>0, <1>3, OneMoves, Zenon DEF TypeOK, States
  <2>2. /\ Cardinality(At("holding")') = Cardinality(At("holding")) + 1 - 0
        /\ Cardinality(At("dialing")') = Cardinality(At("dialing")) + 0 - 0
        /\ Cardinality(At("woken")') = Cardinality(At("woken")) + 0 - 0
    BY <1>1, <2>1 DEF Is, States
  <2>3. idle \in Seq(Conns) /\ NoDup(idle)
    BY <1>0 DEF TypeOK, Exclusive, NoDup
  <2>4. /\ c \in Conns /\ idle' \in Seq(Conns) /\ Len(idle') = Len(idle) - 1
        /\ Elems(idle') = Elems(idle) \ {c} /\ c \in Elems(idle) /\ NoDup(idle')
    BY <1>3, <2>3, Pop
  <2>5. conn'[p] = c /\ \A q \in Procs \ {p} : conn'[q] = conn[q]
    BY <1>0, <1>3 DEF TypeOK
  <2>6. TypeOK'
    BY <1>0, <1>1, <1>3, <2>1, <2>4 DEF TypeOK
  <2>7. SlotsAccounted'
    BY <1>1, <2>2, <2>4, Numbers DEF SlotsAccounted
  <2>8. Exclusive'
    <3>1. doomed' = doomed /\ live' = live /\ conn[p] = NoConn
      BY <1>0, <1>1 DEF Exclusive
    <3> HIDE DEF c
    <3> QED
      BY <1>0, <2>1, <2>4, <2>5, <3>1 DEF Exclusive, Idle, NoDup
  <2>9. NoStrandedWaiter'
    <3>1. At("sleeping")' = At("sleeping")
      BY <1>1, <2>1 DEF At
    <3>2. Cardinality(At("woken")) \in Nat
      BY AtWhere
    <3> QED
      BY <1>0, <1>1, <2>2, <2>4, <3>1, <3>2, Numbers DEF NoStrandedWaiter
  <2>10. NothingKeptAfterClose' /\ FailureWitnessed'
    BY <1>0, <1>1, <1>3, <2>1 DEF NothingKeptAfterClose, FailureWitnessed, SharesFailure, Established
  <2> QED
    BY <2>6, <2>7, <2>8, <2>9, <2>10 DEF IInv
<1> QED
  BY <1>2, <1>3 DEF TryAcquireIdle

\* closeAll.
LEMMA CloseAllKeeps ==
    ASSUME IInv, CloseAll
    PROVE  IInv'
<1> USE NoConnAssumption
<1>0. /\ TypeOK /\ SlotsAccounted /\ Exclusive /\ NoStrandedWaiter
      /\ NothingKeptAfterClose /\ FailureWitnessed
  BY DEF IInv
<1>1. /\ ~closed /\ closed' = TRUE /\ doomed' = doomed \cup Elems(idle) /\ idle' = <<>>
      /\ open' = open - Len(idle) /\ pc' = Broadcast
      /\ UNCHANGED <<dialing, dialErr, limit, capped, conn, live, calls, witness, peak>>
  BY DEF CloseAll, Idle, histVars
<1>2. /\ pc' \in [Procs -> States]
      /\ \A q \in Procs : pc'[q] = IF pc[q] = "sleeping" THEN "woken" ELSE pc[q]
  BY <1>0, <1>1 DEF Broadcast, TypeOK, States
<1>3. /\ At("holding")' = At("holding") /\ At("dialing")' = At("dialing")
      /\ At("sleeping")' = {}
  BY <1>2 DEF At
<1>4. Len(idle') = 0 /\ Elems(idle') = {} /\ Elems(idle) \subseteq Conns
  BY <1>0, <1>1 DEF Elems, TypeOK
<1>5. TypeOK'
  <2>1. open' \in Nat
    BY <1>1, Numbers
  <2> QED
    BY <1>0, <1>1, <1>2, <1>4, <2>1 DEF TypeOK
<1>6. SlotsAccounted'
  <2>1. open' = open - Len(idle) /\ UNCHANGED <<dialing, limit>>
    BY <1>1
  <2> QED
    BY <1>3, <1>4, <2>1, Numbers DEF SlotsAccounted
<1>7. Exclusive'
  <2>1. \A q \in Procs : pc'[q] \in {"holding", "closing"} <=> pc[q] \in {"holding", "closing"}
    BY <1>2
  <2>2. \A i, j \in 1..Len(idle') : idle'[i] = idle'[j] => i = j
    BY <1>4
  <2>3. doomed' = doomed \cup Elems(idle) /\ live' = live /\ conn' = conn
    BY <1>1
  <2> QED
    BY <1>0, <1>4, <2>1, <2>2, <2>3 DEF Exclusive, Idle
<1>8. NoStrandedWaiter'
  BY <1>3 DEF NoStrandedWaiter
<1>9. NothingKeptAfterClose' /\ FailureWitnessed'
  <2>1. ASSUME dialErr
        PROVE  /\ open' = open /\ open' - dialing' = 0
               /\ \A q \in Procs : pc[q] = "sleeping" => open # 0
    <3>1. open - dialing = 0
      BY <1>0, <2>1 DEF FailureWitnessed, Established
    <3>2. open' = open /\ dialing' = dialing
      BY <1>1, <3>1, Numbers
    <3>3. \A q \in Procs : pc[q] = "sleeping" => open = limit
      BY <1>0 DEF NoStrandedWaiter, At
    <3>4. limit # 0
      BY Numbers
    <3>5. \A q \in Procs : pc[q] = "sleeping" => open # 0
      BY <3>3, <3>4, Zenon
    <3>6. open' - dialing' = 0
      BY <3>1, <3>2
    <3> QED
      BY <3>2, <3>5, <3>6, Zenon
  <2> QED
    BY <1>0, <1>1, <1>2, <2>1 DEF NothingKeptAfterClose, FailureWitnessed, SharesFailure, Established
<1> QED
  BY <1>5, <1>6, <1>7, <1>8, <1>9 DEF IInv

\* A connection that left the pool is closed.
LEMMA CloseDoomedKeeps ==
    ASSUME IInv, CloseDoomed
    PROVE  IInv'
<1> USE NoConnAssumption
<1>0. /\ TypeOK /\ SlotsAccounted /\ Exclusive /\ NoStrandedWaiter
      /\ NothingKeptAfterClose /\ FailureWitnessed
  BY DEF IInv
<1>1. PICK c \in doomed : /\ doomed' = doomed \ {c} /\ live' = live \ {c}
                          /\ UNCHANGED <<poolVars, pc, conn, histVars>>
  BY DEF CloseDoomed
<1>2. \A s : At(s)' = At(s)
  BY <1>1 DEF At
<1>3. TypeOK' /\ SlotsAccounted'
  BY <1>0, <1>1, <1>2 DEF TypeOK, SlotsAccounted, poolVars, histVars
<1>4. Exclusive'
  BY <1>0, <1>1 DEF Exclusive, Idle, poolVars
<1>5. NoStrandedWaiter' /\ NothingKeptAfterClose'
  BY <1>0, <1>1, <1>2 DEF NoStrandedWaiter, NothingKeptAfterClose, poolVars
<1>6. FailureWitnessed'
  BY <1>0, <1>1 DEF FailureWitnessed, SharesFailure, Established, poolVars, histVars
<1> QED
  BY <1>3, <1>4, <1>5, <1>6 DEF IInv

\* Steps in which nothing changes.
LEMMA StutterKeeps ==
    ASSUME IInv, UNCHANGED vars
    PROVE  IInv'
<1>1. UNCHANGED <<idle, open, dialing, dialErr, limit, capped, closed, pc, conn,
                  doomed, live, calls, witness, peak>>
  BY DEF vars, poolVars, histVars
<1>2. \A s : At(s)' = At(s)
  BY <1>1 DEF At
<1>3. TypeOK' /\ SlotsAccounted'
  BY <1>1, <1>2 DEF IInv, TypeOK, SlotsAccounted
<1>4. Exclusive'
  BY <1>1 DEF IInv, Exclusive, Idle
<1>5. NoStrandedWaiter' /\ NothingKeptAfterClose'
  BY <1>1, <1>2 DEF IInv, NoStrandedWaiter, NothingKeptAfterClose
<1>6. FailureWitnessed'
  BY <1>1 DEF IInv, FailureWitnessed, SharesFailure, Established
<1> QED
  BY <1>3, <1>4, <1>5, <1>6 DEF IInv

-----------------------------------------------------------------------------
(* The theorems.                                                           *)

\* The inductive invariant holds in every state of every behaviour of the pool.
THEOREM Invariance == Spec => []IInv
<1>1. IInv /\ [Next]_vars => IInv'
  <2> SUFFICES ASSUME IInv, [Next]_vars
               PROVE  IInv'
    OBVIOUS
  <2>1. ASSUME NEW p \in Procs, Call(p) \/ TryAcquireIdle(p) PROVE IInv'
    BY <2>1, CallKeeps, TryAcquireIdleKeeps
  <2>2. ASSUME NEW p \in Procs, Acquire(p) PROVE IInv'
    BY <2>2, AcquireClosedKeeps, AcquireIdleKeeps, AcquireFailsKeeps,
       AcquireDialsKeeps, AcquireWaitsKeeps DEF Acquire
  <2>3. ASSUME NEW p \in Procs, DialReturns(p) PROVE IInv'
    BY <2>3, DialSucceedsKeeps, DialFailsForAllKeeps, DialFailsForOneKeeps
       DEF DialReturns
  <2>4. ASSUME NEW p \in Procs, Release(p) \/ CloseReleased(p) PROVE IInv'
    BY <2>4, ReleaseToPoolKeeps, ReleaseToCloseKeeps, CloseReleasedKeeps DEF Release
  <2>5. CASE CloseAll \/ CloseDoomed
    BY <2>5, CloseAllKeeps, CloseDoomedKeeps
  <2>6. CASE Done \/ UNCHANGED vars
    BY <2>6, StutterKeeps DEF Done
  <2> QED
    BY <2>1, <2>2, <2>3, <2>4, <2>5, <2>6 DEF Next
<1> QED
  BY <1>1, InitIInv, PTL DEF Spec

\* Type correctness.
THEOREM TypeCorrect == Spec => []TypeOK
BY Invariance, PTL DEF IInv

\* p.open counts exactly the lent, idle and half-open connections, and stays
\* within a limit of at least one, whatever dials fail and in whatever order.
THEOREM SlotsAreAccounted == Spec => []SlotsAccounted
BY Invariance, PTL DEF IInv

\* acquire gives exclusive use of an open connection.
THEOREM UseIsExclusive == Spec => []Exclusive
BY Invariance, PTL DEF IInv

\* No wake-up is lost: a goroutine sleeps in cond.Wait only while the pool is
\* full and every idle connection has a goroutine on its way to it.
THEOREM NobodyStranded == Spec => []NoStrandedWaiter
BY Invariance, PTL DEF IInv

\* A waiter is only ever given the error of a dial it waited through.
THEOREM FailuresAreWitnessed == Spec => []FailureWitnessed
BY Invariance, PTL DEF IInv
=============================================================================

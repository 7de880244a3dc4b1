--------------------------- MODULE ClientPoolProofs ---------------------------
(***************************************************************************)
(* The leases of the pool of clients, for any number of callers, profiles, *)
(* clients and reloads.                                                    *)
(*                                                                         *)
(* An open client is in one situation at a time: about to be installed by  *)
(* the caller that dialled it, offered for a profile, retired under its    *)
(* users, or about to be closed by one goroutine.  Which of them it is     *)
(* must agree with the counter of its users, as that is all that release   *)
(* and retire look at.                                                     *)
(***************************************************************************)
EXTENDS ClientPool, FiniteSetTheorems, TLAPS

Holding(p) == pc[p] \in Leasing

\* A caller that has its client to itself: nobody else knows of it yet, or
\* still.
Alone(p) == pc[p] \in {"install", "discard", "closing"}

\* Between the calls, and while there is nothing to share, hands are empty.
EmptyHands == \A p \in Procs : hand[p] = NoClient <=> pc[p] \in {"outside", "lookup", "dial"}

\* What is offered is open, is offered for one profile only, and is not
\* about to be closed.
Offers ==
    \A n \in Names : current[n] # NoClient =>
        /\ phase[current[n]] = "open" /\ spawned[current[n]] = 0
        /\ current[n] \notin retired
        /\ \A m \in Names : current[m] = current[n] => m = n

\* What is leased is open; it is still offered for the profile it was leased
\* for, or it is retired.
Leases ==
    \A p \in Procs : Holding(p) =>
        /\ phase[hand[p]] = "open" /\ spawned[hand[p]] = 0
        /\ hand[p] \in retired \/ current[name[p]] = hand[p]

Solitude ==
    \A p \in Procs : Alone(p) =>
        /\ phase[hand[p]] = "open" /\ spawned[hand[p]] = 0
        /\ hand[p] \in retired <=> pc[p] # "install"
        /\ \A n \in Names : current[n] # hand[p]
        /\ \A q \in Procs \ {p} : hand[q] # hand[p]

\* A goroutine that will close a client is the only one, and the last to
\* know of it.
Spawned ==
    \A c \in Clients :
        /\ spawned[c] \in {0, 1}
        /\ spawned[c] = 1 => /\ phase[c] = "open"
                             /\ \A p \in Procs : hand[p] # c
                             /\ \A n \in Names : current[n] # c
        /\ c \in retired => phase[c] # "unused"

IInv == /\ TypeOK /\ LeasesCounted /\ EmptyHands
        /\ Offers /\ Leases /\ Solitude /\ Spawned /\ NothingLeaks

-----------------------------------------------------------------------------
(* Counting the users of a client.                                         *)

\* A set of callers with one member more.
LEMMA OneMore ==
    ASSUME NEW S \in SUBSET Procs, NEW p \in Procs \ S
    PROVE  /\ Cardinality(S) \in Nat
           /\ Cardinality(S \cup {p}) = Cardinality(S) + 1
<1>1. IsFiniteSet(S)
  BY ProcsAssumption, FS_Subset
<1>q. QED BY <1>1, FS_AddElement, FS_CardinalityType

\* What the number of users says of who they are, when p is one of them.
LEMMA UserOf ==
    ASSUME NEW S \in SUBSET Procs, NEW p \in S
    PROVE  /\ Cardinality(S) \in Nat /\ Cardinality(S) >= 1
           /\ Cardinality(S) = 1 <=> S = {p}
<1>1. IsFiniteSet(S \ {p}) /\ S = (S \ {p}) \cup {p}
  BY ProcsAssumption, FS_Subset
<1>2. /\ Cardinality(S \ {p}) \in Nat
      /\ Cardinality(S) = Cardinality(S \ {p}) + 1
  BY <1>1, OneMore
<1>3. Cardinality(S \ {p}) = 0 <=> S \ {p} = {}
  BY <1>1, FS_EmptySet
<1>q. QED BY <1>1, <1>2, <1>3

\* Nobody uses a client that has no users, and the other way round.
LEMMA NoUsers ==
    ASSUME NEW S \in SUBSET Procs
    PROVE  Cardinality(S) = 0 <=> S = {}
BY ProcsAssumption, FS_Subset, FS_EmptySet

One(b) == IF b THEN 1 ELSE 0

\* The counters follow the step of one caller, if they do so at the client
\* that it had and at the one that it has.
LEMMA CountersFollow ==
    ASSUME TypeOK, LeasesCounted, NEW p \in Procs,
           \A q \in Procs \ {p} : pc'[q] = pc[q] /\ hand'[q] = hand[q],
           \A c \in Clients :
               users'[c] = users[c] + One(p \in Holders(c)') - One(p \in Holders(c))
    PROVE  LeasesCounted'
<1> SUFFICES ASSUME NEW c \in Clients PROVE users'[c] = Cardinality(Holders(c)')
  BY DEF LeasesCounted
<1>1. /\ Holders(c) \in SUBSET Procs /\ Holders(c)' \in SUBSET Procs
      /\ Holders(c) \ {p} = Holders(c)' \ {p}
  BY DEF Holders
<1>2. /\ users[c] = Cardinality(Holders(c)) /\ users[c] \in Nat
      /\ users'[c] = users[c] + One(p \in Holders(c)') - One(p \in Holders(c))
  BY DEF LeasesCounted, TypeOK
<1> DEFINE R == Holders(c) \ {p}
<1>3. /\ R \in SUBSET Procs /\ p \in Procs \ R /\ Cardinality(R) \in Nat
      /\ Cardinality(R \cup {p}) = Cardinality(R) + 1
  BY <1>1, OneMore
<1> HIDE DEF R
<1>4. Cardinality(Holders(c)) = Cardinality(R) + One(p \in Holders(c))
  <2>1. CASE p \in Holders(c)
    <3>1. Holders(c) = R \cup {p} /\ One(p \in Holders(c)) = 1
      BY <2>1 DEF R, One
    <3>q. QED BY <3>1, <1>3
  <2>2. CASE p \notin Holders(c)
    <3>1. Holders(c) = R /\ One(p \in Holders(c)) = 0
      BY <2>2 DEF R, One
    <3>q. QED BY <3>1, <1>3
  <2>q. QED BY <2>1, <2>2
<1>5. Cardinality(Holders(c)') = Cardinality(R) + One(p \in Holders(c)')
  <2>1. CASE p \in Holders(c)'
    <3>1. Holders(c)' = R \cup {p} /\ One(p \in Holders(c)') = 1
      BY <2>1, <1>1 DEF R, One
    <3>q. QED BY <3>1, <1>3
  <2>2. CASE p \notin Holders(c)'
    <3>1. Holders(c)' = R /\ One(p \in Holders(c)') = 0
      BY <2>2, <1>1 DEF R, One
    <3>q. QED BY <3>1, <1>3
  <2>q. QED BY <2>1, <2>2
<1>6. One(p \in Holders(c)) \in Nat /\ One(p \in Holders(c)') \in Nat
  BY DEF One
<1>q. QED BY <1>2, <1>3, <1>4, <1>5, <1>6

\* Nobody who stays where he is changes a counter.
LEMMA CountersStay ==
    ASSUME LeasesCounted, UNCHANGED <<users, pc, hand>>
    PROVE  LeasesCounted'
BY DEF LeasesCounted, Holders

-----------------------------------------------------------------------------
(* The inductive invariant holds initially.                                *)

\* A pool just made has no clients.
LEMMA InitIInv == Init => IInv
<1> SUFFICES ASSUME Init PROVE IInv
  OBVIOUS
<1> USE NoneAssumption, ReloadsAssumption
<1>1. TypeOK
  <2>1. /\ profiles \in [Names -> Settings \cup {Absent}]
        /\ name \in [Procs -> Names] /\ pc \in [Procs -> States]
    BY DEF Init, States
  <2>2. /\ current \in [Names -> Clients \cup {NoClient}]
        /\ users \in [Clients -> Nat] /\ spawned \in [Clients -> Nat]
    BY DEF Init
  <2>3. /\ phase \in [Clients -> {"unused", "open", "closed"}]
        /\ madeFor \in [Clients -> Settings \cup {Absent}]
    BY DEF Init
  <2>4. hand \in [Procs -> Clients \cup {NoClient}]
    BY DEF Init
  <2>5. asked \in [Procs -> Settings \cup {Absent}]
    BY DEF Init
  <2>6. failed \in [Procs -> BOOLEAN] /\ stopped \in BOOLEAN
    BY Zenon DEF Init
  <2>7. /\ retired \subseteq Clients /\ trusted \subseteq Clients /\ alive \subseteq Clients
        /\ reloads \in 0..MaxReloads
    BY DEF Init
  <2>q. QED BY <2>1, <2>2, <2>3, <2>4, <2>5, <2>6, <2>7 DEF TypeOK
<1>2. LeasesCounted
  <2>1. \A c \in Clients : Holders(c) = {}
    BY DEF Init, Holders, Leasing
  <2>q. QED BY <2>1, FS_EmptySet DEF LeasesCounted, Init
<1>3. EmptyHands /\ Offers /\ Leases /\ Solitude /\ Spawned /\ NothingLeaks
  BY DEF Init, EmptyHands, Offers, Leases, Holding, Solitude, Alone, Spawned, NothingLeaks, Leasing
<1>q. QED BY <1>1, <1>2, <1>3 DEF IInv


-----------------------------------------------------------------------------
(* The steps of a caller.                                                  *)

\* What the counter of its client tells a caller that has a lease of it.
LEMMA LastUser ==
    ASSUME TypeOK, LeasesCounted, EmptyHands, NEW p \in Procs, Holding(p)
    PROVE  /\ hand[p] \in Clients /\ users[hand[p]] >= 1
           /\ users[hand[p]] = 1 <=>
                  \A q \in Procs \ {p} : Holding(q) => hand[q] # hand[p]
<1>1. hand[p] \in Clients
  BY DEF TypeOK, EmptyHands, Holding, Leasing
<1>2. /\ Holders(hand[p]) \in SUBSET Procs /\ p \in Holders(hand[p])
      /\ users[hand[p]] = Cardinality(Holders(hand[p]))
  BY <1>1 DEF Holders, Holding, LeasesCounted
<1>3. users[hand[p]] >= 1 /\ (users[hand[p]] = 1 <=> Holders(hand[p]) = {p})
  BY <1>2, UserOf
<1>q. QED BY <1>1, <1>2, <1>3 DEF Holders, Holding

\* And the counter of a client that nobody has a lease of.
LEMMA Unleased ==
    ASSUME LeasesCounted, NEW c \in Clients
    PROVE  users[c] = 0 <=> \A q \in Procs : Holding(q) => hand[q] # c
<1>1. users[c] = 0 <=> Holders(c) = {}
  BY NoUsers DEF LeasesCounted, Holders
<1>q. QED BY <1>1 DEF Holders, Holding

\* The invariant looks at neither of these.
LEMMA StayIInv ==
    ASSUME IInv, TypeOK',
           UNCHANGED <<current, users, retired, phase, spawned, pc, name, hand>>
    PROVE  IInv'
<1>1. LeasesCounted'
  BY CountersStay DEF IInv
<1>q. QED
  BY <1>1 DEF IInv, EmptyHands, Offers, Leases, Holding, Solitude, Alone, Spawned,
              NothingLeaks, Holders, Closers

\* A lease more of what is offered: the counter goes up under the same mutex.
LEMMA AcquireSharesStep ==
    ASSUME IInv, NEW p \in Procs, NEW n \in Names, AcquireShares(p, n)
    PROVE  IInv'
<1> USE NoneAssumption DEF IInv
<1>1. /\ current[n] \in Clients /\ current[n] \notin retired
      /\ hand' = [hand EXCEPT ![p] = current[n]]
      /\ name' = [name EXCEPT ![p] = n]
      /\ users' = [users EXCEPT ![current[n]] = @ + 1]
      /\ pc[p] = "outside" /\ \E s \in {"using", "probe"} : pc' = [pc EXCEPT ![p] = s]
  BY DEF AcquireShares, Offered, Take, Goto, TypeOK
<1>2. TypeOK'
  BY <1>1 DEF TypeOK, AcquireShares, States, clientVars, confVars
<1>3. LeasesCounted'
  <2>1. \A q \in Procs \ {p} : pc'[q] = pc[q] /\ hand'[q] = hand[q]
    BY <1>1 DEF TypeOK
  <2>2. ASSUME NEW c \in Clients
        PROVE  users'[c] = users[c] + One(p \in Holders(c)') - One(p \in Holders(c))
    <3>1. p \notin Holders(c) /\ (p \in Holders(c)' <=> c = current[n])
      BY <1>1 DEF Holders, Leasing, TypeOK
    <3>q. QED BY <3>1, <1>1 DEF One, TypeOK
  <2>q. QED BY <2>1, <2>2, CountersFollow
<1>4. UNCHANGED <<current, retired, phase, spawned>>
  BY DEF AcquireShares, clientVars
<1>5. EmptyHands'
  BY <1>1 DEF EmptyHands, TypeOK
<1>6. Offers'
  BY <1>4 DEF Offers
<1>7. Leases'
  BY <1>1, <1>4 DEF Leases, Holding, Leasing, TypeOK, Offers
<1>8. Solitude'
  BY <1>1, <1>4 DEF Solitude, Alone, TypeOK, Offers
<1>9. Spawned'
  BY <1>1, <1>4 DEF Spawned, TypeOK, Offers
<1>10. NothingLeaks'
  BY <1>1, <1>4 DEF NothingLeaks, Holders, Closers, Leasing, TypeOK
<1>q. QED BY <1>2, <1>3, <1>5, <1>6, <1>7, <1>8, <1>9, <1>10

\* A caller that finds nothing to share goes to dial, and counts nowhere.
LEMMA AcquireDialsStep ==
    ASSUME IInv, NEW p \in Procs, NEW n \in Names, AcquireDials(p, n)
    PROVE  IInv'
<1> USE NoneAssumption DEF IInv
<1>1. /\ name' = [name EXCEPT ![p] = n] /\ pc' = [pc EXCEPT ![p] = "dial"]
      /\ pc[p] = "outside"
      /\ UNCHANGED <<current, users, retired, trusted, phase, alive, madeFor, spawned, hand>>
  BY DEF AcquireDials, Goto, entryVars, clientVars
<1>2. TypeOK'
  BY <1>1 DEF TypeOK, AcquireDials, States, confVars
<1>3. LeasesCounted'
  <2>1. \A q \in Procs \ {p} : pc'[q] = pc[q] /\ hand'[q] = hand[q]
    BY <1>1 DEF TypeOK
  <2>2. ASSUME NEW c \in Clients
        PROVE  users'[c] = users[c] + One(p \in Holders(c)') - One(p \in Holders(c))
    <3>1. p \notin Holders(c) /\ p \notin Holders(c)'
      BY <1>1 DEF Holders, Leasing, TypeOK
    <3>q. QED BY <3>1, <1>1 DEF One, TypeOK
  <2>q. QED BY <2>1, <2>2, CountersFollow
<1>q. QED
  BY <1>1, <1>2, <1>3 DEF EmptyHands, TypeOK, Offers, Leases, Holding, Leasing, Solitude,
                          Alone, Spawned, NothingLeaks, Holders, Closers

\* A caller keeps its lease through the probe and the operation.
LEMMA ProbeStep ==
    ASSUME IInv, NEW p \in Procs, Probe(p) \/ ProbePassed(p) \/ Operate(p)
    PROVE  IInv'
<1> USE NoneAssumption DEF IInv
<1>1. /\ Holding(p) /\ \E s \in Leasing : pc' = [pc EXCEPT ![p] = s]
      /\ trusted' \subseteq trusted \cup {hand[p]}
      /\ UNCHANGED <<current, users, retired, phase, alive, madeFor, spawned, hand, name>>
  BY DEF Probe, ProbePassed, Operate, Goto, entryVars, clientVars, Holding, Leasing
<1>2. TypeOK'
  <2>1. failed' \in [Procs -> BOOLEAN]
    BY DEF TypeOK, Probe, ProbePassed, Operate
  <2>2. hand[p] \in Clients /\ Leasing \subseteq States
    BY <1>1 DEF TypeOK, EmptyHands, Holding, Leasing, States
  <2>3. UNCHANGED <<asked, profiles, stopped, reloads>>
    BY DEF Probe, ProbePassed, Operate, confVars
  <2>q. QED BY <1>1, <2>1, <2>2, <2>3 DEF TypeOK
<1>3. \A c \in Clients : Holders(c)' = Holders(c) /\ Closers(c)' = Closers(c)
  BY <1>1 DEF Holders, Closers, Holding, Leasing, TypeOK
<1>4. LeasesCounted'
  BY <1>1, <1>3 DEF LeasesCounted
<1>5. NothingLeaks'
  BY <1>1, <1>3 DEF NothingLeaks, Holding, Leasing, TypeOK
<1>6. EmptyHands' /\ Leases' /\ Solitude'
  BY <1>1 DEF EmptyHands, TypeOK, Leases, Holding, Leasing, Solitude, Alone
<1>q. QED
  BY <1>1, <1>2, <1>4, <1>5, <1>6 DEF Offers, Spawned

\* A dead client is no longer offered; who was its only user closes it, and
\* otherwise the last of the others will.
LEMMA ProbeFailedStep ==
    ASSUME IInv, NEW p \in Procs, ProbeFailed(p)
    PROVE  IInv'
<1> USE NoneAssumption DEF IInv
<1>1. /\ pc[p] = "lost" /\ Holding(p) /\ hand[p] \in Clients
      /\ phase[hand[p]] = "open" /\ spawned[hand[p]] = 0 /\ users[hand[p]] >= 1
  BY LastUser DEF ProbeFailed, Holding, Leasing, Leases
<1>2. /\ current' = [current EXCEPT ![name[p]] = IF @ = hand[p] THEN NoClient ELSE @]
      /\ retired' = retired \cup {hand[p]}
      /\ users' = [users EXCEPT ![hand[p]] = @ - 1]
      /\ UNCHANGED <<phase, alive, madeFor, spawned, name>>
  BY DEF ProbeFailed, clientVars
<1>3. \/ /\ \A q \in Procs \ {p} : Holding(q) => hand[q] # hand[p]
         /\ pc' = [pc EXCEPT ![p] = "discard"] /\ hand' = hand
      \/ /\ \E q \in Procs \ {p} : Holding(q) /\ hand[q] = hand[p]
         /\ pc' = [pc EXCEPT ![p] = "lookup"] /\ hand' = [hand EXCEPT ![p] = NoClient]
  BY <1>1, LastUser DEF ProbeFailed, Goto, Take
<1>4. TypeOK'
  <2>1. UNCHANGED <<asked, failed, profiles, stopped, reloads>> /\ trusted' = trusted \cup {hand[p]}
    BY DEF ProbeFailed, confVars
  <2>2. current' \in [Names -> Clients \cup {NoClient}] /\ users' \in [Clients -> Nat]
    BY <1>1, <1>2 DEF TypeOK
  <2>3. pc' \in [Procs -> States] /\ hand' \in [Procs -> Clients \cup {NoClient}]
    BY <1>3 DEF TypeOK, States
  <2>q. QED BY <1>1, <1>2, <2>1, <2>2, <2>3 DEF TypeOK
<1>5. LeasesCounted'
  <2>1. \A q \in Procs \ {p} : pc'[q] = pc[q] /\ hand'[q] = hand[q]
    BY <1>3 DEF TypeOK
  <2>2. ASSUME NEW c \in Clients
        PROVE  users'[c] = users[c] + One(p \in Holders(c)') - One(p \in Holders(c))
    <3>1. (p \in Holders(c) <=> c = hand[p]) /\ p \notin Holders(c)'
      BY <1>1, <1>3 DEF Holders, Holding, Leasing, TypeOK
    <3>q. QED BY <3>1, <1>1, <1>2 DEF One, TypeOK
  <2>q. QED BY <2>1, <2>2, CountersFollow
<1>6. \A n \in Names : /\ current'[n] # hand[p]
                       /\ current'[n] = IF current[n] = hand[p] THEN NoClient ELSE current[n]
  BY <1>1, <1>2 DEF TypeOK, Offers, Leases
<1>7. EmptyHands'
  BY <1>1, <1>3 DEF EmptyHands, TypeOK, Holding, Leasing
<1>8. Offers'
  BY <1>2, <1>6 DEF Offers
<1>9. Leases'
  BY <1>1, <1>2, <1>3, <1>6 DEF Leases, Holding, Leasing, TypeOK
<1>10. Solitude'
  <2>1. ASSUME NEW q \in Procs, Alone(q)', q # p
        PROVE  Alone(q) /\ hand'[q] = hand[q] /\ hand[q] # hand[p] /\ hand[q] \in Clients
    BY <2>1, <1>1, <1>3 DEF Solitude, Alone, TypeOK, EmptyHands
  <2>2. CASE pc' = [pc EXCEPT ![p] = "discard"] /\ hand' = hand
    <3>1. \A q \in Procs \ {p} : hand[q] # hand[p]
      BY <2>2, <1>1, <1>3 DEF Solitude, Alone, TypeOK, EmptyHands, Holding, Leasing, States
    <3>q. QED
      BY <3>1, <2>1, <2>2, <1>1, <1>2, <1>6 DEF Solitude, Alone, TypeOK
  <2>3. CASE pc' = [pc EXCEPT ![p] = "lookup"] /\ hand' = [hand EXCEPT ![p] = NoClient]
    BY <2>1, <2>3, <1>1, <1>2, <1>6 DEF Solitude, Alone, TypeOK
  <2>q. QED BY <1>3, <2>2, <2>3
<1>11. Spawned'
  BY <1>1, <1>2, <1>3, <1>6 DEF Spawned, TypeOK
<1>12. NothingLeaks'
  BY <1>1, <1>2, <1>3, <1>6 DEF NothingLeaks, Holders, Closers, Holding, Leasing, TypeOK
<1>q. QED BY <1>4, <1>5, <1>7, <1>8, <1>9, <1>10, <1>11, <1>12

\* A caller closes the client that it was the last to know of.
LEMMA ShutStep ==
    ASSUME IInv, NEW p \in Procs, Discard(p) \/ CloseLast(p)
    PROVE  IInv'
<1> USE NoneAssumption DEF IInv
<1>1. /\ pc[p] \in {"discard", "closing"} /\ Alone(p) /\ hand[p] \in Clients
      /\ \E s \in {"lookup", "outside"} : pc' = [pc EXCEPT ![p] = s]
      /\ hand' = [hand EXCEPT ![p] = NoClient]
      /\ phase' = [phase EXCEPT ![hand[p]] = "closed"]
      /\ UNCHANGED <<current, users, retired, spawned, name>>
  BY DEF Discard, CloseLast, Goto, Take, Shut, entryVars, Alone, TypeOK, EmptyHands
<1>2. TypeOK'
  BY <1>1 DEF TypeOK, Discard, CloseLast, Shut, States, entryVars, confVars
<1>3. LeasesCounted'
  <2>1. \A q \in Procs \ {p} : pc'[q] = pc[q] /\ hand'[q] = hand[q]
    BY <1>1 DEF TypeOK
  <2>2. ASSUME NEW c \in Clients
        PROVE  users'[c] = users[c] + One(p \in Holders(c)') - One(p \in Holders(c))
    <3>1. p \notin Holders(c) /\ p \notin Holders(c)'
      BY <1>1 DEF Holders, Leasing, TypeOK
    <3>q. QED BY <3>1, <1>1 DEF One, TypeOK
  <2>q. QED BY <2>1, <2>2, CountersFollow
<1>4. /\ \A q \in Procs \ {p} : hand[q] # hand[p]
      /\ \A n \in Names : current[n] # hand[p]
      /\ hand[p] \in retired /\ spawned[hand[p]] = 0 /\ phase[hand[p]] = "open"
  BY <1>1 DEF Solitude
<1>5. EmptyHands'
  BY <1>1 DEF EmptyHands, TypeOK
<1>6. Offers'
  BY <1>1, <1>4 DEF Offers, TypeOK
<1>7. Leases'
  BY <1>1, <1>4 DEF Leases, Holding, Leasing, TypeOK
<1>8. Solitude'
  BY <1>1, <1>4 DEF Solitude, Alone, TypeOK, EmptyHands
<1>9. Spawned'
  BY <1>1, <1>4 DEF Spawned, TypeOK
<1>10. NothingLeaks'
  BY <1>1, <1>4 DEF NothingLeaks, Holders, Closers, Leasing, TypeOK
<1>q. QED BY <1>2, <1>3, <1>5, <1>6, <1>7, <1>8, <1>9, <1>10

\* A caller without a client goes on without one.
LEMMA LookUpStep ==
    ASSUME IInv, NEW p \in Procs, LookUp(p) \/ DialFails(p)
    PROVE  IInv'
<1> USE NoneAssumption DEF IInv
<1>1. /\ pc[p] \in {"lookup", "dial"}
      /\ \E s \in {"outside", "dial"} : pc' = [pc EXCEPT ![p] = s]
      /\ UNCHANGED <<current, users, retired, trusted, phase, alive, madeFor, spawned, hand, name>>
  BY DEF LookUp, DialFails, Goto, entryVars, clientVars
<1>2. TypeOK'
  <2>1. asked' \in [Procs -> Settings \cup {Absent}]
    BY DEF LookUp, DialFails, TypeOK
  <2>2. UNCHANGED <<failed, profiles, stopped, reloads>>
    BY DEF LookUp, DialFails, confVars
  <2>3. pc' \in [Procs -> States]
    BY <1>1 DEF TypeOK, States
  <2>q. QED BY <1>1, <2>1, <2>2, <2>3 DEF TypeOK
<1>3. \A c \in Clients : Holders(c)' = Holders(c) /\ Closers(c)' = Closers(c)
  BY <1>1 DEF Holders, Closers, Leasing, TypeOK
<1>4. LeasesCounted' /\ NothingLeaks'
  BY <1>1, <1>3 DEF LeasesCounted, NothingLeaks, TypeOK
<1>5. EmptyHands' /\ Leases' /\ Solitude'
  BY <1>1 DEF EmptyHands, TypeOK, Leases, Holding, Leasing, Solitude, Alone
<1>q. QED BY <1>1, <1>2, <1>4, <1>5 DEF Offers, Spawned

\* A new client: nobody knows of it but the caller that connected it.
LEMMA DialSucceedsStep ==
    ASSUME IInv, NEW p \in Procs, DialSucceeds(p)
    PROVE  IInv'
<1> USE NoneAssumption DEF IInv
<1>1. PICK c \in Clients : /\ phase[c] = "unused"
                           /\ phase' = [phase EXCEPT ![c] = "open"]
                           /\ alive' = alive \cup {c}
                           /\ madeFor' = [madeFor EXCEPT ![c] = asked[p]]
                           /\ hand' = [hand EXCEPT ![p] = c]
  BY DEF DialSucceeds, Take
<1>2. /\ pc[p] = "dial" /\ pc' = [pc EXCEPT ![p] = "install"]
      /\ UNCHANGED <<current, users, retired, trusted, spawned, name>>
  BY DEF DialSucceeds, Goto, entryVars
<1>3. TypeOK'
  BY <1>1, <1>2 DEF TypeOK, DialSucceeds, States, confVars
<1>4. LeasesCounted'
  <2>1. \A q \in Procs \ {p} : pc'[q] = pc[q] /\ hand'[q] = hand[q]
    BY <1>1, <1>2 DEF TypeOK
  <2>2. ASSUME NEW d \in Clients
        PROVE  users'[d] = users[d] + One(p \in Holders(d)') - One(p \in Holders(d))
    <3>1. p \notin Holders(d) /\ p \notin Holders(d)'
      BY <1>2 DEF Holders, Leasing, TypeOK
    <3>q. QED BY <3>1, <1>2 DEF One, TypeOK
  <2>q. QED BY <2>1, <2>2, CountersFollow
<1>5. /\ \A q \in Procs : hand[q] # c
      /\ \A n \in Names : current[n] # c
      /\ c \notin retired /\ spawned[c] = 0
  <2>1. \A q \in Procs : hand[q] # NoClient => Holding(q) \/ Alone(q)
    BY DEF EmptyHands, TypeOK, States, Holding, Leasing, Alone
  <2>q. QED BY <1>1, <2>1 DEF Leases, Solitude, Offers, Spawned, TypeOK
<1>6. EmptyHands'
  BY <1>1, <1>2 DEF EmptyHands, TypeOK
<1>7. Offers'
  BY <1>1, <1>2, <1>5 DEF Offers, TypeOK
<1>8. Leases'
  BY <1>1, <1>2, <1>5 DEF Leases, Holding, Leasing, TypeOK
<1>9. Solitude'
  BY <1>1, <1>2, <1>5 DEF Solitude, Alone, TypeOK
<1>10. Spawned'
  BY <1>1, <1>2, <1>5 DEF Spawned, TypeOK
<1>11. NothingLeaks'
  BY <1>1, <1>2, <1>5 DEF NothingLeaks, Holders, Closers, Leasing, TypeOK
<1>q. QED BY <1>3, <1>4, <1>6, <1>7, <1>8, <1>9, <1>10, <1>11

\* The client that nobody else knew of becomes the one that is offered.  What
\* it replaces is nothing: what is offered is never retired.
LEMMA InstallsStep ==
    ASSUME IInv, NEW p \in Procs, Installs(p)
    PROVE  IInv'
<1> USE NoneAssumption DEF IInv
<1>1. /\ pc[p] = "install" /\ Alone(p) /\ hand[p] \in Clients /\ name[p] \in Names
      /\ current' = [current EXCEPT ![name[p]] = hand[p]]
      /\ users' = [users EXCEPT ![hand[p]] = 1]
      /\ pc' = [pc EXCEPT ![p] = "using"]
      /\ UNCHANGED <<retired, phase, alive, madeFor, spawned, name, hand>>
  BY DEF Installs, Goto, clientVars, Alone, TypeOK, EmptyHands
<1>2. current[name[p]] = NoClient
  BY <1>1 DEF Installs, Offered, Offers
<1>3. /\ \A q \in Procs \ {p} : hand[q] # hand[p]
      /\ \A n \in Names : current[n] # hand[p]
      /\ hand[p] \notin retired /\ spawned[hand[p]] = 0 /\ phase[hand[p]] = "open"
  BY <1>1 DEF Solitude
<1>4. TypeOK'
  BY <1>1 DEF TypeOK, Installs, States, confVars
<1>5. LeasesCounted'
  <2>1. \A q \in Procs \ {p} : pc'[q] = pc[q] /\ hand'[q] = hand[q]
    BY <1>1 DEF TypeOK
  <2>2. users[hand[p]] = 0
    BY <1>1, <1>3, Unleased DEF Holding, Leasing
  <2>3. ASSUME NEW c \in Clients
        PROVE  users'[c] = users[c] + One(p \in Holders(c)') - One(p \in Holders(c))
    <3>1. p \notin Holders(c) /\ (p \in Holders(c)' <=> c = hand[p])
      BY <1>1 DEF Holders, Leasing, TypeOK
    <3>q. QED BY <3>1, <2>2, <1>1 DEF One, TypeOK
  <2>q. QED BY <2>1, <2>3, CountersFollow
<1>6. EmptyHands'
  BY <1>1 DEF EmptyHands, TypeOK
<1>7. Offers'
  BY <1>1, <1>3 DEF Offers, TypeOK
<1>8. Leases'
  <2>1. ASSUME NEW q \in Procs, Holding(q)', q # p
        PROVE  /\ Holding(q) /\ hand'[q] = hand[q] /\ name'[q] = name[q]
               /\ hand[q] \in Clients /\ hand[q] # hand[p]
    BY <2>1, <1>1, <1>3 DEF Holding, TypeOK, EmptyHands, Leasing
  <2>q. QED BY <2>1, <1>1, <1>2, <1>3 DEF Leases, TypeOK
<1>9. Solitude'
  BY <1>1, <1>3 DEF Solitude, Alone, TypeOK
<1>10. Spawned'
  BY <1>1, <1>3 DEF Spawned, TypeOK
<1>11. NothingLeaks'
  BY <1>1, <1>2, <1>3 DEF NothingLeaks, Holders, Closers, Leasing, TypeOK
<1>q. QED BY <1>4, <1>5, <1>6, <1>7, <1>8, <1>9, <1>10, <1>11

\* The client that nobody else knew of is left to a goroutine, and the one
\* that is offered has a user more.
LEMMA SharesInstalledStep ==
    ASSUME IInv, NEW p \in Procs, SharesInstalled(p)
    PROVE  IInv'
<1> USE NoneAssumption DEF IInv
<1> DEFINE c == current[name[p]]
<1>1. /\ pc[p] = "install" /\ Alone(p) /\ hand[p] \in Clients /\ name[p] \in Names
      /\ c \in Clients /\ c \notin retired
      /\ users' = [users EXCEPT ![c] = @ + 1]
      /\ spawned' = [spawned EXCEPT ![hand[p]] = @ + 1]
      /\ hand' = [hand EXCEPT ![p] = c]
      /\ pc' = [pc EXCEPT ![p] = "using"]
      /\ UNCHANGED <<current, retired, phase, alive, madeFor, name>>
  BY DEF SharesInstalled, Offered, Goto, Take, Alone, TypeOK, EmptyHands
<1>2. /\ \A q \in Procs \ {p} : hand[q] # hand[p]
      /\ \A n \in Names : current[n] # hand[p]
      /\ hand[p] \notin retired /\ spawned[hand[p]] = 0 /\ phase[hand[p]] = "open"
  BY <1>1 DEF Solitude
<1>3. phase[c] = "open" /\ spawned[c] = 0 /\ c # hand[p]
  BY <1>1, <1>2 DEF Offers
<1>4. TypeOK'
  BY <1>1 DEF TypeOK, SharesInstalled, States, confVars
<1> HIDE DEF c
<1>5. LeasesCounted'
  <2>1. \A q \in Procs \ {p} : pc'[q] = pc[q] /\ hand'[q] = hand[q]
    BY <1>1 DEF TypeOK
  <2>2. ASSUME NEW d \in Clients
        PROVE  users'[d] = users[d] + One(p \in Holders(d)') - One(p \in Holders(d))
    <3>1. p \notin Holders(d) /\ (p \in Holders(d)' <=> d = c)
      BY <1>1 DEF Holders, Leasing, TypeOK
    <3>q. QED BY <3>1, <1>1 DEF One, TypeOK
  <2>q. QED BY <2>1, <2>2, CountersFollow
<1>6. EmptyHands'
  BY <1>1 DEF EmptyHands, TypeOK
<1>7. Offers'
  BY <1>1, <1>2 DEF Offers, TypeOK
<1>8. Leases'
  <2>1. ASSUME NEW q \in Procs, Holding(q)', q # p
        PROVE  Holding(q) /\ hand'[q] = hand[q] /\ hand[q] \in Clients /\ hand[q] # hand[p]
    BY <2>1, <1>1, <1>2 DEF Holding, TypeOK, EmptyHands, Leasing
  <2>2. /\ hand'[p] = c /\ spawned'[c] = 0 /\ current'[name'[p]] = c
    BY <1>1, <1>3 DEF TypeOK, c
  <2>q. QED BY <2>1, <2>2, <1>1, <1>3 DEF Leases, TypeOK
<1>9. Solitude'
  BY <1>1, <1>2 DEF Solitude, Alone, TypeOK, c
<1>10. Spawned'
  BY <1>1, <1>2, <1>3 DEF Spawned, TypeOK
<1>11. NothingLeaks'
  BY <1>1, <1>2, <1>3 DEF NothingLeaks, Holders, Closers, Leasing, TypeOK
<1>q. QED BY <1>4, <1>5, <1>6, <1>7, <1>8, <1>9, <1>10, <1>11

\* The last user of a client that is retired keeps it, to close it.
LEMMA ReleaseStep ==
    ASSUME IInv, NEW p \in Procs, Release(p)
    PROVE  IInv'
<1> USE NoneAssumption DEF IInv
<1>1. /\ pc[p] = "used" /\ Holding(p) /\ hand[p] \in Clients
      /\ phase[hand[p]] = "open" /\ spawned[hand[p]] = 0 /\ users[hand[p]] >= 1
      /\ hand[p] \in retired \/ current[name[p]] = hand[p]
  BY LastUser DEF Release, ReleaseWhen, Holding, Leasing, Leases
<1>2. /\ users' = [users EXCEPT ![hand[p]] = @ - 1]
      /\ UNCHANGED <<current, retired, phase, alive, madeFor, spawned, name>>
  BY DEF Release, ReleaseWhen, clientVars
<1>3. \/ /\ hand[p] \in retired
         /\ \A q \in Procs \ {p} : Holding(q) => hand[q] # hand[p]
         /\ pc' = [pc EXCEPT ![p] = "closing"] /\ hand' = hand
      \/ /\ hand[p] \notin retired \/ \E q \in Procs \ {p} : Holding(q) /\ hand[q] = hand[p]
         /\ pc' = [pc EXCEPT ![p] = "outside"] /\ hand' = [hand EXCEPT ![p] = NoClient]
  BY <1>1, LastUser DEF Release, ReleaseWhen, Goto, Take
<1>4. TypeOK'
  <2>1. /\ UNCHANGED <<asked, profiles, stopped, reloads>>
        /\ trusted' \subseteq trusted \cup {hand[p]}
    BY DEF Release, ReleaseWhen, confVars
  <2>2. users' \in [Clients -> Nat]
    BY <1>1, <1>2 DEF TypeOK
  <2>3. pc' \in [Procs -> States] /\ hand' \in [Procs -> Clients \cup {NoClient}]
    BY <1>3 DEF TypeOK, States
  <2>4. failed' \in [Procs -> BOOLEAN]
    BY DEF Release, ReleaseWhen, TypeOK
  <2>q. QED BY <1>1, <1>2, <2>1, <2>2, <2>3, <2>4 DEF TypeOK
<1>5. LeasesCounted'
  <2>1. \A q \in Procs \ {p} : pc'[q] = pc[q] /\ hand'[q] = hand[q]
    BY <1>3 DEF TypeOK
  <2>2. ASSUME NEW c \in Clients
        PROVE  users'[c] = users[c] + One(p \in Holders(c)') - One(p \in Holders(c))
    <3>1. (p \in Holders(c) <=> c = hand[p]) /\ p \notin Holders(c)'
      BY <1>1, <1>3 DEF Holders, Holding, Leasing, TypeOK
    <3>q. QED BY <3>1, <1>1, <1>2 DEF One, TypeOK
  <2>q. QED BY <2>1, <2>2, CountersFollow
<1>6. EmptyHands'
  BY <1>1, <1>3 DEF EmptyHands, TypeOK, Holding, Leasing
<1>7. Offers'
  BY <1>2 DEF Offers
<1>8. Leases'
  BY <1>1, <1>2, <1>3 DEF Leases, Holding, Leasing, TypeOK
<1>9. Solitude'
  <2>1. ASSUME NEW q \in Procs, Alone(q)', q # p
        PROVE  Alone(q) /\ hand'[q] = hand[q] /\ hand[q] # hand[p] /\ hand[q] \in Clients
    BY <2>1, <1>1, <1>3 DEF Solitude, Alone, TypeOK, EmptyHands
  <2>2. CASE /\ hand[p] \in retired
             /\ \A q \in Procs \ {p} : Holding(q) => hand[q] # hand[p]
             /\ pc' = [pc EXCEPT ![p] = "closing"] /\ hand' = hand
    <3>1. \A q \in Procs \ {p} : hand[q] # hand[p]
      BY <2>2, <1>1 DEF Solitude, Alone, TypeOK, EmptyHands, Holding, Leasing, States
    <3>2. \A n \in Names : current[n] # hand[p]
      BY <2>2, <1>1 DEF Offers, TypeOK
    <3>q. QED
      BY <3>1, <3>2, <2>1, <2>2, <1>1, <1>2 DEF Solitude, Alone, TypeOK
  <2>3. CASE pc' = [pc EXCEPT ![p] = "outside"] /\ hand' = [hand EXCEPT ![p] = NoClient]
    BY <2>1, <2>3, <1>1, <1>2 DEF Solitude, Alone, TypeOK
  <2>q. QED BY <1>3, <2>2, <2>3
<1>10. Spawned'
  BY <1>1, <1>2, <1>3 DEF Spawned, TypeOK
<1>11. NothingLeaks'
  BY <1>1, <1>2, <1>3 DEF NothingLeaks, Holders, Closers, Holding, Leasing, TypeOK
<1>q. QED BY <1>4, <1>5, <1>6, <1>7, <1>8, <1>9, <1>10, <1>11

-----------------------------------------------------------------------------
(* The other steps.                                                        *)

\* Nobody else knows of what a goroutine closes.
LEMMA SpawnedClosesStep ==
    ASSUME IInv, NEW c \in Clients, SpawnedCloses(c)
    PROVE  IInv'
<1> USE NoneAssumption DEF IInv
<1>1. /\ spawned[c] = 1 /\ spawned' = [spawned EXCEPT ![c] = 0]
  <2>1. spawned[c] = 1
    BY DEF SpawnedCloses, Spawned
  <2>q. QED BY <2>1 DEF SpawnedCloses
<1>2. /\ phase' = [phase EXCEPT ![c] = "closed"] /\ alive' = alive \ {c}
      /\ \A p \in Procs : hand[p] # c
      /\ \A n \in Names : current[n] # c
      /\ UNCHANGED <<current, users, retired, trusted, madeFor, pc, name, hand>>
  BY <1>1 DEF SpawnedCloses, Shut, Spawned, entryVars, callVars
<1>3. TypeOK'
  BY <1>1, <1>2 DEF TypeOK, SpawnedCloses, callVars, confVars
<1>4. LeasesCounted'
  BY <1>2, CountersStay
<1>5. EmptyHands' /\ Offers' /\ Leases' /\ Solitude'
  BY <1>1, <1>2 DEF EmptyHands, Offers, Leases, Holding, Solitude, Alone, TypeOK
<1>6. Spawned' /\ NothingLeaks'
  BY <1>1, <1>2 DEF Spawned, NothingLeaks, Holders, Closers, TypeOK
<1>q. QED BY <1>3, <1>4, <1>5, <1>6

\* A client that a reload retires is closed by a goroutine if it has no users,
\* and by the last of them otherwise.
LEMMA UpdateProfilesStep ==
    ASSUME IInv, NEW new \in [Names -> Settings \cup {Absent}], UpdateProfiles(new)
    PROVE  IInv'
<1> USE NoneAssumption DEF IInv
<1> DEFINE Out == Outdated(new)
<1>1. /\ current' = [n \in Names |-> IF current[n] \in Out THEN NoClient ELSE current[n]]
      /\ retired' = retired \cup Out
      /\ spawned' = [c \in Clients |->
             IF c \in Out \ retired /\ users[c] = 0 THEN spawned[c] + 1 ELSE spawned[c]]
      /\ UNCHANGED <<users, phase, pc, name, hand>>
  BY DEF UpdateProfiles, callVars
<1>2. \A c \in Out : c \in Clients /\ \E n \in Names : current[n] = c
  BY DEF Outdated, TypeOK
<1>3. TypeOK'
  <2>1. reloads' \in 0..MaxReloads /\ profiles' = new
    BY ReloadsAssumption DEF UpdateProfiles, TypeOK
  <2>2. /\ current' \in [Names -> Clients \cup {NoClient}] /\ retired' \subseteq Clients
        /\ spawned' \in [Clients -> Nat]
    BY <1>1, <1>2 DEF TypeOK
  <2>q. QED BY <2>1, <2>2, <1>1 DEF TypeOK, UpdateProfiles, callVars
<1> HIDE DEF Out
<1>4. \A c \in Out : /\ phase[c] = "open" /\ spawned[c] = 0 /\ c \notin retired
                     /\ \A p \in Procs : Alone(p) => hand[p] # c
  BY <1>2 DEF Offers, Solitude
<1>5. \A c \in Out : users[c] = 0 => \A p \in Procs : hand[p] # c
  <2>1. \A p \in Procs : hand[p] # NoClient => Holding(p) \/ Alone(p)
    BY DEF EmptyHands, TypeOK, States, Holding, Leasing, Alone
  <2>q. QED BY <2>1, <1>2, <1>4, Unleased
<1>6. LeasesCounted'
  BY <1>1, CountersStay
<1>7. EmptyHands' /\ Offers'
  BY <1>1, <1>2 DEF EmptyHands, Offers, TypeOK
<1>8. Leases'
  BY <1>1, <1>2, <1>5 DEF Leases, Holding, Leasing, TypeOK, EmptyHands
<1>9. Solitude'
  BY <1>1, <1>4 DEF Solitude, Alone, TypeOK, EmptyHands
<1>10. Spawned'
  BY <1>1, <1>2, <1>4, <1>5 DEF Spawned, TypeOK
<1>11. NothingLeaks'
  <2>1. \A c \in Out : spawned'[c] > 0 \/ Holders(c)' # {}
    <3>1. \A c \in Out : users[c] = 0 \/ Holders(c) # {}
      BY <1>2, Unleased DEF Holders, Holding
    <3>q. QED BY <3>1, <1>1, <1>2, <1>4 DEF Holders
  <2>2. \A c \in Clients : /\ Holders(c)' = Holders(c) /\ Closers(c)' = Closers(c)
                           /\ spawned[c] > 0 => spawned'[c] > 0
    BY <1>1 DEF Holders, Closers, TypeOK
  <2>3. \A n \in Names : current[n] \notin Out => current'[n] = current[n]
    BY <1>1
  <2>4. \A c \in Clients : phase'[c] = phase[c] /\ (c \in retired' => c \in retired \/ c \in Out)
    BY <1>1
  <2>q. QED BY <2>1, <2>2, <2>3, <2>4, <1>1 DEF NothingLeaks
<1>q. QED BY <1>3, <1>6, <1>7, <1>8, <1>9, <1>10, <1>11

\* Nobody has a client when the daemon stops: those that are offered are
\* closed on the spot.
LEMMA CloseAllStep ==
    ASSUME IInv, CloseAll
    PROVE  IInv'
<1> USE NoneAssumption DEF IInv
<1> DEFINE All == {current[n] : n \in Names} \ {NoClient}
<1>1. /\ current' = [n \in Names |-> NoClient]
      /\ retired' = retired \cup All
      /\ phase' = [c \in Clients |-> IF c \in All THEN "closed" ELSE phase[c]]
      /\ alive' = alive \ All
      /\ UNCHANGED <<users, spawned, pc, name, hand>>
      /\ \A p \in Procs : pc[p] = "outside" /\ hand[p] = NoClient
  BY DEF CloseAll, callVars, EmptyHands
<1>2. All \subseteq Clients
  BY DEF TypeOK
<1>3. TypeOK'
  <2>1. /\ current' \in [Names -> Clients \cup {NoClient}]
        /\ phase' \in [Clients -> {"unused", "open", "closed"}]
        /\ retired' \subseteq Clients /\ alive' \subseteq Clients
    BY <1>1, <1>2 DEF TypeOK
  <2>q. QED BY <2>1, <1>1 DEF TypeOK, CloseAll, callVars
<1>4. LeasesCounted'
  BY <1>1, CountersStay
<1>5. EmptyHands' /\ Offers' /\ Leases' /\ Solitude'
  BY <1>1 DEF EmptyHands, Offers, Leases, Holding, Leasing, Solitude, Alone
<1>6. \A c \in Clients : c \in All <=> \E n \in Names : current[n] = c
  OBVIOUS
<1> HIDE DEF All
<1>7. Spawned'
  BY <1>1, <1>2, <1>6 DEF Spawned, TypeOK
<1>8. NothingLeaks'
  BY <1>1, <1>6 DEF NothingLeaks, Holders, Closers, Leasing, TypeOK
<1>q. QED BY <1>3, <1>4, <1>5, <1>7, <1>8

\* The age of a client and the state of its connection are nobody's lease.
LEMMA NatureStep ==
    ASSUME IInv, NEW c \in Clients, Expires(c) \/ Dies(c)
    PROVE  IInv'
<1>1. TypeOK'
  BY DEF IInv, TypeOK, Expires, Dies, entryVars, clientVars, callVars, confVars
<1>q. QED BY <1>1, StayIInv DEF Expires, Dies, entryVars, clientVars, callVars

-----------------------------------------------------------------------------
(* The theorems.                                                           *)

\* What the leases, the offers and the goroutines that close agree on is
\* kept by every step of the pool.
THEOREM Invariance == Spec => []IInv
<1>1. ASSUME IInv, [Next]_vars PROVE IInv'
  <2>1. CASE UNCHANGED vars
    <3>1. UNCHANGED <<current, users, retired, phase, spawned, pc, name, hand>> /\ TypeOK'
      BY <1>1, <2>1
      DEF IInv, TypeOK, vars, entryVars, clientVars, callVars, confVars
    <3>q. QED BY <1>1, <3>1, StayIInv
  <2>2. ASSUME NEW p \in Procs, NEW n \in Names, AcquireShares(p, n) \/ AcquireDials(p, n)
        PROVE  IInv'
    BY <1>1, <2>2, AcquireSharesStep, AcquireDialsStep
  <2>3. ASSUME NEW p \in Procs, Continues(p)
        PROVE  IInv'
    BY <1>1, <2>3, ProbeStep, ProbeFailedStep, ShutStep, LookUpStep, DialSucceedsStep,
       InstallsStep, SharesInstalledStep, ReleaseStep
    DEF Continues
  <2>4. ASSUME NEW new \in [Names -> Settings \cup {Absent}], UpdateProfiles(new)
        PROVE  IInv'
    BY <1>1, <2>4, UpdateProfilesStep
  <2>5. ASSUME NEW c \in Clients, SpawnedCloses(c) \/ Expires(c) \/ Dies(c)
        PROVE  IInv'
    BY <1>1, <2>5, SpawnedClosesStep, NatureStep
  <2>q. QED BY <1>1, <2>1, <2>2, <2>3, <2>4, <2>5, CloseAllStep DEF Next
<1>q. QED BY InitIInv, <1>1, PTL DEF Spec

\* e.users, which decides who closes a client, is the number of its leases
\* whatever the order in which probes fail, leases end and entries retire.
THEOREM Counted == Spec => []LeasesCounted
<1>1. IInv => LeasesCounted
  BY DEF IInv
<1>q. QED BY Invariance, <1>1, PTL

\* Nobody closes a client that somebody has a lease of, nor is about to
\* (pool.go:23).
THEOREM ClosedByTheLast == Spec => []NeverClosedInUse
<1>1. IInv => NeverClosedInUse
  BY DEF IInv, NeverClosedInUse, Holders, Closers, Leases, Solitude, Holding, Alone, Leasing
<1>q. QED BY Invariance, <1>1, PTL

\* No open connection is forgotten by all who could close it.
THEOREM AllAccountedFor == Spec => []NothingLeaks
<1>1. IInv => NothingLeaks
  BY DEF IInv
<1>q. QED BY Invariance, <1>1, PTL

\* A client has been closed, or has one goroutine that will close it, or
\* neither: Close does not run twice.
THEOREM Once == Spec => []ClosedOnce
<1>1. IInv => ClosedOnce
  <2> SUFFICES ASSUME IInv, NEW c \in Clients
               PROVE  spawned[c] + Cardinality(Closers(c))
                          + (IF phase[c] = "closed" THEN 1 ELSE 0) <= 1
    BY DEF ClosedOnce
  <2>1. Closers(c) \in SUBSET Procs /\ spawned[c] \in {0, 1}
    BY DEF Closers, IInv, Spawned
  <2>2. CASE Closers(c) = {}
    <3>1. Cardinality(Closers(c)) = 0 /\ (spawned[c] = 1 => phase[c] = "open")
      BY <2>2, FS_EmptySet DEF IInv, Spawned
    <3>q. QED BY <2>1, <3>1
  <2>3. ASSUME NEW p \in Closers(c) PROVE
               /\ Cardinality(Closers(c)) = 1
               /\ spawned[c] = 0 /\ phase[c] # "closed"
    <3>1. p \in Procs /\ Alone(p) /\ hand[p] = c
      BY DEF Closers, Alone
    <3>2. Closers(c) = {p} /\ spawned[c] = 0 /\ phase[c] = "open"
      BY <3>1 DEF Closers, IInv, Solitude, Alone
    <3>q. QED BY <3>2, FS_Singleton
  <2>q. QED BY <2>1, <2>2, <2>3
<1>q. QED BY Invariance, <1>1, PTL
=============================================================================

------------------------------ MODULE ConnPool ------------------------------
(***************************************************************************)
(* The bounded pool of connections of internal/transfer/connpool.go, used  *)
(* by the FTP client for its control connections and by the SFTP client    *)
(* for the extra sessions of large files.                                  *)
(*                                                                         *)
(* Procs are the goroutines that use the pool.  The mutex p.mu is implicit *)
(* in the atomicity of the actions: an action is what one goroutine does   *)
(* between taking p.mu and giving it up, be it by returning, by dialling   *)
(* or by cond.Wait.  Dialling and closing happen outside of the mutex and  *)
(* take separate steps.                                                    *)
(***************************************************************************)
EXTENDS Integers, Sequences, FiniteSets

CONSTANTS
    Procs,     \* goroutines calling the pool
    Conns,     \* identities of connections; a closed one may be reused
    NoConn,    \* what a goroutine holds when it holds nothing
    Limit,     \* the limit the pool is created with
    MaxCalls   \* bound: calls of acquire or tryAcquireIdle per goroutine

ASSUME ProcsAssumption  == IsFiniteSet(Procs)
ASSUME NoConnAssumption == NoConn \notin Conns
ASSUME LimitAssumption  == Limit \in Int
ASSUME CallsAssumption  == MaxCalls \in Nat

VARIABLES
    idle,      \* p.idle, a stack
    open,      \* p.open
    dialing,   \* p.dialing
    dialErr,   \* p.dialErr # nil
    limit,     \* p.limit
    capped,    \* p.capped
    closed,    \* p.closed
    pc,        \* where each goroutine stands
    conn,      \* the connection each goroutine has in hand, or NoConn
    doomed,    \* connections taken from the pool that another goroutine
               \* (`go p.close(c)`, the loop of closeAll) has yet to close
    live,      \* connections that are open towards the server
    calls,     \* calls each goroutine may still make
    witness,   \* history: who was waiting at a failure that left nothing
    peak       \* history: most goroutines ever inside the pool at once

poolVars == <<idle, open, dialing, dialErr, limit, capped, closed>>
histVars == <<calls, witness, peak>>
vars == <<poolVars, pc, conn, doomed, live, histVars>>

-----------------------------------------------------------------------------
(* outside: no call under way.  calling: about to take p.mu in acquire.    *)
(* dialing: in p.dial().  sleeping: in cond.Wait.  woken: signalled, about *)
(* to retake p.mu (its local `waited` is true).  holding: between acquire  *)
(* and release.  closing: in release, past the mutex, running p.close(c).  *)
States == {"outside", "calling", "dialing", "sleeping", "woken", "holding",
           "closing"}

At(s)       == {p \in Procs : pc[p] = s}
Elems(s)    == {s[i] : i \in 1..Len(s)}
Idle        == Elems(idle)
Established == open - dialing
Larger(m, n) == IF m > n THEN m ELSE n

\* Every sleeping goroutine becomes runnable: cond.Broadcast.
Broadcast == [p \in Procs |-> IF pc[p] = "sleeping" THEN "woken" ELSE pc[p]]

\* One sleeping goroutine, if there is one, becomes runnable: cond.Signal.
Signal(newpc) ==
    IF \E q \in Procs : newpc[q] = "sleeping"
      THEN \E q \in Procs : /\ newpc[q] = "sleeping"
                            /\ pc' = [newpc EXCEPT ![q] = "woken"]
      ELSE pc' = newpc

-----------------------------------------------------------------------------
(* newConnPool, and seed where the client has opened its first connection  *)
(* before it creates the pool (FTP); the SFTP client's pool starts empty.  *)
Init ==
    /\ \E first \in {<<>>} \cup {<<c>> : c \in Conns} :
           /\ idle = first
           /\ open = Len(first)
           /\ live = Elems(first)
           /\ peak = Len(first)
    /\ dialing = 0
    /\ dialErr = FALSE
    /\ limit = Larger(Limit, 1)
    /\ capped = FALSE
    /\ closed = FALSE
    /\ pc = [p \in Procs |-> "outside"]
    /\ conn = [p \in Procs |-> NoConn]
    /\ doomed = {}
    /\ calls = [p \in Procs |-> MaxCalls]
    /\ witness = {}

-----------------------------------------------------------------------------
(* acquire.                                                                *)

\* The goroutine calls acquire; it does not have p.mu yet.
Call(p) ==
    /\ pc[p] = "outside"
    /\ calls[p] > 0
    /\ calls' = [calls EXCEPT ![p] = @ - 1]
    /\ pc' = [pc EXCEPT ![p] = "calling"]
    /\ witness' = witness \ {p}
    /\ peak' = Larger(peak, Cardinality(Procs \ At("outside")) + 1)
    /\ UNCHANGED <<poolVars, conn, doomed, live>>

\* The turns of the loop, begun with p.mu by a fresh or a woken caller.
InLoop(p) == pc[p] \in {"calling", "woken"}

\* `waited && p.open == 0 && p.dialErr != nil`
SharesFailure(p) == pc[p] = "woken" /\ open = 0 /\ dialErr

AcquireClosed(p) ==
    /\ InLoop(p)
    /\ closed
    /\ pc' = [pc EXCEPT ![p] = "outside"]
    /\ UNCHANGED <<poolVars, conn, doomed, live, histVars>>

\* Mutant: the top of the stack is lent but not popped.
AcquireIdleNoPop(p) ==
    /\ InLoop(p)
    /\ ~closed
    /\ idle # <<>>
    /\ conn' = [conn EXCEPT ![p] = idle[Len(idle)]]
    /\ pc' = [pc EXCEPT ![p] = "holding"]
    /\ UNCHANGED <<poolVars, doomed, live, histVars>>

AcquireIdle(p) ==
    /\ InLoop(p)
    /\ ~closed
    /\ idle # <<>>
    /\ conn' = [conn EXCEPT ![p] = idle[Len(idle)]]
    /\ idle' = SubSeq(idle, 1, Len(idle) - 1)
    /\ pc' = [pc EXCEPT ![p] = "holding"]
    /\ UNCHANGED <<open, dialing, dialErr, limit, capped, closed, doomed, live,
                   histVars>>

AcquireFails(p) ==
    /\ InLoop(p)
    /\ ~closed
    /\ idle = <<>>
    /\ SharesFailure(p)
    /\ pc' = [pc EXCEPT ![p] = "outside"]
    /\ UNCHANGED <<poolVars, conn, doomed, live, histVars>>

AcquireDials(p) ==
    /\ InLoop(p)
    /\ ~closed
    /\ idle = <<>>
    /\ ~SharesFailure(p)
    /\ open < limit
    /\ open' = open + 1
    /\ dialing' = dialing + 1
    /\ pc' = [pc EXCEPT ![p] = "dialing"]
    /\ UNCHANGED <<idle, dialErr, limit, capped, closed, conn, doomed, live,
                   histVars>>

AcquireWaits(p) ==
    /\ InLoop(p)
    /\ ~closed
    /\ idle = <<>>
    /\ ~SharesFailure(p)
    /\ open >= limit
    /\ pc' = [pc EXCEPT ![p] = "sleeping"]
    /\ UNCHANGED <<poolVars, conn, doomed, live, histVars>>

\* Mutant: a success does not clear p.dialErr.
DialSucceedsKeepsErr(p) ==
    /\ pc[p] = "dialing"
    /\ \E c \in Conns \ live :
           /\ live' = live \cup {c}
           /\ dialing' = dialing - 1
           /\ IF closed
                THEN /\ open' = open - 1
                     /\ doomed' = doomed \cup {c}
                     /\ pc' = [pc EXCEPT ![p] = "outside"]
                     /\ UNCHANGED conn
                ELSE /\ conn' = [conn EXCEPT ![p] = c]
                     /\ pc' = [pc EXCEPT ![p] = "holding"]
                     /\ UNCHANGED <<open, doomed>>
    /\ UNCHANGED <<idle, dialErr, limit, capped, closed, histVars>>

\* p.dial() has returned a connection and p.mu is taken again.
DialSucceeds(p) ==
    /\ pc[p] = "dialing"
    /\ \E c \in Conns \ live :
           /\ live' = live \cup {c}
           /\ dialing' = dialing - 1
           /\ dialErr' = FALSE
           /\ IF closed
                THEN /\ open' = open - 1
                     /\ doomed' = doomed \cup {c}
                     /\ pc' = [pc EXCEPT ![p] = "outside"]
                     /\ UNCHANGED conn
                ELSE /\ conn' = [conn EXCEPT ![p] = c]
                     /\ pc' = [pc EXCEPT ![p] = "holding"]
                     /\ UNCHANGED <<open, doomed>>
    /\ UNCHANGED <<idle, limit, capped, closed, histVars>>

\* p.dial() has failed and no connection is established: the caller fails.
DialFailsForAll(p) ==
    /\ pc[p] = "dialing"
    /\ Established = 0
    /\ open' = open - 1
    /\ dialing' = dialing - 1
    /\ dialErr' = TRUE
    /\ pc' = [Broadcast EXCEPT ![p] = "outside"]
    /\ witness' = witness \cup At("sleeping") \cup At("woken")
    /\ UNCHANGED <<idle, limit, capped, closed, conn, doomed, live, calls,
                   peak>>

\* p.dial() has failed while others are established: the limit shrinks to
\* what there is, and the caller's loop goes on without giving up p.mu.  There
\* is no slot left to dial in, so it returns, takes an idle one or sleeps.
DialFailsForOne(p) ==
    /\ pc[p] = "dialing"
    /\ Established > 0
    /\ open' = open - 1
    /\ dialing' = dialing - 1
    /\ limit' = open - 1
    /\ capped' = TRUE
    /\ \/ /\ closed
          /\ pc' = [Broadcast EXCEPT ![p] = "outside"]
          /\ UNCHANGED <<idle, conn>>
       \/ /\ ~closed /\ idle # <<>>
          /\ conn' = [conn EXCEPT ![p] = idle[Len(idle)]]
          /\ idle' = SubSeq(idle, 1, Len(idle) - 1)
          /\ pc' = [Broadcast EXCEPT ![p] = "holding"]
       \/ /\ ~closed /\ idle = <<>>
          /\ pc' = [Broadcast EXCEPT ![p] = "sleeping"]
          /\ UNCHANGED <<idle, conn>>
    /\ UNCHANGED <<dialErr, closed, doomed, live, histVars>>

-----------------------------------------------------------------------------
(* release.                                                                *)

\* Mutant: the connection goes back to the stack of a closed pool.
ReleaseToPoolEvenClosed(p) ==
    /\ pc[p] = "holding"
    /\ idle' = Append(idle, conn[p])
    /\ conn' = [conn EXCEPT ![p] = NoConn]
    /\ Signal([pc EXCEPT ![p] = "outside"])
    /\ UNCHANGED <<open, dialing, dialErr, limit, capped, closed, doomed, live,
                   histVars>>

\* release(c, false) on a pool that is not closed.
ReleaseToPool(p) ==
    /\ pc[p] = "holding"
    /\ ~closed
    /\ idle' = Append(idle, conn[p])
    /\ conn' = [conn EXCEPT ![p] = NoConn]
    /\ Signal([pc EXCEPT ![p] = "outside"])
    /\ UNCHANGED <<open, dialing, dialErr, limit, capped, closed, doomed, live,
                   histVars>>

\* Mutant: nobody is told that a slot is free.
ReleaseToCloseSilently(p) ==
    /\ pc[p] = "holding"
    /\ open' = open - 1
    /\ pc' = [pc EXCEPT ![p] = "closing"]
    /\ UNCHANGED <<idle, dialing, dialErr, limit, capped, closed, conn, doomed,
                   live, histVars>>

\* release(c, true), or release(c, _) on a closed pool: the slot is free, the
\* waiters are told, and only then is the connection closed.
ReleaseToClose(p) ==
    /\ pc[p] = "holding"
    /\ open' = open - 1
    /\ pc' = [Broadcast EXCEPT ![p] = "closing"]
    /\ UNCHANGED <<idle, dialing, dialErr, limit, capped, closed, conn, doomed,
                   live, histVars>>

\* p.close(c) of release returns.
CloseReleased(p) ==
    /\ pc[p] = "closing"
    /\ live' = live \ {conn[p]}
    /\ conn' = [conn EXCEPT ![p] = NoConn]
    /\ pc' = [pc EXCEPT ![p] = "outside"]
    /\ UNCHANGED <<poolVars, doomed, histVars>>

-----------------------------------------------------------------------------
(* tryAcquireIdle, as the liveness probe of the FTP client uses it: the    *)
(* connection it gets is released like any other.                          *)
TryAcquireIdle(p) ==
    /\ pc[p] = "outside"
    /\ calls[p] > 0
    /\ calls' = [calls EXCEPT ![p] = @ - 1]
    /\ witness' = witness \ {p}
    /\ \/ /\ idle # <<>> /\ ~closed
          /\ conn' = [conn EXCEPT ![p] = idle[Len(idle)]]
          /\ idle' = SubSeq(idle, 1, Len(idle) - 1)
          /\ pc' = [pc EXCEPT ![p] = "holding"]
          /\ peak' = Larger(peak, Cardinality(Procs \ At("outside")) + 1)
       \/ /\ idle = <<>> \/ closed
          /\ UNCHANGED <<conn, idle, pc, peak>>
    /\ UNCHANGED <<open, dialing, dialErr, limit, capped, closed, doomed, live>>

\* Mutant: closeAll gives up the slots of lent connections, too.
CloseAllResetsOpen ==
    /\ ~closed
    /\ closed' = TRUE
    /\ doomed' = doomed \cup Idle
    /\ idle' = <<>>
    /\ open' = 0
    /\ pc' = Broadcast
    /\ UNCHANGED <<dialing, dialErr, limit, capped, conn, live, histVars>>

(* closeAll.                                                               *)
CloseAll ==
    /\ ~closed
    /\ closed' = TRUE
    /\ doomed' = doomed \cup Idle
    /\ idle' = <<>>
    /\ open' = open - Len(idle)
    /\ pc' = Broadcast
    /\ UNCHANGED <<dialing, dialErr, limit, capped, conn, live, histVars>>

\* A `go p.close(c)` runs, or the loop of closeAll closes the next one.
CloseDoomed ==
    \E c \in doomed :
        /\ doomed' = doomed \ {c}
        /\ live' = live \ {c}
        /\ UNCHANGED <<poolVars, pc, conn, histVars>>

-----------------------------------------------------------------------------
Acquire(p) == \/ AcquireClosed(p) \/ AcquireIdle(p) \/ AcquireFails(p)
              \/ AcquireDials(p) \/ AcquireWaits(p)

DialReturns(p) == DialSucceeds(p) \/ DialFailsForAll(p) \/ DialFailsForOne(p)

Release(p) == ReleaseToPool(p) \/ ReleaseToClose(p)

\* Every goroutine has made its calls and has left the pool.
Done ==
    /\ \A p \in Procs : pc[p] = "outside" /\ calls[p] = 0
    /\ closed
    /\ doomed = {}
    /\ UNCHANGED vars

Next ==
    \/ \E p \in Procs : \/ Call(p) \/ Acquire(p) \/ DialReturns(p)
                        \/ Release(p) \/ CloseReleased(p) \/ TryAcquireIdle(p)
    \/ CloseAll
    \/ CloseDoomed
    \/ Done

Spec == Init /\ [][Next]_vars

(* A goroutine that can run does, a dial ends (the dialler has a timeout), *)
(* a connection acquired is released (withConn, transferSession) and a     *)
(* close returns.  Nothing forces new calls or the closing of the pool.    *)
Fairness ==
    /\ \A p \in Procs : /\ WF_vars(Acquire(p))
                        /\ WF_vars(DialReturns(p))
                        /\ WF_vars(Release(p))
                        /\ WF_vars(CloseReleased(p))
    /\ WF_vars(CloseDoomed)

FairSpec == Spec /\ Fairness

-----------------------------------------------------------------------------
(* Properties.                                                             *)

\* The values each variable can take.
TypeOK ==
    /\ idle \in Seq(Conns)
    /\ open \in Nat /\ dialing \in Nat /\ limit \in Nat
    /\ dialErr \in BOOLEAN /\ capped \in BOOLEAN /\ closed \in BOOLEAN
    /\ pc \in [Procs -> States]
    /\ conn \in [Procs -> Conns \cup {NoConn}]
    /\ doomed \subseteq Conns
    /\ live \subseteq Conns
    /\ calls \in [Procs -> Nat]
    /\ witness \subseteq Procs
    /\ peak \in Nat

\* The counter p.open, adjusted at eight places on different sides of an
\* unlock, always equals the connections lent, lying idle or being dialled,
\* and never passes the limit, which never falls below one.
SlotsAccounted ==
    /\ dialing = Cardinality(At("dialing"))
    /\ open = Cardinality(At("holding")) + Len(idle) + dialing
    /\ open <= limit
    /\ limit >= 1

\* A connection is in one place only: lent to one goroutine, once on the idle
\* stack, or with one goroutine that is to close it; what is lent or idle has
\* not been closed.
Exclusive ==
    /\ \A p, q \in Procs : conn[p] = conn[q] => p = q \/ conn[p] = NoConn
    /\ \A i, j \in 1..Len(idle) : idle[i] = idle[j] => i = j
    /\ \A p \in Procs :
           /\ conn[p] # NoConn <=> pc[p] \in {"holding", "closing"}
           /\ conn[p] \notin Idle \cup doomed
    /\ Idle \cap doomed = {}
    /\ \A c \in Conns : c \in live <=> \/ c \in Idle \cup doomed
                                      \/ \E p \in Procs : conn[p] = c

\* No lost wake-up: while a goroutine sleeps in cond.Wait the pool is open and
\* full, and every idle connection has a woken goroutine on its way to it.
NoStrandedWaiter ==
    At("sleeping") # {} =>
        /\ ~closed
        /\ open = limit
        /\ Len(idle) <= Cardinality(At("woken"))

\* A closed pool keeps no idle connection that nobody would close.
NothingKeptAfterClose == closed => idle = <<>>

\* A waiter is given the dial error of a failure it waited through, never that
\* of an earlier one; and the error is kept only while nothing is established.
FailureWitnessed ==
    /\ dialErr => Established = 0
    /\ \A p \in Procs : SharesFailure(p) => p \in witness

\* Connections open lazily: there are never more than the largest number of
\* goroutines that were in the pool at once, so sequential work has one.
OpensLazily == open <= peak

\* Every acquire comes to an end: no caller waits forever, although waiters
\* can lose the connection they were woken for to a newcomer.
AcquireReturns ==
    \A p \in Procs : pc[p] = "calling" ~> pc[p] \in {"holding", "outside"}

\* After closeAll every connection ends up closed, whoever had it.
ClosedPoolDrains == closed ~> live = {}
=============================================================================

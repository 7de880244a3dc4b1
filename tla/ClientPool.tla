----------------------------- MODULE ClientPool -----------------------------
(***************************************************************************)
(* The pool of remote clients of the daemon, internal/transfer/pool.go:    *)
(* one client per profile, shared by the upload workers through counted    *)
(* leases, replaced when it is found dead or when a reload of the          *)
(* configuration changes its connection settings.                          *)
(*                                                                         *)
(* The mutex p.mu is implicit in the atomicity of the actions.  A probe, a *)
(* dial, an operation and a Close happen outside of it and take steps of   *)
(* their own.  A client is also the entry (poolEntry) that holds it.       *)
(***************************************************************************)
EXTENDS Integers, FiniteSets

CONSTANTS
    Procs,      \* the callers of Acquire: upload workers
    Names,      \* profile names
    Settings,   \* what profileChanged compares
    Clients,    \* bound: the connections that can be made
    NoClient,
    Absent,     \* no profile of that name
    MaxReloads  \* bound: reloads of the configuration

ASSUME ProcsAssumption == IsFiniteSet(Procs)
ASSUME NoneAssumption == NoClient \notin Clients /\ Absent \notin Settings
ASSUME ReloadsAssumption == MaxReloads \in Nat

VARIABLES
    profiles,   \* p.profiles
    current,    \* p.connections
    users,      \* e.users
    retired,    \* the entries with e.retired
    trusted,    \* the entries with time.Since(e.lastOK) < freshFor
    phase,      \* of each client: unused, open or closed
    alive,      \* the clients whose connection works
    madeFor,    \* the settings each client connected with
    spawned,    \* `go e.client.Close()` goroutines that have yet to run
    pc,         \* where each caller stands
    name,       \* the profile it asks for
    hand,       \* the client it has in hand
    asked,      \* the settings it dials with
    failed,     \* the outcome it gives to release
    stopped,    \* CloseAll was called
    reloads

entryVars  == <<users, retired, trusted>>
clientVars == <<phase, alive, madeFor, spawned>>
callVars   == <<pc, name, hand, asked, failed>>
confVars   == <<profiles, stopped, reloads>>
vars == <<current, entryVars, clientVars, callVars, confVars>>

(* outside: between calls.  probe, probed, lost: in IsAlive and after it.  *)
(* discard: closes the client it found dead.  lookup: about to read the    *)
(* profile.  dial, install: connects, has connected.  using, used: has a   *)
(* lease.  closing: in release, past the mutex.                            *)
States == {"outside", "probe", "probed", "lost", "discard", "lookup", "dial",
           "install", "using", "used", "closing"}
Leasing == {"probe", "probed", "lost", "using", "used"}

Init ==
    /\ profiles \in [Names -> Settings]
    /\ current = [n \in Names |-> NoClient]
    /\ users = [c \in Clients |-> 0]
    /\ retired = {} /\ trusted = {}
    /\ phase = [c \in Clients |-> "unused"] /\ alive = {}
    /\ madeFor = [c \in Clients |-> Absent]
    /\ spawned = [c \in Clients |-> 0]
    /\ pc = [p \in Procs |-> "outside"]
    /\ name \in [Procs -> Names]
    /\ hand = [p \in Procs |-> NoClient]
    /\ asked = [p \in Procs |-> Absent]
    /\ failed = [p \in Procs |-> FALSE]
    /\ stopped = FALSE /\ reloads = 0

-----------------------------------------------------------------------------
Goto(p, s) == pc' = [pc EXCEPT ![p] = s]
Take(p, c) == hand' = [hand EXCEPT ![p] = c]

\* `e, ok := p.connections[profileName]; ok && !e.retired`
Offered(n) == current[n] # NoClient /\ current[n] \notin retired

(* Acquire.                                                                *)

\* A client that was fine a moment ago is leased without a probe, another
\* one is leased and then probed.
AcquireShares(p, n) ==
    /\ pc[p] = "outside" /\ ~stopped
    /\ Offered(n)
    /\ users' = [users EXCEPT ![current[n]] = @ + 1]
    /\ name' = [name EXCEPT ![p] = n]
    /\ Take(p, current[n])
    /\ IF current[n] \in trusted
         THEN Goto(p, "using")
         ELSE Goto(p, "probe")
    /\ UNCHANGED <<current, retired, trusted, clientVars, asked, failed, confVars>>

\* No client to share; an unknown profile is an error.
AcquireDials(p, n) ==
    /\ pc[p] = "outside" /\ ~stopped
    /\ ~Offered(n)
    /\ profiles[n] # Absent
    /\ name' = [name EXCEPT ![p] = n]
    /\ asked' = [asked EXCEPT ![p] = profiles[n]]
    /\ Goto(p, "dial")
    /\ UNCHANGED <<current, entryVars, clientVars, hand, failed, confVars>>

\* IsAlive: an FTP client whose connections are all in use says yes.
Probe(p) ==
    /\ pc[p] = "probe"
    /\ \/ (hand[p] \in alive \/ users[hand[p]] > 1) /\ Goto(p, "probed")
       \/ hand[p] \notin alive /\ Goto(p, "lost")
    /\ UNCHANGED <<current, entryVars, clientVars, name, hand, asked, failed, confVars>>

ProbePassed(p) ==
    /\ pc[p] = "probed"
    /\ trusted' = trusted \cup {hand[p]}
    /\ Goto(p, "using")
    /\ UNCHANGED <<current, users, retired, clientVars, name, hand, asked,
                   failed, confVars>>

\* retire and releaseLocked in one critical section.
ProbeFailed(p) ==
    /\ pc[p] = "lost"
    /\ current' = [current EXCEPT ![name[p]] = IF @ = hand[p] THEN NoClient ELSE @]
    /\ retired' = retired \cup {hand[p]}
    /\ users' = [users EXCEPT ![hand[p]] = @ - 1]
    /\ trusted' = trusted \cup {hand[p]}
    /\ IF users[hand[p]] = 1
         THEN Goto(p, "discard") /\ UNCHANGED hand
         ELSE Goto(p, "lookup") /\ Take(p, NoClient)
    /\ UNCHANGED <<clientVars, name, asked, failed, confVars>>

\* e.client.Close by the caller itself.
Shut(c) == /\ phase' = [phase EXCEPT ![c] = "closed"]
           /\ alive' = alive \ {c}

Discard(p) ==
    /\ pc[p] = "discard"
    /\ Shut(hand[p])
    /\ Goto(p, "lookup") /\ Take(p, NoClient)
    /\ UNCHANGED <<current, entryVars, madeFor, spawned, name, asked, failed, confVars>>

\* The profile of today, if it is still there.
LookUp(p) ==
    /\ pc[p] = "lookup"
    /\ IF profiles[name[p]] = Absent
         THEN Goto(p, "outside") /\ UNCHANGED asked
         ELSE Goto(p, "dial") /\ asked' = [asked EXCEPT ![p] = profiles[name[p]]]
    /\ UNCHANGED <<current, entryVars, clientVars, name, hand, failed,
                   confVars>>

DialFails(p) ==
    /\ pc[p] = "dial"
    /\ asked' = [asked EXCEPT ![p] = Absent]
    /\ Goto(p, "outside")
    /\ UNCHANGED <<current, entryVars, clientVars, name, hand, failed,
                   confVars>>

DialSucceeds(p) ==
    /\ pc[p] = "dial"
    /\ \E c \in Clients :
           /\ phase[c] = "unused"
           /\ phase' = [phase EXCEPT ![c] = "open"]
           /\ alive' = alive \cup {c}
           /\ madeFor' = [madeFor EXCEPT ![c] = asked[p]]
           /\ Take(p, c)
    /\ asked' = [asked EXCEPT ![p] = Absent]
    /\ Goto(p, "install")
    /\ UNCHANGED <<current, entryVars, spawned, name, failed, confVars>>

\* Nobody was faster: the client becomes the profile's.
Installs(p) ==
    /\ pc[p] = "install"
    /\ ~Offered(name[p])
    /\ current' = [current EXCEPT ![name[p]] = hand[p]]
    /\ users' = [users EXCEPT ![hand[p]] = 1]
    /\ trusted' = trusted \cup {hand[p]}
    /\ Goto(p, "using")
    /\ UNCHANGED <<retired, clientVars, name, hand, asked, failed,
                   confVars>>

\* Mutant: the connection that is not needed stays open.
SharesInstalledLeaks(p) ==
    /\ pc[p] = "install"
    /\ Offered(name[p])
    /\ users' = [users EXCEPT ![current[name[p]]] = @ + 1]
    /\ Take(p, current[name[p]])
    /\ Goto(p, "using")
    /\ UNCHANGED <<current, retired, trusted, clientVars, name, asked, failed, confVars>>

\* Another caller was: its client is shared, ours is closed by a goroutine.
SharesInstalled(p) ==
    /\ pc[p] = "install"
    /\ Offered(name[p])
    /\ users' = [users EXCEPT ![current[name[p]]] = @ + 1]
    /\ spawned' = [spawned EXCEPT ![hand[p]] = @ + 1]
    /\ Take(p, current[name[p]])
    /\ Goto(p, "using")
    /\ UNCHANGED <<current, retired, trusted, phase, alive, madeFor, name,
                   asked, failed, confVars>>

-----------------------------------------------------------------------------
(* The lease.                                                              *)

\* The caller's operation: it needs the connection, and may fail anyway.
Operate(p) ==
    /\ pc[p] = "using"
    /\ \E err \in BOOLEAN :
           /\ hand[p] \notin alive => err
           /\ failed' = [failed EXCEPT ![p] = err]
    /\ Goto(p, "used")
    /\ UNCHANGED <<current, entryVars, clientVars, name, hand, asked, confVars>>

\* releaseLocked; the last user of a retired client closes it when last(...).
ReleaseWhen(p, last) ==
    /\ pc[p] = "used"
    /\ users' = [users EXCEPT ![hand[p]] = @ - 1]
    /\ trusted' = IF failed[p] THEN trusted \ {hand[p]} ELSE trusted \cup {hand[p]}
    /\ failed' = [failed EXCEPT ![p] = FALSE]
    /\ IF hand[p] \in retired /\ last
         THEN Goto(p, "closing") /\ UNCHANGED hand
         ELSE Goto(p, "outside") /\ Take(p, NoClient)
    /\ UNCHANGED <<current, retired, clientVars, name, asked, confVars>>

\* Mutants: a retired client is closed by its first user, or by nobody.
ReleaseClosesEarly(p) == ReleaseWhen(p, TRUE)
ReleaseNeverCloses(p) == ReleaseWhen(p, users[hand[p]] = 0)

Release(p) == ReleaseWhen(p, users[hand[p]] = 1)

CloseLast(p) ==
    /\ pc[p] = "closing"
    /\ Shut(hand[p])
    /\ Goto(p, "outside") /\ Take(p, NoClient)
    /\ UNCHANGED <<current, entryVars, madeFor, spawned, name, asked, failed, confVars>>

SpawnedCloses(c) ==
    /\ spawned[c] > 0
    /\ spawned' = [spawned EXCEPT ![c] = @ - 1]
    /\ Shut(c)
    /\ UNCHANGED <<current, entryVars, madeFor, callVars, confVars>>

-----------------------------------------------------------------------------
(* Reload of the configuration, shutdown, time and the network.            *)

\* The clients of profiles that a reload removes or changes.
Outdated(new) == {current[n] : n \in {m \in Names : /\ profiles[m] # Absent
                                                    /\ new[m] # profiles[m]}} \ {NoClient}

UpdateProfiles(new) ==
    /\ reloads < MaxReloads
    /\ reloads' = reloads + 1
    /\ profiles' = new
    /\ current' = [n \in Names |-> IF current[n] \in Outdated(new) THEN NoClient
                                                                  ELSE current[n]]
    /\ retired' = retired \cup Outdated(new)
    /\ spawned' = [c \in Clients |->
           IF c \in Outdated(new) \ retired /\ users[c] = 0 THEN spawned[c] + 1
                                                            ELSE spawned[c]]
    /\ UNCHANGED <<users, trusted, phase, alive, madeFor, callVars, stopped>>

\* After queue.Stop, which waits for the workers.
CloseAll ==
    /\ ~stopped /\ \A p \in Procs : pc[p] = "outside"
    /\ stopped' = TRUE
    /\ LET all == {current[n] : n \in Names} \ {NoClient}
       IN  /\ retired' = retired \cup all
           /\ phase' = [c \in Clients |-> IF c \in all THEN "closed" ELSE phase[c]]
           /\ alive' = alive \ all
    /\ current' = [n \in Names |-> NoClient]
    /\ UNCHANGED <<users, trusted, madeFor, spawned, callVars, profiles, reloads>>

\* freshFor has passed.
Expires(c) ==
    /\ c \in trusted
    /\ trusted' = trusted \ {c}
    /\ UNCHANGED <<current, users, retired, clientVars, callVars, confVars>>

\* The connection is lost.
Dies(c) ==
    /\ c \in alive
    /\ alive' = alive \ {c}
    /\ UNCHANGED <<current, entryVars, phase, madeFor, spawned, callVars, confVars>>

-----------------------------------------------------------------------------
Continues(p) ==
    \/ Probe(p) \/ ProbePassed(p) \/ ProbeFailed(p) \/ Discard(p) \/ LookUp(p)
    \/ DialFails(p) \/ DialSucceeds(p) \/ Installs(p) \/ SharesInstalled(p)
    \/ Operate(p) \/ Release(p) \/ CloseLast(p)

Next ==
    \/ \E p \in Procs :
           \/ \E n \in Names : AcquireShares(p, n) \/ AcquireDials(p, n)
           \/ Continues(p)
    \/ \E new \in [Names -> Settings \cup {Absent}] : UpdateProfiles(new)
    \/ CloseAll
    \/ \E c \in Clients : SpawnedCloses(c) \/ Expires(c) \/ Dies(c)

Spec == Init /\ [][Next]_vars

(* A goroutine that can run does; operations, dials and probes have        *)
(* deadlines, and every lease is released.                                 *)
Fairness == /\ \A p \in Procs : WF_vars(Continues(p))
            /\ \A c \in Clients : WF_vars(SpawnedCloses(c))

FairSpec == Spec /\ Fairness

-----------------------------------------------------------------------------
(* Properties.                                                             *)

\* The values each variable can take.
TypeOK ==
    /\ profiles \in [Names -> Settings \cup {Absent}]
    /\ current \in [Names -> Clients \cup {NoClient}]
    /\ users \in [Clients -> Nat]
    /\ retired \subseteq Clients /\ trusted \subseteq Clients
    /\ phase \in [Clients -> {"unused", "open", "closed"}]
    /\ alive \subseteq Clients
    /\ madeFor \in [Clients -> Settings \cup {Absent}]
    /\ spawned \in [Clients -> Nat]
    /\ pc \in [Procs -> States]
    /\ name \in [Procs -> Names]
    /\ hand \in [Procs -> Clients \cup {NoClient}]
    /\ asked \in [Procs -> Settings \cup {Absent}]
    /\ failed \in [Procs -> BOOLEAN]
    /\ stopped \in BOOLEAN
    /\ reloads \in 0..MaxReloads

Holders(c) == {p \in Procs : pc[p] \in Leasing /\ hand[p] = c}
Closers(c) == {p \in Procs : pc[p] \in {"discard", "closing"} /\ hand[p] = c}

\* e.users is the number of leases that are out, whatever the order in which
\* probes fail, leases end and reloads retire the entry.
LeasesCounted == \A c \in Clients : users[c] = Cardinality(Holders(c))

\* "closed only once its last lease is released -- never underneath an
\* operation still using it" (pool.go:23): while somebody has a lease nobody
\* has closed the client and no goroutine is about to.
NeverClosedInUse ==
    \A c \in Clients :
        Holders(c) # {} => phase[c] = "open" /\ Closers(c) = {} /\ spawned[c] = 0

\* Close runs at most once on a client: it is not safe to call concurrently.
ClosedOnce ==
    \A c \in Clients :
        spawned[c] + Cardinality(Closers(c)) + (IF phase[c] = "closed" THEN 1 ELSE 0) <= 1

\* A connection is never forgotten: one that is open is offered for a profile,
\* leased, about to be installed, or about to be closed.
NothingLeaks ==
    \A c \in Clients : phase[c] = "open" =>
        \/ \E n \in Names : current[n] = c /\ c \notin retired
        \/ Holders(c) # {} \/ Closers(c) # {} \/ spawned[c] > 0
        \/ \E p \in Procs : pc[p] = "install" /\ hand[p] = c

\* A retired client is closed in the end, though its leases are returned by
\* goroutines that know nothing of the reload.
RetiredCloses == \A c \in Clients : c \in retired ~> phase[c] = "closed"

\* pool.go:21: a client "belonging to a profile whose connection settings
\* changed" is retired, "no new leases are handed out for it": the client that
\* is offered was made with the settings of the profile.
OfferedIsCurrent ==
    \A n \in Names : Offered(n) => madeFor[current[n]] = profiles[n]
=============================================================================

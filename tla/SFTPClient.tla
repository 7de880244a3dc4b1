------------------------------ MODULE SFTPClient ------------------------------
(***************************************************************************)
(* sftpClient and deadlineTracker (internal/transfer/sftp.go and           *)
(* deadline.go): every call shares one SSH connection, which has one       *)
(* deadline, the latest of those its calls have begun.  When it passes,    *)
(* the connection ends for everybody.  A large transfer takes one of       *)
(* MaxLarge slots and a session of its own on that connection.             *)
(*                                                                         *)
(* Time passes only while it matters, that is while the server is silent.  *)
(***************************************************************************)
EXTENDS RemoteClient, FiniteSetsExt

CONSTANTS
    MaxLarge,    \* MaxConcurrentLargeTransfers
    Short, Long  \* two of the timeouts, the longer one for large operations

ASSUME LargeAssumption    == MaxLarge \in Nat \ {0}
ASSUME TimeoutsAssumption == Short \in Nat /\ Long \in Nat /\ 0 < Short /\ Short < Long

VARIABLES
    link,        \* the connection: "up", "silent" or "dead"
    budget,      \* deadlineTracker.active: the time each call has left, or None
    timer,       \* the connection's deadline, None when cleared
    large,       \* calls that hold one of largeSlots
    extra,       \* idle sessions in xfer
    own,         \* calls that have a session of xfer, or are opening one
    allowed,     \* sessions xfer still allows itself
    disabled     \* xferDisabled

sftpVars == <<link, budget, timer, large, extra, own, allowed, disabled>>

None == -1

Init_SFTP ==
    /\ link = "dead" /\ budget = [c \in Callers |-> None] /\ timer = None
    /\ large = {} /\ extra = 0 /\ own = {} /\ allowed = MaxLarge /\ disabled = FALSE

-----------------------------------------------------------------------------
(* deadlineTracker: begin and end, both of which apply the latest deadline *)
(* to the connection.                                                      *)

ApplyOwn(c, b) == b[c]
Apply(c, b) == Max({b[d] : d \in Callers})

SetBudget(c, d) ==
    LET b == [budget EXCEPT ![c] = d] IN budget' = b /\ timer' = Apply(c, b)

Requests == {"handshake", "brief", "metadata", "all", "look", "make", "relook",
             "lookup", "transfer", "cleanup"}
Done     == {"ok", "refused", "lost"}

\* What a request is begun with.  Opening a session is begun with nothing.
Allowance(c, step) ==
    CASE step = "transfer" -> Long
      [] step = "cleanup"  -> Max({budget[c], Short})   \* inside the transfer's
      [] step \in Requests -> Short
      [] OTHER             -> None

\* The call ends what it had begun and goes on at step.
Continue(c, step) ==
    /\ Goto(c, step) /\ SetBudget(c, Allowance(c, step))
    /\ left' = [left EXCEPT ![c] =
                   CASE step \in Done -> Depth
                     [] step = "look" /\ pc[c] # "all" -> @ - 1
                     [] OTHER -> @]

-----------------------------------------------------------------------------
(* The requests of each operation and what follows their answers.          *)

SFTPOps == {"meta", "alive", "mkdirall", "fetch", "fetchlarge", "send", "sendlarge"}
IsLarge(c) == op[c] \in {"fetchlarge", "sendlarge"}

\* A download whose size is not known looks it up first; an upload that may
\* resume, once it has a session.
Beginnings(o) ==
    CASE o = "meta"  -> {"metadata"}            [] o = "alive" -> {"brief"}
      [] o = "mkdirall" -> {"all"}              [] o = "send"  -> {"transfer"}
      [] o = "fetch" -> {"lookup", "transfer"}  [] o = "fetchlarge" -> {"lookup", "slot"}
      [] o = "sendlarge" -> {"slot"}

WithSession(c) == IF op[c] = "sendlarge" THEN {"lookup", "transfer"} ELSE {"transfer"}

Follows(c) == IF left[c] = 1 THEN "ok" ELSE "look"

\* Mkdir's refusal may mean that another made the directory first.
AfterMkdirGivesUp(c, answer) == IF answer = "done" THEN Follows(c) ELSE answer
AfterMkdir(c, answer) == IF answer = "done" THEN Follows(c) ELSE "relook"

After(c, answer) ==
    CASE pc[c] \in {"metadata", "brief"} -> {IF answer = "done" THEN "ok" ELSE answer}
      [] pc[c] = "all"     -> {IF answer = "done" THEN "ok" ELSE "look"}
      [] pc[c] = "look"    -> {IF answer = "done" THEN Follows(c) ELSE "make"}
      [] pc[c] = "make"    -> {AfterMkdir(c, answer)}
      [] pc[c] = "relook"  -> {IF answer = "done" THEN Follows(c) ELSE answer}
      [] pc[c] = "lookup"  -> IF op[c] = "sendlarge" THEN {"transfer"}
                              ELSE IF answer # "done" THEN {answer}
                              ELSE {IF IsLarge(c) THEN "slot" ELSE "transfer"}
      [] pc[c] = "transfer" -> IF answer = "done" THEN {"ok"}
                               ELSE {answer} \cup IF op[c] \in {"send", "sendlarge"}
                                                    THEN {"cleanup"} ELSE {}
      [] pc[c] = "cleanup" -> IF answer = "lost" THEN {"refused", "lost"} ELSE {"refused"}

\* What the server may answer: the state of the path decides for MkdirAll.
Says(c) ==
    CASE pc[c] = "all" -> {IF made = Depth THEN "done" ELSE "refused"}
      [] pc[c] \in {"look", "relook"} -> {IF made >= Level(c) THEN "done" ELSE "refused"}
      [] pc[c] = "make" -> IF made = Level(c) - 1 THEN {"done", "refused"} ELSE {"refused"}
      [] OTHER -> {"done", "refused"}

\* An answer, or the failure of whatever is asked of a connection that ended.
Answer(c) ==
    /\ pc[c] \in Requests \ {"handshake"}
    /\ \E answer \in CASE link = "up" -> Says(c) [] link = "dead" -> {"lost"} [] OTHER -> {} :
         /\ \E step \in After(c, answer) : Continue(c, step)
         /\ Excuse(c, answer = "lost" \/ (pc[c] = "make" /\ answer = "refused" /\ made < Level(c)))
         /\ made' = IF pc[c] = "make" /\ answer = "done" THEN Level(c) ELSE made
    /\ UNCHANGED <<kind, client, op, calls, faults, link, large, extra, own, allowed, disabled>>

-----------------------------------------------------------------------------
(* transferSession and its release function.                               *)

TakeSlot(c) ==
    /\ pc[c] = "slot" /\ Cardinality(large) < MaxLarge
    /\ large' = large \cup {c}
    /\ IF disabled THEN \E step \in WithSession(c) : Continue(c, step)
                   ELSE Continue(c, "session")
    /\ UNCHANGED <<kind, client, op, excused, made, calls, faults, link, extra, own,
                   allowed, disabled>>

\* acquire: an idle session, or a new one, or wait.  Who waited through a
\* failure that leaves none is given its error and shares the primary session.
TakeSession(c) ==
    /\ pc[c] = "session"
    /\ \/ /\ extra > 0 /\ extra' = extra - 1
          /\ \E step \in WithSession(c) : Continue(c, step)
       \/ /\ extra = 0 /\ Cardinality(own) < allowed
          /\ Continue(c, "open") /\ UNCHANGED extra
    /\ own' = own \cup {c}
    /\ UNCHANGED <<kind, client, op, excused, made, calls, faults, link, large,
                   allowed, disabled>>

WaitedInVain(c) ==
    /\ pc[c] = "session" /\ disabled /\ own = {} /\ extra = 0
    /\ \E step \in WithSession(c) : Continue(c, step)
    /\ UNCHANGED <<kind, client, op, excused, made, calls, faults, link, large,
                   extra, own, allowed, disabled>>

\* Sessions that are not being opened.
EstablishedSessions == extra + Cardinality({d \in own : pc[d] # "open"})

\* sftp.NewClient on the connection as it is: no begin precedes it.
OpenSession(c) ==
    /\ pc[c] = "open"
    /\ \/ /\ link = "up"
          /\ \E step \in WithSession(c) : Continue(c, step)
          /\ UNCHANGED <<own, allowed, disabled>>
       \/ /\ link # "silent" /\ own' = own \ {c}
          /\ IF EstablishedSessions > 0
               THEN /\ allowed' = extra + Cardinality(own) - 1
                    /\ Continue(c, "session") /\ UNCHANGED disabled
               ELSE /\ disabled' = TRUE
                    /\ \E step \in WithSession(c) : Continue(c, step)
                    /\ UNCHANGED allowed
    /\ UNCHANGED <<kind, client, op, excused, made, calls, faults, link, large, extra>>

\* The call returns; its release function gives back session and slot, unless
\* the session broke.
Finish(c) ==
    /\ pc[c] \in Done
    /\ extra' = IF c \in own /\ pc[c] # "lost" THEN extra + 1 ELSE extra
    /\ own' = own \ {c} /\ large' = large \ {c}
    /\ Return(c)
    /\ UNCHANGED <<kind, client, left, made, calls, faults, link, budget, timer,
                   allowed, disabled>>

-----------------------------------------------------------------------------
\* Connect closes what there is first.  The handshake and the first session are
\* bounded by DialTimeout; the TCP connection may not come about.
ConnectSFTP(c) ==
    /\ IF client = "open"
         THEN Enter(c, "connect", "shut") /\ UNCHANGED <<link, budget, timer>>
         ELSE Enter(c, "connect", "handshake") /\ link' = "up" /\ SetBudget(c, Short)
    /\ UNCHANGED <<kind, client, made, faults, large, extra, own, allowed, disabled>>

\* Close: the extra sessions one after the other, then the first one, then the
\* connection.  The close of a session waits until the server has closed its
\* end, under no deadline.
Shut(c) ==
    /\ pc[c] = "shut" /\ link # "silent"
    /\ IF extra > 0
         THEN /\ extra' = extra - 1
              /\ UNCHANGED <<client, op, pc, excused, link, budget, timer>>
         ELSE /\ client' = "closed" /\ UNCHANGED extra
              /\ IF op[c] = "connect"
                   THEN /\ link' = "up" /\ Goto(c, "handshake") /\ SetBudget(c, Short)
                        /\ UNCHANGED <<op, excused>>
                   ELSE link' = "dead" /\ Return(c) /\ UNCHANGED <<budget, timer>>
    /\ UNCHANGED <<kind, left, made, calls, faults, large, own, allowed, disabled>>

Handshaken(c) ==
    /\ pc[c] = "handshake" /\ link # "silent"
    /\ \/ link = "up" /\ client' = "open" /\ allowed' = MaxLarge /\ disabled' = FALSE
          /\ UNCHANGED link
       \/ link' = "dead" /\ UNCHANGED <<client, allowed, disabled>>
    /\ SetBudget(c, None)
    /\ Return(c)
    /\ UNCHANGED <<kind, left, made, calls, faults, large, extra, own>>

CallSFTP(c) ==
    /\ client = "open"
    /\ \/ \E o \in SFTPOps : \E step \in Beginnings(o) :
            Enter(c, o, step) /\ SetBudget(c, Allowance(c, step))
       \/ Enter(c, "close", "shut") /\ UNCHANGED <<budget, timer>>
    /\ UNCHANGED <<kind, client, made, faults, link, large, extra, own, allowed, disabled>>

-----------------------------------------------------------------------------
(* The server, and time.                                                   *)

DisturbLink ==
    /\ \/ link = "up" /\ ~Alone /\ Fault /\ link' = "silent"
       \/ link # "dead" /\ Fault /\ link' = "dead"
       \/ link = "silent" /\ link' = "up" /\ UNCHANGED faults
    /\ UNCHANGED <<kind, client, callVars, made, calls, budget, timer, large,
                   extra, own, allowed, disabled>>

Tick ==
    /\ link = "silent" /\ timer > 0
    /\ timer' = timer - 1
    /\ budget' = [c \in Callers |-> IF budget[c] > 0 THEN budget[c] - 1 ELSE budget[c]]
    /\ UNCHANGED <<clientVars, link, large, extra, own, allowed, disabled>>

Tear ==
    /\ link = "silent" /\ timer = 0 /\ link' = "dead"
    /\ UNCHANGED <<clientVars, budget, timer, large, extra, own, allowed, disabled>>

StepSFTP(c) == Answer(c) \/ TakeSlot(c) \/ TakeSession(c) \/ WaitedInVain(c)
               \/ OpenSession(c) \/ Finish(c) \/ Handshaken(c) \/ Shut(c)

NextSFTP ==
    \/ \E c \in Callers : CallSFTP(c) \/ ConnectSFTP(c) \/ StepSFTP(c)
    \/ DisturbLink \/ Tick \/ Tear

-----------------------------------------------------------------------------
TypeOK_SFTP ==
    /\ link \in {"up", "silent", "dead"}
    /\ budget \in [Callers -> None..Long] /\ timer \in None..Long
    /\ large \subseteq Callers /\ own \subseteq Callers
    /\ extra \in 0..MaxLarge /\ allowed \in 1..MaxLarge /\ disabled \in BOOLEAN

\* Property: the connection's deadline is that of the call with the most time
\* left, whichever calls have begun and ended in between, and none when
\* nothing is in flight: no call is cut short by another's budget, and none
\* is left without one (deadline.go:15-23).
DeadlineIsLatest ==
    /\ \A c \in Callers : budget[c] <= timer
    /\ \E c \in Callers : budget[c] = timer

\* A session is being opened or closed, nothing else is under a deadline, and
\* the server has stopped answering: nothing will end that.
Stranded ==
    link = "silent" /\ timer = None /\ \E c \in Callers : pc[c] \in {"open", "shut"}
===============================================================================

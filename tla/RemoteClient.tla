---------------------------- MODULE RemoteClient ----------------------------
(***************************************************************************)
(* RemoteClient of internal/transfer/client.go: what a call of a client    *)
(* looks like to the goroutine that makes it.  FTPClient and SFTPClient    *)
(* are the two that NewClient chooses from.                                *)
(*                                                                         *)
(* Of the server's tree one path matters, the one MkdirAll is called with: *)
(* Depth components of which the first "made" ones exist.                  *)
(***************************************************************************)
EXTENDS Integers, FiniteSets

CONSTANTS
    Callers,     \* goroutines that share the client
    NoCaller,
    Depth,       \* components of the path MkdirAll makes
    MaxCalls,    \* bound: calls made in all
    MaxFaults    \* bound: how often a server goes silent or a connection ends

ASSUME CallersAssumption == IsFiniteSet(Callers) /\ Callers # {} /\ NoCaller \notin Callers
ASSUME DepthAssumption   == Depth \in Nat \ {0}

VARIABLES
    kind,        \* "ftp" or "sftp"
    client,      \* "closed" or "open": Connect succeeded, Close has not run
    op,          \* the call each goroutine is in
    pc,          \* where it stands in that call
    left,        \* components that MkdirAll has not dealt with
    excused,     \* something outside the client went wrong during that call
    made,        \* components of the path that exist on the server
    calls, faults

callVars   == <<op, pc, left, excused>>
clientVars == <<kind, client, callVars, made, calls, faults>>

NewClient(protocol) ==
    /\ kind = protocol /\ client = "closed"
    /\ op = [c \in Callers |-> "none"] /\ pc = [c \in Callers |-> "idle"]
    /\ left = [c \in Callers |-> Depth]
    /\ excused = [c \in Callers |-> FALSE]
    /\ made = 0 /\ calls = 0 /\ faults = 0

\* Connect and Close have the client to themselves: reconnectCoordinator and
\* the leases of ConnectionPool see to that.
Alone == \A c \in Callers : pc[c] = "idle"

Exclusive == {"connect", "close"}

Enter(c, o, step) ==
    /\ pc[c] = "idle" /\ calls < MaxCalls
    /\ \A d \in Callers : op[d] \in Exclusive => pc[d] = "idle"
    /\ o \in Exclusive => Alone
    /\ calls' = calls + 1
    /\ op' = [op EXCEPT ![c] = o] /\ pc' = [pc EXCEPT ![c] = step]
    /\ left' = [left EXCEPT ![c] = Depth]
    /\ excused' = [excused EXCEPT ![c] = FALSE]

Goto(c, step) == pc' = [pc EXCEPT ![c] = step]

\* The call returns; what it was is forgotten.
Return(c) == /\ Goto(c, "idle") /\ op' = [op EXCEPT ![c] = "none"]
             /\ excused' = [excused EXCEPT ![c] = FALSE]

Excuse(c, why) ==
    excused' = [excused EXCEPT ![c] = op[c] = "mkdirall" /\ (@ \/ why)]

\* Something between the client and the server goes wrong once more.
Fault == faults < MaxFaults /\ faults' = faults + 1

\* The component MkdirAll is at.
Level(c) == Depth - left[c] + 1

\* Property: MkdirAll makes the whole path or has a reason not to, whoever
\* else is making the same directories: what it finds made by another is not
\* an error, and it does not stop early.
MadeOrExcused ==
    \A c \in Callers : op[c] = "mkdirall" =>
        /\ pc[c] = "ok" => made = Depth \/ excused[c]
        /\ pc[c] \in {"refused", "lost", "broken"} => excused[c]
=============================================================================

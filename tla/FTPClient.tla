------------------------------ MODULE FTPClient ------------------------------
(***************************************************************************)
(* ftpClient and ftpSession (internal/transfer/ftp.go and ftpsession.go):  *)
(* every call has a control connection to itself, sends its commands one   *)
(* after the other under a deadline, and gives the connection back to the  *)
(* pool or has it closed.  The pool's own interleavings are ConnPool's.    *)
(*                                                                         *)
(* A command that is not answered in time leaves its reply outstanding:    *)
(* from then on the session reads the reply to one command as that to the  *)
(* next.  slip remembers the command it began with, or that a failure of   *)
(* the local file hid it.                                                  *)
(***************************************************************************)
EXTENDS RemoteClient

CONSTANTS
    Sessions,    \* control connections, as many as FTPConnections allows, and
                 \* enough for each caller to have one
    NoSession,
    MaxTries     \* maxListOffsetTries

ASSUME SessionsAssumption ==
    NoSession \notin Sessions /\ Cardinality(Callers) <= Cardinality(Sessions)
ASSUME TriesAssumption    == MaxTries \in Nat

VARIABLES
    idle,        \* sessions in the pool
    with,        \* the session each call has checked out or is dialling
    limit,       \* connections the pool still allows itself
    deadline,    \* of a session: "none", "armed" or "expired"
    line,        \* of a session: "up", "silent" or "cut"
    slip,        \* of a session: "none", or the command whose reply is missing,
                 \* "local" if a local failure hid that
    cwd,         \* its working directory: where it logged in, or elsewhere
    found,       \* MkdirAll: the directory it looked for exists
    precise,     \* the server has MLST
    known, tries,  \* listOffsetKnown, listOffsetTries
    mu           \* who holds offsetMu

sessionVars == <<deadline, line, slip, cwd>>
offsetVars  == <<precise, known, tries, mu>>
ftpVars     == <<idle, with, limit, sessionVars, found, offsetVars>>

Init_FTP ==
    /\ idle = {} /\ with = [c \in Callers |-> NoSession]
    /\ limit = Cardinality(Sessions)
    /\ deadline = [s \in Sessions |-> "none"] /\ line = [s \in Sessions |-> "up"]
    /\ slip = [s \in Sessions |-> "none"] /\ cwd = [s \in Sessions |-> "home"]
    /\ found = [c \in Callers |-> FALSE]
    /\ precise \in BOOLEAN /\ known = FALSE /\ tries = 0 /\ mu = NoCaller

-----------------------------------------------------------------------------
(* The commands of each operation.  A result in Results ends it.           *)

FTPOps  == {"stat", "readdir", "single", "alive", "mkdirall", "upload",
            "resume", "download", "known"}
Results == {"ok", "refused", "lost", "broken"}

\* The command an operation begins with.
First(o) == [stat |-> "entry", readdir |-> "list", single |-> "single",
             alive |-> "noop", upload |-> "stor", resume |-> "psize",
             download |-> "lookup", known |-> "retr",
             mkdirall |-> IF precise THEN "fast" ELSE "mkd"][o]

\* Where the answer "done" leads.  The mtime of a listing leads to the
\* detection of its offset; a component of MkdirAll to the next one.
NextComponent(c) == IF left[c] = 1 THEN "ok" ELSE "mkd"
OnDone(c) ==
    [entry |-> "detect", list |-> "detect", lookup |-> "detect",
     single |-> "ok", noop |-> "ok", fast |-> "ok", retr |-> "ok",
     psize |-> "ptime", ptime |-> "storfrom", storfrom |-> "settime",
     stor |-> "settime", settime |-> "rename", rename |-> "ok",
     deldst |-> "rename2", rename2 |-> "ok", delpartial |-> "refused",
     size |-> "retr", mkd |-> NextComponent(c), pwd |-> "cd", cd |-> "back",
     back |-> IF found[c] THEN NextComponent(c) ELSE "refused"]

\* Where a refusal leads.  A failed upload that is not to be resumed takes
\* its partial file away again.
OnRefusal(c) ==
    [entry |-> "refused", list |-> "refused", single |-> "refused",
     noop |-> "broken", retr |-> "refused", lookup |-> "size", size |-> "retr",
     psize |-> "stor", ptime |-> "stor", storfrom |-> "stor",
     stor |-> IF op[c] = "upload" THEN "delpartial" ELSE "refused",
     settime |-> "rename", rename |-> "deldst", deldst |-> "rename2",
     rename2 |-> "delpartial", delpartial |-> "refused",
     fast |-> "mkd", mkd |-> "pwd", pwd |-> "refused", cd |-> "back",
     back |-> "broken"]

\* Where a lost answer leads by itself: the operation fails with the network's error,
\* but where the code looks at whether there was an error only.
Overlooks == {"psize", "ptime", "settime", "deldst", "delpartial", "lookup",
              "size", "pwd", "cd", "noop", "back"}
OnLoss(c) == [x \in DOMAIN OnRefusal(c) |->
                 IF x \in Overlooks THEN OnRefusal(c)[x] ELSE "lost"]

Commands == {"entry", "list", "single", "noop", "retr", "lookup", "size",
             "psize", "ptime", "storfrom", "stor", "settime", "rename",
             "deldst", "rename2", "delpartial", "fast", "mkd", "pwd", "cd",
             "back"}

\* begin is called again for a component of MkdirAll, and once the size of a
\* download is known.
Fresh == {"mkd", "retr"}

\* sessionBroken: refusals and local failures leave the session usable,
\* everything else does not.
SessionBrokenByState(r) == r = "broken"
SessionBroken(r) == r \in {"lost", "broken"}

-----------------------------------------------------------------------------
(* A session and its pool.                                                 *)

InUse == {with[c] : c \in Callers} \ {NoSession}

\* connPool.open, which a broken connection leaves before it is closed, and
\* those of them that are not being dialled.
Open        == idle \cup ({with[c] : c \in {d \in Callers : pc[d] # "quit"}} \ {NoSession})
Established == Open \ {with[c] : c \in {d \in Callers : pc[d] = "dial"}}

SetDeadline(s, d) == deadline' = [deadline EXCEPT ![s] = d]

\* dialFTPSession and the library's dialling: a deadline covers greeting, TLS
\* and login.
Dial(c) ==
    LET s == CHOOSE x \in Sessions : x \notin idle \cup InUse IN
    /\ Goto(c, "dial")
    /\ with' = [with EXCEPT ![c] = s]
    /\ SetDeadline(s, "armed") /\ UNCHANGED <<line, slip, cwd>>

\* The connection is no more: its place is as if never used.
Gone(c) ==
    LET s == with[c] IN
    /\ with' = [with EXCEPT ![c] = NoSession] /\ SetDeadline(s, "none")
    /\ line' = [line EXCEPT ![s] = "up"] /\ slip' = [slip EXCEPT ![s] = "none"]
    /\ cwd' = [cwd EXCEPT ![s] = "home"]

Dialled(c) ==
    /\ pc[c] = "dial" /\ line[with[c]] = "up"
    /\ IF op[c] = "connect"
         THEN /\ client' = "open" /\ limit' = Cardinality(Sessions)
              /\ idle' = {with[c]} /\ with' = [with EXCEPT ![c] = NoSession]
              /\ SetDeadline(with[c], "none")
              /\ known' = FALSE /\ tries' = 0
              /\ Return(c)
         ELSE /\ Goto(c, First(op[c])) /\ SetDeadline(with[c], "armed")
              /\ UNCHANGED <<op, excused, client, limit, idle, with, known, tries>>
    /\ UNCHANGED <<kind, left, made, calls, faults, line, slip,
                   cwd, found, precise, mu>>

\* The dial fails, at once or when its deadline is over.  Beside established
\* connections the pool makes do with those it has; a failure that leaves it
\* with nothing at all is that of the calls that waited for it, too.
DialFails(c) ==
    LET waiting == {d \in Callers : pc[d] = "acquire" /\ Open = {with[c]}} IN
    /\ pc[c] = "dial"
    /\ line[with[c]] = "silent" => deadline[with[c]] # "none"
    /\ Gone(c)
    /\ IF Established # {} /\ op[c] # "connect"
         THEN /\ limit' = Cardinality(Open) - 1
              /\ Goto(c, "acquire") /\ UNCHANGED <<op, excused>>
         ELSE /\ \E told \in SUBSET waiting :
                   LET out == told \cup {c} IN
                   /\ pc' = [d \in Callers |-> IF d \in out THEN "idle" ELSE pc[d]]
                   /\ op' = [d \in Callers |-> IF d \in out THEN "none" ELSE op[d]]
                   /\ excused' = [d \in Callers |-> d \notin out /\ excused[d]]
              /\ UNCHANGED limit
    /\ UNCHANGED <<kind, client, left, made, calls, faults, idle,
                   found, offsetVars>>

\* withConn up to the first command; IsAlive takes what is idle or has its
\* answer.
Acquire(c) ==
    /\ pc[c] = "acquire"
    /\ \/ \E s \in idle :
            /\ idle' = idle \ {s} /\ with' = [with EXCEPT ![c] = s]
            /\ SetDeadline(s, "armed") /\ Goto(c, First(op[c]))
            /\ UNCHANGED <<op, excused, line, slip, cwd>>
       \/ /\ idle = {} /\ op[c] # "alive" /\ Cardinality(Open) < limit
          /\ Dial(c) /\ UNCHANGED <<op, excused, idle>>
       \/ /\ idle = {} /\ op[c] = "alive"
          /\ Return(c) /\ UNCHANGED <<idle, with, sessionVars>>
    /\ UNCHANGED <<kind, client, left, made, calls, faults, limit,
                   found, offsetVars>>

\* ftpSession.close: QUIT, with a deadline of its own.
CloseForever(c, s) == Goto(c, "quit") /\ SetDeadline(s, "none")
CloseSession(c, s) == Goto(c, "quit") /\ SetDeadline(s, "armed")

\* end, and release: back into the pool or closed.
EndKeepsDeadline(c) == deadline
End(c) == [deadline EXCEPT ![with[c]] = "none"]

Release(c) ==
    /\ pc[c] \in Results
    /\ IF SessionBroken(pc[c])
         THEN /\ CloseSession(c, with[c])
              /\ UNCHANGED <<op, excused, idle, with>>
         ELSE /\ Return(c) /\ deadline' = End(c)
              /\ idle' = idle \cup {with[c]}
              /\ with' = [with EXCEPT ![c] = NoSession]
    /\ UNCHANGED <<kind, client, left, made, calls, faults, limit,
                   line, slip, cwd, found, offsetVars>>

Quit(c) ==
    /\ pc[c] = "quit"
    /\ line[with[c]] = "silent" => deadline[with[c]] # "none"
    /\ Gone(c)
    /\ IF op[c] \in Exclusive THEN Goto(c, "closing") /\ UNCHANGED <<op, excused>>
                              ELSE Return(c)
    /\ UNCHANGED <<kind, client, left, made, calls, faults,
                   idle, limit, found, offsetVars>>

\* closeAll, and what Connect does after it.
Closing(c) ==
    /\ pc[c] = "closing"
    /\ \/ \E s \in idle :
            /\ idle' = idle \ {s} /\ with' = [with EXCEPT ![c] = s]
            /\ CloseSession(c, s)
            /\ UNCHANGED <<op, excused, client, line, slip, cwd>>
       \/ /\ idle = {} /\ op[c] = "close"
          /\ client' = "closed" /\ Return(c)
          /\ UNCHANGED <<idle, with, sessionVars>>
       \/ /\ idle = {} /\ op[c] = "connect"
          /\ client' = "closed" /\ Dial(c)
          /\ UNCHANGED <<op, excused, idle>>
    /\ UNCHANGED <<kind, left, made, calls, faults, limit, found, offsetVars>>

-----------------------------------------------------------------------------
(* One command: its effect on the server, the answer as the session reads  *)
(* it, and what the operation does next.                                   *)

Exists(c) == made >= Level(c)

\* What the server may answer.  MKD is refused when the directory exists, and
\* may be for other reasons; MLST and CWD tell whether one exists.
Answers(c) ==
    CASE pc[c] = "fast" -> {IF made = Depth THEN "done" ELSE "refused"}
      [] pc[c] = "mkd"  -> IF made = Level(c) - 1 THEN {"done", "refused"} ELSE {"refused"}
      [] pc[c] = "cd"   -> {IF Exists(c) THEN "done" ELSE "refused"}
      [] OTHER          -> {"done", "refused"}

\* Refusals that no client can do anything about.
Denied(c, answer) ==
    answer = "refused" /\ (pc[c] = "mkd" => ~Exists(c)) /\ pc[c] \in {"mkd", "pwd", "back"}

Effect(c, answer) ==
    /\ made' = IF pc[c] = "mkd" /\ answer = "done" THEN Level(c) ELSE made
    /\ cwd' = IF answer # "done" THEN cwd
              ELSE [cwd EXCEPT ![with[c]] =
                       CASE pc[c] = "cd" -> "away" [] pc[c] = "back" -> "home" [] OTHER -> @]

\* The operation goes on at step, its session's deadline being d unless it
\* begins another.
MoveOn(c, step, d) ==
    /\ Goto(c, step)
    /\ SetDeadline(with[c], IF step \in Fresh THEN "armed" ELSE d)
    /\ left' = [left EXCEPT ![c] =
                   CASE step \in Results -> Depth
                     [] step = "mkd" /\ pc[c] \in {"mkd", "back"} -> @ - 1
                     [] OTHER -> @]

InTime(c)  == deadline[with[c]] = "armed"
Timeout(c) == line[with[c]] = "silent" /\ InTime(c)

\* The reply that is read, in time.  Out of step it is that to some earlier
\* command, and says anything.
Reply(c) ==
    LET s == with[c] IN
    /\ pc[c] \in Commands /\ line[s] = "up" /\ InTime(c)
    /\ \E answer \in Answers(c) :
       \E read \in IF slip[s] = "none" THEN {answer} ELSE {"done", "refused"} :
         /\ Effect(c, answer)
         /\ Excuse(c, slip[s] # "none" \/ Denied(c, answer))
         /\ MoveOn(c, (IF read = "done" THEN OnDone(c) ELSE OnRefusal(c))[pc[c]], "armed")
         /\ found' = [found EXCEPT ![c] = pc[c] = "cd" /\ read = "done"]
    /\ UNCHANGED <<kind, client, op, calls, faults, idle, with, limit,
                   line, slip, offsetVars>>

\* The local file of a transfer that is under way may fail as well, before the
\* network does.  The call then fails with an *fs.PathError, whatever the end
\* of the transfer says: writeLocalAtomic drops finish's error, StorFrom
\* reports both.
LocalFails(c) ==
    IF pc[c] \in {"retr", "stor", "storfrom"} /\ InTime(c) THEN BOOLEAN ELSE {FALSE}

\* No reply: the deadline passes with the command on its way, had passed
\* before it could be sent, or the connection is at its end.
Lose(c) == \E local \in LocalFails(c) :
    LET s == with[c] IN
    /\ pc[c] \in Commands
    /\ \/ /\ Timeout(c)
          /\ slip' = [slip EXCEPT ![s] = IF @ # "none" THEN @
                                        ELSE IF local THEN "local" ELSE pc[c]]
          /\ \E answer \in Answers(c) \cup {"refused"} : Effect(c, answer)
       \/ /\ ~InTime(c) \/ line[s] = "cut"
          /\ UNCHANGED <<slip, made, cwd>>
    /\ Excuse(c, TRUE)
    /\ MoveOn(c, (IF local THEN OnRefusal(c) ELSE OnLoss(c))[pc[c]],
                 IF line[s] = "cut" THEN deadline[s] ELSE "expired")
    /\ found' = [found EXCEPT ![c] = FALSE]
    /\ UNCHANGED <<kind, client, op, calls, faults, idle, with, limit,
                   line, offsetVars>>

-----------------------------------------------------------------------------
(* detectListOffset: under offsetMu, which is held over a round trip.      *)

\* What follows it: a listing tries its next entry while nothing is known.
Detected(c, isKnown) ==
    IF op[c] = "download" THEN {"retr"}
    ELSE IF op[c] = "readdir" /\ ~isKnown THEN {"ok", "detect"} ELSE {"ok"}

Detect(c) ==
    /\ pc[c] = "detect" /\ mu = NoCaller
    /\ \/ /\ known \/ precise
          /\ known' = TRUE
          /\ \E step \in Detected(c, TRUE) : MoveOn(c, step, deadline[with[c]])
          /\ UNCHANGED <<tries, mu>>
       \/ /\ ~known /\ ~precise     \* not a recent file, or tried too often
          /\ \E step \in Detected(c, FALSE) \ {"detect"} : MoveOn(c, step, deadline[with[c]])
          /\ UNCHANGED <<known, tries, mu>>
       \/ /\ ~known /\ ~precise /\ tries < MaxTries
          /\ tries' = tries + 1 /\ mu' = c
          /\ Goto(c, "mdtm") /\ UNCHANGED <<known, left, deadline>>
    /\ UNCHANGED <<kind, client, op, excused, made, calls, faults, idle,
                   with, limit, line, slip, cwd, found, precise>>

\* GetTime's error is only a reason not to know the offset.
Probed(c) ==
    LET s == with[c] IN
    /\ pc[c] = "mdtm"
    /\ \/ /\ line[s] = "up" /\ InTime(c)
          /\ known' \in BOOLEAN
          /\ \E step \in Detected(c, known') : MoveOn(c, step, "armed")
          /\ UNCHANGED <<slip, excused>>
       \/ /\ Timeout(c)
          /\ slip' = [slip EXCEPT ![s] = IF @ = "none" THEN "mdtm" ELSE @]
          /\ \E step \in Detected(c, FALSE) : MoveOn(c, step, "expired")
          /\ Excuse(c, TRUE) /\ UNCHANGED known
       \/ /\ ~InTime(c) \/ line[s] = "cut"
          /\ \E step \in Detected(c, FALSE) : MoveOn(c, step, deadline[s])
          /\ Excuse(c, TRUE) /\ UNCHANGED <<slip, known>>
    /\ mu' = NoCaller
    /\ UNCHANGED <<kind, client, op, made, calls, faults, idle, with,
                   limit, line, cwd, found, precise, tries>>

\* A call's time runs out while another has offsetMu.
WaitsTooLong(c) ==
    /\ pc[c] = "detect" /\ mu # NoCaller /\ InTime(c)
    /\ SetDeadline(with[c], "expired")
    /\ UNCHANGED <<clientVars, idle, with, limit, line, slip, cwd, found, offsetVars>>

-----------------------------------------------------------------------------
CallFTP(c) ==
    /\ \/ \E o \in FTPOps : client = "open" /\ Enter(c, o, "acquire")
       \/ \E o \in Exclusive : Enter(c, o, "closing")
    /\ UNCHANGED <<kind, client, made, faults, ftpVars>>

\* The server stops answering, answers again (what was asked first), or its
\* end of a connection goes away.
Disturb(s) ==
    /\ \/ /\ line[s] = "up" /\ s \in InUse /\ Fault
          /\ line' = [line EXCEPT ![s] = "silent"]
       \/ /\ line[s] # "cut" /\ s \in idle \cup InUse /\ Fault
          /\ line' = [line EXCEPT ![s] = "cut"]
       \/ /\ line[s] = "silent"
          /\ line' = [line EXCEPT ![s] = "up"] /\ UNCHANGED faults
    /\ UNCHANGED <<kind, client, callVars, made, calls, idle, with, limit,
                   deadline, slip, cwd, found, offsetVars>>

StepFTP(c) ==
    \/ Acquire(c) \/ Dialled(c) \/ DialFails(c) \/ Closing(c)
    \/ Reply(c) \/ Lose(c) \/ Detect(c) \/ Probed(c)
    \/ Release(c) \/ Quit(c)

NextFTP ==
    \/ \E c \in Callers : CallFTP(c) \/ StepFTP(c) \/ WaitsTooLong(c)
    \/ \E s \in Sessions : Disturb(s)

-----------------------------------------------------------------------------
TypeOK_FTP ==
    /\ idle \subseteq Sessions /\ with \in [Callers -> Sessions \cup {NoSession}]
    /\ limit \in 1..Cardinality(Sessions)
    /\ deadline \in [Sessions -> {"none", "armed", "expired"}]
    /\ line \in [Sessions -> {"up", "silent", "cut"}]
    /\ slip \in [Sessions -> Commands \cup {"none", "mdtm", "local"}]
    /\ cwd \in [Sessions -> {"home", "away"}]
    /\ found \in [Callers -> BOOLEAN] /\ precise \in BOOLEAN /\ known \in BOOLEAN
    /\ tries \in 0..MaxTries /\ mu \in Callers \cup {NoCaller}

\* Property: a session comes back to the pool fit for the next call: without
\* the deadline of the last one, and, while the client reads the answers to
\* its own commands, in the directory it logged in to (end, errBrokenSession).
IdleIsClean ==
    \A s \in idle : deadline[s] = "none" /\ (slip[s] = "none" => cwd[s] = "home")

\* Property: only where the code drops a command's error without looking at
\* what it was, or where a failure of the local file hides that of the
\* transfer, can a session that missed a reply come back to the pool.
OutOfStepOnlyWhenOverlooked ==
    \A s \in idle :
        slip[s] \in {"none", "mdtm", "lookup", "size", "pwd", "delpartial", "local"}

\* Property, as ftp.go:119-120 and 139-140 state it: a deadline that expires
\* discards the connection, so no command ever reads another's reply.
IdleInStep == \A s \in idle : slip[s] = "none"

=============================================================================

---------------------------- MODULE ClientsProofs ----------------------------
(***************************************************************************)
(* The two clients, for any number of callers, connections and levels of   *)
(* the path that MkdirAll makes.                                           *)
(*                                                                         *)
(* FTP: a session is in the pool, or with one call, or as good as new.  A  *)
(* call that missed a reply whose loss the code does look at is doomed: it *)
(* has failed already, or its deadline has expired and its next command    *)
(* fails for that.  So its session is closed and not given back.           *)
(*                                                                         *)
(* SFTP: the deadline of the connection is the greatest of the budgets     *)
(* after each begin and end, and they all run down together.               *)
(*                                                                         *)
(* And what the FTP client computes of a listing's timezone.               *)
(***************************************************************************)
EXTENDS Clients, ListOffset, FiniteSetTheorems, WellFoundedInduction, TLAPS

-----------------------------------------------------------------------------
(* The inductive invariant.                                                *)

\* Where a call has no session.
Without == {"idle", "acquire", "closing"}
FTPSteps == Without \cup {"dial", "quit", "detect", "mdtm"} \cup Commands \cup Results
SFTPSteps == {"idle", "slot", "session", "open", "shut"} \cup Requests \cup Done

Typed ==
    /\ kind \in {"ftp", "sftp"}
    /\ left \in [Callers -> 1..Depth] /\ made \in 0..Depth
    /\ excused \in [Callers -> BOOLEAN]
    /\ op \in [Callers -> {"none"} \cup Exclusive \cup FTPOps \cup SFTPOps]
    /\ pc \in [Callers -> IF kind = "ftp" THEN FTPSteps ELSE SFTPSteps]
    /\ idle \subseteq Sessions /\ with \in [Callers -> Sessions \cup {NoSession}]
    /\ deadline \in [Sessions -> {"none", "armed", "expired"}]
    /\ slip \in [Sessions -> Commands \cup {"none", "mdtm", "local"}]
    /\ cwd \in [Sessions -> {"home", "away"}]
    /\ found \in [Callers -> BOOLEAN]
    /\ budget \in [Callers -> None..Long] /\ timer \in None..Long

\* Of a call: what it is agrees with where it is, and one that needs the
\* client to itself has it.
CallsInPlace ==
    \A c \in Callers :
        /\ op[c] = "none" <=> pc[c] = "idle"
        /\ pc[c] = "acquire" => op[c] \in FTPOps
        /\ pc[c] = "dial" => op[c] \in FTPOps \cup {"connect"}
        /\ pc[c] = "closing" => op[c] \in Exclusive
        /\ op[c] \in Exclusive => /\ pc[c] \in {"closing", "quit", "dial"}
                                  /\ \A d \in Callers \ {c} : op[d] = "none"
        /\ pc[c] = "dial" /\ op[c] = "connect" => idle = {}

\* A session is in one place.
InOnePlace ==
    \A c \in Callers :
        /\ with[c] = NoSession <=> pc[c] \in Without
        /\ with[c] \notin idle
        /\ \A d \in Callers \ {c} : with[d] = with[c] => with[c] = NoSession

\* One that is nowhere, or is only being dialled, is as good as new.
AsNew ==
    \A s \in Sessions :
        \/ s \in idle
        \/ \E c \in Callers : with[c] = s /\ pc[c] # "dial"
        \/ slip[s] = "none" /\ cwd[s] = "home"

\* The commands that a session can miss the reply to and go on, and the local
\* failure that hides it.
Excusable == {"none", "mdtm", "lookup", "size", "pwd", "delpartial", "local"}

Doomed(c) ==
    \/ pc[c] \in {"lost", "broken", "quit"}
    \/ pc[c] \in {"stor", "rename", "rename2", "back"} /\ deadline[with[c]] = "expired"

DoomedOutOfStep ==
    \A c \in Callers : with[c] # NoSession => slip[with[c]] \in Excusable \/ Doomed(c)

\* A session in step that is not at home is about to be taken back there.
HomeInTheEnd ==
    \A c \in Callers : with[c] # NoSession =>
        \/ slip[with[c]] # "none" \/ cwd[with[c]] = "home"
        \/ pc[c] \in {"back", "broken", "quit"}

\* What a call of MkdirAll that nothing went wrong for knows of its path.
MkdirSteps == {"acquire", "dial", "quit", "fast", "mkd", "pwd", "cd", "back"} \cup Results
MkdirKnows ==
    \A c \in Callers : op[c] = "mkdirall" =>
        /\ pc[c] \in MkdirSteps
        /\ pc[c] \in {"pwd", "cd", "back"} => made >= Level(c) \/ excused[c]
        /\ pc[c] = "back" => found[c] \/ excused[c]

FTPInv == /\ CallsInPlace /\ InOnePlace /\ AsNew
          /\ DoomedOutOfStep /\ HomeInTheEnd /\ MkdirKnows

MkdirRequests == {"all", "look", "make", "relook"}
MkdirKnowsSFTP ==
    \A c \in Callers :
        /\ pc[c] \in MkdirRequests => op[c] = "mkdirall"
        /\ op[c] = "mkdirall" =>
               /\ pc[c] \in MkdirRequests \cup Done
               /\ pc[c] = "relook" => made >= Level(c) \/ excused[c]

SFTPInv == idle = {} /\ MkdirKnowsSFTP

IInv == /\ Typed /\ (kind = "ftp" => FTPInv) /\ (kind = "sftp" => SFTPInv)
        /\ MadeOrExcused /\ IdleIsClean /\ OutOfStepOnlyWhenOverlooked
        /\ DeadlineIsLatest
-----------------------------------------------------------------------------
(* Deadlines.                                                              *)

\* A set of budgets that is not empty has a greatest.
LEMMA Greatest ==
    ASSUME NEW S \in SUBSET (None..Long), S # {}
    PROVE  Max(S) \in S /\ \A y \in S : Max(S) >= y
<1> DEFINE T == {n \in Nat : \E y \in S : n = Long - y}
<1>1. T \subseteq Nat /\ T # {}
  <2>1. PICK y : y \in S
    OBVIOUS
  <2>2. Long - y \in Nat
    BY <2>1, TimeoutsAssumption DEF None
  <2>q. QED BY <2>1, <2>2
<1>2. PICK m \in T : \A n \in T : <<n, m>> \notin OpToRel(<, Nat)
  <2> HIDE DEF T
  <2>q. QED BY <1>1, WFMin, NatLessThanWellFounded
<1>3. \A n \in T : ~(n < m)
  BY <1>1, <1>2, Zenon DEF OpToRel
<1>4. PICK x \in S : m = Long - x
  OBVIOUS
<1>5. \A y \in S : x >= y
  <2> TAKE y \in S
  <2>1. Long - y \in T /\ y \in Int /\ x \in Int
    BY TimeoutsAssumption DEF None
  <2>q. QED BY <2>1, <1>3, <1>4, TimeoutsAssumption
<1>q. QED BY <1>5 DEF Max

\* begin and end leave the connection with the latest deadline there is.
LEMMA LatestApplied ==
    ASSUME budget \in [Callers -> None..Long], NEW c \in Callers, NEW d \in None..Long,
           SetBudget(c, d)
    PROVE  /\ budget' \in [Callers -> None..Long] /\ timer' \in None..Long
           /\ DeadlineIsLatest'
<1>1. budget' = [budget EXCEPT ![c] = d] /\ budget' \in [Callers -> None..Long]
  BY DEF SetBudget
<1> DEFINE S == {budget'[x] : x \in Callers}
<1>2. timer' = Max(S) /\ S \in SUBSET (None..Long) /\ S # {}
  BY <1>1, CallersAssumption DEF SetBudget, Apply
<1>3. timer' \in S /\ \A y \in S : timer' >= y
  <2> HIDE DEF S
  <2>q. QED BY <1>2, Greatest
<1>4. timer' \in None..Long /\ \A x \in Callers : timer' >= budget'[x]
  BY <1>2, <1>3
<1>5. \E x \in Callers : timer' = budget'[x]
  BY <1>3
<1>q. QED BY <1>1, <1>4, <1>5, TimeoutsAssumption DEF DeadlineIsLatest, None

\* What a request is begun with is a budget.
LEMMA AllowanceType ==
    ASSUME budget \in [Callers -> None..Long], NEW c \in Callers, NEW step
    PROVE  Allowance(c, step) \in None..Long
<1> USE TimeoutsAssumption DEF None
<1>1. None \in None..Long /\ Short \in None..Long /\ Long \in None..Long
  OBVIOUS
<1>2. Max({budget[c], Short}) \in None..Long
  <2>1. {budget[c], Short} \in SUBSET (None..Long) /\ {budget[c], Short} # {}
    BY <1>1
  <2>q. QED BY <2>1, Greatest
<1>q. QED BY <1>1, <1>2 DEF Allowance

-----------------------------------------------------------------------------
(* The steps of the SFTP client.                                           *)

\* A step of the SFTP client leaves the sessions of an FTP client alone.
LEMMA SFTPFrame ==
    ASSUME IInv, kind = "sftp", kind' = kind, UNCHANGED ftpVars,
           made' \in 0..Depth, left' \in [Callers -> 1..Depth],
           excused' \in [Callers -> BOOLEAN],
           op' \in [Callers -> {"none"} \cup Exclusive \cup FTPOps \cup SFTPOps],
           pc' \in [Callers -> SFTPSteps],
           budget' \in [Callers -> None..Long], timer' \in None..Long,
           MkdirKnowsSFTP', MadeOrExcused', DeadlineIsLatest'
    PROVE  IInv'
<1>1. Typed'
  BY DEF IInv, Typed, ftpVars, sessionVars
<1>2. SFTPInv' /\ (IdleIsClean /\ OutOfStepOnlyWhenOverlooked)'
  BY DEF IInv, SFTPInv, ftpVars, IdleIsClean, OutOfStepOnlyWhenOverlooked
<1>q. QED BY <1>1, <1>2 DEF IInv

\* What Typed says of an SFTP client.
LEMMA SFTPTypes ==
    ASSUME IInv, kind = "sftp"
    PROVE  /\ left \in [Callers -> 1..Depth] /\ made \in 0..Depth
           /\ excused \in [Callers -> BOOLEAN]
           /\ op \in [Callers -> {"none"} \cup Exclusive \cup FTPOps \cup SFTPOps]
           /\ pc \in [Callers -> SFTPSteps]
           /\ budget \in [Callers -> None..Long] /\ timer \in None..Long
           /\ MkdirKnowsSFTP /\ MadeOrExcused /\ DeadlineIsLatest
BY DEF IInv, Typed, SFTPInv

\* A call that is not MkdirAll goes from one request to the next.
LEMMA SFTPMovesOn ==
    ASSUME IInv, kind = "sftp", kind' = kind, UNCHANGED ftpVars,
           NEW c \in Callers, NEW step \in SFTPSteps \ MkdirRequests,
           op[c] # "mkdirall", Continue(c, step), UNCHANGED <<op, made>>,
           excused' \in [Callers -> BOOLEAN], \A d \in Callers \ {c} : excused'[d] = excused[d]
    PROVE  IInv'
<1>1. /\ left \in [Callers -> 1..Depth] /\ made \in 0..Depth
      /\ op \in [Callers -> {"none"} \cup Exclusive \cup FTPOps \cup SFTPOps]
      /\ pc \in [Callers -> SFTPSteps]
      /\ budget \in [Callers -> None..Long] /\ timer \in None..Long
      /\ MkdirKnowsSFTP /\ MadeOrExcused
  BY SFTPTypes
<1>2. /\ pc' = [pc EXCEPT ![c] = step] /\ SetBudget(c, Allowance(c, step))
      /\ left' = [left EXCEPT ![c] = IF step \in Done THEN Depth ELSE @]
  BY DEF Continue, Goto, Done, MkdirRequests
<1>3. left' \in [Callers -> 1..Depth]
  BY <1>1, <1>2, DepthAssumption
<1>4. /\ budget' \in [Callers -> None..Long] /\ timer' \in None..Long
      /\ DeadlineIsLatest'
  BY <1>1, <1>2, AllowanceType, LatestApplied
<1>5. MkdirKnowsSFTP'
  <2>1. \A d \in Callers \ {c} : pc'[d] = pc[d] /\ left'[d] = left[d]
    BY <1>1, <1>2
  <2>q. QED BY <2>1, <1>1, <1>2 DEF MkdirKnowsSFTP, Level
<1>6. MadeOrExcused'
  <2>1. \A d \in Callers \ {c} : pc'[d] = pc[d]
    BY <1>1, <1>2
  <2>q. QED BY <2>1, <1>1 DEF MadeOrExcused
<1>7. pc' \in [Callers -> SFTPSteps]
  BY <1>1, <1>2
<1>q. QED BY <1>1, <1>3, <1>4, <1>5, <1>6, <1>7, SFTPFrame

\* MkdirAll is told what it asks of the path as it is at that moment, and what
\* there is stays.
LEMMA SFTPAnswerMkdir ==
    ASSUME IInv, kind = "sftp", UNCHANGED ftpVars, NEW c \in Callers, Answer(c),
           op[c] = "mkdirall"
    PROVE  IInv'
<1>1. /\ left \in [Callers -> 1..Depth] /\ made \in 0..Depth
      /\ excused \in [Callers -> BOOLEAN]
      /\ op \in [Callers -> {"none"} \cup Exclusive \cup FTPOps \cup SFTPOps]
      /\ pc \in [Callers -> SFTPSteps]
      /\ budget \in [Callers -> None..Long] /\ timer \in None..Long
      /\ MkdirKnowsSFTP /\ MadeOrExcused
  BY SFTPTypes
<1>2. pc[c] \in MkdirRequests
  BY <1>1 DEF Answer, MkdirKnowsSFTP, Requests, Done
<1>3. PICK answer \in {"done", "refused", "lost"} :
          /\ answer # "lost" => answer \in Says(c)
          /\ \E step \in After(c, answer) : Continue(c, step)
          /\ Excuse(c, answer = "lost" \/ (pc[c] = "make" /\ answer = "refused" /\ made < Level(c)))
          /\ made' = IF pc[c] = "make" /\ answer = "done" THEN Level(c) ELSE made
  BY <1>2 DEF Answer, Says, MkdirRequests
<1>4. PICK step \in After(c, answer) : Continue(c, step)
  BY <1>3
<1>5. /\ kind' = kind /\ op' = op /\ pc' = [pc EXCEPT ![c] = step]
      /\ SetBudget(c, Allowance(c, step))
      /\ excused' = [excused EXCEPT ![c] = @ \/ answer = "lost"
                         \/ (pc[c] = "make" /\ answer = "refused" /\ made < Level(c))]
      /\ left' = [left EXCEPT ![c] = CASE step \in Done -> Depth
                                       [] step = "look" /\ pc[c] # "all" -> @ - 1
                                       [] OTHER -> @]
  BY <1>1, <1>3, <1>4 DEF Answer, Continue, Goto, Excuse
<1> DEFINE l == left[c]
<1>6. l \in 1..Depth /\ Level(c) = Depth - l + 1 /\ Depth \in Nat \ {0}
  BY <1>1, DepthAssumption DEF Level
<1>7. \* What each request leads to.
      \/ pc[c] = "all" /\ answer = "done" /\ step = "ok" /\ made = Depth
      \/ pc[c] = "all" /\ answer # "done" /\ step = "look"
      \/ pc[c] = "make" /\ answer # "done" /\ step = "relook"
      \/ pc[c] = "look" /\ answer # "done" /\ step = "make"
      \/ pc[c] = "relook" /\ answer # "done" /\ step = answer /\ (answer = "lost" \/ made < Level(c))
      \/ /\ pc[c] \in {"look", "relook", "make"} /\ answer = "done"
         /\ step = IF l = 1 THEN "ok" ELSE "look"
         /\ IF pc[c] = "make" THEN made = Level(c) - 1 ELSE made >= Level(c)
  <2>1. CASE pc[c] = "all"
    BY <2>1, <1>3, <1>4 DEF After, Says
  <2>2. CASE pc[c] = "look"
    BY <2>2, <1>1, <1>3, <1>4, <1>6 DEF After, Says, Follows
  <2>3. CASE pc[c] = "make"
    BY <2>3, <1>1, <1>3, <1>4, <1>6 DEF After, Says, Follows, AfterMkdir
  <2>4. CASE pc[c] = "relook"
    BY <2>4, <1>1, <1>3, <1>4, <1>6 DEF After, Says, Follows
  <2>q. QED BY <1>2, <2>1, <2>2, <2>3, <2>4 DEF MkdirRequests
<1>8. step \in {"ok", "look", "relook", "make", "refused", "lost"}
  BY <1>7
<1>9. made' \in 0..Depth /\ made' >= made /\ (step = "ok" => made' = Depth)
  BY <1>1, <1>3, <1>6, <1>7
<1>10. left' \in [Callers -> 1..Depth]
  BY <1>1, <1>5, <1>6, <1>7 DEF Done
<1>11. pc' \in [Callers -> SFTPSteps]
  BY <1>1, <1>5, <1>8 DEF SFTPSteps, Requests, Done
<1>12. /\ budget' \in [Callers -> None..Long] /\ timer' \in None..Long
       /\ DeadlineIsLatest'
  BY <1>1, <1>5, AllowanceType, LatestApplied
<1>13. /\ excused' \in [Callers -> BOOLEAN]
       /\ excused[c] => excused'[c]
       /\ answer = "lost" => excused'[c]
       /\ pc[c] = "make" /\ answer = "refused" /\ made < Level(c) => excused'[c]
  BY <1>1, <1>5
<1>14. MkdirKnowsSFTP'
  <2>1. ASSUME NEW d \in Callers, d # c, op'[d] = "mkdirall"
        PROVE  /\ pc'[d] \in MkdirRequests \cup Done
               /\ pc'[d] = "relook" => made' >= Level(d)' \/ excused'[d]
    <3>1. UNCHANGED <<pc[d], op[d], left[d], excused[d]>> /\ left[d] \in 1..Depth
      BY <2>1, <1>1, <1>5
    <3>2. Level(d)' = Level(d) /\ Level(d) \in Int
      BY <3>1, <1>6 DEF Level
    <3>3. /\ pc[d] \in MkdirRequests \cup Done
          /\ pc[d] = "relook" => made >= Level(d) \/ excused[d]
      BY <3>1, <2>1, <1>1 DEF MkdirKnowsSFTP
    <3>q. QED BY <3>1, <3>2, <3>3, <1>1, <1>9
  <2>2. step = "relook" => made >= Level(c) \/ excused'[c]
    <3>1. made >= Level(c) \/ made < Level(c)
      BY <1>1, <1>6
    <3>q. QED BY <3>1, <1>7, <1>13
  <2>3. step = "relook" => Level(c)' = Level(c)
    BY <1>1, <1>5, <1>7 DEF Level, Done
  <2>4. pc'[c] = step
    BY <1>1, <1>5
  <2>5. \A d \in Callers : pc'[d] \in MkdirRequests => op'[d] = "mkdirall"
    BY <1>1, <1>5 DEF MkdirKnowsSFTP
  <2>q. QED
    BY <2>1, <2>2, <2>3, <2>4, <2>5, <1>1, <1>6, <1>8, <1>9
    DEF MkdirKnowsSFTP, MkdirRequests, Done
<1>15. MadeOrExcused'
  <2>1. ASSUME NEW d \in Callers, d # c, op'[d] = "mkdirall"
        PROVE  /\ pc'[d] = "ok" => made' = Depth \/ excused'[d]
               /\ pc'[d] \in {"refused", "lost", "broken"} => excused'[d]
    BY <2>1, <1>1, <1>5, <1>6, <1>9 DEF MadeOrExcused
  <2>2. step \in {"refused", "lost"} => excused'[c]
    <3>1. pc[c] = "relook" /\ made < Level(c) => excused[c]
      BY <1>1, <1>6 DEF MkdirKnowsSFTP
    <3>q. QED BY <3>1, <1>1, <1>5, <1>7, <1>13
  <2>3. pc'[c] = step
    BY <1>1, <1>5
  <2>q. QED BY <2>1, <2>2, <2>3, <1>8, <1>9 DEF MadeOrExcused
<1>16. op' \in [Callers -> {"none"} \cup Exclusive \cup FTPOps \cup SFTPOps]
  BY <1>1, <1>5
<1>q. QED BY <1>5, <1>9, <1>10, <1>11, <1>12, <1>13, <1>14, <1>15, <1>16, SFTPFrame

\* Every other request: what follows it is none of MkdirAll's.
LEMMA SFTPAnswerOther ==
    ASSUME IInv, kind = "sftp", UNCHANGED ftpVars, NEW c \in Callers, Answer(c),
           op[c] # "mkdirall"
    PROVE  IInv'
<1>1. /\ excused \in [Callers -> BOOLEAN] /\ MkdirKnowsSFTP /\ made \in 0..Depth
  BY SFTPTypes
<1>2. pc[c] \in {"brief", "metadata", "lookup", "transfer", "cleanup"}
  BY <1>1 DEF Answer, MkdirKnowsSFTP, MkdirRequests, Requests
<1>3. PICK answer \in {"done", "refused", "lost"} : \E step \in After(c, answer) : Continue(c, step)
  BY <1>2 DEF Answer, Says
<1>4. PICK step \in After(c, answer) : Continue(c, step)
  BY <1>3
<1>5. step \in {"ok", "refused", "lost", "transfer", "slot", "cleanup"}
  <2>1. CASE pc[c] \in {"brief", "metadata"}
    BY <2>1, <1>3, <1>4 DEF After
  <2>2. CASE pc[c] = "lookup"
    BY <2>2, <1>3, <1>4 DEF After
  <2>3. CASE pc[c] = "transfer"
    BY <2>3, <1>3, <1>4 DEF After
  <2>4. CASE pc[c] = "cleanup"
    BY <2>4, <1>3, <1>4 DEF After
  <2>q. QED BY <1>2, <2>1, <2>2, <2>3, <2>4
<1>6. UNCHANGED <<kind, op, made>>
  BY <1>2 DEF Answer
<1>7. excused' \in [Callers -> BOOLEAN] /\ \A d \in Callers \ {c} : excused'[d] = excused[d]
  <2>1. \E b \in BOOLEAN : excused' = [excused EXCEPT ![c] = b]
    BY DEF Answer, Excuse
  <2>q. QED BY <2>1, <1>1
<1>8. step \in SFTPSteps \ MkdirRequests
  BY <1>5 DEF SFTPSteps, MkdirRequests, Requests, Done
<1>q. QED BY <1>4, <1>6, <1>7, <1>8, SFTPMovesOn

\* The slots and the sessions of large transfers.
LEMMA SFTPSessionStep ==
    ASSUME IInv, kind = "sftp", UNCHANGED ftpVars, NEW c \in Callers,
           TakeSlot(c) \/ TakeSession(c) \/ WaitedInVain(c) \/ OpenSession(c)
    PROVE  IInv'
<1>1. excused \in [Callers -> BOOLEAN] /\ MkdirKnowsSFTP
  BY SFTPTypes
<1>2. /\ pc[c] \in {"slot", "session", "open"} /\ UNCHANGED <<kind, op, made, excused>>
      /\ \E step \in {"session", "open"} \cup WithSession(c) : Continue(c, step)
  BY DEF TakeSlot, TakeSession, WaitedInVain, OpenSession
<1>3. op[c] # "mkdirall"
  BY <1>1, <1>2 DEF MkdirKnowsSFTP, MkdirRequests, Done
<1>4. PICK step \in {"session", "open"} \cup WithSession(c) : Continue(c, step)
  BY <1>2
<1>5. step \in SFTPSteps \ MkdirRequests
  BY <1>4 DEF WithSession, SFTPSteps, MkdirRequests, Requests
<1>q. QED BY <1>1, <1>2, <1>3, <1>4, <1>5, SFTPMovesOn

\* A call returns.
LEMMA SFTPReturns ==
    ASSUME IInv, kind = "sftp", UNCHANGED ftpVars, NEW c \in Callers,
           Finish(c) \/ Handshaken(c)
    PROVE  IInv'
<1>1. /\ left \in [Callers -> 1..Depth] /\ made \in 0..Depth
      /\ excused \in [Callers -> BOOLEAN]
      /\ op \in [Callers -> {"none"} \cup Exclusive \cup FTPOps \cup SFTPOps]
      /\ pc \in [Callers -> SFTPSteps]
      /\ budget \in [Callers -> None..Long] /\ timer \in None..Long
      /\ MkdirKnowsSFTP /\ MadeOrExcused /\ DeadlineIsLatest
  BY SFTPTypes
<1>2. /\ pc' = [pc EXCEPT ![c] = "idle"] /\ op' = [op EXCEPT ![c] = "none"]
      /\ excused' = [excused EXCEPT ![c] = FALSE]
      /\ UNCHANGED <<kind, left, made>>
  BY DEF Finish, Handshaken, Return, Goto
<1>3. /\ budget' \in [Callers -> None..Long] /\ timer' \in None..Long
      /\ DeadlineIsLatest'
  <2>1. CASE Finish(c)
    BY <2>1, <1>1 DEF Finish, DeadlineIsLatest
  <2>2. CASE Handshaken(c)
    <3>1. SetBudget(c, None) /\ None \in None..Long
      BY <2>2, TimeoutsAssumption DEF Handshaken, None
    <3>q. QED BY <3>1, <1>1, LatestApplied
  <2>q. QED BY <2>1, <2>2
<1>4. /\ pc' \in [Callers -> SFTPSteps] /\ excused' \in [Callers -> BOOLEAN]
      /\ op' \in [Callers -> {"none"} \cup Exclusive \cup FTPOps \cup SFTPOps]
  BY <1>1, <1>2 DEF SFTPSteps
<1>5. \A d \in Callers \ {c} : UNCHANGED <<pc[d], op[d], excused[d]>>
  BY <1>1, <1>2
<1>6. pc'[c] = "idle" /\ op'[c] = "none"
  BY <1>1, <1>2
<1>7. MkdirKnowsSFTP' /\ MadeOrExcused'
  BY <1>1, <1>2, <1>5, <1>6 DEF MkdirKnowsSFTP, MadeOrExcused, Level, MkdirRequests
<1>q. QED BY <1>1, <1>2, <1>3, <1>4, <1>7, SFTPFrame

\* A session is closed, or all are and Close returns or Connect dials.
LEMMA SFTPShuts ==
    ASSUME IInv, kind = "sftp", UNCHANGED ftpVars, NEW c \in Callers, Shut(c)
    PROVE  IInv'
<1>1. /\ left \in [Callers -> 1..Depth] /\ made \in 0..Depth
      /\ excused \in [Callers -> BOOLEAN]
      /\ op \in [Callers -> {"none"} \cup Exclusive \cup FTPOps \cup SFTPOps]
      /\ pc \in [Callers -> SFTPSteps]
      /\ budget \in [Callers -> None..Long] /\ timer \in None..Long
      /\ MkdirKnowsSFTP /\ MadeOrExcused /\ DeadlineIsLatest
  BY SFTPTypes
<1>2. pc[c] = "shut" /\ UNCHANGED <<kind, left, made>>
  BY DEF Shut
<1>3. op[c] # "mkdirall"
  BY <1>1, <1>2 DEF MkdirKnowsSFTP, MkdirRequests, Done
<1>4. CASE UNCHANGED <<op, pc, excused, budget, timer>>
  BY <1>1, <1>2, <1>4, SFTPFrame DEF MkdirKnowsSFTP, MadeOrExcused, DeadlineIsLatest, Level
<1>5. CASE UNCHANGED <<op, excused>> /\ Goto(c, "handshake") /\ SetBudget(c, Short)
  <2>1. /\ budget' \in [Callers -> None..Long] /\ timer' \in None..Long /\ DeadlineIsLatest'
    <3>1. Short \in None..Long
      BY TimeoutsAssumption DEF None
    <3>q. QED BY <3>1, <1>1, <1>5, LatestApplied
  <2>2. pc' = [pc EXCEPT ![c] = "handshake"]
    BY <1>5 DEF Goto
  <2>3. pc' \in [Callers -> SFTPSteps]
    BY <1>1, <2>2 DEF SFTPSteps, Requests
  <2>4. \A d \in Callers : op'[d] = "mkdirall" => pc'[d] = pc[d]
    BY <1>1, <1>3, <1>5, <2>2
  <2>5. \A d \in Callers : pc'[d] \in MkdirRequests => pc'[d] = pc[d]
    BY <1>1, <2>2 DEF MkdirRequests
  <2>6. MkdirKnowsSFTP' /\ MadeOrExcused'
    BY <1>1, <1>2, <1>5, <2>4, <2>5 DEF MkdirKnowsSFTP, MadeOrExcused, Level
  <2>q. QED BY <1>1, <1>2, <1>5, <2>1, <2>3, <2>6, SFTPFrame
<1>6. CASE Return(c) /\ UNCHANGED <<budget, timer>>
  <2>1. /\ pc' = [pc EXCEPT ![c] = "idle"] /\ op' = [op EXCEPT ![c] = "none"]
        /\ excused' = [excused EXCEPT ![c] = FALSE]
    BY <1>6 DEF Return, Goto
  <2>2. /\ pc' \in [Callers -> SFTPSteps] /\ excused' \in [Callers -> BOOLEAN]
        /\ op' \in [Callers -> {"none"} \cup Exclusive \cup FTPOps \cup SFTPOps]
    BY <1>1, <2>1 DEF SFTPSteps
  <2>3. \A d \in Callers \ {c} : UNCHANGED <<pc[d], op[d], excused[d]>>
    BY <1>1, <2>1
  <2>4. pc'[c] = "idle" /\ op'[c] = "none"
    BY <1>1, <2>1
  <2>5. MkdirKnowsSFTP' /\ MadeOrExcused'
    BY <1>1, <1>2, <2>3, <2>4 DEF MkdirKnowsSFTP, MadeOrExcused, Level, MkdirRequests
  <2>6. DeadlineIsLatest'
    BY <1>1, <1>6 DEF DeadlineIsLatest
  <2>q. QED BY <1>1, <1>2, <1>6, <2>2, <2>5, <2>6, SFTPFrame
<1>q. QED BY <1>4, <1>5, <1>6 DEF Shut

\* A call begins.
LEMMA SFTPEnters ==
    ASSUME IInv, kind = "sftp", UNCHANGED <<ftpVars, kind, made>>, NEW c \in Callers,
           NEW o \in SFTPOps \cup Exclusive, NEW step \in SFTPSteps,
           step \in MkdirRequests <=> o = "mkdirall", step \notin Done, step # "relook",
           Enter(c, o, step), NEW d \in None..Long,
           SetBudget(c, d) \/ UNCHANGED <<budget, timer>>
    PROVE  IInv'
<1>1. /\ left \in [Callers -> 1..Depth] /\ made \in 0..Depth
      /\ excused \in [Callers -> BOOLEAN]
      /\ op \in [Callers -> {"none"} \cup Exclusive \cup FTPOps \cup SFTPOps]
      /\ pc \in [Callers -> SFTPSteps]
      /\ budget \in [Callers -> None..Long] /\ timer \in None..Long
      /\ MkdirKnowsSFTP /\ MadeOrExcused /\ DeadlineIsLatest
  BY SFTPTypes
<1>2. /\ pc' = [pc EXCEPT ![c] = step] /\ op' = [op EXCEPT ![c] = o]
      /\ left' = [left EXCEPT ![c] = Depth] /\ excused' = [excused EXCEPT ![c] = FALSE]
  BY DEF Enter
<1>3. /\ budget' \in [Callers -> None..Long] /\ timer' \in None..Long
      /\ DeadlineIsLatest'
  <2>1. CASE SetBudget(c, d)
    BY <1>1, <2>1, LatestApplied
  <2>2. CASE UNCHANGED <<budget, timer>>
    BY <1>1, <2>2 DEF DeadlineIsLatest
  <2>q. QED BY <2>1, <2>2
<1>4. /\ pc' \in [Callers -> SFTPSteps] /\ excused' \in [Callers -> BOOLEAN]
      /\ op' \in [Callers -> {"none"} \cup Exclusive \cup FTPOps \cup SFTPOps]
      /\ left' \in [Callers -> 1..Depth]
  BY <1>1, <1>2, DepthAssumption DEF Exclusive
<1>5. \A x \in Callers \ {c} : UNCHANGED <<pc[x], op[x], excused[x], left[x]>>
  BY <1>1, <1>2
<1>6. pc'[c] = step /\ op'[c] = o
  BY <1>1, <1>2
<1>7. MkdirKnowsSFTP' /\ MadeOrExcused'
  <2>1. step \notin {"ok", "refused", "lost"} /\ (step = "broken" => o # "mkdirall")
    BY DEF Done, MkdirRequests
  <2>q. QED
    BY <2>1, <1>1, <1>5, <1>6 DEF MkdirKnowsSFTP, MadeOrExcused, Level
<1>q. QED BY <1>1, <1>3, <1>4, <1>7, SFTPFrame

\* A call of the SFTP client, Connect or Close.
LEMMA SFTPCalled ==
    ASSUME IInv, kind = "sftp", UNCHANGED ftpVars, NEW c \in Callers,
           CallSFTP(c) \/ ConnectSFTP(c)
    PROVE  IInv'
<1>1. budget \in [Callers -> None..Long]
  BY SFTPTypes
<1>2. CASE ConnectSFTP(c)
  <2>1. Short \in None..Long
    BY TimeoutsAssumption DEF None
  <2>2. \A step \in {"handshake", "shut"} :
            step \in SFTPSteps /\ step \notin MkdirRequests \cup Done
    BY DEF SFTPSteps, Requests, MkdirRequests, Done
  <2>3. "connect" \in Exclusive
    BY DEF Exclusive
  <2>4. PICK step \in {"handshake", "shut"} :
            Enter(c, "connect", step) /\ (SetBudget(c, Short) \/ UNCHANGED <<budget, timer>>)
    BY <1>2 DEF ConnectSFTP
  <2>5. UNCHANGED <<kind, made>>
    BY <1>2 DEF ConnectSFTP
  <2>q. QED BY <2>1, <2>2, <2>3, <2>4, <2>5, SFTPEnters DEF MkdirRequests
<1>3. ASSUME Enter(c, "close", "shut"), UNCHANGED <<kind, made, budget, timer>> PROVE IInv'
  <2>1. None \in None..Long
    BY TimeoutsAssumption DEF None
  <2>2. "shut" \in SFTPSteps /\ "shut" \notin MkdirRequests \cup Done
    BY DEF SFTPSteps, Requests, MkdirRequests, Done
  <2>3. "close" \in Exclusive
    BY DEF Exclusive
  <2>q. QED BY <1>3, <2>1, <2>2, <2>3, SFTPEnters DEF MkdirRequests
<1>4. ASSUME NEW o \in SFTPOps, NEW step \in Beginnings(o), UNCHANGED <<kind, made>>,
             Enter(c, o, step), SetBudget(c, Allowance(c, step))
      PROVE  IInv'
  <2>1. /\ step \in SFTPSteps /\ (step \in MkdirRequests <=> o = "mkdirall")
        /\ step \notin Done /\ step # "relook"
    BY <1>4 DEF SFTPOps, Beginnings, SFTPSteps, MkdirRequests, Requests, Done
  <2>2. Allowance(c, step) \in None..Long
    BY <1>1, AllowanceType
  <2>q. QED BY <1>4, <2>1, <2>2, SFTPEnters
<1>q. QED BY <1>2, <1>3, <1>4 DEF CallSFTP

\* Every budget runs down with the timer.
LEMMA SFTPNature ==
    ASSUME IInv, kind = "sftp", UNCHANGED ftpVars, DisturbLink \/ Tick \/ Tear
    PROVE  IInv'
<1>1. budget \in [Callers -> None..Long] /\ timer \in None..Long /\ DeadlineIsLatest
  BY SFTPTypes
<1>2. /\ UNCHANGED <<kind, callVars, made>>
      /\ Tick \/ UNCHANGED <<budget, timer>>
  BY DEF DisturbLink, Tick, Tear, clientVars
<1>3. /\ budget' \in [Callers -> None..Long] /\ timer' \in None..Long
      /\ DeadlineIsLatest'
  <2>1. CASE Tick
    <3>1. /\ timer > 0 /\ timer' = timer - 1
          /\ budget' = [c \in Callers |-> IF budget[c] > 0 THEN budget[c] - 1 ELSE budget[c]]
      BY <2>1 DEF Tick
    <3>q. QED BY <3>1, <1>1, TimeoutsAssumption DEF DeadlineIsLatest, None
  <2>2. CASE UNCHANGED <<budget, timer>>
    BY <2>2, <1>1 DEF DeadlineIsLatest
  <2>q. QED BY <1>2, <2>1, <2>2
<1>q. QED
  BY <1>2, <1>3, SFTPTypes, SFTPFrame DEF callVars, MkdirKnowsSFTP, MadeOrExcused, Level

\* Any step of the SFTP client.
LEMMA SFTPStep ==
    ASSUME IInv, kind = "sftp", NextSFTP, UNCHANGED ftpVars
    PROVE  IInv'
<1>1. ASSUME NEW c \in Callers, StepSFTP(c) PROVE IInv'
  BY <1>1, SFTPAnswerMkdir, SFTPAnswerOther, SFTPSessionStep, SFTPReturns, SFTPShuts DEF StepSFTP
<1>q. QED BY <1>1, SFTPCalled, SFTPNature DEF NextSFTP

-----------------------------------------------------------------------------
(* The steps of the FTP client.                                            *)

\* A step of the FTP client leaves the deadlines of an SFTP client alone.
LEMMA FTPFrame ==
    ASSUME IInv, kind = "ftp", kind' = kind, UNCHANGED sftpVars, Typed', FTPInv',
           MadeOrExcused', IdleIsClean', OutOfStepOnlyWhenOverlooked'
    PROVE  IInv'
BY DEF IInv, sftpVars, DeadlineIsLatest

\* Where an answer leads, as far as the invariant cares.
LEMMA DoneLeads ==
    ASSUME NEW c \in Callers, pc[c] \in Commands
    PROVE  /\ OnDone(c)[pc[c]] \in Commands \cup Results \cup {"detect"}
           /\ pc[c] = "fast" => OnDone(c)[pc[c]] = "ok"
           /\ pc[c] = "mkd"  => OnDone(c)[pc[c]] = NextComponent(c)
           /\ pc[c] = "pwd"  => OnDone(c)[pc[c]] = "cd"
           /\ pc[c] = "cd"   => OnDone(c)[pc[c]] = "back"
           /\ pc[c] = "back" =>
                  OnDone(c)[pc[c]] = IF found[c] THEN NextComponent(c) ELSE "refused"
           /\ OnDone(c)[pc[c]] = "mkd" => pc[c] \in {"mkd", "back"}
<1>1. NextComponent(c) \in {"ok", "mkd"}
  BY DEF NextComponent
<1>2. CASE pc[c] \in {"entry", "list", "lookup", "single", "noop", "fast", "retr"}
  BY <1>2 DEF OnDone, Commands, Results
<1>3. CASE pc[c] \in {"psize", "ptime", "storfrom", "stor", "settime", "rename", "deldst",
                      "rename2", "delpartial", "size", "pwd", "cd"}
  BY <1>3 DEF OnDone, Commands, Results
<1>4. CASE pc[c] \in {"mkd", "back"}
  BY <1>1, <1>4 DEF OnDone, Commands, Results
<1>q. QED BY <1>2, <1>3, <1>4 DEF Commands

\* The same for a refusal.
LEMMA RefusalLeads ==
    ASSUME NEW c \in Callers, pc[c] \in Commands
    PROVE  /\ OnRefusal(c)[pc[c]] \in Commands \cup Results \cup {"detect"}
           /\ pc[c] = "fast" => OnRefusal(c)[pc[c]] = "mkd"
           /\ pc[c] = "mkd"  => OnRefusal(c)[pc[c]] = "pwd"
           /\ pc[c] = "pwd"  => OnRefusal(c)[pc[c]] = "refused"
           /\ pc[c] = "cd"   => OnRefusal(c)[pc[c]] = "back"
           /\ pc[c] = "back" => OnRefusal(c)[pc[c]] = "broken"
           /\ OnRefusal(c)[pc[c]] = "mkd" => pc[c] = "fast"
<1>1. CASE pc[c] \in {"entry", "list", "lookup", "single", "noop", "fast", "retr", "size"}
  BY <1>1 DEF OnRefusal, Commands, Results
<1>2. CASE pc[c] \in {"psize", "ptime", "storfrom", "stor", "settime", "rename", "deldst",
                      "rename2", "delpartial"}
  BY <1>2 DEF OnRefusal, Commands, Results
<1>3. CASE pc[c] \in {"mkd", "pwd", "cd", "back"}
  BY <1>3 DEF OnRefusal, Commands, Results
<1>q. QED BY <1>1, <1>2, <1>3 DEF Commands

\* A lost answer whose loss cannot be told of in the result of the call leads
\* to a command that will fail, at the latest.
LEMMA LossLeads ==
    ASSUME NEW c \in Callers, pc[c] \in Commands
    PROVE  /\ OnLoss(c)[pc[c]] \in (Commands \cup Results \cup {"detect"}) \ {"mkd"}
           /\ pc[c] \in Excusable \/ OnLoss(c)[pc[c]] \in
                  {"lost", "broken", "stor", "rename", "rename2", "back"}
           /\ pc[c] \in {"stor", "rename", "rename2", "back"} =>
                  OnLoss(c)[pc[c]] \in {"lost", "broken"}
           /\ pc[c] \in {"fast", "mkd", "pwd", "cd", "back"} =>
                  OnLoss(c)[pc[c]] \in {"lost", "refused", "back", "broken"}
           /\ pc[c] = "cd"   => OnLoss(c)[pc[c]] = "back"
           /\ pc[c] = "back" => OnLoss(c)[pc[c]] = "broken"
<1>1. DOMAIN OnRefusal(c) = Commands
  BY DEF OnRefusal, Commands
<1>2. OnLoss(c)[pc[c]] = IF pc[c] \in Overlooks THEN OnRefusal(c)[pc[c]] ELSE "lost"
  BY <1>1 DEF OnLoss
<1>3. CASE pc[c] \notin Overlooks
  BY <1>2, <1>3 DEF Overlooks, Commands, Results
<1>4. CASE pc[c] \in {"psize", "ptime", "settime", "deldst", "delpartial", "lookup"}
  BY <1>2, <1>4 DEF OnRefusal, Overlooks, Commands, Results, Excusable
<1>5. CASE pc[c] \in {"size", "pwd", "cd", "noop", "back"}
  BY <1>2, <1>5 DEF OnRefusal, Overlooks, Commands, Results, Excusable
<1>q. QED BY <1>3, <1>4, <1>5 DEF Overlooks

\* A call with a session of its own goes on, and what it does to its session
\* and to the path is for the better.
LEMMA FTPProceeds ==
    ASSUME IInv, kind = "ftp", kind' = kind, UNCHANGED <<sftpVars, op, idle, with>>,
           NEW c \in Callers, pc[c] \in Commands \cup {"detect", "mdtm"},
           NEW step \in Commands \cup Results \cup {"detect", "mdtm"},
           pc' = [pc EXCEPT ![c] = step],
           left' \in [Callers -> 1..Depth], excused' \in [Callers -> BOOLEAN],
           found' \in [Callers -> BOOLEAN], made' \in 0..Depth, made' >= made,
           \A d \in Callers \ {c} : UNCHANGED <<left[d], excused[d], found[d]>>,
           deadline' \in [Sessions -> {"none", "armed", "expired"}],
           slip' \in [Sessions -> Commands \cup {"none", "mdtm", "local"}],
           cwd' \in [Sessions -> {"home", "away"}],
           \A t \in Sessions \ {with[c]} : UNCHANGED <<deadline[t], slip[t], cwd[t]>>,
           slip'[with[c]] \in Excusable \/ Doomed(c)',
           \/ slip'[with[c]] # "none" \/ cwd'[with[c]] = "home"
           \/ step \in {"back", "broken"},
           op[c] = "mkdirall" =>
               /\ step \in MkdirSteps
               /\ step \in {"pwd", "cd", "back"} => made' >= Level(c)' \/ excused'[c]
               /\ step = "back" => found'[c] \/ excused'[c]
               /\ step = "ok" => made' = Depth \/ excused'[c]
               /\ step \in {"refused", "lost", "broken"} => excused'[c]
    PROVE  IInv'
<1>1. /\ pc \in [Callers -> FTPSteps] /\ with \in [Callers -> Sessions \cup {NoSession}]
      /\ left \in [Callers -> 1..Depth] /\ made \in 0..Depth /\ idle \subseteq Sessions
      /\ CallsInPlace /\ InOnePlace /\ AsNew /\ DoomedOutOfStep /\ HomeInTheEnd
      /\ MkdirKnows /\ MadeOrExcused /\ IdleIsClean /\ OutOfStepOnlyWhenOverlooked
  BY DEF IInv, Typed, FTPInv
<1>2. /\ pc'[c] = step /\ \A d \in Callers \ {c} : pc'[d] = pc[d]
      /\ step \notin Without \cup {"dial"} /\ pc[c] \notin Without \cup {"dial", "quit"}
      /\ step \in FTPSteps
  BY <1>1 DEF Without, FTPSteps, Commands, Results
<1>3. /\ with[c] # NoSession /\ with[c] \in Sessions /\ with[c] \notin idle
      /\ \A d \in Callers \ {c} : with[d] # with[c]
  BY <1>1, <1>2 DEF InOnePlace
<1>4. Typed'
  BY <1>1, <1>2 DEF IInv, Typed, sftpVars
<1>5. CallsInPlace'
  <2>1. op[c] \notin Exclusive /\ op[c] # "none" /\ step \notin {"idle", "acquire", "dial", "closing"}
    BY <1>1, <1>2 DEF CallsInPlace, Without, Commands
  <2>q. QED BY <2>1, <1>1, <1>2 DEF CallsInPlace
<1>6. InOnePlace'
  BY <1>1, <1>2, <1>3 DEF InOnePlace
<1>7. AsNew'
  <2> SUFFICES ASSUME NEW s \in Sessions, s \notin idle,
                      ~ \E d \in Callers : with[d] = s /\ pc'[d] # "dial"
               PROVE  slip'[s] = "none" /\ cwd'[s] = "home"
    BY DEF AsNew
  <2>1. s # with[c] /\ ~ \E d \in Callers : with[d] = s /\ pc[d] # "dial"
    BY <1>2
  <2>q. QED BY <2>1, <1>1 DEF AsNew
<1>8. DoomedOutOfStep'
  <2>1. ASSUME NEW d \in Callers, d # c, with[d] # NoSession
        PROVE  slip'[with[d]] \in Excusable \/ Doomed(d)'
    <3>1. with[d] \in Sessions \ {with[c]}
      BY <2>1, <1>1, <1>3
    <3>2. UNCHANGED <<pc[d], slip[with[d]], deadline[with[d]]>>
      BY <2>1, <3>1, <1>2
    <3>q. QED BY <2>1, <3>2, <1>1 DEF DoomedOutOfStep, Doomed
  <2>q. QED BY <2>1 DEF DoomedOutOfStep
<1>9. HomeInTheEnd'
  <2>1. ASSUME NEW d \in Callers, d # c, with[d] # NoSession
        PROVE  \/ slip'[with[d]] # "none" \/ cwd'[with[d]] = "home"
               \/ pc'[d] \in {"back", "broken", "quit"}
    <3>1. with[d] \in Sessions \ {with[c]}
      BY <2>1, <1>1, <1>3
    <3>q. QED BY <2>1, <3>1, <1>1, <1>2 DEF HomeInTheEnd
  <2>q. QED BY <2>1, <1>2 DEF HomeInTheEnd
<1>10. MkdirKnows'
  <2>1. ASSUME NEW d \in Callers, d # c, op[d] = "mkdirall"
        PROVE  /\ pc'[d] \in MkdirSteps
               /\ pc'[d] \in {"pwd", "cd", "back"} => made' >= Level(d)' \/ excused'[d]
               /\ pc'[d] = "back" => found'[d] \/ excused'[d]
    <3>1. Level(d)' = Level(d) /\ Level(d) \in Int
      BY <2>1, <1>1, DepthAssumption DEF Level
    <3>2. /\ pc[d] \in MkdirSteps
          /\ pc[d] \in {"pwd", "cd", "back"} => made >= Level(d) \/ excused[d]
          /\ pc[d] = "back" => found[d] \/ excused[d]
      BY <2>1, <1>1 DEF MkdirKnows
    <3>q. QED BY <2>1, <3>1, <3>2, <1>1, <1>2
  <2>q. QED BY <2>1, <1>2 DEF MkdirKnows
<1>11. MadeOrExcused'
  <2>1. ASSUME NEW d \in Callers, d # c, op[d] = "mkdirall"
        PROVE  /\ pc'[d] = "ok" => made' = Depth \/ excused'[d]
               /\ pc'[d] \in {"refused", "lost", "broken"} => excused'[d]
    <3>1. made = Depth => made' = Depth
      BY <1>1, DepthAssumption
    <3>q. QED BY <2>1, <3>1, <1>1, <1>2 DEF MadeOrExcused
  <2>q. QED BY <2>1, <1>2 DEF MadeOrExcused
<1>12. IdleIsClean' /\ OutOfStepOnlyWhenOverlooked'
  BY <1>1, <1>3 DEF IdleIsClean, OutOfStepOnlyWhenOverlooked
<1>q. QED
  BY <1>4, <1>5, <1>6, <1>7, <1>8, <1>9, <1>10, <1>11, <1>12, FTPFrame DEF FTPInv

\* What the invariant says of an FTP client.
LEMMA FTPTypes ==
    ASSUME IInv, kind = "ftp"
    PROVE  /\ left \in [Callers -> 1..Depth] /\ made \in 0..Depth
           /\ excused \in [Callers -> BOOLEAN] /\ found \in [Callers -> BOOLEAN]
           /\ op \in [Callers -> {"none"} \cup Exclusive \cup FTPOps \cup SFTPOps]
           /\ pc \in [Callers -> FTPSteps]
           /\ idle \subseteq Sessions /\ with \in [Callers -> Sessions \cup {NoSession}]
           /\ deadline \in [Sessions -> {"none", "armed", "expired"}]
           /\ slip \in [Sessions -> Commands \cup {"none", "mdtm", "local"}]
           /\ cwd \in [Sessions -> {"home", "away"}]
           /\ CallsInPlace /\ InOnePlace /\ AsNew /\ DoomedOutOfStep /\ HomeInTheEnd
           /\ MkdirKnows /\ MadeOrExcused /\ IdleIsClean /\ OutOfStepOnlyWhenOverlooked
BY DEF IInv, Typed, FTPInv

\* A call with a session that is between two commands.
LEMMA InCommand ==
    ASSUME IInv, kind = "ftp", NEW c \in Callers, pc[c] \in Commands \cup {"detect", "mdtm"}
    PROVE  /\ with[c] \in Sessions /\ with[c] # NoSession
           /\ \/ slip[with[c]] \in Excusable
              \/ /\ pc[c] \in {"stor", "rename", "rename2", "back"}
                 /\ deadline[with[c]] = "expired"
           /\ slip[with[c]] # "none" \/ cwd[with[c]] = "home" \/ pc[c] = "back"
<1>1. /\ with \in [Callers -> Sessions \cup {NoSession}]
      /\ InOnePlace /\ DoomedOutOfStep /\ HomeInTheEnd
  BY FTPTypes
<1>2. pc[c] \notin Without /\ pc[c] \notin {"lost", "broken", "quit"}
  BY DEF Commands, Without
<1>q. QED BY <1>1, <1>2 DEF InOnePlace, DoomedOutOfStep, HomeInTheEnd, Doomed

\* The call goes on at a step that does not count the components of MkdirAll
\* where it may not.
LEMMA MoveOnTypes ==
    ASSUME IInv, kind = "ftp", NEW c \in Callers, with[c] \in Sessions,
           NEW step, NEW d \in {"none", "armed", "expired"}, MoveOn(c, step, d),
           step = "mkd" /\ pc[c] \in {"mkd", "back"} => left[c] # 1
    PROVE  /\ pc' = [pc EXCEPT ![c] = step]
           /\ left' \in [Callers -> 1..Depth] /\ \A x \in Callers \ {c} : left'[x] = left[x]
           /\ deadline' \in [Sessions -> {"none", "armed", "expired"}]
           /\ \A t \in Sessions \ {with[c]} : deadline'[t] = deadline[t]
           /\ step \notin Fresh => deadline'[with[c]] = d
           /\ left'[c] = CASE step \in Results -> Depth
                           [] step = "mkd" /\ pc[c] \in {"mkd", "back"} -> left[c] - 1
                           [] OTHER -> left[c]
<1>1. /\ left \in [Callers -> 1..Depth] /\ Depth \in Nat \ {0}
      /\ deadline \in [Sessions -> {"none", "armed", "expired"}]
  BY FTPTypes, DepthAssumption
<1>2. pc' = [pc EXCEPT ![c] = step]
  BY DEF MoveOn, Goto
<1>3. /\ deadline' \in [Sessions -> {"none", "armed", "expired"}]
      /\ \A t \in Sessions \ {with[c]} : deadline'[t] = deadline[t]
      /\ step \notin Fresh => deadline'[with[c]] = d
  BY <1>1 DEF MoveOn, SetDeadline
<1>4. left' = [left EXCEPT ![c] = CASE step \in Results -> Depth
                           [] step = "mkd" /\ pc[c] \in {"mkd", "back"} -> left[c] - 1
                           [] OTHER -> left[c]]
  BY DEF MoveOn
<1>5. (CASE step \in Results -> Depth
         [] step = "mkd" /\ pc[c] \in {"mkd", "back"} -> left[c] - 1
         [] OTHER -> left[c]) \in 1..Depth
  BY <1>1 DEF Results
<1>q. QED BY <1>1, <1>2, <1>3, <1>4, <1>5

\* The effect of a command: what MkdirAll makes it makes in order, and only CWD
\* moves a session.
LEMMA EffectTypes ==
    ASSUME IInv, kind = "ftp", NEW c \in Callers, with[c] \in Sessions,
           NEW answer \in Answers(c) \cup {"refused"}, Effect(c, answer)
    PROVE  /\ made' \in 0..Depth /\ made' >= made
           /\ pc[c] = "mkd" /\ answer = "done" => made' = Level(c)
           /\ cwd' \in [Sessions -> {"home", "away"}]
           /\ \A t \in Sessions \ {with[c]} : cwd'[t] = cwd[t]
           /\ pc[c] \notin {"cd", "back"} => cwd' = cwd
           /\ pc[c] = "back" /\ answer = "done" => cwd'[with[c]] = "home"
<1>1. /\ left \in [Callers -> 1..Depth] /\ made \in 0..Depth /\ Depth \in Nat \ {0}
      /\ cwd \in [Sessions -> {"home", "away"}]
  BY FTPTypes, DepthAssumption
<1>2. made' = IF pc[c] = "mkd" /\ answer = "done" THEN Level(c) ELSE made
  BY DEF Effect
<1>3. pc[c] = "mkd" /\ answer = "done" => made = Level(c) - 1 /\ Level(c) \in 1..Depth
  BY <1>1 DEF Answers, Level
<1>4. cwd' = IF answer # "done" THEN cwd
             ELSE [cwd EXCEPT ![with[c]] =
                      CASE pc[c] = "cd" -> "away" [] pc[c] = "back" -> "home" [] OTHER -> @]
  BY DEF Effect
<1>5. /\ cwd' \in [Sessions -> {"home", "away"}]
      /\ \A t \in Sessions \ {with[c]} : cwd'[t] = cwd[t]
      /\ pc[c] \notin {"cd", "back"} => cwd' = cwd
      /\ pc[c] = "back" /\ answer = "done" => cwd'[with[c]] = "home"
  <2>1. CASE answer # "done"
    BY <2>1, <1>1, <1>4
  <2>2. CASE answer = "done" /\ pc[c] = "cd"
    BY <2>2, <1>1, <1>4
  <2>3. CASE answer = "done" /\ pc[c] = "back"
    BY <2>3, <1>1, <1>4
  <2>4. CASE answer = "done" /\ pc[c] \notin {"cd", "back"}
    <3>1. cwd' = [cwd EXCEPT ![with[c]] = cwd[with[c]]]
      BY <2>4, <1>4
    <3>q. QED BY <3>1, <2>4, <1>1
  <2>q. QED BY <2>1, <2>2, <2>3, <2>4
<1>q. QED BY <1>1, <1>2, <1>3, <1>5

\* What Lose is when a local failure comes first or does not: a transfer that
\* is in time leads to where a refusal leads.
LEMMA LoseIs ==
    ASSUME NEW c \in Callers, Lose(c)
    PROVE  \E local \in BOOLEAN :
        /\ pc[c] \in Commands
        /\ local => pc[c] \in {"retr", "stor", "storfrom"} /\ deadline[with[c]] = "armed"
        /\ \/ /\ line[with[c]] = "silent" /\ deadline[with[c]] = "armed"
              /\ slip' = [slip EXCEPT ![with[c]] = IF @ # "none" THEN @
                                        ELSE IF local THEN "local" ELSE pc[c]]
              /\ \E answer \in Answers(c) \cup {"refused"} : Effect(c, answer)
           \/ UNCHANGED <<slip, made, cwd>>
        /\ MoveOn(c, (IF local THEN OnRefusal(c) ELSE OnLoss(c))[pc[c]],
                     IF line[with[c]] = "cut" THEN deadline[with[c]] ELSE "expired")
<1>1. ASSUME NEW local \in LocalFails(c)
      PROVE  local \in BOOLEAN /\ (local => pc[c] \in {"retr", "stor", "storfrom"}
                                             /\ deadline[with[c]] = "armed")
  BY <1>1, Zenon DEF LocalFails, InTime
<1>q. QED BY <1>1, Zenon DEF Lose, Timeout, InTime

\* A command without a reply.
LEMMA LoseStep ==
    ASSUME IInv, kind = "ftp", UNCHANGED sftpVars, NEW c \in Callers, Lose(c)
    PROVE  IInv'
<1>0. PICK local \in BOOLEAN :
        /\ pc[c] \in Commands
        /\ local => pc[c] \in {"retr", "stor", "storfrom"} /\ deadline[with[c]] = "armed"
        /\ \/ /\ line[with[c]] = "silent" /\ deadline[with[c]] = "armed"
              /\ slip' = [slip EXCEPT ![with[c]] = IF @ # "none" THEN @
                                        ELSE IF local THEN "local" ELSE pc[c]]
              /\ \E answer \in Answers(c) \cup {"refused"} : Effect(c, answer)
           \/ UNCHANGED <<slip, made, cwd>>
        /\ MoveOn(c, (IF local THEN OnRefusal(c) ELSE OnLoss(c))[pc[c]],
                     IF line[with[c]] = "cut" THEN deadline[with[c]] ELSE "expired")
  BY LoseIs
<1> DEFINE s == with[c]
           step == (IF local THEN OnRefusal(c) ELSE OnLoss(c))[pc[c]]
           d == IF line[s] = "cut" THEN deadline[s] ELSE "expired"
<1>1. pc[c] \in Commands /\ UNCHANGED <<kind, op, idle, with>>
  BY DEF Lose
<1>2. /\ s \in Sessions /\ s # NoSession
      /\ \/ slip[s] \in Excusable
         \/ pc[c] \in {"stor", "rename", "rename2", "back"} /\ deadline[s] = "expired"
      /\ slip[s] # "none" \/ cwd[s] = "home" \/ pc[c] = "back"
  BY <1>1, InCommand
<1>3. /\ step \in (Commands \cup Results \cup {"detect"}) \ {"mkd"}
      /\ pc[c] \in Excusable \/ local
            \/ step \in {"lost", "broken", "stor", "rename", "rename2", "back"}
      /\ pc[c] \in {"stor", "rename", "rename2", "back"} => step \in {"lost", "broken"} \/ local
      /\ pc[c] \in {"fast", "mkd", "pwd", "cd", "back"} =>
             step \in {"lost", "refused", "back", "broken"}
      /\ pc[c] = "cd" => step = "back"
      /\ pc[c] = "back" => step = "broken"
  <2>1. CASE ~local
    BY <1>1, <2>1, LossLeads
  <2>2. CASE local
    <3>1. pc[c] \in {"retr", "stor", "storfrom"}
      BY <1>0, <2>2
    <3>2. step \in {"refused", "stor", "delpartial"}
      BY <2>2, <3>1 DEF OnRefusal
    <3>q. QED BY <2>2, <3>1, <3>2 DEF Commands, Results
  <2>q. QED BY <2>1, <2>2
<1>4. d \in {"none", "armed", "expired"} /\ MoveOn(c, step, d)
  BY <1>0, <1>2, FTPTypes
<1> HIDE DEF step, d
<1>5. /\ pc' = [pc EXCEPT ![c] = step]
      /\ left' \in [Callers -> 1..Depth] /\ \A x \in Callers \ {c} : left'[x] = left[x]
      /\ deadline' \in [Sessions -> {"none", "armed", "expired"}]
      /\ \A t \in Sessions \ {s} : deadline'[t] = deadline[t]
      /\ step \notin Fresh => deadline'[s] = d
  BY <1>2, <1>3, <1>4, MoveOnTypes
<1>6. /\ excused' \in [Callers -> BOOLEAN] /\ found' \in [Callers -> BOOLEAN]
      /\ \A x \in Callers \ {c} : UNCHANGED <<excused[x], found[x]>>
      /\ op[c] = "mkdirall" => excused'[c]
  <2>1. /\ excused' = [excused EXCEPT ![c] = op[c] = "mkdirall" /\ (@ \/ TRUE)]
        /\ found' = [found EXCEPT ![c] = FALSE]
    BY DEF Lose, Excuse
  <2>2. excused \in [Callers -> BOOLEAN] /\ found \in [Callers -> BOOLEAN]
    BY FTPTypes
  <2>q. QED BY <2>1, <2>2
<1>7. \/ /\ line[s] = "silent" /\ deadline[s] = "armed"
         /\ slip' = [slip EXCEPT ![s] = IF @ # "none" THEN @ ELSE IF local THEN "local" ELSE pc[c]]
         /\ \E answer \in Answers(c) \cup {"refused"} : Effect(c, answer)
      \/ UNCHANGED <<slip, made, cwd>>
  BY <1>0
<1>8. /\ made' \in 0..Depth /\ made' >= made
      /\ cwd' \in [Sessions -> {"home", "away"}]
      /\ \A t \in Sessions \ {s} : cwd'[t] = cwd[t]
  BY <1>2, <1>7, EffectTypes, FTPTypes, DepthAssumption
<1>9. /\ slip' \in [Sessions -> Commands \cup {"none", "mdtm", "local"}]
      /\ \A t \in Sessions \ {s} : slip'[t] = slip[t]
      /\ \/ slip'[s] = slip[s] \/ slip'[s] = "local"
         \/ slip'[s] = pc[c] /\ line[s] = "silent" /\ ~local
      /\ UNCHANGED <<slip, cwd>> \/ slip'[s] # "none"
  <2>1. slip \in [Sessions -> Commands \cup {"none", "mdtm", "local"}] /\ "none" \notin Commands
    BY FTPTypes DEF Commands
  <2>q. QED BY <2>1, <1>1, <1>2, <1>7
<1>10. slip'[s] \in Excusable \/ Doomed(c)'
  <2>1. pc'[c] = step
    BY <1>5, FTPTypes
  <2>2. CASE step \in {"lost", "broken"}
    BY <2>1, <2>2 DEF Doomed
  <2>3. CASE step \notin {"lost", "broken"} /\ slip'[s] = slip[s]
    BY <2>3, <1>0, <1>2, <1>3
  <2>5. CASE slip'[s] = "local"
    BY <2>5 DEF Excusable
  <2>4. CASE step \notin {"lost", "broken"} /\ slip'[s] = pc[c] /\ line[s] = "silent" /\ ~local
    <3>1. pc[c] \in Excusable \/ (step \in {"stor", "rename", "rename2", "back"} /\ d = "expired")
      BY <2>4, <1>3 DEF d
    <3>2. step \in {"stor", "rename", "rename2", "back"} => step \notin Fresh
      BY DEF Fresh
    <3>q. QED BY <2>1, <2>4, <3>1, <3>2, <1>1, <1>5 DEF Doomed
  <2>q. QED BY <1>9, <2>2, <2>3, <2>4, <2>5
<1>11. slip'[s] # "none" \/ cwd'[s] = "home" \/ step \in {"back", "broken"}
  BY <1>2, <1>3, <1>9
<1>12. op[c] = "mkdirall" => step \in {"lost", "refused", "back", "broken"}
  <2>1. op[c] = "mkdirall" => pc[c] \in MkdirSteps
    BY FTPTypes DEF MkdirKnows
  <2>q. QED BY <2>1, <1>1, <1>3 DEF MkdirSteps, Commands, Results
<1>13. op[c] = "mkdirall" =>
           /\ step \in MkdirSteps
           /\ step \in {"pwd", "cd", "back"} => made' >= Level(c)' \/ excused'[c]
           /\ step = "back" => found'[c] \/ excused'[c]
           /\ step = "ok" => made' = Depth \/ excused'[c]
           /\ step \in {"refused", "lost", "broken"} => excused'[c]
  BY <1>6, <1>12 DEF MkdirSteps, Results
<1>14. \A x \in Callers \ {c} : UNCHANGED <<left[x], excused[x], found[x]>>
  BY <1>5, <1>6
<1>15. \A t \in Sessions \ {s} : UNCHANGED <<deadline[t], slip[t], cwd[t]>>
  BY <1>5, <1>8, <1>9
<1>16. step \in Commands \cup Results \cup {"detect", "mdtm"}
  BY <1>3
<1>q. QED
  BY <1>1, <1>5, <1>6, <1>8, <1>9, <1>10, <1>11, <1>13, <1>14, <1>15, <1>16, FTPProceeds

\* A command and a reply, its own or not: in step it is the answer to it, and
\* what MkdirAll is answered is true when it is.
LEMMA ReplyStep ==
    ASSUME IInv, kind = "ftp", UNCHANGED sftpVars, NEW c \in Callers, Reply(c)
    PROVE  IInv'
<1> DEFINE s == with[c]
<1>1. /\ pc[c] \in Commands /\ deadline[s] = "armed"
      /\ UNCHANGED <<kind, op, idle, with, slip>>
  BY DEF Reply, InTime
<1>2. PICK answer \in Answers(c) :
      \E read \in IF slip[s] = "none" THEN {answer} ELSE {"done", "refused"} :
          /\ Effect(c, answer)
          /\ Excuse(c, slip[s] # "none" \/ Denied(c, answer))
          /\ MoveOn(c, (IF read = "done" THEN OnDone(c) ELSE OnRefusal(c))[pc[c]], "armed")
          /\ found' = [found EXCEPT ![c] = pc[c] = "cd" /\ read = "done"]
  BY DEF Reply
<1>3. answer \in {"done", "refused"}
  BY DEF Answers
<1>4. PICK read \in {"done", "refused"} :
          /\ slip[s] = "none" => read = answer
          /\ Effect(c, answer)
          /\ Excuse(c, slip[s] # "none" \/ Denied(c, answer))
          /\ MoveOn(c, (IF read = "done" THEN OnDone(c) ELSE OnRefusal(c))[pc[c]], "armed")
          /\ found' = [found EXCEPT ![c] = pc[c] = "cd" /\ read = "done"]
  BY <1>2, <1>3
<1> DEFINE step == (IF read = "done" THEN OnDone(c) ELSE OnRefusal(c))[pc[c]]
<1>5. /\ s \in Sessions /\ s # NoSession /\ slip[s] \in Excusable
      /\ slip[s] # "none" \/ cwd[s] = "home" \/ pc[c] = "back"
  BY <1>1, InCommand
<1>6. /\ step \in Commands \cup Results \cup {"detect"}
      /\ read = "done" =>
             /\ pc[c] = "fast" => step = "ok"
             /\ pc[c] = "mkd"  => step = NextComponent(c)
             /\ pc[c] = "pwd"  => step = "cd"
             /\ pc[c] = "cd"   => step = "back"
             /\ pc[c] = "back" => step = IF found[c] THEN NextComponent(c) ELSE "refused"
             /\ step = "mkd" => pc[c] \in {"mkd", "back"}
      /\ read = "refused" =>
             /\ pc[c] = "fast" => step = "mkd"
             /\ pc[c] = "mkd"  => step = "pwd"
             /\ pc[c] = "pwd"  => step = "refused"
             /\ pc[c] = "cd"   => step = "back"
             /\ pc[c] = "back" => step = "broken"
             /\ step = "mkd" => pc[c] = "fast"
  BY <1>1, DoneLeads, RefusalLeads
<1>7. MoveOn(c, step, "armed")
  BY <1>4
<1> HIDE DEF step
<1>8. /\ left \in [Callers -> 1..Depth] /\ made \in 0..Depth /\ Depth \in Nat \ {0}
      /\ excused \in [Callers -> BOOLEAN] /\ found \in [Callers -> BOOLEAN]
      /\ slip \in [Sessions -> Commands \cup {"none", "mdtm", "local"}]
      /\ pc \in [Callers -> FTPSteps] /\ MkdirKnows
  BY FTPTypes, DepthAssumption
<1>9. NextComponent(c) = IF left[c] = 1 THEN "ok" ELSE "mkd"
  BY DEF NextComponent
<1>10. step = "mkd" /\ pc[c] \in {"mkd", "back"} => left[c] # 1
  BY <1>6, <1>9
<1>11. /\ pc' = [pc EXCEPT ![c] = step]
       /\ left' \in [Callers -> 1..Depth] /\ \A x \in Callers \ {c} : left'[x] = left[x]
       /\ deadline' \in [Sessions -> {"none", "armed", "expired"}]
       /\ \A t \in Sessions \ {s} : deadline'[t] = deadline[t]
       /\ left'[c] = CASE step \in Results -> Depth
                       [] step = "mkd" /\ pc[c] \in {"mkd", "back"} -> left[c] - 1
                       [] OTHER -> left[c]
  BY <1>5, <1>7, <1>10, MoveOnTypes
<1>12. /\ made' \in 0..Depth /\ made' >= made
       /\ pc[c] = "mkd" /\ answer = "done" => made' = Level(c)
       /\ cwd' \in [Sessions -> {"home", "away"}]
       /\ \A t \in Sessions \ {s} : cwd'[t] = cwd[t]
       /\ pc[c] \notin {"cd", "back"} => cwd' = cwd
       /\ pc[c] = "back" /\ answer = "done" => cwd'[s] = "home"
  BY <1>4, <1>5, EffectTypes
<1>13. /\ excused' \in [Callers -> BOOLEAN] /\ found' \in [Callers -> BOOLEAN]
       /\ \A x \in Callers \ {c} : UNCHANGED <<excused[x], found[x]>>
  BY <1>4, <1>8 DEF Excuse
<1>14. /\ op[c] = "mkdirall" /\ excused[c] => excused'[c]
       /\ op[c] = "mkdirall" /\ slip[s] # "none" => excused'[c]
       /\ op[c] = "mkdirall" /\ Denied(c, answer) => excused'[c]
       /\ found'[c] <=> (pc[c] = "cd" /\ read = "done")
  BY <1>4, <1>8 DEF Excuse
<1>15. slip'[s] # "none" \/ cwd'[s] = "home" \/ step \in {"back", "broken"}
  BY <1>1, <1>3, <1>4, <1>5, <1>6, <1>12
<1>16. ASSUME op[c] = "mkdirall"
       PROVE  /\ step \in MkdirSteps
              /\ step \in {"pwd", "cd", "back"} => made' >= Level(c)' \/ excused'[c]
              /\ step = "back" => found'[c] \/ excused'[c]
              /\ step = "ok" => made' = Depth \/ excused'[c]
              /\ step \in {"refused", "lost", "broken"} => excused'[c]
  <2>1. /\ pc[c] \in {"fast", "mkd", "pwd", "cd", "back"}
        /\ pc[c] \in {"pwd", "cd", "back"} => made >= Level(c) \/ excused[c]
        /\ pc[c] = "back" => found[c] \/ excused[c]
    BY <1>1, <1>8, <1>16 DEF MkdirKnows, MkdirSteps, Commands, Results
  <2>2. step \in {"ok", "refused", "broken", "mkd", "pwd", "cd", "back"}
    BY <1>6, <1>9, <2>1
  <2>3. CASE excused'[c]
    BY <2>2, <2>3 DEF MkdirSteps, Results
  <2>4. CASE ~excused'[c]
    <3>1. ~excused[c] /\ read = answer /\ ~Denied(c, answer)
      BY <2>4, <1>4, <1>14, <1>16
    <3>2. Level(c) = Depth - left[c] + 1 /\ Level(c) \in 1..Depth
      BY <1>8 DEF Level
    <3>3. step \in {"pwd", "cd", "back"} => Level(c)' = Level(c)
      BY <1>11, <3>2 DEF Level, Results
    <3>4. CASE pc[c] = "fast"
      <4>1. answer = "done" => made = Depth
        BY <3>4 DEF Answers
      <4>q. QED BY <3>1, <3>4, <4>1, <1>3, <1>6, <1>8, <1>12 DEF MkdirSteps, Results
    <3>5. CASE pc[c] = "mkd"
      <4>1. answer = "refused" => made >= Level(c)
        BY <3>1, <3>5 DEF Denied, Exists
      <4>2. answer = "done" /\ left[c] = 1 => made' = Depth
        BY <3>2, <3>5, <1>8, <1>12
      <4>q. QED
        BY <3>1, <3>2, <3>3, <3>5, <4>1, <4>2, <1>3, <1>6, <1>8, <1>9, <1>12
        DEF MkdirSteps, Results
    <3>6. CASE pc[c] = "pwd"
      <4>1. answer = "done"
        BY <3>1, <3>6, <1>3 DEF Denied
      <4>q. QED BY <2>1, <3>1, <3>2, <3>3, <3>6, <4>1, <1>6, <1>8, <1>12 DEF MkdirSteps, Results
    <3>7. CASE pc[c] = "cd"
      <4>1. made >= Level(c)
        BY <2>1, <3>1, <3>7
      <4>2. answer = "done"
        BY <3>7, <4>1 DEF Answers, Exists
      <4>q. QED
        BY <3>1, <3>2, <3>3, <3>7, <4>1, <4>2, <1>6, <1>8, <1>12, <1>14 DEF MkdirSteps, Results
    <3>8. CASE pc[c] = "back"
      <4>1. answer = "done" /\ found[c] /\ made >= Level(c)
        BY <2>1, <3>1, <3>8, <1>3 DEF Denied
      <4>2. step = IF left[c] = 1 THEN "ok" ELSE "mkd"
        BY <3>1, <3>8, <4>1, <1>6, <1>9
      <4>3. left[c] = 1 => made' = Depth
        BY <4>1, <3>2, <1>8, <1>12
      <4>q. QED BY <4>2, <4>3 DEF MkdirSteps, Results
    <3>q. QED BY <2>1, <3>4, <3>5, <3>6, <3>7, <3>8
  <2>q. QED BY <2>3, <2>4
<1>17. \A x \in Callers \ {c} : UNCHANGED <<left[x], excused[x], found[x]>>
  BY <1>11, <1>13
<1>18. \A t \in Sessions \ {s} : UNCHANGED <<deadline[t], slip[t], cwd[t]>>
  BY <1>1, <1>11, <1>12
<1>19. /\ step \in Commands \cup Results \cup {"detect", "mdtm"}
       /\ slip' \in [Sessions -> Commands \cup {"none", "mdtm", "local"}]
       /\ slip'[s] \in Excusable
  BY <1>1, <1>5, <1>6, <1>8
<1>q. QED
  BY <1>1, <1>11, <1>12, <1>13, <1>15, <1>16, <1>17, <1>18, <1>19, FTPProceeds

\* The detection of the offset of the listings: nothing of the path, and no
\* directory, changes.
LEMMA DetectStep ==
    ASSUME IInv, kind = "ftp", UNCHANGED sftpVars, NEW c \in Callers, Detect(c) \/ Probed(c)
    PROVE  IInv'
<1> DEFINE s == with[c]
<1>1. /\ pc[c] \in {"detect", "mdtm"}
      /\ UNCHANGED <<kind, op, made, idle, with, cwd, found>>
  BY DEF Detect, Probed
<1>2. /\ s \in Sessions /\ s # NoSession /\ slip[s] \in Excusable
      /\ slip[s] # "none" \/ cwd[s] = "home"
  BY <1>1, InCommand
<1>3. /\ left \in [Callers -> 1..Depth] /\ made \in 0..Depth
      /\ excused \in [Callers -> BOOLEAN] /\ found \in [Callers -> BOOLEAN]
      /\ slip \in [Sessions -> Commands \cup {"none", "mdtm", "local"}]
      /\ cwd \in [Sessions -> {"home", "away"}]
      /\ deadline \in [Sessions -> {"none", "armed", "expired"}]
      /\ MkdirKnows
  BY FTPTypes
<1>4. op[c] # "mkdirall"
  BY <1>1, <1>3 DEF MkdirKnows, MkdirSteps, Results
<1>5. \/ pc' = [pc EXCEPT ![c] = "mdtm"] /\ UNCHANGED <<left, deadline>>
      \/ \E step \in {"retr", "ok", "detect"}, d \in {"none", "armed", "expired"} :
             MoveOn(c, step, d)
  <2>1. \A b \in BOOLEAN : Detected(c, b) \subseteq {"retr", "ok", "detect"}
    BY DEF Detected
  <2>2. deadline[s] \in {"none", "armed", "expired"}
    BY <1>2, <1>3
  <2>q. QED BY <2>1, <2>2 DEF Detect, Probed, Goto
<1>6. PICK step \in {"retr", "ok", "detect", "mdtm"} :
          /\ pc' = [pc EXCEPT ![c] = step]
          /\ left' \in [Callers -> 1..Depth] /\ \A x \in Callers \ {c} : left'[x] = left[x]
          /\ deadline' \in [Sessions -> {"none", "armed", "expired"}]
          /\ \A t \in Sessions \ {s} : deadline'[t] = deadline[t]
  BY <1>2, <1>3, <1>5, MoveOnTypes
<1>7. /\ excused' \in [Callers -> BOOLEAN]
      /\ \A x \in Callers \ {c} : excused'[x] = excused[x]
  <2>1. excused' = excused \/ \E b \in BOOLEAN : excused' = [excused EXCEPT ![c] = b]
    BY DEF Detect, Probed, Excuse
  <2>q. QED BY <2>1, <1>3
<1>8. /\ slip' \in [Sessions -> Commands \cup {"none", "mdtm", "local"}]
      /\ \A t \in Sessions \ {s} : slip'[t] = slip[t]
      /\ slip'[s] \in Excusable /\ (slip[s] # "none" => slip'[s] # "none")
  <2>1. slip' = slip \/ slip' = [slip EXCEPT ![s] = IF @ = "none" THEN "mdtm" ELSE @]
    BY DEF Detect, Probed
  <2>q. QED BY <2>1, <1>2, <1>3 DEF Excusable
<1>9. step \in Commands \cup Results \cup {"detect", "mdtm"}
  BY DEF Commands, Results
<1>10. slip'[s] # "none" \/ cwd'[s] = "home"
  BY <1>1, <1>2, <1>8
<1>11. \A x \in Callers \ {c} : UNCHANGED <<left[x], excused[x], found[x]>>
  BY <1>1, <1>6, <1>7
<1>12. \A t \in Sessions \ {s} : UNCHANGED <<deadline[t], slip[t], cwd[t]>>
  BY <1>1, <1>6, <1>8
<1>13. /\ pc[c] \in Commands \cup {"detect", "mdtm"}
       /\ made' \in 0..Depth /\ made' >= made
       /\ found' \in [Callers -> BOOLEAN] /\ cwd' \in [Sessions -> {"home", "away"}]
  BY <1>1, <1>3, DepthAssumption
<1>q. QED
  BY <1>1, <1>4, <1>6, <1>7, <1>8, <1>9, <1>10, <1>11, <1>12, <1>13, FTPProceeds

\* A deadline that passes, and a line that fails or recovers, are not yet felt
\* by anyone.
LEMMA FTPNature ==
    ASSUME IInv, kind = "ftp", UNCHANGED sftpVars,
           \/ \E c \in Callers : WaitsTooLong(c)
           \/ \E s \in Sessions : Disturb(s)
    PROVE  IInv'
<1>1. UNCHANGED <<kind, callVars, made, idle, with, slip, cwd, found>>
  BY DEF WaitsTooLong, Disturb, clientVars, callVars
<1>2. \/ deadline' = deadline
      \/ \E c \in Callers : /\ pc[c] = "detect"
                            /\ deadline' = [deadline EXCEPT ![with[c]] = "expired"]
  BY DEF WaitsTooLong, Disturb, SetDeadline
<1>3. /\ deadline \in [Sessions -> {"none", "armed", "expired"}]
      /\ idle \subseteq Sessions /\ InOnePlace /\ DoomedOutOfStep /\ IdleIsClean
  BY FTPTypes
<1>4. /\ deadline' \in [Sessions -> {"none", "armed", "expired"}]
      /\ \A s \in Sessions : deadline[s] = "expired" => deadline'[s] = "expired"
      /\ \A s \in idle : deadline'[s] = deadline[s]
  BY <1>2, <1>3 DEF InOnePlace
<1>5. DoomedOutOfStep'
  <2>1. \A c \in Callers : with[c] # NoSession => with[c] \in Sessions
    BY FTPTypes
  <2>q. QED BY <1>1, <1>3, <1>4, <2>1 DEF DoomedOutOfStep, Doomed, callVars
<1>6. IdleIsClean'
  BY <1>1, <1>3, <1>4 DEF IdleIsClean
<1>7. Typed'
  BY <1>1, <1>4 DEF IInv, Typed, callVars, sftpVars
<1>8. (CallsInPlace /\ InOnePlace /\ AsNew /\ HomeInTheEnd)'
  BY <1>1, FTPTypes DEF CallsInPlace, InOnePlace, AsNew, HomeInTheEnd, callVars
<1>9. (MkdirKnows /\ MadeOrExcused /\ OutOfStepOnlyWhenOverlooked)'
  BY <1>1, FTPTypes
  DEF MkdirKnows, MadeOrExcused, OutOfStepOnlyWhenOverlooked, Level, callVars
<1>q. QED BY <1>1, <1>5, <1>6, <1>7, <1>8, <1>9, FTPFrame DEF FTPInv

\* A call begins, with no session yet; one that needs the client to itself
\* finds it idle.
LEMMA FTPCalled ==
    ASSUME IInv, kind = "ftp", UNCHANGED sftpVars, NEW c \in Callers, CallFTP(c)
    PROVE  IInv'
<1>1. PICK o \in FTPOps \cup Exclusive, step \in {"acquire", "closing"} :
          /\ Enter(c, o, step)
          /\ o \in FTPOps <=> step = "acquire"
          /\ o \in Exclusive <=> step = "closing"
  BY DEF CallFTP, FTPOps, Exclusive
<1>2. /\ pc[c] = "idle"
      /\ pc' = [pc EXCEPT ![c] = step] /\ op' = [op EXCEPT ![c] = o]
      /\ left' = [left EXCEPT ![c] = Depth] /\ excused' = [excused EXCEPT ![c] = FALSE]
      /\ \A d \in Callers : op[d] \in Exclusive => pc[d] = "idle"
      /\ o \in Exclusive => \A d \in Callers : pc[d] = "idle"
  BY <1>1 DEF Enter, Alone
<1>3. UNCHANGED <<kind, made, idle, with, deadline, slip, cwd, found>>
  BY DEF CallFTP, ftpVars, sessionVars
<1>4. /\ left \in [Callers -> 1..Depth] /\ excused \in [Callers -> BOOLEAN]
      /\ op \in [Callers -> {"none"} \cup Exclusive \cup FTPOps \cup SFTPOps]
      /\ pc \in [Callers -> FTPSteps]
      /\ CallsInPlace /\ InOnePlace /\ AsNew /\ DoomedOutOfStep /\ HomeInTheEnd
      /\ MkdirKnows /\ MadeOrExcused /\ IdleIsClean /\ OutOfStepOnlyWhenOverlooked
  BY FTPTypes
<1>5. /\ pc'[c] = step /\ op'[c] = o /\ op[c] = "none" /\ with[c] = NoSession
      /\ \A d \in Callers \ {c} : UNCHANGED <<pc[d], op[d], left[d], excused[d]>>
  BY <1>2, <1>4 DEF CallsInPlace, InOnePlace, Without
<1>6. Typed'
  <2>1. /\ pc' \in [Callers -> FTPSteps] /\ left' \in [Callers -> 1..Depth]
        /\ op' \in [Callers -> {"none"} \cup Exclusive \cup FTPOps \cup SFTPOps]
        /\ excused' \in [Callers -> BOOLEAN]
    BY <1>2, <1>4, DepthAssumption DEF FTPSteps, Without
  <2>q. QED BY <2>1, <1>3 DEF IInv, Typed, sftpVars
<1>7. CallsInPlace'
  <2>1. o # "none" /\ o \notin (FTPOps \cap Exclusive)
    BY DEF FTPOps, Exclusive
  <2>2. \A d \in Callers : op[d] \notin Exclusive
    BY <1>2, <1>4 DEF CallsInPlace, Exclusive
  <2>3. o \in Exclusive => \A d \in Callers : op[d] = "none"
    BY <1>2, <1>4 DEF CallsInPlace
  <2>q. QED BY <2>1, <2>2, <2>3, <1>1, <1>3, <1>4, <1>5 DEF CallsInPlace
<1>8. InOnePlace'
  BY <1>2, <1>3, <1>4, <1>5 DEF InOnePlace, Without
<1>9. AsNew'
  BY <1>2, <1>3, <1>4, <1>5 DEF AsNew
<1>10. DoomedOutOfStep' /\ HomeInTheEnd'
  BY <1>3, <1>4, <1>5 DEF DoomedOutOfStep, HomeInTheEnd, Doomed
<1>11. MkdirKnows' /\ MadeOrExcused'
  <2>1. o = "mkdirall" => step = "acquire"
    BY <1>1 DEF FTPOps
  <2>q. QED
    BY <2>1, <1>3, <1>4, <1>5 DEF MkdirKnows, MadeOrExcused, MkdirSteps, Level, Results
<1>12. IdleIsClean' /\ OutOfStepOnlyWhenOverlooked'
  BY <1>3, <1>4 DEF IdleIsClean, OutOfStepOnlyWhenOverlooked
<1>q. QED BY <1>3, <1>6, <1>7, <1>8, <1>9, <1>10, <1>11, <1>12, FTPFrame DEF FTPInv

\* A session for every caller: there is one that nobody has when the pool is
\* empty and a caller has none.
LEMMA FreeSession ==
    ASSUME with \in [Callers -> Sessions \cup {NoSession}], idle = {},
           NEW c \in Callers, with[c] = NoSession
    PROVE  \E s \in Sessions : s \notin idle \cup InUse
<1> SUFFICES ASSUME \A s \in Sessions : \E d \in Callers : with[d] = s
             PROVE  FALSE
  BY DEF InUse
<1> DEFINE Others == Callers \ {c}
           f == [s \in Sessions |-> CHOOSE d \in Others : with[d] = s]
<1>1. \A s \in Sessions : f[s] \in Others /\ with[f[s]] = s
  <2> TAKE s \in Sessions
  <2>1. PICK d \in Callers : with[d] = s
    OBVIOUS
  <2>2. d \in Others
    BY <2>1, SessionsAssumption
  <2>q. QED BY <2>1, <2>2
<1>2. f \in Injection(Sessions, Others)
  <2>1. f \in [Sessions -> Others] /\ DOMAIN f = Sessions
    BY <1>1
  <2>2. \A s, t \in Sessions : f[s] = f[t] => s = t
    BY <1>1
  <2> HIDE DEF f
  <2>q. QED BY <2>1, <2>2 DEF Injection, IsInjective
<1>3. /\ IsFiniteSet(Others) /\ Cardinality(Others) = Cardinality(Callers) - 1
      /\ Cardinality(Callers) \in Nat
  BY CallersAssumption, FS_RemoveElement, FS_CardinalityType
<1> HIDE DEF f, Others
<1>4. IsFiniteSet(Sessions) /\ Cardinality(Sessions) <= Cardinality(Others)
  BY <1>2, <1>3, FS_Injection
<1>5. Cardinality(Sessions) \in Nat
  BY <1>4, FS_CardinalityType
<1>q. QED BY <1>3, <1>4, <1>5, SessionsAssumption

\* A call without a session gets one: an idle one for its first command or to
\* close it, or a new one.
LEMMA FTPTakes ==
    ASSUME IInv, kind = "ftp", kind' = kind,
           UNCHANGED <<sftpVars, op, left, excused, made, found, slip, cwd>>,
           NEW c \in Callers, with[c] = NoSession,
           NEW s \in Sessions, \A d \in Callers : with[d] # s,
           NEW step \in Commands \cup {"dial", "quit"},
           pc' = [pc EXCEPT ![c] = step], with' = [with EXCEPT ![c] = s],
           idle' = idle \ {s}, step = "dial" <=> s \notin idle,
           deadline' \in [Sessions -> {"none", "armed", "expired"}],
           \A t \in Sessions \ {s} : deadline'[t] = deadline[t],
           step = "quit" => op[c] \in Exclusive,
           step = "dial" => op[c] \in FTPOps \cup {"connect"} /\ idle = {},
           step \in Commands => op[c] \in FTPOps /\ step = First(op[c])
    PROVE  IInv'
<1>1. /\ pc \in [Callers -> FTPSteps] /\ with \in [Callers -> Sessions \cup {NoSession}]
      /\ idle \subseteq Sessions
      /\ CallsInPlace /\ InOnePlace /\ AsNew /\ DoomedOutOfStep /\ HomeInTheEnd
      /\ MkdirKnows /\ MadeOrExcused /\ IdleIsClean /\ OutOfStepOnlyWhenOverlooked
  BY FTPTypes
<1>2. /\ pc[c] \in Without /\ step \notin Without /\ step \in FTPSteps
      /\ s # NoSession
  BY <1>1, SessionsAssumption DEF InOnePlace, Without, Commands, FTPSteps
<1>3. /\ pc'[c] = step /\ with'[c] = s
      /\ \A d \in Callers \ {c} : UNCHANGED <<pc[d], with[d]>> /\ with[d] # s
  BY <1>1
<1>4. slip[s] \in Excusable /\ (slip[s] # "none" \/ cwd[s] = "home")
  <2>1. CASE s \in idle
    BY <2>1, <1>1 DEF IdleIsClean, OutOfStepOnlyWhenOverlooked, Excusable
  <2>2. CASE s \notin idle
    BY <2>2, <1>1 DEF AsNew, Excusable
  <2>q. QED BY <2>1, <2>2
<1>5. op[c] = "mkdirall" => step \in {"dial", "fast", "mkd"}
  <2>1. op[c] = "mkdirall" => First(op[c]) \in {"fast", "mkd"}
    BY DEF First
  <2>2. step = "quit" => op[c] # "mkdirall"
    BY DEF Exclusive
  <2>q. QED BY <2>1, <2>2
<1>6. Typed'
  BY <1>1, <1>2 DEF IInv, Typed, sftpVars
<1>7. CallsInPlace'
  <2>1. /\ step \notin {"idle", "acquire", "closing"} /\ op[c] # "none"
        /\ op[c] \in Exclusive => step \in {"dial", "quit"}
    BY <1>2, <1>1 DEF CallsInPlace, Without, FTPOps, Exclusive
  <2>2. idle = {} => idle' = {}
    OBVIOUS
  <2>q. QED BY <2>1, <2>2, <1>1, <1>3 DEF CallsInPlace
<1>8. InOnePlace'
  BY <1>1, <1>2, <1>3 DEF InOnePlace
<1>9. AsNew'
  <2> SUFFICES ASSUME NEW t \in Sessions, t \notin idle',
                      ~ \E d \in Callers : with'[d] = t /\ pc'[d] # "dial"
               PROVE  slip[t] = "none" /\ cwd[t] = "home"
    BY DEF AsNew
  <2>1. CASE t = s
    <3>1. step = "dial" /\ s \notin idle
      BY <2>1, <1>3
    <3>q. QED BY <2>1, <3>1, <1>1 DEF AsNew
  <2>2. CASE t # s
    <3>1. t \notin idle /\ ~ \E d \in Callers : with[d] = t /\ pc[d] # "dial"
      BY <2>2, <1>3, SessionsAssumption
    <3>q. QED BY <3>1, <1>1 DEF AsNew
  <2>q. QED BY <2>1, <2>2
<1>10. DoomedOutOfStep'
  <2>1. ASSUME NEW d \in Callers, d # c, with[d] # NoSession
        PROVE  slip[with[d]] \in Excusable \/ Doomed(d)'
    <3>1. with[d] \in Sessions \ {s}
      BY <2>1, <1>1, <1>3
    <3>q. QED BY <2>1, <3>1, <1>1, <1>3 DEF DoomedOutOfStep, Doomed
  <2>q. QED BY <2>1, <1>3, <1>4 DEF DoomedOutOfStep
<1>11. HomeInTheEnd'
  BY <1>1, <1>3, <1>4 DEF HomeInTheEnd
<1>12. MkdirKnows' /\ MadeOrExcused'
  <2>1. step \in Results => FALSE
    BY DEF Results, Commands
  <2>q. QED
    BY <2>1, <1>1, <1>3, <1>5 DEF MkdirKnows, MadeOrExcused, MkdirSteps, Level, Results
<1>13. IdleIsClean' /\ OutOfStepOnlyWhenOverlooked'
  BY <1>1 DEF IdleIsClean, OutOfStepOnlyWhenOverlooked
<1>q. QED
  BY <1>6, <1>7, <1>8, <1>9, <1>10, <1>11, <1>12, <1>13, FTPFrame DEF FTPInv

\* What happens to call d when call c is left without a session.
Returns(c, d) == pc'[d] = "idle" /\ op'[d] = "none" /\ (d # c => pc[d] = "acquire")
Stays(c, d) ==
    /\ UNCHANGED <<op[d], excused[d]>>
    /\ \/ d # c /\ pc'[d] = pc[d]
       \/ d = c /\ pc'[d] = "acquire" /\ op[d] \in FTPOps
       \/ d = c /\ pc'[d] = "closing" /\ op[d] \in Exclusive

\* A call is left without a session, and may return, as may others that only
\* wait for one.  The session it had is fit for the pool or is no more.
LEMMA FTPLeaves ==
    ASSUME IInv, kind = "ftp", kind' = kind, UNCHANGED <<sftpVars, left, made, found>>,
           NEW c \in Callers, pc[c] # "idle",
           pc' \in [Callers -> FTPSteps], excused' \in [Callers -> BOOLEAN],
           op' \in [Callers -> {"none"} \cup Exclusive \cup FTPOps \cup SFTPOps],
           \A d \in Callers : Returns(c, d) \/ Stays(c, d),
           with' = [with EXCEPT ![c] = NoSession],
           idle' \ {with[c]} = idle \ {with[c]}, NoSession \notin idle',
           deadline' \in [Sessions -> {"none", "armed", "expired"}],
           slip' \in [Sessions -> Commands \cup {"none", "mdtm", "local"}],
           cwd' \in [Sessions -> {"home", "away"}],
           \A t \in Sessions \ {with[c]} : UNCHANGED <<deadline[t], slip[t], cwd[t]>>,
           with[c] \in idle' => /\ deadline'[with[c]] = "none"
                                /\ slip'[with[c]] = "none" => cwd'[with[c]] = "home"
                                /\ slip'[with[c]] \in Excusable,
           with[c] \in Sessions \ idle' => slip'[with[c]] = "none" /\ cwd'[with[c]] = "home"
    PROVE  IInv'
<1>1. /\ pc \in [Callers -> FTPSteps] /\ with \in [Callers -> Sessions \cup {NoSession}]
      /\ idle \subseteq Sessions /\ NoSession \notin Sessions
      /\ CallsInPlace /\ InOnePlace /\ AsNew /\ DoomedOutOfStep /\ HomeInTheEnd
      /\ MkdirKnows /\ MadeOrExcused /\ IdleIsClean /\ OutOfStepOnlyWhenOverlooked
  BY FTPTypes, SessionsAssumption
<1> DEFINE out == {d \in Callers : Returns(c, d)}
<1>0. /\ \A d \in Callers \ out : Stays(c, d)
      /\ \A d \in out : Returns(c, d) /\ d \in Callers
  OBVIOUS
<1> HIDE DEF out
<1>2. idle' \subseteq Sessions
  BY <1>1
<1>3. /\ with'[c] = NoSession /\ pc'[c] \in Without
      /\ \A d \in Callers \ {c} : with'[d] = with[d]
      /\ \A d \in Callers \ {c} : with[d] = NoSession \/ with[d] # with[c]
  BY <1>0, <1>1 DEF InOnePlace, Without, Returns, Stays
<1>4. \A d \in Callers \ {c} : pc'[d] \in Without <=> pc[d] \in Without
  BY <1>0 DEF Without, Returns, Stays
<1>5. Typed'
  BY <1>1, <1>2 DEF IInv, Typed, sftpVars
<1>6. CallsInPlace'
  <2>1. ASSUME NEW d \in Callers, d \in out
        PROVE  pc'[d] = "idle" /\ op'[d] = "none" /\ op'[d] \notin Exclusive
    BY <2>1, <1>0 DEF Exclusive, Returns
  <2>2. ASSUME NEW d \in Callers, d \notin out, d # c
        PROVE  /\ UNCHANGED <<pc[d], op[d]>>
               /\ op[d] \notin Exclusive
    BY <2>2, <1>0, <1>1 DEF CallsInPlace, Exclusive, Stays
  <2>3. c \notin out => /\ pc'[c] \in {"acquire", "closing"} /\ op'[c] = op[c] /\ op[c] # "none"
                        /\ pc'[c] = "acquire" => op[c] \in FTPOps
                        /\ pc'[c] = "closing" => op[c] \in Exclusive
                        /\ op[c] \in Exclusive => /\ pc'[c] = "closing"
                                                  /\ \A d \in Callers \ {c} : op'[d] = "none"
    BY <2>1, <2>2, <1>0, <1>1 DEF CallsInPlace, FTPOps, Exclusive, Stays
  <2>q. QED BY <2>1, <2>2, <2>3, <1>1 DEF CallsInPlace, Exclusive
<1>7. InOnePlace'
  BY <1>1, <1>2, <1>3, <1>4 DEF InOnePlace
<1>8. AsNew'
  <2> SUFFICES ASSUME NEW t \in Sessions, t \notin idle',
                      ~ \E d \in Callers : with'[d] = t /\ pc'[d] # "dial"
               PROVE  slip'[t] = "none" /\ cwd'[t] = "home"
    BY DEF AsNew
  <2>1. CASE t # with[c]
    <3>1. t \notin idle
      BY <2>1
    <3>2. ~ \E d \in Callers : with[d] = t /\ pc[d] # "dial"
      <4>1. \A d \in Callers \ {c} : pc[d] # "dial" => pc'[d] # "dial"
        BY DEF Returns, Stays
      <4>q. QED BY <4>1, <2>1, <1>3
    <3>q. QED BY <2>1, <3>1, <3>2, <1>1 DEF AsNew
  <2>q. QED BY <2>1
<1>9. ASSUME NEW d \in Callers, with'[d] # NoSession
      PROVE  /\ with[d] \in Sessions \ {with[c]} /\ with'[d] = with[d] /\ with[d] # NoSession
             /\ pc'[d] = pc[d]
  <2>1. d # c /\ with'[d] = with[d] /\ pc[d] \notin Without
    BY <1>0, <1>1, <1>3, <1>9 DEF InOnePlace, Without, Returns, Stays
  <2>q. QED BY <2>1, <1>0, <1>1, <1>3, <1>9 DEF Without, Returns, Stays
<1>10. DoomedOutOfStep' /\ HomeInTheEnd'
  BY <1>1, <1>9 DEF DoomedOutOfStep, HomeInTheEnd, Doomed
<1>11. MkdirKnows' /\ MadeOrExcused'
  <2>1. ASSUME NEW d \in Callers, op'[d] = "mkdirall"
        PROVE  d \notin out /\ op[d] = "mkdirall" /\ excused'[d] = excused[d]
               /\ Level(d)' = Level(d) /\ pc'[d] \in {pc[d], "acquire"}
    <3>1. d \notin out /\ op[d] = "mkdirall"
      BY <2>1, <1>0 DEF Returns, Stays
    <3>q. QED BY <3>1, <1>0 DEF Level, Stays, Exclusive
  <2>2. "acquire" \in MkdirSteps
    BY DEF MkdirSteps
  <2>q. QED BY <2>1, <2>2, <1>1 DEF MkdirKnows, MadeOrExcused
<1>12. IdleIsClean' /\ OutOfStepOnlyWhenOverlooked'
  <2>1. ASSUME NEW s \in idle', s # with[c]
        PROVE  s \in idle /\ s \in Sessions \ {with[c]}
    BY <2>1, <1>2
  <2>q. QED BY <2>1, <1>1 DEF IdleIsClean, OutOfStepOnlyWhenOverlooked, Excusable
<1>q. QED
  BY <1>5, <1>6, <1>7, <1>8, <1>10, <1>11, <1>12, FTPFrame DEF FTPInv

\* The session that a call dials is nobody's.
LEMMA DialTakes ==
    ASSUME IInv, kind = "ftp", kind' = kind, NEW c \in Callers, with[c] = NoSession,
           UNCHANGED <<sftpVars, op, left, excused, made, found, idle>>, Dial(c), idle = {},
           op[c] \in FTPOps \cup {"connect"}
    PROVE  IInv'
<1>1. /\ with \in [Callers -> Sessions \cup {NoSession}]
      /\ deadline \in [Sessions -> {"none", "armed", "expired"}]
  BY FTPTypes
<1>2. PICK s \in Sessions : /\ s \notin idle \cup InUse
                            /\ pc' = [pc EXCEPT ![c] = "dial"]
                            /\ with' = [with EXCEPT ![c] = s]
                            /\ deadline' = [deadline EXCEPT ![s] = "armed"]
                            /\ UNCHANGED <<slip, cwd>>
  <2> DEFINE s == CHOOSE x \in Sessions : x \notin idle \cup InUse
  <2>1. s \in Sessions /\ s \notin idle \cup InUse
    BY <1>1, FreeSession
  <2>2. /\ pc' = [pc EXCEPT ![c] = "dial"] /\ with' = [with EXCEPT ![c] = s]
        /\ deadline' = [deadline EXCEPT ![s] = "armed"] /\ UNCHANGED <<slip, cwd>>
    BY DEF Dial, Goto, SetDeadline
  <2> HIDE DEF s
  <2>q. QED BY <2>1, <2>2
<1>3. \A d \in Callers : with[d] # s
  BY <1>2, SessionsAssumption DEF InUse
<1>4. /\ deadline' \in [Sessions -> {"none", "armed", "expired"}]
      /\ \A t \in Sessions \ {s} : deadline'[t] = deadline[t]
      /\ idle' = idle \ {s} /\ s \notin idle
      /\ "dial" \in Commands \cup {"dial", "quit"} /\ "dial" \notin Commands
  BY <1>1, <1>2 DEF Commands
<1>q. QED BY <1>2, <1>3, <1>4, FTPTakes

\* A call that returns without ever having had a session.
LEMMA LeavesEmptyHanded ==
    ASSUME IInv, kind = "ftp", kind' = kind, NEW c \in Callers, pc[c] \in {"acquire", "closing"},
           UNCHANGED <<sftpVars, left, made, found, idle, with, deadline, slip, cwd>>, Return(c)
    PROVE  IInv'
<1>1. /\ excused \in [Callers -> BOOLEAN] /\ pc \in [Callers -> FTPSteps]
      /\ op \in [Callers -> {"none"} \cup Exclusive \cup FTPOps \cup SFTPOps]
      /\ idle \subseteq Sessions /\ with \in [Callers -> Sessions \cup {NoSession}]
      /\ deadline \in [Sessions -> {"none", "armed", "expired"}]
      /\ slip \in [Sessions -> Commands \cup {"none", "mdtm", "local"}]
      /\ cwd \in [Sessions -> {"home", "away"}]
      /\ InOnePlace
  BY FTPTypes
<1>2. with[c] = NoSession /\ NoSession \notin idle /\ NoSession \notin Sessions /\ pc[c] # "idle"
  BY <1>1, SessionsAssumption DEF InOnePlace, Without
<1>3. /\ pc' = [pc EXCEPT ![c] = "idle"] /\ op' = [op EXCEPT ![c] = "none"]
      /\ excused' = [excused EXCEPT ![c] = FALSE]
  BY DEF Return, Goto
<1>4. /\ pc' \in [Callers -> FTPSteps] /\ excused' \in [Callers -> BOOLEAN]
      /\ op' \in [Callers -> {"none"} \cup Exclusive \cup FTPOps \cup SFTPOps]
      /\ with' = [with EXCEPT ![c] = NoSession]
  BY <1>1, <1>2, <1>3 DEF FTPSteps, Without
<1>5. \A d \in Callers : Returns(c, d) \/ Stays(c, d)
  BY <1>1, <1>3 DEF Returns, Stays
<1>q. QED BY <1>1, <1>2, <1>4, <1>5, FTPLeaves

\* withConn up to the first command.
LEMMA AcquireStep ==
    ASSUME IInv, kind = "ftp", UNCHANGED sftpVars, NEW c \in Callers, Acquire(c)
    PROVE  IInv'
<1>1. /\ pc[c] = "acquire" /\ UNCHANGED <<kind, left, made, found>>
  BY DEF Acquire
<1>2. /\ deadline \in [Sessions -> {"none", "armed", "expired"}]
      /\ idle \subseteq Sessions /\ CallsInPlace /\ InOnePlace
  BY FTPTypes
<1>3. op[c] \in FTPOps /\ with[c] = NoSession
  BY <1>1, <1>2 DEF CallsInPlace, InOnePlace, Without
<1>4. ASSUME NEW s \in idle, idle' = idle \ {s}, with' = [with EXCEPT ![c] = s],
             SetDeadline(s, "armed"), Goto(c, First(op[c])),
             UNCHANGED <<op, excused, line, slip, cwd>>
      PROVE  IInv'
  <2>1. First(op[c]) \in Commands /\ First(op[c]) \notin {"dial", "quit"}
    <3>1. First(op[c]) \in Commands
      BY <1>3 DEF First, FTPOps, Commands
    <3>q. QED BY <3>1 DEF Commands
  <2>2. s \in Sessions /\ \A d \in Callers : with[d] # s
    BY <1>2 DEF InOnePlace
  <2>3. /\ deadline' \in [Sessions -> {"none", "armed", "expired"}]
        /\ \A t \in Sessions \ {s} : deadline'[t] = deadline[t]
        /\ pc' = [pc EXCEPT ![c] = First(op[c])]
    BY <1>2, <1>4 DEF SetDeadline, Goto
  <2>q. QED BY <1>1, <1>3, <1>4, <2>1, <2>2, <2>3, FTPTakes
<1>5. CASE idle = {} /\ Dial(c) /\ UNCHANGED <<op, excused, idle>>
  BY <1>1, <1>3, <1>5, DialTakes
<1>6. CASE Return(c) /\ UNCHANGED <<idle, with, sessionVars>>
  BY <1>1, <1>6, LeavesEmptyHanded DEF sessionVars
<1>q. QED BY <1>4, <1>5, <1>6 DEF Acquire

\* closeAll, and the dialling of a new connection after it.
LEMMA ClosingStep ==
    ASSUME IInv, kind = "ftp", UNCHANGED sftpVars, NEW c \in Callers, Closing(c)
    PROVE  IInv'
<1>1. /\ pc[c] = "closing" /\ UNCHANGED <<kind, left, made, found>>
  BY DEF Closing
<1>2. /\ deadline \in [Sessions -> {"none", "armed", "expired"}]
      /\ idle \subseteq Sessions /\ CallsInPlace /\ InOnePlace
  BY FTPTypes
<1>3. op[c] \in Exclusive /\ with[c] = NoSession
  BY <1>1, <1>2 DEF CallsInPlace, InOnePlace, Without
<1>4. ASSUME NEW s \in idle, idle' = idle \ {s}, with' = [with EXCEPT ![c] = s],
             CloseSession(c, s), UNCHANGED <<op, excused, line, slip, cwd>>
      PROVE  IInv'
  <2>1. s \in Sessions /\ \A d \in Callers : with[d] # s
    BY <1>2 DEF InOnePlace
  <2>2. /\ deadline' \in [Sessions -> {"none", "armed", "expired"}]
        /\ \A t \in Sessions \ {s} : deadline'[t] = deadline[t]
        /\ pc' = [pc EXCEPT ![c] = "quit"]
        /\ "quit" \in Commands \cup {"dial", "quit"} /\ "quit" \notin Commands
    BY <1>2, <1>4 DEF CloseSession, SetDeadline, Goto, Commands
  <2>q. QED BY <1>1, <1>3, <1>4, <2>1, <2>2, FTPTakes
<1>5. CASE idle = {} /\ op[c] = "connect" /\ Dial(c) /\ UNCHANGED <<op, excused, idle>>
  BY <1>1, <1>3, <1>5, DialTakes
<1>6. CASE Return(c) /\ UNCHANGED <<idle, with, sessionVars>>
  BY <1>1, <1>6, LeavesEmptyHanded DEF sessionVars
<1>q. QED BY <1>4, <1>5, <1>6 DEF Closing

\* release: what ends well is fit for the pool.
LEMMA ReleaseStep ==
    ASSUME IInv, kind = "ftp", UNCHANGED sftpVars, NEW c \in Callers, Release(c)
    PROVE  IInv'
<1> DEFINE s == with[c]
<1>1. /\ left \in [Callers -> 1..Depth] /\ made \in 0..Depth
      /\ excused \in [Callers -> BOOLEAN] /\ found \in [Callers -> BOOLEAN]
      /\ op \in [Callers -> {"none"} \cup Exclusive \cup FTPOps \cup SFTPOps]
      /\ pc \in [Callers -> FTPSteps]
      /\ idle \subseteq Sessions /\ with \in [Callers -> Sessions \cup {NoSession}]
      /\ deadline \in [Sessions -> {"none", "armed", "expired"}]
      /\ slip \in [Sessions -> Commands \cup {"none", "mdtm", "local"}]
      /\ cwd \in [Sessions -> {"home", "away"}]
      /\ CallsInPlace /\ InOnePlace /\ AsNew /\ DoomedOutOfStep /\ HomeInTheEnd
      /\ MkdirKnows /\ MadeOrExcused /\ IdleIsClean /\ OutOfStepOnlyWhenOverlooked
  BY FTPTypes
<1>2. /\ pc[c] \in Results /\ UNCHANGED <<kind, left, made, slip, cwd, found>>
  BY DEF Release
<1>3. /\ s \in Sessions /\ s # NoSession /\ s \notin idle /\ pc[c] \notin Without /\ pc[c] # "idle"
      /\ NoSession \notin Sessions
  BY <1>1, <1>2, SessionsAssumption DEF InOnePlace, Results, Without
<1>4. CASE SessionBroken(pc[c])
  <2>1. /\ pc' = [pc EXCEPT ![c] = "quit"] /\ deadline' = [deadline EXCEPT ![s] = "armed"]
        /\ UNCHANGED <<op, excused, idle, with>>
    BY <1>4 DEF Release, CloseSession, Goto, SetDeadline
  <2>2. pc'[c] = "quit" /\ \A d \in Callers \ {c} : pc'[d] = pc[d] /\ with[d] # s
    BY <2>1, <1>1, <1>3 DEF InOnePlace
  <2>3. \A t \in Sessions \ {s} : deadline'[t] = deadline[t]
    BY <2>1, <1>1
  <2>4. Typed'
    BY <2>1, <1>1, <1>2 DEF IInv, Typed, sftpVars, FTPSteps
  <2>5. op[c] \notin Exclusive
    BY <1>1, <1>2 DEF CallsInPlace, Results
  <2>6. CallsInPlace' /\ InOnePlace' /\ AsNew'
    BY <2>1, <2>2, <2>5, <1>1, <1>2, <1>3 DEF CallsInPlace, InOnePlace, AsNew, Without
  <2>7. DoomedOutOfStep' /\ HomeInTheEnd'
    BY <2>1, <2>2, <2>3, <1>1, <1>2 DEF DoomedOutOfStep, HomeInTheEnd, Doomed
  <2>8. MkdirKnows' /\ MadeOrExcused'
    BY <2>1, <2>2, <1>1, <1>2 DEF MkdirKnows, MadeOrExcused, MkdirSteps, Level
  <2>9. IdleIsClean' /\ OutOfStepOnlyWhenOverlooked'
    BY <2>1, <2>3, <1>1, <1>2, <1>3 DEF IdleIsClean, OutOfStepOnlyWhenOverlooked
  <2>q. QED BY <1>2, <2>4, <2>6, <2>7, <2>8, <2>9, FTPFrame DEF FTPInv
<1>5. CASE ~SessionBroken(pc[c])
  <2>1. /\ pc' = [pc EXCEPT ![c] = "idle"] /\ op' = [op EXCEPT ![c] = "none"]
        /\ excused' = [excused EXCEPT ![c] = FALSE]
        /\ deadline' = [deadline EXCEPT ![s] = "none"]
        /\ idle' = idle \cup {s} /\ with' = [with EXCEPT ![c] = NoSession]
    BY <1>5 DEF Release, Return, Goto, End
  <2>2. /\ pc' \in [Callers -> FTPSteps] /\ excused' \in [Callers -> BOOLEAN]
        /\ op' \in [Callers -> {"none"} \cup Exclusive \cup FTPOps \cup SFTPOps]
        /\ deadline' \in [Sessions -> {"none", "armed", "expired"}]
        /\ \A t \in Sessions \ {s} : deadline'[t] = deadline[t]
        /\ deadline'[s] = "none"
    BY <2>1, <1>1, <1>3 DEF FTPSteps, Without
  <2>3. pc[c] \in {"ok", "refused"}
    BY <1>2, <1>5 DEF SessionBroken, Results
  <2>4. slip[s] \in Excusable /\ (slip[s] = "none" => cwd[s] = "home")
    BY <2>3, <1>1, <1>3 DEF DoomedOutOfStep, HomeInTheEnd, Doomed
  <2>5. \A d \in Callers : Returns(c, d) \/ Stays(c, d)
    BY <2>1, <1>1 DEF Returns, Stays
  <2>6. idle' \ {s} = idle \ {s} /\ NoSession \notin idle' /\ s \in idle'
    BY <2>1, <1>1, <1>3
  <2>q. QED BY <1>1, <1>2, <1>3, <2>1, <2>2, <2>4, <2>5, <2>6, FTPLeaves
<1>q. QED BY <1>4, <1>5

\* A dial that succeeds: Connect puts the session into its pool, which is
\* empty; a call begins with its first command.
LEMMA DialledStep ==
    ASSUME IInv, kind = "ftp", UNCHANGED sftpVars, NEW c \in Callers, Dialled(c)
    PROVE  IInv'
<1> DEFINE s == with[c]
<1>1. /\ left \in [Callers -> 1..Depth] /\ made \in 0..Depth
      /\ excused \in [Callers -> BOOLEAN] /\ found \in [Callers -> BOOLEAN]
      /\ op \in [Callers -> {"none"} \cup Exclusive \cup FTPOps \cup SFTPOps]
      /\ pc \in [Callers -> FTPSteps]
      /\ idle \subseteq Sessions /\ with \in [Callers -> Sessions \cup {NoSession}]
      /\ deadline \in [Sessions -> {"none", "armed", "expired"}]
      /\ slip \in [Sessions -> Commands \cup {"none", "mdtm", "local"}]
      /\ cwd \in [Sessions -> {"home", "away"}]
      /\ CallsInPlace /\ InOnePlace /\ AsNew /\ DoomedOutOfStep /\ HomeInTheEnd
      /\ MkdirKnows /\ MadeOrExcused /\ IdleIsClean /\ OutOfStepOnlyWhenOverlooked
  BY FTPTypes
<1>2. /\ pc[c] = "dial" /\ UNCHANGED <<kind, left, made, slip, cwd, found>>
  BY DEF Dialled
<1>3. /\ s \in Sessions /\ s # NoSession /\ s \notin idle
      /\ NoSession \notin Sessions
  BY <1>1, <1>2, SessionsAssumption DEF InOnePlace, Without
<1>4. \A d \in Callers \ {c} : with[d] # s
  BY <1>1, <1>3 DEF InOnePlace
<1>5. slip[s] = "none" /\ cwd[s] = "home"
  BY <1>1, <1>2, <1>3, <1>4 DEF AsNew
<1>6. CASE op[c] = "connect"
  <2>1. /\ pc' = [pc EXCEPT ![c] = "idle"] /\ op' = [op EXCEPT ![c] = "none"]
        /\ excused' = [excused EXCEPT ![c] = FALSE]
        /\ deadline' = [deadline EXCEPT ![s] = "none"]
        /\ idle' = {s} /\ with' = [with EXCEPT ![c] = NoSession]
    BY <1>6 DEF Dialled, Return, Goto, SetDeadline
  <2>2. /\ pc' \in [Callers -> FTPSteps] /\ excused' \in [Callers -> BOOLEAN]
        /\ op' \in [Callers -> {"none"} \cup Exclusive \cup FTPOps \cup SFTPOps]
        /\ deadline' \in [Sessions -> {"none", "armed", "expired"}]
        /\ \A t \in Sessions \ {s} : deadline'[t] = deadline[t]
        /\ deadline'[s] = "none"
    BY <2>1, <1>1, <1>3 DEF FTPSteps, Without
  <2>3. \A d \in Callers : Returns(c, d) \/ Stays(c, d)
    BY <2>1, <1>1 DEF Returns, Stays
  <2>4. idle' \ {s} = idle \ {s} /\ NoSession \notin idle' /\ s \in idle'
    BY <2>1, <1>1, <1>2, <1>3, <1>6 DEF CallsInPlace
  <2>5. "none" \in Excusable
    BY DEF Excusable
  <2>6. /\ pc[c] # "idle" /\ kind' = kind /\ UNCHANGED <<left, made, found>>
        /\ slip' = slip /\ cwd' = cwd
    BY <1>2
  <2>7. /\ slip' \in [Sessions -> Commands \cup {"none", "mdtm", "local"}]
        /\ cwd' \in [Sessions -> {"home", "away"}]
    BY <1>1, <2>6
  <2>8. \A t \in Sessions \ {s} : UNCHANGED <<deadline[t], slip[t], cwd[t]>>
    BY <2>2, <2>6
  <2>9. /\ s \in idle' => /\ deadline'[s] = "none"
                          /\ slip'[s] = "none" => cwd'[s] = "home"
                          /\ slip'[s] \in Excusable
        /\ s \in Sessions \ idle' => slip'[s] = "none" /\ cwd'[s] = "home"
    BY <1>5, <2>2, <2>5, <2>6
  <2>10. with' = [with EXCEPT ![c] = NoSession]
    BY <2>1
  <2> HIDE DEF s
  <2>11. s = with[c]
    BY DEF s
  <2>q. QED BY <2>2, <2>3, <2>4, <2>6, <2>7, <2>8, <2>9, <2>10, <2>11, FTPLeaves
<1>7. CASE op[c] # "connect"
  <2> DEFINE step == First(op[c])
  <2>1. /\ pc' = [pc EXCEPT ![c] = step] /\ deadline' = [deadline EXCEPT ![s] = "armed"]
        /\ UNCHANGED <<op, excused, idle, with>>
    BY <1>7 DEF Dialled, Goto, SetDeadline
  <2>2. op[c] \in FTPOps /\ step \in Commands /\ (op[c] = "mkdirall" => step \in {"fast", "mkd"})
    <3>1. op[c] \in FTPOps
      BY <1>1, <1>2, <1>7 DEF CallsInPlace
    <3>q. QED BY <3>1 DEF First, FTPOps, Commands
  <2>3. step \notin Without \cup {"dial", "quit"} \cup Results
    BY <2>2 DEF Commands, Without, Results
  <2> HIDE DEF step
  <2>4. pc'[c] = step /\ \A d \in Callers \ {c} : pc'[d] = pc[d]
    BY <2>1, <1>1
  <2>5. Typed'
    BY <2>1, <2>2, <1>1, <1>2 DEF IInv, Typed, sftpVars, FTPSteps
  <2>6. CallsInPlace'
    <3>1. op[c] \notin Exclusive /\ op[c] # "none"
      BY <2>2 DEF FTPOps, Exclusive
    <3>q. QED BY <3>1, <2>1, <2>3, <2>4, <1>1 DEF CallsInPlace, Without
  <2>7. InOnePlace'
    BY <2>1, <2>3, <2>4, <1>1, <1>2 DEF InOnePlace, Without
  <2>8. AsNew'
    BY <2>1, <2>3, <2>4, <1>1, <1>2 DEF AsNew
  <2>9. DoomedOutOfStep' /\ HomeInTheEnd'
    <3>1. \A t \in Sessions \ {s} : deadline'[t] = deadline[t]
      BY <2>1, <1>1
    <3>2. \A d \in Callers \ {c} : with[d] # NoSession => with[d] \in Sessions \ {s}
      BY <1>1, <1>4
    <3>q. QED
      BY <3>1, <3>2, <2>1, <2>4, <1>1, <1>2, <1>5 DEF DoomedOutOfStep, HomeInTheEnd, Doomed, Excusable
  <2>10. MkdirKnows' /\ MadeOrExcused'
    BY <2>1, <2>2, <2>3, <2>4, <1>1, <1>2 DEF MkdirKnows, MadeOrExcused, MkdirSteps, Level, Results
  <2>11. IdleIsClean' /\ OutOfStepOnlyWhenOverlooked'
    BY <2>1, <1>1, <1>2, <1>3 DEF IdleIsClean, OutOfStepOnlyWhenOverlooked
  <2>q. QED
    BY <1>2, <2>5, <2>6, <2>7, <2>8, <2>9, <2>10, <2>11, FTPFrame DEF FTPInv
<1>q. QED BY <1>6, <1>7

\* What Gone does to the session of a call.
LEMMA GoneTypes ==
    ASSUME IInv, kind = "ftp", NEW c \in Callers, with[c] \in Sessions, Gone(c)
    PROVE  /\ with' = [with EXCEPT ![c] = NoSession]
           /\ deadline' \in [Sessions -> {"none", "armed", "expired"}]
           /\ slip' \in [Sessions -> Commands \cup {"none", "mdtm", "local"}]
           /\ cwd' \in [Sessions -> {"home", "away"}]
           /\ \A t \in Sessions \ {with[c]} : UNCHANGED <<deadline[t], slip[t], cwd[t]>>
           /\ slip'[with[c]] = "none" /\ cwd'[with[c]] = "home"
<1>1. /\ deadline \in [Sessions -> {"none", "armed", "expired"}]
      /\ slip \in [Sessions -> Commands \cup {"none", "mdtm", "local"}]
      /\ cwd \in [Sessions -> {"home", "away"}]
  BY FTPTypes
<1>q. QED BY <1>1 DEF Gone, SetDeadline

\* A dial that fails, and QUIT: the session is no more.
LEMMA GoneStep ==
    ASSUME IInv, kind = "ftp", UNCHANGED sftpVars, NEW c \in Callers, DialFails(c) \/ Quit(c)
    PROVE  IInv'
<1> DEFINE s == with[c]
<1>1. /\ excused \in [Callers -> BOOLEAN] /\ pc \in [Callers -> FTPSteps]
      /\ op \in [Callers -> {"none"} \cup Exclusive \cup FTPOps \cup SFTPOps]
      /\ idle \subseteq Sessions /\ with \in [Callers -> Sessions \cup {NoSession}]
      /\ CallsInPlace /\ InOnePlace
  BY FTPTypes
<1>2. pc[c] \in {"dial", "quit"} /\ Gone(c) /\ UNCHANGED <<kind, left, made, idle, found>>
  BY DEF DialFails, Quit
<1>3. /\ s \in Sessions /\ s \notin idle /\ pc[c] # "idle" /\ NoSession \notin idle
  BY <1>1, <1>2, SessionsAssumption DEF InOnePlace, Without
<1>4. /\ with' = [with EXCEPT ![c] = NoSession]
      /\ deadline' \in [Sessions -> {"none", "armed", "expired"}]
      /\ slip' \in [Sessions -> Commands \cup {"none", "mdtm", "local"}]
      /\ cwd' \in [Sessions -> {"home", "away"}]
      /\ \A t \in Sessions \ {s} : UNCHANGED <<deadline[t], slip[t], cwd[t]>>
      /\ slip'[s] = "none" /\ cwd'[s] = "home"
  BY <1>2, <1>3, GoneTypes
<1>5. /\ pc' \in [Callers -> FTPSteps] /\ excused' \in [Callers -> BOOLEAN]
      /\ op' \in [Callers -> {"none"} \cup Exclusive \cup FTPOps \cup SFTPOps]
      /\ \A d \in Callers : Returns(c, d) \/ Stays(c, d)
  <2>1. \A x \in {"idle", "acquire", "closing"} : x \in FTPSteps
    BY DEF FTPSteps, Without
  <2>2. CASE Quit(c) /\ op[c] \in Exclusive
    <3>1. pc' = [pc EXCEPT ![c] = "closing"] /\ UNCHANGED <<op, excused>>
      BY <2>2 DEF Quit, Goto
    <3>q. QED BY <3>1, <2>1, <2>2, <1>1 DEF Returns, Stays
  <2>3. CASE Quit(c) /\ op[c] \notin Exclusive
    <3>1. /\ pc' = [pc EXCEPT ![c] = "idle"] /\ op' = [op EXCEPT ![c] = "none"]
          /\ excused' = [excused EXCEPT ![c] = FALSE]
      BY <2>3 DEF Quit, Return, Goto
    <3>q. QED BY <3>1, <2>1, <1>1 DEF Returns, Stays
  <2>4. CASE DialFails(c) /\ Established # {} /\ op[c] # "connect"
    <3>1. pc' = [pc EXCEPT ![c] = "acquire"] /\ UNCHANGED <<op, excused>>
      BY <2>4 DEF DialFails, Goto
    <3>2. op[c] \in FTPOps
      BY <2>4, <1>1 DEF DialFails, CallsInPlace
    <3>q. QED BY <3>1, <3>2, <2>1, <1>1 DEF Returns, Stays
  <2>5. CASE DialFails(c) /\ ~(Established # {} /\ op[c] # "connect")
    <3>1. PICK out \in SUBSET Callers :
              /\ \A d \in out \ {c} : pc[d] = "acquire"
              /\ c \in out
              /\ pc' = [d \in Callers |-> IF d \in out THEN "idle" ELSE pc[d]]
              /\ op' = [d \in Callers |-> IF d \in out THEN "none" ELSE op[d]]
              /\ excused' = [d \in Callers |-> d \notin out /\ excused[d]]
      <4> DEFINE waiting == {d \in Callers : pc[d] = "acquire" /\ Open = {with[c]}}
      <4>1. PICK told \in SUBSET waiting :
              LET out == told \cup {c} IN
              /\ pc' = [d \in Callers |-> IF d \in out THEN "idle" ELSE pc[d]]
              /\ op' = [d \in Callers |-> IF d \in out THEN "none" ELSE op[d]]
              /\ excused' = [d \in Callers |-> d \notin out /\ excused[d]]
        BY <2>5 DEF DialFails
      <4>2. told \cup {c} \in SUBSET Callers /\ \A d \in (told \cup {c}) \ {c} : pc[d] = "acquire"
        OBVIOUS
      <4>q. QED BY <4>1, <4>2
    <3>2. pc' \in [Callers -> FTPSteps]
      BY <3>1, <2>1, <1>1
    <3>3. op' \in [Callers -> {"none"} \cup Exclusive \cup FTPOps \cup SFTPOps]
      BY <3>1, <1>1
    <3>4. excused' \in [Callers -> BOOLEAN]
      BY <3>1
    <3>5. ASSUME NEW d \in Callers PROVE Returns(c, d) \/ Stays(c, d)
      <4>1. CASE d \in out
        BY <4>1, <3>1 DEF Returns
      <4>2. CASE d \notin out
        <5>1. pc'[d] = pc[d] /\ op'[d] = op[d] /\ d # c
          BY <4>2, <3>1
        <5>2. excused'[d] = excused[d]
          BY <4>2, <3>1, <1>1
        <5>q. QED BY <5>1, <5>2 DEF Stays
      <4>q. QED BY <4>1, <4>2
    <3>q. QED BY <3>2, <3>3, <3>4, <3>5
  <2>q. QED BY <2>2, <2>3, <2>4, <2>5
<1>q. QED BY <1>1, <1>2, <1>3, <1>4, <1>5, FTPLeaves

\* Any step of the FTP client.
LEMMA FTPStep ==
    ASSUME IInv, kind = "ftp", NextFTP, UNCHANGED sftpVars
    PROVE  IInv'
<1>1. ASSUME NEW c \in Callers, StepFTP(c) PROVE IInv'
  BY <1>1, AcquireStep, DialledStep, GoneStep, ClosingStep, ReplyStep, LoseStep, DetectStep,
     ReleaseStep
  DEF StepFTP
<1>q. QED BY <1>1, FTPCalled, FTPNature DEF NextFTP

-----------------------------------------------------------------------------
(* The theorems.                                                           *)

\* A client just made has no sessions, no calls and no deadline.
LEMMA InitIInv == Init => IInv
<1> SUFFICES ASSUME Init PROVE IInv
  OBVIOUS
<1>1. /\ kind \in {"ftp", "sftp"} /\ idle = {} /\ made = 0 /\ timer = None
      /\ left = [c \in Callers |-> Depth] /\ excused = [c \in Callers |-> FALSE]
      /\ op = [c \in Callers |-> "none"] /\ pc = [c \in Callers |-> "idle"]
      /\ with = [c \in Callers |-> NoSession] /\ found = [c \in Callers |-> FALSE]
      /\ deadline = [s \in Sessions |-> "none"] /\ slip = [s \in Sessions |-> "none"]
      /\ cwd = [s \in Sessions |-> "home"] /\ budget = [c \in Callers |-> None]
  BY DEF Init, NewClient, Init_FTP, Init_SFTP
<1>2. Typed
  <2>1. left \in [Callers -> 1..Depth] /\ made \in 0..Depth
    BY <1>1, DepthAssumption
  <2>2. excused \in [Callers -> BOOLEAN] /\ found \in [Callers -> BOOLEAN]
    BY <1>1, Zenon
  <2>3. /\ op \in [Callers -> {"none"} \cup Exclusive \cup FTPOps \cup SFTPOps]
        /\ pc \in [Callers -> IF kind = "ftp" THEN FTPSteps ELSE SFTPSteps]
    BY <1>1 DEF FTPSteps, Without, SFTPSteps
  <2>4. idle \subseteq Sessions /\ with \in [Callers -> Sessions \cup {NoSession}]
    BY <1>1
  <2>5. /\ deadline \in [Sessions -> {"none", "armed", "expired"}]
        /\ slip \in [Sessions -> Commands \cup {"none", "mdtm", "local"}]
        /\ cwd \in [Sessions -> {"home", "away"}]
    BY <1>1
  <2>6. budget \in [Callers -> None..Long] /\ timer \in None..Long
    BY <1>1, TimeoutsAssumption DEF None
  <2>q. QED BY <1>1, <2>1, <2>2, <2>3, <2>4, <2>5, <2>6 DEF Typed
<1>3. CallsInPlace /\ InOnePlace /\ AsNew /\ DoomedOutOfStep /\ HomeInTheEnd
  BY <1>1 DEF CallsInPlace, InOnePlace, AsNew, DoomedOutOfStep, HomeInTheEnd, Without, Exclusive
<1>4. MkdirKnows /\ MkdirKnowsSFTP /\ MadeOrExcused
  BY <1>1 DEF MkdirKnows, MkdirKnowsSFTP, MadeOrExcused, MkdirRequests
<1>5. IdleIsClean /\ OutOfStepOnlyWhenOverlooked
  BY <1>1 DEF IdleIsClean, OutOfStepOnlyWhenOverlooked
<1>6. DeadlineIsLatest
  BY <1>1, CallersAssumption DEF DeadlineIsLatest, None
<1>q. QED BY <1>1, <1>2, <1>3, <1>4, <1>5, <1>6 DEF IInv, FTPInv, SFTPInv

\* What is agreed of calls, sessions and deadlines is kept by every step of
\* the client that was made.
THEOREM Invariance == Spec => []IInv
<1>1. ASSUME IInv, [Next]_vars PROVE IInv'
  <2>1. CASE UNCHANGED vars
    <3>1. UNCHANGED <<kind, callVars, made, ftpVars, budget, timer>>
      BY <2>1 DEF vars, clientVars, sftpVars
    <3>2. IInv' <=> IInv
      BY <3>1
      DEF IInv, Typed, FTPInv, SFTPInv, CallsInPlace, InOnePlace, AsNew, DoomedOutOfStep, Doomed,
          HomeInTheEnd, MkdirKnows, MkdirKnowsSFTP, MadeOrExcused, IdleIsClean,
          OutOfStepOnlyWhenOverlooked, DeadlineIsLatest, Level, callVars, ftpVars, sessionVars
    <3>q. QED BY <1>1, <3>2
  <2>2. CASE Next
    BY <1>1, <2>2, FTPStep, SFTPStep DEF Next
  <2>q. QED BY <1>1, <2>1, <2>2
<1>q. QED BY InitIInv, <1>1, PTL DEF Spec

\* A session in the pool has no deadline left over, and is in its directory if
\* it is in step (end, errBrokenSession).
THEOREM FitForTheNext == Spec => []IdleIsClean
<1>1. IInv => IdleIsClean
  BY DEF IInv
<1>q. QED BY Invariance, <1>1, PTL

\* A session that missed a reply is in the pool only after one of the five
\* commands whose error the code drops.
THEOREM OutOfStepExplained == Spec => []OutOfStepOnlyWhenOverlooked
<1>1. IInv => OutOfStepOnlyWhenOverlooked
  BY DEF IInv
<1>q. QED BY Invariance, <1>1, PTL

\* MkdirAll, of either client, makes a path of any depth beside any number of
\* others that make it, or says why not.
THEOREM PathIsMade == Spec => []MadeOrExcused
<1>1. IInv => MadeOrExcused
  BY DEF IInv
<1>q. QED BY Invariance, <1>1, PTL

\* The deadline of an SFTP connection is the latest of its calls' (apply).
THEOREM LatestDeadline == Spec => []DeadlineIsLatest
<1>1. IInv => DeadlineIsLatest
  BY DEF IInv
<1>q. QED BY Invariance, <1>1, PTL

-----------------------------------------------------------------------------
(* The offset of a server's listing (ListOffset).                          *)

\* Cutting to the minute takes less than one away.
LEMMA CutToMinute ==
    ASSUME NEW t \in Int
    PROVE  t - Minute < Minute * (t \div Minute) /\ Minute * (t \div Minute) <= t
  BY SMT DEF Minute

\* What is less than half a quarter short of k quarters is rounded to k.
LEMMA RoundUp ==
    ASSUME NEW k \in Int, NEW r \in 0..59
    PROVE  Round(Quarter * k - r) = Quarter * k
<1>1. CASE Quarter * k - r >= 0
  <2>1. (900 * k - r + 450) \div 900 = k
    BY SMT
  <2> QED BY <1>1, <2>1, SMT DEF Round, Quarter
<1>2. CASE Quarter * k - r < 0
  <2>1. (450 - (900 * k - r)) \div 900 = -k
    BY SMT
  <2> QED BY <1>2, <2>1, SMT DEF Round, Quarter
<1> QED BY <1>1, <1>2, SMT DEF Quarter

\* The offset is recovered from any file, at any time, for every timezone
\* there is (ftp.go:602-606): those of whole quarters of an hour up to 14
\* hours from UTC.
THEOREM OffsetRecovered ==
    ASSUME NEW time \in Int, NEW k \in -56..56
    PROVE  listOffsetFrom(Listed(time, Quarter * k), time) = <<Quarter * k, TRUE>>
<1> DEFINE r == time + Quarter * k - Listed(time, Quarter * k)
<1>1. r \in 0..59 /\ Listed(time, Quarter * k) - time = Quarter * k - r
  <2>1. time + Quarter * k \in Int
    BY SMT DEF Quarter
  <2> QED BY <2>1, CutToMinute, SMT DEF Listed, Minute, Quarter
<1>2. Round(Listed(time, Quarter * k) - time) = Quarter * k
  BY <1>1, RoundUp
<1>3. Plausible(Quarter * k)
  BY SMT DEF Plausible, Quarter, Hour
<1> QED BY <1>2, <1>3 DEF listOffsetFrom
=============================================================================

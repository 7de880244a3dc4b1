------------------------------- MODULE Replace -------------------------------
(***************************************************************************)
(* What the upload of a file promises to those who read it on the server:  *)
(* it is there whole or not at all, it is never changed but by another     *)
(* upload that replaces it in one step, and never by an older version.  It *)
(* is taken away first only for a server that does not replace it, or has  *)
(* just refused to.                                                        *)
(***************************************************************************)
EXTENDS Integers

CONSTANT Length    \* of the file, in blocks

VARIABLES
    local,    \* the version of the local file
    live,     \* the file on the server: the version each block is of, or Gone
    latest,   \* the version it was uploaded as, also when it is gone again
    flawed,   \* that upload was disturbed in one of the ways it cannot notice
    replaces  \* a rename replaces its target, as far as the server's answers show

replaceVars == <<local, live, latest, flawed, replaces>>

Gone     == <<>>
Whole(v) == [b \in 1..Length |-> v]

Init ==
    /\ local = 1 /\ live = Gone /\ latest = 0
    /\ flawed = FALSE /\ replaces \in BOOLEAN

Save ==
    /\ local' = local + 1
    /\ UNCHANGED <<live, latest, flawed, replaces>>

\* The file is put in place of the one before.
Put ==
    /\ latest' \in latest..local
    /\ flawed' \in BOOLEAN
    /\ live' \in [1..Length -> Nat]
    /\ ~flawed' => live' = Whole(latest')
    /\ replaces' \in BOOLEAN
    /\ UNCHANGED local

TakeAway ==
    /\ ~replaces /\ live' = Gone
    /\ UNCHANGED <<local, latest, flawed, replaces>>

\* The server refuses to replace it, or another attempt begins.
Answer ==
    /\ replaces' \in BOOLEAN
    /\ UNCHANGED <<local, live, latest, flawed>>

Next == Save \/ Put \/ TakeAway \/ Answer

Spec == Init /\ [][Next]_replaceVars
=============================================================================

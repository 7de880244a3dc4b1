------------------------------ MODULE SyncGate ------------------------------
(***************************************************************************)
(* What the upload queue promises about each file, whatever the number of  *)
(* workers: a change that was announced is followed by a sync that starts  *)
(* after the announcement, and a file is never in two syncs at once.       *)
(***************************************************************************)
CONSTANT Keys

VARIABLES dirty,   \* dirty[k]: a change of k awaits a sync that has yet to start
          busy,    \* busy[k]: k is being synced
          halted   \* the queue was told to stop: changes may be forgotten

gateVars == <<dirty, busy, halted>>

Init ==
    /\ dirty = [k \in Keys |-> FALSE]
    /\ busy = [k \in Keys |-> FALSE]
    /\ halted = FALSE

Announce(k) ==
    /\ dirty' = [dirty EXCEPT ![k] = TRUE]
    /\ UNCHANGED <<busy, halted>>

\* A sync answers every change announced so far; a file that was announced
\* more than once may be synced again all the same.
Begin(k) ==
    /\ dirty[k] /\ ~busy[k]
    /\ busy' = [busy EXCEPT ![k] = TRUE]
    /\ \E again \in BOOLEAN : dirty' = [dirty EXCEPT ![k] = again]
    /\ UNCHANGED halted

End(k) ==
    /\ busy[k]
    /\ busy' = [busy EXCEPT ![k] = FALSE]
    /\ UNCHANGED <<dirty, halted>>

Halt ==
    /\ halted' = TRUE
    /\ UNCHANGED <<dirty, busy>>

Next == \/ \E k \in Keys : Announce(k) \/ Begin(k) \/ End(k)
        \/ Halt

Spec == Init /\ [][Next]_gateVars

\* Unless the queue is stopped, an announced change is taken up by a sync that
\* comes to an end (when the announcements of that file cease).
Answered ==
    \A k \in Keys : (dirty[k] \/ busy[k]) ~> ((~dirty[k] /\ ~busy[k]) \/ halted)
=============================================================================

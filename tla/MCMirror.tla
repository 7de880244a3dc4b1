------------------------------ MODULE MCMirror ------------------------------
\* A directory a with two names in it, of which .syncignore covers one, and
\* files of two sizes and of times that the server's listing cuts.
EXTENDS Mirror, TLC

CONSTANTS a, ax, ai

AboveA == (a :> {Root}) @@ (ax :> {Root, a}) @@ (ai :> {Root, a})
SmallFiles == {[type |-> "file", size |-> 1, time |-> 0],
               [type |-> "file", size |-> 1, time |-> 7],
               [type |-> "file", size |-> 2, time |-> 0]}
=============================================================================

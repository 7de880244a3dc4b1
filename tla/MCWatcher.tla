------------------------------ MODULE MCWatcher ------------------------------
\* A context inside another: Root is the one of a, Inner the one of b; New
\* comes and goes in Inner with a file in it.
EXTENDS Watcher, TLC

CONSTANTS a, b, Root, Inner, New, File

TwoContexts == (a :> Root) @@ (b :> Inner)
OneContext  == (a :> Root)
Nested == (Root :> {}) @@ (Inner :> {Root}) @@ (New :> {Root, Inner})
          @@ (File :> {Root, Inner, New})
Flat   == (Root :> {}) @@ (New :> {Root}) @@ (File :> {Root, New})
=============================================================================

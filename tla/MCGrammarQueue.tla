--------------------------- MODULE MCGrammarQueue ---------------------------
(* Small instances of GrammarQueue: three requests over two grammars.     *)
EXTENDS GrammarQueue, TLC

CONSTANTS k1, k2, r1, r2, r3, g1, g2

\* r1 and r3 share a valid grammar, that of r2 is not valid.
SharedKey == r1 :> g1 @@ r2 :> g2 @@ r3 :> g1
Results == g1 :> "valid" @@ g2 :> "invalid"

\* Two ranks whose compilations end in time, and one rank where they may not and where one
\* request may be aborted.
Groups == {[ranks |-> {k1, k2}, timeouts |-> FALSE, aborts |-> {}],
           [ranks |-> {k1}, timeouts |-> TRUE, aborts |-> {r2}]}

OneRankAborts == {[ranks |-> {k1}, timeouts |-> FALSE, aborts |-> Reqs]}
=============================================================================

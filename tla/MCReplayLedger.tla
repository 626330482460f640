--------------------------- MODULE MCReplayLedger ---------------------------
(* Two ledgers, enough for a fork, and tasks whose turn may be cut away    *)
(* under them.  Ledgers are interchangeable, and so are tasks.             *)
EXTENDS ReplayLedger, TLC

Symmetry == Permutations(Writers) \cup Permutations(Handles)
=============================================================================

------------------------------ MODULE MCDaemon ------------------------------
(* Ledger objects, drain slots and session ids are interchangeable.        *)
EXTENDS DaemonProps, TLC

Symmetry == Permutations(Ledgers) \cup Permutations(Drains)
                \cup Permutations(Sessions)
=============================================================================

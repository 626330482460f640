----------------------------- MODULE Transcript -----------------------------
(***************************************************************************)
(* What a family of ledgers promises its users: each one is a history of   *)
(* turns that grows only at its end and only with a turn newer than every  *)
(* turn already held anywhere, and that is otherwise only cut back to a    *)
(* prefix of itself, copied from a prefix of another history, or put back  *)
(* to a prefix somebody kept.  Nothing reorders, duplicates or rewrites    *)
(* the turns of a history, and an operation on one history leaves the      *)
(* others alone.                                                           *)
(***************************************************************************)
EXTENDS Naturals, Sequences

CONSTANTS Handles,          \* the ledgers
          Turns             \* the numbers turns may have

VARIABLES history,          \* per ledger, the turns it holds, oldest first
          kept              \* the turns of the checkpoint a consumer holds

tvars == << history, kept >>

TInit == /\ history = [h \in Handles |-> << >>]
         /\ kept = << >>

(* Turn t is newer than every turn of the sequence.                        *)
NewerThan(t, seq) == \A i \in 1 .. Len(seq) : seq[i] < t

Extend(h) ==
    /\ \E t \in Turns :
          /\ \A g \in Handles : NewerThan(t, history[g])
          /\ NewerThan(t, kept)
          /\ history' = [history EXCEPT ![h] = Append(@, t)]
    /\ UNCHANGED kept

CutBack(h) ==
    /\ \E n \in 0 .. Len(history[h]) :
          history' = [history EXCEPT ![h] = SubSeq(@, 1, n)]
    /\ UNCHANGED kept

Branch(h, g) ==
    /\ h # g
    /\ \E n \in 0 .. Len(history[h]) :
          history' = [history EXCEPT ![g] = SubSeq(history[h], 1, n)]
    /\ UNCHANGED kept

Keep(h) ==
    /\ \E n \in 0 .. Len(history[h]) : kept' = SubSeq(history[h], 1, n)
    /\ UNCHANGED history

PutBack(h) ==
    /\ history' = [history EXCEPT ![h] = kept]
    /\ UNCHANGED kept

TNext == \E h \in Handles :
            \/ Extend(h) \/ CutBack(h) \/ Keep(h) \/ PutBack(h)
            \/ \E g \in Handles : Branch(h, g)

TSpec == TInit /\ [][TNext]_tvars
=============================================================================

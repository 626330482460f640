------------------------------- MODULE Ledger -------------------------------
(***************************************************************************)
(* The reversibility ledger of one session as a value, and what each       *)
(* method of ReplayLedger (crates/goble-replay/src/lib.rs) makes of it.    *)
(* Every method takes the ledger's mutex once, so one application of an    *)
(* operator is one atomic step of whoever calls it.                        *)
(*                                                                         *)
(* A method that returns an error leaves the ledger alone; its condition   *)
(* is the operator HasTurn or CanApply, which the caller uses as a guard.  *)
(* Indices are the source's: 0-based, so turn i is turns[i + 1] here.      *)
(* Timestamps are left out.  A turn's request and its events are numbers:  *)
(* the number of the turn, and the number of the turn that produced them.  *)
(***************************************************************************)
EXTENDS Naturals, Sequences

CONSTANT NoSelection       \* Option::None of the `selected` marker

ASSUME NoSelectionAssumption == NoSelection \notin Nat

TurnStatus == {"Running", "Success", "Failed", "Cancelled"}

TurnRecord == [index  : Nat,
               turn   : Nat,
               status : TurnStatus,
               events : Seq(Nat)]

LedgerState == [turns    : Seq(TurnRecord),
                selected : Nat \cup {NoSelection}]

(* A checkpoint's content; its `at` is its length.                         *)
Checkpoint == Seq(TurnRecord)

MinOf(a, b) == IF a <= b THEN a ELSE b

-----------------------------------------------------------------------------
NewLedger == [turns |-> << >>, selected |-> NoSelection]

FromCheckpoint(cp) == [turns |-> cp, selected |-> NoSelection]

(* Vec::truncate and the slice [..n] of a turn list.                       *)
Prefix(turns, n) == SubSeq(turns, 1, n)

RecordedIndexLate(l) == Len(l.turns) - 1
(* The index record_turn returns, and stores in the record it pushes.      *)
RecordedIndex(l) == Len(l.turns)

RecordTurnOver(l, t) ==
    LET last == Len(l.turns) IN
    IF last > 0 /\ l.turns[last].status = "Running"
    THEN [l EXCEPT !.turns[last].turn = t]
    ELSE [l EXCEPT !.turns = Append(@, [index  |-> last,
                                        turn   |-> t,
                                        status |-> "Running",
                                        events |-> << >>])]
RecordTurn(l, t) ==
    [l EXCEPT !.turns = Append(@, [index  |-> RecordedIndex(l),
                                   turn   |-> t,
                                   status |-> "Running",
                                   events |-> << >>])]

(* get_mut(index) found a record, `at` is in range.                        *)
HasTurn(l, i) == i < Len(l.turns)

AppendReplaces(l, i, e) == [l EXCEPT !.turns[i + 1].events = << e >>]
AppendEventsTo(l, i, e) == [l EXCEPT !.turns[i + 1].events = Append(@, e)]

SettleTurnAt(l, i, st) == [l EXCEPT !.turns[i + 1].status = st]

-----------------------------------------------------------------------------
Select(l, at) == [l EXCEPT !.selected = at]

CanApply(l, at) == HasTurn(l, at) /\ l.selected = at

Apply(l, at) == FromCheckpoint(Prefix(l.turns, at + 1))

Release(l, at) ==
    [l EXCEPT !.selected = IF @ = at THEN NoSelection ELSE @]

DiscardDropsHead(l, at) ==
    FromCheckpoint(SubSeq(l.turns, at + 1, Len(l.turns)))
Discard(l, at) == FromCheckpoint(Prefix(l.turns, at))

RewindToDropsHead(l, n) ==
    IF HasTurn(l, n) THEN [l EXCEPT !.turns = SubSeq(@, n + 1, Len(@))] ELSE l
(* Note that the candidate marker is not cleared.                          *)
RewindTo(l, n) ==
    IF HasTurn(l, n) THEN [l EXCEPT !.turns = Prefix(@, n)] ELSE l

CheckpointAt(l, at) == Prefix(l.turns, MinOf(at, Len(l.turns)))

Fork(l, at) == FromCheckpoint(CheckpointAt(l, at))
=============================================================================

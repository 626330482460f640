--------------------------- MODULE LedgerTheorems ---------------------------
(***************************************************************************)
(* What the operations of a ledger preserve: its type, and, for any        *)
(* bound on the turn numbers, the order and the indices of its turns.      *)
(***************************************************************************)
EXTENDS Ledger, TLAPS, SequenceTheorems

(* The turn list is in the order of the turn numbers, which lie in         *)
(* 1 .. max, and the index of each record is its position.                 *)
InOrder(turns, max) ==
    /\ \A i \in 1 .. Len(turns) : turns[i].index = i - 1
    /\ \A i, j \in 1 .. Len(turns) : i < j => turns[i].turn < turns[j].turn
    /\ \A i \in 1 .. Len(turns) : turns[i].turn \in 1 .. max

-----------------------------------------------------------------------------
(* A prefix of a turn list is a turn list of that length with the same     *)
(* records (Vec::truncate, the slice [..n]).                               *)
LEMMA PrefixType ==
    ASSUME NEW turns \in Checkpoint, NEW n \in 0 .. Len(turns)
    PROVE  /\ Prefix(turns, n) \in Checkpoint
           /\ Len(Prefix(turns, n)) = n
           /\ \A i \in 1 .. n : Prefix(turns, n)[i] = turns[i]
  BY SMTT(30) DEF Prefix, Checkpoint

(* A prefix of an ordered turn list is ordered.                            *)
LEMMA PrefixInOrder ==
    ASSUME NEW turns \in Checkpoint, NEW n \in 0 .. Len(turns),
           NEW max \in Nat, InOrder(turns, max)
    PROVE  InOrder(Prefix(turns, n), max)
  <1> DEFINE p == Prefix(turns, n)
  <1>1. /\ Len(p) = n
        /\ \A i \in 1 .. n : p[i] = turns[i]
    BY PrefixType
  <1>2. Len(turns) \in Nat
    BY DEF Checkpoint
  <1>3. \A i \in 1 .. n : i \in 1 .. Len(turns)
    BY <1>2
  <1> HIDE DEF p
  <1>4. InOrder(p, max)
    BY <1>1, <1>2, <1>3 DEF InOrder
  <1>5. QED
    BY <1>4 DEF p

(* An ordered turn list stays so when more turn numbers are in use.        *)
LEMMA InOrderMonotonic ==
    ASSUME NEW turns \in Checkpoint, NEW max \in Nat, NEW more \in Nat,
           max <= more, InOrder(turns, max)
    PROVE  InOrder(turns, more)
  BY DEF InOrder

(* Only the indices and the turn numbers matter to the order.              *)
LEMMA InOrderSame ==
    ASSUME NEW old \in Checkpoint, NEW new \in Checkpoint, NEW max \in Nat,
           Len(new) = Len(old),
           \A j \in 1 .. Len(old) : /\ new[j].index = old[j].index
                                    /\ new[j].turn = old[j].turn,
           InOrder(old, max)
    PROVE  InOrder(new, max)
  BY DEF InOrder

(* A fresh ledger and one built from a checkpoint are ledgers.             *)
LEMMA FromCheckpointType ==
    ASSUME NEW cp \in Checkpoint
    PROVE  /\ FromCheckpoint(cp) \in LedgerState
           /\ FromCheckpoint(cp).turns = cp
           /\ NewLedger \in LedgerState
           /\ NewLedger.turns = << >>
  BY DEF FromCheckpoint, NewLedger, LedgerState, Checkpoint

(* record_turn appends one running record with the next index.             *)
LEMMA RecordTurnType ==
    ASSUME NEW l \in LedgerState, NEW t \in Nat
    PROVE  /\ RecordTurn(l, t) \in LedgerState
           /\ Len(RecordTurn(l, t).turns) = Len(l.turns) + 1
           /\ \A i \in 1 .. Len(l.turns) : RecordTurn(l, t).turns[i] = l.turns[i]
           /\ RecordTurn(l, t).turns[Len(l.turns) + 1].index = Len(l.turns)
           /\ RecordTurn(l, t).turns[Len(l.turns) + 1].turn = t
           /\ RecordTurn(l, t).turns[Len(l.turns) + 1].status = "Running"
           /\ RecordTurn(l, t).turns[Len(l.turns) + 1].events = << >>
  <1> DEFINE rec == [index |-> RecordedIndex(l), turn |-> t,
                     status |-> "Running", events |-> << >>]
  <1>1. rec \in TurnRecord
    BY DEF TurnRecord, TurnStatus, RecordedIndex, LedgerState
  <1>2. RecordTurn(l, t) = [turns |-> Append(l.turns, rec), selected |-> l.selected]
    <2>1. RecordTurn(l, t) = [l EXCEPT !.turns = Append(l.turns, rec)]
      BY Zenon DEF RecordTurn
    <2> HIDE DEF rec
    <2>2. QED
      BY <2>1 DEF LedgerState
  <1>3. l.turns \in Seq(TurnRecord) /\ l.selected \in Nat \cup {NoSelection}
    BY DEF LedgerState
  <1>4. /\ rec.index = Len(l.turns) /\ rec.turn = t
        /\ rec.status = "Running" /\ rec.events = << >>
    BY DEF RecordedIndex
  <1> HIDE DEF rec
  <1>5. /\ Append(l.turns, rec) \in Seq(TurnRecord)
        /\ Len(Append(l.turns, rec)) = Len(l.turns) + 1
        /\ \A i \in 1 .. Len(l.turns) : Append(l.turns, rec)[i] = l.turns[i]
        /\ Append(l.turns, rec)[Len(l.turns) + 1] = rec
    BY <1>1, <1>3
  <1>6. QED
    BY <1>2, <1>3, <1>4, <1>5 DEF LedgerState

(* Recording the newest turn keeps the order.                              *)
LEMMA RecordTurnInOrder ==
    ASSUME NEW l \in LedgerState, NEW max \in Nat, InOrder(l.turns, max)
    PROVE  InOrder(RecordTurn(l, max + 1).turns, max + 1)
  <1>1. Len(l.turns) \in Nat
    BY DEF LedgerState
  <1> DEFINE new == RecordTurn(l, max + 1).turns
             n == Len(l.turns)
  <1>2. /\ Len(new) = n + 1
        /\ \A i \in 1 .. n : new[i] = l.turns[i]
        /\ new[n + 1].index = n
        /\ new[n + 1].turn = max + 1
    BY RecordTurnType
  <1>3. /\ \A i \in 1 .. n : l.turns[i].index = i - 1
        /\ \A i, j \in 1 .. n : i < j => l.turns[i].turn < l.turns[j].turn
        /\ \A i \in 1 .. n : l.turns[i].turn \in 1 .. max
    BY DEF InOrder
  <1> HIDE DEF new, n
  <1>4. n \in Nat
    BY <1>1 DEF n
  <1>5. \A i \in 1 .. n + 1 : i \in 1 .. n \/ i = n + 1
    BY <1>4
  <1>6. InOrder(new, max + 1)
    <2>1. ASSUME NEW i \in 1 .. n + 1
          PROVE  new[i].index = i - 1 /\ new[i].turn \in 1 .. max + 1
      <3>1. CASE i \in 1 .. n
        BY <1>2, <1>3, <3>1
      <3>2. CASE i = n + 1
        BY <1>2, <1>4, <3>2
      <3>3. QED
        BY <1>5, <3>1, <3>2
    <2>3. ASSUME NEW i \in 1 .. n + 1, NEW j \in 1 .. n + 1, i < j
          PROVE  new[i].turn < new[j].turn
      <3>1. i \in 1 .. n
        BY <1>4, <2>3
      <3>2. CASE j \in 1 .. n
        BY <1>2, <1>3, <2>3, <3>1, <3>2
      <3>3. CASE j = n + 1
        BY <1>2, <1>3, <3>1, <3>3
      <3>4. QED
        BY <1>5, <3>2, <3>3
    <2>4. QED
      BY <1>2, <2>1, <2>3 DEF InOrder
  <1>7. QED
    BY <1>6 DEF new

(* new is l, with the event e at the end of the record at index i.         *)
EventAdded(l, i, e, new) ==
    /\ new \in LedgerState
    /\ Len(new.turns) = Len(l.turns)
    /\ \A j \in 1 .. Len(l.turns) : /\ new.turns[j].index = l.turns[j].index
                                    /\ new.turns[j].turn = l.turns[j].turn
                                    /\ new.turns[j].status = l.turns[j].status
                                    /\ j # i + 1 => new.turns[j] = l.turns[j]
    /\ i + 1 \in 1 .. Len(l.turns)
    /\ new.turns[i + 1].events = Append(l.turns[i + 1].events, e)

(* Writing into an existing record keeps the list's length, and every      *)
(* record's index and turn.                                                *)
LEMMA AppendEventsToIs ==
    ASSUME NEW l \in LedgerState, NEW i \in Nat, HasTurn(l, i), NEW e \in Nat
    PROVE  EventAdded(l, i, e, AppendEventsTo(l, i, e))
  <1> DEFINE old == l.turns[i + 1]
             rec == [old EXCEPT !.events = Append(@, e)]
  <1>1. l.turns \in Seq(TurnRecord) /\ l.selected \in Nat \cup {NoSelection}
    BY DEF LedgerState
  <1>2. i + 1 \in 1 .. Len(l.turns) /\ old \in TurnRecord
    BY <1>1 DEF HasTurn
  <1>3. /\ rec \in TurnRecord /\ rec.index = old.index /\ rec.turn = old.turn
        /\ rec.status = old.status /\ rec.events = Append(old.events, e)
    <2>1. Append(old.events, e) \in Seq(Nat)
      BY <1>2 DEF TurnRecord
    <2>2. QED
      BY <1>2, <2>1 DEF TurnRecord
  <1>4. AppendEventsTo(l, i, e)
          = [turns |-> [l.turns EXCEPT ![i + 1] = rec], selected |-> l.selected]
    BY <1>2 DEF AppendEventsTo, LedgerState
  <1> HIDE DEF rec
  <1>5. /\ [l.turns EXCEPT ![i + 1] = rec] \in Seq(TurnRecord)
        /\ Len([l.turns EXCEPT ![i + 1] = rec]) = Len(l.turns)
        /\ \A j \in 1 .. Len(l.turns) :
              [l.turns EXCEPT ![i + 1] = rec][j]
                = IF j = i + 1 THEN rec ELSE l.turns[j]
    BY <1>1, <1>2, <1>3, ExceptSeq
  <1>6. QED
    BY <1>1, <1>2, <1>3, <1>4, <1>5 DEF LedgerState, EventAdded

(* What of that does not depend on the event.                              *)
LEMMA AppendEventsToType ==
    ASSUME NEW l \in LedgerState, NEW i \in Nat, HasTurn(l, i), NEW e \in Nat
    PROVE  /\ AppendEventsTo(l, i, e) \in LedgerState
           /\ Len(AppendEventsTo(l, i, e).turns) = Len(l.turns)
           /\ \A j \in 1 .. Len(l.turns) :
                /\ AppendEventsTo(l, i, e).turns[j].index = l.turns[j].index
                /\ AppendEventsTo(l, i, e).turns[j].turn = l.turns[j].turn
  <1>1. EventAdded(l, i, e, AppendEventsTo(l, i, e))
    BY AppendEventsToIs
  <1>2. QED
    BY <1>1 DEF EventAdded

(* new is l, with the record at index i settled as st.                     *)
OutcomeSet(l, i, st, new) ==
    /\ new \in LedgerState
    /\ Len(new.turns) = Len(l.turns)
    /\ \A j \in 1 .. Len(l.turns) : /\ new.turns[j].index = l.turns[j].index
                                    /\ new.turns[j].turn = l.turns[j].turn
                                    /\ new.turns[j].events = l.turns[j].events
                                    /\ j # i + 1 => new.turns[j] = l.turns[j]
    /\ i + 1 \in 1 .. Len(l.turns)
    /\ new.turns[i + 1].status = st

(* Settling a record keeps the list as it was but for the status.          *)
LEMMA SettleTurnAtIs ==
    ASSUME NEW l \in LedgerState, NEW i \in Nat, HasTurn(l, i),
           NEW st \in TurnStatus
    PROVE  OutcomeSet(l, i, st, SettleTurnAt(l, i, st))
  <1> DEFINE old == l.turns[i + 1]
             rec == [old EXCEPT !.status = st]
  <1>1. l.turns \in Seq(TurnRecord) /\ l.selected \in Nat \cup {NoSelection}
    BY DEF LedgerState
  <1>2. i + 1 \in 1 .. Len(l.turns) /\ old \in TurnRecord
    BY <1>1 DEF HasTurn
  <1>3. /\ rec \in TurnRecord /\ rec.index = old.index /\ rec.turn = old.turn
        /\ rec.status = st /\ rec.events = old.events
    BY <1>2 DEF TurnRecord
  <1>4. SettleTurnAt(l, i, st)
          = [turns |-> [l.turns EXCEPT ![i + 1] = rec], selected |-> l.selected]
    BY <1>2 DEF SettleTurnAt, LedgerState
  <1> HIDE DEF rec
  <1>5. /\ [l.turns EXCEPT ![i + 1] = rec] \in Seq(TurnRecord)
        /\ Len([l.turns EXCEPT ![i + 1] = rec]) = Len(l.turns)
        /\ \A j \in 1 .. Len(l.turns) :
              [l.turns EXCEPT ![i + 1] = rec][j]
                = IF j = i + 1 THEN rec ELSE l.turns[j]
    BY <1>1, <1>2, <1>3, ExceptSeq
  <1>6. QED
    BY <1>1, <1>2, <1>3, <1>4, <1>5 DEF LedgerState, OutcomeSet

(* What of that does not depend on the outcome.                            *)
LEMMA SettleTurnAtType ==
    ASSUME NEW l \in LedgerState, NEW i \in Nat, HasTurn(l, i),
           NEW st \in TurnStatus
    PROVE  /\ SettleTurnAt(l, i, st) \in LedgerState
           /\ Len(SettleTurnAt(l, i, st).turns) = Len(l.turns)
           /\ \A j \in 1 .. Len(l.turns) :
                /\ SettleTurnAt(l, i, st).turns[j].index = l.turns[j].index
                /\ SettleTurnAt(l, i, st).turns[j].turn = l.turns[j].turn
  <1>1. OutcomeSet(l, i, st, SettleTurnAt(l, i, st))
    BY SettleTurnAtIs
  <1>2. QED
    BY <1>1 DEF OutcomeSet

(* select and release only move the candidate marker.                      *)
LEMMA MarkerType ==
    ASSUME NEW l \in LedgerState, NEW at \in Nat
    PROVE  /\ Select(l, at) \in LedgerState
           /\ Select(l, at).turns = l.turns
           /\ Release(l, at) \in LedgerState
           /\ Release(l, at).turns = l.turns
  BY DEF Select, Release, LedgerState

(* apply, discard and rewind_to leave a prefix.                            *)
LEMMA TruncationType ==
    ASSUME NEW l \in LedgerState, NEW at \in Nat
    PROVE  /\ HasTurn(l, at) => /\ Apply(l, at) \in LedgerState
                                /\ Apply(l, at).turns = Prefix(l.turns, at + 1)
                                /\ Discard(l, at) \in LedgerState
                                /\ Discard(l, at).turns = Prefix(l.turns, at)
           /\ RewindTo(l, at) \in LedgerState
           /\ \E n \in 0 .. Len(l.turns) :
                 RewindTo(l, at).turns = Prefix(l.turns, n)
  <1>1. l.turns \in Checkpoint /\ l.selected \in Nat \cup {NoSelection}
        /\ Len(l.turns) \in Nat
    BY DEF LedgerState, Checkpoint
  <1>2. ASSUME HasTurn(l, at)
        PROVE  /\ Apply(l, at) \in LedgerState
               /\ Apply(l, at).turns = Prefix(l.turns, at + 1)
               /\ Discard(l, at) \in LedgerState
               /\ Discard(l, at).turns = Prefix(l.turns, at)
    <2>1. Prefix(l.turns, at + 1) \in Checkpoint /\ Prefix(l.turns, at) \in Checkpoint
      BY <1>1, <1>2, PrefixType DEF HasTurn
    <2>2. QED
      BY <2>1, FromCheckpointType DEF Apply, Discard
  <1>3. CASE HasTurn(l, at)
    <2>1. Prefix(l.turns, at) \in Checkpoint /\ at \in 0 .. Len(l.turns)
      BY <1>1, <1>3, PrefixType DEF HasTurn
    <2>2. RewindTo(l, at) = [turns |-> Prefix(l.turns, at), selected |-> l.selected]
      BY <1>3 DEF RewindTo, LedgerState
    <2>3. QED
      BY <1>1, <1>2, <1>3, <2>1, <2>2 DEF LedgerState, Checkpoint
  <1>4. CASE ~HasTurn(l, at)
    <2>1. RewindTo(l, at) = l
      BY <1>4 DEF RewindTo
    <2>2. l.turns = Prefix(l.turns, Len(l.turns))
      BY <1>1, SubSeqFull DEF Prefix, Checkpoint
    <2>3. QED
      BY <1>1, <1>4, <2>1, <2>2
  <1>5. QED
    BY <1>3, <1>4

(* checkpoint_at and fork take a prefix, whatever `at` was asked for.      *)
LEMMA CheckpointAtType ==
    ASSUME NEW l \in LedgerState, NEW at \in Nat
    PROVE  /\ CheckpointAt(l, at) \in Checkpoint
           /\ \E n \in 0 .. Len(l.turns) : CheckpointAt(l, at) = Prefix(l.turns, n)
           /\ Fork(l, at) \in LedgerState
           /\ Fork(l, at).turns = CheckpointAt(l, at)
  <1>1. l.turns \in Checkpoint /\ Len(l.turns) \in Nat
    BY DEF LedgerState, Checkpoint
  <1>2. MinOf(at, Len(l.turns)) \in 0 .. Len(l.turns)
    BY <1>1 DEF MinOf
  <1>3. CheckpointAt(l, at) \in Checkpoint
    BY <1>1, <1>2, PrefixType DEF CheckpointAt
  <1>4. QED
    BY <1>2, <1>3, FromCheckpointType DEF CheckpointAt, Fork

(* Every operation that cuts, copies or marks a ledger in order leaves     *)
(* it in order.                                                            *)
LEMMA OperationsInOrder ==
    ASSUME NEW l \in LedgerState, NEW at \in Nat, NEW max \in Nat,
           InOrder(l.turns, max)
    PROVE  /\ InOrder(Select(l, at).turns, max)
           /\ InOrder(Release(l, at).turns, max)
           /\ HasTurn(l, at) => /\ InOrder(Apply(l, at).turns, max)
                                /\ InOrder(Discard(l, at).turns, max)
           /\ InOrder(RewindTo(l, at).turns, max)
           /\ InOrder(CheckpointAt(l, at), max)
           /\ InOrder(Fork(l, at).turns, max)
  <1>1. l.turns \in Checkpoint /\ Len(l.turns) \in Nat
    BY DEF LedgerState, Checkpoint
  <1>2. \A n \in 0 .. Len(l.turns) : InOrder(Prefix(l.turns, n), max)
    BY <1>1, PrefixInOrder
  <1>3. InOrder(Select(l, at).turns, max) /\ InOrder(Release(l, at).turns, max)
    BY MarkerType
  <1>4. ASSUME HasTurn(l, at)
        PROVE  InOrder(Apply(l, at).turns, max) /\ InOrder(Discard(l, at).turns, max)
    <2>1. at \in 0 .. Len(l.turns) /\ at + 1 \in 0 .. Len(l.turns)
      BY <1>1, <1>4 DEF HasTurn
    <2>2. /\ Apply(l, at).turns = Prefix(l.turns, at + 1)
          /\ Discard(l, at).turns = Prefix(l.turns, at)
      BY <1>4, TruncationType
    <2>3. QED
      BY <1>2, <2>1, <2>2
  <1>5. InOrder(RewindTo(l, at).turns, max)
    <2>1. PICK n \in 0 .. Len(l.turns) : RewindTo(l, at).turns = Prefix(l.turns, n)
      BY TruncationType
    <2>2. QED
      BY <1>2, <2>1
  <1>6. InOrder(CheckpointAt(l, at), max)
    <2>1. PICK n \in 0 .. Len(l.turns) : CheckpointAt(l, at) = Prefix(l.turns, n)
      BY CheckpointAtType
    <2>2. QED
      BY <1>2, <2>1
  <1>7. InOrder(Fork(l, at).turns, max)
    BY <1>6, CheckpointAtType
  <1>8. QED
    BY <1>3, <1>4, <1>5, <1>6, <1>7
=============================================================================

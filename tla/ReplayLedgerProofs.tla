------------------------- MODULE ReplayLedgerProofs -------------------------
(***************************************************************************)
(* Proofs about ReplayLedger, for any sets of ledgers and writers and any  *)
(* bounds: type correctness, contiguous indices, and that the ledgers      *)
(* implement Transcript.                                                   *)
(*                                                                         *)
(* The inductive invariant adds to the type that every turn list, the      *)
(* saved checkpoint included, is InOrder: turn numbers increase along the  *)
(* list and none exceeds `recorded`.  That a recorded turn is newer than   *)
(* everything held anywhere, which Transcript demands, follows from the    *)
(* last part.                                                              *)
(***************************************************************************)
EXTENDS ReplayLedger, LedgerTheorems

AllInOrder ==
    /\ \A h \in Handles : InOrder(ledger[h].turns, recorded)
    /\ InOrder(saved, recorded)

IInv == TypeOK /\ AllInOrder

-----------------------------------------------------------------------------
(* Putting a ledger value in order under one handle keeps the type and the *)
(* order of all of them.                                                   *)
LEMMA UpdateKeeps ==
    ASSUME TypeOK, AllInOrder, NEW h \in Handles, NEW l \in LedgerState,
           NEW n \in Nat, recorded <= n, InOrder(l.turns, n), Update(h, l)
    PROVE  /\ ledger' \in [Handles -> LedgerState]
           /\ \A g \in Handles : InOrder(ledger'[g].turns, n)
  <1>1. ledger' \in [Handles -> LedgerState]
    BY DEF TypeOK, Update
  <1>2. ASSUME NEW g \in Handles
        PROVE  InOrder(ledger'[g].turns, n)
    <2>1. CASE g = h
      BY <2>1 DEF TypeOK, Update
    <2>2. CASE g # h
      <3>1. ledger'[g] = ledger[g] /\ ledger[g].turns \in Checkpoint
        BY <2>2 DEF TypeOK, Update, LedgerState, Checkpoint
      <3>2. recorded \in Nat /\ InOrder(ledger[g].turns, recorded)
        BY DEF TypeOK, AllInOrder
      <3>3. QED
        BY <3>1, <3>2, InOrderMonotonic
    <2>3. QED
      BY <2>1, <2>2
  <1>3. QED
    BY <1>1, <1>2

(* What every action needs of the ledger it works on.                      *)
LEMMA LedgerFacts ==
    ASSUME TypeOK, AllInOrder, NEW h \in Handles
    PROVE  /\ ledger[h] \in LedgerState
           /\ ledger[h].turns \in Checkpoint
           /\ Len(ledger[h].turns) \in Nat
           /\ recorded \in Nat
           /\ InOrder(ledger[h].turns, recorded)
  BY DEF TypeOK, AllInOrder, LedgerState, Checkpoint

-----------------------------------------------------------------------------
(* The initial state satisfies the invariant.                              *)
LEMMA InitIInv == Init => IInv
  <1> SUFFICES ASSUME Init PROVE IInv
    OBVIOUS
  <1>1. << >> \in Checkpoint /\ InOrder(<< >>, 0)
    BY DEF Checkpoint, InOrder
  <1>2. NewLedger \in LedgerState /\ NewLedger.turns = << >>
    BY <1>1, FromCheckpointType
  <1>3. TypeOK
    BY <1>1, <1>2, BoundsAssumption DEF Init, TypeOK
  <1>4. AllInOrder
    BY <1>1, <1>2 DEF Init, AllInOrder
  <1>5. QED
    BY <1>3, <1>4 DEF IInv

(* Recording a turn keeps the invariant.                                   *)
LEMMA RecordIInv ==
    ASSUME IInv, NEW w \in Writers, NEW h \in Handles, Record(w, h)
    PROVE  IInv'
  <1>1. TypeOK /\ AllInOrder
    BY DEF IInv
  <1> DEFINE l == RecordTurn(ledger[h], recorded + 1)
  <1>2. recorded \in Nat /\ recorded + 1 \in 0 .. MaxTurns /\ MaxTurns \in Nat
    BY <1>1, BoundsAssumption DEF TypeOK, Record
  <1>3. l \in LedgerState /\ InOrder(l.turns, recorded + 1)
    BY <1>1, <1>2, LedgerFacts, RecordTurnType, RecordTurnInOrder
  <1>4. Update(h, l) /\ recorded' = recorded + 1 /\ saved' = saved
        /\ candidate' = candidate
    BY DEF Record
  <1>5. held' = [held EXCEPT ![w] = [handle |-> h,
                                     index |-> RecordedIndex(ledger[h]),
                                     turn |-> recorded + 1]]
    BY DEF Record
  <1> HIDE DEF l
  <1>6. /\ ledger' \in [Handles -> LedgerState]
        /\ \A g \in Handles : InOrder(ledger'[g].turns, recorded')
    BY <1>1, <1>2, <1>3, <1>4, UpdateKeeps
  <1>7. RecordedIndex(ledger[h]) \in Nat
    BY <1>1, LedgerFacts DEF RecordedIndex
  <1>8. held' \in [Writers -> [handle : Handles, index : Nat, turn : Nat]
                                 \cup {Idle}]
    BY <1>1, <1>2, <1>5, <1>7 DEF TypeOK
  <1>9. InOrder(saved', recorded')
    BY <1>1, <1>2, <1>4, InOrderMonotonic DEF TypeOK, AllInOrder
  <1>10. TypeOK'
    BY <1>1, <1>2, <1>4, <1>6, <1>8 DEF TypeOK
  <1>11. QED
    BY <1>6, <1>9, <1>10 DEF IInv, AllInOrder

(* Replacing one ledger by a value in order keeps the invariant when no    *)
(* turn is recorded.                                                       *)
LEMMA UpdateIInv ==
    ASSUME IInv, NEW h \in Handles, NEW l \in LedgerState,
           InOrder(l.turns, recorded), Update(h, l),
           recorded' = recorded, saved' = saved,
           held' \in [Writers -> [handle : Handles, index : Nat, turn : Nat]
                                   \cup {Idle}],
           candidate' \in [Handles -> Nat]
    PROVE  IInv'
  <1>1. TypeOK /\ AllInOrder /\ recorded \in Nat
    BY DEF IInv, TypeOK
  <1>2. /\ ledger' \in [Handles -> LedgerState]
        /\ \A g \in Handles : InOrder(ledger'[g].turns, recorded)
    BY <1>1, UpdateKeeps
  <1>3. QED
    BY <1>1, <1>2 DEF IInv, TypeOK, AllInOrder

(* Streaming into a turn and settling it, by index or at the tail.         *)
LEMMA WriteIInv ==
    ASSUME IInv, NEW w \in Writers, held[w] # Idle, NEW i \in Nat,
           AppendAt(w, i) \/ \E st \in Outcomes : SettleAt(w, i, st)
    PROVE  IInv'
  <1>1. TypeOK /\ AllInOrder
    BY DEF IInv
  <1> DEFINE h == held[w].handle
  <1>2. h \in Handles /\ held[w].turn \in Nat
    BY <1>1 DEF TypeOK
  <1>3. CASE AppendAt(w, i)
    <2> DEFINE l == AppendEventsTo(ledger[h], i, held[w].turn)
    <2>1. HasTurn(ledger[h], i) /\ Update(h, l)
          /\ UNCHANGED << held, saved, recorded, candidate >>
      BY <1>3 DEF AppendAt
    <2>2. /\ l \in LedgerState
          /\ Len(l.turns) = Len(ledger[h].turns)
          /\ \A j \in 1 .. Len(ledger[h].turns) :
                /\ l.turns[j].index = ledger[h].turns[j].index
                /\ l.turns[j].turn = ledger[h].turns[j].turn
      BY <1>1, <1>2, <2>1, LedgerFacts, AppendEventsToType
    <2> HIDE DEF l, h
    <2>3. l.turns \in Checkpoint
      BY <2>2 DEF LedgerState, Checkpoint
    <2>4. InOrder(l.turns, recorded)
      BY <1>1, <1>2, <2>2, <2>3, LedgerFacts, InOrderSame
    <2>5. QED
      BY <1>1, <1>2, <2>1, <2>2, <2>4, UpdateIInv DEF TypeOK
  <1>4. CASE \E st \in Outcomes : SettleAt(w, i, st)
    <2>1. PICK st \in Outcomes : SettleAt(w, i, st)
      BY <1>4
    <2> DEFINE l == SettleTurnAt(ledger[h], i, st)
    <2>2. HasTurn(ledger[h], i) /\ Update(h, l)
          /\ held' = [held EXCEPT ![w] = Idle]
          /\ UNCHANGED << saved, recorded, candidate >>
      BY <2>1 DEF SettleAt
    <2>3. /\ l \in LedgerState
          /\ Len(l.turns) = Len(ledger[h].turns)
          /\ \A j \in 1 .. Len(ledger[h].turns) :
                /\ l.turns[j].index = ledger[h].turns[j].index
                /\ l.turns[j].turn = ledger[h].turns[j].turn
      BY <1>1, <1>2, <2>2, LedgerFacts, SettleTurnAtType, OutcomesAssumption
    <2> HIDE DEF l, h
    <2>4. l.turns \in Checkpoint
      BY <2>3 DEF LedgerState, Checkpoint
    <2>5. InOrder(l.turns, recorded)
      BY <1>1, <1>2, <2>3, <2>4, LedgerFacts, InOrderSame
    <2>6. QED
      BY <1>1, <1>2, <2>2, <2>3, <2>5, UpdateIInv DEF TypeOK
  <1>5. QED
    BY <1>3, <1>4

(* The host's operations.                                                  *)
LEMMA HostIInv ==
    ASSUME IInv, NEW h \in Handles, Host(h)
    PROVE  IInv'
  <1>1. TypeOK /\ AllInOrder /\ recorded \in Nat
    BY DEF IInv, TypeOK
  <1>0. \A at \in 0 .. MaxTurns : at \in Nat
    BY BoundsAssumption
  <1>2. ASSUME NEW g \in Handles, NEW l \in LedgerState,
               InOrder(l.turns, recorded), Update(g, l), HostOnly,
               saved' = saved, candidate' \in [Handles -> Nat]
        PROVE  IInv'
    BY <1>1, <1>2, UpdateIInv DEF HostOnly, TypeOK
  <1>3. CASE RestoreCheckpoint(h)
    <2>1. FromCheckpoint(saved) \in LedgerState
          /\ InOrder(FromCheckpoint(saved).turns, recorded)
      BY <1>1, FromCheckpointType DEF TypeOK, AllInOrder
    <2>2. QED
      BY <1>1, <1>2, <1>3, <2>1 DEF RestoreCheckpoint, TypeOK
  <1>4. ASSUME NEW at \in 0 .. MaxTurns, SelectTurn(h, at) \/ ReleaseCandidate(h, at)
        PROVE  IInv'
    <2>1. /\ Select(ledger[h], at) \in LedgerState
          /\ InOrder(Select(ledger[h], at).turns, recorded)
          /\ Release(ledger[h], at) \in LedgerState
          /\ InOrder(Release(ledger[h], at).turns, recorded)
      BY <1>0, <1>1, LedgerFacts, MarkerType, OperationsInOrder
    <2>2. CASE SelectTurn(h, at)
      <3>1. ledger[h].turns[at + 1].turn \in Nat
        <4>1. at + 1 \in 1 .. Len(ledger[h].turns)
          BY <1>0, <1>1, <2>2, LedgerFacts DEF SelectTurn, HasTurn
        <4>2. ledger[h].turns[at + 1] \in TurnRecord
          BY <1>1, <4>1, LedgerFacts, ElementOfSeq DEF Checkpoint
        <4>3. QED
          BY <4>2 DEF TurnRecord
      <3>2. candidate' \in [Handles -> Nat]
        BY <1>1, <2>2, <3>1 DEF SelectTurn, TypeOK
      <3>3. QED
        BY <1>2, <2>1, <2>2, <3>2 DEF SelectTurn
    <2>3. CASE ReleaseCandidate(h, at)
      BY <1>1, <1>2, <2>1, <2>3 DEF ReleaseCandidate, TypeOK
    <2>4. QED
      BY <1>4, <2>2, <2>3
  <1>5. ASSUME NEW at \in 0 .. MaxTurns, ApplyCandidate(h, at) \/ DiscardFrom(h, at)
        PROVE  IInv'
    <2>1. HasTurn(ledger[h], at)
      BY <1>5 DEF ApplyCandidate, DiscardFrom, CanApply
    <2>3. /\ Apply(ledger[h], at) \in LedgerState
          /\ InOrder(Apply(ledger[h], at).turns, recorded)
          /\ Discard(ledger[h], at) \in LedgerState
          /\ InOrder(Discard(ledger[h], at).turns, recorded)
      BY <1>0, <1>1, <2>1, LedgerFacts, TruncationType, OperationsInOrder
    <2>4. QED
      BY <1>1, <1>2, <1>5, <2>3 DEF ApplyCandidate, DiscardFrom, TypeOK
  <1>6. ASSUME NEW at \in 0 .. MaxTurns, Rewind(h, at)
        PROVE  IInv'
    <2>1. /\ RewindTo(ledger[h], at) \in LedgerState
          /\ InOrder(RewindTo(ledger[h], at).turns, recorded)
      BY <1>0, <1>1, LedgerFacts, TruncationType, OperationsInOrder
    <2>2. QED
      BY <1>1, <1>2, <1>6, <2>1 DEF Rewind, TypeOK
  <1>7. ASSUME NEW at \in 0 .. MaxTurns
        PROVE  /\ CheckpointAt(ledger[h], at) \in Checkpoint
               /\ InOrder(CheckpointAt(ledger[h], at), recorded)
               /\ Fork(ledger[h], at) \in LedgerState
               /\ InOrder(Fork(ledger[h], at).turns, recorded)
    BY <1>0, <1>1, LedgerFacts, CheckpointAtType, OperationsInOrder
  <1>8. ASSUME NEW at \in 0 .. MaxTurns, TakeCheckpoint(h, at)
        PROVE  IInv'
    BY <1>1, <1>7, <1>8 DEF TakeCheckpoint, HostOnly, IInv, TypeOK, AllInOrder
  <1>9. ASSUME NEW at \in 0 .. MaxTurns, NEW g \in Handles, ForkTo(h, g, at)
        PROVE  IInv'
    BY <1>1, <1>2, <1>7, <1>9 DEF ForkTo, TypeOK
  <1>10. QED
    BY <1>3, <1>4, <1>5, <1>6, <1>8, <1>9 DEF Host

(* Every step keeps the invariant.                                         *)
LEMMA NextIInv == IInv /\ [Next]_vars => IInv'
  <1> SUFFICES ASSUME IInv, [Next]_vars PROVE IInv'
    OBVIOUS
  <1>1. ASSUME NEW w \in Writers, Writer(w)
        PROVE  IInv'
    <2>1. CASE \E h \in Handles : Record(w, h)
      BY <2>1, RecordIInv
    <2>2. CASE held[w] # Idle
      <3>1. held[w].index \in Nat
        BY <2>2 DEF IInv, TypeOK
      <3>2. QED
        BY <1>1, <2>1, <2>2, <3>1, WriteIInv
        DEF Writer, Append_events_to, Append_events, Settle_turn_at, Settle_turn
    <2>3. QED
      BY <1>1, <2>1, <2>2
      DEF Writer, Append_events_to, Append_events, Settle_turn_at, Settle_turn
  <1>2. CASE UNCHANGED vars
    BY <1>2 DEF vars, IInv, TypeOK, AllInOrder
  <1>3. QED
    BY <1>1, <1>2, HostIInv DEF Next

(* The inductive invariant holds of every behaviour.                       *)
THEOREM Invariance == Spec => []IInv
  BY InitIInv, NextIInv, PTL DEF Spec

(* Every ledger, writer and checkpoint has its type in every state, for    *)
(* every number of ledgers, writers, turns and events.                     *)
THEOREM TypeCorrect == Spec => []TypeOK
  <1>1. IInv => TypeOK
    BY DEF IInv
  <1>2. QED
    BY <1>1, Invariance, PTL

(* "Position of this turn in the ledger (0-based, contiguous)"             *)
(* (lib.rs:57) holds of every record in every ledger and checkpoint.       *)
THEOREM IndicesContiguous == Spec => []IndexContiguous
  <1>1. IInv => IndexContiguous
    BY DEF IInv, AllInOrder, InOrder, IndexContiguous, Contiguous
  <1>2. QED
    BY <1>1, Invariance, PTL
=============================================================================

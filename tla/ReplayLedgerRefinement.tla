----------------------- MODULE ReplayLedgerRefinement -----------------------
(***************************************************************************)
(* The ledgers implement Transcript: initial states map to initial states  *)
(* and, from a state that satisfies the inductive invariant of             *)
(* ReplayLedgerProofs, every step maps to a step of Transcript or to a     *)
(* stutter.                                                                *)
(***************************************************************************)
EXTENDS ReplayLedgerProofs

-----------------------------------------------------------------------------
(* The turn numbers of a turn list: what the refinement mapping shows.     *)

(* TurnsOf is a sequence of numbers, one per record.                       *)
LEMMA TurnsOfType ==
    ASSUME NEW turns \in Checkpoint
    PROVE  /\ TurnsOf(turns) \in Seq(Nat)
           /\ Len(TurnsOf(turns)) = Len(turns)
           /\ \A i \in 1 .. Len(turns) : TurnsOf(turns)[i] = turns[i].turn
  <1>1. Len(turns) \in Nat /\ \A i \in 1 .. Len(turns) : turns[i].turn \in Nat
    <2>1. \A i \in 1 .. Len(turns) : turns[i] \in TurnRecord
      BY ElementOfSeq DEF Checkpoint
    <2>2. QED
      BY <2>1 DEF Checkpoint, TurnRecord
  <1>2. QED
    BY <1>1 DEF TurnsOf

(* Lists with the same turn numbers are the same to the mapping.           *)
LEMMA TurnsOfEqual ==
    ASSUME NEW turns \in Checkpoint, NEW seq \in Seq(Nat),
           Len(seq) = Len(turns),
           \A i \in 1 .. Len(turns) : seq[i] = turns[i].turn
    PROVE  TurnsOf(turns) = seq
  <1>1. /\ TurnsOf(turns) \in Seq(Nat)
        /\ Len(TurnsOf(turns)) = Len(turns)
        /\ \A i \in 1 .. Len(turns) : TurnsOf(turns)[i] = turns[i].turn
    BY TurnsOfType
  <1>2. QED
    BY <1>1, SeqEqual

(* Truncating the list truncates its turn numbers.                         *)
LEMMA TurnsOfPrefix ==
    ASSUME NEW turns \in Checkpoint, NEW n \in 0 .. Len(turns)
    PROVE  TurnsOf(Prefix(turns, n)) = SubSeq(TurnsOf(turns), 1, n)
  <1> DEFINE seq == SubSeq(TurnsOf(turns), 1, n)
  <1>1. /\ TurnsOf(turns) \in Seq(Nat)
        /\ Len(TurnsOf(turns)) = Len(turns)
        /\ \A i \in 1 .. Len(turns) : TurnsOf(turns)[i] = turns[i].turn
    BY TurnsOfType
  <1>2. Len(turns) \in Nat
    BY DEF Checkpoint
  <1>3. \A i \in 1 .. n : i \in 1 .. Len(turns) /\ TurnsOf(turns)[i] \in Nat
    BY <1>1, <1>2, ElementOfSeq
  <1>4. /\ seq \in Seq(Nat)
        /\ Len(seq) = n
        /\ \A i \in 1 .. n : seq[i] = TurnsOf(turns)[i]
    BY <1>1, <1>2, <1>3, SMTT(30)
  <1>5. /\ Prefix(turns, n) \in Checkpoint
        /\ Len(Prefix(turns, n)) = n
        /\ \A i \in 1 .. n : Prefix(turns, n)[i] = turns[i]
    BY PrefixType
  <1> HIDE DEF seq
  <1>6. \A i \in 1 .. n : seq[i] = Prefix(turns, n)[i].turn
    BY <1>1, <1>3, <1>4, <1>5
  <1>7. QED
    BY <1>4, <1>5, <1>6, TurnsOfEqual DEF seq

(* Recording a turn appends its number.                                    *)
LEMMA TurnsOfRecord ==
    ASSUME NEW l \in LedgerState, NEW t \in Nat
    PROVE  TurnsOf(RecordTurn(l, t).turns) = Append(TurnsOf(l.turns), t)
  <1> DEFINE seq == Append(TurnsOf(l.turns), t)
             new == RecordTurn(l, t).turns
             n   == Len(l.turns)
  <1>1. l.turns \in Checkpoint /\ n \in Nat
    BY DEF LedgerState, Checkpoint
  <1>2. /\ TurnsOf(l.turns) \in Seq(Nat)
        /\ Len(TurnsOf(l.turns)) = n
        /\ \A i \in 1 .. n : TurnsOf(l.turns)[i] = l.turns[i].turn
    BY <1>1, TurnsOfType
  <1>3. /\ seq \in Seq(Nat)
        /\ Len(seq) = n + 1
        /\ \A i \in 1 .. n : seq[i] = TurnsOf(l.turns)[i]
        /\ seq[n + 1] = t
    BY <1>2, AppendProperties
  <1>4. /\ RecordTurn(l, t) \in LedgerState
        /\ Len(new) = n + 1
        /\ \A i \in 1 .. n : new[i] = l.turns[i]
        /\ new[n + 1].turn = t
    BY RecordTurnType
  <1> HIDE DEF seq, n
  <1>5. new \in Checkpoint
    BY <1>4 DEF LedgerState, Checkpoint
  <1> HIDE DEF new
  <1>6. ASSUME NEW i \in 1 .. n + 1
        PROVE  seq[i] = new[i].turn
    <2>1. CASE i \in 1 .. n
      BY <1>2, <1>3, <1>4, <2>1
    <2>2. CASE i = n + 1
      BY <1>3, <1>4, <2>2
    <2>3. QED
      BY <1>1, <2>1, <2>2
  <1>7. QED
    BY <1>3, <1>4, <1>5, <1>6, TurnsOfEqual DEF seq, new

-----------------------------------------------------------------------------
(* Replacing one ledger replaces one history.                              *)
LEMMA UpdateMaps ==
    ASSUME TypeOK, NEW h \in Handles, NEW l, Update(h, l)
    PROVE  [g \in Handles |-> TurnsOf(ledger[g].turns)]'
             = [[g \in Handles |-> TurnsOf(ledger[g].turns)]
                   EXCEPT ![h] = TurnsOf(l.turns)]
  BY DEF TypeOK, Update

(* A new ledger value with a prefix of the old turns maps to CutBack.      *)
LEMMA CutBackMaps ==
    ASSUME TypeOK, NEW h \in Handles, NEW l, NEW n \in 0 .. Len(ledger[h].turns),
           l.turns = Prefix(ledger[h].turns, n), Update(h, l), saved' = saved
    PROVE  Histories!CutBack(h)
  <1> DEFINE H == [g \in Handles |-> TurnsOf(ledger[g].turns)]
  <1>1. ledger[h].turns \in Checkpoint
    BY DEF TypeOK, LedgerState, Checkpoint
  <1>2. /\ TurnsOf(l.turns) = SubSeq(TurnsOf(ledger[h].turns), 1, n)
        /\ Len(TurnsOf(ledger[h].turns)) = Len(ledger[h].turns)
    BY <1>1, TurnsOfPrefix, TurnsOfType
  <1>3. H[h] = TurnsOf(ledger[h].turns)
    OBVIOUS
  <1>4. H' = [H EXCEPT ![h] = TurnsOf(l.turns)]
    BY UpdateMaps
  <1>5. TurnsOf(saved)' = TurnsOf(saved)
    OBVIOUS
  <1> HIDE DEF H
  <1>6. \E k \in 0 .. Len(H[h]) : H' = [H EXCEPT ![h] = SubSeq(@, 1, k)]
    BY <1>2, <1>3, <1>4
  <1>7. QED
    BY <1>5, <1>6 DEF Histories!CutBack, H

(* A new ledger value with the same turns maps to a stutter.               *)
LEMMA SameMaps ==
    ASSUME TypeOK, NEW h \in Handles, NEW l,
           TurnsOf(l.turns) = TurnsOf(ledger[h].turns), Update(h, l),
           saved' = saved
    PROVE  UNCHANGED Histories!tvars
  BY UpdateMaps DEF Histories!tvars

-----------------------------------------------------------------------------
(* Every turn held is older than the turn recorded next.                   *)
LEMMA RecordedIsNewer ==
    ASSUME IInv, NEW turns \in Checkpoint, InOrder(turns, recorded)
    PROVE  \A i \in 1 .. Len(TurnsOf(turns)) : TurnsOf(turns)[i] < recorded + 1
  <1>1. recorded \in Nat
    BY DEF IInv, TypeOK
  <1>2. \A i \in 1 .. Len(turns) : turns[i].turn \in 1 .. recorded
    BY DEF InOrder
  <1>3. QED
    BY <1>1, <1>2, TurnsOfType

(* Recording a turn extends one history with a turn newer than all.        *)
LEMMA RecordMaps ==
    ASSUME IInv, NEW w \in Writers, NEW h \in Handles, Record(w, h)
    PROVE  Histories!Extend(h)
  <1> DEFINE H == [g \in Handles |-> TurnsOf(ledger[g].turns)]
             t == recorded + 1
  <1>1. TypeOK /\ AllInOrder
    BY DEF IInv
  <1>2. t \in 1 .. MaxTurns /\ t \in Nat
    BY <1>1, BoundsAssumption DEF TypeOK, Record
  <1>3. TurnsOf(RecordTurn(ledger[h], t).turns) = Append(TurnsOf(ledger[h].turns), t)
    BY <1>1, <1>2, LedgerFacts, TurnsOfRecord
  <1>4. H' = [H EXCEPT ![h] = Append(TurnsOf(ledger[h].turns), t)]
    <2>1. Update(h, RecordTurn(ledger[h], t))
      BY DEF Record
    <2>2. QED
      BY <1>1, <1>3, <2>1, UpdateMaps
  <1>5. H[h] = TurnsOf(ledger[h].turns)
    OBVIOUS
  <1>6. ASSUME NEW g \in Handles
        PROVE  \A i \in 1 .. Len(H[g]) : H[g][i] < t
    <2>1. ledger[g].turns \in Checkpoint /\ InOrder(ledger[g].turns, recorded)
      BY <1>1, LedgerFacts
    <2>2. QED
      BY <2>1, RecordedIsNewer
  <1>7. \A i \in 1 .. Len(TurnsOf(saved)) : TurnsOf(saved)[i] < t
    BY <1>1, RecordedIsNewer DEF TypeOK, AllInOrder
  <1>8. TurnsOf(saved)' = TurnsOf(saved)
    BY DEF Record
  <1> HIDE DEF H, t
  <1>9. /\ \A g \in Handles : Histories!NewerThan(t, H[g])
        /\ Histories!NewerThan(t, TurnsOf(saved))
    BY <1>6, <1>7 DEF Histories!NewerThan
  <1>10. H' = [H EXCEPT ![h] = Append(@, t)]
    BY <1>4, <1>5
  <1>11. QED
    BY <1>2, <1>8, <1>9, <1>10 DEF Histories!Extend, H

(* Streaming into a turn and settling it move no turn.                     *)
LEMMA WriteMaps ==
    ASSUME IInv, NEW w \in Writers, held[w] # Idle, NEW i \in Nat,
           AppendAt(w, i) \/ \E st \in Outcomes : SettleAt(w, i, st)
    PROVE  UNCHANGED Histories!tvars
  <1>1. TypeOK /\ AllInOrder
    BY DEF IInv
  <1> DEFINE h == held[w].handle
  <1>2. h \in Handles /\ held[w].turn \in Nat
    BY <1>1 DEF TypeOK
  <1>3. ASSUME NEW l \in LedgerState, Update(h, l), saved' = saved,
               Len(l.turns) = Len(ledger[h].turns),
               \A j \in 1 .. Len(ledger[h].turns) :
                   l.turns[j].turn = ledger[h].turns[j].turn
        PROVE  UNCHANGED Histories!tvars
    <2>1. l.turns \in Checkpoint
      BY DEF LedgerState, Checkpoint
    <2>2. TurnsOf(l.turns) = TurnsOf(ledger[h].turns)
      BY <1>3 DEF TurnsOf
    <2>3. QED
      BY <1>1, <1>2, <1>3, <2>2, SameMaps
  <1>4. CASE AppendAt(w, i)
    <2>1. /\ HasTurn(ledger[h], i)
          /\ Update(h, AppendEventsTo(ledger[h], i, held[w].turn))
          /\ saved' = saved
      BY <1>4 DEF AppendAt
    <2>2. QED
      BY <1>1, <1>2, <1>3, <2>1, LedgerFacts, AppendEventsToType
  <1>5. CASE \E st \in Outcomes : SettleAt(w, i, st)
    <2>1. PICK st \in Outcomes : SettleAt(w, i, st)
      BY <1>5
    <2>2. /\ HasTurn(ledger[h], i)
          /\ Update(h, SettleTurnAt(ledger[h], i, st))
          /\ saved' = saved
      BY <2>1 DEF SettleAt
    <2>3. QED
      BY <1>1, <1>2, <1>3, <2>2, LedgerFacts, SettleTurnAtType, OutcomesAssumption
  <1>6. QED
    BY <1>4, <1>5

(* A checkpoint keeps a prefix, and restoring it puts the prefix back.     *)
LEMMA CheckpointMaps ==
    ASSUME IInv, NEW h \in Handles, NEW at \in Nat
    PROVE  /\ TakeCheckpoint(h, at) => Histories!Keep(h)
           /\ RestoreCheckpoint(h) => Histories!PutBack(h)
  <1>1. TypeOK /\ AllInOrder
    BY DEF IInv
  <1> DEFINE H == [g \in Handles |-> TurnsOf(ledger[g].turns)]
  <1>2. H[h] = TurnsOf(ledger[h].turns)
    OBVIOUS
  <1>3. ASSUME TakeCheckpoint(h, at)
        PROVE  Histories!Keep(h)
    <2>1. PICK n \in 0 .. Len(ledger[h].turns) :
             CheckpointAt(ledger[h], at) = Prefix(ledger[h].turns, n)
      BY <1>1, LedgerFacts, CheckpointAtType
    <2>2. /\ TurnsOf(saved)' = SubSeq(TurnsOf(ledger[h].turns), 1, n)
          /\ Len(TurnsOf(ledger[h].turns)) = Len(ledger[h].turns)
      BY <1>1, <1>3, <2>1, LedgerFacts, TurnsOfPrefix, TurnsOfType
      DEF TakeCheckpoint
    <2>3. H' = H
      BY <1>3 DEF TakeCheckpoint
    <2> HIDE DEF H
    <2>4. \E k \in 0 .. Len(H[h]) : TurnsOf(saved)' = SubSeq(H[h], 1, k)
      BY <1>2, <2>2
    <2>5. QED
      BY <2>3, <2>4 DEF Histories!Keep, H
  <1>4. ASSUME RestoreCheckpoint(h)
        PROVE  Histories!PutBack(h)
    <2>1. FromCheckpoint(saved).turns = saved
      BY DEF FromCheckpoint
    <2>2. H' = [H EXCEPT ![h] = TurnsOf(saved)]
      BY <1>1, <1>4, <2>1, UpdateMaps DEF RestoreCheckpoint
    <2>3. TurnsOf(saved)' = TurnsOf(saved)
      BY <1>4 DEF RestoreCheckpoint
    <2>4. QED
      BY <2>2, <2>3 DEF Histories!PutBack
  <1>5. QED
    BY <1>3, <1>4

(* A fork copies a prefix of one history to another.                       *)
LEMMA ForkMaps ==
    ASSUME IInv, NEW h \in Handles, NEW g \in Handles, NEW at \in Nat,
           ForkTo(h, g, at)
    PROVE  Histories!Branch(h, g)
  <1>1. TypeOK /\ AllInOrder
    BY DEF IInv
  <1> DEFINE H == [f \in Handles |-> TurnsOf(ledger[f].turns)]
  <1>0. ledger[h] \in LedgerState
    BY <1>1, LedgerFacts
  <1>2. PICK n \in 0 .. Len(ledger[h].turns) :
           Fork(ledger[h], at).turns = Prefix(ledger[h].turns, n)
    <2>1. /\ \E n \in 0 .. Len(ledger[h].turns) :
                CheckpointAt(ledger[h], at) = Prefix(ledger[h].turns, n)
          /\ Fork(ledger[h], at).turns = CheckpointAt(ledger[h], at)
      BY <1>0, CheckpointAtType
    <2>2. QED
      BY <2>1
  <1>3. /\ TurnsOf(Fork(ledger[h], at).turns) = SubSeq(TurnsOf(ledger[h].turns), 1, n)
        /\ Len(TurnsOf(ledger[h].turns)) = Len(ledger[h].turns)
    BY <1>1, <1>2, LedgerFacts, TurnsOfPrefix, TurnsOfType
  <1>4. H' = [H EXCEPT ![g] = SubSeq(TurnsOf(ledger[h].turns), 1, n)]
    BY <1>1, <1>3, UpdateMaps DEF ForkTo
  <1>5. H[h] = TurnsOf(ledger[h].turns)
    OBVIOUS
  <1>6. TurnsOf(saved)' = TurnsOf(saved) /\ h # g
    BY DEF ForkTo
  <1> HIDE DEF H
  <1>7. \E k \in 0 .. Len(H[h]) : H' = [H EXCEPT ![g] = SubSeq(H[h], 1, k)]
    BY <1>3, <1>4, <1>5
  <1>8. QED
    BY <1>6, <1>7 DEF Histories!Branch, H

(* apply, discard and rewind_to cut back; select and release stutter.      *)
LEMMA EditMaps ==
    ASSUME IInv, NEW h \in Handles, NEW at \in Nat
    PROVE  /\ ApplyCandidate(h, at) => Histories!CutBack(h)
           /\ DiscardFrom(h, at) => Histories!CutBack(h)
           /\ Rewind(h, at) => Histories!CutBack(h)
           /\ SelectTurn(h, at) => UNCHANGED Histories!tvars
           /\ ReleaseCandidate(h, at) => UNCHANGED Histories!tvars
  <1>1. TypeOK /\ AllInOrder /\ ledger[h] \in LedgerState /\ Len(ledger[h].turns) \in Nat
    BY LedgerFacts DEF IInv
  <1>2. ASSUME HasTurn(ledger[h], at)
        PROVE  at \in 0 .. Len(ledger[h].turns) /\ at + 1 \in 0 .. Len(ledger[h].turns)
    BY <1>1, <1>2 DEF HasTurn
  <1>3. ApplyCandidate(h, at) => Histories!CutBack(h)
    BY <1>1, <1>2, TruncationType, CutBackMaps DEF ApplyCandidate, CanApply
  <1>4. DiscardFrom(h, at) => Histories!CutBack(h)
    BY <1>1, <1>2, TruncationType, CutBackMaps DEF DiscardFrom
  <1>5. Rewind(h, at) => Histories!CutBack(h)
    BY <1>1, TruncationType, CutBackMaps DEF Rewind
  <1>6. SelectTurn(h, at) => UNCHANGED Histories!tvars
    BY <1>1, MarkerType, SameMaps DEF SelectTurn
  <1>7. ReleaseCandidate(h, at) => UNCHANGED Histories!tvars
    BY <1>1, MarkerType, SameMaps DEF ReleaseCandidate
  <1>8. QED
    BY <1>3, <1>4, <1>5, <1>6, <1>7

-----------------------------------------------------------------------------
(* Empty ledgers map to empty histories.                                   *)
LEMMA InitMaps == Init => Histories!TInit
  <1>1. << >> \in Checkpoint /\ << >> \in Seq(Nat) /\ Len(<< >>) = 0
    BY DEF Checkpoint
  <1>2. TurnsOf(<< >>) = << >>
    BY <1>1, TurnsOfType, EmptySeq
  <1>3. QED
    BY <1>2 DEF Init, NewLedger, Histories!TInit

(* Every step of the ledgers is a step of Transcript or a stutter.         *)
LEMMA NextMaps == IInv /\ [Next]_vars => [Histories!TNext]_(Histories!tvars)
  <1> SUFFICES ASSUME IInv, [Next]_vars
               PROVE  [Histories!TNext]_(Histories!tvars)
    OBVIOUS
  <1>1. CASE \E w \in Writers : Writer(w)
    <2>1. PICK w \in Writers : Writer(w)
      BY <1>1
    <2>2. CASE \E h \in Handles : Record(w, h)
      BY <2>2, RecordMaps DEF Histories!TNext
    <2>3. CASE held[w] # Idle
      <3>1. held[w].index \in Nat
        BY <2>3 DEF IInv, TypeOK
      <3>2. QED
        BY <2>1, <2>2, <2>3, <3>1, WriteMaps
        DEF Writer, Append_events_to, Append_events, Settle_turn_at, Settle_turn
    <2>4. QED
      BY <2>1, <2>2, <2>3
      DEF Writer, Append_events_to, Append_events, Settle_turn_at, Settle_turn
  <1>2. CASE \E h \in Handles : Host(h)
    <2>1. PICK h \in Handles : Host(h)
      BY <1>2
    <2>2. \A at \in 0 .. MaxTurns : at \in Nat
      BY BoundsAssumption
    <2>3. CASE RestoreCheckpoint(h)
      BY <2>3, CheckpointMaps DEF Histories!TNext
    <2>4. ASSUME NEW at \in 0 .. MaxTurns, TakeCheckpoint(h, at)
          PROVE  Histories!TNext
      BY <2>2, <2>4, CheckpointMaps DEF Histories!TNext
    <2>5. ASSUME NEW at \in 0 .. MaxTurns, NEW g \in Handles, ForkTo(h, g, at)
          PROVE  Histories!TNext
      BY <2>2, <2>5, ForkMaps DEF Histories!TNext
    <2>6. ASSUME NEW at \in 0 .. MaxTurns,
                 \/ ApplyCandidate(h, at) \/ DiscardFrom(h, at) \/ Rewind(h, at)
          PROVE  Histories!TNext
      BY <2>2, <2>6, EditMaps DEF Histories!TNext
    <2>7. ASSUME NEW at \in 0 .. MaxTurns,
                 SelectTurn(h, at) \/ ReleaseCandidate(h, at)
          PROVE  UNCHANGED Histories!tvars
      BY <2>2, <2>7, EditMaps
    <2>8. QED
      BY <2>1, <2>3, <2>4, <2>5, <2>6, <2>7 DEF Host
  <1>3. CASE UNCHANGED vars
    BY <1>3 DEF vars, Histories!tvars
  <1>4. QED
    BY <1>1, <1>2, <1>3 DEF Next

(* The ledgers of crates/goble-replay/src/lib.rs implement Transcript, for *)
(* every number of ledgers, writers, turns and events: no operation        *)
(* reorders, duplicates or rewrites the turns of a history, and none       *)
(* touches a history it was not called on.                                 *)
THEOREM Refinement == Spec => ImplementsTranscript
  <1>1. Spec => []IInv
    BY Invariance
  <1>2. Init => Histories!TInit
    BY InitMaps
  <1>3. IInv /\ [Next]_vars => [Histories!TNext]_(Histories!tvars)
    BY NextMaps
  <1>4. QED
    BY <1>1, <1>2, <1>3, PTL DEF Spec, ImplementsTranscript, Histories!TSpec
=============================================================================

---------------------------- MODULE DaemonProofs ----------------------------
(***************************************************************************)
(* Type correctness and the order of every turn list of the daemon, for    *)
(* any clients, any numbers of sessions, ledgers and drains, and any       *)
(* bounds.                                                                 *)
(*                                                                         *)
(* The inductive invariant restates both together: ledgers, checkpoints in *)
(* the store and checkpoints being written range over turn lists in the    *)
(* order of the runs started so far, and whatever refers to a run refers   *)
(* to one of those.                                                        *)
(***************************************************************************)
EXTENDS DaemonProps, LedgerTheorems

OrderedLists(n) == {cp \in Checkpoint : InOrder(cp, n)}

OrderedLedgers(n) == {l \in LedgerState : InOrder(l.turns, n)}

DrainsUpTo(n) ==
    {d \in Drain : (d.pc # "idle" => d.run \in 1 .. n) /\ InOrder(d.cp, n)}

IInv ==
    /\ heap \in [Ledgers -> OrderedLedgers(Len(runs))]
    /\ ledgers \in [Sessions -> Ledgers]
    /\ sessions \in [Sessions -> (1 .. Len(runs)) \cup {None}]
    /\ snapshots \in [Sessions -> Seq(Runs \cup {None})]
    /\ runs \in Seq(Run) /\ Len(runs) <= MaxRuns
    /\ drains \in [Drains -> DrainsUpTo(Len(runs))]
    /\ rewinds \in [Sessions -> Rewind \cup {None}]
    /\ store \in [Sessions -> OrderedLists(Len(runs)) \cup {None}]
    /\ restarts \in Nat /\ sinkErrors \in Nat
    /\ dropped \in [Sessions -> SUBSET Nat]

-----------------------------------------------------------------------------
(* The invariant gives the type and the order.                             *)
LEMMA IInvGives == IInv => TypeOK /\ HistoryOrdered
  <1> SUFFICES ASSUME IInv PROVE TypeOK /\ HistoryOrdered
    OBVIOUS
  <1>1. Len(runs) \in Nat
    BY DEF IInv
  <1>2. TypeOK
    BY <1>1 DEF IInv, TypeOK, OrderedLedgers, OrderedLists, DrainsUpTo
  <1>3. \A l \in Ledgers : InOrder(heap[l].turns, Len(runs))
    BY DEF IInv, OrderedLedgers
  <1>4. \A s \in Sessions : store[s] # None => InOrder(store[s], Len(runs))
    BY DEF IInv, OrderedLists
  <1>5. \A d \in Drains : InOrder(drains[d].cp, Len(runs))
    BY DEF IInv, DrainsUpTo
  <1>6. HistoryOrdered
    BY <1>3, <1>4, <1>5 DEF HistoryOrdered, Ordered, InOrder
  <1>7. QED
    BY <1>2, <1>6

(* What is in order stays so when runs are added.                          *)
LEMMA OrderMonotonic ==
    ASSUME NEW n \in Nat, NEW m \in Nat, n <= m
    PROVE  /\ OrderedLedgers(n) \subseteq OrderedLedgers(m)
           /\ OrderedLists(n) \subseteq OrderedLists(m)
           /\ DrainsUpTo(n) \subseteq DrainsUpTo(m)
  <1>1. OrderedLedgers(n) \subseteq OrderedLedgers(m)
    BY InOrderMonotonic DEF OrderedLedgers, LedgerState, Checkpoint
  <1>2. OrderedLists(n) \subseteq OrderedLists(m)
    BY InOrderMonotonic DEF OrderedLists
  <1>3. DrainsUpTo(n) \subseteq DrainsUpTo(m)
    <2>1. ASSUME NEW d \in DrainsUpTo(n)
          PROVE  d \in DrainsUpTo(m)
      <3>1. d.cp \in Checkpoint /\ InOrder(d.cp, n)
        BY DEF DrainsUpTo, Drain
      <3>2. InOrder(d.cp, m)
        BY <3>1, InOrderMonotonic
      <3>3. QED
        BY <3>2 DEF DrainsUpTo
    <2>2. QED
      BY <2>1
  <1>4. QED
    BY <1>1, <1>2, <1>3

(* No turns at all are in order.                                           *)
LEMMA EmptyInOrder ==
    ASSUME NEW n \in Nat
    PROVE  /\ << >> \in OrderedLists(n)
           /\ NewLedger \in OrderedLedgers(n)
           /\ IdleDrain \in DrainsUpTo(n)
  <1>1. << >> \in Checkpoint /\ InOrder(<< >>, n)
    BY DEF Checkpoint, InOrder
  <1>2. NewLedger \in LedgerState /\ NewLedger.turns = << >>
    BY <1>1, FromCheckpointType
  <1>3. IdleDrain \in Drain
    BY <1>1 DEF IdleDrain, Drain, DrainPc
  <1>4. QED
    BY <1>1, <1>2, <1>3 DEF OrderedLists, OrderedLedgers, DrainsUpTo, IdleDrain

(* What the operations on a ledger in order return.                        *)
LEMMA LedgerOps ==
    ASSUME NEW n \in Nat, NEW l \in OrderedLedgers(n), NEW at \in Nat,
           NEW e \in Nat, NEW st \in TurnStatus
    PROVE  /\ RecordTurn(l, n + 1) \in OrderedLedgers(n + 1)
           /\ RecordEvent(l, at, e) \in OrderedLedgers(n)
           /\ RecordOutcome(l, at, st) \in OrderedLedgers(n)
           /\ Select(l, at) \in OrderedLedgers(n)
           /\ Release(l, at) \in OrderedLedgers(n)
           /\ HasTurn(l, at) => /\ Apply(l, at) \in OrderedLedgers(n)
                                /\ Discard(l, at) \in OrderedLedgers(n)
           /\ RewindTo(l, at) \in OrderedLedgers(n)
           /\ Fork(l, at) \in OrderedLedgers(n)
           /\ l.turns \in OrderedLists(n)
  <1>1. l \in LedgerState /\ InOrder(l.turns, n) /\ l.turns \in Checkpoint
    BY DEF OrderedLedgers, LedgerState, Checkpoint
  <1>2. RecordTurn(l, n + 1) \in OrderedLedgers(n + 1)
    BY <1>1, RecordTurnType, RecordTurnInOrder DEF OrderedLedgers
  <1>3. RecordEvent(l, at, e) \in OrderedLedgers(n)
    <2>1. CASE HasTurn(l, at)
      <3> DEFINE new == AppendEventsTo(l, at, e)
      <3>1. /\ new \in LedgerState /\ Len(new.turns) = Len(l.turns)
            /\ \A j \in 1 .. Len(l.turns) :
                  /\ new.turns[j].index = l.turns[j].index
                  /\ new.turns[j].turn = l.turns[j].turn
        BY <1>1, <2>1, AppendEventsToType
      <3> HIDE DEF new
      <3>2. new.turns \in Checkpoint
        BY <3>1 DEF LedgerState, Checkpoint
      <3>3. InOrder(new.turns, n)
        BY <1>1, <3>1, <3>2, InOrderSame
      <3>4. QED
        BY <2>1, <3>1, <3>3 DEF RecordEvent, OrderedLedgers, new
    <2>2. CASE ~HasTurn(l, at)
      BY <2>2 DEF RecordEvent
    <2>3. QED
      BY <2>1, <2>2
  <1>4. RecordOutcome(l, at, st) \in OrderedLedgers(n)
    <2>1. CASE HasTurn(l, at)
      <3> DEFINE new == SettleTurnAt(l, at, st)
      <3>1. /\ new \in LedgerState /\ Len(new.turns) = Len(l.turns)
            /\ \A j \in 1 .. Len(l.turns) :
                  /\ new.turns[j].index = l.turns[j].index
                  /\ new.turns[j].turn = l.turns[j].turn
        BY <1>1, <2>1, SettleTurnAtType
      <3> HIDE DEF new
      <3>2. new.turns \in Checkpoint
        BY <3>1 DEF LedgerState, Checkpoint
      <3>3. InOrder(new.turns, n)
        BY <1>1, <3>1, <3>2, InOrderSame
      <3>4. QED
        BY <2>1, <3>1, <3>3 DEF RecordOutcome, OrderedLedgers, new
    <2>2. CASE ~HasTurn(l, at)
      BY <2>2 DEF RecordOutcome
    <2>3. QED
      BY <2>1, <2>2
  <1>5. QED
    BY <1>1, <1>2, <1>3, <1>4, MarkerType, TruncationType, CheckpointAtType,
       OperationsInOrder DEF OrderedLedgers, OrderedLists

-----------------------------------------------------------------------------
(* What a drain that is at work refers to.                                 *)
LEMMA DrainFacts ==
    ASSUME IInv, NEW d \in Drains, drains[d].pc # "idle"
    PROVE  /\ Len(runs) \in Nat
           /\ drains[d] \in DrainsUpTo(Len(runs))
           /\ drains[d].run \in 1 .. Len(runs)
           /\ drains[d].run \in Runs
           /\ RunOf(d) \in Run
           /\ RunOf(d).session \in Sessions
           /\ RunOf(d).ledger \in Ledgers
           /\ RunOf(d).index \in Nat
           /\ heap[RunOf(d).ledger] \in OrderedLedgers(Len(runs))
  <1>1. Len(runs) \in Nat /\ Len(runs) <= MaxRuns /\ MaxRuns \in Nat
    BY BoundsAssumption DEF IInv
  <1>2. drains[d] \in DrainsUpTo(Len(runs)) /\ drains[d].run \in 1 .. Len(runs)
    BY DEF IInv, DrainsUpTo
  <1>3. RunOf(d) \in Run
    BY <1>1, <1>2 DEF IInv, RunOf
  <1>4. RunOf(d).session \in Sessions /\ RunOf(d).ledger \in Ledgers
        /\ RunOf(d).index \in Nat
    BY <1>3 DEF Run
  <1>5. heap[RunOf(d).ledger] \in OrderedLedgers(Len(runs))
    BY <1>4 DEF IInv
  <1>6. QED
    BY <1>1, <1>2, <1>3, <1>4, <1>5 DEF Runs

(* Changing one run keeps the list of runs.                                *)
LEMMA RunUpdate ==
    ASSUME IInv, NEW r \in 1 .. Len(runs), NEW rec \in Run,
           runs' = [runs EXCEPT ![r] = rec]
    PROVE  runs' \in Seq(Run) /\ Len(runs') = Len(runs)
  BY ExceptSeq DEF IInv

(* A drain moves to another program counter, with a run and a checkpoint   *)
(* that fit.                                                               *)
LEMMA DrainUpdate ==
    ASSUME IInv, NEW d \in Drains, NEW new \in DrainsUpTo(Len(runs)),
           drains' = [drains EXCEPT ![d] = new]
    PROVE  drains' \in [Drains -> DrainsUpTo(Len(runs))]
  BY DEF IInv

(* One ledger is replaced by one in order.                                 *)
LEMMA HeapUpdate ==
    ASSUME IInv, NEW l \in Ledgers, NEW new \in OrderedLedgers(Len(runs)),
           heap' = [heap EXCEPT ![l] = new]
    PROVE  heap' \in [Ledgers -> OrderedLedgers(Len(runs))]
  BY DEF IInv

-----------------------------------------------------------------------------
(* The initial state satisfies the invariant.                              *)
LEMMA InitIInv == Init => IInv
  <1> SUFFICES ASSUME Init PROVE IInv
    OBVIOUS
  <1>1. runs = << >> /\ Len(runs) = 0 /\ 0 \in Nat /\ runs \in Seq(Run)
        /\ Len(runs) <= MaxRuns
    BY BoundsAssumption DEF Init
  <1>2. NewLedger \in OrderedLedgers(Len(runs)) /\ IdleDrain \in DrainsUpTo(Len(runs))
    BY <1>1, EmptyInOrder
  <1>3. << >> \in Seq(Runs \cup {None})
    OBVIOUS
  <1>4. QED
    BY <1>1, <1>2, <1>3 DEF Init, IInv

(* run records a turn: the only step that adds a run.                      *)
LEMMA RunRecordIInv ==
    ASSUME IInv, NEW s \in Sessions, RunRecord(s)
    PROVE  IInv'
  <1> DEFINE l   == ledgers[s]
             n   == Len(runs)
             rec == [session |-> s, ledger |-> l, index |-> RecordedIndex(heap[l]),
                     phase |-> "recorded", asked |-> FALSE,
                     cancelled |-> FALSE, mirror |-> 0]
  <1>1. n \in Nat /\ n + 1 \in Nat /\ n < MaxRuns /\ MaxRuns \in Nat
        /\ runs \in Seq(Run) /\ l \in Ledgers /\ heap[l] \in OrderedLedgers(n)
    BY BoundsAssumption DEF IInv, RunRecord
  <1>2. rec \in Run
    <2>1. RecordedIndex(heap[l]) \in Nat
      BY <1>1 DEF RecordedIndex, OrderedLedgers, LedgerState
    <2>2. QED
      BY <1>1, <2>1 DEF Run
  <1>3. runs' = Append(runs, rec) /\ heap' = [heap EXCEPT ![l] = RecordTurn(@, n + 1)]
        /\ UNCHANGED << ledgers, sessions, snapshots, drains, rewinds, store,
                        restarts, sinkErrors, dropped >>
    BY DEF RunRecord
  <1>4. RecordTurn(heap[l], n + 1) \in OrderedLedgers(n + 1)
    <2>1. "Running" \in TurnStatus
      BY DEF TurnStatus
    <2>2. QED
      BY <1>1, <2>1, LedgerOps
  <1> HIDE DEF rec, l
  <1>5. runs' \in Seq(Run) /\ Len(runs') = n + 1 /\ Len(runs') <= MaxRuns
    BY <1>1, <1>2, <1>3
  <1>6. /\ OrderedLedgers(n) \subseteq OrderedLedgers(n + 1)
        /\ OrderedLists(n) \subseteq OrderedLists(n + 1)
        /\ DrainsUpTo(n) \subseteq DrainsUpTo(n + 1)
        /\ 1 .. n \subseteq 1 .. n + 1
    BY <1>1, OrderMonotonic
  <1>7. heap' \in [Ledgers -> OrderedLedgers(n + 1)]
    BY <1>1, <1>3, <1>4, <1>6 DEF IInv
  <1>8. /\ sessions' \in [Sessions -> (1 .. n + 1) \cup {None}]
        /\ drains' \in [Drains -> DrainsUpTo(n + 1)]
        /\ store' \in [Sessions -> OrderedLists(n + 1) \cup {None}]
    BY <1>3, <1>6 DEF IInv
  <1> HIDE DEF n
  <1>9. QED
    BY <1>3, <1>5, <1>7, <1>8 DEF IInv

(* The calls that start and stop streams.                                  *)
LEMMA SpawnFacts ==
    ASSUME IInv, NEW d \in Drains, NEW r \in 1 .. Len(runs), Spawn(d, r)
    PROVE  drains' \in [Drains -> DrainsUpTo(Len(runs))]
  <1>1. Len(runs) \in Nat /\ r \in Nat
    BY DEF IInv
  <1> DEFINE new == [IdleDrain EXCEPT !.pc = "streaming", !.run = r]
  <1>2. new \in DrainsUpTo(Len(runs))
    <2>1. IdleDrain \in Drain /\ InOrder(IdleDrain.cp, Len(runs))
      BY <1>1, EmptyInOrder DEF DrainsUpTo
    <2>2. new.cp = IdleDrain.cp /\ new.run = r /\ new \in Drain
      BY <1>1, <2>1 DEF Drain, DrainPc
    <2>3. QED
      BY <2>1, <2>2 DEF DrainsUpTo
  <1>3. QED
    BY <1>2, DrainUpdate DEF Spawn

(* Registering a run and answering it.                                     *)
LEMMA SessionCallsIInv ==
    ASSUME IInv, NEW d \in Drains, NEW r \in 1 .. Len(runs), NEW s \in Sessions,
           RunStart(r, d) \/ Resume(s, d)
    PROVE  IInv'
  <1>1. Len(runs) \in Nat /\ runs \in Seq(Run)
    BY DEF IInv
  <1>2. CASE RunStart(r, d)
    <2>0. runs[r] \in Run
      BY <1>1
    <2>1. runs[r] \in Run /\ runs[r].session \in Sessions
      BY <2>0 DEF Run
    <2>2. runs' \in Seq(Run) /\ Len(runs') = Len(runs)
      <3>1. [runs[r] EXCEPT !.phase = "live"] \in Run
        BY <2>1 DEF Run
      <3>2. runs' = [runs EXCEPT ![r] = [runs[r] EXCEPT !.phase = "live"]]
        BY <1>2 DEF RunStart
      <3>3. QED
        BY <3>1, <3>2, RunUpdate
    <2>3. drains' \in [Drains -> DrainsUpTo(Len(runs))]
      BY <1>2, SpawnFacts DEF RunStart
    <2>4. sessions' \in [Sessions -> (1 .. Len(runs)) \cup {None}]
      BY <1>2, <2>1 DEF RunStart, IInv
    <2>5. QED
      BY <1>2, <2>2, <2>3, <2>4 DEF RunStart, IInv
  <1>3. ASSUME sessions[s] # None
        PROVE  sessions[s] \in 1 .. Len(runs) /\ runs[sessions[s]] \in Run
    <2>1. sessions[s] \in 1 .. Len(runs)
      BY <1>3 DEF IInv
    <2>2. QED
      BY <1>1, <2>1
  <1>4. CASE Resume(s, d)
    <2> DEFINE q == sessions[s]
    <2>1. q \in 1 .. Len(runs) /\ runs[q] \in Run
      BY <1>3, <1>4 DEF Resume
    <2>2. runs' \in Seq(Run) /\ Len(runs') = Len(runs)
      <3>1. [runs[q] EXCEPT !.asked = FALSE] \in Run
        BY <2>1 DEF Run
      <3>2. runs' = [runs EXCEPT ![q] = [runs[q] EXCEPT !.asked = FALSE]]
        BY <1>4 DEF Resume
      <3>3. QED
        BY <2>1, <3>1, <3>2, RunUpdate
    <2>3. drains' \in [Drains -> DrainsUpTo(Len(runs))]
      BY <1>4, <2>1, SpawnFacts DEF Resume
    <2>4. QED
      BY <1>4, <2>2, <2>3 DEF Resume, IInv
  <1>5. QED
    BY <1>2, <1>4

(* Cancelling only sets the run's flag.                                    *)
LEMMA CancelIInv ==
    ASSUME IInv, NEW s \in Sessions, Cancel(s)
    PROVE  IInv'
  <1>1. sessions[s] \in 1 .. Len(runs) /\ runs[sessions[s]] \in Run
        /\ runs \in Seq(Run)
    BY DEF Cancel, IInv
  <1>2. [runs[sessions[s]] EXCEPT !.cancelled = TRUE] \in Run
    BY <1>1 DEF Run
  <1>3. runs' \in Seq(Run) /\ Len(runs') = Len(runs)
    BY <1>1, <1>2, RunUpdate DEF Cancel
  <1>4. QED
    BY <1>3 DEF Cancel, IInv

-----------------------------------------------------------------------------
(* The steps of a drain, one lemma each.                                   *)

(* A run with another mirror and another answer to whether it asked.       *)
LEMMA RunStreamed ==
    ASSUME NEW run \in Run, NEW m \in Nat, NEW b \in BOOLEAN
    PROVE  [run EXCEPT !.mirror = m, !.asked = b] \in Run
  BY DEF Run

(* An event with no wire form is recorded.                                 *)
LEMMA HiddenItemIInv ==
    ASSUME IInv, NEW d \in Drains, HiddenItem(d)
    PROVE  IInv'
  <1> DEFINE n == Len(runs)
             i == RunOf(d).index
             l == RunOf(d).ledger
  <1>1. drains[d].pc = "streaming"
    BY DEF HiddenItem
  <1>2. n \in Nat /\ l \in Ledgers /\ i \in Nat /\ heap[l] \in OrderedLedgers(n)
    BY <1>1, DrainFacts DEF RunOf
  <1>3. Hidden \in Nat /\ "Running" \in TurnStatus
    BY DEF Hidden, TurnStatus
  <1>4. RecordEvent(heap[l], i, Hidden) \in OrderedLedgers(n)
    BY <1>2, <1>3, LedgerOps
  <1>5. heap' \in [Ledgers -> OrderedLedgers(n)]
    BY <1>2, <1>4, HeapUpdate DEF HiddenItem
  <1>6. QED
    BY <1>5 DEF HiddenItem, IInv

(* An event of the stream is recorded.                                     *)
LEMMA StreamItemIInv ==
    ASSUME IInv, NEW d \in Drains,
           NEW kind \in WireKinds, StreamItem(d, kind)
    PROVE  IInv'
  <1> DEFINE r    == drains[d].run
             n    == Len(runs)
             rec  == [runs[r] EXCEPT !.mirror = @ + 1, !.asked = @ \/ kind = "ask"]
             next == [drains[d] EXCEPT
                        !.pc = IF kind = "ask" THEN "closing" ELSE @,
                        !.final = IF kind \in {"delta", "ask"} THEN @ ELSE kind]
  <1>1. drains[d].pc \in {"streaming", "closing"}
    BY DEF StreamItem, MayStream
  <1>2. /\ n \in Nat /\ drains[d] \in DrainsUpTo(n) /\ r \in 1 .. n
        /\ runs[r] \in Run /\ runs[r].ledger \in Ledgers /\ runs[r].index \in Nat
        /\ heap[runs[r].ledger] \in OrderedLedgers(n)
    BY <1>1, DrainFacts DEF RunOf
  <1>3. heap' \in [Ledgers -> OrderedLedgers(n)]
    <2>1. RecordEvent(heap[runs[r].ledger], runs[r].index, r) \in OrderedLedgers(n)
      <3>1. "Running" \in TurnStatus /\ r \in Nat
        BY <1>2 DEF TurnStatus
      <3>2. QED
        BY <1>2, <3>1, LedgerOps
    <2>2. QED
      BY <1>2, <2>1, HeapUpdate DEF StreamItem
  <1>4. runs' \in Seq(Run) /\ Len(runs') = n
    <2>1. rec \in Run
      <3>1. runs[r].mirror + 1 \in Nat
        BY <1>2 DEF Run
      <3>2. (runs[r].asked \/ kind = "ask") \in BOOLEAN
        OBVIOUS
      <3>3. QED
        BY <1>2, <3>1, <3>2, RunStreamed, Zenon
    <2>2. runs' = [runs EXCEPT ![r] = rec]
      BY DEF StreamItem
    <2> HIDE DEF rec, r
    <2>3. QED
      BY <1>2, <2>1, <2>2, RunUpdate
  <1>5. drains' \in [Drains -> DrainsUpTo(n)]
    <2>1. drains[d] \in Drain /\ InOrder(drains[d].cp, n)
      BY <1>2 DEF DrainsUpTo
    <2>2. next \in Drain /\ next.run = r /\ next.cp = drains[d].cp
      BY <1>1, <2>1 DEF Drain, DrainPc, WireKinds
    <2>3. next \in DrainsUpTo(n)
      BY <1>2, <2>1, <2>2 DEF DrainsUpTo
    <2>4. drains' = [drains EXCEPT ![d] = next]
      BY DEF StreamItem
    <2>5. QED
      BY <2>3, <2>4, DrainUpdate
  <1>6. QED
    BY <1>3, <1>4, <1>5 DEF StreamItem, IInv

(* A drain that only moves on.                                             *)
LEMMA GotoFacts ==
    ASSUME IInv, NEW d \in Drains, drains[d].pc # "idle", NEW pc \in DrainPc,
           Goto(d, pc)
    PROVE  drains' \in [Drains -> DrainsUpTo(Len(runs))]
  <1> DEFINE next == [drains[d] EXCEPT !.pc = pc]
  <1>1. drains[d] \in DrainsUpTo(Len(runs)) /\ drains[d].run \in 1 .. Len(runs)
    BY DrainFacts
  <1>2. drains[d] \in Drain /\ InOrder(drains[d].cp, Len(runs))
    BY <1>1 DEF DrainsUpTo
  <1>3. next \in Drain /\ next.run = drains[d].run /\ next.cp = drains[d].cp
    BY <1>2 DEF Drain
  <1>4. next \in DrainsUpTo(Len(runs))
    BY <1>1, <1>2, <1>3 DEF DrainsUpTo
  <1>5. QED
    BY <1>4, DrainUpdate DEF Goto

(* A drain that ends: its slot is free again.                              *)
LEMMA FreeFacts ==
    ASSUME IInv, NEW d \in Drains, drains' = [drains EXCEPT ![d] = IdleDrain]
    PROVE  drains' \in [Drains -> DrainsUpTo(Len(runs))]
  <1>1. Len(runs) \in Nat
    BY DEF IInv
  <1>2. QED
    BY <1>1, EmptyInOrder, DrainUpdate

(* The stream is over.                                                     *)
LEMMA StreamEndIInv ==
    ASSUME IInv, NEW d \in Drains, StreamEnd(d)
    PROVE  IInv'
  <1>1. drains[d].pc # "idle" /\ "ended" \in DrainPc
    BY DEF StreamEnd, DrainPc
  <1>2. drains' \in [Drains -> DrainsUpTo(Len(runs))]
    <2>1. CASE drains[d].final = "running"
      BY <2>1, FreeFacts DEF StreamEnd
    <2>2. CASE drains[d].final # "running"
      <3>1. Goto(d, "ended")
        BY <2>2 DEF StreamEnd, Goto
      <3>2. QED
        BY <1>1, <3>1, GotoFacts
    <2>3. QED
      BY <2>1, <2>2
  <1>3. QED
    BY <1>2 DEF StreamEnd, IInv

(* The turn is settled.                                                    *)
LEMMA DrainSettleIInv ==
    ASSUME IInv, NEW d \in Drains, DrainSettle(d)
    PROVE  IInv'
  <1>1. drains[d].pc # "idle" /\ "settled" \in DrainPc
    BY DEF DrainSettle, DrainPc
  <1>2. drains' \in [Drains -> DrainsUpTo(Len(runs))]
    BY <1>1, GotoFacts DEF DrainSettle
  <1>3. /\ RunOf(d).ledger \in Ledgers /\ RunOf(d).index \in Nat
        /\ heap[RunOf(d).ledger] \in OrderedLedgers(Len(runs)) /\ Len(runs) \in Nat
    BY <1>1, DrainFacts
  <1>4. StatusOf(drains[d].final) \in TurnStatus
    BY DEF StatusOf, TurnStatus
  <1>5. RecordOutcome(heap[RunOf(d).ledger], RunOf(d).index, StatusOf(drains[d].final))
          \in OrderedLedgers(Len(runs))
    BY <1>3, <1>4, LedgerOps
  <1>6. heap' \in [Ledgers -> OrderedLedgers(Len(runs))]
    BY <1>3, <1>5, HeapUpdate DEF DrainSettle
  <1>7. QED
    BY <1>2, <1>6 DEF DrainSettle, IInv

(* The snapshot log gets an entry, padded where turns left none.           *)
LEMMA LogPutType ==
    ASSUME NEW S, None \in S, NEW log \in Seq(S), NEW i \in Nat, NEW v \in S
    PROVE  LogPut(log, i, v) \in Seq(S)
  <1> DEFINE n == IF Len(log) <= i THEN i + 1 ELSE Len(log)
             f == [j \in 1 .. n |-> IF j = i + 1 THEN v
                                    ELSE IF j <= Len(log) THEN log[j] ELSE None]
  <1>1. Len(log) \in Nat /\ n \in Nat
    OBVIOUS
  <1>2. \A j \in 1 .. n : j <= Len(log) => log[j] \in S
    BY <1>1
  <1>3. \A j \in 1 .. n : f[j] \in S
    BY <1>1, <1>2
  <1>4. f \in [1 .. n -> S]
    BY <1>3
  <1> HIDE DEF n
  <1>5. f \in Seq(S)
    BY <1>1, <1>4
  <1>6. QED
    BY <1>5 DEF LogPut, n

(* The environment of the settled turn is logged.                          *)
LEMMA DrainSnapshotIInv ==
    ASSUME IInv, NEW d \in Drains, DrainSnapshot(d)
    PROVE  IInv'
  <1>1. drains[d].pc # "idle" /\ "snapped" \in DrainPc
    BY DEF DrainSnapshot, DrainPc
  <1>2. drains' \in [Drains -> DrainsUpTo(Len(runs))]
    BY <1>1, GotoFacts DEF DrainSnapshot
  <1>3. RunOf(d).session \in Sessions /\ RunOf(d).index \in Nat
        /\ drains[d].run \in Runs
    BY <1>1, DrainFacts
  <1>4. PICK snap \in {drains[d].run, None} :
           snapshots' = [snapshots EXCEPT ![RunOf(d).session] =
                           LogPut(@, RunOf(d).index, snap)]
    BY DEF DrainSnapshot
  <1>5. LogPut(snapshots[RunOf(d).session], RunOf(d).index, snap)
          \in Seq(Runs \cup {None})
    <2>1. snapshots[RunOf(d).session] \in Seq(Runs \cup {None})
      BY <1>3 DEF IInv
    <2>2. QED
      BY <1>3, <2>1, LogPutType
  <1>6. snapshots' \in [Sessions -> Seq(Runs \cup {None})]
    BY <1>4, <1>5 DEF IInv
  <1>7. QED
    BY <1>2, <1>6 DEF DrainSnapshot, IInv

(* The checkpoint is taken under the sink's lock ...                       *)
LEMMA DrainCheckpointIInv ==
    ASSUME IInv, NEW d \in Drains, DrainCheckpoint(d)
    PROVE  IInv'
  <1> DEFINE turns == heap[RunOf(d).ledger].turns
             next  == [drains[d] EXCEPT !.pc = "persisting", !.cp = turns]
  <1>1. drains[d].pc # "idle"
    BY DEF DrainCheckpoint
  <1>2. /\ Len(runs) \in Nat /\ drains[d] \in DrainsUpTo(Len(runs))
        /\ drains[d].run \in 1 .. Len(runs)
        /\ heap[RunOf(d).ledger] \in OrderedLedgers(Len(runs))
    BY <1>1, DrainFacts
  <1>3. turns \in Checkpoint /\ InOrder(turns, Len(runs))
    BY <1>2 DEF OrderedLedgers, LedgerState, Checkpoint
  <1>4. drains' = [drains EXCEPT ![d] = next]
    BY DEF DrainCheckpoint
  <1> HIDE DEF turns
  <1>5. next \in Drain /\ next.run = drains[d].run /\ next.cp = turns
    BY <1>2, <1>3 DEF Drain, DrainPc, DrainsUpTo
  <1>6. next \in DrainsUpTo(Len(runs))
    BY <1>2, <1>3, <1>5 DEF DrainsUpTo
  <1>7. drains' \in [Drains -> DrainsUpTo(Len(runs))]
    BY <1>4, <1>6, DrainUpdate
  <1>8. QED
    BY <1>7 DEF DrainCheckpoint, IInv

(* ... and written, or lost by the store.                                  *)
LEMMA DrainPersistIInv ==
    ASSUME IInv, NEW d \in Drains, DrainPersist(d)
    PROVE  IInv'
  <1> DEFINE next == [drains[d] EXCEPT !.pc = "persisted", !.cp = << >>]
  <1>1. drains[d].pc # "idle"
    BY DEF DrainPersist
  <1>2. /\ Len(runs) \in Nat /\ drains[d] \in DrainsUpTo(Len(runs))
        /\ drains[d].run \in 1 .. Len(runs) /\ RunOf(d).session \in Sessions
    BY <1>1, DrainFacts
  <1>3. << >> \in Checkpoint /\ InOrder(<< >>, Len(runs))
    BY <1>2, EmptyInOrder DEF OrderedLists
  <1>4. next \in Drain /\ next.run = drains[d].run /\ next.cp = << >>
    BY <1>2, <1>3 DEF Drain, DrainPc, DrainsUpTo
  <1>5. next \in DrainsUpTo(Len(runs))
    BY <1>2, <1>3, <1>4 DEF DrainsUpTo
  <1>6. drains' = [drains EXCEPT ![d] = next]
    BY DEF DrainPersist
  <1>7. drains' \in [Drains -> DrainsUpTo(Len(runs))]
    BY <1>5, <1>6, DrainUpdate
  <1>8. drains[d].cp \in OrderedLists(Len(runs))
    BY <1>2 DEF DrainsUpTo, Drain, OrderedLists
  <1>9. /\ store' \in [Sessions -> OrderedLists(Len(runs)) \cup {None}]
        /\ sinkErrors' \in Nat
    <2>1. CASE store' = [store EXCEPT ![RunOf(d).session] = drains[d].cp]
               /\ UNCHANGED sinkErrors
      BY <1>2, <1>8, <2>1 DEF IInv
    <2>2. CASE sinkErrors' = sinkErrors + 1 /\ UNCHANGED store
      BY <2>2 DEF IInv
    <2>3. QED
      BY <2>1, <2>2 DEF DrainPersist
  <1>10. QED
    BY <1>7, <1>9 DEF DrainPersist, IInv

(* The turn is reported, then its session unregistered.                    *)
LEMMA DrainFinishIInv ==
    ASSUME IInv, NEW d \in Drains, DrainReport(d) \/ DrainRemove(d)
    PROVE  IInv'
  <1>1. drains[d].pc # "idle" /\ "reported" \in DrainPc
    BY DEF DrainReport, DrainRemove, DrainPc
  <1>2. CASE DrainReport(d)
    <2> DEFINE r == drains[d].run
    <2>1. r \in 1 .. Len(runs) /\ runs[r] \in Run
      BY <1>1, DrainFacts DEF RunOf
    <2>2. runs' \in Seq(Run) /\ Len(runs') = Len(runs)
      <3>1. [runs[r] EXCEPT !.phase = "finished"] \in Run
        BY <2>1 DEF Run
      <3>2. runs' = [runs EXCEPT ![r] = [runs[r] EXCEPT !.phase = "finished"]]
        BY <1>2 DEF DrainReport
      <3>3. QED
        BY <2>1, <3>1, <3>2, RunUpdate
    <2>3. drains' \in [Drains -> DrainsUpTo(Len(runs))]
      BY <1>1, <1>2, GotoFacts DEF DrainReport
    <2>4. QED
      BY <1>2, <2>2, <2>3 DEF DrainReport, IInv
  <1>3. CASE DrainRemove(d)
    <2>1. drains' \in [Drains -> DrainsUpTo(Len(runs))]
      BY <1>3, FreeFacts DEF DrainRemove
    <2>2. sessions' \in [Sessions -> (1 .. Len(runs)) \cup {None}]
      BY <1>3 DEF DrainRemove, IInv
    <2>3. QED
      BY <1>3, <2>1, <2>2 DEF DrainRemove, IInv
  <1>4. QED
    BY <1>2, <1>3

-----------------------------------------------------------------------------
(* The calls that edit a history.                                          *)

(* The turns of a list are numbers.                                        *)
LEMMA TurnSetType ==
    ASSUME NEW turns \in Checkpoint
    PROVE  TurnSet(turns) \subseteq Nat
  <1>1. \A i \in 1 .. Len(turns) : turns[i] \in TurnRecord
    BY ElementOfSeq DEF Checkpoint
  <1>2. QED
    BY <1>1 DEF TurnSet, TurnRecord

(* What a call on session s finds.                                         *)
LEMMA SessionFacts ==
    ASSUME IInv, NEW s \in Sessions
    PROVE  /\ Len(runs) \in Nat
           /\ ledgers[s] \in Ledgers
           /\ heap[ledgers[s]] \in OrderedLedgers(Len(runs))
           /\ heap[ledgers[s]].turns \in Checkpoint
           /\ \A at \in 0 .. MaxRuns : at \in Nat
           /\ "Running" \in TurnStatus
  BY BoundsAssumption DEF IInv, OrderedLedgers, LedgerState, Checkpoint, TurnStatus

(* The ledger of a session is replaced by one in order.                    *)
LEMMA ReplaceIInv ==
    ASSUME IInv, NEW s \in Sessions, NEW l \in OrderedLedgers(Len(runs)),
           Replace(s, l),
           UNCHANGED << ledgers, sessions, snapshots, runs, drains, rewinds,
                        store, restarts, sinkErrors >>
    PROVE  IInv'
  <1>1. heap' \in [Ledgers -> OrderedLedgers(Len(runs))]
    BY SessionFacts, HeapUpdate DEF Replace
  <1>2. TurnSet(heap[ledgers[s]].turns) \subseteq Nat
    BY SessionFacts, TurnSetType
  <1>3. dropped' \in [Sessions -> SUBSET Nat]
    BY <1>2 DEF Replace, IInv
  <1>4. QED
    BY <1>1, <1>3 DEF IInv

(* The settlement of a candidate.                                          *)
LEMMA CandidateIInv ==
    ASSUME IInv, NEW s \in Sessions, NEW at \in 0 .. MaxRuns,
           \/ SelectTurn(s, at) \/ ApplyCandidate(s, at)
           \/ ReleaseCandidate(s, at) \/ DiscardFrom(s, at)
    PROVE  IInv'
  <1> DEFINE l == heap[ledgers[s]]
  <1>1. /\ Select(l, at) \in OrderedLedgers(Len(runs))
        /\ Release(l, at) \in OrderedLedgers(Len(runs))
        /\ HasTurn(l, at) => /\ Apply(l, at) \in OrderedLedgers(Len(runs))
                             /\ Discard(l, at) \in OrderedLedgers(Len(runs))
    BY SessionFacts, LedgerOps
  <1>2. CASE SelectTurn(s, at)
    BY <1>1, <1>2, ReplaceIInv DEF SelectTurn
  <1>3. CASE ApplyCandidate(s, at)
    BY <1>1, <1>3, ReplaceIInv DEF ApplyCandidate, CanApply
  <1>4. CASE ReleaseCandidate(s, at)
    BY <1>1, <1>4, ReplaceIInv DEF ReleaseCandidate
  <1>5. CASE DiscardFrom(s, at)
    BY <1>1, <1>5, ReplaceIInv DEF DiscardFrom
  <1>6. QED
    BY <1>2, <1>3, <1>4, <1>5

(* fork puts a new ledger under an id.                                     *)
LEMMA ForkIInv ==
    ASSUME IInv, NEW s \in Sessions, NEW at \in 0 .. MaxRuns, NEW t \in Sessions,
           ForkTo(s, at, t)
    PROVE  IInv'
  <1> DEFINE branch == Fork(heap[ledgers[s]], at)
  <1>1. PICK l \in Ledgers :
           /\ heap' = [heap EXCEPT ![l] = branch]
           /\ ledgers' = [ledgers EXCEPT ![t] = l]
           /\ dropped' = [dropped EXCEPT ![t] =
                 (@ \cup TurnSet(heap[ledgers[t]].turns)) \ TurnSet(branch.turns)]
    BY DEF ForkTo
  <1>2. branch \in OrderedLedgers(Len(runs))
    BY SessionFacts, LedgerOps
  <1>3. TurnSet(heap[ledgers[t]].turns) \subseteq Nat
    BY SessionFacts, TurnSetType
  <1> HIDE DEF branch
  <1>4. heap' \in [Ledgers -> OrderedLedgers(Len(runs))]
    BY <1>1, <1>2, HeapUpdate
  <1>5. ledgers' \in [Sessions -> Ledgers] /\ dropped' \in [Sessions -> SUBSET Nat]
    BY <1>1, <1>3 DEF IInv
  <1>6. QED
    BY <1>4, <1>5 DEF ForkTo, IInv

(* rewind checks, restores and truncates.                                  *)
LEMMA RewindIInv ==
    ASSUME IInv, NEW s \in Sessions,
           \/ \E at \in 0 .. MaxRuns : RewindCheck(s, at)
           \/ RewindRestore(s) \/ RewindTruncate(s)
    PROVE  IInv'
  <1>1. ASSUME NEW at \in 0 .. MaxRuns, RewindCheck(s, at)
        PROVE  IInv'
    <2>1. [phase |-> "checked", at |-> at, ledger |-> ledgers[s],
           snap |-> None, kept |-> 0] \in Rewind
      BY SessionFacts DEF Rewind
    <2>2. rewinds' \in [Sessions -> Rewind \cup {None}]
      BY <1>1, <2>1 DEF RewindCheck, IInv
    <2>3. QED
      BY <1>1, <2>2 DEF RewindCheck, IInv
  <1>2. ASSUME rewinds[s] # None
        PROVE  /\ rewinds[s] \in Rewind
               /\ rewinds[s].at \in Nat /\ rewinds[s].ledger \in Ledgers
    BY <1>2 DEF IInv, Rewind
  <1>3. CASE RewindRestore(s)
    <2> DEFINE l  == ledgers[s]
               n  == Len(heap[l].turns)
               at == MinOf(rewinds[s].at, n)
               new(snap) == [phase |-> "restored", at |-> at, ledger |-> l,
                             snap |-> snap,
                             kept |-> IF snap = None THEN 0
                                      ELSE heap[l].turns[at].turn]
    <2>1. n \in Nat /\ at \in 0 .. n /\ l \in Ledgers /\ heap[l].turns \in Checkpoint
      <3>1. l \in Ledgers /\ heap[l].turns \in Checkpoint
        BY SessionFacts
      <3>2. n \in Nat
        BY <3>1 DEF Checkpoint
      <3>3. rewinds[s].at \in Nat
        BY <1>2, <1>3 DEF RewindRestore
      <3> HIDE DEF n
      <3>4. at \in 0 .. n
        BY <3>2, <3>3 DEF MinOf
      <3>5. QED
        BY <3>1, <3>2, <3>4
    <2>2. PICK snap \in IF at > 0 /\ HasTurn(heap[l], at)
                        THEN {None, SnapshotAt(s, at)} ELSE {None} :
             rewinds' = [rewinds EXCEPT ![s] = new(snap)]
      BY <1>3 DEF RewindRestore
    <2> HIDE DEF at, n
    <2>3. ASSUME at > 0
          PROVE  SnapshotAt(s, at) \in Runs \cup {None}
      <3>1. snapshots[s] \in Seq(Runs \cup {None}) /\ at \in Nat
        BY <2>1 DEF IInv
      <3>2. CASE at <= Len(snapshots[s])
        <4>1. at \in 1 .. Len(snapshots[s])
          BY <2>3, <3>1, <3>2
        <4>2. snapshots[s][at] \in Runs \cup {None}
          BY <3>1, <4>1, ElementOfSeq
        <4>3. QED
          BY <3>2, <4>2 DEF SnapshotAt
      <3>3. CASE ~(at <= Len(snapshots[s]))
        BY <3>3 DEF SnapshotAt
      <3>4. QED
        BY <3>2, <3>3
    <2>4. snap \in Runs \cup {None}
      BY <2>2, <2>3
    <2>5. snap # None => heap[l].turns[at].turn \in Nat
      <3>1. snap # None => at \in 1 .. Len(heap[l].turns)
        BY <2>1, <2>2 DEF n
      <3>2. ASSUME at \in 1 .. Len(heap[l].turns)
            PROVE  heap[l].turns[at] \in TurnRecord
        BY <2>1, <3>2, ElementOfSeq DEF Checkpoint
      <3>3. QED
        BY <3>1, <3>2 DEF TurnRecord
    <2>6. new(snap) \in Rewind
      <3>1. at \in Nat /\ (IF snap = None THEN 0 ELSE heap[l].turns[at].turn) \in Nat
        BY <2>1, <2>5
      <3>2. QED
        BY <2>1, <2>4, <3>1 DEF Rewind
    <2>7. rewinds' \in [Sessions -> Rewind \cup {None}]
      BY <2>2, <2>6 DEF IInv
    <2>8. QED
      BY <1>3, <2>7 DEF RewindRestore, IInv
  <1>4. CASE RewindTruncate(s)
    <2> DEFINE l   == rewinds[s].ledger
               new == RewindTo(heap[l], rewinds[s].at)
    <2>1. rewinds[s].at \in Nat /\ l \in Ledgers
      BY <1>2, <1>4 DEF RewindTruncate
    <2>2. heap[l] \in OrderedLedgers(Len(runs)) /\ heap[l].turns \in Checkpoint
      BY <2>1 DEF IInv, OrderedLedgers, LedgerState, Checkpoint
    <2>3. new \in OrderedLedgers(Len(runs))
      BY <2>1, <2>2, SessionFacts, LedgerOps
    <2>4. TurnSet(heap[l].turns) \subseteq Nat
      BY <2>2, TurnSetType
    <2>5. /\ heap' = [heap EXCEPT ![l] = new]
          /\ dropped' = [dropped EXCEPT ![s] =
                @ \cup (TurnSet(heap[l].turns) \ TurnSet(new.turns))]
      BY <1>4 DEF RewindTruncate
    <2> HIDE DEF l, new
    <2>6. heap' \in [Ledgers -> OrderedLedgers(Len(runs))]
      BY <2>1, <2>3, <2>5, HeapUpdate
    <2>7. dropped' \in [Sessions -> SUBSET Nat]
      BY <2>4, <2>5 DEF IInv
    <2>8. rewinds' \in [Sessions -> Rewind \cup {None}]
      BY <1>4 DEF RewindTruncate, IInv
    <2>9. QED
      BY <1>4, <2>6, <2>7, <2>8 DEF RewindTruncate, IInv
  <1>5. QED
    BY <1>1, <1>3, <1>4

(* A restart rebuilds the ledgers from the store.                          *)
LEMMA RestartIInv ==
    ASSUME IInv, Restart
    PROVE  IInv'
  <1>1. Len(runs) \in Nat /\ runs \in Seq(Run)
    BY DEF IInv
  <1>2. /\ NewLedger \in OrderedLedgers(Len(runs))
        /\ IdleDrain \in DrainsUpTo(Len(runs))
    BY <1>1, EmptyInOrder
  <1>3. ASSUME NEW s \in Sessions
        PROVE  Restored(s) \in OrderedLedgers(Len(runs))
    <2>1. CASE store[s] = None
      BY <1>2, <2>1 DEF Restored
    <2>2. CASE store[s] # None
      <3>1. store[s] \in Checkpoint /\ InOrder(store[s], Len(runs))
        BY <2>2 DEF IInv, OrderedLists
      <3>2. FromCheckpoint(store[s]) \in LedgerState
            /\ FromCheckpoint(store[s]).turns = store[s]
        BY <3>1, FromCheckpointType
      <3>3. QED
        BY <2>2, <3>1, <3>2 DEF Restored, OrderedLedgers
    <2>3. QED
      BY <2>1, <2>2
  <1>4. heap' \in [Ledgers -> OrderedLedgers(Len(runs))]
    <2>1. \A l \in Ledgers :
             (\E s \in Sessions : ledgers[s] = l)
                => (CHOOSE s \in Sessions : ledgers[s] = l) \in Sessions
      OBVIOUS
    <2>2. \A l \in Ledgers :
             (IF \E s \in Sessions : ledgers[s] = l
              THEN Restored(CHOOSE s \in Sessions : ledgers[s] = l)
              ELSE NewLedger) \in OrderedLedgers(Len(runs))
      BY <1>2, <1>3, <2>1
    <2>3. QED
      BY <2>2 DEF Restart
  <1>5. runs' \in Seq(Run) /\ Len(runs') = Len(runs)
    <2> DEFINE new(r) == IF runs[r].phase = "finished" THEN runs[r]
                         ELSE [runs[r] EXCEPT !.phase = "lost"]
    <2>1. ASSUME NEW r \in 1 .. Len(runs)
          PROVE  new(r) \in Run
      <3>1. runs[r] \in Run
        BY <1>1, ElementOfSeq
      <3>2. [runs[r] EXCEPT !.phase = "lost"] \in Run
        BY <3>1 DEF Run
      <3>3. QED
        BY <3>1, <3>2
    <2>2. runs' = [r \in 1 .. Len(runs) |-> new(r)]
      BY DEF Restart
    <2> HIDE DEF new
    <2>3. QED
      BY <1>1, <2>1, <2>2
  <1>6. /\ sessions' \in [Sessions -> (1 .. Len(runs)) \cup {None}]
        /\ snapshots' \in [Sessions -> Seq(Runs \cup {None})]
        /\ drains' \in [Drains -> DrainsUpTo(Len(runs))]
        /\ rewinds' \in [Sessions -> Rewind \cup {None}]
        /\ restarts' \in Nat
    BY <1>2 DEF Restart, IInv
  <1>7. QED
    BY <1>4, <1>5, <1>6 DEF Restart, IInv

-----------------------------------------------------------------------------
(* Every step keeps the invariant.                                         *)
LEMMA NextIInv == IInv /\ [Next]_vars => IInv'
  <1> SUFFICES ASSUME IInv, [Next]_vars PROVE IInv'
    OBVIOUS
  <1>1. ASSUME NEW d \in Drains, DrainStep(d)
        PROVE  IInv'
    BY <1>1, StreamItemIInv, HiddenItemIInv, StreamEndIInv, DrainSettleIInv, DrainSnapshotIInv,
       DrainCheckpointIInv, DrainPersistIInv, DrainFinishIInv DEF DrainStep
  <1>2. ASSUME NEW r \in 1 .. Len(runs), NEW d \in Drains, RunStart(r, d)
        PROVE  IInv'
    <2>1. runs[r].session \in Sessions
      <3>1. runs[r] \in Run
        BY DEF IInv
      <3>2. QED
        BY <3>1 DEF Run
    <2>2. QED
      BY <1>2, <2>1, SessionCallsIInv
  <1>3. ASSUME NEW s \in Sessions, CallStep(s)
        PROVE  IInv'
    BY <1>3, RewindIInv DEF CallStep
  <1>4. ASSUME NEW s \in Sessions, Call(s)
        PROVE  IInv'
    <2>1. CASE \E d \in Drains : Resume(s, d)
      <3>1. PICK d \in Drains : Resume(s, d)
        BY <2>1
      <3>2. sessions[s] \in 1 .. Len(runs)
        BY <3>1 DEF Resume, IInv
      <3>3. QED
        BY <3>1, <3>2, SessionCallsIInv
    <2>2. QED
      BY <1>4, <2>1, RunRecordIInv, CancelIInv, RewindIInv, ForkIInv,
         CandidateIInv DEF Call
  <1>5. CASE UNCHANGED vars
    BY <1>5 DEF vars, IInv
  <1>6. QED
    BY <1>1, <1>2, <1>3, <1>4, <1>5, RestartIInv DEF Next

(* The inductive invariant holds of every behaviour of the daemon.         *)
THEOREM DaemonInvariance == Spec => []IInv
  BY InitIInv, NextIInv, PTL DEF Spec

(* Every map, run, drain, checkpoint and call of the daemon has its type,  *)
(* and whatever refers to a run refers to one that was started, for any    *)
(* clients and any bounds.                                                 *)
THEOREM DaemonTypeCorrect == Spec => []TypeOK
  <1>1. IInv => TypeOK
    BY IInvGives
  <1>2. QED
    BY <1>1, DaemonInvariance, PTL

(* Whatever clients do and whenever the process is restarted, every turn   *)
(* list in a ledger, in the store or on its way there is in the order of   *)
(* the runs and has contiguous indices.                                    *)
THEOREM DaemonHistoryOrdered == Spec => []HistoryOrdered
  <1>1. IInv => HistoryOrdered
    BY IInvGives
  <1>2. QED
    BY <1>1, DaemonInvariance, PTL
=============================================================================

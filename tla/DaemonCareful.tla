---------------------------- MODULE DaemonCareful ----------------------------
(***************************************************************************)
(* What the daemon keeps for clients that follow its protocol, for any     *)
(* numbers of sessions, ledgers and drains and any bounds.                 *)
(*                                                                         *)
(* That a finished turn is durable holds for all clients that do not edit  *)
(* live sessions, also if their turns overlap, and for all harnesses.      *)
(* Everything else is proved for the careful client, Client = {}, and for  *)
(* streams without an Error before or behind a question ("usage"), which   *)
(* would settle the turn under the drain that resumes it.  That the        *)
(* history agrees with the wire also needs streams that end with their     *)
(* question (no "late" events).                                            *)
(***************************************************************************)
EXTENDS DaemonProofs, FiniteSetTheorems

SessionOf(r) == runs[r].session

(* The record of run r is where its drains look for it.                    *)
InPlace(r) ==
    LET turns == TurnsOf(SessionOf(r)) IN
    runs[r].index < Len(turns) /\ turns[runs[r].index + 1].turn = r

(* Sessions own their ledgers: no two share one, and whatever was started  *)
(* on a session works on the ledger that is under its id.                  *)
OwnLedgers ==
    /\ \A s, t \in Sessions : s # t => ledgers[s] # ledgers[t]
    /\ \A r \in 1 .. Len(runs) : runs[r].ledger = ledgers[runs[r].session]
    /\ \A s \in Sessions : rewinds[s] # None => rewinds[s].ledger = ledgers[s]

-----------------------------------------------------------------------------
(* A run whose record something may still write to.                        *)
Writable(r) ==
    \/ runs[r].phase \in {"recorded", "live"}
    \/ \E s \in Sessions : sessions[s] = r
    \/ \E d \in Drains : drains[d].pc # "idle" /\ drains[d].run = r

Dropped(r) == r \in dropped[SessionOf(r)]

(* The checkpoint of a run has been written.                               *)
Saved(r) ==
    \/ runs[r].phase = "finished"
    \/ \E d \in Drains : drains[d].pc = "persisted" /\ drains[d].run = r

SettledPcs == {"settled", "snapped", "persisting", "persisted"}

(* The record of run r is settled.                                         *)
SettledNow(r) == SettledIn(TurnsOf(SessionOf(r)), r)

(* A record is there while something may write to it, ...                  *)
WritableInPlace ==
    \A r \in 1 .. Len(runs) : Writable(r) => InPlace(r) \/ Dropped(r)

(* ... a drain has settled it before it persists it, ...                   *)
DrainSettled ==
    \A d \in Drains : drains[d].pc \in SettledPcs =>
        SettledNow(drains[d].run) \/ Dropped(drains[d].run)

(* ... one drain at a time writes to the store, and what it writes has the *)
(* settled record of its own turn, ...                                     *)
OneWriter ==
    \A d, e \in Drains : drains[d].pc = "persisting" /\ drains[e].pc = "persisting" => d = e

WritesOwn ==
    \A d \in Drains : drains[d].pc = "persisting" =>
        SettledIn(drains[d].cp, drains[d].run) \/ Dropped(drains[d].run)

(* ... and what is saved is in the store, in the ledger, and in whatever   *)
(* is about to be written over it.                                         *)
Durable(r) ==
    /\ store[SessionOf(r)] # None /\ SettledIn(store[SessionOf(r)], r)
    /\ SettledNow(r)
    /\ \A d \in Drains :
          drains[d].pc = "persisting" /\ RunOf(d).session = SessionOf(r)
              => SettledIn(drains[d].cp, r)

SavedDurable ==
    sinkErrors = 0 =>
        \A r \in 1 .. Len(runs) : Saved(r) /\ ~Dropped(r) => Durable(r)

DurableInv == WritableInPlace /\ DrainSettled /\ OneWriter /\ WritesOwn /\ SavedDurable

-----------------------------------------------------------------------------
Pending(r) == runs[r].phase \in {"recorded", "live"}

(* A drain that has something left to do, which one that closes has not.   *)
Busy(d) == drains[d].pc \notin {"idle", "closing"}

(* One turn of a session is pending at a time, ...                         *)
OnePending ==
    \A r, q \in 1 .. Len(runs) :
        Pending(r) /\ Pending(q) /\ SessionOf(r) = SessionOf(q) => r = q

(* ... a live one is registered, and one that is not live yet finds the    *)
(* place free, ...                                                         *)
PendingRegistered ==
    \A r \in 1 .. Len(runs) :
        /\ runs[r].phase = "live" => sessions[SessionOf(r)] = r
        /\ runs[r].phase = "recorded" => sessions[SessionOf(r)] = None /\ ~runs[r].asked

(* ... what is registered belongs there, and only a live turn asks, ...    *)
SessionOwn ==
    \A s \in Sessions : sessions[s] # None =>
        /\ SessionOf(sessions[s]) = s
        /\ runs[sessions[s]].asked => runs[sessions[s]].phase = "live"

(* ... a busy drain works for a registered turn that is not waiting for an *)
(* answer, and is the only one that does, ...                              *)
BusyRegistered ==
    \A d \in Drains : Busy(d) =>
        /\ sessions[RunOf(d).session] = drains[d].run
        /\ RunOf(d).phase = IF drains[d].pc = "reported" THEN "finished" ELSE "live"
        /\ ~RunOf(d).asked

OneBusy ==
    \A d, e \in Drains : Busy(d) /\ Busy(e) /\ drains[d].run = drains[e].run => d = e

(* ... a stream that asked has not ended otherwise, ...                    *)
ClosingOpen == \A d \in Drains : drains[d].pc = "closing" => drains[d].final = "running"

(* ... and a session that is being rewound has no pending turn.            *)
RewindQuiet ==
    \A s \in Sessions : rewinds[s] # None =>
        sessions[s] = None /\ \A r \in RunsOf(s) : ~Pending(r)

RegisteredInv ==
    /\ OnePending /\ PendingRegistered /\ SessionOwn
    /\ BusyRegistered /\ OneBusy /\ ClosingOpen /\ RewindQuiet

(* Some drain of r is between settling and reporting it.                   *)
Settling(r) == \E d \in Drains : drains[d].pc \in SettledPcs /\ drains[d].run = r

(* The record of a pending turn is in place, and open until it settles.    *)
RecordInv ==
    \A r \in 1 .. Len(runs) : Pending(r) =>
        /\ InPlace(r)
        /\ TurnsOf(SessionOf(r))[runs[r].index + 1].status = "Running" \/ Settling(r)

(* Nothing will be streamed to run r any more.                             *)
Closed(r) == ~Pending(r) \/ Settling(r)

Agrees(turns, s) ==
    \A i \in 1 .. Len(turns) : SessionOf(turns[i].turn) = s => Faithful(turns[i])

ClosedIn(turns, s) ==
    \A i \in 1 .. Len(turns) : SessionOf(turns[i].turn) = s => Closed(turns[i].turn)

(* What is in a ledger agrees with the wire, and so does what is stored or *)
(* on its way there, where it will not change.                             *)
WireInv ==
    /\ \A s \in Sessions : Agrees(TurnsOf(s), s)
    /\ \A s \in Sessions :
           store[s] # None => Agrees(store[s], s) /\ ClosedIn(store[s], s)
    /\ \A d \in Drains : drains[d].pc = "persisting" =>
           Agrees(drains[d].cp, RunOf(d).session) /\ ClosedIn(drains[d].cp, RunOf(d).session)

(* The snapshot of r is not in the log yet.                                *)
Unsnapped(r) ==
    /\ Pending(r)
    /\ \A d \in Drains : drains[d].run = r
           => drains[d].pc \notin {"snapped", "persisting", "persisted"}

(* The log's entry for the turn at position i of session s is that turn's  *)
(* own, unless it has none yet, ...                                        *)
EntryOwn(s, i) ==
    LET r == TurnsOf(s)[i].turn IN
    i <= Len(snapshots[s]) =>
        \/ snapshots[s][i] \in {None, r}
        \/ SessionOf(r) = s /\ Unsnapped(r)

(* ... so what a rewind restores is the kept turn's.                       *)
SnapshotInv ==
    /\ \A s \in Sessions : \A i \in 1 .. Len(TurnsOf(s)) : EntryOwn(s, i)
    /\ \A s \in Sessions : snapshots[s] # << >> => RunsOf(s) # {}
    /\ RestoresKeptTurn

-----------------------------------------------------------------------------
(* What the steps do to runs, drains and ledgers, entry by entry.          *)

(* The types a proof needs most.                                           *)
LEMMA Basics ==
    ASSUME IInv
    PROVE  /\ Len(runs) \in Nat /\ runs \in Seq(Run)
           /\ \A r \in 1 .. Len(runs) :
                 /\ runs[r] \in Run /\ runs[r].session \in Sessions
                 /\ runs[r].ledger \in Ledgers /\ runs[r].index \in Nat
                 /\ runs[r].asked \in BOOLEAN /\ runs[r].mirror \in Nat /\ r \in Nat
           /\ \A s \in Sessions :
                 /\ ledgers[s] \in Ledgers /\ heap[ledgers[s]] \in LedgerState
                 /\ TurnsOf(s) \in Checkpoint /\ Len(TurnsOf(s)) \in Nat
                 /\ InOrder(TurnsOf(s), Len(runs))
                 /\ sessions[s] # None => sessions[s] \in 1 .. Len(runs)
           /\ None \notin Nat
<1>1. Len(runs) \in Nat /\ runs \in Seq(Run) /\ None \notin Nat
  BY NoneAssumption DEF IInv
<1>2. \A r \in 1 .. Len(runs) : runs[r] \in Run
  BY <1>1, ElementOfSeq
<1>3. \A s \in Sessions : ledgers[s] \in Ledgers /\ heap[ledgers[s]] \in OrderedLedgers(Len(runs))
  BY DEF IInv
<1>4. \A s \in Sessions : sessions[s] # None => sessions[s] \in 1 .. Len(runs)
  BY DEF IInv
<1>5. QED
  BY <1>1, <1>2, <1>3, <1>4 DEF Run, OrderedLedgers, LedgerState, Checkpoint, TurnsOf

(* One run changes.                                                        *)
LEMMA RunsExcept ==
    ASSUME IInv, NEW r \in 1 .. Len(runs), NEW rec \in Run,
           runs' = [runs EXCEPT ![r] = rec]
    PROVE  /\ Len(runs') = Len(runs)
           /\ \A q \in 1 .. Len(runs) : runs'[q] = IF q = r THEN rec ELSE runs[q]
BY Basics, ExceptSeq

(* Runs keep what they were started with.                                  *)
SameRuns ==
    /\ Len(runs') = Len(runs)
    /\ \A r \in 1 .. Len(runs) : /\ runs'[r].session = runs[r].session
                                 /\ runs'[r].ledger = runs[r].ledger
                                 /\ runs'[r].index = runs[r].index

(* run: the turn is recorded.                                              *)
RecordEffect(s) ==
    /\ Len(runs') = Len(runs) + 1
    /\ \A r \in 1 .. Len(runs) : runs'[r] = runs[r]
    /\ LET new == runs'[Len(runs) + 1] IN
       /\ new.session = s /\ new.ledger = ledgers[s] /\ new.index = Len(TurnsOf(s))
       /\ new.phase = "recorded" /\ new.asked = FALSE /\ new.mirror = 0
    /\ \A t \in Sessions \ {s} : TurnsOf(t)' = TurnsOf(t)
    /\ Len(TurnsOf(s)') = Len(TurnsOf(s)) + 1
    /\ \A i \in 1 .. Len(TurnsOf(s)) : TurnsOf(s)'[i] = TurnsOf(s)[i]
    /\ LET new == TurnsOf(s)'[Len(TurnsOf(s)) + 1] IN
       new.turn = Len(runs) + 1 /\ new.status = "Running" /\ new.events = << >>

(* The ledger of one session is replaced.                                  *)
LEMMA HeapAt ==
    ASSUME IInv, OwnLedgers, NEW s \in Sessions, NEW new,
           heap' = [heap EXCEPT ![ledgers[s]] = new], ledgers' = ledgers
    PROVE  /\ TurnsOf(s)' = new.turns
           /\ \A t \in Sessions \ {s} : TurnsOf(t)' = TurnsOf(t)
BY DEF IInv, OwnLedgers, TurnsOf

(* run's first step appends a run and its record.                          *)
LEMMA RunRecordEffect ==
    ASSUME IInv, OwnLedgers, NEW s \in Sessions, RunRecord(s)
    PROVE  RecordEffect(s)
<1> DEFINE n == Len(runs)
           l == heap[ledgers[s]]
           rec == [session |-> s, ledger |-> ledgers[s], index |-> RecordedIndex(l),
                   phase |-> "recorded", asked |-> FALSE, cancelled |-> FALSE,
                   mirror |-> 0]
<1>1. n \in Nat /\ runs \in Seq(Run) /\ l \in LedgerState /\ l.turns = TurnsOf(s)
  BY Basics DEF TurnsOf
<1>2. /\ rec.session = s /\ rec.ledger = ledgers[s] /\ rec.index = Len(TurnsOf(s))
      /\ rec.phase = "recorded" /\ rec.asked = FALSE /\ rec.mirror = 0
  BY <1>1 DEF RecordedIndex
<1>3. /\ runs' = Append(runs, rec) /\ ledgers' = ledgers
      /\ heap' = [heap EXCEPT ![ledgers[s]] = RecordTurn(l, n + 1)]
  BY DEF RunRecord
<1> HIDE DEF rec
<1>4. /\ Len(runs') = n + 1 /\ runs'[n + 1] = rec
      /\ \A r \in 1 .. n : runs'[r] = runs[r]
  BY <1>1, <1>3
<1>5. /\ TurnsOf(s)' = RecordTurn(l, n + 1).turns
      /\ \A t \in Sessions \ {s} : TurnsOf(t)' = TurnsOf(t)
  BY <1>3, HeapAt
<1>6. PICK new : new = RecordTurn(l, n + 1)
  OBVIOUS
<1>7. /\ Len(new.turns) = Len(l.turns) + 1
      /\ \A i \in 1 .. Len(l.turns) : new.turns[i] = l.turns[i]
      /\ new.turns[Len(l.turns) + 1].turn = n + 1
      /\ new.turns[Len(l.turns) + 1].status = "Running"
      /\ new.turns[Len(l.turns) + 1].events = << >>
  <2>1. n + 1 \in Nat
    BY <1>1
  <2> HIDE DEF l, n
  <2>2. QED
    BY <1>1, <1>6, <2>1, RecordTurnType
<1>8. /\ Len(TurnsOf(s)') = Len(TurnsOf(s)) + 1
      /\ \A i \in 1 .. Len(TurnsOf(s)) : TurnsOf(s)'[i] = TurnsOf(s)[i]
      /\ TurnsOf(s)'[Len(TurnsOf(s)) + 1].turn = n + 1
      /\ TurnsOf(s)'[Len(TurnsOf(s)) + 1].status = "Running"
      /\ TurnsOf(s)'[Len(TurnsOf(s)) + 1].events = << >>
  <2> HIDE DEF l, n
  <2>1. QED
    BY <1>1, <1>5, <1>6, <1>7
<1>9. QED
  BY <1>2, <1>4, <1>5, <1>8 DEF RecordEffect

(* What a drain may write into the record at position i of session s.      *)
WriteEffect(s, i) ==
    /\ \A t \in Sessions \ {s} : TurnsOf(t)' = TurnsOf(t)
    /\ Len(TurnsOf(s)') = Len(TurnsOf(s))
    /\ \A j \in 1 .. Len(TurnsOf(s)) : TurnsOf(s)'[j].turn = TurnsOf(s)[j].turn
    /\ \A j \in 1 .. Len(TurnsOf(s)) : j # i => TurnsOf(s)'[j] = TurnsOf(s)[j]

(* An event e is appended to that record, if it is there.                  *)
EventEffect(s, i, e) ==
    /\ WriteEffect(s, i)
    /\ i <= Len(TurnsOf(s)) =>
          /\ TurnsOf(s)'[i].status = TurnsOf(s)[i].status
          /\ TurnsOf(s)'[i].events = Append(TurnsOf(s)[i].events, e)

(* That record is settled, if it is there.                                 *)
OutcomeEffect(s, i) ==
    /\ WriteEffect(s, i)
    /\ i <= Len(TurnsOf(s)) =>
          /\ TurnsOf(s)'[i].status # "Running"
          /\ TurnsOf(s)'[i].events = TurnsOf(s)[i].events

(* An event goes into the record at its index, if that is there.           *)
LEMMA RecordEventEffect ==
    ASSUME IInv, OwnLedgers, NEW r \in 1 .. Len(runs), NEW e \in Nat, ledgers' = ledgers,
           NEW s \in Sessions, s = runs[r].session,
           heap' = [heap EXCEPT ![runs[r].ledger] = RecordEvent(@, runs[r].index, e)]
    PROVE  EventEffect(s, runs[r].index + 1, e)
<1> DEFINE i == runs[r].index
           l == heap[ledgers[s]]
           new == RecordEvent(l, i, e)
<1>1. /\ i \in Nat /\ l \in LedgerState /\ l.turns = TurnsOf(s)
      /\ Len(TurnsOf(s)) \in Nat /\ runs[r].ledger = ledgers[s]
  BY Basics DEF TurnsOf, OwnLedgers
<1>2. TurnsOf(s)' = new.turns /\ \A t \in Sessions \ {s} : TurnsOf(t)' = TurnsOf(t)
  <2>1. heap' = [heap EXCEPT ![ledgers[s]] = new]
    BY <1>1
  <2> HIDE DEF new
  <2>2. QED
    BY <1>1, <2>1, HeapAt
<1>3. CASE HasTurn(l, i)
  <2>1. new = AppendEventsTo(l, i, e) /\ i + 1 <= Len(TurnsOf(s))
    BY <1>1, <1>3 DEF RecordEvent, HasTurn
  <2>2. /\ i + 1 \in 1 .. Len(l.turns)
        /\ Len(new.turns) = Len(l.turns)
        /\ \A j \in 1 .. Len(l.turns) :
              /\ new.turns[j].turn = l.turns[j].turn
              /\ new.turns[j].status = l.turns[j].status
              /\ j # i + 1 => new.turns[j] = l.turns[j]
        /\ new.turns[i + 1].events = Append(l.turns[i + 1].events, e)
    <3> HIDE DEF l, i
    <3>1. l \in LedgerState /\ i \in Nat /\ HasTurn(l, i)
      BY <1>1, <1>3
    <3>2. EventAdded(l, i, e, new)
      BY <2>1, <3>1, AppendEventsToIs
    <3> HIDE DEF new
    <3>3. QED
      BY <3>2 DEF EventAdded
  <2> HIDE DEF new, l, i
  <2>3. QED
    BY <1>1, <1>2, <2>2 DEF EventEffect, WriteEffect, i
<1>4. CASE ~HasTurn(l, i)
  <2>1. new = l /\ ~(i + 1 <= Len(TurnsOf(s)))
    BY <1>1, <1>4 DEF RecordEvent, HasTurn
  <2> HIDE DEF new, l, i
  <2>2. QED
    BY <1>1, <1>2, <2>1 DEF EventEffect, WriteEffect, i
<1>5. QED
  BY <1>3, <1>4

(* Settling writes to the record of the drain's turn, and only to it.      *)
LEMMA SettleEffect ==
    ASSUME IInv, OwnLedgers, NEW d \in Drains, DrainSettle(d),
           NEW s \in Sessions, s = RunOf(d).session
    PROVE  OutcomeEffect(s, RunOf(d).index + 1)
<1> DEFINE r == drains[d].run
           i == runs[r].index
           l == heap[ledgers[s]]
           st == StatusOf(drains[d].final)
           new == RecordOutcome(l, i, st)
<1>1. r \in 1 .. Len(runs) /\ s = runs[r].session
  BY DrainFacts DEF DrainSettle, RunOf
<1>2. /\ i \in Nat /\ l \in LedgerState /\ l.turns = TurnsOf(s)
      /\ Len(TurnsOf(s)) \in Nat /\ runs[r].ledger = ledgers[s]
  BY <1>1, Basics DEF TurnsOf, OwnLedgers
<1>3. TurnsOf(s)' = new.turns /\ \A t \in Sessions \ {s} : TurnsOf(t)' = TurnsOf(t)
  <2>1. heap' = [heap EXCEPT ![ledgers[s]] = new] /\ ledgers' = ledgers
    BY <1>2 DEF DrainSettle, RunOf
  <2> HIDE DEF new
  <2>2. QED
    BY <1>2, <2>1, HeapAt
<1>4. st \in TurnStatus /\ st # "Running"
  BY DEF StatusOf, TurnStatus
<1>5. CASE HasTurn(l, i)
  <2>1. new = SettleTurnAt(l, i, st) /\ i + 1 <= Len(TurnsOf(s))
    BY <1>2, <1>5 DEF RecordOutcome, HasTurn
  <2>2. /\ i + 1 \in 1 .. Len(l.turns)
        /\ Len(new.turns) = Len(l.turns)
        /\ \A j \in 1 .. Len(l.turns) :
              /\ new.turns[j].turn = l.turns[j].turn
              /\ new.turns[j].events = l.turns[j].events
              /\ j # i + 1 => new.turns[j] = l.turns[j]
        /\ new.turns[i + 1].status = st
    <3> HIDE DEF l, i, st
    <3>1. l \in LedgerState /\ i \in Nat /\ HasTurn(l, i)
      BY <1>2, <1>5
    <3>2. OutcomeSet(l, i, st, new)
      BY <1>4, <2>1, <3>1, SettleTurnAtIs
    <3> HIDE DEF new
    <3>3. QED
      BY <3>2 DEF OutcomeSet
  <2> HIDE DEF new, l, i, st
  <2>3. QED
    BY <1>2, <1>3, <1>4, <2>2 DEF OutcomeEffect, WriteEffect, i, RunOf
<1>6. CASE ~HasTurn(l, i)
  <2>1. new = l /\ ~(i + 1 <= Len(TurnsOf(s)))
    BY <1>2, <1>6 DEF RecordOutcome, HasTurn
  <2> HIDE DEF new, l, i, st
  <2>2. QED
    BY <1>2, <1>3, <2>1 DEF OutcomeEffect, WriteEffect, i, RunOf
<1>7. QED
  BY <1>5, <1>6

(* The history of session s is cut back to a prefix.                       *)
CutEffect(s) ==
    /\ \A t \in Sessions \ {s} : TurnsOf(t)' = TurnsOf(t) /\ dropped'[t] = dropped[t]
    /\ Len(TurnsOf(s)') \in Nat /\ Len(TurnsOf(s)') <= Len(TurnsOf(s))
    /\ \A i \in 1 .. Len(TurnsOf(s)') : TurnsOf(s)'[i] = TurnsOf(s)[i]
    /\ dropped'[s] = dropped[s] \cup (TurnSet(TurnsOf(s)) \ TurnSet(TurnsOf(s)'))

(* Keeping a prefix of a history drops the turns of the rest.              *)
LEMMA PrefixCuts ==
    ASSUME IInv, OwnLedgers, NEW s \in Sessions, NEW new,
           NEW n \in 0 .. Len(TurnsOf(s)), new.turns = Prefix(TurnsOf(s), n),
           heap' = [heap EXCEPT ![ledgers[s]] = new], ledgers' = ledgers,
           dropped' = [dropped EXCEPT ![s] =
                          @ \cup (TurnSet(TurnsOf(s)) \ TurnSet(new.turns))]
    PROVE  CutEffect(s)
<1>1. TurnsOf(s)' = new.turns /\ \A t \in Sessions \ {s} : TurnsOf(t)' = TurnsOf(t)
  BY HeapAt
<1>2. TurnsOf(s) \in Checkpoint /\ Len(TurnsOf(s)) \in Nat
  BY Basics
<1>3. Len(new.turns) = n /\ \A i \in 1 .. n : new.turns[i] = TurnsOf(s)[i]
  BY <1>2, PrefixType
<1>4. dropped'[s] = dropped[s] \cup (TurnSet(TurnsOf(s)) \ TurnSet(new.turns))
      /\ \A t \in Sessions \ {s} : dropped'[t] = dropped[t]
  BY DEF IInv
<1>5. QED
  BY <1>1, <1>2, <1>3, <1>4 DEF CutEffect

(* The candidate operations only shorten the history of their session.     *)
LEMMA CandidateEffect ==
    ASSUME IInv, OwnLedgers, NEW s \in Sessions, NEW at \in 0 .. MaxRuns,
           \/ SelectTurn(s, at) \/ ApplyCandidate(s, at)
           \/ ReleaseCandidate(s, at) \/ DiscardFrom(s, at)
    PROVE  CutEffect(s)
<1> DEFINE l == heap[ledgers[s]]
           cut(new) == \E n \in 0 .. Len(TurnsOf(s)) : new.turns = Prefix(TurnsOf(s), n)
<1>1. /\ l \in LedgerState /\ l.turns = TurnsOf(s) /\ Len(TurnsOf(s)) \in Nat
      /\ at \in Nat /\ TurnsOf(s) \in Checkpoint
  BY Basics, SessionFacts DEF TurnsOf
<1> HIDE DEF l
<1>2. cut(Select(l, at)) /\ cut(Release(l, at))
  <2>1. TurnsOf(s) = Prefix(TurnsOf(s), Len(TurnsOf(s)))
    BY <1>1, SubSeqFull DEF Prefix, Checkpoint
  <2>2. Select(l, at).turns = TurnsOf(s) /\ Release(l, at).turns = TurnsOf(s)
    BY <1>1, MarkerType, Zenon
  <2>3. Len(TurnsOf(s)) \in 0 .. Len(TurnsOf(s))
    BY <1>1
  <2>4. QED
    BY <2>1, <2>2, <2>3, Zenon
<1>3. HasTurn(l, at) => cut(Apply(l, at)) /\ cut(Discard(l, at))
  <2> SUFFICES ASSUME HasTurn(l, at) PROVE cut(Apply(l, at)) /\ cut(Discard(l, at))
    OBVIOUS
  <2>1. at \in 0 .. Len(TurnsOf(s)) /\ at + 1 \in 0 .. Len(TurnsOf(s))
    BY <1>1 DEF HasTurn
  <2>2. Apply(l, at).turns = Prefix(l.turns, at + 1) /\ Discard(l, at).turns = Prefix(l.turns, at)
    BY <1>1, TruncationType
  <2>3. QED
    BY <1>1, <2>1, <2>2
<1>4. PICK new : cut(new) /\ Replace(s, new)
  BY <1>2, <1>3 DEF SelectTurn, ApplyCandidate, ReleaseCandidate, DiscardFrom, CanApply, l
<1>5. ledgers' = ledgers
  BY DEF SelectTurn, ApplyCandidate, ReleaseCandidate, DiscardFrom
<1>6. QED
  BY <1>1, <1>4, <1>5, PrefixCuts DEF Replace, l

(* A rewind only shortens the history of its session.                      *)
LEMMA TruncateEffect ==
    ASSUME IInv, OwnLedgers, NEW s \in Sessions, RewindTruncate(s)
    PROVE  CutEffect(s)
<1> DEFINE l == heap[ledgers[s]]
           new == RewindTo(l, rewinds[s].at)
<1>1. /\ l \in LedgerState /\ l.turns = TurnsOf(s) /\ rewinds[s].ledger = ledgers[s]
  BY Basics DEF TurnsOf, OwnLedgers, RewindTruncate
<1>2. rewinds[s].at \in Nat
  BY DEF RewindTruncate, IInv, Rewind
<1>3. \E n \in 0 .. Len(TurnsOf(s)) : new.turns = Prefix(TurnsOf(s), n)
  <2> HIDE DEF l
  <2>1. \E n \in 0 .. Len(l.turns) : RewindTo(l, rewinds[s].at).turns = Prefix(l.turns, n)
    BY <1>1, <1>2, TruncationType
  <2>2. QED
    BY <1>1, <2>1
<1>4. /\ heap' = [heap EXCEPT ![ledgers[s]] = new] /\ ledgers' = ledgers
      /\ dropped' = [dropped EXCEPT ![s] =
                        @ \cup (TurnSet(TurnsOf(s)) \ TurnSet(new.turns))]
  BY <1>1 DEF RewindTruncate
<1> HIDE DEF new
<1>5. QED
  BY <1>3, <1>4, PrefixCuts

(* The steps with which a drain writes to its record.                      *)
LEMMA DrainWrites ==
    ASSUME IInv, OwnLedgers, NEW d \in Drains, NEW s \in Sessions, s = RunOf(d).session,
           (\E kind \in WireKinds : StreamItem(d, kind)) \/ HiddenItem(d) \/ DrainSettle(d)
    PROVE  /\ WriteEffect(s, RunOf(d).index + 1)
           /\ \A kind \in WireKinds :
                 StreamItem(d, kind) => EventEffect(s, RunOf(d).index + 1, drains[d].run)
           /\ HiddenItem(d) => EventEffect(s, RunOf(d).index + 1, Hidden)
           /\ DrainSettle(d) => OutcomeEffect(s, RunOf(d).index + 1)
<1>1. drains[d].run \in 1 .. Len(runs) /\ drains[d].run \in Nat /\ Hidden \in Nat
  BY DrainFacts, Basics DEF StreamItem, MayStream, HiddenItem, DrainSettle, Hidden
<1>2. ASSUME NEW kind \in WireKinds, StreamItem(d, kind)
      PROVE  EventEffect(s, RunOf(d).index + 1, drains[d].run)
  BY <1>1, <1>2, RecordEventEffect DEF StreamItem, RunOf
<1>3. ASSUME HiddenItem(d)
      PROVE  EventEffect(s, RunOf(d).index + 1, Hidden)
  BY <1>1, <1>3, RecordEventEffect DEF HiddenItem, RunOf
<1>4. ASSUME DrainSettle(d)
      PROVE  OutcomeEffect(s, RunOf(d).index + 1)
  BY <1>4, SettleEffect
<1>5. QED
  BY <1>2, <1>3, <1>4 DEF EventEffect, OutcomeEffect

(* At most run r changes, and it keeps what it was started with.           *)
RunsBut(r) ==
    /\ r \in 1 .. Len(runs) /\ SameRuns
    /\ \A q \in 1 .. Len(runs) : q # r => runs'[q] = runs[q]

(* What the steps do to the run they are about.                            *)
LEMMA OneRunChanges ==
    ASSUME IInv, NEW r \in 1 .. Len(runs), NEW rec,
           rec \in Run, rec.session = runs[r].session, rec.ledger = runs[r].ledger,
           rec.index = runs[r].index, runs' = [runs EXCEPT ![r] = rec]
    PROVE  RunsBut(r) /\ runs'[r] = rec
<1>1. /\ Len(runs') = Len(runs)
      /\ \A q \in 1 .. Len(runs) : runs'[q] = IF q = r THEN rec ELSE runs[q]
  BY RunsExcept
<1>2. QED
  BY <1>1 DEF RunsBut, SameRuns

(* Starting makes a recorded run live.                                     *)
LEMMA StartRuns ==
    ASSUME IInv, NEW r \in 1 .. Len(runs), NEW d \in Drains, RunStart(r, d)
    PROVE  /\ RunsBut(r) /\ runs'[r].phase = "live"
           /\ runs'[r].asked = runs[r].asked /\ runs'[r].mirror = runs[r].mirror
<1> DEFINE rec == [runs[r] EXCEPT !.phase = "live"]
<1>1. runs[r] \in Run /\ runs' = [runs EXCEPT ![r] = rec]
  BY Basics DEF RunStart
<1>2. /\ rec \in Run /\ rec.session = runs[r].session /\ rec.ledger = runs[r].ledger
      /\ rec.index = runs[r].index /\ rec.phase = "live" /\ rec.asked = runs[r].asked
      /\ rec.mirror = runs[r].mirror
  BY <1>1 DEF Run
<1> HIDE DEF rec
<1>3. RunsBut(r) /\ runs'[r] = rec
  BY <1>1, <1>2, OneRunChanges
<1>4. QED
  BY <1>2, <1>3

(* A resumed run no longer waits for an answer.                            *)
LEMMA ResumeRuns ==
    ASSUME IInv, NEW s \in Sessions, NEW d \in Drains, Resume(s, d)
    PROVE  LET r == sessions[s] IN
           /\ RunsBut(r) /\ runs'[r].phase = runs[r].phase
           /\ runs'[r].asked = FALSE /\ runs'[r].mirror = runs[r].mirror
<1> DEFINE r == sessions[s]
           rec == [runs[r] EXCEPT !.asked = FALSE]
<1>1. r \in 1 .. Len(runs) /\ runs[r] \in Run /\ runs' = [runs EXCEPT ![r] = rec]
  BY Basics DEF Resume
<1>2. /\ rec \in Run /\ rec.session = runs[r].session /\ rec.ledger = runs[r].ledger
      /\ rec.index = runs[r].index /\ rec.phase = runs[r].phase /\ rec.asked = FALSE
      /\ rec.mirror = runs[r].mirror
  BY <1>1 DEF Run
<1> HIDE DEF rec, r
<1>3. RunsBut(r) /\ runs'[r] = rec
  BY <1>1, <1>2, OneRunChanges
<1>4. QED
  BY <1>2, <1>3 DEF r

(* Cancelling only marks the registered run.                               *)
LEMMA CancelRuns ==
    ASSUME IInv, NEW s \in Sessions, Cancel(s)
    PROVE  LET r == sessions[s] IN
           /\ RunsBut(r) /\ runs'[r].phase = runs[r].phase
           /\ runs'[r].asked = runs[r].asked /\ runs'[r].mirror = runs[r].mirror
<1> DEFINE r == sessions[s]
           rec == [runs[r] EXCEPT !.cancelled = TRUE]
<1>1. r \in 1 .. Len(runs) /\ runs[r] \in Run /\ runs' = [runs EXCEPT ![r] = rec]
  BY Basics DEF Cancel
<1>2. /\ rec \in Run /\ rec.session = runs[r].session /\ rec.ledger = runs[r].ledger
      /\ rec.index = runs[r].index /\ rec.phase = runs[r].phase
      /\ rec.asked = runs[r].asked /\ rec.mirror = runs[r].mirror
  BY <1>1 DEF Run
<1> HIDE DEF rec, r
<1>3. RunsBut(r) /\ runs'[r] = rec
  BY <1>1, <1>2, OneRunChanges
<1>4. QED
  BY <1>2, <1>3 DEF r

(* A streamed item counts in the mirror of the drain's turn.               *)
LEMMA StreamRuns ==
    ASSUME IInv, NEW d \in Drains, NEW kind \in WireKinds, StreamItem(d, kind)
    PROVE  LET r == drains[d].run IN
           /\ RunsBut(r) /\ runs'[r].phase = runs[r].phase
           /\ runs'[r].asked <=> (runs[r].asked \/ kind = "ask")
           /\ runs'[r].mirror = runs[r].mirror + 1
<1> DEFINE r == drains[d].run
           rec == [runs[r] EXCEPT !.mirror = @ + 1, !.asked = @ \/ kind = "ask"]
<1>1. r \in 1 .. Len(runs)
  BY DrainFacts DEF StreamItem, MayStream
<1>2. /\ runs[r] \in Run /\ runs[r].mirror \in Nat /\ runs[r].mirror + 1 \in Nat
      /\ (runs[r].asked \/ kind = "ask") \in BOOLEAN
  BY <1>1, Basics
<1>3. runs' = [runs EXCEPT ![r] = rec]
  BY DEF StreamItem
<1>4. rec \in Run
  BY <1>2, RunStreamed, Zenon
<1>5. /\ rec.session = runs[r].session /\ rec.ledger = runs[r].ledger
      /\ rec.index = runs[r].index /\ rec.phase = runs[r].phase
      /\ rec.mirror = runs[r].mirror + 1
  BY <1>2 DEF Run
<1>6. rec.asked = (runs[r].asked \/ kind = "ask")
  BY <1>2, Zenon DEF Run
<1> HIDE DEF rec, r
<1>7. RunsBut(r) /\ runs'[r] = rec
  BY <1>1, <1>3, <1>4, <1>5, OneRunChanges
<1>8. QED
  BY <1>5, <1>6, <1>7, Zenon DEF r

(* A report finishes the drain's turn.                                     *)
LEMMA ReportRuns ==
    ASSUME IInv, NEW d \in Drains, DrainReport(d)
    PROVE  LET r == drains[d].run IN
           /\ RunsBut(r) /\ runs'[r].phase = "finished"
           /\ runs'[r].asked = runs[r].asked /\ runs'[r].mirror = runs[r].mirror
<1> DEFINE r == drains[d].run
           rec == [runs[r] EXCEPT !.phase = "finished"]
<1>1. r \in 1 .. Len(runs) /\ runs' = [runs EXCEPT ![r] = rec]
  BY DrainFacts DEF DrainReport
<1>2. runs[r] \in Run
  BY <1>1, Basics
<1>3. /\ rec \in Run /\ rec.session = runs[r].session /\ rec.ledger = runs[r].ledger
      /\ rec.index = runs[r].index /\ rec.phase = "finished"
      /\ rec.asked = runs[r].asked /\ rec.mirror = runs[r].mirror
  BY <1>2 DEF Run
<1> HIDE DEF rec, r
<1>4. RunsBut(r) /\ runs'[r] = rec
  BY <1>1, <1>3, OneRunChanges
<1>5. QED
  BY <1>3, <1>4 DEF r

(* A restart loses the runs that have not finished.                        *)
LEMMA RestartRuns ==
    ASSUME IInv, Restart
    PROVE  /\ SameRuns
           /\ \A r \in 1 .. Len(runs) :
                 /\ runs'[r].asked = runs[r].asked /\ runs'[r].mirror = runs[r].mirror
                 /\ runs'[r].phase = IF runs[r].phase = "finished" THEN "finished" ELSE "lost"
<1>1. Len(runs) \in Nat /\ \A r \in 1 .. Len(runs) : runs[r] \in Run
  BY Basics
<1> DEFINE new(r) == IF runs[r].phase = "finished" THEN runs[r]
                     ELSE [runs[r] EXCEPT !.phase = "lost"]
<1>2. runs' = [r \in 1 .. Len(runs) |-> new(r)]
  BY DEF Restart
<1>3. ASSUME NEW r \in 1 .. Len(runs)
      PROVE  /\ new(r).session = runs[r].session /\ new(r).ledger = runs[r].ledger
             /\ new(r).index = runs[r].index /\ new(r).asked = runs[r].asked
             /\ new(r).mirror = runs[r].mirror
             /\ new(r).phase = IF runs[r].phase = "finished" THEN "finished" ELSE "lost"
  <2>1. runs[r] \in Run
    BY <1>1
  <2>2. QED
    BY <2>1 DEF Run
<1> HIDE DEF new
<1>4. Len(runs') = Len(runs) /\ \A r \in 1 .. Len(runs) : runs'[r] = new(r)
  BY <1>1, <1>2
<1>5. QED
  BY <1>3, <1>4 DEF SameRuns

(* Only run adds a run.                                                    *)
LEMMA RunsStep ==
    ASSUME IInv, [Next]_vars, ~\E s \in Sessions : RunRecord(s)
    PROVE  SameRuns
<1>1. CASE runs' = runs
  BY <1>1 DEF SameRuns
<1>2. ASSUME NEW r \in 1 .. Len(runs), NEW d \in Drains, RunStart(r, d)
      PROVE  SameRuns
  BY <1>2, StartRuns DEF RunsBut
<1>3. ASSUME NEW d \in Drains, DrainStep(d), runs' # runs
      PROVE  SameRuns
  <2>1. (\E kind \in WireKinds : StreamItem(d, kind)) \/ DrainReport(d)
    BY <1>3 DEF DrainStep, HiddenItem, StreamEnd, DrainSettle, DrainSnapshot,
       DrainCheckpoint, DrainPersist, DrainRemove
  <2>2. QED
    BY <2>1, StreamRuns, ReportRuns DEF RunsBut
<1>4. ASSUME NEW s \in Sessions, CallStep(s) \/ Call(s), runs' # runs
      PROVE  SameRuns
  <2>1. (\E d \in Drains : Resume(s, d)) \/ Cancel(s)
    BY <1>4 DEF CallStep, Call, RewindCheck, RewindRestore, RewindTruncate, ForkTo,
       SelectTurn, ApplyCandidate, ReleaseCandidate, DiscardFrom
  <2>2. QED
    BY <2>1, ResumeRuns, CancelRuns DEF RunsBut
<1>5. QED
  BY <1>1, <1>2, <1>3, <1>4, RestartRuns DEF Next, vars

-----------------------------------------------------------------------------
(* fork: a session nobody has used gets a ledger of its own.               *)
ForkEffect(t) ==
    /\ \A u \in Sessions \ {t} : /\ TurnsOf(u)' = TurnsOf(u)
                                 /\ dropped'[u] = dropped[u]
                                 /\ ledgers'[u] = ledgers[u]
    /\ RunsOf(t) = {} /\ rewinds[t] = None /\ store[t] = None
    /\ \A u \in Sessions : ledgers'[t] # ledgers[u]

(* A fork changes nothing but the session it creates.                      *)
LEMMA ForkToEffect ==
    ASSUME IInv, OwnLedgers, "editLive" \notin Client, NEW s \in Sessions,
           NEW at \in 0 .. MaxRuns, NEW t \in Sessions, ForkTo(s, at, t)
    PROVE  ForkEffect(t)
<1>1. PICK l \in Ledgers \ Referenced :
         /\ heap' = [heap EXCEPT ![l] = Fork(heap[ledgers[s]], at)]
         /\ ledgers' = [ledgers EXCEPT ![t] = l]
         /\ dropped' = [dropped EXCEPT ![t] = (@ \cup TurnSet(heap[ledgers[t]].turns))
                           \ TurnSet(Fork(heap[ledgers[s]], at).turns)]
  BY DEF ForkTo
<1>2. Unused(t)
  BY DEF ForkTo
<1>3. \A u \in Sessions : ledgers[u] \in Ledgers /\ ledgers[u] # l
  BY Basics DEF Referenced
<1>4. \A u \in Sessions \ {t} : heap'[ledgers[u]] = heap[ledgers[u]] /\ ledgers'[u] = ledgers[u]
  BY <1>1, <1>3 DEF IInv
<1>5. \A u \in Sessions \ {t} : TurnsOf(u)' = TurnsOf(u)
  BY <1>4 DEF TurnsOf
<1>6. ledgers'[t] = l /\ \A u \in Sessions \ {t} : dropped'[u] = dropped[u]
  BY <1>1 DEF IInv
<1>7. QED
  BY <1>2, <1>3, <1>4, <1>5, <1>6 DEF ForkEffect, Unused

(* Sessions keep their ledgers unless they are forked onto.                *)
LEMMA OwnLedgersInit == Init => OwnLedgers
BY DEF Init, OwnLedgers

(* Sessions own their ledgers, unless a fork may take a live id.           *)
LEMMA OwnLedgersNext ==
    ASSUME IInv, OwnLedgers, "editLive" \notin Client, [Next]_vars
    PROVE  OwnLedgers'
<1>0. \A r \in 1 .. Len(runs) : runs[r].session \in Sessions
  BY Basics
<1>1. ASSUME NEW s \in Sessions, RunRecord(s)
      PROVE  OwnLedgers'
  <2>1. RecordEffect(s) /\ Len(runs) \in Nat
    BY <1>1, RunRecordEffect, Basics
  <2>2. \A r \in 1 .. Len(runs') : r \in 1 .. Len(runs) \/ r = Len(runs) + 1
    BY <2>1 DEF RecordEffect
  <2>3. ledgers' = ledgers /\ rewinds' = rewinds
    BY <1>1 DEF RunRecord
  <2>4. \A r \in 1 .. Len(runs') : runs'[r].ledger = ledgers'[runs'[r].session]
    BY <2>1, <2>2, <2>3 DEF RecordEffect, OwnLedgers
  <2>5. QED
    BY <2>3, <2>4 DEF OwnLedgers
<1> SUFFICES ASSUME ~\E s \in Sessions : RunRecord(s) PROVE OwnLedgers'
  BY <1>1
<1>2. SameRuns
  BY RunsStep
<1>3. CASE ledgers' = ledgers /\ \A s \in Sessions : rewinds'[s] \in {rewinds[s], None}
  <2>1. \A r \in 1 .. Len(runs') : runs'[r].ledger = ledgers'[runs'[r].session]
    BY <1>2, <1>3 DEF OwnLedgers, SameRuns
  <2>2. QED
    BY <1>3, <2>1 DEF OwnLedgers
<1>4. ASSUME NEW s \in Sessions, ledgers' = ledgers, NEW w,
             rewinds' = [rewinds EXCEPT ![s] = w], w.ledger = ledgers[s]
      PROVE  OwnLedgers'
  <2>1. \A r \in 1 .. Len(runs') : runs'[r].ledger = ledgers'[runs'[r].session]
    BY <1>2, <1>4 DEF OwnLedgers, SameRuns
  <2>2. QED
    BY <1>4, <2>1 DEF OwnLedgers, IInv
<1>5. ASSUME NEW s \in Sessions, NEW at \in 0 .. MaxRuns, NEW t \in Sessions, ForkTo(s, at, t)
      PROVE  OwnLedgers'
  <2>1. ForkEffect(t) /\ rewinds' = rewinds
    BY <1>5, ForkToEffect DEF ForkTo
  <2>2. \A r \in 1 .. Len(runs) : runs[r].session \in Sessions \ {t}
    BY <1>0, <2>1 DEF ForkEffect, RunsOf
  <2>3. \A r \in 1 .. Len(runs') : runs'[r].ledger = ledgers'[runs'[r].session]
    BY <1>2, <2>1, <2>2 DEF OwnLedgers, SameRuns, ForkEffect
  <2>4. QED
    BY <2>1, <2>3 DEF OwnLedgers, ForkEffect
<1>6. ASSUME NEW s \in Sessions, RewindTruncate(s) \/ RewindRestore(s)
      PROVE  OwnLedgers'
  <2>1. CASE RewindTruncate(s)
    <3>1. ledgers' = ledgers /\ \A t \in Sessions : rewinds'[t] \in {rewinds[t], None}
      BY <2>1 DEF RewindTruncate, IInv
    <3>2. QED
      BY <1>3, <3>1
  <2>2. CASE RewindRestore(s)
    <3> DEFINE at == MinOf(rewinds[s].at, Len(heap[ledgers[s]].turns))
               call(snap) == [phase |-> "restored", at |-> at, ledger |-> ledgers[s],
                              snap |-> snap,
                              kept |-> IF snap = None THEN 0
                                       ELSE heap[ledgers[s]].turns[at].turn]
    <3>1. PICK snap : rewinds' = [rewinds EXCEPT ![s] = call(snap)]
      BY <2>2 DEF RewindRestore
    <3>2. call(snap).ledger = ledgers[s]
      OBVIOUS
    <3>3. ledgers' = ledgers
      BY <2>2 DEF RewindRestore
    <3> HIDE DEF call
    <3>4. QED
      BY <1>4, <3>1, <3>2, <3>3
  <2>3. QED
    BY <1>6, <2>1, <2>2
<1>7. ASSUME NEW s \in Sessions, NEW at \in 0 .. MaxRuns, RewindCheck(s, at)
      PROVE  OwnLedgers'
  <2> DEFINE call == [phase |-> "checked", at |-> at, ledger |-> ledgers[s],
                      snap |-> None, kept |-> 0]
  <2>1. rewinds' = [rewinds EXCEPT ![s] = call] /\ ledgers' = ledgers
    BY <1>7 DEF RewindCheck
  <2>2. call.ledger = ledgers[s]
    OBVIOUS
  <2> HIDE DEF call
  <2>3. QED
    BY <1>4, <2>1, <2>2
<1>8. CASE ledgers' = ledgers /\ rewinds' = rewinds
  BY <1>3, <1>8
<1>9. ASSUME NEW d \in Drains, DrainStep(d)
      PROVE  ledgers' = ledgers /\ rewinds' = rewinds
  BY <1>9 DEF DrainStep, StreamItem, HiddenItem, StreamEnd, DrainSettle, DrainSnapshot,
     DrainCheckpoint, DrainPersist, DrainReport, DrainRemove
<1>10. ASSUME NEW r \in 1 .. Len(runs), NEW d \in Drains, RunStart(r, d)
       PROVE  ledgers' = ledgers /\ rewinds' = rewinds
  BY <1>10 DEF RunStart
<1>11. ASSUME NEW s \in Sessions, Call(s)
       PROVE  OwnLedgers'
  <2>1. ASSUME NEW at \in 0 .. MaxRuns,
               \/ SelectTurn(s, at) \/ ApplyCandidate(s, at)
               \/ ReleaseCandidate(s, at) \/ DiscardFrom(s, at)
        PROVE  ledgers' = ledgers /\ rewinds' = rewinds
    BY <2>1 DEF SelectTurn, ApplyCandidate, ReleaseCandidate, DiscardFrom
  <2>2. ASSUME NEW d \in Drains, Resume(s, d) \/ Cancel(s)
        PROVE  ledgers' = ledgers /\ rewinds' = rewinds
    BY <2>2 DEF Resume, Cancel
  <2>3. CASE Cancel(s)
    BY <1>8, <2>3 DEF Cancel
  <2>4. QED
    BY <1>5, <1>7, <1>8, <1>11, <2>1, <2>2, <2>3 DEF Call
<1>12. CASE Restart
  <2>1. ledgers' = ledgers /\ \A s \in Sessions : rewinds'[s] \in {rewinds[s], None}
    BY <1>12 DEF Restart
  <2>2. QED
    BY <1>3, <2>1
<1>13. CASE UNCHANGED vars
  BY <1>8, <1>13 DEF vars
<1>14. QED
  BY <1>6, <1>8, <1>9, <1>10, <1>11, <1>12, <1>13 DEF Next, CallStep

-----------------------------------------------------------------------------
(* What the steps of a drain do to it.                                     *)

(* Drain d is at pc, with the run it had; no other drain changes.          *)
DrainAt(d, pc) ==
    /\ \A e \in Drains \ {d} : drains'[e] = drains[e]
    /\ drains'[d].pc = pc /\ drains'[d].run = drains[d].run

(* Drain d is free; no other drain changes.                                *)
DrainFree(d) ==
    /\ \A e \in Drains \ {d} : drains'[e] = drains[e]
    /\ drains'[d].pc = "idle"

(* What an update of one drain leaves alone.                               *)
LEMMA DrainExcept ==
    ASSUME IInv, NEW d \in Drains, NEW new, drains' = [drains EXCEPT ![d] = new]
    PROVE  drains'[d] = new /\ \A e \in Drains \ {d} : drains'[e] = drains[e]
BY DEF IInv

(* A spawned drain streams for its run.                                    *)
LEMMA SpawnEffect ==
    ASSUME IInv, NEW d \in Drains, NEW r, Spawn(d, r)
    PROVE  /\ \A e \in Drains \ {d} : drains'[e] = drains[e]
           /\ drains[d].pc = "idle" /\ drains'[d].pc = "streaming"
           /\ drains'[d].run = r /\ drains'[d].final = "running"
<1> DEFINE new == [IdleDrain EXCEPT !.pc = "streaming", !.run = r]
<1>1. new.pc = "streaming" /\ new.run = r /\ new.final = "running"
  BY DEF IdleDrain
<1>2. drains' = [drains EXCEPT ![d] = new] /\ drains[d].pc = "idle"
  BY DEF Spawn
<1> HIDE DEF new
<1>3. QED
  BY <1>1, <1>2, DrainExcept

(* A drain that moves on keeps its run and checkpoint.                     *)
LEMMA GotoEffect ==
    ASSUME IInv, NEW d \in Drains, NEW pc, Goto(d, pc)
    PROVE  DrainAt(d, pc) /\ drains'[d].final = drains[d].final
<1> DEFINE new == [drains[d] EXCEPT !.pc = pc]
<1>1. drains[d] \in Drain
  BY DEF IInv, DrainsUpTo
<1>2. new.pc = pc /\ new.run = drains[d].run /\ new.final = drains[d].final
  BY <1>1 DEF Drain
<1>3. drains' = [drains EXCEPT ![d] = new]
  BY DEF Goto
<1> HIDE DEF new
<1>4. QED
  BY <1>2, <1>3, DrainExcept DEF DrainAt

(* A drain that is done is idle again.                                     *)
LEMMA FreeEffect ==
    ASSUME IInv, NEW d \in Drains, drains' = [drains EXCEPT ![d] = IdleDrain]
    PROVE  DrainFree(d)
<1>1. IdleDrain.pc = "idle"
  BY DEF IdleDrain
<1>2. QED
  BY <1>1, DrainExcept DEF DrainFree

(* A drain that streams goes on, or closes when it asks.                   *)
LEMMA StreamDrain ==
    ASSUME IInv, NEW d \in Drains, NEW kind \in WireKinds, StreamItem(d, kind)
    PROVE  /\ DrainAt(d, IF kind = "ask" THEN "closing" ELSE drains[d].pc)
           /\ drains[d].pc \in {"streaming", "closing"}
           /\ drains[d].pc = "closing" => kind # "ask"
           /\ drains'[d].final = IF kind \in {"delta", "ask"} THEN drains[d].final ELSE kind
<1> DEFINE new == [drains[d] EXCEPT
                      !.pc = IF kind = "ask" THEN "closing" ELSE @,
                      !.final = IF kind \in {"delta", "ask"} THEN @ ELSE kind]
<1>1. /\ drains[d] \in Drain
      /\ drains[d].pc \in {"streaming", "closing"} /\ (drains[d].pc = "closing" => kind # "ask")
  BY DEF IInv, DrainsUpTo, StreamItem, MayStream
<1>2. /\ new.pc = IF kind = "ask" THEN "closing" ELSE drains[d].pc
      /\ new.run = drains[d].run
      /\ new.final = IF kind \in {"delta", "ask"} THEN drains[d].final ELSE kind
  BY <1>1 DEF Drain
<1>3. drains' = [drains EXCEPT ![d] = new]
  BY DEF StreamItem
<1> HIDE DEF new
<1>4. QED
  BY <1>1, <1>2, <1>3, DrainExcept DEF DrainAt

(* A stream that ends moves its drain on, or closes it.                    *)
LEMMA EndDrain ==
    ASSUME IInv, NEW d \in Drains, StreamEnd(d)
    PROVE  /\ drains[d].final = "running" => DrainFree(d)
           /\ drains[d].final # "running" => DrainAt(d, "ended")
<1>1. CASE drains[d].final = "running"
  BY <1>1, FreeEffect DEF StreamEnd
<1>2. CASE drains[d].final # "running"
  <2>1. Goto(d, "ended")
    BY <1>2 DEF StreamEnd, Goto
  <2>2. QED
    BY <1>2, <2>1, GotoEffect
<1>3. QED
  BY <1>1, <1>2

(* A drain takes the checkpoint of its session's ledger.                   *)
LEMMA CheckpointDrain ==
    ASSUME IInv, OwnLedgers, NEW d \in Drains, DrainCheckpoint(d)
    PROVE  /\ DrainAt(d, "persisting")
           /\ drains'[d].cp = TurnsOf(RunOf(d).session)
<1> DEFINE turns == heap[RunOf(d).ledger].turns
           new == [drains[d] EXCEPT !.pc = "persisting", !.cp = turns]
<1>1. drains[d] \in Drain
  BY DEF IInv, DrainsUpTo
<1>2. new.pc = "persisting" /\ new.run = drains[d].run /\ new.cp = turns
  BY <1>1 DEF Drain
<1>3. drains' = [drains EXCEPT ![d] = new]
  BY DEF DrainCheckpoint
<1>4. turns = TurnsOf(RunOf(d).session)
  <2>1. drains[d].run \in 1 .. Len(runs)
    BY DrainFacts DEF DrainCheckpoint
  <2>2. QED
    BY <2>1 DEF OwnLedgers, TurnsOf, RunOf
<1> HIDE DEF new, turns
<1>5. QED
  BY <1>2, <1>3, <1>4, DrainExcept DEF DrainAt

(* Persisting moves the drain on, whatever the store says.                 *)
LEMMA PersistDrain ==
    ASSUME IInv, NEW d \in Drains, DrainPersist(d)
    PROVE  DrainAt(d, "persisted")
<1> DEFINE new == [drains[d] EXCEPT !.pc = "persisted", !.cp = << >>]
<1>1. drains[d] \in Drain
  BY DEF IInv, DrainsUpTo
<1>2. new.pc = "persisted" /\ new.run = drains[d].run
  BY <1>1 DEF Drain
<1>3. drains' = [drains EXCEPT ![d] = new]
  BY DEF DrainPersist
<1> HIDE DEF new
<1>4. QED
  BY <1>2, <1>3, DrainExcept DEF DrainAt

(* The steps in which a drain comes to where its turn is over, leaves it,  *)
(* and writes to the store.                                                *)
DrainMoves(e) ==
    /\ drains[e].pc \in SettledPcs =>
          \/ drains'[e].pc \in SettledPcs /\ drains'[e].run = drains[e].run
          \/ DrainReport(e)
    /\ drains'[e].pc \in SettledPcs =>
          /\ drains'[e].run = drains[e].run
          /\ drains[e].pc \in SettledPcs \/ DrainSettle(e)
    /\ drains'[e].pc = "snapped" => drains[e].pc = "snapped" \/ DrainSnapshot(e)
    /\ drains'[e].pc = "persisting" =>
          \/ drains[e].pc = "persisting" /\ drains'[e].cp = drains[e].cp
          \/ DrainCheckpoint(e)
    /\ drains'[e].pc = "persisted" => drains[e].pc = "persisted" \/ DrainPersist(e)
    /\ drains'[e].pc # "idle" =>
          \/ drains[e].pc # "idle" /\ drains'[e].run = drains[e].run
          \/ \E r \in 1 .. Len(runs) : RunStart(r, e) /\ drains'[e].run = r
          \/ \E s \in Sessions : Resume(s, e) /\ drains'[e].run = sessions[s]

(* Every step but a restart moves each drain this way.                     *)
LEMMA DrainMovesStep ==
    ASSUME IInv, [Next]_vars, ~Restart, NEW e \in Drains
    PROVE  DrainMoves(e)
<1>1. CASE drains'[e] = drains[e]
  BY <1>1 DEF DrainMoves
<1>2. ASSUME NEW r \in 1 .. Len(runs), NEW d \in Drains, RunStart(r, d)
      PROVE  DrainMoves(e)
  <2>1. CASE e = d
    BY <1>2, <2>1, SpawnEffect DEF RunStart, DrainMoves, SettledPcs
  <2>2. CASE e # d
    BY <1>1, <1>2, <2>2, SpawnEffect DEF RunStart
  <2>3. QED
    BY <2>1, <2>2
<1>3. ASSUME NEW s \in Sessions, NEW d \in Drains, Resume(s, d)
      PROVE  DrainMoves(e)
  <2>1. CASE e = d
    BY <1>3, <2>1, SpawnEffect DEF Resume, DrainMoves, SettledPcs
  <2>2. CASE e # d
    BY <1>1, <1>3, <2>2, SpawnEffect DEF Resume
  <2>3. QED
    BY <2>1, <2>2
<1>4. ASSUME NEW d \in Drains, DrainStep(d)
      PROVE  DrainMoves(e)
  <2>1. ASSUME NEW kind \in WireKinds, StreamItem(d, kind)
        PROVE  DrainMoves(e)
    <3>1. /\ DrainAt(d, IF kind = "ask" THEN "closing" ELSE drains[d].pc)
          /\ drains[d].pc \in {"streaming", "closing"}
      BY <2>1, StreamDrain
    <3>2. QED
      BY <1>1, <3>1 DEF DrainAt, DrainMoves, SettledPcs
  <2>2. CASE HiddenItem(d)
    BY <1>1, <2>2 DEF HiddenItem
  <2>3. CASE StreamEnd(d)
    <3>1. DrainFree(d) \/ DrainAt(d, "ended")
      BY <2>3, EndDrain
    <3>2. drains[d].pc \in {"closing", "streaming"}
      BY <2>3 DEF StreamEnd
    <3>3. QED
      BY <1>1, <3>1, <3>2 DEF DrainAt, DrainFree, DrainMoves, SettledPcs
  <2>4. CASE DrainSettle(d)
    <3>1. DrainAt(d, "settled") /\ drains[d].pc = "ended"
      BY <2>4, GotoEffect DEF DrainSettle
    <3>2. QED
      BY <1>1, <2>4, <3>1 DEF DrainAt, DrainMoves, SettledPcs
  <2>5. CASE DrainSnapshot(d)
    <3>1. DrainAt(d, "snapped") /\ drains[d].pc = "settled"
      BY <2>5, GotoEffect DEF DrainSnapshot
    <3>2. QED
      BY <1>1, <2>5, <3>1 DEF DrainAt, DrainMoves, SettledPcs
  <2>6. CASE DrainCheckpoint(d)
    <3>1. DrainAt(d, "persisting") /\ drains[d].pc = "snapped"
      <4> DEFINE new == [drains[d] EXCEPT !.pc = "persisting",
                                          !.cp = heap[RunOf(d).ledger].turns]
      <4>1. drains[d] \in Drain
        BY DEF IInv, DrainsUpTo
      <4>2. new.pc = "persisting" /\ new.run = drains[d].run
        BY <4>1 DEF Drain
      <4>3. drains' = [drains EXCEPT ![d] = new] /\ drains[d].pc = "snapped"
        BY <2>6 DEF DrainCheckpoint
      <4> HIDE DEF new
      <4>4. QED
        BY <4>2, <4>3, DrainExcept DEF DrainAt
    <3>2. QED
      BY <1>1, <2>6, <3>1 DEF DrainAt, DrainMoves, SettledPcs
  <2>7. CASE DrainPersist(d)
    <3>1. DrainAt(d, "persisted") /\ drains[d].pc = "persisting"
      BY <2>7, PersistDrain DEF DrainPersist
    <3>2. QED
      BY <1>1, <2>7, <3>1 DEF DrainAt, DrainMoves, SettledPcs
  <2>8. CASE DrainReport(d)
    <3>1. DrainAt(d, "reported") /\ drains[d].pc = "persisted"
      BY <2>8, GotoEffect DEF DrainReport
    <3>2. QED
      BY <1>1, <2>8, <3>1 DEF DrainAt, DrainMoves, SettledPcs
  <2>9. CASE DrainRemove(d)
    <3>1. DrainFree(d) /\ drains[d].pc = "reported"
      BY <2>9, FreeEffect DEF DrainRemove
    <3>2. QED
      BY <1>1, <3>1 DEF DrainFree, DrainMoves, SettledPcs
  <2>10. QED
    BY <1>4, <2>1, <2>2, <2>3, <2>4, <2>5, <2>6, <2>7, <2>8, <2>9 DEF DrainStep
<1>5. ASSUME NEW s \in Sessions, CallStep(s) \/ Call(s)
      PROVE  DrainMoves(e)
  <2>1. CASE drains' = drains
    BY <1>1, <2>1
  <2>2. CASE \E d \in Drains : Resume(s, d)
    BY <1>3, <2>2
  <2>3. QED
    BY <1>5, <2>1, <2>2 DEF CallStep, Call, RunRecord, Cancel, RewindCheck, RewindRestore,
       RewindTruncate, ForkTo, SelectTurn, ApplyCandidate, ReleaseCandidate, DiscardFrom
<1>6. CASE UNCHANGED vars
  BY <1>1, <1>6 DEF vars
<1>7. QED
  BY <1>2, <1>4, <1>5, <1>6 DEF Next

-----------------------------------------------------------------------------
(* Turns that are in a history stay in it, where they are, and a settled   *)
(* one stays settled, unless they are dropped.                             *)
Carries(s) ==
    /\ dropped[s] \subseteq dropped'[s]
    /\ \A i \in 1 .. Len(TurnsOf(s)) :
          \/ /\ i <= Len(TurnsOf(s)')
             /\ TurnsOf(s)'[i].turn = TurnsOf(s)[i].turn
             /\ TurnsOf(s)[i].status # "Running" => TurnsOf(s)'[i].status # "Running"
          \/ TurnsOf(s)[i].turn \in dropped'[s]

(* A history that does not change carries everything over.                 *)
LEMMA SameCarries ==
    ASSUME IInv, NEW s \in Sessions, TurnsOf(s)' = TurnsOf(s), dropped'[s] = dropped[s]
    PROVE  Carries(s)
<1>1. Len(TurnsOf(s)) \in Nat
  BY Basics
<1>2. QED
  BY <1>1 DEF Carries

(* Writing to a record carries the turns over.                             *)
LEMMA WriteCarries ==
    ASSUME IInv, NEW s \in Sessions, dropped' = dropped, NEW i \in Nat,
           (\E e : EventEffect(s, i, e)) \/ OutcomeEffect(s, i)
    PROVE  \A t \in Sessions : Carries(t)
<1>1. Len(TurnsOf(s)) \in Nat /\ WriteEffect(s, i)
  BY Basics DEF EventEffect, OutcomeEffect
<1>2. ASSUME NEW j \in 1 .. Len(TurnsOf(s))
      PROVE  /\ j <= Len(TurnsOf(s)')
             /\ TurnsOf(s)'[j].turn = TurnsOf(s)[j].turn
             /\ TurnsOf(s)[j].status # "Running" => TurnsOf(s)'[j].status # "Running"
  <2>1. j <= Len(TurnsOf(s)') /\ TurnsOf(s)'[j].turn = TurnsOf(s)[j].turn
    BY <1>1 DEF WriteEffect
  <2>2. CASE j # i
    BY <1>1, <2>1, <2>2 DEF WriteEffect
  <2>3. CASE j = i
    BY <1>1, <2>1, <2>3 DEF EventEffect, OutcomeEffect
  <2>4. QED
    BY <2>1, <2>2, <2>3
<1>3. Carries(s)
  BY <1>2 DEF Carries
<1>4. \A t \in Sessions \ {s} : Carries(t)
  BY <1>1, SameCarries DEF WriteEffect
<1>5. QED
  BY <1>3, <1>4

(* Shortening carries over what it does not drop.                          *)
LEMMA CutCarries ==
    ASSUME IInv, NEW s \in Sessions, CutEffect(s)
    PROVE  \A t \in Sessions : Carries(t)
<1>1. Len(TurnsOf(s)) \in Nat /\ InOrder(TurnsOf(s), Len(runs))
  BY Basics
<1>2. ASSUME NEW i \in 1 .. Len(TurnsOf(s)), ~(i <= Len(TurnsOf(s)'))
      PROVE  TurnsOf(s)[i].turn \in dropped'[s]
  <2>1. TurnsOf(s)[i].turn \in TurnSet(TurnsOf(s))
    BY DEF TurnSet
  <2>2. ASSUME NEW j \in 1 .. Len(TurnsOf(s)')
        PROVE  TurnsOf(s)'[j].turn # TurnsOf(s)[i].turn
    <3>1. j \in 1 .. Len(TurnsOf(s)) /\ j < i /\ TurnsOf(s)'[j] = TurnsOf(s)[j]
      BY <1>1, <1>2 DEF CutEffect
    <3>2. TurnsOf(s)[j].turn < TurnsOf(s)[i].turn
      BY <1>1, <3>1 DEF InOrder
    <3>3. TurnsOf(s)[j].turn \in Nat /\ TurnsOf(s)[i].turn \in Nat
      BY <1>1, <3>1 DEF InOrder
    <3>4. QED
      BY <3>1, <3>2, <3>3
  <2>3. TurnsOf(s)[i].turn \notin TurnSet(TurnsOf(s)')
    BY <2>2 DEF TurnSet
  <2>4. QED
    BY <2>1, <2>3 DEF CutEffect
<1>3. ASSUME NEW i \in 1 .. Len(TurnsOf(s)), i <= Len(TurnsOf(s)')
      PROVE  TurnsOf(s)'[i] = TurnsOf(s)[i]
  BY <1>1, <1>3 DEF CutEffect
<1>4. Carries(s)
  BY <1>2, <1>3 DEF Carries, CutEffect
<1>5. \A t \in Sessions \ {s} : Carries(t)
  BY SameCarries DEF CutEffect
<1>6. QED
  BY <1>4, <1>5

(* Recording a turn carries the others over.                               *)
LEMMA RecordCarries ==
    ASSUME IInv, NEW s \in Sessions, RecordEffect(s), dropped' = dropped
    PROVE  \A t \in Sessions : Carries(t)
<1>1. Len(TurnsOf(s)) \in Nat
  BY Basics
<1>2. \A t \in Sessions \ {s} : Carries(t)
  BY SameCarries DEF RecordEffect
<1>3. Carries(s)
  BY <1>1 DEF RecordEffect, Carries
<1>4. QED
  BY <1>2, <1>3

(* While the process lives, every session that has run a turn carries on.  *)
LEMMA CarriesStep ==
    ASSUME IInv, OwnLedgers, "editLive" \notin Client, [Next]_vars, ~Restart,
           NEW s \in Sessions, RunsOf(s) # {}
    PROVE  Carries(s)
<1>1. CASE heap' = heap /\ ledgers' = ledgers /\ dropped' = dropped
  BY <1>1, SameCarries DEF TurnsOf
<1>2. ASSUME NEW d \in Drains, DrainStep(d)
      PROVE  Carries(s)
  <2>1. CASE (\E kind \in WireKinds : StreamItem(d, kind)) \/ HiddenItem(d) \/ DrainSettle(d)
    <3>1. drains[d].pc # "idle"
      BY <2>1 DEF StreamItem, MayStream, HiddenItem, DrainSettle
    <3>2. PICK t \in Sessions : t = RunOf(d).session
      BY <3>1, DrainFacts
    <3>3. RunOf(d).index + 1 \in Nat
      BY <3>1, DrainFacts
    <3>4. \/ EventEffect(t, RunOf(d).index + 1, drains[d].run)
          \/ EventEffect(t, RunOf(d).index + 1, Hidden)
          \/ OutcomeEffect(t, RunOf(d).index + 1)
      BY <2>1, <3>2, DrainWrites
    <3>5. dropped' = dropped
      BY <2>1 DEF StreamItem, HiddenItem, DrainSettle
    <3>6. QED
      BY <3>3, <3>4, <3>5, WriteCarries
  <2>2. QED
    BY <1>1, <1>2, <2>1 DEF DrainStep, StreamEnd, DrainSnapshot, DrainCheckpoint,
       DrainPersist, DrainReport, DrainRemove
<1>3. ASSUME NEW r \in 1 .. Len(runs), NEW d \in Drains, RunStart(r, d)
      PROVE  Carries(s)
  BY <1>1, <1>3 DEF RunStart
<1>4. ASSUME NEW t \in Sessions, CallStep(t)
      PROVE  Carries(s)
  BY <1>1, <1>4, TruncateEffect, CutCarries DEF CallStep, RewindRestore
<1>5. ASSUME NEW t \in Sessions, Call(t)
      PROVE  Carries(s)
  <2>1. CASE RunRecord(t)
    BY <2>1, RunRecordEffect, RecordCarries DEF RunRecord
  <2>2. ASSUME NEW at \in 0 .. MaxRuns, NEW u \in Sessions, ForkTo(t, at, u)
        PROVE  Carries(s)
    <3>1. ForkEffect(u)
      BY <2>2, ForkToEffect
    <3>2. QED
      BY <3>1, SameCarries DEF ForkEffect
  <2>3. ASSUME NEW at \in 0 .. MaxRuns,
               \/ SelectTurn(t, at) \/ ApplyCandidate(t, at)
               \/ ReleaseCandidate(t, at) \/ DiscardFrom(t, at)
        PROVE  Carries(s)
    BY <2>3, CandidateEffect, CutCarries
  <2>4. ASSUME \/ \E d \in Drains : Resume(t, d)
               \/ Cancel(t)
               \/ \E at \in 0 .. MaxRuns : RewindCheck(t, at)
        PROVE  Carries(s)
    BY <1>1, <2>4 DEF Resume, Cancel, RewindCheck
  <2>5. QED
    BY <1>5, <2>1, <2>2, <2>3, <2>4 DEF Call
<1>6. CASE UNCHANGED vars
  BY <1>1, <1>6 DEF vars
<1>7. QED
  BY <1>2, <1>3, <1>4, <1>5, <1>6 DEF Next

(* What that means for a run.                                              *)
Keeps(r) ==
    /\ SessionOf(r)' = SessionOf(r) /\ runs'[r].index = runs[r].index
    /\ Dropped(r) => Dropped(r)'
    /\ InPlace(r) => InPlace(r)' \/ Dropped(r)'
    /\ SettledNow(r) => SettledNow(r)' \/ Dropped(r)'

(* A step keeps what the runs there were before it were started with.      *)
LEMMA OldRuns ==
    ASSUME IInv, OwnLedgers, [Next]_vars, NEW r \in 1 .. Len(runs)
    PROVE  /\ runs'[r].session = runs[r].session /\ runs'[r].ledger = runs[r].ledger
           /\ runs'[r].index = runs[r].index
           /\ r \in 1 .. Len(runs')
<1>1. ASSUME NEW s \in Sessions, RunRecord(s)
      PROVE  runs'[r] = runs[r] /\ r \in 1 .. Len(runs')
  <2>1. RecordEffect(s) /\ Len(runs) \in Nat
    BY <1>1, RunRecordEffect, Basics
  <2>2. QED
    BY <2>1 DEF RecordEffect
<1>2. ASSUME SameRuns
      PROVE  /\ runs'[r].session = runs[r].session /\ runs'[r].ledger = runs[r].ledger
             /\ runs'[r].index = runs[r].index
             /\ r \in 1 .. Len(runs')
  BY <1>2 DEF SameRuns
<1>3. QED
  BY <1>1, <1>2, RunsStep

(* Every step but a restart keeps the turns it does not drop.              *)
LEMMA KeepsStep ==
    ASSUME IInv, OwnLedgers, "editLive" \notin Client, [Next]_vars, ~Restart,
           NEW r \in 1 .. Len(runs)
    PROVE  Keeps(r)
<1>1. PICK s \in Sessions : s = runs[r].session
  BY Basics
<1>2. runs'[r].session = s /\ runs'[r].index = runs[r].index
  BY <1>1, OldRuns
<1>3. Carries(s)
  <2>1. RunsOf(s) # {}
    BY <1>1 DEF RunsOf
  <2>2. QED
    BY <2>1, CarriesStep
<1>4. runs[r].index \in Nat /\ Len(TurnsOf(s)) \in Nat /\ Len(TurnsOf(s))' \in Nat
  <2>1. IInv'
    BY NextIInv
  <2>2. Len(heap'[ledgers'[s]].turns) \in Nat
    BY <2>1 DEF IInv, OrderedLedgers, LedgerState
  <2>3. QED
    BY <2>2, Basics DEF TurnsOf
<1>5. Dropped(r) => Dropped(r)'
  BY <1>1, <1>2, <1>3 DEF Dropped, SessionOf, Carries
<1>6. ASSUME InPlace(r), ~Dropped(r)'
      PROVE  InPlace(r)'
  <2> DEFINE i == runs[r].index + 1
  <2>1. i \in 1 .. Len(TurnsOf(s)) /\ TurnsOf(s)[i].turn = r
    BY <1>1, <1>4, <1>6 DEF InPlace, SessionOf
  <2>2. i <= Len(TurnsOf(s)') /\ TurnsOf(s)'[i].turn = r
    BY <1>2, <1>3, <1>6, <2>1 DEF Carries, Dropped, SessionOf
  <2>3. runs[r].index < Len(TurnsOf(s)')
    BY <1>4, <2>2
  <2>4. QED
    BY <1>2, <2>2, <2>3 DEF InPlace, SessionOf
<1>7. ASSUME SettledNow(r), ~Dropped(r)'
      PROVE  SettledNow(r)'
  <2>1. PICK i \in 1 .. Len(TurnsOf(s)) :
           TurnsOf(s)[i].turn = r /\ TurnsOf(s)[i].status # "Running"
    BY <1>1, <1>7 DEF SettledNow, SettledIn, SessionOf
  <2>2. i <= Len(TurnsOf(s)') /\ TurnsOf(s)'[i].turn = r /\ TurnsOf(s)'[i].status # "Running"
    BY <1>2, <1>3, <1>7, <2>1 DEF Carries, Dropped, SessionOf
  <2>3. i \in 1 .. Len(TurnsOf(s)')
    BY <1>4, <2>2
  <2>4. QED
    BY <1>2, <2>2, <2>3 DEF SettledNow, SettledIn, SessionOf
<1>8. QED
  BY <1>1, <1>2, <1>5, <1>6, <1>7 DEF Keeps, SessionOf

-----------------------------------------------------------------------------
(* A finished turn is durable.                                             *)

(* DurableInv holds initially.                                             *)
LEMMA DurableInit == Init => DurableInv
BY DEF Init, DurableInv, WritableInPlace, DrainSettled, OneWriter, WritesOwn, SavedDurable,
   IdleDrain, SettledPcs

(* A run that is over stays so.                                            *)
LEMMA PhaseStep ==
    ASSUME IInv, OwnLedgers, [Next]_vars, ~Restart, NEW r \in 1 .. Len(runs), Pending(r)'
    PROVE  Pending(r)
<1> SUFFICES runs[r].phase \in {"recorded", "live"}
  BY DEF Pending
<1>0. runs'[r].phase \in {"recorded", "live"}
  BY DEF Pending
<1>1. ASSUME NEW d \in Drains, DrainStep(d)
      PROVE  runs[r].phase \in {"recorded", "live"}
  <2>1. CASE runs' = runs
    BY <1>0, <2>1
  <2>2. ASSUME NEW kind \in WireKinds, StreamItem(d, kind)
        PROVE  runs[r].phase \in {"recorded", "live"}
    BY <1>0, <2>2, StreamRuns DEF RunsBut
  <2>3. CASE DrainReport(d)
    BY <1>0, <2>3, ReportRuns DEF RunsBut
  <2>4. QED
    BY <1>1, <2>1, <2>2, <2>3 DEF DrainStep, HiddenItem, StreamEnd, DrainSettle,
       DrainSnapshot, DrainCheckpoint, DrainPersist, DrainRemove
<1>2. ASSUME NEW q \in 1 .. Len(runs), NEW d \in Drains, RunStart(q, d)
      PROVE  runs[r].phase \in {"recorded", "live"}
  BY <1>0, <1>2, StartRuns DEF RunsBut, RunStart
<1>3. ASSUME NEW s \in Sessions, CallStep(s) \/ Call(s)
      PROVE  runs[r].phase \in {"recorded", "live"}
  <2>1. CASE runs' = runs
    BY <1>0, <2>1
  <2>2. ASSUME NEW d \in Drains, Resume(s, d)
        PROVE  runs[r].phase \in {"recorded", "live"}
    BY <1>0, <2>2, ResumeRuns DEF RunsBut
  <2>3. CASE Cancel(s)
    BY <1>0, <2>3, CancelRuns DEF RunsBut
  <2>4. CASE RunRecord(s)
    BY <1>0, <2>4, RunRecordEffect DEF RecordEffect
  <2>5. QED
    BY <1>3, <2>1, <2>2, <2>3, <2>4 DEF CallStep, Call, RewindCheck, RewindRestore,
       RewindTruncate, ForkTo, SelectTurn, ApplyCandidate, ReleaseCandidate, DiscardFrom
<1>4. QED
  BY <1>0, <1>1, <1>2, <1>3 DEF Next, vars

(* Nothing gets access to the record of a run that is over.                *)
LEMMA WritableStep ==
    ASSUME IInv, OwnLedgers, [Next]_vars, ~Restart, NEW r \in 1 .. Len(runs), Writable(r)'
    PROVE  Writable(r)
<1>0. r \in Nat /\ None \notin Nat /\ \A q \in 1 .. Len(runs) : runs[q].session \in Sessions
  BY Basics
<1>1. CASE runs'[r].phase \in {"recorded", "live"}
  BY <1>1, PhaseStep DEF Writable, Pending
<1>2. ASSUME NEW s \in Sessions, sessions'[s] = r
      PROVE  Writable(r)
  <2>1. CASE sessions'[s] = sessions[s]
    BY <1>2, <2>1 DEF Writable
  <2>2. ASSUME NEW q \in 1 .. Len(runs), NEW d \in Drains, RunStart(q, d)
        PROVE  Writable(r)
    <3>1. sessions'[s] = sessions[s] \/ sessions'[s] = q
      BY <2>2 DEF RunStart, IInv
    <3>2. CASE q = r
      BY <2>2, <3>2 DEF RunStart, Writable
    <3>3. QED
      BY <1>2, <2>1, <3>1, <3>2
  <2>3. ASSUME NEW d \in Drains, DrainRemove(d)
        PROVE  Writable(r)
    <3>1. sessions'[s] = sessions[s] \/ sessions'[s] = None
      BY <2>3 DEF DrainRemove, IInv
    <3>2. QED
      BY <1>0, <1>2, <2>1, <3>1
  <2>4. ASSUME NEW d \in Drains, DrainStep(d)
        PROVE  Writable(r)
    BY <2>1, <2>3, <2>4 DEF DrainStep, StreamItem, HiddenItem, StreamEnd, DrainSettle,
       DrainSnapshot, DrainCheckpoint, DrainPersist, DrainReport
  <2>5. ASSUME NEW t \in Sessions, CallStep(t) \/ Call(t)
        PROVE  Writable(r)
    <3>1. sessions' = sessions
      BY <2>5 DEF CallStep, Call, RunRecord, Resume, Cancel, RewindCheck, RewindRestore,
         RewindTruncate, ForkTo, SelectTurn, ApplyCandidate, ReleaseCandidate, DiscardFrom
    <3>2. QED
      BY <2>1, <3>1
  <2>6. QED
    BY <2>1, <2>2, <2>4, <2>5 DEF Next, vars
<1>3. ASSUME NEW d \in Drains, drains'[d].pc # "idle", drains'[d].run = r
      PROVE  Writable(r)
  <2>1. DrainMoves(d)
    BY DrainMovesStep
  <2>2. CASE drains[d].pc # "idle" /\ drains'[d].run = drains[d].run
    BY <1>3, <2>2 DEF Writable
  <2>3. ASSUME NEW q \in 1 .. Len(runs), RunStart(q, d), drains'[d].run = q
        PROVE  Writable(r)
    BY <1>3, <2>3 DEF RunStart, Writable
  <2>4. ASSUME NEW s \in Sessions, drains'[d].run = sessions[s]
        PROVE  Writable(r)
    BY <1>3, <2>4 DEF Writable
  <2>5. QED
    BY <1>3, <2>1, <2>2, <2>3, <2>4 DEF DrainMoves
<1>4. QED
  BY <1>1, <1>2, <1>3 DEF Writable

(* The record of a new run is where its drain will look for it.            *)
LEMMA NewInPlace ==
    ASSUME IInv, NEW s \in Sessions, RecordEffect(s), NEW n, n = Len(runs) + 1
    PROVE  InPlace(n)'
<1>1. Len(TurnsOf(s)) \in Nat
  BY Basics
<1>2. /\ runs'[n].session = s /\ runs'[n].index = Len(TurnsOf(s))
      /\ Len(TurnsOf(s)') = Len(TurnsOf(s)) + 1
      /\ TurnsOf(s)'[Len(TurnsOf(s)) + 1].turn = n
  BY DEF RecordEffect
<1>3. runs'[n].index < Len(TurnsOf(s)') /\ TurnsOf(s)'[runs'[n].index + 1].turn = n
  BY <1>1, <1>2
<1>4. QED
  BY <1>2, <1>3 DEF InPlace, SessionOf

(* A drain that settles a record that is in place has settled its turn.    *)
LEMMA SettlesOwn ==
    ASSUME IInv, OwnLedgers, NEW d \in Drains, DrainSettle(d), InPlace(drains[d].run)
    PROVE  SettledNow(drains[d].run)'
<1>1. drains[d].run \in 1 .. Len(runs)
  BY DrainFacts DEF DrainSettle
<1>2. PICK r \in 1 .. Len(runs) : r = drains[d].run
  BY <1>1
<1>3. PICK s \in Sessions : s = runs[r].session
  BY Basics
<1>4. OutcomeEffect(s, runs[r].index + 1) /\ runs[r].index \in Nat /\ Len(TurnsOf(s)) \in Nat
  BY <1>2, <1>3, SettleEffect, Basics DEF RunOf
<1>5. runs[r].index + 1 \in 1 .. Len(TurnsOf(s)) /\ TurnsOf(s)[runs[r].index + 1].turn = r
  BY <1>2, <1>3, <1>4 DEF InPlace, SessionOf
<1>6. /\ runs[r].index + 1 \in 1 .. Len(TurnsOf(s)')
      /\ TurnsOf(s)'[runs[r].index + 1].turn = r
      /\ TurnsOf(s)'[runs[r].index + 1].status # "Running"
  BY <1>4, <1>5 DEF OutcomeEffect, WriteEffect
<1>7. runs' = runs
  BY DEF DrainSettle
<1>8. SettledNow(r)'
  BY <1>3, <1>6, <1>7 DEF SettledNow, SettledIn, SessionOf
<1>9. drains'[d].run = drains[d].run
  BY GotoEffect DEF DrainSettle, DrainAt
<1>10. QED
  BY <1>2, <1>8, <1>9

(* What makes a turn finished, and who writes to the store.                *)
LEMMA SavingSteps ==
    ASSUME IInv, OwnLedgers, [Next]_vars, ~Restart
    PROVE  /\ \/ store' = store /\ sinkErrors' = sinkErrors
              \/ \E d \in Drains : DrainPersist(d)
           /\ \A r \in 1 .. Len(runs) : runs'[r].phase = "finished" =>
                 \/ runs[r].phase = "finished"
                 \/ \E d \in Drains : DrainReport(d) /\ drains[d].run = r
           /\ \A r \in 1 .. Len(runs') : runs'[r].phase = "finished" => r \in 1 .. Len(runs)
<1> DEFINE finishes(r) == \/ runs[r].phase = "finished"
                          \/ \E d \in Drains : DrainReport(d) /\ drains[d].run = r
           goal == /\ \/ store' = store /\ sinkErrors' = sinkErrors
                      \/ \E d \in Drains : DrainPersist(d)
                   /\ \A r \in 1 .. Len(runs) : runs'[r].phase = "finished" => finishes(r)
                   /\ \A r \in 1 .. Len(runs') : runs'[r].phase = "finished" => r \in 1 .. Len(runs)
<1>0. ASSUME runs' = runs PROVE
         /\ \A r \in 1 .. Len(runs) : runs'[r].phase = "finished" => finishes(r)
         /\ \A r \in 1 .. Len(runs') : runs'[r].phase = "finished" => r \in 1 .. Len(runs)
  BY <1>0
<1>1. ASSUME NEW d \in Drains, DrainStep(d)
      PROVE  goal
  <2>1. \/ store' = store /\ sinkErrors' = sinkErrors
        \/ \E e \in Drains : DrainPersist(e)
    BY <1>1 DEF DrainStep, StreamItem, HiddenItem, StreamEnd, DrainSettle, DrainSnapshot,
       DrainCheckpoint, DrainReport, DrainRemove
  <2>2. ASSUME NEW kind \in WireKinds, StreamItem(d, kind)
        PROVE  goal
    BY <2>1, <2>2, StreamRuns DEF RunsBut, SameRuns
  <2>3. CASE DrainReport(d)
    BY <2>1, <2>3, ReportRuns DEF RunsBut, SameRuns
  <2>4. CASE runs' = runs
    BY <1>0, <2>1, <2>4
  <2>5. QED
    BY <1>1, <2>2, <2>3, <2>4 DEF DrainStep, HiddenItem, StreamEnd, DrainSettle,
       DrainSnapshot, DrainCheckpoint, DrainPersist, DrainRemove
<1>2. ASSUME NEW r \in 1 .. Len(runs), NEW d \in Drains, RunStart(r, d)
      PROVE  goal
  <2>1. store' = store /\ sinkErrors' = sinkErrors
    BY <1>2 DEF RunStart
  <2>2. QED
    BY <1>2, <2>1, StartRuns DEF RunsBut, SameRuns
<1>3. ASSUME NEW s \in Sessions, CallStep(s) \/ Call(s)
      PROVE  goal
  <2>1. store' = store /\ sinkErrors' = sinkErrors
    BY <1>3 DEF CallStep, Call, RunRecord, Resume, Cancel, RewindCheck, RewindRestore,
       RewindTruncate, ForkTo, SelectTurn, ApplyCandidate, ReleaseCandidate, DiscardFrom
  <2>2. ASSUME NEW d \in Drains, Resume(s, d)
        PROVE  goal
    BY <2>1, <2>2, ResumeRuns DEF RunsBut, SameRuns
  <2>3. CASE Cancel(s)
    BY <2>1, <2>3, CancelRuns DEF RunsBut, SameRuns
  <2>4. CASE RunRecord(s)
    <3>1. RecordEffect(s) /\ Len(runs) \in Nat
      BY <2>4, RunRecordEffect, Basics
    <3>2. QED
      BY <2>1, <3>1 DEF RecordEffect
  <2>5. CASE runs' = runs
    BY <1>0, <2>1, <2>5
  <2>6. QED
    BY <1>3, <2>2, <2>3, <2>4, <2>5 DEF CallStep, Call, RewindCheck, RewindRestore,
       RewindTruncate, ForkTo, SelectTurn, ApplyCandidate, ReleaseCandidate, DiscardFrom
<1>4. CASE UNCHANGED vars
  <2>1. runs' = runs /\ store' = store /\ sinkErrors' = sinkErrors
    BY <1>4 DEF vars
  <2>2. QED
    BY <1>0, <2>1
<1>5. QED
  BY <1>1, <1>2, <1>3, <1>4 DEF Next

(* Persisting writes the checkpoint under the session of the turn.         *)
LEMMA PersistStore ==
    ASSUME IInv, NEW d \in Drains, NEW s \in Sessions, DrainPersist(d)
    PROVE  store'[s] = store[s] \/ (RunOf(d).session = s /\ store'[s] = drains[d].cp)
<1> DEFINE t == RunOf(d).session
           cp == drains[d].cp
<1>1. \/ store' = [store EXCEPT ![t] = cp]
      \/ store' = store
  BY DEF DrainPersist
<1>2. store \in [Sessions -> OrderedLists(Len(runs)) \cup {None}]
  BY DEF IInv
<1> HIDE DEF t, cp
<1>3. store'[s] = store[s] \/ (t = s /\ store'[s] = cp)
  BY <1>1, <1>2
<1>4. QED
  BY <1>3 DEF t, cp

(* DurableInv is inductive.                                                *)
LEMMA DurableNext ==
    ASSUME IInv, OwnLedgers, DurableInv, "editLive" \notin Client, [Next]_vars
    PROVE  DurableInv'
<1>1. CASE Restart
  <2>1. /\ \A d \in Drains : drains'[d].pc = "idle"
        /\ store' = store /\ dropped' = dropped /\ ledgers' = ledgers
        /\ sinkErrors' = sinkErrors
        /\ \A s \in Sessions : sessions'[s] = None
    BY <1>1 DEF Restart, IdleDrain
  <2>2. Len(runs') = Len(runs) /\ SameRuns
    BY <1>1, RestartRuns DEF SameRuns
  <2>3. \A r \in 1 .. Len(runs) : runs'[r].phase \in {"finished", "lost"}
                                  /\ (runs'[r].phase = "finished" => runs[r].phase = "finished")
    BY <1>1, RestartRuns
  <2>4. WritableInPlace'
    <3>1. \A r \in 1 .. Len(runs') : r # None
      BY Basics, <2>2
    <3>2. QED
      BY <2>1, <2>2, <2>3, <3>1 DEF WritableInPlace, Writable
  <2>5. DrainSettled' /\ OneWriter' /\ WritesOwn'
    BY <2>1 DEF DrainSettled, OneWriter, WritesOwn, SettledPcs
  <2>6. SavedDurable'
    <3> SUFFICES ASSUME sinkErrors' = 0, NEW r \in 1 .. Len(runs'), Saved(r)', ~Dropped(r)'
                 PROVE  Durable(r)'
      BY DEF SavedDurable
    <3>1. PICK s \in Sessions : s = runs[r].session /\ s = runs'[r].session
      BY <2>2, Basics DEF SameRuns
    <3>2. Saved(r) /\ ~Dropped(r)
      BY <2>1, <2>2, <2>3, <3>1 DEF Saved, Dropped, SessionOf
    <3>3. store[s] # None /\ SettledIn(store[s], r)
      BY <2>1, <2>2, <3>1, <3>2 DEF SavedDurable, DurableInv, Durable, SessionOf
    <3>4. TurnsOf(s)' = store[s]
      <4>1. (CHOOSE t \in Sessions : ledgers[t] = ledgers[s]) = s
        BY DEF OwnLedgers
      <4>2. ledgers[s] \in Ledgers
        BY Basics
      <4>3. heap'[ledgers[s]] = Restored(s)
        BY <1>1, <4>1, <4>2 DEF Restart
      <4>4. QED
        BY <2>1, <3>3, <4>3 DEF Restored, FromCheckpoint, TurnsOf
    <3>5. QED
      BY <2>1, <3>1, <3>3, <3>4 DEF Durable, SettledNow, SessionOf
  <2>7. QED
    BY <2>4, <2>5, <2>6 DEF DurableInv
<1>2. CASE ~Restart
  <2>1. \A r \in 1 .. Len(runs) : Keeps(r)
    BY <1>2, KeepsStep
  <2>2. \A d \in Drains : DrainMoves(d)
    BY <1>2, DrainMovesStep
  <2>3. Len(runs) \in Nat /\ \A d \in Drains : drains[d].pc # "idle" => drains[d].run \in 1 .. Len(runs)
    BY DrainFacts, Basics
  <2>4. WritableInPlace'
    <3> SUFFICES ASSUME NEW r \in 1 .. Len(runs'), Writable(r)'
                 PROVE  InPlace(r)' \/ Dropped(r)'
      BY DEF WritableInPlace
    <3>1. CASE r \in 1 .. Len(runs)
      <4>1. InPlace(r) \/ Dropped(r)
        BY <1>2, <3>1, WritableStep DEF DurableInv, WritableInPlace
      <4>2. QED
        BY <2>1, <3>1, <4>1 DEF Keeps
    <3>2. CASE r \notin 1 .. Len(runs)
      <4>1. PICK s \in Sessions : RunRecord(s)
        BY <3>2, RunsStep DEF SameRuns
      <4>2. RecordEffect(s)
        BY <4>1, RunRecordEffect
      <4>3. r = Len(runs) + 1
        BY <2>3, <3>2, <4>2 DEF RecordEffect
      <4>4. QED
        BY <4>2, <4>3, NewInPlace
    <3>3. QED
      BY <3>1, <3>2
  <2>5. DrainSettled'
    <3> SUFFICES ASSUME NEW d \in Drains, drains'[d].pc \in SettledPcs
                 PROVE  SettledNow(drains[d].run)' \/ Dropped(drains[d].run)'
      BY DEF DrainSettled
    <3>1. drains'[d].run = drains[d].run /\ (drains[d].pc \in SettledPcs \/ DrainSettle(d))
      BY <2>2 DEF DrainMoves
    <3>2. PICK r \in 1 .. Len(runs) : r = drains[d].run
      BY <2>3, <3>1 DEF DrainSettle, SettledPcs
    <3>3. CASE drains[d].pc \in SettledPcs
      BY <2>1, <3>1, <3>2, <3>3 DEF DurableInv, DrainSettled, Keeps
    <3>4. CASE DrainSettle(d)
      <4>1. InPlace(r) \/ Dropped(r)
        BY <3>2, <3>4 DEF DurableInv, WritableInPlace, Writable, DrainSettle
      <4>2. QED
        BY <2>1, <3>1, <3>2, <3>4, <4>1, SettlesOwn DEF Keeps
    <3>5. QED
      BY <3>1, <3>3, <3>4
  <2>6. OneWriter'
    <3> SUFFICES ASSUME NEW d \in Drains, NEW e \in Drains,
                        drains'[d].pc = "persisting", drains'[e].pc = "persisting", d # e
                 PROVE  FALSE
      BY DEF OneWriter
    <3>1. /\ drains[d].pc = "persisting" \/ DrainCheckpoint(d)
          /\ drains[e].pc = "persisting" \/ DrainCheckpoint(e)
      BY <2>2 DEF DrainMoves
    <3>2. ASSUME NEW f \in Drains, NEW g \in Drains, f # g, DrainCheckpoint(f),
                 drains'[g].pc = "persisting"
          PROVE  FALSE
      <4>1. drains'[g] = drains[g]
        BY <3>2, CheckpointDrain DEF DrainAt
      <4>2. QED
        BY <3>2, <4>1 DEF DrainCheckpoint, SinkFree
    <3>3. QED
      BY <3>1, <3>2 DEF DurableInv, OneWriter
  <2>7. ASSUME NEW d \in Drains, NEW r \in 1 .. Len(runs), NEW s \in Sessions,
               DrainCheckpoint(d), SettledNow(r), runs[r].session = s, RunOf(d).session = s
        PROVE  SettledIn(drains'[d].cp, r)
    BY <2>7, CheckpointDrain DEF SettledNow, SessionOf
  <2>8. WritesOwn'
    <3> SUFFICES ASSUME NEW d \in Drains, drains'[d].pc = "persisting"
                 PROVE  SettledIn(drains'[d].cp, drains'[d].run) \/ Dropped(drains[d].run)'
      BY DEF WritesOwn
    <3>1. drains'[d].run = drains[d].run
      BY <2>2 DEF DrainMoves, SettledPcs
    <3>2. \/ drains[d].pc = "persisting" /\ drains'[d].cp = drains[d].cp
          \/ DrainCheckpoint(d)
      BY <2>2 DEF DrainMoves
    <3>3. PICK r \in 1 .. Len(runs) : r = drains[d].run
      BY <2>3, <3>2 DEF DrainCheckpoint
    <3>4. CASE drains[d].pc = "persisting" /\ drains'[d].cp = drains[d].cp
      BY <2>1, <3>1, <3>3, <3>4 DEF DurableInv, WritesOwn, Keeps
    <3>5. CASE DrainCheckpoint(d)
      <4>1. SettledNow(r) \/ Dropped(r)
        BY <3>3, <3>5 DEF DurableInv, DrainSettled, DrainCheckpoint, SettledPcs
      <4>2. runs[r].session \in Sessions
        BY Basics
      <4>3. QED
        BY <2>1, <2>7, <3>1, <3>3, <3>5, <4>1, <4>2 DEF Keeps, RunOf
    <3>6. QED
      BY <3>2, <3>4, <3>5
  <2>9. SavedDurable'
    <3> SUFFICES ASSUME sinkErrors' = 0, NEW r \in 1 .. Len(runs'), Saved(r)', ~Dropped(r)'
                 PROVE  Durable(r)'
      BY DEF SavedDurable
    <3>1. r \in 1 .. Len(runs)
      <4>1. CASE runs'[r].phase = "finished"
        BY <1>2, <4>1, SavingSteps
      <4>2. ASSUME NEW d \in Drains, drains'[d].pc = "persisted", drains'[d].run = r
            PROVE  r \in 1 .. Len(runs)
        BY <2>2, <2>3, <4>2 DEF DrainMoves, SettledPcs, DrainSettle
      <4>3. QED
        BY <4>1, <4>2 DEF Saved
    <3>2. PICK s \in Sessions : s = runs[r].session /\ s = runs'[r].session
      BY <2>1, <3>1, Basics DEF Keeps, SessionOf
    <3>3. ~Dropped(r) /\ Keeps(r)
      BY <2>1, <3>1 DEF Keeps
    <3>4. CASE Saved(r)
      <4>1. sinkErrors = 0
        <5>1. ASSUME NEW d \in Drains, DrainPersist(d)
              PROVE  sinkErrors = 0
          BY <5>1 DEF DrainPersist, IInv
        <5>2. QED
          BY <1>2, <5>1, SavingSteps
      <4>2. Durable(r)
        BY <3>1, <3>3, <3>4, <4>1 DEF DurableInv, SavedDurable
      <4>3. SettledNow(r)'
        BY <3>3, <4>2 DEF Keeps, Durable
      <4>4. store'[s] # None /\ SettledIn(store'[s], r)
        <5>1. store[s] # None /\ SettledIn(store[s], r)
          BY <3>2, <4>2 DEF Durable, SessionOf
        <5>2. ASSUME NEW d \in Drains, DrainPersist(d)
              PROVE  store'[s] # None /\ SettledIn(store'[s], r)
          <6>1. RunOf(d).session \in Sessions /\ drains[d].cp \in Checkpoint
            BY <5>2, DrainFacts DEF DrainPersist, DrainsUpTo, Drain
          <6>2. store'[s] = store[s] \/ (RunOf(d).session = s /\ store'[s] = drains[d].cp)
            BY <5>2, PersistStore
          <6>3. ASSUME RunOf(d).session = s, store'[s] = drains[d].cp
                PROVE  store'[s] # None /\ SettledIn(store'[s], r)
            <7>1. SettledIn(drains[d].cp, r)
              BY <3>2, <4>2, <5>2, <6>3 DEF Durable, SessionOf, DrainPersist
            <7>2. QED
              BY <6>1, <6>3, <7>1, NoneAssumption
          <6>4. QED
            BY <5>1, <6>2, <6>3
        <5>3. QED
          BY <1>2, <5>1, <5>2, SavingSteps
      <4>5. ASSUME NEW d \in Drains, drains'[d].pc = "persisting",
                   runs'[drains'[d].run].session = s
            PROVE  SettledIn(drains'[d].cp, r)
        <5>1. drains'[d].run = drains[d].run
          BY <2>2, <4>5 DEF DrainMoves, SettledPcs
        <5>2. \/ drains[d].pc = "persisting" /\ drains'[d].cp = drains[d].cp
              \/ DrainCheckpoint(d)
          BY <2>2, <4>5 DEF DrainMoves
        <5>3. drains[d].run \in 1 .. Len(runs)
          BY <2>3, <5>2 DEF DrainCheckpoint
        <5>4. RunOf(d).session = s
          BY <2>1, <4>5, <5>1, <5>3 DEF Keeps, SessionOf, RunOf
        <5>5. CASE drains[d].pc = "persisting" /\ drains'[d].cp = drains[d].cp
          BY <3>2, <4>2, <5>4, <5>5 DEF Durable, SessionOf
        <5>6. CASE DrainCheckpoint(d)
          BY <2>7, <3>1, <3>2, <4>2, <5>4, <5>6 DEF Durable
        <5>7. QED
          BY <5>2, <5>5, <5>6
      <4>6. QED
        BY <3>2, <4>3, <4>4, <4>5 DEF Durable, SessionOf, RunOf
    <3>5. CASE ~Saved(r)
      <4>1. PICK d \in Drains : DrainPersist(d) /\ drains[d].run = r
        <5>1. runs'[r].phase # "finished"
          BY <1>2, <3>1, <3>5, SavingSteps DEF Saved, DrainReport
        <5>2. PICK d \in Drains : drains'[d].pc = "persisted" /\ drains'[d].run = r
          BY <5>1 DEF Saved
        <5>3. drains[d].run = r /\ (drains[d].pc = "persisted" \/ DrainPersist(d))
          BY <2>2, <5>2 DEF DrainMoves, SettledPcs
        <5>4. QED
          BY <3>5, <5>3 DEF Saved
      <4>2. drains[d].pc = "persisting" /\ RunOf(d).session = s /\ drains[d].cp \in Checkpoint
        BY <3>2, <4>1, DrainFacts DEF DrainPersist, DrainsUpTo, Drain, RunOf
      <4>3. store'[s] = drains[d].cp
        BY <4>1, <4>2 DEF DrainPersist, IInv
      <4>4. SettledIn(drains[d].cp, r)
        BY <3>3, <4>1, <4>2 DEF DurableInv, WritesOwn
      <4>5. store'[s] # None
        BY <4>2, <4>3, NoneAssumption
      <4>6. SettledNow(r)'
        BY <3>3, <4>1, <4>2 DEF DurableInv, DrainSettled, SettledPcs, Keeps
      <4>7. \A e \in Drains : drains'[e].pc # "persisting"
        <5>1. DrainAt(d, "persisted")
          BY <4>1, PersistDrain
        <5>2. QED
          BY <4>2, <5>1 DEF DrainAt, DurableInv, OneWriter
      <4>8. QED
        BY <3>2, <4>3, <4>4, <4>5, <4>6, <4>7 DEF Durable, SessionOf
    <3>6. QED
      BY <3>4, <3>5
  <2>10. QED
    BY <2>4, <2>5, <2>6, <2>8, <2>9 DEF DurableInv
<1>3. QED
  BY <1>1, <1>2

(* For clients that fork onto unused ids and edit no live session, whether *)
(* or not their turns and calls overlap: a turn reported finished is       *)
(* settled in the store, across restarts, until it is dropped or the store *)
(* fails.                                                                  *)
THEOREM DaemonFinishedDurable ==
    ASSUME "editLive" \notin Client
    PROVE  Spec => []FinishedIsDurable
<1> DEFINE Inv == IInv /\ OwnLedgers /\ DurableInv
<1>1. Init => Inv
  BY InitIInv, OwnLedgersInit, DurableInit
<1>2. Inv /\ [Next]_vars => Inv'
  BY NextIInv, OwnLedgersNext, DurableNext
<1>3. Inv => FinishedIsDurable
  BY DEF DurableInv, SavedDurable, Saved, Dropped, Durable, SessionOf, FinishedIsDurable
<1>4. QED
  BY <1>1, <1>2, <1>3, PTL DEF Spec

-----------------------------------------------------------------------------
(* The careful client: its turns are registered and do not overlap.        *)

(* RegisteredInv holds initially.                                          *)
LEMMA RegisteredInit == Init => RegisteredInv
BY DEF Init, RegisteredInv, OnePending, PendingRegistered, SessionOwn, BusyRegistered,
   OneBusy, ClosingOpen, RewindQuiet, Busy, IdleDrain

(* run's first step keeps RegisteredInv.                                   *)
LEMMA RegisteredRecord ==
    ASSUME IInv, OwnLedgers, RegisteredInv, Client = {}, NEW s \in Sessions, RunRecord(s)
    PROVE  RegisteredInv'
<1>1. RecordEffect(s) /\ Len(runs) \in Nat
  BY RunRecordEffect, Basics
<1>2. sessions' = sessions /\ drains' = drains /\ rewinds' = rewinds
  BY DEF RunRecord
<1>3. /\ rewinds[s] = None /\ sessions[s] = None
      /\ \A r \in 1 .. Len(runs) : runs[r].session = s => ~Pending(r)
  BY DEF RunRecord, MayRun, FreeCaller, Over, RunsOf, Pending
<1> DEFINE n == Len(runs) + 1
<1>4. /\ \A r \in 1 .. Len(runs') : r = n \/ (r \in 1 .. Len(runs) /\ runs'[r] = runs[r])
      /\ runs'[n].session = s /\ runs'[n].phase = "recorded" /\ runs'[n].asked = FALSE
      /\ \A r \in 1 .. Len(runs) : runs'[r] = runs[r]
  BY <1>1 DEF RecordEffect
<1>5. /\ \A d \in Drains : drains[d].pc # "idle" => drains[d].run \in 1 .. Len(runs)
      /\ \A t \in Sessions : sessions[t] # None => sessions[t] \in 1 .. Len(runs)
  BY DrainFacts, Basics
<1> HIDE DEF n
<1>6. OnePending'
  BY <1>3, <1>4 DEF RegisteredInv, OnePending, Pending, SessionOf
<1>7. PendingRegistered'
  BY <1>2, <1>3, <1>4 DEF RegisteredInv, PendingRegistered, SessionOf
<1>8. SessionOwn'
  BY <1>2, <1>4, <1>5 DEF RegisteredInv, SessionOwn, SessionOf
<1>9. BusyRegistered'
  BY <1>2, <1>4, <1>5 DEF RegisteredInv, BusyRegistered, RunOf, Busy
<1>10. OneBusy' /\ ClosingOpen'
  BY <1>2 DEF RegisteredInv, OneBusy, ClosingOpen, Busy
<1>11. RewindQuiet'
  BY <1>2, <1>3, <1>4 DEF RegisteredInv, RewindQuiet, RunsOf, Pending
<1>12. QED
  BY <1>6, <1>7, <1>8, <1>9, <1>10, <1>11 DEF RegisteredInv

(* Starting a run keeps RegisteredInv.                                     *)
LEMMA RegisteredStart ==
    ASSUME IInv, RegisteredInv, NEW r \in 1 .. Len(runs), NEW d \in Drains, RunStart(r, d)
    PROVE  RegisteredInv'
<1>1. /\ RunsBut(r) /\ runs'[r].phase = "live" /\ runs'[r].asked = runs[r].asked
      /\ runs[r].phase = "recorded" /\ rewinds' = rewinds
  BY StartRuns DEF RunStart
<1>2. /\ \A e \in Drains \ {d} : drains'[e] = drains[e]
      /\ drains'[d].pc = "streaming" /\ drains'[d].run = r /\ drains'[d].final = "running"
  BY SpawnEffect DEF RunStart
<1>3. PICK s \in Sessions : s = runs[r].session /\ s = runs'[r].session
  BY <1>1, Basics DEF RunsBut, SameRuns
<1>4. sessions[s] = None /\ ~runs[r].asked /\ rewinds[s] = None
  BY <1>1, <1>3 DEF RegisteredInv, PendingRegistered, SessionOf, RewindQuiet, RunsOf, Pending
<1>5. sessions'[s] = r /\ \A t \in Sessions \ {s} : sessions'[t] = sessions[t]
  BY <1>3 DEF RunStart, IInv
<1>6. /\ Len(runs') = Len(runs)
      /\ \A q \in 1 .. Len(runs) : runs'[q].session = runs[q].session /\ runs[q].session \in Sessions
      /\ \A q \in 1 .. Len(runs) : q # r => runs'[q] = runs[q]
  BY <1>1, Basics DEF RunsBut, SameRuns
<1>7. /\ \A e \in Drains : drains[e].pc # "idle" => drains[e].run \in 1 .. Len(runs)
      /\ \A t \in Sessions : sessions[t] # None => sessions[t] \in 1 .. Len(runs)
  BY DrainFacts, Basics
<1>8. \A q \in 1 .. Len(runs) : q # r /\ runs[q].session = s => ~Pending(q)
  BY <1>1, <1>3 DEF RegisteredInv, OnePending, Pending, SessionOf
<1>9. \A e \in Drains : Busy(e) => drains[e].run # r /\ RunOf(e).session # s
  <2>1. ASSUME NEW e \in Drains, Busy(e)
        PROVE  drains[e].run # r /\ RunOf(e).session # s
    <3>1. sessions[RunOf(e).session] = drains[e].run /\ RunOf(e).phase # "recorded"
      BY <2>1 DEF RegisteredInv, BusyRegistered
    <3>2. drains[e].run # None
      BY <1>7, <2>1, NoneAssumption DEF Busy
    <3>3. QED
      BY <1>1, <1>4, <3>1, <3>2 DEF RunOf
  <2>2. QED
    BY <2>1
<1>10. OnePending'
  BY <1>1, <1>3, <1>6, <1>8 DEF RegisteredInv, OnePending, Pending, SessionOf
<1>11. PendingRegistered'
  BY <1>1, <1>3, <1>5, <1>6, <1>8 DEF RegisteredInv, PendingRegistered, SessionOf, Pending
<1>12. SessionOwn'
  BY <1>1, <1>3, <1>4, <1>5, <1>6, <1>7 DEF RegisteredInv, SessionOwn, SessionOf
<1>13. BusyRegistered'
  <2>1. ASSUME NEW e \in Drains \ {d}, Busy(e)
        PROVE  /\ drains[e].run \in 1 .. Len(runs) /\ runs'[drains[e].run] = runs[drains[e].run]
               /\ sessions'[RunOf(e).session] = sessions[RunOf(e).session]
    BY <1>5, <1>6, <1>7, <1>9, <2>1 DEF Busy, RunOf
  <2>2. QED
    BY <1>1, <1>2, <1>3, <1>4, <1>5, <2>1 DEF RegisteredInv, BusyRegistered, RunOf, Busy
<1>14. OneBusy' /\ ClosingOpen'
  BY <1>2, <1>9 DEF RegisteredInv, OneBusy, ClosingOpen, Busy
<1>15. RewindQuiet'
  BY <1>1, <1>3, <1>4, <1>5, <1>6 DEF RegisteredInv, RewindQuiet, RunsOf, Pending
<1>16. QED
  BY <1>10, <1>11, <1>12, <1>13, <1>14, <1>15 DEF RegisteredInv

(* Steps that start, end and register nothing.                             *)
SamePhases ==
    /\ SameRuns
    /\ \A r \in 1 .. Len(runs) :
          runs'[r].phase = runs[r].phase /\ runs'[r].asked = runs[r].asked

SameWork ==
    \A d \in Drains :
        /\ Busy(d)' => /\ Busy(d) /\ drains'[d].run = drains[d].run
                       /\ drains'[d].pc = "reported" <=> drains[d].pc = "reported"
        /\ drains'[d].pc = "closing" => drains'[d].final = "running"

(* A step that leaves phases and work alone keeps RegisteredInv.           *)
LEMMA RegisteredQuiet ==
    ASSUME IInv, RegisteredInv, SamePhases, SameWork, sessions' = sessions,
           \A s \in Sessions : rewinds'[s] # None => rewinds[s] # None
    PROVE  RegisteredInv'
<1>1. /\ \A d \in Drains : drains[d].pc # "idle" => drains[d].run \in 1 .. Len(runs)
      /\ \A t \in Sessions : sessions[t] # None => sessions[t] \in 1 .. Len(runs)
  BY DrainFacts, Basics
<1>2. /\ Len(runs') = Len(runs)
      /\ \A r \in 1 .. Len(runs) : /\ runs'[r].session = runs[r].session
                                   /\ runs'[r].phase = runs[r].phase
                                   /\ runs'[r].asked = runs[r].asked
  BY DEF SamePhases, SameRuns
<1>3. OnePending'
  BY <1>2 DEF RegisteredInv, OnePending, Pending, SessionOf
<1>4. PendingRegistered'
  BY <1>2 DEF RegisteredInv, PendingRegistered, SessionOf
<1>5. SessionOwn'
  BY <1>1, <1>2 DEF RegisteredInv, SessionOwn, SessionOf
<1>6. BusyRegistered'
  <2> SUFFICES ASSUME NEW d \in Drains, Busy(d)'
               PROVE  /\ sessions'[runs'[drains'[d].run].session] = drains'[d].run
                      /\ runs'[drains'[d].run].phase =
                            IF drains'[d].pc = "reported" THEN "finished" ELSE "live"
                      /\ ~runs'[drains'[d].run].asked
    BY DEF BusyRegistered, RunOf
  <2>1. /\ Busy(d) /\ drains'[d].run = drains[d].run /\ drains[d].run \in 1 .. Len(runs)
        /\ drains'[d].pc = "reported" <=> drains[d].pc = "reported"
    BY <1>1 DEF SameWork, Busy
  <2>2. QED
    BY <1>2, <2>1 DEF RegisteredInv, BusyRegistered, RunOf
<1>7. OneBusy' /\ ClosingOpen'
  BY DEF RegisteredInv, OneBusy, ClosingOpen, SameWork
<1>8. RewindQuiet'
  BY <1>2 DEF RegisteredInv, RewindQuiet, RunsOf, Pending
<1>9. QED
  BY <1>3, <1>4, <1>5, <1>6, <1>7, <1>8 DEF RegisteredInv

(* Unchanged runs are in the same phases.                                  *)
LEMMA SamePhasesRuns == ASSUME runs' = runs PROVE SamePhases
BY DEF SamePhases, SameRuns

(* Unchanged drains have the same work.                                    *)
LEMMA SameWorkDrains == ASSUME drains' = drains, RegisteredInv PROVE SameWork
BY DEF SameWork, Busy, RegisteredInv, ClosingOpen

(* A busy drain that moves on has the same work.                           *)
LEMMA SameWorkMoved ==
    ASSUME RegisteredInv, NEW d \in Drains, NEW pc, DrainAt(d, pc), Busy(d),
           pc = "reported" <=> drains[d].pc = "reported", pc # "closing"
    PROVE  SameWork
BY DEF DrainAt, SameWork, Busy, RegisteredInv, ClosingOpen

(* Freeing a drain adds no work.                                           *)
LEMMA SameWorkFreed ==
    ASSUME RegisteredInv, NEW d \in Drains, DrainFree(d)
    PROVE  SameWork
BY DEF DrainFree, SameWork, Busy, RegisteredInv, ClosingOpen

(* Resuming keeps RegisteredInv.                                           *)
LEMMA RegisteredResume ==
    ASSUME IInv, RegisteredInv, Client = {}, NEW s \in Sessions, NEW d \in Drains, Resume(s, d)
    PROVE  RegisteredInv'
<1>1. PICK r \in 1 .. Len(runs) : r = sessions[s]
  BY Basics DEF Resume
<1>2. RunsBut(r) /\ runs'[r].phase = runs[r].phase /\ runs'[r].asked = FALSE
  BY <1>1, ResumeRuns
<1>3. sessions' = sessions /\ rewinds' = rewinds /\ runs[r].asked
  BY <1>1 DEF Resume, MayAnswer
<1>4. runs[r].session = s /\ runs[r].phase = "live"
  BY <1>1, <1>3 DEF RegisteredInv, SessionOwn, SessionOf, Resume
<1>5. /\ \A e \in Drains \ {d} : drains'[e] = drains[e]
      /\ drains'[d].pc = "streaming" /\ drains'[d].run = r /\ drains'[d].final = "running"
  BY <1>1, SpawnEffect DEF Resume
<1>6. \A e \in Drains : Busy(e) => drains[e].run # r
  BY <1>3 DEF RegisteredInv, BusyRegistered, RunOf
<1>7. /\ Len(runs') = Len(runs)
      /\ \A q \in 1 .. Len(runs) : /\ runs'[q].session = runs[q].session
                                   /\ runs'[q].phase = runs[q].phase
                                   /\ q # r => runs'[q] = runs[q]
  BY <1>2 DEF RunsBut, SameRuns
<1>8. /\ \A e \in Drains : drains[e].pc # "idle" => drains[e].run \in 1 .. Len(runs)
      /\ \A t \in Sessions : sessions[t] # None => sessions[t] \in 1 .. Len(runs)
  BY DrainFacts, Basics
<1>9. OnePending'
  BY <1>7 DEF RegisteredInv, OnePending, Pending, SessionOf
<1>10. PendingRegistered'
  BY <1>2, <1>3, <1>7 DEF RegisteredInv, PendingRegistered, SessionOf
<1>11. SessionOwn'
  BY <1>2, <1>3, <1>7, <1>8 DEF RegisteredInv, SessionOwn, SessionOf
<1>12. BusyRegistered'
  <2>1. ASSUME NEW e \in Drains \ {d}, Busy(e)
        PROVE  drains[e].run \in 1 .. Len(runs) /\ runs'[drains[e].run] = runs[drains[e].run]
    BY <1>6, <1>7, <1>8, <2>1 DEF Busy
  <2>2. QED
    BY <1>1, <1>2, <1>3, <1>4, <1>5, <1>7, <2>1 DEF RegisteredInv, BusyRegistered, RunOf, Busy
<1>13. OneBusy' /\ ClosingOpen'
  BY <1>5, <1>6 DEF RegisteredInv, OneBusy, ClosingOpen, Busy
<1>14. RewindQuiet'
  BY <1>3, <1>7 DEF RegisteredInv, RewindQuiet, RunsOf, Pending
<1>15. QED
  BY <1>9, <1>10, <1>11, <1>12, <1>13, <1>14 DEF RegisteredInv

(* Streaming keeps RegisteredInv.                                          *)
LEMMA RegisteredStream ==
    ASSUME IInv, RegisteredInv, "usage" \notin Harness,
           NEW d \in Drains, NEW kind \in WireKinds, StreamItem(d, kind)
    PROVE  RegisteredInv'
<1>1. PICK r \in 1 .. Len(runs) : r = drains[d].run
  BY DrainFacts DEF StreamItem, MayStream
<1>2. /\ RunsBut(r) /\ runs'[r].phase = runs[r].phase
      /\ runs'[r].asked <=> (runs[r].asked \/ kind = "ask")
  BY <1>1, StreamRuns
<1>3. sessions' = sessions /\ rewinds' = rewinds
  BY DEF StreamItem
<1>4. /\ DrainAt(d, IF kind = "ask" THEN "closing" ELSE drains[d].pc)
      /\ drains[d].pc \in {"streaming", "closing"}
      /\ drains[d].pc = "closing" => kind # "ask"
      /\ drains'[d].final = IF kind \in {"delta", "ask"} THEN drains[d].final ELSE kind
  BY StreamDrain
<1>5. ASSUME drains[d].pc = "streaming"
      PROVE  Busy(d) /\ runs[r].phase = "live" /\ ~runs[r].asked
  BY <1>1, <1>5 DEF RegisteredInv, BusyRegistered, RunOf, Busy
<1>6. CASE kind # "ask"
  <2>1. SamePhases
    <3>1. runs'[r].asked = runs[r].asked
      <4>1. runs'[r].asked \in BOOLEAN /\ runs[r].asked \in BOOLEAN
        <5>1. IInv'
          BY StreamItemIInv
        <5>2. runs' \in Seq(Run) /\ r \in 1 .. Len(runs')
          BY <1>2, <5>1 DEF IInv, RunsBut, SameRuns
        <5>3. runs'[r] \in Run
          BY <5>2, ElementOfSeq
        <5>4. QED
          BY <5>3, Basics DEF Run
      <4>2. QED
        BY <1>2, <1>6, <4>1
    <3>2. QED
      BY <1>2, <3>1 DEF SamePhases, RunsBut
  <2>2. SameWork
    <3>1. CASE drains[d].pc = "streaming"
      BY <1>4, <1>5, <1>6, <3>1, SameWorkMoved
    <3>2. CASE drains[d].pc = "closing"
      <4>1. kind = "delta"
        BY <3>2 DEF StreamItem, MayStream
      <4>2. drains'[d].final = "running"
        BY <1>4, <3>2, <4>1 DEF RegisteredInv, ClosingOpen
      <4>3. DrainAt(d, "closing")
        BY <1>4, <1>6, <3>2
      <4>4. QED
        BY <3>2, <4>2, <4>3 DEF DrainAt, SameWork, Busy, RegisteredInv, ClosingOpen
    <3>3. QED
      BY <1>4, <3>1, <3>2
  <2>3. QED
    BY <1>3, <2>1, <2>2, RegisteredQuiet
<1>7. CASE kind = "ask"
  <2>0. Busy(d) /\ runs[r].phase = "live" /\ ~runs[r].asked /\ drains[d].final = "running"
    BY <1>4, <1>5, <1>7 DEF StreamItem, MayStream
  <2>1. /\ \A e \in Drains \ {d} : drains'[e] = drains[e]
        /\ drains'[d].pc = "closing" /\ drains'[d].final = "running"
    BY <1>4, <1>7, <2>0 DEF DrainAt
  <2>2. \A e \in Drains \ {d} : Busy(e) => drains[e].run # r
    BY <1>1, <2>0 DEF RegisteredInv, OneBusy
  <2>3. /\ Len(runs') = Len(runs)
        /\ \A q \in 1 .. Len(runs) : /\ runs'[q].session = runs[q].session
                                     /\ runs'[q].phase = runs[q].phase
                                     /\ q # r => runs'[q] = runs[q]
    BY <1>2 DEF RunsBut, SameRuns
  <2>4. /\ \A e \in Drains : drains[e].pc # "idle" => drains[e].run \in 1 .. Len(runs)
        /\ \A t \in Sessions : sessions[t] # None => sessions[t] \in 1 .. Len(runs)
    BY DrainFacts, Basics
  <2>5. OnePending'
    BY <2>3 DEF RegisteredInv, OnePending, Pending, SessionOf
  <2>6. PendingRegistered'
    BY <1>3, <2>0, <2>3 DEF RegisteredInv, PendingRegistered, SessionOf
  <2>7. SessionOwn'
    BY <1>3, <2>0, <2>3, <2>4 DEF RegisteredInv, SessionOwn, SessionOf
  <2>8. BusyRegistered'
    <3>1. ASSUME NEW e \in Drains \ {d}, Busy(e)
          PROVE  drains[e].run \in 1 .. Len(runs) /\ runs'[drains[e].run] = runs[drains[e].run]
      BY <2>2, <2>3, <2>4, <3>1 DEF Busy
    <3>2. QED
      BY <1>3, <2>1, <3>1 DEF RegisteredInv, BusyRegistered, RunOf, Busy
  <2>9. OneBusy' /\ ClosingOpen'
    BY <2>1 DEF RegisteredInv, OneBusy, ClosingOpen, Busy
  <2>10. RewindQuiet'
    BY <1>3, <2>3 DEF RegisteredInv, RewindQuiet, RunsOf, Pending
  <2>11. QED
    BY <2>5, <2>6, <2>7, <2>8, <2>9, <2>10 DEF RegisteredInv
<1>8. QED
  BY <1>6, <1>7

(* Reporting keeps RegisteredInv.                                          *)
LEMMA RegisteredReport ==
    ASSUME IInv, RegisteredInv, NEW d \in Drains, DrainReport(d)
    PROVE  RegisteredInv'
<1>1. PICK r \in 1 .. Len(runs) : r = drains[d].run
  BY DrainFacts DEF DrainReport
<1>2. RunsBut(r) /\ runs'[r].phase = "finished" /\ runs'[r].asked = runs[r].asked
  BY <1>1, ReportRuns
<1>3. sessions' = sessions /\ rewinds' = rewinds /\ drains[d].pc = "persisted" /\ Busy(d)
  BY DEF DrainReport, Busy
<1>4. DrainAt(d, "reported")
  BY GotoEffect DEF DrainReport
<1>5. runs[r].phase = "live" /\ ~runs[r].asked /\ sessions[runs[r].session] = r
  BY <1>1, <1>3 DEF RegisteredInv, BusyRegistered, RunOf
<1>6. \A e \in Drains \ {d} : Busy(e) => drains[e].run # r
  BY <1>1, <1>3 DEF RegisteredInv, OneBusy
<1>7. /\ Len(runs') = Len(runs)
      /\ \A q \in 1 .. Len(runs) : /\ runs'[q].session = runs[q].session
                                   /\ runs'[q].asked = runs[q].asked
                                   /\ q # r => runs'[q] = runs[q]
  BY <1>2 DEF RunsBut, SameRuns
<1>8. /\ \A e \in Drains : drains[e].pc # "idle" => drains[e].run \in 1 .. Len(runs)
      /\ \A t \in Sessions : sessions[t] # None => sessions[t] \in 1 .. Len(runs)
  BY DrainFacts, Basics
<1>9. OnePending'
  BY <1>2, <1>7 DEF RegisteredInv, OnePending, Pending, SessionOf
<1>10. PendingRegistered'
  BY <1>2, <1>3, <1>7 DEF RegisteredInv, PendingRegistered, SessionOf
<1>11. SessionOwn'
  BY <1>3, <1>5, <1>7, <1>8 DEF RegisteredInv, SessionOwn, SessionOf
<1>12. BusyRegistered'
  <2>1. ASSUME NEW e \in Drains \ {d}, Busy(e)
        PROVE  drains[e].run \in 1 .. Len(runs) /\ runs'[drains[e].run] = runs[drains[e].run]
    BY <1>6, <1>7, <1>8, <2>1 DEF Busy
  <2>2. QED
    BY <1>1, <1>2, <1>3, <1>4, <1>5, <1>7, <2>1
    DEF RegisteredInv, BusyRegistered, RunOf, Busy, DrainAt
<1>13. OneBusy' /\ ClosingOpen'
  BY <1>3, <1>4 DEF RegisteredInv, OneBusy, ClosingOpen, Busy, DrainAt
<1>14. RewindQuiet'
  BY <1>2, <1>3, <1>7 DEF RegisteredInv, RewindQuiet, RunsOf, Pending
<1>15. QED
  BY <1>9, <1>10, <1>11, <1>12, <1>13, <1>14 DEF RegisteredInv

(* Taking a finished run off the table keeps RegisteredInv.                *)
LEMMA RegisteredRemove ==
    ASSUME IInv, RegisteredInv, NEW d \in Drains, DrainRemove(d)
    PROVE  RegisteredInv'
<1>1. PICK r \in 1 .. Len(runs) : r = drains[d].run
  BY DrainFacts DEF DrainRemove
<1>2. PICK s \in Sessions : s = runs[r].session
  BY Basics
<1>3. runs' = runs /\ rewinds' = rewinds /\ drains[d].pc = "reported" /\ Busy(d)
  BY DEF DrainRemove, Busy
<1>4. DrainFree(d)
  BY FreeEffect DEF DrainRemove
<1>5. sessions'[s] = None /\ \A t \in Sessions \ {s} : sessions'[t] = sessions[t]
  BY <1>1, <1>2 DEF DrainRemove, RunOf, IInv
<1>6. runs[r].phase = "finished" /\ sessions[s] = r
  BY <1>1, <1>2, <1>3 DEF RegisteredInv, BusyRegistered, RunOf
<1>7. \A q \in 1 .. Len(runs) : runs[q].session \in Sessions
  BY Basics
<1>8. \A e \in Drains : drains[e].pc # "idle" => drains[e].run \in 1 .. Len(runs)
  BY DrainFacts
<1>9. OnePending'
  BY <1>3 DEF RegisteredInv, OnePending, Pending, SessionOf
<1>10. PendingRegistered'
  <2>1. \A q \in 1 .. Len(runs) : runs[q].phase = "live" => runs[q].session # s
    BY <1>6 DEF RegisteredInv, PendingRegistered, SessionOf
  <2>2. QED
    BY <1>3, <1>5, <1>7, <2>1 DEF RegisteredInv, PendingRegistered, SessionOf
<1>11. SessionOwn'
  BY <1>3, <1>5 DEF RegisteredInv, SessionOwn, SessionOf
<1>12. BusyRegistered'
  <2>1. ASSUME NEW e \in Drains \ {d}, Busy(e)
        PROVE  runs[drains[e].run].session \in Sessions \ {s}
    <3>1. drains[e].run \in 1 .. Len(runs)
      BY <1>8, <2>1 DEF Busy
    <3>2. drains[e].run # r
      BY <1>1, <1>3, <2>1 DEF RegisteredInv, OneBusy
    <3>3. sessions[runs[drains[e].run].session] = drains[e].run
      BY <2>1 DEF RegisteredInv, BusyRegistered, RunOf
    <3>4. QED
      BY <1>6, <1>7, <3>1, <3>2, <3>3
  <2>2. QED
    BY <1>3, <1>4, <1>5, <2>1 DEF RegisteredInv, BusyRegistered, RunOf, Busy, DrainFree
<1>13. OneBusy' /\ ClosingOpen'
  BY <1>4 DEF RegisteredInv, OneBusy, ClosingOpen, Busy, DrainFree
<1>14. RewindQuiet'
  BY <1>3, <1>5 DEF RegisteredInv, RewindQuiet, RunsOf, Pending
<1>15. QED
  BY <1>9, <1>10, <1>11, <1>12, <1>13, <1>14 DEF RegisteredInv

(* The first step of a rewind keeps RegisteredInv.                         *)
LEMMA RegisteredRewind ==
    ASSUME IInv, RegisteredInv, Client = {}, NEW s \in Sessions, NEW at, RewindCheck(s, at)
    PROVE  RegisteredInv'
<1>1. runs' = runs /\ drains' = drains /\ sessions' = sessions
  BY DEF RewindCheck
<1>2. sessions[s] = None /\ \A r \in RunsOf(s) : runs[r].phase # "recorded"
  BY DEF RewindCheck, FreeCaller, NotLive
<1>3. \A r \in RunsOf(s) : ~Pending(r)
  <2>1. ASSUME NEW r \in RunsOf(s), runs[r].phase = "live" PROVE FALSE
    <3>1. sessions[s] = r /\ r # None
      BY <2>1, Basics DEF RegisteredInv, PendingRegistered, RunsOf, SessionOf
    <3>2. QED
      BY <1>2, <3>1
  <2>2. QED
    BY <1>2, <2>1 DEF Pending
<1>4. \A t \in Sessions \ {s} : rewinds'[t] = rewinds[t]
  BY DEF RewindCheck, IInv
<1>5. RewindQuiet'
  BY <1>1, <1>2, <1>3, <1>4 DEF RegisteredInv, RewindQuiet, RunsOf, Pending
<1>6. QED
  BY <1>1, <1>5 DEF RegisteredInv, OnePending, PendingRegistered, SessionOwn, BusyRegistered,
     OneBusy, ClosingOpen, Busy, Pending, SessionOf, RunOf

(* A restart keeps RegisteredInv.                                          *)
LEMMA RegisteredRestart ==
    ASSUME IInv, RegisteredInv, Restart
    PROVE  RegisteredInv'
<1>1. /\ \A d \in Drains : drains'[d].pc = "idle"
      /\ \A s \in Sessions : sessions'[s] = None /\ rewinds'[s] = None
  BY DEF Restart, IdleDrain
<1>2. Len(runs') = Len(runs) /\ \A r \in 1 .. Len(runs) : runs'[r].phase \in {"finished", "lost"}
  BY RestartRuns DEF SameRuns
<1>3. OnePending' /\ PendingRegistered'
  BY <1>2 DEF OnePending, PendingRegistered, Pending
<1>4. SessionOwn' /\ BusyRegistered' /\ OneBusy' /\ ClosingOpen' /\ RewindQuiet'
  BY <1>1 DEF SessionOwn, BusyRegistered, OneBusy, ClosingOpen, RewindQuiet, Busy
<1>5. QED
  BY <1>3, <1>4 DEF RegisteredInv

(* RegisteredInv is inductive for the careful client, as long as every     *)
(* token count is stored.                                                  *)
LEMMA RegisteredNext ==
    ASSUME IInv, OwnLedgers, RegisteredInv, Client = {}, "usage" \notin Harness, [Next]_vars
    PROVE  RegisteredInv'
<1>1. ASSUME runs' = runs, drains' = drains, sessions' = sessions, rewinds' = rewinds
      PROVE  RegisteredInv'
  BY <1>1, SamePhasesRuns, SameWorkDrains, RegisteredQuiet
<1>2. ASSUME NEW d \in Drains, DrainStep(d)
      PROVE  RegisteredInv'
  <2>1. ASSUME SameWork, runs' = runs, sessions' = sessions, rewinds' = rewinds
        PROVE  RegisteredInv'
    BY <2>1, SamePhasesRuns, RegisteredQuiet
  <2>2. CASE HiddenItem(d)
    BY <1>1, <2>2 DEF HiddenItem
  <2>3. CASE StreamEnd(d)
    <3>1. runs' = runs /\ sessions' = sessions /\ rewinds' = rewinds
      BY <2>3 DEF StreamEnd
    <3>2. CASE drains[d].final = "running"
      BY <2>1, <2>3, <3>1, <3>2, EndDrain, SameWorkFreed
    <3>3. CASE drains[d].final # "running"
      <4>1. drains[d].pc = "streaming"
        BY <2>3, <3>3 DEF StreamEnd, RegisteredInv, ClosingOpen
      <4>2. Busy(d) /\ DrainAt(d, "ended")
        BY <2>3, <3>3, <4>1, EndDrain DEF Busy
      <4>3. SameWork
        BY <4>1, <4>2, SameWorkMoved
      <4>4. QED
        BY <2>1, <3>1, <4>3
    <3>4. QED
      BY <3>2, <3>3
  <2>4. CASE DrainSettle(d) \/ DrainSnapshot(d) \/ DrainPersist(d)
    <3>1. runs' = runs /\ sessions' = sessions /\ rewinds' = rewinds
      BY <2>4 DEF DrainSettle, DrainSnapshot, DrainPersist
    <3>2. PICK pc \in {"settled", "snapped", "persisted"} : DrainAt(d, pc)
      BY <2>4, GotoEffect, PersistDrain DEF DrainSettle, DrainSnapshot
    <3>3. Busy(d) /\ drains[d].pc # "reported"
      BY <2>4 DEF DrainSettle, DrainSnapshot, DrainPersist, Busy
    <3>4. SameWork
      BY <3>2, <3>3, SameWorkMoved
    <3>5. QED
      BY <2>1, <3>1, <3>4
  <2>5. CASE DrainCheckpoint(d)
    <3>1. runs' = runs /\ sessions' = sessions /\ rewinds' = rewinds
      BY <2>5 DEF DrainCheckpoint
    <3>2. Busy(d) /\ drains[d].pc # "reported"
      BY <2>5 DEF DrainCheckpoint, Busy
    <3>3. SameWork
      BY <2>5, <3>2, CheckpointDrain, SameWorkMoved
    <3>4. QED
      BY <2>1, <3>1, <3>3
  <2>6. QED
    BY <1>2, <2>2, <2>3, <2>4, <2>5, RegisteredStream, RegisteredReport, RegisteredRemove
    DEF DrainStep
<1>3. ASSUME NEW s \in Sessions, CallStep(s)
      PROVE  RegisteredInv'
  <2>1. runs' = runs /\ drains' = drains /\ sessions' = sessions
    BY <1>3 DEF CallStep, RewindRestore, RewindTruncate
  <2>2. \A t \in Sessions : rewinds'[t] # None => rewinds[t] # None
    BY <1>3 DEF CallStep, RewindRestore, RewindTruncate, IInv
  <2>3. QED
    BY <2>1, <2>2, SamePhasesRuns, SameWorkDrains, RegisteredQuiet
<1>4. ASSUME NEW s \in Sessions, Call(s)
      PROVE  RegisteredInv'
  <2>1. CASE Cancel(s)
    <3>1. sessions[s] \in 1 .. Len(runs)
      BY <2>1, Basics DEF Cancel
    <3>2. SamePhases
      BY <2>1, <3>1, CancelRuns DEF SamePhases, RunsBut
    <3>3. drains' = drains /\ sessions' = sessions /\ rewinds' = rewinds
      BY <2>1 DEF Cancel
    <3>4. QED
      BY <3>2, <3>3, SameWorkDrains, RegisteredQuiet
  <2>2. ASSUME NEW at, NEW t, ForkTo(s, at, t)
        PROVE  RegisteredInv'
    BY <1>1, <2>2 DEF ForkTo
  <2>3. ASSUME NEW at, \/ SelectTurn(s, at) \/ ApplyCandidate(s, at)
                       \/ ReleaseCandidate(s, at) \/ DiscardFrom(s, at)
        PROVE  RegisteredInv'
    BY <1>1, <2>3 DEF SelectTurn, ApplyCandidate, ReleaseCandidate, DiscardFrom
  <2>4. QED
    BY <1>4, <2>1, <2>2, <2>3, RegisteredRecord, RegisteredResume, RegisteredRewind DEF Call
<1>5. CASE UNCHANGED vars
  BY <1>1, <1>5 DEF vars
<1>6. QED
  BY <1>2, <1>3, <1>4, <1>5, RegisteredStart, RegisteredRestart DEF Next

(* A careful client's turn that has started and has not been reported      *)
(* finished is the one registered for its session, although a drain that   *)
(* asked may still be there when the turn goes on, is over, and the next   *)
(* one runs.                                                               *)
THEOREM DaemonLiveRegistered ==
    ASSUME Client = {}, "usage" \notin Harness
    PROVE  Spec => []LiveTurnRegistered
<1> DEFINE Inv == IInv /\ OwnLedgers /\ RegisteredInv
<1>1. Init => Inv
  BY InitIInv, OwnLedgersInit, RegisteredInit
<1>2. Inv /\ [Next]_vars => Inv'
  BY NextIInv, OwnLedgersNext, RegisteredNext
<1>3. Inv => LiveTurnRegistered
  BY DEF RegisteredInv, PendingRegistered, SessionOf, LiveTurnRegistered
<1>4. QED
  BY <1>1, <1>2, <1>3, PTL DEF Spec

-----------------------------------------------------------------------------
(* The careful client: the record of a pending turn.                       *)

(* Selecting and releasing a turn leave the records alone.                 *)
LEMMA MarkerEffect ==
    ASSUME IInv, OwnLedgers, NEW s \in Sessions, NEW at \in 0 .. MaxRuns,
           SelectTurn(s, at) \/ ReleaseCandidate(s, at)
    PROVE  \A t \in Sessions : TurnsOf(t)' = TurnsOf(t)
<1> DEFINE l == heap[ledgers[s]]
<1>1. l \in LedgerState /\ l.turns = TurnsOf(s) /\ at \in Nat
  BY Basics, SessionFacts DEF TurnsOf
<1>2. PICK new : new.turns = TurnsOf(s) /\ heap' = [heap EXCEPT ![ledgers[s]] = new]
  <2> HIDE DEF l
  <2>1. Select(l, at).turns = TurnsOf(s) /\ Release(l, at).turns = TurnsOf(s)
    BY <1>1, MarkerType, Zenon
  <2>2. QED
    BY <2>1 DEF SelectTurn, ReleaseCandidate, Replace, l
<1>3. ledgers' = ledgers
  BY DEF SelectTurn, ReleaseCandidate
<1>4. QED
  BY <1>2, <1>3, HeapAt

(* The writes of a drain to the record of its own turn.                    *)
OwnWrite(r, s) ==
    \E d \in Drains :
        /\ drains[d].run = r
        /\ \/ \E kind \in WireKinds : StreamItem(d, kind) /\ EventEffect(s, runs[r].index + 1, r)
           \/ HiddenItem(d) /\ EventEffect(s, runs[r].index + 1, Hidden)
           \/ DrainSettle(d) /\ OutcomeEffect(s, runs[r].index + 1)

(* An event that comes behind the question goes into some record.          *)
LateItem(s) == "late" \in Harness /\ \E i \in Nat, e \in Nat : EventEffect(s, i, e)

(* What a drain writes behind the question of its turn.                    *)
LEMMA LateWrites ==
    ASSUME IInv, OwnLedgers, NEW d \in Drains, drains[d].pc = "closing",
           (\E kind \in WireKinds : StreamItem(d, kind)) \/ HiddenItem(d) \/ DrainSettle(d)
    PROVE  \E s \in Sessions : LateItem(s)
<1>1. PICK kind \in WireKinds : StreamItem(d, kind) /\ "late" \in Harness
  BY DEF StreamItem, MayStream, HiddenItem, DrainSettle
<1>2. RunOf(d).session \in Sessions /\ RunOf(d).index + 1 \in Nat /\ drains[d].run \in Nat
  BY DrainFacts
<1>3. PICK s \in Sessions : s = RunOf(d).session
  BY <1>2
<1>4. EventEffect(s, RunOf(d).index + 1, drains[d].run)
  BY <1>1, <1>3, DrainWrites
<1>5. QED
  BY <1>1, <1>2, <1>4 DEF LateItem

(* A drain that writes before any question works for a live turn.          *)
LEMMA WriterLive ==
    ASSUME IInv, OwnLedgers, RegisteredInv, NEW d \in Drains, drains[d].pc # "closing",
           (\E kind \in WireKinds : StreamItem(d, kind)) \/ HiddenItem(d) \/ DrainSettle(d)
    PROVE  \E q \in 1 .. Len(runs), s \in Sessions :
              /\ q = drains[d].run /\ s = runs[q].session
              /\ runs[q].phase = "live" /\ Pending(q) /\ ~Settling(q)
              /\ OwnWrite(q, s) /\ WriteEffect(s, runs[q].index + 1)
<1>1. Busy(d) /\ drains[d].pc \in {"streaming", "ended"}
  BY DEF StreamItem, MayStream, HiddenItem, DrainSettle, Busy
<1>2. PICK q \in 1 .. Len(runs) : q = drains[d].run
  BY <1>1, DrainFacts DEF Busy
<1>3. runs[q].phase = "live" /\ Pending(q)
  BY <1>1, <1>2 DEF RegisteredInv, BusyRegistered, RunOf, Pending
<1>4. ~Settling(q)
  <2>1. ASSUME NEW e \in Drains, drains[e].pc \in SettledPcs, drains[e].run = q
        PROVE  FALSE
    <3>1. Busy(e)
      BY <2>1 DEF Busy, SettledPcs
    <3>2. e = d
      BY <1>1, <1>2, <2>1, <3>1 DEF RegisteredInv, OneBusy
    <3>3. QED
      BY <1>1, <2>1, <3>2 DEF SettledPcs
  <2>2. QED
    BY <2>1 DEF Settling
<1>5. PICK s \in Sessions : s = runs[q].session
  BY Basics
<1>6. /\ WriteEffect(s, runs[q].index + 1)
      /\ \A kind \in WireKinds : StreamItem(d, kind) => EventEffect(s, runs[q].index + 1, q)
      /\ HiddenItem(d) => EventEffect(s, runs[q].index + 1, Hidden)
      /\ DrainSettle(d) => OutcomeEffect(s, runs[q].index + 1)
  BY <1>2, <1>5, DrainWrites DEF RunOf
<1>7. OwnWrite(q, s)
  BY <1>2, <1>6 DEF OwnWrite
<1>8. QED
  BY <1>2, <1>3, <1>4, <1>5, <1>6, <1>7

(* While a turn of the session is pending, only its drain writes to the    *)
(* session's history, apart from late events.                              *)
LEMMA PendingTurns ==
    ASSUME IInv, OwnLedgers, RegisteredInv, Client = {}, [Next]_vars, ~Restart,
           NEW r \in 1 .. Len(runs), Pending(r), NEW s \in Sessions, s = runs[r].session
    PROVE  TurnsOf(s)' = TurnsOf(s) \/ OwnWrite(r, s) \/ LateItem(s)
<1>0. RunsOf(s) # {} /\ r \in RunsOf(s) /\ rewinds[s] = None
  BY DEF RunsOf, RegisteredInv, RewindQuiet
<1>1. CASE heap' = heap /\ ledgers' = ledgers
  BY <1>1 DEF TurnsOf
<1>2. ASSUME NEW d \in Drains, DrainStep(d)
      PROVE  TurnsOf(s)' = TurnsOf(s) \/ OwnWrite(r, s) \/ LateItem(s)
  <2>1. CASE (\E kind \in WireKinds : StreamItem(d, kind)) \/ HiddenItem(d) \/ DrainSettle(d)
    <3>1. CASE drains[d].pc = "closing"
      <4>1. PICK t \in Sessions : LateItem(t)
        BY <2>1, <3>1, LateWrites
      <4>2. t # s => TurnsOf(s)' = TurnsOf(s)
        BY <4>1 DEF LateItem, EventEffect, WriteEffect
      <4>3. QED
        BY <4>1, <4>2
    <3>2. CASE drains[d].pc # "closing"
      <4>1. PICK q \in 1 .. Len(runs), t \in Sessions :
               /\ t = runs[q].session /\ Pending(q)
               /\ OwnWrite(q, t) /\ WriteEffect(t, runs[q].index + 1)
        BY <2>1, <3>2, WriterLive
      <4>2. CASE t = s
        BY <4>1, <4>2 DEF RegisteredInv, OnePending, SessionOf
      <4>3. CASE t # s
        BY <4>1, <4>3 DEF WriteEffect
      <4>4. QED
        BY <4>2, <4>3
    <3>3. QED
      BY <3>1, <3>2
  <2>2. QED
    BY <1>1, <1>2, <2>1 DEF DrainStep, StreamEnd, DrainSnapshot, DrainCheckpoint,
       DrainPersist, DrainReport, DrainRemove
<1>3. ASSUME NEW q \in 1 .. Len(runs), NEW d \in Drains, RunStart(q, d)
      PROVE  TurnsOf(s)' = TurnsOf(s)
  BY <1>1, <1>3 DEF RunStart, TurnsOf
<1>4. ASSUME NEW t \in Sessions, CallStep(t)
      PROVE  TurnsOf(s)' = TurnsOf(s)
  <2>1. CASE RewindRestore(t)
    BY <2>1 DEF RewindRestore, TurnsOf
  <2>2. CASE RewindTruncate(t)
    <3>1. CutEffect(t) /\ s # t
      BY <1>0, <2>2, TruncateEffect DEF RewindTruncate
    <3>2. QED
      BY <3>1 DEF CutEffect
  <2>3. QED
    BY <1>4, <2>1, <2>2 DEF CallStep
<1>5. ASSUME NEW t \in Sessions, Call(t)
      PROVE  TurnsOf(s)' = TurnsOf(s)
  <2>1. Over(t) => s # t
    BY <1>0 DEF Over, Pending
  <2>2. CASE RunRecord(t)
    <3>1. RecordEffect(t) /\ s # t
      BY <2>1, <2>2, RunRecordEffect DEF RunRecord, MayRun
    <3>2. QED
      BY <3>1 DEF RecordEffect
  <2>3. ASSUME NEW at \in 0 .. MaxRuns, NEW u \in Sessions, ForkTo(t, at, u)
        PROVE  TurnsOf(s)' = TurnsOf(s)
    <3>1. ForkEffect(u)
      BY <2>3, ForkToEffect
    <3>2. QED
      BY <1>0, <3>1 DEF ForkEffect
  <2>4. ASSUME NEW at \in 0 .. MaxRuns, ApplyCandidate(t, at) \/ DiscardFrom(t, at)
        PROVE  TurnsOf(s)' = TurnsOf(s)
    <3>1. CutEffect(t) /\ s # t
      BY <2>1, <2>4, CandidateEffect DEF ApplyCandidate, DiscardFrom, MayEdit
    <3>2. QED
      BY <3>1 DEF CutEffect
  <2>5. ASSUME \/ \E d \in Drains : Resume(t, d)
               \/ Cancel(t)
               \/ \E at \in 0 .. MaxRuns : RewindCheck(t, at)
        PROVE  TurnsOf(s)' = TurnsOf(s)
    BY <2>5 DEF Resume, Cancel, RewindCheck, TurnsOf
  <2>6. QED
    BY <1>5, <2>2, <2>3, <2>4, <2>5, MarkerEffect DEF Call
<1>6. CASE UNCHANGED vars
  BY <1>1, <1>6 DEF vars
<1>7. QED
  BY <1>2, <1>3, <1>4, <1>5, <1>6 DEF Next

(* A settled turn stays settled until it is over.                          *)
LEMMA SettlingStep ==
    ASSUME IInv, OwnLedgers, [Next]_vars, ~Restart, NEW r \in 1 .. Len(runs),
           Pending(r)', Settling(r)
    PROVE  Settling(r)'
<1>1. PICK d \in Drains : drains[d].pc \in SettledPcs /\ drains[d].run = r
  BY DEF Settling
<1>2. DrainMoves(d)
  BY DrainMovesStep
<1>3. ~DrainReport(d)
  <2>1. ASSUME DrainReport(d) PROVE FALSE
    BY <1>1, <2>1, ReportRuns DEF Pending
  <2>2. QED
    BY <2>1
<1>4. QED
  BY <1>1, <1>2, <1>3 DEF DrainMoves, Settling

Open(r) == TurnsOf(SessionOf(r))[runs[r].index + 1].status = "Running"

(* RecordInv holds initially.                                              *)
LEMMA RecordInit == Init => RecordInv
BY DEF Init, RecordInv

(* RecordInv is inductive for the careful client.                          *)
LEMMA RecordNext ==
    ASSUME IInv, OwnLedgers, RegisteredInv, RecordInv, Client = {}, [Next]_vars
    PROVE  RecordInv'
<1>1. CASE Restart
  <2>1. \A r \in 1 .. Len(runs') : ~Pending(r)'
    BY <1>1, RestartRuns DEF SameRuns, Pending
  <2>2. QED
    BY <2>1 DEF RecordInv
<1>2. CASE ~Restart
  <2> SUFFICES ASSUME NEW r \in 1 .. Len(runs'), Pending(r)'
               PROVE  InPlace(r)' /\ (Open(r)' \/ Settling(r)')
    BY DEF RecordInv, Open
  <2>1. CASE r \notin 1 .. Len(runs)
    <3>1. PICK s \in Sessions : RunRecord(s)
      BY <2>1, RunsStep DEF SameRuns
    <3>2. RecordEffect(s)
      BY <3>1, RunRecordEffect
    <3>3. r = Len(runs) + 1
      <4>1. Len(runs) \in Nat
        BY Basics
      <4>2. QED
        BY <2>1, <3>2, <4>1 DEF RecordEffect
    <3>4. InPlace(r)'
      BY <3>2, <3>3, NewInPlace
    <3>5. Open(r)'
      BY <3>2, <3>3 DEF Open, RecordEffect, SessionOf
    <3>6. QED
      BY <3>4, <3>5
  <2>2. CASE r \in 1 .. Len(runs)
    <3>1. Pending(r) /\ (Settling(r) => Settling(r)')
      BY <1>2, <2>2, PhaseStep, SettlingStep
    <3>2. InPlace(r) /\ (Open(r) \/ Settling(r))
      BY <2>2, <3>1 DEF RecordInv, Open
    <3>3. PICK s \in Sessions : s = runs[r].session
      BY <2>2, Basics
    <3>4. runs'[r].session = s /\ runs'[r].index = runs[r].index
      BY <2>2, <3>3, OldRuns
    <3> DEFINE i == runs[r].index + 1
    <3>5. i \in 1 .. Len(TurnsOf(s)) /\ TurnsOf(s)[i].turn = r /\ runs[r].index < Len(TurnsOf(s))
      <4>1. runs[r].index \in Nat /\ Len(TurnsOf(s)) \in Nat
        BY <2>2, Basics
      <4>2. QED
        BY <3>2, <3>3, <4>1 DEF InPlace, SessionOf
    <3>6. CASE TurnsOf(s)' = TurnsOf(s)
      BY <3>1, <3>2, <3>3, <3>4, <3>6 DEF InPlace, Open, SessionOf
    <3>7. CASE OwnWrite(r, s)
      <4>1. PICK d \in Drains :
               /\ drains[d].run = r
               /\ \/ \E e : EventEffect(s, i, e)
                  \/ DrainSettle(d) /\ OutcomeEffect(s, i)
        BY <3>7 DEF OwnWrite
      <4>2. WriteEffect(s, i)
        BY <4>1 DEF EventEffect, OutcomeEffect
      <4>3. InPlace(r)'
        <5>1. runs'[r].index < Len(TurnsOf(s)') /\ TurnsOf(s)'[runs'[r].index + 1].turn = r
          BY <3>4, <3>5, <4>2 DEF WriteEffect
        <5>2. QED
          BY <3>4, <5>1 DEF InPlace, SessionOf
      <4>4. ASSUME NEW e, EventEffect(s, i, e)
            PROVE  Open(r)' \/ Settling(r)'
        <5>1. TurnsOf(s)'[i].status = TurnsOf(s)[i].status
          BY <3>5, <4>4 DEF EventEffect
        <5>2. QED
          BY <3>1, <3>2, <3>3, <3>4, <5>1 DEF Open, SessionOf
      <4>5. ASSUME DrainSettle(d)
            PROVE  Settling(r)'
        <5>1. DrainAt(d, "settled")
          BY <4>5, GotoEffect DEF DrainSettle
        <5>2. QED
          BY <4>1, <5>1 DEF DrainAt, Settling, SettledPcs
      <4>6. QED
        BY <4>1, <4>3, <4>4, <4>5
    <3>8. CASE LateItem(s)
      <4>1. PICK k \in Nat, e \in Nat : EventEffect(s, k, e)
        BY <3>8 DEF LateItem
      <4>2. /\ Len(TurnsOf(s)') = Len(TurnsOf(s)) /\ TurnsOf(s)'[i].turn = r
            /\ TurnsOf(s)'[i].status = TurnsOf(s)[i].status
        <5>1. CASE k = i
          BY <3>5, <4>1, <5>1 DEF EventEffect, WriteEffect
        <5>2. CASE k # i
          BY <3>5, <4>1, <5>2 DEF EventEffect, WriteEffect
        <5>3. QED
          BY <5>1, <5>2
      <4>3. QED
        BY <3>1, <3>2, <3>3, <3>4, <3>5, <4>2 DEF InPlace, Open, SessionOf
    <3>9. QED
      BY <1>2, <2>2, <3>1, <3>3, <3>6, <3>7, <3>8, PendingTurns
  <2>3. QED
    BY <2>1, <2>2
<1>3. QED
  BY <1>1, <1>2

(* Everything the daemon keeps for the careful client.                     *)
LedgerInv == IInv /\ OwnLedgers /\ RegisteredInv /\ RecordInv

(* The parts of LedgerInv hold together.                                   *)
LEMMA LedgerInvariance ==
    ASSUME Client = {}, "usage" \notin Harness
    PROVE  Spec => []LedgerInv
<1>1. Init => LedgerInv
  BY InitIInv, OwnLedgersInit, RegisteredInit, RecordInit DEF LedgerInv
<1>2. LedgerInv /\ [Next]_vars => LedgerInv'
  <2> SUFFICES ASSUME LedgerInv, [Next]_vars PROVE LedgerInv'
    OBVIOUS
  <2>1. IInv /\ OwnLedgers /\ RegisteredInv /\ RecordInv
    BY DEF LedgerInv
  <2>2. IInv' /\ OwnLedgers'
    BY <2>1, NextIInv, OwnLedgersNext
  <2>3. RegisteredInv' /\ RecordInv'
    BY <2>1, RegisteredNext, RecordNext
  <2>4. QED
    BY <2>2, <2>3 DEF LedgerInv
<1>3. QED
  BY <1>1, <1>2, PTL DEF Spec

(* A careful client never loses the record its live turn streams into,     *)
(* neither to a rewind nor to an edit or a fork.                           *)
THEOREM DaemonLiveKeepsRecord ==
    ASSUME Client = {}, "usage" \notin Harness
    PROVE  Spec => []LiveTurnKeepsRecord
<1>1. LedgerInv => LiveTurnKeepsRecord
  <2> SUFFICES ASSUME LedgerInv, NEW r \in 1 .. Len(runs), runs[r].phase = "live"
               PROVE  /\ HasTurn(heap[runs[r].ledger], runs[r].index)
                      /\ heap[runs[r].ledger].turns[runs[r].index + 1].turn = r
    BY DEF LiveTurnKeepsRecord
  <2>1. InPlace(r)
    BY DEF LedgerInv, RecordInv, Pending
  <2>2. runs[r].ledger = ledgers[runs[r].session]
    BY DEF LedgerInv, OwnLedgers
  <2>3. QED
    BY <2>1, <2>2 DEF InPlace, SessionOf, TurnsOf, HasTurn
<1>2. QED
  BY <1>1, LedgerInvariance, PTL

(* What is settled in the history of session s stays settled as it is.     *)
Final(s) ==
    \A i \in 1 .. MinOf(Len(TurnsOf(s)), Len(TurnsOf(s)')) :
        TurnsOf(s)[i].status # "Running" => StaysSettled(TurnsOf(s)[i], TurnsOf(s)'[i])

(* A record that does not change stays settled.                            *)
LEMMA SameStays ==
    ASSUME IInv, NEW s \in Sessions, NEW i \in 1 .. Len(TurnsOf(s))
    PROVE  /\ TurnsOf(s)[i].events \in Seq(Nat)
           /\ StaysSettled(TurnsOf(s)[i], TurnsOf(s)[i])
<1>1. TurnsOf(s) \in Seq(TurnRecord)
  BY Basics DEF Checkpoint
<1>2. TurnsOf(s)[i] \in TurnRecord
  BY <1>1, ElementOfSeq
<1>3. TurnsOf(s)[i].events \in Seq(Nat)
  BY <1>2 DEF TurnRecord
<1>4. QED
  BY <1>3 DEF StaysSettled

(* A history that keeps a prefix keeps what is settled in it.              *)
LEMMA SamePrefixFinal ==
    ASSUME IInv, NEW s \in Sessions, Len(TurnsOf(s)') \in Nat,
           \A i \in 1 .. Len(TurnsOf(s)) :
               i <= Len(TurnsOf(s)') => TurnsOf(s)'[i] = TurnsOf(s)[i]
    PROVE  Final(s)
<1>1. Len(TurnsOf(s)) \in Nat
  BY Basics
<1> SUFFICES ASSUME NEW i \in 1 .. MinOf(Len(TurnsOf(s)), Len(TurnsOf(s)'))
             PROVE  StaysSettled(TurnsOf(s)[i], TurnsOf(s)'[i])
  BY DEF Final
<1>2. i \in 1 .. Len(TurnsOf(s)) /\ TurnsOf(s)'[i] = TurnsOf(s)[i]
  BY <1>1 DEF MinOf
<1>3. QED
  BY <1>2, SameStays

(* An unchanged history keeps what is settled.                             *)
LEMMA SameFinal ==
    ASSUME IInv, NEW s \in Sessions, TurnsOf(s)' = TurnsOf(s)
    PROVE  Final(s)
<1>1. Len(TurnsOf(s)) \in Nat
  BY Basics
<1>2. QED
  BY <1>1, SamePrefixFinal

(* A late event extends the record it goes into and leaves its outcome.    *)
LEMMA LateFinal ==
    ASSUME IInv, NEW s \in Sessions, NEW t \in Sessions, LateItem(t)
    PROVE  Final(s)
<1>1. PICK k \in Nat, e \in Nat : EventEffect(t, k, e)
  BY DEF LateItem
<1>2. CASE s # t
  BY <1>1, <1>2, SameFinal DEF EventEffect, WriteEffect
<1>3. CASE s = t
  <2>1. Len(TurnsOf(s)') = Len(TurnsOf(s)) /\ Len(TurnsOf(s)) \in Nat
    BY <1>1, <1>3, Basics DEF EventEffect, WriteEffect
  <2> SUFFICES ASSUME NEW i \in 1 .. Len(TurnsOf(s))
               PROVE  StaysSettled(TurnsOf(s)[i], TurnsOf(s)'[i])
    BY <2>1 DEF Final, MinOf
  <2>2. CASE i # k
    BY <1>1, <1>3, <2>2, SameStays DEF EventEffect, WriteEffect
  <2>3. CASE i = k
    <3>1. PICK events \in Seq(Nat) : events = TurnsOf(s)[i].events
      BY SameStays
    <3>2. /\ TurnsOf(s)'[i].turn = TurnsOf(s)[i].turn
          /\ TurnsOf(s)'[i].status = TurnsOf(s)[i].status
          /\ TurnsOf(s)'[i].events = Append(events, e)
      BY <1>1, <1>3, <2>1, <2>3, <3>1 DEF EventEffect, WriteEffect
    <3>3. /\ Len(Append(events, e)) >= Len(events)
          /\ \A j \in 1 .. Len(events) : Append(events, e)[j] = events[j]
      OBVIOUS
    <3>4. QED
      BY <3>1, <3>2, <3>3 DEF StaysSettled
  <2>4. QED
    BY <2>2, <2>3
<1>4. QED
  BY <1>2, <1>3

(* Shortening a history unsettles nothing that stays.                      *)
LEMMA CutFinal ==
    ASSUME IInv, NEW s \in Sessions, NEW t \in Sessions, CutEffect(t)
    PROVE  Final(s)
<1>1. CASE s = t
  <2>1. Len(TurnsOf(s)) \in Nat
    BY Basics
  <2>2. QED
    BY <1>1, <2>1, SamePrefixFinal DEF CutEffect
<1>2. CASE s # t
  BY <1>2, SameFinal DEF CutEffect
<1>3. QED
  BY <1>1, <1>2

(* No step unsettles a record.                                             *)
LEMMA FinalStep ==
    ASSUME LedgerInv, Client = {}, [Next]_vars, ~Restart, NEW s \in Sessions,
           ledgers'[s] = ledgers[s]
    PROVE  Final(s)
<1>0. IInv /\ OwnLedgers /\ RegisteredInv /\ RecordInv
  BY DEF LedgerInv
<1>1. CASE heap' = heap
  BY <1>0, <1>1, SameFinal DEF TurnsOf
<1>2. ASSUME NEW d \in Drains, DrainStep(d)
      PROVE  Final(s)
  <2>1. CASE (\E kind \in WireKinds : StreamItem(d, kind)) \/ HiddenItem(d) \/ DrainSettle(d)
    <3>1. CASE drains[d].pc = "closing"
      BY <1>0, <2>1, <3>1, LateWrites, LateFinal
    <3>2. CASE drains[d].pc # "closing"
      <4>1. PICK q \in 1 .. Len(runs), t \in Sessions :
               /\ t = runs[q].session /\ Pending(q) /\ ~Settling(q)
               /\ WriteEffect(t, runs[q].index + 1)
        BY <1>0, <2>1, <3>2, WriterLive
      <4>2. CASE t # s
        BY <1>0, <4>1, <4>2, SameFinal DEF WriteEffect
      <4>3. CASE t = s
        <5>1. TurnsOf(s)[runs[q].index + 1].status = "Running"
          BY <1>0, <4>1, <4>3 DEF RecordInv, SessionOf
        <5>2. Len(TurnsOf(s)') = Len(TurnsOf(s)) /\ Len(TurnsOf(s)) \in Nat
          BY <1>0, <4>1, <4>3, Basics DEF WriteEffect
        <5> SUFFICES ASSUME NEW j \in 1 .. Len(TurnsOf(s)), TurnsOf(s)[j].status # "Running"
                     PROVE  StaysSettled(TurnsOf(s)[j], TurnsOf(s)'[j])
          BY <5>2 DEF Final, MinOf
        <5>3. TurnsOf(s)'[j] = TurnsOf(s)[j]
          BY <4>1, <4>3, <5>1 DEF WriteEffect
        <5>4. QED
          BY <1>0, <5>3, SameStays
      <4>4. QED
        BY <4>2, <4>3
    <3>3. QED
      BY <3>1, <3>2
  <2>2. QED
    BY <1>1, <1>2, <2>1 DEF DrainStep, StreamEnd, DrainSnapshot, DrainCheckpoint,
       DrainPersist, DrainReport, DrainRemove
<1>3. ASSUME NEW q \in 1 .. Len(runs), NEW d \in Drains, RunStart(q, d)
      PROVE  Final(s)
  BY <1>1, <1>3 DEF RunStart
<1>4. ASSUME NEW t \in Sessions, CallStep(t)
      PROVE  Final(s)
  BY <1>0, <1>1, <1>4, TruncateEffect, CutFinal DEF CallStep, RewindRestore
<1>5. ASSUME NEW t \in Sessions, Call(t)
      PROVE  Final(s)
  <2>1. CASE RunRecord(t)
    <3>1. RecordEffect(t)
      BY <1>0, <2>1, RunRecordEffect
    <3>2. CASE s = t
      <4>1. Len(TurnsOf(s)) \in Nat
        BY <1>0, Basics
      <4>2. Len(TurnsOf(s)') \in Nat /\ \A i \in 1 .. Len(TurnsOf(s)) : TurnsOf(s)'[i] = TurnsOf(s)[i]
        BY <3>1, <3>2, <4>1 DEF RecordEffect
      <4>3. QED
        BY <1>0, <4>2, SamePrefixFinal
    <3>3. CASE s # t
      BY <1>0, <3>1, <3>3, SameFinal DEF RecordEffect
    <3>4. QED
      BY <3>2, <3>3
  <2>2. ASSUME NEW at \in 0 .. MaxRuns, NEW u \in Sessions, ForkTo(t, at, u)
        PROVE  Final(s)
    <3>1. ForkEffect(u)
      BY <1>0, <2>2, ForkToEffect
    <3>2. s # u
      BY <3>1 DEF ForkEffect
    <3>3. QED
      BY <1>0, <3>1, <3>2, SameFinal DEF ForkEffect
  <2>3. ASSUME NEW at \in 0 .. MaxRuns,
               \/ SelectTurn(t, at) \/ ApplyCandidate(t, at)
               \/ ReleaseCandidate(t, at) \/ DiscardFrom(t, at)
        PROVE  Final(s)
    BY <1>0, <2>3, CandidateEffect, CutFinal
  <2>4. ASSUME \/ \E d \in Drains : Resume(t, d)
               \/ Cancel(t)
               \/ \E at \in 0 .. MaxRuns : RewindCheck(t, at)
        PROVE  Final(s)
    BY <1>1, <2>4 DEF Resume, Cancel, RewindCheck
  <2>5. QED
    BY <1>5, <2>1, <2>2, <2>3, <2>4 DEF Call
<1>6. CASE UNCHANGED vars
  BY <1>1, <1>6 DEF vars
<1>7. QED
  BY <1>2, <1>3, <1>4, <1>5, <1>6 DEF Next

(* While the process lives, nothing changes the outcome or the events of a *)
(* settled record of a careful client's session: the most that happens to  *)
(* it is that a sub-agent's event from behind a question comes last.       *)
THEOREM DaemonSettledFinal ==
    ASSUME Client = {}, "usage" \notin Harness
    PROVE  Spec => SettledIsFinal
<1>1. LedgerInv /\ [Next]_vars =>
         [restarts' = restarts =>
            \A s \in Sessions : ledgers'[s] = ledgers[s] =>
                \A i \in 1 .. MinOf(Len(TurnsOf(s)), Len(TurnsOf(s)')) :
                    TurnsOf(s)[i].status # "Running"
                        => StaysSettled(TurnsOf(s)[i], TurnsOf(s)'[i])]_vars
  <2> SUFFICES ASSUME LedgerInv, [Next]_vars, restarts' = restarts, NEW s \in Sessions,
                      ledgers'[s] = ledgers[s]
               PROVE  Final(s)
    BY DEF Final
  <2>1. ~Restart
    BY DEF Restart, LedgerInv, IInv
  <2>2. QED
    BY <2>1, FinalStep
<1>2. QED
  BY <1>1, LedgerInvariance, PTL DEF Spec, SettledIsFinal

-----------------------------------------------------------------------------
(* The careful client: the history agrees with the wire.                   *)

WireEvents(events) == {k \in 1 .. Len(events) : events[k] # Hidden}

(* A record has finitely many events.                                      *)
LEMMA WireEventsFinite ==
    ASSUME NEW events \in Seq(Nat)
    PROVE  IsFiniteSet(WireEvents(events))
<1>1. Len(events) \in Nat /\ IsFiniteSet(1 .. Len(events))
  BY FS_Interval
<1>2. WireEvents(events) \subseteq 1 .. Len(events)
  BY DEF WireEvents
<1>3. QED
  BY <1>1, <1>2, FS_Subset

(* The new events are the old ones and e.                                  *)
AddsEvent(events, e, new) ==
    /\ \A k \in WireEvents(events) : new[k] = events[k]
    /\ e = Hidden => WireEvents(new) = WireEvents(events)
    /\ e # Hidden =>
          /\ WireEvents(new) = WireEvents(events) \cup {Len(events) + 1}
          /\ new[Len(events) + 1] = e
          /\ Cardinality(WireEvents(new)) = Cardinality(WireEvents(events)) + 1

(* Appending an event adds that one.                                       *)
LEMMA WireEventsAppend ==
    ASSUME NEW events \in Seq(Nat), NEW e \in Nat, NEW new, new = Append(events, e)
    PROVE  AddsEvent(events, e, new)
<1> DEFINE n == Len(events)
<1>1. /\ n \in Nat /\ Len(new) = n + 1 /\ new[n + 1] = e
      /\ \A k \in 1 .. n : new[k] = events[k]
  OBVIOUS
<1>2. \A k \in WireEvents(events) : new[k] = events[k]
  BY <1>1 DEF WireEvents
<1>3. e = Hidden => WireEvents(new) = WireEvents(events)
  BY <1>1 DEF WireEvents
<1>4. ASSUME e # Hidden
      PROVE  /\ WireEvents(new) = WireEvents(events) \cup {n + 1}
             /\ Cardinality(WireEvents(new)) = Cardinality(WireEvents(events)) + 1
  <2>1. WireEvents(new) = WireEvents(events) \cup {n + 1}
    BY <1>1, <1>4 DEF WireEvents
  <2>2. n + 1 \notin WireEvents(events)
    BY <1>1 DEF WireEvents
  <2>3. IsFiniteSet(WireEvents(events))
    BY WireEventsFinite
  <2>4. QED
    BY <2>1, <2>2, <2>3, FS_AddElement
<1>5. QED
  BY <1>1, <1>2, <1>3, <1>4 DEF AddsEvent

(* Faithful, in terms of WireEvents.                                       *)
LEMMA FaithfulIs ==
    ASSUME NEW t
    PROVE  Faithful(t) <=> /\ \A k \in WireEvents(t.events) : t.events[k] = t.turn
                           /\ Cardinality(WireEvents(t.events)) = runs[t.turn].mirror
BY DEF Faithful, WireEvents

(* A record that does not change, of a turn to which nothing is streamed.  *)
LEMMA FaithfulSame ==
    ASSUME NEW t, NEW u, Faithful(t), u.turn = t.turn, u.events = t.events,
           runs'[t.turn].mirror = runs[t.turn].mirror
    PROVE  Faithful(u)'
BY DEF Faithful

(* A record into which a hidden event goes, or the event that is streamed. *)
LEMMA FaithfulWrite ==
    ASSUME NEW t, NEW u, Faithful(t), u.turn = t.turn, t.events \in Seq(Nat), t.turn \in Nat,
           NEW e \in Nat, u.events = Append(t.events, e),
           \/ e = Hidden /\ runs'[t.turn].mirror = runs[t.turn].mirror
           \/ e # Hidden /\ e = t.turn /\ runs'[t.turn].mirror = runs[t.turn].mirror + 1
    PROVE  Faithful(u)'
<1> DEFINE old == WireEvents(t.events)
           new == WireEvents(u.events)
<1>1. /\ \A k \in old : t.events[k] = t.turn
      /\ Cardinality(old) = runs[t.turn].mirror
  BY FaithfulIs
<1>2. /\ \A k \in old : u.events[k] = t.events[k]
      /\ e = Hidden => new = old
      /\ e # Hidden => /\ new = old \cup {Len(t.events) + 1}
                       /\ u.events[Len(t.events) + 1] = e
                       /\ Cardinality(new) = Cardinality(old) + 1
  <2>1. AddsEvent(t.events, e, u.events)
    BY WireEventsAppend, Zenon
  <2>2. QED
    BY <2>1 DEF AddsEvent
<1> HIDE DEF old, new
<1>3. \A k \in new : u.events[k] = u.turn
  BY <1>1, <1>2
<1>4. Cardinality(new) = runs'[u.turn].mirror
  BY <1>1, <1>2
<1>5. QED
  BY <1>3, <1>4 DEF Faithful, WireEvents, new

(* Only streaming changes a mirror.                                        *)
LEMMA MirrorStep ==
    ASSUME IInv, OwnLedgers, [Next]_vars, NEW r \in 1 .. Len(runs),
           runs'[r].mirror # runs[r].mirror
    PROVE  \E d \in Drains, kind \in WireKinds : StreamItem(d, kind) /\ drains[d].run = r
<1>1. ASSUME NEW d \in Drains, DrainStep(d)
      PROVE  \E kind \in WireKinds : StreamItem(d, kind) /\ drains[d].run = r
  <2>1. ASSUME NEW kind \in WireKinds, StreamItem(d, kind)
        PROVE  drains[d].run = r
    BY <2>1, StreamRuns DEF RunsBut
  <2>2. ~DrainReport(d)
    <3>1. ASSUME DrainReport(d) PROVE FALSE
      BY <3>1, ReportRuns DEF RunsBut
    <3>2. QED
      BY <3>1
  <2>3. runs' # runs
    OBVIOUS
  <2>4. QED
    BY <1>1, <2>1, <2>2, <2>3 DEF DrainStep, HiddenItem, StreamEnd, DrainSettle,
       DrainSnapshot, DrainCheckpoint, DrainPersist, DrainRemove
<1>2. ASSUME NEW q \in 1 .. Len(runs), NEW d \in Drains, RunStart(q, d)
      PROVE  FALSE
  BY <1>2, StartRuns DEF RunsBut
<1>3. ASSUME NEW s \in Sessions, CallStep(s) \/ Call(s)
      PROVE  FALSE
  <2>1. ASSUME NEW d \in Drains, Resume(s, d) PROVE FALSE
    BY <2>1, ResumeRuns DEF RunsBut
  <2>2. CASE Cancel(s)
    BY <2>2, CancelRuns DEF RunsBut
  <2>3. CASE RunRecord(s)
    BY <2>3, RunRecordEffect DEF RecordEffect
  <2>4. CASE runs' = runs
    BY <2>4
  <2>5. QED
    BY <1>3, <2>1, <2>2, <2>3, <2>4 DEF CallStep, Call, RewindCheck, RewindRestore,
       RewindTruncate, ForkTo, SelectTurn, ApplyCandidate, ReleaseCandidate, DiscardFrom
<1>4. ~Restart
  BY RestartRuns
<1>5. QED
  BY <1>1, <1>2, <1>3, <1>4 DEF Next, vars

(* Without late events a drain writes before any question only.            *)
LEMMA OnTime ==
    ASSUME "late" \notin Harness, NEW d \in Drains,
           (\E kind \in WireKinds : StreamItem(d, kind)) \/ HiddenItem(d) \/ DrainSettle(d)
    PROVE  drains[d].pc # "closing"
BY DEF StreamItem, MayStream, HiddenItem, DrainSettle

(* Nothing is streamed to a turn that is closed, and it stays closed.      *)
LEMMA ClosedStep ==
    ASSUME LedgerInv, "late" \notin Harness, [Next]_vars, NEW r \in 1 .. Len(runs), Closed(r)
    PROVE  Closed(r)' /\ runs'[r].mirror = runs[r].mirror
<1>0. IInv /\ OwnLedgers /\ RegisteredInv
  BY DEF LedgerInv
<1>1. Closed(r)'
  <2>1. CASE Restart
    BY <1>0, <2>1, RestartRuns DEF Closed, Pending
  <2>2. CASE ~Restart
    BY <1>0, <2>2, PhaseStep, SettlingStep DEF Closed
  <2>3. QED
    BY <2>1, <2>2
<1>2. ASSUME runs'[r].mirror # runs[r].mirror
      PROVE  FALSE
  <2>1. PICK d \in Drains, kind \in WireKinds : StreamItem(d, kind) /\ drains[d].run = r
    BY <1>0, <1>2, MirrorStep
  <2>2. Pending(r) /\ ~Settling(r)
    BY <1>0, <2>1, OnTime, WriterLive
  <2>3. QED
    BY <2>2 DEF Closed
<1>3. QED
  BY <1>1, <1>2

(* A list of closed turns that agrees with the wire does so for good.      *)
LEMMA ClosedAgrees ==
    ASSUME LedgerInv, "late" \notin Harness, [Next]_vars, NEW turns,
           InOrder(turns, Len(runs)), NEW s \in Sessions, Agrees(turns, s), ClosedIn(turns, s)
    PROVE  Agrees(turns, s)' /\ ClosedIn(turns, s)'
<1> SUFFICES ASSUME NEW i \in 1 .. Len(turns), runs'[turns[i].turn].session = s
             PROVE  Faithful(turns[i])' /\ Closed(turns[i].turn)'
  BY DEF Agrees, ClosedIn, SessionOf
<1>1. PICK r \in 1 .. Len(runs) : r = turns[i].turn
  BY DEF InOrder
<1>2. runs[r].session = s
  BY <1>1, OldRuns DEF LedgerInv
<1>3. Faithful(turns[i]) /\ Closed(r)
  BY <1>1, <1>2 DEF Agrees, ClosedIn, SessionOf
<1>4. Closed(r)' /\ runs'[r].mirror = runs[r].mirror
  BY <1>3, ClosedStep
<1>5. QED
  BY <1>1, <1>3, <1>4, FaithfulSame

(* A drain writes to its record.                                           *)
Writes(d) ==
    (\E kind \in WireKinds : StreamItem(d, kind)) \/ HiddenItem(d) \/ DrainSettle(d)

(* The history of session s is a prefix of what it was.                    *)
Shortened(s) ==
    \A i \in 1 .. Len(TurnsOf(s)') :
        i \in 1 .. Len(TurnsOf(s)) /\ TurnsOf(s)'[i] = TurnsOf(s)[i]

(* Drains write, run records, and nothing else puts a turn into a history. *)
LEMMA OtherSteps ==
    ASSUME IInv, OwnLedgers, Client = {}, [Next]_vars, ~Restart,
           \A t \in Sessions : ~RunRecord(t), \A d \in Drains : ~Writes(d),
           NEW s \in Sessions, RunsOf(s) # {}
    PROVE  Shortened(s)
<1>1. ASSUME TurnsOf(s)' = TurnsOf(s) PROVE Shortened(s)
  BY <1>1 DEF Shortened
<1>2. CASE heap' = heap /\ ledgers' = ledgers
  BY <1>1, <1>2 DEF TurnsOf
<1>3. ASSUME NEW t \in Sessions, CutEffect(t)
      PROVE  Shortened(s)
  <2>1. CASE s = t
    <3>1. Len(TurnsOf(s)) \in Nat
      BY Basics
    <3>2. QED
      BY <1>3, <2>1, <3>1 DEF CutEffect, Shortened
  <2>2. CASE s # t
    BY <1>1, <1>3, <2>2 DEF CutEffect
  <2>3. QED
    BY <2>1, <2>2
<1>4. ASSUME NEW d \in Drains, DrainStep(d)
      PROVE  Shortened(s)
  BY <1>2, <1>4 DEF DrainStep, Writes, StreamEnd, DrainSnapshot, DrainCheckpoint,
     DrainPersist, DrainReport, DrainRemove
<1>5. ASSUME NEW q \in 1 .. Len(runs), NEW d \in Drains, RunStart(q, d)
      PROVE  Shortened(s)
  BY <1>2, <1>5 DEF RunStart
<1>6. ASSUME NEW t \in Sessions, CallStep(t)
      PROVE  Shortened(s)
  BY <1>2, <1>3, <1>6, TruncateEffect DEF CallStep, RewindRestore
<1>7. ASSUME NEW t \in Sessions, Call(t)
      PROVE  Shortened(s)
  <2>1. ASSUME NEW at \in 0 .. MaxRuns, NEW u \in Sessions, ForkTo(t, at, u)
        PROVE  Shortened(s)
    BY <1>1, <2>1, ForkToEffect DEF ForkEffect
  <2>2. ASSUME NEW at \in 0 .. MaxRuns,
               \/ SelectTurn(t, at) \/ ApplyCandidate(t, at)
               \/ ReleaseCandidate(t, at) \/ DiscardFrom(t, at)
        PROVE  Shortened(s)
    BY <1>3, <2>2, CandidateEffect
  <2>3. ASSUME \/ \E d \in Drains : Resume(t, d)
               \/ Cancel(t)
               \/ \E at \in 0 .. MaxRuns : RewindCheck(t, at)
        PROVE  Shortened(s)
    BY <1>2, <2>3 DEF Resume, Cancel, RewindCheck
  <2>4. QED
    BY <1>7, <2>1, <2>2, <2>3 DEF Call
<1>8. CASE UNCHANGED vars
  BY <1>2, <1>8 DEF vars
<1>9. QED
  BY <1>4, <1>5, <1>6, <1>7, <1>8 DEF Next

(* A turn has one record in a history.                                     *)
LEMMA OneRecord ==
    ASSUME IInv, NEW s \in Sessions, NEW i \in 1 .. Len(TurnsOf(s)),
           NEW j \in 1 .. Len(TurnsOf(s)), TurnsOf(s)[i].turn = TurnsOf(s)[j].turn
    PROVE  i = j
<1>1. InOrder(TurnsOf(s), Len(runs)) /\ Len(TurnsOf(s)) \in Nat
  BY Basics
<1>2. TurnsOf(s)[i].turn \in Nat /\ TurnsOf(s)[j].turn \in Nat
  BY <1>1 DEF InOrder
<1>3. ~(i < j) /\ ~(j < i)
  BY <1>1, <1>2 DEF InOrder
<1>4. QED
  BY <1>1, <1>3

(* A history in which a drain has written agrees with the wire.            *)
LEMMA WrittenAgrees ==
    ASSUME LedgerInv, \A s \in Sessions : Agrees(TurnsOf(s), s),
           "late" \notin Harness, [Next]_vars, NEW d \in Drains, Writes(d), NEW s \in Sessions,
           NEW i \in 1 .. Len(TurnsOf(s)'), NEW u, u = TurnsOf(s)'[i],
           NEW r \in 1 .. Len(runs), r = u.turn, runs[r].session = s
    PROVE  Faithful(u)'
<1>0. IInv /\ OwnLedgers /\ RegisteredInv /\ RecordInv
  BY DEF LedgerInv
<1>1. PICK q \in 1 .. Len(runs), t \in Sessions :
         /\ q = drains[d].run /\ t = runs[q].session /\ Pending(q)
         /\ OwnWrite(q, t) /\ WriteEffect(t, runs[q].index + 1)
  BY <1>0, OnTime, WriterLive DEF Writes
<1>2. /\ Len(TurnsOf(s)') = Len(TurnsOf(s)) /\ i \in 1 .. Len(TurnsOf(s))
      /\ TurnsOf(s)[i].turn = r
  <2>1. CASE s = t
    BY <1>1, <2>1 DEF WriteEffect
  <2>2. CASE s # t
    BY <1>1, <2>2 DEF WriteEffect
  <2>3. QED
    BY <2>1, <2>2
<1>3. PICK v : v = TurnsOf(s)[i]
  OBVIOUS
<1>4. Faithful(v) /\ v.turn = r
  BY <1>2, <1>3 DEF Agrees, SessionOf
<1>5. PICK j \in 1 .. Len(TurnsOf(t)) : j = runs[q].index + 1 /\ TurnsOf(t)[j].turn = q
  <2>1. InPlace(q) /\ runs[q].index \in Nat /\ Len(TurnsOf(t)) \in Nat
    BY <1>0, <1>1, Basics DEF RecordInv
  <2>2. runs[q].index < Len(TurnsOf(t)) /\ TurnsOf(t)[runs[q].index + 1].turn = q
    BY <1>1, <2>1 DEF InPlace, SessionOf
  <2>3. runs[q].index + 1 \in 1 .. Len(TurnsOf(t))
    BY <2>1, <2>2
  <2>4. QED
    BY <2>2, <2>3
<1>6. CASE r # q
  <2>1. runs'[r].mirror = runs[r].mirror
    <3>1. ASSUME NEW kind \in WireKinds, StreamItem(d, kind)
          PROVE  runs'[r].mirror = runs[r].mirror
      BY <1>0, <1>1, <1>6, <3>1, StreamRuns DEF RunsBut
    <3>2. QED
      BY <3>1 DEF Writes, HiddenItem, DrainSettle
  <2>2. u = v
    <3>1. CASE s = t
      BY <1>1, <1>2, <1>3, <1>5, <1>6, <3>1 DEF WriteEffect
    <3>2. CASE s # t
      BY <1>1, <1>3, <3>2 DEF WriteEffect
    <3>3. QED
      BY <3>1, <3>2
  <2>3. QED
    BY <1>4, <2>1, <2>2, FaithfulSame
<1>7. CASE r = q
  <2>1. s = t /\ i = j /\ OwnWrite(q, s)
    <3>1. s = t /\ OwnWrite(q, s)
      BY <1>1, <1>7
    <3>2. j \in 1 .. Len(TurnsOf(s)) /\ TurnsOf(s)[i].turn = TurnsOf(s)[j].turn
      BY <1>2, <1>5, <1>7, <3>1
    <3>3. QED
      BY <1>0, <1>2, <3>1, <3>2, OneRecord
  <2>2. v.events \in Seq(Nat) /\ v.turn \in Nat /\ q \in Nat /\ q # Hidden /\ Hidden \in Nat
    <3>1. TurnsOf(s) \in Checkpoint /\ q \in Nat /\ q # Hidden
      BY <1>0, Basics DEF Hidden
    <3>2. v \in TurnRecord
      BY <1>2, <1>3, <3>1, ElementOfSeq DEF Checkpoint
    <3>3. QED
      BY <3>1, <3>2 DEF TurnRecord, Hidden
  <2>3. u.turn = v.turn /\ v.turn = q
    BY <1>4, <1>7
  <2>4. ASSUME NEW e \in Drains, drains[e].run = q, NEW kind \in WireKinds,
               StreamItem(e, kind), EventEffect(s, i, q)
        PROVE  Faithful(u)'
    <3>1. runs'[q].mirror = runs[q].mirror + 1
      BY <1>0, <2>4, StreamRuns
    <3>2. u.events = Append(v.events, q)
      BY <1>2, <1>3, <2>4 DEF EventEffect
    <3>3. QED
      BY <1>4, <2>2, <2>3, <3>1, <3>2, FaithfulWrite
  <2>5. ASSUME NEW e \in Drains, HiddenItem(e), EventEffect(s, i, Hidden)
        PROVE  Faithful(u)'
    <3>1. runs'[q].mirror = runs[q].mirror
      BY <2>5 DEF HiddenItem
    <3>2. u.events = Append(v.events, Hidden)
      BY <1>2, <1>3, <2>5 DEF EventEffect
    <3>3. QED
      BY <1>4, <2>2, <2>3, <3>1, <3>2, FaithfulWrite
  <2>6. ASSUME NEW e \in Drains, DrainSettle(e), OutcomeEffect(s, i)
        PROVE  Faithful(u)'
    <3>1. runs'[q].mirror = runs[q].mirror
      BY <2>6 DEF DrainSettle
    <3>2. u.events = v.events
      BY <1>2, <1>3, <2>6 DEF OutcomeEffect
    <3>3. QED
      BY <1>4, <2>3, <3>1, <3>2, FaithfulSame
  <2>7. QED
    BY <1>5, <2>1, <2>4, <2>5, <2>6 DEF OwnWrite
<1>8. QED
  BY <1>6, <1>7

(* WireInv holds initially.                                                *)
LEMMA WireInit == Init => WireInv
<1> SUFFICES ASSUME Init PROVE WireInv
  OBVIOUS
<1>1. ASSUME NEW s \in Sessions PROVE TurnsOf(s) = << >>
  BY DEF Init, TurnsOf, NewLedger
<1>2. QED
  BY <1>1 DEF Init, WireInv, Agrees, IdleDrain

(* WireInv is inductive for the careful client.                            *)
LEMMA WireNext ==
    ASSUME LedgerInv, WireInv, Client = {}, "late" \notin Harness, [Next]_vars
    PROVE  WireInv'
<1>0. IInv /\ OwnLedgers /\ RegisteredInv /\ RecordInv /\ IInv'
  BY NextIInv DEF LedgerInv
<1>1. \A s \in Sessions : InOrder(TurnsOf(s)', Len(runs')) /\ ledgers[s] \in Ledgers
  <2>1. \A s \in Sessions : ledgers'[s] \in Ledgers /\ heap'[ledgers'[s]] \in OrderedLedgers(Len(runs'))
    BY <1>0 DEF IInv
  <2>2. QED
    BY <1>0, <2>1, Basics DEF OrderedLedgers, TurnsOf
<1>2. \A s \in Sessions : store[s] # None => InOrder(store[s], Len(runs))
  BY <1>0 DEF IInv, OrderedLists
<1>3. ASSUME NEW s \in Sessions, NEW turns, turns = store[s], turns # None
      PROVE  Agrees(turns, s)' /\ ClosedIn(turns, s)'
  BY <1>2, <1>3, ClosedAgrees DEF WireInv
<1>4. ASSUME NEW d \in Drains, drains[d].pc = "persisting", NEW s \in Sessions,
             s = RunOf(d).session, NEW turns, turns = drains[d].cp
      PROVE  Agrees(turns, s)' /\ ClosedIn(turns, s)'
  <2>1. InOrder(turns, Len(runs)) /\ Agrees(turns, s) /\ ClosedIn(turns, s)
    BY <1>0, <1>4 DEF WireInv, IInv, DrainsUpTo
  <2>2. QED
    BY <2>1, ClosedAgrees
<1>5. ASSUME NEW s \in Sessions
      PROVE  Agrees(TurnsOf(s), s)'
  <2> SUFFICES ASSUME NEW i \in 1 .. Len(TurnsOf(s)'), NEW u, u = TurnsOf(s)'[i],
                      runs'[u.turn].session = s
               PROVE  Faithful(u)'
    BY DEF Agrees, SessionOf
  <2>1. PICK r \in 1 .. Len(runs') : r = u.turn
    BY <1>1 DEF InOrder
  <2>2. CASE Restart
    <3>1. (CHOOSE t \in Sessions : ledgers[t] = ledgers[s]) = s
      BY <1>0 DEF OwnLedgers
    <3>2. heap'[ledgers[s]] = Restored(s) /\ ledgers' = ledgers
      BY <1>1, <2>2, <3>1 DEF Restart
    <3>3. TurnsOf(s)' = Restored(s).turns
      BY <3>2 DEF TurnsOf
    <3>4. CASE store[s] = None
      BY <3>3, <3>4 DEF Restored, NewLedger
    <3>5. CASE store[s] # None
      <4>1. PICK turns : turns = store[s]
        OBVIOUS
      <4>2. TurnsOf(s)' = turns
        BY <3>3, <3>5, <4>1 DEF Restored, FromCheckpoint
      <4>3. Agrees(turns, s)'
        BY <1>3, <3>5, <4>1
      <4>4. QED
        BY <4>2, <4>3 DEF Agrees, SessionOf
    <3>6. QED
      BY <3>4, <3>5
  <2>3. ASSUME ~Restart, NEW t \in Sessions, RunRecord(t)
        PROVE  Faithful(u)'
    <3>1. RecordEffect(t) /\ Len(runs) \in Nat /\ Len(TurnsOf(t)) \in Nat
      BY <1>0, <2>3, RunRecordEffect, Basics
    <3>2. CASE s = t /\ i = Len(TurnsOf(s)) + 1
      <4>1. u.events = << >> /\ u.turn = Len(runs) + 1 /\ runs'[u.turn].mirror = 0
        BY <3>1, <3>2 DEF RecordEffect
      <4>2. {k \in 1 .. Len(u.events) : u.events[k] # Hidden} = {}
        BY <4>1
      <4>3. Cardinality({}) = 0
        BY FS_EmptySet
      <4>4. QED
        BY <4>1, <4>2, <4>3 DEF Faithful
    <3>3. CASE ~(s = t /\ i = Len(TurnsOf(s)) + 1)
      <4>1. i \in 1 .. Len(TurnsOf(s)) /\ u = TurnsOf(s)[i]
        BY <3>1, <3>3 DEF RecordEffect
      <4>2. r \in 1 .. Len(runs) /\ runs'[r] = runs[r]
        <5>1. InOrder(TurnsOf(s), Len(runs))
          BY <1>0, Basics
        <5>2. QED
          BY <2>1, <3>1, <4>1, <5>1 DEF InOrder, RecordEffect
      <4>3. Faithful(u)
        BY <2>1, <4>1, <4>2 DEF WireInv, Agrees, SessionOf
      <4>4. QED
        BY <2>1, <4>2, <4>3, FaithfulSame
    <3>4. QED
      BY <3>2, <3>3
  <2>4. ASSUME ~Restart, \A t \in Sessions : ~RunRecord(t)
        PROVE  Faithful(u)'
    <3>1. r \in 1 .. Len(runs) /\ runs[r].session = s
      BY <1>0, <2>1, <2>4, RunsStep DEF SameRuns
    <3>2. CASE \E d \in Drains : Writes(d)
      BY <2>1, <3>1, <3>2, WrittenAgrees DEF WireInv
    <3>3. CASE \A d \in Drains : ~Writes(d)
      <4>1. RunsOf(s) # {}
        BY <3>1 DEF RunsOf
      <4>2. Shortened(s)
        BY <1>0, <2>4, <3>3, <4>1, OtherSteps
      <4>3. i \in 1 .. Len(TurnsOf(s)) /\ u = TurnsOf(s)[i]
        BY <4>2 DEF Shortened
      <4>4. Faithful(u)
        BY <2>1, <3>1, <4>3 DEF WireInv, Agrees, SessionOf
      <4>5. runs'[r].mirror = runs[r].mirror
        BY <1>0, <3>1, <3>3, MirrorStep DEF Writes
      <4>6. QED
        BY <2>1, <4>4, <4>5, FaithfulSame
    <3>4. QED
      BY <3>2, <3>3
  <2>5. QED
    BY <2>2, <2>3, <2>4
<1>6. ASSUME NEW s \in Sessions, store'[s] # None
      PROVE  Agrees(store[s], s)' /\ ClosedIn(store[s], s)'
  <2>1. PICK turns : turns = store'[s]
    OBVIOUS
  <2>2. \/ store'[s] = store[s]
        \/ \E d \in Drains : DrainPersist(d) /\ RunOf(d).session = s /\ store'[s] = drains[d].cp
    <3>1. CASE Restart
      BY <3>1 DEF Restart
    <3>2. CASE ~Restart
      BY <1>0, <3>2, SavingSteps, PersistStore
    <3>3. QED
      BY <3>1, <3>2
  <2>3. Agrees(turns, s)' /\ ClosedIn(turns, s)'
    BY <1>3, <1>4, <1>6, <2>1, <2>2 DEF DrainPersist
  <2>4. QED
    BY <2>1, <2>3 DEF Agrees, ClosedIn
<1>7. ASSUME NEW d \in Drains, drains'[d].pc = "persisting"
      PROVE  Agrees(drains[d].cp, RunOf(d).session)' /\ ClosedIn(drains[d].cp, RunOf(d).session)'
  <2>1. ~Restart
    BY <1>7 DEF Restart, IdleDrain
  <2>2. DrainMoves(d)
    BY <1>0, <2>1, DrainMovesStep
  <2>3. /\ drains'[d].run = drains[d].run
        /\ \/ drains[d].pc = "persisting" /\ drains'[d].cp = drains[d].cp
           \/ DrainCheckpoint(d)
    BY <1>7, <2>2 DEF DrainMoves, SettledPcs
  <2>4. PICK q \in 1 .. Len(runs), s \in Sessions :
           q = drains[d].run /\ s = runs[q].session /\ runs'[q].session = s
    BY <1>0, <2>3, DrainFacts, Basics, OldRuns DEF DrainCheckpoint
  <2>5. PICK turns : turns = drains'[d].cp
    OBVIOUS
  <2>6. Agrees(turns, s)' /\ ClosedIn(turns, s)'
    <3>1. CASE drains[d].pc = "persisting" /\ drains'[d].cp = drains[d].cp
      BY <1>4, <2>4, <2>5, <3>1 DEF RunOf
    <3>2. CASE DrainCheckpoint(d)
      <4>1. turns = TurnsOf(s) /\ TurnsOf(s)' = TurnsOf(s)
        BY <1>0, <2>4, <2>5, <3>2, CheckpointDrain DEF RunOf, DrainCheckpoint, TurnsOf
      <4>2. Agrees(turns, s)'
        BY <1>5, <4>1 DEF Agrees
      <4>3. Pending(q) /\ Settling(q)
        BY <1>0, <2>4, <3>2
        DEF DrainCheckpoint, RegisteredInv, BusyRegistered, Busy, RunOf, Pending, Settling, SettledPcs
      <4>4. ASSUME NEW r \in 1 .. Len(runs), runs[r].session = s
            PROVE  Closed(r)
        BY <1>0, <2>4, <4>3, <4>4 DEF RegisteredInv, OnePending, SessionOf, Closed
      <4>5. ClosedIn(turns, s)
        <5>1. InOrder(turns, Len(runs))
          BY <1>0, <4>1, Basics
        <5>2. QED
          BY <4>4, <5>1 DEF ClosedIn, SessionOf, InOrder
      <4>6. InOrder(turns, Len(runs)) /\ Agrees(turns, s)
        BY <1>0, <4>1, Basics DEF WireInv
      <4>7. QED
        BY <4>5, <4>6, ClosedAgrees
    <3>3. QED
      BY <2>3, <3>1, <3>2
  <2>7. QED
    BY <2>3, <2>4, <2>5, <2>6 DEF Agrees, ClosedIn, RunOf
<1>8. QED
  BY <1>5, <1>6, <1>7 DEF WireInv

(* With a careful client, and streams that end with their question, a      *)
(* session's ledger holds, of each turn run on it, what was streamed and   *)
(* nothing else, whatever a restart brings back.                           *)
THEOREM DaemonHistoryAgrees ==
    ASSUME Client = {}, Harness \subseteq {"ask"}
    PROVE  Spec => []HistoryAgreesWithWire
<1>0. "late" \notin Harness /\ "usage" \notin Harness
  OBVIOUS
<1>1. Init => WireInv
  BY WireInit
<1>2. LedgerInv /\ WireInv /\ [Next]_vars => WireInv'
  BY <1>0, WireNext
<1>3. WireInv => HistoryAgreesWithWire
  BY DEF WireInv, Agrees, SessionOf, HistoryAgreesWithWire
<1>4. Spec => []LedgerInv
  BY <1>0, LedgerInvariance
<1>5. QED
  BY <1>1, <1>2, <1>3, <1>4, PTL DEF Spec

-----------------------------------------------------------------------------
(* The careful client: a rewind restores the last kept turn.               *)

(* What SnapshotLog::put leaves at each position.                          *)
LEMMA LogPutIs ==
    ASSUME NEW log \in Seq(Runs \cup {None}), NEW i \in Nat, NEW v
    PROVE  /\ Len(LogPut(log, i, v)) = IF Len(log) <= i THEN i + 1 ELSE Len(log)
           /\ \A j \in 1 .. Len(LogPut(log, i, v)) :
                 LogPut(log, i, v)[j] = IF j = i + 1 THEN v
                                        ELSE IF j <= Len(log) THEN log[j] ELSE None
<1> DEFINE n == IF Len(log) <= i THEN i + 1 ELSE Len(log)
           at(j) == IF j = i + 1 THEN v ELSE IF j <= Len(log) THEN log[j] ELSE None
<1>1. n \in Nat
  OBVIOUS
<1>2. LogPut(log, i, v) = [j \in 1 .. n |-> at(j)]
  BY DEF LogPut
<1> HIDE DEF n, at
<1>3. Len(LogPut(log, i, v)) = n /\ \A j \in 1 .. n : LogPut(log, i, v)[j] = at(j)
  BY <1>1, <1>2
<1>4. QED
  BY <1>3 DEF n, at

(* Only its report, or a restart, ends a pending turn.                     *)
LEMMA EndingSteps ==
    ASSUME IInv, OwnLedgers, [Next]_vars, ~Restart, NEW r \in 1 .. Len(runs),
           Pending(r), ~Pending(r)'
    PROVE  \E d \in Drains : DrainReport(d) /\ drains[d].run = r
<1>1. ASSUME runs'[r].phase = runs[r].phase PROVE FALSE
  BY <1>1 DEF Pending
<1>2. ASSUME NEW d \in Drains, DrainStep(d)
      PROVE  \E e \in Drains : DrainReport(e) /\ drains[e].run = r
  <2>1. CASE runs' = runs
    BY <1>1, <2>1
  <2>2. ASSUME NEW kind \in WireKinds, StreamItem(d, kind)
        PROVE  FALSE
    BY <1>1, <2>2, StreamRuns DEF RunsBut
  <2>3. CASE DrainReport(d)
    BY <1>1, <2>3, ReportRuns DEF RunsBut
  <2>4. QED
    BY <1>2, <2>1, <2>2, <2>3 DEF DrainStep, HiddenItem, StreamEnd, DrainSettle,
       DrainSnapshot, DrainCheckpoint, DrainPersist, DrainRemove
<1>3. ASSUME NEW q \in 1 .. Len(runs), NEW d \in Drains, RunStart(q, d)
      PROVE  FALSE
  <2>1. RunsBut(q) /\ runs'[q].phase = "live"
    BY <1>3, StartRuns
  <2>2. CASE q = r
    BY <2>1, <2>2 DEF Pending
  <2>3. CASE q # r
    BY <1>1, <2>1, <2>3 DEF RunsBut
  <2>4. QED
    BY <2>2, <2>3
<1>4. ASSUME NEW s \in Sessions, CallStep(s) \/ Call(s)
      PROVE  FALSE
  <2>1. ASSUME NEW d \in Drains, Resume(s, d) PROVE FALSE
    BY <1>1, <2>1, ResumeRuns DEF RunsBut
  <2>2. CASE Cancel(s)
    BY <1>1, <2>2, CancelRuns DEF RunsBut
  <2>3. CASE RunRecord(s)
    BY <1>1, <2>3, RunRecordEffect DEF RecordEffect
  <2>4. CASE runs' = runs
    BY <1>1, <2>4
  <2>5. QED
    BY <1>4, <2>1, <2>2, <2>3, <2>4 DEF CallStep, Call, RewindCheck, RewindRestore,
       RewindTruncate, ForkTo, SelectTurn, ApplyCandidate, ReleaseCandidate, DiscardFrom
<1>5. CASE UNCHANGED vars
  BY <1>1, <1>5 DEF vars
<1>6. QED
  BY <1>2, <1>3, <1>4, <1>5 DEF Next

(* Only its snapshot takes the place of a turn in the log.                 *)
LEMMA UnsnappedStep ==
    ASSUME IInv, OwnLedgers, [Next]_vars, ~Restart, NEW r \in 1 .. Len(runs), Unsnapped(r),
           \A d \in Drains : drains[d].run = r => ~DrainSnapshot(d)
    PROVE  Unsnapped(r)'
<1>1. Pending(r)'
  BY EndingSteps DEF Unsnapped, DrainReport
<1>2. ASSUME NEW d \in Drains, drains'[d].run = r,
             drains'[d].pc \in {"snapped", "persisting", "persisted"}
      PROVE  FALSE
  <2>1. DrainMoves(d)
    BY DrainMovesStep
  <2>2. drains[d].run = r
    BY <1>2, <2>1 DEF DrainMoves, SettledPcs
  <2>3. drains[d].pc \in {"snapped", "persisting", "persisted"}
    BY <1>2, <2>1, <2>2 DEF DrainMoves, DrainCheckpoint, DrainPersist
  <2>4. QED
    BY <2>2, <2>3 DEF Unsnapped
<1>3. QED
  BY <1>1, <1>2 DEF Unsnapped

(* Only a drain's snapshot, or a restart, changes the log.                 *)
LEMMA SnapshotsStep ==
    ASSUME [Next]_vars, ~Restart, \A d \in Drains : ~DrainSnapshot(d)
    PROVE  snapshots' = snapshots
<1>1. ASSUME NEW d \in Drains, DrainStep(d) PROVE snapshots' = snapshots
  BY <1>1 DEF DrainStep, StreamItem, HiddenItem, StreamEnd, DrainSettle, DrainCheckpoint,
     DrainPersist, DrainReport, DrainRemove
<1>2. ASSUME NEW s \in Sessions, CallStep(s) \/ Call(s) PROVE snapshots' = snapshots
  BY <1>2 DEF CallStep, Call, RunRecord, Resume, Cancel, RewindCheck, RewindRestore,
     RewindTruncate, ForkTo, SelectTurn, ApplyCandidate, ReleaseCandidate, DiscardFrom
<1>3. QED
  BY <1>1, <1>2 DEF Next, RunStart, vars

(* SnapshotInv holds initially.                                            *)
LEMMA SnapshotInit == Init => SnapshotInv
BY DEF Init, SnapshotInv, EntryOwn, RestoresKeptTurn

(* What a rewind restores is the snapshot of the turn it keeps.            *)
LEMMA RestoreKept ==
    ASSUME LedgerInv, SnapshotInv, NEW s \in Sessions, RewindRestore(s)
    PROVE  RestoresKeptTurn'
<1>0. IInv /\ RegisteredInv
  BY DEF LedgerInv
<1> DEFINE at == MinOf(rewinds[s].at, Len(TurnsOf(s)))
           call(snap) == [phase |-> "restored", at |-> at, ledger |-> ledgers[s], snap |-> snap,
                          kept |-> IF snap = None THEN 0 ELSE TurnsOf(s)[at].turn]
<1>1. PICK snap : /\ rewinds' = [rewinds EXCEPT ![s] = call(snap)]
                  /\ snap # None => /\ at > 0 /\ HasTurn(heap[ledgers[s]], at)
                                    /\ snap = SnapshotAt(s, at)
  BY DEF RewindRestore, TurnsOf
<1>2. call(snap).snap = snap /\ (snap # None => call(snap).kept = TurnsOf(s)[at].turn)
  OBVIOUS
<1>3. snap # None => snap = TurnsOf(s)[at].turn
  <2> SUFFICES ASSUME snap # None PROVE snap = TurnsOf(s)[at].turn
    OBVIOUS
  <2>1. at \in Nat /\ Len(TurnsOf(s)) \in Nat
    <3>1. rewinds[s].at \in Nat /\ Len(TurnsOf(s)) \in Nat
      BY <1>0, Basics DEF RewindRestore, IInv, Rewind
    <3>2. QED
      BY <3>1 DEF MinOf
  <2>2. at \in 1 .. Len(TurnsOf(s)) /\ at <= Len(snapshots[s]) /\ snapshots[s][at] = snap
    <3> HIDE DEF at
    <3>1. QED
      BY <1>1, <2>1 DEF HasTurn, TurnsOf, SnapshotAt
  <2>3. \/ snapshots[s][at] \in {None, TurnsOf(s)[at].turn}
        \/ SessionOf(TurnsOf(s)[at].turn) = s /\ Pending(TurnsOf(s)[at].turn)
    <3> HIDE DEF at
    <3>1. QED
      BY <2>2 DEF SnapshotInv, EntryOwn, Unsnapped
  <2>4. TurnsOf(s)[at].turn \in 1 .. Len(runs)
    <3> HIDE DEF at
    <3>1. QED
      BY <1>0, <2>2, Basics DEF InOrder
  <2>5. ASSUME NEW r \in 1 .. Len(runs), SessionOf(r) = s PROVE ~Pending(r)
    BY <1>0, <2>5 DEF RewindRestore, RegisteredInv, RewindQuiet, RunsOf, SessionOf
  <2> HIDE DEF at
  <2>6. QED
    BY <2>2, <2>3, <2>4, <2>5
<1> HIDE DEF call
<1>4. rewinds'[s] = call(snap) /\ \A t \in Sessions \ {s} : rewinds'[t] = rewinds[t]
  BY <1>0, <1>1 DEF IInv
<1>5. QED
  BY <1>2, <1>3, <1>4 DEF SnapshotInv, RestoresKeptTurn

(* No step makes a rewind's snapshot another turn's.                       *)
LEMMA KeptStep ==
    ASSUME LedgerInv, SnapshotInv, [Next]_vars
    PROVE  RestoresKeptTurn'
<1>1. CASE \A s \in Sessions : rewinds'[s] \in {rewinds[s], None}
  BY <1>1 DEF SnapshotInv, RestoresKeptTurn
<1>2. ASSUME NEW d \in Drains, DrainStep(d) PROVE rewinds' = rewinds
  BY <1>2 DEF DrainStep, StreamItem, HiddenItem, StreamEnd, DrainSettle, DrainSnapshot,
     DrainCheckpoint, DrainPersist, DrainReport, DrainRemove
<1>3. ASSUME NEW s \in Sessions, CallStep(s)
      PROVE  RestoresKeptTurn'
  <2>1. CASE RewindTruncate(s)
    BY <1>1, <2>1 DEF RewindTruncate, LedgerInv, IInv
  <2>2. QED
    BY <1>3, <2>1, RestoreKept DEF CallStep
<1>4. ASSUME NEW s \in Sessions, Call(s)
      PROVE  RestoresKeptTurn'
  <2>1. ASSUME NEW at, RewindCheck(s, at)
        PROVE  RestoresKeptTurn'
    <3> DEFINE call == [phase |-> "checked", at |-> at, ledger |-> ledgers[s],
                        snap |-> None, kept |-> 0]
    <3>1. rewinds' = [rewinds EXCEPT ![s] = call] /\ call.snap = None
      BY <2>1 DEF RewindCheck
    <3> HIDE DEF call
    <3>2. rewinds'[s] = call /\ \A t \in Sessions \ {s} : rewinds'[t] = rewinds[t]
      BY <3>1 DEF LedgerInv, IInv
    <3>3. QED
      BY <3>1, <3>2 DEF SnapshotInv, RestoresKeptTurn
  <2>2. CASE rewinds' = rewinds
    BY <1>1, <2>2
  <2>3. QED
    BY <1>4, <2>1, <2>2 DEF Call, RunRecord, Resume, Cancel, ForkTo, SelectTurn,
       ApplyCandidate, ReleaseCandidate, DiscardFrom
<1>5. QED
  BY <1>1, <1>2, <1>3, <1>4 DEF Next, RunStart, Restart, vars

(* An entry stays with its turn, unless a snapshot is put into its place.  *)
LEMMA EntrySame ==
    ASSUME IInv, OwnLedgers, [Next]_vars, ~Restart, NEW s \in Sessions,
           NEW i \in 1 .. Len(TurnsOf(s)), EntryOwn(s, i),
           TurnsOf(s)'[i].turn = TurnsOf(s)[i].turn,
           i <= Len(snapshots'[s])
               => \/ snapshots'[s][i] = None
                  \/ i <= Len(snapshots[s]) /\ snapshots'[s][i] = snapshots[s][i],
           \A d \in Drains : drains[d].run = TurnsOf(s)[i].turn => ~DrainSnapshot(d)
    PROVE  EntryOwn(s, i)'
<1>1. PICK r \in 1 .. Len(runs) : r = TurnsOf(s)[i].turn
  <2>1. InOrder(TurnsOf(s), Len(runs))
    BY Basics
  <2>2. QED
    BY <2>1 DEF InOrder
<1>2. i <= Len(snapshots[s]) =>
         snapshots[s][i] \in {None, r} \/ (SessionOf(r) = s /\ Unsnapped(r))
  BY <1>1 DEF EntryOwn
<1>3. ASSUME SessionOf(r) = s, Unsnapped(r)
      PROVE  SessionOf(r)' = s /\ Unsnapped(r)'
  <2>1. \A d \in Drains : drains[d].run = r => ~DrainSnapshot(d)
    BY <1>1
  <2>2. Unsnapped(r)'
    BY <1>3, <2>1, UnsnappedStep
  <2>3. QED
    BY <1>3, <2>2, OldRuns DEF SessionOf
<1>4. i <= Len(snapshots'[s]) =>
         snapshots'[s][i] \in {None, r} \/ (SessionOf(r)' = s /\ Unsnapped(r)')
  BY <1>2, <1>3
<1>5. r = TurnsOf(s)'[i].turn
  BY <1>1
<1>6. QED
  BY <1>4, <1>5 DEF EntryOwn

(* A drain puts the snapshot of its turn where the record of the turn is.  *)
LEMMA SnapshotEntries ==
    ASSUME LedgerInv, SnapshotInv, [Next]_vars, ~Restart, NEW d \in Drains, DrainSnapshot(d)
    PROVE  /\ \A s \in Sessions : \A i \in 1 .. Len(TurnsOf(s)') : EntryOwn(s, i)'
           /\ \A s \in Sessions : snapshots'[s] # << >> => RunsOf(s)' # {}
<1>0. IInv /\ OwnLedgers /\ RegisteredInv /\ RecordInv
  BY DEF LedgerInv
<1>1. PICK q \in 1 .. Len(runs), t \in Sessions, n \in Nat :
         /\ q = drains[d].run /\ t = runs[q].session /\ n = runs[q].index
         /\ q \in Runs /\ Len(runs) \in Nat
  BY <1>0, DrainFacts DEF DrainSnapshot, RunOf
<1>2. PICK snap \in {q, None} :
         snapshots' = [snapshots EXCEPT ![t] = LogPut(snapshots[t], n, snap)]
  BY <1>1 DEF DrainSnapshot, RunOf
<1>3. PICK log : log = LogPut(snapshots[t], n, snap)
  OBVIOUS
<1>4. snapshots \in [Sessions -> Seq(Runs \cup {None})]
  BY <1>0 DEF IInv
<1>5. snapshots'[t] = log /\ \A s \in Sessions \ {t} : snapshots'[s] = snapshots[s]
  BY <1>2, <1>3, <1>4
<1>6. \A j \in 1 .. Len(log) :
         log[j] = IF j = n + 1 THEN snap
                  ELSE IF j <= Len(snapshots[t]) THEN snapshots[t][j] ELSE None
  BY <1>3, <1>4, LogPutIs
<1>7. Pending(q) /\ InPlace(q)
  BY <1>0, <1>1
  DEF DrainSnapshot, RegisteredInv, BusyRegistered, Busy, RunOf, Pending, RecordInv
<1>8. n + 1 \in 1 .. Len(TurnsOf(t)) /\ TurnsOf(t)[n + 1].turn = q
  <2>1. Len(TurnsOf(t)) \in Nat
    BY <1>0, Basics
  <2>2. QED
    BY <1>1, <1>7, <2>1 DEF InPlace, SessionOf
<1>9. runs' = runs /\ \A s \in Sessions : TurnsOf(s)' = TurnsOf(s)
  BY DEF DrainSnapshot, TurnsOf
<1>10. ASSUME NEW e \in Drains, DrainSnapshot(e) PROVE drains[e].run = q
  <2>1. drains'[d].pc = "snapped" /\ drains[d].pc = "settled"
    BY <1>0 DEF DrainSnapshot, Goto, IInv
  <2>2. e # d => drains'[d] = drains[d]
    BY <1>0, <1>10 DEF DrainSnapshot, Goto, IInv
  <2>3. QED
    BY <1>1, <2>1, <2>2
<1>11. ASSUME NEW s \in Sessions, NEW i \in 1 .. Len(TurnsOf(s)')
       PROVE  EntryOwn(s, i)'
  <2>1. i \in 1 .. Len(TurnsOf(s)) /\ EntryOwn(s, i) /\ TurnsOf(s)'[i].turn = TurnsOf(s)[i].turn
    BY <1>9 DEF SnapshotInv
  <2>2. CASE TurnsOf(s)[i].turn # q
    <3>1. \A e \in Drains : drains[e].run = TurnsOf(s)[i].turn => ~DrainSnapshot(e)
      BY <1>10, <2>2
    <3>2. ASSUME i <= Len(snapshots'[s])
          PROVE  \/ snapshots'[s][i] = None
                 \/ i <= Len(snapshots[s]) /\ snapshots'[s][i] = snapshots[s][i]
      <4>1. CASE s = t
        <5>1. i \in 1 .. Len(log) /\ i # n + 1
          <6>1. Len(TurnsOf(s)) \in Nat
            BY <1>0, Basics
          <6>2. log \in Seq(Runs \cup {None})
            BY <1>0, <1>5, NextIInv DEF IInv
          <6>3. i # n + 1
            BY <1>8, <2>2, <4>1
          <6>4. QED
            BY <1>5, <2>1, <3>2, <4>1, <6>1, <6>2, <6>3
        <5>2. QED
          BY <1>5, <1>6, <4>1, <5>1
      <4>2. CASE s # t
        BY <1>5, <3>2, <4>2
      <4>3. QED
        BY <4>1, <4>2
    <3>3. QED
      BY <1>0, <2>1, <3>1, <3>2, EntrySame
  <2>3. CASE TurnsOf(s)[i].turn = q /\ s = t
    <3>1. i = n + 1
      BY <1>0, <1>8, <2>1, <2>3, OneRecord
    <3>2. log \in Seq(Runs \cup {None})
      BY <1>0, <1>5, NextIInv DEF IInv
    <3>3. i <= Len(snapshots'[s]) => snapshots'[s][i] \in {None, q}
      BY <1>5, <1>6, <2>3, <3>1, <3>2
    <3>4. TurnsOf(s)'[i].turn = q
      BY <2>1, <2>3
    <3>5. QED
      BY <3>3, <3>4 DEF EntryOwn
  <2>4. CASE TurnsOf(s)[i].turn = q /\ s # t
    <3>1. i <= Len(snapshots[s]) => snapshots[s][i] \in {None, q}
      BY <1>1, <2>1, <2>4 DEF EntryOwn, SessionOf
    <3>2. snapshots'[s] = snapshots[s] /\ TurnsOf(s)'[i].turn = q
      BY <1>5, <2>1, <2>4
    <3>3. QED
      BY <3>1, <3>2 DEF EntryOwn
  <2>5. QED
    BY <2>2, <2>3, <2>4
<1>12. ASSUME NEW s \in Sessions, snapshots'[s] # << >>
       PROVE  RunsOf(s)' # {}
  <2>1. CASE s = t
    BY <1>1, <1>9, <2>1 DEF RunsOf
  <2>2. CASE s # t
    BY <1>5, <1>9, <1>12, <2>2 DEF SnapshotInv, RunsOf
  <2>3. QED
    BY <2>1, <2>2
<1>13. QED
  BY <1>11, <1>12

(* SnapshotInv is inductive for the careful client.                        *)
LEMMA SnapshotNext ==
    ASSUME LedgerInv, SnapshotInv, Client = {}, [Next]_vars
    PROVE  SnapshotInv'
<1>0. IInv /\ OwnLedgers /\ RegisteredInv /\ RecordInv
  BY DEF LedgerInv
<1>1. RestoresKeptTurn'
  BY KeptStep
<1>2. CASE Restart
  <2>1. \A s \in Sessions : snapshots'[s] = << >>
    BY <1>2 DEF Restart
  <2>2. ASSUME NEW s \in Sessions, NEW i \in 1 .. Len(TurnsOf(s)')
        PROVE  EntryOwn(s, i)'
    BY <2>1 DEF EntryOwn
  <2>3. QED
    BY <1>1, <2>1, <2>2 DEF SnapshotInv
<1>3. ASSUME ~Restart, \A d \in Drains : ~DrainSnapshot(d)
      PROVE  SnapshotInv'
  <2>1. snapshots' = snapshots
    BY <1>3, SnapshotsStep
  <2>2. ASSUME NEW s \in Sessions, snapshots[s] # << >>
        PROVE  RunsOf(s)' # {}
    <3>1. PICK r \in 1 .. Len(runs) : runs[r].session = s
      BY <2>2 DEF SnapshotInv, RunsOf
    <3>2. QED
      BY <1>0, <3>1, OldRuns DEF RunsOf
  <2>3. ASSUME NEW s \in Sessions, NEW i \in 1 .. Len(TurnsOf(s)),
               TurnsOf(s)'[i].turn = TurnsOf(s)[i].turn
        PROVE  EntryOwn(s, i)'
    <3>1. EntryOwn(s, i)
      BY DEF SnapshotInv
    <3>2. QED
      BY <1>0, <1>3, <2>1, <2>3, <3>1, EntrySame
  <2>4. ASSUME NEW s \in Sessions, NEW i \in 1 .. Len(TurnsOf(s)')
        PROVE  EntryOwn(s, i)'
    <3>1. ASSUME NEW t \in Sessions, RunRecord(t)
          PROVE  EntryOwn(s, i)'
      <4>1. RecordEffect(t) /\ Len(runs) \in Nat /\ Len(TurnsOf(t)) \in Nat
        BY <1>0, <3>1, RunRecordEffect, Basics
      <4>2. CASE s = t /\ i = Len(TurnsOf(s)) + 1
        <5>1. PICK r : r = Len(runs) + 1
          OBVIOUS
        <5>2. TurnsOf(s)'[i].turn = r /\ runs'[r].session = s /\ runs'[r].phase = "recorded"
          BY <4>1, <4>2, <5>1 DEF RecordEffect
        <5>3. ASSUME NEW d \in Drains, drains'[d].run = r,
                     drains'[d].pc \in {"snapped", "persisting", "persisted"}
              PROVE  FALSE
          <6>1. drains[d].run = r /\ drains[d].pc # "idle"
            BY <3>1, <5>3 DEF RunRecord
          <6>2. r \in 1 .. Len(runs)
            BY <1>0, <6>1, DrainFacts
          <6>3. QED
            BY <4>1, <5>1, <6>2
        <5>4. SessionOf(r)' = s /\ Unsnapped(r)'
          BY <5>2, <5>3 DEF SessionOf, Unsnapped, Pending
        <5>5. QED
          BY <5>2, <5>4 DEF EntryOwn
      <4>3. CASE ~(s = t /\ i = Len(TurnsOf(s)) + 1)
        <5>1. i \in 1 .. Len(TurnsOf(s)) /\ TurnsOf(s)'[i] = TurnsOf(s)[i]
          BY <4>1, <4>3 DEF RecordEffect
        <5>2. QED
          BY <2>3, <5>1
      <4>4. QED
        BY <4>2, <4>3
    <3>2. ASSUME NEW d \in Drains, Writes(d)
          PROVE  EntryOwn(s, i)'
      <4>1. PICK t \in Sessions : \E k : WriteEffect(t, k)
        <5>1. CASE drains[d].pc = "closing"
          BY <1>0, <3>2, <5>1, LateWrites DEF Writes, LateItem, EventEffect
        <5>2. CASE drains[d].pc # "closing"
          BY <1>0, <3>2, <5>2, WriterLive DEF Writes
        <5>3. QED
          BY <5>1, <5>2
      <4>2. i \in 1 .. Len(TurnsOf(s)) /\ TurnsOf(s)'[i].turn = TurnsOf(s)[i].turn
        <5>1. CASE s = t
          BY <4>1, <5>1 DEF WriteEffect
        <5>2. CASE s # t
          BY <4>1, <5>2 DEF WriteEffect
        <5>3. QED
          BY <5>1, <5>2
      <4>3. QED
        BY <2>3, <4>2
    <3>3. ASSUME \A t \in Sessions : ~RunRecord(t), \A d \in Drains : ~Writes(d)
          PROVE  EntryOwn(s, i)'
      <4>1. CASE RunsOf(s) = {}
        <5>1. snapshots'[s] = << >>
          BY <2>1, <4>1 DEF SnapshotInv
        <5>2. ~(i <= Len(snapshots'[s]))
          BY <5>1
        <5>3. QED
          BY <5>2 DEF EntryOwn
      <4>2. CASE RunsOf(s) # {}
        <5>1. Shortened(s)
          BY <1>0, <1>3, <3>3, <4>2, OtherSteps
        <5>2. i \in 1 .. Len(TurnsOf(s)) /\ TurnsOf(s)'[i] = TurnsOf(s)[i]
          BY <5>1 DEF Shortened
        <5>3. QED
          BY <2>3, <5>2
      <4>3. QED
        BY <4>1, <4>2
    <3>4. QED
      BY <3>1, <3>2, <3>3
  <2>5. QED
    BY <1>1, <2>1, <2>2, <2>4 DEF SnapshotInv
<1>4. ASSUME ~Restart, NEW d \in Drains, DrainSnapshot(d)
      PROVE  SnapshotInv'
  BY <1>1, <1>4, SnapshotEntries DEF SnapshotInv
<1>5. QED
  BY <1>2, <1>3, <1>4

(* For a careful client a rewind restores the environment to what it was   *)
(* when the last turn it keeps settled, or leaves it alone, although the   *)
(* log of snapshots is never trimmed.                                      *)
THEOREM DaemonRestoresKept ==
    ASSUME Client = {}, "usage" \notin Harness
    PROVE  Spec => []RestoresKeptTurn
<1>1. Init => SnapshotInv
  BY SnapshotInit
<1>2. LedgerInv /\ SnapshotInv /\ [Next]_vars => SnapshotInv'
  BY SnapshotNext
<1>3. SnapshotInv => RestoresKeptTurn
  BY DEF SnapshotInv
<1>4. QED
  BY <1>1, <1>2, <1>3, LedgerInvariance, PTL DEF Spec
=============================================================================

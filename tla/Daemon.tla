------------------------------- MODULE Daemon -------------------------------
(***************************************************************************)
(* The harness daemon (crates/goble-daemon/src/state): client calls that   *)
(* start, answer, cancel, rewind, fork and edit turns; one drain task per  *)
(* harness stream, which records its events, settles the turn, logs an     *)
(* environment snapshot, persists a checkpoint, reports TraceFinished and  *)
(* unregisters the session; and a process restart that rebuilds the        *)
(* ledgers from the checkpoint store.                                      *)
(*                                                                         *)
(* One action is one critical section of the code: the daemon holds no     *)
(* lock across two of its maps.  A ledger is an object shared by handles   *)
(* (Arc), so drains keep the ledger they were started on even when fork    *)
(* puts another one under the same session id.                             *)
(***************************************************************************)
EXTENDS Ledger, FiniteSets

CONSTANTS Sessions,         \* session ids
          Ledgers,          \* ledger objects, at least one per session
          Drains,           \* slots for drain tasks
          None,             \* no run, no snapshot, no checkpoint, no call
          Client,           \* the habits of the clients, see below
          Calls,            \* the calls they make besides run and resume
          Harness,          \* the habits of the harnesses' streams, see below
          SilentEnd,        \* may a stream end with no Done, Error or ask?
          MaxRuns,          \* bound: run calls
          MaxEvents,        \* bound: events of a run before its last
          MaxLate,          \* bound: the same, with those behind a question
          MaxHidden,        \* bound: events of a record with no wire form
          MaxRestarts,      \* bound: process restarts
          MaxSinkErrors     \* bound: failed writes of the checkpoint store

Runs == 1 .. MaxRuns

ASSUME NoneAssumption ==
    /\ None \notin Nat
    /\ None \notin Checkpoint
    /\ None \notin [phase : {"checked", "restored"}, at : Nat,
                    ledger : Ledgers, snap : Runs \cup {None}, kept : Nat]

ASSUME BoundsAssumption ==
    /\ MaxRuns \in Nat /\ MaxEvents \in Nat /\ MaxLate \in Nat /\ MaxHidden \in Nat
    /\ MaxRestarts \in Nat /\ MaxSinkErrors \in Nat

ASSUME SilentEndAssumption == SilentEnd \in BOOLEAN

(* What a client may do besides calling one method at a time per session,  *)
(* starting a turn once the last one is over and gone from snapshot(), and *)
(* answering a turn that asked:                                            *)
(*   "rerun"       starts a turn while others are running;                 *)
(*   "answer"      answers a turn that has not asked;                      *)
(*   "concurrent"  calls before its last call on the session has returned; *)
(*   "onFinished"  starts the next turn on TraceFinished, without waiting  *)
(*                 for the session to leave snapshot();                    *)
(*   "editLive"    applies and discards on live sessions, and forks onto   *)
(*                 ids that are in use.                                    *)
ASSUME ClientAssumption ==
    Client \subseteq {"rerun", "answer", "concurrent", "onFinished", "editLive"}

(* What a harness's stream may do besides streaming events and ending with *)
(* Done or Error:                                                          *)
(*   "ask"    asks the user or proposes a command, and is suspended there; *)
(*   "late"   has sub-agents whose events come behind the question: the    *)
(*            merge ends with the turn's generator and drains what children*)
(*            sent until then (goble-core/src/subagent_run/events.rs:27);  *)
(*   "usage"  has an Error before or behind the question: a token count    *)
(*            that cannot be stored becomes one, and the stream goes on    *)
(*            (goble-core/src/harness/mod.rs:286).                         *)
ASSUME HarnessAssumption == Harness \subseteq {"ask", "late", "usage"}

ASSUME CallsAssumption == Calls \subseteq {"cancel", "rewind", "fork", "candidate"}

VARIABLES
    heap,                   \* ledger object -> its state
    ledgers,                \* DaemonState.ledgers: session -> ledger object
    sessions,               \* DaemonState.sessions: session -> live run
    snapshots,              \* DaemonState.snapshots: session -> log
    runs,                   \* the SessionState made by each run call
    drains,                 \* the drain tasks
    rewinds,                \* session -> the rewind call being executed
    store,                  \* the checkpoint store: session -> checkpoint
    restarts, sinkErrors,   \* counters of the bounded faults
    dropped                 \* history: session -> turns taken out of it

vars == << heap, ledgers, sessions, snapshots, runs, drains, rewinds, store,
           restarts, sinkErrors, dropped >>

-----------------------------------------------------------------------------
(* Types.                                                                  *)

Run == [session : Sessions, ledger : Ledgers, index : Nat,
        phase : {"recorded", "live", "finished", "lost"},
        asked : BOOLEAN, cancelled : BOOLEAN, mirror : Nat]

DrainPc == {"idle", "streaming", "closing", "ended", "settled", "snapped",
            "persisting", "persisted", "reported"}

Drain == [pc : DrainPc, run : Nat, final : {"running", "success", "failed"},
          cp : Checkpoint]

IdleDrain == [pc |-> "idle", run |-> 0, final |-> "running", cp |-> << >>]

Rewind == [phase : {"checked", "restored"}, at : Nat, ledger : Ledgers,
           snap : Runs \cup {None}, kept : Nat]

TypeOK ==
    /\ heap \in [Ledgers -> LedgerState]
    /\ ledgers \in [Sessions -> Ledgers]
    /\ sessions \in [Sessions -> Nat \cup {None}]
    /\ snapshots \in [Sessions -> Seq(Runs \cup {None})]
    /\ runs \in Seq(Run) /\ Len(runs) <= MaxRuns
    /\ drains \in [Drains -> Drain]
    /\ \A d \in Drains : drains[d].pc # "idle" => drains[d].run \in 1 .. Len(runs)
    /\ \A s \in Sessions : sessions[s] # None => sessions[s] \in 1 .. Len(runs)
    /\ rewinds \in [Sessions -> Rewind \cup {None}]
    /\ store \in [Sessions -> Checkpoint \cup {None}]
    /\ restarts \in Nat /\ sinkErrors \in Nat
    /\ dropped \in [Sessions -> SUBSET Nat]

Init ==
    /\ heap = [l \in Ledgers |-> NewLedger]
    /\ ledgers \in [Sessions -> Ledgers]
    /\ \A s, t \in Sessions : s # t => ledgers[s] # ledgers[t]
    /\ sessions = [s \in Sessions |-> None]
    /\ snapshots = [s \in Sessions |-> << >>]
    /\ runs = << >>
    /\ drains = [d \in Drains |-> IdleDrain]
    /\ rewinds = [s \in Sessions |-> None]
    /\ store = [s \in Sessions |-> None]
    /\ restarts = 0 /\ sinkErrors = 0
    /\ dropped = [s \in Sessions |-> {}]

-----------------------------------------------------------------------------
(* The clients' habits.                                                    *)

RunsOf(s) == {r \in 1 .. Len(runs) : runs[r].session = s}

(* No other call on this session is being executed.                        *)
FreeCaller(s) ==
    \/ "concurrent" \in Client
    \/ /\ rewinds[s] = None
       /\ \A r \in RunsOf(s) : runs[r].phase # "recorded"

(* Every turn started on the session is over, as far as the client knows.  *)
Over(s) ==
    /\ \A r \in RunsOf(s) : runs[r].phase \in {"finished", "lost"}
    /\ "onFinished" \in Client \/ sessions[s] = None

MayRun(s) == FreeCaller(s) /\ ("rerun" \in Client \/ Over(s))

MayAnswer(s) == "answer" \in Client \/ runs[sessions[s]].asked

MayEdit(s) == FreeCaller(s) /\ ("editLive" \in Client \/ Over(s))

(* A session id that nobody has used.                                      *)
Unused(s) ==
    /\ RunsOf(s) = {} /\ rewinds[s] = None /\ store[s] = None
    /\ heap[ledgers[s]].turns = << >>

-----------------------------------------------------------------------------
(* Ledger objects.                                                         *)

(* Handles that keep a ledger object alive: the daemon's map, the live     *)
(* sessions, the drains, and the calls being executed.                     *)
Referenced ==
    {ledgers[s] : s \in Sessions}
    \cup {runs[sessions[s]].ledger : s \in {x \in Sessions : sessions[x] # None}}
    \cup {runs[drains[d].run].ledger : d \in {x \in Drains : drains[x].pc # "idle"}}
    \cup {runs[r].ledger : r \in {x \in 1 .. Len(runs) : runs[x].phase = "recorded"}}
    \cup {rewinds[s].ledger : s \in {x \in Sessions : rewinds[x] # None}}

TurnSet(turns) == {turns[i].turn : i \in 1 .. Len(turns)}

(* The ledger of session s becomes l; the turns it loses are dropped.      *)
Replace(s, l) ==
    /\ heap' = [heap EXCEPT ![ledgers[s]] = l]
    /\ dropped' = [dropped EXCEPT ![s] =
                      @ \cup (TurnSet(heap[ledgers[s]].turns) \ TurnSet(l.turns))]

-----------------------------------------------------------------------------
(* run: the turn is recorded in the session's ledger ...                   *)

RunRecord(s) ==
    /\ MayRun(s)
    /\ Len(runs) < MaxRuns
    /\ LET l == ledgers[s] IN
       /\ runs' = Append(runs, [session |-> s, ledger |-> l,
                                index |-> RecordedIndex(heap[l]),
                                phase |-> "recorded", asked |-> FALSE,
                                cancelled |-> FALSE, mirror |-> 0])
       /\ heap' = [heap EXCEPT ![l] = RecordTurn(@, Len(runs) + 1)]
    /\ UNCHANGED << ledgers, sessions, snapshots, drains, rewinds, store,
                    restarts, sinkErrors, dropped >>

Spawn(d, r) ==
    /\ drains[d].pc = "idle"
    /\ drains' = [drains EXCEPT ![d] = [IdleDrain EXCEPT !.pc = "streaming",
                                                         !.run = r]]

(* ... then registered as the session's live run, replacing any other, and *)
(* the harness's stream gets a drain.                                      *)
RunStart(r, d) ==
    /\ runs[r].phase = "recorded"
    /\ runs' = [runs EXCEPT ![r].phase = "live"]
    /\ sessions' = [sessions EXCEPT ![runs[r].session] = r]
    /\ Spawn(d, r)
    /\ UNCHANGED << heap, ledgers, snapshots, rewinds, store, restarts,
                    sinkErrors, dropped >>

(* resume and resume_command: another stream for the live run.             *)
Resume(s, d) ==
    /\ sessions[s] # None
    /\ MayAnswer(s)
    /\ runs[sessions[s]].mirror <= MaxEvents
    /\ Spawn(d, sessions[s])
    /\ runs' = [runs EXCEPT ![sessions[s]].asked = FALSE]
    /\ UNCHANGED << heap, ledgers, sessions, snapshots, rewinds, store,
                    restarts, sinkErrors, dropped >>

(* The harness is told as well; what its stream does then is up to it.     *)
Cancel(s) ==
    /\ sessions[s] # None
    /\ runs' = [runs EXCEPT ![sessions[s]].cancelled = TRUE]
    /\ UNCHANGED << heap, ledgers, sessions, snapshots, drains, rewinds, store,
                    restarts, sinkErrors, dropped >>

-----------------------------------------------------------------------------
(* The drain task of one stream.                                           *)

RunOf(d) == runs[drains[d].run]

(* A drain that has finished its step and goes to pc next.                 *)
Goto(d, next) == drains' = [drains EXCEPT ![d].pc = next]

(* What a drain does to its ledger with an event; a missing record is an   *)
(* error the drain ignores.                                                *)
RecordEvent(l, i, e) == IF HasTurn(l, i) THEN AppendEventsTo(l, i, e) ELSE l

RecordOutcomeNext(l, i, st) ==
    IF HasTurn(l, i + 1) THEN SettleTurnAt(l, i + 1, st) ELSE l
RecordOutcome(l, i, st) == IF HasTurn(l, i) THEN SettleTurnAt(l, i, st) ELSE l

StatusOfWire(final) == final
(* The ledger status of the wire status the drain ends with.               *)
StatusOf(final) == IF final = "success" THEN "Success" ELSE "Failed"

(* The events map_event gives a wire form, as far as a drain tells them    *)
(* apart: Done and Error, AskUser and CommandProposed, and all the others. *)
(* Ready, ToolList and Checkpoint have none.                               *)
WireKinds == {"delta", "ask", "success", "failed"}

(* The streams harnesses produce: any number of events, of which Done and  *)
(* Error set the status the turn will settle to and the last one wins: a   *)
(* sub-agent's count behind the Done may fail.  The generator returns      *)
(* where it asks, cancelled or not.                                        *)
MayStream(d, kind) ==
    \/ /\ drains[d].pc = "streaming"
       /\ kind = "ask" =>
             "ask" \in Harness /\ (drains[d].final = "running" \/ "usage" \in Harness)
    \/ /\ drains[d].pc = "closing" /\ "late" \in Harness
       /\ kind = "delta" \/ (kind = "failed" /\ "usage" \in Harness)

StreamItem(d, kind) ==
    LET r == drains[d].run IN
    /\ MayStream(d, kind)
    /\ \/ runs[r].mirror < MaxEvents
       \/ runs[r].mirror < MaxLate /\ drains[d].pc = "closing"
       \/ kind \in {"success", "failed"} /\ drains[d].final = "running"
    /\ heap' = [heap EXCEPT ![runs[r].ledger] = RecordEvent(@, runs[r].index, r)]
    /\ runs' = [runs EXCEPT ![r].mirror = @ + 1,
                            ![r].asked = @ \/ kind = "ask"]
    /\ drains' = [drains EXCEPT
                     ![d].pc = IF kind = "ask" THEN "closing" ELSE @,
                     ![d].final = IF kind \in {"delta", "ask"} THEN @ ELSE kind]
    /\ UNCHANGED << ledgers, sessions, snapshots, rewinds, store, restarts,
                    sinkErrors, dropped >>

(* An event without a wire form, which goes into the record and no         *)
(* further.                                                                *)
Hidden == 0

HiddenIn(l, i) == {k \in 1 .. Len(l.turns[i + 1].events) :
                      l.turns[i + 1].events[k] = Hidden}

HiddenItem(d) ==
    LET l == RunOf(d).ledger IN
    /\ drains[d].pc = "streaming"
    /\ HasTurn(heap[l], RunOf(d).index)
    /\ Cardinality(HiddenIn(heap[l], RunOf(d).index)) < MaxHidden
    /\ heap' = [heap EXCEPT ![l] = RecordEvent(@, RunOf(d).index, Hidden)]
    /\ UNCHANGED << ledgers, sessions, snapshots, runs, drains, rewinds, store,
                    restarts, sinkErrors, dropped >>

StreamEndSettles(d) ==
    /\ \/ drains[d].pc = "closing"
       \/ drains[d].pc = "streaming" /\ (drains[d].final # "running" \/ SilentEnd)
    /\ drains' = [drains EXCEPT ![d].pc = "ended"]
    /\ UNCHANGED << heap, ledgers, sessions, snapshots, runs, rewinds, store,
                    restarts, sinkErrors, dropped >>
StreamEndRemoves(d) ==
    /\ \/ drains[d].pc = "closing"
       \/ drains[d].pc = "streaming" /\ (drains[d].final # "running" \/ SilentEnd)
    /\ drains' = [drains EXCEPT ![d] = IF @.final = "running"
                                       THEN IdleDrain
                                       ELSE [@ EXCEPT !.pc = "ended"]]
    /\ sessions' = [sessions EXCEPT ![RunOf(d).session] =
                       IF drains[d].final = "running" THEN None ELSE @]
    /\ UNCHANGED << heap, ledgers, snapshots, runs, rewinds, store, restarts,
                    sinkErrors, dropped >>
(* The stream is over: with no Done or Error the turn is left suspended    *)
(* and the session live.                                                   *)
StreamEnd(d) ==
    /\ \/ drains[d].pc = "closing"
       \/ drains[d].pc = "streaming" /\ (drains[d].final # "running" \/ SilentEnd)
    /\ drains' = [drains EXCEPT ![d] = IF @.final = "running"
                                       THEN IdleDrain
                                       ELSE [@ EXCEPT !.pc = "ended"]]
    /\ UNCHANGED << heap, ledgers, sessions, snapshots, runs, rewinds, store,
                    restarts, sinkErrors, dropped >>

DrainSettle(d) ==
    /\ drains[d].pc = "ended"
    /\ heap' = [heap EXCEPT ![RunOf(d).ledger] =
                   RecordOutcome(@, RunOf(d).index, StatusOf(drains[d].final))]
    /\ Goto(d, "settled")
    /\ UNCHANGED << ledgers, sessions, snapshots, runs, rewinds, store,
                    restarts, sinkErrors, dropped >>

LogPush(log, i, v) == Append(log, v)
(* The snapshot log with entry i set to v, padded with None up to i.       *)
LogPut(log, i, v) ==
    [j \in 1 .. (IF Len(log) <= i THEN i + 1 ELSE Len(log)) |->
        IF j = i + 1 THEN v ELSE IF j <= Len(log) THEN log[j] ELSE None]

(* The harness may be irreversible, or produce no snapshot.                *)
DrainSnapshot(d) ==
    /\ drains[d].pc = "settled"
    /\ \E snap \in {drains[d].run, None} :
          snapshots' = [snapshots EXCEPT ![RunOf(d).session] =
                           LogPut(@, RunOf(d).index, snap)]
    /\ Goto(d, "snapped")
    /\ UNCHANGED << heap, ledgers, sessions, runs, rewinds, store, restarts,
                    sinkErrors, dropped >>

SinkUnguarded == TRUE
SinkRelocked == \A d \in Drains : drains[d].pc \notin {"snapped", "persisting"}
(* The checkpoint_sink mutex is held from the checkpoint to the write.     *)
SinkFree == \A d \in Drains : drains[d].pc # "persisting"

DrainCheckpoint(d) ==
    /\ drains[d].pc = "snapped"
    /\ SinkFree
    /\ drains' = [drains EXCEPT ![d].pc = "persisting",
                                ![d].cp = heap[RunOf(d).ledger].turns]
    /\ UNCHANGED << heap, ledgers, sessions, snapshots, runs, rewinds, store,
                    restarts, sinkErrors, dropped >>

(* persist writes the whole row; an error of the store is ignored.         *)
DrainPersist(d) ==
    /\ drains[d].pc = "persisting"
    /\ \/ /\ store' = [store EXCEPT ![RunOf(d).session] = drains[d].cp]
          /\ UNCHANGED sinkErrors
       \/ /\ sinkErrors < MaxSinkErrors
          /\ sinkErrors' = sinkErrors + 1
          /\ UNCHANGED store
    /\ drains' = [drains EXCEPT ![d].pc = "persisted", ![d].cp = << >>]
    /\ UNCHANGED << heap, ledgers, sessions, snapshots, runs, rewinds,
                    restarts, dropped >>

(* Status and finish time are set, and TraceFinished is emitted ...        *)
DrainReport(d) ==
    /\ drains[d].pc = "persisted"
    /\ runs' = [runs EXCEPT ![drains[d].run].phase = "finished"]
    /\ Goto(d, "reported")
    /\ UNCHANGED << heap, ledgers, sessions, snapshots, rewinds, store,
                    restarts, sinkErrors, dropped >>

(* ... before whatever is registered for the session is removed.           *)
DrainRemove(d) ==
    /\ drains[d].pc = "reported"
    /\ sessions' = [sessions EXCEPT ![RunOf(d).session] = None]
    /\ drains' = [drains EXCEPT ![d] = IdleDrain]
    /\ UNCHANGED << heap, ledgers, snapshots, runs, rewinds, store, restarts,
                    sinkErrors, dropped >>

-----------------------------------------------------------------------------
(* rewind: refused while the session is live ...                           *)

NotLiveUnchecked(s) == TRUE
NotLive(s) == sessions[s] = None

RewindCheck(s, at) ==
    /\ FreeCaller(s)
    /\ rewinds[s] = None
    /\ NotLive(s)
    /\ rewinds' = [rewinds EXCEPT ![s] = [phase |-> "checked", at |-> at,
                                          ledger |-> ledgers[s],
                                          snap |-> None, kept |-> 0]]
    /\ UNCHANGED << heap, ledgers, sessions, snapshots, runs, drains, store,
                    restarts, sinkErrors, dropped >>

(* The snapshot a rewind to `at` hands to the harness: the log's entry for *)
(* the last kept turn.                                                     *)
SnapshotAt(s, at) ==
    IF at <= Len(snapshots[s]) THEN snapshots[s][at] ELSE None

(* ... the environment of the last kept turn is restored, if there is a    *)
(* tail to drop, a snapshot, and a harness that restores it ...            *)
RewindRestore(s) ==
    LET l  == ledgers[s]
        at == MinOf(rewinds[s].at, Len(heap[l].turns))
    IN  /\ rewinds[s] # None /\ rewinds[s].phase = "checked"
        /\ \E snap \in IF at > 0 /\ HasTurn(heap[l], at)
                       THEN {None, SnapshotAt(s, at)} ELSE {None} :
              rewinds' = [rewinds EXCEPT ![s] =
                  [phase |-> "restored", at |-> at, ledger |-> l,
                   snap |-> snap,
                   kept |-> IF snap = None THEN 0
                            ELSE heap[l].turns[at].turn]]
        /\ UNCHANGED << heap, ledgers, sessions, snapshots, runs, drains,
                        store, restarts, sinkErrors, dropped >>

(* ... and the ledger is truncated.  Neither the snapshot log nor the      *)
(* checkpoint store hears of it.                                           *)
RewindTruncate(s) ==
    /\ rewinds[s] # None /\ rewinds[s].phase = "restored"
    /\ LET l == rewinds[s].ledger
           new == RewindTo(heap[l], rewinds[s].at)
       IN  /\ heap' = [heap EXCEPT ![l] = new]
           /\ dropped' = [dropped EXCEPT ![s] =
                 @ \cup (TurnSet(heap[l].turns) \ TurnSet(new.turns))]
    /\ rewinds' = [rewinds EXCEPT ![s] = None]
    /\ UNCHANGED << ledgers, sessions, snapshots, runs, drains, store,
                    restarts, sinkErrors >>

(* fork: a new ledger object takes the place of whatever is under the id.  *)
ForkTo(s, at, t) ==
    /\ t # s \/ "editLive" \in Client
    /\ "editLive" \in Client \/ Unused(t)
    /\ \E l \in Ledgers \ Referenced :
          LET branch == Fork(heap[ledgers[s]], at) IN
          /\ heap' = [heap EXCEPT ![l] = branch]
          /\ ledgers' = [ledgers EXCEPT ![t] = l]
          /\ dropped' = [dropped EXCEPT ![t] =
                (@ \cup TurnSet(heap[ledgers[t]].turns)) \ TurnSet(branch.turns)]
    /\ UNCHANGED << sessions, snapshots, runs, drains, rewinds, store,
                    restarts, sinkErrors >>

(* The settlement of a candidate turn; none of these looks at sessions.    *)
SelectTurn(s, at) ==
    /\ HasTurn(heap[ledgers[s]], at)
    /\ Replace(s, Select(heap[ledgers[s]], at))
    /\ UNCHANGED << ledgers, sessions, snapshots, runs, drains, rewinds,
                    store, restarts, sinkErrors >>

ApplyCandidate(s, at) ==
    /\ MayEdit(s)
    /\ CanApply(heap[ledgers[s]], at)
    /\ Replace(s, Apply(heap[ledgers[s]], at))
    /\ UNCHANGED << ledgers, sessions, snapshots, runs, drains, rewinds,
                    store, restarts, sinkErrors >>

ReleaseCandidate(s, at) ==
    /\ HasTurn(heap[ledgers[s]], at)
    /\ Replace(s, Release(heap[ledgers[s]], at))
    /\ UNCHANGED << ledgers, sessions, snapshots, runs, drains, rewinds,
                    store, restarts, sinkErrors >>

DiscardFrom(s, at) ==
    /\ MayEdit(s)
    /\ HasTurn(heap[ledgers[s]], at)
    /\ Replace(s, Discard(heap[ledgers[s]], at))
    /\ UNCHANGED << ledgers, sessions, snapshots, runs, drains, rewinds,
                    store, restarts, sinkErrors >>

-----------------------------------------------------------------------------
(* The process dies and is started again: everything in memory is gone,    *)
(* and the ledgers are rebuilt from the store.                             *)

Restored(s) == IF store[s] = None THEN NewLedger ELSE FromCheckpoint(store[s])

Restart ==
    /\ restarts < MaxRestarts
    /\ restarts' = restarts + 1
    /\ heap' = [l \in Ledgers |->
                   IF \E s \in Sessions : ledgers[s] = l
                   THEN Restored(CHOOSE s \in Sessions : ledgers[s] = l)
                   ELSE NewLedger]
    /\ sessions' = [s \in Sessions |-> None]
    /\ snapshots' = [s \in Sessions |-> << >>]
    /\ runs' = [r \in 1 .. Len(runs) |->
                   IF runs[r].phase = "finished" THEN runs[r]
                   ELSE [runs[r] EXCEPT !.phase = "lost"]]
    /\ drains' = [d \in Drains |-> IdleDrain]
    /\ rewinds' = [s \in Sessions |-> None]
    /\ UNCHANGED << ledgers, store, sinkErrors, dropped >>

-----------------------------------------------------------------------------
DrainStep(d) ==
    \/ \E kind \in WireKinds : StreamItem(d, kind)
    \/ HiddenItem(d)
    \/ StreamEnd(d)
    \/ DrainSettle(d)
    \/ DrainSnapshot(d)
    \/ DrainCheckpoint(d)
    \/ DrainPersist(d)
    \/ DrainReport(d)
    \/ DrainRemove(d)

(* What continues a call a client has already made.                        *)
CallStep(s) == RewindRestore(s) \/ RewindTruncate(s)

Call(s) ==
    \/ RunRecord(s)
    \/ \E d \in Drains : Resume(s, d)
    \/ "cancel" \in Calls /\ Cancel(s)
    \/ "rewind" \in Calls /\ \E at \in 0 .. MaxRuns : RewindCheck(s, at)
    \/ "fork" \in Calls
       /\ \E at \in 0 .. MaxRuns, t \in Sessions : ForkTo(s, at, t)
    \/ "candidate" \in Calls
       /\ \E at \in 0 .. MaxRuns : \/ SelectTurn(s, at)
                                   \/ ApplyCandidate(s, at)
                                   \/ ReleaseCandidate(s, at)
                                   \/ DiscardFrom(s, at)

Next ==
    \/ \E d \in Drains : DrainStep(d)
    \/ \E r \in 1 .. Len(runs), d \in Drains : RunStart(r, d)
    \/ \E s \in Sessions : CallStep(s) \/ Call(s)
    \/ Restart

Spec == Init /\ [][Next]_vars
=============================================================================

----------------------------- MODULE DaemonProps -----------------------------
(***************************************************************************)
(* The properties of the daemon, and the fairness of its tasks.            *)
(***************************************************************************)
EXTENDS Daemon

(* The turns a session's ledger holds now.                                 *)
TurnsOf(s) == heap[ledgers[s]].turns

SettledIn(turns, r) ==
    \E i \in 1 .. Len(turns) : turns[i].turn = r /\ turns[i].status # "Running"

-----------------------------------------------------------------------------
(* Whatever the clients do, and across restarts, every turn list in the    *)
(* system, in a ledger, in a checkpoint being written or in the store, is  *)
(* in the order in which its turns were started and carries contiguous     *)
(* 0-based indices (TurnRecord.index, goble-replay/src/lib.rs:57).         *)
Ordered(turns) ==
    /\ \A i \in 1 .. Len(turns) : turns[i].index = i - 1
    /\ \A i, j \in 1 .. Len(turns) : i < j => turns[i].turn < turns[j].turn
    /\ \A i \in 1 .. Len(turns) : turns[i].turn \in 1 .. Len(runs)

HistoryOrdered ==
    /\ \A l \in Ledgers : Ordered(heap[l].turns)
    /\ \A s \in Sessions : store[s] # None => Ordered(store[s])
    /\ \A d \in Drains : Ordered(drains[d].cp)

(* A turn that has started and has not been reported finished is the one   *)
(* registered for its session, so that cancel, resume and rewind's         *)
(* liveness check reach it (state/port.rs:70-132, 162).                    *)
LiveTurnRegistered ==
    \A r \in 1 .. Len(runs) :
        runs[r].phase = "live" => sessions[runs[r].session] = r

(* "A live session must be cancelled or allowed to settle first"           *)
(* (goble-daemon/src/port.rs:50): a rewind never takes away the record a   *)
(* live turn is streaming into.                                            *)
LiveTurnKeepsRecord ==
    \A r \in 1 .. Len(runs) :
        runs[r].phase = "live" =>
            LET l == heap[runs[r].ledger] IN
            /\ HasTurn(l, runs[r].index)
            /\ l.turns[runs[r].index + 1].turn = r

(* A record holds what was streamed of its turn, and no other turn's.      *)
Faithful(t) ==
    LET wire == {k \in 1 .. Len(t.events) : t.events[k] # Hidden} IN
    /\ \A k \in wire : t.events[k] = t.turn
    /\ Cardinality(wire) = runs[t.turn].mirror

(* "the (mapped) wire mirror and the reversible history agree"             *)
(* (state/streams.rs:31): a session's ledger holds, for every turn run on  *)
(* that session, exactly the events streamed to the clients of that turn,  *)
(* apart from those with no wire form, which replay leaves out too         *)
(* (state/port.rs:215-223), restarts and unpersisted rewinds included.     *)
HistoryAgreesWithWire ==
    \A s \in Sessions : \A i \in 1 .. Len(TurnsOf(s)) :
        runs[TurnsOf(s)[i].turn].session = s => Faithful(TurnsOf(s)[i])

(* A rewind "restore[s] the harness environment to the snapshot captured   *)
(* when the last *kept* turn ... settled" (state/port.rs:172), although    *)
(* neither rewinding nor restarting trims the snapshot log.                *)
RestoresKeptTurn ==
    \A s \in Sessions :
        rewinds[s] # None /\ rewinds[s].snap # None
            => rewinds[s].snap = rewinds[s].kept

(* When a turn is reported finished its settled record is in the store,    *)
(* and it stays there, settled, until the turn is taken out of the         *)
(* history, even if several drains of a session settle and persist at the  *)
(* same time (state/streams.rs:60, 77-82), unless the store failed.        *)
FinishedIsDurable ==
    sinkErrors = 0 =>
        \A r \in 1 .. Len(runs) :
            LET s == runs[r].session IN
            runs[r].phase = "finished" /\ r \notin dropped[s]
                => store[s] # None /\ SettledIn(store[s], r)

(* "so rewind/fork/replay survive a restart" (goble-desktop-service/src/   *)
(* state/bootstrap.rs:91): a turn taken out of a session's history is not  *)
(* in it later.                                                            *)
RewindSurvivesRestart ==
    \A s \in Sessions : TurnSet(TurnsOf(s)) \cap dropped[s] = {}

(* What a settled record may become: it keeps its turn and its outcome,    *)
(* and the events it has, behind which late ones may come.                 *)
StaysSettled(old, new) ==
    /\ new.turn = old.turn /\ new.status = old.status
    /\ Len(new.events) >= Len(old.events)
    /\ \A k \in 1 .. Len(old.events) : new.events[k] = old.events[k]

(* While the process lives, a settled record of a session's ledger keeps   *)
(* its outcome and its events or is removed: a turn is settled by one of   *)
(* its drains only, although the one that asked may still be draining the  *)
(* events of sub-agents when the resumed one is done (state/streams.rs:33, *)
(* 54, 60).                                                                *)
SettledIsFinal ==
    [][restarts' = restarts =>
        \A s \in Sessions : ledgers'[s] = ledgers[s] =>
            \A i \in 1 .. MinOf(Len(TurnsOf(s)), Len(TurnsOf(s)')) :
                TurnsOf(s)[i].status # "Running"
                    => StaysSettled(TurnsOf(s)[i], TurnsOf(s)'[i])]_vars

-----------------------------------------------------------------------------
(* Spawned tasks run, harness streams make progress, and a call a client   *)
(* has made is executed.  Nobody is obliged to make a call.                *)
Fairness ==
    /\ \A d \in Drains : WF_vars(DrainStep(d))
    /\ \A s \in Sessions : WF_vars(CallStep(s))
    /\ \A r \in Runs : WF_vars(r <= Len(runs) /\ \E d \in Drains : RunStart(r, d))

FairSpec == Spec /\ Fairness

(* A drain that has seen Done or Error settles, persists and unregisters:  *)
(* no drain waits for ever for the checkpoint sink.                        *)
TerminalEventSettles ==
    \A d \in Drains :
        drains[d].final # "running" ~> drains[d].pc = "idle"

(* "Cancellation surfaces as `Error("cancelled")`, so a cancelled turn     *)
(* still settles here" (state/streams.rs:51).                              *)
CancelledTurnSettles ==
    \A r \in Runs :
        (r <= Len(runs) /\ runs[r].cancelled)
            ~> (r <= Len(runs) /\ runs[r].phase # "live")
=============================================================================

# Goble in TLA+

Goble runs agent harnesses for a user and keeps what they did as a *reversible*
history: every turn of a session is recorded, can be replayed, rewound, forked
and edited, and survives a restart. Around it are the agent loop itself with its
sub-agents, a terminal daemon, and workers that run routines in a cluster. This
directory models the concurrent core of each, checks it with TLC on small
instances, and proves its main invariants with TLAPS for every instance.

Paths below are relative to the repository root; `crates/` is where all of the
modelled code lives.

## 1. The system

```
user interface, goble-cli, goblin-worker
        |  run, resume, cancel, rewind, fork, select/apply/release/discard
        v
desktop service ---- start-up ----> checkpoint store (SQLite)
        |                                  ^
        v                                  | persist
daemon core: sessions, ledgers, snapshots -+
        |  one drain task per stream of events
        v
harness (internal mission loop | command line | remote)
        |  the mission loop spawns sub-agents, each a task of its own

pty server: terminal sessions <-- sockets --> panes of the user interface
goblin workers: lease election, scheduler <--> Kubernetes lease server
```

| component | state | operations | what is hard about it | what makes it correct |
|---|---|---|---|---|
| **replay ledger** `goble-replay/src/lib.rs` | one mutex: turn records and the candidate marker | record, append, settle, select, apply, release, discard, rewind, fork, checkpoint, restore | handles are shared by tasks that address records by index while others truncate | indices stay contiguous; operations only grow, cut or copy histories |
| **daemon core** `goble-daemon/src/state/` | maps of live sessions, ledgers, snapshot logs, each under its own lock; one task per stream | `run`, `resume`, `resume_command`, `cancel`, `rewind`, `fork`, candidate calls; the drain | no operation holds two locks; drains of one session overlap; a turn can suspend with no task left | history agrees with the wire; a live turn stays reachable; what is reported finished is durable |
| **checkpoint store** `goble-persistence/src/lib.rs` | one row per session, replaced as a whole | save, load, list | written only when a turn settles; errors are swallowed | a restart restores what was reported |
| **desktop service** `goble-desktop-service/src/state/` | turn handles, entity maps | start-up, run/resume a chat turn and wait for it | waits on a broadcast channel that only carries later events | a handle resolves when, and only when, its turn settles |
| **mission loop** `goble-core/src/reasoning/mission.rs`, `resume.rs`, `harness/mod.rs` | the generator of a turn; in the store the last message's call records, pending questions and commands, the mission's status | run, resume with an answer, resume with a decision, cancel | the generator is polled lazily and runs on after reporting a cancellation; it suspends inside a batch of calls; writes fail | besides errors for counts it could not record, every turn ends once and says how; no call is left unanswered |
| **sub-agents** `goble-core/src/subagent_run/`, `harness/agents.rs` | registry of records, cancel bits, the turn that listens | spawn, publish, kill, cancel all, account for spend | children outlive turns and have children; each record has two writers; events are sent after the lock is released | one outcome each, reported once; a stop reaches everyone; nothing is charged twice |
| **CLI harness** `goble-harness-cli/src/lib.rs` | one slot for the child process | run, cancel | the slot is shared by all runs | a cancel reaches its own run |
| **workflow host** `goble-daemon/src/workflow.rs` | journal, sequence counter | run, append | number and entry under separate locks | the journal is in order |
| **pty server** `goble-pty/src/` | sessions with a replay ring and subscribers, under one mutex; a bounded queue per connection | create, attach, detach, resize, kill; output, exit | slow and departed clients, attach during output, a pane with two connections | offsets are exact, no holes and no overlaps, nobody holds up the others |
| **goblin worker** `goblin-worker/src/` | the lease, the leader bit, the routines and their loop | acquire or renew, schedule, pause, cancel, run | the lease is written after it was read, requests and answers are lost, processes die | the lease is kept until it expires; two elected leaders never both have a fresh lease; routines keep their distance |
| the rest | see `components` in `PROJECT.json` | | I/O, data types, rendering, third-party code | |

The daemon is the centre: everything reaches it through the calls of
`goble-daemon/src/port.rs`, and it sees harnesses only as streams of events.
The mission loop is what produces those streams; the pty server and the workers
are processes of their own.

## 2. The modules

| module | what it is |
|---|---|
| `Ledger` | the ledger of one session as a value, and what each method of `ReplayLedger` makes of it |
| `Transcript` | abstract specification: what a family of ledgers promises |
| `ReplayLedger` | ledgers shared by concurrent writers and a host |
| `Daemon` | the daemon, its drains, the store, and restarts; built on `Ledger` |
| `DaemonProps` | the properties of `Daemon` and the fairness of its tasks |
| `MCReplayLedger`, `MCDaemon` | symmetry sets for TLC |
| `SubAgents` | the registry of sub-agents and the tasks that run them |
| `Mission` | the turns of one conversation, composed with `SubAgents` |
| `MissionProps` | the properties of `Mission` and `SubAgents`, and their fairness |
| `ReplayRing` | the bounded output history of a terminal as a value |
| `PtyServer`, `PtyServerProps` | the terminal daemon, built on `ReplayRing`, and its properties |
| `Worker` | election, scheduler and task stores of the workers, and their properties |
| `LedgerTheorems` | lemmas about the operators of `Ledger` |
| `ReplayLedgerProofs` | types and contiguous indices of `ReplayLedger` |
| `ReplayLedgerRefinement` | `ReplayLedger` implements `Transcript` |
| `DaemonProofs` | types and ordered histories of `Daemon` |
| `DaemonCareful` | the safety properties of `Daemon` that depend on its clients |
| `WorkerProofs` | all properties of `Worker` |
| `MissionProofs` | all safety properties of `Mission` and `SubAgents` |
| `PtyServerProofs` | all safety properties of `PtyServer` |

### From the code to the model

**Ledger.** A ledger is its turn records and the `selected` marker. Each method
takes the mutex once, so each is one operator and one atomic step. Methods that
fail leave the ledger alone; their condition is `HasTurn` or `CanApply`, which
callers use as a guard. Indices are 0-based as in the code. A turn is a number,
in the order in which turns are started, and an event is the number of the turn
that produced it (0 for an event without a wire form). Timestamps are left out.

**Daemon.** One action is one critical section. The state is the code's:

| variable | code |
|---|---|
| `heap`, `ledgers` | the ledger objects behind `Arc`, and `DaemonState.ledgers`, which maps a session to one. Drains keep the object they started with, also after `fork` put another one under the id |
| `sessions` | `DaemonState.sessions`, session to live run |
| `snapshots` | `DaemonState.snapshots`, the log of environment snapshots |
| `runs` | the `SessionState` each `run` made: its ledger, its index, how many events were streamed (`mirror`), the cancel flag |
| `drains` | the tasks started by `spawn_stream`, with a program counter |
| `rewinds` | the `rewind` a client is in the middle of |
| `store` | the `checkpoints` table |
| `dropped` | a history variable: the turns taken out of a session |

`run` is two steps, since it records the turn in the ledger
(`RunRecord`) before it registers the session and spawns the drain
(`RunStart`). `rewind` is three: it checks that the session is not live,
restores the environment, and truncates. A drain
(`state/streams.rs:26-90`) records an event (`StreamItem`, `HiddenItem`), and
at the end of its stream either leaves the turn suspended or settles it, logs
a snapshot, takes the sink's lock and a checkpoint, writes it, reports
`TraceFinished`, and only then unregisters the session (`DrainSettle` to
`DrainRemove`). `Restart` loses everything in memory at any point and seeds the
ledgers from the store as `bootstrap.rs` does.

Merged steps: looking a ledger up and recording into it; registering a session
and spawning its drain (the spawned task is not visible to anybody before its
first step); recording an event and mirroring it to the client, which one task
does one after the other and no other task depends on. Left out: workspaces,
timestamps, the reading side (`snapshot`, `replay`), errors of the store at
start-up, and the harness's own state.

**Harnesses.** The daemon sees a harness as a stream of events that may end
after Done or Error, or silently if `SilentEnd`, and that may carry several
terminal events, of which the last counts. What else it may do is the constant
`Harness`, so that runs and theorems say what they depend on:

- `"ask"`: the turn asks the user or proposes a command, and its generator
  returns there, cancelled or not (a cancellation may come between the check at
  `mission.rs:506` and the yield at 564);
- `"late"`: events come behind the question. The merge of a turn's events with
  those of its sub-agents ends with the generator and then drains what the
  sub-agents sent (`subagent_run/events.rs:27-58`), so the drain that asked may
  still record events when the resumed one has settled the turn;
- `"usage"`: an Error stands before or behind the question, because a token count
  that cannot be stored becomes one and the stream goes on
  (`harness/mod.rs:286`).

The command line's stream breaks at its end
(`goble-harness-cli/src/lib.rs:179`) and has none of the three. The internal
harness has all of them, the last when a write to its database fails.

**Clients.** The daemon does not order its clients, so the model does not
either: what they do is the constant `Client`. The empty set is the careful
client, which makes one call at a time per session and starts a turn when the
last one is finished and gone from `snapshot()`. Each habit in the set allows
one more thing the interface permits: `"rerun"`, `"answer"`, `"concurrent"`,
`"onFinished"`, `"editLive"` (explained in `Daemon.tla`). `Calls` is the set of
calls, besides run and resume, the client makes in a run. Types
and order of the histories hold for all clients and are proved for every one;
properties that need a careful client are checked and proved with it, and what a
less careful one breaks is a violation run with a finding.

**Mission.** One action is the code between two points where another task can
run or the generator yields. The generator is polled by the merge
(`with_subagent_lifecycle`), so after an event that ends or suspends a turn
(`out`) it stands still until `TakeEvent`; other events are left out. `gen.pc`
names the place: `InsertPrompt`, `AnswerAsk` and `ResolveCommand` are the three
ways into the loop, `ReasonStep` and `ExecuteTop` its two phases, `StreamReply`
the answer and what follows from it, `StartCall`, `Propose`, `ExecuteTool` and
`SpawnSubagent` the batch of calls. Every write to the store may fail and every
model call may fail, and each failure takes the way it takes in the code, which
is not always the same one: most end the turn, one of resolving a question or a
proposal leaves it pending, and a token count that cannot be recorded
(`recorded_usage`, which wraps the streams of all three calls) turns into an
Error the turn goes on after. That Error is `"Uncounted"` in `ends`, to tell it
from the generator's own; `OwnCountFails` is a count of the generator's model
calls and `TakeCount` one a sub-agent sent. Of the store the model keeps what later requests
depend on: the records of the last message's calls, which have a tool row, and
what is pending. Messages, prompts, plans and the tools' effects are data and
left out.

**SubAgents.** `children` is the registry's copy of each record, `tasks` the
child's own copy and its place in `run_child_task`. A change under the
registry's lock and the event it causes are two steps, because the code sends
events after it unlocks. `HarnessCancel` is the bit and then the walk. `Walk`,
whom the recursive `cancel_entry` reaches, is the least set that holds the child
and is closed under live children of live members. A child
spawns a child through the same `CanSpawn`, `Register` and `AnnounceSpawn` as the
main loop. The spend of a child is the number of its model calls, and `queued` are the
counts that wait in a turn's channel. `attach_event_sink` takes two locks one
after the other and is one step: whoever reads the sender in between might as
well have read it before. A loop
that unwinds in a model call or a tool ends as `Failed`, like one that is told of
an error.

**PtyServer.** One action is one critical section of the state's mutex, except
for `attach`, which fills a queue while it holds the mutex: its steps interleave
with the queue's writer. The n-th byte of a session is the number n, so a
misplaced byte is visible. `view` records what a client was sent: the offset it
expects, whether its replay found room (`fit`), whether everything since did
(`kept`), and the end it was told of. `response` messages take room in the queue
and carry nothing. `Request`s that change nothing here (input, signals, lists)
are one action, `Other`, which still answers. The server breaks off a
connection whose request is too large or cannot be decoded (`ReadFails`) as it
does one that ended (`ReadEof`). A connection's id is chosen at the start; that
`Hello` may change it later is left out. The bytes' decoding, pings, and
the start and stop of the daemon are left out; a killed session's id is not
reused.

**Worker.** The lease server (external) accepts a write made on the latest
version; instead of version numbers each elector has a bit that says whether
its copy is the latest. An attempt reads the clock, reads the lease, and writes
it, and both requests and both answers may fail. Only the first attempt of a
process decides whether it leads (`main.rs:171`); later results are ignored as
`start` ignores them. A worker without a service account (`Lone`) leads from
its start, without a lease, also in cluster mode (`main.rs:176-180`, which the
image of `deploy/goblin/Dockerfile` runs). The status a run leaves in the task
store is left out: nothing in a worker reads it, and the code ignores the
failures of writing it. Every replica has a volume of its own
(`deploy/goblin/charts/goblin-cluster/templates/statefulset.yaml`), so the store
is per worker and survives a crash, and a routine is known to one worker. The
loop reads the leader bit and the list at the top of a tick and works through
it while routines are edited. A cron routine's next time is computed from the
present, so it is never before the tick's own clock reading: only heartbeats
fire. Clocks are one clock.

## 3. What TLC checks

| run | instance | what it shows |
|---|---|---|
| `ledger` | 2 ledgers, 2 writers, 2 turns | contiguous indices (`IndexContiguous`), and every operation is a step of `Transcript` (`ImplementsTranscript`) |
| `rewind` | careful client, 1 session, 3 turns, 2 drains, questions with late events behind them | `LiveTurnRegistered`, `LiveTurnKeepsRecord`, `RestoresKeptTurn`, `HistoryOrdered`, `SettledIsFinal` while it rewinds and settles candidates |
| `fork` | careful client, 2 sessions, 2 turns, no questions, silent ends, events without a wire form, a restart | `HistoryAgreesWithWire`, `RestoresKeptTurn`, `FinishedIsDurable`, `HistoryOrdered` across forks |
| `overlap` | overlapping turns, questions with an error for a lost count behind them, cancellations, a failing store, fair tasks | `TypeOK`, `FinishedIsDurable` and, as liveness, `TerminalEventSettles` |
| `pty` | 1 session, 2 connections of one pane or of two, queues of 2, ring of 2, 3 bytes | exact bytes (`ByteExact`), no holes (`Gapless`), nothing withheld from who keeps up (`NothingWithheld`), one end (`EndIsLast`); as liveness `MutexIsReleased`, `DepartedIsForgotten` |
| `turn` | 2 turns (a run and a resumption), 1 sub-agent, batches of 2 calls, 2 steps of each phase, counts that are not recorded | `EndsOnce`, `NothingUnanswered`, `SpendReportedOnce`; as liveness `TurnEnds` |
| `subagents` | 1 turn, 2 sub-agents, the second spawned by the first, a kill | `OneOutcome`, `NeverLeftRunning`; as liveness `CancelStopsAll` |
| `worker` | 2 workers with an elector and 1 without, 1 heartbeat routine, 4 ticks, 2 overlapping runs, a crash | `OneRenewedLeader`, `HeldUntilExpiry`, `BeatsSpaced` |
| `ledger_apply` | violation | `AppliedWasSelected` |
| `eviction` | violation | `LiveTurnKeepsRecord` |
| `resurrect` | violation | `RewindSurvivesRestart` |
| `cancel` | violation | `CancelledTurnSettles` |

Every property of a passing run has a mutant in `PROJECT.json`: a plausible bug
in one operator that makes TLC report that property.

**Why the bounds are enough.** Overlap, eviction and lost updates need two
turns of one session and two drains. A stale snapshot needs a third turn, which
takes the index of one that was rewound. A fork needs a second session and a
third ledger object, so that an old object is still in use when a new one
replaces it. One event before the last one makes a record with two events, so
replaced, lost and misplaced events differ, and it is what a turn needs to
suspend and resume; two more may come behind the question (`MaxLate`), one
of them after the resumed stream's last, into a record that is settled already.
The run with late events has no restart, which `fork` has. One restart is
enough, since it forgets all but the store, and what a second could see the first leaves there; one failed write
distinguishes a store that is behind. Runs combine
these as far as the state space stays within minutes.

A ring of two bytes wraps on the third; reads of two bytes cross the wrap; a
queue of two is filled by an attach whose replay is cut. Two connections are
what sharing an id needs. A batch of two calls has one before and one after the
call that suspends or fails; a second turn is what resumes it and what a child
of the first can be charged to; two entries in `ends` are an Error for a count
and the end it stands before or behind. Two children are parent and child. The
code nests three deep (`subagent.rs:17`), and a batch may spawn siblings; the
run has two levels, and the theorems any depth and any tree. Two workers compete
for the lease while a third leads without it; four
ticks with a lease of one and an interval of two let it expire, be taken, and a
heartbeat fire twice with a crash in between.

The actions stop at the bounds, and a client may stop calling, so runs do not
check for deadlock: a daemon nobody calls is idle. Waiting for ever is what the
liveness properties are about.

**Fairness** of `Daemon` (`FairSpec`, used by `overlap` and `cancel`). Every drain keeps
taking steps: the tasks are spawned on a multi-threaded runtime, wait for
nothing but the sink's lock, and harness streams make progress, which for a
stream that a harness leaves open is an assumption about the harness. Calls
that were made are executed, since they do not wait. Nobody is obliged to make
a call. All of it is weak fairness; the lock needs no more in these runs,
because a drain persists once and never competes again.

Of `PtyServer`: the threads of a connection and the steps of an attach are run
by the operating system, and a thread that reads a closed socket sees its end.
Nothing is assumed of clients, which may never read, nor of terminals. Of
`Mission`: the runtime polls the generator, the merge, the children's own steps
and a call of `cancel`; the timer of a foreground wait fires; that
a call to the main agent's model or tool returns is an assumption about those.
Nothing is assumed of a child's model calls and tools, which may hang for ever, nor of the
user.

## 4. Findings

Each is a `violation` run; the quotes are in `PROJECT.json`.

1. **A stale candidate can be applied** (`ledger_apply`, `goble-replay/src/lib.rs:300`).
   `rewind_to` keeps `selected`; a turn recorded later at that index is applied
   although nobody selected it.
2. **A drain unregisters the next turn** (`eviction`, `state/streams.rs:89`).
   The session is removed by id after `TraceFinished` was emitted; a turn
   started on that event loses its registration, so it can be neither cancelled
   nor resumed, and a rewind takes its record away while it streams.
3. **A rewind does not survive a restart** (`resurrect`, `state/port.rs:197`).
   The store is written only when a turn settles.
4. **A suspended turn cannot be cancelled** (`cancel`, `state/streams.rs:53`).
   It has no stream left that could report the cancellation, so it stays
   registered as running, and a rewind of its session is refused.

Besides these, reading the code for the models showed places where a comment or
a document promises something the code does not do. No run is spent on them; the
models do what the code does, and the properties say what does hold:

- what is streamed and what is recorded can differ (against
  `state/streams.rs:31`): an event behind a question is on the wire, and not in
  the store if the resumed stream persisted the turn before it; after a rewind it
  lands in the record of the turn that took the index. A count that becomes an
  Error behind a question makes the drain that asked settle and unregister the
  turn under the resumed one, which later unregisters the next turn;
- spend noted when a turn's stream is gone, and its sender not yet replaced,
  counts as reported and is lost (`registry.rs:149`), although it should wait
  for the next turn (`registry.rs:22-26`); `SpendReportedOnce` is the other half,
  that nothing is charged twice;
- a kill stops "one child and everything it spawned" (`registry.rs:226`), but
  descends only from records it has just ended: a grandchild that runs on below
  a child that has ended survives it (`registry.rs:282`), and so does a child
  that is being spawned;
- an elector that cannot reach the API "reports itself as leader"
  (`leader.rs:63-64`); an unreachable API gives an error, and the worker does not
  lead (`main.rs:171`). When the answer to the first write is lost, the holder
  of the lease never leads (`leader.rs:192`);
- "only one pod should run" the scheduler
  (`docs/plans/goble-swarm-implementation-tracker.md:219`); a leader whose lease
  was taken goes on (`leader.rs:210`), and the new holder leads if it took the
  lease at its start; a worker without a service account always leads
  (`main.rs:176-180`). `OneRenewedLeader` says that of two elected leaders one
  has let its lease expire;
- `last_status` is the "outcome of the most recent run" (`task_store.rs:19`); a
  failure of `mark_run` is ignored (`scheduler.rs:170-185`), a run that unwinds
  or dies with its worker leaves "running", and the end of an older run hides
  that a newer one is running.

And limits the code says nothing about: cron routines never fire
(`scheduler.rs:152`); progress may be reported after the end of a killed child
(`registry.rs:217`); two concurrent decisions may both find a proposal pending
(`resume.rs:144`), and a decision takes the oldest pending one
(`store/missions.rs:233`); a process that dies between a tool's run and its row
leaves the call without an answer (`mission.rs:573`), which
`reasoning/history.rs:33-54` filters from later requests; two resizes at once
may be recorded in the other order (`server.rs:700`).

## 5. What TLAPS proves

All for every number of sessions, ledgers, drains, writers, turns, sub-agents,
connections, workers and routines, every duration, capacity and bound, and,
where the table does not say otherwise, every client.

| theorem | module | statement |
|---|---|---|
| `TypeCorrect` | `ReplayLedgerProofs` | `Spec => []TypeOK` |
| `IndicesContiguous` | `ReplayLedgerProofs` | `Spec => []IndexContiguous` |
| `Refinement` | `ReplayLedgerRefinement` | `Spec => ImplementsTranscript` |
| `DaemonTypeCorrect` | `DaemonProofs` | `Spec => []TypeOK` |
| `DaemonHistoryOrdered` | `DaemonProofs` | `Spec => []HistoryOrdered` |
| `DaemonFinishedDurable` | `DaemonCareful` | no `"editLive"`: `Spec => []FinishedIsDurable` |
| `DaemonLiveRegistered` | `DaemonCareful` | careful client, no `"usage"`: `Spec => []LiveTurnRegistered` |
| `DaemonLiveKeepsRecord` | `DaemonCareful` | careful client, no `"usage"`: `Spec => []LiveTurnKeepsRecord` |
| `DaemonSettledFinal` | `DaemonCareful` | careful client, no `"usage"`: `Spec => SettledIsFinal` |
| `DaemonHistoryAgrees` | `DaemonCareful` | careful client, at most `"ask"`: `Spec => []HistoryAgreesWithWire` |
| `DaemonRestoresKept` | `DaemonCareful` | careful client, no `"usage"`: `Spec => []RestoresKeptTurn` |
| `WorkerTypeCorrect` | `WorkerProofs` | `Spec => []TypeOK` |
| `OneLeader` | `WorkerProofs` | `Spec => []OneRenewedLeader` |
| `LeaseHeldUntilExpiry` | `WorkerProofs` | `Spec => HeldUntilExpiry` |
| `HeartbeatsSpaced` | `WorkerProofs` | `Spec => BeatsSpaced` |
| `MissionTypeCorrect` | `MissionProofs` | `Spec => []TypeOK` |
| `TurnsEndOnce` | `MissionProofs` | `Spec => []EndsOnce` |
| `CallsAreAnswered` | `MissionProofs` | `Spec => []NothingUnanswered` |
| `OutcomesAreFinal` | `MissionProofs` | `Spec => []OneOutcome` |
| `NoneLeftRunning` | `MissionProofs` | `Spec => []NeverLeftRunning` |
| `SpendIsReportedOnce` | `MissionProofs` | `Spec => []SpendReportedOnce` |
| `PtyTypeCorrect` | `PtyServerProofs` | `Spec => []TypeOK` |
| `OutputIsExact` | `PtyServerProofs` | `Spec => []ByteExact` |
| `NothingIsWithheld` | `PtyServerProofs` | `Spec => []NothingWithheld` |
| `OutputIsGapless` | `PtyServerProofs` | `Spec => Gapless` |
| `EndComesLast` | `PtyServerProofs` | `Spec => EndIsLast` |

**Assumptions.** `NoSelection`, `Idle` and `None` are not among the values they
stand in for the absence of, bounds are naturals, and `Outcomes`, `Client`,
`Calls` and `Harness` are subsets of what they list; a heartbeat's interval, a sub-agent's
budgets, the capacities of rings, chunks and queues are not zero. TLC evaluates
all of them in the runs. The theorems of `DaemonCareful` have hypotheses of their
own, about clients and harnesses. `Client = {}` is the careful client, and
`"editLive" \notin Client` admits overlapping turns, unasked answers, concurrent
calls and turns started on `TraceFinished`. The hypotheses are needed, and TLC
finds a counterexample to each theorem without them. A turn started on
`TraceFinished` loses its registration and then its record (finding 2), and a
fork onto an id in use puts another ledger under it than the one its drains
settle. With `"usage"` an Error behind a question makes the drain that asked
settle and unregister a turn that has been resumed, and one before a question
leaves a turn that waits for an answer settled: `LiveTurnRegistered`,
`LiveTurnKeepsRecord`, `RestoresKeptTurn` and `SettledIsFinal` all need that
there is no such error. With `"late"` the ledger and the wire part ways at a
restart, so `HistoryAgreesWithWire` is proved for harnesses that send nothing
behind a question. `DaemonFinishedDurable` needs neither.

**ReplayLedger.** `IndexContiguous` is not inductive: `Record` needs to know
that what is in the ledger and in the saved checkpoint are turn lists at all,
and the refinement that their turns are older than the next one. The invariant
`IInv` is `TypeOK` and that every turn list, in a ledger or in the checkpoint,
is `InOrder` up to `recorded`: index and position agree, turns ascend, and none
is newer than the last one recorded. `LedgerTheorems` shows that every operator
of `Ledger` keeps a list in order, since each appends the next turn, takes a
prefix, or changes a field that order does not depend on; the proof of an action
cites the lemma of its operator.

**Refinement.** The mapping forgets everything of a record but its turn.
`Record` is `Extend`, the truncating calls are `CutBack`, `ForkTo` is `Branch`,
`TakeCheckpoint` is `Keep` and `RestoreCheckpoint` is `PutBack`; appending,
settling, selecting and releasing do not change a history and are stuttering
steps. `IInv` gives the premise of `Extend`, that the new turn is newer than
every turn held anywhere.

**Daemon.** Here a checkpoint is taken in one step and written in another, and
after a restart it becomes a ledger. So the invariant covers every list at
once: those in the heap, in the store, and in the hands of a drain are ordered
up to `Len(runs)`, and `sessions` and `drains` refer to runs that exist, which
makes the ledger and index they use well defined. `runs` only grows, so lists
stay ordered when it does.

`DaemonCareful` goes on from there, with one invariant on top of the other.

- `OwnLedgers`: a session, its runs and its rewind use one ledger object, which
  no other session uses. A fork onto an unused id keeps it so.
- `DurableInv`, for `DaemonFinishedDurable`: a run something may still write to
  has its record in place or was dropped; a drain past settling finds its record
  settled; one drain at a time is between checkpoint and write, which is the
  sink's lock; and what has been saved is settled in the store, in the ledger,
  and in the checkpoint that is about to replace the stored one. The last part
  carries the argument: a checkpoint is taken under the lock, so it is never
  older than what is already stored.
- `RegisteredInv`, for `DaemonLiveRegistered`: one turn of a session is pending
  at a time, a live one is registered, at most one drain works for it (those
  that have asked and are delivering late events apart, which will settle
  nothing) and none while it waits for an answer, and a session being rewound
  has no pending turn.
- `RecordInv`, for `DaemonLiveKeepsRecord`: the record of a pending turn is at
  its index, and open until some drain settles it. With the parts above it is
  `LedgerInv`; `DaemonSettledFinal` follows from it by going through what each
  step may write: a late event is added behind what a record has, whosever record
  is at the index by then, and changes no outcome.
- `WireInv`, for `DaemonHistoryAgrees`: the ledger agrees with the wire, and so
  do the stored list and one on its way to the store, in which moreover every
  turn of the session is closed: nothing will be streamed to it any more. That
  is why what a restart brings back still agrees.
- `SnapshotInv`, for `DaemonRestoresKept`: the log's entry at the position of a
  turn is that turn's or empty, unless the turn is pending and its own is not
  logged yet, and a session being rewound has no such turn.

TLC checked these invariants on the instances of `rewind`, `fork` and `overlap`
before they were proved.

**Worker.** None of the properties is inductive alone. `ElectorsSound` says that
an elector about to write has judged the lease by a clock reading in the past,
and that as long as its copy is the latest, the lease is absent, its own, or
expired by that reading: a write of somebody else clears the bit, and a renewal
of its own ends the attempt. That gives `HeldUntilExpiry` for the only action
that changes the lease. `LeaderHolds` says that a leader by election holds the
lease with the time of its last renewal, or that renewal is older than the lease
lasts: whoever takes the lease finds it expired, by `ElectorsSound`, and what is
expired stays so. Two such leaders cannot both hold it, which is
`OneRenewedLeader`. `BeatsKnown` says that what the
loop believes to be a routine's last beat is not earlier than the real one; a
crash forgets it, and the first visit after a crash starts a whole interval,
because the code inserts the present and then compares.

**Mission and SubAgents.** The invariant has a part for the children and one for
the turns, and a step of either leaves the other's alone but for the spawn of a
child and the start and end of a turn. `AgentInv` speaks of one child at a time:
an ended record is in exactly one of three hands, those of a cancellation that
marked it and has not reported it, those of its task, which wrote its outcome
and has not reported it, or it has been reported, once and as it stands
(`OutcomeOK`). That is needed because both writers report after they have
released the lock. A task has an outcome exactly when it is over or on its way
there, and budget left until then (`TaskOK`), and what crossed a stream is at
most what the registry counts as reported, which gives the spend. `EndsInv` says
that, Errors for lost counts apart, turns before the current one have spoken
once, later ones not, and the current one exactly if its generator is gone or
has nothing left to say; such an Error may come anywhere in between and changes
nothing of it, and a mission is marked done only with Done said or about to be;
`CallsInv` says which calls of the last message were answered at each place of
the generator: all before the current one while the batch runs, all of them
where the model is about to be asked, all but the proposed one, which is the
last, while a decision is awaited. `NothingUnanswered` is about one run of a
conversation and its resumptions.

**PtyServer.** `RingInv`: the ring of a session that is not over ends at what the
terminal wrote and holds exact bytes, by lemmas about `Push` and `Chunks_from`,
of which the second says that the chunks follow one another from the requested
offset, or the oldest kept, to the end (`Joins`). `AttachInv`: what an attach has
still to queue joins what it has queued to the present; the mutex it holds keeps
the terminal from adding output meanwhile. `KillInv`: a session is killed once,
and whoever is still to be told has not heard of its end. `ViewInv` relates
what a client may expect to its subscription and to the terminal, for an open
session and for one that is over. `OwnIds` is needed besides: a subscription is
under the client id of its connection, since `detach` and `remove_client` go by
id and may serve the other connection of a pane. `Gapless` and `EndIsLast`
follow by going through what a step may append to a queue (`Due`, `Queued`).

**Only model-checked.** Liveness, which the prover does not support:
`TerminalEventSettles`, `TurnEnds`, `CancelStopsAll`, `MutexIsReleased` and
`DepartedIsForgotten`. Every safety property of a passing run is stated by a
theorem.

## 6. Plan

In this order:

1. Done: `Ledger`, `Transcript`, `ReplayLedger`, `Daemon`, `SubAgents`,
   `Mission`, `PtyServer`, `Worker`, their runs and the theorems above.
2. `TurnHandle`, the desktop service's wait for a turn
   (`goble-desktop-service/src/state/turns.rs`): subscription before or after
   the call, a lagging receiver, overlapping turns.
3. `CheckpointMigration`, opening a store of an older schema with a crash
   between any two statements (`goble-persistence/src/lib.rs:115-150`).
4. `CliHarness` and `WorkflowHost`: the shared child slot, and the journal.

## 7. Not modelled

The four parts of points 2 to 4 have hazards of their own, which are listed in
`PROJECT.json`. The rest is left out for the reasons given in the notes of
`components`: rendering, cryptography, HTTP, packaging, wire formats and
third-party code, which make up most of the repository's lines, have no
interleavings or state of their own that a model would tell more about than
their tests do. The user interface alone (`app/`, `goble-ui`) is about half
of the code and reaches the parts modelled here only through the calls of the
desktop service.

Within the modelled parts: workspaces and the blocking run of the daemon;
several prompts on one conversation, and a process that dies inside a turn, of
the mission loop; start and stop of the pty server; sockets, pairing, snapshots
and the agent runner of a worker.

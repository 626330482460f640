------------------------------- MODULE Worker -------------------------------
(***************************************************************************)
(* Goblin workers in cluster mode: election of a leader by a Kubernetes    *)
(* lease (goblin-worker/src/leader.rs) and the scheduler every worker runs *)
(* (scheduler.rs) over its own task store (task_store.rs): every replica   *)
(* has a volume of its own, which outlives its process, and a routine's id *)
(* is fresh, so a routine is known to the one worker that was given it.    *)
(* A worker that finds no service account has no elector and leads at      *)
(* once.  last_status is left out: mark_run writes it for the desktop's    *)
(* panel, its failures are ignored, and nothing in a worker reads it.      *)
(*                                                                         *)
(* The lease server is external: a write names the version it read, and is *)
(* refused when the lease was written since; requests and answers may be   *)
(* lost.  Instead of version numbers, every elector that has read the      *)
(* lease has a bit telling whether its copy is still the latest.  Time is  *)
(* one clock, shared and bounded.                                          *)
(***************************************************************************)
EXTENDS Naturals, FiniteSets

CONSTANTS
    Workers, Tasks, None,
    Owners,      \* the workers that are given routines
    Lone,        \* the workers without a service account
    Duration,    \* lease_duration_seconds
    Interval,    \* interval_seconds of the heartbeat routines
    Kinds,       \* the triggers of the routines
    MaxTime, MaxRuns, MaxCrashes

ASSUME WorkerAssumption ==
    /\ None \notin Workers /\ Owners \subseteq Workers /\ Lone \subseteq Workers
    /\ Duration \in Nat /\ Interval \in Nat \ {0}
    /\ Kinds \subseteq {"manual", "http", "cron", "heartbeat"}
    /\ MaxTime \in Nat /\ MaxRuns \in Nat /\ MaxCrashes \in Nat

VARIABLES
    now,        \* the clock
    lease,      \* the lease on the server
    electors,   \* KubeLeaderElector::acquire_or_renew of each worker
    leader,     \* LeaderState::is_leader of each worker
    store,      \* TaskStore of each worker
    loops,      \* Scheduler::start_loop of each worker
    runs,       \* agent runs in progress, by worker and routine
    fired,      \* when each routine was last started (history)
    renewed,    \* when each worker's last accepted lease is from (history)
    crashes

vars == << now, lease, electors, leader, store, loops, runs, fired, renewed,
           crashes >>

Time == 0 .. MaxTime

Lease == [holder : Workers, renew : Nat]

ASSUME NoLeaseAssumption == None \notin Lease

ASSUME NoTimeAssumption == None \notin Time

Elector == [pc     : {"down", "get", "write", "idle"},
            boot   : BOOLEAN,
            at     : Time,
            latest : BOOLEAN]

ScheduledTask == [kind : Kinds, enabled : BOOLEAN]

Loop == [pc   : {"off", "sleep", "tick"},
         todo : SUBSET Tasks,
         last : [Tasks -> Time \cup {None}]]

TypeOK ==
    /\ now \in Time
    /\ lease \in Lease \cup {None}
    /\ lease # None => lease.renew <= now
    /\ electors \in [Workers -> Elector]
    /\ leader \in [Workers -> BOOLEAN]
    /\ store \in [Workers -> [Tasks -> ScheduledTask \cup {None}]]
    /\ loops \in [Workers -> Loop]
    /\ runs \in [Workers -> [Tasks -> 0 .. MaxRuns]]
    /\ fired \in [Workers -> [Tasks -> Time \cup {None}]]
    /\ renewed \in [Workers -> Time \cup {None}]
    /\ crashes \in 0 .. MaxCrashes

Down == [pc |-> "down", boot |-> TRUE, at |-> 0, latest |-> FALSE]
Never == [t \in Tasks |-> None]
NoLoop == [pc |-> "off", todo |-> {}, last |-> Never]
NoRuns == [t \in Tasks |-> 0]

Init ==
    /\ now = 0
    /\ lease = None
    /\ electors = [w \in Workers |-> Down]
    /\ leader = [w \in Workers |-> FALSE]
    /\ store = [w \in Workers |-> Never]
    /\ loops = [w \in Workers |-> NoLoop]
    /\ runs = [w \in Workers |-> NoRuns]
    /\ fired = [w \in Workers |-> Never]
    /\ renewed = [w \in Workers |-> None]
    /\ crashes = 0

electionVars == << lease, electors, leader, renewed >>
schedulerVars == << store, loops, runs, fired >>

-----------------------------------------------------------------------------
(* The election.  acquire_or_renew reads the clock first.                  *)
Acquire(w) ==
    /\ w \notin Lone
    /\ electors[w].pc \in {"down", "idle"}
    /\ electors' = [electors EXCEPT ![w] =
           [@ EXCEPT !.pc = "get", !.boot = (electors[w].pc = "down"), !.at = now]]
    /\ UNCHANGED << now, lease, leader, renewed, schedulerVars, crashes >>

(* What main makes of the first attempt; start() ignores all later ones.   *)
(* When the first is over the scheduler's loop starts.                     *)
LeadsUnlessError(w, result) == electors[w].boot /\ result # "error"
Leads(w, result) == electors[w].boot /\ result = "held"

BootedLeader(w, result) ==
    /\ leader' = [leader EXCEPT ![w] = @ \/ Leads(w, result)]
    /\ loops' = [loops EXCEPT ![w].pc = IF electors[w].boot THEN "sleep" ELSE @]

Resting == [pc |-> "idle", boot |-> FALSE, at |-> 0, latest |-> FALSE]

(* A worker that has nobody to ask leads from its start.                   *)
BootAlone(w) ==
    /\ w \in Lone /\ electors[w].pc = "down"
    /\ electors' = [electors EXCEPT ![w] = Resting]
    /\ leader' = [leader EXCEPT ![w] = TRUE]
    /\ loops' = [loops EXCEPT ![w].pc = "sleep"]
    /\ UNCHANGED << now, lease, renewed, store, runs, fired, crashes >>

Done(E, w) == [E EXCEPT ![w] = Resting]

Expired(l, at) == l.renew + Duration < at

(* The GET fails, finds no lease, one to renew or take over, or another's. *)
Get(w) ==
    LET free == IF lease = None THEN TRUE
                ELSE lease.holder = w \/ Expired(lease, electors[w].at)
    IN
    /\ electors[w].pc = "get"
    /\ \/ /\ electors' = Done(electors, w)
          /\ BootedLeader(w, "error")
       \/ /\ ~free
          /\ electors' = Done(electors, w)
          /\ BootedLeader(w, "other")
       \/ /\ free
          /\ electors' = [electors EXCEPT ![w].pc = "write", ![w].latest = TRUE]
          /\ UNCHANGED << leader, loops >>
    /\ UNCHANGED << now, lease, renewed, store, runs, fired, crashes >>

(* The lease this attempt writes.                                          *)
RenewedAhead(w) == [holder |-> w, renew |-> electors[w].at + Duration]
Renewed(w) == [holder |-> w, renew |-> electors[w].at]

(* The server takes a write made on the latest version.                    *)
AcceptedAlways(w) == TRUE
Accepted(w) == electors[w].latest

WriteLease(w) ==
    /\ electors[w].pc = "write"
    /\ \/ /\ Accepted(w)
          /\ lease' = Renewed(w)
          /\ renewed' = [renewed EXCEPT ![w] = electors[w].at]
          /\ electors' = Done([v \in Workers |-> [electors[v] EXCEPT !.latest = FALSE]], w)
          /\ BootedLeader(w, "held") \/ BootedLeader(w, "error")
       \/ /\ electors' = Done(electors, w)
          /\ BootedLeader(w, "error")
          /\ UNCHANGED << lease, renewed >>
    /\ UNCHANGED << now, store, runs, fired, crashes >>

-----------------------------------------------------------------------------
(* The routines of a worker that is up, edited over its socket.            *)
Schedule(w, t, kind) ==
    /\ loops[w].pc # "off"
    /\ store[w][t] = None /\ fired[w][t] = None
    /\ store' = [store EXCEPT ![w][t] = [kind |-> kind, enabled |-> TRUE]]
    /\ UNCHANGED << now, electionVars, loops, runs, fired, crashes >>

CancelTask(w, t) ==
    /\ loops[w].pc # "off" /\ store[w][t] # None
    /\ store' = [store EXCEPT ![w][t] = None]
    /\ UNCHANGED << now, electionVars, loops, runs, fired, crashes >>

PauseTask(w, t, enabled) ==
    /\ loops[w].pc # "off" /\ store[w][t] # None
    /\ store[w][t].enabled # enabled
    /\ store' = [store EXCEPT ![w][t].enabled = enabled]
    /\ UNCHANGED << now, electionVars, loops, runs, fired, crashes >>

-----------------------------------------------------------------------------
(* The scheduler's loop: the leader bit and the list are read at the top   *)
(* of a tick and used until its end, whatever becomes of the routines; if  *)
(* the list cannot be read the tick is over.                               *)
(* The next time of a cron expression lies after the tick's clock reading, *)
(* so only heartbeats are ever due.                                        *)
Listed(w) ==
    {t \in Tasks : IF store[w][t] = None THEN FALSE
                   ELSE leader[w] /\ store[w][t].enabled
                           /\ store[w][t].kind = "heartbeat"}

WakeUp(w) ==
    /\ loops[w].pc = "sleep"
    /\ \E list \in {Listed(w), {}} :
          loops' = [loops EXCEPT ![w].pc = "tick", ![w].todo = list]
    /\ UNCHANGED << now, electionVars, store, runs, fired, crashes >>

(* The start of a heartbeat's interval, as the loop knows it.              *)
LastBeat(w, t) == IF loops[w].last[t] = None THEN now ELSE loops[w].last[t]

Due(w, t) == now - LastBeat(w, t) >= Interval

Beaten(w, t, beat) ==
    loops' = [loops EXCEPT ![w].todo = @ \ {t}, ![w].last[t] = beat]

StartRun(w, t) ==
    /\ runs[w][t] < MaxRuns
    /\ runs' = [runs EXCEPT ![w][t] = @ + 1]
    /\ fired' = [fired EXCEPT ![w][t] = now]

VisitKeepsBeat(w, t) ==
    /\ t \in loops[w].todo
    /\ \/ ~Due(w, t) /\ Beaten(w, t, LastBeat(w, t)) /\ UNCHANGED << runs, fired >>
       \/ Due(w, t) /\ Beaten(w, t, LastBeat(w, t)) /\ StartRun(w, t)
    /\ UNCHANGED << now, electionVars, store, crashes >>
Visit(w, t) ==
    /\ t \in loops[w].todo
    /\ \/ ~Due(w, t) /\ Beaten(w, t, LastBeat(w, t)) /\ UNCHANGED << runs, fired >>
       \/ Due(w, t) /\ Beaten(w, t, now) /\ StartRun(w, t)
    /\ UNCHANGED << now, electionVars, store, crashes >>

EndTick(w) ==
    /\ loops[w].pc = "tick" /\ loops[w].todo = {}
    /\ loops' = [loops EXCEPT ![w].pc = "sleep"]
    /\ UNCHANGED << now, electionVars, store, runs, fired, crashes >>

(* A run ends, well or not.                                                *)
FinishRun(w, t) ==
    /\ runs[w][t] > 0
    /\ runs' = [runs EXCEPT ![w][t] = @ - 1]
    /\ UNCHANGED << now, electionVars, store, loops, fired, crashes >>

(* The process dies, with its runs.                                        *)
Crash(w) ==
    /\ crashes < MaxCrashes
    /\ electors[w].pc # "down"
    /\ crashes' = crashes + 1
    /\ electors' = [electors EXCEPT ![w] = Down]
    /\ leader' = [leader EXCEPT ![w] = FALSE]
    /\ loops' = [loops EXCEPT ![w] = NoLoop]
    /\ runs' = [runs EXCEPT ![w] = NoRuns]
    /\ UNCHANGED << now, lease, renewed, store, fired >>

Tick ==
    /\ now < MaxTime
    /\ now' = now + 1
    /\ UNCHANGED << electionVars, schedulerVars, crashes >>

Next ==
    \/ Tick
    \/ \E w \in Workers : BootAlone(w) \/ Acquire(w) \/ Get(w) \/ WriteLease(w)
                            \/ WakeUp(w) \/ EndTick(w) \/ Crash(w)
    \/ \E w \in Owners, t \in Tasks :
           \/ Visit(w, t) \/ FinishRun(w, t) \/ CancelTask(w, t)
           \/ \E kind \in Kinds : Schedule(w, t, kind)
           \/ \E enabled \in BOOLEAN : PauseTask(w, t, enabled)

Spec == Init /\ [][Next]_vars

-----------------------------------------------------------------------------
(* The lease changes hands only when it has expired, although a worker     *)
(* writes it some time after reading it: "holder or expired" is judged on  *)
(* the version the write replaces (leader.rs:161-167).                     *)
HeldUntilExpiry ==
    [][lease # None /\ lease'.holder # lease.holder => Expired(lease, now)]_vars

(* Of two workers that lead by election at the same time, one has not      *)
(* renewed its lease for longer than the lease lasts: no crash, restart,   *)
(* lost answer or late write makes two leaders that both hold a lease they *)
(* may believe in (main.rs:171-173, leader.rs:155-167).  A leader that has *)
(* lost its lease goes on leading, and so does a worker that never asked   *)
(* for one (main.rs:174-180).                                              *)
Overdue(w) == renewed[w] # None /\ renewed[w] + Duration < now

OneRenewedLeader ==
    \A v, w \in Workers \ Lone :
        v # w /\ leader[v] /\ leader[w] => Overdue(v) \/ Overdue(w)

(* A heartbeat routine is not started twice within its interval: not after *)
(* a crash, which loses the times of the last beats, nor when it is paused *)
(* and resumed while a tick is under way (scheduler.rs:157-168).           *)
BeatsSpaced ==
    [][\A w \in Workers, t \in Tasks :
        runs'[w][t] > runs[w][t] /\ fired[w][t] # None
            => now >= fired[w][t] + Interval]_vars
=============================================================================

---------------------------- MODULE WorkerProofs ----------------------------
(***************************************************************************)
(* The election and the heartbeats of Worker, for any number of workers    *)
(* and routines, any durations and bounds.                                 *)
(***************************************************************************)
EXTENDS Worker, TLAPS

(* An elector judges the lease by a time that has passed, and while its    *)
(* copy is the latest the lease is free, its own, or expired.              *)
ElectorsSound ==
    \A w \in Workers :
        /\ electors[w].at <= now
        /\ electors[w].pc = "write" /\ electors[w].latest /\ lease # None
               => lease.holder = w \/ Expired(lease, electors[w].at)

(* An elected leader holds the lease it last renewed, or has not renewed   *)
(* it for longer than it lasts.                                            *)
LeaderHolds ==
    \A w \in Workers \ Lone : leader[w] =>
        /\ renewed[w] # None
        /\ \/ lease # None /\ lease.holder = w /\ lease.renew = renewed[w]
           \/ Overdue(w)

(* A loop does not believe a routine's last beat to be earlier than it was.*)
BeatsKnown ==
    \A w \in Workers, t \in Tasks : fired[w][t] # None =>
        /\ fired[w][t] <= now
        /\ loops[w].last[t] # None => loops[w].last[t] >= fired[w][t]

-----------------------------------------------------------------------------
(* The assumptions on the constants, in the form the steps use.            *)
LEMMA Assumptions ==
    /\ None \notin Workers /\ Owners \subseteq Workers /\ Lone \subseteq Workers
    /\ Duration \in Nat /\ Interval \in Nat \ {0}
    /\ MaxTime \in Nat /\ MaxRuns \in Nat /\ MaxCrashes \in Nat
BY WorkerAssumption

(* A worker that is down, and one that rests, have an elector's type.      *)
LEMMA DownType == Down \in Elector /\ Resting \in Elector
<1>1. 0 \in Time
  BY Assumptions DEF Time
<1>2. QED
  BY <1>1 DEF Down, Resting, Elector

(* The end of an attempt leaves electors.                                  *)
LEMMA DoneType ==
    ASSUME NEW E \in [Workers -> Elector], NEW w \in Workers
    PROVE  Done(E, w) \in [Workers -> Elector]
BY DownType DEF Done

(* What main makes of an attempt keeps the leader bits and the loops.      *)
LEMMA BootedLeaderType ==
    ASSUME TypeOK, NEW w \in Workers, NEW result, BootedLeader(w, result)
    PROVE  /\ leader' \in [Workers -> BOOLEAN]
           /\ loops' \in [Workers -> Loop]
<1>1. (leader[w] \/ Leads(w, result)) \in BOOLEAN
  OBVIOUS
<1>2. leader' \in [Workers -> BOOLEAN]
  BY <1>1 DEF BootedLeader, TypeOK
<1>3. loops[w] \in Loop
  BY DEF TypeOK
<1>4. [loops[w] EXCEPT !.pc = IF electors[w].boot THEN "sleep" ELSE @] \in Loop
  BY <1>3 DEF Loop
<1>5. QED
  BY <1>2, <1>4 DEF BootedLeader, TypeOK

(* Every step keeps the types.  That no lease is renewed ahead of time     *)
(* needs the electors' clock readings to be in the past.                   *)
LEMMA TypeStep ==
    ASSUME TypeOK, ElectorsSound, [Next]_vars
    PROVE  TypeOK'
<1> USE Assumptions
<1>1. ASSUME Tick PROVE TypeOK'
  BY <1>1 DEF Tick, electionVars, schedulerVars, TypeOK, Time, Lease
<1>2. ASSUME NEW w \in Workers, Acquire(w) PROVE TypeOK'
  <2>1. electors[w] \in Elector /\ now \in Time
    BY DEF TypeOK
  <2>2. (electors[w].pc = "down") \in BOOLEAN
    OBVIOUS
  <2>3. [electors[w] EXCEPT !.pc = "get", !.boot = (electors[w].pc = "down"),
                            !.at = now] \in Elector
    BY <2>1, <2>2 DEF Elector
  <2>4. electors' \in [Workers -> Elector]
    BY <1>2, <2>3 DEF Acquire, TypeOK
  <2>5. QED
    BY <1>2, <2>4 DEF Acquire, schedulerVars, TypeOK
<1>3. ASSUME NEW w \in Workers, Get(w) PROVE TypeOK'
  <2>1. Done(electors, w) \in [Workers -> Elector]
    BY DoneType DEF TypeOK
  <2>2. [electors[w] EXCEPT !.pc = "write", !.latest = TRUE] \in Elector
    <3>1. electors[w] \in Elector
      BY DEF TypeOK
    <3>2. QED
      BY <3>1 DEF Elector
  <2>3. [electors EXCEPT ![w].pc = "write", ![w].latest = TRUE] \in [Workers -> Elector]
    BY <2>2 DEF TypeOK
  <2>4. electors' \in [Workers -> Elector]
    BY <1>3, <2>1, <2>3 DEF Get
  <2>5. leader' \in [Workers -> BOOLEAN] /\ loops' \in [Workers -> Loop]
    BY <1>3, BootedLeaderType DEF Get, TypeOK
  <2>6. QED
    BY <1>3, <2>4, <2>5 DEF Get, TypeOK
<1>4. ASSUME NEW w \in Workers, WriteLease(w) PROVE TypeOK'
  <2>1. [v \in Workers |-> [electors[v] EXCEPT !.latest = FALSE]] \in [Workers -> Elector]
    BY DEF TypeOK, Elector
  <2>2. electors' \in [Workers -> Elector]
    <3>1. \/ electors' = Done([v \in Workers |-> [electors[v] EXCEPT !.latest = FALSE]], w)
          \/ electors' = Done(electors, w)
      BY <1>4 DEF WriteLease
    <3>2. electors \in [Workers -> Elector]
      BY DEF TypeOK
    <3>3. QED
      BY <2>1, <3>1, <3>2, DoneType
  <2>3. leader' \in [Workers -> BOOLEAN] /\ loops' \in [Workers -> Loop]
    BY <1>4, BootedLeaderType DEF WriteLease
  <2>4. lease' \in Lease \cup {None}
    BY <1>4 DEF WriteLease, Renewed, TypeOK, Lease, Elector, Time
  <2>5. renewed' \in [Workers -> Time \cup {None}]
    BY <1>4 DEF WriteLease, TypeOK, Elector
  <2>6. lease' # None => lease'.renew <= now'
    BY <1>4 DEF WriteLease, Renewed, TypeOK, ElectorsSound
  <2>7. UNCHANGED << now, store, runs, fired, crashes >>
    BY <1>4 DEF WriteLease
  <2>8. QED
    BY <2>2, <2>3, <2>4, <2>5, <2>6, <2>7 DEF TypeOK
<1>5. ASSUME NEW w \in Workers, WakeUp(w) PROVE TypeOK'
  <2>1. PICK list \in SUBSET Tasks :
           loops' = [loops EXCEPT ![w].pc = "tick", ![w].todo = list]
    BY <1>5 DEF WakeUp, Listed
  <2>2. loops[w] \in Loop
    BY DEF TypeOK
  <2>3. [loops[w] EXCEPT !.pc = "tick", !.todo = list] \in Loop
    BY <2>2 DEF Loop
  <2>4. loops' = [loops EXCEPT ![w] = [loops[w] EXCEPT !.pc = "tick", !.todo = list]]
    BY <2>1 DEF TypeOK
  <2>5. loops' \in [Workers -> Loop]
    BY <2>3, <2>4 DEF TypeOK
  <2>6. QED
    BY <1>5, <2>5 DEF WakeUp, electionVars, TypeOK
<1>6. ASSUME NEW w \in Workers, EndTick(w) PROVE TypeOK'
  <2>1. [loops[w] EXCEPT !.pc = "sleep"] \in Loop
    <3>1. loops[w] \in Loop
      BY DEF TypeOK
    <3>2. QED
      BY <3>1 DEF Loop
  <2>2. QED
    BY <1>6, <2>1 DEF EndTick, electionVars, TypeOK
<1>7. ASSUME NEW w \in Workers, Crash(w) PROVE TypeOK'
  <2>1. NoLoop \in Loop /\ NoRuns \in [Tasks -> 0 .. MaxRuns]
    BY DEF NoLoop, Loop, Never, NoRuns
  <2>2. QED
    BY <1>7, <2>1, DownType DEF Crash, TypeOK
<1>8. ASSUME NEW w \in Owners, NEW t \in Tasks, Visit(w, t) PROVE TypeOK'
  <2>1. w \in Workers /\ loops[w] \in Loop /\ now \in Time
    BY DEF TypeOK
  <2>2. LastBeat(w, t) \in Time
    BY <2>1 DEF LastBeat, Loop
  <2>3. ASSUME NEW beat \in Time, Beaten(w, t, beat)
        PROVE  loops' \in [Workers -> Loop]
    <3>1. [loops[w] EXCEPT !.todo = @ \ {t}, !.last[t] = beat] \in Loop
      BY <2>1, <2>3 DEF Loop
    <3>2. QED
      BY <2>1, <2>3, <3>1 DEF Beaten, TypeOK
  <2>4. loops' \in [Workers -> Loop]
    BY <1>8, <2>1, <2>2, <2>3 DEF Visit
  <2>5. UNCHANGED store
    BY <1>8 DEF Visit
  <2>6. runs' \in [Workers -> [Tasks -> 0 .. MaxRuns]]
    <3>1. CASE UNCHANGED runs
      BY <3>1 DEF TypeOK
    <3>2. CASE StartRun(w, t)
      <4>1. runs[w][t] + 1 \in 0 .. MaxRuns
        BY <2>1, <3>2 DEF StartRun, TypeOK
      <4>2. [runs[w] EXCEPT ![t] = runs[w][t] + 1] \in [Tasks -> 0 .. MaxRuns]
        BY <2>1, <4>1 DEF TypeOK
      <4>3. QED
        BY <2>1, <3>2, <4>2 DEF StartRun, TypeOK
    <3>3. QED
      BY <1>8, <3>1, <3>2 DEF Visit
  <2>7. fired' \in [Workers -> [Tasks -> Time \cup {None}]]
    <3>1. CASE UNCHANGED fired
      BY <3>1 DEF TypeOK
    <3>2. CASE StartRun(w, t)
      <4>1. [fired[w] EXCEPT ![t] = now] \in [Tasks -> Time \cup {None}]
        BY <2>1 DEF TypeOK
      <4>2. QED
        BY <2>1, <3>2, <4>1 DEF StartRun, TypeOK
    <3>3. QED
      BY <1>8, <3>1, <3>2 DEF Visit
  <2>8. QED
    BY <1>8, <2>4, <2>5, <2>6, <2>7 DEF Visit, electionVars, TypeOK
<1>9. ASSUME NEW w \in Owners, NEW t \in Tasks, FinishRun(w, t) PROVE TypeOK'
  <2>1. runs' \in [Workers -> [Tasks -> 0 .. MaxRuns]]
    BY <1>9 DEF FinishRun, TypeOK
  <2>2. QED
    BY <1>9, <2>1 DEF FinishRun, electionVars, TypeOK
<1>10. ASSUME NEW w \in Owners, NEW t \in Tasks, CancelTask(w, t) PROVE TypeOK'
  BY <1>10 DEF CancelTask, electionVars, TypeOK
<1>11. ASSUME NEW w \in Owners, NEW t \in Tasks,
                   NEW kind \in Kinds, Schedule(w, t, kind) PROVE TypeOK'
  BY <1>11 DEF Schedule, electionVars, TypeOK, ScheduledTask
<1>12. ASSUME NEW w \in Owners, NEW t \in Tasks,
                   NEW enabled \in BOOLEAN, PauseTask(w, t, enabled) PROVE TypeOK'
  <2>1. w \in Workers /\ store[w][t] \in ScheduledTask
    BY <1>12 DEF PauseTask, TypeOK
  <2>2. [store[w][t] EXCEPT !.enabled = enabled] \in ScheduledTask
    BY <2>1 DEF ScheduledTask
  <2>3. [store[w] EXCEPT ![t] = [store[w][t] EXCEPT !.enabled = enabled]]
            \in [Tasks -> ScheduledTask \cup {None}]
    BY <2>1, <2>2 DEF TypeOK
  <2>4. store' = [store EXCEPT ![w] =
            [store[w] EXCEPT ![t] = [store[w][t] EXCEPT !.enabled = enabled]]]
    BY <1>12 DEF PauseTask
  <2>5. QED
    BY <1>12, <2>1, <2>3, <2>4 DEF PauseTask, electionVars, TypeOK
<1>13. ASSUME NEW w \in Workers, BootAlone(w) PROVE TypeOK'
  <2>1. loops[w] \in Loop
    BY DEF TypeOK
  <2>2. [loops[w] EXCEPT !.pc = "sleep"] \in Loop
    BY <2>1 DEF Loop
  <2>3. loops' \in [Workers -> Loop]
    BY <1>13, <2>2 DEF BootAlone, TypeOK
  <2>4. electors' \in [Workers -> Elector] /\ leader' \in [Workers -> BOOLEAN]
    BY <1>13, DownType DEF BootAlone, TypeOK
  <2>5. QED
    BY <1>13, <2>3, <2>4 DEF BootAlone, TypeOK
<1>14. ASSUME UNCHANGED vars PROVE TypeOK'
  BY <1>14 DEF vars, TypeOK
<1>15. QED
  BY <1>1, <1>2, <1>3, <1>4, <1>5, <1>6, <1>7, <1>8, <1>9, <1>10, <1>11, <1>12, <1>13,
     <1>14 DEF Next

-----------------------------------------------------------------------------
(* The end of an attempt changes one elector.                              *)
LEMMA DoneValue ==
    ASSUME NEW E \in [Workers -> Elector], NEW w \in Workers, NEW v \in Workers
    PROVE  Done(E, w)[v] = IF v = w THEN Resting ELSE E[v]
BY DEF Done

(* Every step keeps the electors sound.  Only the election touches them.   *)
LEMMA ElectorsStep ==
    ASSUME TypeOK, ElectorsSound, [Next]_vars
    PROVE  ElectorsSound'
<1> DEFINE Sound(v, e, l, n) ==
        /\ e.at <= n
        /\ e.pc = "write" /\ e.latest /\ l # None => l.holder = v \/ Expired(l, e.at)
<1>1. ASSUME \A v \in Workers : Sound(v, electors'[v], lease', now')
      PROVE  ElectorsSound'
  BY <1>1 DEF ElectorsSound, Expired
<1>2. \A v \in Workers : Sound(v, electors[v], lease, now)
  BY DEF ElectorsSound
<1>3. now \in Nat /\ \A v \in Workers : electors[v] \in Elector /\ electors[v].at \in Nat
  BY Assumptions DEF TypeOK, Elector, Time
<1>4. CASE UNCHANGED electionVars /\ (UNCHANGED now \/ Tick)
  <2>1. electors' = electors /\ lease' = lease /\ now' \in Nat /\ now <= now'
    BY <1>3, <1>4 DEF electionVars, Tick
  <2>2. ASSUME NEW v \in Workers PROVE Sound(v, electors'[v], lease', now')
    BY <1>2, <1>3, <2>1
  <2>3. QED
    BY <1>1, <2>2
<1>5. ASSUME NEW w \in Workers, Acquire(w) PROVE ElectorsSound'
  <2>1. electors'[w].pc = "get" /\ electors'[w].at = now
    BY <1>3, <1>5 DEF Acquire, TypeOK, Elector
  <2>2. lease' = lease /\ now' = now /\ \A v \in Workers \ {w} : electors'[v] = electors[v]
    BY <1>5 DEF Acquire, TypeOK
  <2>3. ASSUME NEW v \in Workers PROVE Sound(v, electors'[v], lease', now')
    BY <1>2, <1>3, <2>1, <2>2
  <2>4. QED
    BY <1>1, <2>3
<1>6. ASSUME NEW w \in Workers, electors' = Done(electors, w), UNCHANGED << lease, now >>
      PROVE  ElectorsSound'
  <2>1. electors'[w].pc = "idle" /\ electors'[w].at = 0
    <3>1. electors \in [Workers -> Elector]
      BY DEF TypeOK
    <3>2. electors'[w] = Resting
      BY <1>6, <3>1, DoneValue
    <3>3. QED
      BY <3>2 DEF Resting
  <2>2. \A v \in Workers \ {w} : electors'[v] = electors[v]
    BY <1>6, DoneValue DEF TypeOK
  <2>3. ASSUME NEW v \in Workers PROVE Sound(v, electors'[v], lease', now')
    BY <1>2, <1>3, <1>6, <2>1, <2>2
  <2>4. QED
    BY <1>1, <2>3
<1>7. ASSUME NEW w \in Workers, BootAlone(w) PROVE ElectorsSound'
  <2>1. electors' = Done(electors, w) /\ UNCHANGED << lease, now >>
    BY <1>7 DEF BootAlone, Done
  <2>2. QED
    BY <1>6, <2>1
<1>8. ASSUME NEW w \in Workers, Get(w) PROVE ElectorsSound'
  <2>1. lease' = lease /\ now' = now
    BY <1>8 DEF Get
  <2>2. CASE electors' = Done(electors, w)
    BY <1>6, <2>1, <2>2
  <2>3. CASE /\ lease = None \/ lease.holder = w \/ Expired(lease, electors[w].at)
             /\ electors' = [electors EXCEPT ![w].pc = "write", ![w].latest = TRUE]
    <3>1. electors'[w].at = electors[w].at
      BY <1>3, <2>3 DEF TypeOK, Elector
    <3>2. \A v \in Workers \ {w} : electors'[v] = electors[v]
      BY <2>3 DEF TypeOK
    <3>3. ASSUME NEW v \in Workers PROVE Sound(v, electors'[v], lease', now')
      BY <1>2, <1>3, <2>1, <2>3, <3>1, <3>2
    <3>4. QED
      BY <1>1, <3>3
  <2>4. QED
    BY <1>8, <2>2, <2>3 DEF Get
<1>9. ASSUME NEW w \in Workers, WriteLease(w) PROVE ElectorsSound'
  <2> DEFINE E == [v \in Workers |-> [electors[v] EXCEPT !.latest = FALSE]]
  <2>1. now' = now
    BY <1>9 DEF WriteLease
  <2>2. CASE electors' = Done(electors, w) /\ UNCHANGED lease
    BY <1>6, <2>1, <2>2
  <2>3. CASE electors' = Done(E, w)
    <3>1. E \in [Workers -> Elector]
      BY <1>3 DEF Elector
    <3>2. ASSUME NEW v \in Workers
          PROVE  ~electors'[v].latest /\ electors'[v].at \in {0, electors[v].at}
      <4>1. E[v].latest = FALSE /\ E[v].at = electors[v].at
        BY <1>3 DEF Elector
      <4>2. electors'[v] = IF v = w THEN Resting ELSE E[v]
        BY <2>3, <3>1, DoneValue
      <4> HIDE DEF E
      <4>3. QED
        BY <4>1, <4>2 DEF Resting
    <3>3. ASSUME NEW v \in Workers PROVE Sound(v, electors'[v], lease', now')
      BY <1>2, <1>3, <2>1, <3>2
    <3>4. QED
      BY <1>1, <3>3
  <2>4. QED
    BY <1>9, <2>2, <2>3 DEF WriteLease
<1>10. ASSUME NEW w \in Workers, Crash(w) PROVE ElectorsSound'
  <2>1. electors'[w].pc = "down" /\ electors'[w].at = 0
    BY <1>10 DEF Crash, Down, TypeOK
  <2>2. lease' = lease /\ now' = now /\ \A v \in Workers \ {w} : electors'[v] = electors[v]
    BY <1>10 DEF Crash, TypeOK
  <2>3. ASSUME NEW v \in Workers PROVE Sound(v, electors'[v], lease', now')
    BY <1>2, <1>3, <2>1, <2>2
  <2>4. QED
    BY <1>1, <2>3
<1>11. QED
  BY <1>4, <1>5, <1>7, <1>8, <1>9, <1>10
  DEF Next, vars, Tick, WakeUp, EndTick, Visit, FinishRun, CancelTask, Schedule,
      PauseTask, electionVars

(* An elected leader keeps the lease it renewed until that is overdue.     *)
LEMMA LeaderStep ==
    ASSUME TypeOK, ElectorsSound, LeaderHolds, [Next]_vars
    PROVE  LeaderHolds'
<1> DEFINE Holds(v, l, r, n) ==
        /\ r # None
        /\ \/ l # None /\ l.holder = v /\ l.renew = r
           \/ r + Duration < n
<1>0. ASSUME \A v \in Workers \ Lone : leader'[v] => Holds(v, lease', renewed'[v], now')
      PROVE  LeaderHolds'
  BY <1>0 DEF LeaderHolds, Overdue
<1>1. \A v \in Workers \ Lone : leader[v] => Holds(v, lease, renewed[v], now)
  BY DEF LeaderHolds, Overdue
<1>2. /\ now \in Nat /\ Duration \in Nat
      /\ \A v \in Workers : renewed[v] \in Nat \cup {None} /\ electors[v].at \in Nat
  BY Assumptions DEF TypeOK, Time, Elector
<1>3. ASSUME UNCHANGED << lease, renewed, now >>, \A v \in Workers \ Lone : leader'[v] => leader[v]
      PROVE  LeaderHolds'
  BY <1>0, <1>1, <1>3
<1>4. ASSUME Tick PROVE LeaderHolds'
  <2>1. /\ lease' = lease /\ renewed' = renewed /\ leader' = leader
        /\ now' \in Nat /\ now <= now'
    BY <1>2, <1>4 DEF Tick, electionVars
  <2>2. ASSUME NEW v \in Workers \ Lone, leader'[v]
        PROVE  Holds(v, lease', renewed'[v], now')
    BY <1>1, <1>2, <2>1, <2>2
  <2>3. QED
    BY <1>0, <2>2
<1>5. ASSUME NEW w \in Workers, NEW result, BootedLeader(w, result), result # "held"
      PROVE  \A v \in Workers : leader'[v] => leader[v]
  BY <1>5 DEF BootedLeader, Leads, TypeOK
<1>6. ASSUME NEW w \in Workers, Get(w) PROVE LeaderHolds'
  <2>1. UNCHANGED << lease, renewed, now >>
    BY <1>6 DEF Get
  <2>2. \A v \in Workers : leader'[v] => leader[v]
    BY <1>5, <1>6 DEF Get
  <2>3. QED
    BY <1>3, <2>1, <2>2
<1>7. ASSUME NEW w \in Workers, WriteLease(w) PROVE LeaderHolds'
  <2>1. CASE BootedLeader(w, "error") /\ UNCHANGED << lease, renewed >>
    <3>1. \A v \in Workers : leader'[v] => leader[v]
      BY <1>5, <2>1
    <3>2. now' = now
      BY <1>7 DEF WriteLease
    <3>3. QED
      BY <1>3, <2>1, <3>1, <3>2
  <2>2. CASE /\ Accepted(w) /\ lease' = Renewed(w)
             /\ renewed' = [renewed EXCEPT ![w] = electors[w].at]
             /\ BootedLeader(w, "held") \/ BootedLeader(w, "error")
    <3>1. /\ lease' # None /\ lease'.holder = w /\ lease'.renew = electors[w].at
          /\ renewed'[w] = electors[w].at /\ electors[w].at # None
      <4>1. Renewed(w) \in Lease /\ Renewed(w).holder = w /\ Renewed(w).renew = electors[w].at
        BY <1>2 DEF Renewed, Lease
      <4>2. electors[w].at # None
        BY NoTimeAssumption DEF TypeOK, Elector
      <4>3. QED
        BY <2>2, <4>1, <4>2, NoLeaseAssumption DEF TypeOK
    <3>2. ASSUME NEW v \in Workers \ Lone, leader'[v]
          PROVE  Holds(v, lease', renewed'[v], now')
      <4>1. CASE v = w
        BY <3>1, <4>1
      <4>2. CASE v # w
        <5>1. leader[v] /\ renewed'[v] = renewed[v] /\ now' = now
          BY <1>7, <2>2, <3>2, <4>2 DEF BootedLeader, WriteLease, TypeOK
        <5>2. Holds(v, lease, renewed[v], now)
          BY <1>1, <5>1
        <5>3. lease # None /\ lease.holder = v => Expired(lease, electors[w].at)
          BY <1>7, <2>2, <4>2 DEF ElectorsSound, Accepted, WriteLease
        <5>4. electors[w].at <= now
          BY DEF ElectorsSound
        <5>5. renewed[v] \in Nat /\ renewed[v] + Duration < now
          BY <1>2, <5>2, <5>3, <5>4 DEF Expired
        <5>6. QED
          BY <5>1, <5>2, <5>5
      <4>3. QED
        BY <4>1, <4>2
    <3>3. QED
      BY <1>0, <3>2
  <2>3. QED
    BY <1>7, <2>1, <2>2 DEF WriteLease
<1>8. ASSUME NEW w \in Workers, Crash(w) \/ BootAlone(w) PROVE LeaderHolds'
  <2>1. UNCHANGED << lease, renewed, now >>
    BY <1>8 DEF Crash, BootAlone
  <2>2. \A v \in Workers \ Lone : leader'[v] => leader[v]
    BY <1>8 DEF Crash, BootAlone, TypeOK
  <2>3. QED
    BY <1>3, <2>1, <2>2
<1>9. CASE UNCHANGED << lease, renewed, leader, now >>
  BY <1>3, <1>9
<1>10. QED
  BY <1>4, <1>6, <1>7, <1>8, <1>9
  DEF Next, vars, Acquire, WakeUp, EndTick, Visit, FinishRun, CancelTask,
      Schedule, PauseTask, electionVars

(* A loop's idea of the last beat stays at or after the real one.          *)
LEMMA BeatsStep ==
    ASSUME TypeOK, BeatsKnown, [Next]_vars
    PROVE  BeatsKnown'
<1> DEFINE Known(f, l, n) == f # None => f <= n /\ (l # None => l >= f)
<1>1. ASSUME \A v \in Workers, u \in Tasks :
                 Known(fired'[v][u], loops'[v].last[u], now')
      PROVE  BeatsKnown'
  BY <1>1 DEF BeatsKnown
<1>2. \A v \in Workers, u \in Tasks : Known(fired[v][u], loops[v].last[u], now)
  BY DEF BeatsKnown
<1>3. /\ now \in Nat
      /\ \A v \in Workers, u \in Tasks :
             /\ fired[v][u] \in Nat \cup {None}
             /\ loops[v].last[u] \in Nat \cup {None}
  BY Assumptions DEF TypeOK, Loop, Time
<1>4. CASE /\ UNCHANGED << fired, now >>
           /\ \A v \in Workers, u \in Tasks :
                  loops'[v].last[u] = loops[v].last[u] \/ loops'[v].last[u] = None
  BY <1>1, <1>2, <1>4
<1>5. CASE Tick
  <2>1. /\ now' \in Nat /\ now <= now' /\ fired' = fired /\ loops' = loops
    BY <1>3, <1>5 DEF Tick, schedulerVars
  <2>2. ASSUME NEW v \in Workers, NEW u \in Tasks
        PROVE  Known(fired'[v][u], loops'[v].last[u], now')
    BY <1>2, <1>3, <2>1
  <2>3. QED
    BY <1>1, <2>2
<1>6. ASSUME NEW w \in Workers, NEW result, BootedLeader(w, result)
      PROVE  \A v \in Workers : loops'[v].last = loops[v].last
  BY <1>6 DEF BootedLeader, TypeOK, Loop
<1>7. ASSUME NEW w \in Workers, Get(w) \/ WriteLease(w) PROVE BeatsKnown'
  <2>1. UNCHANGED << fired, now >>
    BY <1>7 DEF Get, WriteLease
  <2>2. UNCHANGED loops \/ \E result : BootedLeader(w, result)
    BY <1>7 DEF Get, WriteLease
  <2>3. \A v \in Workers : loops'[v].last = loops[v].last
    BY <1>6, <2>2
  <2>4. QED
    BY <1>4, <2>1, <2>3
<1>8. ASSUME NEW w \in Workers, BootAlone(w) \/ WakeUp(w) \/ EndTick(w) \/ Crash(w)
      PROVE  BeatsKnown'
  <2>1. UNCHANGED << fired, now >>
    BY <1>8 DEF BootAlone, WakeUp, EndTick, Crash
  <2>2. \A v \in Workers \ {w} : loops'[v] = loops[v]
    BY <1>8 DEF BootAlone, WakeUp, EndTick, Crash, TypeOK
  <2>3. loops'[w].last = loops[w].last \/ loops'[w].last = Never
    BY <1>8 DEF BootAlone, WakeUp, EndTick, Crash, NoLoop, TypeOK, Loop
  <2>4. \A u \in Tasks : Never[u] = None
    BY DEF Never
  <2>5. QED
    BY <1>4, <2>1, <2>2, <2>3, <2>4
<1>9. ASSUME NEW w \in Owners, NEW t \in Tasks, Visit(w, t) PROVE BeatsKnown'
  <2>1. w \in Workers /\ now' = now
    BY <1>9, Assumptions DEF Visit
  <2>2. ASSUME NEW beat, Beaten(w, t, beat)
        PROVE  /\ loops'[w].last[t] = beat
               /\ \A v \in Workers, u \in Tasks : <<v, u>> # <<w, t>> =>
                      loops'[v].last[u] = loops[v].last[u]
    <3>1. loops \in [Workers -> Loop] /\ loops[w] \in Loop
      BY <2>1 DEF TypeOK
    <3>2. loops[w].last \in [Tasks -> Time \cup {None}]
      BY <3>1 DEF Loop
    <3>3. loops'[w].last = [loops[w].last EXCEPT ![t] = beat]
      BY <2>1, <2>2, <3>1 DEF Beaten, Loop
    <3>4. \A v \in Workers \ {w} : loops'[v] = loops[v]
      BY <2>2, <3>1 DEF Beaten
    <3>5. QED
      BY <3>2, <3>3, <3>4
  <2>3. CASE Beaten(w, t, LastBeat(w, t)) /\ UNCHANGED fired
    <3>1. loops'[w].last[t] = LastBeat(w, t)
      BY <2>2, <2>3
    <3>2. Known(fired'[w][t], loops'[w].last[t], now')
      BY <1>2, <1>3, <2>1, <2>3, <3>1 DEF LastBeat
    <3>3. ASSUME NEW v \in Workers, NEW u \in Tasks
          PROVE  Known(fired'[v][u], loops'[v].last[u], now')
      BY <1>2, <2>1, <2>2, <2>3, <3>2
    <3>4. QED
      BY <1>1, <3>3
  <2>4. CASE Beaten(w, t, now) /\ StartRun(w, t)
    <3>1. loops'[w].last[t] = now /\ fired'[w][t] = now
      BY <2>1, <2>2, <2>4 DEF StartRun, TypeOK
    <3>2. \A v \in Workers, u \in Tasks : <<v, u>> # <<w, t>> =>
              fired'[v][u] = fired[v][u]
      BY <2>1, <2>4 DEF StartRun, TypeOK
    <3>3. Known(fired'[w][t], loops'[w].last[t], now')
      BY <1>3, <2>1, <3>1
    <3>4. ASSUME NEW v \in Workers, NEW u \in Tasks
          PROVE  Known(fired'[v][u], loops'[v].last[u], now')
      BY <1>2, <2>1, <2>2, <2>4, <3>2, <3>3
    <3>5. QED
      BY <1>1, <3>4
  <2>5. QED
    BY <1>9, <2>3, <2>4 DEF Visit
<1>10. CASE UNCHANGED << fired, now, loops >>
  BY <1>4, <1>10
<1>11. QED
  BY <1>5, <1>7, <1>8, <1>9, <1>10
  DEF Next, vars, Acquire, FinishRun, CancelTask, Schedule, PauseTask, schedulerVars

-----------------------------------------------------------------------------
(* The inductive invariant.                                                *)
Inv == TypeOK /\ ElectorsSound /\ LeaderHolds /\ BeatsKnown

(* It holds at first.                                                      *)
LEMMA InvInit == Init => Inv
<1> SUFFICES ASSUME Init PROVE Inv
  OBVIOUS
<1>1. 0 \in Time /\ 0 \in 0 .. MaxRuns /\ 0 \in 0 .. MaxCrashes /\ FALSE \in BOOLEAN
  BY Assumptions DEF Time
<1>2. NoLoop \in Loop /\ NoRuns \in [Tasks -> 0 .. MaxRuns]
      /\ Never \in [Tasks -> ScheduledTask \cup {None}]
      /\ Never \in [Tasks -> Time \cup {None}]
  BY <1>1 DEF NoLoop, Loop, Never, NoRuns
<1>3. TypeOK
  BY <1>1, <1>2, DownType DEF Init, TypeOK
<1>4. ElectorsSound
  BY DEF Init, ElectorsSound, Down
<1>5. LeaderHolds
  BY DEF Init, LeaderHolds
<1>6. BeatsKnown
  BY DEF Init, BeatsKnown, Never
<1>7. QED
  BY <1>3, <1>4, <1>5, <1>6 DEF Inv

(* It holds throughout.                                                    *)
LEMMA Invariance == Spec => []Inv
<1>1. Inv /\ [Next]_vars => Inv'
  BY TypeStep, ElectorsStep, LeaderStep, BeatsStep DEF Inv
<1>2. QED
  BY InvInit, <1>1, PTL DEF Spec

(* Workers and routines keep their types, and the lease is never renewed   *)
(* ahead of time (leader.rs:135-150).                                      *)
THEOREM WorkerTypeCorrect == Spec => []TypeOK
<1>1. Inv => TypeOK
  BY DEF Inv
<1>2. QED
  BY Invariance, <1>1, PTL

(* However many workers start, crash, restart and lose requests, of two    *)
(* that lead by election one has not renewed its lease for longer than the *)
(* lease lasts (main.rs:171-173, leader.rs:155-167).                       *)
THEOREM OneLeader == Spec => []OneRenewedLeader
<1>1. ASSUME Inv PROVE OneRenewedLeader
  <2> SUFFICES ASSUME NEW v \in Workers \ Lone, NEW w \in Workers \ Lone, v # w,
                      leader[v], leader[w]
               PROVE  Overdue(v) \/ Overdue(w)
    BY DEF OneRenewedLeader
  <2>1. (lease # None /\ lease.holder = v) \/ Overdue(v)
    BY <1>1 DEF Inv, LeaderHolds
  <2>2. (lease # None /\ lease.holder = w) \/ Overdue(w)
    BY <1>1 DEF Inv, LeaderHolds
  <2>3. QED
    BY <2>1, <2>2
<1>2. QED
  BY Invariance, <1>1, PTL

(* The lease changes hands only when it has expired, whatever requests and *)
(* answers are lost and however late a write follows its read              *)
(* (leader.rs:161-167).                                                    *)
THEOREM LeaseHeldUntilExpiry == Spec => HeldUntilExpiry
<1> DEFINE Kept == lease # None /\ lease'.holder # lease.holder => Expired(lease, now)
<1>1. ASSUME Inv, [Next]_vars PROVE [Kept]_vars
  <2>1. CASE UNCHANGED lease
    BY <2>1
  <2>2. ASSUME NEW w \in Workers, WriteLease(w) PROVE Kept
    <3>1. SUFFICES ASSUME lease # None, lease'.holder # lease.holder
                   PROVE  Expired(lease, now)
      OBVIOUS
    <3>2. lease' = Renewed(w) /\ Accepted(w) /\ electors[w].pc = "write"
      BY <2>2, <3>1 DEF WriteLease
    <3>3. lease.holder # w
      BY <3>1, <3>2 DEF Renewed
    <3>4. Expired(lease, electors[w].at) /\ electors[w].at <= now
      BY <1>1, <3>1, <3>2, <3>3 DEF Inv, ElectorsSound, Accepted
    <3>5. lease.renew \in Nat /\ now \in Nat /\ electors[w].at \in Nat /\ Duration \in Nat
      BY <1>1, <3>1, Assumptions DEF Inv, TypeOK, Lease, Elector, Time
    <3>6. QED
      BY <3>4, <3>5 DEF Expired
  <2>3. QED
    BY <1>1, <2>1, <2>2
    DEF Next, vars, Tick, BootAlone, Acquire, Get, WakeUp, EndTick, Crash, Visit, FinishRun,
        CancelTask, Schedule, PauseTask, electionVars
<1>2. QED
  BY Invariance, <1>1, PTL DEF Spec, HeldUntilExpiry

(* Two starts of a heartbeat routine are its interval apart, across        *)
(* crashes, pauses and overlapping runs (scheduler.rs:157-168).            *)
THEOREM HeartbeatsSpaced == Spec => BeatsSpaced
<1> DEFINE Spaced == \A w \in Workers, t \in Tasks :
               runs'[w][t] > runs[w][t] /\ fired[w][t] # None
                   => now >= fired[w][t] + Interval
<1>1. ASSUME Inv, [Next]_vars PROVE [Spaced]_vars
  <2>1. \A w \in Workers, t \in Tasks : runs[w][t] \in Nat
    BY <1>1, Assumptions DEF Inv, TypeOK
  <2>2. CASE \A w \in Workers, t \in Tasks : ~(runs'[w][t] > runs[w][t])
    BY <2>2
  <2>3. CASE UNCHANGED runs
    BY <2>1, <2>2, <2>3
  <2>4. ASSUME NEW w \in Workers, Crash(w) PROVE Spaced
    <3>1. \A v \in Workers, t \in Tasks : runs'[v][t] \in {0, runs[v][t]}
      BY <1>1, <2>4 DEF Crash, NoRuns, Inv, TypeOK
    <3>2. QED
      BY <2>1, <3>1
  <2>5. ASSUME NEW w \in Owners, NEW t \in Tasks, FinishRun(w, t) PROVE Spaced
    <3>1. \A v \in Workers, u \in Tasks : runs'[v][u] \in {runs[v][u], runs[v][u] - 1}
      BY <1>1, <2>5 DEF FinishRun, Inv, TypeOK
    <3>2. QED
      BY <2>1, <3>1
  <2>6. ASSUME NEW w \in Owners, NEW t \in Tasks, Visit(w, t) PROVE [Spaced]_vars
    <3>1. w \in Workers
      BY Assumptions
    <3>2. CASE Due(w, t) /\ StartRun(w, t)
      <4>1. \A v \in Workers, u \in Tasks : <<v, u>> # <<w, t>> => runs'[v][u] = runs[v][u]
        BY <1>1, <3>1, <3>2 DEF StartRun, Inv, TypeOK
      <4>2. fired[w][t] # None => now >= fired[w][t] + Interval
        <5>1. /\ now \in Nat /\ Interval \in Nat \ {0}
              /\ loops[w].last[t] \in Nat \cup {None}
              /\ fired[w][t] \in Nat \cup {None}
          BY <1>1, <3>1, Assumptions DEF Inv, TypeOK, Loop, Time
        <5>2. fired[w][t] # None /\ loops[w].last[t] # None
                  => loops[w].last[t] >= fired[w][t]
          BY <1>1, <3>1 DEF Inv, BeatsKnown
        <5>3. QED
          BY <3>2, <5>1, <5>2 DEF Due, LastBeat
      <4>3. QED
        BY <2>1, <4>1, <4>2
    <3>3. QED
      BY <2>3, <2>6, <3>2 DEF Visit
  <2>7. QED
    BY <1>1, <2>3, <2>4, <2>5, <2>6
    DEF Next, vars, Tick, BootAlone, Acquire, Get, WriteLease, WakeUp, EndTick, CancelTask,
        Schedule, PauseTask, schedulerVars
<1>2. QED
  BY Invariance, <1>1, PTL DEF Spec, BeatsSpaced
=============================================================================

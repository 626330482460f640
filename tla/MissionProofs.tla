---------------------------- MODULE MissionProofs ----------------------------
(***************************************************************************)
(* The safety properties of a conversation's turns and of its sub-agents,  *)
(* for any number of turns and children, any budgets, and any number of    *)
(* calls, kills and steps.                                                 *)
(*                                                                         *)
(* The inductive invariant has two parts.  AgentInv relates, child by      *)
(* child, the registry's entry, the child's own task, the cancellation     *)
(* that may be under way and what has been reported.  MissionInv relates   *)
(* the place of the generator to how the turns have ended and to the calls *)
(* in the store.                                                           *)
(***************************************************************************)
EXTENDS MissionProps, FiniteSetTheorems, TLAPS

-----------------------------------------------------------------------------
(* A task has an outcome exactly when it is over or about to publish it;   *)
(* until then it has budget left, and a call to make when it calls.        *)
Final(t) == t.pc = "over" \/ (t.pc \in {"publish", "emit"} /\ t.then = "over")

TaskOK(t) ==
    /\ t \in Task
    /\ t.status = "Running" <=> ~Final(t)
    /\ t.pc \in {"publish", "emit"} => t.then # "none"
    /\ t.turns <= MaxTurns /\ t.calls <= MaxCalls
    /\ ~Final(t) => t.turns < MaxTurns /\ t.calls < MaxCalls
    /\ t.pc = "call" => t.todo > 0

EntryOK(e) == e \in Entry /\ e.reported <= e.total /\ e.depth <= MaxDepth

(* The child is between writing its outcome and reporting it.              *)
Reporting(t) == t.pc = "emit" /\ t.status \in Ended

(* A record that ended is reported once: by the cancellation that marked   *)
(* it, by the task that wrote it, or it has been.                          *)
OutcomeOK(e, t, marked, log) ==
    /\ e.status = "Absent" <=> t.pc = "none"
    /\ t.pc = "over" => e.status \in Ended
    /\ e.status \notin Ended => ~marked /\ ~Reporting(t) /\ log = << >>
    /\ marked => e.status = "Cancelled" /\ ~Reporting(t) /\ log = << >>
    /\ Reporting(t) => e.status = t.status /\ log = << >>
    /\ e.status \in Ended /\ ~marked /\ ~Reporting(t) => log = << e.status >>

AgentInv ==
    /\ children \in [Children -> Entry]
    /\ tasks \in [Children -> Task]
    /\ told \in [Children -> Seq(Ended)]
    /\ delivered \in [Children -> Nat]
    /\ kills \subseteq Children
    /\ cancel \in BOOLEAN
    /\ stopping \in {"no", "walk", "done"}
    /\ sink \in Streams \cup {0} /\ open \subseteq Streams
    /\ \A c \in Children : EntryOK(children[c])
    /\ \A c \in Children : TaskOK(tasks[c])
    /\ \A c \in Children : OutcomeOK(children[c], tasks[c], c \in kills, told[c])
    /\ \A c \in Children : delivered[c] <= children[c].reported

-----------------------------------------------------------------------------
MissionTypes ==
    /\ gen \in Generator
    /\ out \in EndEvents \cup {"none"}
    /\ ends \in [Streams -> Seq(WireEvents)]
    /\ records \in Seq({"Planned", "Running", "Ended"}) /\ Len(records) <= MaxBatch
    /\ results \subseteq 1 .. Len(records)
    /\ ask \in BOOLEAN /\ done \in BOOLEAN /\ autoApprove \in BOOLEAN
    /\ proposed \in 0 .. Len(records)
    /\ killed \in 0 .. MaxKills

(* The current turn has reported its end, or its suspension.               *)
Spoken == gen.pc = "off" \/ (gen.pc = "returned" /\ out = "none")

(* Leaving aside lost counts: nothing has been said, or one thing.         *)
Silent(s) == \A i \in 1 .. Len(s) : s[i] = "Uncounted"
Holds(s, e) == \E i \in 1 .. Len(s) : s[i] = e
Once(s) ==
    /\ \E e \in EndEvents : Holds(s, e)
    /\ \A i, j \in 1 .. Len(s) : s[i] # "Uncounted" /\ s[j] # "Uncounted" => i = j

(* Turns before the current one have spoken once and later ones are        *)
(* silent; the current one is open until the generator is gone.            *)
EndsInv ==
    /\ gen.turn = 0 => gen.pc = "off"
    /\ gen.pc = "off" => out = "none"
    /\ out \in {"Done", "AskUser", "CommandProposed"} => gen.pc = "returned"
    /\ \A t \in Streams : t < gen.turn => Once(ends[t])
    /\ \A t \in Streams : t > gen.turn => ends[t] = << >>
    /\ gen.turn > 0 => IF Spoken THEN Once(ends[gen.turn]) ELSE Silent(ends[gen.turn])
    /\ gen.pc # "off" => gen.turn \in open
    /\ \A t \in open : t \in Streams /\ t <= gen.turn

(* What the current turn has said last, if anything.                       *)
Said(e) == out = e \/ (gen.turn > 0 /\ out = "none" /\ Spoken /\ Holds(ends[gen.turn], e))

DoneInv == done => Said("Done")

(* The calls before the one at p were answered.                            *)
AnsweredBefore(p) == results = 1 .. p - 1 /\ \A i \in 1 .. p - 1 : records[i] = "Ended"

(* Nothing is open: the model may be asked to go on.                       *)
Settled ==
    \/ gen.pc \in {"prompt", "answer", "load", "reason", "exec", "stream"} /\ out = "none"
    \/ Said("AskUser")

CallsInv ==
    /\ gen.turn = 0 => records = << >>
    /\ gen.pc \in {"call", "tool", "spawn", "wait", "run"}
           => gen.pos \in 1 .. Len(records) /\ AnsweredBefore(gen.pos)
    /\ gen.pc = "run" => gen.pos = Len(records)
    /\ Settled => AnsweredBefore(Len(records) + 1)
    /\ Said("CommandProposed") => proposed # 0
    /\ proposed # 0 =>
           /\ (gen.pc = "decision" /\ out = "none") \/ Said("CommandProposed") \/ Said("Error")
           /\ proposed = Len(records) /\ records[proposed] = "Running"
           /\ AnsweredBefore(proposed)

MissionInv == MissionTypes /\ EndsInv /\ DoneInv /\ CallsInv

(* The counts in the turns' channels.                                      *)
QueueInv == queued \in [Streams -> [Children -> Nat]]

Inv == AgentInv /\ MissionInv /\ QueueInv

-----------------------------------------------------------------------------
(* The assumptions on the budgets.                                         *)
LEMMA Budgets ==
    /\ MaxTurns \in Nat \ {0} /\ MaxCalls \in Nat \ {0} /\ MaxDepth \in Nat
    /\ Streams \subseteq Nat \ {0} /\ 0 \notin Streams
BY SubAgentsAssumption

(* A task that gets an outcome goes on to publish it.                      *)
LEMMA EndingOK ==
    ASSUME NEW t \in Task, t.turns <= MaxTurns, t.calls <= MaxCalls,
           NEW status \in Ended
    PROVE  TaskOK(Ending(t, status)) /\ Ending(t, status).pc = "publish"
BY DEF TaskOK, Task, Ending, Publishing, Final, Ended, Statuses

(* A task with budget left publishes its progress.                         *)
LEMMA PublishingOK ==
    ASSUME NEW t \in Task, t.status = "Running", t.turns < MaxTurns,
           t.calls < MaxCalls, NEW then \in {"model", "tool"}
    PROVE  TaskOK(Publishing(t, then)) /\ Publishing(t, then).pc = "publish"
<1> DEFINE u == Publishing(t, then)
<1>1. /\ u \in Task /\ u.pc = "publish" /\ u.then = then /\ u.status = "Running"
      /\ u.turns = t.turns /\ u.calls = t.calls
      /\ t.turns \in Nat /\ t.calls \in Nat
  BY DEF Task, Publishing
<1> HIDE DEF u
<1>2. TaskOK(u)
  BY <1>1, Budgets DEF TaskOK, Final
<1>3. QED
  BY <1>1, <1>2 DEF u

(* A task that goes on with what it has spent, to a place that is neither  *)
(* final nor a publication.                                                *)
LEMMA MovedOK ==
    ASSUME NEW t, TaskOK(t), ~Final(t), NEW u \in Task, u.status = t.status,
           u.turns = t.turns, u.calls = t.calls,
           u.pc \notin {"over", "publish", "emit"}, u.pc = "call" => u.todo > 0
    PROVE  TaskOK(u)
BY DEF TaskOK, Final

(* Past the publication a task is over or goes on.                         *)
LEMMA OnwardsOK ==
    ASSUME NEW t, TaskOK(t), t.pc \in {"publish", "emit"}
    PROVE  TaskOK(Onwards(t)) /\ Onwards(t).pc \in {"model", "tool", "over"}
<1> DEFINE u == Onwards(t)
<1>1. t \in Task /\ t.then \in {"model", "tool", "over"}
  BY DEF TaskOK, Task
<1>2. CASE t.then = "over"
  <2>1. /\ u \in Task /\ u.pc = "over" /\ u.status = t.status /\ u.turns = 0
        /\ u.calls = 0
    BY <1>1, <1>2 DEF Task, Onwards
  <2> HIDE DEF u
  <2>2. TaskOK(u)
    <3>1. Final(t) /\ Final(u)
      BY <1>2, <2>1 DEF Final
    <3>2. u.status = "Running" <=> ~Final(u)
      BY <2>1, <3>1 DEF TaskOK
    <3>3. QED
      BY <2>1, <3>1, <3>2, Budgets DEF TaskOK
  <2>3. QED
    BY <2>1, <2>2 DEF u
<1>3. CASE t.then \in {"model", "tool"}
  <2>1. /\ u \in Task /\ u.pc = t.then /\ u.status = t.status
        /\ u.turns = t.turns /\ u.calls = t.calls
    BY <1>1, <1>3 DEF Task, Onwards
  <2> HIDE DEF u
  <2>2. ~Final(t)
    BY <1>3 DEF Final
  <2>3. TaskOK(u)
    BY <1>3, <2>1, <2>2, MovedOK
  <2>4. QED
    BY <1>3, <2>1, <2>3 DEF u
<1>4. QED
  BY <1>1, <1>2, <1>3

(* A tool's return leads to the next call or round the loop.               *)
LEMMA AfterToolOK ==
    ASSUME NEW t, TaskOK(t), t.pc \in {"tool", "wait"}
    PROVE  TaskOK(AfterTool(t)) /\ AfterTool(t).pc \in {"top", "call"}
<1> DEFINE u == AfterTool(t)
<1>1. t \in Task /\ t.todo \in Nat
  BY DEF TaskOK, Task
<1>2. /\ u \in Task /\ u.status = t.status /\ u.turns = t.turns
      /\ u.calls = t.calls /\ u.todo = t.todo
      /\ u.pc = IF t.todo = 0 THEN "top" ELSE "call"
  BY <1>1 DEF AfterTool, Task
<1> HIDE DEF u
<1>3. ~Final(t)
  BY DEF Final
<1>4. TaskOK(u) /\ u.pc \in {"top", "call"}
  BY <1>1, <1>2, <1>3, MovedOK
<1>5. QED
  BY <1>4 DEF u

(* One child's task moves, between places where nothing is being reported. *)
LEMMA OnlyTask ==
    ASSUME AgentInv, NEW c \in Children, NEW t, TaskOK(t),
           tasks[c].pc \notin {"none", "emit"}, t.pc \notin {"none", "emit"},
           t.pc = "over" => children[c].status \in Ended,
           tasks' = [tasks EXCEPT ![c] = t],
           UNCHANGED << children, cancel, stopping, kills, sink, open, told, delivered >>
    PROVE  AgentInv'
<1>1. t \in Task
  BY DEF TaskOK
<1>2. tasks' \in [Children -> Task]
  BY <1>1 DEF AgentInv
<1>3. \A d \in Children : tasks'[d] = IF d = c THEN t ELSE tasks[d]
  BY DEF AgentInv
<1>4. \A d \in Children : TaskOK(tasks'[d])
  BY <1>3 DEF AgentInv
<1>5. OutcomeOK(children[c], t, c \in kills, told[c])
  BY DEF AgentInv, OutcomeOK, Reporting
<1>6. \A d \in Children : OutcomeOK(children[d], tasks'[d], d \in kills, told[d])
  BY <1>3, <1>5 DEF AgentInv
<1>7. QED
  BY <1>2, <1>4, <1>6 DEF AgentInv, TaskOK, OutcomeOK, Reporting, Final, EntryOK

(* The steps of a child keep AgentInv, one lemma for each: its spawn is    *)
(* announced and its loop starts.                                          *)
LEMMA AnnounceSpawnInv ==
    ASSUME AgentInv, NEW c \in Children, AnnounceSpawn(c)
    PROVE  AgentInv'
<1>1. TaskOK(tasks[c]) /\ tasks[c] \in Task /\ tasks \in [Children -> Task]
  BY DEF AgentInv
<1> DEFINE t == [tasks[c] EXCEPT !.pc = "top"]
<1>2. TaskOK(t) /\ t.pc = "top"
  BY <1>1 DEF AnnounceSpawn, TaskOK, Task, Final
<1>3. tasks' = [tasks EXCEPT ![c] = t] /\ told' = told
  BY DEF AnnounceSpawn, Emit, Ended
<1> HIDE DEF t
<1>4. QED
  BY <1>2, <1>3, OnlyTask DEF AnnounceSpawn

(* The top of a child's loop: it ends, or charges a turn and goes on.      *)
LEMMA ChildTopInv ==
    ASSUME AgentInv, NEW c \in Children, ChildTop(c)
    PROVE  AgentInv'
<1> DEFINE t == [tasks[c] EXCEPT !.turns = @ + 1]
<1>1. TaskOK(tasks[c]) /\ tasks[c] \in Task /\ tasks[c].pc = "top"
  BY DEF AgentInv, ChildTop
<1>2. /\ tasks[c].turns \in Nat /\ tasks[c].turns < MaxTurns /\ tasks[c].calls < MaxCalls
      /\ tasks[c].calls \in Nat /\ tasks[c].status = "Running"
  BY <1>1 DEF TaskOK, Task, Final
<1>3. t \in Task /\ t.turns = tasks[c].turns + 1 /\ t.calls = tasks[c].calls
      /\ t.status = "Running"
  BY <1>1, <1>2 DEF Task
<1> HIDE DEF t
<1>4. TaskOK(Ending(tasks[c], "Failed")) /\ TaskOK(Ending(tasks[c], "Cancelled"))
      /\ TaskOK(Ending(t, "Failed"))
      /\ Ending(tasks[c], "Failed").pc = "publish"
      /\ Ending(tasks[c], "Cancelled").pc = "publish" /\ Ending(t, "Failed").pc = "publish"
  BY <1>1, <1>2, <1>3, Budgets, EndingOK DEF Ended
<1>5. t.turns < MaxTurns => TaskOK(Publishing(t, "model")) /\ Publishing(t, "model").pc = "publish"
  BY <1>2, <1>3, PublishingOK
<1>6. \E u : TaskOK(u) /\ u.pc = "publish" /\ tasks' = [tasks EXCEPT ![c] = u]
  BY <1>4, <1>5 DEF ChildTop, SetTask, t
<1>7. QED
  BY <1>1, <1>6, OnlyTask DEF ChildTop

(* The model fails or answers, counted or not.                             *)
LEMMA ModelAnswersInv ==
    ASSUME AgentInv, NEW c \in Children, ModelAnswers(c)
    PROVE  AgentInv'
<1>1. TaskOK(tasks[c]) /\ tasks[c] \in Task /\ tasks[c].pc = "model"
  BY DEF AgentInv, ModelAnswers
<1>2. TaskOK(Ending(tasks[c], "Failed")) /\ Ending(tasks[c], "Failed").pc = "publish"
  BY <1>1, EndingOK DEF TaskOK, Ended
<1> DEFINE r == [tasks[c] EXCEPT !.pc = "reply"]
           s == [tasks[c] EXCEPT !.pc = "usage", !.sender = sink]
<1>3. sink \in Nat
  BY Budgets DEF AgentInv
<1>4. /\ r \in Task /\ r.status = tasks[c].status /\ r.turns = tasks[c].turns
      /\ r.calls = tasks[c].calls /\ r.pc = "reply"
  BY <1>1 DEF Task
<1>5. /\ s \in Task /\ s.status = tasks[c].status /\ s.turns = tasks[c].turns
      /\ s.calls = tasks[c].calls /\ s.pc = "usage"
  BY <1>1, <1>3 DEF Task
<1> HIDE DEF r, s
<1>6. TaskOK(r) /\ TaskOK(s)
  BY <1>1, <1>4, <1>5, MovedOK DEF Final
<1>7. \E u : TaskOK(u) /\ u.pc \in {"publish", "reply", "usage"}
             /\ tasks' = [tasks EXCEPT ![c] = u]
  BY <1>2, <1>4, <1>5, <1>6 DEF ModelAnswers, SetTask, r, s
<1>8. QED
  BY <1>1, <1>7, OnlyTask DEF ModelAnswers

(* The reply is dropped, ends the run, or calls tools.                     *)
LEMMA ChildReplyInv ==
    ASSUME AgentInv, NEW c \in Children, ChildReply(c)
    PROVE  AgentInv'
<1>1. TaskOK(tasks[c]) /\ tasks[c] \in Task /\ tasks[c].pc = "reply"
  BY DEF AgentInv, ChildReply
<1>2. \A s \in Ended : TaskOK(Ending(tasks[c], s)) /\ Ending(tasks[c], s).pc = "publish"
  BY <1>1, EndingOK DEF TaskOK
<1>3. ASSUME NEW n \in 1 .. MaxCalls
      PROVE  /\ TaskOK([tasks[c] EXCEPT !.pc = "call", !.todo = n])
             /\ [tasks[c] EXCEPT !.pc = "call", !.todo = n].pc = "call"
  <2> DEFINE u == [tasks[c] EXCEPT !.pc = "call", !.todo = n]
  <2>1. n \in Nat /\ n > 0
    BY <1>3, Budgets
  <2>2. /\ u \in Task /\ u.status = tasks[c].status /\ u.turns = tasks[c].turns
        /\ u.calls = tasks[c].calls /\ u.pc = "call" /\ u.todo = n
    BY <1>1, <2>1 DEF Task
  <2> HIDE DEF u
  <2>3. TaskOK(u)
    BY <1>1, <2>1, <2>2, MovedOK DEF Final
  <2>4. QED
    BY <2>2, <2>3 DEF u
<1>4. \E u : TaskOK(u) /\ u.pc \in {"publish", "call"} /\ tasks' = [tasks EXCEPT ![c] = u]
  BY <1>2, <1>3 DEF ChildReply, SetTask, Ended
<1>5. QED
  BY <1>1, <1>4, OnlyTask DEF ChildReply

(* Before a tool call the loop stops, or charges the call.                 *)
LEMMA ChildCallInv ==
    ASSUME AgentInv, NEW c \in Children, ChildCall(c)
    PROVE  AgentInv'
<1> DEFINE t == [tasks[c] EXCEPT !.calls = @ + 1, !.todo = @ - 1]
<1>1. TaskOK(tasks[c]) /\ tasks[c] \in Task /\ tasks[c].pc = "call"
  BY DEF AgentInv, ChildCall
<1>2. /\ tasks[c].turns \in Nat /\ tasks[c].turns < MaxTurns /\ tasks[c].calls < MaxCalls
      /\ tasks[c].calls \in Nat /\ tasks[c].status = "Running"
      /\ tasks[c].todo \in Nat /\ tasks[c].todo > 0
  BY <1>1 DEF TaskOK, Task, Final
<1>3. tasks[c].calls + 1 \in Nat /\ tasks[c].todo - 1 \in Nat
  BY <1>2
<1>4. t \in Task /\ t.calls = tasks[c].calls + 1 /\ t.turns = tasks[c].turns
      /\ t.status = "Running"
  BY <1>1, <1>2, <1>3 DEF Task
<1> HIDE DEF t
<1>5. TaskOK(Ending(tasks[c], "Cancelled")) /\ Ending(tasks[c], "Cancelled").pc = "publish"
      /\ TaskOK(Ending(t, "Failed")) /\ Ending(t, "Failed").pc = "publish"
  BY <1>1, <1>2, <1>4, Budgets, EndingOK DEF Ended
<1>6. t.calls < MaxCalls => TaskOK(Publishing(t, "tool")) /\ Publishing(t, "tool").pc = "publish"
  BY <1>2, <1>4, PublishingOK
<1>7. \E u : TaskOK(u) /\ u.pc = "publish" /\ tasks' = [tasks EXCEPT ![c] = u]
  BY <1>5, <1>6 DEF ChildCall, SetTask, t
<1>8. QED
  BY <1>1, <1>7, OnlyTask DEF ChildCall

(* A tool, or a spawn, returns to the loop.                                *)
LEMMA ChildToolInv ==
    ASSUME AgentInv, NEW c \in Children, ChildTool(c) \/ ChildSpawnReturns(c)
    PROVE  AgentInv'
<1>1. TaskOK(tasks[c]) /\ tasks[c] \in Task /\ tasks[c].pc \in {"tool", "wait"}
  BY DEF AgentInv, ChildTool, ChildSpawnReturns
<1> DEFINE v == [tasks[c] EXCEPT !.waits = None]
<1>2. TaskOK(Ending(tasks[c], "Failed")) /\ Ending(tasks[c], "Failed").pc = "publish"
  BY <1>1, EndingOK DEF TaskOK, Ended
<1>3. v \in Task /\ v.turns = tasks[c].turns /\ v.calls = tasks[c].calls
  BY <1>1 DEF Task
<1> HIDE DEF v
<1>4. TaskOK(Ending(v, "Failed")) /\ Ending(v, "Failed").pc = "publish"
  BY <1>1, <1>3, EndingOK DEF TaskOK, Ended
<1>5. \E u : TaskOK(u) /\ u.pc \in {"publish", "top", "call"} /\ tasks' = [tasks EXCEPT ![c] = u]
  BY <1>1, <1>2, <1>4, AfterToolOK DEF ChildTool, ChildSpawnReturns, SetTask, v
<1>6. QED
  BY <1>1, <1>5, OnlyTask DEF ChildTool, ChildSpawnReturns

(* A child publishes: its outcome reaches a live record, and a record that *)
(* has ended is left alone.                                                *)
LEMMA PublishInv ==
    ASSUME AgentInv, NEW c \in Children, Publish(c)
    PROVE  AgentInv'
<1>1. /\ TaskOK(tasks[c]) /\ tasks[c] \in Task /\ tasks[c].pc = "publish"
      /\ tasks \in [Children -> Task] /\ children \in [Children -> Entry]
      /\ EntryOK(children[c])
  BY DEF AgentInv, Publish
<1>2. CASE c \in Live
  <2> DEFINE u == [tasks[c] EXCEPT !.pc = "emit"]
             e == [children[c] EXCEPT !.status = tasks[c].status]
  <2>1. children' = [children EXCEPT ![c] = e] /\ tasks' = [tasks EXCEPT ![c] = u]
    BY <1>1, <1>2 DEF Publish
  <2>2. /\ u \in Task /\ u.pc = "emit" /\ u.then = tasks[c].then
        /\ u.status = tasks[c].status /\ u.turns = tasks[c].turns
        /\ u.calls = tasks[c].calls /\ u.status \in Statuses
    BY <1>1 DEF Task
  <2>3. /\ e \in Entry /\ e.status = tasks[c].status /\ e.total = children[c].total
        /\ e.reported = children[c].reported /\ e.depth = children[c].depth
    BY <1>1 DEF Entry, Task
  <2>4. children[c].status = "Running"
    BY <1>2 DEF Live
  <2> HIDE DEF u, e
  <2>5. TaskOK(u)
    BY <1>1, <2>2 DEF TaskOK, Final
  <2>6. EntryOK(e)
    BY <1>1, <2>3 DEF EntryOK
  <2>7. OutcomeOK(children[c], tasks[c], c \in kills, told[c])
    BY DEF AgentInv
  <2>8. c \notin kills /\ told[c] = << >>
    BY <2>4, <2>7 DEF OutcomeOK, Ended
  <2>9. OutcomeOK(e, u, c \in kills, told[c])
    BY <2>2, <2>3, <2>8 DEF OutcomeOK, Reporting, Ended, Statuses
  <2>10. \A d \in Children : children'[d] = (IF d = c THEN e ELSE children[d])
                             /\ tasks'[d] = (IF d = c THEN u ELSE tasks[d])
    BY <1>1, <2>1
  <2>11. children' \in [Children -> Entry] /\ tasks' \in [Children -> Task]
    BY <1>1, <2>1, <2>2, <2>3
  <2>12. UNCHANGED << cancel, stopping, kills, sink, open, told, delivered >>
    BY DEF Publish
  <2>13. \A d \in Children : /\ EntryOK(children'[d]) /\ TaskOK(tasks'[d])
                             /\ OutcomeOK(children'[d], tasks'[d], d \in kills, told[d])
                             /\ delivered[d] <= children'[d].reported
    BY <2>3, <2>5, <2>6, <2>9, <2>10 DEF AgentInv
  <2>14. QED
    BY <2>11, <2>12, <2>13 DEF AgentInv, EntryOK, TaskOK, Final, OutcomeOK, Reporting
<1>3. CASE c \notin Live
  <2>1. TaskOK(Onwards(tasks[c])) /\ Onwards(tasks[c]).pc \in {"model", "tool", "over"}
    BY <1>1, OnwardsOK
  <2>2. tasks' = [tasks EXCEPT ![c] = Onwards(tasks[c])]
    BY <1>3 DEF Publish, SetTask
  <2>3. children[c].status \in Ended
    <3>1. children[c] \in Entry /\ children[c].status # "Absent"
      BY <1>1 DEF AgentInv, OutcomeOK
    <3>2. children[c].status # "Running"
      BY <1>3 DEF Live
    <3>3. QED
      BY <3>1, <3>2 DEF Entry, Statuses
  <2>4. QED
    BY <1>1, <1>3, <2>1, <2>2, <2>3, OnlyTask DEF Publish
<1>4. QED
  BY <1>2, <1>3

(* The event of a write that was applied: the outcome is reported once.    *)
LEMMA AnnouncePublishedInv ==
    ASSUME AgentInv, NEW c \in Children, AnnouncePublished(c)
    PROVE  AgentInv'
<1> DEFINE u == Onwards(tasks[c])
<1>1. /\ TaskOK(tasks[c]) /\ tasks[c] \in Task /\ tasks[c].pc = "emit"
      /\ tasks \in [Children -> Task] /\ told \in [Children -> Seq(Ended)]
      /\ OutcomeOK(children[c], tasks[c], c \in kills, told[c])
  BY DEF AgentInv, AnnouncePublished
<1>2. TaskOK(u) /\ u.pc \in {"model", "tool", "over"} /\ u \in Task
  BY <1>1, OnwardsOK DEF TaskOK
<1>3. tasks' = [tasks EXCEPT ![c] = u]
  BY DEF AnnouncePublished, SetTask
<1> HIDE DEF u
<1>4. tasks' \in [Children -> Task]
      /\ \A d \in Children : tasks'[d] = IF d = c THEN u ELSE tasks[d]
  BY <1>1, <1>2, <1>3
<1>5. /\ told' \in [Children -> Seq(Ended)]
      /\ \A d \in Children \ {c} : told'[d] = told[d]
      /\ OutcomeOK(children[c], u, c \in kills, told'[c])
  <2>1. CASE tasks[c].status \in Ended
    <3>1. told' = [told EXCEPT ![c] = Append(@, tasks[c].status)]
      BY <2>1 DEF AnnouncePublished, Emit
    <3>2. Reporting(tasks[c])
      BY <1>1, <2>1 DEF Reporting
    <3>3. told[c] = << >> /\ children[c].status = tasks[c].status /\ c \notin kills
      BY <1>1, <3>2 DEF OutcomeOK
    <3>4. told'[c] = << tasks[c].status >> /\ told' \in [Children -> Seq(Ended)]
          /\ \A d \in Children \ {c} : told'[d] = told[d]
      BY <1>1, <2>1, <3>1, <3>3
    <3>5. OutcomeOK(children[c], u, c \in kills, told'[c])
      BY <1>1, <1>2, <2>1, <3>3, <3>4 DEF OutcomeOK, Reporting, Ended
    <3>6. QED
      BY <3>4, <3>5
  <2>2. CASE tasks[c].status \notin Ended
    <3>1. told' = told
      BY <2>2 DEF AnnouncePublished, Emit
    <3>2. tasks[c].status = "Running" /\ tasks[c].then # "over"
      BY <1>1, <2>2 DEF TaskOK, Task, Final, Statuses
    <3>3. u.pc # "over"
      BY <1>1, <3>2 DEF u, Onwards, TaskOK, Task
    <3>4. OutcomeOK(children[c], u, c \in kills, told[c])
      BY <1>1, <1>2, <2>2, <3>3 DEF OutcomeOK, Reporting
    <3>5. QED
      BY <1>1, <3>1, <3>4
  <2>3. QED
    BY <2>1, <2>2
<1>6. UNCHANGED << children, cancel, stopping, kills, sink, open, delivered >>
  BY DEF AnnouncePublished
<1>7. \A d \in Children : TaskOK(tasks'[d])
  BY <1>2, <1>4 DEF AgentInv
<1>8. \A d \in Children : OutcomeOK(children[d], tasks'[d], d \in kills, told'[d])
  BY <1>4, <1>5 DEF AgentInv
<1>9. QED
  BY <1>4, <1>5, <1>6, <1>7, <1>8
  DEF AgentInv, EntryOK, TaskOK, Final, OutcomeOK, Reporting

(* The entry of one child changes in its counts only, and its task moves   *)
(* on between places where nothing is being reported.                      *)
LEMMA NoteChildUsageInv ==
    ASSUME AgentInv, NEW c \in Children, NoteChildUsage(c)
    PROVE  AgentInv'
<1> DEFINE r == IF tasks[c].sender # 0 THEN children[c].reported + 1
                ELSE children[c].reported
           e == [children[c] EXCEPT !.total = @ + 1, !.reported = r]
           u == [tasks[c] EXCEPT !.pc = "reply", !.sender = 0]
           x == IF tasks[c].sender \in open THEN delivered[c] + 1 ELSE delivered[c]
<1>1. /\ TaskOK(tasks[c]) /\ tasks[c] \in Task /\ tasks[c].pc = "usage"
      /\ tasks \in [Children -> Task] /\ children \in [Children -> Entry]
      /\ EntryOK(children[c]) /\ children[c] \in Entry
      /\ delivered \in [Children -> Nat] /\ delivered[c] \in Nat
      /\ delivered[c] <= children[c].reported
      /\ OutcomeOK(children[c], tasks[c], c \in kills, told[c])
      /\ open \subseteq Streams
  BY DEF AgentInv, NoteChildUsage
<1>2. children' = [children EXCEPT ![c] = e] /\ tasks' = [tasks EXCEPT ![c] = u]
  BY <1>1 DEF NoteChildUsage
<1>3. delivered' = [delivered EXCEPT ![c] = x]
  BY <1>1 DEF NoteChildUsage, SendCount
<1>4. children[c].total \in Nat /\ children[c].reported \in Nat
  BY <1>1 DEF Entry
<1>5. children[c].total + 1 \in Nat /\ r \in Nat /\ r <= children[c].total + 1
  BY <1>1, <1>4 DEF EntryOK
<1>6. tasks[c].sender \in open => tasks[c].sender # 0
  BY <1>1, Budgets
<1>7. x \in Nat /\ x <= r
  BY <1>1, <1>4, <1>6
<1> HIDE DEF r, x
<1>8. /\ e \in Entry /\ e.status = children[c].status
      /\ e.total = children[c].total + 1 /\ e.depth = children[c].depth
      /\ e.reported = r
  BY <1>1, <1>5 DEF Entry
<1>9. /\ u \in Task /\ u.pc = "reply" /\ u.status = tasks[c].status
      /\ u.turns = tasks[c].turns /\ u.calls = tasks[c].calls
  BY <1>1 DEF Task
<1>10. x \in Nat /\ x <= e.reported
  BY <1>7, <1>8
<1>11. EntryOK(e)
  BY <1>1, <1>5, <1>8 DEF EntryOK
<1>12. TaskOK(u)
  BY <1>1, <1>9, MovedOK DEF Final
<1>13. OutcomeOK(e, u, c \in kills, told[c])
  BY <1>1, <1>8, <1>9 DEF OutcomeOK, Reporting
<1> HIDE DEF e, u
<1>14. \A d \in Children : children'[d] = (IF d = c THEN e ELSE children[d])
                           /\ tasks'[d] = (IF d = c THEN u ELSE tasks[d])
                           /\ delivered'[d] = (IF d = c THEN x ELSE delivered[d])
  BY <1>1, <1>2, <1>3
<1>15. /\ children' \in [Children -> Entry] /\ tasks' \in [Children -> Task]
       /\ delivered' \in [Children -> Nat]
  BY <1>1, <1>2, <1>3, <1>8, <1>9, <1>10
<1>16. UNCHANGED << cancel, stopping, kills, sink, open, told >>
  BY DEF NoteChildUsage
<1>17. \A d \in Children : /\ EntryOK(children'[d]) /\ TaskOK(tasks'[d])
                           /\ OutcomeOK(children'[d], tasks'[d], d \in kills, told[d])
                           /\ delivered'[d] <= children'[d].reported
  BY <1>10, <1>11, <1>12, <1>13, <1>14 DEF AgentInv
<1>18. QED
  BY <1>15, <1>16, <1>17 DEF AgentInv, EntryOK, TaskOK, Final, OutcomeOK, Reporting

(* A record that is registered is live and nothing has been said of it;    *)
(* its task has not started.                                               *)
LEMMA RegisterOK ==
    ASSUME AgentInv, NEW d \in Children, NEW parent \in Children \cup {Main},
           NEW depth \in Nat, depth <= MaxDepth, Register(d, parent, depth)
    PROVE  /\ children' \in [Children -> Entry]
           /\ \A c \in Children : c # d => children'[c] = children[c]
           /\ EntryOK(children'[d]) /\ delivered[d] <= children'[d].reported
           /\ d \notin kills /\ told[d] = << >> /\ tasks[d].pc = "none"
           /\ children'[d].status = "Running"
<1> DEFINE e == [children[d] EXCEPT !.status = "Running", !.parent = parent,
                                    !.depth = depth]
<1>1. /\ children \in [Children -> Entry] /\ children[d] \in Entry
      /\ EntryOK(children[d]) /\ delivered[d] <= children[d].reported
      /\ OutcomeOK(children[d], tasks[d], d \in kills, told[d])
  BY DEF AgentInv
<1>2. children[d].status = "Absent" /\ children' = [children EXCEPT ![d] = e]
  BY DEF Register, Registered
<1>3. /\ e \in Entry /\ e.status = "Running" /\ e.total = children[d].total
      /\ e.depth = depth /\ e.reported = children[d].reported
  BY <1>1 DEF Entry, Statuses
<1> HIDE DEF e
<1>4. EntryOK(e)
  BY <1>1, <1>3 DEF EntryOK
<1>5. d \notin kills /\ told[d] = << >> /\ tasks[d].pc = "none"
  BY <1>1, <1>2 DEF OutcomeOK, Ended
<1>6. QED
  BY <1>1, <1>2, <1>3, <1>4, <1>5

(* The task of a registered child waits to be announced.                   *)
LEMMA RegisteredOK ==
    ASSUME NEW t, TaskOK(t), t.pc = "none"
    PROVE  TaskOK([t EXCEPT !.pc = "registered"])
           /\ [t EXCEPT !.pc = "registered"].pc = "registered"
<1> DEFINE u == [t EXCEPT !.pc = "registered"]
<1>1. t \in Task
  BY DEF TaskOK
<1>2. /\ u \in Task /\ u.pc = "registered" /\ u.status = t.status
      /\ u.turns = t.turns /\ u.calls = t.calls
  BY <1>1 DEF Task
<1> HIDE DEF u
<1>3. TaskOK(u)
  BY <1>2, MovedOK DEF Final
<1>4. QED
  BY <1>2, <1>3 DEF u

(* A child spawns another.                                                 *)
LEMMA ChildSpawnsInv ==
    ASSUME AgentInv, NEW c \in Children, NEW d \in Children, ChildSpawns(c, d)
    PROVE  AgentInv'
<1> DEFINE u == [tasks[c] EXCEPT !.pc = "wait", !.waits = d]
           v == [tasks[d] EXCEPT !.pc = "registered"]
<1>1. /\ TaskOK(tasks[c]) /\ tasks[c] \in Task /\ tasks[c].pc = "tool"
      /\ TaskOK(tasks[d]) /\ tasks[d] \in Task
      /\ tasks \in [Children -> Task] /\ children[c] \in Entry
      /\ children[c].depth \in Nat /\ children[c].depth < MaxDepth
  BY DEF AgentInv, ChildSpawns, CanSpawn, Entry
<1>2. children[c].depth + 1 \in Nat /\ children[c].depth + 1 <= MaxDepth
  BY <1>1, Budgets
<1>3. /\ children' \in [Children -> Entry]
      /\ \A a \in Children : a # d => children'[a] = children[a]
      /\ EntryOK(children'[d]) /\ delivered[d] <= children'[d].reported
      /\ d \notin kills /\ told[d] = << >> /\ tasks[d].pc = "none"
      /\ children'[d].status = "Running"
  BY <1>2, RegisterOK DEF ChildSpawns
<1>4. d # c
  BY <1>1, <1>3
<1>5. tasks' = [[tasks EXCEPT ![c] = u] EXCEPT ![d] = v]
  BY <1>1, <1>4 DEF ChildSpawns
<1>6. /\ u \in Task /\ u.pc = "wait" /\ u.status = tasks[c].status
      /\ u.turns = tasks[c].turns /\ u.calls = tasks[c].calls
  BY <1>1 DEF Task
<1>7. v \in Task /\ TaskOK(v) /\ v.pc = "registered"
  BY <1>1, <1>3, RegisteredOK DEF TaskOK
<1> HIDE DEF u, v
<1>8. TaskOK(u)
  BY <1>1, <1>6, MovedOK DEF Final
<1>9. /\ tasks' \in [Children -> Task]
      /\ \A a \in Children : tasks'[a] = IF a = d THEN v ELSE IF a = c THEN u ELSE tasks[a]
  BY <1>1, <1>4, <1>5, <1>6, <1>7
<1>10. UNCHANGED << cancel, stopping, kills, sink, open, told, delivered >>
  BY DEF ChildSpawns
<1>11. OutcomeOK(children'[d], v, d \in kills, told[d])
  BY <1>3, <1>7 DEF OutcomeOK, Reporting, Ended
<1>12. OutcomeOK(children[c], tasks[c], c \in kills, told[c])
  BY DEF AgentInv
<1>13. OutcomeOK(children'[c], u, c \in kills, told[c])
  BY <1>1, <1>3, <1>4, <1>6, <1>12 DEF OutcomeOK, Reporting
<1>14. \A a \in Children : /\ EntryOK(children'[a]) /\ TaskOK(tasks'[a])
                           /\ OutcomeOK(children'[a], tasks'[a], a \in kills, told[a])
                           /\ delivered[a] <= children'[a].reported
  BY <1>3, <1>7, <1>8, <1>9, <1>11, <1>13 DEF AgentInv
<1>15. QED
  BY <1>3, <1>9, <1>10, <1>14 DEF AgentInv, EntryOK, TaskOK, Final, OutcomeOK, Reporting

(* A cancellation marks live children: their records end, the reports are  *)
(* owed.                                                                   *)
LEMMA MarkCancelledInv ==
    ASSUME AgentInv, NEW S \in SUBSET Live, MarkCancelled(S),
           cancel' \in BOOLEAN, stopping' \in {"no", "walk", "done"},
           UNCHANGED << tasks, sink, open, told, delivered >>
    PROVE  AgentInv'
<1>1. children \in [Children -> Entry] /\ S \subseteq Children
  BY DEF AgentInv, Live
<1>2. ASSUME NEW c \in Children
      PROVE  /\ children'[c] \in Entry /\ EntryOK(children'[c])
             /\ children'[c].reported = children[c].reported
             /\ OutcomeOK(children'[c], tasks[c], c \in kills', told[c])
  <2>1. /\ children[c] \in Entry /\ EntryOK(children[c])
        /\ OutcomeOK(children[c], tasks[c], c \in kills, told[c])
    BY DEF AgentInv
  <2>2. CASE c \notin S
    <3>1. children'[c] = children[c] /\ (c \in kills' <=> c \in kills)
      BY <2>2 DEF MarkCancelled
    <3>2. (c \in kills') = (c \in kills)
      BY <3>1
    <3>3. QED
      BY <2>1, <3>1, <3>2
  <2>3. CASE c \in S
    <3> DEFINE e == [children[c] EXCEPT !.status = "Cancelled", !.own = TRUE]
    <3>1. children'[c] = e /\ c \in kills'
      BY <2>3 DEF MarkCancelled
    <3>2. /\ e \in Entry /\ e.status = "Cancelled" /\ e.total = children[c].total
          /\ e.reported = children[c].reported /\ e.depth = children[c].depth
      BY <2>1 DEF Entry, Statuses, Ended
    <3> HIDE DEF e
    <3>3. children[c].status = "Running"
      BY <2>3 DEF Live
    <3>4. ~Reporting(tasks[c]) /\ told[c] = << >> /\ tasks[c].pc # "none"
      BY <2>1, <3>3 DEF OutcomeOK, Ended
    <3>5. OutcomeOK(e, tasks[c], c \in kills', told[c])
      BY <3>1, <3>2, <3>4 DEF OutcomeOK, Ended
    <3>6. EntryOK(e)
      BY <2>1, <3>2 DEF EntryOK
    <3>7. QED
      BY <3>1, <3>2, <3>5, <3>6
  <2>4. QED
    BY <2>2, <2>3
<1>3. children' \in [Children -> Entry] /\ kills' \subseteq Children
  BY <1>1, <1>2 DEF MarkCancelled, AgentInv
<1>4. \A c \in Children : /\ EntryOK(children'[c])
                          /\ OutcomeOK(children'[c], tasks[c], c \in kills', told[c])
                          /\ delivered[c] <= children'[c].reported
  BY <1>2 DEF AgentInv
<1>5. QED
  BY <1>3, <1>4 DEF AgentInv, EntryOK, TaskOK, Final, OutcomeOK, Reporting

(* The walk of a cancellation reaches live children only.                  *)
LEMMA WalkLive == \A c : Walk(c) \in SUBSET Live
BY DEF Walk

(* The user kills a child.                                                 *)
LEMMA CancelSubagentInv ==
    ASSUME AgentInv, NEW c \in Children, CancelSubagent(c)
    PROVE  AgentInv'
BY MarkCancelledInv, WalkLive DEF CancelSubagent, AgentInv

(* The two steps of a cancellation of the whole harness.                   *)
LEMMA HarnessCancelInv ==
    ASSUME AgentInv, HarnessCancel
    PROVE  AgentInv'
<1>1. CASE stopping = "no" /\ stopping' = "walk" /\ RaiseBit
  <2>1. cancel' \in BOOLEAN /\ stopping' \in {"no", "walk", "done"}
        /\ UNCHANGED << children, kills, tasks, sink, open, told, delivered >>
    BY <1>1 DEF HarnessCancel, RaiseBit
  <2>2. QED
    BY <2>1 DEF AgentInv, EntryOK, TaskOK, Final, OutcomeOK, Reporting
<1>2. CASE stopping = "walk" /\ stopping' = "done" /\ CancelAll
  <2>1. cancel' \in BOOLEAN /\ stopping' \in {"no", "walk", "done"}
        /\ MarkCancelled(Live) /\ UNCHANGED << tasks, sink, open, told, delivered >>
    BY <1>2 DEF HarnessCancel, CancelAll, AgentInv
  <2>2. QED
    BY <2>1, MarkCancelledInv
<1>3. QED
  BY <1>1, <1>2 DEF HarnessCancel

(* The report a cancellation owes is made.                                 *)
LEMMA AnnounceCancelledInv ==
    ASSUME AgentInv, NEW c \in Children, AnnounceCancelled(c)
    PROVE  AgentInv'
<1>1. /\ told \in [Children -> Seq(Ended)] /\ c \in kills /\ kills \subseteq Children
      /\ OutcomeOK(children[c], tasks[c], c \in kills, told[c])
  BY DEF AgentInv, AnnounceCancelled
<1>2. told' = [told EXCEPT ![c] = Append(@, "Cancelled")] /\ kills' = kills \ {c}
  BY DEF AnnounceCancelled, Emit, Ended
<1>3. told[c] = << >> /\ children[c].status = "Cancelled" /\ ~Reporting(tasks[c])
  BY <1>1 DEF OutcomeOK
<1>4. /\ told' \in [Children -> Seq(Ended)] /\ told'[c] = << "Cancelled" >>
      /\ \A d \in Children \ {c} : told'[d] = told[d]
  BY <1>1, <1>2, <1>3 DEF Ended
<1>5. OutcomeOK(children[c], tasks[c], c \in kills', told'[c])
  BY <1>1, <1>2, <1>3, <1>4 DEF OutcomeOK, Ended
<1>6. ASSUME NEW d \in Children, d # c
      PROVE  OutcomeOK(children[d], tasks[d], d \in kills', told'[d])
  <2>1. (d \in kills') = (d \in kills) /\ told'[d] = told[d]
    BY <1>2, <1>4, <1>6
  <2>2. QED
    BY <2>1 DEF AgentInv
<1>7. UNCHANGED << children, tasks, cancel, stopping, sink, open, delivered >>
  BY DEF AnnounceCancelled
<1>8. kills' \subseteq Children
  BY <1>1, <1>2
<1>9. \A d \in Children : OutcomeOK(children[d], tasks[d], d \in kills', told'[d])
  BY <1>5, <1>6
<1>10. QED
  BY <1>4, <1>7, <1>8, <1>9 DEF AgentInv, EntryOK, TaskOK, Final, OutcomeOK, Reporting

(* A turn attaches: what was owed is handed over, so what was delivered    *)
(* stays within what counts as reported.                                   *)
LEMMA AttachEventSinkInv ==
    ASSUME AgentInv, NEW t \in Streams, AttachEventSink(t),
           UNCHANGED << tasks, cancel, stopping, kills, told >>
    PROVE  AgentInv'
<1>1. ASSUME NEW c \in Children
      PROVE  /\ children'[c] \in Entry /\ EntryOK(children'[c])
             /\ delivered'[c] \in Nat /\ delivered'[c] <= children'[c].reported
             /\ OutcomeOK(children'[c], tasks[c], c \in kills, told[c])
  <2> DEFINE e == [children[c] EXCEPT !.reported = children[c].total]
  <2>1. /\ children[c] \in Entry /\ EntryOK(children[c]) /\ delivered[c] \in Nat
        /\ delivered[c] <= children[c].reported
        /\ OutcomeOK(children[c], tasks[c], c \in kills, told[c])
    BY DEF AgentInv
  <2>2. children[c].total \in Nat /\ children[c].reported \in Nat
    BY <2>1 DEF Entry
  <2>3. /\ children'[c] = e
        /\ delivered'[c] = delivered[c] + (children[c].total - children[c].reported)
    BY DEF AttachEventSink
  <2>4. /\ e \in Entry /\ e.status = children[c].status /\ e.total = children[c].total
        /\ e.reported = children[c].total /\ e.depth = children[c].depth
    BY <2>1, <2>2 DEF Entry
  <2> HIDE DEF e
  <2>5. EntryOK(e)
    BY <2>1, <2>2, <2>4 DEF EntryOK
  <2>6. delivered'[c] \in Nat /\ delivered'[c] <= e.reported
    BY <2>1, <2>2, <2>3, <2>4 DEF EntryOK
  <2>7. OutcomeOK(e, tasks[c], c \in kills, told[c])
    BY <2>1, <2>4 DEF OutcomeOK
  <2>8. QED
    BY <2>3, <2>4, <2>5, <2>6, <2>7
<1>2. children' \in [Children -> Entry] /\ delivered' \in [Children -> Nat]
  BY <1>1 DEF AttachEventSink
<1>3. sink' \in Streams \cup {0} /\ open' \subseteq Streams
  BY DEF AttachEventSink, AgentInv
<1>4. QED
  BY <1>1, <1>2, <1>3 DEF AgentInv, EntryOK, TaskOK, Final, OutcomeOK, Reporting

(* The turn spawns a child.                                                *)
LEMMA SpawnSubagentInv ==
    ASSUME AgentInv, NEW d \in Children, SpawnSubagent(d)
    PROVE  AgentInv'
<1> DEFINE v == [tasks[d] EXCEPT !.pc = "registered"]
<1>1. /\ TaskOK(tasks[d]) /\ tasks[d] \in Task /\ tasks \in [Children -> Task]
  BY DEF AgentInv
<1>2. 1 <= MaxDepth
  BY Budgets DEF SpawnSubagent, CanSpawn
<1>3. /\ children' \in [Children -> Entry]
      /\ \A a \in Children : a # d => children'[a] = children[a]
      /\ EntryOK(children'[d]) /\ delivered[d] <= children'[d].reported
      /\ d \notin kills /\ told[d] = << >> /\ tasks[d].pc = "none"
      /\ children'[d].status = "Running"
  BY <1>2, RegisterOK DEF SpawnSubagent
<1>4. tasks' = [tasks EXCEPT ![d] = v]
  BY <1>1 DEF SpawnSubagent
<1>5. v \in Task /\ TaskOK(v) /\ v.pc = "registered"
  BY <1>1, <1>3, RegisteredOK DEF TaskOK
<1> HIDE DEF v
<1>6. /\ tasks' \in [Children -> Task]
      /\ \A a \in Children : tasks'[a] = IF a = d THEN v ELSE tasks[a]
  BY <1>1, <1>4, <1>5
<1>7. UNCHANGED << cancel, stopping, kills, sink, open, told, delivered >>
  BY DEF SpawnSubagent
<1>8. OutcomeOK(children'[d], v, d \in kills, told[d])
  BY <1>3, <1>5 DEF OutcomeOK, Reporting, Ended
<1>9. \A a \in Children : /\ EntryOK(children'[a]) /\ TaskOK(tasks'[a])
                          /\ OutcomeOK(children'[a], tasks'[a], a \in kills, told[a])
                          /\ delivered[a] <= children'[a].reported
  BY <1>3, <1>5, <1>6, <1>8 DEF AgentInv
<1>10. QED
  BY <1>3, <1>6, <1>7, <1>9 DEF AgentInv, EntryOK, TaskOK, Final, OutcomeOK, Reporting

(* A stream closes, or nothing of the sub-agents changes.                  *)
LEMMA OnlyOpenInv ==
    ASSUME AgentInv, open' \subseteq open,
           UNCHANGED << children, tasks, cancel, stopping, kills, sink, told, delivered >>
    PROVE  AgentInv'
BY DEF AgentInv, EntryOK, TaskOK, Final, OutcomeOK, Reporting

-----------------------------------------------------------------------------
(* A step of the generator: it stays in its turn, and returns only with a  *)
(* last word.                                                              *)
Moves ==
    /\ out = "none" /\ gen.pc \notin {"off", "returned"}
    /\ gen' \in Generator /\ gen'.turn = gen.turn /\ gen'.pc # "off"
    /\ out' \in EndEvents \cup {"none"}
    /\ gen'.pc = "returned" => out' # "none"
    /\ out' \in {"none", "Error"} \/ gen'.pc = "returned"
    /\ UNCHANGED << ends, open, autoApprove, killed >>

(* While the generator runs its turn has said nothing, the mission is not  *)
(* done, and a proposed command is being decided.                          *)
LEMMA Running ==
    ASSUME MissionInv, out = "none", gen.pc \notin {"off", "returned"}
    PROVE  ~Spoken /\ ~done /\ (proposed # 0 => gen.pc = "decision")
           /\ gen.turn \in Streams
<1>1. ~Spoken
  BY DEF Spoken
<1>2. ~Said("Done") /\ ~Said("CommandProposed") /\ ~Said("Error")
  BY <1>1 DEF Said
<1>3. gen.turn \in Streams
  BY DEF MissionInv, MissionTypes, Generator, EndsInv
<1>4. QED
  BY <1>1, <1>2, <1>3 DEF MissionInv, DoneInv, CallsInv

(* A step of the generator keeps what is said of the turns' ends.          *)
LEMMA MovesEnds ==
    ASSUME MissionInv, Moves, done' => out' = "Done"
    PROVE  /\ EndsInv' /\ DoneInv'
           /\ \A e \in EndEvents : Said(e)' <=> out' = e
<1>1. ~Spoken /\ gen.turn \in Streams /\ gen.turn # 0
  BY Running, Budgets DEF Moves
<1>2. ~Spoken'
  BY DEF Spoken, Moves
<1>3. \A e \in EndEvents : Said(e)' <=> out' = e
  BY <1>2 DEF Said
<1>4. DoneInv'
  BY <1>3 DEF DoneInv, EndEvents
<1>5. EndsInv'
  <2>1. EndsInv
    BY DEF MissionInv
  <2>2. gen'.turn = gen.turn /\ ends' = ends /\ open' = open /\ gen'.pc # "off"
        /\ gen.pc # "off"
    BY DEF Moves
  <2>3. (out \in {"Done", "AskUser", "CommandProposed"} => gen.pc = "returned")'
    BY DEF Moves
  <2>4. QED
    BY <1>1, <1>2, <2>1, <2>2, <2>3 DEF EndsInv
<1>6. QED
  BY <1>3, <1>4, <1>5

StoreTypes ==
    /\ records \in Seq({"Planned", "Running", "Ended"}) /\ Len(records) <= MaxBatch
    /\ results \subseteq 1 .. Len(records)
    /\ ask \in BOOLEAN /\ done \in BOOLEAN
    /\ proposed \in 0 .. Len(records)

(* A step of the generator that leaves a well-formed store.                *)
LEMMA MovesTypes ==
    ASSUME MissionInv, Moves, StoreTypes'
    PROVE  MissionTypes'
BY DEF MissionInv, MissionTypes, Moves, StoreTypes

(* A step that only moves the generator on, through places where nothing   *)
(* is open and no call is under way.                                       *)
LEMMA SettledStep ==
    ASSUME MissionInv, Moves, done' \in BOOLEAN, ask' \in BOOLEAN,
           done' => out' = "Done",
           gen.pc \in {"prompt", "answer", "load", "reason", "exec"},
           gen'.pc \in {"prompt", "load", "reason", "exec", "stream", "returned"},
           out' # "CommandProposed",
           UNCHANGED << records, results, proposed >>
    PROVE  MissionInv'
<1>1. StoreTypes'
  BY DEF MissionInv, MissionTypes, StoreTypes
<1>2. proposed = 0 /\ gen.turn # 0
  BY Running, Budgets DEF Moves
<1>3. Settled
  BY DEF Settled, Moves
<1>4. AnsweredBefore(Len(records) + 1)
  BY <1>3 DEF MissionInv, CallsInv
<1>5. AnsweredBefore(Len(records) + 1)'
  BY <1>4 DEF AnsweredBefore
<1>6. ~Said("CommandProposed")' /\ gen'.turn # 0
  BY <1>2, MovesEnds DEF EndEvents, Moves
<1>7. CallsInv'
  BY <1>2, <1>5, <1>6 DEF CallsInv
<1>8. QED
  BY <1>1, <1>7, MovesEnds, MovesTypes DEF MissionInv

(* The generator gives up with an error, and no command is proposed.       *)
LEMMA ErrorStep ==
    ASSUME MissionInv, Moves, StoreTypes', proposed' = 0,
           gen'.pc \in {"returned", "exec", "finish"}, out' = "Error",
           ~done'
    PROVE  MissionInv'
<1>1. \A e \in EndEvents : Said(e)' <=> out' = e
  BY MovesEnds
<1>2. gen'.turn # 0
  BY Running, Budgets DEF Moves
<1>3. ~Said("CommandProposed")' /\ ~Said("AskUser")'
  BY <1>1 DEF EndEvents
<1>4. ~Settled'
  BY <1>3 DEF Settled
<1>5. CallsInv'
  BY <1>2, <1>3, <1>4 DEF CallsInv
<1>6. QED
  BY <1>5, MovesEnds, MovesTypes DEF MissionInv

(* The generator moves between the calls of a message.                     *)
LEMMA CallStep ==
    ASSUME MissionInv, Moves, StoreTypes', proposed' = 0, ~done',
           out' \in {"none", "Error"},
           gen'.pc \in {"call", "tool", "spawn", "wait"},
           (gen.pos \in 1 .. Len(records))', AnsweredBefore(gen.pos)'
    PROVE  MissionInv'
<1>1. \A e \in EndEvents : Said(e)' <=> out' = e
  BY MovesEnds
<1>2. gen'.turn # 0
  BY Running, Budgets DEF Moves
<1>3. ~Said("CommandProposed")' /\ ~Said("AskUser")'
  BY <1>1 DEF EndEvents
<1>4. ~Settled'
  BY <1>3 DEF Settled
<1>5. CallsInv'
  BY <1>2, <1>3, <1>4 DEF CallsInv
<1>6. QED
  BY <1>5, MovesEnds, MovesTypes DEF MissionInv

(* Nothing is open and the generator goes on.                              *)
LEMMA AnsweredStep ==
    ASSUME MissionInv, Moves, StoreTypes', proposed' = 0, ~done',
           out' = "none", gen'.pc \in {"load", "exec"},
           AnsweredBefore(Len(records) + 1)'
    PROVE  MissionInv'
<1>1. \A e \in EndEvents : Said(e)' <=> out' = e
  BY MovesEnds
<1>2. gen'.turn # 0
  BY Running, Budgets DEF Moves
<1>3. ~Said("CommandProposed")'
  BY <1>1 DEF EndEvents
<1>4. CallsInv'
  BY <1>2, <1>3 DEF CallsInv
<1>5. QED
  BY <1>4, MovesEnds, MovesTypes DEF MissionInv

Places == {"off", "prompt", "answer", "decision", "run", "load", "reason", "exec",
           "stream", "call", "tool", "spawn", "wait", "finish", "returned"}

(* Moving the generator changes its place only; returning stays in turn.   *)
LEMMA ToOK ==
    ASSUME gen \in Generator, NEW p \in Places
    PROVE  /\ To(p) \in Generator /\ To(p).pc = p /\ To(p).turn = gen.turn
           /\ To(p).pos = gen.pos
           /\ Gone(p) \in Generator /\ Gone(p).pc = p /\ Gone(p).turn = gen.turn
BY DEF To, Gone, Generator, Places

(* The generator fails in its turn: whatever it has written, no command is *)
(* proposed and the mission is not done.                                   *)
LEMMA FailsInv ==
    ASSUME MissionInv, out = "none", gen.pc \notin {"off", "returned"},
           Yield("Error", Return), UNCHANGED << ends, open, autoApprove, killed >>,
           StoreTypes', proposed' = 0, ~done'
    PROVE  MissionInv'
<1>1. gen \in Generator
  BY DEF MissionInv, MissionTypes
<1>2. gen' \in Generator /\ gen'.pc = "returned" /\ gen'.turn = gen.turn /\ out' = "Error"
  BY <1>1, ToOK DEF Yield, Return, Places
<1>3. Moves
  BY <1>2 DEF Moves, EndEvents
<1>4. QED
  BY <1>2, <1>3, ErrorStep

(* As above, with the store as it is and no command waiting for a decision. *)
LEMMA PlainFailsInv ==
    ASSUME MissionInv, out = "none", gen.pc \notin {"off", "returned"},
           proposed = 0, Fails, UNCHANGED << ends, open, autoApprove, killed >>
    PROVE  MissionInv'
<1>1. ~done
  BY Running
<1>2. Yield("Error", Return) /\ UNCHANGED storeVars
  BY DEF Fails
<1>3. StoreTypes' /\ proposed' = 0 /\ ~done'
  BY <1>1, <1>2 DEF MissionInv, MissionTypes, StoreTypes, storeVars
<1>4. QED
  BY <1>2, <1>3, FailsInv

(* What a quiet step leaves alone.                                         *)
LEMMA QuietSame == ASSUME Quiet PROVE UNCHANGED << ends, open, autoApprove, killed >>
BY DEF Quiet, agentVars

(* The steps of the generator keep MissionInv, one lemma for each: the     *)
(* prompt is stored.                                                       *)
LEMMA InsertPromptInv == ASSUME MissionInv, InsertPrompt PROVE MissionInv'
<1>1. /\ out = "none" /\ gen.pc = "prompt" /\ gen \in Generator
      /\ UNCHANGED << ends, open, autoApprove, killed >>
  BY QuietSame DEF InsertPrompt, At, MissionInv, MissionTypes
<1>2. ~done /\ proposed = 0
  BY <1>1, Running
<1>3. CASE Goto(To("load")) /\ UNCHANGED storeVars
  <2>1. /\ gen' \in Generator /\ gen'.pc = "load" /\ gen'.turn = gen.turn /\ out' = "none"
    BY <1>1, <1>3, ToOK DEF Goto, Places
  <2>2. Moves
    BY <1>1, <2>1 DEF Moves
  <2>3. UNCHANGED << records, results, proposed >> /\ ~done' /\ ask' = ask /\ done' = done
    BY <1>2, <1>3 DEF storeVars
  <2>4. done \in BOOLEAN /\ ask \in BOOLEAN
    BY DEF MissionInv, MissionTypes
  <2>5. QED
    BY <1>1, <2>1, <2>2, <2>3, <2>4, SettledStep
<1>4. CASE Fails
  BY <1>1, <1>2, <1>4, PlainFailsInv
<1>5. QED
  BY <1>3, <1>4 DEF InsertPrompt

(* The pending question is answered.                                       *)
LEMMA AnswerAskInv == ASSUME MissionInv, AnswerAsk PROVE MissionInv'
<1>1. /\ out = "none" /\ gen.pc = "answer" /\ gen \in Generator
      /\ UNCHANGED << ends, open, autoApprove, killed >>
  BY QuietSame DEF AnswerAsk, At, MissionInv, MissionTypes
<1>2. ~done /\ proposed = 0
  BY <1>1, Running
<1>3. CASE Fails
  BY <1>1, <1>2, <1>3, PlainFailsInv
<1>4. CASE /\ ask' = FALSE
           /\ Goto(To("prompt")) \/ Yield("Error", Return)
           /\ UNCHANGED << records, results, proposed, done >>
  <2>1. StoreTypes' /\ proposed' = 0 /\ ~done'
    BY <1>2, <1>4 DEF MissionInv, MissionTypes, StoreTypes
  <2>2. CASE Yield("Error", Return)
    BY <1>1, <2>1, <2>2, FailsInv
  <2>3. CASE Goto(To("prompt"))
    <3>1. gen' \in Generator /\ gen'.pc = "prompt" /\ gen'.turn = gen.turn /\ out' = "none"
      BY <1>1, <2>3, ToOK DEF Goto, Places
    <3>2. Moves
      BY <1>1, <3>1 DEF Moves
    <3>3. done' \in BOOLEAN /\ ask' \in BOOLEAN
      BY <2>1 DEF StoreTypes
    <3>4. QED
      BY <1>1, <1>4, <2>1, <3>1, <3>2, <3>3, SettledStep
  <2>4. QED
    BY <1>4, <2>2, <2>3
<1>5. QED
  BY <1>3, <1>4 DEF AnswerAsk

(* The decision fails and the command stays pending.                       *)
LEMMA UndecidedInv ==
    ASSUME MissionInv, out = "none", gen.pc = "decision", proposed # 0,
           Fails, UNCHANGED << ends, open, autoApprove, killed >>
    PROVE  MissionInv'
<1>1. ~done /\ gen.turn # 0 /\ gen \in Generator
  BY Running, Budgets DEF MissionInv, MissionTypes
<1>2. /\ gen' \in Generator /\ gen'.pc = "returned" /\ gen'.turn = gen.turn /\ out' = "Error"
      /\ UNCHANGED storeVars
  BY <1>1, ToOK DEF Fails, Yield, Return, Places
<1>3. Moves
  BY <1>2 DEF Moves, EndEvents
<1>4. StoreTypes' /\ ~done'
  BY <1>1, <1>2 DEF MissionInv, MissionTypes, StoreTypes, storeVars
<1>5. /\ EndsInv' /\ DoneInv' /\ ~Said("CommandProposed")' /\ ~Said("AskUser")'
      /\ Said("Error")'
  BY <1>2, <1>3, <1>4, MovesEnds DEF EndEvents
<1>6. ~Settled'
  BY <1>2, <1>5 DEF Settled
<1>7. /\ proposed = Len(records) /\ records[proposed] = "Running"
      /\ AnsweredBefore(proposed)
  BY DEF MissionInv, CallsInv
<1>8. (/\ proposed = Len(records) /\ records[proposed] = "Running"
       /\ AnsweredBefore(proposed))'
  BY <1>2, <1>7 DEF AnsweredBefore, storeVars
<1>9. CallsInv'
  BY <1>1, <1>2, <1>5, <1>6, <1>8 DEF CallsInv
<1>10. QED
  BY <1>3, <1>4, <1>5, <1>9, MovesTypes DEF MissionInv

(* The command that was proposed is the last call, and the only open one.  *)
LEMMA ResolveCommandInv == ASSUME MissionInv, ResolveCommand PROVE MissionInv'
<1>1. /\ out = "none" /\ gen.pc = "decision" /\ gen \in Generator
      /\ UNCHANGED << ends, open, autoApprove, killed >>
  BY QuietSame DEF ResolveCommand, At, MissionInv, MissionTypes
<1>2. ~done /\ gen.turn # 0
  BY <1>1, Running, Budgets
<1>3. CASE Fails
  <2>1. CASE proposed = 0
    BY <1>1, <1>2, <1>3, <2>1, PlainFailsInv
  <2>2. CASE proposed # 0
    BY <1>1, <1>2, <1>3, <2>2, UndecidedInv
  <2>3. QED
    BY <2>1, <2>2
<1>4. CASE /\ proposed # 0 /\ proposed' = 0
           /\ Goto([gen EXCEPT !.pc = "run", !.pos = proposed])
           /\ UNCHANGED << records, results, ask, done >>
  <2>1. proposed = Len(records) /\ AnsweredBefore(proposed) /\ proposed \in Nat
    BY <1>4 DEF MissionInv, CallsInv, MissionTypes
  <2>2. /\ gen' \in Generator /\ gen'.pc = "run" /\ gen'.turn = gen.turn /\ out' = "none"
        /\ gen'.pos = proposed
    BY <1>1, <1>4, <2>1 DEF Goto, Generator
  <2>3. Moves
    BY <1>1, <2>2 DEF Moves
  <2>4. StoreTypes' /\ ~done'
    BY <1>2, <1>4, <2>1 DEF MissionInv, MissionTypes, StoreTypes
  <2>5. EndsInv' /\ DoneInv' /\ ~Said("CommandProposed")' /\ ~Said("AskUser")'
    BY <2>2, <2>3, <2>4, MovesEnds DEF EndEvents
  <2>6. ~Settled'
    BY <2>2, <2>5 DEF Settled
  <2>7. (gen.pos \in 1 .. Len(records))' /\ (gen.pos = Len(records))' /\ AnsweredBefore(gen.pos)'
    BY <1>4, <2>1, <2>2 DEF AnsweredBefore
  <2>8. CallsInv'
    BY <1>2, <1>4, <2>2, <2>5, <2>6, <2>7 DEF CallsInv
  <2>9. QED
    BY <2>3, <2>4, <2>5, <2>8, MovesTypes DEF MissionInv
<1>5. QED
  BY <1>3, <1>4 DEF ResolveCommand

(* The call at pos is answered: one more call before the next has a row.   *)
LEMMA AnswerOK ==
    ASSUME MissionInv, gen.pos \in 1 .. Len(records), AnsweredBefore(gen.pos),
           records' = [records EXCEPT ![gen.pos] = "Ended"],
           results' = results \cup {gen.pos},
           UNCHANGED << ask, proposed, done >>
    PROVE  StoreTypes' /\ Len(records') = Len(records)
           /\ results' = 1 .. gen.pos
           /\ \A i \in 1 .. gen.pos : records'[i] = "Ended"
<1>1. /\ records \in Seq({"Planned", "Running", "Ended"}) /\ Len(records) <= MaxBatch
      /\ results \subseteq 1 .. Len(records) /\ ask \in BOOLEAN /\ done \in BOOLEAN
      /\ proposed \in 0 .. Len(records) /\ Len(records) \in Nat
  BY DEF MissionInv, MissionTypes
<1>2. records' \in Seq({"Planned", "Running", "Ended"}) /\ Len(records') = Len(records)
  BY <1>1
<1>3. /\ gen.pos \in Nat /\ gen.pos >= 1 /\ gen.pos <= Len(records)
      /\ results = 1 .. gen.pos - 1
      /\ \A i \in 1 .. gen.pos - 1 : records[i] = "Ended"
  BY <1>1 DEF AnsweredBefore
<1>4. results' = 1 .. gen.pos
  BY <1>3
<1>5. \A i \in 1 .. gen.pos : records'[i] = "Ended"
  BY <1>1, <1>3
<1>6. StoreTypes'
  BY <1>1, <1>2, <1>3, <1>4 DEF StoreTypes
<1>7. QED
  BY <1>2, <1>4, <1>5, <1>6

(* The decided command's outcome is recorded: its call, the last, is       *)
(* answered.                                                               *)
LEMMA RunDecisionInv == ASSUME MissionInv, RunDecision PROVE MissionInv'
<1>1. /\ out = "none" /\ gen.pc = "run" /\ gen \in Generator
      /\ UNCHANGED << ends, open, autoApprove, killed, ask, proposed, done >>
  BY QuietSame DEF RunDecision, At, MissionInv, MissionTypes
<1>2. ~done /\ proposed = 0
  BY <1>1, Running
<1>3. CASE /\ records' = [records EXCEPT ![gen.pos] = "Ended"]
           /\ results' = results \cup {gen.pos}
           /\ Goto(To("load"))
  <2>1. gen.pos \in 1 .. Len(records) /\ AnsweredBefore(gen.pos) /\ gen.pos = Len(records)
        /\ Len(records) \in Nat
    BY <1>1 DEF MissionInv, CallsInv, MissionTypes
  <2>2. /\ StoreTypes' /\ Len(records') = Len(records) /\ results' = 1 .. gen.pos
        /\ \A i \in 1 .. gen.pos : records'[i] = "Ended"
    BY <1>1, <1>3, <2>1, AnswerOK
  <2>3. AnsweredBefore(Len(records) + 1)'
    BY <2>1, <2>2 DEF AnsweredBefore
  <2>4. gen' \in Generator /\ gen'.pc = "load" /\ gen'.turn = gen.turn /\ out' = "none"
    BY <1>1, <1>3, ToOK DEF Goto, Places
  <2>5. Moves
    BY <1>1, <2>4 DEF Moves
  <2>6. QED
    BY <1>1, <1>2, <2>2, <2>3, <2>4, <2>5, AnsweredStep
<1>4. CASE Yield("Error", Return) /\ UNCHANGED << records, results >>
  <2>1. StoreTypes'
    BY <1>1, <1>4 DEF MissionInv, MissionTypes, StoreTypes
  <2>2. QED
    BY <1>1, <1>2, <1>4, <2>1, FailsInv
<1>5. QED
  BY <1>3, <1>4 DEF RunDecision

(* The mission is loaded, and is not done.                                 *)
LEMMA LoadMissionInv == ASSUME MissionInv, LoadMission PROVE MissionInv'
<1>1. /\ out = "none" /\ gen.pc = "load" /\ gen \in Generator
      /\ UNCHANGED << ends, open, autoApprove, killed >>
  BY QuietSame DEF LoadMission, At, MissionInv, MissionTypes
<1>2. ~done /\ proposed = 0
  BY <1>1, Running
<1>3. CASE Fails
  BY <1>1, <1>2, <1>3, PlainFailsInv
<1>4. CASE /\ Goto(To("reason")) \/ Goto(To("exec"))
           /\ done' = FALSE /\ UNCHANGED << records, results, ask, proposed >>
  <2>1. /\ gen' \in Generator /\ gen'.pc \in {"reason", "exec"} /\ gen'.turn = gen.turn
        /\ out' = "none"
    BY <1>1, <1>4, ToOK DEF Goto, Places
  <2>2. Moves
    BY <1>1, <2>1 DEF Moves
  <2>3. done' \in BOOLEAN /\ ask' \in BOOLEAN
    BY <1>4 DEF MissionInv, MissionTypes
  <2>4. QED
    BY <1>1, <1>4, <2>1, <2>2, <2>3, SettledStep
<1>5. QED
  BY <1>3, <1>4 DEF LoadMission

(* A pass of the reasoning loop, with its five outcomes.                   *)
LEMMA ReasonStepInv == ASSUME MissionInv, ReasonStep PROVE MissionInv'
<1>1. /\ out = "none" /\ gen.pc = "reason" /\ gen \in Generator
      /\ UNCHANGED << ends, open, autoApprove, killed >>
  BY QuietSame DEF ReasonStep, At, MissionInv, MissionTypes
<1>2. /\ ~done /\ proposed = 0 /\ done \in BOOLEAN /\ ask \in BOOLEAN
  BY <1>1, Running DEF MissionInv, MissionTypes
<1>3. CASE Fails
  BY <1>1, <1>2, <1>3, PlainFailsInv
<1> DEFINE next == gen.step + 1
           onwards == [gen EXCEPT !.step = IF next >= MaxReasoningSteps THEN 0 ELSE next,
                                  !.pc = IF next >= MaxReasoningSteps THEN "exec"
                                         ELSE "reason"]
<1>4. gen.step \in Nat /\ next \in Nat /\ MaxReasoningSteps \in Nat
  BY <1>1, MissionAssumption DEF Generator
<1> HIDE DEF next
<1>5. CASE Goto([gen EXCEPT !.pc = "exec", !.step = 0]) /\ UNCHANGED storeVars
  <2>1. /\ gen' \in Generator /\ gen'.pc = "exec" /\ gen'.turn = gen.turn /\ out' = "none"
    BY <1>1, <1>5 DEF Goto, Generator
  <2>2. Moves
    BY <1>1, <2>1 DEF Moves
  <2>3. QED
    BY <1>1, <1>2, <1>5, <2>1, <2>2, SettledStep DEF storeVars
<1>6. CASE Yield("Done", Return) /\ UNCHANGED storeVars
  <2>1. /\ gen' \in Generator /\ gen'.pc = "returned" /\ gen'.turn = gen.turn /\ out' = "Done"
    BY <1>1, <1>6, ToOK DEF Yield, Return, Places
  <2>2. Moves
    BY <1>1, <2>1 DEF Moves, EndEvents
  <2>3. QED
    BY <1>1, <1>2, <1>6, <2>1, <2>2, SettledStep DEF storeVars
<1>7. CASE Goto(onwards) /\ UNCHANGED storeVars
  <2>1. /\ onwards \in Generator /\ onwards.pc \in {"exec", "reason"} /\ onwards.turn = gen.turn
    BY <1>1, <1>4 DEF Generator
  <2>2. gen' = onwards /\ out' = "none"
    BY <1>1, <1>7 DEF Goto
  <2> HIDE DEF onwards
  <2>3. Moves
    BY <1>1, <2>1, <2>2 DEF Moves
  <2>4. QED
    BY <1>1, <1>2, <1>7, <2>1, <2>2, <2>3, SettledStep DEF storeVars
<1>8. CASE ask' = TRUE /\ Yield("AskUser", Return)
           /\ UNCHANGED << records, results, proposed, done >>
  <2>1. /\ gen' \in Generator /\ gen'.pc = "returned" /\ gen'.turn = gen.turn /\ out' = "AskUser"
    BY <1>1, <1>8, ToOK DEF Yield, Return, Places
  <2>2. Moves
    BY <1>1, <2>1 DEF Moves, EndEvents
  <2>3. QED
    BY <1>1, <1>2, <1>8, <2>1, <2>2, SettledStep
<1>9. QED
  BY <1>3, <1>5, <1>6, <1>7, <1>8 DEF ReasonStep, next

(* The execution loop asks the model.                                      *)
LEMMA ExecuteTopInv == ASSUME MissionInv, ExecuteTop PROVE MissionInv'
<1>1. /\ out = "none" /\ gen.pc = "exec" /\ gen \in Generator
      /\ UNCHANGED << ends, open, autoApprove, killed >>
  BY QuietSame DEF ExecuteTop, At, MissionInv, MissionTypes
<1>2. /\ ~done /\ proposed = 0 /\ done \in BOOLEAN /\ ask \in BOOLEAN
  BY <1>1, Running DEF MissionInv, MissionTypes
<1>3. CASE Fails
  BY <1>1, <1>2, <1>3, PlainFailsInv
<1>4. CASE Goto([gen EXCEPT !.pc = "stream", !.step = @ + 1]) /\ UNCHANGED storeVars
  <2>1. gen.step + 1 \in Nat
    BY <1>1 DEF Generator
  <2>2. /\ gen' \in Generator /\ gen'.pc = "stream" /\ gen'.turn = gen.turn /\ out' = "none"
    BY <1>1, <1>4, <2>1 DEF Goto, Generator
  <2>3. Moves
    BY <1>1, <2>2 DEF Moves
  <2>4. QED
    BY <1>1, <1>2, <1>4, <2>2, <2>3, SettledStep DEF storeVars
<1>5. QED
  BY <1>3, <1>4 DEF ExecuteTop

(* The calls of a fresh reply: planned, none answered.                     *)
LEMMA PlannedOK ==
    ASSUME NEW n \in 1 .. MaxBatch
    PROVE  /\ [i \in 1 .. n |-> "Planned"] \in Seq({"Planned", "Running", "Ended"})
           /\ Len([i \in 1 .. n |-> "Planned"]) = n
BY MissionAssumption

(* A reply, whole or cut by a cancellation, ends the loop or plans calls.  *)
LEMMA StreamReplyInv == ASSUME MissionInv, StreamReply PROVE MissionInv'
<1>1. /\ out = "none" /\ gen.pc = "stream" /\ gen \in Generator
      /\ UNCHANGED << ends, open, autoApprove, killed >>
  BY QuietSame DEF StreamReply, At, MissionInv, MissionTypes
<1>2. /\ ~done /\ proposed = 0 /\ done \in BOOLEAN /\ ask \in BOOLEAN /\ gen.turn # 0
  BY <1>1, Running, Budgets DEF MissionInv, MissionTypes
<1>3. CASE Fails
  BY <1>1, <1>2, <1>3, PlainFailsInv
<1>4. ASSUME NEW n \in 0 .. MaxBatch, Replied(n),
             out' = "none" \/ (cancel /\ out' = "Error")
      PROVE  MissionInv'
  <2>1. CASE gen' = To("finish") /\ UNCHANGED storeVars
    <3>1. gen' \in Generator /\ gen'.pc = "finish" /\ gen'.turn = gen.turn
      BY <1>1, <2>1, ToOK DEF Places
    <3>2. Moves
      BY <1>1, <1>4, <3>1 DEF Moves, EndEvents
    <3>3. StoreTypes' /\ ~done' /\ proposed' = 0
      BY <1>2, <2>1 DEF MissionInv, MissionTypes, StoreTypes, storeVars
    <3>4. ~Said("CommandProposed")' /\ ~Said("AskUser")'
      BY <1>4, <3>2, <3>3, MovesEnds DEF EndEvents
    <3>5. ~Settled'
      BY <3>1, <3>4 DEF Settled
    <3>6. CallsInv'
      BY <1>2, <3>1, <3>3, <3>4, <3>5 DEF CallsInv
    <3>7. QED
      BY <3>2, <3>3, <3>6, MovesEnds, MovesTypes DEF MissionInv
  <2>2. CASE /\ n > 0
             /\ gen' = [gen EXCEPT !.pc = "call", !.pos = 1]
             /\ records' = [i \in 1 .. n |-> "Planned"]
             /\ results' = {}
             /\ UNCHANGED << ask, proposed, done >>
    <3>1. gen' \in Generator /\ gen'.pc = "call" /\ gen'.turn = gen.turn /\ gen'.pos = 1
      BY <1>1, <2>2 DEF Generator
    <3>2. Moves
      BY <1>1, <1>4, <3>1 DEF Moves, EndEvents
    <3>3. n \in 1 .. MaxBatch /\ n \in Nat
      BY <1>4, <2>2, MissionAssumption
    <3>4. records' \in Seq({"Planned", "Running", "Ended"}) /\ Len(records') = n
      BY <2>2, <3>3, PlannedOK
    <3>5. StoreTypes' /\ ~done' /\ proposed' = 0
      BY <1>2, <2>2, <3>3, <3>4 DEF StoreTypes
    <3>6. (gen.pos \in 1 .. Len(records))' /\ AnsweredBefore(gen.pos)'
      BY <2>2, <3>1, <3>3, <3>4 DEF AnsweredBefore
    <3>7. QED
      BY <1>4, <3>1, <3>2, <3>5, <3>6, CallStep
  <2>3. QED
    BY <1>4, <2>1, <2>2 DEF Replied
<1>5. QED
  BY <1>3, <1>4 DEF StreamReply

(* A command that is proposed becomes the last call of its message.        *)
LEMMA CutShort ==
    ASSUME MissionInv, gen.pos \in 1 .. Len(records),
           records' = Append(SubSeq(records, 1, gen.pos - 1), "Running")
    PROVE  /\ records' \in Seq({"Planned", "Running", "Ended"})
           /\ Len(records') = gen.pos /\ records'[gen.pos] = "Running"
           /\ \A i \in 1 .. gen.pos - 1 : records'[i] = records[i]
<1> DEFINE s == SubSeq(records, 1, gen.pos - 1)
<1>1. /\ records \in Seq({"Planned", "Running", "Ended"}) /\ Len(records) \in Nat
      /\ gen.pos \in Nat /\ gen.pos >= 1 /\ gen.pos <= Len(records)
  BY DEF MissionInv, MissionTypes
<1>2. /\ s \in Seq({"Planned", "Running", "Ended"}) /\ Len(s) = gen.pos - 1
      /\ \A i \in 1 .. gen.pos - 1 : s[i] = records[i]
  BY <1>1
<1> HIDE DEF s
<1>3. records' = Append(s, "Running")
  BY DEF s
<1>4. QED
  BY <1>1, <1>2, <1>3

(* A call is started, proposed, or given up.                               *)
LEMMA StartCallInv == ASSUME MissionInv, StartCall PROVE MissionInv'
<1>1. /\ out = "none" /\ gen.pc = "call" /\ gen \in Generator
      /\ UNCHANGED << ends, open, autoApprove, killed >>
  BY QuietSame DEF StartCall, At, MissionInv, MissionTypes
<1>2. /\ ~done /\ proposed = 0 /\ done \in BOOLEAN /\ ask \in BOOLEAN /\ gen.turn # 0
  BY <1>1, Running, Budgets DEF MissionInv, MissionTypes
<1>3. /\ gen.pos \in 1 .. Len(records) /\ AnsweredBefore(gen.pos)
      /\ records \in Seq({"Planned", "Running", "Ended"}) /\ Len(records) \in Nat
      /\ Len(records) <= MaxBatch /\ MaxBatch \in Nat
      /\ results = 1 .. gen.pos - 1 /\ gen.pos \in Nat
  BY <1>1, MissionAssumption DEF MissionInv, CallsInv, MissionTypes, AnsweredBefore
<1>4. CASE cancel /\ Yield("Error", To("exec")) /\ UNCHANGED storeVars
  <2>1. gen' \in Generator /\ gen'.pc = "exec" /\ gen'.turn = gen.turn /\ out' = "Error"
    BY <1>1, <1>4, ToOK DEF Yield, Places
  <2>2. Moves
    BY <1>1, <2>1 DEF Moves, EndEvents
  <2>3. StoreTypes' /\ ~done' /\ proposed' = 0
    BY <1>2, <1>4 DEF MissionInv, MissionTypes, StoreTypes, storeVars
  <2>4. QED
    BY <2>1, <2>2, <2>3, ErrorStep
<1>5. CASE Fails
  BY <1>1, <1>2, <1>5, PlainFailsInv
<1>6. CASE Propose
  <2>1. /\ records' \in Seq({"Planned", "Running", "Ended"})
        /\ Len(records') = gen.pos /\ records'[gen.pos] = "Running"
        /\ \A i \in 1 .. gen.pos - 1 : records'[i] = records[i]
    BY <1>3, <1>6, CutShort DEF Propose
  <2>2. UNCHANGED << results, ask, done >>
    BY <1>6 DEF Propose
  <2>3. results' = 1 .. gen.pos - 1 /\ \A i \in 1 .. gen.pos - 1 : records'[i] = "Ended"
    BY <1>3, <2>1, <2>2 DEF AnsweredBefore
  <2>4. CASE proposed' = gen.pos /\ Yield("CommandProposed", Return)
    <3>1. /\ gen' \in Generator /\ gen'.pc = "returned" /\ gen'.turn = gen.turn
          /\ out' = "CommandProposed"
      BY <1>1, <2>4, ToOK DEF Yield, Return, Places
    <3>2. Moves
      BY <1>1, <3>1 DEF Moves, EndEvents
    <3>3. StoreTypes' /\ ~done'
      BY <1>2, <1>3, <2>1, <2>2, <2>3, <2>4 DEF StoreTypes
    <3>4. Said("CommandProposed")' /\ ~Said("AskUser")'
      BY <3>1, <3>2, <3>3, MovesEnds DEF EndEvents
    <3>5. ~Settled'
      BY <3>1, <3>4 DEF Settled
    <3>6. AnsweredBefore(proposed)'
      BY <2>3, <2>4 DEF AnsweredBefore
    <3>7. CallsInv'
      BY <1>2, <1>3, <2>1, <2>4, <3>1, <3>4, <3>5, <3>6 DEF CallsInv
    <3>8. QED
      BY <3>2, <3>3, <3>7, MovesEnds, MovesTypes DEF MissionInv
  <2>5. CASE proposed' = proposed /\ Yield("Error", Return)
    <3>1. StoreTypes' /\ ~done' /\ proposed' = 0
      BY <1>2, <1>3, <2>1, <2>2, <2>3, <2>5 DEF StoreTypes
    <3>2. QED
      BY <1>1, <2>5, <3>1, FailsInv
  <2>6. QED
    BY <1>6, <2>4, <2>5 DEF Propose
<1>7. CASE /\ records' = [records EXCEPT ![gen.pos] = "Running"]
           /\ Goto(To("tool")) \/ Goto(To("spawn"))
           /\ UNCHANGED << results, ask, proposed, done >>
  <2>1. /\ gen' \in Generator /\ gen'.pc \in {"tool", "spawn"} /\ gen'.turn = gen.turn
        /\ out' = "none" /\ gen'.pos = gen.pos
    BY <1>1, <1>7, ToOK DEF Goto, Places
  <2>2. Moves
    BY <1>1, <2>1 DEF Moves
  <2>3. /\ records' \in Seq({"Planned", "Running", "Ended"}) /\ Len(records') = Len(records)
        /\ \A i \in 1 .. gen.pos - 1 : records'[i] = records[i]
    BY <1>3, <1>7
  <2>4. StoreTypes' /\ ~done' /\ proposed' = 0
    BY <1>2, <1>3, <1>7, <2>3 DEF StoreTypes
  <2>5. (gen.pos \in 1 .. Len(records))' /\ AnsweredBefore(gen.pos)'
    BY <1>3, <1>7, <2>1, <2>3 DEF AnsweredBefore
  <2>6. QED
    BY <2>1, <2>2, <2>4, <2>5, CallStep
<1>8. QED
  BY <1>4, <1>5, <1>6, <1>7 DEF StartCall

(* A call is answered, in the loop or after a spawn: the next one is up,   *)
(* or all of the message's calls have been answered.                       *)
LEMMA AnswerCallInv ==
    ASSUME MissionInv, out = "none", gen.pc \in {"tool", "spawn", "wait"},
           AnswerCall, UNCHANGED << ends, open, autoApprove, killed >>
    PROVE  MissionInv'
<1>1. /\ ~done /\ proposed = 0 /\ gen \in Generator
      /\ UNCHANGED << ask, proposed, done >>
  BY Running DEF MissionInv, MissionTypes, AnswerCall
<1>2. CASE /\ records' = [records EXCEPT ![gen.pos] = "Ended"]
           /\ results' = results \cup {gen.pos}
           /\ Goto(NextCall)
  <2>1. gen.pos \in 1 .. Len(records) /\ AnsweredBefore(gen.pos) /\ Len(records) \in Nat
    BY DEF MissionInv, CallsInv, MissionTypes
  <2>2. /\ StoreTypes' /\ Len(records') = Len(records) /\ results' = 1 .. gen.pos
        /\ \A i \in 1 .. gen.pos : records'[i] = "Ended"
    BY <1>1, <1>2, <2>1, AnswerOK
  <2>3. gen.pos + 1 \in Nat
    BY <2>1
  <2>4. gen' = NextCall /\ out' = "none"
    BY <1>2 DEF Goto
  <2>5. /\ gen' \in Generator /\ gen'.turn = gen.turn /\ out' = "none"
        /\ gen'.pos = gen.pos + 1
        /\ gen'.pc = IF gen.pos = Len(records) THEN "exec" ELSE "call"
    <3> DEFINE p == IF gen.pos = Len(records) THEN "exec" ELSE "call"
    <3>1. p \in {"exec", "call"} /\ gen' = [gen EXCEPT !.pc = p, !.pos = @ + 1, !.waits = None]
      BY <2>4 DEF NextCall
    <3> HIDE DEF p
    <3>2. gen' \in Generator /\ gen'.turn = gen.turn /\ gen'.pos = gen.pos + 1 /\ gen'.pc = p
      BY <1>1, <2>3, <3>1 DEF Generator
    <3>3. QED
      BY <2>4, <3>2 DEF p
  <2>6. Moves
    BY <2>5 DEF Moves
  <2>7. AnsweredBefore(gen.pos)'
    BY <2>1, <2>2, <2>5 DEF AnsweredBefore
  <2>8. CASE gen.pos = Len(records)
    <3>1. gen'.pc = "exec" /\ gen'.pos = Len(records') + 1
      BY <2>2, <2>5, <2>8
    <3>2. AnsweredBefore(Len(records) + 1)'
      BY <2>1, <2>2, <2>8 DEF AnsweredBefore
    <3>3. QED
      BY <1>1, <2>2, <2>5, <2>6, <3>1, <3>2, AnsweredStep
  <2>9. CASE gen.pos # Len(records)
    <3>1. gen'.pc = "call" /\ (gen.pos \in 1 .. Len(records))'
      BY <2>1, <2>2, <2>5, <2>9
    <3>2. QED
      BY <1>1, <2>2, <2>5, <2>6, <2>7, <3>1, CallStep
  <2>10. QED
    BY <2>8, <2>9
<1>3. CASE Yield("Error", Return) /\ UNCHANGED << records, results >>
  <2>1. StoreTypes'
    BY <1>1, <1>3 DEF MissionInv, MissionTypes, StoreTypes
  <2>2. QED
    BY <1>1, <1>3, <2>1, FailsInv
<1>4. QED
  BY <1>2, <1>3 DEF AnswerCall

(* A call that spawns a child waits for it.                                *)
LEMMA SpawnStoreInv ==
    ASSUME MissionInv, NEW c \in Children, SpawnSubagent(c)
    PROVE  MissionInv'
<1>1. /\ out = "none" /\ gen.pc = "spawn" /\ gen \in Generator
      /\ UNCHANGED << ends, open, autoApprove, killed >> /\ UNCHANGED storeVars
  BY DEF SpawnSubagent, At, MissionInv, MissionTypes
<1>2. ~done /\ proposed = 0
  BY <1>1, Running
<1>3. /\ gen' \in Generator /\ gen'.pc = "wait" /\ gen'.turn = gen.turn
      /\ out' = "none" /\ gen'.pos = gen.pos
  BY <1>1 DEF SpawnSubagent, Goto, Generator
<1>4. Moves
  BY <1>1, <1>3 DEF Moves
<1>5. StoreTypes' /\ ~done' /\ proposed' = 0
  BY <1>1, <1>2 DEF MissionInv, MissionTypes, StoreTypes, storeVars
<1>6. gen.pos \in 1 .. Len(records) /\ AnsweredBefore(gen.pos)
  BY <1>1 DEF MissionInv, CallsInv
<1>7. (gen.pos \in 1 .. Len(records))' /\ AnsweredBefore(gen.pos)'
  BY <1>1, <1>3, <1>6 DEF AnsweredBefore, storeVars
<1>8. QED
  BY <1>3, <1>4, <1>5, <1>7, CallStep

(* The mission is done and the turn says so.                               *)
LEMMA FinishInv == ASSUME MissionInv, Finish PROVE MissionInv'
<1>1. /\ out = "none" /\ gen.pc = "finish" /\ gen \in Generator
      /\ UNCHANGED << ends, open, autoApprove, killed >>
  BY QuietSame DEF Finish, At, MissionInv, MissionTypes
<1>2. /\ ~done /\ proposed = 0 /\ gen.turn # 0
  BY <1>1, Running, Budgets
<1>3. CASE Fails
  BY <1>1, <1>2, <1>3, PlainFailsInv
<1>4. CASE done' = TRUE /\ Yield("Done", Return) /\ UNCHANGED << records, results, ask, proposed >>
  <2>1. gen' \in Generator /\ gen'.pc = "returned" /\ gen'.turn = gen.turn /\ out' = "Done"
    BY <1>1, <1>4, ToOK DEF Yield, Return, Places
  <2>2. Moves
    BY <1>1, <2>1 DEF Moves, EndEvents
  <2>3. StoreTypes' /\ proposed' = 0
    BY <1>2, <1>4 DEF MissionInv, MissionTypes, StoreTypes
  <2>4. EndsInv' /\ DoneInv' /\ ~Said("CommandProposed")' /\ ~Said("AskUser")'
    BY <2>1, <2>2, MovesEnds DEF EndEvents
  <2>5. ~Settled'
    BY <2>1, <2>4 DEF Settled
  <2>6. CallsInv'
    BY <1>2, <2>1, <2>3, <2>4, <2>5 DEF CallsInv
  <2>7. QED
    BY <2>2, <2>3, <2>4, <2>6, MovesTypes DEF MissionInv
<1>5. QED
  BY <1>3, <1>4 DEF Finish

-----------------------------------------------------------------------------
(* What an event adds to what a turn has said.                             *)
LEMMA Spoke ==
    ASSUME NEW s \in Seq(WireEvents), NEW e \in WireEvents
    PROVE  /\ Append(s, e) \in Seq(WireEvents)
           /\ \A f : Holds(Append(s, e), f) <=> Holds(s, f) \/ f = e
           /\ e = "Uncounted" /\ Silent(s) => Silent(Append(s, e))
           /\ e = "Uncounted" /\ Once(s) => Once(Append(s, e))
           /\ e # "Uncounted" /\ Silent(s) => Once(Append(s, e))
<1> DEFINE u == Append(s, e)
<1>1. /\ u \in Seq(WireEvents) /\ Len(u) = Len(s) + 1 /\ Len(s) \in Nat
      /\ u[Len(s) + 1] = e /\ \A i \in 1 .. Len(s) : u[i] = s[i]
  OBVIOUS
<1> HIDE DEF u
<1>2. \A f : Holds(u, f) <=> Holds(s, f) \/ f = e
  BY <1>1 DEF Holds
<1>3. e = "Uncounted" /\ Silent(s) => Silent(u)
  BY <1>1 DEF Silent
<1>4. ASSUME e = "Uncounted", Once(s) PROVE Once(u)
  <2>1. \E f \in EndEvents : Holds(u, f)
    BY <1>2, <1>4 DEF Once
  <2>2. \A i \in 1 .. Len(u) : u[i] # "Uncounted" => i \in 1 .. Len(s) /\ s[i] # "Uncounted"
    BY <1>1, <1>4
  <2>3. QED
    BY <1>4, <2>1, <2>2 DEF Once
<1>5. ASSUME e # "Uncounted", Silent(s) PROVE Once(u)
  <2>1. e \in EndEvents
    BY <1>5 DEF WireEvents
  <2>2. \E f \in EndEvents : Holds(u, f)
    BY <1>2, <2>1
  <2>3. \A i \in 1 .. Len(u) : u[i] # "Uncounted" => i = Len(s) + 1
    BY <1>1, <1>5 DEF Silent
  <2>4. QED
    BY <2>2, <2>3 DEF Once
<1>6. QED
  BY <1>1, <1>2, <1>3, <1>4, <1>5 DEF u

(* A turn that has spoken once has said one thing; a silent one none.      *)
LEMMA OnceSays ==
    ASSUME NEW s
    PROVE  /\ Once(s) => \A e, f \in EndEvents : Holds(s, e) /\ Holds(s, f) => e = f
           /\ Silent(s) => \A e \in EndEvents : ~Holds(s, e)
<1>1. "Uncounted" \notin EndEvents
  BY DEF EndEvents
<1>2. QED
  BY <1>1 DEF Once, Silent, Holds

(* Nothing has been said at first.                                         *)
LEMMA EmptySilent == Silent(<< >>)
BY DEF Silent

(* A new turn starts: the previous one has spoken, and unless it waits for *)
(* a decision no call is open.                                             *)
LEMMA StartTurnEnds ==
    ASSUME MissionInv, NEW pc \in {"prompt", "answer", "decision"}, StartTurn(pc),
           gen.turn = 0 \/ (gen.turn > 0 /\ Spoken), ~done
    PROVE  /\ MissionTypes' /\ EndsInv' /\ DoneInv'
           /\ gen'.pc = pc /\ out' = "none" /\ gen'.turn # 0
           /\ \A e \in EndEvents : ~Said(e)'
           /\ UNCHANGED storeVars
<1>1. /\ gen \in Generator /\ gen.turn \in Nat /\ gen.turn + 1 \in Streams
      /\ ends \in [Streams -> Seq(WireEvents)] /\ EndsInv
  BY Budgets DEF MissionInv, MissionTypes, StartTurn, Generator
<1>2. /\ gen' \in Generator /\ gen'.pc = pc /\ gen'.turn = gen.turn + 1
  BY <1>1 DEF StartTurn, Generator
<1>3. /\ out' = "none" /\ ends' = ends /\ gen'.turn \in open'
      /\ UNCHANGED << autoApprove, killed >> /\ UNCHANGED storeVars
  BY <1>2 DEF StartTurn, AttachEventSink
<1>4. MissionTypes'
  BY <1>2, <1>3 DEF MissionInv, MissionTypes, storeVars
<1>5. ~Spoken' /\ ~done'
  BY <1>2, <1>3 DEF Spoken, storeVars
<1>6. \A e \in EndEvents : ~Said(e)'
  BY <1>3, <1>5 DEF Said, EndEvents
<1>7. EndsInv'
  <2>1. \A t \in Streams : t < gen'.turn => Once(ends[t])
    <3> SUFFICES ASSUME NEW t \in Streams, t < gen'.turn PROVE Once(ends[t])
      OBVIOUS
    <3>1. t \in Nat /\ t >= 1
      BY Budgets
    <3>2. CASE t < gen.turn
      BY <1>1, <3>2 DEF EndsInv
    <3>3. CASE t = gen.turn
      <4>1. gen.turn > 0 /\ gen.turn # 0
        BY <3>1, <3>3
      <4>2. Spoken
        BY <4>1
      <4>3. QED
        BY <1>1, <3>3, <4>1, <4>2 DEF EndsInv
    <3>4. QED
      BY <1>1, <1>2, <3>1, <3>2, <3>3
  <2>2. \A t \in Streams : t >= gen'.turn => ends[t] = << >>
    BY <1>1, <1>2, Budgets DEF EndsInv
  <2>3. Silent(ends[gen'.turn])
    BY <1>1, <1>2, <2>2, EmptySilent
  <2>4. gen'.turn # 0 /\ gen'.turn \in Nat
    BY <1>1, <1>2
  <2>5. \A t \in Streams : t > gen'.turn => ends[t] = << >>
    BY <1>1, <1>2, Budgets DEF EndsInv
  <2>6. \A t \in open' : t \in Streams /\ t <= gen'.turn
    <3>1. open' = open \cup {gen.turn + 1}
      BY DEF StartTurn, AttachEventSink
    <3>2. \A t \in open : t \in Streams /\ t <= gen.turn /\ t \in Nat
      BY <1>1, Budgets DEF EndsInv, MissionInv
    <3>3. QED
      BY <1>1, <1>2, <3>1, <3>2
  <2>7. QED
    BY <1>2, <1>3, <1>5, <2>1, <2>3, <2>4, <2>5, <2>6 DEF EndsInv
<1>8. DoneInv'
  BY <1>5 DEF DoneInv
<1>9. gen'.turn # 0
  BY <1>1, <1>2
<1>10. QED
  BY <1>2, <1>3, <1>4, <1>6, <1>7, <1>8, <1>9

(* The first turn starts, with an empty store.                             *)
LEMMA RunTurnInv == ASSUME MissionInv, RunTurn PROVE MissionInv'
<1>1. gen.turn = 0 /\ StartTurn("prompt")
  BY DEF RunTurn
<1>2. gen.pc = "off" /\ out = "none" /\ records = << >>
  BY <1>1 DEF MissionInv, EndsInv, CallsInv
<1>3. \A e \in EndEvents : ~Said(e)
  BY <1>1, <1>2 DEF Said, EndEvents
<1>4. ~done /\ proposed = 0
  BY <1>2, <1>3 DEF MissionInv, DoneInv, CallsInv, EndEvents
<1>5. results = {} /\ Len(records) = 0
  BY <1>2 DEF MissionInv, MissionTypes
<1>6. /\ MissionTypes' /\ EndsInv' /\ DoneInv'
      /\ gen'.pc = "prompt" /\ out' = "none" /\ gen'.turn # 0
      /\ \A e \in EndEvents : ~Said(e)'
      /\ UNCHANGED storeVars
  BY <1>1, <1>4, StartTurnEnds
<1>7. AnsweredBefore(Len(records) + 1)'
  BY <1>5, <1>6 DEF AnsweredBefore, storeVars
<1>8. CallsInv'
  BY <1>4, <1>6, <1>7 DEF CallsInv, EndEvents, storeVars
<1>9. QED
  BY <1>6, <1>8 DEF MissionInv

(* A suspended turn has said exactly why.                                  *)
LEMMA SuspendedOK ==
    ASSUME MissionInv, NEW e \in EndEvents, Suspended(e)
    PROVE  Spoken /\ Said(e) /\ gen.turn > 0
           /\ \A f \in EndEvents : Said(f) => f = e
<1>1. Spoken /\ gen.turn > 0 /\ out = "none" /\ Holds(ends[gen.turn], e)
  BY DEF Suspended, Spoken, Holds
<1>2. Said(e)
  BY <1>1 DEF Said
<1>3. Once(ends[gen.turn])
  BY <1>1 DEF MissionInv, EndsInv
<1>4. \A f \in EndEvents : Said(f) => Holds(ends[gen.turn], f)
  BY <1>1 DEF Said, EndEvents
<1>5. QED
  BY <1>1, <1>2, <1>3, <1>4, OnceSays

(* A turn that asked the user is resumed: no call is open.                 *)
LEMMA ResumeTurnInv == ASSUME MissionInv, ResumeTurn PROVE MissionInv'
<1>1. Spoken /\ Said("AskUser") /\ gen.turn > 0
      /\ \A f \in EndEvents : Said(f) => f = "AskUser"
  BY SuspendedOK DEF ResumeTurn, EndEvents
<1>2. ~Said("Done") /\ ~Said("CommandProposed") /\ ~Said("Error")
  BY <1>1 DEF EndEvents
<1>3. ~done
  BY <1>2 DEF MissionInv, DoneInv
<1>4. gen.pc # "decision"
  BY <1>1 DEF Spoken
<1>5. proposed = 0
  BY <1>2, <1>4 DEF MissionInv, CallsInv
<1>6. AnsweredBefore(Len(records) + 1)
  BY <1>1 DEF MissionInv, CallsInv, Settled
<1>7. /\ MissionTypes' /\ EndsInv' /\ DoneInv'
      /\ gen'.pc = "answer" /\ out' = "none" /\ gen'.turn # 0
      /\ \A e \in EndEvents : ~Said(e)'
      /\ UNCHANGED storeVars
  BY <1>1, <1>3, StartTurnEnds DEF ResumeTurn
<1>8. AnsweredBefore(Len(records) + 1)'
  BY <1>6, <1>7 DEF AnsweredBefore, storeVars
<1>9. CallsInv'
  BY <1>5, <1>7, <1>8 DEF CallsInv, EndEvents, storeVars
<1>10. QED
  BY <1>7, <1>9 DEF MissionInv

(* A turn that proposed a command is resumed: its call is open.            *)
LEMMA ResumeCommandInv == ASSUME MissionInv, ResumeCommand PROVE MissionInv'
<1>1. Spoken /\ Said("CommandProposed") /\ gen.turn > 0
      /\ \A f \in EndEvents : Said(f) => f = "CommandProposed"
  BY SuspendedOK DEF ResumeCommand, EndEvents
<1>2. ~Said("Done")
  BY <1>1 DEF EndEvents
<1>3. ~done
  BY <1>2 DEF MissionInv, DoneInv
<1>4. /\ proposed = Len(records) /\ records[proposed] = "Running"
      /\ AnsweredBefore(proposed)
  BY <1>1 DEF MissionInv, CallsInv
<1>5. /\ MissionTypes' /\ EndsInv' /\ DoneInv'
      /\ gen'.pc = "decision" /\ out' = "none" /\ gen'.turn # 0
      /\ \A e \in EndEvents : ~Said(e)'
      /\ UNCHANGED storeVars
  BY <1>1, <1>3, StartTurnEnds DEF ResumeCommand
<1>6. ~Settled'
  BY <1>5 DEF Settled, EndEvents
<1>7. AnsweredBefore(proposed)' /\ (proposed = Len(records) /\ records[proposed] = "Running")'
  BY <1>4, <1>5 DEF AnsweredBefore, storeVars
<1>8. CallsInv'
  BY <1>5, <1>6, <1>7 DEF CallsInv, EndEvents
<1>9. QED
  BY <1>5, <1>8 DEF MissionInv

(* The merge passes on the generator's last word: the turn has spoken.     *)
LEMMA TakeEventInv == ASSUME MissionInv, TakeEvent PROVE MissionInv'
<1>1. /\ out \in EndEvents /\ out # "none" /\ gen \in Generator /\ out' = "none"
      /\ ends \in [Streams -> Seq(WireEvents)] /\ EndsInv /\ open' = open
      /\ UNCHANGED << autoApprove, killed >> /\ UNCHANGED storeVars
      /\ ends' = [ends EXCEPT ![gen.turn] = Append(@, out)]
  BY DEF TakeEvent, MissionInv, MissionTypes, agentVars
<1>2. gen.pc # "off" /\ gen.turn # 0 /\ gen.turn \in Streams /\ ~Spoken
  BY <1>1 DEF EndsInv, Spoken, Generator
<1>3. gen.turn > 0 /\ gen.turn \in Nat /\ Streams \subseteq Nat
  <2>1. Streams \subseteq Nat
    BY Budgets
  <2>2. gen.turn \in Nat /\ gen.turn # 0
    BY <1>2, <2>1
  <2>3. QED
    BY <2>1, <2>2
<1>4. Silent(ends[gen.turn]) /\ ends[gen.turn] \in Seq(WireEvents)
  BY <1>1, <1>2, <1>3 DEF EndsInv
<1>5. PICK s : s = Append(ends[gen.turn], out)
  OBVIOUS
<1>6. /\ s \in Seq(WireEvents) /\ Once(s)
      /\ \A e \in EndEvents : Holds(s, e) <=> e = out
  <2>1. out \in WireEvents /\ out # "Uncounted"
    BY <1>1 DEF WireEvents, EndEvents
  <2>2. \A e \in EndEvents : ~Holds(ends[gen.turn], e)
    BY <1>4, OnceSays
  <2>3. QED
    BY <1>4, <1>5, <2>1, <2>2, Spoke
<1>7. /\ ends'[gen.turn] = s /\ ends' \in [Streams -> Seq(WireEvents)]
      /\ \A t \in Streams \ {gen.turn} : ends'[t] = ends[t]
  BY <1>1, <1>2, <1>5, <1>6
<1>8. /\ gen' \in Generator /\ gen'.turn = gen.turn
      /\ IF out \in {"Done", "Error"} THEN gen'.pc = "off"
         ELSE gen'.pc = "returned" /\ gen.turn \in open
  <2>1. CASE out \in {"Done", "Error"}
    BY <1>1, <2>1, ToOK DEF TakeEvent, Places
  <2>2. CASE out \notin {"Done", "Error"}
    <3>1. gen' = gen
      BY <2>2 DEF TakeEvent
    <3>2. out \in {"AskUser", "CommandProposed"}
      BY <1>1, <2>2 DEF EndEvents
    <3>3. gen.pc = "returned" /\ gen.turn \in open
      BY <1>1, <1>2, <3>2 DEF EndsInv
    <3>4. QED
      BY <1>1, <2>2, <3>1, <3>3
  <2>3. QED
    BY <2>1, <2>2
<1>9. MissionTypes'
  BY <1>1, <1>7, <1>8 DEF MissionInv, MissionTypes, storeVars
<1>10. Spoken' /\ gen'.pc \in {"off", "returned"}
  BY <1>1, <1>8 DEF Spoken
<1>11. EndsInv'
  <2>1. \A t \in Streams : t < gen.turn => Once(ends'[t])
    BY <1>1, <1>3, <1>7 DEF EndsInv
  <2>2. \A t \in Streams : t > gen.turn => ends'[t] = << >>
    BY <1>1, <1>3, <1>7 DEF EndsInv
  <2>3. gen'.pc # "off" => gen'.turn \in open'
    BY <1>1, <1>8
  <2>4. Once(ends'[gen.turn])
    BY <1>6, <1>7
  <2>5. QED
    BY <1>1, <1>2, <1>8, <1>10, <2>1, <2>2, <2>3, <2>4 DEF EndsInv
<1>12. \A e \in EndEvents : Said(e)' <=> e = out
  <2>1. ASSUME NEW e \in EndEvents PROVE Said(e)' <=> Holds(s, e)
    BY <1>1, <1>3, <1>7, <1>8, <1>10, <2>1 DEF Said, EndEvents
  <2>2. QED
    BY <1>6, <2>1
<1>13. \A e \in EndEvents : Said(e) <=> e = out
  BY <1>1, <1>2 DEF Said
<1>14. DoneInv'
  BY <1>1, <1>12, <1>13 DEF MissionInv, DoneInv, EndEvents, storeVars
<1>15. CallsInv'
  <2>1. UNCHANGED << records, results, proposed >>
    BY <1>1 DEF storeVars
  <2>2. Said("AskUser")' <=> Said("AskUser")
    BY <1>12, <1>13 DEF EndEvents
  <2>3. Said("CommandProposed")' <=> Said("CommandProposed")
    BY <1>12, <1>13 DEF EndEvents
  <2>4. Settled' => Settled
    BY <1>10, <2>2 DEF Settled
  <2>5. Settled' => AnsweredBefore(Len(records) + 1)'
    BY <2>1, <2>4 DEF MissionInv, CallsInv, AnsweredBefore
  <2>6. proposed' # 0 => /\ Said("CommandProposed")' \/ Said("Error")'
                         /\ (proposed = Len(records) /\ records[proposed] = "Running")'
                         /\ AnsweredBefore(proposed)'
    <3>1. Said("Error")' <=> Said("Error")
      BY <1>12, <1>13 DEF EndEvents
    <3>2. QED
      BY <1>1, <2>1, <2>3, <3>1 DEF MissionInv, CallsInv, AnsweredBefore
  <2>7. Said("CommandProposed")' => proposed' # 0
    BY <2>1, <2>3 DEF MissionInv, CallsInv
  <2>8. QED
    BY <1>2, <1>8, <1>10, <2>5, <2>6, <2>7 DEF CallsInv
<1>16. QED
  BY <1>9, <1>11, <1>14, <1>15 DEF MissionInv

(* A stream ends: an older one, or the current one when the generator has  *)
(* returned and its last word was taken.                                   *)
LEMMA StreamEndsInv ==
    ASSUME MissionInv, NEW t \in Streams, StreamEnds(t)
    PROVE  MissionInv'
<1>1. /\ gen \in Generator /\ EndsInv /\ ends' = ends /\ out' = out /\ open' = open \ {t}
      /\ UNCHANGED << autoApprove, killed >> /\ UNCHANGED storeVars
      /\ t \in Nat /\ t # 0
  BY Budgets DEF StreamEnds, MissionInv, MissionTypes
<1>2. CASE t # gen.turn
  <2>1. gen' = gen
    BY <1>2 DEF StreamEnds
  <2>2. MissionTypes' /\ EndsInv'
    BY <1>1, <1>2, <2>1 DEF MissionInv, MissionTypes, EndsInv, Spoken, storeVars
  <2>3. DoneInv' /\ CallsInv'
    BY <1>1, <2>1 DEF MissionInv, DoneInv, CallsInv, Said, Spoken, Settled,
                      AnsweredBefore, storeVars
  <2>4. QED
    BY <2>2, <2>3 DEF MissionInv
<1>3. CASE t = gen.turn
  <2>1. gen.pc \in {"off", "returned"} /\ out = "none" /\ gen' = Gone("off")
    BY <1>1, <1>3 DEF StreamEnds, At
  <2>2. gen' \in Generator /\ gen'.pc = "off" /\ gen'.turn = gen.turn
    BY <1>1, <2>1, ToOK DEF Places
  <2>3. Spoken /\ Spoken'
    BY <2>1, <2>2 DEF Spoken
  <2>4. MissionTypes'
    BY <1>1, <2>2 DEF MissionInv, MissionTypes, storeVars
  <2>5. EndsInv'
    BY <1>1, <1>3, <2>1, <2>2, <2>3 DEF EndsInv
  <2>6. \A e \in EndEvents : Said(e)' <=> Said(e)
    BY <1>1, <2>2, <2>3 DEF Said
  <2>7. DoneInv'
    BY <1>1, <2>6 DEF MissionInv, DoneInv, EndEvents, storeVars
  <2>8. Settled' => Settled
    BY <2>2, <2>6 DEF Settled, EndEvents
  <2>9. CallsInv'
    BY <1>1, <1>3, <2>1, <2>2, <2>6, <2>8
    DEF MissionInv, CallsInv, AnsweredBefore, EndEvents, storeVars
  <2>10. QED
    BY <2>4, <2>5, <2>7, <2>9 DEF MissionInv
<1>4. QED
  BY <1>2, <1>3

(* A count that is not recorded adds nothing to what the turns have said.  *)
LEMMA CountFailsInv ==
    ASSUME MissionInv, NEW t \in Streams, CountFails(t), t \in open,
           t <= gen.turn, open' = open,
           UNCHANGED << gen, out, storeVars, autoApprove, killed >>
    PROVE  MissionInv'
<1>1. /\ gen \in Generator /\ gen.turn \in Nat /\ EndsInv /\ t \in Nat /\ t # 0
      /\ ends \in [Streams -> Seq(WireEvents)] /\ ends[t] \in Seq(WireEvents)
      /\ ends' = [ends EXCEPT ![t] = Append(@, "Uncounted")]
  <2>1. gen \in Generator /\ ends \in [Streams -> Seq(WireEvents)] /\ EndsInv
    BY DEF MissionInv, MissionTypes
  <2>2. gen.turn \in Streams \cup {0}
    BY <2>1 DEF Generator
  <2>3. gen.turn \in Nat /\ t \in Nat /\ t # 0
    <3>1. \A u \in Streams : u \in Nat /\ u # 0
      BY Budgets
    <3>2. t \in Nat /\ t # 0
      BY <3>1
    <3>3. gen.turn \in Nat
      BY <2>2, <3>1
    <3>4. QED
      BY <3>2, <3>3
  <2>4. ends' = [ends EXCEPT ![t] = Append(@, "Uncounted")]
    BY DEF CountFails
  <2>5. QED
    BY <2>1, <2>3, <2>4
<1>2. PICK s : s = Append(ends[t], "Uncounted")
  OBVIOUS
<1>3. /\ s \in Seq(WireEvents) /\ (Silent(ends[t]) => Silent(s)) /\ (Once(ends[t]) => Once(s))
      /\ \A e \in EndEvents : Holds(s, e) <=> Holds(ends[t], e)
  <2>1. "Uncounted" \in WireEvents /\ "Uncounted" \notin EndEvents
    BY DEF WireEvents, EndEvents
  <2>2. QED
    BY <1>1, <1>2, <2>1, Spoke
<1>4. /\ ends' \in [Streams -> Seq(WireEvents)] /\ ends'[t] = s
      /\ \A u \in Streams : u # t => ends'[u] = ends[u]
  BY <1>1, <1>2, <1>3
<1>5. \A u \in Streams : /\ Silent(ends[u]) => Silent(ends'[u])
                         /\ Once(ends[u]) => Once(ends'[u])
                         /\ \A e \in EndEvents : Holds(ends'[u], e) <=> Holds(ends[u], e)
  BY <1>3, <1>4
<1>6. Spoken' <=> Spoken
  BY DEF Spoken
<1>7. gen.turn \in Streams
  BY <1>1, Budgets DEF Generator
<1>8. MissionTypes'
  BY <1>4 DEF MissionInv, MissionTypes, storeVars
<1>9. EndsInv'
  <2>1. \A u \in Streams : u > gen.turn => ends'[u] = << >>
    BY <1>1, <1>4, Budgets DEF EndsInv
  <2>2. QED
    BY <1>1, <1>5, <1>6, <1>7, <2>1 DEF EndsInv
<1>10. \A e \in EndEvents : Said(e)' <=> Said(e)
  BY <1>5, <1>6, <1>7 DEF Said
<1>11. DoneInv'
  BY <1>10 DEF MissionInv, DoneInv, EndEvents, storeVars
<1>12. CallsInv'
  <2>1. Settled' <=> Settled
    BY <1>10 DEF Settled, EndEvents
  <2>2. QED
    BY <1>10, <2>1 DEF MissionInv, CallsInv, AnsweredBefore, EndEvents, storeVars
<1>13. QED
  BY <1>8, <1>9, <1>11, <1>12 DEF MissionInv

(* A step of the sub-agents, or a kill, leaves the turn alone.             *)
LEMMA AgentStepMission ==
    ASSUME MissionInv, open' = open, killed' \in 0 .. MaxKills,
           UNCHANGED << gen, out, ends, storeVars, autoApprove >>
    PROVE  MissionInv'
<1>1. MissionTypes' /\ EndsInv'
  BY DEF MissionInv, MissionTypes, EndsInv, Spoken, storeVars
<1>2. DoneInv' /\ CallsInv'
  BY DEF MissionInv, DoneInv, CallsInv, Said, Spoken, Settled, AnsweredBefore, storeVars
<1>3. QED
  BY <1>1, <1>2 DEF MissionInv

-----------------------------------------------------------------------------
(* No child is registered at first.                                        *)
LEMMA InitAgentInv == ASSUME SubAgentsInit PROVE AgentInv
<1> DEFINE e == [status |-> "Absent", parent |-> None, depth |-> 0, own |-> FALSE,
                 total |-> 0, reported |-> 0]
           t == [pc |-> "none", then |-> "none", status |-> "Running", turns |-> 0,
                 calls |-> 0, todo |-> 0, sender |-> 0, waits |-> None]
<1>1. /\ e \in Entry /\ e.status = "Absent" /\ e.reported = 0 /\ e.total = 0 /\ e.depth = 0
  BY DEF Entry, Statuses, Ended
<1>2. /\ t \in Task /\ t.pc = "none" /\ t.status = "Running" /\ t.turns = 0 /\ t.calls = 0
  BY DEF Task, Statuses, Ended
<1>3. children = [c \in Children |-> e] /\ tasks = [c \in Children |-> t]
  BY DEF SubAgentsInit
<1> HIDE DEF e, t
<1>4. EntryOK(e)
  BY <1>1, Budgets DEF EntryOK
<1>5. TaskOK(t)
  BY <1>2, Budgets DEF TaskOK, Final
<1>6. OutcomeOK(e, t, FALSE, << >>)
  BY <1>1, <1>2 DEF OutcomeOK, Reporting, Ended
<1>7. /\ told \in [Children -> Seq(Ended)] /\ \A c \in Children : told[c] = << >>
      /\ delivered \in [Children -> Nat] /\ \A c \in Children : delivered[c] = 0
      /\ kills = {} /\ cancel = FALSE /\ stopping = "no" /\ sink = 0 /\ open = {}
  BY DEF SubAgentsInit
<1>8. \A c \in Children : (c \in kills) = FALSE
  BY <1>7
<1>9. \A c \in Children : OutcomeOK(children[c], tasks[c], c \in kills, told[c])
  BY <1>3, <1>6, <1>7, <1>8
<1>10. children \in [Children -> Entry] /\ tasks \in [Children -> Task]
  BY <1>1, <1>2, <1>3
<1>11. \A c \in Children : EntryOK(children[c]) /\ TaskOK(tasks[c])
  BY <1>3, <1>4, <1>5
<1>12. \A c \in Children : delivered[c] <= children[c].reported
  BY <1>1, <1>3, <1>7
<1>13. kills \subseteq Children /\ cancel \in BOOLEAN
       /\ stopping \in {"no", "walk", "done"}
       /\ sink \in Streams \cup {0} /\ open \subseteq Streams
  BY <1>7
<1>14. QED
  BY <1>7, <1>9, <1>10, <1>11, <1>12, <1>13 DEF AgentInv

(* No turn has started at first.                                           *)
LEMMA InitMissionInv == ASSUME Init PROVE MissionInv
<1>1. /\ gen = [pc |-> "off", turn |-> 0, step |-> 0, pos |-> 0, waits |-> None]
      /\ out = "none" /\ ends = [t \in Streams |-> << >>]
      /\ records = << >> /\ results = {} /\ ask = FALSE /\ proposed = 0 /\ done = FALSE
      /\ autoApprove \in AutoApprove /\ killed = 0
  BY DEF Init
<1>2. gen \in Generator /\ gen.pc = "off" /\ gen.turn = 0
  BY <1>1 DEF Generator
<1>3. MissionTypes
  <2>1. ends \in [Streams -> Seq(WireEvents)]
    BY <1>1
  <2>2. records \in Seq({"Planned", "Running", "Ended"}) /\ Len(records) = 0
        /\ Len(records) <= MaxBatch
    BY <1>1, MissionAssumption
  <2>3. ask \in BOOLEAN /\ done \in BOOLEAN /\ autoApprove \in BOOLEAN
    BY <1>1, MissionAssumption
  <2>4. proposed \in 0 .. Len(records) /\ killed \in 0 .. MaxKills
    BY <1>1, <2>2, MissionAssumption
  <2>5. results \subseteq 1 .. Len(records) /\ out \in EndEvents \cup {"none"}
    BY <1>1
  <2>6. QED
    BY <1>2, <2>1, <2>2, <2>3, <2>4, <2>5 DEF MissionTypes
<1>4. EndsInv
  <2>1. open = {} /\ \A t \in Streams : ends[t] = << >> /\ ~(t < 0)
    BY <1>1, Budgets DEF Init, SubAgentsInit
  <2>2. QED
    BY <1>1, <1>2, <2>1 DEF EndsInv
<1>5. DoneInv
  BY <1>1 DEF DoneInv
<1>6. \A e \in EndEvents : ~Said(e)
  BY <1>1, <1>2 DEF Said, EndEvents
<1>7. CallsInv
  BY <1>1, <1>2, <1>6 DEF CallsInv, Settled, EndEvents
<1>8. QED
  BY <1>3, <1>4, <1>5, <1>7 DEF MissionInv

(* No count is on its way at first.                                        *)
LEMMA InitQueueInv == ASSUME SubAgentsInit PROVE QueueInv
BY DEF SubAgentsInit, QueueInv

(* Every step keeps what relates the records, the tasks and the reports.   *)
LEMMA NextAgentInv ==
    ASSUME AgentInv, [Next]_vars
    PROVE  AgentInv'
<1>1. CASE UNCHANGED vars
  BY <1>1, OnlyOpenInv DEF vars, agentVars
<1>2. CASE RunTurn \/ ResumeTurn \/ ResumeCommand
  <2>1. gen.turn + 1 \in Streams /\ AttachEventSink(gen.turn + 1)
        /\ UNCHANGED << tasks, cancel, stopping, kills, told >>
    BY <1>2 DEF RunTurn, ResumeTurn, ResumeCommand, StartTurn
  <2>2. QED
    BY <2>1, AttachEventSinkInv
<1>3. CASE GeneratorStep
  <2>1. CASE \E c \in Children : SpawnSubagent(c)
    BY <2>1, SpawnSubagentInv
  <2>2. CASE Quiet
    BY <2>2, OnlyOpenInv DEF Quiet, agentVars
  <2>3. QED
    BY <1>3, <2>1, <2>2 DEF GeneratorStep, InsertPrompt, AnswerAsk, ResolveCommand,
       RunDecision, LoadMission, ReasonStep, ExecuteTop, StreamReply, StartCall,
       ExecuteTool, SpawnRefused, SubagentReturns, Finish
<1>4. CASE TakeEvent \/ OwnCountFails \/ \E t \in Streams, c \in Children : TakeCount(t, c)
  BY <1>4, OnlyOpenInv DEF TakeEvent, OwnCountFails, TakeCount, agentVars
<1>5. ASSUME NEW t \in Streams, StreamEnds(t) PROVE AgentInv'
  BY <1>5, OnlyOpenInv DEF StreamEnds
<1>6. CASE Cancel
  BY <1>6, HarnessCancelInv DEF Cancel
<1>7. ASSUME NEW c \in Children, SubAgentStep(c) PROVE AgentInv'
  BY <1>7, AnnounceSpawnInv, ChildTopInv, PublishInv, AnnouncePublishedInv,
     NoteChildUsageInv, ChildReplyInv, ChildCallInv, ChildToolInv
  DEF SubAgentStep, ChildStep
<1>8. ASSUME NEW c \in Children, SubAgentWaits(c) PROVE AgentInv'
  BY <1>8, ModelAnswersInv, ChildToolInv, ChildSpawnsInv DEF SubAgentWaits, ChildWaits
<1>9. ASSUME NEW c \in Children, ReportCancelled(c) PROVE AgentInv'
  BY <1>9, AnnounceCancelledInv DEF ReportCancelled
<1>10. ASSUME NEW c \in Children, Kill(c) PROVE AgentInv'
  BY <1>10, CancelSubagentInv DEF Kill
<1>11. QED
  BY <1>1, <1>2, <1>3, <1>4, <1>5, <1>6, <1>7, <1>8, <1>9, <1>10 DEF Next

(* The children's own steps leave the streams alone.                       *)
LEMMA ChildStepsKeepOpen ==
    ASSUME NEW c \in Children,
           ChildStep(c) \/ ChildWaits(c) \/ AnnounceCancelled(c) \/ HarnessCancel
               \/ CancelSubagent(c)
    PROVE  open' = open
BY DEF ChildStep, ChildWaits, AnnounceSpawn, ChildTop, Publish, AnnouncePublished,
   NoteChildUsage, ChildReply, ChildCall, ChildSpawnReturns, ModelAnswers, ChildTool,
   ChildSpawns, AnnounceCancelled, HarnessCancel, CancelSubagent

(* The counts in a channel are sent by children and by attaching turns,    *)
(* and taken one by one.                                                   *)
LEMMA NextQueueInv ==
    ASSUME QueueInv, [Next]_vars
    PROVE  QueueInv'
<1>1. CASE UNCHANGED queued
  BY <1>1 DEF QueueInv
<1>2. ASSUME NEW t \in Streams, AttachEventSink(t) PROVE QueueInv'
  BY <1>2 DEF QueueInv, AttachEventSink
<1>3. ASSUME NEW c \in Children, NoteChildUsage(c) PROVE QueueInv'
  BY <1>3 DEF QueueInv, NoteChildUsage, SendCount
<1>4. ASSUME NEW t \in Streams, NEW c \in Children, TakeCount(t, c) PROVE QueueInv'
  BY <1>4 DEF QueueInv, TakeCount
<1>5. CASE RunTurn \/ ResumeTurn \/ ResumeCommand
  BY <1>2, <1>5 DEF RunTurn, ResumeTurn, ResumeCommand, StartTurn
<1>6. CASE GeneratorStep
  BY <1>1, <1>6 DEF GeneratorStep, InsertPrompt, AnswerAsk, ResolveCommand,
     RunDecision, LoadMission, ReasonStep, ExecuteTop, StreamReply, StartCall,
     ExecuteTool, SpawnRefused, SubagentReturns, Finish, SpawnSubagent, Quiet, agentVars
<1>7. CASE TakeEvent \/ OwnCountFails \/ \E t \in Streams : StreamEnds(t)
  BY <1>1, <1>7 DEF TakeEvent, OwnCountFails, StreamEnds, agentVars
<1>8. CASE Cancel
  BY <1>1, <1>8 DEF Cancel, HarnessCancel
<1>9. ASSUME NEW c \in Children,
             SubAgentStep(c) \/ SubAgentWaits(c) \/ ReportCancelled(c) \/ Kill(c)
      PROVE  QueueInv'
  BY <1>1, <1>3, <1>9
  DEF SubAgentStep, SubAgentWaits, ReportCancelled, Kill, ChildStep, ChildWaits,
      AnnounceSpawn, ChildTop, Publish, AnnouncePublished, ChildReply, ChildCall,
      ChildSpawnReturns, ModelAnswers, ChildTool, ChildSpawns, AnnounceCancelled,
      CancelSubagent
<1>10. CASE UNCHANGED vars
  BY <1>1, <1>10 DEF vars, agentVars
<1>11. QED
  BY <1>4, <1>5, <1>6, <1>7, <1>8, <1>9, <1>10 DEF Next

(* Every step keeps what relates the generator, the turns and the calls.   *)
LEMMA NextMissionInv ==
    ASSUME MissionInv, [Next]_vars
    PROVE  MissionInv'
<1>1. killed \in 0 .. MaxKills /\ MaxKills \in Nat
  BY MissionAssumption DEF MissionInv, MissionTypes
<1>2. ASSUME UNCHANGED missionVars, open' = open PROVE MissionInv'
  BY <1>1, <1>2, AgentStepMission DEF missionVars, storeVars
<1>3. CASE UNCHANGED vars
  BY <1>2, <1>3 DEF vars, agentVars
<1>4. CASE RunTurn \/ ResumeTurn \/ ResumeCommand
  BY <1>4, RunTurnInv, ResumeTurnInv, ResumeCommandInv
<1>5. CASE GeneratorStep
  <2>1. CASE ExecuteTool \/ SpawnRefused \/ SubagentReturns
    <3>1. /\ out = "none" /\ gen.pc \in {"tool", "spawn", "wait"} /\ AnswerCall
          /\ UNCHANGED << ends, open, autoApprove, killed >>
      BY <2>1, QuietSame DEF ExecuteTool, SpawnRefused, SubagentReturns, At
    <3>2. QED
      BY <3>1, AnswerCallInv
  <2>2. QED
    BY <1>5, <2>1, InsertPromptInv, AnswerAskInv, ResolveCommandInv, RunDecisionInv,
       LoadMissionInv, ReasonStepInv, ExecuteTopInv, StreamReplyInv, StartCallInv,
       FinishInv, SpawnStoreInv
    DEF GeneratorStep
<1>6. CASE TakeEvent \/ OwnCountFails \/ \E t \in Streams, c \in Children : TakeCount(t, c)
  <2>1. CASE OwnCountFails
    <3>1. gen.turn \in Streams /\ gen.turn \in open /\ gen.turn <= gen.turn /\ CountFails(gen.turn)
      <4>1. out = "none" /\ gen.pc \in {"reason", "stream"} /\ CountFails(gen.turn)
        BY <2>1 DEF OwnCountFails, At
      <4>2. gen.turn \in Streams
        BY <4>1, Running
      <4>3. gen.turn \in Nat
        BY <4>2, Budgets
      <4>4. QED
        BY <4>1, <4>2, <4>3 DEF MissionInv, EndsInv
    <3>2. open' = open /\ UNCHANGED << gen, out, storeVars, autoApprove, killed >>
      BY <2>1 DEF OwnCountFails, agentVars
    <3>3. QED
      BY <3>1, <3>2, CountFailsInv
  <2>2. ASSUME NEW t \in Streams, NEW c \in Children, TakeCount(t, c) PROVE MissionInv'
    <3>1. /\ t \in open /\ open' = open
          /\ UNCHANGED << gen, out, storeVars, autoApprove, killed >>
      BY <2>2 DEF TakeCount
    <3>2. t <= gen.turn
      BY <3>1 DEF MissionInv, EndsInv
    <3>3. CASE UNCHANGED ends
      BY <1>1, <3>1, <3>3, AgentStepMission
    <3>4. CASE CountFails(t)
      BY <3>1, <3>2, <3>4, CountFailsInv
    <3>5. QED
      BY <2>2, <3>3, <3>4 DEF TakeCount
  <2>3. QED
    BY <1>6, <2>1, <2>2, TakeEventInv
<1>7. ASSUME NEW t \in Streams, StreamEnds(t) PROVE MissionInv'
  BY <1>7, StreamEndsInv
<1>8. CASE Cancel
  <2>1. open' = open
    BY <1>8 DEF Cancel, HarnessCancel
  <2>2. QED
    BY <1>2, <1>8, <2>1 DEF Cancel
<1>9. ASSUME NEW c \in Children, SubAgentStep(c) \/ SubAgentWaits(c) \/ ReportCancelled(c)
      PROVE  MissionInv'
  BY <1>2, <1>9, ChildStepsKeepOpen DEF SubAgentStep, SubAgentWaits, ReportCancelled
<1>10. ASSUME NEW c \in Children, Kill(c) PROVE MissionInv'
  <2>1. killed' \in 0 .. MaxKills /\ open' = open
    BY <1>1, <1>10 DEF Kill, CancelSubagent
  <2>2. UNCHANGED << gen, out, ends, storeVars, autoApprove >>
    BY <1>10 DEF Kill
  <2>3. QED
    BY <2>1, <2>2, AgentStepMission
<1>11. QED
  BY <1>3, <1>4, <1>5, <1>6, <1>7, <1>8, <1>9, <1>10 DEF Next

-----------------------------------------------------------------------------
(* The invariant holds in every state of a conversation.                   *)
THEOREM Invariance == Spec => []Inv
<1>1. Init => Inv
  BY InitAgentInv, InitMissionInv, InitQueueInv DEF Inv, Init
<1>2. Inv /\ [Next]_vars => Inv'
  BY NextAgentInv, NextMissionInv, NextQueueInv DEF Inv
<1>3. QED
  BY <1>1, <1>2, PTL DEF Spec

(* Types, and with them the limits the code sets: no child is deeper than  *)
(* MAX_SUBAGENT_DEPTH, none exceeds its budget of turns and tool calls     *)
(* (budget.rs), a spend is reported only once it is counted.               *)
THEOREM MissionTypeCorrect == Spec => []TypeOK
<1>1. AgentInv /\ QueueInv => SubAgentsTypeOK
  <2> SUFFICES ASSUME AgentInv, QueueInv PROVE SubAgentsTypeOK
    OBVIOUS
  <2>1. \A c \in Children : children[c].status = "Absent" <=> tasks[c].pc = "none"
    BY DEF AgentInv, OutcomeOK
  <2>2. \A c \in Children : children[c].reported <= children[c].total
                            /\ children[c].depth <= MaxDepth
    BY DEF AgentInv, EntryOK
  <2>3. \A c \in Children : tasks[c].turns <= MaxTurns /\ tasks[c].calls <= MaxCalls
    BY DEF AgentInv, TaskOK
  <2>4. QED
    BY <2>1, <2>2, <2>3 DEF AgentInv, QueueInv, SubAgentsTypeOK
<1>2. MissionTypes => /\ gen \in Generator
                      /\ out \in EndEvents \cup {"none"}
                      /\ ends \in [Streams -> Seq(WireEvents)]
                      /\ Len(records) <= MaxBatch
                      /\ \A i \in 1 .. Len(records) :
                             records[i] \in {"Planned", "Running", "Ended"}
                      /\ results \subseteq 1 .. Len(records)
                      /\ ask \in BOOLEAN /\ done \in BOOLEAN /\ autoApprove \in BOOLEAN
                      /\ proposed \in 0 .. Len(records)
                      /\ killed \in 0 .. MaxKills
  BY DEF MissionTypes
<1>3. Inv => TypeOK
  BY <1>1, <1>2 DEF Inv, MissionInv, TypeOK
<1>4. QED
  BY <1>3, Invariance, PTL

(* A child is reported finished at most once, with the outcome its record  *)
(* keeps (registry.rs: an ended record is not overwritten), whichever of   *)
(* its task, the user's kill and a cancellation of the harness ends it.    *)
THEOREM OutcomesAreFinal == Spec => []OneOutcome
<1>1. AgentInv => OneOutcome
  <2> SUFFICES ASSUME AgentInv, NEW c \in Children
               PROVE  /\ Len(told[c]) <= 1
                      /\ \A i \in 1 .. Len(told[c]) : told[c][i] = children[c].status
    BY DEF OneOutcome
  <2>1. OutcomeOK(children[c], tasks[c], c \in kills, told[c])
    BY DEF AgentInv
  <2>2. told[c] = << >> \/ told[c] = << children[c].status >>
    BY <2>1 DEF OutcomeOK
  <2>3. CASE told[c] = << >>
    BY <2>3
  <2>4. CASE told[c] = << children[c].status >>
    <3>1. Len(told[c]) = 1 /\ told[c][1] = children[c].status
      BY <2>4
    <3>2. QED
      BY <3>1
  <2>5. QED
    BY <2>2, <2>3, <2>4
<1>2. QED
  BY <1>1, Invariance, PTL DEF Inv

(* A child whose task is gone has a record that ended, and its end was     *)
(* reported or a cancellation is about to report it (run.rs: an unwinding  *)
(* loop leaves Failed).                                                    *)
THEOREM NoneLeftRunning == Spec => []NeverLeftRunning
<1>1. AgentInv => NeverLeftRunning
  <2> SUFFICES ASSUME AgentInv, NEW c \in Children, tasks[c].pc = "over"
               PROVE  children[c].status \in Ended /\ (c \in kills \/ Len(told[c]) = 1)
    BY DEF NeverLeftRunning
  <2>1. OutcomeOK(children[c], tasks[c], c \in kills, told[c])
    BY DEF AgentInv
  <2>2. children[c].status \in Ended /\ ~Reporting(tasks[c])
    BY <2>1 DEF OutcomeOK, Reporting
  <2>3. c \notin kills => told[c] = << children[c].status >>
    BY <2>1, <2>2 DEF OutcomeOK
  <2>4. QED
    BY <2>2, <2>3
<1>2. QED
  BY <1>1, Invariance, PTL DEF Inv

(* No spend of a child is counted twice, though a turn may attach between  *)
(* a child's reading of its sender and its counting (registry.rs:          *)
(* note_child_usage, attach_event_sink).                                   *)
THEOREM SpendIsReportedOnce == Spec => []SpendReportedOnce
<1>1. AgentInv => SpendReportedOnce
  <2> SUFFICES ASSUME AgentInv, NEW c \in Children
               PROVE  delivered[c] + (children[c].total - children[c].reported)
                          <= children[c].total
    BY DEF SpendReportedOnce
  <2>1. /\ children[c] \in Entry /\ delivered[c] \in Nat
        /\ delivered[c] <= children[c].reported
    BY DEF AgentInv
  <2>2. children[c].total \in Nat /\ children[c].reported \in Nat
    BY <2>1 DEF Entry
  <2>3. QED
    BY <2>1, <2>2
<1>2. QED
  BY <1>1, Invariance, PTL DEF Inv

(* Leaving aside the Errors that stand for lost counts, each turn's stream *)
(* reports one end or suspension, is not closed without it, and a turn     *)
(* that failed did not mark the mission done, although the generator goes  *)
(* on after it has reported a cancellation (mission.rs) and counts of      *)
(* sub-agents come in before and after (harness/mod.rs: recorded_usage).   *)
THEOREM TurnsEndOnce == Spec => []EndsOnce
<1>1. MissionInv => EndsOnce
  <2> SUFFICES ASSUME MissionInv, NEW t \in 1 .. gen.turn
               PROVE  /\ \A i, j \in OwnEnds(t) : i = j
                      /\ t \notin open => OwnEnds(t) # {}
                      /\ t = gen.turn /\ done => \A i \in OwnEnds(t) : ends[t][i] # "Error"
    BY DEF EndsOnce
  <2>1. gen.turn \in Streams \cup {0} /\ Cardinality(Streams) \in Nat
    BY MissionAssumption, FS_CardinalityType DEF MissionInv, MissionTypes, Generator
  <2>2. t \in Streams /\ gen.turn \in Streams /\ gen.turn \in Nat /\ t \in Nat /\ t <= gen.turn
        /\ gen.turn > 0
    BY <2>1, MissionAssumption, Budgets
  <2>3. Once(ends[t]) => OwnEnds(t) # {} /\ \A i, j \in OwnEnds(t) : i = j
    <3>1. "Uncounted" \notin EndEvents
      BY DEF EndEvents
    <3>2. QED
      BY <3>1 DEF Once, Holds, OwnEnds
  <2>4. Silent(ends[t]) => OwnEnds(t) = {}
    BY DEF Silent, OwnEnds
  <2>5. CASE t < gen.turn
    <3>1. Once(ends[t])
      BY <2>2, <2>5 DEF MissionInv, EndsInv
    <3>2. t # gen.turn
      BY <2>2, <2>5
    <3>3. QED
      BY <2>3, <3>1, <3>2
  <2>6. CASE t = gen.turn
    <3>1. IF Spoken THEN Once(ends[t]) ELSE Silent(ends[t])
      BY <2>2, <2>6 DEF MissionInv, EndsInv
    <3>2. t \notin open => Spoken
      BY <2>6 DEF MissionInv, EndsInv, Spoken
    <3>3. ASSUME done, NEW i \in OwnEnds(t), ends[t][i] = "Error" PROVE FALSE
      <4>1. Said("Done")
        BY <3>3 DEF MissionInv, DoneInv
      <4>2. Spoken
        BY <2>4, <3>1, <3>3
      <4>3. out = "none"
        BY <4>2 DEF Spoken, MissionInv, EndsInv
      <4>4. Holds(ends[t], "Done") /\ Holds(ends[t], "Error")
        BY <2>6, <3>3, <4>1, <4>3 DEF Said, Holds, OwnEnds
      <4>5. Once(ends[t])
        BY <3>1, <4>2
      <4>6. "Done" = "Error"
        BY <4>4, <4>5, OnceSays DEF EndEvents
      <4>7. QED
        BY <4>6
    <3>4. QED
      BY <2>3, <2>4, <3>1, <3>2, <3>3
  <2>7. QED
    BY <2>2, <2>5, <2>6
<1>2. QED
  BY <1>1, Invariance, PTL DEF Inv

(* When the model is asked to go on, every recorded call of the last       *)
(* message was answered; a turn that waits for a decision has one open     *)
(* call, the last, for which the command was proposed (mission.rs cuts the *)
(* message short, so that no call is left without a response).             *)
THEOREM CallsAreAnswered == Spec => []NothingUnanswered
<1>1. MissionInv => NothingUnanswered
  <2> SUFFICES ASSUME MissionInv PROVE NothingUnanswered
    OBVIOUS
  <2>1. Len(records) \in Nat
    BY DEF MissionInv, MissionTypes
  <2>2. ASSUME At("exec"), NEW i \in 1 .. Len(records) PROVE Answered(i)
    <3>1. AnsweredBefore(Len(records) + 1)
      BY <2>2 DEF MissionInv, CallsInv, Settled, At
    <3>2. QED
      BY <2>1, <2>2, <3>1 DEF AnsweredBefore, Answered
  <2>3. ASSUME Suspended("CommandProposed")
        PROVE  /\ proposed = Len(records) /\ records[proposed] = "Running"
               /\ \A i \in 1 .. Len(records) - 1 : Answered(i)
    <3>1. Said("CommandProposed")
      BY <2>3, SuspendedOK DEF EndEvents
    <3>2. /\ proposed = Len(records) /\ records[proposed] = "Running"
          /\ AnsweredBefore(proposed)
      BY <3>1 DEF MissionInv, CallsInv
    <3>3. QED
      BY <2>1, <3>2 DEF AnsweredBefore, Answered
  <2>4. QED
    BY <2>2, <2>3 DEF NothingUnanswered
<1>2. QED
  BY <1>1, Invariance, PTL DEF Inv
=============================================================================

------------------------------ MODULE SubAgents ------------------------------
(***************************************************************************)
(* The sub-agents of one harness (goble-core/src/subagent_run/).  Every    *)
(* child runs as a task of its own and owns its record; the registry holds *)
(* a shared copy, written by the child (publish) and by cancellations, and *)
(* the bit that stops the child.  Each of these changes is made under the  *)
(* registry's lock and its event is sent after the lock is released, so an *)
(* actor's change and its event are two steps here.                        *)
(*                                                                         *)
(* The events go to the turn attached last (`sink`) and reach the app in   *)
(* the order they are sent, as long as that turn's stream is open.         *)
(***************************************************************************)
EXTENDS Naturals, Sequences, FiniteSets

CONSTANTS
    Children,   \* ids of sub-agents, one per accepted spawn
    Main,       \* the conversation of the main agent
    None,
    Streams,    \* the turns of this harness, 1 .. n
    MaxDepth,   \* MAX_SUBAGENT_DEPTH
    MaxTurns,   \* CHILD_MAX_TURNS
    MaxCalls,   \* CHILD_MAX_TOOL_CALLS, and bound on the calls of a reply
    Counted     \* whether the provider reports token counts

ASSUME SubAgentsAssumption ==
    /\ Main \notin Children /\ None \notin Children
    /\ Streams \subseteq Nat \ {0}
    /\ MaxDepth \in Nat /\ MaxTurns \in Nat \ {0} /\ MaxCalls \in Nat \ {0}
    /\ Counted \in BOOLEAN

VARIABLES
    children,   \* SubAgentRegistry::children
    tasks,      \* run_child_task of each child: its own record and place
    cancel,     \* Harness::cancel, the bit every child shares
    stopping,   \* where a call of Harness::cancel is
    kills,      \* children marked by a cancellation, their event not sent
    sink,       \* SubAgentRegistry::events: the turn attached last, or 0
    open,       \* turns whose stream, and with it their receiver, exists
    told,       \* SubAgentFinished events sent for each child, in order
    delivered,  \* spend of each child handed to some turn's stream
    queued      \* counts of each child waiting in a turn's channel

agentVars == << children, tasks, cancel, stopping, kills, sink, open, told,
                delivered, queued >>

Ended == {"Completed", "Failed", "Cancelled"}
Statuses == Ended \cup {"Running"}

Entry == [status   : Statuses \cup {"Absent"},
          parent   : Children \cup {Main, None},
          depth    : Nat,
          own      : BOOLEAN,
          total    : Nat,
          reported : Nat]

Task == [pc     : {"none", "registered", "top", "publish", "emit", "model",
                   "usage", "reply", "call", "tool", "wait", "over"},
         then   : {"none", "model", "tool", "over"},
         status : Statuses,
         turns  : Nat,
         calls  : Nat,
         todo   : Nat,
         sender : Nat,
         waits  : Children \cup {None}]

SubAgentsTypeOK ==
    /\ children \in [Children -> Entry]
    /\ tasks \in [Children -> Task]
    /\ \A c \in Children : children[c].status = "Absent" <=> tasks[c].pc = "none"
    /\ \A c \in Children : children[c].reported <= children[c].total
    /\ \A c \in Children : children[c].depth <= MaxDepth
    /\ \A c \in Children : tasks[c].turns <= MaxTurns /\ tasks[c].calls <= MaxCalls
    /\ cancel \in BOOLEAN
    /\ stopping \in {"no", "walk", "done"}
    /\ kills \subseteq Children
    /\ sink \in Streams \cup {0} /\ open \subseteq Streams
    /\ told \in [Children -> Seq(Ended)]
    /\ delivered \in [Children -> Nat]
    /\ queued \in [Streams -> [Children -> Nat]]

SubAgentsInit ==
    /\ children = [c \in Children |->
           [status |-> "Absent", parent |-> None, depth |-> 0, own |-> FALSE,
            total |-> 0, reported |-> 0]]
    /\ tasks = [c \in Children |->
           [pc |-> "none", then |-> "none", status |-> "Running", turns |-> 0,
            calls |-> 0, todo |-> 0, sender |-> 0, waits |-> None]]
    /\ cancel = FALSE /\ stopping = "no" /\ kills = {}
    /\ sink = 0 /\ open = {}
    /\ told = [c \in Children |-> << >>]
    /\ delivered = [c \in Children |-> 0]
    /\ queued = [t \in Streams |-> [c \in Children |-> 0]]

-----------------------------------------------------------------------------
(* The registry.                                                           *)
Registered == {c \in Children : children[c].status # "Absent"}
Live == {c \in Children : children[c].status = "Running"}

(* Whether the child must not spend another action.                        *)
Signal(c) == cancel \/ children[c].own

(* Send one lifecycle event to the attached turn: Spawned or Progress for  *)
(* a running child, else Finished.                                         *)
Emit(c, status) ==
    told' = IF status \in Ended
            THEN [told EXCEPT ![c] = Append(@, status)] ELSE told

(* A turn attaches: spend no turn was told of is handed over, one count    *)
(* for each child, and the turn's sender replaces the last one.  (Two      *)
(* locks, one step: who reads the sender between them might as well have   *)
(* read it before, and counts after reading it in a step of its own.)      *)
AttachEventSink(t) ==
    /\ delivered' = [c \in Children |->
           delivered[c] + (children[c].total - children[c].reported)]
    /\ children' = [c \in Children |->
           [children[c] EXCEPT !.reported = children[c].total]]
    /\ queued' = [queued EXCEPT ![t] = [c \in Children |->
           IF children[c].total = children[c].reported THEN 0 ELSE 1]]
    /\ sink' = t
    /\ open' = open \cup {t}

(* spawn_child: the record is registered, then announced, then its loop is *)
(* put on a task.                                                          *)
CanSpawn(depth) == depth < MaxDepth

Register(c, parent, depth) ==
    /\ c \notin Registered
    /\ children' = [children EXCEPT ![c] =
           [@ EXCEPT !.status = "Running", !.parent = parent, !.depth = depth]]

AnnounceSpawn(c) ==
    /\ tasks[c].pc = "registered"
    /\ Emit(c, "Running")
    /\ tasks' = [tasks EXCEPT ![c].pc = "top"]
    /\ UNCHANGED << children, cancel, stopping, kills, sink, open, delivered, queued >>

(* The live children cancel_entry reaches from c: it descends only from    *)
(* records it has just ended, through the children each of them spawned,   *)
(* so it reaches the least set closed under that.                          *)
Walk(c) ==
    LET Closed(S) == /\ {c} \cap Live \subseteq S
                     /\ \A d \in Live : children[d].parent \in S => d \in S
    IN  {d \in Live : \A S \in SUBSET Live : Closed(S) => d \in S}

MarkCancelled(S) ==
    /\ children' = [c \in Children |->
           IF c \in S THEN [children[c] EXCEPT !.status = "Cancelled", !.own = TRUE]
           ELSE children[c]]
    /\ kills' = kills \cup S

(* Harness::cancel_subagent: the user kills one child.                     *)
CancelSubagent(c) ==
    /\ Walk(c) # {}
    /\ MarkCancelled(Walk(c))
    /\ UNCHANGED << tasks, cancel, stopping, sink, open, told,
                    delivered, queued >>

(* Harness::cancel: the shared bit is raised, then cancel_all marks every  *)
(* live child.                                                             *)
RaiseBit ==
    /\ cancel' = TRUE
    /\ UNCHANGED << children, kills >>

CancelAll == MarkCancelled(Live) /\ UNCHANGED cancel

HarnessCancelMarksFirst ==
    /\ \/ stopping = "no" /\ stopping' = "walk" /\ CancelAll
       \/ stopping = "walk" /\ stopping' = "done" /\ RaiseBit
    /\ UNCHANGED << tasks, sink, open, told, delivered, queued >>
HarnessCancel ==
    /\ \/ stopping = "no" /\ stopping' = "walk" /\ RaiseBit
       \/ stopping = "walk" /\ stopping' = "done" /\ CancelAll
    /\ UNCHANGED << tasks, sink, open, told, delivered, queued >>

(* The cancellation reports each child it ended, after the lock.           *)
AnnounceCancelled(c) ==
    /\ c \in kills
    /\ kills' = kills \ {c}
    /\ Emit(c, "Cancelled")
    /\ UNCHANGED << children, tasks, cancel, stopping, sink, open, delivered, queued >>

-----------------------------------------------------------------------------
(* The loop of a child, run_child_turn inside run_child_task.  The child's *)
(* own record is in tasks[c]; a step that publishes it goes on at `then`.  *)
SetTask(c, t) == tasks' = [tasks EXCEPT ![c] = t]

Publishing(t, then) == [t EXCEPT !.pc = "publish", !.then = then]

(* The run ends with this outcome and publishes it.  (Some exits publish   *)
(* it and run_child_task does again; the second write finds the record     *)
(* ended and has no effect.)                                               *)
Ending(t, status) == Publishing([t EXCEPT !.status = status], "over")

(* The prompt cannot be recorded; or the loop stops, or charges a turn     *)
(* before it spends one.                                                   *)
ChildTop(c) ==
    LET t == [tasks[c] EXCEPT !.turns = @ + 1] IN
    /\ tasks[c].pc = "top"
    /\ \/ tasks[c].turns = 0 /\ SetTask(c, Ending(tasks[c], "Failed"))
       \/ Signal(c) /\ SetTask(c, Ending(tasks[c], "Cancelled"))
       \/ ~Signal(c) /\ t.turns >= MaxTurns /\ SetTask(c, Ending(t, "Failed"))
       \/ ~Signal(c) /\ t.turns < MaxTurns /\ SetTask(c, Publishing(t, "model"))
    /\ UNCHANGED << children, cancel, stopping, kills, sink, open, told, delivered, queued >>

(* Past the publication; the locals of a run that is over are gone.        *)
Onwards(t) ==
    IF t.then = "over"
    THEN [t EXCEPT !.pc = "over", !.then = "none", !.turns = 0, !.calls = 0,
                   !.todo = 0]
    ELSE [t EXCEPT !.pc = t.then, !.then = "none"]

(* SubAgentRegistry::publish: an ended record keeps its outcome.           *)
PublishOverwrites(c) ==
    /\ tasks[c].pc = "publish"
    /\ children' = [children EXCEPT ![c].status = tasks[c].status]
    /\ tasks' = [tasks EXCEPT ![c].pc = "emit"]
    /\ UNCHANGED << cancel, stopping, kills, sink, open, told,
                    delivered, queued >>
PublishSkipsFailure(c) ==
    /\ tasks[c].pc = "publish"
    /\ IF c \in Live /\ tasks[c].status # "Failed"
       THEN /\ children' = [children EXCEPT ![c].status = tasks[c].status]
            /\ tasks' = [tasks EXCEPT ![c].pc = "emit"]
       ELSE /\ SetTask(c, Onwards(tasks[c]))
            /\ UNCHANGED children
    /\ UNCHANGED << cancel, stopping, kills, sink, open, told,
                    delivered, queued >>
Publish(c) ==
    /\ tasks[c].pc = "publish"
    /\ IF c \in Live
       THEN /\ children' = [children EXCEPT ![c].status = tasks[c].status]
            /\ tasks' = [tasks EXCEPT ![c].pc = "emit"]
       ELSE /\ SetTask(c, Onwards(tasks[c]))
            /\ UNCHANGED children
    /\ UNCHANGED << cancel, stopping, kills, sink, open, told,
                    delivered, queued >>

(* The event of an applied write: Finished or Progress.                    *)
AnnouncePublished(c) ==
    /\ tasks[c].pc = "emit"
    /\ Emit(c, tasks[c].status)
    /\ SetTask(c, Onwards(tasks[c]))
    /\ UNCHANGED << children, cancel, stopping, kills, sink, open, delivered, queued >>

(* The model call fails, or answers, with or without a token count; the    *)
(* sender the count goes to is read before the registry is locked.         *)
ModelAnswers(c) ==
    /\ tasks[c].pc = "model"
    /\ \/ SetTask(c, Ending(tasks[c], "Failed"))
       \/ ~Counted /\ SetTask(c, [tasks[c] EXCEPT !.pc = "reply"])
       \/ Counted /\ SetTask(c, [tasks[c] EXCEPT !.pc = "usage", !.sender = sink])
    /\ UNCHANGED << children, cancel, stopping, kills, sink, open, told, delivered, queued >>

(* A count sent to a turn is lost when its stream is gone.                 *)
SendCount(t, c) ==
    IF t \in open
    THEN /\ delivered' = [delivered EXCEPT ![c] = @ + 1]
         /\ queued' = [queued EXCEPT ![t][c] = @ + 1]
    ELSE UNCHANGED << delivered, queued >>

(* A call's spend counts as reported when there is a sender at all.        *)
NoteChildUsageOwed(c) ==
    /\ tasks[c].pc = "usage"
    /\ children' = [children EXCEPT ![c].total = @ + 1]
    /\ SendCount(tasks[c].sender, c)
    /\ tasks' = [tasks EXCEPT ![c].pc = "reply", ![c].sender = 0]
    /\ UNCHANGED << cancel, stopping, kills, sink, open, told >>
NoteChildUsage(c) ==
    /\ tasks[c].pc = "usage"
    /\ children' = [children EXCEPT
           ![c].total = @ + 1,
           ![c].reported = IF tasks[c].sender # 0 THEN @ + 1 ELSE @]
    /\ SendCount(tasks[c].sender, c)
    /\ tasks' = [tasks EXCEPT ![c].pc = "reply", ![c].sender = 0]
    /\ UNCHANGED << cancel, stopping, kills, sink, open, told >>

(* The reply is dropped by a cancelled child; its tokens may exhaust the   *)
(* budget, its row may fail to be written, and it answers or calls tools.  *)
ChildReply(c) ==
    /\ tasks[c].pc = "reply"
    /\ \/ Signal(c) /\ SetTask(c, Ending(tasks[c], "Cancelled"))
       \/ ~Signal(c) /\ SetTask(c, Ending(tasks[c], "Failed"))
       \/ ~Signal(c) /\ SetTask(c, Ending(tasks[c], "Completed"))
       \/ ~Signal(c) /\ \E n \in 1 .. MaxCalls :
              SetTask(c, [tasks[c] EXCEPT !.pc = "call", !.todo = n])
    /\ UNCHANGED << children, cancel, stopping, kills, sink, open, told, delivered, queued >>

(* Before each tool call: stop, or charge it.                              *)
ChildCall(c) ==
    LET t == [tasks[c] EXCEPT !.calls = @ + 1, !.todo = @ - 1] IN
    /\ tasks[c].pc = "call"
    /\ \/ Signal(c) /\ SetTask(c, Ending(tasks[c], "Cancelled"))
       \/ ~Signal(c) /\ t.calls >= MaxCalls /\ SetTask(c, Ending(t, "Failed"))
       \/ ~Signal(c) /\ t.calls < MaxCalls /\ SetTask(c, Publishing(t, "tool"))
    /\ UNCHANGED << children, cancel, stopping, kills, sink, open, told, delivered, queued >>

(* Where the loop goes when a tool has returned.                           *)
AfterTool(t) == [t EXCEPT !.pc = IF t.todo = 0 THEN "top" ELSE "call",
                          !.waits = None]

(* A tool that spawns nothing returns, or its result cannot be recorded,   *)
(* or the loop unwinds.                                                    *)
ChildTool(c) ==
    /\ tasks[c].pc = "tool"
    /\ \/ SetTask(c, AfterTool(tasks[c]))
       \/ SetTask(c, Ending(tasks[c], "Failed"))
    /\ UNCHANGED << children, cancel, stopping, kills, sink, open, told, delivered, queued >>

(* spawn_subagent as a child's tool call.                                  *)
ChildSpawns(c, d) ==
    /\ tasks[c].pc = "tool"
    /\ CanSpawn(children[c].depth)
    /\ Register(d, c, children[c].depth + 1)
    /\ tasks' = [tasks EXCEPT ![c].pc = "wait", ![c].waits = d,
                              ![d].pc = "registered"]
    /\ UNCHANGED << cancel, stopping, kills, sink, open, told,
                    delivered, queued >>

(* The spawn returns: at once for a background child, when the child is    *)
(* over, or when the foreground wait has run out; its result is recorded,  *)
(* or cannot be.                                                           *)
SpawnReturnsWhenOver(d) == tasks[d].pc = "over"
SpawnReturns(d) == tasks[d].pc # "registered"

ChildSpawnReturns(c) ==
    /\ tasks[c].pc = "wait"
    /\ SpawnReturns(tasks[c].waits)
    /\ \/ SetTask(c, AfterTool(tasks[c]))
       \/ SetTask(c, Ending([tasks[c] EXCEPT !.waits = None], "Failed"))
    /\ UNCHANGED << children, cancel, stopping, kills, sink, open, told, delivered, queued >>

ChildStep(c) ==
    \/ AnnounceSpawn(c) \/ ChildTop(c) \/ Publish(c) \/ AnnouncePublished(c)
    \/ NoteChildUsage(c) \/ ChildReply(c) \/ ChildCall(c)
    \/ ChildSpawnReturns(c)

(* The steps of a child that wait for the model or for a tool.             *)
ChildWaits(c) ==
    \/ ModelAnswers(c) \/ ChildTool(c)
    \/ \E d \in Children : ChildSpawns(c, d)
=============================================================================

------------------------------- MODULE Mission -------------------------------
(***************************************************************************)
(* A conversation of the internal harness: the turn's generator            *)
(* (goble-core/src/reasoning/mission.rs, resume.rs), the merge of its      *)
(* events with those of its sub-agents (subagent_run/events.rs), and the   *)
(* sub-agents themselves.  A run builds a fresh harness; answers and       *)
(* command decisions resume on the same one, each as a turn of its own.    *)
(*                                                                         *)
(* The generator runs only while the merge polls it: after a yield it      *)
(* waits until `out` is taken.  Of the events it yields only those that    *)
(* end or suspend a turn are kept, and the Errors that the harness puts in *)
(* the place of token counts it could not record ("Uncounted").            *)
(***************************************************************************)
EXTENDS SubAgents

CONSTANTS
    MaxBatch,            \* bound on the tool calls of one reply
    MaxReasoningSteps,   \* MAX_REASONING_STEPS
    MaxExecutionSteps,   \* MAX_EXECUTION_STEPS
    AutoApprove,         \* the settings of auto_approve to consider
    MaxKills,            \* bound on the sub-agents the user kills
    MaxEnds              \* bound on a turn's ends when a count is not recorded

ASSUME MissionAssumption ==
    /\ IsFiniteSet(Streams) /\ Streams = 1 .. Cardinality(Streams)
    /\ MaxReasoningSteps \in Nat /\ MaxExecutionSteps \in Nat /\ MaxKills \in Nat
    /\ MaxEnds \in Nat
    /\ MaxBatch \in Nat \ {0} /\ AutoApprove \subseteq BOOLEAN

VARIABLES
    gen,         \* the generator of the current turn
    out,         \* the event it has yielded, until the merge takes it
    ends,        \* the events of each turn that end or suspend one, as its app sees them
    records,     \* call records of the last assistant message, in the store
    results,     \* its calls that have a tool row
    ask,         \* a pending_asks row is pending
    proposed,    \* the call with a pending row in pending_commands, or 0
    done,        \* the mission's status is "done" in the store
    autoApprove, \* Harness::auto_approve
    killed       \* kills so far

missionVars == << gen, out, ends, records, results, ask, proposed,
                  done, autoApprove, killed >>
vars == << agentVars, missionVars >>

EndEvents == {"Done", "Error", "AskUser", "CommandProposed"}

(* recorded_usage: the Error that stands for a count not recorded.         *)
WireEvents == EndEvents \cup {"Uncounted"}

Generator == [pc    : {"off", "prompt", "answer", "decision", "run", "load",
                       "reason", "exec", "stream", "call", "tool", "spawn",
                       "wait", "finish", "returned"},
              turn  : Streams \cup {0},
              step  : Nat,
              pos   : Nat,
              waits : Children \cup {None}]

TypeOK ==
    /\ SubAgentsTypeOK
    /\ gen \in Generator
    /\ out \in EndEvents \cup {"none"}
    /\ ends \in [Streams -> Seq(WireEvents)]
    /\ Len(records) <= MaxBatch
    /\ \A i \in 1 .. Len(records) :
           records[i] \in {"Planned", "Running", "Ended"}
    /\ results \subseteq 1 .. Len(records)
    /\ ask \in BOOLEAN /\ done \in BOOLEAN /\ autoApprove \in BOOLEAN
    /\ proposed \in 0 .. Len(records)
    /\ killed \in 0 .. MaxKills

Init ==
    /\ SubAgentsInit
    /\ gen = [pc |-> "off", turn |-> 0, step |-> 0, pos |-> 0,
              waits |-> None]
    /\ out = "none"
    /\ ends = [t \in Streams |-> << >>]
    /\ records = << >> /\ results = {}
    /\ ask = FALSE /\ proposed = 0 /\ done = FALSE
    /\ autoApprove \in AutoApprove
    /\ killed = 0

-----------------------------------------------------------------------------
(* Helpers for the generator's steps.                                      *)
storeVars == << records, results, ask, proposed, done >>

Goto(g) == gen' = g /\ UNCHANGED out
Yield(e, g) == gen' = g /\ out' = e

At(pc) == gen.pc = pc /\ out = "none"
To(pc) == [gen EXCEPT !.pc = pc]

(* The generator's locals are gone when it returns or is dropped.          *)
Gone(pc) == [gen EXCEPT !.pc = pc, !.step = 0, !.pos = 0, !.waits = None]
Return == Gone("returned")

(* A yield of Error followed by a return, on a failure of the store or of  *)
(* the model, or a cancellation.                                           *)
Fails == Yield("Error", Return) /\ UNCHANGED storeVars

Quiet == UNCHANGED << agentVars, ends, autoApprove, killed >>

-----------------------------------------------------------------------------
(* Harness::run_turn, resume_turn and resume_command: the stream of a new  *)
(* turn is created and attached; nothing runs until it is polled.  The     *)
(* host starts a turn once, and resumes one that suspended, perhaps before *)
(* the suspended stream has been read to its end.                          *)
StartTurn(pc) ==
    LET t == gen.turn + 1 IN
    /\ t \in Streams
    /\ AttachEventSink(t)
    /\ gen' = [gen EXCEPT !.pc = pc, !.turn = t, !.step = 0]
    /\ out' = "none"
    /\ UNCHANGED << tasks, cancel, stopping, kills, told, ends,
                    storeVars, autoApprove, killed >>

RunTurn == gen.turn = 0 /\ StartTurn("prompt")

Suspended(e) ==
    gen.turn > 0 /\ out = "none" /\ gen.pc \in {"off", "returned"}
        /\ \E i \in 1 .. Len(ends[gen.turn]) : ends[gen.turn][i] = e

ResumeTurn == Suspended("AskUser") /\ StartTurn("answer")
ResumeCommand == Suspended("CommandProposed") /\ StartTurn("decision")

(* run_mission_turn: the user's message.                                   *)
InsertPrompt ==
    /\ At("prompt")
    /\ \/ Goto(To("load")) /\ UNCHANGED storeVars
       \/ Fails
    /\ Quiet

(* resume_mission_turn: the pending ask is looked up and resolved, the     *)
(* answer recorded, and the turn goes on as a new prompt.                  *)
AnswerAsk ==
    /\ At("answer")
    /\ \/ Fails
       \/ /\ ask /\ ask' = FALSE
          /\ Goto(To("prompt")) \/ Yield("Error", Return)
          /\ UNCHANGED << records, results, proposed, done >>
    /\ Quiet

(* resume_command_turn: the pending command is resolved, then run or       *)
(* rejected, and its outcome recorded on the call it was proposed for.     *)
ResolveCommand ==
    /\ At("decision")
    /\ \/ Fails
       \/ /\ proposed # 0 /\ proposed' = 0
          /\ Goto([gen EXCEPT !.pc = "run", !.pos = proposed])
          /\ UNCHANGED << records, results, ask, done >>
    /\ Quiet

RunDecision ==
    /\ At("run")
    /\ \/ /\ records' = [records EXCEPT ![gen.pos] = "Ended"]
          /\ results' = results \cup {gen.pos}
          /\ Goto(To("load"))
       \/ Yield("Error", Return) /\ UNCHANGED << records, results >>
    /\ UNCHANGED << ask, proposed, done >>
    /\ Quiet

-----------------------------------------------------------------------------
(* run_mission.                                                            *)
LoadMission ==
    /\ At("load")
    /\ \/ Fails
       \/ /\ Goto(To("reason")) \/ Goto(To("exec"))
          /\ done' = FALSE
          /\ UNCHANGED << records, results, ask, proposed >>
    /\ Quiet

(* One pass of the reasoning loop: it is cancelled or fails, or the model  *)
(* decides to execute, that all is done, to ask, or to think on.           *)
ReasonStep ==
    LET next == gen.step + 1
        onwards == Goto([gen EXCEPT !.step = IF next >= MaxReasoningSteps THEN 0 ELSE next,
                                    !.pc = IF next >= MaxReasoningSteps THEN "exec"
                                           ELSE "reason"])
    IN
    /\ At("reason")
    /\ \/ Fails
       \/ /\ ~cancel
          /\ \/ Goto([gen EXCEPT !.pc = "exec", !.step = 0])
             \/ Yield("Done", Return)
             \/ onwards
          /\ UNCHANGED storeVars
       \/ /\ ~cancel /\ ~autoApprove
          /\ ask' = TRUE
          /\ Yield("AskUser", Return)
          /\ UNCHANGED << records, results, proposed, done >>
    /\ Quiet

(* The top of the execution loop, up to the request to the model.          *)
ExecuteTop ==
    /\ At("exec")
    /\ \/ Fails
       \/ /\ ~cancel /\ gen.step < MaxExecutionSteps
          /\ Goto([gen EXCEPT !.pc = "stream", !.step = @ + 1])
          /\ UNCHANGED storeVars
    /\ Quiet

(* What follows a reply with n calls: no calls, or the calls of the last   *)
(* reply again with no text, end the loop; otherwise they are planned.     *)
Replied(n) ==
    \/ /\ n = 0 \/ gen.step > 1
       /\ gen' = To("finish")
       /\ UNCHANGED storeVars
    \/ /\ n > 0
       /\ gen' = [gen EXCEPT !.pc = "call", !.pos = 1]
       /\ records' = [i \in 1 .. n |-> "Planned"]
       /\ results' = {}
       /\ UNCHANGED << ask, proposed, done >>

(* The reply streams in.  A cancellation reports an error and leaves the   *)
(* stream, not the turn: what was received so far is treated as a reply.   *)
StreamReply ==
    /\ At("stream")
    /\ \/ Fails
       \/ \E n \in 0 .. MaxBatch :
              /\ Replied(n)
              /\ out' = "none" \/ (cancel /\ out' = "Error")
    /\ Quiet

(* After the last call of a batch, or a cancellation between two, the loop *)
(* goes round.                                                             *)
NextCall == [gen EXCEPT !.pc = IF gen.pos = Len(records) THEN "exec" ELSE "call",
                        !.pos = @ + 1, !.waits = None]

(* The calls after a proposed command are dropped from the message.        *)
ProposeKeepsBatch ==
    /\ records' = [records EXCEPT ![gen.pos] = "Running"]
    /\ proposed' = gen.pos
    /\ Yield("CommandProposed", Return)
    /\ UNCHANGED << results, ask, done >>
ProposeCutsShort ==
    /\ records' = SubSeq(records, 1, gen.pos - 1)
    /\ proposed' = gen.pos
    /\ Yield("CommandProposed", Return)
    /\ UNCHANGED << results, ask, done >>
Propose ==
    /\ records' = Append(SubSeq(records, 1, gen.pos - 1), "Running")
    /\ \/ proposed' = gen.pos /\ Yield("CommandProposed", Return)
       \/ proposed' = proposed /\ Yield("Error", Return)
    /\ UNCHANGED << results, ask, done >>

(* One call is started: a command waits for the user, unless all are       *)
(* approved; a spawn or another tool is executed.                          *)
StartCall ==
    /\ At("call")
    /\ \/ cancel /\ Yield("Error", To("exec")) /\ UNCHANGED storeVars
       \/ Fails
       \/ ~cancel /\ ~autoApprove /\ Propose
       \/ /\ ~cancel
          /\ records' = [records EXCEPT ![gen.pos] = "Running"]
          /\ Goto(To("tool")) \/ Goto(To("spawn"))
          /\ UNCHANGED << results, ask, proposed, done >>
    /\ Quiet

(* The result, or the error, of a call becomes a tool row and a status,    *)
(* unless the store fails.                                                 *)
AnswerCall ==
    /\ \/ /\ records' = [records EXCEPT ![gen.pos] = "Ended"]
          /\ results' = results \cup {gen.pos}
          /\ Goto(NextCall)
       \/ Yield("Error", Return) /\ UNCHANGED << records, results >>
    /\ UNCHANGED << ask, proposed, done >>

ExecuteTool ==
    /\ At("tool")
    /\ AnswerCall
    /\ Quiet

(* spawn_subagent: the turn registers a child and waits for it.            *)
SpawnSubagent(c) ==
    /\ At("spawn")
    /\ CanSpawn(0)
    /\ Register(c, Main, 1)
    /\ tasks' = [tasks EXCEPT ![c].pc = "registered"]
    /\ Goto([gen EXCEPT !.pc = "wait", !.waits = c])
    /\ UNCHANGED << cancel, stopping, kills, sink, open, told,
                    delivered, queued, ends, storeVars, autoApprove, killed >>

(* The spawn is refused: its arguments, or the child's chat row, are bad.  *)
SpawnRefused ==
    /\ At("spawn")
    /\ AnswerCall
    /\ Quiet

SubagentReturns ==
    /\ At("wait")
    /\ SpawnReturns(gen.waits)
    /\ AnswerCall
    /\ Quiet

(* The mission is marked done and the turn reports it.                     *)
Finish ==
    /\ At("finish")
    /\ \/ Fails
       \/ /\ done' = TRUE
          /\ Yield("Done", Return)
          /\ UNCHANGED << records, results, ask, proposed >>
    /\ Quiet

GeneratorStep ==
    \/ InsertPrompt \/ AnswerAsk \/ ResolveCommand \/ RunDecision
    \/ LoadMission \/ ReasonStep \/ ExecuteTop \/ StreamReply \/ StartCall
    \/ ExecuteTool \/ SpawnRefused \/ SubagentReturns \/ Finish
    \/ \E c \in Children : SpawnSubagent(c)

-----------------------------------------------------------------------------
(* with_subagent_lifecycle: an event of the generator is passed on.  Done  *)
(* or Error is its last: the generator is not polled again.                *)
TakeEventGoesOn ==
    /\ out # "none"
    /\ out' = "none"
    /\ ends' = [ends EXCEPT ![gen.turn] = Append(@, out)]
    /\ UNCHANGED << agentVars, gen, storeVars, autoApprove, killed >>
TakeEvent ==
    /\ out # "none"
    /\ out' = "none"
    /\ ends' = [ends EXCEPT ![gen.turn] = Append(@, out)]
    /\ gen' = IF out \in {"Done", "Error"} THEN Gone("off") ELSE gen
    /\ UNCHANGED << agentVars, storeVars, autoApprove, killed >>

(* recorded_usage: a count that cannot be added to the conversation's row  *)
(* becomes an Error, and the stream goes on.                               *)
CountFails(t) ==
    /\ Len(ends[t]) < MaxEnds
    /\ ends' = [ends EXCEPT ![t] = Append(@, "Uncounted")]

(* The count of the generator's own model request, yielded while the reply *)
(* streams in.  (One that is recorded changes nothing here.)               *)
OwnCountFails ==
    /\ At("reason") \/ At("stream")
    /\ Counted /\ ~cancel
    /\ CountFails(gen.turn)
    /\ UNCHANGED << agentVars, gen, out, storeVars, autoApprove, killed >>

(* A sub-agent's count is taken from the channel of a turn, before or      *)
(* after the generator's last event.                                       *)
TakeCount(t, c) ==
    /\ t \in open /\ queued[t][c] > 0
    /\ queued' = [queued EXCEPT ![t][c] = @ - 1]
    /\ UNCHANGED ends \/ CountFails(t)
    /\ UNCHANGED << children, tasks, cancel, stopping, kills, sink, open, told, delivered,
                    gen, out, storeVars, autoApprove, killed >>

(* Once the generator is done or has returned, the stream ends when the    *)
(* sub-agents' events sent so far are drained, and its receiver goes away. *)
StreamEnds(t) ==
    /\ t \in open
    /\ t < gen.turn \/ At("returned") \/ At("off")
    /\ \A c \in Children : queued[t][c] = 0
    /\ open' = open \ {t}
    /\ gen' = IF t = gen.turn THEN Gone("off") ELSE gen
    /\ UNCHANGED << children, tasks, cancel, stopping, kills, sink, told, delivered, queued,
                    out, ends, storeVars, autoApprove, killed >>

Kill(c) ==
    /\ killed < MaxKills
    /\ killed' = killed + 1
    /\ CancelSubagent(c)
    /\ UNCHANGED << gen, out, ends, storeVars, autoApprove >>

SubAgentStep(c) == ChildStep(c) /\ UNCHANGED missionVars
SubAgentWaits(c) == ChildWaits(c) /\ UNCHANGED missionVars
ReportCancelled(c) == AnnounceCancelled(c) /\ UNCHANGED missionVars
Cancel == gen.turn > 0 /\ HarnessCancel /\ UNCHANGED missionVars

Next ==
    \/ RunTurn \/ ResumeTurn \/ ResumeCommand
    \/ GeneratorStep \/ TakeEvent \/ OwnCountFails
    \/ \E t \in Streams : StreamEnds(t)
    \/ Cancel
    \/ \E t \in Streams, c \in Children : TakeCount(t, c)
    \/ \E c \in Children :
           \/ SubAgentStep(c) \/ SubAgentWaits(c)
           \/ ReportCancelled(c) \/ Kill(c)

Spec == Init /\ [][Next]_vars
=============================================================================

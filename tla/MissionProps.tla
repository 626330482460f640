---------------------------- MODULE MissionProps ----------------------------
(***************************************************************************)
(* The properties of a turn and of its sub-agents, and their fairness.     *)
(***************************************************************************)
EXTENDS Mission

(* "A record that is already terminal in the registry keeps that outcome"  *)
(* (registry.rs:197): a child is reported finished at most once, with the  *)
(* outcome its record has and keeps, whoever ends it first.                *)
OneOutcome ==
    \A c \in Children :
        Len(told[c]) <= 1 /\ \A i \in 1 .. Len(told[c]) : told[c][i] = children[c].status

(* "a loop that unwinds leaves `Failed`, never a record that reads as live *)
(* forever" (run.rs:22): when its task is gone, a child's record has ended *)
(* and its end has been reported.                                          *)
NeverLeftRunning ==
    \A c \in Children :
        tasks[c].pc = "over" =>
            children[c].status \in Ended /\ (c \in kills \/ Len(told[c]) = 1)

(* "the same spend is never reported twice" (tests/registry.rs:99): what   *)
(* crossed the turns' streams and what is still owed to a later turn is at *)
(* most what the child has spent, though turns attach while a child is     *)
(* between reading its sender and counting.                                *)
SpendReportedOnce ==
    \A c \in Children :
        delivered[c] + (children[c].total - children[c].reported)
            <= children[c].total

(* The Errors that stand for lost counts apart, a turn's stream ends or    *)
(* suspends once and says why, although the generator runs on after        *)
(* reporting a cancellation (mission.rs:389, 506) and counts come in until *)
(* the stream closes: of Done, a failure, a question and a proposal it     *)
(* carries exactly one, and the mission of a failed turn is not done.      *)
OwnEnds(t) == {i \in 1 .. Len(ends[t]) : ends[t][i] # "Uncounted"}

EndsOnce ==
    \A t \in 1 .. gen.turn :
        /\ \A i, j \in OwnEnds(t) : i = j
        /\ t \notin open => OwnEnds(t) # {}
        /\ t = gen.turn /\ done => \A i \in OwnEnds(t) : ends[t][i] # "Error"

(* "the message would carry `tool_calls` with no tool responses and every  *)
(* later model request would be rejected" (mission.rs:541): when the model *)
(* is asked to go on, each recorded call of the last message was answered, *)
(* and a turn that waits for a decision has one open call, the proposed.   *)
Answered(i) == i \in results /\ records[i] = "Ended"

NothingUnanswered ==
    /\ At("exec") => \A i \in 1 .. Len(records) : Answered(i)
    /\ Suspended("CommandProposed") =>
           /\ proposed = Len(records) /\ records[proposed] = "Running"
           /\ \A i \in 1 .. Len(records) - 1 : Answered(i)

-----------------------------------------------------------------------------
(* The generator, the merge and the children's own steps are run, a timer  *)
(* ends a foreground wait, and a call of cancel completes.  Nothing is     *)
(* assumed of a child's model calls and tools, which may hang, nor of the  *)
(* user.                                                                   *)
Fairness ==
    /\ WF_vars(GeneratorStep)
    /\ WF_vars(TakeEvent)
    /\ WF_vars(stopping = "walk" /\ Cancel)
    /\ \A t \in Streams :
           WF_vars(StreamEnds(t) \/ \E c \in Children : TakeCount(t, c))
    /\ \A c \in Children : WF_vars(SubAgentStep(c)) /\ WF_vars(ReportCancelled(c))

FairSpec == Spec /\ Fairness

(* "Past that budget the child is not killed - it moves to the background" *)
(* (harness/agents.rs:193): every turn ends, whatever its children do.     *)
TurnEnds == \A t \in Streams : t \in open ~> t \notin open

(* "a parent stop reaches the whole tree" (harness/mod.rs:173): after      *)
(* Harness::cancel every record ends, of the children it found and of      *)
(* those being spawned meanwhile, and none runs again, even if the child's *)
(* task hangs.                                                             *)
CancelStopsAll == cancel ~> [](Live = {})
=============================================================================

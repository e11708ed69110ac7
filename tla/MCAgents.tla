------------------------------ MODULE MCAgents ------------------------------
(***************************************************************************)
(* Small instances of AgentRequests, Scheduler and Planning in one run.  A *)
(* process is either the API server or one that hosts the scheduler, so    *)
(* the two never step in the same behaviour; a planning tool only answers  *)
(* a question.                                                             *)
(***************************************************************************)
EXTENDS AgentRequests, Scheduler, Planning

VARIABLE process

vars == <<process, requestVars, schedulerVars, asked>>

Init ==
    /\ RequestInit /\ SchedulerInit
    /\ \/ process = "api" /\ asked = NoQuestion
       \/ process = "scheduler" /\ runs = <<>> /\ asked = NoQuestion
       \/ process = "tool" /\ runs = <<>> /\ PlanningInit

Serve == process = "api" /\ RequestNext /\ UNCHANGED <<process, schedulerVars, asked>>
Host == process = "scheduler" /\ SchedulerNext /\ UNCHANGED <<process, requestVars, asked>>

Next == Serve \/ Host

\* A request under way goes on: the model's client has a timeout, and the event
\* loop serves every task. Of its tools nothing is assumed here.
Fairness == WF_requestVars(process = "api" /\ Work /\ UNCHANGED <<process, schedulerVars, asked>>)
            /\ SchedulerFairness

Spec == Init /\ [][Next]_vars /\ Fairness
=============================================================================

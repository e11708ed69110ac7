--------------------------- MODULE AgentRequests ----------------------------
(***************************************************************************)
(* The requests that set agents to work, one followed at a time: POST      *)
(* /agent-runs for a specialist or the orchestrator, the workflow triggers *)
(* that wrap either in a workflow run, the dashboard's own changes of      *)
(* reservations, and resume().  Each has a session of its own, which       *)
(* get_db_session commits after the answer has been sent.                  *)
(***************************************************************************)
EXTENDS Orchestrator

VARIABLES
    workflow,  \* the workflow_runs row of the request as the session sees it
    request,   \* the request in progress, or the last one
    saved      \* what is committed of runs, approvals and workflow

requestVars == <<agentVars, orch, workflow, request, saved>>

\* kind: "specialist", "orchestrator", "dashboard" or "resume".
\* answer: what the client was told, "completed", "pending_approval" or "error".
NoRequest == [pc |-> "idle",   \* "running", "answered", "raised" or "over"
              kind |-> "none", answer |-> "none"]

RequestInit ==
    /\ AgentInit /\ orch = OrchOff /\ workflow = "none" /\ request = NoRequest
    /\ saved = [runs |-> runs, approvals |-> approvals, workflow |-> workflow]

Serving(kind) == request.pc = "running" /\ request.kind = kind

\* trigger_agent_run(): a specialist or the orchestrator is asked.
Trigger ==
    /\ request.pc = "idle"
    /\ \E kind \in {"specialist", "orchestrator"} :
         request' = [NoRequest EXCEPT !.pc = "running", !.kind = kind]
    /\ UNCHANGED <<agentVars, orch, workflow, saved>>

\* BackgroundWorkflow.run(): the workflow run is recorded before its agent, or
\* the orchestrator, is asked.
TriggerWorkflow ==
    /\ request.pc = "idle"
    /\ \E kind \in {"specialist", "orchestrator"} :
         request' = [NoRequest EXCEPT !.pc = "running", !.kind = kind]
    /\ workflow' = "running"
    /\ UNCHANGED <<agentVars, orch, saved>>

Ask ==
    /\ \/ Serving("specialist") /\ agent.pc = "off" /\ UNCHANGED orch
          /\ \E name \in Agents : Handle(name, 0)
       \/ Serving("orchestrator") /\ orch.pc = "off" /\ OrchHandle
    /\ UNCHANGED <<workflow, request, saved>>

\* handle() returns whatever happened to the agent, and the workflow run is
\* "completed"; saving it in a poisoned session raises.
Return(status) ==
    /\ workflow' = IF workflow = "running" THEN "completed" ELSE workflow
    /\ request' = IF workflow = "running" /\ session = "poisoned"
                  THEN [request EXCEPT !.pc = "raised"]
                  ELSE [request EXCEPT !.pc = "answered", !.answer = status]
    /\ UNCHANGED <<runs, approvals, session, saved>>

SpecialistReturns ==
    /\ Serving("specialist") /\ agent.pc = "returned"
    /\ Return(agent.status)
    /\ agent' = Off /\ UNCHANGED orch

OrchestratorReturns ==
    /\ request.pc = "running" /\ orch.status # "none" /\ orch.pc \in {"paused", "returned"}
    /\ Return(orch.status)
    /\ orch' = [orch EXCEPT !.status = "none"] /\ UNCHANGED agent

\* handle() raises only in a poisoned session; a workflow catches that, and then
\* cannot save its run.
HandleRaises ==
    /\ \/ Serving("specialist") /\ agent.pc = "off"
       \/ Serving("orchestrator") /\ orch.pc = "off"
    /\ session = "poisoned"
    /\ request' = [request EXCEPT !.pc = "raised"]
    /\ UNCHANGED <<agentVars, orch, workflow, saved>>

\* The dashboard changes a reservation under a "manager_dashboard" run. A refusal
\* is recorded as a failed run, and then raised as an HTTPException.
DashboardRun(status) ==
    Append(runs, [agent |-> "manager_dashboard", parent |-> 0, status |-> status, proposed |-> FALSE])

Dashboard ==
    /\ request.pc = "idle"
    /\ \/ /\ request' = [pc |-> "answered", kind |-> "dashboard", answer |-> "completed"]
          /\ runs' = DashboardRun("completed") /\ UNCHANGED approvals
       \/ /\ request' = [pc |-> "answered", kind |-> "dashboard", answer |-> "pending_approval"]
          /\ runs' = DashboardRun("completed") /\ Len(approvals) < MaxApprovals
          /\ approvals' = Append(approvals, Proposal(Len(runs) + 1))
       \/ /\ request' = [pc |-> "raised", kind |-> "dashboard", answer |-> "none"]
          /\ runs' = DashboardRun("failed") /\ UNCHANGED approvals
    /\ UNCHANGED <<session, agent, orch, workflow, saved>>

\* A statement fails, in a tool or below it: a foreign key the model's arguments
\* do not meet, a lost connection.
StatementFails ==
    /\ request.pc \in {"running", "answered"} /\ session = "clean"
    /\ session' = "poisoned"
    /\ UNCHANGED <<runs, approvals, agent, orch, workflow, request, saved>>

\* The end of get_db_session. An answer has been sent by then.
Commit ==
    /\ request.pc = "answered" /\ session = "clean"
    /\ saved' = [runs |-> runs, approvals |-> approvals, workflow |-> workflow]
    /\ request' = [request EXCEPT !.pc = "over"]
    /\ UNCHANGED <<agentVars, orch, workflow>>

RollBack ==
    /\ request.pc = "raised" \/ (request.pc = "answered" /\ session = "poisoned")
    /\ session' = "clean"
    /\ runs' = saved.runs /\ approvals' = saved.approvals /\ workflow' = saved.workflow
    /\ request' = [request EXCEPT !.pc = "over"]
    /\ UNCHANGED <<agent, orch, saved>>

\* Somebody resumes the paused run in a session of its own.
Resume ==
    /\ request.pc = "over" /\ (ResumeDecides \/ ResumeUnrecorded)
    /\ request' = [NoRequest EXCEPT !.pc = "running", !.kind = "resume"]
    /\ UNCHANGED <<workflow, saved>>

ResumeFails ==
    /\ request.pc = "over" /\ ResumeRaises
    /\ request' = [NoRequest EXCEPT !.pc = "running", !.kind = "resume"]
    /\ UNCHANGED <<workflow, saved>>

ResumeLost ==
    /\ request.pc = "over" /\ ResumeElsewhere
    /\ request' = [pc |-> "answered", kind |-> "resume", answer |-> "error"]
    /\ UNCHANGED <<workflow, saved>>

\* The dashboard decides a committed approval; nothing resumes the run for it.
DecideOnDashboard ==
    /\ request.pc = "over"
    /\ \E a \in DOMAIN saved.approvals :
         /\ saved.approvals[a].status = "pending"
         /\ approvals' = [approvals EXCEPT ![a].status = "decided"]
         /\ saved' = [saved EXCEPT !.approvals[a].status = "decided"]
    /\ UNCHANGED <<runs, session, agent, orch, workflow, request>>

\* What the request itself goes on with.
Work ==
    \/ Ask \/ SpecialistReturns \/ OrchestratorReturns \/ HandleRaises \/ Commit \/ RollBack
    \/ request.pc = "running" /\ AgentStep /\ UNCHANGED <<orch, workflow, request, saved>>
    \/ request.pc = "running" /\ OrchStep /\ UNCHANGED <<workflow, request, saved>>

\* What it waits for.
ToolWork ==
    request.pc = "running" /\ ToolReturns /\ UNCHANGED <<orch, workflow, request, saved>>

RequestNext ==
    \/ Trigger \/ TriggerWorkflow \/ Dashboard \/ StatementFails \/ Work \/ ToolWork
    \/ Resume \/ ResumeFails \/ ResumeLost \/ DecideOnDashboard

-----------------------------------------------------------------------------
(* Properties *)

TypeOK ==
    /\ runs \in Seq(RunRows) /\ saved.runs \in Seq(RunRows)
    /\ approvals \in Seq(ApprovalRows) /\ saved.approvals \in Seq(ApprovalRows)
    /\ session \in {"clean", "poisoned"}
    /\ {workflow, saved.workflow} \subseteq {"none", "running", "completed"}
    /\ agent.iterations \in 0 .. MaxIterations /\ agent.calls \in 0 .. MaxCalls
    /\ agent.proposal \in 0 .. Len(approvals)
    /\ agent.run \in 0 .. Len(runs)
    /\ orch.required \cup orch.invoked \subseteq Agents
    /\ orch.remaining \in 0 .. MaxDelegations /\ orch.attempt \in 0 .. MaxRetries + 1

\* identify_scope's promise: a request is answered "completed" only when every
\* domain it was found to need has been asked, or the budget has run out, over
\* retries, pauses and resumptions.
CompletenessFloor ==
    request.answer = "completed" /\ orch.pc = "returned"
    => orch.required \subseteq orch.invoked \/ orch.remaining = 0

\* "A pending_approval result is never retried" and it always pauses the graph:
\* when a committed run of the orchestrator is completed, a proposal made for it
\* is undecided only if its own agent went on to another call after it, if the
\* attempt that made it failed, or if the graph, whose checkpoint is in memory,
\* has decided it in a session that was rolled back.
ProposalsAccountedFor ==
    \A a \in DOMAIN saved.approvals :
        LET run == saved.runs[saved.approvals[a].run]
        IN  /\ saved.approvals[a].status = "pending"
            /\ run.parent # 0 /\ saved.runs[run.parent].status = "completed"
            => saved.approvals[a].buried \/ run.status = "failed" \/ a \in orch.resolved

\* WorkflowRunService.get_detail() lists the failed agent runs of a workflow run
\* as its errors (and the tool results that carry one).
Errors == {r \in DOMAIN saved.runs : saved.runs[r].status = "failed"}

\* complete_run() is best effort, yet a committed run is still "running" only if
\* it is an orchestrator's that one of its specialists made pause: it had answered
\* over a PendingApprovalOutput, of a proposal of its own or of one, perhaps another
\* request's, that create_purchase_request() handed back to it. And a workflow run,
\* which is "completed" even when its agent answered with an error, shows that error.
CommittedTrailIsSettled ==
    /\ \A r \in DOMAIN saved.runs :
         saved.runs[r].status = "running"
         => /\ saved.runs[r].agent = "orchestrator"
            /\ \E c \in DOMAIN saved.runs :
                 /\ saved.runs[c].parent = r /\ saved.runs[c].status = "completed"
                 /\ saved.runs[c].proposed
    /\ saved.workflow = "completed" /\ request.kind # "resume" /\ request.answer = "error"
       => Errors # {}

\* A request whose tools return gets its answer and its transaction ends, however
\* the model answers: iterations, delegations and retries are all bounded. What a
\* tool sets to work through the event bus is not.
EveryRequestEnds ==
    WF_requestVars(ToolWork) => (request.pc = "running" ~> request.pc = "over")
=============================================================================

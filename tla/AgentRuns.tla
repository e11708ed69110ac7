----------------------------- MODULE AgentRuns ------------------------------
(***************************************************************************)
(* A specialist agent at work (app/agents/tool_calling_agent.py) and the   *)
(* trail it leaves (app/services/agent_run_service.py).  The loop asks the *)
(* model for the next step, executes the calls it made and logs each of    *)
(* them, until the model answers or the iterations are used up.  All of it *)
(* runs in the database session of the request: once a statement has       *)
(* failed, every later one raises too.                                     *)
(***************************************************************************)
EXTENDS Naturals, Sequences, AgentTools

CONSTANTS
    Agents,         \* the specialists that take part, among those of ToolsOf
    MaxIterations,  \* max_iterations
    MaxCalls,       \* bound: tool calls in one response of the model
    MaxApprovals    \* bound: approval requests

ASSUME AgentAssumption ==
    /\ Agents \subseteq DOMAIN ToolsOf
    /\ MaxIterations \in Nat /\ MaxCalls \in Nat /\ MaxApprovals \in Nat

VARIABLES
    runs,       \* the agent_runs rows as the session sees them, oldest first
    approvals,  \* the approvals rows, likewise
    session,    \* "clean", or "poisoned" by a failed statement
    agent       \* the specialist in progress

agentVars == <<runs, approvals, session, agent>>

\* proposed: by its messages, it has answered over a PendingApprovalOutput.
RunRows ==
    [agent : Agents \cup {"orchestrator", "manager_dashboard"}, parent : Nat,
     status : {"running", "completed", "failed"}, proposed : BOOLEAN]

\* buried: history, the agent has had another output since it was shown this one.
ApprovalRows == [run : Nat, status : {"pending", "decided"}, buried : BOOLEAN]

\* AgentState and the local variables of handle().
Off == [pc |-> "off",          \* "asking", "calling", "over" or "returned"
        name |-> "none", run |-> 0, iterations |-> 0,
        calls |-> 0,           \* of the response in hand, still to be executed
        proposal |-> 0,        \* the approval in the last output, or 0
        status |-> "none"]     \* "completed", "pending_approval" or "error"

Proposal(run) == [run |-> run, status |-> "pending", buried |-> FALSE]

\* What an earlier request, or an agent that an event has set to work, may have
\* left: a purchase that is still open, as it is until its approval is decided
\* and after a rejection.
Buyers == {name \in Agents : Buys(name)}
EarlierRun(name) ==
    [agent |-> name, parent |-> 0, status |-> "completed", proposed |-> TRUE]

AgentInit ==
    /\ \/ runs = <<>> /\ approvals = <<>>
       \/ /\ MaxApprovals > 0
          /\ \E name \in Buyers : runs = <<EarlierRun(name)>>
          /\ \E status \in {"pending", "decided"} :
               approvals = <<[Proposal(1) EXCEPT !.status = status]>>
    /\ session = "clean" /\ agent = Off

-----------------------------------------------------------------------------
(* The trail *)

\* start_run().
Started(name, parent) ==
    Append(runs, [agent |-> name, parent |-> parent, status |-> "running", proposed |-> FALSE])

\* complete_run(), whose failure its callers only log.
Completed(run, status) ==
    IF session = "clean" /\ run \in DOMAIN runs THEN [runs EXCEPT ![run].status = status] ELSE runs

-----------------------------------------------------------------------------
(* The loop *)

\* handle(): the run is recorded and the task logged before anything is caught,
\* so a poisoned session raises here.
Handle(name, parent) ==
    /\ session = "clean"
    /\ runs' = Started(name, parent)
    /\ agent' = [Off EXCEPT !.pc = "asking", !.name = name, !.run = Len(runs) + 1]
    /\ UNCHANGED <<approvals, session>>

\* The loop is left, and its counters with it.
Over(status) ==
    agent' = [agent EXCEPT !.pc = "over", !.iterations = 0, !.calls = 0, !.status = status]

\* _final_status(): only the last output counts.
FinalStatus == IF agent.proposal # 0 THEN "pending_approval" ELSE "completed"

\* The model answers without a tool call.
Answer ==
    /\ agent.pc = "asking" /\ agent.iterations < MaxIterations /\ session = "clean"
    /\ Over(FinalStatus)
    /\ UNCHANGED <<runs, approvals, session>>

\* Mutant: a response does not count as an iteration.
RequestCallsUncounted ==
    /\ agent.pc = "asking" /\ agent.iterations < MaxIterations /\ session = "clean"
    /\ \E n \in 1 .. MaxCalls : agent' = [agent EXCEPT !.pc = "calling", !.calls = n]
    /\ UNCHANGED <<runs, approvals, session>>

\* The model asks for tool calls.
RequestCalls ==
    /\ agent.pc = "asking" /\ agent.iterations < MaxIterations /\ session = "clean"
    /\ \E n \in 1 .. MaxCalls :
         agent' = [agent EXCEPT !.pc = "calling", !.iterations = @ + 1, !.calls = n]
    /\ UNCHANGED <<runs, approvals, session>>

\* max_iterations_exceeded, whatever the calls have done.
GiveUp ==
    /\ agent.pc = "asking" /\ agent.iterations = MaxIterations
    /\ Over("error")
    /\ UNCHANGED <<runs, approvals, session>>

\* An exception out of the loop: the model's, or that of any message logged in a
\* poisoned session.
LoopRaises ==
    /\ \/ agent.pc = "asking" /\ agent.iterations < MaxIterations
       \/ agent.pc = "calling" /\ session = "poisoned"
    /\ Over("error")
    /\ UNCHANGED <<runs, approvals, session>>

Buried == [a \in DOMAIN approvals |->
             [approvals[a] EXCEPT !.buried = @ \/ approvals[a].run = agent.run]]

\* Mutant: one call too many.
AfterCallLate(proposal) ==
    agent' = [agent EXCEPT !.calls = @ - 1, !.proposal = proposal,
                           !.pc = IF agent.calls = 0 THEN "asking" ELSE @]

\* The call has been dealt with; after the last one the model is asked again.
AfterCall(proposal) ==
    agent' = [agent EXCEPT !.calls = @ - 1, !.proposal = proposal,
                           !.pc = IF agent.calls = 1 THEN "asking" ELSE @]

Calling == agent.pc = "calling" /\ session = "clean"

\* _execute_tool_call(): the service has done what it was asked.  The events that
\* check_stock() and create_reservation() publish set an InventoryAgent to work
\* inside the call, whose run ends with it and for whose proposal nobody waits
\* (AgentInit has one).  It may set another to work in the same way, and no budget
\* counts them: that a call returns is an assumption, ToolWork in AgentRequests.
CallTool ==
    /\ Calling
    /\ approvals' = Buried
    /\ AfterCall(0)
    /\ UNCHANGED <<runs, session>>

\* The service has found the change high-impact: PendingApprovalOutput.
ProposeChange ==
    /\ Calling /\ MayPropose(agent.name) /\ Len(approvals) < MaxApprovals
    /\ approvals' = Append(Buried, Proposal(agent.run))
    /\ AfterCall(Len(approvals) + 1)
    /\ UNCHANGED <<runs, session>>

\* create_purchase_request() finds the purchase still open, and returns the
\* PendingApprovalOutput of its approval: whoever proposed it, and whatever has
\* been decided, as a rejection leaves the purchase open.
HandBack ==
    /\ Calling /\ Buys(agent.name)
    /\ \E a \in DOMAIN approvals :
         /\ runs[approvals[a].run].agent \in Buyers
         /\ approvals' = [Buried EXCEPT ![a].buried = @ /\ approvals[a].run # agent.run]
         /\ AfterCall(a)
    /\ UNCHANGED <<runs, session>>

\* An unknown tool, invalid arguments, a ToolError or an exception that leaves
\* the session clean: the model is told, and the last output stays the last.
RefuseCall ==
    /\ Calling
    /\ AfterCall(agent.proposal)
    /\ UNCHANGED <<runs, approvals, session>>

\* Mutant: only a success is recorded.
FinishSuccessOnly ==
    /\ agent.pc = "over"
    /\ runs' = IF agent.status # "error" THEN Completed(agent.run, "completed") ELSE runs
    /\ agent' = [agent EXCEPT !.pc = "returned"]
    /\ UNCHANGED <<approvals, session>>

\* complete_run() and the result.
Finish ==
    /\ agent.pc = "over"
    /\ runs' = [Completed(agent.run, IF agent.status = "error" THEN "failed" ELSE "completed")
                 EXCEPT ![agent.run].proposed = agent.status = "pending_approval"]
    /\ agent' = [agent EXCEPT !.pc = "returned"]
    /\ UNCHANGED <<approvals, session>>

\* What a tool does; the rest is the loop's own.
ToolReturns == CallTool \/ ProposeChange \/ HandBack \/ RefuseCall

AgentStep == Answer \/ RequestCalls \/ GiveUp \/ LoopRaises \/ Finish
=============================================================================

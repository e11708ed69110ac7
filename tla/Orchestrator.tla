---------------------------- MODULE Orchestrator ----------------------------
(***************************************************************************)
(* The orchestrator (app/agents/orchestrator_agent.py): a graph that asks  *)
(* the model which specialists a request needs, delegates to one at a      *)
(* time, pauses when one of them has proposed something, and combines what *)
(* they reported.  A paused graph is kept in the memory of the instance    *)
(* that paused it: orch.pc = "paused" is that checkpoint.                  *)
(***************************************************************************)
EXTENDS AgentRuns

CONSTANTS
    MaxDelegations,  \* max_delegations
    MaxRetries       \* max_retries_per_agent

ASSUME OrchestratorAssumption == MaxDelegations \in Nat /\ MaxRetries \in Nat

VARIABLE orch

\* OrchestratorGraphState.
OrchOff ==
    [pc |-> "off",      \* "scope", "decide", "delegate", "waiting", "await",
                        \* "combine", "paused" or "returned"
     run |-> 0,
     required |-> {},   \* required_domains
     invoked |-> {},    \* the agent_name of each of its invocations
     remaining |-> 0,   \* remaining_steps
     next |-> "none",   \* next_agent
     attempt |-> 0,
     pending |-> 0,     \* pending_approval_id
     resolved |-> {},   \* the approvals among its invocations, "Resolve pending approval"
     status |-> "none"]

Graph(pc) == orch.pc = pc /\ UNCHANGED <<runs, approvals, session, agent>>

\* handle(), up to the graph: a poisoned session raises.
OrchHandle ==
    /\ session = "clean"
    /\ runs' = Started("orchestrator", 0)
    /\ orch' = [OrchOff EXCEPT !.pc = "scope", !.run = Len(runs) + 1, !.remaining = MaxDelegations]
    /\ UNCHANGED <<approvals, session, agent>>

\* _identify_scope_node(): what is not a specialist is dropped, a malformed
\* answer requires nothing.
IdentifyScope ==
    /\ Graph("scope")
    /\ \E domains \in SUBSET Agents : orch' = [orch EXCEPT !.pc = "decide", !.required = domains]

\* Mutant: what was required is forgotten once somebody has been asked.
MissingFirstOnly == IF orch.invoked = {} THEN orch.required ELSE {}

\* _missing_required_domains(): asked is enough, whatever came of it.
Missing == orch.required \ orch.invoked

\* The decide node chooses a specialist: one the model names while the budget
\* lasts, or, when it would stop, a missing one. The code forces the first of
\* the list, whose order was the model's choice.
DecideDelegate ==
    /\ Graph("decide") /\ orch.remaining > 0
    /\ \E name \in Agents : orch' = [orch EXCEPT !.pc = "delegate", !.next = name]

\* finish(), plain text, a malformed call or an unknown agent.
DecideStop ==
    /\ Graph("decide") /\ orch.remaining > 0
    /\ IF Missing = {} THEN orch' = [orch EXCEPT !.pc = "combine"]
       ELSE \E name \in Missing : orch' = [orch EXCEPT !.pc = "delegate", !.next = name]

\* The budget wins over a requirement.
DecideSpent ==
    Graph("decide") /\ orch.remaining = 0 /\ orch' = [orch EXCEPT !.pc = "combine"]

\* _delegate_node(): the first attempt.
Delegate ==
    /\ orch.pc = "delegate"
    /\ Handle(orch.next, orch.run)
    /\ orch' = [orch EXCEPT !.pc = "waiting", !.attempt = 1]

\* Mutant: an attempt that has not completed is repeated, a pending one too.
MayRetryUnlessCompleted == agent.status # "completed" /\ orch.attempt <= MaxRetries

MayRetry == agent.status = "error" /\ orch.attempt <= MaxRetries

\* The same instruction again, although the first attempt may have acted.
Retry ==
    /\ orch.pc = "waiting" /\ agent.pc = "returned" /\ MayRetry
    /\ Handle(orch.next, orch.run)
    /\ orch' = [orch EXCEPT !.attempt = @ + 1]

\* The result is taken, and _route_after_delegate() says where to go.
Delegated ==
    /\ orch.pc = "waiting" /\ agent.pc = "returned" /\ ~MayRetry
    /\ agent' = Off
    /\ orch' = [orch EXCEPT
         !.invoked = @ \cup {orch.next}, !.remaining = @ - 1, !.attempt = 0,
         !.pending = IF agent.status = "pending_approval" THEN agent.proposal ELSE 0,
         !.pc = IF agent.status = "pending_approval" THEN "await"
                ELSE IF orch.remaining = 1 THEN "combine" ELSE "decide"]
    /\ UNCHANGED <<runs, approvals, session>>

\* interrupt() and _finalize(): the run stays "running".
Pause == Graph("await") /\ orch' = [orch EXCEPT !.pc = "paused", !.status = "pending_approval"]

\* _combine_node() and _finalize(), which returns even if nothing can be recorded.
Combine ==
    /\ orch.pc = "combine"
    /\ runs' = Completed(orch.run, "completed")
    /\ orch' = [orch EXCEPT !.pc = "returned", !.status = "completed"]
    /\ UNCHANGED <<approvals, session, agent>>

FinalizeError ==
    /\ runs' = Completed(orch.run, "failed")
    /\ orch' = [OrchOff EXCEPT !.pc = "returned", !.run = orch.run, !.status = "error"]
    /\ agent' = Off
    /\ UNCHANGED <<approvals, session>>

\* An exception out of the graph: the model's in a node that asks it, or that of
\* a specialist that cannot record its run.
GraphRaises ==
    /\ \/ orch.pc \in {"scope", "combine"}
       \/ orch.pc = "decide" /\ orch.remaining > 0
       \/ session = "poisoned" /\ orch.pc = "delegate"
       \/ session = "poisoned" /\ orch.pc = "waiting" /\ agent.pc = "returned" /\ MayRetry
    /\ FinalizeError

OrchStep == IdentifyScope \/ DecideDelegate \/ DecideStop \/ DecideSpent \/ Delegate \/ Retry
            \/ Delegated \/ Pause \/ Combine \/ GraphRaises

-----------------------------------------------------------------------------
(* resume() *)

Undecided == orch.pending \in DOMAIN approvals /\ approvals[orch.pending].status = "pending"

\* On the instance that paused: _await_approval_node() decides the approval and
\* the graph goes on.
ResumeDecides ==
    /\ orch.pc = "paused" /\ session = "clean" /\ Undecided /\ orch.run \in DOMAIN runs
    /\ approvals' = [approvals EXCEPT ![orch.pending].status = "decided"]
    /\ orch' = [orch EXCEPT !.pc = "decide", !.pending = 0, !.resolved = @ \cup {orch.pending},
                            !.status = "none"]
    /\ UNCHANGED <<runs, session, agent>>

\* The same when the run was rolled back and the approval, which had been handed
\* back, was not. The graph may reach its end, but the first thing it records of
\* the run breaks a foreign key; only the model's failure can come before that.
ResumeUnrecorded ==
    /\ orch.pc = "paused" /\ session = "clean" /\ Undecided /\ orch.run \notin DOMAIN runs
    /\ approvals' = [approvals EXCEPT ![orch.pending].status = "decided"]
    /\ \E status \in {"completed", "error"} :
         /\ orch' = [orch EXCEPT !.pc = "returned", !.pending = 0,
                                 !.resolved = @ \cup {orch.pending}, !.status = status]
         /\ \/ session' = "poisoned" /\ (status = "completed" => Missing = {} \/ orch.remaining = 0)
            \/ session' = "clean" /\ status = "error"
    /\ UNCHANGED <<runs, agent>>

\* approve() or reject() raises, nobody is named as deciding, or the approval was
\* decided before. The run is marked failed; the checkpoint stays.
ResumeRaises ==
    /\ orch.pc = "paused"
    /\ runs' = Completed(orch.run, "failed")
    /\ orch' = [orch EXCEPT !.status = "error"]
    /\ UNCHANGED <<approvals, session, agent>>

\* Another instance knows no checkpoint: its graph raises, and the run is marked
\* failed while its own instance could still resume it.
ResumeElsewhere ==
    /\ orch.pc = "paused"
    /\ runs' = Completed(orch.run, "failed")
    /\ UNCHANGED <<approvals, session, agent, orch>>
=============================================================================

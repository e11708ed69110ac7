------------------------ MODULE AgentRequests_proofs ------------------------
(***************************************************************************)
(* For any specialists, iterations, retries and delegation budget, any     *)
(* number of pauses and resumptions, and a session that may break at any   *)
(* point: the safety properties of AgentRequests.                          *)
(***************************************************************************)
EXTENDS AgentRequests, SequenceTheorems, TLAPS

Outcomes == {"none", "completed", "pending_approval", "error"}

AgentRecords ==
    [pc : {"off", "asking", "calling", "over", "returned"}, name : Agents \cup {"none"},
     run : Nat, iterations : 0 .. MaxIterations, calls : 0 .. MaxCalls, proposal : Nat,
     status : Outcomes]

\* Where the graph has work to do.
Working == {"scope", "decide", "delegate", "waiting", "await", "combine"}

OrchRecords ==
    [pc : Working \cup {"off", "paused", "returned"}, run : Nat,
     required : SUBSET Agents, invoked : SUBSET Agents, remaining : 0 .. MaxDelegations,
     next : Agents \cup {"none"}, attempt : 0 .. MaxRetries + 1, pending : Nat,
     resolved : SUBSET Nat, status : Outcomes]

RequestRecords ==
    [pc : {"idle", "running", "answered", "raised", "over"},
     kind : {"none", "specialist", "orchestrator", "dashboard", "resume"},
     answer : Outcomes]

-----------------------------------------------------------------------------
(* There are two views of the tables, the session's and the committed one; *)
(* R and A are the runs and the approvals of either.                       *)

\* A run under another is a specialist's under the orchestrator's.
Rooted(R, A) ==
    /\ R \in Seq(RunRows) /\ A \in Seq(ApprovalRows)
    /\ \A r \in DOMAIN R : R[r].parent # 0 => R[r].parent = orch.run /\ orch.run \in DOMAIN R
    /\ orch.run \in DOMAIN R => R[orch.run].agent = "orchestrator" /\ R[orch.run].parent = 0
    /\ \A a \in DOMAIN A : A[a].run \in DOMAIN R

Unfinished(R) ==
    orch.pc # "returned" /\ orch.run \in DOMAIN R => R[orch.run].status # "completed"

\* A delegated proposal that nothing accounts for yet.
Open(R, A, a) ==
    /\ A[a].status = "pending" /\ ~A[a].buried /\ a \notin orch.resolved
    /\ R[A[a].run].parent # 0 /\ R[A[a].run].status # "failed"

NoneLeft(R, A) ==
    \A a \in DOMAIN A : Open(R, A, a) => R[orch.run].status # "completed"

\* What a checkpoint waits for is the only open proposal, if any is.
Checkpoint(R, A) ==
    orch.pc = "paused" => \A a \in DOMAIN A : Open(R, A, a) => a = orch.pending

\* A specialist of the run r has answered over a proposal, its own or another's.
HasProposal(R, r) ==
    \E c \in DOMAIN R : R[c].parent = r /\ R[c].status = "completed" /\ R[c].proposed

Failure(R) == \E r \in DOMAIN R : R[r].status = "failed"

SavedOK ==
    /\ saved = [runs |-> saved.runs, approvals |-> saved.approvals, workflow |-> saved.workflow]
    /\ Rooted(saved.runs, saved.approvals)
    /\ Unfinished(saved.runs)
    /\ NoneLeft(saved.runs, saved.approvals)
    /\ Checkpoint(saved.runs, saved.approvals)
    /\ \A r \in DOMAIN saved.runs :
         saved.runs[r].status = "running"
         => r = orch.run /\ HasProposal(saved.runs, r)
    /\ orch.pc \in Working =>
         \A a \in DOMAIN saved.approvals : ~Open(saved.runs, saved.approvals, a)
    /\ DOMAIN saved.runs \subseteq DOMAIN runs
    /\ request.kind # "resume" /\ request.pc # "over" => saved.workflow = "none"
    /\ saved.workflow \in {"none", "running", "completed"}
    /\ saved.workflow = "completed" /\ request.kind # "resume" /\ request.answer = "error"
         => Failure(saved.runs)

\* While the session is clean, an open proposal is in the hands of somebody who
\* will not let the graph go on over it,
Held ==
    \A a \in DOMAIN approvals : Open(runs, approvals, a) =>
      \/ orch.pc = "waiting" /\ agent.proposal = a /\ approvals[a].run = agent.run
      \/ orch.pc = "await" /\ orch.pending = a
      \/ orch.pc \in {"paused", "returned"}

\* and a run is "running" as long as somebody works on it, or a proposal paused it.
Busy ==
    \A r \in DOMAIN runs : runs[r].status = "running" =>
      \/ agent.pc \in {"asking", "calling", "over"} /\ r = agent.run
      \/ r = orch.run /\ (orch.pc \in Working \/ HasProposal(runs, r))

LiveOK ==
    /\ Rooted(runs, approvals)
    /\ Unfinished(runs)
    /\ session = "clean" => NoneLeft(runs, approvals) /\ Checkpoint(runs, approvals) /\ Held /\ Busy
    /\ session = "clean" /\ workflow = "completed" /\ request.kind # "resume"
       /\ request.answer = "error" => Failure(runs)

AgentOK ==
    /\ agent \in AgentRecords
    /\ agent.pc = "off" => agent = Off
    /\ agent.pc # "off" =>
         /\ request.pc = "running"
         /\ orch.pc = "waiting" \/ (request.kind = "specialist" /\ orch.pc = "off")
         /\ agent.name \in Agents
         /\ agent.run \in DOMAIN runs /\ agent.run # orch.run
         /\ runs[agent.run].parent = orch.run
         /\ agent.proposal # 0 => agent.proposal \in DOMAIN approvals
    /\ agent.pc \in {"asking", "calling", "over"} => runs[agent.run].status = "running"
    /\ agent.pc = "calling" => agent.calls > 0
    /\ agent.pc \in {"over", "returned"} =>
         /\ agent.status # "none"
         /\ agent.status = "completed" => agent.proposal = 0
         /\ agent.status = "pending_approval" => agent.proposal # 0
    /\ agent.pc = "returned" =>
         runs[agent.run].proposed = (agent.status = "pending_approval")
    /\ agent.pc = "returned" /\ session = "clean" =>
         runs[agent.run].status = IF agent.status = "error" THEN "failed" ELSE "completed"

Floor == orch.required \subseteq orch.invoked \/ orch.remaining = 0

OrchOK ==
    /\ orch \in OrchRecords
    /\ orch.pc = "off" <=> orch.run = 0
    /\ orch.pc \in Working => request.pc = "running" /\ orch.run \in DOMAIN runs
    /\ orch.pc \in {"delegate", "waiting"} => orch.next \in Agents /\ orch.remaining > 0
    /\ orch.pc = "waiting" => agent.pc # "off"
    /\ orch.pc = "await" /\ session = "clean" => HasProposal(runs, orch.run)
    /\ orch.pc = "combine" => Floor
    /\ orch.pc = "returned" /\ "completed" \in {orch.status, request.answer} => Floor
    /\ orch.pc = "returned" /\ session = "clean" /\ orch.status = "error"
       /\ request.kind # "resume" => Failure(runs)
    /\ orch.status # "none" => request.pc = "running" /\ orch.pc \in {"paused", "returned"}
    /\ orch.pc = "paused" /\ orch.status = "error" => request.kind = "resume"

RequestOK ==
    /\ request \in RequestRecords
    /\ session \in {"clean", "poisoned"} /\ workflow \in {"none", "running", "completed"}
    /\ request.pc \in {"idle", "running", "raised"} => request.answer = "none"
    /\ request.pc = "idle" => request.kind = "none"
    /\ session = "poisoned" => request.pc \notin {"idle", "over"}
    /\ request.pc \in {"idle", "over"} =>
         saved = [runs |-> runs, approvals |-> approvals, workflow |-> workflow]
    /\ request.kind \notin {"orchestrator", "resume"} => orch.pc = "off"

RequestInv == AgentOK /\ OrchOK /\ RequestOK /\ LiveOK /\ SavedOK

-----------------------------------------------------------------------------
(* The rows *)

LEMMA TableOf ==
    ASSUME NEW S, NEW rows \in Seq(S)
    PROVE  Len(rows) \in Nat /\ DOMAIN rows = 1 .. Len(rows) /\ \A i \in DOMAIN rows : rows[i] \in S
BY LenProperties, ElementOfSeq

\* One row more.
LEMMA Appended ==
    ASSUME NEW S, NEW rows \in Seq(S), NEW row \in S, NEW t, t = Append(rows, row)
    PROVE  /\ t \in Seq(S) /\ Len(t) = Len(rows) + 1
           /\ DOMAIN rows = 1 .. Len(rows) /\ DOMAIN t = 1 .. (Len(rows) + 1)
           /\ \A i \in DOMAIN rows : i \in DOMAIN t /\ t[i] = rows[i]
           /\ t[Len(rows) + 1] = row
<1>1. t \in Seq(S) /\ Len(t) = Len(rows) + 1 /\ t[Len(rows) + 1] = row
      /\ \A i \in 1 .. Len(rows) : t[i] = rows[i]
  BY AppendProperties
<1>2. DOMAIN rows = 1 .. Len(rows) /\ DOMAIN t = 1 .. (Len(rows) + 1) /\ Len(rows) \in Nat
  BY <1>1, LenProperties
<1>3. QED
  BY <1>1, <1>2

\* The same rows with other contents.
LEMMA Rewritten ==
    ASSUME NEW S, NEW T, NEW rows \in Seq(S), NEW t \in [DOMAIN rows -> T]
    PROVE  t \in Seq(T) /\ Len(t) = Len(rows) /\ DOMAIN t = DOMAIN rows
<1>1. Len(rows) \in Nat /\ DOMAIN rows = 1 .. Len(rows)
  BY LenProperties
<1>2. t \in Seq(T)
  BY <1>1
<1>3. QED
  BY <1>1, <1>2, LenProperties

LEMMA CompletedRun ==
    ASSUME runs \in Seq(RunRows), NEW run, NEW status \in {"completed", "failed"},
           NEW R, R = Completed(run, status)
    PROVE  /\ R \in Seq(RunRows) /\ Len(R) = Len(runs) /\ DOMAIN R = DOMAIN runs
           /\ \A r \in DOMAIN runs :
                /\ R[r].agent = runs[r].agent /\ R[r].parent = runs[r].parent
                /\ R[r].proposed = runs[r].proposed
                /\ R[r].status = IF session = "clean" /\ r = run THEN status ELSE runs[r].status
<1>1. \A r \in DOMAIN runs : runs[r] \in RunRows
  BY TableOf
<1>2. CASE session = "clean" /\ run \in DOMAIN runs
  <2>1. R = [runs EXCEPT ![run].status = status]
    BY <1>2 DEF Completed
  <2>2. runs \in [DOMAIN runs -> RunRows]
    BY LenProperties
  <2>3. \A r \in DOMAIN runs :
          R[r] = IF r = run THEN [runs[r] EXCEPT !.status = status] ELSE runs[r]
    BY <2>1, <2>2
  <2>4. \A r \in DOMAIN runs :
                /\ R[r].agent = runs[r].agent /\ R[r].parent = runs[r].parent
                /\ R[r].proposed = runs[r].proposed
                /\ R[r].status = IF r = run THEN status ELSE runs[r].status
                /\ R[r] \in RunRows
    BY <1>1, <2>3 DEF RunRows
  <2>5. R \in [DOMAIN runs -> RunRows]
    BY <2>1, <2>2, <2>4
  <2>6. QED
    BY <1>2, <2>4, <2>5, Rewritten
<1>3. CASE ~(session = "clean" /\ run \in DOMAIN runs)
  BY <1>3, LenProperties DEF Completed
<1>4. QED
  BY <1>2, <1>3

LEMMA BuriedRows ==
    ASSUME approvals \in Seq(ApprovalRows)
    PROVE  /\ Buried \in Seq(ApprovalRows) /\ Len(Buried) = Len(approvals)
           /\ DOMAIN Buried = DOMAIN approvals
           /\ \A a \in DOMAIN approvals :
                /\ Buried[a].run = approvals[a].run /\ Buried[a].status = approvals[a].status
                /\ Buried[a].buried = (approvals[a].buried \/ approvals[a].run = agent.run)
<1>1. \A a \in DOMAIN approvals : approvals[a] \in ApprovalRows
  BY TableOf
<1>2. \A a \in DOMAIN approvals :
                /\ Buried[a].run = approvals[a].run /\ Buried[a].status = approvals[a].status
                /\ Buried[a].buried = (approvals[a].buried \/ approvals[a].run = agent.run)
                /\ Buried[a] \in ApprovalRows
  BY <1>1 DEF Buried, ApprovalRows
<1>3. Buried \in [DOMAIN approvals -> ApprovalRows]
  BY <1>2 DEF Buried
<1>4. QED
  BY <1>2, <1>3, Rewritten

-----------------------------------------------------------------------------
(* The specialist at work *)

\* Agent steps leave the graph and the request alone: whatever else they do, this
\* much of the invariant stands.
LEMMA AroundTheAgent ==
    ASSUME RequestInv, request.pc = "running", agent.pc # "off", agent'.pc # "off",
           UNCHANGED <<orch, workflow, request, saved, session>>,
           runs' \in Seq(RunRows), DOMAIN runs' = DOMAIN runs,
           \A r \in DOMAIN runs :
             /\ runs'[r].agent = runs[r].agent /\ runs'[r].parent = runs[r].parent
             /\ r # agent.run => runs'[r].status = runs[r].status,
           approvals' \in Seq(ApprovalRows), DOMAIN approvals \subseteq DOMAIN approvals',
           \A a \in DOMAIN approvals : approvals'[a].run = approvals[a].run,
           \A a \in DOMAIN approvals' \ DOMAIN approvals : approvals'[a].run = agent.run
    PROVE  /\ OrchOK' /\ RequestOK' /\ SavedOK'
           /\ (session' = "clean" => Held' /\ Busy') => LiveOK'
<1>1. /\ orch' = orch /\ workflow' = workflow /\ request' = request /\ saved' = saved
      /\ session' = session
  OBVIOUS
<1>2. orch.pc \in {"waiting", "off"} /\ agent.run \in DOMAIN runs /\ agent.run # orch.run
      /\ runs[agent.run].parent = orch.run
  BY DEF RequestInv, AgentOK
<1>3. request.answer = "none"
  BY DEF RequestInv, RequestOK
<1>4. OrchOK'
  BY <1>1, <1>2 DEF RequestInv, OrchOK, Floor
<1>5. RequestOK'
  BY <1>1 DEF RequestInv, RequestOK
<1>7. SavedOK'
  BY <1>1 DEF RequestInv, SavedOK, Rooted, Unfinished, NoneLeft, Open, Checkpoint,
                    HasProposal, Failure
<1>8. Rooted(runs, approvals)'
  BY <1>1, <1>2 DEF RequestInv, LiveOK, Rooted
<1>9. Unfinished(runs)' /\ NoneLeft(runs, approvals)' /\ Checkpoint(runs, approvals)'
  <2>1. Unfinished(runs)'
    BY <1>1, <1>2 DEF RequestInv, LiveOK, Rooted, Unfinished
  <2>2. NoneLeft(runs, approvals)'
    <3>1. ASSUME NEW a \in DOMAIN approvals', Open(runs, approvals, a)'
          PROVE  orch.run \in DOMAIN runs
      BY <1>1, <1>8, <3>1 DEF Open, Rooted
    <3>2. QED
      BY <1>1, <1>2, <2>1, <3>1 DEF NoneLeft, Unfinished
  <2>3. QED
    BY <1>1, <1>2, <2>1, <2>2 DEF Checkpoint
<1>10. QED
  BY <1>1, <1>3, <1>4, <1>5, <1>7, <1>8, <1>9 DEF LiveOK

\* Who is at work, for whom, and on which row.
LEMMA AtWork ==
    ASSUME RequestInv, agent.pc # "off"
    PROVE  /\ agent.run \in DOMAIN runs /\ agent.run # orch.run
           /\ orch.pc \in {"waiting", "off"} /\ runs[agent.run].parent = orch.run
           /\ agent.proposal # 0 => agent.proposal \in DOMAIN approvals
           /\ runs \in Seq(RunRows) /\ approvals \in Seq(ApprovalRows)
           /\ \A a \in DOMAIN approvals : approvals[a].run \in DOMAIN runs
           /\ agent \in AgentRecords
BY DEF RequestInv, AgentOK, LiveOK, Rooted

\* A step that changes the specialist only, and keeps its last output.
LEMMA ThinkingOK ==
    ASSUME RequestInv, request.pc = "running", agent.pc \in {"asking", "calling"},
           agent'.pc \in {"asking", "calling", "over"},
           UNCHANGED <<runs, approvals, session, orch, workflow, request, saved>>,
           agent' \in AgentRecords, agent'.name = agent.name, agent'.run = agent.run,
           agent'.proposal = agent.proposal,
           agent'.pc = "calling" => agent'.calls > 0,
           agent'.pc = "over" => \/ agent'.status = "error"
                                 \/ agent'.status = FinalStatus
    PROVE  RequestInv'
<1>1. AgentOK'
  BY DEF RequestInv, AgentOK, FinalStatus
<1>2. \A a \in DOMAIN approvals : Open(runs, approvals, a)' <=> Open(runs, approvals, a)
  BY DEF Open
<1>3. session = "clean" => Held' /\ Busy'
  BY <1>2 DEF RequestInv, LiveOK, Held, Busy, HasProposal
<1>4. /\ OrchOK' /\ RequestOK' /\ SavedOK'
      /\ (session' = "clean" => Held' /\ Busy') => LiveOK'
  <2>1. runs \in Seq(RunRows) /\ approvals \in Seq(ApprovalRows)
    BY AtWork
  <2>2. QED
    BY <2>1, AroundTheAgent
<1>5. QED
  BY <1>1, <1>3, <1>4 DEF RequestInv

LEMMA AnswerOK ==
    ASSUME RequestInv, request.pc = "running", Answer \/ GiveUp \/ LoopRaises,
           UNCHANGED <<orch, workflow, request, saved>>
    PROVE  RequestInv'
<1>1. agent \in AgentRecords /\ agent.pc \in {"asking", "calling"}
  BY DEF RequestInv, AgentOK, Answer, GiveUp, LoopRaises
<1>2. PICK status \in {"error", FinalStatus} :
        agent' = [agent EXCEPT !.pc = "over", !.iterations = 0, !.calls = 0, !.status = status]
  BY DEF Answer, GiveUp, LoopRaises, Over
<1>3. status \in Outcomes
  BY DEF FinalStatus, Outcomes
<1>7. /\ agent'.pc = "over" /\ agent'.status = status
      /\ agent'.name = agent.name /\ agent'.run = agent.run /\ agent'.proposal = agent.proposal
  BY <1>1, <1>2 DEF AgentRecords
<1>8. 0 \in 0 .. MaxCalls /\ 0 \in 0 .. MaxIterations
  BY AgentAssumption
<1>4. agent' \in AgentRecords
  BY <1>1, <1>2, <1>3, <1>7, <1>8 DEF AgentRecords
<1>5. UNCHANGED <<runs, approvals, session>>
  BY DEF Answer, GiveUp, LoopRaises
<1>6. QED
  BY <1>1, <1>2, <1>4, <1>5, <1>7, ThinkingOK

LEMMA RequestCallsOK ==
    ASSUME RequestInv, request.pc = "running", RequestCalls,
           UNCHANGED <<orch, workflow, request, saved>>
    PROVE  RequestInv'
<1>1. agent \in AgentRecords /\ agent.pc = "asking" /\ agent.iterations < MaxIterations
  BY DEF RequestInv, AgentOK, RequestCalls
<1>2. PICK n \in 1 .. MaxCalls :
        agent' = [agent EXCEPT !.pc = "calling", !.iterations = @ + 1, !.calls = n]
  BY DEF RequestCalls
<1>3. /\ agent'.pc = "calling" /\ agent'.calls = n
      /\ agent'.name = agent.name /\ agent'.run = agent.run /\ agent'.proposal = agent.proposal
  BY <1>1, <1>2 DEF AgentRecords
<1>7. agent'.iterations = agent.iterations + 1 /\ agent'.iterations \in 0 .. MaxIterations
      /\ n \in 0 .. MaxCalls
  BY <1>1, <1>2, AgentAssumption DEF AgentRecords
<1>6. agent' \in AgentRecords
  BY <1>1, <1>2, <1>7 DEF AgentRecords
<1>4. UNCHANGED <<runs, approvals, session>>
  BY DEF RequestCalls
<1>5. QED
  BY <1>1, <1>3, <1>4, <1>6, ThinkingOK

\* What a call leaves of the specialist.
LEMMA CallDone ==
    ASSUME agent \in AgentRecords, agent.pc = "calling", agent.calls > 0,
           NEW proposal \in Nat, AfterCall(proposal)
    PROVE  /\ agent' \in AgentRecords /\ agent'.pc \in {"asking", "calling"}
           /\ agent'.pc = "calling" => agent'.calls > 0
           /\ agent'.name = agent.name /\ agent'.run = agent.run
           /\ agent'.proposal = proposal
<1>1. agent.calls \in 1 .. MaxCalls
  BY AgentAssumption DEF AgentRecords
<1>2. /\ agent'.pc = (IF agent.calls = 1 THEN "asking" ELSE "calling")
      /\ agent'.calls = agent.calls - 1 /\ agent'.proposal = proposal
      /\ agent'.name = agent.name /\ agent'.run = agent.run
  BY DEF AfterCall, AgentRecords
<1>5. agent.calls - 1 \in 0 .. MaxCalls
  BY <1>1, AgentAssumption
<1>3. agent' \in AgentRecords
  BY <1>2, <1>5 DEF AfterCall, AgentRecords
<1>4. QED
  BY <1>1, <1>2, <1>3

LEMMA RefuseCallOK ==
    ASSUME RequestInv, request.pc = "running", RefuseCall,
           UNCHANGED <<orch, workflow, request, saved>>
    PROVE  RequestInv'
<1>1. agent \in AgentRecords /\ agent.pc = "calling" /\ agent.calls > 0 /\ agent.proposal \in Nat
  BY DEF RequestInv, AgentOK, RefuseCall, Calling, AgentRecords
<1>2. /\ agent' \in AgentRecords /\ agent'.pc \in {"asking", "calling"}
      /\ agent'.pc = "calling" => agent'.calls > 0
      /\ agent'.name = agent.name /\ agent'.run = agent.run
      /\ agent'.proposal = agent.proposal
  BY <1>1, CallDone DEF RefuseCall
<1>3. UNCHANGED <<runs, approvals, session>>
  BY DEF RefuseCall
<1>4. QED
  BY <1>1, <1>2, <1>3, ThinkingOK

\* A call that was not refused takes the last output's place, with a proposal or
\* without; the agent's other proposals are behind it.
LEMMA CalledOK ==
    ASSUME RequestInv, request.pc = "running", agent.pc = "calling", session = "clean",
           UNCHANGED <<runs, session, orch, workflow, request, saved>>,
           NEW proposal \in Nat, AfterCall(proposal),
           approvals' \in Seq(ApprovalRows), DOMAIN approvals \subseteq DOMAIN approvals',
           \A a \in DOMAIN approvals :
             /\ approvals'[a].run = approvals[a].run /\ approvals'[a].status = approvals[a].status
             /\ \/ approvals'[a].buried
                \/ ~approvals[a].buried /\ approvals[a].run # agent.run
                \/ a = proposal /\ approvals[a].run = agent.run,
           \A a \in DOMAIN approvals' \ DOMAIN approvals :
             a = proposal /\ approvals'[a].run = agent.run,
           proposal # 0 => proposal \in DOMAIN approvals'
    PROVE  RequestInv'
<1>1. agent \in AgentRecords /\ agent.calls > 0
  BY DEF RequestInv, AgentOK
<1>2. /\ agent' \in AgentRecords /\ agent'.pc \in {"asking", "calling"}
      /\ agent'.pc = "calling" => agent'.calls > 0
      /\ agent'.name = agent.name /\ agent'.run = agent.run
      /\ agent'.proposal = proposal
  BY <1>1, CallDone
<1>3. AgentOK'
  BY <1>2 DEF RequestInv, AgentOK
<1>4. Held'
  <2> SUFFICES ASSUME NEW a \in DOMAIN approvals', Open(runs, approvals, a)'
               PROVE  orch.pc = "waiting" /\ a = proposal /\ approvals'[a].run = agent.run
    BY <1>2 DEF Held
  <2>1. approvals'[a].run = agent.run => orch.pc = "waiting"
    <3>1. runs[approvals'[a].run].parent # 0
      BY DEF Open
    <3>2. QED
      BY <3>1, AtWork DEF RequestInv, OrchOK
  <2>2. CASE a \in DOMAIN approvals
    <3>1. CASE ~approvals[a].buried /\ approvals[a].run # agent.run
      <4>1. Open(runs, approvals, a)
        BY <2>2, <3>1 DEF Open
      <4>2. QED
        BY <2>2, <3>1, <4>1, AtWork DEF RequestInv, LiveOK, Held
    <3>2. CASE a = proposal /\ approvals[a].run = agent.run
      BY <2>1, <2>2, <3>2
    <3>3. QED
      BY <2>2, <3>1, <3>2 DEF Open
  <2>3. CASE a \notin DOMAIN approvals
    BY <2>1, <2>3
  <2>4. QED
    BY <2>2, <2>3
<1>5. Busy'
  BY <1>2 DEF RequestInv, LiveOK, Busy, HasProposal
<1>6. OrchOK' /\ RequestOK' /\ SavedOK' /\ LiveOK'
  <2>1. runs \in Seq(RunRows)
    BY AtWork
  <2>2. QED
    BY <1>2, <1>4, <1>5, <2>1, AroundTheAgent
<1>7. QED
  BY <1>3, <1>6 DEF RequestInv

LEMMA CallToolOK ==
    ASSUME RequestInv, request.pc = "running", CallTool,
           UNCHANGED <<orch, workflow, request, saved>>
    PROVE  RequestInv'
<1>1. /\ agent.pc = "calling" /\ session = "clean" /\ approvals' = Buried /\ AfterCall(0)
      /\ UNCHANGED <<runs, session>>
  BY DEF CallTool, Calling
<1>2. approvals \in Seq(ApprovalRows)
  BY <1>1, AtWork
<1>3. /\ approvals' \in Seq(ApprovalRows) /\ DOMAIN approvals' = DOMAIN approvals
      /\ \A a \in DOMAIN approvals :
           /\ approvals'[a].run = approvals[a].run /\ approvals'[a].status = approvals[a].status
           /\ approvals'[a].buried = (approvals[a].buried \/ approvals[a].run = agent.run)
  BY <1>1, <1>2, BuriedRows
<1>4. QED
  BY <1>1, <1>3, CalledOK

LEMMA ProposeChangeOK ==
    ASSUME RequestInv, request.pc = "running", ProposeChange,
           UNCHANGED <<orch, workflow, request, saved>>
    PROVE  RequestInv'
<1> DEFINE n == Len(approvals)
           row == Proposal(agent.run)
<1>1. /\ agent.pc = "calling" /\ session = "clean" /\ approvals' = Append(Buried, row)
      /\ AfterCall(n + 1) /\ UNCHANGED <<runs, session>>
  BY DEF ProposeChange, Calling
<1>2. approvals \in Seq(ApprovalRows) /\ n \in Nat /\ DOMAIN approvals = 1 .. n
  BY <1>1, AtWork, LenProperties
<1>3. row \in ApprovalRows /\ row.run = agent.run
  BY <1>1, AtWork DEF ApprovalRows, AgentRecords, Proposal
<1> HIDE DEF row
<1>5. /\ Buried \in Seq(ApprovalRows) /\ Len(Buried) = n /\ DOMAIN Buried = 1 .. n
      /\ \A a \in DOMAIN approvals :
           /\ Buried[a].run = approvals[a].run /\ Buried[a].status = approvals[a].status
           /\ Buried[a].buried = (approvals[a].buried \/ approvals[a].run = agent.run)
  BY <1>2, BuriedRows
<1>6. /\ approvals' \in Seq(ApprovalRows) /\ DOMAIN approvals' = 1 .. (n + 1)
      /\ \A a \in 1 .. n : approvals'[a] = Buried[a]
      /\ approvals'[n + 1] = row
  BY <1>1, <1>3, <1>5, Appended
<1>7. /\ DOMAIN approvals \subseteq DOMAIN approvals'
      /\ \A a \in DOMAIN approvals' \ DOMAIN approvals :
           a = n + 1 /\ approvals'[a].run = agent.run
      /\ n + 1 \in Nat /\ n + 1 \in DOMAIN approvals'
  BY <1>2, <1>3, <1>6
<1>8. \A a \in DOMAIN approvals :
             /\ approvals'[a].run = approvals[a].run /\ approvals'[a].status = approvals[a].status
             /\ approvals'[a].buried = (approvals[a].buried \/ approvals[a].run = agent.run)
  BY <1>2, <1>5, <1>6
<1> HIDE DEF n
<1>9. UNCHANGED <<runs, session, orch, workflow, request, saved>>
  BY <1>1
<1>10. QED
  BY <1>1, <1>6, <1>7, <1>8, <1>9, CalledOK

\* An approval that is handed back is new to nobody but the agent.
LEMMA HandBackOK ==
    ASSUME RequestInv, request.pc = "running", HandBack,
           UNCHANGED <<orch, workflow, request, saved>>
    PROVE  RequestInv'
<1>1. agent.pc = "calling" /\ session = "clean" /\ UNCHANGED <<runs, session>>
  BY DEF HandBack, Calling
<1>2. PICK a \in DOMAIN approvals :
        /\ approvals' = [Buried EXCEPT ![a].buried = @ /\ approvals[a].run # agent.run]
        /\ AfterCall(a)
  BY DEF HandBack
<1>3. approvals \in Seq(ApprovalRows) /\ a \in Nat
  BY <1>1, AtWork, LenProperties
<1>4. /\ Buried \in Seq(ApprovalRows) /\ DOMAIN Buried = DOMAIN approvals
      /\ \A b \in DOMAIN approvals :
           /\ Buried[b].run = approvals[b].run /\ Buried[b].status = approvals[b].status
           /\ Buried[b].buried = (approvals[b].buried \/ approvals[b].run = agent.run)
  BY <1>3, BuriedRows
<1>5. \A b \in DOMAIN approvals : Buried[b] \in ApprovalRows
  BY <1>4, TableOf
<1>6. /\ approvals' \in [DOMAIN approvals -> ApprovalRows]
      /\ \A b \in DOMAIN approvals :
           /\ approvals'[b].run = Buried[b].run /\ approvals'[b].status = Buried[b].status
           /\ b # a => approvals'[b].buried = Buried[b].buried
           /\ b = a => approvals'[b].buried = (Buried[b].buried /\ approvals[b].run # agent.run)
  <2>1. Buried \in [DOMAIN approvals -> ApprovalRows]
    BY <1>5 DEF Buried
  <2>2. \A b \in DOMAIN approvals :
          approvals'[b] = IF b = a
                          THEN [Buried[b] EXCEPT !.buried = @ /\ approvals[a].run # agent.run]
                          ELSE Buried[b]
    BY <1>2, <2>1
  <2>3. (Buried[a].buried /\ approvals[a].run # agent.run) \in BOOLEAN
    OBVIOUS
  <2>4. \A b \in DOMAIN approvals : approvals'[b] \in ApprovalRows
    BY <1>5, <2>2, <2>3 DEF ApprovalRows
  <2>5. approvals' \in [DOMAIN approvals -> ApprovalRows]
    BY <1>2, <2>1, <2>4
  <2>6. QED
    BY <1>5, <2>2, <2>5 DEF ApprovalRows
<1>7. approvals' \in Seq(ApprovalRows) /\ DOMAIN approvals' = DOMAIN approvals
  BY <1>3, <1>6, Rewritten
<1>8. \A b \in DOMAIN approvals :
        /\ approvals'[b].run = approvals[b].run /\ approvals'[b].status = approvals[b].status
        /\ \/ approvals'[b].buried
           \/ ~approvals[b].buried /\ approvals[b].run # agent.run
           \/ b = a /\ approvals[b].run = agent.run
  BY <1>4, <1>6
<1>9. QED
  BY <1>1, <1>2, <1>3, <1>7, <1>8, CalledOK

\* The result is recorded, unless the session is poisoned, and then nothing will be
\* committed.
LEMMA FinishOK ==
    ASSUME RequestInv, request.pc = "running", Finish,
           UNCHANGED <<orch, workflow, request, saved>>
    PROVE  RequestInv'
<1> DEFINE status == IF agent.status = "error" THEN "failed" ELSE "completed"
           proposed == agent.status = "pending_approval"
           recorded == Completed(agent.run, status)
<1>1. /\ agent.pc = "over" /\ agent' = [agent EXCEPT !.pc = "returned"]
      /\ runs' = [recorded EXCEPT ![agent.run].proposed = proposed]
      /\ UNCHANGED <<approvals, session>>
  BY DEF Finish
<1>2. /\ agent' \in AgentRecords /\ agent'.pc = "returned" /\ agent'.name = agent.name
      /\ agent'.run = agent.run /\ agent'.proposal = agent.proposal
      /\ agent'.status = agent.status
  BY <1>1, AtWork DEF AgentRecords
<1>3. /\ runs' \in Seq(RunRows) /\ DOMAIN runs' = DOMAIN runs
      /\ \A r \in DOMAIN runs :
                /\ runs'[r].agent = runs[r].agent /\ runs'[r].parent = runs[r].parent
                /\ runs'[r].status = IF session = "clean" /\ r = agent.run THEN status
                                     ELSE runs[r].status
                /\ r # agent.run => runs'[r].proposed = runs[r].proposed
                /\ r = agent.run => runs'[r].proposed = proposed
  <2>1. /\ recorded \in Seq(RunRows) /\ DOMAIN recorded = DOMAIN runs
        /\ \A r \in DOMAIN runs :
                  /\ recorded[r].agent = runs[r].agent /\ recorded[r].parent = runs[r].parent
                  /\ recorded[r].proposed = runs[r].proposed
                  /\ recorded[r].status = IF session = "clean" /\ r = agent.run THEN status
                                          ELSE runs[r].status
    BY <1>1, AtWork, CompletedRun
  <2>2. /\ \A r \in DOMAIN runs : recorded[r] \in RunRows
        /\ recorded \in [DOMAIN runs -> RunRows]
    BY <2>1, TableOf, LenProperties
  <2> HIDE DEF recorded
  <2>3. \A r \in DOMAIN runs :
          runs'[r] = IF r = agent.run THEN [recorded[r] EXCEPT !.proposed = proposed]
                     ELSE recorded[r]
    BY <1>1, <2>2
  <2>4. proposed \in BOOLEAN
    OBVIOUS
  <2> HIDE DEF proposed, status
  <2>5. \A r \in DOMAIN runs :
          /\ runs'[r].agent = recorded[r].agent /\ runs'[r].parent = recorded[r].parent
          /\ runs'[r].status = recorded[r].status
          /\ r # agent.run => runs'[r].proposed = recorded[r].proposed
          /\ r = agent.run => runs'[r].proposed = proposed
          /\ runs'[r] \in RunRows
    BY <2>2, <2>3, <2>4 DEF RunRows
  <2>6. runs' \in [DOMAIN runs -> RunRows]
    BY <1>1, <2>2, <2>5
  <2>7. runs' \in Seq(RunRows) /\ DOMAIN runs' = DOMAIN runs
    BY <1>1, <2>6, AtWork, Rewritten
  <2>8. QED
    BY <2>1, <2>5, <2>7
<1> HIDE DEF recorded
<1>4. AgentOK'
  BY <1>1, <1>2, <1>3 DEF RequestInv, AgentOK
<1>5. approvals' = approvals /\ session' = session /\ orch' = orch
  BY <1>1
<1>6. session = "clean" => Held'
  <2>1. ASSUME session = "clean", NEW a \in DOMAIN approvals, Open(runs, approvals, a)'
        PROVE  Open(runs, approvals, a)
    <3>1. approvals[a].run \in DOMAIN runs
      BY <1>1, AtWork
    <3>2. CASE approvals[a].run = agent.run
      <4>1. runs'[agent.run].status # "failed" /\ runs'[agent.run].parent = runs[agent.run].parent
        BY <1>1, <1>3, <1>5, <2>1, <3>1, <3>2 DEF Open
      <4>3. runs[agent.run].status # "failed"
        BY <1>1 DEF RequestInv, AgentOK
      <4>4. QED
        BY <1>5, <2>1, <3>2, <4>1, <4>3 DEF Open
    <3>3. CASE approvals[a].run # agent.run
      BY <1>3, <1>5, <2>1, <3>1, <3>3 DEF Open
    <3>4. QED
      BY <3>2, <3>3
  <2>2. QED
    BY <1>2, <1>5, <2>1 DEF RequestInv, LiveOK, Held
<1>7. session = "clean" => Busy'
  <2> SUFFICES ASSUME session = "clean", NEW r \in DOMAIN runs, runs'[r].status = "running"
               PROVE  r = orch.run /\ (orch.pc \in Working \/ HasProposal(runs, r)')
    BY <1>2, <1>3, <1>5 DEF Busy
  <2>1. r # agent.run /\ runs[r].status = "running"
    BY <1>3
  <2>2. r = orch.run /\ (orch.pc \in Working \/ HasProposal(runs, r))
    BY <2>1 DEF RequestInv, LiveOK, Busy
  <2>3. runs[agent.run].status = "running"
    BY <1>1 DEF RequestInv, AgentOK
  <2>4. HasProposal(runs, r) => HasProposal(runs, r)'
    BY <1>3, <2>3 DEF HasProposal
  <2>5. QED
    BY <1>5, <2>2, <2>4
<1>8. /\ OrchOK' /\ RequestOK' /\ SavedOK'
      /\ (session' = "clean" => Held' /\ Busy') => LiveOK'
  <2>1. approvals \in Seq(ApprovalRows)
    BY <1>1, AtWork
  <2>2. QED
    BY <1>1, <1>2, <1>3, <2>1, AroundTheAgent
<1>9. QED
  BY <1>4, <1>5, <1>6, <1>7, <1>8 DEF RequestInv

LEMMA AgentStepOK ==
    ASSUME RequestInv, request.pc = "running", AgentStep \/ ToolReturns,
           UNCHANGED <<orch, workflow, request, saved>>
    PROVE  RequestInv'
BY AnswerOK, RequestCallsOK, CallToolOK, ProposeChangeOK, HandBackOK, RefuseCallOK, FinishOK
   DEF AgentStep, ToolReturns

-----------------------------------------------------------------------------
(* The graph *)

\* Nobody else works while the graph does, except the specialist it waits for.
LEMMA GraphAtWork ==
    ASSUME RequestInv, orch.pc \in Working
    PROVE  /\ orch.run \in DOMAIN runs /\ orch.run # 0 /\ orch.run \in Nat
           /\ request.pc = "running" /\ request.answer = "none"
           /\ orch.status = "none" /\ orch \in OrchRecords
           /\ orch.pc # "waiting" => agent = Off /\ agent.pc = "off"
           /\ runs \in Seq(RunRows) /\ approvals \in Seq(ApprovalRows)
           /\ \A a \in DOMAIN approvals : approvals[a].run \in DOMAIN runs
           /\ runs[orch.run].parent = 0 /\ runs[orch.run].status # "completed"
<1>1. orch.pc # "off" /\ orch.pc # "paused" /\ orch.pc # "returned"
  BY DEF Working
<1>2. /\ orch.run \in DOMAIN runs /\ orch.run # 0 /\ request.pc = "running"
      /\ orch.status = "none" /\ orch \in OrchRecords /\ orch.run \in Nat
  BY <1>1 DEF RequestInv, OrchOK, OrchRecords
<1>3. request.answer = "none"
  BY <1>2 DEF RequestInv, RequestOK
<1>4. orch.pc # "waiting" => agent = Off /\ agent.pc = "off"
  BY <1>1 DEF RequestInv, AgentOK, Off
<1>5. QED
  BY <1>1, <1>2, <1>3, <1>4 DEF RequestInv, LiveOK, Rooted, Unfinished

LEMMA AroundTheGraph ==
    ASSUME RequestInv, orch.pc \in Working, orch'.pc # "off", orch'.run = orch.run,
           orch'.pc # "returned" => orch'.resolved = orch.resolved,
           UNCHANGED <<approvals, session, workflow, request, saved>>,
           runs' \in Seq(RunRows), DOMAIN runs \subseteq DOMAIN runs',
           \A r \in DOMAIN runs :
             /\ runs'[r].agent = runs[r].agent /\ runs'[r].parent = runs[r].parent
             /\ runs'[r].proposed = runs[r].proposed
             /\ r # orch.run => runs'[r].status = runs[r].status,
           \A r \in DOMAIN runs' \ DOMAIN runs : runs'[r].parent = orch.run
    PROVE  /\ RequestOK' /\ SavedOK' /\ Rooted(runs, approvals)'
           /\ orch'.resolved = orch.resolved => \A a \in DOMAIN approvals :
                Open(runs, approvals, a)' <=> Open(runs, approvals, a)
           /\ HasProposal(runs, orch.run) => HasProposal(runs, orch.run)'
           /\ /\ Unfinished(runs)'
              /\ session = "clean" =>
                   (NoneLeft(runs, approvals) /\ Checkpoint(runs, approvals) /\ Held /\ Busy)'
              => LiveOK'
<1>1. /\ approvals' = approvals /\ workflow' = workflow /\ request' = request /\ saved' = saved
      /\ session' = session
  OBVIOUS
<1>2. orch.pc # "returned" /\ orch.pc # "off" /\ request.answer = "none" /\ request.pc = "running"
  BY GraphAtWork DEF Working
<1>3. request.kind \in {"orchestrator", "resume"}
  BY <1>2 DEF RequestInv, RequestOK
<1>4. RequestOK'
  BY <1>1, <1>2, <1>3 DEF RequestInv, RequestOK
<1>5. SavedOK'
  <2>1. Rooted(saved.runs, saved.approvals)'
    BY <1>1 DEF RequestInv, SavedOK, Rooted
  <2>2. orch'.pc # "returned" =>
          \A a \in DOMAIN saved.approvals : ~Open(saved.runs, saved.approvals, a)'
    BY <1>1 DEF RequestInv, SavedOK, Open
  <2>3. Unfinished(saved.runs)'
    BY <1>1, <1>2 DEF RequestInv, SavedOK, Unfinished
  <2>4. NoneLeft(saved.runs, saved.approvals)'
    <3>1. ASSUME NEW a \in DOMAIN saved.approvals, Open(saved.runs, saved.approvals, a)'
          PROVE  orch.run \in DOMAIN saved.runs
      BY <1>1, <3>1 DEF RequestInv, SavedOK, Rooted, Open
    <3>2. orch.run \in DOMAIN saved.runs => saved.runs[orch.run].status # "completed"
      BY <1>2 DEF RequestInv, SavedOK, Unfinished
    <3>3. QED
      BY <1>1, <3>1, <3>2 DEF NoneLeft
  <2>5. Checkpoint(saved.runs, saved.approvals)'
    BY <1>1, <2>2 DEF Checkpoint
  <2>6. "returned" \notin Working
    BY DEF Working
  <2>7. QED
    BY <1>1, <2>1, <2>2, <2>3, <2>4, <2>5, <2>6 DEF RequestInv, SavedOK, HasProposal, Failure
<1>6. Rooted(runs, approvals)'
  BY <1>1, GraphAtWork DEF RequestInv, LiveOK, Rooted
<1>7. ASSUME orch'.resolved = orch.resolved, NEW a \in DOMAIN approvals
      PROVE  Open(runs, approvals, a)' <=> Open(runs, approvals, a)
  <2>1. approvals[a].run \in DOMAIN runs
    BY GraphAtWork
  <2>2. CASE approvals[a].run = orch.run
    BY <1>1, <2>1, <2>2, GraphAtWork DEF Open
  <2>3. CASE approvals[a].run # orch.run
    BY <1>1, <1>7, <2>1, <2>3 DEF Open
  <2>4. QED
    BY <2>2, <2>3
<1>8. HasProposal(runs, orch.run) => HasProposal(runs, orch.run)'
  <2>1. ASSUME NEW c \in DOMAIN runs, runs[c].parent = orch.run PROVE c # orch.run
    BY <2>1, GraphAtWork
  <2>2. QED
    BY <1>1, <2>1 DEF HasProposal
<1>9. /\ Unfinished(runs)'
      /\ session = "clean" =>
           (NoneLeft(runs, approvals) /\ Checkpoint(runs, approvals) /\ Held /\ Busy)'
      => LiveOK'
  BY <1>1, <1>2, <1>6 DEF LiveOK
<1>10. QED
  BY <1>4, <1>5, <1>6, <1>7, <1>8, <1>9

\* Once every proposal is accounted for, the graph may ask whom it wants, and
\* stop: nothing else of it matters but the floor.
LEMMA DecidedOK ==
    ASSUME RequestInv, orch.pc \in {"scope", "decide"}, orch' \in OrchRecords,
           orch'.pc \in {"decide", "delegate", "combine"}, orch'.run = orch.run,
           orch'.resolved = orch.resolved, orch'.status = "none",
           UNCHANGED <<runs, approvals, session, agent, workflow, request, saved>>,
           orch'.pc = "delegate" => orch'.next \in Agents /\ orch'.remaining > 0,
           orch'.pc = "combine" => Floor'
    PROVE  RequestInv'
<1>1. orch.pc \in Working /\ orch'.pc \in Working /\ orch.pc # "waiting" /\ orch'.pc # "off"
      /\ orch'.pc # "paused" /\ orch'.pc # "returned" /\ orch.pc # "await"
  BY DEF Working
<1>2. /\ agent.pc = "off" /\ orch.run \in DOMAIN runs /\ orch.run # 0 /\ request.pc = "running"
      /\ runs \in Seq(RunRows) /\ runs[orch.run].status # "completed"
  BY <1>1, GraphAtWork
<1>3. /\ RequestOK' /\ SavedOK' /\ Rooted(runs, approvals)'
      /\ \A a \in DOMAIN approvals : Open(runs, approvals, a)' <=> Open(runs, approvals, a)
      /\ /\ Unfinished(runs)'
         /\ session = "clean" =>
              (NoneLeft(runs, approvals) /\ Checkpoint(runs, approvals) /\ Held /\ Busy)'
         => LiveOK'
  BY <1>1, <1>2, AroundTheGraph
<1>4. session = "clean" => \A a \in DOMAIN approvals : ~Open(runs, approvals, a)
  BY <1>1 DEF RequestInv, LiveOK, Held
<1>5. /\ Unfinished(runs)'
      /\ session = "clean" =>
           (NoneLeft(runs, approvals) /\ Checkpoint(runs, approvals) /\ Held)'
  BY <1>1, <1>2, <1>3, <1>4 DEF Unfinished, NoneLeft, Checkpoint, Held
<1>6. session = "clean" => Busy'
  BY <1>1, <1>2 DEF RequestInv, LiveOK, Busy
<1>7. AgentOK'
  BY <1>2 DEF RequestInv, AgentOK
<1>8. OrchOK'
  BY <1>1, <1>2 DEF OrchOK
<1>9. QED
  BY <1>3, <1>5, <1>6, <1>7, <1>8 DEF RequestInv

LEMMA IdentifyScopeOK ==
    ASSUME RequestInv, IdentifyScope, UNCHANGED <<workflow, request, saved>>
    PROVE  RequestInv'
<1>1. orch.pc = "scope" /\ orch.pc \in Working /\ UNCHANGED <<runs, approvals, session, agent>>
  BY DEF IdentifyScope, Graph, Working
<1>2. orch \in OrchRecords /\ orch.status = "none"
  BY <1>1, GraphAtWork
<1>3. PICK domains \in SUBSET Agents : orch' = [orch EXCEPT !.pc = "decide", !.required = domains]
  BY DEF IdentifyScope
<1>4. /\ orch'.pc = "decide" /\ orch'.run = orch.run /\ orch'.status = orch.status
      /\ orch'.resolved = orch.resolved
      /\ "decide" \in Working
  BY <1>2, <1>3 DEF OrchRecords, Working
<1>5. orch' \in OrchRecords
  BY <1>2, <1>3, <1>4 DEF OrchRecords
<1>6. QED
  BY <1>1, <1>2, <1>4, <1>5, DecidedOK

\* The graph turns to a specialist.
LEMMA ChosenOK ==
    ASSUME RequestInv, orch.pc = "decide", orch.remaining > 0, NEW name \in Agents,
           orch' = [orch EXCEPT !.pc = "delegate", !.next = name],
           UNCHANGED <<runs, approvals, session, agent, workflow, request, saved>>
    PROVE  RequestInv'
<1>1. orch.pc \in Working /\ "delegate" \in Working
  BY DEF Working
<1>2. orch \in OrchRecords /\ orch.status = "none"
  BY <1>1, GraphAtWork
<1>3. /\ orch'.pc = "delegate" /\ orch'.run = orch.run /\ orch'.status = orch.status
      /\ orch'.resolved = orch.resolved
      /\ orch'.next = name /\ orch'.remaining = orch.remaining
  BY <1>2 DEF OrchRecords
<1>4. orch' \in OrchRecords
  BY <1>1, <1>2, <1>3 DEF OrchRecords
<1>5. QED
  BY <1>2, <1>3, <1>4, DecidedOK

\* It stops only over the floor.
LEMMA StoppedOK ==
    ASSUME RequestInv, orch.pc = "decide", Floor,
           orch' = [orch EXCEPT !.pc = "combine"],
           UNCHANGED <<runs, approvals, session, agent, workflow, request, saved>>
    PROVE  RequestInv'
<1>1. orch.pc \in Working /\ "combine" \in Working
  BY DEF Working
<1>2. orch \in OrchRecords /\ orch.status = "none"
  BY <1>1, GraphAtWork
<1>3. /\ orch'.pc = "combine" /\ orch'.run = orch.run /\ orch'.status = orch.status
      /\ orch'.resolved = orch.resolved
      /\ orch'.required = orch.required /\ orch'.invoked = orch.invoked
      /\ orch'.remaining = orch.remaining
  BY <1>2 DEF OrchRecords
<1>4. orch' \in OrchRecords
  BY <1>1, <1>2, <1>3 DEF OrchRecords
<1>5. Floor'
  BY <1>3 DEF Floor
<1>6. QED
  BY <1>2, <1>3, <1>4, <1>5, DecidedOK

LEMMA DecideOK ==
    ASSUME RequestInv, DecideDelegate \/ DecideStop \/ DecideSpent,
           UNCHANGED <<workflow, request, saved>>
    PROVE  RequestInv'
<1>1. orch.pc = "decide" /\ orch.pc \in Working /\ UNCHANGED <<runs, approvals, session, agent>>
  BY DEF DecideDelegate, DecideStop, DecideSpent, Graph, Working
<1>2. orch \in OrchRecords /\ orch.required \subseteq Agents
  BY <1>1, GraphAtWork DEF OrchRecords
<1>3. CASE DecideDelegate
  BY <1>1, <1>3, ChosenOK DEF DecideDelegate
<1>4. CASE DecideStop
  <2>1. CASE Missing = {}
    <3>1. Floor
      BY <2>1 DEF Missing, Floor
    <3>2. QED
      BY <1>1, <1>4, <2>1, <3>1, StoppedOK DEF DecideStop
  <2>2. CASE Missing # {}
    <3>1. Missing \subseteq Agents
      BY <1>2 DEF Missing
    <3>2. QED
      BY <1>1, <1>4, <2>2, <3>1, ChosenOK DEF DecideStop
  <2>3. QED
    BY <2>1, <2>2
<1>5. CASE DecideSpent
  BY <1>1, <1>5, StoppedOK DEF DecideSpent, Floor
<1>6. QED
  BY <1>3, <1>4, <1>5

\* A specialist that has been asked: its run is a new row.
LEMMA Handled ==
    ASSUME runs \in Seq(RunRows), NEW name \in Agents, NEW parent \in Nat, Handle(name, parent)
    PROVE  LET n == Len(runs) + 1
           IN  /\ agent' \in AgentRecords /\ agent'.pc = "asking" /\ agent'.name = name
               /\ agent'.run = n /\ agent'.proposal = 0
               /\ n \in Nat /\ n \notin DOMAIN runs /\ DOMAIN runs' = DOMAIN runs \cup {n}
               /\ runs' \in Seq(RunRows)
               /\ \A r \in DOMAIN runs : runs'[r] = runs[r]
               /\ runs'[n].parent = parent /\ runs'[n].status = "running"
<1> DEFINE n == Len(runs) + 1
           row == [agent |-> name, parent |-> parent, status |-> "running", proposed |-> FALSE]
<1>1. runs' = Append(runs, row) /\ agent' = [Off EXCEPT !.pc = "asking", !.name = name, !.run = n]
  BY DEF Handle, Started
<1>6. row \in RunRows /\ row.parent = parent /\ row.status = "running"
  BY DEF RunRows
<1> HIDE DEF row
<1>2. /\ runs' \in Seq(RunRows) /\ Len(runs) \in Nat
      /\ DOMAIN runs = 1 .. Len(runs) /\ DOMAIN runs' = 1 .. (Len(runs) + 1)
      /\ \A r \in DOMAIN runs : r \in DOMAIN runs' /\ runs'[r] = runs[r]
      /\ runs'[Len(runs) + 1] = row
  BY <1>1, <1>6, Appended, LenProperties
<1>3. n \in Nat /\ n \notin DOMAIN runs /\ DOMAIN runs' = DOMAIN runs \cup {n}
  BY <1>2
<1>4. 0 \in 0 .. MaxIterations /\ 0 \in 0 .. MaxCalls /\ 0 \in Nat
  BY AgentAssumption
<1> HIDE DEF n
<1>5. agent' \in AgentRecords /\ agent'.pc = "asking" /\ agent'.name = name
      /\ agent'.run = n /\ agent'.proposal = 0
  BY <1>1, <1>3, <1>4 DEF Off, AgentRecords, Outcomes
<1>7. QED
  BY <1>2, <1>3, <1>5, <1>6 DEF n

LEMMA AskedOK ==
    ASSUME RequestInv, orch.pc \in {"delegate", "waiting"}, session = "clean",
           orch.pc = "waiting" => agent.pc = "returned" /\ agent.status = "error",
           Handle(orch.next, orch.run), orch' \in OrchRecords, orch'.pc = "waiting",
           orch'.run = orch.run, orch'.next = orch.next, orch'.remaining = orch.remaining,
           orch'.status = orch.status, orch'.resolved = orch.resolved,
           UNCHANGED <<workflow, request, saved>>
    PROVE  RequestInv'
<1>1. orch.pc \in Working /\ orch'.pc \in Working /\ orch.pc # "await"
  BY DEF Working
<1>2. /\ orch.run \in DOMAIN runs /\ orch.run # 0 /\ orch.run \in Nat /\ request.pc = "running"
      /\ runs \in Seq(RunRows) /\ orch.status = "none" /\ runs[orch.run].status # "completed"
      /\ orch.next \in Agents /\ orch.remaining > 0
      /\ \A a \in DOMAIN approvals : approvals[a].run \in DOMAIN runs
  BY <1>1, GraphAtWork DEF RequestInv, OrchOK
<1>3. approvals' = approvals /\ session' = session /\ workflow' = workflow
      /\ request' = request /\ saved' = saved
  BY DEF Handle
<1>4. PICK n \in Nat :
        /\ agent' \in AgentRecords /\ agent'.pc = "asking" /\ agent'.name = orch.next
        /\ agent'.run = n /\ agent'.proposal = 0
        /\ n \notin DOMAIN runs /\ DOMAIN runs' = DOMAIN runs \cup {n}
        /\ runs' \in Seq(RunRows)
        /\ \A r \in DOMAIN runs : runs'[r] = runs[r]
        /\ runs'[n].parent = orch.run /\ runs'[n].status = "running"
  BY <1>2, Handled
<1>5. /\ RequestOK' /\ SavedOK' /\ Rooted(runs, approvals)'
      /\ \A a \in DOMAIN approvals : Open(runs, approvals, a)' <=> Open(runs, approvals, a)
      /\ HasProposal(runs, orch.run) => HasProposal(runs, orch.run)'
      /\ /\ Unfinished(runs)'
         /\ session = "clean" =>
              (NoneLeft(runs, approvals) /\ Checkpoint(runs, approvals) /\ Held /\ Busy)'
         => LiveOK'
  <2>1. /\ orch'.pc # "off" /\ orch'.pc # "returned" /\ DOMAIN runs \subseteq DOMAIN runs'
        /\ \A r \in DOMAIN runs :
             /\ runs'[r].agent = runs[r].agent /\ runs'[r].parent = runs[r].parent
             /\ runs'[r].proposed = runs[r].proposed
             /\ r # orch.run => runs'[r].status = runs[r].status
        /\ \A r \in DOMAIN runs' \ DOMAIN runs : runs'[r].parent = orch.run
    BY <1>4
  <2>2. QED
    BY <1>1, <1>3, <1>4, <2>1, AroundTheGraph
<1>6. ASSUME NEW a \in DOMAIN approvals PROVE ~Open(runs, approvals, a)
  <2> SUFFICES ASSUME Open(runs, approvals, a) PROVE FALSE
    OBVIOUS
  <2>1. orch.pc = "waiting" /\ approvals[a].run = agent.run
    BY <1>1 DEF RequestInv, LiveOK, Held
  <2>2. runs[agent.run].status = "failed"
    BY <2>1 DEF RequestInv, AgentOK
  <2>3. QED
    BY <2>1, <2>2 DEF Open
<1>7. /\ Unfinished(runs)'
      /\ (NoneLeft(runs, approvals) /\ Checkpoint(runs, approvals) /\ Held)'
  BY <1>2, <1>3, <1>4, <1>5, <1>6 DEF Unfinished, NoneLeft, Checkpoint, Held
<1>8. Busy'
  <2> SUFFICES ASSUME NEW r \in DOMAIN runs', runs'[r].status = "running"
               PROVE  r = agent'.run \/ r = orch.run
    BY <1>1, <1>4 DEF Busy
  <2>1. CASE r \in DOMAIN runs
    <3>1. runs[r].status = "running"
      BY <1>4, <2>1
    <3>2. agent.pc \notin {"asking", "calling", "over"}
      <4>1. orch.pc = "delegate" => agent.pc = "off"
        BY <1>1, GraphAtWork
      <4>2. QED
        BY <4>1
    <3>3. QED
      BY <2>1, <3>1, <3>2 DEF RequestInv, LiveOK, Busy
  <2>2. QED
    BY <1>4, <2>1
<1>9. AgentOK'
  BY <1>2, <1>3, <1>4 DEF RequestInv, AgentOK
<1>10. OrchOK'
  BY <1>1, <1>2, <1>3, <1>4 DEF OrchOK
<1>11. QED
  BY <1>5, <1>7, <1>8, <1>9, <1>10 DEF RequestInv

LEMMA DelegateOK ==
    ASSUME RequestInv, Delegate \/ Retry, UNCHANGED <<workflow, request, saved>>
    PROVE  RequestInv'
<1>1. orch.pc \in {"delegate", "waiting"} /\ orch.pc \in Working /\ "waiting" \in Working
  BY DEF Delegate, Retry, Working
<1>2. orch \in OrchRecords
  BY <1>1, GraphAtWork
<1>3. Handle(orch.next, orch.run) /\ session = "clean"
  BY DEF Delegate, Retry, Handle
<1>4. CASE Delegate
  <2>1. orch.pc = "delegate" /\ orch' = [orch EXCEPT !.pc = "waiting", !.attempt = 1]
    BY <1>4 DEF Delegate
  <2>2. 1 \in 0 .. MaxRetries + 1
    BY OrchestratorAssumption
  <2>3. /\ orch'.pc = "waiting" /\ orch'.run = orch.run /\ orch'.next = orch.next
        /\ orch'.remaining = orch.remaining /\ orch'.status = orch.status
        /\ orch'.resolved = orch.resolved
    BY <1>2, <2>1 DEF OrchRecords
  <2>4. orch' \in OrchRecords
    BY <1>1, <1>2, <2>1, <2>2, <2>3 DEF OrchRecords
  <2>5. QED
    BY <1>3, <2>1, <2>3, <2>4, AskedOK
<1>5. CASE Retry
  <2>1. /\ orch.pc = "waiting" /\ agent.pc = "returned" /\ agent.status = "error"
        /\ orch.attempt <= MaxRetries /\ orch' = [orch EXCEPT !.attempt = @ + 1]
    BY <1>5 DEF Retry, MayRetry
  <2>2. orch.attempt + 1 \in 0 .. MaxRetries + 1
    BY <1>2, <2>1, OrchestratorAssumption DEF OrchRecords
  <2>3. /\ orch'.pc = "waiting" /\ orch'.run = orch.run /\ orch'.next = orch.next
        /\ orch'.remaining = orch.remaining /\ orch'.status = orch.status
        /\ orch'.resolved = orch.resolved
    BY <1>2, <2>1 DEF OrchRecords
  <2>4. orch' \in OrchRecords
    BY <1>1, <1>2, <2>1, <2>2, <2>3 DEF OrchRecords
  <2>5. QED
    BY <1>3, <2>1, <2>3, <2>4, AskedOK
<1>6. QED
  BY <1>4, <1>5

LEMMA DelegatedOK ==
    ASSUME RequestInv, Delegated, UNCHANGED <<workflow, request, saved>>
    PROVE  RequestInv'
<1> DEFINE proposed == agent.status = "pending_approval"
<1>1. /\ orch.pc = "waiting" /\ agent.pc = "returned" /\ agent' = Off
      /\ orch.pc \in Working /\ {"await", "combine", "decide"} \subseteq Working
      /\ UNCHANGED <<runs, approvals, session>>
      /\ orch' = [orch EXCEPT
           !.invoked = @ \cup {orch.next}, !.remaining = @ - 1, !.attempt = 0,
           !.pending = IF proposed THEN agent.proposal ELSE 0,
           !.pc = IF proposed THEN "await"
                  ELSE IF orch.remaining = 1 THEN "combine" ELSE "decide"]
  BY DEF Delegated, Working
<1>2. /\ orch.run \in DOMAIN runs /\ orch.run # 0 /\ request.pc = "running"
      /\ runs \in Seq(RunRows) /\ orch.status = "none" /\ runs[orch.run].status # "completed"
      /\ orch \in OrchRecords /\ orch.next \in Agents /\ orch.remaining > 0
  BY <1>1, GraphAtWork DEF RequestInv, OrchOK
<1>3. /\ proposed /\ session = "clean" => HasProposal(runs, orch.run)
      /\ agent.proposal \in Nat
  BY <1>1 DEF RequestInv, AgentOK, AgentRecords, HasProposal
<1>4. /\ orch'.run = orch.run /\ orch'.status = "none" /\ orch'.resolved = orch.resolved
      /\ orch'.remaining = orch.remaining - 1
      /\ orch'.pending = (IF proposed THEN agent.proposal ELSE 0)
      /\ orch'.pc = IF proposed THEN "await"
                    ELSE IF orch.remaining = 1 THEN "combine" ELSE "decide"
  BY <1>1, <1>2 DEF OrchRecords
<1>5. orch' \in OrchRecords
  <2>1. orch.remaining - 1 \in 0 .. MaxDelegations /\ 0 \in 0 .. MaxRetries + 1
    BY <1>2, OrchestratorAssumption DEF OrchRecords
  <2>2. orch.invoked \cup {orch.next} \in SUBSET Agents
    BY <1>2 DEF OrchRecords
  <2>3. orch'.pending \in Nat /\ orch'.pc \in Working
    BY <1>1, <1>3, <1>4
  <2> HIDE DEF proposed
  <2>4. QED
    BY <1>1, <1>2, <1>4, <2>1, <2>2, <2>3 DEF OrchRecords
<1>6. orch'.pc \in {"await", "combine", "decide"}
  BY <1>4
<1>7. /\ RequestOK' /\ SavedOK' /\ Rooted(runs, approvals)'
      /\ \A a \in DOMAIN approvals : Open(runs, approvals, a)' <=> Open(runs, approvals, a)
      /\ /\ Unfinished(runs)'
         /\ session = "clean" =>
              (NoneLeft(runs, approvals) /\ Checkpoint(runs, approvals) /\ Held /\ Busy)'
         => LiveOK'
  BY <1>1, <1>2, <1>4, <1>6, AroundTheGraph
<1>8. session = "clean" => Held'
  <2> SUFFICES ASSUME session = "clean", NEW a \in DOMAIN approvals, Open(runs, approvals, a)
               PROVE  proposed /\ a = agent.proposal
    BY <1>1, <1>4, <1>7 DEF Held
  <2>1. agent.proposal = a /\ approvals[a].run = agent.run
    BY <1>1 DEF RequestInv, LiveOK, Held
  <2>2. a # 0
    BY <1>1, GraphAtWork, LenProperties
  <2>3. agent.status # "error"
    BY <1>1, <2>1 DEF RequestInv, AgentOK, Open
  <2>4. agent.status # "completed" /\ agent.status \in Outcomes /\ agent.status # "none"
    BY <1>1, <2>1, <2>2 DEF RequestInv, AgentOK, AgentRecords
  <2>5. QED
    BY <2>1, <2>3, <2>4 DEF Outcomes
<1>9. /\ Unfinished(runs)'
      /\ session = "clean" => (NoneLeft(runs, approvals) /\ Checkpoint(runs, approvals))'
  BY <1>1, <1>2, <1>4, <1>6, <1>7 DEF Unfinished, NoneLeft, Checkpoint
<1>10. session = "clean" => Busy'
  BY <1>1, <1>4, <1>6 DEF RequestInv, LiveOK, Busy
<1>11. AgentOK'
  <2>1. Off \in AgentRecords
    BY AgentAssumption DEF Off, AgentRecords, Outcomes
  <2>2. QED
    BY <1>1, <2>1 DEF AgentOK, Off
<1>12. OrchOK'
  <2>1. orch'.pc = "combine" => Floor'
    <3>1. orch.remaining \in Nat
      BY <1>2, OrchestratorAssumption DEF OrchRecords
    <3>2. QED
      BY <1>4, <3>1 DEF Floor
  <2>2. orch'.pc \in Working /\ orch'.pc # "delegate" /\ orch'.pc # "waiting" /\ orch'.pc # "off"
        /\ orch'.pc # "returned" /\ orch'.pc # "paused"
    BY <1>1, <1>6
  <2>3. orch'.pc = "await" => proposed
    BY <1>4
  <2>4. /\ runs' = runs /\ approvals' = approvals /\ session' = session /\ saved' = saved
        /\ request' = request
    BY <1>1
  <2> HIDE DEF proposed
  <2>5. QED
    BY <1>2, <1>3, <1>4, <1>5, <2>1, <2>2, <2>3, <2>4 DEF OrchOK, HasProposal
<1>13. QED
  BY <1>7, <1>8, <1>9, <1>10, <1>11, <1>12 DEF RequestInv

\* The pause. What is open is what it waits for; what is committed has nothing open.
LEMMA PauseOK ==
    ASSUME RequestInv, Pause, UNCHANGED <<workflow, request, saved>>
    PROVE  RequestInv'
<1>1. /\ orch.pc = "await" /\ orch.pc \in Working /\ UNCHANGED <<runs, approvals, session, agent>>
      /\ orch' = [orch EXCEPT !.pc = "paused", !.status = "pending_approval"]
  BY DEF Pause, Graph, Working
<1>2. /\ orch.run \in DOMAIN runs /\ orch.run # 0 /\ request.pc = "running" /\ agent.pc = "off"
      /\ runs \in Seq(RunRows) /\ runs[orch.run].status # "completed" /\ orch \in OrchRecords
      /\ request.answer = "none" /\ approvals \in Seq(ApprovalRows)
  BY <1>1, GraphAtWork
<1>3. session = "clean" => HasProposal(runs, orch.run)
  BY <1>1 DEF RequestInv, OrchOK
<1>4. /\ orch'.pc = "paused" /\ orch'.status = "pending_approval" /\ orch'.run = orch.run
      /\ orch'.pending = orch.pending /\ orch'.resolved = orch.resolved
  BY <1>1, <1>2 DEF OrchRecords
<1>5. orch' \in OrchRecords
  BY <1>1, <1>2, <1>4 DEF OrchRecords, Outcomes
<1>7. /\ RequestOK' /\ SavedOK' /\ Rooted(runs, approvals)'
      /\ \A a \in DOMAIN approvals : Open(runs, approvals, a)' <=> Open(runs, approvals, a)
      /\ HasProposal(runs, orch.run) => HasProposal(runs, orch.run)'
      /\ /\ Unfinished(runs)'
         /\ session = "clean" =>
              (NoneLeft(runs, approvals) /\ Checkpoint(runs, approvals) /\ Held /\ Busy)'
         => LiveOK'
  BY <1>1, <1>2, <1>4, AroundTheGraph
<1>8. session = "clean" => \A a \in DOMAIN approvals : Open(runs, approvals, a) => a = orch.pending
  BY <1>1 DEF RequestInv, LiveOK, Held
<1>9. /\ Unfinished(runs)'
      /\ session = "clean" => (NoneLeft(runs, approvals) /\ Checkpoint(runs, approvals) /\ Held)'
  BY <1>1, <1>2, <1>4, <1>7, <1>8 DEF Unfinished, NoneLeft, Checkpoint, Held
<1>10. session = "clean" => Busy'
  BY <1>1, <1>2, <1>3, <1>4, <1>7 DEF RequestInv, LiveOK, Busy
<1>11. AgentOK'
  BY <1>1, <1>2 DEF RequestInv, AgentOK
<1>12. OrchOK'
  <2>1. "paused" \notin Working
    BY DEF Working
  <2>2. QED
    BY <1>1, <1>2, <1>4, <1>5, <2>1 DEF OrchOK
<1>13. QED
  BY <1>7, <1>9, <1>10, <1>11, <1>12 DEF RequestInv

\* The graph returns, with an answer over the floor or an error.
LEMMA ReturnedOK ==
    ASSUME RequestInv, orch.pc \in Working, NEW answer \in {"completed", "error"},
           runs' = Completed(orch.run, IF answer = "error" THEN "failed" ELSE "completed"),
           orch' \in OrchRecords, orch'.pc = "returned", orch'.status = answer,
           orch'.run = orch.run,
           answer = "completed" => orch.pc = "combine" /\ orch'.resolved = orch.resolved /\ Floor',
           agent.pc \in {"off", "returned"}, agent' = Off,
           UNCHANGED <<approvals, session, workflow, request, saved>>
    PROVE  RequestInv'
<1> DEFINE status == IF answer = "error" THEN "failed" ELSE "completed"
<1>1. /\ orch.run \in DOMAIN runs /\ orch.run # 0 /\ request.pc = "running"
      /\ runs \in Seq(RunRows) /\ orch \in OrchRecords
      /\ request.answer = "none" /\ approvals \in Seq(ApprovalRows)
      /\ runs[orch.run].status # "completed"
  BY GraphAtWork
<1>2. /\ runs' \in Seq(RunRows) /\ DOMAIN runs' = DOMAIN runs
      /\ \A r \in DOMAIN runs :
                /\ runs'[r].agent = runs[r].agent /\ runs'[r].parent = runs[r].parent
                /\ runs'[r].proposed = runs[r].proposed
                /\ runs'[r].status = IF session = "clean" /\ r = orch.run THEN status
                                     ELSE runs[r].status
  BY <1>1, CompletedRun
<1>5. approvals' = approvals /\ session' = session /\ request' = request /\ saved' = saved
  OBVIOUS
<1>6. /\ RequestOK' /\ SavedOK' /\ Rooted(runs, approvals)'
      /\ answer = "completed" => \A a \in DOMAIN approvals :
           Open(runs, approvals, a)' <=> Open(runs, approvals, a)
      /\ /\ Unfinished(runs)'
         /\ session = "clean" =>
              (NoneLeft(runs, approvals) /\ Checkpoint(runs, approvals) /\ Held /\ Busy)'
         => LiveOK'
  <2> HIDE DEF status
  <2>1. QED
    BY <1>1, <1>2, <1>5, AroundTheGraph
<1>7. session = "clean" => NoneLeft(runs, approvals)'
  <2> SUFFICES ASSUME session = "clean", answer = "completed", NEW a \in DOMAIN approvals,
                      Open(runs, approvals, a)'
               PROVE  FALSE
    BY <1>1, <1>2, <1>5 DEF NoneLeft
  <2>1. orch.pc = "combine" /\ Open(runs, approvals, a)
    BY <1>6
  <2>2. QED
    BY <2>1 DEF RequestInv, LiveOK, Held
<1>8. Unfinished(runs)' /\ Checkpoint(runs, approvals)' /\ Held'
  BY DEF Unfinished, Checkpoint, Held
<1>9. session = "clean" => Busy'
  <2> SUFFICES ASSUME session = "clean", NEW r \in DOMAIN runs, runs'[r].status = "running"
               PROVE  FALSE
    BY <1>2, <1>5 DEF Busy
  <2>1. r # orch.run /\ runs[r].status = "running"
    BY <1>2
  <2>2. QED
    BY <2>1 DEF RequestInv, LiveOK, Busy
<1>10. AgentOK'
  <2>1. Off \in AgentRecords
    BY AgentAssumption DEF Off, AgentRecords, Outcomes
  <2>2. QED
    BY <2>1 DEF AgentOK, Off
<1>11. OrchOK'
  <2>2. session = "clean" /\ answer = "error" => Failure(runs)'
    BY <1>1, <1>2 DEF Failure
  <2>3. "returned" \notin Working
    BY DEF Working
  <2> HIDE DEF status
  <2>4. QED
    BY <1>1, <1>5, <2>2, <2>3 DEF OrchOK
<1>12. QED
  BY <1>5, <1>6, <1>7, <1>8, <1>9, <1>10, <1>11 DEF RequestInv

LEMMA CombineOK ==
    ASSUME RequestInv, Combine \/ GraphRaises, UNCHANGED <<workflow, request, saved>>
    PROVE  RequestInv'
<1>1. CASE Combine
  <2>1. /\ orch.pc = "combine" /\ runs' = Completed(orch.run, "completed")
        /\ orch' = [orch EXCEPT !.pc = "returned", !.status = "completed"]
        /\ UNCHANGED <<approvals, session, agent>>
    BY <1>1 DEF Combine
  <2>2. orch.pc \in Working
    BY <2>1 DEF Working
  <2>3. agent = Off /\ agent.pc = "off" /\ orch \in OrchRecords
    BY <2>1, <2>2, GraphAtWork
  <2>4. /\ orch'.pc = "returned" /\ orch'.status = "completed" /\ orch'.run = orch.run
        /\ orch'.required = orch.required /\ orch'.invoked = orch.invoked
        /\ orch'.remaining = orch.remaining /\ orch'.resolved = orch.resolved
    BY <2>1, <2>3 DEF OrchRecords
  <2>5. orch' \in OrchRecords
    BY <2>1, <2>3, <2>4 DEF OrchRecords, Outcomes
  <2>6. Floor'
    BY <2>1, <2>4 DEF RequestInv, OrchOK, Floor
  <2>7. QED
    BY <2>1, <2>2, <2>3, <2>4, <2>5, <2>6, ReturnedOK
<1>2. CASE GraphRaises
  <2>1. /\ runs' = Completed(orch.run, "failed") /\ agent' = Off
        /\ orch' = [OrchOff EXCEPT !.pc = "returned", !.run = orch.run, !.status = "error"]
        /\ UNCHANGED <<approvals, session>>
    BY <1>2 DEF GraphRaises, FinalizeError
  <2>2. orch.pc \in {"scope", "combine", "decide", "delegate"}
        \/ (orch.pc = "waiting" /\ agent.pc = "returned")
    BY <1>2 DEF GraphRaises
  <2>3. orch.pc \in Working
    BY <2>2 DEF Working
  <2>4. agent.pc \in {"off", "returned"} /\ orch.run \in Nat
    BY <2>2, <2>3, GraphAtWork
  <2>5. /\ orch' \in OrchRecords /\ orch'.pc = "returned" /\ orch'.status = "error"
        /\ orch'.run = orch.run
    <3>1. 0 \in 0 .. MaxDelegations /\ 0 \in 0 .. MaxRetries + 1 /\ 0 \in Nat
      BY OrchestratorAssumption
    <3>2. QED
      BY <2>1, <2>4, <3>1 DEF OrchOff, OrchRecords, Outcomes
  <2>6. QED
    BY <2>1, <2>3, <2>4, <2>5, ReturnedOK
<1>3. QED
  BY <1>1, <1>2

LEMMA OrchStepOK ==
    ASSUME RequestInv, OrchStep, UNCHANGED <<workflow, request, saved>>
    PROVE  RequestInv'
BY IdentifyScopeOK, DecideOK, DelegateOK, DelegatedOK, PauseOK, CombineOK DEF OrchStep

-----------------------------------------------------------------------------
(* resume() *)

\* Without a request nobody is at work.
LEMMA AtRest ==
    ASSUME RequestInv, request.pc # "running"
    PROVE  /\ agent = Off /\ agent.pc = "off"
           /\ orch.pc \notin Working /\ orch.pc \in {"off", "paused", "returned"}
           /\ orch.status = "none" /\ orch \in OrchRecords
<1>1. agent = Off /\ agent.pc = "off"
  BY DEF RequestInv, AgentOK, Off
<1>2. orch.pc \notin Working /\ orch.status = "none" /\ orch \in OrchRecords
  BY DEF RequestInv, OrchOK
<1>3. QED
  BY <1>1, <1>2 DEF OrchRecords

LEMMA OffOK ==
    ASSUME agent' = Off
    PROVE  AgentOK'
<1>1. Off \in AgentRecords
  BY AgentAssumption DEF Off, AgentRecords, Outcomes
<1>2. QED
  BY <1>1 DEF AgentOK, Off

\* Between two requests both views are the same.
LEMMA Agreed ==
    ASSUME RequestInv, request.pc \in {"idle", "over"}
    PROVE  /\ saved.runs = runs /\ saved.approvals = approvals /\ saved.workflow = workflow
           /\ session = "clean"
           /\ runs \in Seq(RunRows) /\ approvals \in Seq(ApprovalRows)
           /\ \A a \in DOMAIN approvals : approvals[a].run \in DOMAIN runs
<1>1. saved = [runs |-> runs, approvals |-> approvals, workflow |-> workflow]
  BY DEF RequestInv, RequestOK
<1>2. session = "clean"
  BY DEF RequestInv, RequestOK
<1>3. QED
  BY <1>1, <1>2 DEF RequestInv, LiveOK, Rooted

LEMMA DecidedRow ==
    ASSUME approvals \in Seq(ApprovalRows), NEW a \in DOMAIN approvals,
           NEW A, A = [approvals EXCEPT ![a].status = "decided"]
    PROVE  /\ A \in Seq(ApprovalRows) /\ Len(A) = Len(approvals) /\ DOMAIN A = DOMAIN approvals
           /\ \A b \in DOMAIN approvals :
                /\ A[b].run = approvals[b].run /\ A[b].buried = approvals[b].buried
                /\ A[b].status = IF b = a THEN "decided" ELSE approvals[b].status
<1>1. /\ approvals \in [DOMAIN approvals -> ApprovalRows]
      /\ \A b \in DOMAIN approvals : approvals[b] \in ApprovalRows
  BY LenProperties, TableOf
<1>2. \A b \in DOMAIN approvals :
        A[b] = IF b = a THEN [approvals[b] EXCEPT !.status = "decided"] ELSE approvals[b]
  BY <1>1
<1>3. \A b \in DOMAIN approvals :
        /\ A[b].run = approvals[b].run /\ A[b].buried = approvals[b].buried
        /\ A[b].status = IF b = a THEN "decided" ELSE approvals[b].status
        /\ A[b] \in ApprovalRows
  BY <1>1, <1>2 DEF ApprovalRows
<1>4. A \in [DOMAIN approvals -> ApprovalRows]
  BY <1>1, <1>3
<1>5. QED
  BY <1>3, <1>4, Rewritten

\* A request to resume: its kind and its pc are all there is to say.
LEMMA ResumeRequest ==
    ASSUME request' = [NoRequest EXCEPT !.pc = "running", !.kind = "resume"]
    PROVE  /\ request' \in RequestRecords /\ request'.pc = "running"
           /\ request'.kind = "resume" /\ request'.answer = "none"
BY DEF NoRequest, RequestRecords, Outcomes

\* A decision in the session that resumes: it is the graph's, which has one open
\* approval fewer, and the rest of both views is as it was.
LEMMA DecidingOK ==
    ASSUME RequestInv, request.pc = "over", orch.pc = "paused", Undecided,
           approvals' = [approvals EXCEPT ![orch.pending].status = "decided"],
           orch'.resolved = orch.resolved \cup {orch.pending}, orch'.run = orch.run,
           orch'.pc # "paused",
           request'.kind = "resume", UNCHANGED <<runs, agent, workflow, saved>>
    PROVE  /\ Rooted(runs, approvals)' /\ SavedOK' /\ AgentOK'
           /\ \A a \in DOMAIN approvals' : ~Open(runs, approvals, a)'
<1>1. /\ saved.runs = runs /\ saved.approvals = approvals /\ session = "clean" /\ agent = Off
      /\ runs \in Seq(RunRows) /\ approvals \in Seq(ApprovalRows)
      /\ orch.pending \in DOMAIN approvals
  BY Agreed, AtRest DEF Undecided
<1>2. runs' = runs /\ agent' = agent /\ workflow' = workflow /\ saved' = saved
  OBVIOUS
<1>3. /\ approvals' \in Seq(ApprovalRows) /\ DOMAIN approvals' = DOMAIN approvals
      /\ \A b \in DOMAIN approvals :
           /\ approvals'[b].run = approvals[b].run /\ approvals'[b].buried = approvals[b].buried
           /\ approvals'[b].status = IF b = orch.pending THEN "decided" ELSE approvals[b].status
  BY <1>1, DecidedRow
<1>4. \A a \in DOMAIN approvals : Open(runs, approvals, a) => a = orch.pending
  BY <1>1 DEF RequestInv, LiveOK, Checkpoint
<1>5. \A a \in DOMAIN approvals' : ~Open(runs, approvals, a)'
  BY <1>2, <1>3, <1>4 DEF Open
<1>6. Rooted(runs, approvals)'
  BY <1>1, <1>2, <1>3 DEF RequestInv, LiveOK, Rooted
<1>7. AgentOK'
  BY <1>1, <1>2, OffOK
<1>8. SavedOK'
  <2>1. \A a \in DOMAIN saved.approvals : ~Open(saved.runs, saved.approvals, a)'
    BY <1>1, <1>2, <1>4 DEF Open
  <2>2. Rooted(saved.runs, saved.approvals)'
    BY <1>2 DEF RequestInv, SavedOK, Rooted
  <2>3. Unfinished(saved.runs)'
    BY <1>2 DEF RequestInv, SavedOK, Unfinished
  <2>4. NoneLeft(saved.runs, saved.approvals)' /\ Checkpoint(saved.runs, saved.approvals)'
    BY <1>2, <2>1 DEF NoneLeft, Checkpoint
  <2>5. QED
    BY <1>2, <2>1, <2>2, <2>3, <2>4 DEF RequestInv, SavedOK, HasProposal
<1>9. QED
  BY <1>5, <1>6, <1>7, <1>8

LEMMA ResumeOK ==
    ASSUME RequestInv, request.pc = "over", ResumeDecides,
           request' = [NoRequest EXCEPT !.pc = "running", !.kind = "resume"],
           UNCHANGED <<workflow, saved>>
    PROVE  RequestInv'
<1>1. /\ orch.pc = "paused" /\ Undecided /\ orch.run \in DOMAIN runs
      /\ approvals' = [approvals EXCEPT ![orch.pending].status = "decided"]
      /\ orch' = [orch EXCEPT !.pc = "decide", !.pending = 0, !.resolved = @ \cup {orch.pending},
                              !.status = "none"]
      /\ runs' = runs /\ session' = session /\ agent' = agent /\ workflow' = workflow
      /\ saved' = saved
  BY DEF ResumeDecides
<1>2. /\ session = "clean" /\ agent = Off /\ agent.pc = "off" /\ orch \in OrchRecords
      /\ saved.runs = runs
  BY <1>1, Agreed, AtRest
<1>3. /\ request' \in RequestRecords /\ request'.pc = "running"
      /\ request'.kind = "resume" /\ request'.answer = "none"
  BY ResumeRequest
<1>4. /\ orch'.pc = "decide" /\ orch'.status = "none" /\ orch'.run = orch.run
      /\ orch'.resolved = orch.resolved \cup {orch.pending} /\ orch'.pending = 0
      /\ "decide" \in Working /\ orch'.remaining = orch.remaining
      /\ orch'.resolved \in SUBSET Nat
  BY <1>1, <1>2 DEF OrchRecords, Working
<1>5. orch' \in OrchRecords
  BY <1>1, <1>2, <1>4 DEF OrchRecords, Outcomes
<1>6. /\ Rooted(runs, approvals)' /\ SavedOK' /\ AgentOK'
      /\ \A a \in DOMAIN approvals' : ~Open(runs, approvals, a)'
  BY <1>1, <1>3, <1>4, DecidingOK
<1>7. orch.run # 0 /\ runs[orch.run].status # "completed"
  BY <1>1 DEF RequestInv, OrchOK, LiveOK, Unfinished
<1>8. OrchOK'
  BY <1>1, <1>3, <1>4, <1>5, <1>7 DEF OrchOK, Working
<1>9. RequestOK'
  BY <1>1, <1>3, <1>4 DEF RequestInv, RequestOK
<1>10. LiveOK'
  <2>1. Unfinished(runs)' /\ (NoneLeft(runs, approvals) /\ Checkpoint(runs, approvals) /\ Held)'
    BY <1>1, <1>4, <1>6, <1>7 DEF Unfinished, NoneLeft, Checkpoint, Held
  <2>2. Busy'
    BY <1>1, <1>2, <1>4 DEF RequestInv, LiveOK, Busy
  <2>3. QED
    BY <1>3, <1>6, <2>1, <2>2 DEF LiveOK
<1>11. QED
  BY <1>6, <1>8, <1>9, <1>10 DEF RequestInv

\* The run was rolled back: nothing in the tables is its own.
LEMMA ResumeUnrecordedOK ==
    ASSUME RequestInv, request.pc = "over", ResumeUnrecorded,
           request' = [NoRequest EXCEPT !.pc = "running", !.kind = "resume"],
           UNCHANGED <<workflow, saved>>
    PROVE  RequestInv'
<1>1. /\ orch.pc = "paused" /\ Undecided /\ orch.run \notin DOMAIN runs
      /\ approvals' = [approvals EXCEPT ![orch.pending].status = "decided"]
      /\ runs' = runs /\ agent' = agent /\ workflow' = workflow /\ saved' = saved
      /\ session' \in {"clean", "poisoned"}
  BY DEF ResumeUnrecorded
<1>2. PICK status \in {"completed", "error"} :
        /\ orch' = [orch EXCEPT !.pc = "returned", !.pending = 0,
                                !.resolved = @ \cup {orch.pending}, !.status = status]
        /\ status = "completed" => Missing = {} \/ orch.remaining = 0
  BY DEF ResumeUnrecorded
<1>3. /\ session = "clean" /\ agent = Off /\ agent.pc = "off" /\ orch \in OrchRecords
      /\ saved.runs = runs
  BY <1>1, Agreed, AtRest
<1>4. /\ request' \in RequestRecords /\ request'.pc = "running"
      /\ request'.kind = "resume" /\ request'.answer = "none"
  BY ResumeRequest
<1>5. /\ orch'.pc = "returned" /\ orch'.status = status /\ orch'.run = orch.run
      /\ orch'.resolved = orch.resolved \cup {orch.pending} /\ orch'.pending = 0
      /\ orch'.required = orch.required /\ orch'.invoked = orch.invoked
      /\ orch'.remaining = orch.remaining /\ orch'.resolved \in SUBSET Nat
      /\ "returned" \notin Working
  BY <1>1, <1>2, <1>3 DEF OrchRecords, Working
<1>6. orch' \in OrchRecords
  BY <1>1, <1>2, <1>3, <1>5 DEF OrchRecords, Outcomes
<1>7. /\ Rooted(runs, approvals)' /\ SavedOK' /\ AgentOK'
      /\ \A a \in DOMAIN approvals' : ~Open(runs, approvals, a)'
  BY <1>1, <1>4, <1>5, DecidingOK
<1>8. OrchOK'
  <2>1. status = "completed" => Floor'
    BY <1>2, <1>5 DEF Missing, Floor
  <2>2. orch.run # 0
    BY <1>1 DEF RequestInv, OrchOK
  <2>3. QED
    BY <1>4, <1>5, <1>6, <2>1, <2>2 DEF OrchOK
<1>9. RequestOK'
  BY <1>1, <1>4, <1>5 DEF RequestInv, RequestOK
<1>10. LiveOK'
  <2>1. Unfinished(runs)' /\ (NoneLeft(runs, approvals) /\ Checkpoint(runs, approvals) /\ Held)'
    BY <1>5, <1>7 DEF Unfinished, NoneLeft, Checkpoint, Held
  <2>2. Busy'
    BY <1>1, <1>3 DEF RequestInv, LiveOK, Busy
  <2>3. QED
    BY <1>4, <1>7, <2>1, <2>2 DEF LiveOK
<1>11. QED
  BY <1>7, <1>8, <1>9, <1>10 DEF RequestInv

\* The checkpoint stays, and its run is failed if anybody can see it.
LEMMA ResumedInVain ==
    ASSUME RequestInv, request.pc = "over", orch.pc = "paused",
           runs' = Completed(orch.run, "failed"),
           UNCHANGED <<approvals, session, agent, workflow, saved>>,
           orch' \in OrchRecords, orch'.pc = "paused", orch'.run = orch.run,
           orch'.pending = orch.pending, orch'.resolved = orch.resolved,
           orch'.status = "none" \/ request'.pc = "running",
           request' \in RequestRecords, request'.kind = "resume",
           request'.pc \in {"running", "answered"},
           request'.pc = "running" => request'.answer = "none"
    PROVE  RequestInv'
<1>1. /\ saved.runs = runs /\ saved.approvals = approvals
      /\ session = "clean" /\ agent = Off
      /\ runs \in Seq(RunRows) /\ approvals \in Seq(ApprovalRows)
      /\ \A a \in DOMAIN approvals : approvals[a].run \in DOMAIN runs
  BY Agreed, AtRest
<1>2. /\ runs' \in Seq(RunRows) /\ Len(runs') = Len(runs) /\ DOMAIN runs' = DOMAIN runs
      /\ \A r \in DOMAIN runs :
           /\ runs'[r].agent = runs[r].agent /\ runs'[r].parent = runs[r].parent
           /\ runs'[r].proposed = runs[r].proposed
           /\ runs'[r].status = IF r = orch.run THEN "failed" ELSE runs[r].status
  BY <1>1, CompletedRun
<1>3. approvals' = approvals /\ session' = session /\ agent' = agent /\ workflow' = workflow
      /\ saved' = saved
  OBVIOUS
<1>4. "paused" \notin Working
  BY DEF Working
<1>5. ASSUME NEW a \in DOMAIN approvals
      PROVE  /\ runs'[approvals[a].run].parent = runs[approvals[a].run].parent
             /\ Open(runs, approvals, a)' => Open(runs, approvals, a)
  BY <1>1, <1>2, <1>3 DEF Open
<1>6. AgentOK'
  BY <1>1, <1>3, OffOK
<1>7. OrchOK'
  <2>1. orch.run # 0
    BY DEF RequestInv, OrchOK
  <2>2. QED
    BY <1>4, <2>1 DEF OrchOK
<1>8. RequestOK'
  BY <1>3 DEF RequestInv, RequestOK
<1>9. LiveOK'
  <2>1. Rooted(runs, approvals)'
    <3>1. Rooted(runs, approvals)
      BY DEF RequestInv, LiveOK
    <3>2. \A r \in DOMAIN runs' : runs'[r].parent # 0 =>
            runs'[r].parent = orch.run /\ orch.run \in DOMAIN runs'
      BY <1>2, <3>1 DEF Rooted
    <3>3. orch.run \in DOMAIN runs' =>
            runs'[orch.run].agent = "orchestrator" /\ runs'[orch.run].parent = 0
      BY <1>2, <3>1 DEF Rooted
    <3>4. QED
      BY <1>1, <1>2, <1>3, <3>2, <3>3 DEF Rooted
  <2>2. Unfinished(runs)'
    BY <1>2 DEF Unfinished
  <2>3. NoneLeft(runs, approvals)' /\ Checkpoint(runs, approvals)'
    <3>1. NoneLeft(runs, approvals)'
      <4>1. ASSUME NEW a \in DOMAIN approvals, Open(runs, approvals, a)'
            PROVE  runs'[orch.run].status # "completed"
        <5>1. runs[approvals[a].run].parent # 0
          BY <1>5, <4>1 DEF Open
        <5>2. orch.run \in DOMAIN runs
          BY <1>1, <5>1 DEF RequestInv, LiveOK, Rooted
        <5>3. QED
          BY <1>2, <5>2
      <4>2. QED
        BY <1>3, <4>1 DEF NoneLeft
    <3>2. Checkpoint(runs, approvals)'
      BY <1>1, <1>3, <1>5 DEF RequestInv, LiveOK, Checkpoint
    <3>3. QED
      BY <3>1, <3>2
  <2>4. Held'
    BY DEF Held
  <2>5. Busy'
    <3>1. agent.pc = "off"
      BY <1>1 DEF Off
    <3>2. ASSUME NEW r \in DOMAIN runs, runs'[r].status = "running" PROVE FALSE
      <4>1. r # orch.run /\ runs[r].status = "running"
        BY <1>2, <3>2
      <4>2. QED
        BY <1>1, <1>4, <3>1, <4>1 DEF RequestInv, LiveOK, Busy
    <3>3. QED
      BY <1>2, <3>2 DEF Busy
  <2>6. QED
    BY <2>1, <2>2, <2>3, <2>4, <2>5 DEF LiveOK
<1>10. SavedOK'
  <2>1. Rooted(saved.runs, saved.approvals)'
    BY <1>3 DEF RequestInv, SavedOK, Rooted
  <2>2. Unfinished(saved.runs)' /\ NoneLeft(saved.runs, saved.approvals)'
        /\ Checkpoint(saved.runs, saved.approvals)'
    BY <1>3 DEF RequestInv, SavedOK, Unfinished, NoneLeft, Open, Checkpoint
  <2>3. QED
    BY <1>2, <1>3, <1>4, <2>1, <2>2 DEF RequestInv, SavedOK, HasProposal
<1>11. QED
  BY <1>6, <1>7, <1>8, <1>9, <1>10 DEF RequestInv

LEMMA ResumeFailsOK ==
    ASSUME RequestInv, ResumeFails \/ ResumeLost
    PROVE  RequestInv'
<1>1. /\ request.pc = "over" /\ orch.pc = "paused" /\ runs' = Completed(orch.run, "failed")
      /\ UNCHANGED <<approvals, session, agent, workflow, saved>>
  BY DEF ResumeFails, ResumeRaises, ResumeLost, ResumeElsewhere
<1>2. orch \in OrchRecords /\ orch.status = "none"
  BY <1>1, AtRest
<1>3. CASE ResumeFails
  <2>1. /\ orch' = [orch EXCEPT !.status = "error"]
        /\ request' = [NoRequest EXCEPT !.pc = "running", !.kind = "resume"]
    BY <1>3 DEF ResumeFails, ResumeRaises
  <2>2. /\ orch'.pc = "paused" /\ orch'.run = orch.run /\ orch'.pending = orch.pending
        /\ orch'.resolved = orch.resolved
    BY <1>1, <1>2, <2>1 DEF OrchRecords
  <2>3. orch' \in OrchRecords
    BY <1>2, <2>1, <2>2 DEF OrchRecords, Outcomes
  <2>4. QED
    BY <1>1, <2>1, <2>2, <2>3, ResumeRequest, ResumedInVain
<1>4. CASE ResumeLost
  <2>1. /\ orch' = orch
        /\ request' = [pc |-> "answered", kind |-> "resume", answer |-> "error"]
    BY <1>4 DEF ResumeLost, ResumeElsewhere
  <2>2. /\ request' \in RequestRecords /\ request'.pc = "answered"
        /\ request'.kind = "resume"
    BY <2>1 DEF RequestRecords, Outcomes
  <2>3. QED
    BY <1>1, <1>2, <2>1, <2>2, ResumedInVain
<1>5. QED
  BY <1>3, <1>4

-----------------------------------------------------------------------------
(* The requests *)

\* Steps that leave the specialist and the graph, and the tables of the session,
\* alone.
LEMMA TriggerOK ==
    ASSUME RequestInv, request.pc = "idle",
           NEW kind \in {"specialist", "orchestrator"},
           request' = [NoRequest EXCEPT !.pc = "running", !.kind = kind],
           workflow' \in {workflow, "running"},
           UNCHANGED <<agentVars, orch, saved>>
    PROVE  RequestInv'
<1>1. /\ request' \in RequestRecords /\ request'.pc = "running"
      /\ request'.kind = kind /\ request'.answer = "none"
  BY DEF NoRequest, RequestRecords, Outcomes
<1>2. /\ runs' = runs /\ approvals' = approvals /\ session' = session /\ agent' = agent
      /\ orch' = orch /\ saved' = saved
  BY DEF agentVars
<1>3. request.kind = "none" /\ orch.pc = "off" /\ session = "clean"
  BY DEF RequestInv, RequestOK
<1>4. agent = Off /\ orch.pc \notin Working /\ orch.status = "none"
  BY AtRest
<1>5. AgentOK'
  BY <1>2, <1>4, OffOK
<1>6. OrchOK'
  BY <1>2, <1>3, <1>4 DEF RequestInv, OrchOK
<1>7. RequestOK'
  BY <1>1, <1>2, <1>3 DEF RequestInv, RequestOK
<1>8. LiveOK'
  BY <1>1, <1>2 DEF RequestInv, LiveOK, Rooted, Unfinished, NoneLeft, Open, Checkpoint, Held, Busy,
                    HasProposal
<1>9. SavedOK'
  BY <1>1, <1>2, <1>3 DEF RequestInv, SavedOK, Rooted, Unfinished, NoneLeft, Open, Checkpoint,
                    HasProposal
<1>10. QED
  BY <1>5, <1>6, <1>7, <1>8, <1>9 DEF RequestInv

\* The request is refused or the session breaks; from then on nothing is claimed of
\* the session's own view, except that it grows.
LEMMA BrokenOK ==
    ASSUME RequestInv, HandleRaises \/ StatementFails
    PROVE  RequestInv'
<1>1. /\ runs' = runs /\ approvals' = approvals /\ agent' = agent
      /\ orch' = orch /\ saved' = saved /\ workflow' = workflow /\ session' = "poisoned"
  BY DEF HandleRaises, StatementFails, agentVars
<1>2. /\ request' \in RequestRecords /\ request'.kind = request.kind
      /\ request'.answer = request.answer
      /\ \/ request' = request /\ request.pc \in {"running", "answered"}
         \/ /\ request.pc = "running" /\ request'.pc = "raised" /\ session = "poisoned"
            /\ \/ (request.kind = "specialist" /\ agent.pc = "off")
               \/ (request.kind = "orchestrator" /\ orch.pc = "off")
  BY DEF HandleRaises, StatementFails, Serving, RequestInv, RequestOK, RequestRecords
<1>3. request'.pc = "raised" => agent.pc = "off" /\ orch.pc \notin Working /\ orch.status = "none"
  <2>1. request'.pc = "raised" => request.pc = "running" /\ request.answer = "none"
    BY <1>2 DEF RequestInv, RequestOK
  <2>2. request'.pc = "raised" => orch.pc = "off"
    BY <1>2 DEF RequestInv, RequestOK
  <2>3. orch.pc = "off" => orch.status = "none" /\ orch.pc \notin Working
    BY DEF RequestInv, OrchOK, Working
  <2>4. request'.pc = "raised" /\ agent.pc # "off" => FALSE
    BY <1>2, <2>2 DEF RequestInv, AgentOK
  <2>5. QED
    BY <2>2, <2>3, <2>4
<1>4. AgentOK'
  BY <1>1, <1>2, <1>3 DEF RequestInv, AgentOK
<1>5. OrchOK'
  BY <1>1, <1>2, <1>3 DEF RequestInv, OrchOK, Floor
<1>6. RequestOK'
  BY <1>1, <1>2 DEF RequestInv, RequestOK
<1>7. LiveOK'
  BY <1>1, <1>2 DEF RequestInv, LiveOK, Rooted, Unfinished
<1>8. SavedOK'
  BY <1>1, <1>2 DEF RequestInv, SavedOK, Rooted, Unfinished, NoneLeft, Open, Checkpoint,
                    HasProposal, Failure
<1>9. QED
  BY <1>4, <1>5, <1>6, <1>7, <1>8 DEF RequestInv

\* What is committed is what the session, which is clean, had.
LEMMA CommitOK ==
    ASSUME RequestInv, Commit
    PROVE  RequestInv'
<1>1. /\ request.pc = "answered" /\ session = "clean"
      /\ saved' = [runs |-> runs, approvals |-> approvals, workflow |-> workflow]
      /\ runs' = runs /\ approvals' = approvals /\ agent' = agent
      /\ orch' = orch /\ workflow' = workflow /\ session' = session
      /\ request' = [request EXCEPT !.pc = "over"]
  BY DEF Commit, agentVars
<1>2. saved'.runs = runs /\ saved'.approvals = approvals /\ saved'.workflow = workflow
  BY <1>1
<1>3. /\ request' \in RequestRecords /\ request'.kind = request.kind
      /\ request'.answer = request.answer /\ request'.pc = "over"
  BY <1>1 DEF RequestInv, RequestOK, RequestRecords
<1>4. agent = Off /\ agent.pc = "off" /\ orch.pc \notin Working /\ orch.status = "none"
  BY <1>1, AtRest
<1>5. AgentOK'
  BY <1>1, <1>4, OffOK
<1>6. OrchOK'
  <2>1. orch.pc \notin {"delegate", "waiting", "await", "combine"}
    BY <1>4 DEF Working
  <2>2. QED
    BY <1>1, <1>3, <1>4, <2>1 DEF RequestInv, OrchOK, Floor
<1>7. RequestOK'
  BY <1>1, <1>3 DEF RequestInv, RequestOK
<1>8. LiveOK'
  BY <1>1, <1>3 DEF RequestInv, LiveOK, Rooted, Unfinished, NoneLeft, Open, Checkpoint, Held, Busy,
                    HasProposal, Failure
<1>9. SavedOK'
  <2>1. /\ Rooted(saved.runs, saved.approvals)' /\ Unfinished(saved.runs)'
        /\ NoneLeft(saved.runs, saved.approvals)' /\ Checkpoint(saved.runs, saved.approvals)'
    BY <1>1, <1>2 DEF RequestInv, LiveOK, Rooted, Unfinished, NoneLeft, Open, Checkpoint
  <2>2. \A r \in DOMAIN runs : runs[r].status = "running"
           => r = orch.run /\ HasProposal(runs, r)
    BY <1>1, <1>4 DEF RequestInv, LiveOK, Busy
  <2>3. (\A r \in DOMAIN saved.runs : saved.runs[r].status = "running"
           => r = orch.run /\ HasProposal(saved.runs, r))'
    BY <1>1, <1>2, <2>2 DEF HasProposal
  <2>4. orch'.pc \notin Working /\ DOMAIN saved'.runs \subseteq DOMAIN runs'
    BY <1>1, <1>2, <1>4
  <2>5. workflow \in {"none", "running", "completed"}
    BY DEF RequestInv, RequestOK
  <2>6. workflow = "completed" /\ request.kind # "resume" /\ request.answer = "error"
          => Failure(runs)
    BY <1>1 DEF RequestInv, LiveOK
  <2>7. (saved.workflow = "completed" /\ request.kind # "resume" /\ request.answer = "error"
           => Failure(saved.runs))'
    BY <1>2, <1>3, <2>6 DEF Failure
  <2>8. (saved = [runs |-> saved.runs, approvals |-> saved.approvals,
                  workflow |-> saved.workflow])'
    BY <1>1, <1>2
  <2>9. (saved.workflow \in {"none", "running", "completed"})'
    BY <1>2, <2>5
  <2>10. QED
    BY <1>3, <2>1, <2>3, <2>4, <2>7, <2>8, <2>9 DEF SavedOK
<1>10. QED
  BY <1>5, <1>6, <1>7, <1>8, <1>9 DEF RequestInv

\* The session's view is again what is committed; the checkpoint is where it was.
LEMMA RollBackOK ==
    ASSUME RequestInv, RollBack
    PROVE  RequestInv'
<1>1. /\ request.pc \in {"raised", "answered"}
      /\ runs' = saved.runs /\ approvals' = saved.approvals /\ workflow' = saved.workflow
      /\ session' = "clean" /\ agent' = agent /\ orch' = orch /\ saved' = saved
      /\ request' = [request EXCEPT !.pc = "over"]
  BY DEF RollBack
<1>2. /\ request' \in RequestRecords /\ request'.kind = request.kind
      /\ request'.answer = request.answer /\ request'.pc = "over"
  BY <1>1 DEF RequestInv, RequestOK, RequestRecords
<1>3. /\ agent = Off /\ agent.pc = "off" /\ orch.pc \notin Working /\ orch.status = "none"
      /\ orch.pc \in {"off", "paused", "returned"}
  BY <1>1, AtRest
<1>4. AgentOK'
  BY <1>1, <1>3, OffOK
<1>5. OrchOK'
  <2>1. orch.pc \notin {"delegate", "waiting", "await", "combine"}
    BY <1>3
  <2>2. QED
    BY <1>1, <1>2, <1>3, <2>1 DEF RequestInv, OrchOK, Floor
<1>6. SavedOK'
  <2>1. /\ Rooted(saved.runs, saved.approvals)' /\ Unfinished(saved.runs)'
        /\ NoneLeft(saved.runs, saved.approvals)' /\ Checkpoint(saved.runs, saved.approvals)'
    BY <1>1 DEF RequestInv, SavedOK, Rooted, Unfinished, NoneLeft, Open, Checkpoint
  <2>2. QED
    BY <1>1, <1>2, <1>3, <2>1 DEF RequestInv, SavedOK, HasProposal, Failure
<1>7. RequestOK'
  <2>1. saved = [runs |-> saved.runs, approvals |-> saved.approvals, workflow |-> saved.workflow]
    BY DEF RequestInv, SavedOK
  <2>2. QED
    BY <1>1, <1>2, <2>1 DEF RequestInv, RequestOK, SavedOK
<1>8. LiveOK'
  <2>1. (Rooted(runs, approvals) /\ Unfinished(runs) /\ NoneLeft(runs, approvals)
         /\ Checkpoint(runs, approvals))'
    BY <1>1 DEF RequestInv, SavedOK, Rooted, Unfinished, NoneLeft, Open, Checkpoint
  <2>2. Held'
    <3>1. ASSUME NEW a \in DOMAIN saved.approvals, Open(saved.runs, saved.approvals, a)
          PROVE  orch.pc # "off"
      <4>1. orch.run \in DOMAIN saved.runs
        BY <3>1 DEF RequestInv, SavedOK, Rooted, Open
      <4>2. orch.run # 0
        BY <4>1, LenProperties DEF RequestInv, SavedOK, Rooted
      <4>3. QED
        BY <4>2 DEF RequestInv, OrchOK
    <3>2. QED
      BY <1>1, <1>3, <3>1 DEF Held, Open
  <2>3. Busy'
    BY <1>1 DEF RequestInv, SavedOK, Busy, HasProposal
  <2>4. QED
    BY <1>1, <1>2, <2>1, <2>2, <2>3 DEF RequestInv, SavedOK, LiveOK, Failure
<1>9. QED
  BY <1>4, <1>5, <1>6, <1>7, <1>8 DEF RequestInv

\* The first specialist of a request, under no orchestrator.
LEMMA AskSpecialistOK ==
    ASSUME RequestInv, Serving("specialist"), agent.pc = "off", NEW name \in Agents,
           Handle(name, 0), UNCHANGED <<orch, workflow, request, saved>>
    PROVE  RequestInv'
<1>1. /\ request.pc = "running" /\ request.kind = "specialist" /\ request.answer = "none"
      /\ orch.pc = "off" /\ orch.run = 0 /\ runs \in Seq(RunRows) /\ approvals \in Seq(ApprovalRows)
      /\ \A a \in DOMAIN approvals : approvals[a].run \in DOMAIN runs
  BY DEF RequestInv, OrchOK, RequestOK, LiveOK, Rooted, Serving
<1>2. approvals' = approvals /\ session' = session /\ workflow' = workflow
      /\ request' = request /\ saved' = saved /\ orch' = orch
  BY DEF Handle
<1>3. PICK n \in Nat :
        /\ agent' \in AgentRecords /\ agent'.pc = "asking" /\ agent'.name = name
        /\ agent'.run = n /\ agent'.proposal = 0
        /\ n \notin DOMAIN runs /\ DOMAIN runs' = DOMAIN runs \cup {n}
        /\ runs' \in Seq(RunRows)
        /\ \A r \in DOMAIN runs : runs'[r] = runs[r]
        /\ runs'[n].parent = 0 /\ runs'[n].status = "running"
  <2>1. 0 \in Nat
    OBVIOUS
  <2>2. Handle(name, 0)
    OBVIOUS
  <2> DEFINE n == Len(runs) + 1
  <2>3. /\ agent' \in AgentRecords /\ agent'.pc = "asking" /\ agent'.name = name
        /\ agent'.run = n /\ agent'.proposal = 0
        /\ n \in Nat /\ n \notin DOMAIN runs /\ DOMAIN runs' = DOMAIN runs \cup {n}
        /\ runs' \in Seq(RunRows)
        /\ \A r \in DOMAIN runs : runs'[r] = runs[r]
        /\ runs'[n].parent = 0 /\ runs'[n].status = "running"
    BY <1>1, <2>1, <2>2, Handled
  <2> HIDE DEF n
  <2>4. QED
    BY <2>3
<1>4. n # 0 /\ 0 \notin DOMAIN runs'
  <2>1. DOMAIN runs' = 1 .. Len(runs') /\ Len(runs') \in Nat
    BY <1>3, LenProperties
  <2>2. QED
    BY <1>3, <2>1
<1>5. \A a \in DOMAIN approvals : ~Open(runs, approvals, a)
  BY <1>1, <1>3, <1>4 DEF RequestInv, LiveOK, Rooted, Open
<1>6. \A a \in DOMAIN approvals : ~Open(runs, approvals, a)'
  BY <1>1, <1>2, <1>3, <1>5 DEF Open
<1>7. AgentOK'
  BY <1>1, <1>2, <1>3, <1>4 DEF AgentOK
<1>8. OrchOK'
  BY <1>1, <1>2 DEF RequestInv, OrchOK, Working
<1>9. RequestOK'
  BY <1>1, <1>2 DEF RequestInv, RequestOK
<1>10. LiveOK'
  <2>1. Rooted(runs, approvals)'
    BY <1>1, <1>2, <1>3, <1>4 DEF RequestInv, LiveOK, Rooted
  <2>2. Unfinished(runs)' /\ (NoneLeft(runs, approvals) /\ Checkpoint(runs, approvals) /\ Held)'
    BY <1>1, <1>2, <1>4, <1>6 DEF Unfinished, NoneLeft, Checkpoint, Held
  <2>3. session = "clean" => Busy'
    <3>1. ASSUME session = "clean", NEW r \in DOMAIN runs', runs'[r].status = "running"
          PROVE  r = n
      <4>1. CASE r \in DOMAIN runs
        <5>1. r = orch.run
          BY <1>3, <3>1, <4>1 DEF RequestInv, LiveOK, Busy
        <5>2. QED
          BY <1>1, <1>3, <1>4, <4>1, <5>1
      <4>2. QED
        BY <1>3, <4>1
    <3>2. QED
      BY <1>3, <3>1 DEF Busy
  <2>4. QED
    BY <1>1, <1>2, <2>1, <2>2, <2>3 DEF LiveOK
<1>11. SavedOK'
  BY <1>1, <1>2, <1>3 DEF RequestInv, SavedOK, Working, Rooted, Unfinished, NoneLeft, Open, Checkpoint, HasProposal,
              Failure
<1>12. QED
  BY <1>7, <1>8, <1>9, <1>10, <1>11 DEF RequestInv

\* The orchestrator's run is the first of its request.
LEMMA AskOrchestratorOK ==
    ASSUME RequestInv, Serving("orchestrator"), orch.pc = "off", OrchHandle,
           UNCHANGED <<workflow, request, saved>>
    PROVE  RequestInv'
<1> DEFINE n == Len(runs) + 1
           row == [agent |-> "orchestrator", parent |-> 0, status |-> "running",
                   proposed |-> FALSE]
<1>1. /\ request.pc = "running" /\ request.kind = "orchestrator" /\ request.answer = "none"
      /\ orch.run = 0 /\ runs \in Seq(RunRows) /\ approvals \in Seq(ApprovalRows)
      /\ \A a \in DOMAIN approvals : approvals[a].run \in DOMAIN runs
      /\ saved.runs \in Seq(RunRows) /\ DOMAIN saved.runs \subseteq DOMAIN runs
      /\ saved.workflow = "none"
  BY DEF RequestInv, OrchOK, RequestOK, LiveOK, SavedOK, Rooted, Serving
<1>2. agent = Off /\ agent.pc = "off"
  BY <1>1 DEF RequestInv, AgentOK, Off
<1>3. /\ approvals' = approvals /\ session' = session /\ workflow' = workflow
      /\ request' = request /\ saved' = saved /\ agent' = agent
      /\ runs' = Append(runs, row) /\ session = "clean"
      /\ orch' = [OrchOff EXCEPT !.pc = "scope", !.run = n, !.remaining = MaxDelegations]
  BY DEF OrchHandle, Started
<1>4. row \in RunRows /\ row.agent = "orchestrator" /\ row.parent = 0 /\ row.status = "running"
  BY DEF RunRows
<1>5. n \in Nat /\ n # 0 /\ DOMAIN runs = 1 .. Len(runs) /\ n \notin DOMAIN runs
  BY <1>1, LenProperties
<1> HIDE DEF row
<1>6. /\ runs' \in Seq(RunRows) /\ DOMAIN runs' = DOMAIN runs \cup {n}
      /\ \A r \in DOMAIN runs : runs'[r] = runs[r]
      /\ runs'[n].agent = "orchestrator" /\ runs'[n].parent = 0 /\ runs'[n].status = "running"
  <2>1. /\ runs' \in Seq(RunRows) /\ DOMAIN runs' = 1 .. (Len(runs) + 1)
        /\ \A r \in DOMAIN runs : runs'[r] = runs[r]
        /\ runs'[n] = row
    BY <1>1, <1>3, <1>4, Appended
  <2>2. QED
    BY <1>4, <1>5, <2>1
<1> HIDE DEF n
<1>7. /\ orch'.pc = "scope" /\ orch'.run = n /\ orch'.status = "none"
      /\ orch' \in OrchRecords
  <2>1. MaxDelegations \in 0 .. MaxDelegations /\ 0 \in 0 .. MaxRetries + 1 /\ 0 \in Nat
    BY OrchestratorAssumption
  <2>2. QED
    BY <1>3, <1>5, <2>1 DEF OrchOff, OrchRecords, Outcomes, Working
<1>9. \A r \in DOMAIN runs : runs[r].parent = 0 /\ runs[r].status # "running"
  <2>1. 0 \notin DOMAIN runs
    BY <1>5
  <2>2. QED
    BY <1>1, <1>2, <1>3, <2>1 DEF RequestInv, LiveOK, Rooted, Busy
<1>10. \A a \in DOMAIN approvals : ~Open(runs, approvals, a)'
  BY <1>1, <1>3, <1>6, <1>9 DEF Open
<1>11. AgentOK'
  BY <1>2, <1>3, OffOK
<1>12. OrchOK'
  BY <1>1, <1>3, <1>5, <1>6, <1>7 DEF OrchOK
<1>13. RequestOK'
  BY <1>1, <1>3 DEF RequestInv, RequestOK
<1>14. LiveOK'
  <2>1. Rooted(runs, approvals)'
    BY <1>1, <1>3, <1>6, <1>7, <1>9 DEF Rooted
  <2>2. Unfinished(runs)' /\ (NoneLeft(runs, approvals) /\ Checkpoint(runs, approvals) /\ Held)'
    BY <1>3, <1>6, <1>7, <1>10 DEF Unfinished, NoneLeft, Checkpoint, Held
  <2>3. Busy'
    BY <1>6, <1>7, <1>9 DEF Busy, Working
  <2>4. QED
    BY <1>1, <1>3, <2>1, <2>2, <2>3 DEF LiveOK
<1>15. SavedOK'
  <2>1. n \notin DOMAIN saved.runs /\ 0 \notin DOMAIN saved.runs
    BY <1>1, <1>5
  <2>2. \A r \in DOMAIN saved.runs : saved.runs[r].parent = 0 /\ saved.runs[r].status # "running"
    BY <1>1, <2>1 DEF RequestInv, SavedOK, Rooted
  <2>3. Rooted(saved.runs, saved.approvals)'
    BY <1>3, <1>7, <2>1, <2>2 DEF RequestInv, SavedOK, Rooted
  <2>4. \A a \in DOMAIN saved.approvals : ~Open(saved.runs, saved.approvals, a)'
    <3>1. \A a \in DOMAIN saved.approvals : saved.approvals[a].run \in DOMAIN saved.runs
      BY DEF RequestInv, SavedOK, Rooted
    <3>2. QED
      BY <1>3, <2>2, <3>1 DEF Open
  <2>5. (Unfinished(saved.runs) /\ NoneLeft(saved.runs, saved.approvals)
         /\ Checkpoint(saved.runs, saved.approvals))'
    BY <1>3, <1>7, <2>1, <2>4 DEF Unfinished, NoneLeft, Checkpoint
  <2>6. DOMAIN saved'.runs \subseteq DOMAIN runs'
    BY <1>1, <1>3, <1>6
  <2>7. QED
    BY <1>1, <1>3, <2>2, <2>3, <2>4, <2>5, <2>6 DEF RequestInv, SavedOK
<1>16. QED
  BY <1>11, <1>12, <1>13, <1>14, <1>15 DEF RequestInv

\* The answer of a specialist, or of the graph, is the request's.
LEMMA ReturnsOK ==
    ASSUME RequestInv, SpecialistReturns \/ OrchestratorReturns
    PROVE  RequestInv'
<1>1. PICK status \in Outcomes :
        /\ request.pc = "running" /\ Return(status) /\ agent' = Off /\ orch'.run = orch.run
        /\ orch' \in OrchRecords /\ orch'.pc = orch.pc /\ orch'.status = "none"
        /\ orch'.pending = orch.pending /\ orch'.resolved = orch.resolved
        /\ orch'.required = orch.required
        /\ orch'.invoked = orch.invoked /\ orch'.remaining = orch.remaining
        /\ orch.pc \notin Working
        /\ agent.pc \in {"off", "returned"}
        /\ orch.pc = "returned" => status = orch.status
        /\ session = "clean" /\ status = "error" /\ request.kind # "resume" => Failure(runs)
  <2>1. CASE SpecialistReturns
    <3>1. /\ request.pc = "running" /\ request.kind = "specialist" /\ agent.pc = "returned"
          /\ Return(agent.status) /\ agent' = Off /\ orch' = orch
      BY <2>1 DEF SpecialistReturns, Serving
    <3>2. orch.pc = "off" /\ agent.status \in Outcomes /\ orch \in OrchRecords
      BY <3>1 DEF RequestInv, RequestOK, AgentOK, AgentRecords, OrchOK
    <3>3. orch.status = "none" /\ orch.pc \notin Working
      BY <3>2 DEF RequestInv, OrchOK, Working
    <3>4. session = "clean" /\ agent.status = "error" => Failure(runs)
      BY <3>1 DEF RequestInv, AgentOK, Failure
    <3>5. QED
      BY <3>1, <3>2, <3>3, <3>4
  <2>2. CASE OrchestratorReturns
    <3>1. /\ request.pc = "running" /\ orch.pc \in {"paused", "returned"}
          /\ Return(orch.status) /\ agent' = agent /\ orch' = [orch EXCEPT !.status = "none"]
          /\ orch.status # "none"
      BY <2>2 DEF OrchestratorReturns
    <3>2. agent = Off /\ agent.pc = "off" /\ orch.pc \notin Working
      BY <3>1 DEF RequestInv, AgentOK, Off, Working
    <3>3. orch \in OrchRecords
      BY DEF RequestInv, OrchOK
    <3>4. /\ orch'.run = orch.run /\ orch'.pc = orch.pc /\ orch'.status = "none"
          /\ orch'.pending = orch.pending /\ orch'.resolved = orch.resolved
          /\ orch'.required = orch.required
          /\ orch'.invoked = orch.invoked /\ orch'.remaining = orch.remaining
          /\ orch.status \in Outcomes
      BY <3>1, <3>3 DEF OrchRecords
    <3>5. orch' \in OrchRecords
      BY <3>1, <3>3, <3>4 DEF OrchRecords, Outcomes
    <3>6. session = "clean" /\ orch.status = "error" /\ request.kind # "resume" => Failure(runs)
      BY <3>1 DEF RequestInv, OrchOK
    <3>7. QED
      BY <3>1, <3>2, <3>4, <3>5, <3>6
  <2>3. QED
    BY <2>1, <2>2
<1>2. /\ runs' = runs /\ approvals' = approvals /\ session' = session /\ saved' = saved
      /\ workflow' \in {"none", "running", "completed"}
  BY <1>1 DEF Return, RequestInv, RequestOK
<1>3. /\ request' \in RequestRecords /\ request'.kind = request.kind
      /\ \/ request'.pc = "raised" /\ request'.answer = "none"
         \/ request'.pc = "answered" /\ request'.answer = status
  <2>1. request \in RequestRecords /\ request.answer = "none"
    BY <1>1 DEF RequestInv, RequestOK
  <2>2. CASE workflow = "running" /\ session = "poisoned"
    BY <1>1, <2>1, <2>2 DEF Return, RequestRecords
  <2>3. CASE ~(workflow = "running" /\ session = "poisoned")
    BY <1>1, <2>1, <2>3 DEF Return, RequestRecords
  <2>4. QED
    BY <2>2, <2>3
<1>4. AgentOK'
  BY <1>1, OffOK
<1>5. OrchOK'
  <2>1. orch.pc \notin {"delegate", "waiting", "await", "combine"}
    BY <1>1 DEF Working
  <2>2. orch.pc = "returned" /\ request'.answer = "completed" => Floor'
    BY <1>1, <1>3 DEF RequestInv, OrchOK, Floor
  <2>3. QED
    BY <1>1, <2>1, <2>2 DEF RequestInv, OrchOK
<1>6. RequestOK'
  BY <1>1, <1>2, <1>3 DEF RequestInv, RequestOK
<1>7. LiveOK'
  <2>1. (Rooted(runs, approvals) /\ Unfinished(runs))'
    BY <1>1, <1>2 DEF RequestInv, LiveOK, Rooted, Unfinished
  <2>2. session = "clean" => (NoneLeft(runs, approvals) /\ Checkpoint(runs, approvals))'
    BY <1>1, <1>2 DEF RequestInv, LiveOK, NoneLeft, Open, Checkpoint
  <2>3. session = "clean" => Held'
    <3>1. orch.pc # "waiting" /\ orch.pc # "await"
      BY <1>1 DEF Working
    <3>2. QED
      BY <1>1, <1>2, <3>1 DEF RequestInv, LiveOK, Held, Open
  <2>4. session = "clean" => Busy'
    BY <1>1, <1>2 DEF RequestInv, LiveOK, Busy, HasProposal
  <2>5. session = "clean" /\ request'.answer = "error" /\ request.kind # "resume" => Failure(runs)'
    BY <1>1, <1>2, <1>3 DEF Failure
  <2>6. QED
    BY <1>2, <1>3, <2>1, <2>2, <2>3, <2>4, <2>5 DEF LiveOK
<1>8. SavedOK'
  <2>1. request.kind # "resume" => saved.workflow = "none"
    BY <1>1 DEF RequestInv, SavedOK
  <2>2. QED
    BY <1>1, <1>2, <1>3, <2>1
    DEF RequestInv, SavedOK, Rooted, Unfinished, NoneLeft, Open, Checkpoint, HasProposal
<1>9. QED
  BY <1>4, <1>5, <1>6, <1>7, <1>8 DEF RequestInv

\* A change on the dashboard is a request of its own, under a run that is over.
LEMMA DashboardOK ==
    ASSUME RequestInv, Dashboard
    PROVE  RequestInv'
<1> DEFINE n == Len(runs) + 1
           row(status) == [agent |-> "manager_dashboard", parent |-> 0, status |-> status,
                           proposed |-> FALSE]
           change == Proposal(n)
<1>1. /\ request.pc = "idle" /\ orch.pc = "off" /\ orch.run = 0
      /\ request.kind = "none" /\ session = "clean" /\ saved.workflow = "none"
  BY DEF Dashboard, RequestInv, RequestOK, OrchOK, SavedOK
<1>2. /\ agent = Off /\ agent.pc = "off" /\ orch.pc \notin Working /\ orch.status = "none"
      /\ runs \in Seq(RunRows) /\ approvals \in Seq(ApprovalRows)
      /\ \A a \in DOMAIN approvals : approvals[a].run \in DOMAIN runs
      /\ saved.runs = runs /\ saved.approvals = approvals
  BY <1>1, AtRest, Agreed
<1>3. session' = session /\ agent' = agent /\ orch' = orch /\ workflow' = workflow
      /\ saved' = saved
  BY DEF Dashboard
<1>4. PICK status \in {"completed", "failed"} : runs' = Append(runs, row(status))
  BY DEF Dashboard, DashboardRun
<1>5. /\ runs' \in Seq(RunRows) /\ DOMAIN runs' = DOMAIN runs \cup {n} /\ n \in Nat
      /\ \A r \in DOMAIN runs : runs'[r] = runs[r]
      /\ runs'[n].parent = 0 /\ runs'[n].status = status
      /\ 0 \notin DOMAIN runs /\ n # 0 /\ n \notin DOMAIN runs
  <2> DEFINE r == row(status)
  <2>1. r \in RunRows /\ runs' = Append(runs, r) /\ r.parent = 0 /\ r.status = status
    BY <1>4 DEF RunRows
  <2> HIDE DEF r
  <2>2. /\ runs' \in Seq(RunRows) /\ DOMAIN runs' = 1 .. (Len(runs) + 1)
        /\ DOMAIN runs = 1 .. Len(runs)
        /\ \A i \in DOMAIN runs : runs'[i] = runs[i]
        /\ runs'[Len(runs) + 1] = r
    BY <1>2, <2>1, Appended
  <2>3. Len(runs) \in Nat
    BY <1>2, LenProperties
  <2>4. QED
    BY <2>1, <2>2, <2>3
<1> HIDE DEF row
<1>6. approvals' = approvals \/ approvals' = Append(approvals, change)
  BY DEF Dashboard
<1>7. change \in ApprovalRows /\ change.run = n
  BY <1>5 DEF Proposal, ApprovalRows
<1> HIDE DEF change, n
<1>8. /\ approvals' \in Seq(ApprovalRows) /\ DOMAIN approvals \subseteq DOMAIN approvals'
      /\ \A a \in DOMAIN approvals' : approvals'[a].run \in DOMAIN runs'
  <2>1. CASE approvals' = Append(approvals, change)
    <3>1. /\ approvals' \in Seq(ApprovalRows) /\ DOMAIN approvals = 1 .. Len(approvals)
          /\ DOMAIN approvals' = 1 .. (Len(approvals) + 1)
          /\ \A a \in DOMAIN approvals : approvals'[a] = approvals[a]
          /\ approvals'[Len(approvals) + 1] = change
      BY <1>2, <1>7, <2>1, Appended
    <3>2. Len(approvals) \in Nat
      BY <1>2, LenProperties
    <3>3. \A a \in DOMAIN approvals' :
            \/ a \in DOMAIN approvals /\ approvals'[a] = approvals[a]
            \/ approvals'[a] = change
      BY <3>1, <3>2
    <3>4. \A a \in DOMAIN approvals' : approvals'[a].run \in DOMAIN runs'
      BY <1>2, <1>5, <1>7, <3>3
    <3>5. DOMAIN approvals \subseteq DOMAIN approvals'
      BY <3>1, <3>2
    <3>6. QED
      BY <3>1, <3>4, <3>5
  <2>2. QED
    BY <1>2, <1>5, <1>6, <2>1
<1>9. /\ request' \in RequestRecords /\ request'.kind = "dashboard"
      /\ request'.pc \in {"answered", "raised"} /\ request'.answer # "error"
      /\ request'.pc = "raised" => request'.answer = "none"
  BY DEF Dashboard, RequestRecords, Outcomes
<1>10. AgentOK'
  BY <1>2, <1>3, OffOK
<1>11. OrchOK'
  BY <1>1, <1>2, <1>3, <1>9 DEF RequestInv, OrchOK
<1>12. RequestOK'
  BY <1>1, <1>3, <1>9 DEF RequestInv, RequestOK
<1>13. \A r \in DOMAIN runs : runs[r].parent = 0 /\ runs[r].status # "running"
  BY <1>1, <1>2, <1>5 DEF RequestInv, LiveOK, Rooted, Busy
<1>14. \A r \in DOMAIN runs' : runs'[r].parent = 0 /\ runs'[r].status # "running"
  BY <1>5, <1>13
<1>15. LiveOK'
  <2>1. Rooted(runs, approvals)'
    BY <1>1, <1>3, <1>5, <1>8, <1>14 DEF Rooted
  <2>2. Unfinished(runs)' /\ (NoneLeft(runs, approvals) /\ Checkpoint(runs, approvals) /\ Held)'
    BY <1>1, <1>3, <1>5, <1>8, <1>14 DEF Unfinished, NoneLeft, Checkpoint, Held, Open
  <2>3. Busy'
    BY <1>14 DEF Busy
  <2>4. QED
    BY <1>9, <2>1, <2>2, <2>3 DEF LiveOK
<1>16. SavedOK'
  <2>1. DOMAIN saved'.runs \subseteq DOMAIN runs'
    BY <1>2, <1>3, <1>5
  <2>2. QED
    BY <1>1, <1>2, <1>3, <1>9, <2>1
    DEF RequestInv, SavedOK, Rooted, Unfinished, NoneLeft, Open, Checkpoint, HasProposal
<1>17. QED
  BY <1>10, <1>11, <1>12, <1>15, <1>16 DEF RequestInv

\* A decision on the dashboard reaches both views, between two requests.
LEMMA DecideOnDashboardOK ==
    ASSUME RequestInv, DecideOnDashboard
    PROVE  RequestInv'
<1>1. /\ request.pc = "over" /\ runs' = runs /\ session' = session /\ agent' = agent
      /\ orch' = orch /\ workflow' = workflow /\ request' = request
  BY DEF DecideOnDashboard
<1>2. /\ saved.runs = runs /\ saved.approvals = approvals /\ saved.workflow = workflow
      /\ session = "clean"
      /\ runs \in Seq(RunRows) /\ approvals \in Seq(ApprovalRows)
      /\ \A a \in DOMAIN approvals : approvals[a].run \in DOMAIN runs
      /\ agent = Off /\ orch.pc \notin Working
  BY <1>1, Agreed, AtRest
<1>3. PICK a \in DOMAIN approvals :
        /\ approvals' = [approvals EXCEPT ![a].status = "decided"]
        /\ saved' = [saved EXCEPT !.approvals[a].status = "decided"]
  BY <1>2 DEF DecideOnDashboard
<1>4. /\ approvals' \in Seq(ApprovalRows) /\ Len(approvals') = Len(approvals)
      /\ DOMAIN approvals' = DOMAIN approvals
      /\ \A b \in DOMAIN approvals :
           /\ approvals'[b].run = approvals[b].run /\ approvals'[b].buried = approvals[b].buried
           /\ approvals'[b].status = IF b = a THEN "decided" ELSE approvals[b].status
  BY <1>2, <1>3, DecidedRow
<1>5. saved' = [runs |-> runs, approvals |-> approvals', workflow |-> workflow]
  <2>1. saved = [runs |-> runs, approvals |-> approvals, workflow |-> workflow]
    BY <1>1 DEF RequestInv, RequestOK
  <2>2. QED
    BY <1>3, <2>1
<1>6. saved'.runs = runs /\ saved'.approvals = approvals' /\ saved'.workflow = workflow
  BY <1>5
<1>7. \A b \in DOMAIN approvals : Open(runs, approvals, b)' => Open(runs, approvals, b)
  BY <1>1, <1>2, <1>4 DEF Open
<1>8. \A r : HasProposal(runs, r)' <=> HasProposal(runs, r)
  BY <1>1 DEF HasProposal
<1>9. AgentOK'
  BY <1>1, <1>2, OffOK
<1>10. OrchOK'
  <2>1. orch.pc \notin {"delegate", "waiting", "await", "combine"}
    BY <1>2 DEF Working
  <2>2. QED
    BY <1>1, <1>2, <2>1 DEF RequestInv, OrchOK, Floor, Failure
<1>11. RequestOK'
  BY <1>1, <1>5 DEF RequestInv, RequestOK
<1>12. (/\ Rooted(runs, approvals) /\ Unfinished(runs)
        /\ NoneLeft(runs, approvals) /\ Checkpoint(runs, approvals))'
  <2>1. (Rooted(runs, approvals) /\ Unfinished(runs))'
    BY <1>1, <1>4 DEF RequestInv, LiveOK, Rooted, Unfinished
  <2>2. (NoneLeft(runs, approvals) /\ Checkpoint(runs, approvals))'
    BY <1>1, <1>2, <1>4, <1>7 DEF RequestInv, LiveOK, NoneLeft, Checkpoint
  <2>3. QED
    BY <2>1, <2>2
<1>13. LiveOK'
  <2>1. Held'
    BY <1>1, <1>2, <1>4, <1>7 DEF RequestInv, LiveOK, Held, Working
  <2>2. Busy'
    BY <1>1, <1>2, <1>8 DEF RequestInv, LiveOK, Busy
  <2>3. QED
    BY <1>1, <1>12, <2>1, <2>2 DEF RequestInv, LiveOK, Failure
<1>14. SavedOK'
  <2>1. (/\ Rooted(saved.runs, saved.approvals) /\ Unfinished(saved.runs)
         /\ NoneLeft(saved.runs, saved.approvals) /\ Checkpoint(saved.runs, saved.approvals))'
    BY <1>1, <1>6, <1>12 DEF Rooted, Unfinished, NoneLeft, Open, Checkpoint
  <2>2. (\A r \in DOMAIN saved.runs : saved.runs[r].status = "running"
           => r = orch.run /\ HasProposal(saved.runs, r))'
    <3>1. \A r \in DOMAIN runs : runs[r].status = "running"
            => r = orch.run /\ HasProposal(runs, r)'
      BY <1>2, <1>8 DEF RequestInv, SavedOK
    <3>2. QED
      BY <1>1, <1>6, <3>1 DEF HasProposal
  <2>3. (DOMAIN saved.runs \subseteq DOMAIN runs)' /\ orch'.pc \notin Working
    BY <1>1, <1>2, <1>6
  <2>4. (saved = [runs |-> saved.runs, approvals |-> saved.approvals,
                  workflow |-> saved.workflow])'
    BY <1>5, <1>6
  <2>5. (saved.workflow = "completed" /\ request.kind # "resume" /\ request.answer = "error"
           => Failure(saved.runs))'
    BY <1>1, <1>2, <1>6 DEF RequestInv, SavedOK, Failure
  <2>6. (saved.workflow \in {"none", "running", "completed"})'
    BY <1>2, <1>6 DEF RequestInv, SavedOK
  <2>7. QED
    BY <1>1, <2>1, <2>2, <2>3, <2>4, <2>5, <2>6 DEF SavedOK
<1>15. QED
  BY <1>9, <1>10, <1>11, <1>13, <1>14 DEF RequestInv

-----------------------------------------------------------------------------
(* All of it *)

LEMMA RequestInitOK == RequestInit => RequestInv
<1> SUFFICES ASSUME RequestInit PROVE RequestInv
  OBVIOUS
<1>1. /\ session = "clean" /\ agent = Off /\ orch = OrchOff
      /\ workflow = "none" /\ request = NoRequest
      /\ saved = [runs |-> runs, approvals |-> approvals, workflow |-> workflow]
  BY DEF RequestInit, AgentInit
<1>2. /\ runs \in Seq(RunRows) /\ approvals \in Seq(ApprovalRows)
      /\ \A r \in DOMAIN runs : r # 0 /\ runs[r].parent = 0 /\ runs[r].status = "completed"
      /\ \A a \in DOMAIN approvals : approvals[a].run \in DOMAIN runs
  <2>1. CASE runs = <<>> /\ approvals = <<>>
    BY <2>1, EmptySeq
  <2>2. CASE ~(runs = <<>> /\ approvals = <<>>)
    <3>1. PICK name \in Buyers : runs = <<EarlierRun(name)>>
      BY <2>2 DEF RequestInit, AgentInit
    <3>2. PICK status \in {"pending", "decided"} :
            approvals = <<[Proposal(1) EXCEPT !.status = status]>>
      BY <2>2 DEF RequestInit, AgentInit
    <3> DEFINE run == EarlierRun(name)
               approval == [Proposal(1) EXCEPT !.status = status]
    <3>3. run \in RunRows /\ run.parent = 0 /\ run.status = "completed"
      BY <3>1 DEF EarlierRun, Buyers, RunRows
    <3>4. approval \in ApprovalRows /\ approval.run = 1
      BY <3>2 DEF Proposal, ApprovalRows
    <3> HIDE DEF run, approval
    <3>5. runs = <<run>> /\ approvals = <<approval>>
      BY <3>1, <3>2 DEF run, approval
    <3>6. /\ runs \in Seq(RunRows) /\ DOMAIN runs = {1} /\ runs[1] = run
          /\ approvals \in Seq(ApprovalRows) /\ DOMAIN approvals = {1} /\ approvals[1] = approval
      BY <3>3, <3>4, <3>5
    <3>7. QED
      BY <3>3, <3>4, <3>6
  <2>3. QED
    BY <2>1, <2>2
<1>3. AgentOK
  <2>1. Off \in AgentRecords
    BY AgentAssumption DEF Off, AgentRecords, Outcomes
  <2>2. QED
    BY <1>1, <2>1 DEF AgentOK, Off
<1>4. orch \in OrchRecords /\ orch.pc = "off" /\ orch.run = 0 /\ orch.status = "none"
  <2>1. 0 \in 0 .. MaxDelegations /\ 0 \in 0 .. MaxRetries + 1 /\ 0 \in Nat
    BY OrchestratorAssumption
  <2>2. QED
    BY <1>1, <2>1 DEF OrchOff, OrchRecords, Outcomes
<1>5. OrchOK
  BY <1>4 DEF OrchOK, Working
<1>6. /\ request \in RequestRecords /\ request.pc = "idle" /\ request.kind = "none"
      /\ request.answer = "none"
  BY <1>1 DEF NoRequest, RequestRecords, Outcomes
<1>7. RequestOK
  BY <1>1, <1>4, <1>6 DEF RequestOK
<1>8. LiveOK
  BY <1>1, <1>2, <1>4, <1>6 DEF LiveOK, Rooted, Unfinished, NoneLeft, Open, Checkpoint, Held, Busy
<1>9. SavedOK
  <2>1. saved.runs = runs /\ saved.approvals = approvals /\ saved.workflow = "none"
    BY <1>1
  <2>2. QED
    BY <1>1, <1>2, <1>4, <1>6, <2>1
    DEF SavedOK, Rooted, Unfinished, NoneLeft, Open, Checkpoint, Working
<1>10. QED
  BY <1>3, <1>5, <1>7, <1>8, <1>9 DEF RequestInv

LEMMA WorkOK ==
    ASSUME RequestInv, Work
    PROVE  RequestInv'
<1>1. CASE Ask
  <2>1. CASE Serving("specialist")
    <3>1. agent.pc = "off" /\ UNCHANGED <<orch, workflow, request, saved>>
          /\ \E name \in Agents : Handle(name, 0)
      BY <1>1, <2>1 DEF Ask, Serving
    <3>2. QED
      BY <2>1, <3>1, AskSpecialistOK
  <2>2. CASE ~Serving("specialist")
    BY <1>1, <2>2, AskOrchestratorOK DEF Ask
  <2>3. QED
    BY <2>1, <2>2
<1>2. CASE request.pc = "running" /\ OrchStep /\ UNCHANGED <<workflow, request, saved>>
  BY <1>2, OrchStepOK
<1>3. CASE request.pc = "running" /\ AgentStep /\ UNCHANGED <<orch, workflow, request, saved>>
  BY <1>3, AgentStepOK
<1>4. QED
  BY <1>1, <1>2, <1>3, ReturnsOK, BrokenOK, CommitOK, RollBackOK DEF Work

LEMMA RequestStepOK == RequestInv /\ [RequestNext]_requestVars => RequestInv'
<1> SUFFICES ASSUME RequestInv, [RequestNext]_requestVars PROVE RequestInv'
  OBVIOUS
<1>1. CASE Trigger \/ TriggerWorkflow
  <2>1. /\ request.pc = "idle" /\ workflow' \in {workflow, "running"}
        /\ UNCHANGED <<agentVars, orch, saved>>
        /\ \E kind \in {"specialist", "orchestrator"} :
             request' = [NoRequest EXCEPT !.pc = "running", !.kind = kind]
    BY <1>1 DEF Trigger, TriggerWorkflow
  <2>2. QED
    BY <2>1, TriggerOK
<1>2. CASE UNCHANGED requestVars
  <2>1. /\ runs' = runs /\ approvals' = approvals /\ session' = session /\ agent' = agent
        /\ orch' = orch /\ workflow' = workflow /\ request' = request /\ saved' = saved
    BY <1>2 DEF requestVars, agentVars
  <2>2. AgentOK' /\ OrchOK' /\ RequestOK'
    BY <2>1 DEF RequestInv, AgentOK, OrchOK, RequestOK, Floor, Failure
  <2>3. LiveOK'
    BY <2>1 DEF RequestInv, LiveOK, Rooted, Unfinished, NoneLeft, Open, Checkpoint, Held, Busy,
                HasProposal, Failure
  <2>4. SavedOK'
    BY <2>1 DEF RequestInv, SavedOK, Rooted, Unfinished, NoneLeft, Open, Checkpoint,
                HasProposal, Failure
  <2>5. QED
    BY <2>2, <2>3, <2>4 DEF RequestInv
<1>3. CASE ToolWork
  BY <1>3, AgentStepOK DEF ToolWork
<1>4. CASE Resume
  BY <1>4, ResumeOK, ResumeUnrecordedOK DEF Resume
<1>5. QED
  BY <1>1, <1>2, <1>3, <1>4, DashboardOK, BrokenOK, WorkOK, ResumeFailsOK, DecideOnDashboardOK
  DEF RequestNext

-----------------------------------------------------------------------------
(* What follows from the invariant *)

LEMMA TypedRequests == RequestInv => TypeOK
<1> SUFFICES ASSUME RequestInv PROVE TypeOK
  OBVIOUS
<1>1. /\ runs \in Seq(RunRows) /\ saved.runs \in Seq(RunRows)
      /\ approvals \in Seq(ApprovalRows) /\ saved.approvals \in Seq(ApprovalRows)
      /\ session \in {"clean", "poisoned"}
      /\ {workflow, saved.workflow} \subseteq {"none", "running", "completed"}
  BY DEF RequestInv, LiveOK, SavedOK, Rooted, RequestOK
<1>2. /\ agent.iterations \in 0 .. MaxIterations /\ agent.calls \in 0 .. MaxCalls
      /\ orch.required \cup orch.invoked \subseteq Agents
      /\ orch.remaining \in 0 .. MaxDelegations /\ orch.attempt \in 0 .. MaxRetries + 1
  BY DEF RequestInv, AgentOK, AgentRecords, OrchOK, OrchRecords
<1>3. /\ DOMAIN runs = 1 .. Len(runs) /\ DOMAIN approvals = 1 .. Len(approvals)
      /\ Len(runs) \in Nat /\ Len(approvals) \in Nat
  BY <1>1, LenProperties
<1>4. agent.proposal \in 0 .. Len(approvals) /\ agent.run \in 0 .. Len(runs)
  <2>1. CASE agent.pc = "off"
    BY <1>3, <2>1 DEF RequestInv, AgentOK, Off
  <2>2. CASE agent.pc # "off"
    BY <1>3, <2>2 DEF RequestInv, AgentOK
  <2>3. QED
    BY <2>1, <2>2
<1>5. QED
  BY <1>1, <1>2, <1>4 DEF TypeOK

LEMMA FloorKept == RequestInv => CompletenessFloor
BY DEF RequestInv, OrchOK, Floor, CompletenessFloor

LEMMA Accounted == RequestInv => ProposalsAccountedFor
<1> SUFFICES ASSUME RequestInv, NEW a \in DOMAIN saved.approvals,
                    Open(saved.runs, saved.approvals, a)
             PROVE  saved.runs[saved.runs[saved.approvals[a].run].parent].status # "completed"
  BY DEF ProposalsAccountedFor, Open
<1>1. saved.approvals[a].run \in DOMAIN saved.runs
  BY DEF RequestInv, SavedOK, Rooted
<1>2. saved.runs[saved.approvals[a].run].parent = orch.run
  BY <1>1 DEF RequestInv, SavedOK, Rooted, Open
<1>3. QED
  BY <1>2 DEF RequestInv, SavedOK, NoneLeft

LEMMA Settled == RequestInv => CommittedTrailIsSettled
<1> SUFFICES ASSUME RequestInv PROVE CommittedTrailIsSettled
  OBVIOUS
<1>1. ASSUME NEW r \in DOMAIN saved.runs, saved.runs[r].status = "running"
      PROVE  /\ saved.runs[r].agent = "orchestrator"
             /\ \E c \in DOMAIN saved.runs :
                  /\ saved.runs[c].parent = r /\ saved.runs[c].status = "completed"
                  /\ saved.runs[c].proposed
  BY <1>1 DEF RequestInv, SavedOK, Rooted, HasProposal
<1>2. Failure(saved.runs) => Errors # {}
  BY DEF Failure, Errors
<1>3. QED
  BY <1>1, <1>2 DEF RequestInv, SavedOK, CommittedTrailIsSettled
=============================================================================

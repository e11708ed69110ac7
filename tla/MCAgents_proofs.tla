-------------------------- MODULE MCAgents_proofs ---------------------------
(***************************************************************************)
(* What the parts of MCAgents promise, of the whole: whichever of the      *)
(* three a process is, the others do not move.  The planning tools answer  *)
(* one question, so what is proved of their arithmetic holds for every     *)
(* quantity and every setting.                                             *)
(***************************************************************************)
EXTENDS MCAgents, AgentRequests_proofs

-----------------------------------------------------------------------------
(* Planning *)

\* A recommendation is the larger of nothing and what is missing.
LEMMA MaxOfPair ==
    ASSUME NEW a \in Int, NEW b \in Int
    PROVE  Max({a, b}) = IF a >= b THEN a ELSE b
<1> DEFINE m == IF a >= b THEN a ELSE b
<1>1. m \in {a, b} /\ \A y \in {a, b} : m >= y
  OBVIOUS
<1>2. \A x \in {a, b} : (\A y \in {a, b} : x >= y) => x = m
  OBVIOUS
<1>3. QED
  BY <1>1, <1>2 DEF Max

\* Rounding up: enough people for every group of covers, and none to spare.
LEMMA RoundedUp ==
    ASSUME NEW c \in Nat, NEW d \in Nat \ {0}
    PROVE  LET q == (c + d - 1) \div d
           IN  q \in Nat /\ q * d >= c /\ (q - 1) * d < c
<1> DEFINE q == (c + d - 1) \div d
<1>1. c + d - 1 \in Nat
  OBVIOUS
<1>2. q \in Nat /\ d * q <= c + d - 1 /\ c + d - 1 < d * (q + 1)
  BY <1>1
<1> HIDE DEF q
<1>3. q * d >= c /\ (q - 1) * d < c
  BY <1>2
<1>4. QED
  BY <1>2, <1>3 DEF q

LEMMA StockPlansSuffice ==
    ASSUME asked \in StockQuestions
    PROVE  /\ Flagged([asked EXCEPT !.on_hand = @ + Reorder(asked)])
                => asked.threshold = 0 /\ asked.on_hand = 0
           /\ \/ Projected(asked) + Required(asked) > asked.threshold * LookbackDays
              \/ asked.threshold = 0
           /\ Required(asked) >= Reorder(asked) * LookbackDays
           /\ asked.amount <= 2 * asked.threshold => Shortfall(asked) <= Reorder(asked)
<1> DEFINE h == asked.on_hand
           t == asked.threshold
           n == asked.amount
           L == LookbackDays
           used == n * asked.days
<1>1. /\ h \in Nat /\ t \in Nat /\ n \in Nat /\ asked.days \in Nat /\ L \in Nat \ {0}
      /\ asked = [on_hand |-> h, threshold |-> t, amount |-> n, days |-> asked.days]
  BY PlanningAssumption DEF StockQuestions, Quantities
<1>2. used \in Nat /\ h * L \in Nat /\ t * L \in Nat /\ 2 * t * L = 2 * (t * L)
  BY <1>1
<1>3. Reorder(asked) = IF 2 * t >= h THEN 2 * t - h ELSE 0
  <2>1. 2 * t - h \in Int
    BY <1>1
  <2>2. Max({0, 2 * t - h}) = IF 0 >= 2 * t - h THEN 0 ELSE 2 * t - h
    BY <2>1, MaxOfPair
  <2>3. QED
    BY <1>1, <2>2 DEF Reorder, TargetQuantity
<1>4. Shortfall(asked) = IF n >= h THEN n - h ELSE 0
  <2>1. n - h \in Int
    BY <1>1
  <2>2. Max({0, n - h}) = IF 0 >= n - h THEN 0 ELSE n - h
    BY <2>1, MaxOfPair
  <2>3. QED
    BY <1>1, <2>2 DEF Shortfall
<1>5. Projected(asked) = h * L - used
  BY DEF Projected
<1>6. Required(asked) = IF 2 * (t * L) >= h * L - used THEN 2 * (t * L) - (h * L - used) ELSE 0
  <2> DEFINE missing == 2 * t * L - Projected(asked)
  <2>1. missing \in Int /\ missing = 2 * (t * L) - (h * L - used)
    BY <1>2, <1>5
  <2>2. Max({0, missing}) = IF 0 >= missing THEN 0 ELSE missing
    BY <2>1, MaxOfPair
  <2>3. Required(asked) = Max({0, missing})
    BY DEF Required, TargetQuantity
  <2> HIDE DEF missing
  <2>4. QED
    BY <1>2, <2>1, <2>2, <2>3
<1>7. Flagged([asked EXCEPT !.on_hand = @ + Reorder(asked)]) => t = 0 /\ h = 0
  <2>1. [asked EXCEPT !.on_hand = @ + Reorder(asked)].on_hand = h + Reorder(asked)
        /\ [asked EXCEPT !.on_hand = @ + Reorder(asked)].threshold = t
    BY <1>1
  <2>2. QED
    BY <1>1, <1>3, <2>1 DEF Flagged, Classify
<1>8. t # 0 => t * L > 0
  BY <1>1
<1>9. Projected(asked) + Required(asked) > t * L \/ t = 0
  BY <1>2, <1>5, <1>6, <1>8
<1>10. Required(asked) >= Reorder(asked) * L
  <2>1. CASE 2 * t >= h
    <3>1. (2 * t - h) * L = 2 * (t * L) - h * L
      BY <1>1
    <3>2. (2 * t - h) * L >= 0
      BY <1>1, <2>1
    <3>3. QED
      BY <1>2, <1>3, <1>6, <2>1, <3>1, <3>2
  <2>2. CASE ~(2 * t >= h)
    BY <1>1, <1>2, <1>3, <1>6, <2>2
  <2>3. QED
    BY <2>1, <2>2
<1>11. n <= 2 * t => Shortfall(asked) <= Reorder(asked)
  BY <1>1, <1>3, <1>4
<1>12. QED
  BY <1>7, <1>9, <1>10, <1>11

LEMMA StaffPlansSuffice ==
    ASSUME asked \in StaffQuestions
    PROVE  LET people == StaffNeeded(asked.covers, asked.each)
           IN  /\ people * asked.each >= asked.covers
               /\ people > MinimumStaff => (people - 1) * asked.each < asked.covers
<1> DEFINE c == asked.covers
           d == asked.each
           q == (c + d - 1) \div d
<1>1. c \in Nat /\ d \in Nat \ {0} /\ MinimumStaff \in Nat
  BY PlanningAssumption DEF StaffQuestions, Quantities
<1>2. q \in Nat /\ q * d >= c /\ (q - 1) * d < c
  BY <1>1, RoundedUp
<1>3. StaffNeeded(c, d) = Max({MinimumStaff, q})
  BY DEF StaffNeeded
<1> HIDE DEF q
<1>6. StaffNeeded(c, d) = IF MinimumStaff >= q THEN MinimumStaff ELSE q
  BY <1>1, <1>2, <1>3, MaxOfPair
<1>4. MinimumStaff >= q => MinimumStaff * d >= q * d
  BY <1>1, <1>2
<1>5. QED
  BY <1>1, <1>2, <1>4, <1>6

LEMMA Questions == Init => PlansSuffice
<1>1. NoQuestion \notin StockQuestions /\ NoQuestion \notin StaffQuestions
  BY DEF NoQuestion, StockQuestions, StaffQuestions
<1>2. asked \in StockQuestions => asked \notin StaffQuestions
  BY DEF StockQuestions, StaffQuestions
<1>3. QED
  BY <1>1, <1>2, StockPlansSuffice, StaffPlansSuffice DEF PlansSuffice

\* An item ordered as recommended is not flagged again, and the people planned can
\* serve every cover, for every quantity, lookback and minimum.
THEOREM RecommendationsSuffice == Spec => []PlansSuffice
<1>1. PlansSuffice /\ [Next]_vars => PlansSuffice'
  <2> SUFFICES ASSUME PlansSuffice, [Next]_vars PROVE PlansSuffice'
    OBVIOUS
  <2>1. asked' = asked
    BY DEF Next, Serve, Host, vars
  <2>2. QED
    BY <2>1 DEF PlansSuffice, Flagged, Classify, Reorder, TargetQuantity, Projected, Required,
                Shortfall, StaffNeeded
<1>2. QED
  BY <1>1, Questions, PTL DEF Spec

-----------------------------------------------------------------------------
(* The scheduler, for any jobs, any number of calls of start() and any     *)
(* interleaving of them with stop() and the loops.                         *)

LoopsTyped ==
    /\ jobs \subseteq Jobs
    /\ tasks \in [Jobs -> LoopIds \cup {0}]
    /\ loops \in [LoopIds -> [pc : {"none", "sleeping", "running", "ended"},
                              job : Jobs \cup {"none"}, cancelled : BOOLEAN]]
    /\ stop \in {"no", "waiting"} /\ misused \in BOOLEAN

\* Only loops of known jobs live, and what stop() waits for is all there is to wait
\* for: while it gathers, the table is not empty, so that a start() in between is
\* a misuse, and every loop in the table has been cancelled.
Gathered ==
    /\ \A l \in LoopIds : Alive(l) => loops[l].job \in Jobs
    /\ stop = "waiting" => \E j \in Jobs : tasks[j] # 0
    /\ stop = "waiting" /\ ~misused =>
         \A j \in Jobs : tasks[j] # 0 => loops[tasks[j]].cancelled

SchedulerInv == LoopsTyped /\ Gathered /\ OneLoopPerJob

-----------------------------------------------------------------------------
LEMMA NoLoopIsZero == 0 \notin LoopIds
BY DEF LoopIds

LEMMA SchedulerInitOK == SchedulerInit => SchedulerInv
<1> SUFFICES ASSUME SchedulerInit PROVE SchedulerInv
  OBVIOUS
<1>1. LoopsTyped
  <2>1. NoLoop \in [pc : {"none", "sleeping", "running", "ended"},
                    job : Jobs \cup {"none"}, cancelled : BOOLEAN]
    BY DEF NoLoop
  <2>2. QED
    BY <2>1 DEF SchedulerInit, LoopsTyped
<1>2. \A l \in LoopIds : ~Alive(l)
  BY DEF SchedulerInit, Alive, NoLoop
<1>3. Gathered /\ OneLoopPerJob
  BY <1>2 DEF SchedulerInit, Gathered, OneLoopPerJob
<1>4. QED
  BY <1>1, <1>3 DEF SchedulerInv

LEMMA StartOK ==
    ASSUME SchedulerInv, Start
    PROVE  SchedulerInv'
<1> DEFINE fresh == {l \in LoopIds : loops[l].pc = "none"}
<1>1. PICK new \in [jobs -> fresh] :
        /\ \A j, k \in jobs : new[j] = new[k] => j = k
        /\ tasks' = [j \in Jobs |-> IF j \in jobs THEN new[j] ELSE tasks[j]]
        /\ loops' = [l \in LoopIds |->
             IF \E j \in jobs : new[j] = l
             THEN [pc |-> IF RunImmediately THEN "running" ELSE "sleeping",
                   job |-> CHOOSE j \in jobs : new[j] = l, cancelled |-> FALSE]
             ELSE loops[l]]
  BY DEF Start
<1>2. /\ misused' = (misused \/ \E j \in Jobs : tasks[j] # 0)
      /\ UNCHANGED <<jobs, stop>>
  BY DEF Start
<1>3. ASSUME NEW l \in LoopIds, \E j \in jobs : new[j] = l
      PROVE  /\ loops'[l].job \in jobs /\ new[loops'[l].job] = l
             /\ tasks'[loops'[l].job] = l
             /\ loops'[l].pc \in {"sleeping", "running"} /\ loops'[l].cancelled = FALSE
  <2>1. loops'[l] = [pc |-> IF RunImmediately THEN "running" ELSE "sleeping",
                     job |-> CHOOSE j \in jobs : new[j] = l, cancelled |-> FALSE]
    BY <1>1, <1>3
  <2>2. (CHOOSE j \in jobs : new[j] = l) \in jobs /\ new[CHOOSE j \in jobs : new[j] = l] = l
    BY <1>3
  <2>3. QED
    BY <1>1, <2>1, <2>2 DEF SchedulerInv, LoopsTyped
<1>4. ASSUME NEW l \in LoopIds, ~\E j \in jobs : new[j] = l
      PROVE  loops'[l] = loops[l]
  BY <1>1, <1>4
<1>5. LoopsTyped'
  <2>1. tasks' \in [Jobs -> LoopIds \cup {0}]
    BY <1>1 DEF SchedulerInv, LoopsTyped
  <2>2. ASSUME NEW l \in LoopIds
        PROVE  loops'[l] \in [pc : {"none", "sleeping", "running", "ended"},
                              job : Jobs \cup {"none"}, cancelled : BOOLEAN]
    <3>1. CASE \E j \in jobs : new[j] = l
      <4>1. loops'[l] = [pc |-> IF RunImmediately THEN "running" ELSE "sleeping",
                         job |-> CHOOSE j \in jobs : new[j] = l, cancelled |-> FALSE]
        BY <1>1, <3>1
      <4>2. (CHOOSE j \in jobs : new[j] = l) \in Jobs
        BY <3>1 DEF SchedulerInv, LoopsTyped
      <4>3. QED
        BY <4>1, <4>2
    <3>2. CASE ~\E j \in jobs : new[j] = l
      BY <1>4, <3>2 DEF SchedulerInv, LoopsTyped
    <3>3. QED
      BY <3>1, <3>2
  <2>3. loops' \in [LoopIds -> [pc : {"none", "sleeping", "running", "ended"},
                                job : Jobs \cup {"none"}, cancelled : BOOLEAN]]
    BY <1>1, <2>2
  <2>4. QED
    BY <1>2, <2>1, <2>3 DEF SchedulerInv, LoopsTyped
<1>6. Gathered'
  <2>1. ASSUME NEW l \in LoopIds, Alive(l)' PROVE loops'[l].job \in Jobs
    BY <1>3, <1>4, <2>1 DEF SchedulerInv, LoopsTyped, Gathered, Alive
  <2>2. stop' = "waiting" => (\E j \in Jobs : tasks[j] # 0) /\ misused'
    BY <1>2 DEF SchedulerInv, Gathered
  <2>3. \A j \in Jobs : tasks[j] # 0 => tasks'[j] # 0
    BY <1>1, NoLoopIsZero DEF SchedulerInv, LoopsTyped
  <2>4. QED
    BY <2>1, <2>2, <2>3 DEF Gathered, Alive
<1>7. OneLoopPerJob'
  <2>1. SUFFICES ASSUME ~misused', NEW l \in LoopIds, Alive(l)'
                 PROVE  tasks'[loops'[l].job] = l
    BY DEF OneLoopPerJob, Alive
  <2>2. \A j \in Jobs : tasks[j] = 0
    BY <1>2, <2>1
  <2>3. ~misused /\ ~Alive(l)
    BY <1>2, <2>1, <2>2, NoLoopIsZero DEF SchedulerInv, OneLoopPerJob, Gathered, LoopsTyped
  <2>4. QED
    BY <1>3, <1>4, <2>1, <2>3 DEF Alive
<1>8. QED
  BY <1>5, <1>6, <1>7 DEF SchedulerInv

\* A step of the loop l, which does not wake the dead.
LEMMA OneStepOK ==
    ASSUME SchedulerInv, NEW l \in LoopIds, NEW pc \in {"sleeping", "running", "ended"}, Alive(l),
           loops' = [loops EXCEPT ![l].pc = pc], UNCHANGED <<jobs, tasks, stop, misused>>
    PROVE  SchedulerInv'
<1>1. \A k \in LoopIds : /\ loops'[k].job = loops[k].job /\ loops'[k].cancelled = loops[k].cancelled
                         /\ Alive(k)' => Alive(k)
  BY DEF SchedulerInv, LoopsTyped, Alive
<1>2. LoopsTyped'
  BY DEF SchedulerInv, LoopsTyped
<1>3. Gathered' /\ OneLoopPerJob'
  BY <1>1 DEF SchedulerInv, LoopsTyped, Gathered, OneLoopPerJob
<1>4. QED
  BY <1>2, <1>3 DEF SchedulerInv

LEMMA LoopStepOK ==
    ASSUME SchedulerInv, NEW l \in LoopIds, LoopStep(l)
    PROVE  SchedulerInv'
<1>1. Alive(l) /\ UNCHANGED <<jobs, tasks, stop, misused>>
  BY DEF LoopStep, Unwind, JobReturns, JobRaises, Tick, Alive
<1>2. \E pc \in {"sleeping", "running", "ended"} : loops' = [loops EXCEPT ![l].pc = pc]
  BY DEF LoopStep, Unwind, JobReturns, JobRaises, Tick
<1>3. QED
  BY <1>1, <1>2, OneStepOK

LEMMA StopOK ==
    ASSUME SchedulerInv, Stop
    PROVE  SchedulerInv'
<1>1. \A l \in LoopIds : /\ loops'[l].job = loops[l].job /\ loops'[l].pc = loops[l].pc
                         /\ loops'[l].cancelled = (loops[l].cancelled \/ \E j \in Jobs : tasks[j] = l)
                         /\ Alive(l)' = Alive(l)
  BY DEF Stop, SchedulerInv, LoopsTyped, Alive
<1>2. LoopsTyped'
  BY DEF Stop, SchedulerInv, LoopsTyped
<1>3. UNCHANGED <<jobs, tasks, misused>> /\ \E j \in Jobs : tasks[j] # 0
  BY DEF Stop
<1>4. Gathered'
  <2>1. \A l \in LoopIds : Alive(l)' => loops'[l].job \in Jobs
    BY <1>1 DEF SchedulerInv, Gathered
  <2>2. ASSUME NEW j \in Jobs, tasks[j] # 0 PROVE loops'[tasks[j]].cancelled
    <3>1. tasks[j] \in LoopIds
      BY <2>2 DEF SchedulerInv, LoopsTyped
    <3>2. QED
      BY <1>1, <3>1
  <2>3. QED
    BY <1>3, <2>1, <2>2 DEF Gathered, Alive
<1>5. OneLoopPerJob'
  BY <1>1, <1>3 DEF SchedulerInv, OneLoopPerJob
<1>6. QED
  BY <1>2, <1>4, <1>5 DEF SchedulerInv

\* The heart of the matter: when the table is cleared, nothing it knew still lives,
\* and it knew every loop.
LEMMA StopReturnsOK ==
    ASSUME SchedulerInv, StopReturns
    PROVE  SchedulerInv'
<1>1. LoopsTyped'
  BY DEF StopReturns, SchedulerInv, LoopsTyped
<1>2. Gathered'
  BY DEF StopReturns, SchedulerInv, Gathered, Alive
<1>3. ASSUME ~misused, NEW l \in LoopIds PROVE ~Alive(l)
  <2>1. SUFFICES ASSUME Alive(l) PROVE FALSE
    OBVIOUS
  <2>2. tasks[loops[l].job] = l /\ loops[l].job \in Jobs
    BY <1>3, <2>1 DEF SchedulerInv, OneLoopPerJob, Gathered
  <2>3. loops[l].cancelled
    BY <1>3, <2>2, NoLoopIsZero DEF StopReturns, SchedulerInv, Gathered
  <2>4. QED
    BY <2>1, <2>3 DEF StopReturns
<1>4. OneLoopPerJob'
  BY <1>3 DEF StopReturns, OneLoopPerJob, Alive
<1>5. QED
  BY <1>1, <1>2, <1>4 DEF SchedulerInv

LEMMA SchedulerStepOK == SchedulerInv /\ [SchedulerNext]_schedulerVars => SchedulerInv'
<1> SUFFICES ASSUME SchedulerInv, [SchedulerNext]_schedulerVars PROVE SchedulerInv'
  OBVIOUS
<1>1. ASSUME NEW j \in Jobs, Register(j) PROVE SchedulerInv'
  BY <1>1 DEF Register, SchedulerInv, LoopsTyped, Gathered, OneLoopPerJob, Alive
<1>2. CASE Start
  BY <1>2, StartOK
<1>3. CASE Stop
  BY <1>3, StopOK
<1>4. CASE StopReturns
  BY <1>4, StopReturnsOK
<1>5. ASSUME NEW l \in LoopIds, LoopStep(l) PROVE SchedulerInv'
  BY <1>5, LoopStepOK
<1>6. CASE UNCHANGED schedulerVars
  BY <1>6 DEF schedulerVars, SchedulerInv, LoopsTyped, Gathered, OneLoopPerJob, Alive
<1>7. QED
  BY <1>1, <1>2, <1>3, <1>4, <1>5, <1>6 DEF SchedulerNext

\* "Cancel all running jobs and wait for them to unwind cleanly": unless start() is
\* called while there are tasks, a job has one loop at most and its task knows it,
\* for any jobs and any number of starts and stops.
THEOREM OneLoopEach == SchedulerSpec => []OneLoopPerJob
<1>1. SchedulerInv => OneLoopPerJob
  BY DEF SchedulerInv
<1>2. QED
  BY <1>1, SchedulerInitOK, SchedulerStepOK, PTL DEF SchedulerSpec

\* A job has one loop at most, and its task knows it, in the process that hosts the
\* scheduler.
THEOREM OneLoopInTheHost == Spec => []OneLoopPerJob
<1>1. Init => SchedulerInv
  BY SchedulerInitOK DEF Init
<1>2. SchedulerInv /\ [Next]_vars => SchedulerInv'
  <2>1. [Next]_vars => [SchedulerNext]_schedulerVars
    BY DEF Next, Serve, Host, vars
  <2>2. QED
    BY <2>1, SchedulerStepOK
<1>3. SchedulerInv => OneLoopPerJob
  BY DEF SchedulerInv
<1>4. QED
  BY <1>1, <1>2, <1>3, PTL DEF Spec

-----------------------------------------------------------------------------
(* The requests *)

LEMMA RequestsInTheServer == Spec => []RequestInv
<1>1. Init => RequestInv
  BY RequestInitOK DEF Init
<1>2. RequestInv /\ [Next]_vars => RequestInv'
  <2>1. [Next]_vars => [RequestNext]_requestVars
    BY DEF Next, Serve, Host, vars
  <2>2. QED
    BY <2>1, RequestStepOK
<1>3. QED
  BY <1>1, <1>2, PTL DEF Spec

\* The trail, the approvals and the counters of the loops are what the code takes
\* them for, for any agents, budgets and number of resumptions.
THEOREM RequestsTyped == Spec => []TypeOK
BY RequestsInTheServer, TypedRequests, PTL

\* identify_scope's promise: "completed" is answered only when every required domain
\* has been asked or the delegation budget is spent, whatever failed, paused or was
\* rolled back on the way.
THEOREM FloorBeforeCompletion == Spec => []CompletenessFloor
BY RequestsInTheServer, FloorKept, PTL

\* "A pending_approval result is never retried" and always pauses: a committed,
\* completed run of the orchestrator has left no proposal behind but those its agent
\* buried or failed over.
THEOREM NoProposalLeftBehind == Spec => []ProposalsAccountedFor
BY RequestsInTheServer, Accounted, PTL

\* complete_run() is best effort, and still what is committed as "running" is a run
\* of the orchestrator that paused over what one of its specialists answered, a
\* proposal of its own or one handed back to it, and a workflow run shows its
\* agent's error.
THEOREM TrailIsSettled == Spec => []CommittedTrailIsSettled
BY RequestsInTheServer, Settled, PTL
=============================================================================

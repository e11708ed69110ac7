----------------------------- MODULE Scheduler ------------------------------
(***************************************************************************)
(* AsyncIOScheduler (app/workflows/scheduler.py): one asyncio task per     *)
(* registered job, which runs the job and sleeps, for ever.  The jobs are  *)
(* those of app/workflows/background_registry.py; one of them ends or      *)
(* raises, and what it does is the business of AgentRequests.              *)
(***************************************************************************)
EXTENDS Naturals, FiniteSets

CONSTANTS
    Jobs,           \* the job ids that get registered
    MaxStarts,      \* bound: calls of start()
    RunImmediately

VARIABLES
    jobs,     \* _jobs: the registered ones
    tasks,    \* _tasks[j]: the loop that job j's task runs, or 0
    loops,    \* loops[l]: every loop that was created
    stop,     \* "no", or "waiting" while stop() gathers the tasks it cancelled
    misused   \* history: start() was called while there were tasks already

schedulerVars == <<jobs, tasks, loops, stop, misused>>

LoopIds == 1 .. MaxStarts * Cardinality(Jobs)
NoLoop == [pc |-> "none",      \* "sleeping", "running" or "ended"
           job |-> "none", cancelled |-> FALSE]

SchedulerInit ==
    /\ jobs = {} /\ tasks = [j \in Jobs |-> 0] /\ loops = [l \in LoopIds |-> NoLoop]
    /\ stop = "no" /\ misused = FALSE

Alive(l) == loops[l].pc \in {"sleeping", "running"}

\* A second registration under the same id is refused.
Register(j) ==
    /\ j \notin jobs
    /\ jobs' = jobs \cup {j}
    /\ UNCHANGED <<tasks, loops, stop, misused>>

\* start(): a new task for every job, whatever tasks there are already.
Start ==
    LET fresh == {l \in LoopIds : loops[l].pc = "none"}
    IN  /\ Cardinality(jobs) <= Cardinality(fresh)
        /\ \E new \in [jobs -> fresh] :
             /\ \A j, k \in jobs : new[j] = new[k] => j = k
             /\ tasks' = [j \in Jobs |-> IF j \in jobs THEN new[j] ELSE tasks[j]]
             /\ loops' = [l \in LoopIds |->
                  IF \E j \in jobs : new[j] = l
                  THEN [pc |-> IF RunImmediately THEN "running" ELSE "sleeping",
                        job |-> CHOOSE j \in jobs : new[j] = l, cancelled |-> FALSE]
                  ELSE loops[l]]
        /\ misused' = (misused \/ \E j \in Jobs : tasks[j] # 0)
        /\ UNCHANGED <<jobs, stop>>

\* stop() cancels the tasks it knows and waits for them; without any it returns at
\* once. Bound: it is not called again while it waits.
Stop ==
    /\ stop = "no" /\ \E j \in Jobs : tasks[j] # 0
    /\ stop' = "waiting"
    /\ loops' = [l \in LoopIds |->
         [loops[l] EXCEPT !.cancelled = @ \/ \E j \in Jobs : tasks[j] = l]]
    /\ UNCHANGED <<jobs, tasks, misused>>

\* Mutant: stop() does not wait.
StopReturnsAtOnce ==
    /\ stop = "waiting"
    /\ stop' = "no"
    /\ tasks' = [j \in Jobs |-> 0]
    /\ UNCHANGED <<jobs, loops, misused>>

\* The loops it cancelled have ended, and _tasks is cleared.
StopReturns ==
    /\ stop = "waiting"
    /\ \A l \in LoopIds : loops[l].cancelled => ~Alive(l)
    /\ stop' = "no"
    /\ tasks' = [j \in Jobs |-> 0]
    /\ UNCHANGED <<jobs, loops, misused>>

\* A cancelled task gets CancelledError at its next step, in the job or asleep.
Unwind(l) ==
    /\ Alive(l) /\ loops[l].cancelled
    /\ loops' = [loops EXCEPT ![l].pc = "ended"]
    /\ UNCHANGED <<jobs, tasks, stop, misused>>

JobReturns(l) ==
    /\ loops[l].pc = "running" /\ ~loops[l].cancelled
    /\ loops' = [loops EXCEPT ![l].pc = "sleeping"]
    /\ UNCHANGED <<jobs, tasks, stop, misused>>

\* Mutant: the exception leaves the loop.
JobRaisesOut(l) ==
    /\ loops[l].pc = "running" /\ ~loops[l].cancelled
    /\ loops' = [loops EXCEPT ![l].pc = "ended"]
    /\ UNCHANGED <<jobs, tasks, stop, misused>>

\* An exception of the job is logged, and the loop sleeps as usual.
JobRaises(l) ==
    /\ loops[l].pc = "running" /\ ~loops[l].cancelled
    /\ loops' = [loops EXCEPT ![l].pc = "sleeping"]
    /\ UNCHANGED <<jobs, tasks, stop, misused>>

\* The interval is over.
Tick(l) ==
    /\ loops[l].pc = "sleeping" /\ ~loops[l].cancelled
    /\ loops' = [loops EXCEPT ![l].pc = "running"]
    /\ UNCHANGED <<jobs, tasks, stop, misused>>

LoopStep(l) == Unwind(l) \/ JobReturns(l) \/ JobRaises(l) \/ Tick(l)

SchedulerNext ==
    \/ \E j \in Jobs : Register(j)
    \/ Start \/ Stop \/ StopReturns
    \/ \E l \in LoopIds : LoopStep(l)

SchedulerSpec == SchedulerInit /\ [][SchedulerNext]_schedulerVars

SchedulerFairness == WF_schedulerVars(StopReturns) /\ \A l \in LoopIds : WF_schedulerVars(LoopStep(l))

-----------------------------------------------------------------------------
(* Properties *)

\* "Cancel all running jobs and wait for them to unwind cleanly": a job has one
\* loop at most, which its task knows and stop() can therefore reach, so that it
\* never overlaps itself and never outlives the scheduler, unless start() was
\* called while there were tasks, those that stop() was still gathering included.
OneLoopPerJob ==
    ~misused => \A l \in LoopIds : Alive(l) => tasks[loops[l].job] = l

\* "one bad tick must never kill the whole scheduler loop": a loop that nobody
\* cancels runs its job again and again, whatever the job raises.
KeepsTicking ==
    \A l \in LoopIds : []<>(loops[l].pc \in {"none", "running"} \/ loops[l].cancelled)
=============================================================================

----------------------------- MODULE ThreadPool -----------------------------
(***************************************************************************)
(* The pool of long lived threads of one MPI process: BaseThread           *)
(* (RmgLib/src/BaseThread.cpp) with the task queues and the thread         *)
(* function of RMG/Common/RmgThread.cpp.                                   *)
(*                                                                         *)
(* The main program queues tasks, one round after another (a round is one  *)
(* task for each of the active threads), then run_thread_tasks wakes the   *)
(* threads and waits until the counter jobs is zero.  A thread takes tasks *)
(* from its own queue and goes to sleep when it finds none.  thread_mutex  *)
(* protects jobs and the two condition variables, so what happens under it *)
(* is one step; the queues, in_threaded_region and the barrier are used    *)
(* without it, so each of those accesses is a step of its own.             *)
(*                                                                         *)
(* The work of a task is abstracted to the one thing it does to the rest   *)
(* of the pool: it meets the other active threads at the barrier.          *)
(***************************************************************************)
EXTENDS Naturals, Sequences, FiniteSets

CONSTANTS
    THREADS_PER_NODE,
    MaxRegions,         \* bound: calls of run_thread_tasks before the last
    MaxRounds,          \* bound: rounds queued between two such calls
    ParkedAtStart       \* have all threads gone to sleep when main goes on?

ASSUME ThreadsAssumption == THREADS_PER_NODE \in Nat \ {0}
ASSUME BoundsAssumption == MaxRegions \in Nat /\ MaxRounds \in Nat
ASSUME ParkedAssumption == ParkedAtStart \in BOOLEAN

Threads == 0..(THREADS_PER_NODE - 1)
Jobs == {"work", "HYBRID_SKIP", "HYBRID_THREAD_EXIT"}

VARIABLES
    \* main
    mainPc,         \* where the main program is
    active,         \* active_threads of the rounds being queued
    ist,            \* next thread to get its task of the round
    job,            \* what the tasks of the round are
    rounds,         \* rounds queued since the last region
    regions,        \* regions run
    \* shared
    Tasks,          \* per thread: the tasks queued
    jobs,           \* threads that have yet to finish the region
    in_threaded_region,
    barrier,        \* threads the current barrier waits for; 0: deleted
    \* threads
    pc              \* per thread: where it is

mainVars == <<mainPc, active, ist, job, rounds, regions>>
vars == <<mainVars, Tasks, jobs, in_threaded_region, barrier, pc>>

TypeOK ==
    /\ mainPc \in {"idle", "queue", "new_barrier", "wake", "wait", "join", "done"}
    /\ active \in 1..THREADS_PER_NODE
    /\ ist \in 0..THREADS_PER_NODE
    /\ job \in Jobs
    /\ rounds \in 0..MaxRounds
    /\ regions \in 0..(MaxRegions + 1)
    /\ Tasks \in [Threads -> Seq(Jobs)]
    /\ jobs \in 0..THREADS_PER_NODE
    /\ in_threaded_region \in BOOLEAN
    /\ barrier \in 0..THREADS_PER_NODE
    /\ pc \in [Threads -> {"pop", "work", "meet", "meeting", "leaving",
                           "sleep", "asleep", "exit", "gone"}]

\* RegisterThreadFunction has made the threads; ParkedAtStart says whether they
\* have all found their queues empty and gone to sleep by now.
Init ==
    /\ mainPc = "idle"
    /\ active = THREADS_PER_NODE
    /\ ist = 0
    /\ job = "HYBRID_SKIP"
    /\ rounds = 0
    /\ regions = 0
    /\ Tasks = [t \in Threads |-> <<>>]
    /\ jobs = 0
    /\ in_threaded_region = FALSE
    /\ barrier = 0
    /\ pc = [t \in Threads |-> IF ParkedAtStart THEN "asleep" ELSE "pop"]
-----------------------------------------------------------------------------
(* Mutations: what a slip in the code would make of an action.  No           *)
(* specification uses them; they show that the properties can fail.          *)

\* jobs is set to the number of tasks queued, not to the number of threads
WakeCountsActiveOnly ==
    /\ mainPc = "wake"
    /\ in_threaded_region' = TRUE
    /\ jobs' = active
    /\ pc' = [t \in Threads |-> IF pc[t] = "asleep" THEN "pop" ELSE pc[t]]
    /\ mainPc' = "wait"
    /\ UNCHANGED <<active, ist, job, rounds, regions, Tasks, barrier>>

\* main counts itself, too
WakeCountsMain ==
    /\ mainPc = "wake"
    /\ in_threaded_region' = TRUE
    /\ jobs' = THREADS_PER_NODE + 1
    /\ pc' = [t \in Threads |-> IF pc[t] = "asleep" THEN "pop" ELSE pc[t]]
    /\ mainPc' = "wait"
    /\ UNCHANGED <<active, ist, job, rounds, regions, Tasks, barrier>>

\* main takes the first notification for the last one
ReturnTooEarly ==
    /\ mainPc = "wait"
    /\ jobs < THREADS_PER_NODE
    /\ in_threaded_region' = FALSE
    /\ barrier' = 0
    /\ rounds' = 0
    /\ regions' = regions + 1
    /\ mainPc' = IF job = "HYBRID_THREAD_EXIT" THEN "join" ELSE "idle"
    /\ UNCHANGED <<active, ist, job, Tasks, jobs, pc>>

\* the barrier is made for all threads instead of the active ones
BarrierForAll ==
    /\ mainPc = "new_barrier"
    /\ barrier' = THREADS_PER_NODE
    /\ mainPc' = "wake"
    /\ UNCHANGED <<active, ist, job, rounds, regions, Tasks, jobs,
                   in_threaded_region, pc>>

\* a thread goes to sleep after each task, not after the last one
SleepWithoutLooking(t) ==
    /\ pc[t] = "pop"
    /\ pc' = [pc EXCEPT ![t] = "sleep"]
    /\ UNCHANGED <<mainVars, Tasks, jobs, in_threaded_region, barrier>>

\* an exiting thread forgets to count itself
ExitUncounted(t) ==
    /\ pc[t] = "exit"
    /\ pc' = [pc EXCEPT ![t] = "gone"]
    /\ UNCHANGED <<mainVars, Tasks, jobs, in_threaded_region, barrier>>
-----------------------------------------------------------------------------
(* The main program *)

\* Begin to queue a round for n threads.  All rounds of a region are for the
\* same threads.  Skipped rounds are queued by MgridSubspace for states that
\* do not exist.
BeginRound(n, j) ==
    /\ mainPc = "idle"
    /\ regions < MaxRegions
    /\ rounds < MaxRounds
    /\ rounds > 0 => n = active
    /\ active' = n
    /\ job' = j
    /\ ist' = 0
    /\ mainPc' = "queue"
    /\ UNCHANGED <<rounds, regions, Tasks, jobs, in_threaded_region, barrier, pc>>

\* RmgTerminateThreads: the last round tells every thread to exit.  Nothing but
\* rounds to be skipped can be left over from before.
TerminateThreads ==
    /\ mainPc = "idle"
    /\ \A t \in Threads : \A i \in DOMAIN Tasks[t] : Tasks[t][i] = "HYBRID_SKIP"
    /\ active' = THREADS_PER_NODE
    /\ job' = "HYBRID_THREAD_EXIT"
    /\ ist' = 0
    /\ mainPc' = "queue"
    /\ UNCHANGED <<rounds, regions, Tasks, jobs, in_threaded_region, barrier, pc>>

QueueThreadTask ==
    /\ mainPc = "queue"
    /\ ist < active
    /\ Tasks' = [Tasks EXCEPT ![ist] = Append(@, job)]
    /\ ist' = ist + 1
    /\ UNCHANGED <<mainPc, active, job, rounds, regions, jobs,
                   in_threaded_region, barrier, pc>>

\* Without a message queue a region runs after each round; with one, main may
\* queue more rounds first.  A round to be skipped need not be run at all.
EndRound ==
    /\ mainPc = "queue"
    /\ ist = active
    /\ mainPc' = IF job = "HYBRID_THREAD_EXIT" THEN "new_barrier" ELSE "idle"
    /\ rounds' = IF job = "HYBRID_THREAD_EXIT" THEN rounds ELSE rounds + 1
    /\ UNCHANGED <<active, ist, job, regions, Tasks, jobs, in_threaded_region,
                   barrier, pc>>

\* run_thread_tasks(active) begins
RunThreadTasks ==
    /\ mainPc = "idle"
    /\ rounds > 0
    /\ mainPc' = "new_barrier"
    /\ UNCHANGED <<active, ist, job, rounds, regions, Tasks, jobs,
                   in_threaded_region, barrier, pc>>

NewBarrier ==
    /\ mainPc = "new_barrier"
    /\ barrier' = active
    /\ mainPc' = "wake"
    /\ UNCHANGED <<active, ist, job, rounds, regions, Tasks, jobs,
                   in_threaded_region, pc>>

\* Under thread_mutex: set the counter, notify_all, and wait on main_cv.
WakeThreads ==
    /\ mainPc = "wake"
    /\ in_threaded_region' = TRUE
    /\ jobs' = THREADS_PER_NODE
    /\ pc' = [t \in Threads |-> IF pc[t] = "asleep" THEN "pop" ELSE pc[t]]
    /\ mainPc' = "wait"
    /\ UNCHANGED <<active, ist, job, rounds, regions, Tasks, barrier>>

\* main_cv finds jobs = 0
Return ==
    /\ mainPc = "wait"
    /\ jobs = 0
    /\ in_threaded_region' = FALSE
    /\ barrier' = 0
    /\ rounds' = 0
    /\ regions' = regions + 1
    /\ mainPc' = IF job = "HYBRID_THREAD_EXIT" THEN "join" ELSE "idle"
    /\ UNCHANGED <<active, ist, job, Tasks, jobs, pc>>

\* thread_joinall
JoinAll ==
    /\ mainPc = "join"
    /\ \A t \in Threads : pc[t] = "gone"
    /\ mainPc' = "done"
    /\ UNCHANGED <<active, ist, job, rounds, regions, Tasks, jobs,
                   in_threaded_region, barrier, pc>>

MainNext ==
    \/ \E n \in 1..THREADS_PER_NODE, j \in {"work", "HYBRID_SKIP"} : BeginRound(n, j)
    \/ TerminateThreads \/ QueueThreadTask \/ EndRound \/ RunThreadTasks
    \/ NewBarrier \/ WakeThreads \/ Return \/ JoinAll
-----------------------------------------------------------------------------
(* A thread: run_threads *)

\* t goes from one place to another and does nothing else
Goto(t, from, to) ==
    /\ pc[t] = from
    /\ pc' = [pc EXCEPT ![t] = to]

PopThreadTask(t) ==
    /\ Tasks[t] # <<>>
    /\ Tasks' = [Tasks EXCEPT ![t] = Tail(@)]
    /\ \/ Head(Tasks[t]) = "work" /\ Goto(t, "pop", "work")
       \/ Head(Tasks[t]) = "HYBRID_SKIP" /\ Goto(t, "pop", "pop")
       \/ Head(Tasks[t]) = "HYBRID_THREAD_EXIT" /\ Goto(t, "pop", "exit")
    /\ UNCHANGED <<mainVars, jobs, in_threaded_region, barrier>>

FindNoTask(t) ==
    /\ Tasks[t] = <<>>
    /\ Goto(t, "pop", "sleep")
    /\ UNCHANGED <<mainVars, Tasks, jobs, in_threaded_region, barrier>>

\* Both ends of a thread's part in a region: if(jobs > 0) {jobs--; notify main}
DecrementJobs == jobs' = IF jobs > 0 THEN jobs - 1 ELSE jobs

\* thread_sleep, up to the wait.  The wait has no predicate; that it returns only
\* when run_thread_tasks notifies is assumed.
ThreadSleep(t) ==
    /\ Goto(t, "sleep", "asleep")
    /\ DecrementJobs
    /\ UNCHANGED <<mainVars, Tasks, in_threaded_region, barrier>>

ThreadExit(t) ==
    /\ Goto(t, "exit", "gone")
    /\ DecrementJobs
    /\ UNCHANGED <<mainVars, Tasks, in_threaded_region, barrier>>

\* thread_barrier_wait looks at the flag first
EnterBarrier(t) ==
    /\ Goto(t, "work", IF in_threaded_region THEN "meet" ELSE "pop")
    /\ UNCHANGED <<mainVars, Tasks, jobs, in_threaded_region, barrier>>

Meeting == {t \in Threads : pc[t] = "meeting"}

\* The barrier itself, as PhaseBarrier has it: the last of the threads it was
\* made for lets the others go.
Meet(t) ==
    /\ pc[t] = "meet"
    /\ pc' = IF Cardinality(Meeting) + 1 = barrier
             THEN [u \in Threads |-> IF u \in Meeting \cup {t} THEN "leaving" ELSE pc[u]]
             ELSE [pc EXCEPT ![t] = "meeting"]
    /\ UNCHANGED <<mainVars, Tasks, jobs, in_threaded_region, barrier>>

LeaveBarrier(t) ==
    /\ Goto(t, "leaving", "pop")
    /\ UNCHANGED <<mainVars, Tasks, jobs, in_threaded_region, barrier>>

ThreadNext(t) ==
    \/ PopThreadTask(t) \/ FindNoTask(t) \/ ThreadSleep(t) \/ ThreadExit(t)
    \/ EnterBarrier(t) \/ Meet(t) \/ LeaveBarrier(t)

Finished == mainPc = "done" /\ UNCHANGED vars

Next == \/ MainNext
        \/ \E t \in Threads : ThreadNext(t)
        \/ Finished

Spec == Init /\ [][Next]_vars

\* Every thread runs, and so does main, which ends its computation some day.
FairSpec == /\ Spec
            /\ WF_vars(MainNext)
            /\ \A t \in Threads : WF_vars(ThreadNext(t))
-----------------------------------------------------------------------------
(* Properties *)

Busy(t) == pc[t] \notin {"asleep", "gone"}

\* jobs is what it is meant to be: the number of threads that have yet to
\* finish the region, each counted down exactly once.
JobsCountsBusy ==
    mainPc = "wait" => jobs = Cardinality({t \in Threads : Busy(t)})

\* Outside a region nobody runs, so main may use what the tasks use.
QuietOutside == mainPc # "wait" => \A t \in Threads : ~ Busy(t)

\* Nobody is in a barrier that main has deleted.
BarrierLives ==
    \A t \in Threads : pc[t] \in {"meet", "meeting", "leaving"} => barrier > 0

\* run_thread_tasks returns only when every task queued for the region has
\* been run to its end.
ReturnsWhenAllDone ==
    [][mainPc = "wait" /\ mainPc' # "wait" =>
         \A t \in Threads : Tasks[t] = <<>> /\ ~ Busy(t)]_vars

\* During a region no thread goes to sleep with a task waiting for it.
SleepsOnlyWithoutTask ==
    [][\A t \in Threads :
         mainPc = "wait" /\ pc[t] = "sleep" /\ pc'[t] = "asleep"
            => Tasks[t] = <<>>]_vars

\* Each region ends: no thread is left in the barrier, and main is told.
RegionsEnd == mainPc = "wait" ~> mainPc # "wait"

\* Once main has told the threads to exit they exit, and main joins them.
AllJoined == job = "HYBRID_THREAD_EXIT" ~> mainPc = "done"
=============================================================================

----------------------------- MODULE GlobalSums -----------------------------
(***************************************************************************)
(* GlobalSums (Misc/GlobalSums.cpp): the threads of the pool add up numbers*)
(* over the processes of a grid.  Thread t of each process works on the    *)
(* same orbitals in the same order, but nothing else keeps the processes in*)
(* step, and MPI takes the k-th reduction that each process begins on a    *)
(* communicator for the same.                                              *)
(*                                                                         *)
(* In queue mode each sum is a request of its own, which the manager begins*)
(* when it comes to it, on a communicator of a pool that belongs to the    *)
(* number of the orbital, modulo the size of the pool; there are tasks that*)
(* begin with the barrier of the threads, and others that do not.  Without *)
(* queue mode the threads put their numbers together between two barriers  *)
(* and thread 0 adds them all.                                             *)
(*                                                                         *)
(* The manager of a process is one step per request here (MpiQueue has the *)
(* details), the barrier one meeting of the threads (ThreadBarrier).  MPI  *)
(* is external.  Coalesced grids have pools of the same size that are used *)
(* in the same way.                                                        *)
(***************************************************************************)
EXTENDS Integers, Sequences

CONSTANTS
    NPES,           \* processes of the grid
    active_threads,
    PoolSize,       \* communicators of the pool: 20*THREADS_PER_NODE + 1
    Rounds,         \* the numbers of tasks per thread and region to look at
    NSums,          \* sums of a task
    MaxRegions,     \* bound: regions
    QueueModes      \* the values of mpi_queue_mode to look at

ASSUME SumsAssumption ==
    /\ NPES \in Nat \ {0} /\ active_threads \in Nat \ {0} /\ PoolSize \in Nat \ {0}
    /\ Rounds \subseteq Nat \ {0} /\ NSums \in Nat \ {0} /\ MaxRegions \in Nat \ {0}
    /\ QueueModes \subseteq BOOLEAN
    /\ active_threads <= PoolSize

VARIABLES
    mpi_queue_mode,
    paced,          \* every task begins with the barrier, as GetNewRhoOne
    rounds,         \* tasks of a thread in a region
    regions,        \* of the pool in this run of the program
    region,         \* per process: regions begun
    round, n,       \* per thread: tasks begun in the region, sums begun in the task
    pc,             \* per thread
    met,            \* per thread: calls of thread_barrier_wait
    begun,          \* per process and communicator: the reductions begun, what
                    \* each vector holds
    place,          \* per thread: the number of its reduction on its communicator
    v1, v2,         \* per process: fixed_vector1 and fixed_vector2
    vect            \* per thread: what the call has returned, as the summands

params == <<mpi_queue_mode, paced, rounds, regions>>
task == <<region, round, n>>
vectors == <<v1, v2, vect>>
vars == <<params, task, pc, met, begun, place, vectors>>

Procs   == 0..(NPES - 1)
Threads == 0..(active_threads - 1)
Workers == Procs \X Threads

\* The grid's own communicator comes after those of the pool.
GridComm == PoolSize
Comms == 0..PoolSize

\* A summand: that of a thread for the n-th sum of the task for an orbital
Summand == [region : 1..MaxRegions, state : Nat, n : 1..NSums]

Vector == [Threads -> Summand] \cup [{0} -> Summand]

TypeOK ==
    /\ mpi_queue_mode \in QueueModes /\ paced \in BOOLEAN
    /\ rounds \in Rounds /\ regions \in 1..MaxRegions
    /\ region \in [Procs -> 1..MaxRegions]
    /\ round \in [Workers -> 0..rounds] /\ n \in [Workers -> 1..NSums]
    /\ pc \in [Workers -> {"idle", "start", "ask", "posted", "filled",
                           "reducing", "stored", "summed"}]
    /\ met \in [Workers -> Nat]
    /\ begun \in [Procs -> [Comms -> Seq(Vector)]]
    /\ place \in [Workers -> Nat]
    /\ v1 \in [Procs -> [Threads -> Summand]]
    /\ v2 \in [Procs -> [Threads -> SUBSET Summand]]
    /\ vect \in [Workers -> SUBSET Summand]

\* basetag: the orbital of the task
State(w) == (round[w] - 1) * active_threads + w[2]

Own(w) == [region |-> region[w[1]], state |-> State(w), n |-> n[w]]

NoSummand == [region |-> 1, state |-> 0, n |-> 1]

\* Without queue mode a region is one round, whose tasks begin together anyway.
Init ==
    /\ mpi_queue_mode \in QueueModes /\ rounds \in Rounds /\ regions \in 1..MaxRegions
    /\ paced \in BOOLEAN /\ (paced => mpi_queue_mode)
    /\ region = [p \in Procs |-> 1]
    /\ round = [w \in Workers |-> 0] /\ n = [w \in Workers |-> 1]
    /\ pc = [w \in Workers |-> "idle"]
    /\ met = [w \in Workers |-> 0]
    /\ begun = [p \in Procs |-> [c \in Comms |-> << >>]]
    /\ place = [w \in Workers |-> 0]
    /\ v1 = [p \in Procs |-> [t \in Threads |-> NoSummand]]
    /\ v2 = [p \in Procs |-> [t \in Threads |-> {}]]
    /\ vect = [w \in Workers |-> {}]
-----------------------------------------------------------------------------
Goto(w, q) == pc' = [pc EXCEPT ![w] = q]

\* Mutation: one communicator for all orbitals
OneComm(w) == 0

\* get_unique_comm
UniqueComm(w) == State(w) % PoolSize

Comm(w) == IF mpi_queue_mode THEN UniqueComm(w) ELSE GridComm

\* The process begins a reduction of this vector ...
Begin(w, vector) ==
    /\ begun' = [begun EXCEPT ![w[1]][Comm(w)] = Append(@, vector)]
    /\ place' = [place EXCEPT ![w] = Len(begun[w[1]][Comm(w)]) + 1]

\* ... and it is over when every process has begun as many on the communicator.
Over(w) == \A p \in Procs : Len(begun[p][Comm(w)]) >= place[w]

\* What has been added up, per element of the vector
Summed(w, i) == {begun[p][Comm(w)][place[w]][i] : p \in Procs}

\* All threads of the process have come to the barrier.
Met(w) == \A t \in Threads : met[<<w[1], t>>] >= met[w]

\* run_threads takes the next task.  Without queue mode a region is one round.
Take(w) ==
    /\ pc[w] = "idle" /\ round[w] < rounds
    /\ mpi_queue_mode \/ \A t \in Threads :
           LET u == <<w[1], t>>
           IN  round[u] >= round[w] /\ (round[u] = round[w] => pc[u] = "idle")
    /\ round' = [round EXCEPT ![w] = @ + 1]
    /\ n' = [n EXCEPT ![w] = 1]
    /\ IF paced THEN met' = [met EXCEPT ![w] = @ + 1] /\ Goto(w, "start")
                ELSE Goto(w, "ask") /\ UNCHANGED met
    /\ UNCHANGED <<params, region, begun, place, vectors>>

\* The barrier at the beginning of a task
Start(w) ==
    /\ pc[w] = "start" /\ Met(w)
    /\ Goto(w, "ask")
    /\ UNCHANGED <<params, task, met, begun, place, vectors>>

\* In queue mode: the request goes to the thread's queue, and the manager begins
\* the reduction when it comes to it.
Post(w) ==
    /\ pc[w] = "ask" /\ mpi_queue_mode
    /\ Begin(w, [i \in {0} |-> Own(w)])
    /\ Goto(w, "posted")
    /\ UNCHANGED <<params, task, met, vectors>>

\* The manager finds it over and sets the flag that the thread spins on.
Complete(w) ==
    /\ pc[w] = "posted" /\ Over(w)
    /\ vect' = [vect EXCEPT ![w] = Summed(w, 0)]
    /\ Goto(w, "summed")
    /\ UNCHANGED <<params, task, met, begun, place, v1, v2>>

\* Without queue mode: the thread's part of v1, and the barrier
Fill(w) ==
    /\ pc[w] = "ask" /\ ~ mpi_queue_mode
    /\ v1' = [v1 EXCEPT ![w[1]][w[2]] = Own(w)]
    /\ met' = [met EXCEPT ![w] = @ + 1]
    /\ Goto(w, "filled")
    /\ UNCHANGED <<params, task, begun, place, v2, vect>>

\* Thread 0 calls MPI_Allreduce, the others go to the second barrier.
AfterFirst(w) ==
    /\ pc[w] = "filled" /\ Met(w)
    /\ IF w[2] = 0
       THEN Begin(w, v1[w[1]]) /\ Goto(w, "reducing") /\ UNCHANGED met
       ELSE /\ met' = [met EXCEPT ![w] = @ + 1]
            /\ Goto(w, "stored")
            /\ UNCHANGED <<begun, place>>
    /\ UNCHANGED <<params, task, vectors>>

\* Mutation: thread 0 does not come to the second barrier
ReduceOnly(w) ==
    /\ pc[w] = "reducing" /\ Over(w)
    /\ v2' = [v2 EXCEPT ![w[1]] = [t \in Threads |-> Summed(w, t)]]
    /\ Goto(w, "stored")
    /\ UNCHANGED <<params, task, met, begun, place, v1, vect>>

\* MPI_Allreduce returns, and thread 0 comes to the second barrier.
Reduce(w) ==
    /\ pc[w] = "reducing" /\ Over(w)
    /\ v2' = [v2 EXCEPT ![w[1]] = [t \in Threads |-> Summed(w, t)]]
    /\ met' = [met EXCEPT ![w] = @ + 1]
    /\ Goto(w, "stored")
    /\ UNCHANGED <<params, task, begun, place, v1, vect>>

\* The thread takes its part of v2.
Fetch(w) ==
    /\ pc[w] = "stored" /\ Met(w)
    /\ vect' = [vect EXCEPT ![w] = v2[w[1]][w[2]]]
    /\ Goto(w, "summed")
    /\ UNCHANGED <<params, task, met, begun, place, v1, v2>>

\* The task goes on to its next sum or ends.
GoOn(w) ==
    /\ pc[w] = "summed"
    /\ IF n[w] < NSums THEN n' = [n EXCEPT ![w] = @ + 1] /\ Goto(w, "ask")
       ELSE Goto(w, "idle") /\ UNCHANGED n
    /\ UNCHANGED <<params, region, round, met, begun, place, vectors>>

\* All tasks of the region are done: main begins the next one.
NextRegion(p) ==
    /\ \A t \in Threads : pc[<<p, t>>] = "idle" /\ round[<<p, t>>] = rounds
    /\ region[p] < regions
    /\ region' = [region EXCEPT ![p] = @ + 1]
    /\ round' = [w \in Workers |-> IF w[1] = p THEN 0 ELSE round[w]]
    /\ UNCHANGED <<params, n, pc, met, begun, place, vectors>>

Worker(w) == \/ Take(w) \/ Start(w) \/ Post(w) \/ Complete(w)
             \/ Fill(w) \/ AfterFirst(w) \/ Reduce(w) \/ Fetch(w) \/ GoOn(w)

AllDone == \A w \in Workers : /\ region[w[1]] = regions
                              /\ round[w] = rounds /\ pc[w] = "idle"

Finished == AllDone /\ UNCHANGED vars

Next == \/ \E w \in Workers : Worker(w)
        \/ \E p \in Procs : NextRegion(p)
        \/ Finished

Spec == Init /\ [][Next]_vars

\* Every thread, manager and main program goes on.
FairSpec == /\ Spec
            /\ \A w \in Workers : WF_vars(Worker(w))
            /\ \A p \in Procs : WF_vars(NextRegion(p))
-----------------------------------------------------------------------------
\* In queue mode: the threads keep together, or the orbitals of a region all have a
\* communicator of their own.
CommsSuffice == mpi_queue_mode => paced \/ rounds * active_threads <= PoolSize

\* A thread gets the sum of what all processes have computed for its orbital in
\* this sum of this region: no reduction is taken for that of another orbital, of
\* the sum before or of the region before, in whatever order each process begins
\* them.  It is what the communicators are for: "to ensure that electronic orbitals
\* being processed by parallel threads use a unique communicator across nodes"
\* (BaseThread.h:78).
SumsMatch == \A w \in Workers : pc[w] = "summed" => vect[w] = {Own(w)}

\* Every call returns and every region ends: no two processes wait for reductions
\* of each other.
AllSummed == <>AllDone
=============================================================================

--------------------------- MODULE ThreadPoolProof ---------------------------
(***************************************************************************)
(* The thread pool is safe for every number of threads, regions and        *)
(* rounds, provided that all threads are parked when the main program      *)
(* queues its first task.  (Otherwise a thread on its way to sleep takes   *)
(* itself off the count of the first region and leaves its task behind.)   *)
(***************************************************************************)
EXTENDS ThreadPool, FiniteSetTheorems, SequenceTheorems, TLAPS

BusySet == {t \in Threads : Busy(t)}

Exiting == job = "HYBRID_THREAD_EXIT"

\* What main has counted and what it is about to do agree.
MainConsistent ==
    /\ mainPc \in {"queue", "new_barrier", "wake", "wait"} /\ ~ Exiting
          => regions < MaxRegions
    /\ mainPc \in {"idle", "queue"} /\ rounds > 0 => regions < MaxRegions
    /\ mainPc = "queue" /\ ~ Exiting => rounds < MaxRounds
    /\ mainPc \notin {"join", "done"} => regions <= MaxRegions
    /\ mainPc = "idle" => ~ Exiting
    /\ mainPc \in {"join", "done"} => Exiting

\* jobs counts the busy threads inside a region; outside there are none.
Counted == IF mainPc = "wait" THEN jobs = Cardinality(BusySet)
           ELSE jobs = 0 /\ BusySet = {}

\* The barrier exists whenever threads can be awake.
BarrierMade == mainPc \in {"wake", "wait"} => barrier > 0

\* The order to exit is the last task of a thread, given in thread order.
ExitIsLast ==
    \A t \in Threads : \A i \in DOMAIN Tasks[t] :
        Tasks[t][i] = "HYBRID_THREAD_EXIT" =>
            /\ Exiting
            /\ i = Len(Tasks[t])
            /\ mainPc = "queue" => t < ist

\* Threads leave only when they have been told to.
GoneIsTold ==
    \A t \in Threads :
        pc[t] \in {"exit", "gone"} =>
            Exiting /\ mainPc \in {"wait", "join", "done"}

\* In a region a thread that is done with its queue has emptied it.
QueueEmptied ==
    mainPc = "wait" =>
        \A t \in Threads :
            pc[t] \in {"sleep", "asleep", "exit", "gone"} => Tasks[t] = <<>>

\* The inductive invariant
IInv == /\ TypeOK
        /\ MainConsistent
        /\ Counted
        /\ BarrierMade
        /\ ExitIsLast
        /\ GoneIsTold
        /\ QueueEmptied
-----------------------------------------------------------------------------
\* A set of threads is finite and has at most THREADS_PER_NODE members.
LEMMA ThreadsFinite ==
    /\ IsFiniteSet(Threads)
    /\ Cardinality(Threads) = THREADS_PER_NODE
    /\ \A S \in SUBSET Threads :
          IsFiniteSet(S) /\ Cardinality(S) \in 0..THREADS_PER_NODE
<1>1. IsFiniteSet(Threads) /\ Cardinality(Threads) = THREADS_PER_NODE
  BY ThreadsAssumption, FS_Interval DEF Threads
<1>2. ASSUME NEW S \in SUBSET Threads
      PROVE  IsFiniteSet(S) /\ Cardinality(S) \in 0..THREADS_PER_NODE
  <2>1. IsFiniteSet(S) /\ Cardinality(S) <= Cardinality(Threads)
    BY <1>1, FS_Subset
  <2>2. Cardinality(S) \in Nat
    BY <2>1, FS_CardinalityType
  <2> QED BY <1>1, <2>1, <2>2, ThreadsAssumption
<1> QED BY <1>1, <1>2

\* One thread fewer is one less.
LEMMA OneFewer ==
    ASSUME NEW S \in SUBSET Threads, NEW t \in S
    PROVE  /\ Cardinality(S) > 0
           /\ Cardinality(S \ {t}) = Cardinality(S) - 1
<1>1. IsFiniteSet(S) /\ Cardinality(S) \in Nat
  BY ThreadsFinite
<1>2. S # {}
  OBVIOUS
<1>3. Cardinality(S) # 0
  BY <1>1, <1>2, FS_EmptySet
<1>4. Cardinality(S \ {t}) = Cardinality(S) - 1
  BY <1>1, FS_RemoveElement
<1> QED BY <1>1, <1>3, <1>4

\* Nobody is busy when the count says so.
LEMMA NobodyLeft ==
    ASSUME NEW S \in SUBSET Threads, Cardinality(S) = 0
    PROVE  S = {}
  BY ThreadsFinite, FS_EmptySet

\* What TypeOK says of the numbers.
LEMMA Numbers ==
    TypeOK =>
           /\ THREADS_PER_NODE \in Nat /\ THREADS_PER_NODE > 0
           /\ active \in Nat /\ active > 0 /\ active <= THREADS_PER_NODE
           /\ ist \in Nat /\ ist <= THREADS_PER_NODE
           /\ jobs \in Nat /\ jobs <= THREADS_PER_NODE
           /\ rounds \in Nat /\ rounds <= MaxRounds /\ MaxRounds \in Nat
           /\ regions \in Nat
<1> SUFFICES ASSUME TypeOK
             PROVE  /\ THREADS_PER_NODE \in Nat /\ THREADS_PER_NODE > 0
                    /\ active \in Nat /\ active > 0 /\ active <= THREADS_PER_NODE
                    /\ ist \in Nat /\ ist <= THREADS_PER_NODE
                    /\ jobs \in Nat /\ jobs <= THREADS_PER_NODE
                    /\ rounds \in Nat /\ rounds <= MaxRounds /\ MaxRounds \in Nat
                    /\ regions \in Nat
  OBVIOUS
<1>1. THREADS_PER_NODE \in Nat /\ THREADS_PER_NODE > 0 /\ MaxRounds \in Nat
  BY ThreadsAssumption, BoundsAssumption
<1>2. /\ active \in 1..THREADS_PER_NODE
      /\ ist \in 0..THREADS_PER_NODE
      /\ jobs \in 0..THREADS_PER_NODE
      /\ rounds \in 0..MaxRounds
      /\ regions \in 0..(MaxRegions + 1)
  BY DEF TypeOK
<1> QED BY <1>1, <1>2, BoundsAssumption

LEMMA InitIInv == ParkedAtStart /\ Init => IInv
<1> SUFFICES ASSUME ParkedAtStart, Init PROVE IInv
  OBVIOUS
<1>1. TypeOK
  BY ThreadsAssumption, BoundsAssumption DEF Init, TypeOK, Jobs, Threads
<1>2. Counted
  BY DEF Init, Counted, BusySet, Busy
<1>3. MainConsistent /\ BarrierMade /\ GoneIsTold /\ QueueEmptied
  BY BoundsAssumption
     DEF Init, MainConsistent, BarrierMade, GoneIsTold, QueueEmptied, Exiting
<1>4. ExitIsLast
  BY DEF Init, ExitIsLast
<1> QED BY <1>1, <1>2, <1>3, <1>4 DEF IInv
-----------------------------------------------------------------------------
(* Steps of main *)

\* Queueing: from "idle" to "queue" or to "new_barrier", nothing is shared.
LEMMA MainQueues ==
    ASSUME IInv,
           \/ \E n \in 1..THREADS_PER_NODE, j \in {"work", "HYBRID_SKIP"} : BeginRound(n, j)
           \/ TerminateThreads
           \/ RunThreadTasks
    PROVE  IInv'
<1> USE DEF IInv, Exiting
<1>1. UNCHANGED <<Tasks, jobs, in_threaded_region, barrier, pc, rounds, regions>>
  BY DEF BeginRound, TerminateThreads, RunThreadTasks
<1>2. /\ mainPc = "idle" /\ mainPc' \in {"queue", "new_barrier"}
      /\ mainPc' = "queue" => ist' = 0
      /\ mainPc' = "new_barrier" => UNCHANGED <<ist, active, job>>
  BY DEF BeginRound, TerminateThreads, RunThreadTasks
<1>3. TypeOK'
  <2>1. job' \in Jobs
    BY DEF BeginRound, TerminateThreads, RunThreadTasks, Jobs, TypeOK
  <2>2. active' \in 1..THREADS_PER_NODE /\ ist' \in 0..THREADS_PER_NODE
    BY Numbers DEF BeginRound, TerminateThreads, RunThreadTasks, TypeOK
  <2> QED BY <1>1, <1>2, <2>1, <2>2 DEF TypeOK
<1>4. MainConsistent'
  BY BoundsAssumption, <1>1
     DEF MainConsistent, BeginRound, TerminateThreads, RunThreadTasks, TypeOK
<1>5. Counted' /\ BarrierMade' /\ QueueEmptied'
  BY <1>1, <1>2 DEF Counted, BarrierMade, QueueEmptied, BusySet, Busy
<1>6. GoneIsTold'
  BY <1>1, <1>2 DEF GoneIsTold
<1>7. ExitIsLast'
  BY <1>1, <1>2 DEF ExitIsLast, MainConsistent
<1> QED BY <1>3, <1>4, <1>5, <1>6, <1>7

LEMMA QueueThreadTaskIInv ==
    ASSUME IInv, QueueThreadTask
    PROVE  IInv'
<1> USE DEF IInv, Exiting, QueueThreadTask
<1>1. ist \in Threads /\ ist + 1 \in 0..THREADS_PER_NODE
  BY ThreadsAssumption DEF TypeOK, Threads
<1>2. Append(Tasks[ist], job) \in Seq(Jobs)
  BY <1>1 DEF TypeOK
<1>3. TypeOK'
  BY <1>1, <1>2 DEF TypeOK
<1>4. MainConsistent' /\ BarrierMade' /\ GoneIsTold' /\ QueueEmptied'
  BY DEF MainConsistent, BarrierMade, GoneIsTold, QueueEmptied
<1>5. Counted'
  BY DEF Counted, BusySet, Busy
<1>6. ExitIsLast'
  <2> SUFFICES ASSUME NEW t \in Threads, NEW i \in DOMAIN Tasks'[t],
                      Tasks'[t][i] = "HYBRID_THREAD_EXIT"
               PROVE  Exiting' /\ i = Len(Tasks'[t]) /\ (mainPc' = "queue" => t < ist')
    BY DEF ExitIsLast
  <2>1. CASE t # ist
    <3>1. Tasks'[t] = Tasks[t]
      BY <2>1 DEF TypeOK
    <3> QED BY <1>1, <2>1, <3>1 DEF ExitIsLast, Threads
  <2>2. CASE t = ist
    <3>1. Tasks'[t] = Append(Tasks[t], job) /\ Tasks[t] \in Seq(Jobs)
      BY <2>2, <1>1 DEF TypeOK
    <3>2. \A k \in DOMAIN Tasks[t] : Tasks[t][k] # "HYBRID_THREAD_EXIT"
      BY <1>1, <2>2 DEF ExitIsLast, Threads
    <3>3. i = Len(Tasks[t]) + 1 /\ job = "HYBRID_THREAD_EXIT"
      BY <3>1, <3>2
    <3> QED BY <1>1, <2>2, <3>1, <3>3 DEF Threads
  <2> QED BY <2>1, <2>2
<1> QED BY <1>3, <1>4, <1>5, <1>6

LEMMA EndRoundIInv ==
    ASSUME IInv, EndRound
    PROVE  IInv'
<1> USE DEF IInv, Exiting, EndRound
<1>1. rounds' \in 0..MaxRounds
  BY Numbers DEF MainConsistent, TypeOK
<1>4. TypeOK'
  BY <1>1 DEF TypeOK
<1>5. MainConsistent'
  BY DEF MainConsistent
<1>2. BarrierMade' /\ GoneIsTold' /\ QueueEmptied' /\ ExitIsLast'
  BY DEF BarrierMade, GoneIsTold, QueueEmptied, ExitIsLast
<1>3. Counted'
  BY DEF Counted, BusySet, Busy
<1> QED BY <1>2, <1>3, <1>4, <1>5

LEMMA NewBarrierIInv ==
    ASSUME IInv, NewBarrier
    PROVE  IInv'
<1> USE DEF IInv, Exiting, NewBarrier
<1>1. barrier' \in 0..THREADS_PER_NODE /\ barrier' > 0
  BY Numbers DEF TypeOK
<1>4. TypeOK' /\ BarrierMade'
  BY <1>1 DEF TypeOK, BarrierMade
<1>2. MainConsistent' /\ GoneIsTold' /\ QueueEmptied' /\ ExitIsLast'
  BY DEF MainConsistent, GoneIsTold, QueueEmptied, ExitIsLast
<1>3. Counted'
  BY DEF Counted, BusySet, Busy
<1> QED BY <1>2, <1>3, <1>4

\* All threads were asleep, and now all of them are awake and counted.
LEMMA WakeThreadsIInv ==
    ASSUME IInv, WakeThreads
    PROVE  IInv'
<1> USE DEF IInv, Exiting, WakeThreads
<1>1. \A t \in Threads : pc[t] = "asleep"
  BY DEF Counted, BusySet, Busy, GoneIsTold
<1>2. \A t \in Threads : pc'[t] = "pop"
  BY <1>1
<1>3. TypeOK'
  BY ThreadsAssumption DEF TypeOK
<1>4. BusySet' = Threads
  BY <1>2 DEF BusySet, Busy
<1>5. Counted'
  BY <1>4, ThreadsFinite DEF Counted
<1>6. GoneIsTold' /\ QueueEmptied'
  BY <1>2 DEF GoneIsTold, QueueEmptied
<1>7. MainConsistent' /\ BarrierMade' /\ ExitIsLast'
  BY DEF MainConsistent, BarrierMade, ExitIsLast
<1> QED BY <1>3, <1>5, <1>6, <1>7

\* jobs = 0 tells main the truth.
LEMMA ReturnIInv ==
    ASSUME IInv, Return
    PROVE  IInv' /\ \A t \in Threads : Tasks[t] = <<>> /\ ~ Busy(t)
<1> USE DEF IInv, Exiting, Return
<1>1. BusySet = {}
  <2>1. BusySet \in SUBSET Threads /\ Cardinality(BusySet) = 0
    BY DEF Counted, BusySet
  <2> QED BY <2>1, NobodyLeft
<1>2. \A t \in Threads : pc[t] \in {"asleep", "gone"}
  BY <1>1 DEF BusySet, Busy
<1>3. \A t \in Threads : Tasks[t] = <<>> /\ ~ Busy(t)
  BY <1>2 DEF QueueEmptied, Busy
<1>4. TypeOK'
  <2>1. regions' \in 0..(MaxRegions + 1) /\ rounds' \in 0..MaxRounds
    BY BoundsAssumption DEF TypeOK, MainConsistent
  <2>2. barrier' \in 0..THREADS_PER_NODE
    BY ThreadsAssumption
  <2> QED BY <2>1, <2>2 DEF TypeOK
<1>5. Counted'
  BY <1>1 DEF Counted, BusySet, Busy
<1>6. GoneIsTold'
  BY DEF GoneIsTold
<1>7. MainConsistent'
  BY BoundsAssumption DEF MainConsistent, TypeOK
<1>8. BarrierMade' /\ QueueEmptied' /\ ExitIsLast'
  BY DEF BarrierMade, QueueEmptied, ExitIsLast
<1> QED BY <1>3, <1>4, <1>5, <1>6, <1>7, <1>8

LEMMA JoinAllIInv ==
    ASSUME IInv, JoinAll
    PROVE  IInv'
<1> USE DEF IInv, Exiting, JoinAll
<1>1. TypeOK' /\ MainConsistent'
  BY DEF TypeOK, MainConsistent
<1>2. BarrierMade' /\ GoneIsTold' /\ QueueEmptied' /\ ExitIsLast'
  BY DEF BarrierMade, GoneIsTold, QueueEmptied, ExitIsLast
<1>3. Counted'
  BY DEF Counted, BusySet, Busy
<1> QED BY <1>1, <1>2, <1>3
-----------------------------------------------------------------------------
(* Steps of a thread *)

\* A busy thread is busy in a region.
LEMMA BusyInRegion ==
    ASSUME IInv, NEW t \in Threads, Busy(t)
    PROVE  mainPc = "wait" /\ barrier > 0
  BY DEF IInv, Counted, BusySet, BarrierMade

\* A step of busy threads that stay busy, with queues untouched and nobody
\* coming to "sleep" or "exit".
LEMMA StaysBusy ==
    ASSUME IInv,
           UNCHANGED <<mainVars, Tasks, jobs, in_threaded_region, barrier>>,
           pc' \in [Threads -> {"pop", "work", "meet", "meeting", "leaving",
                                "sleep", "asleep", "exit", "gone"}],
           \A t \in Threads :
               pc'[t] # pc[t] =>
                  /\ Busy(t)
                  /\ pc'[t] \in {"pop", "work", "meet", "meeting", "leaving"}
    PROVE  IInv'
<1> USE DEF IInv, mainVars, Exiting
<1>1. TypeOK'
  BY DEF TypeOK
<1>2. BusySet' = BusySet
  BY DEF BusySet, Busy
<1>3. Counted'
  BY <1>2 DEF Counted
<1>4. MainConsistent' /\ BarrierMade' /\ ExitIsLast'
  BY DEF MainConsistent, BarrierMade, ExitIsLast
<1>5. GoneIsTold' /\ QueueEmptied'
  BY DEF GoneIsTold, QueueEmptied
<1> QED BY <1>1, <1>3, <1>4, <1>5

LEMMA PopThreadTaskIInv ==
    ASSUME IInv, NEW t \in Threads, PopThreadTask(t)
    PROVE  IInv'
<1> USE DEF IInv, mainVars, Exiting, PopThreadTask, Goto
<1> DEFINE s == Tasks[t]
<1>0. s \in Seq(Jobs) /\ s # <<>>
  BY DEF TypeOK
<1>1. /\ Tail(s) \in Seq(Jobs)
      /\ Len(s) \in Nat /\ Len(s) > 0
      /\ DOMAIN s = 1..Len(s) /\ DOMAIN Tail(s) = 1..(Len(s) - 1)
      /\ Len(Tail(s)) = Len(s) - 1
      /\ \A i \in DOMAIN Tail(s) : i + 1 \in DOMAIN s /\ Tail(s)[i] = s[i + 1]
      /\ Head(s) = s[1]
  <2>1. /\ Tail(s) \in Seq(Jobs) /\ Len(Tail(s)) = Len(s) - 1
        /\ \A i \in 1..Len(Tail(s)) : Tail(s)[i] = s[i + 1]
    BY <1>0, HeadTailProperties
  <2>2. Len(s) \in Nat /\ Len(s) > 0 /\ DOMAIN s = 1..Len(s) /\ Head(s) = s[1]
    BY <1>0
  <2>3. DOMAIN Tail(s) = 1..(Len(s) - 1)
    BY <2>1
  <2> QED BY <2>1, <2>2, <2>3
<1>2. /\ pc[t] = "pop" /\ pc'[t] \in {"work", "pop", "exit"}
      /\ pc'[t] = "exit" => s[1] = "HYBRID_THREAD_EXIT"
      /\ \A u \in Threads \ {t} : pc'[u] = pc[u] /\ Tasks'[u] = Tasks[u]
      /\ Tasks'[t] = Tail(s)
  BY <1>1 DEF TypeOK
<1>3. mainPc = "wait"
  BY <1>2, BusyInRegion DEF Busy
<1>4. TypeOK'
  BY <1>1 DEF TypeOK
<1>5. BusySet' = BusySet
  BY <1>2 DEF BusySet, Busy
<1>6. Counted'
  BY <1>5 DEF Counted
<1>7. MainConsistent' /\ BarrierMade'
  BY DEF MainConsistent, BarrierMade
<1>8. pc'[t] = "exit" => Exiting /\ Len(s) = 1
  <2>1. 1 \in DOMAIN s
    BY <1>1
  <2> QED BY <1>2, <2>1 DEF ExitIsLast
<1>9. GoneIsTold'
  BY <1>2, <1>3, <1>8 DEF GoneIsTold
<1>10. pc'[t] = "exit" => Tail(s) = <<>>
  <2>1. Len(s) = 1 => Len(Tail(s)) = 0
    BY <1>1
  <2> QED BY <1>1, <1>8, <2>1, EmptySeq
<1>11. QueueEmptied'
  BY <1>2, <1>10 DEF QueueEmptied
<1>12. ExitIsLast'
  <2> SUFFICES ASSUME NEW u \in Threads, NEW i \in DOMAIN Tasks'[u],
                      Tasks'[u][i] = "HYBRID_THREAD_EXIT"
               PROVE  Exiting' /\ i = Len(Tasks'[u]) /\ (mainPc' = "queue" => u < ist')
    BY DEF ExitIsLast
  <2>1. CASE u # t
    BY <1>2, <2>1 DEF ExitIsLast
  <2>2. CASE u = t
    <3> HIDE DEF s
    <3>1. Tasks'[u] = Tail(s)
      BY <1>2, <2>2
    <3>2. i \in DOMAIN Tail(s) /\ i \in Nat /\ Tail(s)[i] = "HYBRID_THREAD_EXIT"
      BY <1>1, <3>1
    <3>3. i + 1 \in DOMAIN s /\ s[i + 1] = "HYBRID_THREAD_EXIT"
      BY <1>1, <3>2
    <3>4. Exiting /\ i + 1 = Len(s)
      BY <3>3 DEF ExitIsLast, s
    <3>5. i \in Nat /\ Len(s) \in Nat /\ Len(Tail(s)) = Len(s) - 1
      BY <1>1, <3>2
    <3>6. i = Len(Tail(s))
      BY <3>4, <3>5
    <3> QED BY <1>3, <3>1, <3>4, <3>6
  <2> QED BY <2>1, <2>2
<1> QED BY <1>4, <1>6, <1>7, <1>9, <1>11, <1>12

LEMMA FindNoTaskIInv ==
    ASSUME IInv, NEW t \in Threads, FindNoTask(t)
    PROVE  IInv'
<1> USE DEF IInv, mainVars, Exiting, FindNoTask, Goto
<1>1. TypeOK'
  BY DEF TypeOK
<1>2. BusySet' = BusySet
  BY DEF BusySet, Busy, TypeOK
<1>3. Counted'
  BY <1>2 DEF Counted
<1>4. MainConsistent' /\ BarrierMade' /\ ExitIsLast'
  BY DEF MainConsistent, BarrierMade, ExitIsLast
<1>5. GoneIsTold' /\ QueueEmptied'
  BY DEF GoneIsTold, QueueEmptied, TypeOK
<1> QED BY <1>1, <1>3, <1>4, <1>5

\* Falling asleep and exiting take one thread out of the count.
LEMMA LeavesRegion ==
    ASSUME IInv, NEW t \in Threads, Busy(t), DecrementJobs,
           UNCHANGED <<mainVars, Tasks, in_threaded_region, barrier>>,
           \/ Goto(t, "sleep", "asleep")
           \/ Goto(t, "exit", "gone")
    PROVE  IInv'
<1> USE DEF IInv, mainVars, Exiting, Goto
<1>1. mainPc = "wait"
  BY BusyInRegion
<1>2. t \in BusySet /\ BusySet \in SUBSET Threads
  BY DEF BusySet
<1>3. BusySet' = BusySet \ {t}
  BY DEF BusySet, Busy, TypeOK
<1>4. Cardinality(BusySet) > 0 /\ Cardinality(BusySet') = Cardinality(BusySet) - 1
  BY <1>2, <1>3, OneFewer
<1>5. Counted'
  BY <1>1, <1>4 DEF Counted, DecrementJobs
<1>6. TypeOK'
  <2>1. jobs' \in 0..THREADS_PER_NODE
    BY Numbers DEF DecrementJobs, TypeOK
  <2> QED BY <2>1 DEF TypeOK
<1>7. MainConsistent' /\ BarrierMade' /\ ExitIsLast'
  BY DEF MainConsistent, BarrierMade, ExitIsLast
<1>8. GoneIsTold' /\ QueueEmptied'
  BY DEF GoneIsTold, QueueEmptied, TypeOK
<1> QED BY <1>5, <1>6, <1>7, <1>8

LEMMA BarrierStepsIInv ==
    ASSUME IInv, NEW t \in Threads,
           EnterBarrier(t) \/ Meet(t) \/ LeaveBarrier(t)
    PROVE  IInv'
<1> DEFINE Places == {"pop", "work", "meet", "meeting", "leaving",
                      "sleep", "asleep", "exit", "gone"}
<1>0. pc \in [Threads -> Places]
  BY DEF IInv, TypeOK
<1>1. UNCHANGED <<mainVars, Tasks, jobs, in_threaded_region, barrier>>
  BY DEF EnterBarrier, Meet, LeaveBarrier
<1>2. pc' \in [Threads -> Places]
  BY <1>0 DEF EnterBarrier, Meet, LeaveBarrier, Goto
<1>3. \A u \in Threads :
        pc'[u] # pc[u] => /\ Busy(u)
                          /\ pc'[u] \in {"pop", "work", "meet", "meeting", "leaving"}
  BY <1>0 DEF EnterBarrier, Meet, LeaveBarrier, Goto, Meeting, Busy
<1> QED BY <1>1, <1>2, <1>3, StaysBusy

LEMMA NextIInv == IInv /\ [Next]_vars => IInv'
<1> SUFFICES ASSUME IInv, [Next]_vars PROVE IInv'
  OBVIOUS
<1>1. CASE MainNext
  BY <1>1, MainQueues, QueueThreadTaskIInv, EndRoundIInv, NewBarrierIInv,
     WakeThreadsIInv, ReturnIInv, JoinAllIInv DEF MainNext
<1>2. ASSUME NEW t \in Threads, ThreadNext(t) PROVE IInv'
  <2>1. CASE PopThreadTask(t)
    BY <2>1, PopThreadTaskIInv
  <2>2. CASE FindNoTask(t)
    BY <2>2, FindNoTaskIInv
  <2>3. CASE ThreadSleep(t)
    BY <2>3, LeavesRegion DEF ThreadSleep, Goto, Busy
  <2>4. CASE ThreadExit(t)
    BY <2>4, LeavesRegion DEF ThreadExit, Goto, Busy
  <2>5. CASE EnterBarrier(t) \/ Meet(t) \/ LeaveBarrier(t)
    BY <2>5, BarrierStepsIInv
  <2> QED BY <1>2, <2>1, <2>2, <2>3, <2>4, <2>5 DEF ThreadNext
<1>3. CASE UNCHANGED vars
  BY <1>3 DEF vars, mainVars, IInv, TypeOK, MainConsistent, Counted, BarrierMade,
              ExitIsLast, GoneIsTold, QueueEmptied, Exiting, BusySet, Busy
<1> QED BY <1>1, <1>2, <1>3 DEF Next, Finished

\* The inductive invariant holds in every reachable state.
LEMMA InductiveInvariant == ParkedAtStart /\ Spec => []IInv
<1> SUFFICES ASSUME ParkedAtStart PROVE Spec => []IInv
  OBVIOUS
<1>1. Init => IInv
  BY InitIInv
<1>2. IInv /\ [Next]_vars => IInv'
  BY NextIInv
<1> QED BY <1>1, <1>2, PTL DEF Spec
-----------------------------------------------------------------------------
\* Every variable of the pool keeps its type; jobs never exceeds the number of
\* threads and never falls below zero.
THEOREM TypeCorrect == ParkedAtStart /\ Spec => []TypeOK
<1>1. IInv => TypeOK
  BY DEF IInv
<1> QED BY <1>1, InductiveInvariant, PTL

\* jobs is the number of threads that have yet to finish the region.
THEOREM CountIsRight == ParkedAtStart /\ Spec => []JobsCountsBusy
<1>1. IInv => JobsCountsBusy
  BY DEF IInv, Counted, JobsCountsBusy, BusySet
<1> QED BY <1>1, InductiveInvariant, PTL

\* Main shares nothing with running threads outside a region.
THEOREM Quiet == ParkedAtStart /\ Spec => []QuietOutside
<1>1. IInv => QuietOutside
  BY DEF IInv, Counted, QuietOutside, BusySet
<1> QED BY <1>1, InductiveInvariant, PTL

\* No thread uses a barrier that main has deleted.
THEOREM BarrierIsNeverDangling == ParkedAtStart /\ Spec => []BarrierLives
<1>1. IInv => BarrierLives
  BY BusyInRegion DEF BarrierLives, Busy
<1> QED BY <1>1, InductiveInvariant, PTL

\* When run_thread_tasks returns, every task queued for it has been run.
THEOREM RegionIsComplete == ParkedAtStart /\ Spec => ReturnsWhenAllDone
<1>1. IInv /\ [Next]_vars =>
        [mainPc = "wait" /\ mainPc' # "wait" =>
           \A t \in Threads : Tasks[t] = <<>> /\ ~ Busy(t)]_vars
  <2> SUFFICES ASSUME IInv, Next, mainPc = "wait", mainPc' # "wait"
               PROVE  \A t \in Threads : Tasks[t] = <<>> /\ ~ Busy(t)
    BY DEF vars, mainVars
  <2>1. Return
    BY DEF Next, MainNext, BeginRound, TerminateThreads, QueueThreadTask,
           EndRound, RunThreadTasks, NewBarrier, WakeThreads, JoinAll, ThreadNext,
           PopThreadTask, FindNoTask, ThreadSleep, ThreadExit, EnterBarrier, Meet,
           LeaveBarrier, Finished, vars, mainVars
  <2> QED BY <2>1, ReturnIInv
<1> QED BY <1>1, InductiveInvariant, PTL DEF Spec, ReturnsWhenAllDone

\* A thread that goes to sleep during a region has emptied its queue: all its tasks
\* were queued before the region began, and nobody queues another meanwhile.
THEOREM SleepsEmptyHanded == ParkedAtStart /\ Spec => SleepsOnlyWithoutTask
<1>1. IInv => \A t \in Threads : mainPc = "wait" /\ pc[t] = "sleep" => Tasks[t] = <<>>
  BY DEF IInv, QueueEmptied
<1>2. IInv /\ [Next]_vars =>
        [\A t \in Threads :
           mainPc = "wait" /\ pc[t] = "sleep" /\ pc'[t] = "asleep" => Tasks[t] = <<>>]_vars
  BY <1>1
<1> QED BY <1>2, InductiveInvariant, PTL DEF Spec, SleepsOnlyWithoutTask
=============================================================================

------------------------------ MODULE MpiQueue ------------------------------
(***************************************************************************)
(* MpiQueue (RmgLib/src/MpiQueue.cpp): in queue mode the threads of the    *)
(* pool do not call MPI.  Each pushes its requests onto a queue of its own,*)
(* a manager thread hands them to MPI, polls them, and tells the thread    *)
(* with an is_completed flag per request and a group_count per exchange,   *)
(* which both are locals of the function that the thread is in.            *)
(*                                                                         *)
(* The three kinds of exchange are those of the callers:                   *)
(*   trade  trade_imagesx_async_managed and its siblings, GatherScatter:   *)
(*          all receives and sends, then the flags of the receives, then   *)
(*          waitgroup                                                      *)
(*   sum    GlobalSums: one reduction and its flag                         *)
(*   remap  remap_3d: all receives, the sends one after another each with  *)
(*          its flag, the flags of the receives, and no waitgroup          *)
(*                                                                         *)
(* A region of the pool is the time between two steps of main here; that   *)
(* main goes on only when all threads are done is ThreadPool's theorem     *)
(* RegionIsComplete.  MPI and the other ranks are external: a request that *)
(* has been posted completes some time.                                    *)
(***************************************************************************)
EXTENDS Integers, Sequences, FiniteSets

CONSTANTS
    max_threads,    \* threads and queues
    NRecv, NSend,   \* receives and sends of an exchange
    KindSets,       \* which kinds of exchange may happen in one program
    max_size,       \* capacity of a thread's queue
    PostedSize,     \* capacity of postedq
    MaxRegions,     \* bound: regions
    MaxExchanges    \* bound: exchanges of a thread in a region

ASSUME CountsAssumption ==
    /\ max_threads \in Nat \ {0}
    /\ NRecv \in Nat \ {0}
    /\ NSend \in Nat \ {0}
    /\ max_size \in Nat
    /\ PostedSize \in Nat
    /\ MaxRegions \in Nat
    /\ MaxExchanges \in Nat
ASSUME KindsAssumption == KindSets \subseteq SUBSET {"trade", "sum", "remap"}

Threads == 0..(max_threads - 1)
Numbers == 1..(NRecv + NSend)

VARIABLES
    \* shared
    queue,          \* per thread: requests pushed and not yet popped
    running, exitflag,
    is_completed,   \* per thread: the numbers of the requests whose flag is set
    group_count,    \* per thread
    \* threads
    wpc,            \* "asleep", "task", "push", "sent", "flags", "group"
    kinds,          \* the kinds of exchange that happen (chosen at the start)
    kind,           \* the exchange it is in
    next,           \* the number of the next request to push
    exchanges,      \* exchanges begun in this region
    frame,          \* exchanges begun ever: which call the locals belong to
    \* manager
    mpc, tid, qobj, postedq, qcount, breakcount,
    \* main
    pc, regions

workerVars == <<wpc, kinds, kind, next, exchanges, frame>>
managerVars == <<mpc, tid, qobj, postedq, qcount, breakcount>>
mainVars == <<pc, regions>>
vars == <<queue, running, exitflag, is_completed, group_count,
          workerVars, managerVars, mainVars>>

\* requests of an exchange, and the kind of MPI call
Requests(k) == IF k = "sum" THEN 1..1 ELSE Numbers
Type(k, n) == IF k = "sum" THEN "SUM" ELSE IF n <= NRecv THEN "IRECV" ELSE "ISEND"
Receives == 1..NRecv

Item == [tid : Threads, n : Numbers, frame : 0..(MaxRegions * MaxExchanges),
         kind : {"trade", "sum", "remap"}, type : {"SUM", "IRECV", "ISEND"}, done : BOOLEAN]

TypeOK ==
    /\ queue \in [Threads -> Seq(Item)]
    /\ running \in BOOLEAN /\ exitflag \in BOOLEAN
    /\ is_completed \in [Threads -> SUBSET Numbers]
    /\ group_count \in [Threads -> Int]
    /\ wpc \in [Threads -> {"asleep", "task", "push", "sent", "flags", "group"}]
    /\ kinds \in KindSets
    /\ kind \in [Threads -> {"trade", "sum", "remap"}]
    /\ next \in [Threads -> 1..(NRecv + NSend + 1)]
    /\ exchanges \in [Threads -> 0..MaxExchanges]
    /\ frame \in [Threads -> 0..(MaxRegions * MaxExchanges)]
    /\ mpc \in {"drain", "test", "mark", "count", "after", "idle", "cvwait",
                "blocking", "blocked", "returned", "full"}
    /\ tid \in 0..max_threads
    /\ qobj \in Item \cup {<< >>}
    /\ postedq \in Seq(Item)
    /\ qcount \in Nat
    /\ breakcount \in 0..max_threads
    /\ pc \in {"serial", "notify", "wake", "region", "exit", "bye", "done"}
    /\ regions \in 0..MaxRegions

\* The constructor has set running while it started the manager, and has cleared
\* it: the manager may be anywhere in its first turn.
Init ==
    /\ queue = [t \in Threads |-> << >>]
    /\ running = FALSE
    /\ exitflag = FALSE
    /\ is_completed \in {[t \in Threads |-> {}], [t \in Threads |-> Numbers]}
    /\ group_count = [t \in Threads |-> 0]
    /\ wpc = [t \in Threads |-> "asleep"]
    /\ kinds \in KindSets
    /\ kind = [t \in Threads |-> "trade"]
    /\ next = [t \in Threads |-> 1]
    /\ exchanges = [t \in Threads |-> 0]
    /\ frame = [t \in Threads |-> 0]
    /\ mpc = "drain"
    /\ tid = 0
    /\ qobj = << >>
    /\ postedq = << >>
    /\ qcount = 0
    /\ breakcount = 0
    /\ pc = "serial"
    /\ regions = 0
-----------------------------------------------------------------------------
(* Threads *)

InExchange(t) == wpc[t] \in {"push", "sent", "flags", "group"}

\* what a step leaves alone that only takes its thread further
NoEffect == UNCHANGED <<queue, running, exitflag, is_completed, group_count, kinds, kind, next,
                        exchanges, frame, managerVars, mainVars>>

\* The function is called: its locals are a new frame.  Nothing initialises the
\* flags, they are what the last call has left on the stack.
Begin(t) ==
    /\ wpc[t] = "task"
    /\ exchanges[t] < MaxExchanges
    /\ \E k \in kinds :
          /\ kind' = [kind EXCEPT ![t] = k]
          /\ group_count' = IF k = "sum" THEN group_count
                            ELSE [group_count EXCEPT ![t] = NRecv + NSend]
    /\ wpc' = [wpc EXCEPT ![t] = "push"]
    /\ next' = [next EXCEPT ![t] = 1]
    /\ exchanges' = [exchanges EXCEPT ![t] = @ + 1]
    /\ frame' = [frame EXCEPT ![t] = @ + 1]
    /\ UNCHANGED <<queue, running, exitflag, is_completed, kinds, managerVars, mainVars>>

\* a full queue refuses the request, and no caller looks at what push returns
Pushed(q, item) == IF Len(q) < max_size THEN Append(q, item) ELSE q

\* Mutation: the flag of the request is not cleared
PushWithStaleFlag(t) ==
    /\ wpc[t] = "push"
    /\ LET n == next[t] IN
       /\ queue' = [queue EXCEPT ![t] =
              Pushed(@, [tid |-> t, n |-> n, frame |-> frame[t], kind |-> kind[t],
                         type |-> Type(kind[t], n), done |-> FALSE])]
       /\ next' = [next EXCEPT ![t] = n + 1]
       /\ wpc' = [wpc EXCEPT ![t] =
              IF kind[t] = "remap" /\ Type(kind[t], n) = "ISEND" THEN "sent"
              ELSE IF n + 1 \in Requests(kind[t]) THEN "push" ELSE "flags"]
    /\ UNCHANGED <<running, exitflag, is_completed, group_count, kinds, kind, exchanges,
                   frame, managerVars, mainVars>>

\* RMG_MPI_queue_trade and its likes: clear the flag, fill the item, push it
Push(t) ==
    /\ wpc[t] = "push"
    /\ LET n == next[t] IN
       /\ is_completed' = [is_completed EXCEPT ![t] = @ \ {n}]
       /\ queue' = [queue EXCEPT ![t] =
              Pushed(@, [tid |-> t, n |-> n, frame |-> frame[t], kind |-> kind[t],
                         type |-> Type(kind[t], n), done |-> FALSE])]
       /\ next' = [next EXCEPT ![t] = n + 1]
       /\ wpc' = [wpc EXCEPT ![t] =
              IF kind[t] = "remap" /\ Type(kind[t], n) = "ISEND" THEN "sent"
              ELSE IF n + 1 \in Requests(kind[t]) THEN "push" ELSE "flags"]
    /\ UNCHANGED <<running, exitflag, group_count, kinds, kind, exchanges, frame,
                   managerVars, mainVars>>

\* remap_3d waits for each send, for they share a buffer
AwaitSend(t) ==
    /\ wpc[t] = "sent"
    /\ next[t] - 1 \in is_completed[t]
    /\ wpc' = [wpc EXCEPT ![t] = IF next[t] \in Numbers THEN "push" ELSE "flags"]
    /\ NoEffect

\* Mutation: trade_imagesx does not wait for its group, as remap_3d does not
NobodyWaitsForTheGroup(t) ==
    /\ wpc[t] = "flags"
    /\ Receives \cap Requests(kind[t]) \subseteq is_completed[t]
    /\ wpc' = [wpc EXCEPT ![t] = "task"]
    /\ NoEffect

\* everything has been received and unpacked, or the sum has been made
AwaitFlags(t) ==
    /\ wpc[t] = "flags"
    /\ Receives \cap Requests(kind[t]) \subseteq is_completed[t]
    /\ wpc' = [wpc EXCEPT ![t] = IF kind[t] = "trade" THEN "group" ELSE "task"]
    /\ NoEffect

\* waitgroup
AwaitGroup(t) ==
    /\ wpc[t] = "group"
    /\ group_count[t] = 0
    /\ wpc' = [wpc EXCEPT ![t] = "task"]
    /\ NoEffect

\* the thread has no more to do in this region
Sleep(t) ==
    /\ wpc[t] = "task"
    /\ wpc' = [wpc EXCEPT ![t] = "asleep"]
    /\ NoEffect

Thread(t) == \/ Begin(t) \/ Push(t) \/ AwaitSend(t) \/ AwaitFlags(t)
             \/ AwaitGroup(t) \/ Sleep(t)
-----------------------------------------------------------------------------
(* The manager *)

threadSide == <<workerVars, mainVars>>

NoManagerEffect == UNCHANGED <<queue, running, exitflag, is_completed, group_count, tid,
                               qobj, postedq, qcount, breakcount, threadSide>>

\* Hand the next request of queue tid to MPI
Post ==
    /\ mpc = "drain"
    /\ tid < max_threads
    /\ queue[tid] # << >>
    /\ queue' = [queue EXCEPT ![tid] = Tail(@)]
    /\ IF Len(postedq) < PostedSize
       THEN /\ postedq' = Append(postedq, Head(queue[tid]))
            /\ qcount' = qcount + 1
            /\ mpc' = "drain"
       ELSE /\ mpc' = "full"        \* the program stops
            /\ UNCHANGED <<postedq, qcount>>
    /\ UNCHANGED <<running, exitflag, is_completed, group_count, tid, qobj,
                   breakcount, threadSide>>

NextQueue ==
    /\ mpc = "drain"
    /\ tid < max_threads
    /\ queue[tid] = << >>
    /\ tid' = tid + 1
    /\ UNCHANGED <<queue, running, exitflag, is_completed, group_count, mpc, qobj,
                   postedq, qcount, breakcount, threadSide>>

EndDrain ==
    /\ mpc = "drain"
    /\ tid = max_threads
    /\ tid' = 0
    /\ breakcount' = max_threads
    /\ mpc' = "test"
    /\ UNCHANGED <<queue, running, exitflag, is_completed, group_count, qobj,
                   postedq, qcount, threadSide>>

\* Mutation: a request that is not complete is pushed back and not counted again
RetestUncounted ==
    /\ mpc = "test"
    /\ postedq # << >>
    /\ ~ Head(postedq).done
    /\ postedq' = Append(Tail(postedq), Head(postedq))
    /\ qcount' = qcount - 1
    /\ breakcount' = breakcount - 1
    /\ mpc' = IF breakcount' = 0 \/ qcount' = 0 THEN "after" ELSE "test"
    /\ UNCHANGED <<queue, running, exitflag, is_completed, group_count, tid, qobj,
                   threadSide>>

\* Mutation: a request that is not complete is not pushed back
RetestDropped ==
    /\ mpc = "test"
    /\ postedq # << >>
    /\ ~ Head(postedq).done
    /\ postedq' = Tail(postedq)
    /\ qcount' = qcount - 1
    /\ breakcount' = breakcount - 1
    /\ mpc' = IF breakcount' = 0 \/ qcount' = 0 THEN "after" ELSE "test"
    /\ UNCHANGED <<queue, running, exitflag, is_completed, group_count, tid, qobj,
                   threadSide>>

\* MPI_Test of the oldest request: not complete, back to the end of the queue
Retest ==
    /\ mpc = "test"
    /\ postedq # << >>
    /\ ~ Head(postedq).done
    /\ postedq' = Append(Tail(postedq), Head(postedq))
    /\ breakcount' = breakcount - 1
    /\ mpc' = IF breakcount' = 0 THEN "after" ELSE "test"
    /\ UNCHANGED <<queue, running, exitflag, is_completed, group_count, tid, qobj,
                   qcount, threadSide>>

\* MPI_Test of the oldest request: complete
TestDone ==
    /\ mpc = "test"
    /\ postedq # << >>
    /\ Head(postedq).done
    /\ qobj' = Head(postedq)
    /\ postedq' = Tail(postedq)
    /\ qcount' = qcount - 1
    /\ mpc' = "mark"
    /\ UNCHANGED <<queue, running, exitflag, is_completed, group_count, tid,
                   breakcount, threadSide>>

NothingPosted ==
    /\ mpc = "test"
    /\ postedq = << >>
    /\ mpc' = "after"
    /\ NoManagerEffect

\* Mutation: the count is never taken down
MarkWithoutCount ==
    /\ mpc = "mark"
    /\ is_completed' = [is_completed EXCEPT ![qobj.tid] = @ \cup {qobj.n}]
    /\ mpc' = IF qcount = 0 THEN "after" ELSE "test"
    /\ qobj' = << >>
    /\ UNCHANGED <<queue, running, exitflag, group_count, tid, postedq, qcount,
                   breakcount, threadSide>>

\* is_completed->store(true)
Mark ==
    /\ mpc = "mark"
    /\ is_completed' = [is_completed EXCEPT ![qobj.tid] = @ \cup {qobj.n}]
    /\ IF qobj.type \in {"IRECV", "ISEND"}
       THEN mpc' = "count" /\ UNCHANGED qobj
       ELSE /\ mpc' = IF qcount = 0 THEN "after" ELSE "test"
            /\ qobj' = << >>
    /\ UNCHANGED <<queue, running, exitflag, group_count, tid, postedq, qcount,
                   breakcount, threadSide>>

\* group_count->fetch_sub(1)
Count ==
    /\ mpc = "count"
    /\ group_count' = [group_count EXCEPT ![qobj.tid] = @ - 1]
    /\ mpc' = IF qcount = 0 THEN "after" ELSE "test"
    /\ qobj' = << >>
    /\ UNCHANGED <<queue, running, exitflag, is_completed, tid, postedq, qcount,
                   breakcount, threadSide>>

AfterTests ==
    /\ mpc = "after"
    /\ mpc' = IF qcount = 0 THEN "idle" ELSE "drain"
    /\ NoManagerEffect

\* Mutation: the flag that ends the manager is looked at only after a sleep
CheckExitForgotten ==
    /\ mpc = "idle"
    /\ mpc' = IF running THEN "drain" ELSE "cvwait"
    /\ NoManagerEffect

\* no pending requests: return, go on, or wait for running
CheckExit ==
    /\ mpc = "idle"
    /\ mpc' = IF exitflag THEN "returned" ELSE IF running THEN "drain" ELSE "cvwait"
    /\ NoManagerEffect

\* cv.wait with the predicate running == true, which a notification repeats
Predicate ==
    /\ mpc = "cvwait"
    /\ mpc' = IF running THEN "drain" ELSE "blocking"
    /\ NoManagerEffect

\* Between the predicate and the sleep the manager holds manager_mutex, but
\* run_manager stores and notifies without it.
Block ==
    /\ mpc = "blocking"
    /\ mpc' = "blocked"
    /\ NoManagerEffect

Manager == \/ Post \/ NextQueue \/ EndDrain \/ Retest \/ TestDone \/ NothingPosted
           \/ Mark \/ Count \/ AfterTests \/ CheckExit \/ Predicate \/ Block

\* MPI completes a request that has been posted
Complete(t, n) ==
    /\ \E i \in DOMAIN postedq :
          /\ postedq[i].tid = t /\ postedq[i].n = n /\ ~ postedq[i].done
          /\ postedq' = [postedq EXCEPT ![i].done = TRUE]
    /\ UNCHANGED <<queue, running, exitflag, is_completed, group_count, mpc, tid, qobj,
                   qcount, breakcount, threadSide>>
-----------------------------------------------------------------------------
(* Main *)

\* manager_cv.notify_one
Notified == IF mpc = "blocked" THEN "cvwait" ELSE mpc

managerButPc == <<tid, qobj, postedq, qcount, breakcount>>

\* run_thread_tasks with the queue: run_manager, in two steps, ...
RunManager ==
    /\ pc = "serial"
    /\ regions < MaxRegions
    /\ running' = TRUE
    /\ pc' = "notify"
    /\ UNCHANGED <<queue, exitflag, is_completed, group_count, workerVars, managerVars,
                   regions>>

NotifyManager ==
    /\ pc = "notify"
    /\ mpc' = Notified
    /\ pc' = "wake"
    /\ UNCHANGED <<queue, running, exitflag, is_completed, group_count, workerVars,
                   managerButPc, regions>>

\* ... then the threads ...
WakeThreads ==
    /\ pc = "wake"
    /\ wpc' = [t \in Threads |-> "task"]
    /\ exchanges' = [t \in Threads |-> 0]
    /\ pc' = "region"
    /\ UNCHANGED <<queue, running, exitflag, is_completed, group_count, kinds, kind,
                   next, frame, managerVars, regions>>

\* Mutation: main stops the manager when the first thread is done
StopManagerEarly ==
    /\ pc = "region"
    /\ \E t \in Threads : wpc[t] = "asleep"
    /\ running' = FALSE
    /\ pc' = "serial"
    /\ regions' = regions + 1
    /\ UNCHANGED <<queue, exitflag, is_completed, group_count, workerVars, managerVars>>

\* ... and stop_manager when all of them are done
StopManager ==
    /\ pc = "region"
    /\ \A t \in Threads : wpc[t] = "asleep"
    /\ running' = FALSE
    /\ pc' = "serial"
    /\ regions' = regions + 1
    /\ UNCHANGED <<queue, exitflag, is_completed, group_count, workerVars, managerVars>>

\* RmgTerminateThreads: set_exitflag, run_manager
SetExitflag ==
    /\ pc = "serial"
    /\ exitflag' = TRUE
    /\ pc' = "exit"
    /\ UNCHANGED <<queue, running, is_completed, group_count, workerVars, managerVars,
                   regions>>

RunManagerToExit ==
    /\ pc = "exit"
    /\ running' = TRUE
    /\ pc' = "bye"
    /\ UNCHANGED <<queue, exitflag, is_completed, group_count, workerVars, managerVars,
                   regions>>

NotifyManagerToExit ==
    /\ pc = "bye"
    /\ mpc' = Notified
    /\ pc' = "done"
    /\ UNCHANGED <<queue, running, exitflag, is_completed, group_count, workerVars,
                   managerButPc, regions>>

Main == \/ RunManager \/ NotifyManager \/ WakeThreads \/ StopManager
        \/ SetExitflag \/ RunManagerToExit \/ NotifyManagerToExit

\* main has gone on to the end of the program
Finished == pc = "done" /\ mpc = "returned" /\ UNCHANGED vars

Next == \/ \E t \in Threads : Thread(t)
        \/ Manager
        \/ \E t \in Threads, n \in Numbers : Complete(t, n)
        \/ Main
        \/ Finished

Spec == Init /\ [][Next]_vars

\* Each of them is a thread that the system schedules, and MPI makes progress on
\* what is posted as long as the manager tests.
Fairness == /\ \A t \in Threads : WF_vars(Thread(t))
            /\ WF_vars(Manager)
            /\ WF_vars(Main)
            /\ \A t \in Threads, n \in Numbers : WF_vars(Complete(t, n))

FairSpec == Spec /\ Fairness
-----------------------------------------------------------------------------
Posted(t) == {i \in DOMAIN postedq : postedq[i].tid = t}
InHand(t) == mpc \in {"mark", "count"} /\ qobj.tid = t

LiveFrame == InExchange(qobj.tid) /\ frame[qobj.tid] = qobj.frame

\* The manager writes to a flag or a count only while the call whose locals they
\* are has not returned.  For remap_3d, which does not wait for its count, that is
\* not so.
GroupsOutliveWrites ==
    mpc \in {"mark", "count"} /\ qobj.kind # "remap" => LiveFrame

\* No request is lost between the thread and its flag: neither queue is too small,
\* and what is polled in vain is polled again.
NoRequestLost ==
    /\ mpc # "full"
    /\ \A t \in Threads : InExchange(t) =>
          \A n \in 1..(next[t] - 1) :
              \/ n \in is_completed[t]
              \/ \E i \in DOMAIN queue[t] : queue[t][i].n = n
              \/ \E i \in Posted(t) : postedq[i].n = n
              \/ InHand(t) /\ qobj.n = n

\* The manager sleeps, or ends, only when it has no request in its hands; and
\* when main has stopped it there is none in the queues.
SleepsOnlyWhenIdle ==
    mpc \in {"cvwait", "blocking", "blocked", "returned"} =>
        /\ postedq = << >>
        /\ (~ running \/ mpc = "returned") => \A t \in Threads : queue[t] = << >>

\* A call returns only when MPI is done with every request of it, so that the
\* buffers may be used again.
ReturnsAfterCompletion ==
    [][\A t \in Threads :
         InExchange(t) /\ ~ InExchange(t)' => queue[t] = << >> /\ Posted(t) = {}]_vars

\* The manager sleeps, was told to run, and will not be told again.
WakeupLost == mpc = "blocked" /\ running /\ pc \notin {"notify", "bye"}

\* Every region ends, each exchange is served, and a lost wakeup is the only thing
\* that can keep it from its end.
OnlyLostWakeupStops == pc = "region" ~> pc = "serial" \/ WakeupLost

\* The manager does return at the end of the program, but for a lost wakeup.
ManagerReturns == exitflag ~> mpc = "returned" \/ WakeupLost
=============================================================================

-------------------------- MODULE GlobalSumsProof --------------------------
(***************************************************************************)
(* For every number of processes, threads, communicators, tasks, sums and  *)
(* regions: no reduction of GlobalSums is taken for another.               *)
(*                                                                         *)
(* In queue mode (QueueInv) the argument is that what each process begins  *)
(* on a communicator is a growing sequence without gaps: the sums of its   *)
(* orbitals by region, task and number.  So the sequences of two processes *)
(* agree as far as both go.  It needs that no two threads of a process use *)
(* a communicator at a time for different tasks: either the tasks begin    *)
(* with the barrier or every orbital of a region has its own.              *)
(*                                                                         *)
(* Without queue mode (BarrierInv) the k-th reduction of a process is the  *)
(* k-th sum of all its threads.                                            *)
(***************************************************************************)
EXTENDS GlobalSums, TLAPS

\* The orbital of a thread's r-th task
StateOf(w, r) == (r - 1) * active_threads + w[2]

\* The sums of that task that the thread has begun in this region
Done(w, r) == IF round[w] < r THEN 0
              ELSE IF round[w] > r \/ pc[w] = "idle" THEN NSums
              ELSE IF pc[w] \in {"start", "ask"} THEN n[w] - 1 ELSE n[w]

Summands == [region : Nat \ {0}, state : Nat, n : 1..NSums]
Single == [{0} -> Summands]

Before(e, f) ==
    \/ e.region < f.region
    \/ e.region = f.region /\ e.state < f.state
    \/ e.region = f.region /\ e.state = f.state /\ e.n < f.n

\* The sums of the orbitals that the threads work on ...
Sums == {e \in Summands : \E w \in Workers, r \in 1..rounds : e.state = StateOf(w, r)}

\* ... and those of them that the threads of p have asked for
AskedBy(e, w, r) ==
    /\ e.state = StateOf(w, r)
    /\ e.region < region[w[1]] \/ (e.region = region[w[1]] /\ e.n <= Done(w, r))

Asked(p) == {e \in Summands : \E t \in Threads, r \in 1..rounds : AskedBy(e, <<p, t>>, r)}

QueueType ==
    /\ rounds \in Nat \ {0}
    /\ region \in [Procs -> Nat \ {0}]
    /\ round \in [Workers -> 0..rounds] /\ n \in [Workers -> 1..NSums]
    /\ pc \in [Workers -> {"idle", "start", "ask", "posted", "summed"}]
    /\ met \in [Workers -> Nat] /\ place \in [Workers -> Nat]
    /\ begun \in [Procs -> [Comms -> Seq(Single)]]
    /\ vect \in [Workers -> SUBSET Summands]
    /\ \A w \in Workers : pc[w] # "idle" => round[w] >= 1

\* In paced regions the threads come to the barrier once in a task, and when one is
\* past it all have begun the task.
Paced ==
    paced => \A w \in Workers, u \in Workers : u[1] = w[1] =>
        /\ met[w] - round[w] = met[u] - round[u]
        /\ pc[w] \notin {"idle", "start"} => round[u] >= round[w]

\* On each communicator a process has begun the sums of its orbitals that the
\* threads have asked for ...
Recorded ==
    \A p \in Procs, c \in Comms :
        /\ \A k \in 1..Len(begun[p][c]) : /\ begun[p][c][k][0] \in Asked(p)
                                          /\ begun[p][c][k][0].state % PoolSize = c
        /\ \A e \in Asked(p) : e.state % PoolSize = c =>
               \E k \in 1..Len(begun[p][c]) : begun[p][c][k][0] = e

\* ... none of which has been passed over ...
Closed ==
    \A p \in Procs : \A f \in Asked(p), e \in Sums :
        Before(e, f) /\ e.state % PoolSize = f.state % PoolSize => e \in Asked(p)

\* ... one after the other ...
Increasing ==
    \A p \in Procs, c \in Comms : \A j, k \in 1..Len(begun[p][c]) :
        j < k => Before(begun[p][c][j][0], begun[p][c][k][0])

\* ... and so in the same order as any other process.
Agree ==
    \A p, q \in Procs, c \in Comms, k \in Nat \ {0} :
        k <= Len(begun[p][c]) /\ k <= Len(begun[q][c]) =>
            begun[p][c][k][0] = begun[q][c][k][0]

Waiting ==
    \A w \in Workers : pc[w] = "posted" =>
        /\ place[w] \in 1..Len(begun[w[1]][Comm(w)])
        /\ begun[w[1]][Comm(w)][place[w]][0] = Own(w)

QueueInv ==
    mpi_queue_mode /\ CommsSuffice =>
        /\ QueueType /\ Paced /\ Recorded /\ Closed /\ Increasing /\ Agree
        /\ Waiting /\ SumsMatch
-----------------------------------------------------------------------------
LEMMA SamePlace ==
    ASSUME NEW N \in Nat, NEW a \in Nat, NEW b \in Nat, NEW i \in 1..N, NEW j \in 1..N,
           a * N + i = b * N + j
    PROVE  a = b /\ i = j
<1>1. ASSUME NEW c \in Nat, NEW d \in Nat, NEW k \in 1..N, NEW l \in 1..N, c < d
      PROVE  c * N + k < d * N + l
  <2>1. PICK e \in Nat : d = c + 1 + e
    <3>1. d - c - 1 \in Nat /\ d = c + 1 + (d - c - 1)
      BY <1>1
    <3> QED
      BY <3>1
  <2>2. d * N = c * N + N + e * N
    BY <2>1
  <2>3. e * N \in Nat /\ c * N \in Nat
    OBVIOUS
  <2> QED
    BY <2>2, <2>3
<1>2. ~ (a < b)
  BY <1>1
<1>3. ~ (b < a)
  BY <1>1
<1>4. a = b
  BY <1>2, <1>3
<1>5. a * N \in Nat
  OBVIOUS
<1> QED
  BY <1>4, <1>5

LEMMA Remainder ==
    ASSUME NEW s \in Nat
    PROVE  s % PoolSize \in 0..(PoolSize - 1) /\ (s < PoolSize => s % PoolSize = s)
BY SumsAssumption

LEMMA StateOfIsNat ==
    ASSUME NEW w \in Workers, NEW r \in Nat \ {0}
    PROVE  StateOf(w, r) \in Nat
<1>1. w[2] \in Nat /\ active_threads \in Nat
  BY SumsAssumption DEF Workers, Threads
<1>2. (r - 1) * active_threads \in Nat
  BY <1>1
<1> QED
  BY <1>1, <1>2 DEF StateOf

\* Within a region an orbital is one task of one thread.
LEMMA SameOrbital ==
    ASSUME NEW u \in Workers, NEW w \in Workers, NEW r \in Nat \ {0}, NEW s \in Nat \ {0},
           StateOf(u, r) = StateOf(w, s)
    PROVE  r = s /\ u[2] = w[2]
<1> DEFINE a == r - 1
           b == s - 1
           i == u[2] + 1
           j == w[2] + 1
<1>1. u[2] \in 0..(active_threads - 1) /\ w[2] \in 0..(active_threads - 1) /\ active_threads \in Nat
  BY SumsAssumption DEF Workers, Threads
<1>2. a \in Nat /\ b \in Nat /\ i \in 1..active_threads /\ j \in 1..active_threads
  BY <1>1
<1>3. a * active_threads \in Nat /\ b * active_threads \in Nat
  BY <1>1, <1>2
<1>4. a * active_threads + i = b * active_threads + j
  BY <1>1, <1>3 DEF StateOf
<1>5. a = b /\ i = j
  <2> HIDE DEF a, b, i, j
  <2> QED
    BY <1>1, <1>2, <1>4, SamePlace
<1> QED
  BY <1>1, <1>5

\* Two orbitals on one communicator are at least the size of the pool apart.
LEMMA Apart ==
    ASSUME NEW a \in Nat, NEW b \in Nat, a < b, a % PoolSize = b % PoolSize
    PROVE  b - a >= PoolSize
<1>1. PoolSize \in Nat \ {0}
  BY SumsAssumption
<1>2. PICK i \in Int : a = i * PoolSize + (a % PoolSize)
  <2>1. a = (a \div PoolSize) * PoolSize + (a % PoolSize) /\ a \div PoolSize \in Int
    BY <1>1
  <2> QED
    BY <2>1
<1>3. PICK j \in Int : b = j * PoolSize + (b % PoolSize)
  <2>1. b = (b \div PoolSize) * PoolSize + (b % PoolSize) /\ b \div PoolSize \in Int
    BY <1>1
  <2> QED
    BY <2>1
<1>4. b - a = (j - i) * PoolSize
  BY <1>1, <1>2, <1>3
<1>5. ~ (j - i =< 0)
  <2> SUFFICES ASSUME i - j \in Nat PROVE FALSE
    OBVIOUS
  <2>1. (i - j) * PoolSize \in Nat
    BY <1>1
  <2>2. a - b = (i - j) * PoolSize
    BY <1>1, <1>2, <1>3
  <2> QED
    BY <2>1, <2>2
<1>6. PICK m \in Nat : j - i = 1 + m
  <2>1. j - i - 1 \in Nat /\ j - i = 1 + (j - i - 1)
    BY <1>5
  <2> QED
    BY <2>1
<1>7. (j - i) * PoolSize = PoolSize + m * PoolSize /\ m * PoolSize \in Nat
  BY <1>1, <1>6
<1> QED
  BY <1>1, <1>4, <1>7

\* The earlier of two orbitals on one communicator belongs to an earlier task, of
\* whatever thread, and there are none when the communicators suffice for the region.
LEMMA EarlierTask ==
    ASSUME rounds \in Nat \ {0}, NEW u \in Workers, NEW w \in Workers,
           NEW s \in 1..rounds, NEW r \in 1..rounds,
           StateOf(u, s) < StateOf(w, r),
           StateOf(u, s) % PoolSize = StateOf(w, r) % PoolSize
    PROVE  s < r /\ ~ (rounds * active_threads <= PoolSize)
<1> DEFINE N == active_threads
           a == (s - 1) * N
           b == (r - 1) * N
           c == (rounds - r) * N
<1>1. /\ u[2] \in 0..(N - 1) /\ w[2] \in 0..(N - 1) /\ N \in Nat \ {0} /\ PoolSize \in Nat \ {0}
      /\ N <= PoolSize
  BY SumsAssumption DEF Workers, Threads
<1>2. StateOf(u, s) = a + u[2] /\ StateOf(w, r) = b + w[2]
  BY DEF StateOf
<1>3. a \in Nat /\ b \in Nat /\ c \in Nat
  BY <1>1
<1>4. rounds * N = b + N + c
  BY <1>1
<1>5. StateOf(w, r) - StateOf(u, s) >= PoolSize
  <2>1. StateOf(u, s) \in Nat /\ StateOf(w, r) \in Nat
    BY StateOfIsNat
  <2> QED
    BY <2>1, Apart
<1>6. s < r
  <2> SUFFICES ASSUME ~ (s < r) PROVE FALSE
    OBVIOUS
  <2>1. s - r \in Nat
    OBVIOUS
  <2>2. a = b + (s - r) * N /\ (s - r) * N \in Nat
    BY <1>1, <2>1
  <2> DEFINE d == (s - r) * N
  <2>3. a = b + d /\ d \in Nat
    BY <2>2
  <2> DEFINE x == u[2]
             y == w[2]
             later == StateOf(w, r)
             earlier == StateOf(u, s)
  <2>4. /\ later = b + y /\ earlier = a + x /\ later - earlier >= PoolSize
        /\ x \in 0..(N - 1) /\ y \in 0..(N - 1)
    BY <1>1, <1>2, <1>5
  <2> HIDE DEF a, b, d, x, y, later, earlier
  <2> QED
    BY <1>1, <1>3, <2>3, <2>4
<1>7. ~ (rounds * N <= PoolSize)
  <2> HIDE DEF a, b, c
  <2> QED
    BY <1>1, <1>2, <1>3, <1>4, <1>5
<1> QED
  BY <1>6, <1>7

LEMMA Order ==
    /\ \A e \in Summands, f \in Summands : Before(e, f) \/ Before(f, e) \/ e = f
    /\ \A e \in Summands : ~ Before(e, e)
    /\ \A e \in Summands, f \in Summands : ~ (Before(e, f) /\ Before(f, e))
BY DEF Summands, Before

\* The orbital of a thread and its communicator
LEMMA OwnIs ==
    ASSUME mpi_queue_mode, QueueType, NEW w \in Workers
    PROVE  /\ w[1] \in Procs /\ w[2] \in Threads /\ w = <<w[1], w[2]>>
           /\ pc[w] # "idle" =>
                /\ round[w] \in 1..rounds
                /\ State(w) = StateOf(w, round[w]) /\ State(w) \in Nat
                /\ Comm(w) \in Comms /\ Comm(w) = State(w) % PoolSize
                /\ Own(w) \in Summands
                /\ Own(w).region = region[w[1]] /\ Own(w).state = State(w) /\ Own(w).n = n[w]
<1>1. w[1] \in Procs /\ w[2] \in Threads /\ w = <<w[1], w[2]>>
  BY DEF Workers
<1>2. ASSUME pc[w] # "idle"
      PROVE  /\ round[w] \in 1..rounds
             /\ State(w) = StateOf(w, round[w]) /\ State(w) \in Nat
             /\ Comm(w) \in Comms /\ Comm(w) = State(w) % PoolSize
             /\ Own(w) \in Summands
             /\ Own(w).region = region[w[1]] /\ Own(w).state = State(w) /\ Own(w).n = n[w]
  <2>1. round[w] \in 1..rounds /\ rounds \in Nat \ {0} /\ n[w] \in 1..NSums /\ region[w[1]] \in Nat \ {0}
    BY <1>1, <1>2 DEF QueueType
  <2>2. State(w) = StateOf(w, round[w])
    BY DEF State, StateOf
  <2>3. State(w) \in Nat
    BY <2>1, <2>2, StateOfIsNat
  <2>4. Comm(w) = State(w) % PoolSize
    BY DEF Comm, UniqueComm
  <2>5. Comm(w) \in Comms
    BY <2>3, <2>4, Remainder, SumsAssumption DEF Comms
  <2>6. Own(w) = [region |-> region[w[1]], state |-> State(w), n |-> n[w]]
    BY DEF Own
  <2> QED
    BY <2>1, <2>2, <2>3, <2>4, <2>5, <2>6 DEF Summands
<1> QED
  BY <1>1, <1>2

LEMMA InitQueueInv == Init => QueueInv
<1> SUFFICES ASSUME Init, mpi_queue_mode
             PROVE  /\ QueueType /\ Paced /\ Recorded /\ Closed /\ Increasing /\ Agree
                    /\ Waiting /\ SumsMatch
  BY DEF QueueInv
<1> USE SumsAssumption
<1>1. QueueType
  <2>1. << >> \in Seq(Single)
    OBVIOUS
  <2>2. begun \in [Procs -> [Comms -> Seq(Single)]]
    BY <2>1 DEF Init
  <2> QED
    BY <2>2 DEF QueueType, Init
<1>2. \A w \in Workers : pc[w] = "idle" /\ round[w] = 0 /\ met[w] = 0 /\ region[w[1]] = 1
  BY DEF Workers, Init
<1>3. \A p \in Procs, c \in Comms : begun[p][c] = << >>
  BY DEF Init
<1>4. \A p \in Procs : Asked(p) = {}
  <2> SUFFICES ASSUME NEW p \in Procs, NEW e \in Summands, NEW t \in Threads, NEW r \in 1..rounds,
                      AskedBy(e, <<p, t>>, r)
               PROVE  FALSE
    BY DEF Asked
  <2>1. <<p, t>> \in Workers /\ <<p, t>>[1] = p
    BY DEF Workers
  <2>2. Done(<<p, t>>, r) = 0 /\ region[p] = 1
    BY <1>2, <2>1 DEF Done
  <2>3. e.region \in Nat \ {0} /\ e.n \in Nat \ {0}
    BY DEF Summands
  <2> QED
    BY <2>1, <2>2, <2>3 DEF AskedBy
<1>5. Recorded /\ Closed /\ Increasing /\ Agree
  BY <1>3, <1>4 DEF Recorded, Closed, Increasing, Agree
<1>6. Paced /\ Waiting /\ SumsMatch
  BY <1>2 DEF Paced, Waiting, SumsMatch
<1> QED
  BY <1>1, <1>5, <1>6

\* A step that begins no reduction, and changes what the threads are at without
\* changing what they have asked for
LEMMA NothingBegun ==
    ASSUME QueueType, Recorded, Closed, Increasing, Agree, UNCHANGED <<params, begun>>,
           \A e \in Summands, w \in Workers, r \in 1..rounds : AskedBy(e, w, r)' = AskedBy(e, w, r)
    PROVE  Recorded' /\ Closed' /\ Increasing' /\ Agree'
<1> USE DEF params
<1>1. \A p \in Procs : Asked(p)' = Asked(p)
  <2> SUFFICES ASSUME NEW p \in Procs, NEW e \in Summands, NEW t \in Threads, NEW r \in 1..rounds
               PROVE  AskedBy(e, <<p, t>>, r)' = AskedBy(e, <<p, t>>, r)
    BY DEF Asked
  <2>1. <<p, t>> \in Workers
    BY DEF Workers
  <2> QED
    BY <2>1
<1>2. Sums' = Sums
  BY DEF Sums, StateOf
<1>3. Recorded' /\ Closed'
  BY <1>1, <1>2 DEF Recorded, Closed, Before
<1>4. Increasing' /\ Agree'
  BY DEF Increasing, Agree, Before
<1> QED
  BY <1>3, <1>4

LEMMA SameDone ==
    ASSUME UNCHANGED <<params, region>>,
           \A w \in Workers, r \in 1..rounds : Done(w, r)' = Done(w, r)
    PROVE  \A e \in Summands, w \in Workers, r \in 1..rounds : AskedBy(e, w, r)' = AskedBy(e, w, r)
BY DEF AskedBy, StateOf

\* ... and that has no thread at its reduction that was not there before
LEMMA NothingAwaited ==
    ASSUME Waiting, SumsMatch, UNCHANGED <<begun, place, vect>>,
           \A u \in Workers : pc'[u] \in {"posted", "summed"} =>
               pc[u] = pc'[u] /\ Own(u)' = Own(u) /\ Comm(u)' = Comm(u)
    PROVE  Waiting' /\ SumsMatch'
<1>1. Waiting'
  BY DEF Waiting
<1>2. SumsMatch'
  BY DEF SumsMatch
<1> QED
  BY <1>1, <1>2

LEMMA TakeStep ==
    ASSUME mpi_queue_mode, CommsSuffice, QueueInv, NEW w \in Workers, Take(w)
    PROVE  QueueInv'
<1> USE SumsAssumption
<1>1. /\ UNCHANGED <<params, region, begun, place, vect>>
      /\ pc[w] = "idle" /\ round[w] < rounds
      /\ round' = [round EXCEPT ![w] = @ + 1] /\ n' = [n EXCEPT ![w] = 1]
      /\ \/ /\ paced /\ met' = [met EXCEPT ![w] = @ + 1]
            /\ pc' = [pc EXCEPT ![w] = "start"]
         \/ ~ paced /\ met' = met /\ pc' = [pc EXCEPT ![w] = "ask"]
  BY DEF Take, Goto, vectors
<1>2. QueueType /\ Paced /\ Recorded /\ Closed /\ Increasing /\ Agree /\ Waiting /\ SumsMatch
  BY DEF QueueInv
<1>3. QueueType'
  <2>1. met' \in [Workers -> Nat]
    <3>1. CASE met' = met
      BY <1>2, <3>1 DEF QueueType
    <3>2. CASE met' = [met EXCEPT ![w] = @ + 1]
      BY <1>2, <3>2 DEF QueueType
    <3> QED
      BY <1>1, <3>1, <3>2
  <2>2. pc' \in [Workers -> {"idle", "start", "ask", "posted", "summed"}]
    BY <1>1, <1>2 DEF QueueType
  <2>3. round' \in [Workers -> 0..rounds] /\ n' \in [Workers -> 1..NSums]
    BY <1>1, <1>2 DEF QueueType
  <2>4. \A u \in Workers : pc'[u] # "idle" => round'[u] >= 1
    BY <1>1, <1>2 DEF QueueType
  <2> QED
    BY <1>1, <1>2, <2>1, <2>2, <2>3, <2>4 DEF QueueType, params
<1>4. /\ \A u \in Workers \ {w} : /\ pc'[u] = pc[u] /\ round'[u] = round[u] /\ n'[u] = n[u]
                                  /\ met'[u] = met[u]
      /\ pc'[w] \in {"start", "ask"} /\ round'[w] = round[w] + 1 /\ n'[w] = 1
      /\ paced => met'[w] = met[w] + 1 /\ pc'[w] = "start"
  BY <1>1, <1>2 DEF QueueType
<1>5. \A u \in Workers, r \in 1..rounds : Done(u, r)' = Done(u, r)
  BY <1>1, <1>2, <1>4 DEF Done, QueueType
<1>6. Recorded' /\ Closed' /\ Increasing' /\ Agree'
  BY <1>1, <1>2, <1>5, SameDone, NothingBegun
<1>7. Paced'
  <2> SUFFICES ASSUME paced, NEW v \in Workers, NEW u \in Workers, u[1] = v[1]
               PROVE  /\ met'[v] - round'[v] = met'[u] - round'[u]
                      /\ pc'[v] \notin {"idle", "start"} => round'[u] >= round'[v]
    BY <1>1 DEF Paced, params
  <2>1. /\ met[v] - round[v] = met[u] - round[u]
        /\ pc[v] \notin {"idle", "start"} => round[u] >= round[v]
    BY <1>2 DEF Paced
  <2>2. met[v] \in Nat /\ met[u] \in Nat
    BY <1>2 DEF QueueType
  <2>3. round[v] \in Nat /\ round[u] \in Nat
    BY <1>2 DEF QueueType
  <2>4. met'[v] - round'[v] = met[v] - round[v]
    BY <1>4, <2>2, <2>3
  <2>5. met'[u] - round'[u] = met[u] - round[u]
    BY <1>4, <2>2, <2>3
  <2>6. round'[u] >= round[u]
    BY <1>4, <2>3
  <2>7. pc'[v] \notin {"idle", "start"} => pc'[v] = pc[v] /\ round'[v] = round[v]
    BY <1>4
  <2> QED
    BY <1>4, <2>1, <2>3, <2>4, <2>5, <2>6, <2>7
<1>8. \A u \in Workers : pc'[u] \in {"posted", "summed"} =>
          pc[u] = pc'[u] /\ Own(u)' = Own(u) /\ Comm(u)' = Comm(u)
  BY <1>1, <1>4 DEF params, Own, State, Comm, UniqueComm
<1>9. Waiting' /\ SumsMatch'
  BY <1>1, <1>2, <1>8, NothingAwaited
<1> QED
  BY <1>3, <1>6, <1>7, <1>9 DEF QueueInv

LEMMA StartStep ==
    ASSUME mpi_queue_mode, CommsSuffice, QueueInv, NEW w \in Workers, Start(w)
    PROVE  QueueInv'
<1> USE SumsAssumption
<1>1. /\ UNCHANGED <<params, region, round, n, met, begun, place, vect>>
      /\ pc[w] = "start" /\ Met(w) /\ pc' = [pc EXCEPT ![w] = "ask"]
  BY DEF Start, Goto, task, vectors
<1>2. QueueType /\ Paced /\ Recorded /\ Closed /\ Increasing /\ Agree /\ Waiting /\ SumsMatch
  BY DEF QueueInv
<1>3. QueueType'
  BY <1>1, <1>2 DEF QueueType, params
<1>4. pc'[w] = "ask" /\ \A u \in Workers \ {w} : pc'[u] = pc[u]
  BY <1>1, <1>2 DEF QueueType
<1>5. \A u \in Workers, r \in 1..rounds : Done(u, r)' = Done(u, r)
  BY <1>1, <1>2, <1>4 DEF Done, QueueType
<1>6. Recorded' /\ Closed' /\ Increasing' /\ Agree'
  BY <1>1, <1>2, <1>5, SameDone, NothingBegun
<1>7. Paced'
  <2> SUFFICES ASSUME paced, NEW u \in Workers, u[1] = w[1] PROVE round[u] >= round[w]
    BY <1>1, <1>2, <1>4 DEF Paced, params
  <2>1. met[u] >= met[w]
    BY <1>1 DEF Met, Workers
  <2>2. met[w] - round[w] = met[u] - round[u]
    BY <1>2 DEF Paced
  <2>3. met[u] \in Nat /\ met[w] \in Nat /\ round[u] \in Nat /\ round[w] \in Nat
    BY <1>2 DEF QueueType
  <2> QED
    BY <2>1, <2>2, <2>3
<1>8. \A u \in Workers : pc'[u] \in {"posted", "summed"} =>
          pc[u] = pc'[u] /\ Own(u)' = Own(u) /\ Comm(u)' = Comm(u)
  BY <1>1, <1>4 DEF params, Own, State, Comm, UniqueComm
<1>9. Waiting' /\ SumsMatch'
  BY <1>1, <1>2, <1>8, NothingAwaited
<1> QED
  BY <1>3, <1>6, <1>7, <1>9 DEF QueueInv

LEMMA GoOnStep ==
    ASSUME mpi_queue_mode, CommsSuffice, QueueInv, NEW w \in Workers, GoOn(w)
    PROVE  QueueInv'
<1> USE SumsAssumption
<1>1. /\ UNCHANGED <<params, region, round, met, begun, place, vect>>
      /\ pc[w] = "summed"
      /\ \/ /\ n[w] < NSums /\ n' = [n EXCEPT ![w] = @ + 1]
            /\ pc' = [pc EXCEPT ![w] = "ask"]
         \/ /\ ~ (n[w] < NSums) /\ n' = n
            /\ pc' = [pc EXCEPT ![w] = "idle"]
  BY DEF GoOn, Goto, vectors
<1>2. QueueType /\ Paced /\ Recorded /\ Closed /\ Increasing /\ Agree /\ Waiting /\ SumsMatch
  BY DEF QueueInv
<1>3. QueueType'
  <2>1. n' \in [Workers -> 1..NSums]
    <3>1. CASE n[w] < NSums /\ n' = [n EXCEPT ![w] = @ + 1]
      <4>1. n[w] + 1 \in 1..NSums
        BY <1>2, <3>1 DEF QueueType
      <4> QED
        BY <1>2, <3>1, <4>1 DEF QueueType
    <3>2. CASE n' = n
      BY <1>2, <3>2 DEF QueueType
    <3> QED
      BY <1>1, <3>1, <3>2
  <2>2. /\ pc' \in [Workers -> {"idle", "start", "ask", "posted", "summed"}]
        /\ \A u \in Workers : pc'[u] # "idle" => pc[u] # "idle"
    BY <1>1, <1>2 DEF QueueType
  <2> QED
    BY <1>1, <1>2, <2>1, <2>2 DEF QueueType, params
<1>4. \A u \in Workers \ {w} : pc'[u] = pc[u] /\ n'[u] = n[u]
  BY <1>1, <1>2 DEF QueueType
<1>5. pc'[w] \in {"ask", "idle"}
  BY <1>1, <1>2 DEF QueueType
<1>6. \A u \in Workers, r \in 1..rounds : Done(u, r)' = Done(u, r)
  BY <1>1, <1>2 DEF Done, QueueType
<1>7. Recorded' /\ Closed' /\ Increasing' /\ Agree'
  BY <1>1, <1>2, <1>6, SameDone, NothingBegun
<1>8. Paced'
  BY <1>1, <1>2, <1>4 DEF Paced, params
<1>9. \A u \in Workers : pc'[u] \in {"posted", "summed"} =>
           pc[u] = pc'[u] /\ Own(u)' = Own(u) /\ Comm(u)' = Comm(u)
  BY <1>1, <1>4, <1>5 DEF params, Own, State, Comm, UniqueComm
<1>10. Waiting' /\ SumsMatch'
  BY <1>1, <1>2, <1>9, NothingAwaited
<1> QED
  BY <1>3, <1>7, <1>8, <1>10 DEF QueueInv

LEMMA NextRegionStep ==
    ASSUME mpi_queue_mode, CommsSuffice, QueueInv, NEW p \in Procs, NextRegion(p)
    PROVE  QueueInv'
<1> USE SumsAssumption
<1>1. /\ UNCHANGED <<params, n, pc, met, begun, place, vect>>
      /\ \A t \in Threads : pc[<<p, t>>] = "idle" /\ round[<<p, t>>] = rounds
      /\ region' = [region EXCEPT ![p] = @ + 1]
      /\ round' = [w \in Workers |-> IF w[1] = p THEN 0 ELSE round[w]]
  BY DEF NextRegion, vectors
<1>2. QueueType /\ Paced /\ Recorded /\ Closed /\ Increasing /\ Agree /\ Waiting /\ SumsMatch
  BY DEF QueueInv
<1>3. \A w \in Workers : w[1] = p => pc[w] = "idle" /\ round[w] = rounds /\ round'[w] = 0
  BY <1>1 DEF Workers
<1>4. \A w \in Workers : w[1] # p => round'[w] = round[w] /\ region'[w[1]] = region[w[1]]
  BY <1>1, <1>2 DEF Workers, QueueType
<1>5. QueueType'
  <2>1. region' \in [Procs -> Nat \ {0}] /\ round' \in [Workers -> 0..rounds]
    BY <1>1, <1>2 DEF QueueType
  <2>2. \A w \in Workers : pc[w] # "idle" => round'[w] >= 1
    BY <1>2, <1>3, <1>4 DEF QueueType
  <2> QED
    BY <1>1, <1>2, <2>1, <2>2 DEF QueueType, params
<1>6. ASSUME NEW e \in Summands, NEW w \in Workers, NEW r \in 1..rounds
      PROVE  AskedBy(e, w, r)' = AskedBy(e, w, r)
  <2>1. StateOf(w, r)' = StateOf(w, r)
    BY DEF StateOf
  <2>2. CASE w[1] = p
    <3>1. Done(w, r) = NSums /\ Done(w, r)' = 0
      BY <1>2, <1>3, <2>2 DEF Done, QueueType
    <3>2. region'[w[1]] = region[w[1]] + 1 /\ region[w[1]] \in Nat \ {0}
      BY <1>1, <1>2, <2>2 DEF QueueType
    <3>3. e.region \in Nat \ {0} /\ e.n \in 1..NSums
      BY DEF Summands
    <3> QED
      BY <2>1, <3>1, <3>2, <3>3 DEF AskedBy
  <2>3. CASE w[1] # p
    BY <1>1, <1>4, <2>1, <2>3 DEF AskedBy, Done
  <2> QED
    BY <2>2, <2>3
<1>7. Recorded' /\ Closed' /\ Increasing' /\ Agree'
  BY <1>1, <1>2, <1>6, NothingBegun
<1>8. Paced'
  <2> SUFFICES ASSUME paced, NEW w \in Workers, NEW u \in Workers, u[1] = w[1]
               PROVE  /\ met[w] - round'[w] = met[u] - round'[u]
                      /\ pc[w] \notin {"idle", "start"} => round'[u] >= round'[w]
    BY <1>1 DEF Paced, params
  <2>1. CASE w[1] = p
    <3>1. met[w] - rounds = met[u] - rounds
      BY <1>2, <1>3, <2>1 DEF Paced
    <3>2. met[w] \in Nat /\ met[u] \in Nat /\ rounds \in Nat
      BY <1>2 DEF QueueType
    <3> QED
      BY <1>3, <2>1, <3>1, <3>2
  <2>2. CASE w[1] # p
    BY <1>2, <1>4, <2>2 DEF Paced
  <2> QED
    BY <2>1, <2>2
<1>9. \A u \in Workers : pc'[u] \in {"posted", "summed"} =>
           pc[u] = pc'[u] /\ Own(u)' = Own(u) /\ Comm(u)' = Comm(u)
  BY <1>1, <1>3, <1>4 DEF params, Own, State, Comm, UniqueComm
<1>10. Waiting' /\ SumsMatch'
  BY <1>1, <1>2, <1>9, NothingAwaited
<1> QED
  BY <1>5, <1>7, <1>8, <1>10 DEF QueueInv

\* The sum that a thread is about to ask for is the only one that its process has
\* asked for after the step and not before ...
LEMMA PostAsks ==
    ASSUME mpi_queue_mode, QueueType, NEW w \in Workers, Post(w)
    PROVE  /\ Sums' = Sums /\ Own(w) \in Sums
           /\ Own(w) \notin Asked(w[1])
           /\ Asked(w[1])' = Asked(w[1]) \cup {Own(w)}
           /\ \A q \in Procs \ {w[1]} : Asked(q)' = Asked(q)
<1> USE SumsAssumption
<1>1. /\ UNCHANGED <<params, region, round, n>>
      /\ pc[w] = "ask" /\ pc' = [pc EXCEPT ![w] = "posted"]
  BY DEF Post, Goto, task
<1>2. /\ w[1] \in Procs /\ w[2] \in Threads /\ w = <<w[1], w[2]>> /\ round[w] \in 1..rounds
      /\ State(w) = StateOf(w, round[w]) /\ Own(w) \in Summands
      /\ Own(w).region = region[w[1]] /\ Own(w).state = State(w) /\ Own(w).n = n[w]
  BY <1>1, OwnIs
<1>3. rounds' = rounds /\ \A u \in Workers, r \in 1..rounds : StateOf(u, r)' = StateOf(u, r)
  BY <1>1 DEF params, StateOf
<1>4. Sums' = Sums /\ Own(w) \in Sums
  BY <1>2, <1>3 DEF Sums
<1>5. /\ Done(w, round[w]) = n[w] - 1 /\ Done(w, round[w])' = n[w]
      /\ n[w] \in Nat /\ region[w[1]] \in Nat
      /\ \A u \in Workers, r \in 1..rounds :
             ~ (u = w /\ r = round[w]) => Done(u, r)' = Done(u, r)
  <2>1. pc'[w] = "posted" /\ \A u \in Workers \ {w} : pc'[u] = pc[u]
    BY <1>1, QueueType DEF QueueType
  <2>2. n[w] \in Nat /\ region[w[1]] \in Nat /\ \A u \in Workers : round[u] \in Nat
    BY <1>2 DEF QueueType
  <2>3. ASSUME NEW u \in Workers, NEW r \in 1..rounds, ~ (u = w /\ r = round[w])
        PROVE  Done(u, r)' = Done(u, r)
    <3>1. CASE u # w
      BY <1>1, <2>1, <3>1 DEF Done
    <3>2. CASE u = w /\ r # round[w]
      BY <1>1, <2>2, <3>2 DEF Done
    <3> QED
      BY <2>3, <3>1, <3>2
  <2>4. Done(w, round[w]) = n[w] - 1 /\ Done(w, round[w])' = n[w]
    BY <1>1, <2>1, <2>2 DEF Done
  <2> QED
    BY <2>2, <2>3, <2>4
<1>6. ASSUME NEW e \in Summands, NEW u \in Workers, NEW r \in 1..rounds
      PROVE  AskedBy(e, u, r)' <=> (AskedBy(e, u, r) \/ (u = w /\ r = round[w] /\ e = Own(w)))
  <2>1. CASE ~ (u = w /\ r = round[w])
    BY <1>1, <1>3, <1>5, <2>1 DEF AskedBy
  <2>2. CASE u = w /\ r = round[w]
    <3>1. AskedBy(e, w, r)' <=> /\ e.state = State(w)
                                /\ e.region < region[w[1]] \/ (e.region = region[w[1]] /\ e.n <= n[w])
      BY <1>1, <1>2, <1>3, <1>5, <2>2 DEF AskedBy
    <3>2. AskedBy(e, w, r) <=> /\ e.state = State(w)
                               /\ e.region < region[w[1]] \/ (e.region = region[w[1]] /\ e.n <= n[w] - 1)
      BY <1>2, <1>5, <2>2 DEF AskedBy
    <3>3. e = Own(w) <=> e.state = State(w) /\ e.region = region[w[1]] /\ e.n = n[w]
      BY <1>2 DEF Summands
    <3>4. e.n \in Nat /\ e.region \in Nat
      BY DEF Summands
    <3> QED
      BY <1>5, <2>2, <3>1, <3>2, <3>3, <3>4
  <2> QED
    BY <2>1, <2>2
<1>7. ASSUME NEW e \in Summands, NEW q \in Procs
      PROVE  (e \in Asked(q))' <=> (e \in Asked(q) \/ (q = w[1] /\ e = Own(w)))
  <2>1. (e \in Asked(q))' <=> \E t \in Threads, r \in 1..rounds : AskedBy(e, <<q, t>>, r)'
    BY <1>3 DEF Asked
  <2>2. e \in Asked(q) <=> \E t \in Threads, r \in 1..rounds : AskedBy(e, <<q, t>>, r)
    BY DEF Asked
  <2>3. \A t \in Threads : <<q, t>> \in Workers /\ (<<q, t>> = w <=> q = w[1] /\ t = w[2])
    BY <1>2 DEF Workers
  <2>4. \A t \in Threads, r \in 1..rounds :
            AskedBy(e, <<q, t>>, r)' <=>
                (AskedBy(e, <<q, t>>, r) \/ (q = w[1] /\ t = w[2] /\ r = round[w] /\ e = Own(w)))
    BY <1>6, <2>3
  <2> QED
    BY <1>2, <2>1, <2>2, <2>4
<1>8. Own(w) \notin Asked(w[1])
  <2> SUFFICES ASSUME NEW t \in Threads, NEW r \in 1..rounds, AskedBy(Own(w), <<w[1], t>>, r)
               PROVE  FALSE
    BY DEF Asked
  <2>1. <<w[1], t>> \in Workers /\ <<w[1], t>>[1] = w[1] /\ <<w[1], t>>[2] = t
    BY <1>2 DEF Workers
  <2>2. State(w) = StateOf(<<w[1], t>>, r)
    BY <1>2 DEF AskedBy
  <2>3. rounds \in Nat
    BY DEF QueueType
  <2>4. r \in Nat \ {0} /\ round[w] \in Nat \ {0}
    BY <1>2, <2>3
  <2>5. r = round[w] /\ t = w[2]
    <3> DEFINE u == <<w[1], t>>
    <3>1. u \in Workers /\ u[2] = t /\ StateOf(u, r) = StateOf(w, round[w])
      BY <1>2, <2>1, <2>2
    <3> HIDE DEF u
    <3>2. r = round[w] /\ u[2] = w[2]
      BY <2>4, <3>1, SameOrbital
    <3> QED
      BY <3>1, <3>2
  <2>6. AskedBy(Own(w), w, round[w])
    BY <1>2, <2>5
  <2> QED
    BY <1>2, <1>5, <2>6 DEF AskedBy
<1>9. \A q \in Procs : Asked(q) \subseteq Summands /\ Asked(q)' \subseteq Summands
  BY DEF Asked
<1> QED
  BY <1>2, <1>4, <1>7, <1>8, <1>9

\* ... and its process has asked for all that come before it on the communicator.
LEMMA NothingSkipped ==
    ASSUME mpi_queue_mode, CommsSuffice, QueueInv, NEW w \in Workers, pc[w] = "ask",
           NEW f \in Sums, Before(f, Own(w)), f.state % PoolSize = Own(w).state % PoolSize
    PROVE  f \in Asked(w[1])
<1> USE SumsAssumption
<1>1. QueueType /\ Paced
  BY DEF QueueInv
<1>2. /\ w[1] \in Procs /\ w[2] \in Threads /\ w = <<w[1], w[2]>> /\ round[w] \in 1..rounds
      /\ State(w) = StateOf(w, round[w])
      /\ Own(w).region = region[w[1]] /\ Own(w).state = State(w) /\ Own(w).n = n[w]
  BY <1>1, OwnIs
<1>3. PICK v \in Workers, s \in 1..rounds : f.state = StateOf(v, s)
  BY DEF Sums
<1>4. f \in Summands /\ f.region \in Nat /\ f.state \in Nat /\ f.n \in 1..NSums
  BY DEF Sums, Summands
<1> DEFINE u == <<w[1], v[2]>>
<1>5. u \in Workers /\ u[1] = w[1] /\ u[2] = v[2] /\ v[2] \in Threads
  BY <1>2 DEF Workers
<1>6. StateOf(u, s) = f.state
  BY <1>3, <1>5 DEF StateOf
<1>7. AskedBy(f, u, s) => f \in Asked(w[1])
  BY <1>4, <1>5 DEF Asked
<1> HIDE DEF u
<1>8. rounds \in Nat \ {0} /\ round[u] \in Nat /\ round[w] \in Nat /\ n[w] \in Nat
  BY <1>1, <1>5 DEF QueueType
<1>9. CASE f.region < region[w[1]]
  BY <1>5, <1>6, <1>7, <1>9 DEF AskedBy
<1>10. CASE f.region = region[w[1]] /\ f.state < State(w)
  <2>1. s < round[w] /\ ~ (rounds * active_threads <= PoolSize)
    BY <1>2, <1>5, <1>6, <1>8, <1>10, EarlierTask
  <2>2. paced
    BY <2>1 DEF CommsSuffice
  <2>3. round[u] >= round[w]
    BY <1>1, <1>5, <2>2 DEF Paced
  <2>4. Done(u, s) = NSums
    BY <1>8, <2>1, <2>3 DEF Done
  <2> QED
    BY <1>4, <1>5, <1>6, <1>7, <1>10, <2>4 DEF AskedBy
<1>11. CASE f.region = region[w[1]] /\ f.state = State(w) /\ f.n < n[w]
  <2>1. s = round[w] /\ u[2] = w[2]
    BY <1>2, <1>5, <1>6, <1>11, SameOrbital
  <2>2. u = w
    BY <1>2, <1>5, <2>1 DEF Workers
  <2>3. Done(u, s) = n[w] - 1
    BY <1>8, <2>1, <2>2 DEF Done
  <2> QED
    BY <1>4, <1>5, <1>6, <1>7, <1>8, <1>11, <2>3 DEF AskedBy
<1> QED
  BY <1>2, <1>9, <1>10, <1>11 DEF Before

\* The manager begins a reduction: it comes after all those on the communicator, and
\* another process that has gone as far has begun the same.
LEMMA PostStep ==
    ASSUME mpi_queue_mode, CommsSuffice, QueueInv, NEW w \in Workers, Post(w)
    PROVE  QueueInv'
<1> USE SumsAssumption
<1> DEFINE p == w[1]
           c == Comm(w)
           e == Own(w)
           list == begun[p][c]
           sum == [i \in {0} |-> e]
           row == [begun[p] EXCEPT ![c] = Append(list, sum)]
<1>1. /\ UNCHANGED <<params, region, round, n, met, vect>>
      /\ pc[w] = "ask" /\ pc' = [pc EXCEPT ![w] = "posted"]
      /\ place' = [place EXCEPT ![w] = Len(list) + 1]
  BY DEF Post, Begin, Goto, task, vectors
<1>2. begun' = [begun EXCEPT ![p] = row]
  BY DEF Post, Begin
<1>3. QueueType /\ Paced /\ Recorded /\ Closed /\ Increasing /\ Agree /\ Waiting /\ SumsMatch
  BY DEF QueueInv
<1>4. /\ p \in Procs /\ c \in Comms /\ e \in Summands /\ e.state % PoolSize = c
      /\ round[w] \in 1..rounds
  BY <1>1, <1>3, OwnIs
<1>5. /\ Sums' = Sums /\ e \in Sums /\ e \notin Asked(p)
      /\ Asked(p)' = Asked(p) \cup {e}
      /\ \A q \in Procs \ {p} : Asked(q)' = Asked(q)
  BY <1>3, PostAsks
<1>6. \A f \in Sums : Before(f, e) /\ f.state % PoolSize = c => f \in Asked(p)
  BY <1>1, <1>4, NothingSkipped
<1>7. sum \in Single /\ sum[0] = e
  BY <1>4 DEF Single
<1>8. \A q \in Procs : Asked(q) \subseteq Sums
  <2> SUFFICES ASSUME NEW q \in Procs, NEW x \in Asked(q) PROVE x \in Sums
    OBVIOUS
  <2>1. PICK t \in Threads, r \in 1..rounds : x \in Summands /\ x.state = StateOf(<<q, t>>, r)
    BY DEF Asked, AskedBy
  <2>2. <<q, t>> \in Workers
    BY DEF Workers
  <2> QED
    BY <2>1, <2>2 DEF Sums
<1>9. Sums \subseteq Summands
  BY DEF Sums
<1>10. Comm(w)' = Comm(w) /\ \A u \in Workers : Comm(u)' = Comm(u) /\ Own(u)' = Own(u)
  BY <1>1 DEF Comm, UniqueComm, State, Own, params
<1> HIDE DEF e, sum, c
<1>11. list \in Seq(Single) /\ Append(list, sum) \in Seq(Single)
  BY <1>3, <1>4, <1>7 DEF QueueType
<1>12. /\ row \in [Comms -> Seq(Single)] /\ row[c] = Append(list, sum)
       /\ \A d \in Comms : d # c => row[d] = begun[p][d]
  BY <1>3, <1>4, <1>11 DEF QueueType
<1> HIDE DEF row
<1>13. /\ begun'[p][c] = Append(list, sum)
       /\ \A d \in Comms : d # c => begun'[p][d] = begun[p][d]
       /\ \A q \in Procs : q # p => begun'[q] = begun[q]
  BY <1>2, <1>3, <1>4, <1>12 DEF QueueType
<1>14. /\ Len(list) \in Nat /\ Len(begun'[p][c]) = Len(list) + 1
       /\ begun'[p][c][Len(list) + 1][0] = e
       /\ \A k \in 1..Len(list) : begun'[p][c][k] = list[k]
  BY <1>7, <1>11, <1>13
<1>15. QueueType'
  <2>1. begun' \in [Procs -> [Comms -> Seq(Single)]]
    BY <1>2, <1>3, <1>4, <1>12 DEF QueueType
  <2>2. place' \in [Workers -> Nat]
    BY <1>1, <1>3, <1>14 DEF QueueType
  <2>3. \A u \in Workers : pc'[u] # "idle" => round[u] >= 1
    BY <1>1, <1>3 DEF QueueType
  <2> QED
    BY <1>1, <1>3, <2>1, <2>2, <2>3 DEF QueueType, params
<1>16. Paced'
  BY <1>1, <1>3 DEF Paced, QueueType, params
<1>17. \A q \in Procs, d \in Comms : (q # p \/ d # c) => begun'[q][d] = begun[q][d]
  BY <1>13
<1>18. Recorded'
  <2> SUFFICES ASSUME NEW q \in Procs, NEW d \in Comms
               PROVE  /\ \A k \in 1..Len(begun'[q][d]) : /\ begun'[q][d][k][0] \in Asked(q)'
                                                         /\ begun'[q][d][k][0].state % PoolSize = d
                      /\ \A x \in Asked(q)' : x.state % PoolSize = d =>
                             \E k \in 1..Len(begun'[q][d]) : begun'[q][d][k][0] = x
    BY DEF Recorded
  <2>1. CASE q = p /\ d = c
    <3>1. ASSUME NEW k \in 1..(Len(list) + 1)
          PROVE  begun'[p][c][k][0] \in Asked(p)' /\ begun'[p][c][k][0].state % PoolSize = c
      <4>1. CASE k = Len(list) + 1
        BY <1>4, <1>5, <1>14, <4>1
      <4>2. CASE k # Len(list) + 1
        <5>1. k \in 1..Len(list)
          BY <1>14, <4>2
        <5>2. list[k][0] \in Asked(p) /\ list[k][0].state % PoolSize = c
          BY <1>3, <1>4, <5>1 DEF Recorded
        <5> QED
          BY <1>5, <1>14, <5>1, <5>2
      <4> QED
        BY <4>1, <4>2
    <3>2. ASSUME NEW x \in Asked(p)', x.state % PoolSize = c
          PROVE  \E k \in 1..(Len(list) + 1) : begun'[p][c][k][0] = x
      <4>1. CASE x = e
        <5>1. Len(list) + 1 \in 1..(Len(list) + 1)
          BY <1>14
        <5> QED
          BY <1>14, <4>1, <5>1
      <4>2. CASE x # e
        <5>1. PICK k \in 1..Len(list) : list[k][0] = x
          BY <1>3, <1>4, <1>5, <3>2, <4>2 DEF Recorded
        <5>2. k \in 1..(Len(list) + 1)
          BY <1>14
        <5> QED
          BY <1>14, <5>1, <5>2
      <4> QED
        BY <4>1, <4>2
    <3> QED
      BY <1>14, <2>1, <3>1, <3>2
  <2>2. CASE q # p \/ d # c
    <3>1. \A x \in Asked(q)' : x.state % PoolSize = d => x \in Asked(q)
      BY <1>4, <1>5, <2>2
    <3>2. begun'[q][d] = begun[q][d]
      BY <1>17, <2>2
    <3>3. /\ \A k \in 1..Len(begun[q][d]) : /\ begun[q][d][k][0] \in Asked(q)
                                             /\ begun[q][d][k][0].state % PoolSize = d
          /\ \A x \in Asked(q) : x.state % PoolSize = d =>
                 \E k \in 1..Len(begun[q][d]) : begun[q][d][k][0] = x
      BY <1>3 DEF Recorded
    <3>4. Asked(q) \subseteq Asked(q)'
      BY <1>5
    <3> HIDE DEF list
    <3> QED
      BY <3>1, <3>2, <3>3, <3>4
  <2> QED
    BY <2>1, <2>2
<1>19. Closed'
  <2> SUFFICES ASSUME NEW q \in Procs, NEW f \in Asked(q)', NEW x \in Sums, Before(x, f),
                      x.state % PoolSize = f.state % PoolSize
               PROVE  x \in Asked(q)'
    BY <1>5 DEF Closed, Before
  <2>1. CASE f \in Asked(q)
    BY <1>3, <1>5, <2>1 DEF Closed
  <2>2. CASE f \notin Asked(q)
    <3>1. q = p /\ f = e
      BY <1>5, <2>2
    <3> QED
      BY <1>4, <1>5, <1>6, <3>1
  <2> QED
    BY <2>1, <2>2
\* All that the process has begun on the communicator come before.
<1>20. \A k \in 1..Len(list) : Before(list[k][0], e)
  <2> TAKE k \in 1..Len(list)
  <2> DEFINE f == list[k][0]
  <2>1. f \in Asked(p) /\ f.state % PoolSize = c
    BY <1>3, <1>4 DEF Recorded
  <2> HIDE DEF f
  <2>2. ~ Before(e, f)
    BY <1>3, <1>4, <1>5, <2>1 DEF Closed
  <2>3. f # e /\ f \in Summands
    BY <1>4, <1>5, <1>8, <1>9, <2>1
  <2>4. Before(f, e)
    BY <1>4, <2>2, <2>3, Order
  <2> QED
    BY <2>4 DEF f
<1>21. Increasing'
  <2> SUFFICES ASSUME NEW q \in Procs, NEW d \in Comms,
                      NEW j \in 1..Len(begun'[q][d]), NEW k \in 1..Len(begun'[q][d]), j < k
               PROVE  Before(begun'[q][d][j][0], begun'[q][d][k][0])
    BY DEF Increasing, Before
  <2>1. CASE q = p /\ d = c
    <3>1. j \in 1..Len(list) /\ (k \in 1..Len(list) \/ k = Len(list) + 1)
      BY <1>14, <2>1
    <3>2. begun'[p][c][j] = list[j]
      BY <1>14, <3>1
    <3>3. CASE k \in 1..Len(list)
      <4>1. Before(list[j][0], list[k][0])
        BY <1>3, <1>4, <3>1, <3>3 DEF Increasing
      <4> QED
        BY <1>14, <2>1, <3>2, <3>3, <4>1
    <3>4. CASE k = Len(list) + 1
      BY <1>14, <1>20, <2>1, <3>1, <3>2, <3>4
    <3> QED
      BY <3>1, <3>3, <3>4
  <2>2. CASE q # p \/ d # c
    BY <1>3, <1>17, <2>2 DEF Increasing
  <2> QED
    BY <2>1, <2>2
\* A process that has begun more has begun the same.
<1>22. ASSUME NEW q \in Procs, q # p, Len(list) + 1 <= Len(begun[q][c])
       PROVE  begun[q][c][Len(list) + 1][0] = e
  <2> DEFINE L == Len(list) + 1
             other == begun[q][c]
             f == other[L][0]
  <2>1. other \in Seq(Single) /\ Len(other) \in Nat /\ L \in 1..Len(other)
    <3>1. other \in Seq(Single)
      BY <1>3, <1>4 DEF QueueType
    <3>2. Len(other) \in Nat
      BY <3>1
    <3> QED
      BY <1>14, <1>22, <3>1, <3>2
  <2>2. f \in Asked(q) /\ f.state % PoolSize = c
    <3>1. \A k \in 1..Len(other) : other[k][0] \in Asked(q) /\ other[k][0].state % PoolSize = c
      BY <1>3, <1>4 DEF Recorded
    <3> HIDE DEF other, L
    <3> QED
      BY <2>1, <3>1
  <2>3. \A k \in 1..Len(list) : list[k][0] = other[k][0]
    <3> TAKE k \in 1..Len(list)
    <3>1. k \in Nat \ {0} /\ k <= Len(list) /\ k <= Len(other)
      BY <1>14, <1>22, <2>1
    <3> QED
      BY <1>3, <1>4, <3>1 DEF Agree
  <2>4. \A k \in 1..Len(list) : Before(other[k][0], f)
    <3> TAKE k \in 1..Len(list)
    <3>1. k \in 1..Len(other) /\ k < L
      BY <1>14, <2>1
    <3> QED
      BY <1>3, <1>4, <2>1, <3>1 DEF Increasing
  <2>5. f \in Sums /\ f \in Summands
    BY <1>8, <1>9, <2>2
  <2> HIDE DEF f
  <2>6. ASSUME Before(f, e) PROVE FALSE
    <3>1. f \in Asked(p)
      BY <1>6, <2>2, <2>5, <2>6
    <3>2. PICK k \in 1..Len(list) : list[k][0] = f
      BY <1>3, <1>4, <2>2, <3>1 DEF Recorded
    <3>3. Before(f, f)
      BY <2>3, <2>4, <3>2
    <3> QED
      BY <2>5, <3>3, Order
  <2>7. ASSUME Before(e, f) PROVE FALSE
    <3>1. e \in Asked(q)
      BY <1>3, <1>4, <1>5, <2>2, <2>7 DEF Closed
    <3>2. PICK k \in 1..Len(other) : other[k][0] = e
      BY <1>3, <1>4, <3>1 DEF Recorded
    <3>3. ~ (L < k)
      <4> SUFFICES ASSUME L < k PROVE FALSE
        OBVIOUS
      <4>1. Before(f, e)
        BY <1>3, <1>4, <2>1, <3>2 DEF Increasing, f
      <4> QED
        BY <1>4, <2>5, <2>7, <4>1, Order
    <3>4. k # L
      <4> SUFFICES ASSUME k = L PROVE FALSE
        OBVIOUS
      <4>1. f = e
        BY <3>2 DEF f
      <4> QED
        BY <1>4, <2>7, <4>1, Order
    <3>5. k \in 1..Len(list)
      BY <1>14, <2>1, <3>3, <3>4
    <3>6. list[k][0] = e
      BY <2>3, <3>2, <3>5
    <3>7. list[k][0] \in Asked(p)
      BY <1>3, <1>4, <3>5 DEF Recorded
    <3> QED
      BY <1>5, <3>6, <3>7
  <2>8. f = e
    BY <1>4, <2>5, <2>6, <2>7, Order
  <2> QED
    BY <2>8 DEF f
<1>23. Agree'
  <2> SUFFICES ASSUME NEW q \in Procs, NEW r \in Procs, NEW d \in Comms, NEW k \in Nat \ {0},
                      k <= Len(begun'[q][d]), k <= Len(begun'[r][d])
               PROVE  begun'[q][d][k][0] = begun'[r][d][k][0]
    BY DEF Agree
  <2>1. ASSUME NEW s \in Procs, s # p, d = c, k <= Len(begun[s][c]), k <= Len(list) + 1
        PROVE  begun'[p][c][k][0] = begun[s][c][k][0]
    <3>1. CASE k = Len(list) + 1
      BY <1>14, <1>22, <2>1, <3>1
    <3>2. CASE k # Len(list) + 1
      <4>1. k \in 1..Len(list) /\ k <= Len(list)
        BY <1>14, <2>1, <3>2
      <4>2. list[k][0] = begun[s][c][k][0]
        BY <1>3, <1>4, <2>1, <4>1 DEF Agree
      <4> QED
        BY <1>14, <4>1, <4>2
    <3> QED
      BY <3>1, <3>2
  <2>2. CASE d # c
    <3>1. begun'[q][d] = begun[q][d] /\ begun'[r][d] = begun[r][d]
      BY <1>17, <2>2
    <3> QED
      BY <1>3, <3>1 DEF Agree
  <2>3. CASE d = c /\ q = p /\ r # p
    BY <1>14, <1>17, <2>1, <2>3
  <2>4. CASE d = c /\ q # p /\ r = p
    BY <1>14, <1>17, <2>1, <2>4
  <2>5. CASE d = c /\ q # p /\ r # p
    <3>1. begun'[q][d] = begun[q][d] /\ begun'[r][d] = begun[r][d]
      BY <1>17, <2>5
    <3> QED
      BY <1>3, <3>1 DEF Agree
  <2> QED
    BY <2>2, <2>3, <2>4, <2>5
<1>24. Waiting'
  <2> SUFFICES ASSUME NEW u \in Workers, pc'[u] = "posted"
               PROVE  /\ place'[u] \in 1..Len(begun'[u[1]][Comm(u)])
                      /\ begun'[u[1]][Comm(u)][place'[u]][0] = Own(u)
    BY <1>10 DEF Waiting
  <2>1. CASE u = w
    <3>1. place'[w] = Len(list) + 1
      BY <1>1, <1>3 DEF QueueType
    <3>2. Comm(w) = c /\ Own(w) = e
      BY DEF c, e
    <3> QED
      BY <1>14, <2>1, <3>1, <3>2
  <2>2. CASE u # w
    <3>1. pc[u] = "posted" /\ place'[u] = place[u]
      BY <1>1, <1>3, <2>2 DEF QueueType
    <3>2. u[1] \in Procs /\ Comm(u) \in Comms
      BY <1>3, <3>1, OwnIs
    <3>3. /\ place[u] \in 1..Len(begun[u[1]][Comm(u)])
          /\ begun[u[1]][Comm(u)][place[u]][0] = Own(u)
      BY <1>3, <3>1 DEF Waiting
    <3>4. CASE u[1] = p /\ Comm(u) = c
      <4>1. place[u] \in 1..Len(list) /\ place[u] \in 1..(Len(list) + 1)
        BY <1>14, <3>3, <3>4
      <4> QED
        BY <1>14, <3>1, <3>3, <3>4, <4>1
    <3>5. CASE ~ (u[1] = p /\ Comm(u) = c)
      BY <1>17, <3>1, <3>2, <3>3, <3>5
    <3> QED
      BY <3>4, <3>5
  <2> QED
    BY <2>1, <2>2
<1>25. SumsMatch'
  BY <1>1, <1>3, <1>10 DEF SumsMatch, QueueType
<1> QED
  BY <1>15, <1>16, <1>18, <1>19, <1>21, <1>23, <1>24, <1>25 DEF QueueInv

\* It is over: every process has begun as many, and so the same ones.
LEMMA CompleteStep ==
    ASSUME mpi_queue_mode, CommsSuffice, QueueInv, NEW w \in Workers, Complete(w)
    PROVE  QueueInv'
<1> USE SumsAssumption
<1> DEFINE c == Comm(w)
           k == place[w]
<1>1. /\ UNCHANGED <<params, region, round, n, met, begun, place>>
      /\ pc[w] = "posted" /\ pc' = [pc EXCEPT ![w] = "summed"]
      /\ vect' = [vect EXCEPT ![w] = {begun[q][c][k][0] : q \in Procs}]
      /\ \A q \in Procs : Len(begun[q][c]) >= k
  BY DEF Complete, Goto, task, Over, Summed
<1>2. QueueType /\ Paced /\ Recorded /\ Closed /\ Increasing /\ Agree /\ Waiting /\ SumsMatch
  BY DEF QueueInv
<1>3. w[1] \in Procs /\ c \in Comms
  BY <1>1, <1>2, OwnIs
<1>4. \A q \in Procs : begun[q][c][k][0] = Own(w)
  <2> TAKE q \in Procs
  <2>1. k \in 1..Len(begun[w[1]][c]) /\ begun[w[1]][c][k][0] = Own(w)
    BY <1>1, <1>2 DEF Waiting
  <2>2. begun[w[1]][c] \in Seq(Single) /\ begun[q][c] \in Seq(Single)
    BY <1>2, <1>3 DEF QueueType
  <2>3. Len(begun[w[1]][c]) \in Nat /\ Len(begun[q][c]) \in Nat
    BY <2>2
  <2>4. k \in Nat \ {0} /\ k <= Len(begun[w[1]][c]) /\ k <= Len(begun[q][c])
    BY <1>1, <2>1, <2>3
  <2> QED
    BY <1>2, <1>3, <2>1, <2>4 DEF Agree
<1>5. {begun[q][c][k][0] : q \in Procs} = {Own(w)}
  BY <1>3, <1>4
<1>6. QueueType'
  <2>1. \A u \in Workers : pc'[u] # "idle" => round[u] >= 1
    BY <1>1, <1>2 DEF QueueType
  <2>2. vect' \in [Workers -> SUBSET Summands]
    <3>1. {Own(w)} \in SUBSET Summands
      BY <1>1, <1>2, OwnIs
    <3> QED
      BY <1>1, <1>2, <1>5, <3>1 DEF QueueType
  <2> QED
    BY <1>1, <1>2, <2>1, <2>2 DEF QueueType, params
<1>7. pc'[w] = "summed" /\ \A u \in Workers \ {w} : pc'[u] = pc[u]
  BY <1>1, <1>2 DEF QueueType
<1>8. \A u \in Workers, r \in 1..rounds : Done(u, r)' = Done(u, r)
  BY <1>1, <1>2, <1>7 DEF Done, QueueType
<1>9. Recorded' /\ Closed' /\ Increasing' /\ Agree'
  BY <1>1, <1>2, <1>8, SameDone, NothingBegun
<1>10. Paced'
  BY <1>1, <1>2, <1>7 DEF Paced, params
<1>11. Waiting'
  BY <1>1, <1>2, <1>7 DEF Waiting, params, Own, State, Comm, UniqueComm
<1>12. SumsMatch'
  <2> SUFFICES ASSUME NEW u \in Workers, pc'[u] = "summed" PROVE vect'[u] = {Own(u)}
    BY <1>1 DEF SumsMatch, params, Own, State
  <2>1. CASE u = w
    BY <1>1, <1>2, <1>5, <2>1 DEF QueueType
  <2>2. CASE u # w
    BY <1>1, <1>2, <1>7, <2>2 DEF SumsMatch, QueueType
  <2> QED
    BY <2>1, <2>2
<1> QED
  BY <1>6, <1>9, <1>10, <1>11, <1>12 DEF QueueInv
-----------------------------------------------------------------------------
\* What the run of the program has chosen stays.
LEMMA ParamsStay == [Next]_vars => UNCHANGED params
BY DEF Next, Worker, Take, Start, Post, Complete, Fill, AfterFirst, Reduce, Fetch, GoOn,
       NextRegion, Finished, vars

LEMMA NextQueueInv == QueueInv /\ [Next]_vars => QueueInv'
<1> SUFFICES ASSUME QueueInv, [Next]_vars PROVE QueueInv'
  OBVIOUS
<1>1. UNCHANGED params
  BY ParamsStay
<1>2. CASE ~ (mpi_queue_mode /\ CommsSuffice)
  BY <1>1, <1>2 DEF QueueInv, CommsSuffice, params
<1>3. CASE mpi_queue_mode /\ CommsSuffice
  <2>1. ASSUME NEW w \in Workers, Worker(w) PROVE QueueInv'
    <3>1. pc[w] \in {"idle", "start", "ask", "posted", "summed"}
      BY <1>3 DEF QueueInv, QueueType
    <3>2. Take(w) \/ Start(w) \/ Post(w) \/ Complete(w) \/ GoOn(w)
      BY <1>3, <2>1, <3>1 DEF Worker, Fill, AfterFirst, Reduce, Fetch
    <3> QED
      BY <1>3, <3>2, TakeStep, StartStep, PostStep, CompleteStep, GoOnStep
  <2>2. ASSUME NEW p \in Procs, NextRegion(p) PROVE QueueInv'
    BY <1>3, <2>2, NextRegionStep
  <2>3. CASE UNCHANGED vars
    <3>0. /\ QueueType /\ Paced /\ Recorded /\ Closed /\ Increasing /\ Agree
          /\ Waiting /\ SumsMatch
      BY <1>3 DEF QueueInv
    <3>1. QueueType'
      BY <2>3, <3>0 DEF vars, params, task, vectors, QueueType
    <3>2. Recorded' /\ Closed' /\ Increasing' /\ Agree'
      <4>1. UNCHANGED <<params, region, round, n, pc, begun>>
        BY <2>3 DEF vars, task
      <4>2. \A w \in Workers, r \in 1..rounds : Done(w, r)' = Done(w, r)
        BY <4>1 DEF Done
      <4> QED
        BY <3>0, <4>1, <4>2, SameDone, NothingBegun
    <3>3. Paced' /\ Waiting'
      BY <2>3, <3>0 DEF vars, params, task, Paced, Waiting, Own, State, Comm, UniqueComm
    <3>4. SumsMatch'
      BY <2>3, <3>0 DEF vars, params, task, vectors, SumsMatch, Own, State
    <3> QED
      BY <3>1, <3>2, <3>3, <3>4 DEF QueueInv
  <2> QED
    BY <2>1, <2>2, <2>3 DEF Next, Finished
<1> QED
  BY <1>2, <1>3

-----------------------------------------------------------------------------
(* Without queue mode                                                      *)

\* The tasks and the sums that a thread has begun since the start
TasksBegun(w) == (region[w[1]] - 1) * rounds + round[w]
Calls(w) == IF pc[w] = "idle" THEN TasksBegun(w) * NSums
            ELSE IF pc[w] = "ask" THEN (TasksBegun(w) - 1) * NSums + n[w] - 1
            ELSE (TasksBegun(w) - 1) * NSums + n[w]

\* s is what a thread t, of whatever process, has for its k-th sum.
IsCall(s, t, k) ==
    /\ s \in Summands
    /\ \E r \in 1..rounds : /\ s.state = (r - 1) * active_threads + t
                            /\ ((s.region - 1) * rounds + r - 1) * NSums + s.n = k

\* A sum takes two calls of the barrier, of which this many are yet to be made.
Owed(w) == IF pc[w] \in {"filled", "reducing"} THEN 1 ELSE 0

\* The meeting that the thread has seen last
Passed(w) == IF pc[w] \in {"filled", "stored"} THEN met[w] - 1 ELSE met[w]

\* Thread 0 does the reduction for its process.
Lead(p) == <<p, 0>>
Reductions(p) == IF pc[Lead(p)] = "filled" THEN Calls(Lead(p)) - 1 ELSE Calls(Lead(p))

Row == [Threads -> Summands]

BarrierType ==
    /\ ~ paced
    /\ rounds \in Nat \ {0}
    /\ region \in [Procs -> Nat \ {0}]
    /\ round \in [Workers -> 0..rounds] /\ n \in [Workers -> 1..NSums]
    /\ pc \in [Workers -> {"idle", "ask", "filled", "reducing", "stored", "summed"}]
    /\ met \in [Workers -> Nat] /\ place \in [Workers -> Nat]
    /\ begun \in [Procs -> [Comms -> Seq(Row)]]
    /\ v1 \in [Procs -> Row]
    /\ v2 \in [Procs -> [Threads -> SUBSET Summands]]
    /\ vect \in [Workers -> SUBSET Summands]
    /\ \A w \in Workers : pc[w] # "idle" => round[w] >= 1

\* No thread is past a meeting to which another of its process has not come.
Together ==
    \A w \in Workers :
        /\ met[w] + Owed(w) = 2 * Calls(w)
        /\ \A u \in Workers : u[1] = w[1] => met[u] >= Passed(w)

\* v1 holds what each thread has put in last ...
Filled ==
    \A w \in Workers : Calls(w) > 0 => IsCall(v1[w[1]][w[2]], w[2], Calls(w))

\* ... each process has reduced, one after the other, the sums that all its threads
\* had begun ...
Reduced ==
    \A p \in Procs :
        /\ Len(begun[p][GridComm]) = Reductions(p)
        /\ \A k \in 1..Len(begun[p][GridComm]), t \in Threads :
               IsCall(begun[p][GridComm][k][t], t, k)

InReduction ==
    \A w \in Workers : pc[w] = "reducing" => w[2] = 0 /\ place[w] = Calls(w)

\* ... and v2 holds the sums of the last one that has come back.
Stored ==
    \A p \in Procs, t \in Threads :
        LET k == Calls(Lead(p)) - Owed(Lead(p))
        IN  k > 0 => v2[p][t] # {} /\ \A s \in v2[p][t] : IsCall(s, t, k)

SummedUp == \A w \in Workers : pc[w] = "summed" => vect[w] = {Own(w)}

BarrierInv ==
    ~ mpi_queue_mode => /\ BarrierType /\ Together /\ Filled /\ Reduced
                        /\ InReduction /\ Stored /\ SummedUp
-----------------------------------------------------------------------------
LEMMA OrbitalTask ==
    ASSUME NEW r \in Nat, NEW q \in Nat, NEW t \in Threads,
           (r - 1) * active_threads + t = (q - 1) * active_threads + t
    PROVE  r = q
<1>1. active_threads \in Nat \ {0} /\ t \in Nat
  BY SumsAssumption DEF Threads
<1>2. r * active_threads = (r - 1) * active_threads + active_threads
  BY <1>1
<1>3. q * active_threads = (q - 1) * active_threads + active_threads
  BY <1>1
<1>4. (r - 1) * active_threads \in Int /\ (q - 1) * active_threads \in Int
  BY <1>1
<1>5. (r - 1) * active_threads = (q - 1) * active_threads
  BY <1>1, <1>4
<1>6. r * active_threads + 1 = q * active_threads + 1
  BY <1>2, <1>3, <1>5
<1>7. 1 \in 1..active_threads
  BY <1>1
<1> QED
  BY <1>1, <1>6, <1>7, SamePlace

\* What a thread has for its k-th sum is the same on all processes.
LEMMA SameCall ==
    ASSUME rounds \in Nat \ {0}, NEW t, NEW k, NEW s, NEW x, IsCall(s, t, k), IsCall(x, t, k)
    PROVE  s = x
<1>1. PICK r \in 1..rounds : /\ s.state = (r - 1) * active_threads + t
                             /\ ((s.region - 1) * rounds + r - 1) * NSums + s.n = k
  BY DEF IsCall
<1>2. PICK q \in 1..rounds : /\ x.state = (q - 1) * active_threads + t
                             /\ ((x.region - 1) * rounds + q - 1) * NSums + x.n = k
  BY DEF IsCall
<1>3. s \in Summands /\ x \in Summands
  BY DEF IsCall
<1> DEFINE g == s.region - 1
           h == x.region - 1
           a == g * rounds + r - 1
           b == h * rounds + q - 1
           i == s.n
           j == x.n
<1>4. /\ g \in Nat /\ h \in Nat /\ i \in 1..NSums /\ j \in 1..NSums
      /\ s.region = g + 1 /\ x.region = h + 1
  BY <1>3 DEF Summands
<1>5. a * NSums + i = b * NSums + j
  BY <1>1, <1>2
<1> HIDE DEF g, h, i, j
<1>6. g * rounds \in Nat /\ h * rounds \in Nat /\ NSums \in Nat
  BY <1>4, SumsAssumption
<1>7. a \in Nat /\ b \in Nat /\ a + 1 = g * rounds + r /\ b + 1 = h * rounds + q
  <2> DEFINE c == g * rounds
             d == h * rounds
  <2>1. c \in Nat /\ d \in Nat /\ a = c + r - 1 /\ b = d + q - 1
    BY <1>6
  <2> HIDE DEF c, d, a, b
  <2>2. a \in Nat /\ b \in Nat /\ a + 1 = c + r /\ b + 1 = d + q
    BY <2>1
  <2> QED
    BY <2>2 DEF c, d
<1> HIDE DEF a, b
<1>8. a = b /\ i = j
  BY <1>4, <1>5, <1>6, <1>7, SamePlace
<1>9. g = h /\ r = q
  BY <1>4, <1>7, <1>8, SamePlace
<1>10. s.region = x.region /\ s.state = x.state /\ s.n = x.n
  BY <1>1, <1>2, <1>4, <1>8, <1>9 DEF i, j
<1> QED
  BY <1>3, <1>10 DEF Summands

LEMMA LeadIs ==
    ASSUME NEW p \in Procs
    PROVE  0 \in Threads /\ Lead(p) \in Workers /\ Lead(p)[1] = p /\ Lead(p)[2] = 0
BY SumsAssumption DEF Threads, Lead, Workers

LEMMA Worker2 ==
    ASSUME NEW w \in Workers
    PROVE  w[1] \in Procs /\ w[2] \in Threads /\ w = <<w[1], w[2]>> /\ (w[2] = 0 => w = Lead(w[1]))
BY DEF Workers, Lead

LEMMA CallsIs ==
    ASSUME BarrierType, NEW w \in Workers
    PROVE  /\ Calls(w) \in Nat
           /\ pc[w] \notin {"idle", "ask"} =>
                  /\ Calls(w) > 0
                  /\ IsCall(Own(w), w[2], Calls(w))
<1> DEFINE g == region[w[1]] - 1
           r == round[w]
           b == TasksBegun(w)
<1>1. g \in Nat /\ r \in 0..rounds /\ n[w] \in 1..NSums /\ rounds \in Nat \ {0} /\ (pc[w] # "idle" => r >= 1)
  BY Worker2 DEF BarrierType
<1>2. g * rounds \in Nat /\ NSums \in Nat
  BY <1>1, SumsAssumption
<1>3. b \in Nat /\ (pc[w] # "idle" => b - 1 \in Nat) /\ b - 1 = g * rounds + r - 1
  <2> DEFINE c == g * rounds
  <2>1. c \in Nat /\ b = c + r
    BY <1>2 DEF TasksBegun
  <2> HIDE DEF c, r, b
  <2>2. b \in Nat /\ (r >= 1 => b - 1 \in Nat) /\ b - 1 = c + r - 1
    BY <1>1, <2>1
  <2> QED
    BY <1>1, <2>2 DEF c
<1>4. Calls(w) = IF pc[w] = "idle" THEN b * NSums
                 ELSE IF pc[w] = "ask" THEN (b - 1) * NSums + n[w] - 1
                 ELSE (b - 1) * NSums + n[w]
  BY DEF Calls
<1> HIDE DEF b
<1>5. Calls(w) \in Nat /\ (pc[w] \notin {"idle", "ask"} => Calls(w) > 0)
  <2> DEFINE c == b * NSums
             d == (b - 1) * NSums
  <2>1. c \in Nat /\ (pc[w] # "idle" => d \in Nat)
    BY <1>2, <1>3
  <2>2. Calls(w) = IF pc[w] = "idle" THEN c
                   ELSE IF pc[w] = "ask" THEN d + n[w] - 1 ELSE d + n[w]
    BY <1>4
  <2> HIDE DEF c, d
  <2> QED
    BY <1>1, <2>1, <2>2
<1>6. ASSUME pc[w] \notin {"idle", "ask"}
      PROVE  IsCall(Own(w), w[2], Calls(w))
  <2>1. r \in 1..rounds
    BY <1>1, <1>6
  <2>2. State(w) \in Nat /\ State(w) = (r - 1) * active_threads + w[2]
    <3>1. State(w) = StateOf(w, r)
      BY DEF State, StateOf
    <3> QED
      BY <2>1, <3>1, StateOfIsNat DEF StateOf
  <2>3. Own(w) \in Summands
    <3>1. region[w[1]] \in Nat \ {0} /\ n[w] \in 1..NSums
      BY Worker2 DEF BarrierType
    <3> QED
      BY <2>2, <3>1 DEF Own, Summands
  <2>4. Own(w).state = State(w) /\ Own(w).region - 1 = g /\ Own(w).n = n[w]
    BY DEF Own
  <2>5. ((Own(w).region - 1) * rounds + r - 1) * NSums + Own(w).n = Calls(w)
    <3>1. Calls(w) = (b - 1) * NSums + n[w]
      BY <1>4, <1>6
    <3>2. ((Own(w).region - 1) * rounds + r - 1) = b - 1
      BY <1>3, <2>4
    <3> QED
      BY <2>4, <3>1, <3>2
  <2> HIDE DEF r
  <2> QED
    BY <2>1, <2>2, <2>3, <2>4, <2>5 DEF IsCall
<1> QED
  BY <1>5, <1>6

LEMMA InitBarrierInv == Init => BarrierInv
<1> SUFFICES ASSUME Init, ~ mpi_queue_mode
             PROVE  /\ BarrierType /\ Together /\ Filled /\ Reduced
                    /\ InReduction /\ Stored /\ SummedUp
  BY DEF BarrierInv
<1> USE SumsAssumption
<1>1. BarrierType
  <2>1. << >> \in Seq(Row)
    OBVIOUS
  <2>2. begun \in [Procs -> [Comms -> Seq(Row)]]
    BY <2>1 DEF Init
  <2>3. NoSummand \in Summands
    BY DEF NoSummand, Summands
  <2>4. v1 \in [Procs -> Row] /\ v2 \in [Procs -> [Threads -> SUBSET Summands]]
    BY <2>3 DEF Init, Row
  <2>5. ~ paced /\ rounds \in Nat \ {0} /\ vect \in [Workers -> SUBSET Summands]
    BY DEF Init
  <2>6. /\ region \in [Procs -> Nat \ {0}]
        /\ met \in [Workers -> Nat] /\ place \in [Workers -> Nat]
    BY DEF Init
  <2>7. /\ round \in [Workers -> 0..rounds] /\ n \in [Workers -> 1..NSums]
        /\ pc \in [Workers -> {"idle", "ask", "filled", "reducing", "stored", "summed"}]
        /\ \A w \in Workers : pc[w] = "idle"
    BY <2>5 DEF Init
  <2> QED
    BY <2>2, <2>4, <2>5, <2>6, <2>7 DEF BarrierType
<1>2. ASSUME NEW w \in Workers
      PROVE  pc[w] = "idle" /\ Calls(w) = 0 /\ met[w] = 0
  <2>1. pc[w] = "idle" /\ round[w] = 0 /\ region[w[1]] = 1 /\ met[w] = 0 /\ rounds \in Nat
    BY Worker2 DEF Init
  <2>2. ((1 - 1) * rounds + 0) * NSums = 0
    BY <2>1
  <2> QED
    BY <2>1, <2>2 DEF Calls, TasksBegun
<1>3. Together /\ Filled /\ InReduction /\ SummedUp
  BY <1>2 DEF Together, Filled, InReduction, SummedUp, Owed, Passed
<1>4. Reduced
  BY <1>2, LeadIs DEF Init, Reduced, Reductions, Comms, GridComm
<1>5. Stored
  BY <1>2, LeadIs DEF Stored, Owed
<1> QED
  BY <1>1, <1>3, <1>4, <1>5

OwnCalls == \A w \in Workers : pc[w] \notin {"idle", "ask"} => IsCall(Own(w), w[2], Calls(w))

LEMMA CallsAre == BarrierType => OwnCalls
BY CallsIs DEF OwnCalls

LEMMA CallsAreNext == BarrierType' => OwnCalls'
BY CallsAre, PTL

LEMMA Parity ==
    ASSUME BarrierType, Together, NEW w \in Workers
    PROVE  /\ met[w] \in Nat /\ Calls(w) \in Nat /\ Owed(w) \in {0, 1}
           /\ met[w] + Owed(w) = 2 * Calls(w)
           /\ Passed(w) \in {met[w], met[w] - 1}
BY CallsIs DEF BarrierType, Together, Owed, Passed

\* What threads that have met know of each other
LEMMA AtMeeting ==
    ASSUME BarrierType, Together, NEW w \in Workers, NEW u \in Workers, u[1] = w[1], Met(w)
    PROVE  /\ pc[w] = "filled" => Calls(u) = Calls(w)
           /\ pc[w] = "stored" => Calls(u) - Owed(u) = Calls(w)
<1> DEFINE a == met[w]
           b == met[u]
           k == Calls(w)
           l == Calls(u)
<1>1. b >= a /\ a >= Passed(u)
  BY Worker2 DEF Met, Together
<1>2. a \in Nat /\ b \in Nat /\ k \in Nat /\ l \in Nat /\ a + Owed(w) = 2 * k /\ b + Owed(u) = 2 * l
  BY Parity
<1>3. /\ Owed(u) = IF pc[u] \in {"filled", "reducing"} THEN 1 ELSE 0
      /\ Passed(u) = IF pc[u] \in {"filled", "stored"} THEN b - 1 ELSE b
  BY DEF Owed, Passed
<1> HIDE DEF a, b, k, l
<1>4. ASSUME pc[w] = "filled" PROVE l = k
  <2>1. a + 1 = 2 * k
    BY <1>2, <1>4 DEF Owed
  <2> QED
    BY <1>1, <1>2, <1>3, <2>1
<1>5. ASSUME pc[w] = "stored" PROVE l - Owed(u) = k
  <2>1. a = 2 * k
    BY <1>2, <1>5 DEF Owed
  <2> QED
    BY <1>1, <1>2, <1>3, <2>1
<1> QED
  BY <1>4, <1>5 DEF k, l

\* A step that is of no thread between its two meetings, and begins no sum
LEMMA QuietStep ==
    ASSUME ~ mpi_queue_mode, BarrierInv, BarrierType',
           UNCHANGED <<mpi_queue_mode, paced, rounds, met, begun, place, v1, v2, vect>>,
           \A w \in Workers :
               /\ Calls(w)' = Calls(w)
               /\ pc'[w] = pc[w] \/ (pc[w] \in {"idle", "ask", "summed"} /\ pc'[w] \in {"idle", "ask"})
               /\ pc'[w] = "summed" => Own(w)' = Own(w)
    PROVE  BarrierInv'
<1>1. \A w \in Workers : Owed(w)' = Owed(w) /\ Passed(w)' = Passed(w)
  BY DEF Owed, Passed
<1>2. Together'
  BY <1>1 DEF BarrierInv, Together
<1>3. Filled'
  BY DEF BarrierInv, Filled, IsCall
<1>4. \A p \in Procs : Reductions(p)' = Reductions(p)
  BY LeadIs DEF Reductions, Lead
<1>5. Reduced'
  BY <1>4 DEF BarrierInv, Reduced, IsCall
<1>6. InReduction' /\ SummedUp'
  BY DEF BarrierInv, InReduction, SummedUp
<1>7. Stored'
  <2>1. \A p \in Procs : Calls(Lead(p))' - Owed(Lead(p))' = Calls(Lead(p)) - Owed(Lead(p))
    BY <1>1, LeadIs DEF Lead
  <2> QED
    BY <2>1 DEF BarrierInv, Stored, IsCall, Lead
<1> QED
  BY <1>2, <1>3, <1>5, <1>6, <1>7 DEF BarrierInv

LEMMA TakeAlone ==
    ASSUME ~ mpi_queue_mode, BarrierInv, NEW w \in Workers, Take(w)
    PROVE  BarrierInv'
<1> USE SumsAssumption
<1>1. /\ UNCHANGED <<mpi_queue_mode, paced, rounds, region, met, begun, place, v1, v2, vect>>
      /\ pc[w] = "idle" /\ round[w] < rounds
      /\ round' = [round EXCEPT ![w] = @ + 1] /\ n' = [n EXCEPT ![w] = 1]
      /\ pc' = [pc EXCEPT ![w] = "ask"]
  BY DEF Take, Goto, params, vectors, BarrierInv, BarrierType
<1>2. BarrierType
  BY DEF BarrierInv
<1>3. BarrierType'
  BY <1>1, <1>2 DEF BarrierType
<1>4. \A u \in Workers \ {w} : pc'[u] = pc[u] /\ round'[u] = round[u] /\ n'[u] = n[u]
  BY <1>1, <1>2 DEF BarrierType
<1>5. pc'[w] = "ask" /\ round'[w] = round[w] + 1 /\ n'[w] = 1
  BY <1>1, <1>2 DEF BarrierType
<1>6. Calls(w)' = Calls(w)
  <2> DEFINE b == TasksBegun(w)
             g == (region[w[1]] - 1) * rounds
  <2>1. g \in Int /\ b = g + round[w] /\ TasksBegun(w)' = g + round'[w] /\ round[w] \in Nat
    BY <1>1, <1>2, Worker2 DEF TasksBegun, BarrierType
  <2>2. Calls(w)' = (TasksBegun(w)' - 1) * NSums + 1 - 1
    BY <1>5 DEF Calls
  <2>3. Calls(w) = b * NSums
    BY <1>1 DEF Calls
  <2> HIDE DEF g, b
  <2>4. TasksBegun(w)' - 1 = b /\ b \in Int
    BY <1>5, <2>1
  <2>5. b * NSums \in Int
    BY <2>4
  <2> QED
    BY <2>2, <2>3, <2>4, <2>5
<1>7. \A u \in Workers \ {w} : Calls(u)' = Calls(u)
  BY <1>1, <1>4 DEF Calls, TasksBegun
<1>8. \A u \in Workers : /\ Calls(u)' = Calls(u)
                         /\ pc'[u] = pc[u] \/ (pc[u] \in {"idle", "ask", "summed"} /\ pc'[u] \in {"idle", "ask"})
                         /\ pc'[u] = "summed" => Own(u)' = Own(u)
  BY <1>1, <1>4, <1>5, <1>6, <1>7 DEF Own, State
<1> QED
  BY <1>1, <1>3, <1>8, QuietStep

LEMMA GoOnAlone ==
    ASSUME ~ mpi_queue_mode, BarrierInv, NEW w \in Workers, GoOn(w)
    PROVE  BarrierInv'
<1> USE SumsAssumption
<1>1. /\ UNCHANGED <<mpi_queue_mode, paced, rounds, region, round, met, begun, place, v1, v2, vect>>
      /\ pc[w] = "summed"
      /\ \/ /\ n[w] < NSums /\ n' = [n EXCEPT ![w] = @ + 1]
            /\ pc' = [pc EXCEPT ![w] = "ask"]
         \/ /\ ~ (n[w] < NSums) /\ n' = n
            /\ pc' = [pc EXCEPT ![w] = "idle"]
  BY DEF GoOn, Goto, params, vectors
<1>2. BarrierType
  BY DEF BarrierInv
<1>4. \A u \in Workers \ {w} : pc'[u] = pc[u] /\ n'[u] = n[u]
  BY <1>1, <1>2 DEF BarrierType
<1>5. \/ n[w] < NSums /\ pc'[w] = "ask" /\ n'[w] = n[w] + 1
      \/ n[w] = NSums /\ pc'[w] = "idle" /\ n'[w] = n[w]
  <2>1. n[w] \in 1..NSums
    BY <1>2 DEF BarrierType
  <2>2. CASE n[w] < NSums
    BY <1>1, <1>2, <2>1, <2>2 DEF BarrierType
  <2>3. CASE ~ (n[w] < NSums)
    BY <1>1, <1>2, <2>1, <2>3 DEF BarrierType
  <2> QED
    BY <2>2, <2>3
<1>3. BarrierType'
  <2>1. n' \in [Workers -> 1..NSums]
    <3>1. n[w] \in 1..NSums /\ NSums \in Nat
      BY <1>2 DEF BarrierType
    <3>2. \E z \in 1..NSums : n' = [n EXCEPT ![w] = z]
      <4>1. n'[w] \in 1..NSums
        BY <1>5, <3>1
      <4>2. n' = [n EXCEPT ![w] = n'[w]]
        BY <1>1, <1>2, <1>5 DEF BarrierType
      <4> QED
        BY <4>1, <4>2
    <3> QED
      BY <1>2, <3>2 DEF BarrierType
  <2>2. /\ pc' \in [Workers -> {"idle", "ask", "filled", "reducing", "stored", "summed"}]
        /\ \A u \in Workers : pc'[u] # "idle" => pc[u] # "idle"
    BY <1>1, <1>2 DEF BarrierType
  <2> QED
    BY <1>1, <1>2, <2>1, <2>2 DEF BarrierType
<1>6. Calls(w)' = Calls(w)
  <2> DEFINE b == TasksBegun(w)
             d == (b - 1) * NSums
  <2>1. TasksBegun(w)' = b
    BY <1>1 DEF TasksBegun
  <2>2. b \in Int
    BY <1>2, Worker2 DEF TasksBegun, BarrierType
  <2>3. Calls(w) = d + n[w]
    BY <1>1 DEF Calls
  <2>4. pc'[w] = "ask" => Calls(w)' = d + n'[w] - 1
    BY <2>1 DEF Calls
  <2>5. pc'[w] = "idle" => Calls(w)' = b * NSums
    BY <2>1 DEF Calls
  <2> HIDE DEF b
  <2>6. d \in Int /\ b * NSums = d + NSums
    BY <2>2
  <2> HIDE DEF d
  <2>7. n[w] \in Nat
    BY <1>2 DEF BarrierType
  <2> QED
    BY <1>5, <2>3, <2>4, <2>5, <2>6, <2>7
<1>7. \A u \in Workers \ {w} : Calls(u)' = Calls(u)
  BY <1>1, <1>4 DEF Calls, TasksBegun
<1>8. \A u \in Workers : /\ Calls(u)' = Calls(u)
                         /\ pc'[u] = pc[u] \/ (pc[u] \in {"idle", "ask", "summed"} /\ pc'[u] \in {"idle", "ask"})
                         /\ pc'[u] = "summed" => Own(u)' = Own(u)
  BY <1>1, <1>4, <1>5, <1>6, <1>7 DEF Own, State
<1> QED
  BY <1>1, <1>3, <1>8, QuietStep

LEMMA NextRegionAlone ==
    ASSUME ~ mpi_queue_mode, BarrierInv, NEW p \in Procs, NextRegion(p)
    PROVE  BarrierInv'
<1> USE SumsAssumption
<1>1. /\ UNCHANGED <<mpi_queue_mode, paced, rounds, n, pc, met, begun, place, v1, v2, vect>>
      /\ \A t \in Threads : pc[<<p, t>>] = "idle" /\ round[<<p, t>>] = rounds
      /\ region' = [region EXCEPT ![p] = @ + 1]
      /\ round' = [w \in Workers |-> IF w[1] = p THEN 0 ELSE round[w]]
  BY DEF NextRegion, params, vectors
<1>2. BarrierType
  BY DEF BarrierInv
<1>3. \A w \in Workers : w[1] = p => pc[w] = "idle" /\ round[w] = rounds /\ round'[w] = 0
  BY <1>1 DEF Workers
<1>4. \A w \in Workers : w[1] # p => round'[w] = round[w] /\ region'[w[1]] = region[w[1]]
  BY <1>1, <1>2 DEF Workers, BarrierType
<1>5. BarrierType'
  <2>1. region' \in [Procs -> Nat \ {0}] /\ round' \in [Workers -> 0..rounds]
    BY <1>1, <1>2 DEF BarrierType
  <2>2. \A w \in Workers : pc[w] # "idle" => round'[w] >= 1
    BY <1>2, <1>3, <1>4 DEF BarrierType
  <2> QED
    BY <1>1, <1>2, <2>1, <2>2 DEF BarrierType
<1>6. \A w \in Workers : TasksBegun(w)' = TasksBegun(w)
  <2> TAKE w \in Workers
  <2>1. CASE w[1] = p
    <3> DEFINE g == region[p] - 1
    <3>1. g \in Nat /\ region'[p] - 1 = g + 1 /\ rounds \in Nat
      <4>1. region[p] \in Nat \ {0} /\ region'[p] = region[p] + 1 /\ rounds \in Nat
        BY <1>1, <1>2 DEF BarrierType
      <4> QED
        BY <4>1
    <3>2. TasksBegun(w) = g * rounds + rounds /\ TasksBegun(w)' = (region'[p] - 1) * rounds + 0
      BY <1>1, <1>3, <2>1 DEF TasksBegun
    <3>3. TasksBegun(w)' = (g + 1) * rounds
      <4>1. TasksBegun(w)' = (g + 1) * rounds + 0
        BY <3>1, <3>2
      <4> HIDE DEF g
      <4> QED
        BY <3>1, <4>1
    <3> HIDE DEF g
    <3> QED
      BY <3>1, <3>2, <3>3
  <2>2. CASE w[1] # p
    BY <1>1, <1>4, <2>2 DEF TasksBegun
  <2> QED
    BY <2>1, <2>2
<1>7. \A w \in Workers : Calls(w)' = Calls(w) /\ (pc[w] = "summed" => Own(w)' = Own(w))
  BY <1>1, <1>3, <1>4, <1>6 DEF Calls, Own, State
<1> QED
  BY <1>1, <1>5, <1>7, QuietStep

\* The others of a step: what does not depend on w stays.
LEMMA OthersStay ==
    ASSUME BarrierType, NEW w \in Workers, NEW q,
           UNCHANGED <<rounds, region, round, n>>, pc' = [pc EXCEPT ![w] = q]
    PROVE  /\ pc'[w] = q
           /\ \A u \in Workers \ {w} : /\ pc'[u] = pc[u] /\ Calls(u)' = Calls(u)
                                        /\ Owed(u)' = Owed(u)
           /\ \A u \in Workers : TasksBegun(u)' = TasksBegun(u) /\ Own(u)' = Own(u)
           /\ q \notin {"idle", "ask"} /\ pc[w] \notin {"idle", "ask"} => Calls(w)' = Calls(w)
<1>1. pc'[w] = q /\ \A u \in Workers \ {w} : pc'[u] = pc[u]
  BY DEF BarrierType
<1>2. \A u \in Workers : TasksBegun(u)' = TasksBegun(u) /\ Own(u)' = Own(u)
  BY DEF TasksBegun, Own, State
<1>3. \A u \in Workers \ {w} : Calls(u)' = Calls(u) /\ Owed(u)' = Owed(u)
  BY <1>1, <1>2 DEF Calls, Owed
<1>4. q \notin {"idle", "ask"} /\ pc[w] \notin {"idle", "ask"} => Calls(w)' = Calls(w)
  BY <1>1, <1>2 DEF Calls
<1> QED
  BY <1>1, <1>2, <1>3, <1>4

LEMMA FillAlone ==
    ASSUME ~ mpi_queue_mode, BarrierInv, NEW w \in Workers, Fill(w)
    PROVE  BarrierInv'
<1> USE SumsAssumption
<1>1. /\ UNCHANGED <<mpi_queue_mode, paced, rounds, region, round, n, begun, place, v2, vect>>
      /\ pc[w] = "ask" /\ pc' = [pc EXCEPT ![w] = "filled"]
      /\ v1' = [v1 EXCEPT ![w[1]][w[2]] = Own(w)]
      /\ met' = [met EXCEPT ![w] = @ + 1]
  BY DEF Fill, Goto, params, task
<1>2. BarrierType /\ Together /\ Filled /\ Reduced /\ InReduction /\ Stored /\ SummedUp
  BY DEF BarrierInv
<1>3. /\ pc'[w] = "filled"
      /\ \A u \in Workers \ {w} : pc'[u] = pc[u] /\ Calls(u)' = Calls(u) /\ Owed(u)' = Owed(u)
      /\ \A u \in Workers : TasksBegun(u)' = TasksBegun(u) /\ Own(u)' = Own(u)
  BY <1>1, <1>2, OthersStay
<1>4. met'[w] = met[w] + 1 /\ \A u \in Workers \ {w} : met'[u] = met[u]
  BY <1>1, <1>2 DEF BarrierType
<1>5. w[1] \in Procs /\ w[2] \in Threads
  BY Worker2
<1>6. Own(w) \in Summands
  <2>1. round[w] \in Nat \ {0} /\ n[w] \in 1..NSums /\ region[w[1]] \in Nat \ {0}
    <3>1. round[w] \in 0..rounds /\ rounds \in Nat /\ round[w] >= 1
      BY <1>1, <1>2 DEF BarrierType
    <3> QED
      BY <1>2, <1>5, <3>1 DEF BarrierType
  <2>2. State(w) = StateOf(w, round[w])
    BY DEF State, StateOf
  <2> QED
    BY <2>1, <2>2, StateOfIsNat DEF Own, Summands
<1>7. BarrierType'
  <2>1. v1' \in [Procs -> Row]
    BY <1>1, <1>2, <1>5, <1>6 DEF BarrierType, Row
  <2>2. met' \in [Workers -> Nat]
    BY <1>1, <1>2 DEF BarrierType
  <2> QED
    BY <1>1, <1>2, <2>1, <2>2 DEF BarrierType
<1>8. /\ Calls(w)' = Calls(w) + 1 /\ Calls(w) \in Nat
      /\ Owed(w) = 0 /\ Owed(w)' = 1 /\ Passed(w) = met[w] /\ Passed(w)' = met[w]
  <2> DEFINE d == (TasksBegun(w) - 1) * NSums
  <2>1. Calls(w) = d + n[w] - 1
    BY <1>1 DEF Calls
  <2>2. Calls(w)' = d + n[w]
    BY <1>1, <1>3 DEF Calls
  <2>3. n[w] \in Nat /\ TasksBegun(w) \in Int
    BY <1>1, <1>2, <1>5 DEF BarrierType, TasksBegun
  <2>4. d \in Int
    BY <2>3
  <2> HIDE DEF d
  <2>5. Calls(w)' = Calls(w) + 1
    BY <2>1, <2>2, <2>3, <2>4
  <2>6. Owed(w) = 0 /\ Owed(w)' = 1
    BY <1>1, <1>3 DEF Owed
  <2>7. met[w] \in Nat
    BY <1>2 DEF BarrierType
  <2>8. Passed(w) = met[w] /\ Passed(w)' = met[w]
    BY <1>1, <1>3, <1>4, <2>7 DEF Passed
  <2> QED
    BY <1>2, <2>5, <2>6, <2>8, CallsIs
<1>9. Together'
  <2>1. \A u \in Workers : Passed(u)' = Passed(u)
    BY <1>3, <1>4, <1>8 DEF Passed
  <2>2. \A u \in Workers : met'[u] >= met[u] /\ met[u] \in Nat /\ Passed(u) \in Int
    <3> TAKE u \in Workers
    <3>1. met[u] \in Nat /\ Passed(u) \in {met[u], met[u] - 1}
      BY <1>2, Parity
    <3> QED
      BY <1>4, <3>1
  <2>3. \A u \in Workers : met'[u] + Owed(u)' = 2 * Calls(u)'
    BY <1>2, <1>3, <1>4, <1>8, <2>2 DEF Together
  <2>4. \A u \in Workers, x \in Workers : x[1] = u[1] => met'[x] >= Passed(u)'
    <3> SUFFICES ASSUME NEW u \in Workers, NEW x \in Workers, x[1] = u[1] PROVE met'[x] >= Passed(u)
      BY <2>1
    <3>1. met[x] >= Passed(u)
      BY <1>2 DEF Together
    <3>2. met'[x] \in {met[x], met[x] + 1} /\ met[x] \in Nat /\ Passed(u) \in Int
      BY <1>4, <2>2
    <3> QED
      BY <3>1, <3>2
  <2> QED
    BY <2>3, <2>4 DEF Together
<1>10. Filled'
  <2> SUFFICES ASSUME NEW u \in Workers, Calls(u)' > 0
               PROVE  IsCall(v1[u[1]][u[2]], u[2], Calls(u))'
    BY DEF Filled
  <2>1. CASE u = w
    <3>1. v1'[w[1]][w[2]] = Own(w)
      BY <1>1, <1>2, <1>5 DEF BarrierType, Row
    <3>2. IsCall(Own(w), w[2], Calls(w))'
      BY <1>3, <1>7, CallsAreNext DEF OwnCalls
    <3> QED
      BY <1>3, <2>1, <3>1, <3>2
  <2>2. CASE u # w
    <3>1. v1'[u[1]][u[2]] = v1[u[1]][u[2]]
      <4>1. u[1] # w[1] \/ u[2] # w[2]
        BY <2>2 DEF Workers
      <4> QED
        BY <1>1, <1>2, <1>5, <4>1, Worker2 DEF BarrierType, Row
    <3>2. IsCall(v1[u[1]][u[2]], u[2], Calls(u))
      BY <1>2, <1>3, <2>2 DEF Filled
    <3> QED
      BY <1>1, <1>3, <2>2, <3>1, <3>2 DEF IsCall
  <2> QED
    BY <2>1, <2>2
<1>11. Reduced' /\ Stored'
  <2>1. ASSUME NEW p \in Procs
        PROVE  /\ Reductions(p)' = Reductions(p)
               /\ Calls(Lead(p))' - Owed(Lead(p))' = Calls(Lead(p)) - Owed(Lead(p))
    <3>1. Lead(p) \in Workers /\ Lead(p)' = Lead(p)
      BY LeadIs DEF Lead
    <3>2. CASE Lead(p) = w
      BY <1>1, <1>3, <1>8, <3>2 DEF Reductions, Lead
    <3>3. CASE Lead(p) # w
      BY <1>3, <3>1, <3>3 DEF Reductions, Lead
    <3> QED
      BY <3>2, <3>3
  <2>2. Reduced'
    BY <1>1, <1>2, <2>1 DEF Reduced, IsCall
  <2>3. Stored'
    BY <1>1, <1>2, <2>1 DEF Stored, IsCall
  <2> QED
    BY <2>2, <2>3
<1>12. InReduction' /\ SummedUp'
  BY <1>1, <1>2, <1>3 DEF InReduction, SummedUp
<1> QED
  BY <1>7, <1>9, <1>10, <1>11, <1>12 DEF BarrierInv

\* A step of a thread between its meetings, which begins no sum: the meetings
LEMMA TogetherStays ==
    ASSUME BarrierType, Together, NEW w \in Workers,
           \A u \in Workers \ {w} : pc'[u] = pc[u] /\ met'[u] = met[u],
           \A u \in Workers : Calls(u)' = Calls(u),
           met'[w] \in {met[w], met[w] + 1}, met'[w] + Owed(w)' = met[w] + Owed(w),
           Passed(w)' \in Int,
           \A u \in Workers : u[1] = w[1] => met[u] >= Passed(w)',
           Passed(w)' =< met'[w]
    PROVE  Together'
<1>1. \A u \in Workers \ {w} : Passed(u)' = Passed(u) /\ Owed(u)' = Owed(u)
  BY DEF Passed, Owed
<1>2. \A u \in Workers : met'[u] + Owed(u)' = 2 * Calls(u)'
  BY <1>1 DEF Together
<1>3. ASSUME NEW u \in Workers, NEW x \in Workers, x[1] = u[1]
      PROVE  met'[x] >= Passed(u)'
  <2>1. /\ met[x] \in Nat /\ Passed(u) \in Int
        /\ met'[x] \in {met[x], met[x] + 1}
    BY Parity
  <2>2. CASE u = w
    BY <1>3, <2>1, <2>2
  <2>3. CASE u # w
    <3>1. met[x] >= Passed(u)
      BY <1>3 DEF Together
    <3> QED
      BY <1>1, <2>1, <2>3, <3>1
  <2> QED
    BY <2>2, <2>3
<1> QED
  BY <1>2, <1>3 DEF Together

\* Thread 0 begins the reduction, when all threads of its process have put in.
LEMMA AllreduceAlone ==
    ASSUME ~ mpi_queue_mode, BarrierInv, NEW w \in Workers, AfterFirst(w), w[2] = 0
    PROVE  BarrierInv'
<1> DEFINE p == w[1]
           list == begun[p][GridComm]
           row == [begun[p] EXCEPT ![GridComm] = Append(list, v1[p])]
<1>1. /\ UNCHANGED <<mpi_queue_mode, paced, rounds, region, round, n, met, v1, v2, vect>>
      /\ pc[w] = "filled" /\ pc' = [pc EXCEPT ![w] = "reducing"] /\ Met(w)
      /\ place' = [place EXCEPT ![w] = Len(list) + 1]
  BY DEF AfterFirst, Begin, Comm, Goto, params, task, vectors
<1>2. begun' = [begun EXCEPT ![p] = row]
  BY DEF AfterFirst, Begin, Comm
<1>3. BarrierType /\ Together /\ Filled /\ Reduced /\ InReduction /\ Stored /\ SummedUp
  BY DEF BarrierInv
<1>4. p \in Procs /\ GridComm \in Comms /\ w = Lead(p)
  BY Worker2, SumsAssumption DEF Comms, GridComm
<1>5. list \in Seq(Row) /\ v1[p] \in Row
  BY <1>3, <1>4 DEF BarrierType
<1>6. /\ Append(list, v1[p]) \in Seq(Row) /\ Len(list) \in Nat
      /\ Len(Append(list, v1[p])) = Len(list) + 1 /\ Append(list, v1[p])[Len(list) + 1] = v1[p]
      /\ \A k \in 1..Len(list) : Append(list, v1[p])[k] = list[k]
  BY <1>5
<1>7. row \in [Comms -> Seq(Row)] /\ row[GridComm] = Append(list, v1[p])
  BY <1>3, <1>4, <1>6 DEF BarrierType
<1> HIDE DEF row
<1>8. /\ begun'[p][GridComm] = Append(list, v1[p])
      /\ \A q \in Procs \ {p} : begun'[q] = begun[q]
  BY <1>2, <1>3, <1>4, <1>7 DEF BarrierType
<1>9. BarrierType'
  <2>1. begun' \in [Procs -> [Comms -> Seq(Row)]]
    BY <1>2, <1>3, <1>4, <1>7 DEF BarrierType
  <2>2. place' \in [Workers -> Nat]
    BY <1>1, <1>3, <1>6 DEF BarrierType
  <2>3. \A u \in Workers : pc'[u] # "idle" => round[u] >= 1
    BY <1>1, <1>3 DEF BarrierType
  <2> QED
    BY <1>1, <1>3, <2>1, <2>2, <2>3 DEF BarrierType
<1>10. /\ pc'[w] = "reducing" /\ \A u \in Workers \ {w} : pc'[u] = pc[u]
       /\ \A u \in Workers : Calls(u)' = Calls(u) /\ Owed(u)' = Owed(u) /\ Own(u)' = Own(u)
  <2>1. /\ pc'[w] = "reducing" /\ Calls(w)' = Calls(w)
        /\ \A u \in Workers \ {w} : pc'[u] = pc[u] /\ Calls(u)' = Calls(u) /\ Owed(u)' = Owed(u)
        /\ \A u \in Workers : Own(u)' = Own(u)
    BY <1>1, <1>3, OthersStay
  <2>2. Owed(w) = 1 /\ Owed(w)' = 1
    BY <1>1, <2>1 DEF Owed
  <2> QED
    BY <2>1, <2>2
<1>11. Together'
  <2>1. Passed(w)' = met[w] /\ met[w] \in Nat
    BY <1>1, <1>3, <1>10 DEF Passed, BarrierType
  <2>2. \A u \in Workers : u[1] = w[1] => met[u] >= met[w]
    BY <1>1, Worker2 DEF Met
  <2> QED
    BY <1>1, <1>3, <1>10, <2>1, <2>2, TogetherStays
<1>12. Filled' /\ Stored' /\ SummedUp'
  <2>1. Filled'
    BY <1>1, <1>3, <1>10 DEF Filled, IsCall
  <2>2. Stored'
    BY <1>1, <1>3, <1>10, LeadIs DEF Stored, IsCall, Lead
  <2>3. SummedUp'
    BY <1>1, <1>3, <1>10 DEF SummedUp
  <2> QED
    BY <2>1, <2>2, <2>3
<1>13. /\ Len(list) + 1 = Calls(w) /\ Calls(w) \in Nat
       /\ \A t \in Threads : IsCall(v1[p][t], t, Len(list) + 1)
  <2>1. Len(list) = Calls(w) - 1 /\ Calls(w) \in Nat /\ Calls(w) > 0
    BY <1>1, <1>3, <1>4, CallsIs DEF Reduced, Reductions
  <2>2. ASSUME NEW t \in Threads PROVE IsCall(v1[p][t], t, Calls(w))
    <3> DEFINE u == <<p, t>>
    <3>1. u \in Workers /\ u[1] = p /\ u[2] = t
      BY <1>4 DEF Workers
    <3> HIDE DEF u
    <3>2. Calls(u) = Calls(w)
      BY <1>1, <1>3, <3>1, AtMeeting
    <3> QED
      BY <1>3, <2>1, <3>1, <3>2 DEF Filled
  <2>3. Len(list) + 1 = Calls(w)
    BY <1>6, <2>1
  <2> QED
    BY <2>1, <2>2, <2>3
<1>14. Reduced'
  <2> SUFFICES ASSUME NEW q \in Procs
               PROVE  /\ Len(begun'[q][GridComm]) = Reductions(q)'
                      /\ \A k \in 1..Len(begun'[q][GridComm]), t \in Threads :
                             IsCall(begun[q][GridComm][k][t], t, k)'
    BY DEF Reduced
  <2>1. CASE q = p
    <3>1. Reductions(p)' = Calls(w)
      BY <1>4, <1>10 DEF Reductions, Lead
    <3>2. Len(begun'[p][GridComm]) = Len(list) + 1
      BY <1>6, <1>8
    <3>3. ASSUME NEW k \in 1..(Len(list) + 1), NEW t \in Threads
          PROVE  IsCall(begun[p][GridComm][k][t], t, k)'
      <4>1. CASE k = Len(list) + 1
        <5>1. begun'[p][GridComm][k] = v1[p]
          BY <1>6, <1>8, <4>1
        <5> QED
          BY <1>1, <1>13, <4>1, <5>1 DEF IsCall
      <4>2. CASE k # Len(list) + 1
        <5>1. k \in 1..Len(list)
          BY <1>6, <4>2
        <5>2. begun'[p][GridComm][k] = list[k]
          BY <1>6, <1>8, <5>1
        <5>3. IsCall(list[k][t], t, k)
          BY <1>3, <1>4, <5>1 DEF Reduced
        <5> QED
          BY <1>1, <5>2, <5>3 DEF IsCall
      <4> QED
        BY <4>1, <4>2
    <3> QED
      BY <1>13, <2>1, <3>1, <3>2, <3>3
  <2>2. CASE q # p
    <3>1. Lead(q) # w /\ Lead(q) \in Workers
      BY <2>2, LeadIs
    <3>2. Reductions(q)' = Reductions(q)
      BY <1>10, <3>1 DEF Reductions, Lead
    <3>3. begun'[q] = begun[q]
      BY <1>8, <2>2
    <3> QED
      BY <1>1, <1>3, <3>2, <3>3 DEF Reduced, IsCall
  <2> QED
    BY <2>1, <2>2
<1>15. InReduction'
  <2>1. place'[w] = Calls(w) /\ \A u \in Workers \ {w} : place'[u] = place[u]
    BY <1>1, <1>3, <1>13 DEF BarrierType
  <2> QED
    BY <1>3, <1>10, <2>1 DEF InReduction
<1> QED
  BY <1>9, <1>11, <1>12, <1>14, <1>15 DEF BarrierInv

\* The others go to the second meeting.
LEMMA AfterFirstAlone ==
    ASSUME ~ mpi_queue_mode, BarrierInv, NEW w \in Workers, AfterFirst(w), w[2] # 0
    PROVE  BarrierInv'
<1>1. /\ UNCHANGED <<mpi_queue_mode, paced, rounds, region, round, n, begun, place, v1, v2, vect>>
      /\ pc[w] = "filled" /\ pc' = [pc EXCEPT ![w] = "stored"] /\ Met(w)
      /\ met' = [met EXCEPT ![w] = @ + 1]
  BY DEF AfterFirst, Goto, params, task, vectors
<1>2. BarrierType /\ Together /\ Filled /\ Reduced /\ InReduction /\ Stored /\ SummedUp
  BY DEF BarrierInv
<1>3. BarrierType'
  <2>1. \A u \in Workers : pc'[u] # "idle" => round[u] >= 1
    BY <1>1, <1>2 DEF BarrierType
  <2> QED
    BY <1>1, <1>2, <2>1 DEF BarrierType
<1>4. /\ pc'[w] = "stored" /\ \A u \in Workers \ {w} : pc'[u] = pc[u] /\ Owed(u)' = Owed(u)
      /\ \A u \in Workers : Calls(u)' = Calls(u) /\ Own(u)' = Own(u)
  <2>1. /\ pc'[w] = "stored" /\ Calls(w)' = Calls(w)
        /\ \A u \in Workers \ {w} : pc'[u] = pc[u] /\ Calls(u)' = Calls(u) /\ Owed(u)' = Owed(u)
        /\ \A u \in Workers : Own(u)' = Own(u)
    BY <1>1, <1>2, OthersStay
  <2> QED
    BY <2>1
<1>5. met'[w] = met[w] + 1 /\ met[w] \in Nat /\ \A u \in Workers \ {w} : met'[u] = met[u]
  BY <1>1, <1>2 DEF BarrierType
<1>6. Together'
  <2>1. Owed(w) = 1 /\ Owed(w)' = 0
    BY <1>1, <1>4 DEF Owed
  <2>2. Passed(w)' = met[w]
    <3>1. Passed(w)' = met'[w] - 1
      BY <1>4 DEF Passed
    <3> QED
      BY <1>5, <3>1
  <2>3. \A u \in Workers : u[1] = w[1] => met[u] >= met[w]
    BY <1>1, Worker2 DEF Met
  <2>4. met'[w] + Owed(w)' = met[w] + Owed(w)
    BY <1>5, <2>1
  <2>5. \A u \in Workers \ {w} : pc'[u] = pc[u] /\ met'[u] = met[u]
    BY <1>4, <1>5
  <2> QED
    BY <1>2, <1>4, <1>5, <2>2, <2>3, <2>4, <2>5, TogetherStays
<1>7. \A p \in Procs : /\ Reductions(p)' = Reductions(p)
                       /\ Owed(Lead(p))' = Owed(Lead(p)) /\ Calls(Lead(p))' = Calls(Lead(p))
  <2> TAKE p \in Procs
  <2>1. Lead(p) \in Workers \ {w}
    BY LeadIs
  <2> QED
    BY <1>4, <2>1 DEF Reductions, Lead
<1>8. Filled' /\ Reduced' /\ Stored'
  <2>1. Filled'
    BY <1>1, <1>2, <1>4 DEF Filled, IsCall
  <2>2. Reduced'
    BY <1>1, <1>2, <1>7 DEF Reduced, IsCall
  <2>3. Stored'
    BY <1>1, <1>2, <1>7 DEF Stored, IsCall
  <2> QED
    BY <2>1, <2>2, <2>3
<1>9. InReduction' /\ SummedUp'
  BY <1>1, <1>2, <1>4 DEF InReduction, SummedUp
<1> QED
  BY <1>3, <1>6, <1>8, <1>9 DEF BarrierInv

\* The reduction is over: every process has put in what its threads have for it.
LEMMA ReduceAlone ==
    ASSUME ~ mpi_queue_mode, BarrierInv, NEW w \in Workers, Reduce(w)
    PROVE  BarrierInv'
<1> DEFINE p == w[1]
           k == place[w]
           sums == [t \in Threads |-> Summed(w, t)]
<1>1. /\ UNCHANGED <<mpi_queue_mode, paced, rounds, region, round, n, begun, place, v1, vect>>
      /\ pc[w] = "reducing" /\ pc' = [pc EXCEPT ![w] = "stored"]
      /\ met' = [met EXCEPT ![w] = @ + 1] /\ v2' = [v2 EXCEPT ![p] = sums]
      /\ \A q \in Procs : Len(begun[q][GridComm]) >= k
  BY DEF Reduce, Goto, params, task, Over, Comm
<1>2. BarrierType /\ Together /\ Filled /\ Reduced /\ InReduction /\ Stored /\ SummedUp
  BY DEF BarrierInv
<1>3. p \in Procs /\ w = Lead(p) /\ k = Calls(w) /\ k \in Nat /\ k > 0 /\ GridComm \in Comms
  BY <1>1, <1>2, CallsIs, Worker2, SumsAssumption DEF InReduction, Comms, GridComm
<1>4. /\ pc'[w] = "stored" /\ \A u \in Workers \ {w} : pc'[u] = pc[u] /\ Owed(u)' = Owed(u)
      /\ \A u \in Workers : Calls(u)' = Calls(u) /\ Own(u)' = Own(u)
  <2>1. /\ pc'[w] = "stored" /\ Calls(w)' = Calls(w)
        /\ \A u \in Workers \ {w} : pc'[u] = pc[u] /\ Calls(u)' = Calls(u) /\ Owed(u)' = Owed(u)
        /\ \A u \in Workers : Own(u)' = Own(u)
    BY <1>1, <1>2, OthersStay
  <2> QED
    BY <2>1
<1>5. met'[w] = met[w] + 1 /\ met[w] \in Nat /\ \A u \in Workers \ {w} : met'[u] = met[u]
  BY <1>1, <1>2 DEF BarrierType
<1>6. \A t \in Threads : Summed(w, t) # {} /\ \A s \in Summed(w, t) : IsCall(s, t, k)
  <2> TAKE t \in Threads
  <2>1. Summed(w, t) = {begun[q][GridComm][k][t] : q \in Procs}
    BY DEF Summed, Comm
  <2>2. \A q \in Procs : k \in 1..Len(begun[q][GridComm])
    <3> TAKE q \in Procs
    <3>1. begun[q][GridComm] \in Seq(Row)
      BY <1>2, <1>3 DEF BarrierType
    <3>2. Len(begun[q][GridComm]) \in Nat
      BY <3>1
    <3> QED
      BY <1>1, <1>3, <3>2
  <2>3. \A q \in Procs : IsCall(begun[q][GridComm][k][t], t, k)
    BY <1>2, <2>2 DEF Reduced
  <2> QED
    BY <1>3, <2>1, <2>3
<1>7. sums \in [Threads -> SUBSET Summands] /\ \A t \in Threads : sums[t] = Summed(w, t)
  BY <1>6 DEF IsCall
<1> HIDE DEF sums
<1>8. /\ v2'[p] = sums
      /\ \A q \in Procs \ {p} : v2'[q] = v2[q]
      /\ v2' \in [Procs -> [Threads -> SUBSET Summands]]
  BY <1>1, <1>2, <1>3, <1>7 DEF BarrierType
<1>9. BarrierType'
  <2>1. \A u \in Workers : pc'[u] # "idle" => round[u] >= 1
    BY <1>1, <1>2 DEF BarrierType
  <2> QED
    BY <1>1, <1>2, <1>8, <2>1 DEF BarrierType
<1>10. Owed(w) = 1 /\ Owed(w)' = 0
  BY <1>1, <1>4 DEF Owed
<1>11. Together'
  <2>2. Passed(w)' = met[w] /\ Passed(w) = met[w]
    <3>1. Passed(w)' = met'[w] - 1
      BY <1>4 DEF Passed
    <3> QED
      BY <1>1, <1>5, <3>1 DEF Passed
  <2>3. \A u \in Workers : u[1] = w[1] => met[u] >= met[w]
    BY <1>2, <2>2 DEF Together
  <2>4. met'[w] + Owed(w)' = met[w] + Owed(w)
    BY <1>5, <1>10
  <2>5. \A u \in Workers \ {w} : pc'[u] = pc[u] /\ met'[u] = met[u]
    BY <1>4, <1>5
  <2> QED
    BY <1>2, <1>4, <1>5, <2>2, <2>3, <2>4, <2>5, TogetherStays
<1>12. \A q \in Procs : /\ Reductions(q)' = Reductions(q)
                        /\ q # p => /\ Owed(Lead(q))' = Owed(Lead(q))
                                    /\ Calls(Lead(q))' = Calls(Lead(q))
  <2> TAKE q \in Procs
  <2>1. Lead(q) \in Workers /\ (q # p => Lead(q) # w) /\ (q = p => Lead(q) = w)
    BY <1>3, LeadIs
  <2> QED
    BY <1>1, <1>4, <2>1 DEF Reductions, Lead
<1>13. Filled' /\ Reduced'
  <2>1. Filled'
    BY <1>1, <1>2, <1>4 DEF Filled, IsCall
  <2>2. Reduced'
    BY <1>1, <1>2, <1>12 DEF Reduced, IsCall
  <2> QED
    BY <2>1, <2>2
<1>14. Stored'
  <2> SUFFICES ASSUME NEW q \in Procs, NEW t \in Threads,
                      Calls(Lead(q))' - Owed(Lead(q))' > 0
               PROVE  /\ v2'[q][t] # {}
                      /\ \A s \in v2'[q][t] : IsCall(s, t, (Calls(Lead(q)) - Owed(Lead(q))))'
    BY DEF Stored
  <2>1. CASE q = p
    <3>1. v2'[q][t] = Summed(w, t)
      BY <1>7, <1>8, <2>1
    <3>2. Calls(Lead(q))' - Owed(Lead(q))' = k
      <4>1. Calls(Lead(q))' = Calls(w)' /\ Owed(Lead(q))' = Owed(w)'
        BY <1>3, <2>1 DEF Lead
      <4> QED
        BY <1>3, <1>4, <1>10, <4>1
    <3> QED
      BY <1>1, <1>6, <3>1, <3>2 DEF IsCall
  <2>2. CASE q # p
    <3>1. v2'[q] = v2[q]
      BY <1>8, <2>2
    <3>2. Calls(Lead(q))' - Owed(Lead(q))' = Calls(Lead(q)) - Owed(Lead(q))
      BY <1>12, <2>2
    <3> QED
      BY <1>1, <1>2, <3>1, <3>2 DEF Stored, IsCall
  <2> QED
    BY <2>1, <2>2
<1>15. InReduction' /\ SummedUp'
  BY <1>1, <1>2, <1>4 DEF InReduction, SummedUp
<1> QED
  BY <1>9, <1>11, <1>13, <1>14, <1>15 DEF BarrierInv

\* All threads of the process have come: v2 is of the sum that the thread waits for.
LEMMA FetchAlone ==
    ASSUME ~ mpi_queue_mode, BarrierInv, NEW w \in Workers, Fetch(w)
    PROVE  BarrierInv'
<1> DEFINE p == w[1]
           t == w[2]
<1>1. /\ UNCHANGED <<mpi_queue_mode, paced, rounds, region, round, n, met, begun, place, v1, v2>>
      /\ pc[w] = "stored" /\ pc' = [pc EXCEPT ![w] = "summed"] /\ Met(w)
      /\ vect' = [vect EXCEPT ![w] = v2[p][t]]
  BY DEF Fetch, Goto, params, task
<1>2. BarrierType /\ Together /\ Filled /\ Reduced /\ InReduction /\ Stored /\ SummedUp
  BY DEF BarrierInv
<1>3. p \in Procs /\ t \in Threads
  BY Worker2
<1>4. /\ pc'[w] = "summed" /\ \A u \in Workers \ {w} : pc'[u] = pc[u]
      /\ \A u \in Workers : Calls(u)' = Calls(u) /\ Own(u)' = Own(u) /\ Owed(u)' = Owed(u)
  <2>1. /\ pc'[w] = "summed" /\ Calls(w)' = Calls(w)
        /\ \A u \in Workers \ {w} : pc'[u] = pc[u] /\ Calls(u)' = Calls(u) /\ Owed(u)' = Owed(u)
        /\ \A u \in Workers : Own(u)' = Own(u)
    BY <1>1, <1>2, OthersStay
  <2>2. Owed(w) = 0 /\ Owed(w)' = 0
    BY <1>1, <2>1 DEF Owed
  <2> QED
    BY <2>1, <2>2
<1>5. BarrierType'
  <2>1. \A u \in Workers : pc'[u] # "idle" => round[u] >= 1
    BY <1>1, <1>2 DEF BarrierType
  <2>2. vect' \in [Workers -> SUBSET Summands]
    <3>1. v2[p][t] \in SUBSET Summands
      BY <1>2, <1>3 DEF BarrierType
    <3> QED
      BY <1>1, <1>2, <3>1 DEF BarrierType
  <2> QED
    BY <1>1, <1>2, <2>1, <2>2 DEF BarrierType
<1>6. Together'
  <2>1. Passed(w)' = met[w] /\ met[w] \in Nat
    BY <1>1, <1>2, <1>4 DEF Passed, BarrierType
  <2>2. \A u \in Workers : u[1] = w[1] => met[u] >= met[w]
    BY <1>1, Worker2 DEF Met
  <2> QED
    BY <1>1, <1>2, <1>4, <2>1, <2>2, TogetherStays
<1>7. \A q \in Procs : /\ Reductions(q)' = Reductions(q)
                       /\ Owed(Lead(q))' = Owed(Lead(q)) /\ Calls(Lead(q))' = Calls(Lead(q))
  <2> TAKE q \in Procs
  <2>1. Lead(q) \in Workers
    BY LeadIs
  <2> QED
    BY <1>1, <1>4, <2>1 DEF Reductions, Lead
<1>8. Filled' /\ Reduced' /\ Stored'
  <2>1. Filled'
    BY <1>1, <1>2, <1>4 DEF Filled, IsCall
  <2>2. Reduced'
    BY <1>1, <1>2, <1>7 DEF Reduced, IsCall
  <2>3. Stored'
    BY <1>1, <1>2, <1>7 DEF Stored, IsCall
  <2> QED
    BY <2>1, <2>2, <2>3
<1>9. InReduction'
  BY <1>1, <1>2, <1>4 DEF InReduction
<1>10. v2[p][t] = {Own(w)}
  <2>1. Lead(p) \in Workers /\ Lead(p)[1] = p
    BY <1>3, LeadIs
  <2>2. Calls(Lead(p)) - Owed(Lead(p)) = Calls(w)
    BY <1>1, <1>2, <2>1, AtMeeting
  <2>3. Calls(w) > 0 /\ IsCall(Own(w), t, Calls(w))
    BY <1>1, <1>2, CallsIs
  <2>4. v2[p][t] # {} /\ \A s \in v2[p][t] : IsCall(s, t, Calls(w))
    BY <1>2, <1>3, <2>2, <2>3 DEF Stored
  <2>5. rounds \in Nat \ {0}
    BY <1>2 DEF BarrierType
  <2>6. \A s \in v2[p][t] : s = Own(w)
    BY <2>3, <2>4, <2>5, SameCall
  <2> QED
    BY <2>4, <2>6
<1>11. SummedUp'
  <2>1. vect'[w] = {Own(w)} /\ \A u \in Workers \ {w} : vect'[u] = vect[u]
    BY <1>1, <1>2, <1>10 DEF BarrierType
  <2> QED
    BY <1>2, <1>4, <2>1 DEF SummedUp
<1> QED
  BY <1>5, <1>6, <1>8, <1>9, <1>11 DEF BarrierInv

LEMMA NextBarrierInv == BarrierInv /\ [Next]_vars => BarrierInv'
<1> SUFFICES ASSUME BarrierInv, [Next]_vars PROVE BarrierInv'
  OBVIOUS
<1>1. UNCHANGED mpi_queue_mode
  BY ParamsStay DEF params
<1>2. CASE mpi_queue_mode
  BY <1>1, <1>2 DEF BarrierInv
<1>3. CASE ~ mpi_queue_mode
  <2>1. ASSUME NEW w \in Workers, Worker(w) PROVE BarrierInv'
    <3>1. pc[w] \notin {"start", "posted"}
      BY <1>3 DEF BarrierInv, BarrierType
    <3>2. Take(w) \/ Fill(w) \/ AfterFirst(w) \/ Reduce(w) \/ Fetch(w) \/ GoOn(w)
      BY <1>3, <2>1, <3>1 DEF Worker, Start, Post, Complete
    <3> QED
      BY <1>3, <3>2, TakeAlone, FillAlone, AllreduceAlone, AfterFirstAlone, ReduceAlone,
         FetchAlone, GoOnAlone
  <2>2. ASSUME NEW p \in Procs, NextRegion(p) PROVE BarrierInv'
    BY <1>3, <2>2, NextRegionAlone
  <2>3. CASE UNCHANGED vars
    <3>1. BarrierType'
      BY <1>3, <2>3 DEF vars, params, task, vectors, BarrierInv, BarrierType
    <3>2. \A w \in Workers : Calls(w)' = Calls(w) /\ Own(w)' = Own(w)
      BY <2>3 DEF vars, params, task, Calls, TasksBegun, Own, State
    <3> QED
      BY <1>3, <2>3, <3>1, <3>2, QuietStep DEF vars, params, task, vectors
  <2> QED
    BY <2>1, <2>2, <2>3 DEF Next, Finished
<1> QED
  BY <1>2, <1>3

\* In both modes, for every number of processes, threads, communicators, tasks, sums
\* and regions, a thread gets the sum of what the same thread of every process has
\* put in for its orbital: in queue mode when the tasks of a region begin with the
\* barrier (GetNewRhoOne) or every orbital of the region has a communicator of its
\* own, which is what get_unique_comm is documented to give it.  Without queue mode
\* the two meetings of a sum keep a thread of a process from writing over what thread
\* 0 has yet to reduce, and thread 0 from writing over what a thread has yet to fetch.
THEOREM SumsAreOfTheOrbital == Spec /\ CommsSuffice => []SumsMatch
<1>1. CommsSuffice /\ QueueInv /\ BarrierInv => SumsMatch
  <2>1. ASSUME BarrierInv, ~ mpi_queue_mode PROVE SumsMatch
    BY <2>1 DEF BarrierInv, SummedUp, SumsMatch
  <2> QED
    BY <2>1 DEF QueueInv
<1>2. CommsSuffice /\ [Next]_vars => CommsSuffice'
  BY ParamsStay DEF CommsSuffice, params
<1> QED
  BY <1>1, <1>2, InitQueueInv, NextQueueInv, InitBarrierInv, NextBarrierInv, PTL DEF Spec
=============================================================================

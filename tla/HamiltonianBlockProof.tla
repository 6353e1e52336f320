----------------------- MODULE HamiltonianBlockProof -----------------------
(***************************************************************************)
(* For every number of orbitals, threads and places of the block: each     *)
(* orbital gets the operator with its own non-local part, and none is      *)
(* forgotten, provided that in queue mode the block is a whole number of   *)
(* rounds or holds all orbitals.                                           *)
(***************************************************************************)
EXTENDS MCHamiltonianBlock, Integers, TLAPS

Rounds ==
    /\ non_local_block_size >= Least(active_threads, num_states)
    /\ phase = "threads" => \E m \in Nat : st1 = m * active_threads

\* The block holds the orbitals from this one on, ...
first_state == st1 - first_nls

Prepared ==
    /\ first_nls <= st1
    /\ \A p \in 0..(non_local_block_size - 1) :
          first_state + p < num_states => nv[p] = first_state + p

\* ... those of the queued tasks included, ...
TasksPlaced ==
    \A t \in Queued : t.state = first_state + t.place /\ t.state < num_states

\* ... as long as the next round fits into the block, too.
NextRoundFits ==
    /\ Queued # {} => phase \in {"threads", "drain"} /\ mpi_queue_mode /\ first_nls < non_local_block_size
    /\ mpi_queue_mode /\ phase = "threads" =>
          \/ num_states <= non_local_block_size
          \/ \E c \in Nat, k \in Nat : /\ non_local_block_size = c * active_threads
                                       /\ first_nls = k * active_threads

\* An orbital behind us has been dealt with, or is in a task.
BehindUs ==
    \A s \in Orbitals :
        /\ applied[s] \in {s, NONE}
        /\ s < st1 /\ applied[s] = NONE => \E t \in Queued : t.state = s

AtTheEnd == phase = "done" => st1 >= num_states

BlockInv == /\ TypeOK /\ Rounds /\ Prepared /\ TasksPlaced
            /\ NextRoundFits /\ BehindUs /\ AtTheEnd
-----------------------------------------------------------------------------
(* Rounds *)

LEMMA Division ==
    ASSUME NEW n \in Nat, NEW a \in Nat \ {0}
    PROVE  /\ n \div a \in Nat /\ (n \div a) * a \in Nat /\ (n \div a) * a <= n
           /\ n % a = 0 => n = (n \div a) * a
OBVIOUS

\* Below a multiple of a there is place for one more a.
LEMMA NextMultiple ==
    ASSUME NEW a \in Nat, NEW k \in Nat, NEW c \in Nat, k * a < c * a
    PROVE  (k + 1) * a = k * a + a /\ k * a + a <= c * a
<1>1. k < c
  <2>1. SUFFICES ASSUME c <= k PROVE FALSE
    OBVIOUS
  <2>2. PICK e \in Nat : k = c + e
    <3>1. k - c \in Nat /\ k = c + (k - c)
      BY <2>1
    <3> QED
      BY <3>1
  <2>3. k * a = c * a + e * a /\ e * a \in Nat /\ c * a \in Nat
    BY <2>2
  <2> QED
    BY <2>3
<1>2. PICK e \in Nat : c = k + 1 + e
  <2>1. c - k - 1 \in Nat /\ c = k + 1 + (c - k - 1)
    BY <1>1
  <2> QED
    BY <2>1
<1>3. c * a = k * a + a + e * a /\ e * a \in Nat /\ k * a \in Nat
  BY <1>2
<1> QED
  BY <1>3

\* The parameters and what the lines of the loop compute from them
LEMMA TypesOf ==
    ASSUME TypeOK
    PROVE  /\ MaxStates \in Nat \ {0} /\ MaxThreads \in Nat \ {0} /\ QueueModes \subseteq BOOLEAN
           /\ num_states \in 1..MaxStates /\ active_threads \in Nat \ {0}
           /\ non_local_block_size \in 1..MaxStates
           /\ st1 \in 0..num_states /\ first_nls \in 0..non_local_block_size
           /\ Istop \in Nat /\ Istop <= num_states
           /\ NONE \notin Orbitals /\ UNPREPARED \notin Orbitals \cup {NONE}
           /\ Orbitals = 0..(MaxStates - 1)
<1>1. /\ MaxStates \in Nat \ {0} /\ MaxThreads \in Nat \ {0} /\ QueueModes \subseteq BOOLEAN
      /\ num_states \in 1..MaxStates /\ active_threads \in 1..MaxThreads
      /\ non_local_block_size \in 1..MaxStates
      /\ st1 \in 0..num_states /\ first_nls \in 0..non_local_block_size
  BY BoundsAssumption DEF TypeOK
<1>2. Istop \in Nat /\ Istop <= num_states
  BY <1>1, Division DEF Istop
<1> QED
  BY <1>1, <1>2 DEF Orbitals, NONE, UNPREPARED

\* A round that begins ends before istop, and fits into a block.
LEMMA RoundIsFull ==
    ASSUME TypeOK, Rounds, phase = "threads", st1 < Istop
    PROVE  /\ st1 + active_threads <= num_states
           /\ active_threads <= non_local_block_size
           /\ \E m \in Nat : st1 + active_threads = m * active_threads
<1>1. /\ num_states \in Nat /\ active_threads \in Nat \ {0} /\ non_local_block_size \in Nat
      /\ Istop \in Nat /\ Istop <= num_states /\ st1 \in Nat
  BY TypesOf
<1>2. PICK m \in Nat : st1 = m * active_threads
  BY DEF Rounds
<1>3. num_states \div active_threads \in Nat
  BY <1>1, Division
<1>4. (m + 1) * active_threads = st1 + active_threads /\ st1 + active_threads <= Istop
  <2> DEFINE c == num_states \div active_threads
  <2>1. m * active_threads < c * active_threads
    BY <1>2 DEF Istop
  <2> HIDE DEF c
  <2>2. (m + 1) * active_threads = m * active_threads + active_threads
        /\ m * active_threads + active_threads <= c * active_threads
    BY <1>1, <1>3, <2>1, NextMultiple DEF c
  <2> QED
    BY <1>2, <2>2 DEF c, Istop
<1>5. active_threads <= non_local_block_size
  BY <1>1, <1>4 DEF Rounds, Least
<1>6. \E k \in Nat : st1 + active_threads = k * active_threads
  <2>1. m + 1 \in Nat
    OBVIOUS
  <2>2. st1 + active_threads = (m + 1) * active_threads
    BY <1>4
  <2> QED
    BY <2>1, <2>2, Zenon
<1> QED
  BY <1>1, <1>4, <1>5, <1>6

\* AppNls prepares the orbitals from first on, as many as there are and as fit.
LEMMA AppNlsPrepares ==
    ASSUME TypeOK, NEW first \in 0..num_states
    PROVE  LET buffer == AppNls(first, Least(non_local_block_size, num_states - first))
           IN  /\ buffer \in [Orbitals -> Orbitals \cup {UNPREPARED}]
               /\ \A p \in 0..(non_local_block_size - 1) :
                     first + p < num_states => buffer[p] = first + p
<1> DEFINE count == Least(non_local_block_size, num_states - first)
           buffer == AppNls(first, count)
<1>1. /\ num_states \in 1..MaxStates /\ non_local_block_size \in 1..MaxStates /\ MaxStates \in Nat
      /\ nv \in [Orbitals -> Orbitals \cup {UNPREPARED}] /\ Orbitals = 0..(MaxStates - 1)
  BY TypesOf DEF TypeOK
<1>2. /\ count <= non_local_block_size /\ count <= num_states - first /\ count \in Int
      /\ count = non_local_block_size \/ count = num_states - first
  BY <1>1 DEF Least
<1> HIDE DEF count
<1>3. \A p \in Orbitals : /\ p < count => buffer[p] = first + p /\ first + p \in Orbitals
                          /\ ~ p < count => buffer[p] = nv[p]
  BY <1>1, <1>2 DEF AppNls
<1>4. buffer \in [Orbitals -> Orbitals \cup {UNPREPARED}]
  BY <1>1, <1>3 DEF AppNls
<1>5. ASSUME NEW p \in 0..(non_local_block_size - 1), first + p < num_states
      PROVE  buffer[p] = first + p
  <2>1. p < count /\ p \in Orbitals
    BY <1>1, <1>2, <1>5
  <2> QED
    BY <1>3, <2>1
<1> QED
  BY <1>4, <1>5 DEF count

\* A region leaves with every orbital of its tasks what was at the task's place.
LEMMA RegionApplies ==
    ASSUME NEW tasks, NEW buffer, NEW s \in Orbitals
    PROVE  /\ (\E t \in tasks : t.state = s) =>
                 \E t \in tasks : t.state = s /\ AfterRegion(tasks, buffer)[s] = buffer[t.place]
           /\ ~ (\E t \in tasks : t.state = s) => AfterRegion(tasks, buffer)[s] = applied[s]
<1>1. ASSUME \E t \in tasks : t.state = s
      PROVE  \E t \in tasks : t.state = s /\ AfterRegion(tasks, buffer)[s] = buffer[t.place]
  <2> DEFINE c == CHOOSE t \in tasks : t.state = s
  <2>1. c \in tasks /\ c.state = s
    BY <1>1, Zenon
  <2>2. AfterRegion(tasks, buffer)[s] = buffer[c.place]
    BY <1>1 DEF AfterRegion
  <2> QED
    BY <2>1, <2>2
<1>2. ASSUME ~ (\E t \in tasks : t.state = s)
      PROVE  AfterRegion(tasks, buffer)[s] = applied[s]
  BY <1>2 DEF AfterRegion
<1> QED
  BY <1>1, <1>2

LEMMA RegionType ==
    ASSUME TypeOK, NEW tasks, tasks \subseteq [state : Orbitals, place : Orbitals],
           NEW buffer \in [Orbitals -> Orbitals \cup {UNPREPARED}]
    PROVE  AfterRegion(tasks, buffer) \in [Orbitals -> Orbitals \cup {NONE, UNPREPARED}]
<1>1. ASSUME NEW s \in Orbitals
      PROVE  AfterRegion(tasks, buffer)[s] \in Orbitals \cup {NONE, UNPREPARED}
  <2>1. CASE \E t \in tasks : t.state = s
    <3>1. PICK t \in tasks : AfterRegion(tasks, buffer)[s] = buffer[t.place]
      BY <2>1, RegionApplies
    <3>2. t.place \in Orbitals
      BY <3>1
    <3> QED
      BY <3>1, <3>2
  <2>2. CASE ~ \E t \in tasks : t.state = s
    BY <2>2, RegionApplies DEF TypeOK
  <2> QED
    BY <2>1, <2>2
<1>2. AfterRegion(tasks, buffer) = [s \in Orbitals |-> AfterRegion(tasks, buffer)[s]]
  BY DEF AfterRegion
<1> QED
  BY <1>1, <1>2

\* the tasks of a round
LEMMA RoundTasks ==
    ASSUME TypeOK, NEW first \in Nat, first + active_threads <= non_local_block_size,
           st1 + active_threads <= num_states
    PROVE  /\ Round(first) \subseteq [state : Orbitals, place : 0..(non_local_block_size - 1)]
           /\ \A t \in Round(first) : t.state - st1 = t.place - first
           /\ \A t \in Round(first) : t.state < num_states
           /\ \A s \in st1..(st1 + active_threads - 1) : \E t \in Round(first) : t.state = s
<1>1. /\ num_states \in 1..MaxStates /\ non_local_block_size \in 1..MaxStates /\ MaxStates \in Nat
      /\ st1 \in Nat /\ active_threads \in Nat \ {0} /\ Orbitals = 0..(MaxStates - 1)
  BY TypesOf
<1>2. ASSUME NEW t \in Round(first)
      PROVE  /\ t \in [state : Orbitals, place : 0..(non_local_block_size - 1)]
             /\ t.state - st1 = t.place - first /\ t.state < num_states
  <2>1. PICK ist \in 0..(active_threads - 1) : t = [state |-> st1 + ist, place |-> first + ist]
    BY DEF Round
  <2>2. st1 + ist \in Orbitals /\ first + ist \in 0..(non_local_block_size - 1) /\ st1 + ist < num_states
    BY <1>1
  <2> QED
    BY <1>1, <2>1, <2>2
<1>3. ASSUME NEW s \in st1..(st1 + active_threads - 1)
      PROVE  \E t \in Round(first) : t.state = s
  <2>1. s - st1 \in 0..(active_threads - 1) /\ st1 + (s - st1) = s
    BY <1>1
  <2>2. [state |-> st1 + (s - st1), place |-> first + (s - st1)] \in Round(first)
    BY <2>1 DEF Round
  <2> QED
    BY <2>1, <2>2
<1> QED
  BY <1>2, <1>3
-----------------------------------------------------------------------------
(* Types *)

\* The place in the block and the block itself, once the check has been made
Refill(n) == first_nls + n > non_local_block_size
First(n) == IF Refill(n) THEN 0 ELSE first_nls
Buffer(n) == IF Refill(n) THEN AppNls(st1, Least(non_local_block_size, num_states - st1)) ELSE nv

LEMMA QueueRoundIs ==
    ASSUME TypeOK, QueueRound
    PROVE  /\ phase = "threads" /\ st1 < Istop
           /\ nv' = Buffer(active_threads)
           /\ first_nls' = First(active_threads) + active_threads
           /\ st1' = st1 + active_threads
           /\ UNCHANGED <<params, phase>>
           /\ \/ /\ Queued' = {}
                 /\ applied' = AfterRegion(Queued \cup Round(First(active_threads)), Buffer(active_threads))
              \/ /\ mpi_queue_mode /\ first_nls + active_threads < non_local_block_size
                 /\ Queued' = Queued \cup Round(First(active_threads)) /\ applied' = applied
<1> DEFINE run == ~ mpi_queue_mode \/ first_nls + active_threads >= non_local_block_size
           tasks == Queued \cup Round(First(active_threads))
<1>1. /\ phase = "threads" /\ st1 < Istop
      /\ nv' = Buffer(active_threads)
      /\ first_nls' = First(active_threads) + active_threads
      /\ st1' = st1 + active_threads
      /\ UNCHANGED <<params, phase>>
      /\ Queued' = IF run THEN {} ELSE tasks
      /\ applied' = IF run THEN AfterRegion(tasks, Buffer(active_threads)) ELSE applied
  BY DEF QueueRound, Buffer, First, Refill
<1>2. CASE run
  BY <1>1, <1>2
<1>3. CASE ~ run
  <2>1. mpi_queue_mode /\ ~ first_nls + active_threads >= non_local_block_size
    BY <1>3
  <2>2. first_nls \in Nat /\ active_threads \in Nat /\ non_local_block_size \in Nat
    BY TypesOf
  <2>3. first_nls + active_threads < non_local_block_size
    BY <2>1, <2>2
  <2> QED
    BY <1>1, <1>3, <2>1, <2>3
<1> QED
  BY <1>2, <1>3

LEMMA SerialIs ==
    ASSUME Serial
    PROVE  /\ phase = "serial" /\ st1 < num_states
           /\ nv' = Buffer(1) /\ first_nls' = First(1) + 1 /\ st1' = st1 + 1
           /\ applied' = [applied EXCEPT ![st1] = Buffer(1)[First(1)]]
           /\ UNCHANGED <<params, phase, Queued>>
BY DEF Serial, Buffer, First, Refill

\* The block that a step uses has its n places from First(n) on.
LEMMA BufferFits ==
    ASSUME TypeOK, NEW n \in Nat, n <= non_local_block_size
    PROVE  /\ Buffer(n) \in [Orbitals -> Orbitals \cup {UNPREPARED}]
           /\ First(n) \in Nat /\ First(n) + n <= non_local_block_size
<1>1. /\ first_nls \in Nat /\ non_local_block_size \in Nat /\ st1 \in 0..num_states
      /\ nv \in [Orbitals -> Orbitals \cup {UNPREPARED}]
  BY TypesOf DEF TypeOK
<1>2. AppNls(st1, Least(non_local_block_size, num_states - st1)) \in [Orbitals -> Orbitals \cup {UNPREPARED}]
  BY <1>1, AppNlsPrepares
<1>3. First(n) \in Nat /\ First(n) + n <= non_local_block_size
  BY <1>1 DEF First, Refill
<1> QED
  BY <1>1, <1>2, <1>3 DEF Buffer

LEMMA RoundTypes ==
    ASSUME TypeOK, Rounds, QueueRound
    PROVE  TypeOK' /\ Rounds'
<1> DEFINE a == active_threads
<1>1. /\ st1 + a <= num_states /\ a <= non_local_block_size
      /\ \E m \in Nat : st1 + a = m * a
  BY QueueRoundIs, RoundIsFull
<1>2. /\ num_states \in 1..MaxStates /\ non_local_block_size \in 1..MaxStates /\ MaxStates \in Nat
      /\ st1 \in Nat /\ a \in Nat \ {0} /\ Orbitals = 0..(MaxStates - 1)
  BY TypesOf
<1>3. /\ Buffer(a) \in [Orbitals -> Orbitals \cup {UNPREPARED}]
      /\ First(a) \in Nat /\ First(a) + a <= non_local_block_size
  BY <1>1, <1>2, BufferFits
<1>4. Round(First(a)) \subseteq [state : Orbitals, place : 0..(non_local_block_size - 1)]
  BY <1>1, <1>3, RoundTasks
<1>5. Queued \cup Round(First(a)) \subseteq [state : Orbitals, place : 0..(non_local_block_size - 1)]
  BY <1>4 DEF TypeOK
<1>6. Queued' \subseteq [state : Orbitals, place : 0..(non_local_block_size - 1)]
  BY <1>5, QueueRoundIs
<1>7. applied' \in [Orbitals -> Orbitals \cup {NONE, UNPREPARED}]
  <2>1. Queued \cup Round(First(a)) \subseteq [state : Orbitals, place : Orbitals]
    BY <1>2, <1>5
  <2>2. AfterRegion(Queued \cup Round(First(a)), Buffer(a)) \in [Orbitals -> Orbitals \cup {NONE, UNPREPARED}]
    BY <1>3, <2>1, RegionType
  <2> QED
    BY <2>2, QueueRoundIs DEF TypeOK
<1>8. st1' \in 0..num_states /\ first_nls' \in 0..non_local_block_size
  BY <1>1, <1>2, <1>3, QueueRoundIs
<1>9. UNCHANGED <<num_states, active_threads, non_local_block_size, phase>> /\ UNCHANGED mpi_queue_mode
  BY QueueRoundIs DEF params
<1>10. nv' \in [Orbitals -> Orbitals \cup {UNPREPARED}]
  BY <1>3, QueueRoundIs
<1>11. TypeOK'
  BY <1>6, <1>7, <1>8, <1>9, <1>10, Zenon DEF TypeOK
<1>12. Rounds'
  <2>1. \E m \in Nat : st1' = m * active_threads'
    BY <1>1, <1>9, QueueRoundIs
  <2>2. Least(active_threads, num_states)' = Least(active_threads, num_states)
    BY <1>9 DEF Least
  <2> QED
    BY <1>9, <2>1, <2>2 DEF Rounds
<1> QED
  BY <1>11, <1>12

LEMMA SerialTypes ==
    ASSUME TypeOK, Rounds, Serial
    PROVE  TypeOK' /\ Rounds'
<1>1. /\ num_states \in 1..MaxStates /\ non_local_block_size \in 1..MaxStates /\ MaxStates \in Nat
      /\ st1 \in Nat /\ Orbitals = 0..(MaxStates - 1) /\ st1 < num_states
  BY TypesOf, SerialIs
<1>2. /\ Buffer(1) \in [Orbitals -> Orbitals \cup {UNPREPARED}]
      /\ First(1) \in Nat /\ First(1) + 1 <= non_local_block_size
  BY <1>1, BufferFits
<1>3. applied' \in [Orbitals -> Orbitals \cup {NONE, UNPREPARED}]
  <2>1. First(1) \in Orbitals
    BY <1>1, <1>2
  <2>2. Buffer(1)[First(1)] \in Orbitals \cup {NONE, UNPREPARED}
    BY <1>2, <2>1
  <2> QED
    BY <2>2, SerialIs DEF TypeOK
<1>4. st1' \in 0..num_states /\ first_nls' \in 0..non_local_block_size
  BY <1>1, <1>2, SerialIs
<1>5. UNCHANGED <<num_states, active_threads, non_local_block_size, phase, Queued>> /\ UNCHANGED mpi_queue_mode
  BY SerialIs DEF params
<1>6. nv' \in [Orbitals -> Orbitals \cup {UNPREPARED}]
  BY <1>2, SerialIs
<1>7. TypeOK'
  BY <1>3, <1>4, <1>5, <1>6, Zenon DEF TypeOK
<1>8. Rounds'
  <2>1. Least(active_threads, num_states)' = Least(active_threads, num_states) /\ phase' # "threads"
    BY <1>5, SerialIs DEF Least
  <2> QED
    BY <1>5, <2>1 DEF Rounds
<1> QED
  BY <1>7, <1>8

LEMMA OtherTypes ==
    ASSUME TypeOK, Rounds, EndThreads \/ Drain \/ Finish \/ UNCHANGED vars
    PROVE  TypeOK' /\ Rounds'
<1>1. UNCHANGED <<num_states, active_threads, non_local_block_size, st1, first_nls, nv>>
      /\ UNCHANGED mpi_queue_mode
  BY DEF EndThreads, Drain, Finish, vars, params
<1>2. applied' \in [Orbitals -> Orbitals \cup {NONE, UNPREPARED}]
  <2>1. Queued \subseteq [state : Orbitals, place : Orbitals]
    BY TypesOf DEF TypeOK
  <2>2. AfterRegion(Queued, nv) \in [Orbitals -> Orbitals \cup {NONE, UNPREPARED}]
    BY <2>1, RegionType DEF TypeOK
  <2>3. applied' = AfterRegion(Queued, nv) \/ applied' = applied
    BY DEF EndThreads, Drain, Finish, vars
  <2> QED
    BY <2>2, <2>3 DEF TypeOK
<1>3. Queued' \subseteq [state : Orbitals, place : 0..(non_local_block_size - 1)]
  BY DEF EndThreads, Drain, Finish, vars, TypeOK
<1>4. phase' \in {"threads", "drain", "serial", "done"} /\ (phase' = "threads" => phase = "threads")
  BY DEF EndThreads, Drain, Finish, vars, TypeOK
<1>5. TypeOK'
  BY <1>1, <1>2, <1>3, <1>4, Zenon DEF TypeOK
<1>6. Rounds'
  <2>1. Least(active_threads, num_states)' = Least(active_threads, num_states)
    BY <1>1 DEF Least
  <2> QED
    BY <1>1, <1>4, <2>1 DEF Rounds
<1> QED
  BY <1>5, <1>6

LEMMA InitTypes == Init => TypeOK /\ Rounds
<1> SUFFICES ASSUME Init PROVE TypeOK /\ Rounds
  OBVIOUS
<1>1. /\ MaxStates \in Nat /\ num_states \in 1..MaxStates /\ active_threads \in Nat
      /\ non_local_block_size \in 1..MaxStates /\ Orbitals = 0..(MaxStates - 1)
  BY BoundsAssumption DEF Init, Orbitals
<1>2. nv \in [Orbitals -> Orbitals \cup {UNPREPARED}]
  BY <1>1 DEF Init
<1>3. TypeOK
  BY <1>1, <1>2 DEF Init, TypeOK
<1>4. 0 = 0 * active_threads
  BY <1>1
<1> QED
  BY <1>3, <1>4 DEF Init, Rounds

LEMMA NextTypes == TypeOK /\ Rounds /\ [Next]_vars => (TypeOK /\ Rounds)'
BY RoundTypes, SerialTypes, OtherTypes DEF Next, Finished

\* The block is never read or written behind its end, for any call: a round does not
\* begin that does not fit, and a block holds a round.
THEOREM BlockTypeCorrect == Spec => []TypeOK
BY InitTypes, NextTypes, PTL DEF Spec
-----------------------------------------------------------------------------
(* Each orbital and its part *)

\* What a step finds at the places that it uses
LEMMA BufferHolds ==
    ASSUME TypeOK, Prepared, NEW n \in Nat, n <= non_local_block_size
    PROVE  /\ First(n) <= st1
           /\ \A p \in 0..(non_local_block_size - 1) :
                 st1 - First(n) + p < num_states => Buffer(n)[p] = st1 - First(n) + p
<1>1. /\ first_nls \in Nat /\ non_local_block_size \in Nat /\ st1 \in 0..num_states
  BY TypesOf
<1>2. CASE Refill(n)
  <2>1. First(n) = 0 /\ st1 - 0 = st1
    BY <1>1, <1>2 DEF First
  <2>2. \A p \in 0..(non_local_block_size - 1) : st1 + p < num_states => Buffer(n)[p] = st1 + p
    BY <1>1, <1>2, AppNlsPrepares DEF Buffer
  <2> QED
    BY <1>1, <2>1, <2>2
<1>3. CASE ~ Refill(n)
  BY <1>3 DEF First, Buffer, Prepared, first_state
<1> QED
  BY <1>2, <1>3

\* A step with n places leaves the block prepared for the next.
LEMMA StillPrepared ==
    ASSUME TypeOK, Prepared, NEW n \in Nat \ {0}, n <= non_local_block_size,
           st1' = st1 + n, first_nls' = First(n) + n, nv' = Buffer(n),
           UNCHANGED <<num_states, non_local_block_size>>
    PROVE  Prepared' /\ first_state' = st1 - First(n)
<1>1. /\ First(n) \in Nat /\ st1 \in Nat /\ First(n) <= st1
  BY BufferFits, BufferHolds, TypesOf
<1>2. st1' - first_nls' = st1 - First(n) /\ first_nls' <= st1'
  BY <1>1
<1>3. first_state' = st1 - First(n)
  BY <1>2 DEF first_state
<1>4. \A p \in 0..(non_local_block_size - 1) :
          st1 - First(n) + p < num_states => nv'[p] = st1 - First(n) + p
  BY BufferHolds
<1> QED
  BY <1>2, <1>3, <1>4 DEF Prepared

\* Tasks whose places hold their orbitals' parts make of applied what it should be.
LEMMA RegionIsRight ==
    ASSUME TypeOK, NEW tasks, NEW buffer,
           \A t \in tasks : buffer[t.place] = t.state
    PROVE  \A s \in Orbitals :
              AfterRegion(tasks, buffer)[s] = IF \E t \in tasks : t.state = s THEN s ELSE applied[s]
<1> SUFFICES ASSUME NEW s \in Orbitals
             PROVE  AfterRegion(tasks, buffer)[s] = IF \E t \in tasks : t.state = s THEN s ELSE applied[s]
  OBVIOUS
<1>1. CASE \E t \in tasks : t.state = s
  <2>1. PICK t \in tasks : t.state = s /\ AfterRegion(tasks, buffer)[s] = buffer[t.place]
    BY <1>1, RegionApplies
  <2> QED
    BY <1>1, <2>1
<1>2. CASE ~ \E t \in tasks : t.state = s
  BY <1>2, RegionApplies
<1> QED
  BY <1>1, <1>2

\* A queued task is not refilled over: there is none, or the round fits.
LEMMA NoRefillOverTasks ==
    ASSUME BlockInv, phase = "threads", st1 < Istop, Queued # {}
    PROVE  ~ Refill(active_threads)
<1> DEFINE a == active_threads
           nls == non_local_block_size
<1>1. TypeOK /\ Rounds /\ Prepared /\ NextRoundFits
  BY DEF BlockInv
<1>2. /\ first_nls \in Nat /\ nls \in Nat /\ st1 \in 0..num_states /\ a \in Nat \ {0}
      /\ num_states \in Nat /\ st1 + a <= num_states
      /\ mpi_queue_mode /\ first_nls < nls /\ first_nls <= st1
  BY <1>1, TypesOf, RoundIsFull DEF NextRoundFits, Prepared
<1>3. CASE num_states <= nls
  BY <1>2, <1>3 DEF Refill
<1>4. CASE \E c \in Nat, k \in Nat : nls = c * a /\ first_nls = k * a
  <2>1. PICK c \in Nat, k \in Nat : nls = c * a /\ first_nls = k * a
    BY <1>4
  <2> HIDE DEF a, nls
  <2>2. first_nls + a <= nls
    <3>1. k * a < c * a
      BY <1>2, <2>1
    <3>2. k * a + a <= c * a
      BY <1>2, <3>1, NextMultiple
    <3> QED
      BY <2>1, <3>2
  <2> QED
    BY <1>2, <2>2 DEF Refill, a, nls
<1> QED
  BY <1>1, <1>2, <1>3, <1>4 DEF NextRoundFits

LEMMA QueueRoundKeeps ==
    ASSUME BlockInv, QueueRound
    PROVE  BlockInv'
<1> DEFINE a == active_threads
           f == First(a)
           tasks == Queued \cup Round(f)
<1>1. /\ TypeOK /\ Rounds /\ Prepared /\ TasksPlaced /\ NextRoundFits /\ BehindUs
      /\ phase = "threads" /\ st1 < Istop
  BY QueueRoundIs DEF BlockInv
<1>2. TypeOK' /\ Rounds'
  BY <1>1, RoundTypes
<1>3. /\ st1 + a <= num_states /\ a <= non_local_block_size
      /\ st1 \in Nat /\ a \in Nat \ {0} /\ num_states \in 1..MaxStates /\ non_local_block_size \in 1..MaxStates
      /\ first_nls \in Nat /\ Orbitals = 0..(MaxStates - 1) /\ MaxStates \in Nat
      /\ f \in Nat /\ f + a <= non_local_block_size /\ f <= st1
      /\ NONE \notin Orbitals
  BY <1>1, RoundIsFull, TypesOf, BufferFits, BufferHolds
<1>4. UNCHANGED <<num_states, active_threads, non_local_block_size, phase>> /\ mpi_queue_mode' = mpi_queue_mode
  BY <1>1, QueueRoundIs DEF params
<1>5. Prepared' /\ first_state' = st1 - f
  BY <1>1, <1>3, <1>4, QueueRoundIs, StillPrepared
<1>6. Queued # {} => f = first_nls
  BY <1>1, NoRefillOverTasks DEF First
<1>7. ASSUME NEW t \in tasks
      PROVE  /\ t.state = st1 - f + t.place /\ t.state < num_states
             /\ t.place \in 0..(non_local_block_size - 1) /\ t.state \in Orbitals
  <2>1. CASE t \in Queued
    BY <1>1, <1>6, <2>1 DEF TasksPlaced, first_state, TypeOK
  <2>2. CASE t \in Round(f)
    <3>1. /\ t \in [state : Orbitals, place : 0..(non_local_block_size - 1)]
          /\ t.state - st1 = t.place - f /\ t.state < num_states
      BY <1>1, <1>3, <2>2, RoundTasks
    <3>2. t.state \in Orbitals /\ t.place \in 0..(non_local_block_size - 1)
      BY <3>1
    <3> QED
      BY <1>3, <3>1, <3>2
  <2> QED
    BY <2>1, <2>2
<1>8. \A t \in tasks : Buffer(a)[t.place] = t.state
  <2>1. \A p \in 0..(non_local_block_size - 1) : st1 - f + p < num_states => Buffer(a)[p] = st1 - f + p
    BY <1>1, <1>3, BufferHolds
  <2> QED
    BY <1>7, <2>1
<1>9. TasksPlaced'
  <2>1. Queued' \subseteq tasks
    BY <1>1, QueueRoundIs
  <2> QED
    BY <1>4, <1>5, <1>7, <2>1 DEF TasksPlaced
<1>10. NextRoundFits'
  <2>1. Queued' # {} => phase' \in {"threads", "drain"} /\ mpi_queue_mode' /\ first_nls' < non_local_block_size'
    <3>1. SUFFICES ASSUME Queued' # {}
                   PROVE  mpi_queue_mode /\ first_nls' < non_local_block_size
      BY <1>1, <1>4
    <3>2. mpi_queue_mode /\ first_nls + a < non_local_block_size
      BY <1>1, <3>1, QueueRoundIs
    <3>3. f = first_nls
      BY <1>3, <3>2 DEF First, Refill
    <3> QED
      BY <1>1, <3>2, <3>3, QueueRoundIs
  <2>2. mpi_queue_mode' /\ phase' = "threads" =>
          \/ num_states' <= non_local_block_size'
          \/ \E c \in Nat, k \in Nat : /\ non_local_block_size' = c * active_threads'
                                       /\ first_nls' = k * active_threads'
    <3>1. SUFFICES ASSUME mpi_queue_mode, ~ (num_states <= non_local_block_size)
                   PROVE  \E c \in Nat, k \in Nat : /\ non_local_block_size = c * a /\ first_nls' = k * a
      BY <1>4
    <3>2. PICK c \in Nat, k \in Nat : non_local_block_size = c * a /\ first_nls = k * a
      BY <1>1, <3>1 DEF NextRoundFits
    <3>3. f = 0 \/ f = k * a
      BY <3>2 DEF First
    <3>4. first_nls' = 1 * a \/ first_nls' = (k + 1) * a
      <4>1. first_nls' = f + a
        BY <1>1, QueueRoundIs
      <4> HIDE DEF f, a
      <4> QED
        BY <1>3, <3>3, <4>1
    <3>5. k + 1 \in Nat /\ 1 \in Nat
      OBVIOUS
    <3> QED
      BY <3>2, <3>4, <3>5, Zenon
  <2> QED
    BY <2>1, <2>2 DEF NextRoundFits
<1>11. BehindUs'
  <2>1. ASSUME NEW s \in Orbitals
        PROVE  /\ applied'[s] \in {s, NONE}
               /\ s < st1' /\ applied'[s] = NONE => \E t \in Queued' : t.state = s
    <3>1. s < st1 + a /\ applied[s] = NONE => \E t \in tasks : t.state = s
      <4>1. CASE s < st1
        BY <1>1, <4>1 DEF BehindUs
      <4>2. CASE s \in st1..(st1 + a - 1)
        BY <1>1, <1>3, <4>2, RoundTasks
      <4> QED
        BY <1>3, <4>1, <4>2
    <3>2. AfterRegion(tasks, Buffer(a))[s] = IF \E t \in tasks : t.state = s THEN s ELSE applied[s]
      BY <1>1, <1>8, RegionIsRight
    <3>3. applied[s] \in {s, NONE} /\ st1' = st1 + a
      BY <1>1, QueueRoundIs DEF BehindUs
    <3>4. CASE applied' = AfterRegion(tasks, Buffer(a))
      BY <1>3, <3>1, <3>2, <3>3, <3>4
    <3>5. CASE Queued' = tasks /\ applied' = applied
      BY <3>1, <3>3, <3>5
    <3> QED
      BY <1>1, <3>4, <3>5, QueueRoundIs
  <2> QED
    BY <2>1 DEF BehindUs, Orbitals, NONE
<1>12. AtTheEnd'
  BY <1>1, <1>4 DEF AtTheEnd
<1> QED
  BY <1>2, <1>5, <1>9, <1>10, <1>11, <1>12 DEF BlockInv

LEMMA SerialKeeps ==
    ASSUME BlockInv, Serial
    PROVE  BlockInv'
<1>1. /\ TypeOK /\ Rounds /\ Prepared /\ TasksPlaced /\ NextRoundFits /\ BehindUs
      /\ phase = "serial" /\ st1 < num_states /\ st1' = st1 + 1 /\ Queued = {}
  BY SerialIs DEF BlockInv, NextRoundFits
<1>2. TypeOK' /\ Rounds'
  BY <1>1, SerialTypes
<1>3. /\ st1 \in Nat /\ num_states \in 1..MaxStates /\ non_local_block_size \in 1..MaxStates
      /\ Orbitals = 0..(MaxStates - 1) /\ MaxStates \in Nat /\ NONE \notin Orbitals
      /\ 1 <= non_local_block_size
  BY <1>1, TypesOf
<1>4. UNCHANGED <<num_states, active_threads, non_local_block_size, phase, Queued>> /\ mpi_queue_mode' = mpi_queue_mode
  BY SerialIs DEF params
<1>5. Prepared'
  BY <1>1, <1>3, <1>4, SerialIs, StillPrepared
<1>6. Buffer(1)[First(1)] = st1
  <2>1. First(1) \in 0..(non_local_block_size - 1) /\ First(1) <= st1 /\ st1 - First(1) + First(1) = st1
    BY <1>1, <1>3, BufferFits, BufferHolds
  <2> QED
    BY <1>1, <1>3, <2>1, BufferHolds
<1>7. BehindUs'
  <2>1. ASSUME NEW s \in Orbitals
        PROVE  applied'[s] \in {s, NONE} /\ ~ (s < st1' /\ applied'[s] = NONE)
    <3>1. applied'[s] = IF s = st1 THEN st1 ELSE applied[s]
      BY <1>6, SerialIs, <1>1 DEF TypeOK
    <3>2. applied[s] \in {s, NONE} /\ ~ (s < st1 /\ applied[s] = NONE)
      BY <1>1 DEF BehindUs
    <3> QED
      BY <1>1, <1>3, <3>1, <3>2
  <2> QED
    BY <2>1 DEF BehindUs, Orbitals, NONE
<1>8. TasksPlaced' /\ NextRoundFits' /\ AtTheEnd'
  BY <1>1, <1>4 DEF TasksPlaced, NextRoundFits, AtTheEnd
<1> QED
  BY <1>2, <1>5, <1>7, <1>8 DEF BlockInv

LEMMA DrainKeeps ==
    ASSUME BlockInv, Drain
    PROVE  BlockInv'
<1>1. /\ TypeOK /\ Rounds /\ Prepared /\ TasksPlaced /\ BehindUs
      /\ applied' = AfterRegion(Queued, nv) /\ Queued' = {} /\ phase' = "serial"
      /\ UNCHANGED <<num_states, active_threads, non_local_block_size, st1, first_nls, nv>>
  BY DEF BlockInv, Drain, params
<1>2. TypeOK' /\ Rounds'
  BY <1>1, OtherTypes
<1>3. Prepared'
  BY <1>1 DEF Prepared, first_state
<1>4. \A t \in Queued : nv[t.place] = t.state
  <2>1. ASSUME NEW t \in Queued
        PROVE  t.place \in 0..(non_local_block_size - 1)
    BY <1>1 DEF TypeOK
  <2> QED
    BY <1>1, <2>1 DEF TasksPlaced, Prepared
<1>5. BehindUs'
  <2>1. ASSUME NEW s \in Orbitals
        PROVE  applied'[s] \in {s, NONE} /\ ~ (s < st1 /\ applied'[s] = NONE)
    <3>1. applied'[s] = IF \E t \in Queued : t.state = s THEN s ELSE applied[s]
      BY <1>1, <1>4, RegionIsRight
    <3>2. NONE \notin Orbitals
      BY <1>1, TypesOf
    <3> QED
      BY <1>1, <3>1, <3>2 DEF BehindUs
  <2> QED
    BY <1>1, <2>1 DEF BehindUs, Orbitals, NONE
<1>6. TasksPlaced' /\ NextRoundFits' /\ AtTheEnd'
  BY <1>1 DEF TasksPlaced, NextRoundFits, AtTheEnd
<1> QED
  BY <1>2, <1>3, <1>5, <1>6 DEF BlockInv

LEMMA OtherKeeps ==
    ASSUME BlockInv, EndThreads \/ Finish \/ UNCHANGED vars
    PROVE  BlockInv'
<1>1. /\ TypeOK /\ Rounds /\ Prepared /\ TasksPlaced /\ NextRoundFits /\ BehindUs /\ AtTheEnd
  BY DEF BlockInv
<1>2. UNCHANGED <<num_states, active_threads, non_local_block_size, st1, first_nls, nv, Queued, applied>>
      /\ mpi_queue_mode' = mpi_queue_mode
  BY DEF EndThreads, Finish, vars, params
<1>3. TypeOK' /\ Rounds'
  BY <1>1, OtherTypes
<1>4. Prepared' /\ TasksPlaced' /\ BehindUs'
  BY <1>1, <1>2 DEF Prepared, TasksPlaced, BehindUs, first_state, Orbitals, NONE
<1>5. NextRoundFits' /\ AtTheEnd'
  <2>1. CASE EndThreads
    BY <1>1, <1>2, <2>1 DEF EndThreads, NextRoundFits, AtTheEnd
  <2>2. CASE Finish
    BY <1>1, <1>2, <2>2 DEF Finish, NextRoundFits, AtTheEnd
  <2>3. CASE UNCHANGED vars
    <3>1. UNCHANGED phase
      BY <2>3 DEF vars
    <3> QED
      BY <1>1, <1>2, <3>1 DEF NextRoundFits, AtTheEnd
  <2> QED
    BY <2>1, <2>2, <2>3
<1> QED
  BY <1>3, <1>4, <1>5 DEF BlockInv

LEMMA NextKeeps == BlockInv /\ [Next]_vars => BlockInv'
BY QueueRoundKeeps, SerialKeeps, DrainKeeps, OtherKeeps DEF Next, Finished

LEMMA InitKeeps == MCInit => BlockInv
<1> SUFFICES ASSUME MCInit PROVE BlockInv
  OBVIOUS
<1>1. TypeOK /\ Rounds /\ Init /\ WholeRounds
  BY InitTypes DEF MCInit
<1>2. /\ MaxStates \in Nat /\ num_states \in 1..MaxStates /\ non_local_block_size \in 1..MaxStates
      /\ active_threads \in Nat \ {0} /\ Orbitals = 0..(MaxStates - 1)
  BY <1>1, TypesOf
<1>3. first_state = 0 /\ st1 = 0 /\ first_nls = 0 /\ Queued = {} /\ phase = "threads"
  BY <1>1 DEF Init, first_state
<1>4. Prepared
  <2>1. ASSUME NEW p \in 0..(non_local_block_size - 1), p < num_states
        PROVE  nv[p] = p
    <3>1. p \in Orbitals /\ p < Least(non_local_block_size, num_states)
      BY <1>2, <2>1 DEF Least
    <3> QED
      BY <1>1, <3>1 DEF Init
  <2>2. \A p \in 0..(non_local_block_size - 1) : 0 + p = p
    BY <1>2
  <2> QED
    BY <1>3, <2>1, <2>2 DEF Prepared
<1>5. TasksPlaced /\ AtTheEnd
  BY <1>3 DEF TasksPlaced, AtTheEnd
<1>6. BehindUs
  <2>1. \A s \in Orbitals : applied[s] = NONE /\ ~ s < 0
    BY <1>1, <1>2 DEF Init
  <2> QED
    BY <1>3, <2>1 DEF BehindUs
<1>7. NextRoundFits
  <2>1. SUFFICES ASSUME mpi_queue_mode, ~ (num_states <= non_local_block_size)
                 PROVE  \E c \in Nat, k \in Nat : non_local_block_size = c * active_threads /\ first_nls = k * active_threads
    BY <1>3 DEF NextRoundFits
  <2>2. non_local_block_size % active_threads = 0
    BY <1>1, <2>1 DEF WholeRounds
  <2> DEFINE c == non_local_block_size \div active_threads
  <2>3. c \in Nat /\ non_local_block_size = c * active_threads
    BY <1>2, <2>2, Division
  <2> HIDE DEF c
  <2>4. first_nls = 0 * active_threads /\ 0 \in Nat
    BY <1>2, <1>3
  <2> QED
    BY <2>3, <2>4, Zenon
<1> QED
  BY <1>1, <1>4, <1>5, <1>6, <1>7 DEF BlockInv

LEMMA BlockInvHolds == MCSpec => []BlockInv
BY InitKeeps, NextKeeps, PTL DEF MCSpec

\* No orbital is given the non-local part of another: AppNls never prepares the next
\* block over a part that a queued task has yet to use, if in queue mode the block is
\* a whole number of rounds or holds all orbitals (otherwise it does, as the run
\* nonlocal_block_overwritten shows).
THEOREM PartsAreOwn == MCSpec => []OwnNonlocalPart
<1>1. BlockInv => OwnNonlocalPart
  BY DEF BlockInv, BehindUs, OwnNonlocalPart
<1> QED
  BY <1>1, BlockInvHolds, PTL

\* When ApplyHamiltonianBlock returns it has applied the operator to every orbital:
\* none is left in a task, and none between the full rounds and the rest.
THEOREM EveryOrbitalIsApplied == MCSpec => []AllApplied
<1>1. ASSUME BlockInv, phase = "done", NEW s \in 0..(num_states - 1)
      PROVE  applied[s] # NONE
  <2>1. st1 >= num_states /\ Queued = {}
    BY <1>1 DEF BlockInv, AtTheEnd, NextRoundFits
  <2>2. s \in Orbitals /\ s < st1
    BY <1>1, <2>1, TypesOf DEF BlockInv
  <2> QED
    BY <1>1, <2>1, <2>2 DEF BlockInv, BehindUs
<1>2. BlockInv => AllApplied
  BY <1>1 DEF AllApplied
<1> QED
  BY <1>2, BlockInvHolds, PTL
=============================================================================

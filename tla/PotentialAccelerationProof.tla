--------------------- MODULE PotentialAccelerationProof ---------------------
(***************************************************************************)
(* For every number of orbitals, threads, coalesced processes, slots and   *)
(* cycles: an orbital of a slot reads the potential as the slots before it *)
(* have left it, the potential is updated with a whole slot at a time, and *)
(* the count that the last orbital waits for never gets past it.           *)
(***************************************************************************)
EXTENDS PotentialAcceleration, Integers, FiniteSetTheorems, TLAPS

Chosen ==
    /\ nstates \in 1..MaxStates
    /\ active_threads \in Threads /\ coalesce_factor \in Coalesce
    /\ mpi_queue_mode \in QueueModes /\ block_rounds \in Blocks
    /\ dvh_skip \in Nat \ {0}
    /\ coalesce_factor > 1 => dvh_skip = Stride

\* The orbital of a thread in a round, the full slots, and what a process has of one:
\* Share orbitals from First on
Orbital(w, r) == (r - 1) * Stride + w[1] * active_threads + w[2]
FullSlots == nstates \div dvh_skip
Share == dvh_skip \div coalesce_factor
First(p, k) == k * dvh_skip + p * active_threads
Own(p, k) == First(p, k)..(First(p, k) + Share - 1)
SlotOf(k) == {s \in 0..(nstates - 1) : s \div dvh_skip = k}

\* The orbitals that the threads of a process are through with in this cycle
Through(p) ==
    UNION {{Orbital(w, r) : r \in {i \in 1..round[w] : i < round[w] \/ pc[w] = "pick"}} :
               w \in {u \in Workers : u[1] = p}}

\* Where a thread is with an orbital of a slot
Begun == {"barrier", "compute", "add", "check", "skip", "gather", "sum", "summing",
          "update", "reset", "advance"}
Added == {"check", "skip", "gather", "sum", "summing", "update", "reset", "advance"}
AtLast == {"gather", "sum", "summing", "update", "reset", "advance"}
Alone == {"sum", "summing", "update", "reset", "advance"}
Updated == {"reset", "advance"}

At(p, places) == \E w \in Workers : w[1] = p /\ pc[w] \in places

\* The slot that a process works on: vtot may have its update already
Current(p) == IF At(p, Updated) THEN version[p] - 1 ELSE version[p]

PlacesType ==
    /\ vcycle \in 0..MaxVcycles
    /\ round \in [Workers -> 0..Rounds]
    /\ pc \in [Workers -> Places]
    /\ counter \in [Processes -> Nat]
    /\ skipper \in [Processes -> Nat]
    /\ version \in [Processes -> 0..FullSlots]
    /\ dvh \in [Processes -> [Slots -> SUBSET (0..(MaxStates - 1))]]
    /\ summed \in [Processes -> SUBSET Slots]
    /\ \A w \in Workers : round[w] = 0 => pc[w] = "pick"

\* A thread goes past "wait" with an orbital of the slot that its process works on, or
\* of none; the one that the counter names ends the slot.
InCurrent ==
    \A w \in Workers : pc[w] \in Begun =>
        IF InSlot(w) THEN Slot(w) = Current(w[1])
                     ELSE pc[w] \in {"barrier", "compute"}

LastEnds ==
    \A w \in Workers :
        /\ pc[w] \in AtLast => State(w) = First(w[1], Slot(w)) + Share - 1
        /\ pc[w] = "skip" => State(w) # First(w[1], Slot(w)) + Share - 1
        /\ pc[w] \in Alone => Own(w[1], Slot(w)) \ {State(w)} \subseteq Through(w[1])
        /\ pc[w] \in {"sum", "summing"} => coalesce_factor > 1

\* Slots before it are over, those after it have not begun, and of its own the last
\* orbital is still to come.
InTurn ==
    \A p \in Processes : \A k \in 0..(FullSlots - 1) :
        /\ k < Current(p) => Own(p, k) \subseteq Through(p)
        /\ k > Current(p) => Own(p, k) \cap Through(p) = {}
        /\ k = Current(p) => First(p, k) + Share - 1 \notin Through(p)

\* What the atomics say
CountsAt(p) ==
    IF Current(p) < FullSlots
    THEN /\ counter[p] = First(p, Current(p)) + Share
         /\ skipper[p] = IF At(p, {"advance"}) THEN 0
                         ELSE Cardinality(Own(p, Current(p)) \cap Through(p))
    ELSE counter[p] <= FullSlots * dvh_skip + p * active_threads + Share /\ skipper[p] = 0

Counted == \A p \in Processes : CountsAt(p)

\* What is in the sums
SumsAt(p, k) ==
    /\ dvh[p][k] \subseteq SlotOf(k)
    /\ Own(p, k) \cap Through(p) \subseteq dvh[p][k]
    /\ k \in summed[p] => Own(p, k) \subseteq dvh[p][k]
    /\ At(p, {"update"}) /\ k = Current(p) => dvh[p][k] = SlotOf(k)

Summed == \A p \in Processes : \A k \in 0..(FullSlots - 1) : SumsAt(p, k)

HaveAdded ==
    \A w \in Workers : pc[w] \in Added => State(w) \in dvh[w[1]][Slot(w)]

\* After the last cycle nothing moves.
Over ==
    /\ vcycle = MaxVcycles
    /\ \A w \in Workers : round[w] = Rounds /\ pc[w] = "pick"
    /\ \A p \in Processes : skipper[p] = 0 /\ counter[p] = ResetCounter(p)

Working == InCurrent /\ LastEnds /\ InTurn /\ Counted /\ Summed /\ HaveAdded

Inv == Chosen /\ PlacesType /\ Working

SlotInv == Chosen /\ PlacesType /\ (Over \/ Working)
-----------------------------------------------------------------------------
(* The arithmetic of orbitals, rounds and slots *)

LEMMA Products ==
    ASSUME NEW a \in Nat, NEW b \in Nat, NEW n \in Nat, a < b
    PROVE  /\ a * n \in Nat /\ b * n \in Nat
           /\ (a + 1) * n = a * n + n /\ a * n + n <= b * n
<1>1. PICK e \in Nat : b = a + 1 + e
  <2>1. b - a - 1 \in Nat /\ b = a + 1 + (b - a - 1)
    OBVIOUS
  <2> QED
    BY <2>1
<1>2. b * n = a * n + n + e * n
  BY <1>1
<1>3. e * n \in Nat /\ a * n \in Nat /\ b * n \in Nat /\ (a + 1) * n = a * n + n
  OBVIOUS
<1> QED
  BY <1>2, <1>3

\* Quotient and remainder are the only ones.
LEMMA SamePlace ==
    ASSUME NEW n \in Nat, NEW a \in Nat, NEW b \in Nat, NEW i \in Nat, NEW j \in Nat,
           i < n, j < n, a * n + i = b * n + j
    PROVE  a = b /\ i = j
<1>1. ASSUME NEW c \in Nat, NEW d \in Nat, NEW k \in Nat, NEW l \in Nat, k < n, c < d
      PROVE  c * n + k < d * n + l
  <2>1. c * n \in Nat /\ d * n \in Nat /\ c * n + n <= d * n
    BY <1>1, Products
  <2> QED
    BY <1>1, <2>1
<1>2. ~ (a < b)
  BY <1>1
<1>3. ~ (b < a)
  BY <1>1
<1>4. a = b
  BY <1>2, <1>3
<1>5. a * n \in Nat
  OBVIOUS
<1> QED
  BY <1>4, <1>5

LEMMA Quotient ==
    ASSUME NEW s \in Nat, NEW n \in Nat \ {0}
    PROVE  /\ s \div n \in Nat /\ s % n \in 0..(n - 1)
           /\ s = (s \div n) * n + (s % n)
OBVIOUS

LEMMA QuotientIs ==
    ASSUME NEW q \in Nat, NEW n \in Nat \ {0}, NEW i \in 0..(n - 1), NEW s, s = q * n + i
    PROVE  s \div n = q
<1> DEFINE d == s \div n
           e == s % n
<1>1. q * n \in Nat
  OBVIOUS
<1>2. s \in Nat
  BY <1>1
<1>3. d \in Nat /\ e \in Nat /\ e < n /\ s = d * n + e
  BY <1>2, Quotient
<1> HIDE DEF d, e
<1>4. q = d
  BY <1>3, SamePlace
<1> QED
  BY <1>4 DEF d

LEMMA ChosenTypes ==
    ASSUME Chosen
    PROVE  /\ nstates \in Nat \ {0} /\ nstates <= MaxStates /\ MaxStates \in Nat \ {0}
           /\ active_threads \in Nat \ {0} /\ coalesce_factor \in Nat \ {0}
           /\ dvh_skip \in Nat \ {0}
           /\ Stride \in Nat \ {0} /\ Stride = coalesce_factor * active_threads
           /\ Processes = 0..(coalesce_factor - 1)
<1>1. /\ nstates \in Nat \ {0} /\ nstates <= MaxStates /\ MaxStates \in Nat \ {0}
      /\ active_threads \in Nat \ {0} /\ coalesce_factor \in Nat \ {0}
      /\ dvh_skip \in Nat \ {0}
  BY BoundsAssumption DEF Chosen
<1>2. active_threads * coalesce_factor \in Nat \ {0}
  BY <1>1
<1>3. active_threads * coalesce_factor = coalesce_factor * active_threads
  BY <1>1
<1> QED
  BY <1>1, <1>2, <1>3 DEF Stride, Processes

\* With one process a slot is all its own; with more it has one round of it.
LEMMA ShareIs ==
    ASSUME Chosen
    PROVE  /\ Share \in Nat \ {0} /\ Share <= dvh_skip
           /\ coalesce_factor = 1 => Share = dvh_skip /\ Processes = {0}
                                     /\ Stride = active_threads
           /\ coalesce_factor # 1 => Share = active_threads /\ dvh_skip = Stride
<1> DEFINE C == coalesce_factor
           T == active_threads
           S == dvh_skip
<1>1. C \in Nat \ {0} /\ T \in Nat \ {0} /\ S \in Nat \ {0} /\ Stride = C * T
      /\ Processes = 0..(C - 1)
  BY ChosenTypes
<1>2. CASE C = 1
  <2>1. S \div 1 = S
    BY <1>1
  <2>2. Stride = T /\ Processes = {0}
    BY <1>1, <1>2
  <2> QED
    BY <1>1, <1>2, <2>1, <2>2 DEF Share
<1>3. CASE C # 1
  <2>1. S = Stride
    BY <1>1, <1>3 DEF Chosen
  <2>2. S = T * C + 0 /\ 0 \in 0..(C - 1)
    BY <1>1, <2>1
  <2>3. Share = T
    BY <1>1, <2>2, QuotientIs DEF Share
  <2>4. T <= C * T
    <3>1. 0 * T + T <= C * T /\ 0 * T = 0
      BY <1>1, Products
    <3> QED
      BY <1>1, <3>1
  <2> QED
    BY <1>1, <1>3, <2>1, <2>3, <2>4
<1> QED
  BY <1>2, <1>3

LEMMA WorkerIs ==
    ASSUME Chosen, NEW w \in Workers
    PROVE  /\ w[1] \in Processes /\ w[1] \in Nat /\ w[2] \in Nat
           /\ w[2] < active_threads /\ w = <<w[1], w[2]>>
           /\ w[1] * active_threads \in Nat
           /\ w[1] * active_threads + active_threads <= Stride
<1>1. /\ coalesce_factor \in Nat \ {0} /\ active_threads \in Nat \ {0}
      /\ Stride = coalesce_factor * active_threads /\ Processes = 0..(coalesce_factor - 1)
  BY ChosenTypes
<1>2. w \in Processes \X (0..(active_threads - 1))
  BY DEF Workers
<1>3. /\ w[1] \in Processes /\ w[2] \in 0..(active_threads - 1) /\ w = <<w[1], w[2]>>
  BY <1>2
<1>4. w[1] \in Nat /\ w[1] < coalesce_factor /\ w[2] \in Nat /\ w[2] < active_threads
  BY <1>1, <1>3
<1> DEFINE p == w[1]
<1> HIDE DEF p
<1>5. p \in Nat /\ p < coalesce_factor
  BY <1>4 DEF p
<1>6. p * active_threads \in Nat /\ p * active_threads + active_threads <= Stride
  BY <1>1, <1>5, Products
<1> QED
  BY <1>3, <1>4, <1>6 DEF p

\* A thread's place in a round
LEMMA OrbitalIs ==
    ASSUME Chosen, NEW w \in Workers, NEW r \in Nat \ {0}
    PROVE  \E i \in Nat : /\ i = w[1] * active_threads + w[2] /\ i < Stride
                          /\ Orbital(w, r) = (r - 1) * Stride + i
                          /\ Orbital(w, r) \in Nat /\ (r - 1) * Stride \in Nat
<1> DEFINE a == w[1] * active_threads
           b == w[2]
           q == r - 1
<1>1. a \in Nat /\ b \in Nat /\ b < active_threads /\ a + active_threads <= Stride
      /\ active_threads \in Nat /\ Stride \in Nat
  BY WorkerIs, ChosenTypes
<1>2. q \in Nat
  OBVIOUS
<1>3. q * Stride \in Nat
  BY <1>1, <1>2
<1>4. Orbital(w, r) = q * Stride + a + b
  BY DEF Orbital
<1> HIDE DEF a, b, q
<1>5. a + b \in Nat /\ a + b < Stride
  BY <1>1
<1>6. q * Stride + a + b = q * Stride + (a + b) /\ q * Stride + (a + b) \in Nat
  BY <1>1, <1>3
<1>7. a + b = a + b /\ Orbital(w, r) = q * Stride + (a + b) /\ Orbital(w, r) \in Nat
  BY <1>4, <1>6
<1> QED
  BY <1>3, <1>5, <1>7 DEF a, b, q

\* An orbital belongs to one task.
LEMMA OneTask ==
    ASSUME Chosen, NEW w \in Workers, NEW u \in Workers, w[1] = u[1],
           NEW r \in Nat \ {0}, NEW k \in Nat \ {0}, Orbital(w, r) = Orbital(u, k)
    PROVE  w = u /\ r = k
<1>1. PICK i \in Nat : /\ i = w[1] * active_threads + w[2] /\ i < Stride
                       /\ Orbital(w, r) = (r - 1) * Stride + i
  BY OrbitalIs
<1>2. PICK j \in Nat : /\ j = u[1] * active_threads + u[2] /\ j < Stride
                       /\ Orbital(u, k) = (k - 1) * Stride + j
  BY OrbitalIs
<1> DEFINE a == r - 1
           b == k - 1
<1>3. a \in Nat /\ b \in Nat /\ Stride \in Nat
  BY ChosenTypes
<1>4. a * Stride + i = b * Stride + j
  BY <1>1, <1>2
<1> HIDE DEF a, b
<1>5. a = b /\ i = j
  BY <1>1, <1>2, <1>3, <1>4, SamePlace
<1>6. r = k
  BY <1>5 DEF a, b
<1>7. w[2] = u[2]
  <2> DEFINE c == w[1] * active_threads
             d == w[2]
             e == u[2]
  <2>1. c + d = c + e
    BY <1>1, <1>2, <1>5
  <2>2. c \in Nat /\ d \in Nat /\ e \in Nat
    BY WorkerIs
  <2> HIDE DEF c, d, e
  <2>3. d = e
    BY <2>1, <2>2
  <2> QED
    BY <2>3 DEF d, e
<1>8. w = <<w[1], w[2]>> /\ u = <<u[1], u[2]>>
  BY WorkerIs
<1>9. w = u
  BY <1>7, <1>8
<1> QED
  BY <1>6, <1>9

LEMMA SlotsFit ==
    ASSUME Chosen
    PROVE  /\ FullSlots \in Nat /\ FullSlots * dvh_skip \in Nat
           /\ FullSlots * dvh_skip <= nstates /\ FullSlots <= nstates
           /\ Check = FullSlots * dvh_skip
<1> DEFINE N == FullSlots
           S == dvh_skip
           i == nstates % dvh_skip
<1>1. S \in Nat \ {0} /\ nstates \in Nat
  BY ChosenTypes
<1>2. N \in Nat /\ i \in Nat /\ nstates = N * S + i
  BY <1>1, Quotient DEF FullSlots
<1>3. Check = N * S
  BY DEF Check, FullSlots
<1> HIDE DEF N, S, i
<1>4. N * S \in Nat /\ N * S <= nstates
  BY <1>1, <1>2
<1>5. N <= N * S
  BY <1>1, <1>2
<1> QED
  BY <1>1, <1>2, <1>3, <1>4, <1>5 DEF N, S

\* The orbitals of a slot are a run of dvh_skip.
LEMMA SlotIs ==
    ASSUME Chosen, NEW k \in 0..(FullSlots - 1)
    PROVE  /\ k \in Nat /\ k * dvh_skip \in Nat /\ k * dvh_skip + dvh_skip <= FullSlots * dvh_skip
           /\ \A s : s \in SlotOf(k) <=> s \in (k * dvh_skip)..(k * dvh_skip + dvh_skip - 1)
<1> DEFINE S == dvh_skip
           a == k * dvh_skip
           c == FullSlots * dvh_skip
<1>1. /\ S \in Nat \ {0} /\ FullSlots \in Nat /\ c \in Nat /\ c <= nstates /\ nstates \in Nat
  BY ChosenTypes, SlotsFit
<1>2. k \in Nat /\ k < FullSlots
  BY <1>1
<1>3. a \in Nat /\ a + S <= c
  BY <1>1, <1>2, Products
<1>4. ASSUME NEW s \in SlotOf(k) PROVE s \in a..(a + S - 1)
  <2> DEFINE i == s % S
  <2>1. s \in Nat /\ s \div S = k
    BY <1>4 DEF SlotOf
  <2>2. i \in 0..(S - 1) /\ s = a + i
    BY <1>1, <2>1, Quotient
  <2> HIDE DEF a, S, i
  <2> QED
    BY <1>1, <1>3, <2>2
<1>5. ASSUME NEW s \in a..(a + S - 1) PROVE s \in SlotOf(k)
  <2> DEFINE i == s - a
  <2>1. s = a + i /\ i \in 0..(S - 1) /\ s \in Nat /\ s < c
    <3> HIDE DEF a, S, c
    <3> QED
      BY <1>1, <1>3, <1>5
  <2>2. s = k * S + i
    BY <2>1
  <2> HIDE DEF i
  <2>3. s \div S = k
    BY <1>1, <1>2, <2>1, <2>2, QuotientIs
  <2>4. s \in 0..(nstates - 1)
    <3> HIDE DEF c
    <3> QED
      BY <1>1, <2>1
  <2> QED
    BY <2>3, <2>4 DEF SlotOf
<1> QED
  BY <1>2, <1>3, <1>4, <1>5

\* What a process has of a slot
LEMMA OwnIs ==
    ASSUME Chosen, NEW p \in Processes, NEW k \in 0..(FullSlots - 1)
    PROVE  /\ First(p, k) \in Nat
           /\ First(p, k) + Share <= k * dvh_skip + dvh_skip
           /\ k * dvh_skip <= First(p, k)
           /\ Own(p, k) \subseteq SlotOf(k)
           /\ First(p, k) + Share - 1 \in Own(p, k)
<1> DEFINE S == dvh_skip
           a == k * dvh_skip
           b == p * active_threads
           f == First(p, k)
           T == active_threads
<1>1. a \in Nat /\ S \in Nat \ {0} /\ Share \in Nat \ {0} /\ Share <= S /\ T \in Nat \ {0}
  BY ChosenTypes, ShareIs, SlotIs
<1>2. f = a + b
  BY DEF First
<1>3. b \in Nat /\ b + Share <= S
  <2>1. CASE coalesce_factor = 1
    <3>1. p = 0 /\ Share = S
      BY <2>1, ShareIs
    <3>2. b = 0
      BY <1>1, <3>1
    <3> QED
      BY <1>1, <3>1, <3>2
  <2>2. CASE coalesce_factor # 1
    <3>1. Share = T /\ S = Stride
      BY <2>2, ShareIs
    <3>2. /\ p \in Nat /\ p < coalesce_factor /\ coalesce_factor \in Nat
          /\ Stride = coalesce_factor * T
      BY ChosenTypes
    <3>3. p * T \in Nat /\ p * T + T <= coalesce_factor * T
      BY <1>1, <3>2, Products
    <3> QED
      BY <3>1, <3>2, <3>3
  <2> QED
    BY <2>1, <2>2
<1> HIDE DEF a, b, f, S, T
<1>4. f \in Nat /\ f + Share <= a + S /\ a <= f /\ f + Share - 1 \in f..(f + Share - 1)
  BY <1>1, <1>2, <1>3
<1>5. f..(f + Share - 1) \subseteq a..(a + S - 1)
  BY <1>1, <1>4
<1>6. \A s : s \in SlotOf(k) <=> s \in a..(a + S - 1)
  BY SlotIs DEF a, S
<1> QED
  BY <1>4, <1>5, <1>6 DEF a, f, S, Own

\* Together the processes have the whole slot.
LEMMA OwnTogether ==
    ASSUME Chosen, NEW k \in 0..(FullSlots - 1), NEW s \in SlotOf(k)
    PROVE  \E p \in Processes : s \in Own(p, k)
<1> DEFINE S == dvh_skip
           a == k * dvh_skip
           T == active_threads
           i == s - a
<1>1. a \in Nat /\ S \in Nat \ {0} /\ T \in Nat \ {0}
  BY ChosenTypes, SlotIs
<1>2. i \in 0..(S - 1) /\ s = a + i
  <2>1. s \in a..(a + S - 1)
    BY SlotIs
  <2> HIDE DEF a, S
  <2> QED
    BY <1>1, <2>1
<1>3. CASE coalesce_factor = 1
  <2>1. 0 \in Processes /\ Share = S
    BY <1>3, ShareIs
  <2>2. First(0, k) = a
    <3>1. 0 * T = 0
      BY <1>1
    <3>2. First(0, k) = a + 0 * T
      BY DEF First
    <3> HIDE DEF a
    <3> QED
      BY <1>1, <3>1, <3>2
  <2>3. s \in Own(0, k)
    BY <2>1, <2>2, SlotIs DEF Own
  <2> QED
    BY <2>1, <2>3
<1>4. CASE coalesce_factor # 1
  <2> DEFINE q == i \div T
             j == i % T
  <2>1. Share = T /\ S = Stride /\ Stride = coalesce_factor * T /\ coalesce_factor \in Nat
    BY <1>4, ShareIs, ChosenTypes
  <2>2. q \in Nat /\ j \in 0..(T - 1) /\ i = q * T + j
    <3>1. i \in Nat
      BY <1>1, <1>2
    <3> HIDE DEF i
    <3>2. i \div T \in Nat /\ i % T \in 0..(T - 1) /\ i = (i \div T) * T + (i % T)
      BY <1>1, <3>1, Quotient
    <3> QED
      BY <3>2
  <2> HIDE DEF q, j, i
  <2>3. q < coalesce_factor
    <3> SUFFICES ASSUME coalesce_factor <= q PROVE FALSE
      BY <2>1, <2>2
    <3>1. coalesce_factor * T <= q * T
      BY <1>1, <2>1, <2>2
    <3>2. q * T \in Nat /\ q * T <= i /\ i < coalesce_factor * T /\ coalesce_factor * T \in Nat
      BY <1>1, <1>2, <2>1, <2>2
    <3> QED
      BY <1>2, <3>1, <3>2
  <2>4. q \in Processes
    BY <2>1, <2>2, <2>3, ChosenTypes
  <2>5. s \in Own(q, k)
    <3> DEFINE b == q * T
    <3>1. First(q, k) = a + b
      BY DEF First
    <3>2. s = a + (b + j)
      BY <1>2, <2>2
    <3>3. b \in Nat
      BY <1>1, <2>2
    <3> HIDE DEF a, b, T
    <3>4. s \in (a + b)..(a + b + T - 1)
      BY <1>1, <2>2, <3>2, <3>3
    <3> QED
      BY <2>1, <3>1, <3>4 DEF Own
  <2> QED
    BY <2>4, <2>5
<1> QED
  BY <1>3, <1>4

\* The slots of a process do not overlap.
LEMMA OwnApart ==
    ASSUME Chosen, NEW p \in Processes, NEW k \in 0..(FullSlots - 1),
           NEW l \in 0..(FullSlots - 1), k < l
    PROVE  First(p, k) + Share <= First(p, l)
<1> DEFINE a == k * dvh_skip
           b == l * dvh_skip
           f == First(p, k)
           g == First(p, l)
<1>1. /\ f \in Nat /\ f + Share <= a + dvh_skip /\ g \in Nat /\ b <= g
      /\ a \in Nat /\ b \in Nat /\ k \in Nat /\ l \in Nat
      /\ dvh_skip \in Nat /\ Share \in Nat
  BY OwnIs, SlotIs, ShareIs, ChosenTypes
<1>2. a + dvh_skip <= b
  BY <1>1, Products
<1> HIDE DEF a, b, f, g
<1>3. f + Share <= g
  BY <1>1, <1>2
<1> QED
  BY <1>3 DEF f, g

\* A thread with an orbital of a slot: it is of the slot's run.
LEMMA StateIs ==
    ASSUME Chosen, NEW w \in Workers, round[w] \in Nat \ {0}
    PROVE  /\ State(w) = Orbital(w, round[w]) /\ State(w) \in Nat
           /\ InSlot(w) => /\ Slot(w) \in 0..(FullSlots - 1)
                           /\ State(w) \in Own(w[1], Slot(w))
                           /\ State(w) \in SlotOf(Slot(w))
                           /\ coalesce_factor # 1 => Slot(w) = round[w] - 1
<1> DEFINE s == State(w)
           r == round[w]
           S == dvh_skip
           k == Slot(w)
           j == s % S
<1>1. s = Orbital(w, r)
  BY DEF State, Orbital
<1>2. s \in Nat
  BY <1>1, OrbitalIs
<1>3. S \in Nat \ {0} /\ FullSlots \in Nat /\ FullSlots * S \in Nat
  BY ChosenTypes, SlotsFit
<1>4. k \in Nat /\ j \in 0..(S - 1) /\ s = k * S + j
  BY <1>2, <1>3, Quotient DEF Slot
<1>5. ASSUME InSlot(w)
      PROVE  /\ k \in 0..(FullSlots - 1) /\ s \in Own(w[1], k)
             /\ coalesce_factor # 1 => k = r - 1
  <2>1. s < FullSlots * S
    BY <1>5, SlotsFit DEF InSlot
  <2>2. k < FullSlots
    <3> SUFFICES ASSUME FullSlots <= k PROVE FALSE
      BY <1>3, <1>4
    <3> HIDE DEF k, s, S, j
    <3>1. FullSlots * S <= k * S /\ k * S \in Nat
      BY <1>3, <1>4
    <3> QED
      BY <1>2, <1>3, <1>4, <2>1, <3>1
  <2>3. k \in 0..(FullSlots - 1)
    BY <1>3, <1>4, <2>2
  <2>4. CASE coalesce_factor = 1
    <3>1. w[1] = 0 /\ Share = S
      BY <2>4, ShareIs, WorkerIs
    <3>2. First(w[1], k) = k * S
      <4>1. First(w[1], k) = k * S + w[1] * active_threads
        BY DEF First
      <4>2. w[1] * active_threads = 0
        <5>1. active_threads \in Nat
          BY ChosenTypes
        <5>2. 0 * active_threads = 0
          BY <5>1
        <5> QED
          BY <3>1, <5>2
      <4>3. k * S \in Nat
        <5> HIDE DEF k, S
        <5> QED
          BY <1>3, <1>4
      <4> HIDE DEF k, S
      <4> QED
        BY <4>1, <4>2, <4>3
    <3>3. s \in (k * S)..(k * S + S - 1)
      <4> DEFINE a == k * S
      <4>1. a \in Nat /\ s = a + j
        BY <1>3, <1>4
      <4> HIDE DEF a, j, s, S
      <4>2. s \in a..(a + S - 1)
        BY <1>3, <1>4, <4>1
      <4> QED
        BY <4>2 DEF a
    <3> QED
      BY <2>3, <2>4, <3>1, <3>2, <3>3 DEF Own
  <2>5. CASE coalesce_factor # 1
    <3> DEFINE b == w[1] * active_threads
               t == w[2]
               q == r - 1
    <3>1. Share = active_threads /\ S = Stride
      BY <2>5, ShareIs
    <3>2. PICK i \in Nat : i = b + t /\ i < Stride /\ s = q * Stride + i
      BY <1>1, OrbitalIs
    <3>3. q \in Nat /\ b \in Nat /\ t \in Nat /\ t < active_threads /\ active_threads \in Nat
      <4>1. b \in Nat /\ t \in Nat /\ t < active_threads
        BY WorkerIs
      <4>2. active_threads \in Nat
        BY ChosenTypes
      <4>3. q \in Nat
        <5> HIDE DEF b, t, k, s, j
        <5> QED
          OBVIOUS
      <4> QED
        BY <4>1, <4>2, <4>3
    <3>4. k = q
      <4>1. k * S + j = q * S + i
        BY <1>4, <3>1, <3>2
      <4>2. j \in Nat /\ j < S /\ i < S
        BY <1>3, <1>4, <3>1, <3>2
      <4> HIDE DEF k, q, j, S
      <4> QED
        BY <1>3, <1>4, <3>3, <4>1, <4>2, SamePlace
    <3>5. s \in Own(w[1], k)
      <4> DEFINE a == k * S
      <4>1. a \in Nat
        BY <1>3, <1>4
      <4>2. s = a + (b + t)
        BY <3>1, <3>2, <3>4
      <4>3. First(w[1], k) = a + b
        BY DEF First
      <4> HIDE DEF a, b, t, s
      <4>4. s \in (a + b)..(a + b + active_threads - 1)
        BY <3>3, <4>1, <4>2
      <4> QED
        BY <3>1, <4>3, <4>4 DEF Own, s
    <3> QED
      BY <2>3, <3>4, <3>5
  <2> QED
    BY <2>4, <2>5
<1>6. InSlot(w) => s \in SlotOf(k)
  BY <1>5, WorkerIs, OwnIs
<1> QED
  BY <1>1, <1>2, <1>5, <1>6

\* Rounds enough are made for all orbitals.
LEMMA RoundsReach ==
    ASSUME Chosen, NEW q \in Nat, q * Stride < nstates
    PROVE  Rounds \in Nat /\ q + 1 \in 1..Rounds
<1> DEFINE n == nstates + Stride - 1
           R == Rounds
           e == n % Stride
<1>1. Stride \in Nat \ {0} /\ nstates \in Nat \ {0} /\ n \in Nat
  BY ChosenTypes
<1>2. R \in Nat /\ e \in 0..(Stride - 1) /\ n = R * Stride + e
  BY <1>1, Quotient DEF Rounds
<1>3. n = nstates + Stride - 1
  OBVIOUS
<1> HIDE DEF n, R, e
<1>4. q < R
  <2> SUFFICES ASSUME R <= q PROVE FALSE
    BY <1>2
  <2>1. R * Stride <= q * Stride /\ R * Stride \in Nat /\ q * Stride \in Nat
    <3>1. CASE R = q
      BY <1>1, <1>2, <3>1
    <3>2. CASE R < q
      <4>1. R * Stride \in Nat /\ q * Stride \in Nat /\ R * Stride + Stride <= q * Stride
        BY <1>1, <1>2, <3>2, Products
      <4> QED
        BY <1>1, <4>1
    <3> QED
      BY <1>2, <3>1, <3>2
  <2> DEFINE a == R * Stride
             b == q * Stride
  <2>2. a <= b /\ a \in Nat /\ b \in Nat /\ b < nstates /\ n = a + e
    BY <1>2, <2>1
  <2> HIDE DEF a, b
  <2> QED
    BY <1>1, <1>2, <1>3, <2>2
<1> QED
  BY <1>2, <1>4 DEF R

\* Every orbital of a slot is the task of a thread of the process that has it.
LEMMA OwnHasTask ==
    ASSUME Chosen, NEW p \in Processes, NEW k \in 0..(FullSlots - 1), NEW s \in Own(p, k)
    PROVE  \E w \in Workers, r \in 1..Rounds : w[1] = p /\ s = Orbital(w, r)
<1> DEFINE T == active_threads
<1>1. T \in Nat \ {0} /\ Stride \in Nat \ {0} /\ nstates \in Nat /\ FullSlots \in Nat
  BY ChosenTypes, SlotsFit
<1>2. CASE coalesce_factor = 1
  <2>1. p = 0 /\ Stride = T
    BY <1>2, ShareIs
  <2>2. s \in Nat /\ s < nstates
    BY <1>1, OwnIs DEF SlotOf
  <2>3. PICK q \in Nat, j \in 0..(T - 1) : s = q * T + j
    <3>1. s \div T \in Nat /\ s % T \in 0..(T - 1) /\ s = (s \div T) * T + (s % T)
      BY <1>1, <2>2, Quotient
    <3> QED
      BY <3>1
  <2>4. <<p, j>> \in Workers
    BY <2>3 DEF Workers
  <2>5. q * Stride < nstates
    <3> DEFINE a == q * T
    <3>1. a \in Nat /\ s = a + j
      BY <1>1, <2>3
    <3> HIDE DEF a
    <3>2. a < nstates
      BY <1>1, <2>2, <2>3, <3>1
    <3> QED
      BY <2>1, <3>2 DEF a
  <2>6. q + 1 \in 1..Rounds
    BY <2>3, <2>5, RoundsReach
  <2>7. s = Orbital(<<p, j>>, q + 1)
    <3>1. Orbital(<<p, j>>, q + 1) = (q + 1 - 1) * Stride + p * T + j
      BY DEF Orbital
    <3>2. q + 1 - 1 = q /\ p * T = 0 /\ q * T \in Nat
      <4>1. q + 1 - 1 = q
        BY <2>3
      <4>2. 0 * T = 0
        BY <1>1
      <4>3. q * T \in Nat
        BY <1>1, <2>3
      <4> QED
        BY <2>1, <4>1, <4>2, <4>3
    <3> DEFINE a == q * T
    <3>3. Orbital(<<p, j>>, q + 1) = a + 0 + j /\ a \in Nat /\ s = a + j
      BY <2>1, <2>3, <3>1, <3>2
    <3> HIDE DEF a
    <3> QED
      BY <2>3, <3>3
  <2>8. <<p, j>>[1] = p
    OBVIOUS
  <2> QED
    BY <2>4, <2>6, <2>7, <2>8
<1>3. CASE coalesce_factor # 1
  <2> DEFINE a == k * dvh_skip
             b == p * T
             j == s - First(p, k)
  <2>1. Share = T /\ dvh_skip = Stride
    BY <1>3, ShareIs
  <2>2. First(p, k) \in Nat /\ a \in Nat /\ a + dvh_skip <= FullSlots * dvh_skip
        /\ FullSlots * dvh_skip <= nstates /\ FullSlots * dvh_skip \in Nat /\ k \in Nat
    BY OwnIs, SlotIs, SlotsFit
  <2>3. b \in Nat /\ First(p, k) = a + b
    <3>1. p \in Nat
      BY ChosenTypes
    <3>2. p * T \in Nat
      BY <1>1, <3>1
    <3> QED
      BY <3>2 DEF First
  <2>4. j \in 0..(T - 1) /\ s = a + b + j
    <3>1. s \in First(p, k)..(First(p, k) + T - 1)
      BY <2>1 DEF Own
    <3>2. j \in 0..(T - 1) /\ s = First(p, k) + j
      <4> DEFINE f == First(p, k)
      <4>1. f \in Nat /\ s \in f..(f + T - 1) /\ j = s - f
        BY <2>2, <3>1
      <4> HIDE DEF f, j, T
      <4>2. j \in 0..(T - 1) /\ s = f + j
        BY <1>1, <4>1
      <4> QED
        BY <4>2 DEF f
    <3> HIDE DEF a, b, j, T
    <3> QED
      BY <2>2, <2>3, <3>2
  <2> HIDE DEF j
  <2>5. <<p, j>> \in Workers
    BY <2>4 DEF Workers
  <2>6. k * Stride < nstates
    <3> DEFINE c == FullSlots * dvh_skip
    <3>1. a = k * Stride
      BY <2>1
    <3>2. a + dvh_skip <= c /\ c <= nstates /\ c \in Nat /\ a \in Nat
          /\ dvh_skip \in Nat \ {0}
      BY <2>2, ChosenTypes
    <3> HIDE DEF a, c
    <3> QED
      BY <1>1, <3>1, <3>2
  <2>7. k + 1 \in 1..Rounds
    BY <2>2, <2>6, RoundsReach
  <2>8. s = Orbital(<<p, j>>, k + 1)
    <3>1. Orbital(<<p, j>>, k + 1) = (k + 1 - 1) * Stride + p * T + j
      BY DEF Orbital
    <3>2. k + 1 - 1 = k
      BY <2>2
    <3> QED
      BY <2>1, <2>4, <3>1, <3>2
  <2>9. <<p, j>>[1] = p
    OBVIOUS
  <2> QED
    BY <2>5, <2>7, <2>8, <2>9
<1> QED
  BY <1>2, <1>3

LEMMA OwnCount ==
    ASSUME Chosen, NEW p \in Processes, NEW k \in 0..(FullSlots - 1)
    PROVE  IsFiniteSet(Own(p, k)) /\ Cardinality(Own(p, k)) = Share
<1> DEFINE f == First(p, k)
           g == First(p, k) + Share - 1
<1>1. f \in Nat /\ Share \in Nat \ {0}
  BY OwnIs, ShareIs
<1>2. g = f + Share - 1 /\ f \in Int /\ g \in Int /\ f <= g
  BY <1>1
<1>3. Own(p, k) = f..g
  BY DEF Own
<1> HIDE DEF f, g
<1>4. IsFiniteSet(f..g) /\ Cardinality(f..g) = g - f + 1
  BY <1>2, FS_Interval
<1>5. g - f + 1 = Share
  BY <1>1, <1>2
<1> QED
  BY <1>3, <1>4, <1>5

\* The counter moves on by a slot, except at the end of coalesced states.
LEMMA IncrementIs ==
    ASSUME Chosen, NEW w \in Workers, round[w] \in Nat \ {0}, InSlot(w)
    PROVE  /\ Increment(w) \in Nat /\ Increment(w) <= dvh_skip
           /\ Slot(w) + 1 < FullSlots => Increment(w) = dvh_skip
<1> DEFINE C == coalesce_factor
           T == active_threads
           S == dvh_skip
           k == Slot(w)
           D == {n \in 1..T : (round[w] - 1) * Stride + 2 * n * C > nstates}
           c == Cardinality(D)
<1>1. C \in Nat \ {0} /\ T \in Nat \ {0} /\ S \in Nat \ {0} /\ nstates \in Nat
      /\ Stride \in Nat /\ Stride = C * T
  BY ChosenTypes
<1>2. CASE C = 1
  BY <1>1, <1>2 DEF Increment
<1>3. CASE C # 1
  <2>1. Increment(w) = S - C * c
    BY <1>1, <1>3 DEF Increment
  <2>2. S = C * T /\ k \in 0..(FullSlots - 1) /\ k = round[w] - 1
    BY <1>1, <1>3, ShareIs, StateIs
  <2>3. c \in Nat /\ c <= T
    <3>1. IsFiniteSet(1..T) /\ Cardinality(1..T) = T
      <4>1. IsFiniteSet(1..T) /\ Cardinality(1..T) = T - 1 + 1
        BY <1>1, FS_Interval
      <4> QED
        BY <1>1, <4>1
    <3>2. D \in SUBSET (1..T)
      OBVIOUS
    <3> HIDE DEF D
    <3>3. IsFiniteSet(D) /\ Cardinality(D) <= Cardinality(1..T)
      BY <3>1, <3>2, FS_Subset
    <3>4. Cardinality(D) \in Nat
      BY <3>3, FS_CardinalityType
    <3> QED
      BY <3>1, <3>3, <3>4
  <2>4. C * c \in Nat /\ C * c <= C * T
    <3> HIDE DEF c, C, T
    <3>1. CASE c = T
      BY <1>1, <3>1
    <3>2. CASE c < T
      <4>1. c * C \in Nat /\ T * C \in Nat /\ c * C + C <= T * C
        BY <1>1, <2>3, <3>2, Products
      <4>2. C * c = c * C /\ C * T = T * C
        BY <1>1, <2>3
      <4> QED
        BY <1>1, <4>1, <4>2
    <3> QED
      BY <1>1, <2>3, <3>1, <3>2
  <2>5. ASSUME k + 1 < FullSlots PROVE c = 0
    <3>1. k * S \in Nat /\ k * S + S + S <= nstates
      <4>1. FullSlots \in Nat /\ FullSlots * S <= nstates /\ FullSlots * S \in Nat
            /\ k \in Nat /\ k + 1 \in Nat
        BY <2>2, SlotsFit
      <4>2. k * S \in Nat /\ (k + 1) * S = k * S + S
        BY <1>1, <4>1, Products
      <4>3. (k + 1) * S + S <= FullSlots * S
        BY <1>1, <2>5, <4>1, Products
      <4> DEFINE a == k * S
                 b == FullSlots * S
      <4>4. a \in Nat /\ a + S + S <= b /\ b <= nstates /\ b \in Nat
        BY <4>1, <4>2, <4>3
      <4> HIDE DEF a, b, S
      <4>5. a + S + S <= nstates
        BY <1>1, <4>4
      <4> QED
        BY <4>4, <4>5 DEF a
    <3>2. (round[w] - 1) * Stride = k * S
      BY <1>1, <2>2
    <3>3. ASSUME NEW n \in 1..T PROVE ~ (k * S + 2 * n * C > nstates)
      <4>1. n * C \in Nat /\ n * C <= S /\ 2 * n * C = n * C + n * C
        <5> HIDE DEF C, T, S
        <5>1. n \in Nat
          OBVIOUS
        <5>2. CASE n = T
          <6>1. n * C = C * T
            BY <1>1, <5>2
          <6>2. C * T \in Nat
            BY <1>1
          <6> QED
            BY <1>1, <2>2, <5>1, <6>1, <6>2
        <5>3. CASE n < T
          <6>1. n * C \in Nat /\ T * C \in Nat /\ n * C + C <= T * C /\ T * C = C * T
            BY <1>1, <5>1, <5>3, Products
          <6>2. 2 * n * C = n * C + n * C
            BY <1>1, <5>1
          <6> QED
            BY <1>1, <2>2, <6>1, <6>2
        <5> QED
          BY <1>1, <5>1, <5>2, <5>3
      <4> DEFINE a == k * S
                 b == n * C
      <4>2. a \in Nat /\ b \in Nat /\ b <= S /\ a + S + S <= nstates
        BY <3>1, <4>1
      <4> HIDE DEF a, b, S
      <4>3. ~ (a + (b + b) > nstates)
        BY <1>1, <4>2
      <4> QED
        BY <4>1, <4>3 DEF a, b, S
    <3>4. D = {}
      BY <3>2, <3>3
    <3> QED
      BY <3>4, FS_EmptySet
  <2> DEFINE x == C * c
  <2>6. x \in Nat /\ x <= S /\ Increment(w) = S - x
    BY <2>1, <2>2, <2>4
  <2>7. k + 1 < FullSlots => x = 0
    BY <1>1, <2>5
  <2> HIDE DEF x, c, S
  <2> QED
    BY <1>1, <2>6, <2>7 DEF S
<1> QED
  BY <1>2, <1>3
-----------------------------------------------------------------------------
(* Where the threads are *)

LEMMA SameParams ==
    ASSUME UNCHANGED params
    PROVE  /\ Workers' = Workers /\ Processes' = Processes
           /\ Stride' = Stride /\ Rounds' = Rounds
           /\ FullSlots' = FullSlots /\ Share' = Share
           /\ Chosen' <=> Chosen
           /\ \A p, k : First(p, k)' = First(p, k) /\ Own(p, k)' = Own(p, k)
           /\ \A k : SlotOf(k)' = SlotOf(k)
           /\ \A p : ResetCounter(p)' = ResetCounter(p)
           /\ \A w, r : Orbital(w, r)' = Orbital(w, r)
           /\ \A w : round'[w] = round[w] =>
                  State(w)' = State(w) /\ Slot(w)' = Slot(w) /\ (InSlot(w)' <=> InSlot(w))
<1>1. /\ nstates' = nstates /\ active_threads' = active_threads
      /\ coalesce_factor' = coalesce_factor /\ dvh_skip' = dvh_skip
      /\ mpi_queue_mode' = mpi_queue_mode /\ block_rounds' = block_rounds
  BY DEF params
<1>2. /\ Stride' = Stride /\ Processes' = Processes /\ FullSlots' = FullSlots
      /\ Share' = Share /\ Check' = Check
  BY <1>1 DEF Stride, Processes, FullSlots, Share, Check
<1>3. Workers' = Workers /\ Rounds' = Rounds
  BY <1>1, <1>2 DEF Workers, Rounds
<1>4. Chosen' <=> Chosen
  BY <1>1, <1>2 DEF Chosen
<1>5. \A p, k : First(p, k)' = First(p, k)
  BY <1>1 DEF First
<1>6. \A p, k : Own(p, k)' = Own(p, k)
  BY <1>2, <1>5 DEF Own
<1>7. \A k : SlotOf(k)' = SlotOf(k)
  BY <1>1 DEF SlotOf
<1>8. \A p : ResetCounter(p)' = ResetCounter(p)
  BY <1>1 DEF ResetCounter
<1>9. \A w, r : Orbital(w, r)' = Orbital(w, r)
  BY <1>1, <1>2 DEF Orbital
<1>10. ASSUME NEW w, round'[w] = round[w]
       PROVE  State(w)' = State(w) /\ Slot(w)' = Slot(w) /\ (InSlot(w)' <=> InSlot(w))
  <2>1. State(w)' = State(w)
    BY <1>1, <1>2, <1>10 DEF State
  <2> QED
    BY <1>1, <1>2, <2>1 DEF Slot, InSlot
<1> QED
  BY <1>2, <1>3, <1>4, <1>5, <1>6, <1>7, <1>8, <1>9, <1>10

LEMMA RoundIs ==
    ASSUME Chosen, PlacesType, NEW w \in Workers
    PROVE  /\ Rounds \in Nat /\ round[w] \in 0..Rounds
           /\ pc[w] # "pick" => round[w] \in Nat \ {0}
<1>1. 0 * Stride < nstates
  BY ChosenTypes
<1>2. Rounds \in Nat
  BY <1>1, RoundsReach
<1>3. round[w] \in 0..Rounds /\ (round[w] = 0 => pc[w] = "pick")
  BY DEF PlacesType
<1> QED
  BY <1>2, <1>3

LEMMA ThroughIs ==
    ASSUME NEW p, NEW s
    PROVE  s \in Through(p) <=>
              \E u \in Workers : u[1] = p /\ \E i \in 1..round[u] :
                  s = Orbital(u, i) /\ (i < round[u] \/ pc[u] = "pick")
BY DEF Through

\* A thread is not through with the orbital that it is at.
LEMMA NotThrough ==
    ASSUME Chosen, PlacesType, NEW w \in Workers, pc[w] # "pick"
    PROVE  State(w) \notin Through(w[1])
<1> SUFFICES ASSUME State(w) \in Through(w[1]) PROVE FALSE
  OBVIOUS
<1>1. PICK u \in Workers : u[1] = w[1] /\ \E i \in 1..round[u] :
          State(w) = Orbital(u, i) /\ (i < round[u] \/ pc[u] = "pick")
  BY ThroughIs
<1>2. PICK i \in 1..round[u] : State(w) = Orbital(u, i) /\ (i < round[u] \/ pc[u] = "pick")
  BY <1>1
<1>3. round[w] \in Nat \ {0} /\ i \in Nat \ {0}
  BY RoundIs
<1>4. State(w) = Orbital(w, round[w])
  BY <1>3, StateIs
<1>5. w = u /\ round[w] = i
  BY <1>1, <1>2, <1>3, <1>4, OneTask
<1> QED
  BY <1>2, <1>3, <1>5

\* Going on to the next orbital is being through with one.
LEMMA ThroughMoves ==
    ASSUME Chosen, PlacesType, UNCHANGED params, NEW w \in Workers, pc[w] # "pick",
           NEW b, pc' = [pc EXCEPT ![w] = b], round' = round
    PROVE  /\ b # "pick" => \A p : Through(p)' = Through(p)
           /\ b = "pick" => \A p : Through(p)' = IF p = w[1] THEN Through(p) \cup {State(w)}
                                                            ELSE Through(p)
<1>1. Workers' = Workers /\ \A u, i : Orbital(u, i)' = Orbital(u, i)
  BY SameParams
<1>2. /\ pc'[w] = b
      /\ \A u \in Workers : u # w => pc'[u] = pc[u]
  BY DEF PlacesType
<1>3. ASSUME NEW p, NEW s
      PROVE  s \in Through(p)' <=>
                \E u \in Workers : u[1] = p /\ \E i \in 1..round[u] :
                    s = Orbital(u, i) /\ (i < round[u] \/ pc'[u] = "pick")
  BY <1>1 DEF Through
<1>4. ASSUME b # "pick", NEW p PROVE Through(p)' = Through(p)
  <2>1. \A u \in Workers : pc'[u] = "pick" <=> pc[u] = "pick"
    BY <1>2, <1>4
  <2>2. \A s : s \in Through(p)' <=> s \in Through(p)
    BY <1>3, <2>1, ThroughIs
  <2> QED
    BY <2>2
<1>5. ASSUME b = "pick", NEW p
      PROVE  Through(p)' = IF p = w[1] THEN Through(p) \cup {State(w)} ELSE Through(p)
  <2>1. round[w] \in Nat \ {0} /\ round[w] \in 1..round[w]
    BY RoundIs
  <2>2. State(w) = Orbital(w, round[w])
    BY <2>1, StateIs
  <2>3. ASSUME NEW s \in Through(p) PROVE s \in Through(p)'
    <3>1. PICK u \in Workers : u[1] = p /\ \E i \in 1..round[u] :
              s = Orbital(u, i) /\ (i < round[u] \/ pc[u] = "pick")
      BY <2>3, ThroughIs
    <3>2. pc[u] = "pick" => pc'[u] = "pick"
      BY <1>2, <1>5
    <3> QED
      BY <1>3, <3>1, <3>2
  <2>4. p = w[1] => State(w) \in Through(p)'
    BY <1>2, <1>3, <1>5, <2>1, <2>2
  <2>5. ASSUME NEW s \in Through(p)', s \notin Through(p) PROVE p = w[1] /\ s = State(w)
    <3>1. PICK u \in Workers : u[1] = p /\ \E i \in 1..round[u] :
              s = Orbital(u, i) /\ (i < round[u] \/ pc'[u] = "pick")
      BY <1>3, <2>5
    <3>2. PICK i \in 1..round[u] : s = Orbital(u, i) /\ (i < round[u] \/ pc'[u] = "pick")
      BY <3>1
    <3>3. ~ (i < round[u] \/ pc[u] = "pick")
      BY <2>5, <3>1, <3>2, ThroughIs
    <3>4. u = w
      BY <1>2, <3>2, <3>3
    <3>5. i = round[u]
      <4>1. round[u] \in Nat
        BY RoundIs
      <4> QED
        BY <3>3, <4>1
    <3> QED
      BY <2>2, <3>1, <3>2, <3>4, <3>5
  <2> QED
    BY <2>3, <2>4, <2>5
<1> QED
  BY <1>4, <1>5

\* Beginning with an orbital is not.
LEMMA ThroughPicks ==
    ASSUME Chosen, PlacesType, NEW w \in Workers, Pick(w), NEW p
    PROVE  Through(p)' = Through(p)
<1>1. UNCHANGED params
  BY DEF Pick
<1>2. Workers' = Workers /\ \A u, i : Orbital(u, i)' = Orbital(u, i)
  BY <1>1, SameParams
<1>3. /\ pc[w] = "pick" /\ pc'[w] = "wait" /\ round'[w] = round[w] + 1
      /\ \A u \in Workers : u # w => pc'[u] = pc[u] /\ round'[u] = round[u]
  BY DEF Pick, Goto, PlacesType
<1>4. round[w] \in Nat
  BY RoundIs
<1>5. ASSUME NEW s
      PROVE  s \in Through(p)' <=>
                \E u \in Workers : u[1] = p /\ \E i \in 1..round'[u] :
                    s = Orbital(u, i) /\ (i < round'[u] \/ pc'[u] = "pick")
  BY <1>2 DEF Through
<1>6. ASSUME NEW u \in Workers, NEW i
      PROVE  i \in 1..round[u] /\ (i < round[u] \/ pc[u] = "pick") <=>
             i \in 1..round'[u] /\ (i < round'[u] \/ pc'[u] = "pick")
  <2>1. CASE u = w
    BY <1>3, <1>4, <2>1
  <2>2. CASE u # w
    BY <1>3, <2>2
  <2> QED
    BY <2>1, <2>2
<1>7. ASSUME NEW s PROVE s \in Through(p)' <=> s \in Through(p)
  BY <1>5, <1>6, ThroughIs
<1> QED
  BY <1>7

LEMMA AtMoves ==
    ASSUME PlacesType, UNCHANGED params, NEW w \in Workers,
           NEW b, pc' = [pc EXCEPT ![w] = b], NEW X
    PROVE  /\ \A p : p # w[1] => (At(p, X)' <=> At(p, X))
           /\ (pc[w] \in X <=> b \in X) => \A p : At(p, X)' <=> At(p, X)
           /\ (\A u \in Workers : u[1] = w[1] /\ u # w => pc[u] \notin X) =>
                  /\ At(w[1], X) <=> pc[w] \in X
                  /\ At(w[1], X)' <=> b \in X
<1>1. Workers' = Workers
  BY SameParams
<1>2. /\ pc'[w] = b
      /\ \A u \in Workers : u # w => pc'[u] = pc[u]
  BY DEF PlacesType
<1>3. ASSUME NEW p PROVE At(p, X)' <=> \E u \in Workers : u[1] = p /\ pc'[u] \in X
  BY <1>1 DEF At
<1>4. ASSUME NEW p, p # w[1] PROVE At(p, X)' <=> At(p, X)
  BY <1>2, <1>3, <1>4 DEF At
<1>5. ASSUME pc[w] \in X <=> b \in X, NEW p PROVE At(p, X)' <=> At(p, X)
  <2>1. \A u \in Workers : pc'[u] \in X <=> pc[u] \in X
    BY <1>2, <1>5
  <2> QED
    BY <1>3, <2>1 DEF At
<1>6. ASSUME \A u \in Workers : u[1] = w[1] /\ u # w => pc[u] \notin X
      PROVE  (At(w[1], X) <=> pc[w] \in X) /\ (At(w[1], X)' <=> b \in X)
  BY <1>2, <1>3, <1>6 DEF At
<1> QED
  BY <1>4, <1>5, <1>6

LEMMA CurrentType ==
    ASSUME Chosen, PlacesType, NEW p \in Processes
    PROVE  Current(p) \in Int /\ Current(p) <= FullSlots
<1>1. version[p] \in 0..FullSlots /\ FullSlots \in Nat
  BY SlotsFit DEF PlacesType
<1> QED
  BY <1>1 DEF Current

\* What the invariant says of one thread with an orbital of a slot
LEMMA BegunIs ==
    ASSUME Chosen, PlacesType, InCurrent, NEW w \in Workers, pc[w] \in Begun,
           InSlot(w) \/ pc[w] \notin {"barrier", "compute"}
    PROVE  /\ InSlot(w) /\ Slot(w) = Current(w[1]) /\ Slot(w) \in 0..(FullSlots - 1)
           /\ Current(w[1]) \in Nat /\ w[1] \in Processes
           /\ round[w] \in Nat \ {0} /\ State(w) = Orbital(w, round[w])
           /\ State(w) \in Own(w[1], Slot(w)) /\ State(w) \in SlotOf(Slot(w))
           /\ State(w) \notin Through(w[1])
<1>1. pc[w] # "pick"
  BY DEF Begun
<1>2. round[w] \in Nat \ {0}
  BY <1>1, RoundIs
<1>3. InSlot(w) /\ Slot(w) = Current(w[1])
  BY DEF InCurrent
<1>4. /\ State(w) = Orbital(w, round[w]) /\ Slot(w) \in 0..(FullSlots - 1)
      /\ State(w) \in Own(w[1], Slot(w)) /\ State(w) \in SlotOf(Slot(w))
  BY <1>2, <1>3, StateIs
<1>5. w[1] \in Processes
  BY WorkerIs
<1>6. State(w) \notin Through(w[1])
  BY <1>1, NotThrough
<1>7. Slot(w) \in Nat
  BY <1>4
<1> QED
  BY <1>2, <1>3, <1>4, <1>5, <1>6, <1>7

\* Only one thread of a process is at the end of the slot.
LEMMA LastIsOne ==
    ASSUME Chosen, PlacesType, InCurrent, LastEnds,
           NEW w \in Workers, NEW u \in Workers, w[1] = u[1],
           pc[w] \in AtLast, pc[u] \in AtLast
    PROVE  u = w
<1>1. /\ pc[w] \in Begun /\ pc[u] \in Begun
      /\ pc[w] \notin {"barrier", "compute"} /\ pc[u] \notin {"barrier", "compute"}
  BY DEF Begun, AtLast
<1>2. Slot(w) = Current(w[1]) /\ State(w) = Orbital(w, round[w]) /\ round[w] \in Nat \ {0}
  BY <1>1, BegunIs
<1>3. Slot(u) = Current(u[1]) /\ State(u) = Orbital(u, round[u]) /\ round[u] \in Nat \ {0}
  BY <1>1, BegunIs
<1>4. State(w) = State(u)
  BY <1>2, <1>3 DEF LastEnds
<1> QED
  BY <1>2, <1>3, <1>4, OneTask

\* While a slot is summed up no other of its orbitals is worked on.
LEMMA AloneIs ==
    ASSUME Chosen, PlacesType, InCurrent, LastEnds,
           NEW w \in Workers, NEW u \in Workers, w[1] = u[1], pc[w] \in Alone,
           pc[u] \in Begun, InSlot(u) \/ pc[u] \notin {"barrier", "compute"}
    PROVE  u = w
<1>1. pc[w] \in Begun /\ pc[w] \notin {"barrier", "compute"}
  BY DEF Begun, Alone
<1>2. Slot(w) = Current(w[1]) /\ State(w) = Orbital(w, round[w]) /\ round[w] \in Nat \ {0}
  BY <1>1, BegunIs
<1>3. /\ Slot(u) = Current(u[1]) /\ State(u) = Orbital(u, round[u]) /\ round[u] \in Nat \ {0}
      /\ State(u) \in Own(u[1], Slot(u)) /\ State(u) \notin Through(u[1])
  BY BegunIs
<1>4. Own(w[1], Slot(w)) \ {State(w)} \subseteq Through(w[1])
  BY DEF LastEnds
<1>5. State(w) = State(u)
  BY <1>2, <1>3, <1>4
<1> QED
  BY <1>2, <1>3, <1>5, OneTask

LEMMA CurrentIsNat ==
    ASSUME Chosen, PlacesType, InCurrent, NEW p \in Processes
    PROVE  Current(p) \in Nat /\ Current(p) <= FullSlots
<1>1. version[p] \in Nat
  BY SlotsFit DEF PlacesType
<1>2. CASE At(p, Updated)
  <2>1. PICK u \in Workers : u[1] = p /\ pc[u] \in Updated
    BY <1>2 DEF At
  <2>2. pc[u] \in Begun /\ pc[u] \notin {"barrier", "compute"}
    BY <2>1 DEF Begun, Updated
  <2> QED
    BY <2>1, <2>2, BegunIs, CurrentType
<1>3. CASE ~ At(p, Updated)
  BY <1>1, <1>3, CurrentType DEF Current
<1> QED
  BY <1>2, <1>3
-----------------------------------------------------------------------------
(* What a step of a thread leaves as it is *)

LEMMA OwnInSlot ==
    ASSUME Chosen, NEW w, NEW p \in Processes, NEW k \in 0..(FullSlots - 1),
           State(w) \in Own(p, k)
    PROVE  InSlot(w) /\ Slot(w) = k
<1>1. State(w) \in SlotOf(k)
  BY OwnIs
<1>2. Slot(w) = k
  BY <1>1 DEF SlotOf, Slot
<1> DEFINE s == State(w)
           a == k * dvh_skip
           c == FullSlots * dvh_skip
           S == dvh_skip
<1>3. s \in a..(a + S - 1) /\ a \in Nat /\ a + S <= c /\ Check = c /\ S \in Nat /\ c \in Nat
  BY <1>1, SlotIs, SlotsFit, ChosenTypes
<1> HIDE DEF s, a, c, S
<1>4. s < c
  BY <1>3
<1> QED
  BY <1>2, <1>3, <1>4 DEF s, InSlot

LEMMA TypeMoves ==
    ASSUME Chosen, PlacesType, UNCHANGED params, NEW w \in Workers, pc[w] # "pick",
           NEW b \in Places, pc' = [pc EXCEPT ![w] = b], UNCHANGED <<vcycle, round>>,
           counter' \in [Processes -> Nat], skipper' \in [Processes -> Nat],
           version' \in [Processes -> 0..FullSlots],
           dvh' \in [Processes -> [Slots -> SUBSET (0..(MaxStates - 1))]],
           summed' \in [Processes -> SUBSET Slots]
    PROVE  Chosen' /\ PlacesType'
<1>1. /\ Workers' = Workers /\ Processes' = Processes /\ Rounds' = Rounds
      /\ FullSlots' = FullSlots /\ Chosen'
  BY SameParams
<1>2. pc' \in [Workers -> Places]
  BY DEF PlacesType
<1>3. \A u \in Workers : round'[u] = 0 => pc'[u] = "pick"
  BY DEF PlacesType
<1>4. vcycle' \in 0..MaxVcycles /\ round' \in [Workers -> 0..Rounds]
  BY DEF PlacesType
<1> QED
  BY <1>1, <1>2, <1>3, <1>4 DEF PlacesType

\* A step of a thread that does not end a slot: what is left to show of it is what the
\* invariant says of the thread's new place.
LEMMA Moves ==
    ASSUME Chosen, PlacesType, InCurrent, LastEnds, InTurn, UNCHANGED params,
           NEW w \in Workers, pc[w] # "pick",
           NEW b, pc' = [pc EXCEPT ![w] = b], round' = round,
           \A p \in Processes : Current(p)' = Current(p),
           b \in Begun => IF InSlot(w) THEN Slot(w) = Current(w[1])
                                       ELSE b \in {"barrier", "compute"},
           b \in AtLast => State(w) = First(w[1], Slot(w)) + Share - 1,
           b = "skip" => State(w) # First(w[1], Slot(w)) + Share - 1,
           b \in Alone => Own(w[1], Slot(w)) \ {State(w)} \subseteq Through(w[1]),
           b \in {"sum", "summing"} => coalesce_factor > 1,
           b = "pick" /\ InSlot(w) => /\ Slot(w) = Current(w[1])
                                      /\ State(w) # First(w[1], Slot(w)) + Share - 1
    PROVE  InCurrent' /\ LastEnds' /\ InTurn'
<1>1. /\ Workers' = Workers /\ Processes' = Processes /\ FullSlots' = FullSlots
      /\ Share' = Share /\ coalesce_factor' = coalesce_factor
      /\ \A p, k : First(p, k)' = First(p, k) /\ Own(p, k)' = Own(p, k)
      /\ \A u : State(u)' = State(u) /\ Slot(u)' = Slot(u) /\ (InSlot(u)' <=> InSlot(u))
  BY SameParams DEF params
<1>2. /\ pc'[w] = b
      /\ \A u \in Workers : u # w => pc'[u] = pc[u]
  BY DEF PlacesType
<1>3. \A u \in Workers : u[1] \in Processes
  BY WorkerIs
<1>4. InCurrent'
  <2> SUFFICES ASSUME NEW u \in Workers, pc'[u] \in Begun
               PROVE  IF InSlot(u) THEN Slot(u) = Current(u[1])
                                   ELSE pc'[u] \in {"barrier", "compute"}
    BY <1>1, <1>3 DEF InCurrent
  <2>1. CASE u = w
    BY <1>2, <2>1
  <2>2. CASE u # w
    BY <1>2, <2>2 DEF InCurrent
  <2> QED
    BY <2>1, <2>2
<1>5. \A p : Through(p) \subseteq Through(p)'
  BY ThroughMoves
<1>6. LastEnds'
  <2> SUFFICES ASSUME NEW u \in Workers
               PROVE  /\ pc'[u] \in AtLast => State(u) = First(u[1], Slot(u)) + Share - 1
                      /\ pc'[u] = "skip" => State(u) # First(u[1], Slot(u)) + Share - 1
                      /\ pc'[u] \in Alone => Own(u[1], Slot(u)) \ {State(u)} \subseteq Through(u[1])'
                      /\ pc'[u] \in {"sum", "summing"} => coalesce_factor > 1
    BY <1>1, Zenon DEF LastEnds
  <2>1. CASE u = w
    BY <1>2, <1>5, <2>1
  <2>2. CASE u # w
    <3>1. pc'[u] = pc[u]
      BY <1>2, <2>2
    <3> QED
      BY <1>5, <3>1 DEF LastEnds
  <2> QED
    BY <2>1, <2>2
<1>7. InTurn'
  <2> SUFFICES ASSUME NEW p \in Processes, NEW k \in 0..(FullSlots - 1)
               PROVE  /\ k < Current(p) => Own(p, k) \subseteq Through(p)'
                      /\ k > Current(p) => Own(p, k) \cap Through(p)' = {}
                      /\ k = Current(p) => First(p, k) + Share - 1 \notin Through(p)'
    BY <1>1 DEF InTurn
  <2>1. /\ k < Current(p) => Own(p, k) \subseteq Through(p)
        /\ k > Current(p) => Own(p, k) \cap Through(p) = {}
        /\ k = Current(p) => First(p, k) + Share - 1 \notin Through(p)
    BY DEF InTurn
  <2>2. CASE ~ (b = "pick" /\ p = w[1])
    <3>1. Through(p)' = Through(p)
      BY <2>2, ThroughMoves
    <3> QED
      BY <2>1, <3>1
  <2>3. CASE b = "pick" /\ p = w[1]
    <3>1. Through(p)' = Through(p) \cup {State(w)}
      BY <2>3, ThroughMoves
    <3>2. round[w] \in Nat \ {0}
      BY RoundIs
    <3>3. State(w) \in Own(p, k) => InSlot(w) /\ Slot(w) = k
      BY OwnInSlot
    <3>4. State(w) \in Own(p, k) => k = Current(p) /\ State(w) # First(p, k) + Share - 1
      BY <2>3, <3>3
    <3>5. First(p, k) + Share - 1 \in Own(p, k)
      BY OwnIs
    <3>6. Current(p) \in Int /\ k \in Int
      BY CurrentType
    <3>7. k > Current(p) => k # Current(p)
      BY <3>6
    <3> QED
      BY <2>1, <3>1, <3>4, <3>5, <3>7
  <2> QED
    BY <2>2, <2>3
<1> QED
  BY <1>4, <1>6, <1>7

\* While the threads do not go on to another slot, its number is the same.
LEMMA CurrentSame ==
    ASSUME Chosen, PlacesType, UNCHANGED params, NEW w \in Workers,
           NEW b, pc' = [pc EXCEPT ![w] = b], version' = version,
           pc[w] \in Updated <=> b \in Updated
    PROVE  \A p : Current(p)' = Current(p)
<1>1. \A p : At(p, Updated)' <=> At(p, Updated)
  BY AtMoves
<1> QED
  BY <1>1 DEF Current

\* The counts of a process that a step does not change
LEMMA CountsKeep ==
    ASSUME Chosen, PlacesType, InCurrent, UNCHANGED params, NEW w \in Workers, pc[w] # "pick",
           NEW b, pc' = [pc EXCEPT ![w] = b], round' = round,
           NEW p \in Processes, CountsAt(p),
           counter'[p] = counter[p], skipper'[p] = skipper[p], Current(p)' = Current(p),
           p = w[1] => pc[w] # "advance" /\ b # "advance",
           p = w[1] /\ b = "pick" => ~ InSlot(w)
    PROVE  CountsAt(p)'
<1>1. /\ FullSlots' = FullSlots /\ Share' = Share
      /\ dvh_skip' = dvh_skip /\ active_threads' = active_threads
      /\ \A k : First(p, k)' = First(p, k) /\ Own(p, k)' = Own(p, k)
  BY SameParams DEF params
<1>2. First(p, Current(p))' = First(p, Current(p)) /\ Own(p, Current(p))' = Own(p, Current(p))
  BY <1>1 DEF First, Own
<1>3. At(p, {"advance"})' <=> At(p, {"advance"})
  <2> DEFINE X == {"advance"}
  <2>1. p = w[1] => (pc[w] \in X <=> b \in X)
    OBVIOUS
  <2> HIDE DEF X
  <2>2. At(p, X)' <=> At(p, X)
    BY <2>1, AtMoves
  <2> QED
    BY <2>2 DEF X
<1>4. Current(p) < FullSlots =>
        (Own(p, Current(p)) \cap Through(p))' = Own(p, Current(p)) \cap Through(p)
  <2> SUFFICES ASSUME Current(p) < FullSlots
               PROVE  Own(p, Current(p)) \cap Through(p)' = Own(p, Current(p)) \cap Through(p)
    BY <1>2
  <2>1. CASE ~ (p = w[1] /\ b = "pick")
    <3>1. Through(p)' = Through(p)
      BY <2>1, ThroughMoves
    <3> QED
      BY <3>1
  <2>2. CASE p = w[1] /\ b = "pick"
    <3>1. Through(p)' = Through(p) \cup {State(w)}
      BY <2>2, ThroughMoves
    <3>2. Current(p) \in 0..(FullSlots - 1)
      BY CurrentIsNat, SlotsFit
    <3>3. State(w) \notin Own(p, Current(p))
      BY <2>2, <3>2, OwnInSlot
    <3> QED
      BY <3>1, <3>3
  <2> QED
    BY <2>1, <2>2
<1> QED
  BY <1>1, <1>2, <1>3, <1>4 DEF CountsAt

\* A sum that a step does not change
LEMMA SumsKeep ==
    ASSUME Chosen, PlacesType, UNCHANGED params, NEW w \in Workers, pc[w] # "pick",
           NEW b, pc' = [pc EXCEPT ![w] = b], round' = round,
           NEW p \in Processes, NEW k \in 0..(FullSlots - 1), SumsAt(p, k),
           dvh'[p][k] = dvh[p][k], k \in summed'[p] => k \in summed[p],
           At(p, {"update"})' /\ k = Current(p)' =>
               (At(p, {"update"}) /\ k = Current(p)) \/ dvh[p][k] = SlotOf(k),
           p = w[1] /\ b = "pick" /\ State(w) \in Own(p, k) => State(w) \in dvh[p][k]
    PROVE  SumsAt(p, k)'
<1>1. Own(p, k)' = Own(p, k) /\ SlotOf(k)' = SlotOf(k)
  BY SameParams
<1>2. Own(p, k) \cap Through(p)' \subseteq dvh[p][k]
  <2>1. CASE ~ (p = w[1] /\ b = "pick")
    <3>1. Through(p)' = Through(p)
      BY <2>1, ThroughMoves
    <3> QED
      BY <3>1 DEF SumsAt
  <2>2. CASE p = w[1] /\ b = "pick"
    <3>1. Through(p)' = Through(p) \cup {State(w)}
      BY <2>2, ThroughMoves
    <3> QED
      BY <2>2, <3>1 DEF SumsAt
  <2> QED
    BY <2>1, <2>2
<1> QED
  BY <1>1, <1>2 DEF SumsAt

\* Nobody comes to "update" who is not there.
LEMMA NotToUpdate ==
    ASSUME PlacesType, UNCHANGED params, NEW w \in Workers,
           NEW b, b # "update", pc' = [pc EXCEPT ![w] = b], NEW p
    PROVE  At(p, {"update"})' => At(p, {"update"})
<1>1. \A u \in Workers : pc'[u] \in {"update"} => pc[u] \in {"update"}
  BY DEF PlacesType
<1>2. Workers' = Workers
  BY SameParams
<1> QED
  BY <1>1, <1>2 DEF At

LEMMA AddedSame ==
    ASSUME PlacesType, HaveAdded, UNCHANGED params, NEW w \in Workers,
           \A u \in Workers : pc[u] \in Added =>
               dvh[u[1]][Slot(u)] \subseteq dvh'[u[1]][Slot(u)],
           NEW b, b \in Added => State(w) \in dvh'[w[1]][Slot(w)],
           pc' = [pc EXCEPT ![w] = b], round' = round
    PROVE  HaveAdded'
<1>1. Workers' = Workers /\ \A u : State(u)' = State(u) /\ Slot(u)' = Slot(u)
  BY SameParams
<1>2. \A u \in Workers : pc'[u] \in Added => (u = w /\ b \in Added) \/ pc[u] \in Added
  BY DEF PlacesType
<1>3. \A u \in Workers : pc'[u] \in Added => State(u) \in dvh'[u[1]][Slot(u)]
  BY <1>2 DEF HaveAdded
<1> QED
  BY <1>1, <1>3 DEF HaveAdded

\* A step that changes nothing but the thread's place
LEMMA QuietStep ==
    ASSUME Inv, NEW w \in Workers, pc[w] \notin {"pick", "advance", "reset"},
           NEW b \in Places, b \notin {"pick", "advance", "reset"},
           pc' = [pc EXCEPT ![w] = b],
           UNCHANGED <<params, vcycle, round, atomics, version, dvh, summed>>,
           b \in Begun => IF InSlot(w) THEN Slot(w) = Current(w[1])
                                       ELSE b \in {"barrier", "compute"},
           b \in AtLast => State(w) = First(w[1], Slot(w)) + Share - 1,
           b = "skip" => State(w) # First(w[1], Slot(w)) + Share - 1,
           b \in Alone => Own(w[1], Slot(w)) \ {State(w)} \subseteq Through(w[1]),
           b \in {"sum", "summing"} => coalesce_factor > 1,
           b \in Added => State(w) \in dvh[w[1]][Slot(w)],
           b = "update" => dvh[w[1]][Slot(w)] = SlotOf(Slot(w))
    PROVE  Inv'
<1>1. Chosen /\ PlacesType /\ Working /\ UNCHANGED params /\ pc[w] # "pick"
      /\ counter' = counter /\ skipper' = skipper /\ round' = round /\ version' = version
      /\ dvh' = dvh /\ summed' = summed /\ vcycle' = vcycle
  BY DEF Inv, atomics
<1>2. Chosen' /\ PlacesType'
  BY <1>1, TypeMoves DEF PlacesType
<1>3. \A p : Current(p)' = Current(p)
  <2>1. pc[w] \in Updated <=> b \in Updated
    BY DEF Updated
  <2> QED
    BY <1>1, <2>1, CurrentSame
<1>4. InCurrent' /\ LastEnds' /\ InTurn'
  BY <1>1, <1>3, Moves DEF Working
<1>5. Processes' = Processes /\ FullSlots' = FullSlots
  BY <1>1, SameParams
<1>6. Counted'
  <2>1. ASSUME NEW p \in Processes PROVE CountsAt(p)'
    BY <1>1, <1>3, CountsKeep DEF Working, Counted
  <2> QED
    BY <1>5, <2>1 DEF Counted
<1>7. Summed'
  <2>1. ASSUME NEW p \in Processes, NEW k \in 0..(FullSlots - 1) PROVE SumsAt(p, k)'
    <3>1. SumsAt(p, k)
      BY <1>1 DEF Working, Summed
    <3>2. At(p, {"update"})' /\ k = Current(p)' =>
              (At(p, {"update"}) /\ k = Current(p)) \/ dvh[p][k] = SlotOf(k)
      <4> SUFFICES ASSUME At(p, {"update"})', k = Current(p)', ~ At(p, {"update"})
                   PROVE  dvh[p][k] = SlotOf(k)
        BY <1>3
      <4> DEFINE X == {"update"}
      <4>1. p = w[1]
        <5> HIDE DEF X
        <5>1. p # w[1] => (At(p, X)' <=> At(p, X))
          BY <1>1, AtMoves
        <5> QED
          BY <5>1 DEF X
      <4>2. b = "update"
        BY <1>1, NotToUpdate
      <4>3. b \in Begun /\ b \notin {"barrier", "compute"}
        BY <4>2 DEF Begun
      <4>4. Slot(w) = k
        BY <1>3, <4>1, <4>3
      <4> QED
        BY <4>1, <4>2, <4>4
    <3> QED
      BY <1>1, <3>1, <3>2, SumsKeep
  <2> QED
    BY <1>5, <2>1 DEF Summed
<1>8. HaveAdded'
  BY <1>1, AddedSame DEF Working
<1> QED
  BY <1>2, <1>4, <1>6, <1>7, <1>8 DEF Inv, Working
-----------------------------------------------------------------------------
(* The steps, one by one *)

LEMMA PickStep ==
    ASSUME Inv, NEW w \in Workers, Pick(w)
    PROVE  Inv'
<1>1. UNCHANGED params /\ Chosen /\ PlacesType /\ Working
  BY DEF Pick, Inv
<1>2. /\ Workers' = Workers /\ Processes' = Processes /\ Rounds' = Rounds
      /\ FullSlots' = FullSlots /\ Share' = Share /\ Chosen'
      /\ dvh_skip' = dvh_skip /\ active_threads' = active_threads
      /\ coalesce_factor' = coalesce_factor
      /\ \A p, k : First(p, k)' = First(p, k) /\ Own(p, k)' = Own(p, k)
      /\ \A k : SlotOf(k)' = SlotOf(k)
  BY <1>1, SameParams DEF params
<1>3. /\ pc[w] = "pick" /\ pc' = [pc EXCEPT ![w] = "wait"] /\ round[w] < Rounds
      /\ round' = [round EXCEPT ![w] = @ + 1]
      /\ UNCHANGED <<vcycle, counter, skipper, version, dvh, summed>>
  BY DEF Pick, Goto, atomics
<1>4. /\ pc'[w] = "wait" /\ round'[w] = round[w] + 1
      /\ \A u \in Workers : u # w => pc'[u] = pc[u] /\ round'[u] = round[u]
  BY <1>1, <1>3 DEF PlacesType
<1>5. round[w] \in Nat /\ Rounds \in Nat
  BY <1>1, RoundIs
<1>6. PlacesType'
  <2>1. round' \in [Workers -> 0..Rounds]
    BY <1>1, <1>3, <1>5 DEF PlacesType
  <2>2. pc' \in [Workers -> Places]
    BY <1>1, <1>3 DEF PlacesType, Places
  <2>3. \A u \in Workers : round'[u] = 0 => pc'[u] = "pick"
    <3>1. round'[w] # 0
      BY <1>4, <1>5
    <3> QED
      BY <1>1, <1>4, <3>1 DEF PlacesType
  <2> QED
    BY <1>1, <1>2, <1>3, <2>1, <2>2, <2>3 DEF PlacesType
<1>7. \A p : Through(p)' = Through(p)
  BY <1>1, ThroughPicks
<1>8. \A p : Current(p)' = Current(p)
  <2>1. pc[w] \in Updated <=> "wait" \in Updated
    BY <1>3 DEF Updated
  <2> QED
    BY <1>1, <1>3, <2>1, CurrentSame
<1>9. ASSUME NEW u \in Workers, pc'[u] # "wait"
      PROVE  /\ pc'[u] = pc[u]
             /\ State(u)' = State(u) /\ Slot(u)' = Slot(u) /\ (InSlot(u)' <=> InSlot(u))
  BY <1>1, <1>4, <1>9, SameParams
<1>10. "wait" \notin Begun /\ "wait" \notin AtLast /\ "wait" \notin Alone /\ "wait" \notin Added
  BY DEF Begun, AtLast, Alone, Added
<1>11. InCurrent'
  BY <1>1, <1>2, <1>8, <1>9, <1>10 DEF InCurrent, Working
<1>12. LastEnds'
  <2> SUFFICES ASSUME NEW u \in Workers
               PROVE  /\ pc'[u] \in AtLast => State(u)' = First(u[1], Slot(u)') + Share - 1
                      /\ pc'[u] = "skip" => State(u)' # First(u[1], Slot(u)') + Share - 1
                      /\ pc'[u] \in Alone =>
                             Own(u[1], Slot(u)') \ {State(u)'} \subseteq Through(u[1])
                      /\ pc'[u] \in {"sum", "summing"} => coalesce_factor > 1
    <3>1. \A u : First(u[1], Slot(u))' = First(u[1], Slot(u)')
      BY <1>2 DEF First
    <3>2. \A u : Own(u[1], Slot(u))' = Own(u[1], Slot(u)')
      BY <1>2, <3>1 DEF Own
    <3> QED
      BY <1>2, <1>7, <3>1, <3>2 DEF LastEnds
  <2>1. CASE pc'[u] = "wait"
    BY <1>10, <2>1
  <2>2. CASE pc'[u] # "wait"
    BY <1>1, <1>9, <2>2 DEF LastEnds, Working
  <2> QED
    BY <2>1, <2>2
<1>13. InTurn'
  BY <1>1, <1>2, <1>7, <1>8 DEF InTurn, Working
<1>14. \A p : (At(p, {"advance"})' <=> At(p, {"advance"}))
              /\ (At(p, {"update"})' <=> At(p, {"update"}))
  <2> DEFINE X == {"advance"}
             Y == {"update"}
  <2>1. (pc[w] \in X <=> "wait" \in X) /\ (pc[w] \in Y <=> "wait" \in Y)
    BY <1>3
  <2> HIDE DEF X, Y
  <2>2. \A p : At(p, X)' <=> At(p, X)
    BY <1>1, <1>3, <2>1, AtMoves
  <2>3. \A p : At(p, Y)' <=> At(p, Y)
    BY <1>1, <1>3, <2>1, AtMoves
  <2> QED
    BY <2>2, <2>3 DEF X, Y
<1>15. Counted'
  <2> SUFFICES ASSUME NEW p \in Processes
               PROVE  IF Current(p) < FullSlots
                      THEN /\ counter[p] = First(p, Current(p)) + Share
                           /\ skipper[p] = IF At(p, {"advance"}) THEN 0
                                           ELSE Cardinality(Own(p, Current(p)) \cap Through(p))
                      ELSE counter[p] <= FullSlots * dvh_skip + p * active_threads + Share
                           /\ skipper[p] = 0
    <3>1. ASSUME NEW p \in Processes
          PROVE  /\ First(p, Current(p))' = First(p, Current(p))
                 /\ Own(p, Current(p))' = Own(p, Current(p))
      BY <1>2, <1>8 DEF First, Own
    <3> QED
      BY <1>2, <1>3, <1>7, <1>8, <1>14, <3>1 DEF Counted, CountsAt
  <2> QED
    BY <1>1 DEF Counted, CountsAt, Working
<1>16. Summed'
  BY <1>1, <1>2, <1>3, <1>7, <1>8, <1>14 DEF Summed, SumsAt, Working
<1>17. HaveAdded'
  BY <1>1, <1>2, <1>3, <1>9, <1>10 DEF HaveAdded, Working
<1> QED
  BY <1>2, <1>6, <1>11, <1>12, <1>13, <1>15, <1>16, <1>17 DEF Inv, Working

\* The counter lets only orbitals of the slot in turn pass.
LEMMA WaitEnds ==
    ASSUME Inv, NEW w \in Workers, pc[w] = "wait", InSlot(w), State(w) < counter[w[1]]
    PROVE  Slot(w) = Current(w[1])
<1> DEFINE p == w[1]
           k == Slot(w)
           c == Current(p)
<1>1. Chosen /\ PlacesType /\ InCurrent /\ InTurn /\ Counted
  BY DEF Inv, Working
<1>2. round[w] \in Nat \ {0} /\ p \in Processes
  BY <1>1, RoundIs, WorkerIs
<1>3. k \in 0..(FullSlots - 1) /\ State(w) \in Own(p, k)
  BY <1>1, <1>2, StateIs
<1>4. State(w) \notin Through(p)
  BY <1>1, NotThrough
<1>5. ~ (k < c)
  BY <1>1, <1>2, <1>3, <1>4 DEF InTurn
<1>6. c \in Int /\ c <= FullSlots /\ FullSlots \in Nat
  BY <1>1, <1>2, CurrentType, SlotsFit
<1>7. ASSUME c < k PROVE FALSE
  <2>1. c \in 0..(FullSlots - 1)
    <3>1. c < FullSlots
      <4> HIDE DEF c, k
      <4> QED
        BY <1>3, <1>6, <1>7
    <3>2. c \in Nat
      BY <1>1, <1>2, CurrentIsNat
    <3> HIDE DEF c
    <3> QED
      BY <1>6, <3>1, <3>2
  <2>2. counter[p] = First(p, c) + Share
    <3>1. Current(p) < FullSlots
      BY <1>6, <2>1
    <3> QED
      BY <1>1, <1>2, <3>1 DEF Counted, CountsAt
  <2>3. First(p, c) + Share <= First(p, k)
    BY <1>1, <1>2, <1>3, <1>7, <2>1, OwnApart
  <2> DEFINE s == State(w)
             f == First(p, k)
             g == First(p, c)
  <2>4. s \in f..(f + Share - 1) /\ f \in Nat /\ Share \in Nat /\ g \in Nat
    BY <1>1, <1>2, <1>3, <2>1, OwnIs, ShareIs DEF Own
  <2>5. s < g + Share /\ g + Share <= f
    BY <2>2, <2>3
  <2> HIDE DEF s, f, g
  <2> QED
    BY <2>4, <2>5
<1> QED
  <2>1. k \in Int
    BY <1>3
  <2> HIDE DEF k, c
  <2>2. k = c
    BY <1>5, <1>6, <1>7, <2>1
  <2> QED
    BY <2>2 DEF k, c

LEMMA WaitStep ==
    ASSUME Inv, NEW w \in Workers, Wait(w)
    PROVE  Inv'
<1>1. /\ pc[w] = "wait" /\ (InSlot(w) => State(w) < counter[w[1]])
      /\ pc' = [pc EXCEPT ![w] = "barrier"]
      /\ UNCHANGED <<params, vcycle, round, atomics, version, dvh, summed>>
  BY DEF Wait, Goto
<1>2. InSlot(w) => Slot(w) = Current(w[1])
  BY <1>1, WaitEnds
<1>3. "barrier" \in Places /\ "barrier" \notin AtLast /\ "barrier" \notin Alone
      /\ "barrier" \notin Added
  BY DEF Places, AtLast, Alone, Added
<1> QED
  BY <1>1, <1>2, <1>3, QuietStep

LEMMA BarrierStep ==
    ASSUME Inv, NEW w \in Workers, Barrier(w)
    PROVE  Inv'
<1>1. /\ pc[w] = "barrier" /\ pc' = [pc EXCEPT ![w] = "compute"]
      /\ UNCHANGED <<params, vcycle, round, atomics, version, dvh, summed>>
  BY DEF Barrier, Goto
<1>2. InSlot(w) => Slot(w) = Current(w[1])
  <2>1. pc[w] \in Begun
    BY <1>1 DEF Begun
  <2> QED
    BY <2>1 DEF Inv, Working, InCurrent
<1>3. "compute" \in Places /\ "compute" \notin AtLast /\ "compute" \notin Alone
      /\ "compute" \notin Added
  BY DEF Places, AtLast, Alone, Added
<1> QED
  BY <1>1, <1>2, <1>3, QuietStep

LEMMA ComputeStep ==
    ASSUME Inv, NEW w \in Workers, Compute(w)
    PROVE  Inv'
<1>1. /\ pc[w] = "compute" /\ pc' = [pc EXCEPT ![w] = IF InSlot(w) THEN "add" ELSE "pick"]
      /\ UNCHANGED <<params, vcycle, round, atomics, version, dvh, summed>>
  BY DEF Compute, Goto
<1>2. InSlot(w) => Slot(w) = Current(w[1])
  <2>1. pc[w] \in Begun
    BY <1>1 DEF Begun
  <2> QED
    BY <2>1 DEF Inv, Working, InCurrent
<1>3. CASE InSlot(w)
  <2>1. "add" \in Places /\ "add" \notin AtLast /\ "add" \notin Alone /\ "add" \notin Added
    BY DEF Places, AtLast, Alone, Added
  <2>2. pc' = [pc EXCEPT ![w] = "add"]
    BY <1>1, <1>3
  <2> QED
    BY <1>1, <1>2, <1>3, <2>1, <2>2, QuietStep
<1>4. CASE ~ InSlot(w)
  <2>1. Chosen /\ PlacesType /\ Working /\ UNCHANGED params /\ pc[w] # "pick"
        /\ counter' = counter /\ skipper' = skipper /\ round' = round /\ version' = version
        /\ dvh' = dvh /\ summed' = summed /\ vcycle' = vcycle
    BY <1>1 DEF Inv, atomics
  <2>2. "pick" \notin Begun /\ "pick" \notin AtLast /\ "pick" \notin Alone
        /\ "pick" \notin Added /\ "pick" \in Places
    BY DEF Begun, Places, AtLast, Alone, Added
  <2>3. pc' = [pc EXCEPT ![w] = "pick"]
    BY <1>1, <1>4
  <2>4. Chosen' /\ PlacesType'
    BY <2>1, <2>2, <2>3, TypeMoves DEF PlacesType
  <2>5. \A p : Current(p)' = Current(p)
    <3>1. pc[w] \in Updated <=> "pick" \in Updated
      BY <1>1 DEF Updated
    <3> QED
      BY <2>1, <2>3, <3>1, CurrentSame
  <2>6. InCurrent' /\ LastEnds' /\ InTurn'
    BY <1>4, <2>1, <2>2, <2>3, <2>5, Moves DEF Working
  <2>7. Processes' = Processes /\ FullSlots' = FullSlots
    BY <2>1, SameParams
  <2>8. Counted'
    <3>1. ASSUME NEW p \in Processes PROVE CountsAt(p)'
      BY <1>1, <1>4, <2>1, <2>3, <2>5, CountsKeep DEF Working, Counted
    <3> QED
      BY <2>7, <3>1 DEF Counted
  <2>9. Summed'
    <3>1. ASSUME NEW p \in Processes, NEW k \in 0..(FullSlots - 1) PROVE SumsAt(p, k)'
      <4>1. At(p, {"update"})' => At(p, {"update"})
        BY <2>1, <2>3, NotToUpdate
      <4>2. State(w) \notin Own(p, k)
        BY <1>4, <2>1, OwnInSlot
      <4>3. SumsAt(p, k)
        BY <2>1 DEF Working, Summed
      <4> QED
        BY <2>1, <2>3, <2>5, <4>1, <4>2, <4>3, SumsKeep
    <3> QED
      BY <2>7, <3>1 DEF Summed
  <2>10. HaveAdded'
    BY <2>1, <2>2, <2>3, AddedSame DEF Working
  <2> QED
    BY <2>4, <2>6, <2>8, <2>9, <2>10 DEF Inv, Working
<1> QED
  BY <1>3, <1>4

LEMMA CheckLastStep ==
    ASSUME Inv, NEW w \in Workers, CheckLast(w)
    PROVE  Inv'
<1>1. /\ pc[w] = "check"
      /\ pc' = [pc EXCEPT ![w] = IF State(w) = counter[w[1]] - 1 THEN "gather" ELSE "skip"]
      /\ UNCHANGED <<params, vcycle, round, atomics, version, dvh, summed>>
  BY DEF CheckLast, Goto
<1>2. Chosen /\ PlacesType /\ InCurrent /\ Counted /\ HaveAdded
  BY DEF Inv, Working
<1>3. /\ InSlot(w) /\ Slot(w) = Current(w[1]) /\ Slot(w) \in 0..(FullSlots - 1)
      /\ w[1] \in Processes
  <2>1. pc[w] \in Begun /\ pc[w] \notin {"barrier", "compute"}
    BY <1>1 DEF Begun
  <2> QED
    BY <1>2, <2>1, BegunIs
<1>4. counter[w[1]] = First(w[1], Slot(w)) + Share
  <2>1. Current(w[1]) < FullSlots
    BY <1>2, <1>3, SlotsFit
  <2> QED
    BY <1>2, <1>3, <2>1 DEF Counted, CountsAt
<1>5. counter[w[1]] - 1 = First(w[1], Slot(w)) + Share - 1
  <2> DEFINE c == counter[w[1]]
             f == First(w[1], Slot(w))
  <2>1. c = f + Share /\ f \in Nat /\ Share \in Nat
    BY <1>2, <1>3, <1>4, OwnIs, ShareIs
  <2> HIDE DEF c, f
  <2>2. c - 1 = f + Share - 1
    BY <2>1
  <2> QED
    BY <2>2 DEF c, f
<1>6. State(w) \in dvh[w[1]][Slot(w)]
  <2>1. pc[w] \in Added
    BY <1>1 DEF Added
  <2> QED
    BY <1>2, <2>1 DEF HaveAdded
<1>7. CASE State(w) = counter[w[1]] - 1
  <2>1. "gather" \in Places /\ "gather" \notin Alone
    BY DEF Places, Alone
  <2>2. pc' = [pc EXCEPT ![w] = "gather"]
    BY <1>1, <1>7
  <2> QED
    BY <1>1, <1>3, <1>5, <1>6, <1>7, <2>1, <2>2, QuietStep
<1>8. CASE State(w) # counter[w[1]] - 1
  <2>1. "skip" \in Places /\ "skip" \notin Alone /\ "skip" \notin AtLast
    BY DEF Places, Alone, AtLast
  <2>2. pc' = [pc EXCEPT ![w] = "skip"]
    BY <1>1, <1>8
  <2> QED
    BY <1>1, <1>3, <1>5, <1>6, <1>8, <2>1, <2>2, QuietStep
<1> QED
  BY <1>7, <1>8

\* The last one goes on when all the others of its process are through.
LEMMA GatherStep ==
    ASSUME Inv, NEW w \in Workers, Gather(w)
    PROVE  Inv'
<1> DEFINE p == w[1]
           k == Slot(w)
<1>1. /\ pc[w] = "gather" /\ skipper[p] = Share - 1
      /\ pc' = [pc EXCEPT ![w] = IF coalesce_factor > 1 THEN "sum" ELSE "update"]
      /\ UNCHANGED <<params, vcycle, round, atomics, version, dvh, summed>>
  BY DEF Gather, Goto, Share
<1>2. Chosen /\ PlacesType /\ InCurrent /\ LastEnds /\ InTurn /\ Counted /\ Summed /\ HaveAdded
  BY DEF Inv, Working
<1>3. /\ InSlot(w) /\ k = Current(p) /\ k \in 0..(FullSlots - 1) /\ p \in Processes
      /\ State(w) \in Own(p, k) /\ State(w) \notin Through(p)
  <2>1. pc[w] \in Begun /\ pc[w] \notin {"barrier", "compute"}
    BY <1>1 DEF Begun
  <2> QED
    BY <1>2, <2>1, BegunIs
<1>4. State(w) = First(p, k) + Share - 1
  BY <1>1, <1>2 DEF LastEnds, AtLast
<1>5. State(w) \in dvh[p][k]
  <2>1. pc[w] \in Added
    BY <1>1 DEF Added
  <2> QED
    BY <1>2, <2>1 DEF HaveAdded
<1>6. Cardinality(Own(p, k) \cap Through(p)) = Share - 1
  <2>1. Current(p) < FullSlots
    BY <1>2, <1>3, SlotsFit
  <2>2. ~ At(p, {"advance"})
    <3> SUFFICES ASSUME At(p, {"advance"}) PROVE FALSE
      OBVIOUS
    <3>1. PICK u \in Workers : u[1] = p /\ pc[u] = "advance"
      BY DEF At
    <3>2. pc[u] \in AtLast /\ pc[w] \in AtLast
      BY <1>1, <3>1 DEF AtLast
    <3>3. u = w
      BY <1>2, <3>1, <3>2, LastIsOne
    <3> QED
      BY <1>1, <3>1, <3>3
  <2> QED
    BY <1>1, <1>2, <1>3, <2>1, <2>2 DEF Counted, CountsAt
<1>7. Own(p, k) \ {State(w)} \subseteq Through(p)
  <2> DEFINE A == Own(p, k)
             B == Own(p, k) \cap Through(p)
             s == State(w)
  <2>1. IsFiniteSet(A) /\ Cardinality(A) = Share /\ Share \in Nat
    BY <1>2, <1>3, OwnCount, ShareIs
  <2>2. IsFiniteSet(A \ {s}) /\ Cardinality(A \ {s}) = Share - 1
    <3>1. s \in A
      BY <1>3
    <3> HIDE DEF A, s
    <3> QED
      BY <2>1, <3>1, FS_RemoveElement
  <2>3. B \in SUBSET (A \ {s})
    BY <1>3
  <2>4. Cardinality(B) = Share - 1
    BY <1>6
  <2>5. B = A \ {s}
    <3> HIDE DEF A, B, s
    <3> QED
      BY <2>2, <2>3, <2>4, FS_Subset
  <2> QED
    BY <2>5
<1>8. CASE coalesce_factor > 1
  <2>1. "sum" \in Places
    BY DEF Places
  <2>2. pc' = [pc EXCEPT ![w] = "sum"]
    BY <1>1, <1>8
  <2> QED
    BY <1>1, <1>3, <1>4, <1>5, <1>7, <1>8, <2>1, <2>2, QuietStep
<1>9. CASE ~ (coalesce_factor > 1)
  <2>1. "update" \in Places
    BY DEF Places
  <2>2. pc' = [pc EXCEPT ![w] = "update"]
    BY <1>1, <1>9
  <2>3. dvh[p][k] = SlotOf(k)
    <3>1. coalesce_factor = 1
      BY <1>2, <1>9, ChosenTypes
    <3>2. Processes = {0}
      BY <1>2, <3>1, ShareIs
    <3>3. SlotOf(k) \subseteq Own(p, k)
      BY <1>2, <1>3, <3>2, OwnTogether
    <3>4. SumsAt(p, k)
      BY <1>2, <1>3 DEF Summed
    <3>5. Own(p, k) \subseteq dvh[p][k]
      BY <1>5, <1>7, <3>4 DEF SumsAt
    <3> QED
      BY <3>3, <3>4, <3>5 DEF SumsAt
  <2> QED
    BY <1>1, <1>3, <1>4, <1>5, <1>7, <1>9, <2>1, <2>2, <2>3, QuietStep
<1> QED
  BY <1>8, <1>9

LEMMA SlotsAre ==
    ASSUME Chosen
    PROVE  /\ 0..(FullSlots - 1) \subseteq Slots
           /\ \A k : SlotOf(k) \subseteq 0..(MaxStates - 1)
<1>1. FullSlots \in Nat /\ FullSlots <= nstates /\ nstates \in Nat /\ nstates <= MaxStates
      /\ MaxStates \in Nat
  BY SlotsFit, ChosenTypes
<1>2. 0..(FullSlots - 1) \subseteq Slots
  BY <1>1 DEF Slots
<1>3. 0..(nstates - 1) \subseteq 0..(MaxStates - 1)
  BY <1>1
<1> QED
  BY <1>2, <1>3 DEF SlotOf

\* A step that changes only the sum of the thread's slot: it keeps it part of the slot,
\* and complete where it was.
LEMMA SumStep ==
    ASSUME Inv, NEW w \in Workers, pc[w] \in {"add", "summing"},
           NEW b \in {"check", "update"}, pc' = [pc EXCEPT ![w] = b],
           UNCHANGED <<params, vcycle, round, atomics, version, summed>>,
           NEW X, dvh' = [dvh EXCEPT ![w[1]][Slot(w)] = X],
           dvh[w[1]][Slot(w)] \subseteq X, X \subseteq SlotOf(Slot(w)), State(w) \in X,
           b = "update" => pc[w] = "summing" /\ X = SlotOf(Slot(w))
    PROVE  Inv'
<1>1. Chosen /\ PlacesType /\ Working /\ UNCHANGED params /\ pc[w] # "pick"
      /\ counter' = counter /\ skipper' = skipper /\ round' = round /\ version' = version
      /\ summed' = summed /\ vcycle' = vcycle
  BY DEF Inv, atomics
<1>2. /\ b \in Places /\ b \notin Updated /\ pc[w] \notin Updated /\ pc[w] \in Begun
      /\ b \notin {"barrier", "compute", "skip", "sum", "summing", "pick", "advance"}
      /\ pc[w] \notin {"barrier", "compute", "advance"}
      /\ b \in AtLast <=> b = "update"
      /\ b \in Alone <=> b = "update"
  BY DEF Places, Updated, Begun, AtLast, Alone
<1>3. /\ InSlot(w) /\ Slot(w) = Current(w[1]) /\ Slot(w) \in 0..(FullSlots - 1)
      /\ w[1] \in Processes
  BY <1>1, <1>2, BegunIs DEF Working
<1>4. Slot(w) \in Slots /\ SlotOf(Slot(w)) \subseteq 0..(MaxStates - 1)
  BY <1>1, <1>3, SlotsAre
<1>5. \A q \in Processes, l \in Slots :
          dvh'[q][l] = IF q = w[1] /\ l = Slot(w) THEN X ELSE dvh[q][l]
  <2>1. PICK p \in Processes, k \in Slots : p = w[1] /\ k = Slot(w)
    BY <1>3, <1>4
  <2>2. dvh' = [dvh EXCEPT ![p][k] = X]
    BY <2>1
  <2>3. \A q \in Processes, l \in Slots : dvh'[q][l] = IF q = p /\ l = k THEN X ELSE dvh[q][l]
    <3>1. dvh \in [Processes -> [Slots -> SUBSET (0..(MaxStates - 1))]]
      BY <1>1 DEF PlacesType
    <3> QED
      BY <2>1, <2>2, <3>1
  <2> QED
    BY <2>1, <2>3
<1>6. Chosen' /\ PlacesType'
  <2>1. dvh' \in [Processes -> [Slots -> SUBSET (0..(MaxStates - 1))]]
    <3> DEFINE S == SUBSET (0..(MaxStates - 1))
    <3>1. dvh \in [Processes -> [Slots -> S]] /\ X \in S
      BY <1>1, <1>4 DEF PlacesType
    <3> HIDE DEF S
    <3>2. dvh' \in [Processes -> [Slots -> S]]
      BY <1>3, <1>4, <3>1
    <3> QED
      BY <3>2 DEF S
  <2> QED
    BY <1>1, <1>2, <2>1, TypeMoves DEF PlacesType
<1>7. \A p : Current(p)' = Current(p)
  BY <1>1, <1>2, CurrentSame
<1>8. InCurrent' /\ LastEnds' /\ InTurn'
  <2>1. b = "update" => /\ State(w) = First(w[1], Slot(w)) + Share - 1
                        /\ Own(w[1], Slot(w)) \ {State(w)} \subseteq Through(w[1])
    <3>1. b = "update" => pc[w] \in AtLast /\ pc[w] \in Alone
      BY DEF AtLast, Alone
    <3> QED
      BY <1>1, <3>1 DEF Working, LastEnds
  <2> QED
    BY <1>1, <1>2, <1>3, <1>7, <2>1, Moves DEF Working
<1>9. Processes' = Processes /\ FullSlots' = FullSlots
      /\ \A p, k : Own(p, k)' = Own(p, k) /\ SlotOf(k)' = SlotOf(k)
  BY <1>1, SameParams
<1>10. Counted'
  <2>1. ASSUME NEW p \in Processes PROVE CountsAt(p)'
    BY <1>1, <1>2, <1>7, CountsKeep DEF Working, Counted
  <2> QED
    BY <1>9, <2>1 DEF Counted
<1>11. Summed'
  <2>1. ASSUME NEW p \in Processes, NEW k \in 0..(FullSlots - 1) PROVE SumsAt(p, k)'
    <3>1. SumsAt(p, k) /\ k \in Slots
      BY <1>1, SlotsAre DEF Working, Summed
    <3>2. Through(p)' = Through(p)
      BY <1>1, <1>2, ThroughMoves
    <3>3. p # w[1] => (At(p, {"update"})' <=> At(p, {"update"}))
      <4> DEFINE Y == {"update"}
      <4> HIDE DEF Y
      <4>1. p # w[1] => (At(p, Y)' <=> At(p, Y))
        BY <1>1, AtMoves
      <4> QED
        BY <4>1 DEF Y
    <3>4. b # "update" => (At(p, {"update"})' => At(p, {"update"}))
      BY <1>1, NotToUpdate
    <3>5. CASE p = w[1] /\ k = Slot(w)
      <4>1. dvh'[p][k] = X
        BY <1>5, <3>1, <3>5
      <4>2. b # "update" => ~ At(p, {"update"}) \/ X = SlotOf(k)
        BY <3>1, <3>5, <1>3 DEF SumsAt
      <4> QED
        BY <1>1, <1>3, <1>7, <1>9, <3>1, <3>2, <3>4, <3>5, <4>1, <4>2 DEF SumsAt
    <3>6. CASE ~ (p = w[1] /\ k = Slot(w))
      <4>1. dvh'[p][k] = dvh[p][k]
        BY <1>5, <3>1, <3>6
      <4>2. p = w[1] => k # Current(p)
        BY <1>3, <3>6
      <4> QED
        BY <1>1, <1>7, <1>9, <3>1, <3>2, <3>3, <4>1, <4>2 DEF SumsAt
    <3> QED
      BY <3>5, <3>6
  <2> QED
    BY <1>9, <2>1 DEF Summed
<1>12. HaveAdded'
  <2>1. ASSUME NEW u \in Workers, pc[u] \in Added
        PROVE  dvh[u[1]][Slot(u)] \subseteq dvh'[u[1]][Slot(u)]
    <3>1. pc[u] \in Begun /\ pc[u] \notin {"barrier", "compute"}
      BY <2>1 DEF Added, Begun
    <3>2. Slot(u) \in 0..(FullSlots - 1) /\ u[1] \in Processes
      BY <1>1, <3>1, BegunIs DEF Working
    <3>3. Slot(u) \in Slots
      BY <1>1, <3>2, SlotsAre
    <3> QED
      BY <1>5, <3>2, <3>3
  <2>2. dvh'[w[1]][Slot(w)] = X
    BY <1>3, <1>4, <1>5
  <2> QED
    BY <1>1, <2>1, <2>2, AddedSame DEF Working
<1> QED
  BY <1>6, <1>8, <1>10, <1>11, <1>12 DEF Inv, Working

LEMMA AddStep ==
    ASSUME Inv, NEW w \in Workers, Add(w)
    PROVE  Inv'
<1> DEFINE p == w[1]
           k == Slot(w)
           X == dvh[p][k] \cup {State(w)}
<1>1. /\ pc[w] = "add" /\ pc' = [pc EXCEPT ![w] = "check"]
      /\ dvh' = [dvh EXCEPT ![p][k] = X]
      /\ UNCHANGED <<params, vcycle, round, atomics, version, summed>>
  BY DEF Add, Goto
<1>2. Chosen /\ PlacesType /\ InCurrent /\ Summed
  BY DEF Inv, Working
<1>3. k \in 0..(FullSlots - 1) /\ p \in Processes /\ State(w) \in SlotOf(k)
  <2>1. pc[w] \in Begun /\ pc[w] \notin {"barrier", "compute"}
    BY <1>1 DEF Begun
  <2> QED
    BY <1>2, <2>1, BegunIs
<1>4. X \subseteq SlotOf(k)
  BY <1>2, <1>3 DEF Summed, SumsAt
<1>5. dvh[p][k] \subseteq X /\ State(w) \in X
  OBVIOUS
<1> HIDE DEF X
<1> QED
  BY <1>1, <1>4, <1>5, SumStep

\* The reduction has the parts of all processes.
LEMMA EndSumStep ==
    ASSUME Inv, NEW w \in Workers, EndSum(w)
    PROVE  Inv'
<1> DEFINE p == w[1]
           k == Slot(w)
           X == UNION {dvh[q][k] : q \in Processes}
<1>1. /\ pc[w] = "summing" /\ pc' = [pc EXCEPT ![w] = "update"]
      /\ dvh' = [dvh EXCEPT ![p][k] = X]
      /\ \A q \in Processes : k \in summed[q]
      /\ UNCHANGED <<params, vcycle, round, atomics, version, summed>>
  BY DEF EndSum, Goto
<1>2. Chosen /\ PlacesType /\ InCurrent /\ Summed
  BY DEF Inv, Working
<1>3. k \in 0..(FullSlots - 1) /\ p \in Processes /\ State(w) \in SlotOf(k)
  <2>1. pc[w] \in Begun /\ pc[w] \notin {"barrier", "compute"}
    BY <1>1 DEF Begun
  <2> QED
    BY <1>2, <2>1, BegunIs
<1>4. \A q \in Processes : dvh[q][k] \subseteq SlotOf(k) /\ Own(q, k) \subseteq dvh[q][k]
  BY <1>1, <1>2, <1>3 DEF Summed, SumsAt
<1>5. ASSUME NEW s \in SlotOf(k) PROVE s \in X
  <2>1. PICK q \in Processes : s \in Own(q, k)
    BY <1>2, <1>3, OwnTogether
  <2> QED
    BY <1>4, <2>1
<1>6. X = SlotOf(k)
  BY <1>4, <1>5
<1>7. dvh[p][k] \subseteq X /\ State(w) \in X
  BY <1>3, <1>6
<1> HIDE DEF X
<1> QED
  BY <1>1, <1>6, <1>7, SumStep

\* A process takes part in the reduction with all that it has of the slot.
LEMMA PushSumStep ==
    ASSUME Inv, NEW w \in Workers, PushSum(w)
    PROVE  Inv'
<1>0. PICK b : b = "summing"
  OBVIOUS
<1>1. /\ pc[w] = "sum" /\ pc' = [pc EXCEPT ![w] = b]
      /\ b # "pick" /\ b # "update" /\ b # "advance"
      /\ summed' = [summed EXCEPT ![w[1]] = @ \cup {Slot(w)}]
      /\ UNCHANGED <<params, vcycle, round, atomics, version, dvh>>
  BY <1>0 DEF PushSum, Goto
<1>2. Chosen /\ PlacesType /\ Working /\ UNCHANGED params /\ pc[w] # "pick"
      /\ counter' = counter /\ skipper' = skipper /\ round' = round /\ version' = version
      /\ dvh' = dvh /\ vcycle' = vcycle
  BY <1>1 DEF Inv, atomics
<1>3. /\ pc[w] \in Begun /\ pc[w] \notin {"barrier", "compute"}
      /\ pc[w] \in AtLast /\ pc[w] \in Alone /\ pc[w] \in Added
      /\ pc[w] \notin Updated /\ b \notin Updated /\ b \in Places
  BY <1>0, <1>1 DEF Begun, AtLast, Alone, Added, Updated, Places
<1>4. /\ InSlot(w) /\ Slot(w) = Current(w[1]) /\ Slot(w) \in 0..(FullSlots - 1)
      /\ w[1] \in Processes
  BY <1>2, <1>3, BegunIs DEF Working
<1>5. \A p \in Processes : \A k \in summed'[p] : k \in summed[p] \/ (p = w[1] /\ k = Slot(w))
  BY <1>1, <1>2 DEF PlacesType
<1>6. Chosen' /\ PlacesType'
  <2>1. summed' \in [Processes -> SUBSET Slots]
    <3>1. Slot(w) \in Slots
      BY <1>2, <1>4, SlotsAre
    <3> QED
      BY <1>1, <1>2, <3>1 DEF PlacesType
  <2> QED
    BY <1>1, <1>2, <1>3, <2>1, TypeMoves DEF PlacesType
<1>7. \A p : Current(p)' = Current(p)
  BY <1>1, <1>2, <1>3, CurrentSame
<1>8. InCurrent' /\ LastEnds' /\ InTurn'
  <2>1. /\ State(w) = First(w[1], Slot(w)) + Share - 1
        /\ Own(w[1], Slot(w)) \ {State(w)} \subseteq Through(w[1])
        /\ coalesce_factor > 1
    BY <1>1, <1>2, <1>3 DEF Working, LastEnds
  <2> QED
    BY <1>0, <1>1, <1>2, <1>4, <1>7, <2>1, Moves DEF Working
<1>9. Processes' = Processes /\ FullSlots' = FullSlots
      /\ \A p, k : Own(p, k)' = Own(p, k) /\ SlotOf(k)' = SlotOf(k)
  BY <1>2, SameParams
<1>10. Counted'
  <2>1. ASSUME NEW p \in Processes PROVE CountsAt(p)'
    BY <1>1, <1>2, <1>7, CountsKeep DEF Working, Counted
  <2> QED
    BY <1>9, <2>1 DEF Counted
<1>11. Own(w[1], Slot(w)) \subseteq dvh[w[1]][Slot(w)]
  <2>1. Own(w[1], Slot(w)) \ {State(w)} \subseteq Through(w[1])
    BY <1>2, <1>3 DEF Working, LastEnds
  <2>2. Own(w[1], Slot(w)) \cap Through(w[1]) \subseteq dvh[w[1]][Slot(w)]
    BY <1>2, <1>4 DEF Working, Summed, SumsAt
  <2>3. State(w) \in dvh[w[1]][Slot(w)]
    BY <1>2, <1>3 DEF Working, HaveAdded
  <2> QED
    BY <2>1, <2>2, <2>3
<1>12. Summed'
  <2>1. ASSUME NEW p \in Processes, NEW k \in 0..(FullSlots - 1) PROVE SumsAt(p, k)'
    <3>1. SumsAt(p, k)
      BY <1>2 DEF Working, Summed
    <3>2. Through(p)' = Through(p)
      BY <1>1, <1>2, ThroughMoves
    <3>3. At(p, {"update"})' => At(p, {"update"})
      BY <1>1, <1>2, NotToUpdate
    <3>4. k \in summed'[p] => Own(p, k) \subseteq dvh[p][k]
      BY <1>5, <1>11, <3>1 DEF SumsAt
    <3> QED
      BY <1>2, <1>7, <1>9, <3>1, <3>2, <3>3, <3>4 DEF SumsAt
  <2> QED
    BY <1>9, <2>1 DEF Summed
<1>13. HaveAdded'
  <2>1. State(w) \in dvh[w[1]][Slot(w)]
    BY <1>2, <1>3 DEF Working, HaveAdded
  <2> QED
    BY <1>1, <1>2, <2>1, AddedSame DEF Working
<1> QED
  BY <1>6, <1>8, <1>10, <1>12, <1>13 DEF Inv, Working

\* An orbital that is not the last of its slot counts for the one that is.
LEMMA SkipStep ==
    ASSUME Inv, NEW w \in Workers, Skip(w)
    PROVE  Inv'
<1>1. /\ pc[w] = "skip" /\ pc' = [pc EXCEPT ![w] = "pick"]
      /\ skipper' = [skipper EXCEPT ![w[1]] = @ + 1]
      /\ UNCHANGED <<params, vcycle, round, counter, version, dvh, summed>>
  BY DEF Skip, Goto
<1>2. Chosen /\ PlacesType /\ Working /\ UNCHANGED params /\ pc[w] # "pick"
      /\ counter' = counter /\ round' = round /\ version' = version
      /\ dvh' = dvh /\ summed' = summed /\ vcycle' = vcycle
  BY <1>1 DEF Inv
<1>3. /\ pc[w] \in Begun /\ pc[w] \notin {"barrier", "compute"}
      /\ pc[w] \in Added /\ pc[w] \notin Updated
      /\ "pick" \notin Updated /\ "pick" \in Places /\ "pick" \notin Begun
      /\ "pick" \notin AtLast /\ "pick" \notin Alone /\ "pick" \notin Added
  BY <1>1 DEF Begun, AtLast, Alone, Added, Updated, Places
<1>4. /\ InSlot(w) /\ Slot(w) = Current(w[1]) /\ Slot(w) \in 0..(FullSlots - 1)
      /\ w[1] \in Processes
      /\ State(w) \in Own(w[1], Slot(w)) /\ State(w) \notin Through(w[1])
  BY <1>2, <1>3, BegunIs DEF Working
<1>5. State(w) # First(w[1], Slot(w)) + Share - 1
  BY <1>1, <1>2 DEF Working, LastEnds
<1>6. skipper'[w[1]] = skipper[w[1]] + 1
      /\ \A p \in Processes : p # w[1] => skipper'[p] = skipper[p]
  BY <1>1, <1>2, <1>4 DEF PlacesType
<1>7. Chosen' /\ PlacesType'
  <2>1. skipper' \in [Processes -> Nat]
    BY <1>1, <1>2, <1>4 DEF PlacesType
  <2> QED
    BY <1>1, <1>2, <1>3, <2>1, TypeMoves DEF PlacesType
<1>8. \A p : Current(p)' = Current(p)
  BY <1>1, <1>2, <1>3, CurrentSame
<1>9. InCurrent' /\ LastEnds' /\ InTurn'
  BY <1>1, <1>2, <1>3, <1>4, <1>5, <1>8, Moves DEF Working
<1>10. Processes' = Processes /\ FullSlots' = FullSlots /\ Share' = Share /\ Workers' = Workers
      /\ \A p, k : First(p, k)' = First(p, k) /\ Own(p, k)' = Own(p, k)
  BY <1>2, SameParams
<1>11. CountsAt(w[1])'
  <2> DEFINE p == w[1]
             k == Slot(w)
             A == Own(p, k) \cap Through(p)
             s == State(w)
  <2>1. Current(p) < FullSlots /\ k = Current(p)
    BY <1>2, <1>4, SlotsFit
  <2>2. ASSUME NEW u \in Workers, u[1] = p PROVE pc[u] # "advance" /\ pc'[u] # "advance"
    <3>1. CASE u = w
      BY <1>1, <1>2, <3>1 DEF PlacesType
    <3>2. CASE u # w
      <4>1. pc[u] \notin Alone
        BY <1>2, <1>3, <1>4, <2>2, <3>2, AloneIs DEF Working
      <4>2. pc'[u] = pc[u]
        BY <1>1, <1>2, <3>2 DEF PlacesType
      <4> QED
        BY <4>1, <4>2 DEF Alone
    <3> QED
      BY <3>1, <3>2
  <2>3. ~ At(p, {"advance"}) /\ ~ At(p, {"advance"})'
    BY <1>10, <2>2 DEF At
  <2>4. counter[p] = First(p, k) + Share /\ skipper[p] = Cardinality(A)
    BY <1>2, <1>4, <2>1, <2>3 DEF Working, Counted, CountsAt
  <2>5. Through(p)' = Through(p) \cup {s}
    BY <1>1, <1>2, ThroughMoves
  <2>6. Own(p, k) \cap Through(p)' = A \cup {s}
    BY <1>4, <2>5
  <2>7. Cardinality(A \cup {s}) = Cardinality(A) + 1
    <3>1. IsFiniteSet(Own(p, k)) /\ A \subseteq Own(p, k)
      BY <1>2, <1>4, OwnCount
    <3>2. IsFiniteSet(A)
      <4> HIDE DEF A
      <4> QED
        BY <3>1, FS_Subset
    <3>3. s \notin A
      BY <1>4
    <3> HIDE DEF A, s
    <3> QED
      BY <3>2, <3>3, FS_AddElement
  <2>8. skipper'[p] = Cardinality(Own(p, k) \cap Through(p)')
    BY <1>6, <2>4, <2>6, <2>7
  <2>9. /\ Current(p)' = k /\ First(p, Current(p))' = First(p, k)
        /\ Own(p, Current(p))' = Own(p, k)
    BY <1>8, <1>10, <2>1 DEF First, Own
  <2> QED
    BY <1>2, <1>10, <2>1, <2>3, <2>4, <2>8, <2>9 DEF CountsAt
<1>12. Counted'
  <2>1. ASSUME NEW p \in Processes, p # w[1] PROVE CountsAt(p)'
    BY <1>1, <1>2, <1>6, <1>8, <2>1, CountsKeep DEF Working, Counted
  <2> QED
    BY <1>10, <1>11, <2>1 DEF Counted
<1>13. Summed'
  <2>1. ASSUME NEW p \in Processes, NEW k \in 0..(FullSlots - 1) PROVE SumsAt(p, k)'
    <3>1. SumsAt(p, k)
      BY <1>2 DEF Working, Summed
    <3>2. At(p, {"update"})' => At(p, {"update"})
      BY <1>1, <1>2, NotToUpdate
    <3>3. p = w[1] /\ State(w) \in Own(p, k) => State(w) \in dvh[p][k]
      BY <1>2, <1>3, OwnInSlot DEF Working, HaveAdded
    <3> QED
      BY <1>1, <1>2, <1>8, <3>1, <3>2, <3>3, SumsKeep
  <2> QED
    BY <1>10, <2>1 DEF Summed
<1>14. HaveAdded'
  BY <1>1, <1>2, <1>3, AddedSame DEF Working
<1> QED
  BY <1>7, <1>9, <1>12, <1>13, <1>14 DEF Inv, Working

\* The potential has the update of the slot, and the slot is the same still.
LEMMA UpdateStep ==
    ASSUME Inv, NEW w \in Workers, Update(w)
    PROVE  Inv'
<1>0. PICK b : b = "reset"
  OBVIOUS
<1>1. /\ pc[w] = "update" /\ pc' = [pc EXCEPT ![w] = b]
      /\ version' = [version EXCEPT ![w[1]] = @ + 1]
      /\ b \notin {"pick", "update", "advance", "skip", "sum", "summing"}
      /\ UNCHANGED <<params, vcycle, round, atomics, dvh, summed>>
  BY <1>0 DEF Update, Goto
<1>2. Chosen /\ PlacesType /\ Working /\ UNCHANGED params /\ pc[w] # "pick"
      /\ counter' = counter /\ skipper' = skipper /\ round' = round
      /\ dvh' = dvh /\ summed' = summed /\ vcycle' = vcycle
  BY <1>1 DEF Inv, atomics
<1>3. /\ pc[w] \in Begun /\ pc[w] \notin {"barrier", "compute"}
      /\ pc[w] \in AtLast /\ pc[w] \in Alone /\ pc[w] \in Added
      /\ pc[w] \notin Updated /\ b \in Updated /\ b \in Places
  BY <1>0, <1>1 DEF Begun, AtLast, Alone, Added, Updated, Places
<1>4. /\ InSlot(w) /\ Slot(w) = Current(w[1]) /\ Slot(w) \in 0..(FullSlots - 1)
      /\ w[1] \in Processes
  BY <1>2, <1>3, BegunIs DEF Working
<1>5. version'[w[1]] = version[w[1]] + 1 /\ version[w[1]] \in Nat
      /\ \A p \in Processes : p # w[1] => version'[p] = version[p]
  <2>1. version \in [Processes -> 0..FullSlots] /\ FullSlots \in Nat
    BY <1>2, SlotsFit DEF PlacesType
  <2> QED
    BY <1>1, <1>4, <2>1
<1>6. \A u \in Workers : u[1] = w[1] /\ u # w => pc[u] \notin AtLast
  BY <1>2, <1>3, LastIsOne DEF Working
<1>7. \A p \in Processes : Current(p)' = Current(p)
  <2> SUFFICES ASSUME NEW p \in Processes PROVE Current(p)' = Current(p)
    OBVIOUS
  <2>1. CASE p = w[1]
    <3>1. \A u \in Workers : u[1] = w[1] /\ u # w => pc[u] \notin Updated
      BY <1>6 DEF AtLast, Updated
    <3>2. ~ At(p, Updated) /\ At(p, Updated)'
      BY <1>1, <1>2, <1>3, <2>1, <3>1, AtMoves
    <3>3. Current(p) = version[p] /\ Current(p)' = version'[p] - 1
      BY <3>2 DEF Current
    <3> DEFINE v == version[p]
               vv == version'[p]
    <3>4. v \in Nat /\ vv = v + 1
      BY <1>5, <2>1
    <3> HIDE DEF v, vv
    <3>5. vv - 1 = v
      BY <3>4
    <3> QED
      BY <3>3, <3>5 DEF v, vv
  <2>2. CASE p # w[1]
    <3>1. At(p, Updated)' <=> At(p, Updated)
      BY <1>1, <1>2, <2>2, AtMoves
    <3> QED
      BY <1>5, <2>2, <3>1 DEF Current
  <2> QED
    BY <2>1, <2>2
<1>8. Chosen' /\ PlacesType'
  <2>1. version' \in [Processes -> 0..FullSlots]
    <3>1. ~ At(w[1], Updated)
      <4> SUFFICES ASSUME At(w[1], Updated) PROVE FALSE
        OBVIOUS
      <4>1. PICK u \in Workers : u[1] = w[1] /\ pc[u] \in Updated
        BY DEF At
      <4>2. u # w
        BY <1>3, <4>1
      <4> QED
        BY <1>6, <4>1, <4>2 DEF Updated, AtLast
    <3>2. Slot(w) = version[w[1]]
      BY <1>4, <3>1 DEF Current
    <3>3. version[w[1]] + 1 \in 0..FullSlots
      <4> DEFINE v == version[w[1]]
      <4>1. v \in 0..(FullSlots - 1) /\ FullSlots \in Nat
        BY <1>2, <1>4, <3>2, SlotsFit
      <4> HIDE DEF v
      <4>2. v + 1 \in 0..FullSlots
        BY <4>1
      <4> QED
        BY <4>2 DEF v
    <3> QED
      BY <1>1, <1>2, <3>3 DEF PlacesType
  <2> QED
    BY <1>1, <1>2, <1>3, <2>1, TypeMoves DEF PlacesType
<1>9. InCurrent' /\ LastEnds' /\ InTurn'
  <2>1. /\ State(w) = First(w[1], Slot(w)) + Share - 1
        /\ Own(w[1], Slot(w)) \ {State(w)} \subseteq Through(w[1])
    BY <1>2, <1>3 DEF Working, LastEnds
  <2> QED
    BY <1>1, <1>2, <1>4, <1>7, <2>1, Moves DEF Working
<1>10. Processes' = Processes /\ FullSlots' = FullSlots
  BY <1>2, SameParams
<1>11. Counted'
  <2>1. ASSUME NEW p \in Processes PROVE CountsAt(p)'
    BY <1>1, <1>2, <1>7, CountsKeep DEF Working, Counted
  <2> QED
    BY <1>10, <2>1 DEF Counted
<1>12. Summed'
  <2>1. ASSUME NEW p \in Processes, NEW k \in 0..(FullSlots - 1) PROVE SumsAt(p, k)'
    <3>1. SumsAt(p, k)
      BY <1>2 DEF Working, Summed
    <3>2. At(p, {"update"})' => At(p, {"update"})
      BY <1>1, <1>2, NotToUpdate
    <3> QED
      BY <1>1, <1>2, <1>7, <3>1, <3>2, SumsKeep
  <2> QED
    BY <1>10, <2>1 DEF Summed
<1>13. HaveAdded'
  <2>1. State(w) \in dvh[w[1]][Slot(w)]
    BY <1>2, <1>3 DEF Working, HaveAdded
  <2> QED
    BY <1>1, <1>2, <2>1, AddedSame DEF Working
<1> QED
  BY <1>8, <1>9, <1>11, <1>12, <1>13 DEF Inv, Working

LEMMA ResetSkipperStep ==
    ASSUME Inv, NEW w \in Workers, ResetSkipper(w)
    PROVE  Inv'
<1>0. PICK b : b = "advance"
  OBVIOUS
<1>1. /\ pc[w] = "reset" /\ pc' = [pc EXCEPT ![w] = b]
      /\ skipper' = [skipper EXCEPT ![w[1]] = 0]
      /\ b \notin {"pick", "update", "skip", "sum", "summing"}
      /\ UNCHANGED <<params, vcycle, round, counter, version, dvh, summed>>
  BY <1>0 DEF ResetSkipper, Goto
<1>2. Chosen /\ PlacesType /\ Working /\ UNCHANGED params /\ pc[w] # "pick"
      /\ counter' = counter /\ round' = round /\ version' = version
      /\ dvh' = dvh /\ summed' = summed /\ vcycle' = vcycle
  BY <1>1 DEF Inv
<1>3. /\ pc[w] \in Begun /\ pc[w] \notin {"barrier", "compute"}
      /\ pc[w] \in AtLast /\ pc[w] \in Alone /\ pc[w] \in Added
      /\ pc[w] \in Updated /\ b \in Updated /\ b \in Places
  BY <1>0, <1>1 DEF Begun, AtLast, Alone, Added, Updated, Places
<1>4. /\ InSlot(w) /\ Slot(w) = Current(w[1]) /\ Slot(w) \in 0..(FullSlots - 1)
      /\ w[1] \in Processes
  BY <1>2, <1>3, BegunIs DEF Working
<1>5. skipper'[w[1]] = 0 /\ \A p \in Processes : p # w[1] => skipper'[p] = skipper[p]
  BY <1>1, <1>2, <1>4 DEF PlacesType
<1>6. \A p : Current(p)' = Current(p)
  BY <1>1, <1>2, <1>3, CurrentSame
<1>7. Chosen' /\ PlacesType'
  <2>1. skipper' \in [Processes -> Nat]
    BY <1>1, <1>2, <1>4 DEF PlacesType
  <2> QED
    BY <1>1, <1>2, <1>3, <2>1, TypeMoves DEF PlacesType
<1>8. InCurrent' /\ LastEnds' /\ InTurn'
  <2>1. /\ State(w) = First(w[1], Slot(w)) + Share - 1
        /\ Own(w[1], Slot(w)) \ {State(w)} \subseteq Through(w[1])
    BY <1>2, <1>3 DEF Working, LastEnds
  <2> QED
    BY <1>1, <1>2, <1>4, <1>6, <2>1, Moves DEF Working
<1>9. Processes' = Processes /\ FullSlots' = FullSlots /\ Share' = Share /\ Workers' = Workers
      /\ \A p, k : First(p, k)' = First(p, k)
  BY <1>2, SameParams
<1>10. CountsAt(w[1])'
  <2>1. Current(w[1]) < FullSlots
    BY <1>2, <1>4, SlotsFit
  <2>2. counter[w[1]] = First(w[1], Current(w[1])) + Share
    BY <1>2, <1>4, <2>1 DEF Working, Counted, CountsAt
  <2>3. At(w[1], {"advance"})'
    <3>1. pc'[w] = "advance"
      BY <1>0, <1>1, <1>2 DEF PlacesType
    <3> QED
      BY <1>9, <3>1 DEF At
  <2>4. First(w[1], Current(w[1]))' = First(w[1], Current(w[1]))
    BY <1>6, <1>9 DEF First
  <2> QED
    BY <1>2, <1>5, <1>6, <1>9, <2>1, <2>2, <2>3, <2>4 DEF CountsAt
<1>11. Counted'
  <2>1. ASSUME NEW p \in Processes, p # w[1] PROVE CountsAt(p)'
    BY <1>1, <1>2, <1>5, <1>6, <2>1, CountsKeep DEF Working, Counted
  <2> QED
    BY <1>9, <1>10, <2>1 DEF Counted
<1>12. Summed'
  <2>1. ASSUME NEW p \in Processes, NEW k \in 0..(FullSlots - 1) PROVE SumsAt(p, k)'
    <3>1. SumsAt(p, k)
      BY <1>2 DEF Working, Summed
    <3>2. At(p, {"update"})' => At(p, {"update"})
      BY <1>1, <1>2, NotToUpdate
    <3> QED
      BY <1>1, <1>2, <1>6, <3>1, <3>2, SumsKeep
  <2> QED
    BY <1>9, <2>1 DEF Summed
<1>13. HaveAdded'
  <2>1. State(w) \in dvh[w[1]][Slot(w)]
    BY <1>2, <1>3 DEF Working, HaveAdded
  <2> QED
    BY <1>1, <1>2, <2>1, AddedSame DEF Working
<1> QED
  BY <1>7, <1>8, <1>11, <1>12, <1>13 DEF Inv, Working

\* The next slot starts.
LEMMA AdvanceStep ==
    ASSUME Inv, NEW w \in Workers, Advance(w)
    PROVE  Inv'
<1> DEFINE p == w[1]
           c == Slot(w)
<1>0. PICK b : b = "pick"
  OBVIOUS
<1>1. /\ pc[w] = "advance" /\ pc' = [pc EXCEPT ![w] = b]
      /\ counter' = [counter EXCEPT ![p] = @ + Increment(w)]
      /\ b \notin {"update", "skip", "sum", "summing"}
      /\ UNCHANGED <<params, vcycle, round, skipper, version, dvh, summed>>
  BY <1>0 DEF Advance, Goto
<1>2. Chosen /\ PlacesType /\ Working /\ UNCHANGED params /\ pc[w] # "pick"
      /\ skipper' = skipper /\ round' = round /\ version' = version
      /\ dvh' = dvh /\ summed' = summed /\ vcycle' = vcycle
  BY <1>1 DEF Inv
<1>3. /\ pc[w] \in Begun /\ pc[w] \notin {"barrier", "compute"}
      /\ pc[w] \in AtLast /\ pc[w] \in Alone /\ pc[w] \in Added
      /\ pc[w] \in Updated /\ b \notin Updated /\ b \in Places
      /\ b \notin Begun /\ b \notin AtLast /\ b \notin Alone /\ b \notin Added
  BY <1>0, <1>1 DEF Begun, AtLast, Alone, Added, Updated, Places
<1>4. /\ InSlot(w) /\ c = Current(p) /\ c \in 0..(FullSlots - 1) /\ p \in Processes
      /\ State(w) \in Own(p, c) /\ round[w] \in Nat \ {0} /\ FullSlots \in Nat
  BY <1>2, <1>3, BegunIs, SlotsFit DEF Working
<1>5. /\ Own(p, c) \ {State(w)} \subseteq Through(p)
      /\ Own(p, c) \subseteq Through(p) \cup {State(w)}
  BY <1>2, <1>3 DEF Working, LastEnds
<1>6. \A u \in Workers : u[1] = p /\ u # w => pc[u] \notin AtLast
  BY <1>2, <1>3, LastIsOne DEF Working
<1>7. Increment(w) \in Nat /\ Increment(w) <= dvh_skip
      /\ (c + 1 < FullSlots => Increment(w) = dvh_skip)
  BY <1>2, <1>4, IncrementIs
<1>8. counter'[p] = counter[p] + Increment(w)
      /\ \A q \in Processes : q # p => counter'[q] = counter[q]
  BY <1>1, <1>2, <1>4 DEF PlacesType
<1>9. Current(p)' = c + 1 /\ \A q \in Processes : q # p => Current(q)' = Current(q)
  <2>1. \A u \in Workers : u[1] = p /\ u # w => pc[u] \notin Updated
    BY <1>6 DEF AtLast, Updated
  <2>2. At(p, Updated) /\ ~ At(p, Updated)'
    BY <1>1, <1>2, <1>3, <2>1, AtMoves
  <2>3. Current(p) = version[p] - 1 /\ Current(p)' = version[p]
    BY <1>2, <2>2 DEF Current
  <2>4. version[p] \in Nat
    <3>1. version \in [Processes -> 0..FullSlots] /\ FullSlots \in Nat
      BY <1>2, SlotsFit DEF PlacesType
    <3> QED
      BY <1>4, <3>1
  <2>5. Current(p)' = c + 1
    <3> DEFINE v == version[p]
    <3>1. c = v - 1 /\ v \in Nat /\ Current(p)' = v
      BY <1>4, <2>3, <2>4
    <3> HIDE DEF v, c
    <3>2. v = c + 1
      BY <3>1
    <3> QED
      BY <3>1, <3>2
  <2>6. ASSUME NEW q \in Processes, q # p PROVE Current(q)' = Current(q)
    <3>1. At(q, Updated)' <=> At(q, Updated)
      BY <1>1, <1>2, <2>6, AtMoves
    <3> QED
      BY <1>2, <3>1 DEF Current
  <2> QED
    BY <2>5, <2>6
<1>10. /\ Workers' = Workers /\ Processes' = Processes /\ FullSlots' = FullSlots
       /\ Share' = Share /\ coalesce_factor' = coalesce_factor
       /\ dvh_skip' = dvh_skip /\ active_threads' = active_threads
       /\ \A q, k : First(q, k)' = First(q, k) /\ Own(q, k)' = Own(q, k)
       /\ \A u : State(u)' = State(u) /\ Slot(u)' = Slot(u) /\ (InSlot(u)' <=> InSlot(u))
  BY <1>2, SameParams DEF params
<1>11. /\ pc'[w] = b
       /\ \A u \in Workers : u # w => pc'[u] = pc[u]
  BY <1>1, <1>2 DEF PlacesType
<1>12. \A q : Through(q)' = IF q = p THEN Through(q) \cup {State(w)} ELSE Through(q)
  BY <1>0, <1>1, <1>2, ThroughMoves
<1>13. \A k \in 0..(FullSlots - 1) : State(w) \in Own(p, k) => k = c
  BY <1>2, <1>4, OwnInSlot
<1>14. \A k \in 0..(FullSlots - 1) : k > c => Own(p, k) \cap Through(p)' = {}
  <2> SUFFICES ASSUME NEW k \in 0..(FullSlots - 1), k > c
               PROVE  Own(p, k) \cap Through(p)' = {}
    OBVIOUS
  <2>1. Own(p, k) \cap Through(p) = {}
    BY <1>2, <1>4 DEF Working, InTurn
  <2>2. k # c
    BY <1>4
  <2>3. State(w) \notin Own(p, k)
    BY <1>13, <2>2
  <2>4. Through(p)' = Through(p) \cup {State(w)}
    BY <1>12
  <2> QED
    BY <2>1, <2>3, <2>4
<1>15. Chosen' /\ PlacesType'
  <2>1. counter' \in [Processes -> Nat]
    <3>1. counter \in [Processes -> Nat]
      BY <1>2 DEF PlacesType
    <3> QED
      BY <1>1, <1>4, <1>7, <3>1
  <2> QED
    BY <1>1, <1>2, <1>3, <2>1, TypeMoves DEF PlacesType
<1>16. InCurrent'
  <2> SUFFICES ASSUME NEW u \in Workers, pc'[u] \in Begun
               PROVE  IF InSlot(u) THEN Slot(u) = Current(u[1])'
                                   ELSE pc'[u] \in {"barrier", "compute"}
    BY <1>10 DEF InCurrent
  <2>1. u # w /\ pc'[u] = pc[u]
    BY <1>3, <1>11
  <2>2. IF InSlot(u) THEN Slot(u) = Current(u[1]) ELSE pc[u] \in {"barrier", "compute"}
    BY <1>2, <2>1 DEF Working, InCurrent
  <2>3. InSlot(u) => u[1] # p
    BY <1>2, <1>3, <2>1, AloneIs DEF Working
  <2>4. u[1] \in Processes
    BY <1>2, WorkerIs
  <2> QED
    BY <1>9, <2>1, <2>2, <2>3, <2>4
<1>17. LastEnds'
  <2> SUFFICES ASSUME NEW u \in Workers
               PROVE  /\ pc'[u] \in AtLast => State(u) = First(u[1], Slot(u)) + Share - 1
                      /\ pc'[u] = "skip" => State(u) # First(u[1], Slot(u)) + Share - 1
                      /\ pc'[u] \in Alone => Own(u[1], Slot(u)) \ {State(u)} \subseteq Through(u[1])'
                      /\ pc'[u] \in {"sum", "summing"} => coalesce_factor > 1
    BY <1>10, Zenon DEF LastEnds
  <2>1. CASE u = w
    BY <1>1, <1>3, <1>11, <2>1
  <2>2. CASE u # w
    <3>1. pc'[u] = pc[u]
      BY <1>11, <2>2
    <3>2. Through(u[1]) \subseteq Through(u[1])'
      BY <1>12
    <3> QED
      BY <1>2, <3>1, <3>2 DEF Working, LastEnds
  <2> QED
    BY <2>1, <2>2
<1>18. InTurn'
  <2> SUFFICES ASSUME NEW q \in Processes, NEW k \in 0..(FullSlots - 1)
               PROVE  /\ k < Current(q)' => Own(q, k) \subseteq Through(q)'
                      /\ k > Current(q)' => Own(q, k) \cap Through(q)' = {}
                      /\ k = Current(q)' => First(q, k) + Share - 1 \notin Through(q)'
    BY <1>10 DEF InTurn
  <2>1. /\ k < Current(q) => Own(q, k) \subseteq Through(q)
        /\ k > Current(q) => Own(q, k) \cap Through(q) = {}
        /\ k = Current(q) => First(q, k) + Share - 1 \notin Through(q)
    BY <1>2 DEF Working, InTurn
  <2>2. CASE q # p
    BY <1>9, <1>12, <2>1, <2>2
  <2>3. CASE q = p
    <3>1. k \in Int /\ c \in Int /\ Current(q)' = c + 1
      BY <1>4, <1>9, <2>3
    <3>2. (k < c + 1 => k < c \/ k = c) /\ (k > c + 1 => k > c) /\ (k = c + 1 => k > c)
      <4> HIDE DEF c
      <4> QED
        BY <3>1
    <3>3. First(q, k) + Share - 1 \in Own(q, k)
      BY <1>2, OwnIs
    <3>4. Through(q)' = Through(q) \cup {State(w)}
      BY <1>12, <2>3
    <3>5. ASSUME k < c + 1 PROVE Own(q, k) \subseteq Through(q)'
      <4>1. CASE k < c
        BY <1>4, <2>1, <2>3, <3>4, <4>1
      <4>2. CASE k = c
        BY <1>5, <2>3, <3>4, <4>2
      <4> QED
        BY <3>2, <3>5, <4>1, <4>2
    <3>6. k > c => Own(q, k) \cap Through(q)' = {}
      BY <1>14, <2>3
    <3> QED
      BY <3>1, <3>2, <3>3, <3>5, <3>6
  <2> QED
    BY <2>2, <2>3
<1>19. CountsAt(p)'
  <2>1. Current(p) < FullSlots /\ At(p, {"advance"})
    BY <1>1, <1>4 DEF At
  <2>2. counter[p] = First(p, c) + Share /\ skipper[p] = 0
    BY <1>2, <1>4, <2>1 DEF Working, Counted, CountsAt
  <2>3. ~ At(p, {"advance"})'
    <3> SUFFICES ASSUME NEW u \in Workers, u[1] = p PROVE pc'[u] # "advance"
      BY <1>10 DEF At
    <3>1. CASE u = w
      BY <1>0, <1>11, <3>1
    <3>2. CASE u # w
      BY <1>6, <1>11, <3>2 DEF AtLast
    <3> QED
      BY <3>1, <3>2
  <2> DEFINE S == dvh_skip
             a == c * dvh_skip
             b1 == p * active_threads
             x == Increment(w)
             n == FullSlots * dvh_skip
  <2>4. /\ c \in Nat /\ S \in Nat /\ a \in Nat /\ b1 \in Nat /\ x \in Nat /\ x <= S
        /\ Share \in Nat /\ n \in Nat /\ a + S <= n /\ (c + 1) * S = a + S
    <3>1. c \in Nat /\ S \in Nat /\ Share \in Nat /\ a \in Nat /\ a + S <= n /\ n \in Nat
      BY <1>2, <1>4, ChosenTypes, ShareIs, SlotIs, SlotsFit
    <3>2. b1 \in Nat
      BY <1>2, WorkerIs
    <3>3. (c + 1) * S = a + S
      <4>1. c < c + 1 /\ c + 1 \in Nat
        <5> HIDE DEF c
        <5> QED
          BY <3>1
      <4> QED
        BY <3>1, <4>1, Products
    <3> QED
      BY <1>7, <3>1, <3>2, <3>3
  <2>5. counter'[p] = a + b1 + Share + x
    BY <1>8, <2>2 DEF First
  <2>6. CASE c + 1 < FullSlots
    <3>1. Current(p)' = c + 1 /\ First(p, Current(p))' = First(p, c + 1)
          /\ Own(p, Current(p))' = Own(p, c + 1)
      BY <1>9, <1>10 DEF First, Own
    <3>2. First(p, c + 1) = a + S + b1
      BY <2>4 DEF First
    <3>3. counter'[p] = First(p, c + 1) + Share
      <4>1. x = S
        BY <1>7, <2>6
      <4>2. a + b1 + Share + S = a + S + b1 + Share
        <5> HIDE DEF a, b1, S, x, n, c
        <5> QED
          BY <2>4
      <4> QED
        BY <2>5, <3>2, <4>1, <4>2
    <3>4. Own(p, c + 1) \cap Through(p)' = {}
      <4>1. c + 1 \in 0..(FullSlots - 1) /\ c + 1 > c
        <5>1. c \in Nat
          BY <2>4
        <5> HIDE DEF c
        <5> QED
          BY <1>4, <2>6, <5>1
      <4> QED
        BY <1>14, <4>1
    <3>5. skipper'[p] = Cardinality(Own(p, c + 1) \cap Through(p)')
      BY <1>2, <2>2, <3>4, FS_EmptySet
    <3> QED
      BY <1>10, <2>3, <2>6, <3>1, <3>3, <3>5 DEF CountsAt
  <2>7. CASE ~ (c + 1 < FullSlots)
    <3>1. ~ (Current(p)' < FullSlots')
      BY <1>9, <1>10, <2>7
    <3>2. a + b1 + Share + x <= n + b1 + Share
      <4> HIDE DEF a, b1, S, x, n, c
      <4> QED
        BY <2>4
    <3>3. counter'[p] <= FullSlots * dvh_skip + p * active_threads + Share
      BY <2>5, <3>2
    <3>4. skipper'[p] = 0
      BY <1>2, <2>2
    <3> QED
      BY <1>10, <3>1, <3>3, <3>4 DEF CountsAt
  <2> QED
    BY <2>6, <2>7
<1>20. Counted'
  <2>1. ASSUME NEW q \in Processes, q # p PROVE CountsAt(q)'
    BY <1>1, <1>2, <1>8, <1>9, <2>1, CountsKeep DEF Working, Counted
  <2> QED
    BY <1>10, <1>19, <2>1 DEF Counted
<1>21. Summed'
  <2>1. ASSUME NEW q \in Processes, NEW k \in 0..(FullSlots - 1) PROVE SumsAt(q, k)'
    <3>1. SumsAt(q, k)
      BY <1>2 DEF Working, Summed
    <3>2. At(q, {"update"})' => At(q, {"update"})
      BY <1>1, <1>2, NotToUpdate
    <3>3. At(q, {"update"}) => q # p
      <4> SUFFICES ASSUME At(p, {"update"}) PROVE FALSE
        OBVIOUS
      <4>1. PICK u \in Workers : u[1] = p /\ pc[u] = "update"
        BY DEF At
      <4> QED
        BY <1>1, <1>6, <4>1 DEF AtLast
    <3>4. q = w[1] /\ State(w) \in Own(q, k) => State(w) \in dvh[q][k]
      BY <1>2, <1>3, OwnInSlot DEF Working, HaveAdded
    <3> QED
      BY <1>1, <1>2, <1>9, <3>1, <3>2, <3>3, <3>4, SumsKeep
  <2> QED
    BY <1>10, <2>1 DEF Summed
<1>22. HaveAdded'
  BY <1>1, <1>2, <1>3, AddedSame DEF Working
<1> QED
  BY <1>15, <1>16, <1>17, <1>18, <1>20, <1>21, <1>22 DEF Inv, Working

\* A cycle begins.
Fresh ==
    /\ Chosen /\ PlacesType
    /\ \A w \in Workers : round[w] = 0 /\ pc[w] = "pick"
    /\ \A p \in Processes : /\ version[p] = 0 /\ skipper[p] = 0 /\ counter[p] = ResetCounter(p)
                            /\ summed[p] = {} /\ \A k \in Slots : dvh[p][k] = {}

LEMMA FreshWorks ==
    Fresh => Working
<1> SUFFICES ASSUME Fresh PROVE Working
  OBVIOUS
<1>1. Chosen /\ PlacesType
  BY DEF Fresh
<1>2. \A w \in Workers : round[w] = 0 /\ pc[w] = "pick"
  BY DEF Fresh
<1>3. "pick" \notin Begun /\ "pick" \notin AtLast /\ "pick" \notin Alone /\ "pick" \notin Added
      /\ "pick" \notin Updated
  BY DEF Begun, AtLast, Alone, Added, Updated
<1>4. \A p \in Processes : Current(p) = 0
  BY <1>2, <1>3 DEF Fresh, Current, At
<1>5. \A p : Through(p) = {}
  <2> SUFFICES ASSUME NEW p, NEW s \in Through(p) PROVE FALSE
    OBVIOUS
  <2>1. PICK u \in Workers : \E i \in 1..round[u] : TRUE
    BY ThroughIs
  <2>2. round[u] = 0
    BY <1>2
  <2> QED
    BY <2>1, <2>2
<1>6. FullSlots \in Nat /\ FullSlots * dvh_skip \in Nat /\ Share \in Nat /\ dvh_skip \in Nat
      /\ active_threads \in Nat
  BY <1>1, SlotsFit, ShareIs, ChosenTypes
<1>7. InCurrent /\ LastEnds /\ HaveAdded
  BY <1>2, <1>3 DEF InCurrent, LastEnds, HaveAdded
<1>8. InTurn
  <2>1. \A k \in 0..(FullSlots - 1) : ~ (k < 0)
    BY <1>6
  <2> QED
    BY <1>4, <1>5, <2>1 DEF InTurn
<1>9. Counted
  <2> SUFFICES ASSUME NEW p \in Processes PROVE CountsAt(p)
    BY DEF Counted
  <2> DEFINE a == p * active_threads
  <2>1. counter[p] = a + Share /\ skipper[p] = 0
    BY DEF Fresh, ResetCounter, Share
  <2>2. a \in Nat
    <3>1. p \in Nat
      BY <1>1, ChosenTypes
    <3> QED
      BY <1>6, <3>1
  <2>3. First(p, 0) = a
    <3>1. 0 * dvh_skip = 0
      BY <1>6
    <3>2. First(p, 0) = 0 * dvh_skip + a
      BY DEF First
    <3> HIDE DEF a
    <3> QED
      BY <2>2, <3>1, <3>2
  <2>4. ~ At(p, {"advance"})
    BY <1>2 DEF At
  <2>5. Cardinality(Own(p, 0) \cap Through(p)) = 0
    <3>1. Own(p, 0) \cap Through(p) = {}
      BY <1>5
    <3> QED
      BY <3>1, FS_EmptySet
  <2>6. a + Share <= FullSlots * dvh_skip + a + Share
    <3> DEFINE n == FullSlots * dvh_skip
    <3>1. n \in Nat
      BY <1>6
    <3> HIDE DEF n, a
    <3>2. a + Share <= n + a + Share
      BY <1>6, <2>2, <3>1
    <3> QED
      BY <3>2 DEF n
  <2>7. Current(p) = 0
    BY <1>4
  <2> QED
    BY <2>1, <2>3, <2>4, <2>5, <2>6, <2>7 DEF CountsAt
<1>10. Summed
  <2> SUFFICES ASSUME NEW p \in Processes, NEW k \in 0..(FullSlots - 1) PROVE SumsAt(p, k)
    BY DEF Summed
  <2>1. k \in Slots
    BY <1>1, SlotsAre
  <2>2. dvh[p][k] = {} /\ summed[p] = {}
    BY <2>1 DEF Fresh
  <2>3. ~ At(p, {"update"})
    BY <1>2 DEF At
  <2> QED
    BY <1>5, <2>2, <2>3 DEF SumsAt
<1> QED
  BY <1>7, <1>8, <1>9, <1>10 DEF Working

\* When all tasks are done all slots are over.
LEMMA AllOver ==
    ASSUME Inv, \A w \in Workers : round[w] = Rounds /\ pc[w] = "pick", NEW p \in Processes
    PROVE  skipper[p] = 0
<1>1. Chosen /\ PlacesType /\ InCurrent /\ InTurn /\ Counted
  BY DEF Inv, Working
<1>2. Current(p) \in Nat /\ FullSlots \in Nat
  BY <1>1, CurrentIsNat, SlotsFit
<1>3. ~ (Current(p) < FullSlots)
  <2> SUFFICES ASSUME Current(p) < FullSlots PROVE FALSE
    OBVIOUS
  <2> DEFINE k == Current(p)
             s == First(p, k) + Share - 1
  <2>1. k \in 0..(FullSlots - 1)
    BY <1>2
  <2>2. s \in Own(p, k) /\ s \notin Through(p)
    BY <1>1, <2>1, OwnIs DEF InTurn
  <2>3. PICK w \in Workers, r \in 1..Rounds : w[1] = p /\ s = Orbital(w, r)
    BY <1>1, <2>1, <2>2, OwnHasTask
  <2>4. r \in 1..round[w] /\ pc[w] = "pick"
    BY <2>3
  <2>5. s \in Through(p)
    BY <2>3, <2>4, ThroughIs
  <2> QED
    BY <2>2, <2>5
<1> QED
  BY <1>1, <1>3 DEF Counted, CountsAt

LEMMA NextVcycleStep ==
    ASSUME Inv, NextVcycle
    PROVE  SlotInv'
<1>1. Chosen /\ PlacesType /\ UNCHANGED params
  BY DEF Inv, NextVcycle
<1>2. /\ \A w \in Workers : round[w] = Rounds /\ pc[w] = "pick"
      /\ vcycle < MaxVcycles /\ vcycle' = vcycle + 1 /\ pc' = pc /\ skipper' = skipper
      /\ round' = [w \in Workers |-> IF vcycle' < MaxVcycles THEN 0 ELSE Rounds]
      /\ counter' = [p \in Processes |-> ResetCounter(p)]
      /\ version' = [p \in Processes |-> 0]
      /\ dvh' = [p \in Processes |-> [i \in Slots |-> {}]]
      /\ summed' = [p \in Processes |-> {}]
  BY DEF NextVcycle
<1>3. /\ Workers' = Workers /\ Processes' = Processes /\ Rounds' = Rounds
      /\ FullSlots' = FullSlots /\ Chosen'
      /\ \A p : ResetCounter(p)' = ResetCounter(p)
  BY <1>1, SameParams
<1>4. \A p \in Processes : skipper[p] = 0
  BY <1>2, AllOver
<1>5. vcycle' \in 0..MaxVcycles /\ MaxVcycles \in Nat /\ (vcycle' < MaxVcycles \/ vcycle' = MaxVcycles)
  BY <1>1, <1>2, BoundsAssumption DEF PlacesType
<1>6. PlacesType'
  <2>1. round' \in [Workers -> 0..Rounds]
    <3>1. Rounds \in 0..Rounds /\ 0 \in 0..Rounds
      <4>1. 0 * Stride < nstates
        BY <1>1, ChosenTypes
      <4>2. Rounds \in Nat
        BY <1>1, <4>1, RoundsReach
      <4> QED
        BY <4>2
    <3> QED
      BY <1>2, <3>1
  <2>2. counter' \in [Processes -> Nat]
    <3>1. \A p \in Processes : ResetCounter(p) \in Nat
      <4> SUFFICES ASSUME NEW p \in Processes PROVE ResetCounter(p) \in Nat
        OBVIOUS
      <4>1. p \in Nat /\ active_threads \in Nat /\ Share \in Nat
        BY <1>1, ChosenTypes, ShareIs
      <4>2. p * active_threads \in Nat
        BY <4>1
      <4> QED
        BY <4>1, <4>2 DEF ResetCounter, Share
    <3> QED
      BY <1>2, <3>1
  <2>3. version' \in [Processes -> 0..FullSlots]
    BY <1>1, <1>2, SlotsFit
  <2>4. dvh' \in [Processes -> [Slots -> SUBSET (0..(MaxStates - 1))]]
        /\ summed' \in [Processes -> SUBSET Slots]
    BY <1>2
  <2>5. pc' \in [Workers -> Places] /\ skipper' \in [Processes -> Nat]
        /\ \A w \in Workers : pc'[w] = "pick"
    BY <1>1, <1>2 DEF PlacesType
  <2> QED
    BY <1>3, <1>5, <2>1, <2>2, <2>3, <2>4, <2>5 DEF PlacesType
<1>7. CASE vcycle' < MaxVcycles
  <2>1. \A w \in Workers : round'[w] = 0 /\ pc'[w] = "pick"
    BY <1>2, <1>7
  <2>2. \A p \in Processes : /\ version'[p] = 0 /\ skipper'[p] = 0
                             /\ counter'[p] = ResetCounter(p)
                             /\ summed'[p] = {} /\ \A k \in Slots : dvh'[p][k] = {}
    BY <1>2, <1>4
  <2>3. Fresh'
    BY <1>3, <1>6, <2>1, <2>2 DEF Fresh
  <2>4. Working'
    BY <2>3, FreshWorks, PTL
  <2> QED
    BY <1>3, <1>6, <2>4 DEF SlotInv
<1>8. CASE vcycle' = MaxVcycles
  <2>1. \A w \in Workers : round'[w] = Rounds /\ pc'[w] = "pick"
    <3>1. ~ (vcycle' < MaxVcycles)
      BY <1>5, <1>8
    <3> QED
      BY <1>2, <3>1
  <2>2. \A p \in Processes : skipper'[p] = 0 /\ counter'[p] = ResetCounter(p)
    BY <1>2, <1>4
  <2>3. Over'
    BY <1>3, <1>8, <2>1, <2>2 DEF Over
  <2> QED
    BY <1>3, <1>6, <2>3 DEF SlotInv
<1> QED
  BY <1>5, <1>7, <1>8

LEMMA WorkerStep ==
    ASSUME Inv, NEW w \in Workers, Worker(w)
    PROVE  Inv'
<1>1. CASE Pick(w)
  BY <1>1, PickStep
<1>2. CASE Wait(w)
  BY <1>2, WaitStep
<1>3. CASE Barrier(w)
  BY <1>3, BarrierStep
<1>4. CASE Compute(w)
  BY <1>4, ComputeStep
<1>5. CASE Add(w)
  BY <1>5, AddStep
<1>6. CASE CheckLast(w)
  BY <1>6, CheckLastStep
<1>7. CASE Skip(w)
  BY <1>7, SkipStep
<1>8. CASE Gather(w)
  BY <1>8, GatherStep
<1>9. CASE PushSum(w)
  BY <1>9, PushSumStep
<1>10. CASE EndSum(w)
  BY <1>10, EndSumStep
<1>11. CASE Update(w)
  BY <1>11, UpdateStep
<1>12. CASE ResetSkipper(w)
  BY <1>12, ResetSkipperStep
<1>13. CASE Advance(w)
  BY <1>13, AdvanceStep
<1> QED
  BY <1>1, <1>2, <1>3, <1>4, <1>5, <1>6, <1>7, <1>8, <1>9, <1>10, <1>11, <1>12, <1>13
     DEF Worker

LEMMA InitSlots ==
    Init => SlotInv
<1> SUFFICES ASSUME Init PROVE SlotInv
  OBVIOUS
<1>1. /\ nstates \in 1..MaxStates /\ active_threads \in Threads /\ coalesce_factor \in Coalesce
      /\ mpi_queue_mode \in QueueModes /\ block_rounds \in Blocks
      /\ dvh_skip \in (IF coalesce_factor > 1 THEN {Stride} ELSE Skips)
      /\ vcycle = 0
      /\ round = [w \in Workers |-> 0] /\ pc = [w \in Workers |-> "pick"]
      /\ counter = [p \in Processes |-> ResetCounter(p)]
      /\ skipper = [p \in Processes |-> 0] /\ version = [p \in Processes |-> 0]
      /\ dvh = [p \in Processes |-> [i \in Slots |-> {}]]
      /\ summed = [p \in Processes |-> {}]
  BY DEF Init
<1>2. Chosen
  <2>1. active_threads \in Nat \ {0} /\ coalesce_factor \in Nat \ {0} /\ Skips \subseteq Nat \ {0}
    BY <1>1, BoundsAssumption
  <2>2. Stride \in Nat \ {0}
    BY <2>1 DEF Stride
  <2>3. dvh_skip \in Nat \ {0} /\ (coalesce_factor > 1 => dvh_skip = Stride)
    <3>1. CASE coalesce_factor > 1
      BY <1>1, <2>2, <3>1
    <3>2. CASE ~ (coalesce_factor > 1)
      BY <1>1, <2>1, <3>2
    <3> QED
      BY <3>1, <3>2
  <2> QED
    BY <1>1, <2>3 DEF Chosen
<1>3. PlacesType
  <2>1. round \in [Workers -> 0..Rounds]
    <3>1. 0 * Stride < nstates
      BY <1>2, ChosenTypes
    <3>2. 0 \in 0..Rounds
      <4>1. Rounds \in Nat
        BY <1>2, <3>1, RoundsReach
      <4> QED
        BY <4>1
    <3> QED
      BY <1>1, <3>2
  <2>2. counter \in [Processes -> Nat]
    <3>1. \A p \in Processes : ResetCounter(p) \in Nat
      <4> SUFFICES ASSUME NEW p \in Processes PROVE ResetCounter(p) \in Nat
        OBVIOUS
      <4>1. p \in Nat /\ active_threads \in Nat /\ Share \in Nat
        BY <1>2, ChosenTypes, ShareIs
      <4>2. p * active_threads \in Nat
        BY <4>1
      <4> QED
        BY <4>1, <4>2 DEF ResetCounter, Share
    <3> QED
      BY <1>1, <3>1
  <2>3. version \in [Processes -> 0..FullSlots]
    BY <1>1, <1>2, SlotsFit
  <2>4. dvh \in [Processes -> [Slots -> SUBSET (0..(MaxStates - 1))]]
        /\ summed \in [Processes -> SUBSET Slots]
    BY <1>1
  <2>5. pc \in [Workers -> Places] /\ skipper \in [Processes -> Nat]
        /\ \A w \in Workers : pc[w] = "pick"
    BY <1>1 DEF Places
  <2>6. vcycle \in 0..MaxVcycles
    BY <1>1, BoundsAssumption
  <2> QED
    BY <2>1, <2>2, <2>3, <2>4, <2>5, <2>6 DEF PlacesType
<1>4. Fresh
  BY <1>1, <1>2, <1>3 DEF Fresh
<1> QED
  BY <1>2, <1>3, <1>4, FreshWorks DEF SlotInv

LEMMA NextSlots ==
    SlotInv /\ [Next]_vars => SlotInv'
<1> SUFFICES ASSUME SlotInv, [Next]_vars PROVE SlotInv'
  OBVIOUS
<1>1. CASE UNCHANGED vars
  <2>1. /\ UNCHANGED params /\ pc' = pc /\ round' = round /\ vcycle' = vcycle
        /\ counter' = counter /\ skipper' = skipper /\ version' = version
        /\ dvh' = dvh /\ summed' = summed
    BY <1>1 DEF vars, atomics
  <2>2. /\ nstates' = nstates /\ active_threads' = active_threads
        /\ coalesce_factor' = coalesce_factor /\ dvh_skip' = dvh_skip
        /\ mpi_queue_mode' = mpi_queue_mode /\ block_rounds' = block_rounds
    BY <2>1 DEF params
  <2>3. Chosen' /\ PlacesType'
    BY <2>1, <2>2 DEF SlotInv, Chosen, PlacesType, Workers, Processes, Rounds, Stride, FullSlots
  <2>4. Over => Over'
    BY <2>1, <2>2 DEF Over, Workers, Processes, Rounds, Stride, ResetCounter
  <2>5. /\ Workers' = Workers /\ Processes' = Processes /\ FullSlots' = FullSlots
        /\ Share' = Share
        /\ \A p, k : First(p, k)' = First(p, k) /\ Own(p, k)' = Own(p, k)
        /\ \A k : SlotOf(k)' = SlotOf(k)
        /\ \A u, r : Orbital(u, r)' = Orbital(u, r)
        /\ \A u : State(u)' = State(u) /\ Slot(u)' = Slot(u) /\ (InSlot(u)' <=> InSlot(u))
    BY <2>1, SameParams
  <2>6. \A p : Through(p)' = Through(p)
    BY <2>1, <2>5 DEF Through
  <2>7. \A p, X : At(p, X)' <=> At(p, X)
    BY <2>1, <2>5 DEF At
  <2>8. \A p : Current(p)' = Current(p)
    BY <2>1, <2>7 DEF Current
  <2>9. InCurrent => InCurrent'
    BY <2>1, <2>5, <2>8 DEF InCurrent
  <2>10. LastEnds => LastEnds'
    <3>1. \A u : /\ First(u[1], Slot(u))' = First(u[1], Slot(u))
                 /\ Own(u[1], Slot(u))' = Own(u[1], Slot(u))
      BY <2>1, <2>2, <2>5 DEF First, Own
    <3> QED
      BY <2>1, <2>2, <2>5, <2>6, <3>1 DEF LastEnds
  <2>11. InTurn => InTurn'
    BY <2>5, <2>6, <2>8 DEF InTurn
  <2>12. Counted => Counted'
    <3>1. ASSUME NEW p \in Processes, CountsAt(p) PROVE CountsAt(p)'
      <4>1. /\ First(p, Current(p))' = First(p, Current(p))
            /\ Own(p, Current(p))' = Own(p, Current(p))
        BY <2>2, <2>5, <2>8 DEF First, Own
      <4> QED
        BY <2>1, <2>2, <2>5, <2>6, <2>7, <2>8, <3>1, <4>1 DEF CountsAt
    <3> QED
      BY <2>5, <3>1 DEF Counted
  <2>13. Summed => Summed'
    <3>1. ASSUME NEW p \in Processes, NEW k, SumsAt(p, k) PROVE SumsAt(p, k)'
      BY <2>1, <2>5, <2>6, <2>7, <2>8, <3>1 DEF SumsAt
    <3> QED
      BY <2>5, <3>1 DEF Summed
  <2>14. HaveAdded => HaveAdded'
    BY <2>1, <2>5 DEF HaveAdded
  <2>15. Working => Working'
    BY <2>9, <2>10, <2>11, <2>12, <2>13, <2>14 DEF Working
  <2> QED
    BY <2>3, <2>4, <2>15 DEF SlotInv
<1>2. CASE Inv /\ Next
  <2>1. CASE \E w \in Workers : Worker(w)
    BY <1>2, <2>1, WorkerStep DEF SlotInv, Inv
  <2>2. CASE NextVcycle
    BY <1>2, <2>2, NextVcycleStep
  <2>3. CASE Finished
    BY <1>1, <2>3 DEF Finished
  <2> QED
    BY <1>2, <2>1, <2>2, <2>3 DEF Next
\* Nothing moves any more.
<1>3. CASE Over /\ Next
  <2>1. ASSUME NEW w \in Workers, Worker(w) PROVE FALSE
    <3>1. pc[w] = "pick" /\ ~ (round[w] < Rounds)
      <4>1. Rounds \in Nat
        BY RoundIs, <2>1 DEF SlotInv
      <4> QED
        BY <1>3, <4>1 DEF Over
    <3> QED
      BY <2>1, <3>1 DEF Worker, Pick, Wait, Barrier, Compute, Add, CheckLast, Skip, Gather,
          PushSum, EndSum, Update, ResetSkipper, Advance
  <2>2. ~ NextVcycle
    BY <1>3, BoundsAssumption DEF Over, NextVcycle
  <2>3. CASE Finished
    BY <1>1, <2>3 DEF Finished
  <2> QED
    BY <1>3, <2>1, <2>2, <2>3 DEF Next
<1> QED
  BY <1>1, <1>2, <1>3 DEF SlotInv, Inv

LEMMA SlotsHold ==
    Spec => []SlotInv
BY InitSlots, NextSlots, PTL DEF Spec
-----------------------------------------------------------------------------
\* The atomics of a process: how high they get
LEMMA AtomicsAre ==
    ASSUME SlotInv, NEW p \in Processes
    PROVE  /\ skipper[p] \in Nat /\ skipper[p] <= Share - 1 /\ skipper[p] <= MaxStates
           /\ counter[p] \in Nat /\ counter[p] <= MaxStates + Stride + dvh_skip
<1>1. Chosen /\ PlacesType
  BY DEF SlotInv
<1>2. skipper[p] \in Nat /\ counter[p] \in Nat
  BY <1>1 DEF PlacesType
<1> DEFINE a == p * active_threads
           n == FullSlots * dvh_skip
           S == dvh_skip
<1>3. /\ Share \in Nat \ {0} /\ Share <= S /\ S \in Nat /\ Stride \in Nat
      /\ FullSlots \in Nat /\ n \in Nat /\ n <= nstates /\ nstates <= MaxStates
      /\ nstates \in Nat /\ MaxStates \in Nat
  BY <1>1, ShareIs, SlotsFit, ChosenTypes
<1>4. a \in Nat /\ a <= Stride
  <2>1. /\ active_threads \in Nat \ {0} /\ coalesce_factor \in Nat \ {0}
        /\ Stride = coalesce_factor * active_threads /\ p \in Nat /\ p < coalesce_factor
    BY <1>1, ChosenTypes
  <2>2. p * active_threads \in Nat /\ p * active_threads + active_threads <= Stride
    BY <2>1, Products
  <2> QED
    BY <1>3, <2>1, <2>2
<1>5. CASE Over
  <2>1. skipper[p] = 0 /\ counter[p] = a + Share
    BY <1>5 DEF Over, ResetCounter, Share
  <2> HIDE DEF a, n, S
  <2>2. counter[p] <= MaxStates + Stride + S
    BY <1>3, <1>4, <2>1
  <2> QED
    BY <1>2, <1>3, <2>1, <2>2 DEF S
<1>6. CASE Working
  <2>1. CountsAt(p)
    BY <1>6 DEF Working, Counted
  <2>2. CASE Current(p) < FullSlots
    <3> DEFINE k == Current(p)
               f == First(p, k)
               A == Own(p, k)
               B == A \cap Through(p)
               s == f + Share - 1
    <3>1. k \in 0..(FullSlots - 1)
      BY <1>1, <1>3, <1>6, <2>2, CurrentIsNat DEF Working
    <3>2. counter[p] = f + Share /\ (skipper[p] = 0 \/ skipper[p] = Cardinality(B))
      BY <2>1, <2>2 DEF CountsAt
    <3>3. s \in A /\ s \notin Through(p)
      BY <1>1, <1>6, <3>1, OwnIs DEF Working, InTurn
    <3>4. IsFiniteSet(A) /\ Cardinality(A) = Share
      BY <1>1, <3>1, OwnCount
    <3>5. Cardinality(B) <= Share - 1
      <4>1. B \in SUBSET (A \ {s})
        BY <3>3
      <4> HIDE DEF A, B, s
      <4>2. IsFiniteSet(A \ {s}) /\ Cardinality(A \ {s}) = Share - 1
        BY <3>3, <3>4, FS_RemoveElement
      <4> QED
        BY <4>1, <4>2, FS_Subset
    <3>6. f + Share <= n /\ S <= n /\ f \in Nat
      <4> DEFINE c == k * dvh_skip
      <4>1. f \in Nat /\ f + Share <= c + S /\ c + S <= n /\ c \in Nat
        BY <1>1, <3>1, OwnIs, SlotIs
      <4> HIDE DEF c, f, S, n
      <4> QED
        BY <1>3, <4>1
    <3> DEFINE x == skipper[p]
               y == counter[p]
    <3>7. x \in Nat /\ x <= Share - 1 /\ y = f + Share /\ y \in Nat
      BY <1>2, <1>3, <3>2, <3>5
    <3> HIDE DEF a, n, S, f, x, y
    <3>8. x <= MaxStates /\ y <= MaxStates + Stride + S
      BY <1>3, <3>6, <3>7
    <3> QED
      BY <3>7, <3>8 DEF x, y, S
  <2>3. CASE ~ (Current(p) < FullSlots)
    <3>1. skipper[p] = 0 /\ counter[p] <= n + a + Share
      BY <2>1, <2>3 DEF CountsAt
    <3> HIDE DEF a, n, S
    <3>2. counter[p] <= MaxStates + Stride + S
      BY <1>2, <1>3, <1>4, <3>1
    <3> QED
      BY <1>2, <1>3, <3>1, <3>2 DEF S
  <2> QED
    BY <2>2, <2>3
<1> QED
  BY <1>5, <1>6 DEF SlotInv

\* Every variable keeps its type, and the counts stay in the bounds of the model.
THEOREM SlotsTypeCorrect ==
    Spec => []TypeOK
<1>1. SlotInv => TypeOK
  <2> SUFFICES ASSUME SlotInv PROVE TypeOK
    OBVIOUS
  <2>1. Chosen /\ PlacesType
    BY DEF SlotInv
  <2>2. /\ FullSlots \in Nat /\ FullSlots <= MaxStates /\ MaxStates \in Nat
        /\ Stride \in Nat /\ dvh_skip \in Nat
    <3>1. FullSlots \in Nat /\ FullSlots <= nstates /\ nstates <= MaxStates
          /\ nstates \in Nat /\ MaxStates \in Nat /\ Stride \in Nat /\ dvh_skip \in Nat
      BY <2>1, SlotsFit, ChosenTypes
    <3> QED
      BY <3>1
  <2>3. counter \in [Processes -> 0..(2 * MaxStates + 2 * Stride + dvh_skip)]
    <3>1. ASSUME NEW p \in Processes
          PROVE  counter[p] \in 0..(2 * MaxStates + 2 * Stride + dvh_skip)
      <4>1. counter[p] \in Nat /\ counter[p] <= MaxStates + Stride + dvh_skip
        BY AtomicsAre
      <4> QED
        BY <2>2, <4>1
    <3> QED
      BY <2>1, <3>1 DEF PlacesType
  <2>4. skipper \in [Processes -> 0..MaxStates]
    <3>1. ASSUME NEW p \in Processes PROVE skipper[p] \in 0..MaxStates
      <4>1. skipper[p] \in Nat /\ skipper[p] <= MaxStates
        BY AtomicsAre
      <4> QED
        BY <2>2, <4>1
    <3> QED
      BY <2>1, <3>1 DEF PlacesType
  <2>5. version \in [Processes -> 0..MaxStates]
    <3>1. 0..FullSlots \subseteq 0..MaxStates
      BY <2>2
    <3> QED
      BY <2>1, <3>1 DEF PlacesType
  <2> QED
    BY <2>1, <2>3, <2>4, <2>5 DEF TypeOK, Chosen, PlacesType
<1> QED
  BY <1>1, SlotsHold, PTL

\* An orbital of a slot reads the potential with the updates of all slots before it and
\* no other, and nobody updates it meanwhile.
THEOREM SettledWhenRead ==
    Spec => []ReadsSettledPotential
<1>1. SlotInv => ReadsSettledPotential
  <2> SUFFICES ASSUME SlotInv, NEW w \in Workers, pc[w] = "compute", InSlot(w)
               PROVE  /\ version[w[1]] = Slot(w)
                      /\ \A u \in Workers : u[1] = w[1] => pc[u] # "update"
    BY DEF ReadsSettledPotential
  <2>1. Chosen /\ PlacesType /\ InCurrent /\ LastEnds
    BY DEF SlotInv, Over, Working
  <2>2. pc[w] \in Begun /\ pc[w] \notin Alone
    BY DEF Begun, Alone
  <2>3. ASSUME NEW u \in Workers, u[1] = w[1] PROVE pc[u] \notin Alone
    BY <2>1, <2>2, <2>3, AloneIs
  <2>4. ~ At(w[1], Updated)
    BY <2>3 DEF At, Updated, Alone
  <2>5. Slot(w) = Current(w[1])
    BY <2>1, <2>2 DEF InCurrent
  <2> QED
    BY <2>3, <2>4, <2>5 DEF Current, Alone
<1> QED
  BY <1>1, SlotsHold, PTL

\* The potential is updated with the parts of all orbitals of a slot, those of the other
\* processes included, and of no other.
THEOREM WholeSlotsUpdate ==
    Spec => []UpdatesAreComplete
<1>1. SlotInv => UpdatesAreComplete
  <2> SUFFICES ASSUME SlotInv, NEW w \in Workers, pc[w] = "update"
               PROVE  dvh[w[1]][Slot(w)] = SlotOf(Slot(w))
    BY DEF UpdatesAreComplete, SlotOf
  <2>1. Chosen /\ PlacesType /\ InCurrent /\ Summed
    BY DEF SlotInv, Over, Working
  <2>2. pc[w] \in Begun /\ pc[w] \notin {"barrier", "compute"}
    BY DEF Begun
  <2>3. Slot(w) = Current(w[1]) /\ Slot(w) \in 0..(FullSlots - 1) /\ w[1] \in Processes
    BY <2>1, <2>2, BegunIs
  <2>4. At(w[1], {"update"})
    BY DEF At
  <2> QED
    BY <2>1, <2>3, <2>4 DEF Summed, SumsAt
<1> QED
  BY <1>1, SlotsHold, PTL

\* The count of the orbitals that are not the last never gets past the number that the
\* last one of the slot compares it with.
THEOREM SkipperNeverPasses ==
    Spec => []SkipperIsExact
<1>1. SlotInv => SkipperIsExact
  BY AtomicsAre DEF SkipperIsExact, Share
<1> QED
  BY <1>1, SlotsHold, PTL
=============================================================================

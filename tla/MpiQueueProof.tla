--------------------------- MODULE MpiQueueProof ---------------------------
(***************************************************************************)
(* For every number of threads, receives, sends, regions and exchanges,    *)
(* and for every capacity of the queues: the manager writes to a flag or a *)
(* count only while the call that has them goes on, a call returns only    *)
(* when MPI is done with it, and the manager sleeps only when there is     *)
(* nothing to do.  In a program of trades and sums the queues of RMG are   *)
(* large enough that no request is lost.                                   *)
(***************************************************************************)
EXTENDS MpiQueue, SequenceTheorems, FiniteSetTheorems, TLAPS

\* A program makes trades or remaps, not both: remap_3d returns without waitgroup,
\* and the manager may then write to what is the count of a trade by that time.
KindsAreSeparate == \A K \in KindSets : ~ ({"trade", "remap"} \subseteq K)

\* As many places as there are requests
QueuesSuffice ==
    /\ NRecv + NSend <= max_size
    /\ max_threads * (NRecv + NSend) <= PostedSize

\* The program makes trades and sums only.  A trade has at most 26 receives and as many
\* sends (trade_imagesx, with edges and corners; GatherScatter has 16 of each).  remap_3d
\* has as many receives as partners, which nothing bounds.
TradesOnly ==
    /\ \A K \in KindSets : "remap" \notin K
    /\ NRecv <= 26 /\ NSend <= 26

\* The queues of RMG: InitIo.cpp:677 and MpiQueue.cpp:66
RmgQueues == max_size = 64 /\ PostedSize = 54 * max_threads

\* Two places hold the same request.
Same(x, y) == x.tid = y.tid /\ x.n = y.n

Distinct(q) == \A i, j \in DOMAIN q : Same(q[i], q[j]) => i = j

\* The requests that have been taken off the thread's count
Counted(t) == {m \in 1..(next[t] - 1) :
                  m \in is_completed[t] /\ ~ (mpc = "count" /\ qobj.tid = t /\ qobj.n = m)}

Total == NRecv + NSend
Last(k) == IF k = "sum" THEN 1 ELSE Total

\* What a thread has begun is where its steps have brought it.
Places ==
    \A t \in Threads :
        /\ InExchange(t) => kind[t] \in kinds
        /\ wpc[t] = "push" => next[t] <= Last(kind[t])
        /\ wpc[t] = "sent" => kind[t] = "remap" /\ next[t] > NRecv + 1
        /\ wpc[t] \in {"flags", "group"} => next[t] = Last(kind[t]) + 1
        /\ wpc[t] = "group" => kind[t] = "trade"

\* What main has said, and where everybody is then
Told ==
    /\ pc # "region" => \A t \in Threads : wpc[t] = "asleep"
    /\ (pc \in {"notify", "wake", "region", "bye", "done"}) => running
    /\ (pc \in {"notify", "wake", "region"}) => regions < MaxRegions
    /\ exitflag <=> pc \in {"exit", "bye", "done"}
    /\ mpc = "returned" => exitflag
    /\ \A t \in Threads :
          frame[t] <= regions * MaxExchanges + (IF pc = "region" THEN exchanges[t] ELSE 0)

\* The manager's own variables
Turn ==
    /\ qcount = Len(postedq)
    /\ mpc = "drain" => tid <= max_threads
    /\ mpc # "drain" /\ mpc # "full" => tid = 0
    /\ mpc \in {"test", "mark", "count"} => breakcount > 0
    /\ mpc \in {"mark", "count"} => qobj \in Item
    /\ mpc = "count" => qobj.type # "SUM"
    /\ mpc \in {"idle", "cvwait", "blocking", "blocked", "returned"} => postedq = << >>

QueueType == TypeOK /\ Places /\ Told /\ Turn

\* A request is one of the call that its thread is in.
Current(x) ==
    /\ InExchange(x.tid)
    /\ x.frame = frame[x.tid]
    /\ x.kind = kind[x.tid]
    /\ x.type = Type(x.kind, x.n)
    /\ x.n < next[x.tid]
    /\ x.n \notin is_completed[x.tid]

Waiting ==
    /\ \A t \in Threads : \A x \in Range(queue[t]) : x.tid = t /\ Current(x)
    /\ \A x \in Range(postedq) : Current(x)
    /\ mpc = "mark" => Current(qobj)

\* Each of them is in one place.
Once ==
    /\ Distinct(postedq)
    /\ \A t \in Threads :
          /\ Distinct(queue[t])
          /\ \A x \in Range(queue[t]), y \in Range(postedq) : ~ Same(x, y)
          /\ mpc = "mark" => \A x \in Range(queue[t]) : ~ Same(qobj, x)
    /\ mpc = "mark" => \A x \in Range(postedq) : ~ Same(qobj, x)

\* The count of a trade is that of the requests which have not been taken off it, and
\* remap_3d has waited for all its sends but the last.
Account(t) ==
    /\ InExchange(t) /\ kind[t] = "trade" =>
          group_count[t] = Total - Cardinality(Counted(t))
    /\ InExchange(t) /\ kind[t] = "remap" =>
          \A m \in (NRecv + 1)..(next[t] - 1) :
              m \in is_completed[t] \/ (wpc[t] = "sent" /\ m = next[t] - 1)

\* What the manager is about to take off a count: for a trade, the call goes on.
Deducting ==
    mpc = "count" =>
        /\ qobj.kind \in kinds
        /\ qobj.kind # "sum"
        /\ qobj.kind = "trade" =>
              /\ LiveFrame
              /\ kind[qobj.tid] = "trade"
              /\ qobj.n < next[qobj.tid]
              /\ qobj.n \in is_completed[qobj.tid]

Accounts == Deducting /\ \A t \in Threads : Account(t)

QueueInv == QueueType /\ Waiting /\ Once /\ Accounts

\* With large enough queues nothing is refused, and each request is somewhere.
NothingRefused ==
    /\ mpc # "full"
    /\ \A t \in Threads : InExchange(t) =>
          /\ Len(queue[t]) < next[t]
          /\ \A m \in 1..(next[t] - 1) :
                \/ m \in is_completed[t]
                \/ \E x \in Range(queue[t]) : x.n = m
                \/ \E x \in Range(postedq) : x.tid = t /\ x.n = m
                \/ mpc = "mark" /\ qobj.tid = t /\ qobj.n = m
-----------------------------------------------------------------------------
LEMMA Fields ==
    ASSUME NEW x \in Item
    PROVE  /\ x.tid \in Threads /\ x.n \in Numbers
           /\ x.frame \in 0..(MaxRegions * MaxExchanges)
           /\ x.kind \in {"trade", "sum", "remap"} /\ x.type \in {"SUM", "IRECV", "ISEND"}
           /\ x.done \in BOOLEAN
BY DEF Item

\* What is in a sequence that a request has been appended to
LEMMA Appended ==
    ASSUME NEW q \in Seq(Item), NEW x \in Item
    PROVE  /\ Append(q, x) \in Seq(Item) /\ Len(Append(q, x)) = Len(q) + 1
           /\ Range(Append(q, x)) = Range(q) \cup {x}
           /\ Distinct(q) /\ (\A y \in Range(q) : ~ Same(x, y)) => Distinct(Append(q, x))
<1> DEFINE k == Len(q)
           r == Append(q, x)
<1>1. /\ r \in Seq(Item) /\ Len(r) = k + 1
      /\ \A i \in 1..k : r[i] = q[i]
      /\ r[k + 1] = x
  BY AppendProperties
<1>2. k \in Nat /\ DOMAIN q = 1..k /\ DOMAIN r = 1..(k + 1)
  BY <1>1, LenProperties
<1> HIDE DEF k, r
<1>3. Range(r) = Range(q) \cup {x}
  <2>1. ASSUME NEW i \in 1..(k + 1) PROVE r[i] \in Range(q) \cup {x}
    <3>1. CASE i = k + 1
      BY <1>1, <3>1
    <3>2. CASE i \in 1..k
      BY <1>1, <1>2, <3>2 DEF Range
    <3> QED
      BY <1>2, <3>1, <3>2
  <2>2. ASSUME NEW i \in 1..k PROVE q[i] \in Range(r)
    <3>1. i \in 1..(k + 1)
      BY <1>2
    <3> QED
      BY <1>1, <1>2, <3>1 DEF Range
  <2>3. x \in Range(r)
    <3>1. k + 1 \in 1..(k + 1)
      BY <1>2
    <3> QED
      BY <1>1, <1>2, <3>1 DEF Range
  <2> QED
    BY <1>2, <2>1, <2>2, <2>3 DEF Range
<1>4. ASSUME Distinct(q), \A y \in Range(q) : ~ Same(x, y)
      PROVE  Distinct(r)
  <2>1. \A i \in 1..k : ~ Same(x, q[i]) /\ ~ Same(q[i], x)
    BY <1>2, <1>4 DEF Range, Same
  <2>2. SUFFICES ASSUME NEW i \in 1..(k + 1), NEW j \in 1..(k + 1), Same(r[i], r[j])
                 PROVE  i = j
    BY <1>2 DEF Distinct
  <2>3. CASE i \in 1..k /\ j \in 1..k
    BY <1>1, <1>2, <1>4, <2>2, <2>3 DEF Distinct
  <2>4. CASE i = k + 1 /\ j \in 1..k
    BY <1>1, <2>1, <2>2, <2>4
  <2>5. CASE i \in 1..k /\ j = k + 1
    BY <1>1, <2>1, <2>2, <2>5
  <2>6. (i \in 1..k \/ i = k + 1) /\ (j \in 1..k \/ j = k + 1)
    BY <1>2
  <2> QED
    BY <2>3, <2>4, <2>5, <2>6
<1> QED
  BY <1>1, <1>3, <1>4 DEF k, r

\* What is left of a sequence that its head has been taken off
LEMMA Popped ==
    ASSUME NEW q \in Seq(Item), q # << >>
    PROVE  /\ Head(q) \in Item /\ Head(q) \in Range(q)
           /\ Tail(q) \in Seq(Item) /\ Len(Tail(q)) = Len(q) - 1
           /\ Range(q) = Range(Tail(q)) \cup {Head(q)}
           /\ Distinct(q) => /\ Distinct(Tail(q))
                             /\ \A y \in Range(Tail(q)) : ~ Same(Head(q), y)
<1> DEFINE k == Len(q)
           r == Tail(q)
           h == Head(q)
<1>1. /\ h \in Item /\ r \in Seq(Item) /\ Len(r) = k - 1
      /\ \A i \in 1..(k - 1) : r[i] = q[i + 1]
  BY HeadTailProperties
<1>2. k \in Nat \ {0} /\ DOMAIN q = 1..k
  BY LenProperties, EmptySeq
<1>3. DOMAIN r = 1..(k - 1)
  BY <1>1, LenProperties
<1>4. h = q[1]
  OBVIOUS
<1> HIDE DEF k, r, h
<1>5. 1 \in 1..k
  BY <1>2
<1>6. \A i \in 1..(k - 1) : i + 1 \in 1..k
  BY <1>2
<1>7. h \in Range(q)
  BY <1>2, <1>4, <1>5 DEF Range
<1>8. Range(q) = Range(r) \cup {h}
  <2>1. ASSUME NEW i \in 1..k PROVE q[i] \in Range(r) \cup {h}
    <3>1. CASE i = 1
      BY <1>4, <3>1
    <3>2. CASE i # 1
      <4>1. i - 1 \in 1..(k - 1) /\ (i - 1) + 1 = i
        BY <1>2, <3>2
      <4>2. r[i - 1] = q[i]
        BY <1>1, <4>1
      <4> QED
        BY <1>3, <4>1, <4>2 DEF Range
    <3> QED
      BY <3>1, <3>2
  <2>2. ASSUME NEW i \in 1..(k - 1) PROVE r[i] \in Range(q)
    BY <1>1, <1>2, <1>6 DEF Range
  <2> QED
    BY <1>2, <1>3, <1>7, <2>1, <2>2 DEF Range
<1>9. ASSUME Distinct(q)
      PROVE  Distinct(r) /\ \A y \in Range(r) : ~ Same(h, y)
  <2>1. ASSUME NEW i \in 1..(k - 1), NEW j \in 1..(k - 1), Same(r[i], r[j])
        PROVE  i = j
    <3>1. i + 1 = j + 1
      BY <1>1, <1>2, <1>6, <1>9, <2>1 DEF Distinct
    <3> QED
      BY <1>2, <3>1
  <2>2. ASSUME NEW i \in 1..(k - 1), Same(h, r[i])
        PROVE  FALSE
    <3>1. Same(q[1], q[i + 1])
      BY <1>1, <1>4, <2>2
    <3>2. i + 1 = 1
      BY <1>2, <1>5, <1>6, <1>9, <3>1 DEF Distinct
    <3> QED
      BY <1>2, <3>2
  <2> QED
    BY <1>3, <2>1, <2>2 DEF Distinct, Range
<1> QED
  BY <1>1, <1>7, <1>8, <1>9 DEF k, r, h

\* A request that is found incomplete goes to the end.
LEMMA Rotated ==
    ASSUME NEW q \in Seq(Item), q # << >>
    PROVE  LET r == Append(Tail(q), Head(q))
           IN  /\ r \in Seq(Item) /\ Len(r) = Len(q) /\ Range(r) = Range(q)
               /\ Distinct(q) => Distinct(r)
<1>1. /\ Tail(q) \in Seq(Item) /\ Head(q) \in Item
      /\ Len(Tail(q)) = Len(q) - 1 /\ Range(q) = Range(Tail(q)) \cup {Head(q)}
      /\ Distinct(q) => /\ Distinct(Tail(q))
                        /\ \A y \in Range(Tail(q)) : ~ Same(Head(q), y)
  BY Popped
<1>2. /\ Append(Tail(q), Head(q)) \in Seq(Item)
      /\ Len(Append(Tail(q), Head(q))) = Len(Tail(q)) + 1
      /\ Range(Append(Tail(q), Head(q))) = Range(Tail(q)) \cup {Head(q)}
      /\ Distinct(Tail(q)) /\ (\A y \in Range(Tail(q)) : ~ Same(Head(q), y))
            => Distinct(Append(Tail(q), Head(q)))
  BY <1>1, Appended
<1>3. Len(q) \in Nat
  BY LenProperties
<1> DEFINE r == Append(Tail(q), Head(q))
<1>4. Len(r) = Len(q)
  BY <1>1, <1>2, <1>3
<1>5. Distinct(q) => Distinct(r)
  BY <1>1, <1>2
<1> QED
  BY <1>1, <1>2, <1>4, <1>5

\* MPI's completion of one of them changes nothing else.
Alike(x, y) == /\ x.tid = y.tid /\ x.n = y.n /\ x.frame = y.frame
               /\ x.kind = y.kind /\ x.type = y.type

LEMMA Completed ==
    ASSUME NEW q \in Seq(Item), NEW i \in DOMAIN q
    PROVE  LET r == [q EXCEPT ![i].done = TRUE]
           IN  /\ r \in Seq(Item) /\ Len(r) = Len(q)
               /\ \A x \in Range(r) : \E y \in Range(q) : Alike(x, y)
               /\ \A y \in Range(q) : \E x \in Range(r) : Alike(x, y)
               /\ Distinct(q) => Distinct(r)
<1> DEFINE k == Len(q)
           e == [q[i] EXCEPT !.done = TRUE]
           r == [q EXCEPT ![i] = e]
<1>1. k \in Nat /\ DOMAIN q = 1..k /\ q \in [1..k -> Item]
  BY LenProperties
<1>2. q[i] \in Item
  BY <1>1
<1>3. e \in Item /\ Alike(e, q[i])
  BY <1>2 DEF Item, Alike
<1>4. [q EXCEPT ![i].done = TRUE] = r
  OBVIOUS
<1> HIDE DEF e
<1>5. r \in Seq(Item) /\ Len(r) = k /\ \A j \in 1..k : r[j] = IF j = i THEN e ELSE q[j]
  BY <1>1, <1>3, ExceptSeq
<1>6. DOMAIN r = 1..k
  BY <1>1
<1> HIDE DEF k, r
<1>7. \A j \in 1..k : Alike(r[j], q[j])
  BY <1>3, <1>5 DEF Alike
<1>8. \A x \in Range(r) : \E y \in Range(q) : Alike(x, y)
  BY <1>1, <1>6, <1>7 DEF Range
<1>9. \A y \in Range(q) : \E x \in Range(r) : Alike(x, y)
  BY <1>1, <1>6, <1>7 DEF Range
<1>10. Distinct(q) => Distinct(r)
  BY <1>1, <1>6, <1>7 DEF Distinct, Alike, Same
<1> QED
  BY <1>4, <1>5, <1>8, <1>9, <1>10 DEF k
-----------------------------------------------------------------------------
\* The counts as the natural numbers they are
LEMMA Counts ==
    /\ max_threads \in Nat \ {0} /\ NRecv \in Nat \ {0} /\ NSend \in Nat \ {0}
    /\ Total \in Nat /\ Total = NRecv + NSend /\ Numbers = 1..Total /\ Total > 1
    /\ MaxRegions \in Nat /\ MaxExchanges \in Nat
    /\ \A k : Last(k) = (IF k = "sum" THEN 1 ELSE Total) /\ Requests(k) = 1..Last(k)
<1>1. /\ max_threads \in Nat \ {0} /\ NRecv \in Nat \ {0} /\ NSend \in Nat \ {0}
      /\ MaxRegions \in Nat /\ MaxExchanges \in Nat
  BY CountsAssumption
<1>2. Total \in Nat /\ Total = NRecv + NSend /\ Total > 1
  BY <1>1 DEF Total
<1>3. Numbers = 1..Total
  BY DEF Numbers, Total
<1>4. \A k : Last(k) = (IF k = "sum" THEN 1 ELSE Total) /\ Requests(k) = 1..Last(k)
  BY <1>3 DEF Last, Requests
<1> QED
  BY <1>1, <1>2, <1>3, <1>4

LEMMA KindsAre ==
    ASSUME kinds \in KindSets, NEW k \in kinds
    PROVE  k \in {"trade", "sum", "remap"}
BY KindsAssumption

\* No call of a region is one too many for the frames.
LEMMA FramesSuffice ==
    ASSUME NEW r \in Nat, r < MaxRegions, NEW e \in Nat, e <= MaxExchanges
    PROVE  r * MaxExchanges + e <= (r + 1) * MaxExchanges
           /\ r * MaxExchanges + e <= MaxRegions * MaxExchanges
           /\ r * MaxExchanges \in Nat
<1> DEFINE M == MaxExchanges
<1>1. M \in Nat /\ MaxRegions \in Nat
  BY Counts
<1>2. PICK d \in Nat : MaxRegions = r + 1 + d
  <2>1. MaxRegions - r - 1 \in Nat /\ MaxRegions = r + 1 + (MaxRegions - r - 1)
    BY <1>1
  <2> QED
    BY <2>1
<1>3. (r + 1) * M = r * M + M
  BY <1>1
<1>4. MaxRegions * M = r * M + M + d * M
  BY <1>1, <1>2
<1>5. d * M \in Nat /\ r * M \in Nat
  BY <1>1
<1> QED
  BY <1>1, <1>3, <1>4, <1>5

LEMMA BeginTypes ==
    ASSUME QueueType, NEW t \in Threads, Begin(t)
    PROVE  QueueType'
<1> DEFINE R == regions * MaxExchanges
           P == MaxRegions * MaxExchanges
           f == frame[t]
           e == exchanges[t]
<1>1. pc = "region" /\ regions < MaxRegions /\ wpc[t] = "task"
  BY DEF QueueType, TypeOK, Told, Begin
<1>2. f \in Nat /\ e \in Nat /\ e + 1 <= MaxExchanges /\ f <= R + e
  BY <1>1, Counts DEF QueueType, TypeOK, Told, Begin
<1>3. R + (e + 1) <= P /\ R \in Nat
  <2>1. regions \in Nat /\ e + 1 \in Nat
    BY <1>2 DEF QueueType, TypeOK
  <2> QED
    BY <1>1, <1>2, <2>1, FramesSuffice
<1>4. P \in Nat
  BY Counts
<1> HIDE DEF R, P, f, e
<1>5. f + 1 \in 0..P /\ f + 1 <= R + (e + 1) /\ e + 1 \in 0..MaxExchanges
  BY <1>2, <1>3, <1>4, Counts
<1>6. PICK k \in kinds :
          /\ kind' = [kind EXCEPT ![t] = k]
          /\ group_count' = IF k = "sum" THEN group_count
                            ELSE [group_count EXCEPT ![t] = NRecv + NSend]
  BY DEF Begin
<1>7. k \in {"trade", "sum", "remap"}
  BY KindsAre DEF QueueType, TypeOK
<1>8. TypeOK'
  <2>1. frame' \in [Threads -> 0..P] /\ exchanges' \in [Threads -> 0..MaxExchanges]
    BY <1>5 DEF QueueType, TypeOK, Begin, f, e, P
  <2>2. kind' \in [Threads -> {"trade", "sum", "remap"}]
    BY <1>6, <1>7 DEF QueueType, TypeOK
  <2>3. group_count' \in [Threads -> Int]
    BY <1>6, Counts DEF QueueType, TypeOK
  <2>4. wpc' \in [Threads -> {"asleep", "task", "push", "sent", "flags", "group"}]
    BY DEF QueueType, TypeOK, Begin
  <2>5. next' \in [Threads -> 1..(NRecv + NSend + 1)]
    BY Counts DEF QueueType, TypeOK, Begin
  <2> QED
    BY <2>1, <2>2, <2>3, <2>4, <2>5 DEF QueueType, TypeOK, Begin, managerVars, mainVars, P
<1>9. Places'
  BY <1>6, Counts DEF QueueType, TypeOK, Places, Begin, InExchange
<1>10. Told'
  <2>1. \A u \in Threads : frame'[u] <= R + exchanges'[u]
    BY <1>1, <1>2, <1>5 DEF QueueType, TypeOK, Told, Begin, R, f, e
  <2> QED
    BY <1>1, <2>1 DEF QueueType, TypeOK, Told, Begin, managerVars, mainVars, R
<1>11. Turn'
  BY DEF QueueType, Turn, Begin, managerVars
<1> QED
  BY <1>8, <1>9, <1>10, <1>11 DEF QueueType

LEMMA PushTypes ==
    ASSUME QueueType, NEW t \in Threads, Push(t)
    PROVE  QueueType'
<1> DEFINE m == next[t]
           x == [tid |-> t, n |-> m, frame |-> frame[t], kind |-> kind[t],
                 type |-> Type(kind[t], m), done |-> FALSE]
<1>1. wpc[t] = "push" /\ m <= Last(kind[t]) /\ m \in 1..Total
  <2>1. wpc[t] = "push" /\ m <= Last(kind[t])
    BY DEF QueueType, Places, Push
  <2>2. m \in Nat \ {0}
    BY Counts DEF QueueType, TypeOK
  <2>3. Last(kind[t]) <= Total /\ Last(kind[t]) \in Nat
    BY Counts
  <2> QED
    BY <2>1, <2>2, <2>3, Counts
<1>2. x \in Item
  BY <1>1, Counts DEF QueueType, TypeOK, Item, Type
<1>3. kind[t] \in {"trade", "sum", "remap"}
  BY DEF QueueType, TypeOK
<1> HIDE DEF m, x
<1>4. /\ queue' = [queue EXCEPT ![t] = Pushed(@, x)]
      /\ next' = [next EXCEPT ![t] = m + 1]
      /\ is_completed' = [is_completed EXCEPT ![t] = @ \ {m}]
      /\ wpc' = [wpc EXCEPT ![t] =
              IF kind[t] = "remap" /\ Type(kind[t], m) = "ISEND" THEN "sent"
              ELSE IF m + 1 \in Requests(kind[t]) THEN "push" ELSE "flags"]
  BY DEF Push, m, x
<1>5. TypeOK'
  <2>1. queue[t] \in Seq(Item)
    BY DEF QueueType, TypeOK
  <2>2. Pushed(queue[t], x) \in Seq(Item)
    BY <1>2, <2>1, Appended DEF Pushed
  <2>3. queue' \in [Threads -> Seq(Item)]
    BY <1>4, <2>2 DEF QueueType, TypeOK
  <2>4. m + 1 \in 1..(NRecv + NSend + 1)
    BY <1>1, Counts
  <2>5. next' \in [Threads -> 1..(NRecv + NSend + 1)]
    BY <1>4, <2>4 DEF QueueType, TypeOK
  <2>6. wpc' \in [Threads -> {"asleep", "task", "push", "sent", "flags", "group"}]
    BY <1>4 DEF QueueType, TypeOK
  <2>7. is_completed' \in [Threads -> SUBSET Numbers]
    BY <1>4 DEF QueueType, TypeOK
  <2> QED
    BY <2>3, <2>5, <2>6, <2>7 DEF QueueType, TypeOK, Push, managerVars, mainVars
<1>6. Places'
  <2>1. ASSUME NEW u \in Threads, u # t
        PROVE  wpc'[u] = wpc[u] /\ next'[u] = next[u] /\ kind'[u] = kind[u]
    BY <1>4, <2>1 DEF QueueType, TypeOK, Push
  <2>2. /\ next'[t] = m + 1 /\ kind'[t] = kind[t] /\ kinds' = kinds
        /\ wpc'[t] = IF kind[t] = "remap" /\ Type(kind[t], m) = "ISEND" THEN "sent"
                     ELSE IF m + 1 \in Requests(kind[t]) THEN "push" ELSE "flags"
    BY <1>4 DEF QueueType, TypeOK, Push
  <2>3. Type(kind[t], m) = "ISEND" => m > NRecv
    BY <1>1, Counts DEF Type
  <2>4. kind[t] = "remap" /\ Type(kind[t], m) # "ISEND" => m <= NRecv
    BY <1>1, Counts DEF Type
  <2>5. kind[t] \in kinds
    BY <1>1 DEF QueueType, Places, InExchange
  <2>6. m + 1 \in Requests(kind[t]) <=> m + 1 <= Last(kind[t])
    BY <1>1, Counts
  <2>7. wpc'[t] = "push" => next'[t] <= Last(kind[t])
    BY <2>2, <2>6
  <2>8. wpc'[t] = "sent" => kind[t] = "remap" /\ next'[t] > NRecv + 1
    BY <1>1, <2>2, <2>3, Counts
  <2>9. wpc'[t] = "flags" => next'[t] = Last(kind[t]) + 1
    BY <1>1, <2>2, <2>6, Counts
  <2>10. wpc'[t] \notin {"group"}
    BY <2>2
  <2> QED
    BY <2>1, <2>2, <2>5, <2>7, <2>8, <2>9, <2>10 DEF QueueType, Places, InExchange
<1>7. Told'
  BY <1>1 DEF QueueType, TypeOK, Told, Push, managerVars, mainVars
<1>8. Turn'
  BY DEF QueueType, Turn, Push, managerVars
<1> QED
  BY <1>5, <1>6, <1>7, <1>8 DEF QueueType

\* The other steps of a thread only take it further.
LEMMA FurtherTypes ==
    ASSUME QueueType, NEW t \in Threads,
           AwaitSend(t) \/ AwaitFlags(t) \/ AwaitGroup(t) \/ Sleep(t)
    PROVE  QueueType'
<1>1. NoEffect /\ \E w \in {"asleep", "task", "push", "sent", "flags", "group"} :
                     wpc' = [wpc EXCEPT ![t] = w]
  BY DEF AwaitSend, AwaitFlags, AwaitGroup, Sleep
<1>2. TypeOK'
  <2>1. wpc' \in [Threads -> {"asleep", "task", "push", "sent", "flags", "group"}]
    BY <1>1 DEF QueueType, TypeOK
  <2> QED
    BY <1>1, <2>1 DEF QueueType, TypeOK, NoEffect, managerVars, mainVars
<1>3. Places'
  <2> USE DEF QueueType, Places, InExchange, TypeOK, NoEffect
  <2>1. CASE AwaitSend(t)
    <3>1. /\ kind[t] = "remap" /\ next[t] \in 1..(Total + 1)
          /\ wpc' = [wpc EXCEPT ![t] = IF next[t] \in Numbers THEN "push" ELSE "flags"]
      BY <2>1, Counts DEF AwaitSend
    <3>2. Last(kind[t]) = Total /\ Numbers = 1..Total /\ Total \in Nat
      BY <3>1, Counts
    <3>3. /\ next[t] \in Numbers => next[t] <= Last(kind[t])
          /\ next[t] \notin Numbers => next[t] = Last(kind[t]) + 1
      BY <3>1, <3>2
    <3> QED
      BY <1>1, <2>1, <3>1, <3>3 DEF AwaitSend
  <2>2. CASE AwaitFlags(t)
    BY <1>1, <2>2, Counts DEF AwaitFlags
  <2>3. CASE AwaitGroup(t)
    BY <1>1, <2>3 DEF AwaitGroup
  <2>4. CASE Sleep(t)
    BY <1>1, <2>4 DEF Sleep
  <2> QED
    BY <2>1, <2>2, <2>3, <2>4
<1>4. Told'
  <2>1. wpc[t] # "asleep"
    BY DEF AwaitSend, AwaitFlags, AwaitGroup, Sleep
  <2>2. pc = "region"
    BY <2>1 DEF QueueType, Told
  <2> QED
    BY <1>1, <2>2 DEF QueueType, Told, NoEffect, managerVars, mainVars
<1>5. Turn'
  BY <1>1 DEF QueueType, Turn, NoEffect, managerVars
<1> QED
  BY <1>2, <1>3, <1>4, <1>5 DEF QueueType

LEMMA PostTypes ==
    ASSUME QueueType, Post
    PROVE  QueueType'
<1> DEFINE q == queue[tid]
           x == Head(queue[tid])
<1>1. tid \in Threads /\ q \in Seq(Item) /\ q # << >>
  BY Counts DEF QueueType, TypeOK, Threads, Post
<1>2. x \in Item /\ Tail(q) \in Seq(Item)
  BY <1>1, Popped
<1>3. postedq \in Seq(Item) /\ Len(postedq) \in Nat
  BY LenProperties DEF QueueType, TypeOK
<1>4. /\ Append(postedq, x) \in Seq(Item)
      /\ Len(Append(postedq, x)) = Len(postedq) + 1
  BY <1>2, <1>3, Appended
<1>5. queue' = [queue EXCEPT ![tid] = Tail(q)] /\ tid < max_threads
  BY DEF Post
<1>6. \/ postedq' = Append(postedq, x) /\ qcount' = qcount + 1 /\ mpc' = "drain"
      \/ postedq' = postedq /\ qcount' = qcount /\ mpc' = "full"
  BY DEF Post
<1>7. queue' \in [Threads -> Seq(Item)]
  BY <1>1, <1>2, <1>5 DEF QueueType, TypeOK
<1>8. postedq' \in Seq(Item) /\ qcount' = Len(postedq') /\ qcount' \in Nat
  BY <1>3, <1>4, <1>6 DEF QueueType, Turn
<1>9. TypeOK'
  BY <1>6, <1>7, <1>8 DEF QueueType, TypeOK, Post, threadSide, workerVars, mainVars
<1>10. Places' /\ Told'
  BY <1>6 DEF QueueType, Places, Told, InExchange, Post, threadSide, workerVars, mainVars
<1>11. Turn'
  BY <1>1, <1>5, <1>6, <1>8 DEF QueueType, TypeOK, Turn, Post
<1> QED
  BY <1>9, <1>10, <1>11 DEF QueueType

LEMMA DrainTypes ==
    ASSUME QueueType, NextQueue \/ EndDrain
    PROVE  QueueType'
<1>1. TypeOK'
  <2>1. tid' \in 0..max_threads /\ breakcount' \in 0..max_threads
    BY Counts DEF QueueType, TypeOK, NextQueue, EndDrain
  <2> QED
    BY <2>1 DEF QueueType, TypeOK, NextQueue, EndDrain, threadSide, workerVars, mainVars
<1>2. Places' /\ Told'
  BY DEF QueueType, Places, Told, InExchange, NextQueue, EndDrain, threadSide,
         workerVars, mainVars
<1>3. Turn'
  BY Counts DEF QueueType, TypeOK, Turn, NextQueue, EndDrain
<1> QED
  BY <1>1, <1>2, <1>3 DEF QueueType

LEMMA RetestTypes ==
    ASSUME QueueType, Retest
    PROVE  QueueType'
<1>1. postedq \in Seq(Item) /\ postedq # << >>
  BY DEF QueueType, TypeOK, Retest
<1>2. postedq' \in Seq(Item) /\ Len(postedq') = Len(postedq)
  BY <1>1, Rotated DEF Retest
<1>3. /\ breakcount' \in 0..max_threads
      /\ mpc' = "test" => breakcount' > 0
      /\ mpc' \in {"after", "test"}
  BY Counts DEF QueueType, TypeOK, Turn, Retest
<1>4. TypeOK'
  BY <1>2, <1>3 DEF QueueType, TypeOK, Retest, threadSide, workerVars, mainVars
<1>5. Places' /\ Told'
  BY <1>3 DEF QueueType, Places, Told, InExchange, Retest, threadSide, workerVars, mainVars
<1>6. Turn'
  BY <1>2, <1>3 DEF QueueType, Turn, Retest
<1> QED
  BY <1>4, <1>5, <1>6 DEF QueueType

LEMMA TestDoneTypes ==
    ASSUME QueueType, TestDone
    PROVE  QueueType'
<1>1. postedq \in Seq(Item) /\ postedq # << >>
  BY DEF QueueType, TypeOK, TestDone
<1>2. /\ postedq' \in Seq(Item) /\ Len(postedq') = Len(postedq) - 1
      /\ qobj' \in Item
  BY <1>1, Popped DEF TestDone
<1>3. Len(postedq') \in Nat
  BY <1>2, LenProperties
<1>4. qcount' = Len(postedq') /\ qcount' \in Nat /\ mpc' = "mark"
  BY <1>2, <1>3 DEF QueueType, Turn, TestDone
<1>5. TypeOK'
  BY <1>2, <1>4 DEF QueueType, TypeOK, TestDone, threadSide, workerVars, mainVars
<1>6. Places' /\ Told'
  BY <1>4 DEF QueueType, Places, Told, InExchange, TestDone, threadSide, workerVars, mainVars
<1>7. Turn'
  BY <1>2, <1>4 DEF QueueType, Turn, TestDone
<1> QED
  BY <1>5, <1>6, <1>7 DEF QueueType

LEMMA MarkTypes ==
    ASSUME QueueType, Mark \/ Count
    PROVE  QueueType'
<1>1. qobj \in Item /\ qobj.tid \in Threads /\ qobj.n \in Numbers
  BY Fields DEF QueueType, Turn, Mark, Count
<1>2. qobj.type \in {"SUM", "IRECV", "ISEND"}
  BY <1>1, Fields
<1>3. /\ mpc' \in {"after", "test", "count"}
      /\ mpc' = "count" => qobj' = qobj /\ qobj.type # "SUM"
      /\ qobj' \in {qobj, << >>}
  BY DEF Mark, Count
<1>4. is_completed' \in [Threads -> SUBSET Numbers]
  <2>1. \/ is_completed' = is_completed
        \/ is_completed' = [is_completed EXCEPT ![qobj.tid] = @ \cup {qobj.n}]
    BY DEF Mark, Count
  <2>2. is_completed \in [Threads -> SUBSET Numbers]
    BY DEF QueueType, TypeOK
  <2> QED
    BY <1>1, <2>1, <2>2
<1>5. group_count' \in [Threads -> Int]
  <2>1. \/ group_count' = group_count
        \/ group_count' = [group_count EXCEPT ![qobj.tid] = @ - 1]
    BY DEF Mark, Count
  <2>2. group_count \in [Threads -> Int]
    BY DEF QueueType, TypeOK
  <2> QED
    BY <1>1, <2>1, <2>2
<1>6. TypeOK'
  <2>1. qobj' \in Item \cup {<< >>}
    BY <1>1, <1>3
  <2>2. UNCHANGED <<queue, running, exitflag, tid, postedq, qcount, breakcount, threadSide>>
    BY DEF Mark, Count
  <2> QED
    BY <1>3, <1>4, <1>5, <2>1, <2>2 DEF QueueType, TypeOK, threadSide, workerVars, mainVars
<1>7. Places' /\ Told'
  BY <1>3 DEF QueueType, Places, Told, InExchange, Mark, Count, threadSide, workerVars,
              mainVars
<1>8. Turn'
  BY <1>1, <1>2, <1>3 DEF QueueType, Turn, Mark, Count
<1> QED
  BY <1>6, <1>7, <1>8 DEF QueueType

LEMMA RestTypes ==
    ASSUME QueueType, NothingPosted \/ AfterTests \/ CheckExit \/ Predicate \/ Block
    PROVE  QueueType'
<1> USE DEF NothingPosted, AfterTests, CheckExit, Predicate, Block
<1>1. NoManagerEffect
  OBVIOUS
<1>2. mpc' \in {"drain", "after", "idle", "cvwait", "blocking", "blocked", "returned"}
  OBVIOUS
<1>3. TypeOK'
  BY <1>1, <1>2 DEF QueueType, TypeOK, NoManagerEffect, threadSide, workerVars, mainVars
<1>4. Places'
  BY <1>1 DEF QueueType, Places, InExchange, NoManagerEffect, threadSide, workerVars, mainVars
<1>5. Told'
  <2>1. mpc' = "returned" => exitflag
    BY <1>2 DEF QueueType, Told
  <2> QED
    BY <1>1, <2>1 DEF QueueType, Told, NoManagerEffect, threadSide, workerVars, mainVars
<1>6. Turn'
  <2>1. mpc' = "drain" => tid' <= max_threads
    BY <1>1, Counts DEF QueueType, TypeOK, NoManagerEffect
  <2>2. tid' = 0
    BY <1>1 DEF QueueType, Turn, NoManagerEffect
  <2>3. (mpc' \in {"idle", "cvwait", "blocking", "blocked", "returned"}) => postedq = << >>
    <3>1. CASE AfterTests
      <4>1. mpc' = "idle" => Len(postedq) = 0
        BY <3>1 DEF QueueType, Turn
      <4>2. Len(postedq) = 0 => postedq = << >>
        BY EmptySeq DEF QueueType, TypeOK
      <4> QED
        BY <3>1, <4>1, <4>2
    <3>2. CASE NothingPosted \/ CheckExit \/ Predicate \/ Block
      BY <3>2 DEF QueueType, Turn
    <3> QED
      BY <3>1, <3>2
  <2>4. postedq' = postedq /\ qcount' = qcount
    BY <1>1 DEF NoManagerEffect
  <2> QED
    BY <1>2, <2>1, <2>2, <2>3, <2>4 DEF QueueType, Turn
<1> QED
  BY <1>3, <1>4, <1>5, <1>6 DEF QueueType

LEMMA CompleteTypes ==
    ASSUME QueueType, NEW t \in Threads, NEW m \in Numbers, Complete(t, m)
    PROVE  QueueType'
<1>1. PICK i \in DOMAIN postedq : postedq' = [postedq EXCEPT ![i].done = TRUE]
  BY DEF Complete
<1>2. postedq' \in Seq(Item) /\ Len(postedq') = Len(postedq)
  BY <1>1, Completed DEF QueueType, TypeOK
<1>3. postedq = << >> => postedq' = << >>
  BY <1>1
<1>4. TypeOK'
  BY <1>2 DEF QueueType, TypeOK, Complete, threadSide, workerVars, mainVars
<1>5. Places' /\ Told'
  BY DEF QueueType, Places, Told, InExchange, Complete, threadSide, workerVars, mainVars
<1>6. Turn'
  BY <1>2, <1>3 DEF QueueType, Turn, Complete
<1> QED
  BY <1>4, <1>5, <1>6 DEF QueueType

\* Main's steps, of which WakeThreads starts the threads and StopManager finds them
\* all asleep
LEMMA MainTypes ==
    ASSUME QueueType, Main
    PROVE  QueueType'
<1>1. \A t \in Threads : wpc[t] = "asleep"
  BY DEF QueueType, Told, Main, RunManager, NotifyManager, WakeThreads, StopManager,
         SetExitflag, RunManagerToExit, NotifyManagerToExit
<1>2. /\ mpc' \in {mpc, "cvwait"} /\ (mpc' # mpc => mpc = "blocked")
      /\ UNCHANGED <<queue, is_completed, group_count, kinds, kind, next, frame, tid, qobj,
                     postedq, qcount, breakcount>>
  BY DEF Main, RunManager, NotifyManager, WakeThreads, StopManager, SetExitflag,
         RunManagerToExit, NotifyManagerToExit, Notified, workerVars, managerVars, managerButPc
<1>3. /\ running' \in BOOLEAN /\ exitflag' \in BOOLEAN
      /\ pc' \in {"serial", "notify", "wake", "region", "exit", "bye", "done"}
  BY DEF QueueType, TypeOK, Main, RunManager, NotifyManager, WakeThreads, StopManager,
         SetExitflag, RunManagerToExit, NotifyManagerToExit
<1>4. /\ wpc' \in {wpc, [t \in Threads |-> "task"]}
      /\ exchanges' \in {exchanges, [t \in Threads |-> 0]}
  BY DEF Main, RunManager, NotifyManager, WakeThreads, StopManager, SetExitflag,
         RunManagerToExit, NotifyManagerToExit, workerVars
<1>5. regions' \in 0..MaxRegions
  BY Counts DEF QueueType, TypeOK, Told, Main, RunManager, NotifyManager, WakeThreads,
         StopManager, SetExitflag, RunManagerToExit, NotifyManagerToExit
<1>6. TypeOK'
  <2>1. wpc' \in [Threads -> {"asleep", "task", "push", "sent", "flags", "group"}]
    BY <1>4 DEF QueueType, TypeOK
  <2>2. exchanges' \in [Threads -> 0..MaxExchanges]
    <3>1. exchanges \in [Threads -> 0..MaxExchanges] /\ 0 \in 0..MaxExchanges
      BY Counts DEF QueueType, TypeOK
    <3>2. [t \in Threads |-> 0] \in [Threads -> 0..MaxExchanges]
      BY <3>1
    <3> QED
      BY <1>4, <3>1, <3>2, Zenon
  <2>3. mpc' \in {"drain", "test", "mark", "count", "after", "idle", "cvwait",
                  "blocking", "blocked", "returned", "full"}
    BY <1>2 DEF QueueType, TypeOK
  <2> QED
    BY <1>2, <1>3, <1>5, <2>1, <2>2, <2>3 DEF QueueType, TypeOK
<1>7. Places'
  BY <1>1, <1>2, <1>4 DEF QueueType, Places, InExchange
<1>8. Turn'
  BY <1>2 DEF QueueType, Turn
<1>9. Told'
  <2>1. \A t \in Threads : frame[t] \in Nat /\ frame[t] <= regions * MaxExchanges
                              + (IF pc = "region" THEN exchanges[t] ELSE 0)
    BY DEF QueueType, TypeOK, Told
  <2>2. regions \in Nat /\ regions * MaxExchanges \in Nat
    BY Counts DEF QueueType, TypeOK
  <2>3. CASE WakeThreads
    <3>1. \A t \in Threads : exchanges'[t] = 0
      BY <2>3 DEF WakeThreads
    <3>2. \A t \in Threads : frame[t] <= regions * MaxExchanges + 0
      BY <2>1, <2>3 DEF WakeThreads
    <3> QED
      BY <1>2, <2>3, <3>1, <3>2 DEF QueueType, Told, WakeThreads, managerVars
  <2>4. CASE StopManager
    <3>1. regions < MaxRegions
      BY <2>4 DEF QueueType, Told, StopManager
    <3> DEFINE R == regions * MaxExchanges
               Q == (regions + 1) * MaxExchanges
    <3>2. ASSUME NEW t \in Threads PROVE frame[t] <= Q + 0
      <4>1. exchanges[t] \in Nat /\ exchanges[t] <= MaxExchanges
        BY Counts DEF QueueType, TypeOK
      <4>2. R + exchanges[t] <= Q
        BY <2>2, <3>1, <4>1, FramesSuffice
      <4>3. frame[t] <= R + exchanges[t] /\ frame[t] \in Nat
        BY <2>1, <2>4 DEF StopManager
      <4>4. Q \in Nat /\ R \in Nat
        BY <2>2, Counts
      <4> HIDE DEF Q, R
      <4> QED
        BY <4>1, <4>2, <4>3, <4>4
    <3>3. regions' = regions + 1
      BY <2>4 DEF StopManager
    <3>4. \A t \in Threads : frame'[t] <= regions' * MaxExchanges
                                + (IF pc' = "region" THEN exchanges'[t] ELSE 0)
      BY <1>2, <2>4, <3>2, <3>3 DEF StopManager
    <3> QED
      BY <1>1, <1>2, <2>4, <3>4 DEF QueueType, Told, StopManager, workerVars, managerVars
  <2>5. CASE RunManager \/ NotifyManager \/ SetExitflag \/ RunManagerToExit
             \/ NotifyManagerToExit
    <3>1. /\ pc # "region" /\ pc' # "region" /\ regions' = regions /\ wpc' = wpc
          /\ (pc' \in {"notify", "wake", "bye", "done"}) => running'
          /\ (pc' \in {"notify", "wake"}) => regions < MaxRegions
          /\ exitflag' <=> pc' \in {"exit", "bye", "done"}
          /\ exitflag => exitflag'
      BY <2>5 DEF QueueType, TypeOK, Told, RunManager, NotifyManager, SetExitflag,
                  RunManagerToExit, NotifyManagerToExit, workerVars
    <3> QED
      BY <1>1, <1>2, <2>1, <3>1 DEF QueueType, Told
  <2> QED
    BY <2>3, <2>4, <2>5 DEF Main
<1> QED
  BY <1>6, <1>7, <1>8, <1>9 DEF QueueType

LEMMA InitTypes == Init => QueueType
<1> SUFFICES ASSUME Init PROVE QueueType
  OBVIOUS
<1>1. TypeOK
  <2>1. << >> \in Seq(Item) /\ Len(<< >>) = 0
    BY EmptySeq
  <2>2. 0 \in 0..(MaxRegions * MaxExchanges)
    BY Counts
  <2>3. 1 \in 1..(NRecv + NSend + 1)
    BY Counts
  <2>4. is_completed \in [Threads -> SUBSET Numbers]
    BY DEF Init
  <2>5. /\ queue \in [Threads -> Seq(Item)] /\ postedq \in Seq(Item)
        /\ qobj \in Item \cup {<< >>}
    BY <2>1 DEF Init
  <2>6. frame \in [Threads -> 0..(MaxRegions * MaxExchanges)]
    BY <2>2 DEF Init
  <2>7. next \in [Threads -> 1..(NRecv + NSend + 1)]
    BY <2>3 DEF Init
  <2>8. /\ tid \in 0..max_threads /\ breakcount \in 0..max_threads
        /\ regions \in 0..MaxRegions /\ qcount \in Nat
    BY Counts DEF Init
  <2>9. exchanges \in [Threads -> 0..MaxExchanges]
    BY Counts DEF Init
  <2>10. /\ group_count \in [Threads -> Int]
         /\ wpc \in [Threads -> {"asleep", "task", "push", "sent", "flags", "group"}]
         /\ kind \in [Threads -> {"trade", "sum", "remap"}]
    BY DEF Init
  <2>11. /\ running \in BOOLEAN /\ exitflag \in BOOLEAN /\ kinds \in KindSets
         /\ mpc = "drain" /\ pc = "serial"
    BY DEF Init
  <2> QED
    BY <2>4, <2>5, <2>6, <2>7, <2>8, <2>9, <2>10, <2>11 DEF TypeOK
<1>2. Places
  BY DEF Init, Places, InExchange
<1>3. Told
  <2>1. \A t \in Threads : frame[t] <= regions * MaxExchanges
                              + (IF pc = "region" THEN exchanges[t] ELSE 0)
    BY Counts DEF Init
  <2> QED
    BY <2>1 DEF Init, Told
<1>4. Turn
  BY EmptySeq, Counts DEF Init, Turn
<1> QED
  BY <1>1, <1>2, <1>3, <1>4 DEF QueueType

LEMMA NextTypes == QueueType /\ [Next]_vars => QueueType'
<1> SUFFICES ASSUME QueueType, [Next]_vars PROVE QueueType'
  OBVIOUS
<1>1. CASE UNCHANGED vars
  BY <1>1 DEF QueueType, TypeOK, Places, Told, Turn, InExchange, vars, workerVars,
              managerVars, mainVars
<1>2. ASSUME NEW t \in Threads, Thread(t) PROVE QueueType'
  BY <1>2, BeginTypes, PushTypes, FurtherTypes DEF Thread
<1>3. CASE Manager
  BY <1>3, PostTypes, DrainTypes, RetestTypes, TestDoneTypes, MarkTypes, RestTypes DEF Manager
<1>4. ASSUME NEW t \in Threads, NEW m \in Numbers, Complete(t, m) PROVE QueueType'
  BY <1>4, CompleteTypes
<1>5. CASE Main
  BY <1>5, MainTypes
<1> QED
  BY <1>1, <1>2, <1>3, <1>4, <1>5 DEF Next, Finished

\* Every variable keeps its type.  The count of the posted requests is their number,
\* and no call takes more numbers than there are, whatever the capacities.
THEOREM QueueTypeCorrect == Spec => []TypeOK
<1>1. Init => QueueType
  BY InitTypes
<1>2. QueueType /\ [Next]_vars => QueueType'
  BY NextTypes
<1>3. QueueType => TypeOK
  BY DEF QueueType
<1> QED
  BY <1>1, <1>2, <1>3, PTL DEF Spec
-----------------------------------------------------------------------------
LEMMA InRange ==
    ASSUME TypeOK
    PROVE  /\ \A t \in Threads : \A x \in Range(queue[t]) : x \in Item
           /\ \A x \in Range(postedq) : x \in Item
<1>1. ASSUME NEW q \in Seq(Item), NEW x \in Range(q) PROVE x \in Item
  <2>1. q \in [1..Len(q) -> Item]
    BY LenProperties
  <2> QED
    BY <1>1, <2>1 DEF Range
<1>2. \A t \in Threads : queue[t] \in Seq(Item)
  BY DEF TypeOK
<1>3. postedq \in Seq(Item)
  BY DEF TypeOK
<1> QED
  BY <1>1, <1>2, <1>3

\* A thread outside of its calls has no request anywhere.
LEMMA OutsideIsEmpty ==
    ASSUME QueueInv, NEW t \in Threads, ~ InExchange(t)
    PROVE  /\ Range(queue[t]) = {}
           /\ \A x \in Range(postedq) : x.tid # t
           /\ mpc = "mark" => qobj.tid # t
           /\ mpc = "count" /\ qobj.kind = "trade" => qobj.tid # t
BY DEF QueueInv, Waiting, Accounts, Deducting, Current, LiveFrame

\* What a thread does to its own variables does not concern the others' requests, ...
LEMMA OthersCurrent ==
    ASSUME NEW t \in Threads, NEW x, x.tid \in Threads, x.tid # t, Current(x),
           \A u \in Threads \ {t} :
               /\ wpc'[u] = wpc[u] /\ frame'[u] = frame[u] /\ kind'[u] = kind[u]
               /\ next'[u] = next[u] /\ is_completed'[u] = is_completed[u]
    PROVE  Current(x)'
BY DEF Current, InExchange

\* ... nor their accounts.
LEMMA AccountStays ==
    ASSUME NEW t \in Threads, Account(t), InExchange(t)' => InExchange(t),
           wpc[t] = "sent" => wpc'[t] = "sent", kind'[t] = kind[t], next'[t] = next[t],
           is_completed'[t] = is_completed[t], group_count'[t] = group_count[t],
           qobj' = qobj \/ (mpc # "count" /\ mpc' # "count"),
           mpc' = "count" <=> mpc = "count"
    PROVE  Account(t)'
<1>1. Counted(t)' = Counted(t)
  BY DEF Counted
<1> QED
  BY <1>1 DEF Account

LEMMA BeginKeeps ==
    ASSUME QueueInv, NEW t \in Threads, Begin(t)
    PROVE  (Waiting /\ Once /\ Accounts)'
<1>1. TypeOK
  BY DEF QueueInv, QueueType
<1>2. ~ InExchange(t)
  BY DEF Begin, InExchange
<1>3. \A u \in Threads \ {t} :
          /\ wpc'[u] = wpc[u] /\ frame'[u] = frame[u] /\ kind'[u] = kind[u]
          /\ next'[u] = next[u] /\ is_completed'[u] = is_completed[u]
          /\ group_count'[u] = group_count[u]
  BY <1>1 DEF Begin, TypeOK
<1>4. UNCHANGED <<queue, postedq, mpc, qobj, is_completed, kinds>>
  BY DEF Begin, managerVars
<1>5. Waiting'
  <2>1. ASSUME NEW u \in Threads, NEW x \in Range(queue[u])
        PROVE  x.tid = u /\ Current(x)'
    <3>1. x.tid = u /\ Current(x)
      BY <2>1 DEF QueueInv, Waiting
    <3>2. u # t
      BY <1>2, <3>1 DEF Current
    <3> QED
      BY <1>3, <3>1, <3>2, OthersCurrent
  <2>2. ASSUME NEW x \in Range(postedq) PROVE Current(x)'
    <3>1. Current(x) /\ x.tid # t /\ x.tid \in Threads
      BY <1>1, <1>2, OutsideIsEmpty, InRange, Fields DEF QueueInv, Waiting
    <3> QED
      BY <1>3, <3>1, OthersCurrent
  <2>3. ASSUME mpc = "mark" PROVE Current(qobj)'
    <3>1. Current(qobj) /\ qobj.tid # t /\ qobj.tid \in Threads
      BY <1>2, <2>3, OutsideIsEmpty, Fields DEF QueueInv, QueueType, Turn, Waiting
    <3>2. ASSUME NEW y, y = qobj PROVE Current(y)'
      BY <1>3, <3>1, <3>2, OthersCurrent
    <3> QED
      BY <1>4, <3>2 DEF Current
  <2> QED
    BY <1>4, <2>1, <2>2, <2>3 DEF Waiting
<1>6. Once'
  BY <1>4 DEF QueueInv, Once
<1>7. Deducting'
  <2>1. ASSUME mpc = "count", qobj.kind = "trade"
        PROVE  qobj.tid # t /\ qobj.tid \in Threads
    BY <1>2, <2>1, OutsideIsEmpty, Fields DEF QueueInv, QueueType, Turn
  <2> QED
    BY <1>3, <1>4, <2>1 DEF QueueInv, Accounts, Deducting, LiveFrame, InExchange
<1>8. ASSUME NEW u \in Threads PROVE Account(u)'
  <2>1. CASE u = t
    <3>1. next'[t] = 1 /\ wpc'[t] = "push"
      BY <1>1 DEF Begin, TypeOK
    <3>2. 1..(1 - 1) = {} /\ (NRecv + 1)..(1 - 1) = {}
      BY Counts
    <3>3. Counted(t)' = {}
      BY <3>1, <3>2 DEF Counted
    <3>4. kind'[t] = "trade" => group_count'[t] = Total
      BY <1>1 DEF Begin, TypeOK, Total
    <3>5. Total - Cardinality({}) = Total
      BY FS_EmptySet, Counts
    <3> QED
      BY <2>1, <3>1, <3>2, <3>3, <3>4, <3>5 DEF Account
  <2>2. CASE u # t
    <3>1. Account(u)
      BY DEF QueueInv, Accounts
    <3> QED
      BY <1>3, <1>4, <2>2, <3>1, AccountStays DEF InExchange
  <2> QED
    BY <2>1, <2>2
<1> QED
  BY <1>5, <1>6, <1>7, <1>8 DEF Accounts

LEMMA PushKeeps ==
    ASSUME QueueInv, NEW t \in Threads, Push(t)
    PROVE  (Waiting /\ Once /\ Accounts)'
<1> DEFINE m == next[t]
           item == [tid |-> t, n |-> m, frame |-> frame[t], kind |-> kind[t],
                    type |-> Type(kind[t], m), done |-> FALSE]
<1>1. TypeOK
  BY DEF QueueInv, QueueType
<1>2. wpc[t] = "push" /\ InExchange(t) /\ m \in 1..Total
  <2>1. wpc[t] = "push" /\ InExchange(t) /\ m <= Last(kind[t])
    BY DEF QueueInv, QueueType, Places, Push, InExchange
  <2>2. m \in Nat \ {0}
    BY <1>1, Counts DEF TypeOK
  <2>3. Last(kind[t]) <= Total /\ Last(kind[t]) \in Nat
    BY Counts
  <2> QED
    BY <2>1, <2>2, <2>3, Counts
<1>3. item \in Item
  BY <1>1, <1>2, Counts DEF TypeOK, Item, Type
<1> PICK x \in Item : x = item
  BY <1>3
<1>4. /\ x.tid = t /\ x.n = m /\ x.frame = frame[t] /\ x.kind = kind[t]
      /\ x.type = Type(kind[t], m)
  OBVIOUS
<1>3a. x = item
  OBVIOUS
<1> HIDE DEF m, item
<1>5. /\ queue' = [queue EXCEPT ![t] = Pushed(@, x)]
      /\ next' = [next EXCEPT ![t] = m + 1]
      /\ is_completed' = [is_completed EXCEPT ![t] = @ \ {m}]
      /\ wpc' = [wpc EXCEPT ![t] =
              IF kind[t] = "remap" /\ Type(kind[t], m) = "ISEND" THEN "sent"
              ELSE IF m + 1 \in Requests(kind[t]) THEN "push" ELSE "flags"]
      /\ UNCHANGED <<frame, kind, kinds, group_count, postedq, mpc, qobj>>
  BY <1>3a DEF Push, m, item, managerVars
<1>6. \A u \in Threads \ {t} :
          /\ wpc'[u] = wpc[u] /\ frame'[u] = frame[u] /\ kind'[u] = kind[u]
          /\ next'[u] = next[u] /\ is_completed'[u] = is_completed[u]
          /\ queue'[u] = queue[u] /\ group_count'[u] = group_count[u]
  BY <1>1, <1>5 DEF TypeOK
<1>7. /\ next'[t] = m + 1 /\ is_completed'[t] = is_completed[t] \ {m}
      /\ queue'[t] = Pushed(queue[t], x) /\ wpc'[t] \in {"sent", "push", "flags"}
      /\ frame'[t] = frame[t] /\ kind'[t] = kind[t] /\ group_count'[t] = group_count[t]
  BY <1>1, <1>5 DEF TypeOK
<1>8. m = next[t]
  BY DEF m
<1>9. Current(x)'
  BY <1>2, <1>4, <1>7, Counts DEF Current, InExchange
<1>10. ASSUME NEW y \in Item, Current(y)
       PROVE  Current(y)' /\ ~ Same(x, y) /\ ~ Same(y, x)
  <2>1. y.tid \in Threads /\ y.n \in Numbers
    BY Fields
  <2>2. CASE y.tid = t
    <3>1. y.n < m /\ y.n \in Nat
      BY <1>8, <1>10, <2>1, <2>2, Counts DEF Current
    <3>2. y.n < m + 1 /\ y.n # m
      BY <1>2, <3>1
    <3> QED
      BY <1>4, <1>7, <1>10, <2>2, <3>2 DEF Current, InExchange, Same
  <2>3. CASE y.tid # t
    BY <1>4, <1>6, <1>10, <2>1, <2>3, OthersCurrent DEF Same
  <2> QED
    BY <2>2, <2>3
<1>11. queue[t] \in Seq(Item)
  BY <1>1 DEF TypeOK
<1>12. \A u \in Threads : \A y \in Range(queue[u]) : y \in Item /\ y.tid = u /\ Current(y)
  BY <1>1, InRange DEF QueueInv, Waiting
<1>13. \A y \in Range(postedq) : y \in Item /\ Current(y)
  BY <1>1, InRange DEF QueueInv, Waiting
<1>14. Range(queue'[t]) \subseteq Range(queue[t]) \cup {x} /\ Distinct(queue'[t])
  <2>1. Distinct(queue[t])
    BY DEF QueueInv, Once
  <2>2. \A y \in Range(queue[t]) : ~ Same(x, y)
    BY <1>10, <1>12
  <2> QED
    BY <1>3, <1>7, <1>11, <2>1, <2>2, Appended DEF Pushed
<1>15. mpc = "mark" => qobj \in Item /\ Current(qobj)
  BY DEF QueueInv, QueueType, Turn, Waiting
<1>16. Waiting'
  <2>1. ASSUME NEW u \in Threads, NEW y \in Range(queue'[u])
        PROVE  y.tid = u /\ Current(y)'
    <3>1. CASE u = t
      BY <1>4, <1>9, <1>10, <1>12, <1>14, <2>1, <3>1
    <3>2. CASE u # t
      BY <1>6, <1>10, <1>12, <2>1, <3>2
    <3> QED
      BY <3>1, <3>2
  <2>2. \A y \in Range(postedq) : Current(y)'
    BY <1>10, <1>13
  <2>3. mpc = "mark" => Current(qobj)'
    <3>1. ASSUME NEW y, y = qobj, mpc = "mark" PROVE Current(y)'
      BY <1>10, <1>15, <3>1
    <3> QED
      BY <1>5, <3>1 DEF Current
  <2> QED
    BY <1>5, <2>1, <2>2, <2>3 DEF Waiting
<1>17. Once'
  <2>1. Distinct(postedq) /\ (mpc = "mark" => \A y \in Range(postedq) : ~ Same(qobj, y))
    BY DEF QueueInv, Once
  <2>2. ASSUME NEW u \in Threads
        PROVE  /\ Distinct(queue'[u])
               /\ \A y \in Range(queue'[u]), z \in Range(postedq) : ~ Same(y, z)
               /\ mpc = "mark" => \A y \in Range(queue'[u]) : ~ Same(qobj, y)
    <3>1. /\ Distinct(queue[u])
          /\ \A y \in Range(queue[u]), z \in Range(postedq) : ~ Same(y, z)
          /\ mpc = "mark" => \A y \in Range(queue[u]) : ~ Same(qobj, y)
      BY DEF QueueInv, Once
    <3>2. CASE u = t
      BY <1>10, <1>13, <1>14, <1>15, <3>1, <3>2
    <3>3. CASE u # t
      BY <1>6, <3>1, <3>3
    <3> QED
      BY <3>2, <3>3
  <2> QED
    BY <1>5, <2>1, <2>2 DEF Once
<1>18. Deducting'
  <2>1. ASSUME mpc = "count", qobj.kind = "trade"
        PROVE  /\ LiveFrame' /\ kind'[qobj.tid] = "trade" /\ qobj.n < next'[qobj.tid]
               /\ qobj.n \in is_completed'[qobj.tid]
    <3>1. /\ LiveFrame /\ kind[qobj.tid] = "trade" /\ qobj.n < next[qobj.tid]
          /\ qobj.n \in is_completed[qobj.tid] /\ qobj.tid \in Threads /\ qobj.n \in Numbers
      BY <2>1, Fields DEF QueueInv, QueueType, Turn, Accounts, Deducting
    <3>2. CASE qobj.tid = t
      <4>1. qobj.n # m /\ qobj.n < m + 1
        BY <1>2, <1>8, <3>1, <3>2, Counts
      <4> QED
        BY <1>5, <1>7, <3>1, <3>2, <4>1 DEF LiveFrame, InExchange
    <3>3. CASE qobj.tid # t
      BY <1>5, <1>6, <3>1, <3>3 DEF LiveFrame, InExchange
    <3> QED
      BY <3>2, <3>3
  <2> QED
    BY <1>5, <2>1 DEF QueueInv, Accounts, Deducting
<1>19. ASSUME NEW u \in Threads PROVE Account(u)'
  <2>1. CASE u # t
    <3>1. Account(u)
      BY DEF QueueInv, Accounts
    <3> QED
      BY <1>5, <1>6, <2>1, <3>1, AccountStays DEF InExchange
  <2>2. CASE u = t
    <3>1. Account(t)
      BY DEF QueueInv, Accounts
    <3>2. Counted(t)' = Counted(t)
      <4>1. 1..(m + 1 - 1) = 1..(m - 1) \cup {m} /\ m \notin 1..(m - 1)
        BY <1>2
      <4> QED
        BY <1>5, <1>7, <1>8, <4>1 DEF Counted
    <3>3. ASSUME kind[t] = "remap", NEW k \in (NRecv + 1)..(m + 1 - 1)
          PROVE  k \in is_completed'[t] \/ (wpc'[t] = "sent" /\ k = m + 1 - 1)
      <4>1. CASE k = m
        <5>1. Type(kind[t], m) = "ISEND"
          BY <1>2, <3>3, <4>1, Counts DEF Type
        <5> QED
          BY <1>1, <1>2, <1>5, <3>3, <4>1, <5>1 DEF TypeOK
      <4>2. CASE k # m
        <5>1. k \in (NRecv + 1)..(next[t] - 1)
          BY <1>2, <1>8, <3>3, <4>2, Counts
        <5> QED
          BY <1>2, <1>7, <3>1, <3>3, <4>2, <5>1 DEF Account
      <4> QED
        BY <4>1, <4>2
    <3> QED
      BY <1>2, <1>7, <2>2, <3>1, <3>2, <3>3 DEF Account
  <2> QED
    BY <2>1, <2>2
<1> QED
  BY <1>16, <1>17, <1>18, <1>19 DEF Accounts

\* A call that waits for no more has nothing outstanding: a sum has its flag; remap_3d
\* the flags of its receives and, one after the other, those of its sends; and when
\* nothing is left on the count of a trade, all its requests have been taken off it.
LEMMA CallIsOver ==
    ASSUME QueueInv, NEW t \in Threads,
           AwaitGroup(t) \/ (AwaitFlags(t) /\ kind[t] # "trade")
    PROVE  /\ \A x \in Item : x.tid = t => ~ Current(x)
           /\ mpc = "count" /\ qobj.kind = "trade" => qobj.tid # t
<1>1. TypeOK /\ InExchange(t) /\ next[t] = Last(kind[t]) + 1
  BY DEF QueueInv, QueueType, Places, AwaitGroup, AwaitFlags, InExchange
<1>2. kind[t] \in {"trade", "sum", "remap"}
  BY <1>1 DEF TypeOK
<1>3. CASE AwaitGroup(t)
  <2> DEFINE C == Counted(t)
  <2>1. kind[t] = "trade" /\ group_count[t] = 0
    BY <1>3 DEF QueueInv, QueueType, Places, AwaitGroup
  <2>2. next[t] = Total + 1 /\ Total \in Nat
    BY <1>1, <2>1, Counts
  <2>3. 0 = Total - Cardinality(C)
    BY <1>1, <2>1 DEF QueueInv, Accounts, Account
  <2>4. IsFiniteSet(1..Total) /\ Cardinality(1..Total) = Total
    BY <2>2, FS_Interval
  <2>5. C \in SUBSET (1..Total)
    BY <2>2 DEF Counted
  <2> DEFINE c == Cardinality(C)
  <2>6. c \in Nat
    BY <2>4, <2>5, FS_Subset, FS_CardinalityType
  <2>7. c = Total
    <3>1. 0 = Total - c
      BY <2>3
    <3> HIDE DEF c
    <3> QED
      BY <2>2, <2>6, <3>1
  <2>8. C = 1..Total
    BY <2>4, <2>5, <2>7, FS_Subset
  <2>9. \A x \in Item : x.n \in C
    BY <2>8, Fields, Counts
  <2>10. ASSUME NEW x \in Item, x.tid = t PROVE ~ Current(x)
    BY <2>9, <2>10 DEF Counted, Current
  <2>11. ASSUME mpc = "count", qobj.tid = t PROVE FALSE
    <3>1. qobj.n \in C
      BY <2>9, <2>11 DEF QueueInv, QueueType, Turn
    <3> QED
      BY <2>11, <3>1 DEF Counted
  <2> QED
    BY <2>10, <2>11
<1>4. CASE AwaitFlags(t) /\ kind[t] = "sum"
  <2>1. next[t] = 2 /\ 1 \in is_completed[t]
    <3>1. Requests(kind[t]) = 1..1 /\ next[t] = 1 + 1 /\ 1 \in Receives
      BY <1>1, <1>4, Counts DEF Receives, Requests
    <3> QED
      BY <1>4, <3>1 DEF AwaitFlags
  <2>2. ASSUME NEW x \in Item, x.tid = t PROVE ~ Current(x)
    <3>1. x.n \in Nat /\ x.n >= 1
      BY Fields, Counts
    <3>2. x.n < 2 => x.n = 1
      BY <3>1
    <3> QED
      BY <2>1, <2>2, <3>2 DEF Current
  <2> QED
    BY <1>4, <2>2 DEF QueueInv, Accounts, Deducting
<1>5. CASE AwaitFlags(t) /\ kind[t] = "remap"
  <2>1. next[t] = Total + 1 /\ Receives \subseteq is_completed[t] /\ wpc[t] = "flags"
    <3>1. Requests(kind[t]) = 1..Total /\ Receives \subseteq 1..Total
      BY <1>5, Counts DEF Receives
    <3> QED
      BY <1>1, <1>5, <3>1, Counts DEF AwaitFlags
  <2>2. \A m \in (NRecv + 1)..(next[t] - 1) : m \in is_completed[t]
    BY <1>1, <1>5, <2>1 DEF QueueInv, Accounts, Account
  <2>3. ASSUME NEW x \in Item, x.tid = t PROVE ~ Current(x)
    <3>1. x.n \in 1..Total
      BY Fields, Counts
    <3>2. x.n \in Receives \/ x.n \in (NRecv + 1)..(next[t] - 1)
      BY <2>1, <3>1, Counts DEF Receives
    <3> QED
      BY <2>1, <2>2, <2>3, <3>2 DEF Current
  <2> QED
    BY <1>5, <2>3 DEF QueueInv, Accounts, Deducting
<1> QED
  BY <1>2, <1>3, <1>4, <1>5

LEMMA FurtherKeeps ==
    ASSUME QueueInv, NEW t \in Threads,
           AwaitSend(t) \/ AwaitFlags(t) \/ AwaitGroup(t) \/ Sleep(t)
    PROVE  (Waiting /\ Once /\ Accounts)'
<1>1. TypeOK /\ NoEffect
  BY DEF QueueInv, QueueType, AwaitSend, AwaitFlags, AwaitGroup, Sleep
<1>2. UNCHANGED <<queue, is_completed, group_count, kinds, kind, next, frame, mpc, qobj, postedq>>
  BY <1>1 DEF NoEffect, managerVars
<1>3. \A u \in Threads \ {t} : wpc'[u] = wpc[u]
  BY <1>1 DEF TypeOK, AwaitSend, AwaitFlags, AwaitGroup, Sleep
<1>4. \/ InExchange(t) /\ InExchange(t)'
      \/ /\ \A x \in Item : x.tid = t => ~ Current(x)
         /\ mpc = "count" /\ qobj.kind = "trade" => qobj.tid # t
         /\ ~ InExchange(t)'
  <2>1. wpc'[t] \in {"asleep", "task", "push", "sent", "flags", "group"}
    BY <1>1 DEF TypeOK, AwaitSend, AwaitFlags, AwaitGroup, Sleep
  <2>2. CASE AwaitSend(t) \/ (AwaitFlags(t) /\ kind[t] = "trade")
    BY <1>1, <2>2 DEF TypeOK, AwaitSend, AwaitFlags, InExchange
  <2>3. CASE AwaitGroup(t) \/ (AwaitFlags(t) /\ kind[t] # "trade")
    <3>1. wpc'[t] = "task"
      BY <1>1, <2>3 DEF TypeOK, AwaitFlags, AwaitGroup
    <3> QED
      BY <2>3, <3>1, CallIsOver DEF InExchange
  <2>4. CASE Sleep(t)
    <3>1. ~ InExchange(t) /\ wpc'[t] = "asleep"
      BY <1>1, <2>4 DEF TypeOK, Sleep, InExchange
    <3>2. mpc = "count" /\ qobj.kind = "trade" => qobj.tid # t
      BY <3>1, OutsideIsEmpty
    <3> QED
      BY <3>1, <3>2 DEF Current, InExchange
  <2> QED
    BY <2>2, <2>3, <2>4
<1>5. ASSUME NEW x \in Item, Current(x) PROVE Current(x)'
  BY <1>2, <1>3, <1>4, <1>5, Fields DEF Current, InExchange
<1>6. Waiting'
  <2>1. mpc = "mark" => Current(qobj)'
    <3>1. ASSUME NEW y, y = qobj, mpc = "mark" PROVE Current(y)'
      BY <1>5, <3>1 DEF QueueInv, QueueType, Turn, Waiting
    <3> QED
      BY <1>2, <3>1 DEF Current
  <2>2. \A u \in Threads : \A x \in Range(queue[u]) : x.tid = u /\ Current(x)'
    BY <1>1, <1>5, InRange DEF QueueInv, Waiting
  <2>3. \A x \in Range(postedq) : Current(x)'
    BY <1>1, <1>5, InRange DEF QueueInv, Waiting
  <2> QED
    BY <1>2, <2>1, <2>2, <2>3 DEF Waiting
<1>7. Once'
  BY <1>2 DEF QueueInv, Once
<1>8. Deducting'
  <2>1. ASSUME mpc = "count", qobj.kind = "trade" PROVE LiveFrame'
    <3>1. LiveFrame /\ qobj.tid \in Threads
      BY <2>1, Fields DEF QueueInv, QueueType, Turn, Accounts, Deducting
    <3>2. qobj.tid = t => InExchange(t)'
      BY <1>4, <2>1
    <3> QED
      BY <1>2, <1>3, <3>1, <3>2 DEF LiveFrame, InExchange
  <2> QED
    BY <1>2, <2>1 DEF QueueInv, Accounts, Deducting
<1>9. ASSUME NEW u \in Threads PROVE Account(u)'
  <2>1. Account(u)
    BY DEF QueueInv, Accounts
  <2>2. InExchange(u)' => InExchange(u)
    BY <1>3, <1>4 DEF InExchange
  <2>3. CASE wpc[u] = "sent" => wpc'[u] = "sent"
    BY <1>2, <2>1, <2>2, <2>3, AccountStays
  <2>4. CASE wpc[u] = "sent" /\ wpc'[u] # "sent"
    <3>1. u = t /\ AwaitSend(t)
      BY <1>3, <2>4 DEF AwaitFlags, AwaitGroup, AwaitSend, Sleep
    <3>2. next[u] - 1 \in is_completed[u] /\ kind[u] = "remap"
      BY <3>1 DEF AwaitSend, QueueInv, QueueType, Places
    <3>3. InExchange(u)' => \A m \in (NRecv + 1)..(next[u] - 1) : m \in is_completed[u]
      BY <2>1, <2>2, <3>2 DEF Account
    <3> QED
      BY <1>2, <3>2, <3>3 DEF Account
  <2> QED
    BY <2>3, <2>4
<1> QED
  BY <1>6, <1>7, <1>8, <1>9 DEF Accounts
-----------------------------------------------------------------------------
\* A step of the manager leaves what a request and an account are made of.
LEMMA ThreadsStay ==
    ASSUME UNCHANGED <<wpc, kind, next, frame, kinds, is_completed, group_count>>
    PROVE  /\ \A x : Current(x)' <=> Current(x)
           /\ mpc # "count" /\ mpc' # "count" =>
                 \A t \in Threads : Account(t) => Account(t)'
<1>1. ASSUME NEW x PROVE Current(x)' <=> Current(x)
  BY DEF Current, InExchange
<1>2. ASSUME mpc # "count", mpc' # "count", NEW t \in Threads, Account(t)
      PROVE  Account(t)'
  BY <1>2, AccountStays DEF InExchange
<1> QED
  BY <1>1, <1>2

LEMMA PostKeeps ==
    ASSUME QueueInv, Post
    PROVE  (Waiting /\ Once /\ Accounts)'
<1> DEFINE q == queue[tid]
<1>1. TypeOK /\ tid \in Threads /\ q \in Seq(Item) /\ q # << >>
  <2>1. TypeOK /\ tid \in 0..max_threads /\ tid < max_threads /\ q # << >>
    BY DEF QueueInv, QueueType, TypeOK, Post
  <2>2. tid \in Threads
    BY <2>1, Counts DEF Threads
  <2> QED
    BY <2>1, <2>2 DEF TypeOK
<1>2. PICK x \in Item : x = Head(q)
  BY <1>1, Popped
<1>3. /\ x \in Range(q) /\ Range(q) = Range(Tail(q)) \cup {x}
      /\ Distinct(q) => Distinct(Tail(q)) /\ \A y \in Range(Tail(q)) : ~ Same(x, y)
  BY <1>1, <1>2, Popped
<1>4. postedq \in Seq(Item)
  BY <1>1 DEF TypeOK
<1>5. /\ Range(Append(postedq, x)) = Range(postedq) \cup {x}
      /\ Distinct(postedq) /\ (\A y \in Range(postedq) : ~ Same(x, y))
            => Distinct(Append(postedq, x))
  BY <1>4, Appended
<1>6. /\ queue' = [queue EXCEPT ![tid] = Tail(q)]
      /\ \/ postedq' = Append(postedq, x) /\ mpc' = "drain"
         \/ postedq' = postedq /\ mpc' = "full"
      /\ UNCHANGED <<wpc, kind, next, frame, kinds, is_completed, group_count>>
      /\ mpc = "drain"
  BY <1>2 DEF Post, threadSide, workerVars
<1>7. Distinct(q) /\ Distinct(postedq) /\ \A y \in Range(postedq) : ~ Same(x, y)
  BY <1>1, <1>3 DEF QueueInv, Once
<1>8. x.tid = tid /\ Current(x)
  BY <1>1, <1>3 DEF QueueInv, Waiting
<1> HIDE DEF q
<1>9. queue'[tid] = Tail(q) /\ \A u \in Threads \ {tid} : queue'[u] = queue[u]
  BY <1>1, <1>6 DEF TypeOK
<1>10. Range(postedq') \subseteq Range(postedq) \cup {x}
  BY <1>5, <1>6
<1>11. Distinct(postedq')
  BY <1>5, <1>6, <1>7
<1>12. ASSUME NEW u \in Threads
       PROVE  /\ Range(queue'[u]) \subseteq Range(queue[u]) /\ Distinct(queue'[u])
              /\ \A y \in Range(queue'[u]) : ~ Same(y, x)
  <2>1. CASE u = tid
    BY <1>3, <1>7, <1>9, <2>1 DEF q, Same
  <2>2. CASE u # tid
    <3>1. Distinct(queue[u]) /\ \A y \in Range(queue[u]) : y.tid = u
      BY DEF QueueInv, Once, Waiting
    <3> QED
      BY <1>8, <1>9, <2>2, <3>1 DEF Same
  <2> QED
    BY <2>1, <2>2
<1>13. Waiting'
  <2>1. \A y : Current(y)' <=> Current(y)
    BY <1>6, ThreadsStay
  <2> QED
    BY <1>6, <1>8, <1>10, <1>12, <2>1 DEF QueueInv, Waiting
<1>14. Once'
  <2>1. ASSUME NEW u \in Threads, NEW y \in Range(queue'[u]), NEW z \in Range(postedq')
        PROVE  ~ Same(y, z)
    BY <1>10, <1>12, <2>1 DEF QueueInv, Once
  <2> QED
    BY <1>6, <1>11, <1>12, <2>1 DEF Once
<1>15. Accounts'
  <2>1. \A u \in Threads : Account(u) => Account(u)'
    BY <1>6, ThreadsStay
  <2> QED
    BY <1>6, <2>1 DEF QueueInv, Accounts, Deducting
<1> QED
  BY <1>13, <1>14, <1>15

LEMMA TestKeeps ==
    ASSUME QueueInv, Retest \/ TestDone
    PROVE  (Waiting /\ Once /\ Accounts)'
<1>1. /\ TypeOK /\ mpc = "test" /\ mpc' \in {"after", "test", "mark"}
      /\ postedq \in Seq(Item) /\ postedq # << >>
      /\ UNCHANGED <<wpc, kind, next, frame, kinds, is_completed, group_count, queue>>
  BY DEF QueueInv, QueueType, TypeOK, Retest, TestDone, threadSide, workerVars
<1>2. Distinct(postedq)
  BY DEF QueueInv, Once
<1>3. Range(postedq') \subseteq Range(postedq) /\ Distinct(postedq')
  <2>1. CASE Retest
    BY <1>1, <1>2, <2>1, Rotated DEF Retest
  <2>2. CASE TestDone
    BY <1>1, <1>2, <2>2, Popped DEF TestDone
  <2> QED
    BY <2>1, <2>2
<1>4. mpc' = "mark" => /\ qobj' \in Range(postedq)
                       /\ \A y \in Range(postedq') : ~ Same(qobj', y)
  <2>1. CASE Retest
    BY <2>1 DEF Retest
  <2>2. CASE TestDone
    BY <1>1, <1>2, <2>2, Popped DEF TestDone
  <2> QED
    BY <2>1, <2>2
<1>5. Waiting'
  <2>1. \A y : Current(y)' <=> Current(y)
    BY <1>1, ThreadsStay
  <2>2. \A y \in Range(postedq) : Current(y)'
    BY <2>1 DEF QueueInv, Waiting
  <2>3. mpc' = "mark" => Current(qobj)'
    <3>1. ASSUME NEW y \in Range(postedq), y = qobj' PROVE Current(qobj)'
      BY <2>2, <3>1 DEF Current
    <3> QED
      BY <1>4, <3>1
  <2>4. \A u \in Threads : \A y \in Range(queue[u]) : y.tid = u /\ Current(y)'
    BY <2>1 DEF QueueInv, Waiting
  <2> QED
    BY <1>1, <1>3, <2>2, <2>3, <2>4 DEF Waiting
<1>6. Once'
  <2>1. ASSUME NEW u \in Threads, NEW y \in Range(queue[u]), mpc' = "mark"
        PROVE  ~ Same(qobj', y)
    BY <1>4, <2>1 DEF QueueInv, Once, Same
  <2> QED
    BY <1>1, <1>3, <1>4, <2>1 DEF QueueInv, Once
<1>7. Accounts'
  <2>1. \A u \in Threads : Account(u) => Account(u)'
    BY <1>1, ThreadsStay
  <2> QED
    BY <1>1, <2>1 DEF QueueInv, Accounts, Deducting
<1> QED
  BY <1>5, <1>6, <1>7

\* is_completed->store(true): the call goes on, and no other place holds the request.
LEMMA MarkKeeps ==
    ASSUME QueueInv, Mark
    PROVE  (Waiting /\ Once /\ Accounts)'
<1>1. TypeOK /\ mpc = "mark"
  BY DEF QueueInv, QueueType, Mark
<1>2. PICK x \in Item : x = qobj
  BY <1>1 DEF QueueInv, QueueType, Turn
<1>3. Current(x) /\ x.tid \in Threads /\ x.n \in Numbers
  BY <1>1, <1>2, Fields DEF QueueInv, Waiting
<1>4. /\ is_completed' = [is_completed EXCEPT ![x.tid] = @ \cup {x.n}]
      /\ UNCHANGED <<wpc, kind, next, frame, kinds, queue, postedq, group_count>>
      /\ mpc' \in {"after", "test", "count"}
      /\ mpc' = "count" => qobj' = x /\ x.type # "SUM"
      /\ mpc' # "count" => x.type \notin {"IRECV", "ISEND"}
  BY <1>2 DEF Mark, threadSide, workerVars
<1>5. /\ is_completed'[x.tid] = is_completed[x.tid] \cup {x.n}
      /\ \A u \in Threads \ {x.tid} : is_completed'[u] = is_completed[u]
  BY <1>1, <1>3, <1>4 DEF TypeOK
<1>6. ASSUME NEW y \in Item, Current(y), ~ Same(x, y) PROVE Current(y)'
  BY <1>4, <1>5, <1>6, Fields DEF Current, InExchange, Same
<1>7. Waiting'
  <2>1. \A u \in Threads : \A y \in Range(queue[u]) : y.tid = u /\ Current(y)'
    <3>1. ASSUME NEW u \in Threads, NEW y \in Range(queue[u])
          PROVE  y \in Item /\ y.tid = u /\ Current(y) /\ ~ Same(x, y)
      BY <1>1, <1>2, InRange DEF QueueInv, Waiting, Once
    <3> QED
      BY <1>6, <3>1
  <2>2. \A y \in Range(postedq) : Current(y)'
    <3>1. ASSUME NEW y \in Range(postedq)
          PROVE  y \in Item /\ Current(y) /\ ~ Same(x, y)
      BY <1>1, <1>2, InRange DEF QueueInv, Waiting, Once
    <3> QED
      BY <1>6, <3>1
  <2> QED
    BY <1>4, <2>1, <2>2 DEF Waiting
<1>8. Once'
  BY <1>4 DEF QueueInv, Once
<1>9. Deducting'
  <2>1. ASSUME mpc' = "count"
        PROVE  /\ x.kind \in kinds /\ x.kind # "sum" /\ LiveFrame' /\ kind[x.tid] = x.kind
               /\ x.n < next[x.tid] /\ x.n \in is_completed'[x.tid]
    <3>1. x.kind = kind[x.tid] /\ x.n < next[x.tid] /\ InExchange(x.tid)
          /\ x.frame = frame[x.tid] /\ x.type = Type(x.kind, x.n)
      BY <1>3 DEF Current
    <3>2. x.kind \in kinds
      BY <1>3, <3>1 DEF QueueInv, QueueType, Places
    <3>3. x.kind # "sum"
      BY <1>4, <2>1, <3>1 DEF Type
    <3>4. LiveFrame'
      BY <1>4, <2>1, <3>1 DEF LiveFrame, InExchange
    <3> QED
      BY <1>5, <3>1, <3>2, <3>3, <3>4
  <2> QED
    BY <1>4, <2>1 DEF Deducting
<1>10. ASSUME NEW u \in Threads PROVE Account(u)'
  <2>1. Account(u)
    BY DEF QueueInv, Accounts
  <2>2. CASE u # x.tid
    <3>1. Counted(u)' = Counted(u)
      BY <1>1, <1>4, <1>5, <2>2 DEF Counted
    <3> QED
      BY <1>4, <1>5, <2>1, <2>2, <3>1 DEF Account, InExchange
  <2>3. CASE u = x.tid
    <3>1. ASSUME kind[u] = "trade" PROVE Counted(u)' = Counted(u)
      <4>1. x.type # "SUM" /\ x.n \notin is_completed[u] /\ x.type \in {"SUM", "IRECV", "ISEND"}
        BY <1>3, <2>3, <3>1, Fields DEF Current, Type
      <4>2. mpc' = "count" /\ qobj' = x
        BY <1>4, <4>1
      <4> QED
        BY <1>1, <1>4, <1>5, <2>3, <4>1, <4>2 DEF Counted
    <3>2. is_completed[u] \subseteq is_completed'[u]
      BY <1>5, <2>3
    <3> QED
      BY <1>4, <2>1, <3>1, <3>2 DEF Account, InExchange
  <2> QED
    BY <2>2, <2>3
<1> QED
  BY <1>7, <1>8, <1>9, <1>10 DEF Accounts

\* group_count->fetch_sub(1): one more of the trade's requests is off its count.  In a
\* program that remaps there is no trade whose count it could be.
LEMMA CountKeeps ==
    ASSUME KindsAreSeparate, QueueInv, Count
    PROVE  (Waiting /\ Once /\ Accounts)'
<1>1. TypeOK /\ mpc = "count"
  BY DEF QueueInv, QueueType, Count
<1>2. PICK x \in Item : x = qobj
  BY <1>1 DEF QueueInv, QueueType, Turn
<1>3. x.tid \in Threads /\ x.n \in Numbers /\ x.kind \in {"trade", "sum", "remap"}
  BY Fields
<1>4. /\ group_count' = [group_count EXCEPT ![x.tid] = @ - 1]
      /\ UNCHANGED <<wpc, kind, next, frame, kinds, queue, postedq, is_completed>>
      /\ mpc' \in {"after", "test"}
  BY <1>2 DEF Count, threadSide, workerVars
<1>5. /\ group_count'[x.tid] = group_count[x.tid] - 1
      /\ \A u \in Threads \ {x.tid} : group_count'[u] = group_count[u]
  BY <1>1, <1>3, <1>4 DEF TypeOK
<1>6. \A y : Current(y)' <=> Current(y)
  BY <1>4 DEF Current, InExchange
<1>7. Waiting'
  BY <1>4, <1>6 DEF QueueInv, Waiting
<1>8. Once'
  BY <1>4 DEF QueueInv, Once
<1>9. Deducting'
  BY <1>4 DEF Deducting
<1>10. ASSUME NEW u \in Threads PROVE Account(u)'
  <2>1. Account(u)
    BY DEF QueueInv, Accounts
  <2>2. InExchange(u)' <=> InExchange(u)
    BY <1>4 DEF InExchange
  <2>3. InExchange(u) /\ kind[u] = "trade" => group_count'[u] = Total - Cardinality(Counted(u)')
    <3> SUFFICES ASSUME InExchange(u), kind[u] = "trade"
                 PROVE  group_count'[u] = Total - Cardinality(Counted(u)')
      OBVIOUS
    <3>1. group_count[u] = Total - Cardinality(Counted(u))
      BY <2>1 DEF Account
    <3>2. CASE u # x.tid
      <4>1. Counted(u)' = Counted(u)
        BY <1>1, <1>2, <1>4, <3>2 DEF Counted
      <4> QED
        BY <1>5, <3>1, <3>2, <4>1
    <3>3. CASE u = x.tid
      <4>1. x.kind = "trade"
        <5>1. kinds \in KindSets /\ "trade" \in kinds
          BY <1>1 DEF QueueInv, QueueType, Places, TypeOK
        <5>2. x.kind \in kinds /\ x.kind # "sum"
          BY <1>1, <1>2 DEF QueueInv, Accounts, Deducting
        <5> QED
          BY <1>3, <5>1, <5>2 DEF KindsAreSeparate
      <4>2. x.n < next[u] /\ x.n \in is_completed[u]
        BY <1>1, <1>2, <3>3, <4>1 DEF QueueInv, Accounts, Deducting
      <4>3. next[u] \in 1..(Total + 1)
        BY <1>1, Counts DEF TypeOK
      <4>4. x.n \in 1..(next[u] - 1)
        BY <1>3, <4>2, <4>3, Counts
      <4>5. Counted(u)' = Counted(u) \cup {x.n} /\ x.n \notin Counted(u)
        BY <1>1, <1>2, <1>4, <3>3, <4>2, <4>4 DEF Counted
      <4> DEFINE C == Counted(u)
                 c == Cardinality(Counted(u))
                 d == Cardinality(Counted(u) \cup {x.n})
      <4>6. IsFiniteSet(C)
        <5>1. IsFiniteSet(1..(next[u] - 1))
          BY <4>3, Counts, FS_Interval
        <5>2. C \in SUBSET (1..(next[u] - 1))
          BY DEF Counted
        <5> QED
          BY <5>1, <5>2, FS_Subset
      <4>7. d = c + 1 /\ c \in Nat
        BY <4>5, <4>6, FS_AddElement, FS_CardinalityType
      <4>8. group_count[u] = Total - c
        BY <3>1
      <4>9. Cardinality(Counted(u)') = d
        BY <4>5
      <4> HIDE DEF c, d
      <4>10. Total - d = (Total - c) - 1
        BY <4>7, Counts
      <4> QED
        BY <1>5, <3>3, <4>8, <4>9, <4>10
    <3> QED
      BY <3>2, <3>3
  <2> QED
    BY <1>4, <2>1, <2>2, <2>3 DEF Account
<1> QED
  BY <1>7, <1>8, <1>9, <1>10 DEF Accounts

LEMMA RestKeeps ==
    ASSUME QueueInv,
           NextQueue \/ EndDrain \/ NothingPosted \/ AfterTests \/ CheckExit \/ Predicate \/ Block
    PROVE  (Waiting /\ Once /\ Accounts)'
<1>1. /\ UNCHANGED <<wpc, kind, next, frame, kinds, is_completed, group_count, queue,
                     postedq, qobj>>
      /\ mpc \notin {"mark", "count"} /\ mpc' \notin {"mark", "count"}
  BY DEF NextQueue, EndDrain, NothingPosted, AfterTests, CheckExit, Predicate, Block,
         NoManagerEffect, threadSide, workerVars
<1>2. \A y : Current(y)' <=> Current(y)
  BY <1>1, ThreadsStay
<1>3. \A u \in Threads : Account(u) => Account(u)'
  BY <1>1, ThreadsStay
<1> QED
  BY <1>1, <1>2, <1>3 DEF QueueInv, Waiting, Once, Accounts, Deducting

LEMMA CompleteKeeps ==
    ASSUME QueueInv, NEW t \in Threads, NEW m \in Numbers, Complete(t, m)
    PROVE  (Waiting /\ Once /\ Accounts)'
<1>1. PICK i \in DOMAIN postedq : postedq' = [postedq EXCEPT ![i].done = TRUE]
  BY DEF Complete
<1>2. postedq \in Seq(Item) /\ Distinct(postedq)
  BY DEF QueueInv, QueueType, TypeOK, Once
<1>3. /\ \A x \in Range(postedq') : \E y \in Range(postedq) : Alike(x, y)
      /\ Distinct(postedq')
  BY <1>1, <1>2, Completed
<1>4. UNCHANGED <<wpc, kind, next, frame, kinds, is_completed, group_count, queue, mpc, qobj>>
  BY DEF Complete, threadSide, workerVars
<1>5. \A x : Current(x)' <=> Current(x)
  BY <1>4, ThreadsStay
<1>6. Waiting'
  <2>1. \A x \in Range(postedq') : Current(x)
    BY <1>3 DEF QueueInv, Waiting, Alike, Current
  <2> QED
    BY <1>4, <1>5, <2>1 DEF QueueInv, Waiting
<1>7. Once'
  <2>1. ASSUME NEW u \in Threads, NEW x \in Range(queue[u]), NEW y \in Range(postedq')
        PROVE  ~ Same(x, y)
    BY <1>3 DEF QueueInv, Once, Alike, Same
  <2>2. ASSUME mpc = "mark", NEW y \in Range(postedq') PROVE ~ Same(qobj, y)
    BY <1>3, <2>2 DEF QueueInv, Once, Alike, Same
  <2> QED
    BY <1>3, <1>4, <2>1, <2>2 DEF QueueInv, Once
<1>8. Deducting'
  BY <1>4 DEF QueueInv, Accounts, Deducting, LiveFrame, InExchange
<1>9. ASSUME NEW u \in Threads PROVE Account(u)'
  <2>1. Account(u)
    BY DEF QueueInv, Accounts
  <2> QED
    BY <1>4, <2>1, AccountStays DEF InExchange
<1> QED
  BY <1>6, <1>7, <1>8, <1>9 DEF Accounts

\* Main acts when nothing is under way.
LEMMA MainKeeps ==
    ASSUME QueueInv, Main
    PROVE  (Waiting /\ Once /\ Accounts)'
<1>1. \A t \in Threads : wpc[t] = "asleep"
  BY DEF QueueInv, QueueType, Told, Main, RunManager, NotifyManager, WakeThreads, StopManager,
         SetExitflag, RunManagerToExit, NotifyManagerToExit
<1>2. /\ mpc' \in {mpc, "cvwait"}
      /\ UNCHANGED <<queue, is_completed, group_count, kinds, kind, next, frame, qobj, postedq>>
  BY DEF Main, RunManager, NotifyManager, WakeThreads, StopManager, SetExitflag,
         RunManagerToExit, NotifyManagerToExit, Notified, workerVars, managerVars, managerButPc
<1>3. \A t \in Threads : wpc'[t] \in {"asleep", "task"}
  BY <1>1 DEF Main, RunManager, NotifyManager, WakeThreads, StopManager, SetExitflag,
         RunManagerToExit, NotifyManagerToExit, workerVars
<1>4. \A t \in Threads : ~ InExchange(t) /\ ~ InExchange(t)'
  BY <1>1, <1>3 DEF InExchange
<1>5. \A t \in Threads : Range(queue[t]) = {}
  BY <1>4, OutsideIsEmpty
<1>6. Range(postedq) = {}
  <2>1. ASSUME NEW x \in Range(postedq) PROVE FALSE
    <3>1. x.tid \in Threads
      BY <2>1, InRange, Fields DEF QueueInv, QueueType
    <3> QED
      BY <1>4, <2>1, <3>1, OutsideIsEmpty
  <2> QED
    BY <2>1
<1>7. mpc # "mark" /\ ~ (mpc = "count" /\ qobj.kind = "trade")
  <2>1. mpc \in {"mark", "count"} => qobj.tid \in Threads
    BY Fields DEF QueueInv, QueueType, Turn
  <2> QED
    BY <1>4, <2>1, OutsideIsEmpty
<1>8. Waiting'
  BY <1>2, <1>5, <1>6, <1>7 DEF Waiting
<1>9. Once'
  BY <1>2, <1>5, <1>6, <1>7 DEF QueueInv, Once
<1>10. Accounts'
  BY <1>2, <1>4, <1>7 DEF QueueInv, Accounts, Deducting, Account
<1> QED
  BY <1>8, <1>9, <1>10

LEMMA InitKeeps == Init => QueueInv
<1> SUFFICES ASSUME Init PROVE QueueInv
  OBVIOUS
<1>1. \A t \in Threads : queue[t] = << >> /\ ~ InExchange(t)
  BY DEF Init, InExchange
<1>2. postedq = << >> /\ mpc = "drain"
  BY DEF Init
<1>3. Range(<< >>) = {} /\ Distinct(<< >>)
  BY DEF Range, Distinct
<1> QED
  BY <1>1, <1>2, <1>3, InitTypes DEF QueueInv, Waiting, Once, Accounts, Account, Deducting

LEMMA NextKeeps ==
    ASSUME KindsAreSeparate, QueueInv, [Next]_vars
    PROVE  QueueInv'
<1>1. QueueType'
  BY NextTypes DEF QueueInv
<1>2. (Waiting /\ Once /\ Accounts)'
  <2>1. CASE UNCHANGED vars
    <3>1. UNCHANGED <<wpc, kind, next, frame, kinds, is_completed, group_count, queue,
                      postedq, mpc, qobj>>
      BY <2>1 DEF vars, workerVars, managerVars
    <3>2. \A u \in Threads : Account(u) => Account(u)'
      BY <3>1, AccountStays DEF InExchange
    <3>3. \A y : Current(y)' <=> Current(y)
      BY <3>1, ThreadsStay
    <3>4. Deducting'
      BY <3>1 DEF QueueInv, Accounts, Deducting, LiveFrame, InExchange
    <3> QED
      BY <3>1, <3>2, <3>3, <3>4 DEF QueueInv, Waiting, Once, Accounts, Current, InExchange
  <2>2. ASSUME NEW t \in Threads, Thread(t) PROVE (Waiting /\ Once /\ Accounts)'
    BY <2>2, BeginKeeps, PushKeeps, FurtherKeeps DEF Thread
  <2>3. CASE Manager
    BY <2>3, PostKeeps, RestKeeps, TestKeeps, MarkKeeps, CountKeeps DEF Manager
  <2>4. ASSUME NEW t \in Threads, NEW m \in Numbers, Complete(t, m)
        PROVE  (Waiting /\ Once /\ Accounts)'
    BY <2>4, CompleteKeeps
  <2>5. CASE Main
    BY <2>5, MainKeeps
  <2> QED
    BY <2>1, <2>2, <2>3, <2>4, <2>5 DEF Next, Finished
<1> QED
  BY <1>1, <1>2 DEF QueueInv
-----------------------------------------------------------------------------
LEMMA QueueInvHolds ==
    ASSUME KindsAreSeparate
    PROVE  Spec => []QueueInv
<1>1. Init => QueueInv
  BY InitKeeps
<1>2. QueueInv /\ [Next]_vars => QueueInv'
  BY NextKeeps
<1> QED
  BY <1>1, <1>2, PTL DEF Spec

\* The manager writes to a flag or a count only while the call whose locals they are has
\* not returned: a trade waits for the last fetch_sub, a sum for its flag.
THEOREM WritesToLiveFrames ==
    ASSUME KindsAreSeparate
    PROVE  Spec => []GroupsOutliveWrites
<1>1. ASSUME QueueInv, mpc \in {"mark", "count"}, qobj.kind # "remap"
      PROVE  LiveFrame
  <2>1. qobj.kind \in {"trade", "sum", "remap"}
    BY <1>1, Fields DEF QueueInv, QueueType, Turn
  <2> QED
    BY <1>1, <2>1 DEF QueueInv, Waiting, Accounts, Deducting, Current, LiveFrame
<1>2. QueueInv => GroupsOutliveWrites
  BY <1>1 DEF GroupsOutliveWrites
<1> QED
  BY <1>2, QueueInvHolds, PTL

\* The manager sleeps, or ends, with no request posted; and when main has stopped it, or
\* it has ended, no thread has one in its queue.
THEOREM SleepsWithNothingToDo ==
    ASSUME KindsAreSeparate
    PROVE  Spec => []SleepsOnlyWhenIdle
<1>1. ASSUME QueueInv PROVE SleepsOnlyWhenIdle
  <2>1. (mpc \in {"cvwait", "blocking", "blocked", "returned"}) => postedq = << >>
    BY <1>1 DEF QueueInv, QueueType, Turn
  <2>2. ASSUME ~ running \/ mpc = "returned", NEW t \in Threads
        PROVE  queue[t] = << >>
    <3>1. pc # "region"
      BY <1>1, <2>2 DEF QueueInv, QueueType, Told
    <3>2. ~ InExchange(t)
      BY <1>1, <3>1 DEF QueueInv, QueueType, Told, InExchange
    <3>3. Range(queue[t]) = {} /\ queue[t] \in Seq(Item)
      BY <1>1, <3>2, OutsideIsEmpty DEF QueueInv, QueueType, TypeOK
    <3> QED
      BY <3>3, Popped
  <2> QED
    BY <2>1, <2>2 DEF SleepsOnlyWhenIdle
<1> QED
  BY <1>1, QueueInvHolds, PTL

\* A call returns only when its requests are through MPI, those whose flags it has not
\* looked at as well.
THEOREM CallsReturnComplete ==
    ASSUME KindsAreSeparate
    PROVE  Spec => ReturnsAfterCompletion
<1>1. ASSUME QueueInv, [Next]_vars, NEW t \in Threads, InExchange(t), ~ InExchange(t)'
      PROVE  queue[t] = << >> /\ Posted(t) = {}
  <2>1. TypeOK
    BY <1>1 DEF QueueInv, QueueType
  <2>2. AwaitGroup(t) \/ (AwaitFlags(t) /\ kind[t] # "trade")
    <3>1. CASE UNCHANGED wpc
      BY <1>1, <3>1 DEF InExchange
    <3>2. ASSUME NEW u \in Threads, Thread(u)
          PROVE  AwaitGroup(t) \/ (AwaitFlags(t) /\ kind[t] # "trade")
      <4>1. wpc'[t] = wpc[t] \/ u = t
        BY <2>1, <3>2 DEF TypeOK, Thread, Begin, Push, AwaitSend, AwaitFlags, AwaitGroup, Sleep
      <4>2. CASE wpc'[t] = wpc[t]
        BY <1>1, <4>2 DEF InExchange
      <4>3. CASE u = t
        BY <1>1, <2>1, <3>2, <4>3 DEF TypeOK, Thread, Begin, Push, AwaitSend, AwaitFlags,
                                      AwaitGroup, Sleep, InExchange
      <4> QED
        BY <4>1, <4>2, <4>3
    <3>3. CASE Main
      <4>1. wpc[t] = "asleep"
        BY <1>1, <3>3 DEF QueueInv, QueueType, Told, Main, RunManager, NotifyManager,
              WakeThreads, StopManager, SetExitflag, RunManagerToExit, NotifyManagerToExit
      <4> QED
        BY <1>1, <4>1 DEF InExchange
    <3>4. CASE Manager
      <4>1. UNCHANGED wpc
        BY <3>4 DEF Manager, Post, NextQueue, EndDrain, Retest, TestDone, NothingPosted, Mark,
              Count, AfterTests, CheckExit, Predicate, Block, NoManagerEffect, threadSide,
              workerVars
      <4> QED
        BY <1>1, <4>1 DEF InExchange
    <3>5. ASSUME NEW u \in Threads, NEW m \in Numbers, Complete(u, m) PROVE UNCHANGED wpc
      BY <3>5 DEF Complete, threadSide, workerVars
    <3> QED
      BY <1>1, <3>1, <3>2, <3>3, <3>4, <3>5 DEF Next, Finished, vars, workerVars
  <2>3. \A x \in Item : x.tid = t => ~ Current(x)
    BY <1>1, <2>2, CallIsOver
  <2>4. Range(queue[t]) = {} /\ queue[t] \in Seq(Item)
    BY <1>1, <2>1, <2>3, InRange DEF QueueInv, Waiting, TypeOK
  <2>5. queue[t] = << >>
    BY <2>4, Popped
  <2>6. \A x \in Range(postedq) : x.tid # t
    BY <1>1, <2>1, <2>3, InRange DEF QueueInv, Waiting
  <2>7. Posted(t) = {}
    BY <2>6 DEF Posted, Range
  <2> QED
    BY <2>5, <2>7
<1>2. QueueInv /\ [Next]_vars =>
        [\A t \in Threads :
            InExchange(t) /\ ~ InExchange(t)' => queue[t] = << >> /\ Posted(t) = {}]_vars
  BY <1>1
<1> QED
  BY <1>2, QueueInvHolds, PTL DEF Spec, ReturnsAfterCompletion
-----------------------------------------------------------------------------
\* As many requests are posted as their numbers and threads tell apart.
LEMMA PostedFit ==
    ASSUME NEW q \in Seq(Item), Distinct(q)
    PROVE  Len(q) <= max_threads * Total
<1> DEFINE k == Len(q)
           S == Threads \X Numbers
           f == [i \in 1..k |-> <<q[i].tid, q[i].n>>]
<1>1. k \in Nat /\ DOMAIN q = 1..k /\ q \in [1..k -> Item]
  BY LenProperties
<1> HIDE DEF k
<1>2. \A i \in 1..k : q[i].tid \in Threads /\ q[i].n \in Numbers
  BY <1>1, Fields
<1>3. f \in [1..k -> S]
  BY <1>2
<1>4. \A i, j \in 1..k : f[i] = f[j] => i = j
  BY <1>1 DEF Distinct, Same
<1>5. f \in Injection(1..k, S)
  BY <1>3, <1>4 DEF Injection, IsInjective
<1>6. IsFiniteSet(Threads) /\ Cardinality(Threads) = max_threads
  <2>1. /\ IsFiniteSet(0..(max_threads - 1))
        /\ Cardinality(0..(max_threads - 1)) =
              IF 0 > max_threads - 1 THEN 0 ELSE max_threads - 1 - 0 + 1
    <3>1. max_threads - 1 \in Int
      BY Counts
    <3> QED
      BY <3>1, FS_Interval
  <2> QED
    BY <2>1, Counts DEF Threads
<1>7. IsFiniteSet(Numbers) /\ Cardinality(Numbers) = Total
  <2>1. IsFiniteSet(1..Total) /\ Cardinality(1..Total) = IF 1 > Total THEN 0 ELSE Total - 1 + 1
    BY Counts, FS_Interval
  <2> QED
    BY <2>1, Counts
<1>8. IsFiniteSet(S) /\ Cardinality(S) = max_threads * Total
  BY <1>6, <1>7, FS_Product
<1>9. Cardinality(1..k) <= Cardinality(S)
  BY <1>5, <1>8, FS_Injection
<1>10. Cardinality(1..k) = k
  BY <1>1, FS_Interval
<1> QED
  BY <1>8, <1>9, <1>10 DEF k

LEMMA RefusedTypes ==
    ASSUME QueueInv, NothingRefused, NEW t \in Threads
    PROVE  /\ queue[t] \in Seq(Item) /\ Len(queue[t]) \in Nat
           /\ next[t] \in Nat \ {0} /\ Total \in Nat
BY LenProperties, Counts DEF QueueInv, QueueType, TypeOK

LEMMA NothingRefusedKeeps ==
    ASSUME QueuesSuffice, QueueInv, QueueInv', NothingRefused, [Next]_vars
    PROVE  NothingRefused'
<1> DEFINE Somewhere(t, m) == \/ m \in is_completed[t]
                              \/ \E x \in Range(queue[t]) : x.n = m
                              \/ \E x \in Range(postedq) : x.tid = t /\ x.n = m
                              \/ mpc = "mark" /\ qobj.tid = t /\ qobj.n = m
           Fits(t) == Len(queue[t]) < next[t]
                      /\ \A m \in 1..(next[t] - 1) : Somewhere(t, m)
<1>1. NothingRefused' <=> mpc' # "full" /\ \A t \in Threads : InExchange(t)' => Fits(t)'
  BY DEF NothingRefused
<1>2. mpc # "full" /\ \A t \in Threads : InExchange(t) => Fits(t)
  BY DEF NothingRefused
<1>3. TypeOK
  BY DEF QueueInv, QueueType
<1>4. ASSUME NEW t \in Threads, Begin(t) PROVE NothingRefused'
  <2>1. UNCHANGED <<queue, is_completed, postedq, mpc, qobj>>
    BY <1>4 DEF Begin, managerVars
  <2>2. \A u \in Threads \ {t} : wpc'[u] = wpc[u] /\ next'[u] = next[u]
    BY <1>3, <1>4 DEF Begin, TypeOK
  <2>3. next'[t] = 1
    BY <1>3, <1>4 DEF Begin, TypeOK
  <2>4. Len(queue[t]) = 0
    <3>1. Range(queue[t]) = {} /\ queue[t] \in Seq(Item)
      BY <1>3, <1>4, OutsideIsEmpty DEF TypeOK, Begin, InExchange
    <3>2. queue[t] = << >>
      BY <3>1, Popped
    <3> QED
      BY <3>2, EmptySeq
  <2>5. Fits(t)'
    <3>1. 1..(1 - 1) = {} /\ 0 < 1
      OBVIOUS
    <3> QED
      BY <2>1, <2>3, <2>4, <3>1
  <2>6. ASSUME NEW u \in Threads, u # t, InExchange(u)' PROVE Fits(u)'
    BY <1>2, <2>1, <2>2, <2>6 DEF InExchange
  <2> QED
    BY <1>1, <1>2, <2>1, <2>5, <2>6
<1>5. ASSUME NEW t \in Threads, Push(t) PROVE NothingRefused'
  <2> DEFINE m == next[t]
  <2>1. PICK x \in Item :
            /\ queue' = [queue EXCEPT ![t] = Pushed(@, x)]
            /\ x.n = m
    <3> DEFINE x == [tid |-> t, n |-> m, frame |-> frame[t], kind |-> kind[t],
                     type |-> Type(kind[t], m), done |-> FALSE]
    <3>1. m \in Numbers
      <4>1. m <= Last(kind[t]) /\ m \in Nat \ {0}
        BY <1>5, RefusedTypes DEF QueueInv, QueueType, Places, Push
      <4>2. Last(kind[t]) <= Total /\ Last(kind[t]) \in Nat
        BY Counts
      <4> QED
        BY <4>1, <4>2, Counts
    <3>2. x \in Item
      BY <1>3, <3>1 DEF TypeOK, Item, Type
    <3>3. queue' = [queue EXCEPT ![t] = Pushed(@, x)] /\ x.n = m
      BY <1>5 DEF Push
    <3> QED
      BY <3>2, <3>3
  <2>2. /\ wpc[t] = "push" /\ InExchange(t) /\ m <= Total
        /\ UNCHANGED <<postedq, mpc, qobj>>
    <3>1. wpc[t] = "push" /\ m <= Last(kind[t]) /\ m \in Nat
      BY <1>5, RefusedTypes DEF QueueInv, QueueType, Places, Push
    <3>2. Last(kind[t]) <= Total /\ Last(kind[t]) \in Nat /\ Total \in Nat
      BY Counts
    <3> QED
      BY <1>5, <3>1, <3>2 DEF Push, InExchange, managerVars
  <2>3. /\ is_completed'[t] = is_completed[t] \ {m} /\ next'[t] = m + 1
        /\ queue'[t] = Pushed(queue[t], x)
        /\ \A u \in Threads \ {t} :
              /\ wpc'[u] = wpc[u] /\ next'[u] = next[u] /\ queue'[u] = queue[u]
              /\ is_completed'[u] = is_completed[u]
    BY <1>3, <1>5, <2>1 DEF TypeOK, Push
  <2>4. Fits(t)
    BY <1>2, <2>2
  <2>5. Len(queue[t]) < max_size
    <3> DEFINE k == Len(queue[t])
    <3>1. k \in Nat /\ m \in Nat /\ k < m /\ Total \in Nat /\ max_size \in Nat
      BY <2>4, RefusedTypes, CountsAssumption
    <3>2. Total <= max_size /\ m <= Total
      BY <2>2 DEF QueuesSuffice, Total
    <3> HIDE DEF k, m
    <3> QED
      BY <3>1, <3>2 DEF k
  <2>6. /\ Len(queue'[t]) = Len(queue[t]) + 1
        /\ Range(queue'[t]) = Range(queue[t]) \cup {x}
    <3>1. queue[t] \in Seq(Item)
      BY RefusedTypes
    <3> QED
      BY <2>3, <2>5, <3>1, Appended DEF Pushed
  <2>7. Len(queue'[t]) < next'[t]
    <3>1. Len(queue[t]) \in Nat /\ m \in Nat /\ Len(queue[t]) < m
      BY <2>4, RefusedTypes
    <3> QED
      BY <2>3, <2>6, <3>1
  <2>8. ASSUME NEW k \in 1..(next'[t] - 1) PROVE Somewhere(t, k)'
    <3>1. CASE k = m
      BY <2>1, <2>6, <3>1
    <3>2. CASE k # m
      <4>1. k \in 1..(next[t] - 1)
        <5>1. m \in Nat \ {0} /\ k \in 1..(m + 1 - 1)
          BY <2>3, <2>8, RefusedTypes
        <5> QED
          BY <3>2, <5>1
      <4>2. Somewhere(t, k)
        BY <2>4, <4>1
      <4> QED
        BY <2>2, <2>3, <2>6, <3>2, <4>2
    <3> QED
      BY <3>1, <3>2
  <2>9. ASSUME NEW u \in Threads, u # t, InExchange(u)' PROVE Fits(u)'
    BY <1>2, <2>2, <2>3, <2>9 DEF InExchange
  <2> QED
    BY <1>1, <1>2, <2>2, <2>7, <2>8, <2>9
<1>6. ASSUME NEW t \in Threads, AwaitSend(t) \/ AwaitFlags(t) \/ AwaitGroup(t) \/ Sleep(t)
      PROVE  NothingRefused'
  <2>1. UNCHANGED <<queue, is_completed, next, postedq, mpc, qobj>>
    BY <1>6 DEF AwaitSend, AwaitFlags, AwaitGroup, Sleep, NoEffect, managerVars
  <2>2. \A u \in Threads : InExchange(u)' => InExchange(u)
    BY <1>3, <1>6 DEF TypeOK, AwaitSend, AwaitFlags, AwaitGroup, Sleep, InExchange
  <2> QED
    BY <1>1, <1>2, <2>1, <2>2
<1>7. ASSUME Post PROVE NothingRefused'
  <2> DEFINE q == queue[tid]
  <2>1. tid \in Threads /\ q \in Seq(Item) /\ q # << >>
    <3>1. tid \in 0..max_threads /\ tid < max_threads /\ q # << >>
      BY <1>3, <1>7 DEF TypeOK, Post
    <3>2. tid \in Threads
      BY <3>1, Counts DEF Threads
    <3> QED
      BY <1>3, <3>1, <3>2 DEF TypeOK
  <2>2. PICK x \in Item : x = Head(q)
    BY <2>1, Popped
  <2>3. /\ x \in Range(q) /\ Range(q) = Range(Tail(q)) \cup {x}
        /\ Len(Tail(q)) = Len(q) - 1 /\ Len(q) \in Nat
    BY <2>1, <2>2, Popped, LenProperties
  <2>4. postedq \in Seq(Item) /\ Distinct(postedq) /\ Len(postedq) \in Nat
    BY <1>3, LenProperties DEF TypeOK, QueueInv, Once
  <2>5. /\ Append(postedq, x) \in Seq(Item) /\ Len(Append(postedq, x)) = Len(postedq) + 1
        /\ Range(Append(postedq, x)) = Range(postedq) \cup {x}
        /\ (\A y \in Range(postedq) : ~ Same(x, y)) => Distinct(Append(postedq, x))
    BY <2>4, Appended
  <2>6. \A y \in Range(postedq) : ~ Same(x, y)
    BY <2>1, <2>3 DEF QueueInv, Once
  <2>7. Len(Append(postedq, x)) <= max_threads * Total
    BY <2>5, <2>6, PostedFit
  <2>8. Len(postedq) < PostedSize
    <3> DEFINE k == Len(postedq)
               c == max_threads * Total
    <3>1. k \in Nat /\ k + 1 <= c /\ c <= PostedSize
      BY <2>4, <2>5, <2>7 DEF QueuesSuffice, Total
    <3>2. c \in Nat /\ PostedSize \in Nat
      BY Counts, CountsAssumption
    <3> HIDE DEF k, c
    <3>3. k < PostedSize
      BY <3>1, <3>2
    <3> QED
      BY <3>3 DEF k
  <2>9. /\ queue' = [queue EXCEPT ![tid] = Tail(q)]
        /\ postedq' = Append(postedq, x) /\ mpc' = "drain" /\ mpc = "drain"
        /\ UNCHANGED <<wpc, next, is_completed>>
    BY <1>7, <2>2, <2>8 DEF Post, threadSide, workerVars
  <2>10. /\ queue'[tid] = Tail(q)
         /\ \A u \in Threads \ {tid} : queue'[u] = queue[u]
    BY <1>3, <2>1, <2>9 DEF TypeOK
  <2>11. x.tid = tid
    BY <2>1, <2>3 DEF QueueInv, Waiting
  <2>12. ASSUME NEW u \in Threads, InExchange(u)' PROVE Fits(u)'
    <3>1. Fits(u)
      BY <1>2, <2>9, <2>12 DEF InExchange
    <3>2. CASE u = tid
      <4>1. Len(queue'[u]) < next'[u]
        <5>1. Len(q) \in Nat /\ next[u] \in Nat /\ Len(q) < next[u]
          BY <2>3, <3>1, <3>2, RefusedTypes
        <5> QED
          BY <2>3, <2>9, <2>10, <3>2, <5>1
      <4>2. ASSUME NEW m \in 1..(next[u] - 1) PROVE Somewhere(u, m)'
        BY <2>3, <2>5, <2>9, <2>10, <2>11, <3>1, <3>2, <4>2
      <4> QED
        BY <2>9, <4>1, <4>2
    <3>3. CASE u # tid
      BY <2>5, <2>9, <2>10, <3>1, <3>3
    <3> QED
      BY <3>2, <3>3
  <2> QED
    BY <1>1, <2>9, <2>12
<1>8. ASSUME Retest \/ TestDone PROVE NothingRefused'
  <2>1. /\ postedq \in Seq(Item) /\ postedq # << >> /\ mpc = "test" /\ mpc' # "full"
        /\ UNCHANGED <<wpc, next, is_completed, queue>>
    BY <1>3, <1>8 DEF TypeOK, Retest, TestDone, threadSide, workerVars
  <2>2. Range(postedq) \subseteq Range(postedq') \cup (IF mpc' = "mark" THEN {qobj'} ELSE {})
    <3>1. CASE Retest
      BY <2>1, <3>1, Rotated DEF Retest
    <3>2. CASE TestDone
      BY <2>1, <3>2, Popped DEF TestDone
    <3> QED
      BY <1>8, <3>1, <3>2
  <2>3. ASSUME NEW u \in Threads, NEW m \in 1..(next[u] - 1), Somewhere(u, m)
        PROVE  Somewhere(u, m)'
    BY <2>1, <2>2, <2>3
  <2> QED
    BY <1>1, <1>2, <2>1, <2>3 DEF InExchange
<1>9. ASSUME Mark PROVE NothingRefused'
  <2>1. PICK x \in Item : x = qobj
    BY <1>9 DEF QueueInv, QueueType, Turn, Mark
  <2>2. /\ is_completed' = [is_completed EXCEPT ![x.tid] = @ \cup {x.n}]
        /\ UNCHANGED <<wpc, next, queue, postedq>> /\ mpc' # "full"
    BY <1>9, <2>1 DEF Mark, threadSide, workerVars
  <2>3. /\ is_completed'[x.tid] = is_completed[x.tid] \cup {x.n}
        /\ \A u \in Threads \ {x.tid} : is_completed'[u] = is_completed[u]
    BY <1>3, <2>2, Fields DEF TypeOK
  <2>4. ASSUME NEW u \in Threads, NEW m \in 1..(next[u] - 1), Somewhere(u, m)
        PROVE  Somewhere(u, m)'
    BY <2>1, <2>2, <2>3, <2>4
  <2> QED
    BY <1>1, <1>2, <2>2, <2>4 DEF InExchange
<1>10. ASSUME NextQueue \/ EndDrain \/ NothingPosted \/ Count \/ AfterTests \/ CheckExit
              \/ Predicate \/ Block
       PROVE  NothingRefused'
  <2>1. /\ UNCHANGED <<wpc, next, is_completed, queue, postedq>>
        /\ mpc # "mark" /\ mpc' # "mark" /\ mpc' # "full"
    BY <1>2, <1>10 DEF NextQueue, EndDrain, NothingPosted, Count, AfterTests, CheckExit,
                       Predicate, Block, NoManagerEffect, threadSide, workerVars
  <2> QED
    BY <1>1, <1>2, <2>1 DEF InExchange
<1>11. ASSUME NEW t \in Threads, NEW n \in Numbers, Complete(t, n) PROVE NothingRefused'
  <2>1. PICK i \in DOMAIN postedq : postedq' = [postedq EXCEPT ![i].done = TRUE]
    BY <1>11 DEF Complete
  <2>2. \A y \in Range(postedq) : \E x \in Range(postedq') : Alike(x, y)
    BY <1>3, <2>1, Completed DEF TypeOK
  <2>3. UNCHANGED <<wpc, next, is_completed, queue, mpc, qobj>>
    BY <1>11 DEF Complete, threadSide, workerVars
  <2>4. ASSUME NEW u \in Threads, NEW m \in 1..(next[u] - 1), Somewhere(u, m)
        PROVE  Somewhere(u, m)'
    BY <2>2, <2>3, <2>4 DEF Alike
  <2> QED
    BY <1>1, <1>2, <2>3, <2>4 DEF InExchange
<1>12. ASSUME Main PROVE NothingRefused'
  <2>1. \A t \in Threads : wpc[t] = "asleep"
    BY <1>12 DEF QueueInv, QueueType, Told, Main, RunManager, NotifyManager, WakeThreads,
                 StopManager, SetExitflag, RunManagerToExit, NotifyManagerToExit
  <2>2. \A t \in Threads : ~ InExchange(t)'
    BY <1>12, <2>1 DEF Main, RunManager, NotifyManager, WakeThreads, StopManager,
              SetExitflag, RunManagerToExit, NotifyManagerToExit, workerVars, InExchange
  <2>3. mpc' # "full"
    BY <1>2, <1>12 DEF Main, RunManager, NotifyManager, WakeThreads, StopManager, SetExitflag,
              RunManagerToExit, NotifyManagerToExit, Notified, managerVars
  <2> QED
    BY <1>1, <2>2, <2>3
<1>13. CASE UNCHANGED vars
  <2>1. UNCHANGED <<wpc, next, is_completed, queue, postedq, mpc, qobj>>
    BY <1>13 DEF vars, workerVars, managerVars
  <2> QED
    BY <1>1, <1>2, <2>1 DEF InExchange
<1> QED
  BY <1>4, <1>5, <1>6, <1>7, <1>8, <1>9, <1>10, <1>11, <1>12, <1>13
     DEF Next, Thread, Manager, Finished

\* When the queues have a place for each request none is lost.
LEMMA NoneIsLost ==
    ASSUME KindsAreSeparate, QueuesSuffice
    PROVE  Spec => []NoRequestLost
<1>1. Init => NothingRefused
  BY DEF Init, NothingRefused, InExchange
<1>2. QueueInv /\ QueueInv' /\ NothingRefused /\ [Next]_vars => NothingRefused'
  BY NothingRefusedKeeps
<1>3. ASSUME QueueInv, NothingRefused PROVE NoRequestLost
  <2>1. ASSUME NEW t \in Threads, NEW m, \E x \in Range(queue[t]) : x.n = m
        PROVE  \E i \in DOMAIN queue[t] : queue[t][i].n = m
    BY <2>1 DEF Range
  <2>2. ASSUME NEW t \in Threads, NEW m, \E x \in Range(postedq) : x.tid = t /\ x.n = m
        PROVE  \E i \in Posted(t) : postedq[i].n = m
    BY <2>2 DEF Range, Posted
  <2>3. ASSUME NEW t, mpc = "mark", qobj.tid = t
        PROVE  InHand(t)
    BY <2>3 DEF InHand
  <2> QED
    BY <1>3, <2>1, <2>2, <2>3 DEF NothingRefused, NoRequestLost
<1> QED
  BY <1>1, <1>2, <1>3, QueueInvHolds, PTL DEF Spec

\* In a program of trades and sums, with the queues that RMG makes and any number of
\* threads, no request is lost between the thread and its flag: push, whose answer
\* nobody looks at, never refuses one, the manager never runs out of places, and what
\* is polled in vain is polled again.
THEOREM NoRequestIsLost ==
    ASSUME TradesOnly, RmgQueues
    PROVE  Spec => []NoRequestLost
<1>1. KindsAreSeparate
  BY DEF TradesOnly, KindsAreSeparate
<1>2. QueuesSuffice
  <2> DEFINE requests == NRecv + NSend
             spare == 54 - requests
  <2>1. requests \in Nat /\ requests <= 52 /\ max_threads \in Nat
    BY CountsAssumption DEF TradesOnly
  <2> HIDE DEF requests
  <2>2. spare \in Nat /\ requests + spare = 54
    BY <2>1
  <2> HIDE DEF spare
  <2>3. max_threads * requests + max_threads * spare = 54 * max_threads
    BY <2>1, <2>2
  <2>4. max_threads * spare \in Nat /\ max_threads * requests \in Nat
    BY <2>1, <2>2
  <2>5. max_threads * requests <= PostedSize
    BY <2>3, <2>4 DEF RmgQueues
  <2>6. requests <= max_size
    BY <2>1 DEF RmgQueues
  <2> QED
    BY <2>5, <2>6 DEF QueuesSuffice, requests
<1> QED
  BY <1>1, <1>2, NoneIsLost
=============================================================================

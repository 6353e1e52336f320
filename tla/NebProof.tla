------------------------------ MODULE NebProof ------------------------------
(***************************************************************************)
(* For every number of images and steps: an image always computes its      *)
(* forces between its two neighbours as they are in this step, and, if the *)
(* last image is never the only one whose force is too large, the images   *)
(* stop at the same step, converged, and their restart files are at most   *)
(* one step apart, with one step that all of them still have.              *)
(***************************************************************************)
EXTENDS MCNeb, SequenceTheorems, TLAPS

Working(i) == pc[i] \in {"exchange", "start", "save", "quenched", "reduce", "reduced", "move"}

\* It has stopped before the last step, for the forces are small enough.
Converged(i) == neb_step[i] < max_steps /\ pc[i] \in {"finish", "finishing", "done"}

\* The barriers and reductions of a step, as far as the image has come to them
Place(i) ==
    IF pc[i] = "exchange" THEN 0 ELSE IF pc[i] \in {"start", "save"} THEN 1
    ELSE IF pc[i] = "quenched" THEN 2 ELSE IF pc[i] = "reduce" THEN 3
    ELSE IF pc[i] \in {"reduced", "move"} THEN 4
    ELSE (IF neb_step[i] < max_steps THEN 4 ELSE 0) + (IF pc[i] = "finish" THEN 0 ELSE 1)

\* How far the image is: every step has four of them.
Counted(i) ==
    /\ meetings[i] = 4 * neb_step[i] + Place(i)
    /\ Working(i) => neb_step[i] < max_steps
    /\ sent[i] <= Len(received[i]) + 1
    /\ pc[i] # "exchange" => /\ sent[i] = (IF neb_step[i] < max_steps THEN 4 ELSE 0)
                             /\ Len(received[i]) = sent[i]

\* The others are not more than one of them behind, and not behind at all when the
\* image does not wait in one.
Near(i, j) ==
    /\ meetings[i] <= meetings[j] + 1
    /\ pc[i] \in {"exchange", "save", "move", "finish", "done"} => meetings[i] <= meetings[j]

\* The calls up to the n-th in which image i sends to image d
Once(i, d, n, k) == IF k <= n /\ Dest(i, k) = d THEN 1 ELSE 0
Count(i, d, n) == Once(i, d, n, 1) + Once(i, d, n, 2) + Once(i, d, n, 3) + Once(i, d, n, 4)

\* The calls of step s that have returned in image d
Got(d, s) == IF neb_step[d] = s THEN Len(received[d]) ELSE IF neb_step[d] > s THEN 4 ELSE 0

\* What is on the way from image i to image d: the messages of i's step, in the order
\* of the calls, from the first that d has not received to the last that i has sent.
OnTheWay(i, d) ==
    LET s == neb_step[i]
    IN  /\ Len(chan[<<i, d>>]) = Count(i, d, sent[i]) - Count(i, d, Got(d, s))
        /\ \A n \in 1..4 : Got(d, s) < n /\ n <= sent[i] /\ Dest(i, n) = d =>
              chan[<<i, d>>][Count(i, d, n) - Count(i, d, Got(d, s))] =
                  [what |-> Calls[n].what, img |-> i, step |-> s]
        /\ neb_step[d] > s => Count(i, d, Got(d, neb_step[d])) = 0

\* What an image has received is of its own step and of the call's source.
Received(d) ==
    pc[d] = "exchange" => \A n \in 1..Len(received[d]) :
        received[d][n] = [what |-> Calls[n].what, img |-> Source(d, n), step |-> neb_step[d]]

Between(i) ==
    pc[i] = "start" => \A n \in 1..4 :
        LET side == IF Calls[n].to = "left" THEN i + 1 ELSE i - 1
        IN  received[i][n] = [what |-> Calls[n].what, img |-> side,
                              step |-> IF side \in Images THEN neb_step[i] ELSE 0]

ExchangeInv ==
    /\ TypeOK
    /\ \A i \in Images : Counted(i)
    /\ \A i, j \in Images : Near(i, j)
    /\ \A i, d \in Images : OnTheWay(i, d)
    /\ \A d \in Images : Received(d)
    /\ \A d \in Images : Between(d)

AllRelaxed == \A k \in Images : relaxed[k]
Covered == relaxed[Last] \/ \E k \in Images \ {Last} : ~ relaxed[k]

\* The images decide from the same forces, and as long as one of them has not, the
\* forces are still those that the others have decided from.
Agreed ==
    /\ \A i \in Images : pc[i] = "reduced" => all_frc[i] = relaxed /\ Covered
    /\ \A i \in Images : Converged(i) => AllRelaxed
    /\ \A i \in Images : pc[i] = "move" => ~ AllRelaxed
    /\ \A i, j \in Images : neb_step[j] < neb_step[i] => ~ AllRelaxed

StopInv == ExchangeInv /\ Agreed /\ StopTogether
-----------------------------------------------------------------------------
(* The ring *)

LEMMA Ring ==
    ASSUME images \in ImageCounts, NEW i \in Images
    PROVE  /\ images \in Nat \ {0, 1} /\ max_steps \in Nat
           /\ i \in Int /\ Last \in Images
           /\ left_img(i) \in Images \ {i} /\ right_img(i) \in Images \ {i}
<1>1. images \in Nat \ {0, 1} /\ max_steps \in Nat
  BY CountsAssumption
<1> QED
  BY <1>1 DEF Images, Last, left_img, right_img

\* Who sends to an image with a call is who that image receives from with it.
LEMMA RingCalls ==
    ASSUME images \in ImageCounts, NEW i \in Images, NEW d \in Images, NEW n \in 1..4
    PROVE  /\ Dest(i, n) \in Images \ {i} /\ Source(d, n) \in Images \ {d}
           /\ Dest(i, n) = d <=> Source(d, n) = i
           /\ Calls[n].what \in {"coor", "total"}
<1>1. /\ images \in Nat \ {0, 1} /\ i \in 0..(images - 1) /\ d \in 0..(images - 1)
      /\ left_img(i) \in Images \ {i} /\ right_img(i) \in Images \ {i}
      /\ left_img(d) \in Images \ {d} /\ right_img(d) \in Images \ {d}
  BY Ring DEF Images
<1>2. left_img(i) = d <=> right_img(d) = i
  BY <1>1 DEF left_img, right_img
<1>3. right_img(i) = d <=> left_img(d) = i
  BY <1>1 DEF left_img, right_img
<1>4. Calls[n].to \in {"left", "right"} /\ Calls[n].what \in {"coor", "total"}
  BY DEF Calls
<1> QED
  BY <1>1, <1>2, <1>3, <1>4 DEF Dest, Source

LEMMA CountStep ==
    ASSUME NEW i, NEW d
    PROVE  /\ Count(i, d, 0) = 0
           /\ \A n \in 0..4 : Count(i, d, n) \in 0..n
           /\ \A n \in 1..4 : Count(i, d, n) = Count(i, d, n - 1) + (IF Dest(i, n) = d THEN 1 ELSE 0)
BY DEF Count, Once

LEMMA CountMonotone ==
    ASSUME NEW i, NEW d, NEW m \in 0..4, NEW n \in 0..4, m <= n
    PROVE  /\ Count(i, d, m) <= Count(i, d, n)
           /\ m < n /\ Dest(i, n) = d => Count(i, d, m) < Count(i, d, n)
BY DEF Count, Once

\* The number of images is fixed, and so are the neighbours.
LEMMA Fixed ==
    ASSUME UNCHANGED images
    PROVE  /\ Images' = Images /\ Last' = Last
           /\ \A i, n : Dest(i, n)' = Dest(i, n) /\ Source(i, n)' = Source(i, n)
           /\ \A i, d, n : Count(i, d, n)' = Count(i, d, n)
BY DEF Images, Last, Dest, Source, Count, Once, left_img, right_img

LEMMA TypesOf ==
    ASSUME TypeOK, NEW i \in Images, \A j \in Images : Counted(j)
    PROVE  /\ images \in ImageCounts
           /\ neb_step[i] \in 0..max_steps /\ sent[i] \in 0..4 /\ max_steps \in Nat
           /\ received[i] \in Seq(Message) /\ Len(received[i]) \in 0..4
           /\ Len(received[i]) <= sent[i] /\ sent[i] <= Len(received[i]) + 1
           /\ meetings[i] \in Nat
           /\ \A d \in Images : chan[<<i, d>>] \in Seq(Message)
           /\ \A s : Got(i, s) \in 0..4
<1>1. /\ images \in ImageCounts
      /\ neb_step[i] \in 0..max_steps /\ sent[i] \in 0..4 /\ max_steps \in Nat
      /\ received[i] \in Seq(Message)
      /\ Len(received[i]) <= sent[i] /\ sent[i] <= Len(received[i]) + 1
      /\ meetings[i] \in Nat
      /\ \A d \in Images : chan[<<i, d>>] \in Seq(Message)
  BY CountsAssumption DEF TypeOK, Counted
<1>2. Len(received[i]) \in 0..4
  <2> DEFINE n == Len(received[i])
  <2>1. n \in Nat
    BY <1>1, LenProperties
  <2>2. sent[i] \in 0..4 /\ n <= sent[i]
    BY <1>1
  <2> HIDE DEF n
  <2>3. n \in 0..4
    BY <2>1, <2>2
  <2> QED
    BY <2>3 DEF n
<1> QED
  BY <1>1, <1>2 DEF Got
-----------------------------------------------------------------------------
(* Messages *)

\* Call n of image f, as its neighbour finds it
Msg(f, n) == [what |-> Calls[n].what, img |-> f, step |-> neb_step[f]]

LEMMA MsgType ==
    ASSUME TypeOK, NEW f \in Images, NEW n \in 1..4, \A j \in Images : Counted(j)
    PROVE  Msg(f, n) \in Message
<1>1. Calls[n].what \in {"coor", "total"}
  BY RingCalls, TypesOf
<1>2. f \in -1..images /\ neb_step[f] \in 0..max_steps
  BY TypesOf, Ring DEF Images
<1> QED
  BY <1>1, <1>2 DEF Msg, Message

LEMMA SendMakesWay ==
    ASSUME ExchangeInv, NEW i \in Images, Send(i), NEW x \in Images, NEW d \in Images
    PROVE  OnTheWay(x, d)'
<1> DEFINE n == sent[i] + 1
           to == Dest(i, n)
           g  == Got(d, neb_step[x])
           c  == chan[<<x, d>>]
<1>1. /\ TypeOK /\ \A j \in Images : Counted(j) /\ OnTheWay(x, d)
  BY DEF ExchangeInv
<1>2. /\ UNCHANGED <<images, neb_step, received>>
      /\ n \in 1..4 /\ sent' = [sent EXCEPT ![i] = n]
      /\ chan' = [chan EXCEPT ![<<i, to>>] = Append(@, Msg(i, n))]
  <2>1. sent[i] \in 0..4 /\ sent[i] < 4
    BY <1>1, TypesOf DEF Send
  <2>2. n \in 1..4
    BY <2>1
  <2> QED
    BY <2>2 DEF Send, Msg
<1>3. /\ Images' = Images
      /\ \A k : Dest(x, k)' = Dest(x, k) /\ Count(x, d, k)' = Count(x, d, k)
      /\ \A s : Got(d, s)' = Got(d, s)
  BY <1>2, Fixed DEF Got
<1>4. to \in Images /\ g \in 0..4 /\ c \in Seq(Message) /\ sent[x] \in 0..4 /\ sent[i] \in 0..4
  BY <1>1, <1>2, TypesOf, RingCalls
<1>5. <<i, to>> \in Images \X Images /\ sent \in [Images -> 0..4]
      /\ chan \in [Images \X Images -> Seq(Message)]
  BY <1>1, <1>4 DEF TypeOK
<1>6. CASE x # i
  <2>1. chan'[<<x, d>>] = c /\ sent'[x] = sent[x]
    BY <1>2, <1>4, <1>5, <1>6
  <2> QED
    BY <1>1, <1>2, <1>3, <2>1 DEF OnTheWay
<1>7. CASE x = i /\ d # to
  <2>1. chan'[<<x, d>>] = c /\ sent'[x] = n
    BY <1>2, <1>4, <1>5, <1>7
  <2>2. Count(x, d, n) = Count(x, d, sent[x]) /\ Dest(x, n) # d
    BY <1>2, <1>4, <1>7, CountStep
  <2>3. \A k \in 1..4 : k <= n /\ Dest(x, k) = d => k <= sent[x]
    BY <1>2, <1>4, <1>7, <2>2
  <2>4. neb_step'[x] = neb_step[x] /\ neb_step'[d] = neb_step[d]
    BY <1>2
  <2>5. Len(chan'[<<x, d>>]) = Count(x, d, n) - Count(x, d, g)
    BY <1>1, <2>1, <2>2 DEF OnTheWay
  <2>6. \A k \in 1..4 : g < k /\ k <= n /\ Dest(x, k) = d =>
            chan'[<<x, d>>][Count(x, d, k) - Count(x, d, g)] = Msg(x, k)
    BY <1>1, <2>1, <2>3 DEF OnTheWay, Msg
  <2>7. neb_step[d] > neb_step[x] => Count(x, d, Got(d, neb_step[d])) = 0
    BY <1>1 DEF OnTheWay
  <2> QED
    BY <1>3, <2>1, <2>4, <2>5, <2>6, <2>7 DEF OnTheWay, Msg
<1>8. CASE x = i /\ d = to
  <2>1. chan'[<<x, d>>] = Append(c, Msg(i, n)) /\ sent'[x] = n
    BY <1>2, <1>4, <1>5, <1>8
  <2>2. Count(x, d, n) = Count(x, d, sent[x]) + 1 /\ Dest(x, n) = d
    BY <1>2, <1>4, <1>8, CountStep
  <2>3. Msg(i, n) \in Message
    BY <1>1, <1>2, MsgType
  <2>4. Len(c) = Count(x, d, sent[x]) - Count(x, d, g)
    BY <1>1 DEF OnTheWay
  <2>5. /\ Len(Append(c, Msg(i, n))) = Len(c) + 1
        /\ \A k \in 1..Len(c) : Append(c, Msg(i, n))[k] = c[k]
        /\ Append(c, Msg(i, n))[Len(c) + 1] = Msg(i, n)
    BY <1>4, <2>3, AppendProperties
  <2>6. /\ Count(x, d, g) \in Int /\ Count(x, d, sent[x]) \in Int
        /\ \A k \in 1..4 : Count(x, d, k) \in Int
    <3>1. \A k \in 0..4 : Count(x, d, k) \in Int
      BY CountStep
    <3> QED
      BY <1>4, <1>8, <3>1
  <2>7. ASSUME NEW k \in 1..4, g < k, k <= n, Dest(x, k) = d
        PROVE  Append(c, Msg(i, n))[Count(x, d, k) - Count(x, d, g)] = Msg(i, k)
    <3>1. CASE k = n
      BY <2>2, <2>4, <2>5, <2>6, <3>1
    <3>2. CASE k < n
      <4>1. k <= sent[x] /\ Count(x, d, k) <= Count(x, d, sent[x]) /\ Count(x, d, g) < Count(x, d, k)
        BY <1>2, <1>4, <1>8, <2>7, <3>2, CountMonotone
      <4>2. Count(x, d, k) - Count(x, d, g) \in 1..Len(c)
        BY <4>1, <2>4, <2>6
      <4>3. c[Count(x, d, k) - Count(x, d, g)] = Msg(i, k)
        BY <1>1, <1>8, <2>7, <4>1 DEF OnTheWay, Msg
      <4> QED
        BY <4>2, <4>3, <2>5
    <3>3. k = n \/ k < n
      BY <1>2, <2>7
    <3> QED
      BY <3>1, <3>2, <3>3
  <2>8. neb_step[d] > neb_step[x] => Count(x, d, Got(d, neb_step[d])) = 0
    BY <1>1 DEF OnTheWay
  <2>9. Len(chan'[<<x, d>>]) = Count(x, d, n) - Count(x, d, g)
    BY <2>1, <2>2, <2>4, <2>5, <2>6
  <2>10. \A k \in 1..4 : g < k /\ k <= n /\ Dest(x, k) = d =>
            chan'[<<x, d>>][Count(x, d, k) - Count(x, d, g)] = Msg(x, k)
    BY <1>8, <2>1, <2>7
  <2>11. neb_step'[x] = neb_step[x] /\ neb_step'[d] = neb_step[d] /\ sent'[x] = n
    BY <1>2, <2>1
  <2> QED
    BY <1>3, <2>11, <2>8, <2>9, <2>10 DEF OnTheWay, Msg
<1> QED
  BY <1>6, <1>7, <1>8

LEMMA PlaceType ==
    ASSUME NEW i \in Images
    PROVE  /\ Place(i) \in 0..5
           /\ pc[i] = "exchange" => Place(i) = 0
           /\ pc[i] # "exchange" /\ neb_step[i] < max_steps => Place(i) > 0
BY DEF Place

\* The message that an image finds is that of the call that it is in.
LEMMA FindsItsCall ==
    ASSUME ExchangeInv, NEW i \in Images, Receive(i)
    PROVE  LET f == Source(i, sent[i])
           IN  /\ f \in Images /\ Dest(f, sent[i]) = i /\ sent[i] \in 1..4
               /\ Len(received[i]) = sent[i] - 1
               /\ neb_step[f] = neb_step[i] /\ sent[i] <= sent[f]
               /\ chan[<<f, i>>] # << >>
               /\ Head(chan[<<f, i>>]) = Msg(f, sent[i])
<1> DEFINE n == sent[i]
           f == Source(i, n)
           c == chan[<<f, i>>]
<1>1. /\ TypeOK /\ \A j \in Images : Counted(j)
      /\ pc[i] = "exchange" /\ Len(received[i]) < n /\ c # << >>
  BY DEF ExchangeInv, Receive
<1>2. n \in 1..4 /\ Len(received[i]) = n - 1
  BY <1>1, TypesOf
<1>3. f \in Images /\ Dest(f, n) = i
  <2>1. images \in ImageCounts
    BY <1>1, TypesOf
  <2>2. f \in Images
    BY <1>2, <2>1, RingCalls
  <2> QED
    BY <1>2, <2>1, <2>2, RingCalls
<1>4. c \in Seq(Message) /\ Len(c) \in Nat \ {0} /\ Head(c) = c[1]
  <2>1. c \in Seq(Message)
    BY <1>1, <1>3, TypesOf
  <2> QED
    BY <1>1, <2>1, EmptySeq, LenProperties
<1>5. Len(c) = Count(f, i, sent[f]) - Count(f, i, Got(i, neb_step[f]))
  BY <1>3 DEF ExchangeInv, OnTheWay
<1>6. neb_step[f] = neb_step[i]
  <2>1. /\ neb_step[f] \in Nat /\ neb_step[i] \in Nat /\ neb_step[i] < max_steps
        /\ max_steps \in Nat /\ meetings[i] = 4 * neb_step[i]
        /\ meetings[f] = 4 * neb_step[f] + Place(f) /\ Place(f) \in 0..5
    BY <1>1, <1>3, TypesOf, PlaceType DEF Counted, Working
  <2>2. meetings[i] <= meetings[f] /\ meetings[f] <= meetings[i] + 1
    BY <1>1, <1>3 DEF ExchangeInv, Near
  <2>3. CASE neb_step[f] < neb_step[i]
    <3>1. sent[f] = 4 /\ Got(i, neb_step[f]) = 4
      BY <1>1, <1>3, <2>1, <2>2, <2>3, PlaceType DEF Counted, Got
    <3> QED
      BY <1>4, <1>5, <3>1, CountStep
  <2> QED
    BY <2>1, <2>2, <2>3
<1>7. Got(i, neb_step[f]) = n - 1
  BY <1>2, <1>6 DEF Got
<1>8. sent[f] \in 0..4 /\ n - 1 \in 0..4
  BY <1>1, <1>2, <1>3, TypesOf
<1>9. n <= sent[f]
  <2>1. SUFFICES ASSUME sent[f] <= n - 1 PROVE FALSE
    BY <1>2, <1>8
  <2>2. Count(f, i, sent[f]) <= Count(f, i, n - 1)
    BY <1>8, <2>1, CountMonotone
  <2>3. Count(f, i, sent[f]) \in Int /\ Count(f, i, n - 1) \in Int
    BY <1>8, CountStep
  <2> QED
    BY <1>4, <1>5, <1>7, <2>2, <2>3
<1>10. Count(f, i, n) - Count(f, i, n - 1) = 1
  <2>1. Count(f, i, n) = Count(f, i, n - 1) + 1 /\ Count(f, i, n - 1) \in Int
    BY <1>2, <1>3, <1>8, CountStep
  <2> QED
    BY <2>1
<1>11. c[1] = Msg(f, n)
  <2>1. c[Count(f, i, n) - Count(f, i, n - 1)] = Msg(f, n)
    <3>1. OnTheWay(f, i)
      BY <1>3 DEF ExchangeInv
    <3>2. n - 1 < n
      BY <1>2
    <3> HIDE DEF n, f
    <3> QED
      BY <1>2, <1>3, <1>7, <1>9, <3>1, <3>2 DEF OnTheWay, Msg
  <2> QED
    BY <2>1, <1>10
<1> QED
  BY <1>1, <1>2, <1>3, <1>4, <1>6, <1>9, <1>11

\* What is left to show of the messages on their way after a step
LEMMA OnTheWayAgain ==
    ASSUME UNCHANGED images, NEW x \in Images, NEW d \in Images,
           NEW g, Got(d, neb_step[x])' = g,
           Len(chan'[<<x, d>>]) = Count(x, d, sent'[x]) - Count(x, d, g),
           \A n \in 1..4 : g < n /\ n <= sent'[x] /\ Dest(x, n) = d =>
              chan'[<<x, d>>][Count(x, d, n) - Count(x, d, g)] = Msg(x, n)',
           neb_step'[d] > neb_step'[x] => Count(x, d, Got(d, neb_step[d])') = 0
    PROVE  OnTheWay(x, d)'
<1>1. \A n : Dest(x, n)' = Dest(x, n) /\ Count(x, d, n)' = Count(x, d, n)
  BY Fixed
<1> QED
  BY <1>1 DEF OnTheWay, Msg

LEMMA ReceiveMakesWay ==
    ASSUME ExchangeInv, NEW i \in Images, Receive(i), NEW x \in Images, NEW d \in Images
    PROVE  OnTheWay(x, d)'
<1> DEFINE n == sent[i]
           f == Source(i, n)
           g == Got(d, neb_step[x])
           c == chan[<<x, d>>]
<1>1. /\ TypeOK /\ \A j \in Images : Counted(j) /\ OnTheWay(x, d)
  BY DEF ExchangeInv
<1>2. /\ f \in Images /\ Dest(f, n) = i /\ n \in 1..4
      /\ Len(received[i]) = n - 1
      /\ neb_step[f] = neb_step[i] /\ n <= sent[f]
      /\ chan[<<f, i>>] # << >> /\ Head(chan[<<f, i>>]) = Msg(f, n)
  BY FindsItsCall
<1>3. /\ UNCHANGED <<images, neb_step, sent>>
      /\ received' = [received EXCEPT ![i] = Append(@, Head(chan[<<f, i>>]))]
      /\ chan' = [chan EXCEPT ![<<f, i>>] = Tail(@)]
  BY DEF Receive
<1>31. UNCHANGED images
  BY <1>3
<1>4. /\ Images' = Images
      /\ \A k : Dest(x, k)' = Dest(x, k) /\ Count(x, d, k)' = Count(x, d, k)
  BY <1>3, Fixed
<1>5. /\ c \in Seq(Message) /\ g \in 0..4 /\ sent[x] \in 0..4
      /\ chan \in [Images \X Images -> Seq(Message)] /\ received \in [Images -> Seq(Message)]
      /\ neb_step[x] \in Int /\ neb_step[i] \in Int
  <2>1. c \in Seq(Message) /\ g \in 0..4 /\ sent[x] \in 0..4
    BY <1>1, TypesOf
  <2>2. neb_step[x] \in Int /\ neb_step[i] \in Int
    BY <1>1, TypesOf
  <2> QED
    BY <1>1, <2>1, <2>2 DEF TypeOK
<1>6. neb_step'[x] = neb_step[x] /\ neb_step'[d] = neb_step[d] /\ sent'[x] = sent[x]
  BY <1>3
<1>7. CASE d # i
  <2>1. chan'[<<x, d>>] = c /\ received'[d] = received[d]
    BY <1>3, <1>5, <1>2, <1>7
  <2>2. \A s : Got(d, s)' = Got(d, s)
    BY <1>6, <2>1 DEF Got
  <2>3. \A k : Msg(x, k)' = Msg(x, k)
    BY <1>6 DEF Msg
  <2>4. Got(d, neb_step[x])' = g /\ Got(d, neb_step[d])' = Got(d, neb_step[d])
    BY <1>6, <2>2
  <2>5. Len(chan'[<<x, d>>]) = Count(x, d, sent'[x]) - Count(x, d, g)
    BY <1>1, <1>6, <2>1 DEF OnTheWay
  <2>6. \A k \in 1..4 : g < k /\ k <= sent'[x] /\ Dest(x, k) = d =>
            chan'[<<x, d>>][Count(x, d, k) - Count(x, d, g)] = Msg(x, k)'
    BY <1>1, <1>6, <2>1, <2>3 DEF OnTheWay, Msg
  <2>7. neb_step'[d] > neb_step'[x] => Count(x, d, Got(d, neb_step[d])') = 0
    BY <1>1, <1>6, <2>4 DEF OnTheWay
  <2> HIDE DEF g
  <2> QED
    BY <1>31, <2>4, <2>5, <2>6, <2>7, OnTheWayAgain
<1>8. d = i => /\ Len(received'[d]) = n
               /\ Got(d, neb_step[d])' = n
               /\ Got(d, neb_step[x])' = IF neb_step[x] = neb_step[i] THEN n ELSE g
  <2>1. SUFFICES ASSUME d = i
                 PROVE  /\ Len(received'[d]) = n
                        /\ Got(d, neb_step[d])' = n
                        /\ Got(d, neb_step[x])' = IF neb_step[x] = neb_step[i] THEN n ELSE g
    OBVIOUS
  <2>2. Msg(f, n) \in Message
    BY <1>1, <1>2, MsgType
  <2>3. received'[i] = Append(received[i], Msg(f, n))
    BY <1>2, <1>3, <1>5
  <2>4. Len(received'[i]) = n
    BY <1>2, <1>5, <2>2, <2>3, AppendProperties, SMTT(30)
  <2> QED
    BY <1>6, <2>1, <2>4 DEF Got
<1>9. CASE d = i /\ x # f
  <2>1. chan'[<<x, d>>] = c
    BY <1>3, <1>5, <1>2, <1>9
  <2>2. Dest(x, n) # d
    BY <1>1, <1>2, <1>9, RingCalls, TypesOf
  <2>3. Count(x, d, n) = Count(x, d, n - 1)
    BY <1>2, <2>2, CountStep
  <2>4. Count(x, d, Got(d, neb_step[x])') = Count(x, d, g) /\ Got(d, neb_step[x])' >= g
    <3>1. CASE neb_step[x] = neb_step[i]
      <4>1. g = n - 1 /\ Got(d, neb_step[x])' = n
        BY <1>2, <1>8, <1>9, <3>1 DEF Got
      <4> QED
        BY <1>2, <2>3, <4>1
    <3>2. CASE neb_step[x] # neb_step[i]
      BY <1>5, <1>8, <1>9, <3>2
    <3> QED
      BY <3>1, <3>2
  <2>5. neb_step[d] > neb_step[x] => Count(x, d, Got(d, neb_step[d])') = 0
    BY <1>1, <1>2, <1>8, <1>9, <2>3 DEF OnTheWay, Got
  <2>6. Len(c) = Count(x, d, sent[x]) - Count(x, d, Got(d, neb_step[x])')
    BY <1>1, <2>4 DEF OnTheWay
  <2>7. \A k \in 1..4 : Got(d, neb_step[x])' < k /\ k <= sent[x] /\ Dest(x, k) = d =>
            c[Count(x, d, k) - Count(x, d, Got(d, neb_step[x])')] = Msg(x, k)
    <3>1. Got(d, neb_step[x])' \in Int
      BY <1>2, <1>5, <1>8, <1>9
    <3>2. SUFFICES ASSUME NEW k \in 1..4, Got(d, neb_step[x])' < k, k <= sent[x], Dest(x, k) = d
                   PROVE  c[Count(x, d, k) - Count(x, d, g)] = Msg(x, k)
      BY <2>4
    <3>3. g < k
      BY <1>5, <2>4, <3>1, <3>2
    <3> QED
      BY <1>1, <3>2, <3>3 DEF OnTheWay, Msg
  <2> QED
    BY <1>4, <1>6, <2>1, <2>5, <2>6, <2>7 DEF OnTheWay, Msg
<1>10. CASE d = i /\ x = f
  <2>1. c # << >> /\ neb_step[x] = neb_step[d] /\ Got(d, neb_step[x])' = n /\ g = n - 1
    BY <1>2, <1>8, <1>10 DEF Got
  <2>2. /\ chan'[<<x, d>>] = Tail(c)
        /\ Len(Tail(c)) = Len(c) - 1
        /\ \A k \in 1..Len(Tail(c)) : Tail(c)[k] = c[k + 1]
    BY <1>2, <1>3, <1>5, <1>10, HeadTailProperties
  <2>3. /\ Count(x, d, n) = Count(x, d, n - 1) + 1
        /\ \A k \in 0..4 : Count(x, d, k) \in Int
    BY <1>2, <1>10, CountStep
  <2> DEFINE m(k) == Count(x, d, k)
             l == Len(c)
             t == Len(Tail(c))
  <2>40. n \in 0..4 /\ n - 1 \in 0..4 /\ sent[x] \in 0..4
    BY <1>2, <1>5
  <2>4. l = m(sent[x]) - m(n - 1)
    BY <1>1, <2>1 DEF OnTheWay
  <2>41. /\ m(n) \in Int /\ m(n - 1) \in Int /\ m(sent[x]) \in Int
         /\ \A k \in 1..4 : m(k) \in Int
    BY <2>3, <2>40
  <2>42. m(n) = m(n - 1) + 1 /\ t = l - 1
    BY <2>2, <2>3
  <2>43. \A k \in 1..4 : n < k /\ k <= sent[x] /\ Dest(x, k) = d =>
            /\ m(n) < m(k) /\ m(k) <= m(sent[x])
    BY <2>40, CountMonotone
  <2>5. t = m(sent[x]) - m(n)
    <3> HIDE DEF m, n, l, t
    <3> QED
      BY <2>4, <2>41, <2>42
  <2>6. ASSUME NEW k \in 1..4, n < k, k <= sent[x], Dest(x, k) = d
        PROVE  Tail(c)[m(k) - m(n)] = Msg(x, k)
    <3>1. m(k) - m(n) \in 1..t /\ m(k) - m(n) + 1 = m(k) - m(n - 1)
      <4>1. m(k) \in Int /\ m(n) < m(k) /\ m(k) <= m(sent[x])
        BY <2>41, <2>43, <2>6
      <4> HIDE DEF m, n, l, t
      <4> QED
        BY <2>41, <2>42, <2>5, <4>1
    <3>2. c[m(k) - m(n - 1)] = Msg(x, k)
      <4>1. g < k
        BY <1>2, <2>1, <2>6
      <4> QED
        BY <1>1, <2>1, <2>6, <4>1 DEF OnTheWay, Msg
    <3> QED
      BY <2>2, <3>1, <3>2
  <2>7. ~ neb_step[d] > neb_step[x]
    BY <1>5, <1>10, <2>1
  <2> QED
    <3>1. \A k : Msg(x, k)' = Msg(x, k)
      BY <1>6 DEF Msg
    <3>2. Got(d, neb_step[x])' = n
      BY <2>1
    <3>3. Len(chan'[<<x, d>>]) = Count(x, d, sent'[x]) - Count(x, d, n)
      BY <1>6, <2>2, <2>5
    <3>4. \A k \in 1..4 : n < k /\ k <= sent'[x] /\ Dest(x, k) = d =>
              chan'[<<x, d>>][Count(x, d, k) - Count(x, d, n)] = Msg(x, k)'
      BY <1>6, <2>2, <2>6, <3>1
    <3>5. ~ (neb_step'[d] > neb_step'[x])
      BY <1>6, <2>7
    <3> HIDE DEF n
    <3> QED
      BY <1>31, <3>2, <3>3, <3>4, <3>5, OnTheWayAgain
<1> QED
  BY <1>7, <1>9, <1>10

\* When an image moves, the others have received all that it has sent.
LEMMA MovesAfterAll ==
    ASSUME ExchangeInv, NEW i \in Images, Move(i), NEW d \in Images
    PROVE  /\ sent[i] = 4 /\ Len(received[i]) = 4 /\ Got(d, neb_step[i]) = 4
           /\ neb_step[d] \in {neb_step[i], neb_step[i] + 1}
<1>1. /\ TypeOK /\ \A j \in Images : Counted(j)
      /\ pc[i] = "move"
  BY DEF ExchangeInv, Move
<1>2. /\ neb_step[d] \in Nat /\ neb_step[i] \in Nat /\ neb_step[i] < max_steps
      /\ max_steps \in Nat /\ meetings[i] = 4 * neb_step[i] + 4
      /\ meetings[d] = 4 * neb_step[d] + Place(d) /\ Place(d) \in 0..5
      /\ sent[i] = 4 /\ Len(received[i]) = 4
  <2>1. neb_step[d] \in Nat /\ neb_step[i] \in Nat /\ max_steps \in Nat
    BY <1>1, TypesOf
  <2>2. neb_step[i] < max_steps /\ Place(i) = 4
    BY <1>1 DEF Counted, Working, Place
  <2>3. Place(d) \in 0..5
    BY PlaceType
  <2> QED
    BY <1>1, <2>1, <2>2, <2>3 DEF Counted
<1>3. meetings[i] <= meetings[d] /\ meetings[d] <= meetings[i] + 1
  BY <1>1 DEF ExchangeInv, Near
<1>4. neb_step[d] \in {neb_step[i], neb_step[i] + 1}
  BY <1>2, <1>3
<1>5. neb_step[d] = neb_step[i] => Len(received[d]) = 4
  <2>1. SUFFICES ASSUME neb_step[d] = neb_step[i] PROVE Len(received[d]) = 4
    OBVIOUS
  <2>2. pc[d] # "exchange"
    BY <1>2, <1>3, <2>1, PlaceType
  <2> QED
    BY <1>1, <1>2, <2>1, <2>2 DEF Counted
<1> QED
  BY <1>2, <1>4, <1>5 DEF Got

LEMMA MoveMakesWay ==
    ASSUME ExchangeInv, NEW i \in Images, Move(i), NEW x \in Images, NEW d \in Images
    PROVE  OnTheWay(x, d)'
<1> DEFINE s == neb_step[i]
           c == chan[<<x, d>>]
<1>1. /\ TypeOK /\ \A j \in Images : Counted(j) /\ OnTheWay(x, d)
  BY DEF ExchangeInv
<1>2. /\ UNCHANGED <<images, chan>>
      /\ neb_step' = [neb_step EXCEPT ![i] = @ + 1]
      /\ sent' = [sent EXCEPT ![i] = 0]
      /\ received' = [received EXCEPT ![i] = << >>]
  BY DEF Move
<1>3. /\ Images' = Images
      /\ \A k : Dest(x, k)' = Dest(x, k) /\ Count(x, d, k)' = Count(x, d, k)
  BY <1>2, Fixed
<1>4. /\ neb_step \in [Images -> 0..max_steps] /\ sent \in [Images -> 0..4]
      /\ received \in [Images -> Seq(Message)]
      /\ s \in Nat /\ neb_step[x] \in Nat /\ neb_step[d] \in Nat
  <2>1. s \in Nat /\ neb_step[x] \in Nat /\ neb_step[d] \in Nat
    BY <1>1, TypesOf
  <2> QED
    BY <1>1, <2>1 DEF TypeOK
<1>5. \A j \in Images : /\ neb_step'[j] = IF j = i THEN s + 1 ELSE neb_step[j]
                        /\ sent'[j] = IF j = i THEN 0 ELSE sent[j]
                        /\ received'[j] = IF j = i THEN << >> ELSE received[j]
  BY <1>2, <1>4
<1>6. \A j \in Images : neb_step[j] \in {s, s + 1} /\ Got(j, s) = 4
  BY MovesAfterAll
<1>7. Len(c) = Count(x, d, sent[x]) - Count(x, d, Got(d, neb_step[x]))
  BY <1>1 DEF OnTheWay
<1>8. CASE x = i
  <2>1. sent[x] = 4 /\ Got(d, neb_step[x]) = 4
    BY <1>8, MovesAfterAll
  <2>2. Len(c) = 0
    BY <1>7, <2>1, CountStep
  <2>3. Count(x, d, Got(d, neb_step[x])') = 0
    <3>1. CASE d = i
      <4>1. \A k \in 1..4 : Dest(x, k) # d
        BY <1>1, <1>8, <3>1, RingCalls, TypesOf
      <4>2. \A k : Count(x, d, k) = 0
        BY <4>1 DEF Count, Once
      <4> QED
        BY <4>2
    <3>2. CASE d # i /\ neb_step[d] = s
      <4>1. Got(d, neb_step[x])' = 0
        BY <1>4, <1>5, <1>8, <3>2 DEF Got
      <4> QED
        BY <4>1, CountStep
    <3>3. CASE d # i /\ neb_step[d] = s + 1
      <4>1. Got(d, neb_step[x])' = Len(received[d]) /\ Got(d, neb_step[d]) = Len(received[d])
        BY <1>4, <1>5, <1>8, <3>3 DEF Got
      <4>2. neb_step[d] > neb_step[x]
        BY <1>4, <1>8, <3>3
      <4> QED
        BY <1>1, <4>1, <4>2 DEF OnTheWay
    <3> QED
      BY <1>6, <3>1, <3>2, <3>3
  <2>4. Count(x, d, sent[x]') = 0 /\ sent'[x] = 0
    BY <1>5, <1>8, CountStep
  <2>5. Got(d, neb_step[x])' >= 0 /\ Got(d, neb_step[x])' \in Int
    <3>1. Len(<< >>) = 0 /\ Len(received[d]) \in 0..4
      BY <1>1, TypesOf
    <3> QED
      BY <1>5, <3>1 DEF Got
  <2>6. ~ (neb_step'[d] > neb_step'[x])
    <3>1. neb_step'[x] = s + 1 /\ neb_step'[d] \in {s, s + 1}
      BY <1>5, <1>6, <1>8
    <3> QED
      BY <1>4, <3>1
  <2>7. ~ \E k \in 1..4 : Got(d, neb_step[x])' < k /\ k <= sent'[x]
    BY <2>4, <2>5
  <2>8. Len(chan'[<<x, d>>]) = 0
    BY <1>2, <2>2
  <2> QED
    BY <1>3, <2>3, <2>4, <2>6, <2>7, <2>8 DEF OnTheWay
<1>9. CASE x # i
  <2>1. neb_step'[x] = neb_step[x] /\ sent'[x] = sent[x]
    BY <1>5, <1>9
  <2>2. Got(d, neb_step[x])' = Got(d, neb_step[x])
    <3>1. CASE d = i /\ neb_step[x] = s
      <4>1. Got(d, neb_step[x])' = 4
        BY <1>4, <1>5, <1>9, <3>1 DEF Got
      <4> QED
        BY <1>6, <3>1, <4>1
    <3>2. CASE d = i /\ neb_step[x] = s + 1
      <4>1. Len(received'[d]) = 0
        BY <1>5, <3>2
      <4> QED
        BY <1>4, <1>5, <1>9, <3>2, <4>1 DEF Got
    <3>3. CASE d # i
      BY <1>5, <1>9, <3>3 DEF Got
    <3> QED
      BY <1>6, <3>1, <3>2, <3>3
  <2>3. neb_step'[d] > neb_step'[x] => Count(x, d, Got(d, neb_step[d])') = 0
    <3>1. CASE d = i
      <4>1. Got(d, neb_step[d])' = 0
        BY <1>5, <3>1 DEF Got
      <4> QED
        BY <4>1, CountStep
    <3>2. CASE d # i
      <4>1. Got(d, neb_step[d])' = Got(d, neb_step[d]) /\ neb_step'[d] = neb_step[d]
        BY <1>5, <3>2 DEF Got
      <4> QED
        BY <1>1, <2>1, <4>1 DEF OnTheWay
    <3> QED
      BY <3>1, <3>2
  <2>4. \A k \in 1..4 : Got(d, neb_step[x]) < k /\ k <= sent[x] /\ Dest(x, k) = d =>
            chan'[<<x, d>>][Count(x, d, k) - Count(x, d, Got(d, neb_step[x]))] = Msg(x, k)
    BY <1>1, <1>2 DEF OnTheWay, Msg
  <2>5. Len(chan'[<<x, d>>]) = Count(x, d, sent[x]) - Count(x, d, Got(d, neb_step[x]))
    BY <1>2, <1>7
  <2> QED
    BY <1>3, <2>1, <2>2, <2>3, <2>4, <2>5 DEF OnTheWay, Msg
<1> QED
  BY <1>8, <1>9

\* A step that leaves alone what images have exchanged
LEMMA StillOnTheWay ==
    ASSUME ExchangeInv, UNCHANGED <<images, chan, sent, neb_step>>,
           \A j \in Images : Len(received'[j]) = Len(received[j]),
           NEW x \in Images, NEW d \in Images
    PROVE  OnTheWay(x, d)'
<1>1. /\ Images' = Images
      /\ \A k : Dest(x, k)' = Dest(x, k) /\ Count(x, d, k)' = Count(x, d, k)
      /\ \A s : Got(d, s)' = Got(d, s)
  BY Fixed DEF Got
<1> QED
  BY <1>1 DEF ExchangeInv, OnTheWay
-----------------------------------------------------------------------------
(* Steps *)

LEMMA NearAfterCome ==
    ASSUME ExchangeInv, NEW i \in Images, NEW place, UNCHANGED images, Come(i), Goto(i, place),
           place \notin {"exchange", "save", "move", "finish", "done"}, Met(i)
    PROVE  \A x, y \in Images : Near(x, y)'
<1>1. /\ meetings \in [Images -> Int] /\ DOMAIN pc = Images
      /\ \A x, y \in Images : Near(x, y)
  BY CountsAssumption DEF ExchangeInv, TypeOK
<1>2. \A x \in Images : /\ pc'[x] = IF x = i THEN place ELSE pc[x]
                        /\ meetings'[x] = IF x = i THEN meetings[i] + 1 ELSE meetings[x]
                        /\ meetings[x] \in Int /\ meetings[i] <= meetings[x]
  BY <1>1 DEF Goto, Come, Met
<1> QED
  BY <1>1, <1>2 DEF Near

LEMMA NearAfterMet ==
    ASSUME ExchangeInv, NEW i \in Images, NEW place, UNCHANGED <<images, meetings>>,
           Goto(i, place), Met(i)
    PROVE  \A x, y \in Images : Near(x, y)'
<1>1. /\ meetings \in [Images -> Int] /\ DOMAIN pc = Images
      /\ \A x, y \in Images : Near(x, y)
  BY CountsAssumption DEF ExchangeInv, TypeOK
<1>2. \A x \in Images : /\ pc'[x] = IF x = i THEN place ELSE pc[x]
                        /\ meetings'[x] = meetings[x]
                        /\ meetings[x] \in Int /\ meetings[i] <= meetings[x]
  BY <1>1 DEF Goto, Met
<1> QED
  BY <1>1, <1>2 DEF Near

LEMMA HasMet ==
    ASSUME ExchangeInv, NEW i \in Images, pc[i] \in {"exchange", "save", "move", "finish", "done"}
    PROVE  Met(i)
<1>1. \A j \in Images : meetings[i] \in Int /\ meetings[j] \in Int /\ Near(i, j)
  BY CountsAssumption DEF ExchangeInv, TypeOK
<1> QED
  BY <1>1 DEF Near, Met

\* What a step does not touch of an image
LEMMA Untouched ==
    ASSUME NEW k, UNCHANGED <<images, pc[k], neb_step[k], received[k]>>,
           Received(k), Between(k)
    PROVE  Received(k)' /\ Between(k)'
<1>1. \A n : Source(k, n)' = Source(k, n)
  BY Fixed
<1>2. Received(k)'
  BY <1>1 DEF Received
<1>3. Images' = Images
  BY Fixed
<1>4. Between(k)'
  BY <1>3 DEF Between
<1> QED
  BY <1>2, <1>4

\* The restart file that an image writes, and the one that it keeps
LEMMA Written ==
    ASSUME TypeOK, NEW i \in Images, NEW s \in 0..max_steps, WriteRestart(i, s)
    PROVE  /\ file' \in [Images -> [cur : 0..max_steps, kept : 0..max_steps]]
           /\ \A k \in Images : file'[k] = IF k = i THEN [cur |-> s, kept |-> file[i].cur] ELSE file[k]
BY DEF TypeOK, WriteRestart

LEMMA CountedStill ==
    ASSUME NEW k, UNCHANGED <<pc[k], neb_step[k], sent[k], received[k], meetings[k]>>,
           Counted(k)
    PROVE  Counted(k)'
BY DEF Counted, Place, Working

\* The steps after the exchange and before the move
LEMMA AfterExchange ==
    ASSUME ExchangeInv, NEW i \in Images, NEW place, UNCHANGED <<images, chan, sent, neb_step, received>>,
           Goto(i, place), place \notin {"exchange", "start"}
    PROVE  /\ \A x, d \in Images : OnTheWay(x, d)'
           /\ \A d \in Images : Received(d)' /\ Between(d)'
<1>1. \A x, d \in Images : OnTheWay(x, d)'
  BY StillOnTheWay
<1>2. \A d \in Images : pc'[d] = IF d = i THEN place ELSE pc[d]
  BY DEF ExchangeInv, TypeOK, Goto
<1>3. ASSUME NEW d \in Images
      PROVE  Received(d)' /\ Between(d)'
  <2>1. CASE d = i
    BY <1>2, <2>1 DEF Received, Between
  <2>2. CASE d # i
    <3>1. UNCHANGED <<images, pc[d], neb_step[d], received[d]>>
      BY <1>2, <2>2
    <3> QED
      BY <3>1, Untouched DEF ExchangeInv
  <2> QED
    BY <2>1, <2>2
<1> QED
  BY <1>1, <1>3

\* What such a step has to show of its own: that the image is still counted and near
LEMMA AfterExchangeKeeps ==
    ASSUME ExchangeInv, NEW i \in Images, NEW place, UNCHANGED <<images, chan, sent, neb_step, received>>,
           Goto(i, place),
           place \in {"save", "quenched", "reduce", "reduced", "move", "finish", "finishing", "done"},
           NEW m \in Nat, meetings' = [meetings EXCEPT ![i] = m],
           file' \in [Images -> [cur : 0..max_steps, kept : 0..max_steps]],
           Counted(i)',
           relaxed' \in [Images -> BOOLEAN], all_frc' \in [Images -> [Images -> BOOLEAN]],
           \A x, y \in Images : Near(x, y)'
    PROVE  ExchangeInv'
<1>1. TypeOK /\ \A j \in Images : Counted(j)
  BY DEF ExchangeInv
<1>2. Images' = Images /\ Message' = Message
  BY DEF Images, Message
<1>3. \A k \in Images : /\ pc'[k] = (IF k = i THEN place ELSE pc[k])
                        /\ meetings'[k] = (IF k = i THEN m ELSE meetings[k])
  BY <1>1 DEF TypeOK, Goto
<1>4. \A k \in Images : Counted(k)'
  <2>1. ASSUME NEW k \in Images \ {i}
        PROVE  UNCHANGED <<pc[k], neb_step[k], sent[k], received[k], meetings[k]>>
    BY <1>3
  <2> QED
    BY <1>1, <2>1, CountedStill
<1>5. m \in 0..(4 * max_steps + 1)
  <2> DEFINE s == neb_step[i]
             q == Place(i)'
  <2>1. s \in 0..max_steps /\ max_steps \in Nat
    BY <1>1, TypesOf
  <2>2. q \in 0..5 /\ (s = max_steps => q \in 0..1)
    BY <1>3, <2>1 DEF Counted, Place, Working
  <2>3. m = 4 * s + q
    BY <1>3 DEF Counted
  <2> HIDE DEF s, q
  <2>4. s = max_steps \/ s + 1 <= max_steps
    BY <2>1
  <2> QED
    BY <2>1, <2>2, <2>3, <2>4
<1>6. TypeOK'
  <2>1. /\ meetings' \in [Images -> 0..(4 * max_steps + 1)]
        /\ pc' \in [Images -> {"exchange", "start", "save", "quenched", "reduce",
                               "reduced", "move", "finish", "finishing", "done"}]
    BY <1>1, <1>3, <1>5 DEF TypeOK, Goto
  <2> QED
    BY <1>1, <1>2, <2>1, Zenon DEF TypeOK
<1> QED
  BY <1>2, <1>4, <1>6, AfterExchange DEF ExchangeInv

LEMMA CheckpointKeeps ==
    ASSUME ExchangeInv, NEW i \in Images, Checkpoint(i)
    PROVE  ExchangeInv'
<1>1. /\ TypeOK /\ neb_step[i] \in 0..max_steps
      /\ UNCHANGED <<images, pc, neb_step, sent, received, chan, meetings, relaxed, all_frc>>
      /\ WriteRestart(i, neb_step[i])
  BY TypesOf DEF ExchangeInv, Checkpoint
<1>2. Images' = Images /\ Message' = Message
  BY <1>1 DEF Images, Message
<1>3. TypeOK'
  <2>1. file' \in [Images -> [cur : 0..max_steps, kept : 0..max_steps]]
    BY <1>1, Written
  <2> QED
    BY <1>1, <1>2, <2>1, Zenon DEF TypeOK
<1>4. \A k \in Images : Counted(k)' /\ Received(k)' /\ Between(k)'
  BY <1>1, Untouched, CountedStill DEF ExchangeInv
<1>5. \A x, y \in Images : Near(x, y)' /\ OnTheWay(x, y)'
  BY <1>1, StillOnTheWay DEF ExchangeInv, Near
<1> QED
  BY <1>2, <1>3, <1>4, <1>5 DEF ExchangeInv

LEMMA QuenchImageKeeps ==
    ASSUME ExchangeInv, NEW i \in Images, QuenchImage(i)
    PROVE  ExchangeInv'
<1> DEFINE place == "save"
<1>1. /\ TypeOK /\ \A j \in Images : Counted(j)
      /\ UNCHANGED <<images, chan, sent, neb_step, received>> /\ Goto(i, place)
      /\ place \in {"save", "quenched", "reduce", "reduced", "move", "finish", "finishing", "done"}
  BY DEF ExchangeInv, QuenchImage
<1>2. /\ pc[i] = "start" /\ pc'[i] = place
      /\ meetings[i] \in Nat /\ meetings' = [meetings EXCEPT ![i] = meetings[i]]
      /\ neb_step[i] \in 0..max_steps /\ max_steps \in Nat
  BY <1>1, TypesOf DEF QuenchImage, TypeOK, Goto
<1>3. /\ meetings'[i] = meetings[i]
      /\ UNCHANGED <<sent[i], neb_step[i], received[i]>> /\ Counted(i)
  BY <1>1, <1>2 DEF TypeOK
<1>4. Counted(i)'
  BY <1>2, <1>3, SMTT(30) DEF Counted, Place, Working
<1>5. relaxed' \in [Images -> BOOLEAN] /\ all_frc' \in [Images -> [Images -> BOOLEAN]]
  BY <1>1 DEF TypeOK, QuenchImage
<1>6. \A x, y \in Images : Near(x, y)'
  BY <1>1, NearAfterMet DEF QuenchImage
<1>7. meetings[i] \in Nat
      /\ file' \in [Images -> [cur : 0..max_steps, kept : 0..max_steps]]
  <2>1. WriteRestart(i, neb_step[i])
    BY DEF QuenchImage
  <2>2. file' \in [Images -> [cur : 0..max_steps, kept : 0..max_steps]]
    BY <1>1, <1>2, <2>1, Written
  <2> QED
    BY <1>2, <2>2
<1> HIDE DEF place
<1> QED
  BY <1>1, <1>2, <1>4, <1>5, <1>6, <1>7, AfterExchangeKeeps

LEMMA SaveImageKeeps ==
    ASSUME ExchangeInv, NEW i \in Images, SaveImage(i)
    PROVE  ExchangeInv'
<1> DEFINE place == "quenched"
<1>1. /\ TypeOK /\ \A j \in Images : Counted(j)
      /\ UNCHANGED <<images, chan, sent, neb_step, received>> /\ Goto(i, place)
      /\ place \in {"save", "quenched", "reduce", "reduced", "move", "finish", "finishing", "done"}
  BY DEF ExchangeInv, SaveImage
<1>2. /\ pc[i] = "save" /\ pc'[i] = place
      /\ meetings[i] \in Nat /\ meetings' = [meetings EXCEPT ![i] = meetings[i] + 1]
      /\ neb_step[i] \in 0..max_steps /\ max_steps \in Nat
  BY <1>1, TypesOf DEF SaveImage, Come, TypeOK, Goto
<1>3. /\ meetings'[i] = meetings[i] + 1
      /\ UNCHANGED <<sent[i], neb_step[i], received[i]>> /\ Counted(i)
  BY <1>1, <1>2 DEF TypeOK
<1>4. Counted(i)'
  BY <1>2, <1>3, SMTT(30) DEF Counted, Place, Working
<1>5. relaxed' \in [Images -> BOOLEAN] /\ all_frc' \in [Images -> [Images -> BOOLEAN]]
  BY <1>1 DEF TypeOK, SaveImage
<1>6. \A x, y \in Images : Near(x, y)'
  BY <1>1, <1>2, HasMet, NearAfterCome DEF SaveImage
<1>7. meetings[i] + 1 \in Nat
      /\ file' \in [Images -> [cur : 0..max_steps, kept : 0..max_steps]]
  <2>1. WriteRestart(i, neb_step[i])
    BY DEF SaveImage
  <2>2. file' \in [Images -> [cur : 0..max_steps, kept : 0..max_steps]]
    BY <1>1, <1>2, <2>1, Written
  <2> QED
    BY <1>2, <2>2
<1> HIDE DEF place
<1> QED
  BY <1>1, <1>2, <1>4, <1>5, <1>6, <1>7, AfterExchangeKeeps

LEMMA BeginReduceKeeps ==
    ASSUME ExchangeInv, NEW i \in Images, BeginReduce(i)
    PROVE  ExchangeInv'
<1> DEFINE place == "reduce"
<1>1. /\ TypeOK /\ \A j \in Images : Counted(j)
      /\ UNCHANGED <<images, chan, sent, neb_step, received>> /\ Goto(i, place)
      /\ place \in {"save", "quenched", "reduce", "reduced", "move", "finish", "finishing", "done"}
  BY DEF ExchangeInv, BeginReduce
<1>2. /\ pc[i] = "quenched" /\ pc'[i] = place
      /\ meetings[i] \in Nat /\ meetings' = [meetings EXCEPT ![i] = meetings[i] + 1]
      /\ neb_step[i] \in 0..max_steps /\ max_steps \in Nat
  BY <1>1, TypesOf DEF BeginReduce, Come, TypeOK, Goto
<1>3. /\ meetings'[i] = meetings[i] + 1
      /\ UNCHANGED <<sent[i], neb_step[i], received[i]>> /\ Counted(i)
  BY <1>1, <1>2 DEF TypeOK
<1>4. Counted(i)'
  BY <1>2, <1>3 DEF Counted, Place, Working
<1>5. relaxed' \in [Images -> BOOLEAN] /\ all_frc' \in [Images -> [Images -> BOOLEAN]]
  BY <1>1 DEF TypeOK, BeginReduce
<1>6. \A x, y \in Images : Near(x, y)'
  BY <1>1, HasMet, NearAfterCome DEF BeginReduce
<1>7. meetings[i] + 1 \in Nat
      /\ file' \in [Images -> [cur : 0..max_steps, kept : 0..max_steps]]
  BY <1>1, <1>2 DEF TypeOK, BeginReduce
<1> HIDE DEF place
<1> QED
  BY <1>1, <1>2, <1>4, <1>5, <1>6, <1>7, AfterExchangeKeeps

LEMMA EndReduceKeeps ==
    ASSUME ExchangeInv, NEW i \in Images, EndReduce(i)
    PROVE  ExchangeInv'
<1> DEFINE place == "reduced"
<1>1. /\ TypeOK /\ \A j \in Images : Counted(j)
      /\ UNCHANGED <<images, chan, sent, neb_step, received>> /\ Goto(i, place)
      /\ place \in {"save", "quenched", "reduce", "reduced", "move", "finish", "finishing", "done"}
  BY DEF ExchangeInv, EndReduce
<1>2. /\ pc[i] = "reduce" /\ pc'[i] = place
      /\ meetings[i] \in Nat /\ meetings' = [meetings EXCEPT ![i] = meetings[i] + 1]
      /\ neb_step[i] \in 0..max_steps /\ max_steps \in Nat
  BY <1>1, TypesOf DEF EndReduce, Come, TypeOK, Goto
<1>3. /\ meetings'[i] = meetings[i] + 1
      /\ UNCHANGED <<sent[i], neb_step[i], received[i]>> /\ Counted(i)
  BY <1>1, <1>2 DEF TypeOK
<1>4. Counted(i)'
  BY <1>2, <1>3 DEF Counted, Place, Working
<1>5. relaxed' \in [Images -> BOOLEAN] /\ all_frc' \in [Images -> [Images -> BOOLEAN]]
  BY <1>1 DEF TypeOK, EndReduce
<1>6. \A x, y \in Images : Near(x, y)'
  BY <1>1, HasMet, NearAfterCome DEF EndReduce
<1>7. meetings[i] + 1 \in Nat
      /\ file' \in [Images -> [cur : 0..max_steps, kept : 0..max_steps]]
  BY <1>1, <1>2 DEF TypeOK, EndReduce
<1> HIDE DEF place
<1> QED
  BY <1>1, <1>2, <1>4, <1>5, <1>6, <1>7, AfterExchangeKeeps

LEMMA DecideKeeps ==
    ASSUME ExchangeInv, NEW i \in Images, Decide(i)
    PROVE  ExchangeInv'
<1> DEFINE place == IF CONV_FORCE(i) THEN "finish" ELSE "move"
<1>1. /\ TypeOK /\ \A j \in Images : Counted(j)
      /\ UNCHANGED <<images, chan, sent, neb_step, received>> /\ Goto(i, place)
      /\ place \in {"save", "quenched", "reduce", "reduced", "move", "finish", "finishing", "done"}
  BY DEF ExchangeInv, Decide
<1>2. /\ pc[i] = "reduced" /\ pc'[i] = place
      /\ meetings[i] \in Nat /\ meetings' = [meetings EXCEPT ![i] = meetings[i]]
      /\ neb_step[i] \in 0..max_steps /\ max_steps \in Nat
  BY <1>1, TypesOf DEF Decide, TypeOK, Goto
<1>3. /\ meetings'[i] = meetings[i]
      /\ UNCHANGED <<sent[i], neb_step[i], received[i]>> /\ Counted(i)
  BY <1>1, <1>2 DEF TypeOK
<1>4. Counted(i)'
  BY <1>2, <1>3 DEF Counted, Place, Working
<1>5. relaxed' \in [Images -> BOOLEAN] /\ all_frc' \in [Images -> [Images -> BOOLEAN]]
  BY <1>1 DEF TypeOK, Decide
<1>6. \A x, y \in Images : Near(x, y)'
  BY <1>1, HasMet, NearAfterMet DEF Decide
<1>7. meetings[i] \in Nat
      /\ file' \in [Images -> [cur : 0..max_steps, kept : 0..max_steps]]
  BY <1>1, <1>2 DEF TypeOK, Decide
<1> HIDE DEF place
<1> QED
  BY <1>1, <1>2, <1>4, <1>5, <1>6, <1>7, AfterExchangeKeeps

LEMMA FinishKeeps ==
    ASSUME ExchangeInv, NEW i \in Images, Finish(i)
    PROVE  ExchangeInv'
<1> DEFINE place == "finishing"
<1>1. /\ TypeOK /\ \A j \in Images : Counted(j)
      /\ UNCHANGED <<images, chan, sent, neb_step, received>> /\ Goto(i, place)
      /\ place \in {"save", "quenched", "reduce", "reduced", "move", "finish", "finishing", "done"}
  BY DEF ExchangeInv, Finish
<1>2. /\ pc[i] = "finish" /\ pc'[i] = place
      /\ meetings[i] \in Nat /\ meetings' = [meetings EXCEPT ![i] = meetings[i] + 1]
      /\ neb_step[i] \in 0..max_steps /\ max_steps \in Nat
  BY <1>1, TypesOf DEF Finish, Come, TypeOK, Goto
<1>3. /\ meetings'[i] = meetings[i] + 1
      /\ UNCHANGED <<sent[i], neb_step[i], received[i]>> /\ Counted(i)
  BY <1>1, <1>2 DEF TypeOK
<1>4. Counted(i)'
  BY <1>2, <1>3 DEF Counted, Place, Working
<1>5. relaxed' \in [Images -> BOOLEAN] /\ all_frc' \in [Images -> [Images -> BOOLEAN]]
  BY <1>1 DEF TypeOK, Finish
<1>6. \A x, y \in Images : Near(x, y)'
  BY <1>1, HasMet, NearAfterCome DEF Finish
<1>7. meetings[i] + 1 \in Nat
      /\ file' \in [Images -> [cur : 0..max_steps, kept : 0..max_steps]]
  BY <1>1, <1>2 DEF TypeOK, Finish
<1> HIDE DEF place
<1> QED
  BY <1>1, <1>2, <1>4, <1>5, <1>6, <1>7, AfterExchangeKeeps

LEMMA ExitKeeps ==
    ASSUME ExchangeInv, NEW i \in Images, Exit(i)
    PROVE  ExchangeInv'
<1> DEFINE place == "done"
<1>1. /\ TypeOK /\ \A j \in Images : Counted(j)
      /\ UNCHANGED <<images, chan, sent, neb_step, received>> /\ Goto(i, place)
      /\ place \in {"save", "quenched", "reduce", "reduced", "move", "finish", "finishing", "done"}
  BY DEF ExchangeInv, Exit
<1>2. /\ pc[i] = "finishing" /\ pc'[i] = place
      /\ meetings[i] \in Nat /\ meetings' = [meetings EXCEPT ![i] = meetings[i]]
      /\ neb_step[i] \in 0..max_steps /\ max_steps \in Nat
  BY <1>1, TypesOf DEF Exit, TypeOK, Goto
<1>3. /\ meetings'[i] = meetings[i]
      /\ UNCHANGED <<sent[i], neb_step[i], received[i]>> /\ Counted(i)
  BY <1>1, <1>2 DEF TypeOK
<1>4. Counted(i)'
  BY <1>2, <1>3 DEF Counted, Place, Working
<1>5. relaxed' \in [Images -> BOOLEAN] /\ all_frc' \in [Images -> [Images -> BOOLEAN]]
  BY <1>1 DEF TypeOK, Exit
<1>6. \A x, y \in Images : Near(x, y)'
  BY <1>1, HasMet, NearAfterMet DEF Exit
<1>7. meetings[i] \in Nat
      /\ file' \in [Images -> [cur : 0..max_steps, kept : 0..max_steps]]
  BY <1>1, <1>2 DEF TypeOK, Exit
<1> HIDE DEF place
<1> QED
  BY <1>1, <1>2, <1>4, <1>5, <1>6, <1>7, AfterExchangeKeeps

LEMMA SendKeeps ==
    ASSUME ExchangeInv, NEW i \in Images, Send(i)
    PROVE  ExchangeInv'
<1> DEFINE n  == sent[i] + 1
           to == Dest(i, n)
<1>1. /\ TypeOK /\ \A j \in Images : Counted(j) /\ Received(j) /\ Between(j)
      /\ UNCHANGED <<images, pc, neb_step, received, meetings, relaxed, all_frc, file>>
      /\ pc[i] = "exchange" /\ sent[i] < 4 /\ Len(received[i]) = sent[i]
      /\ sent' = [sent EXCEPT ![i] = n]
      /\ chan' = [chan EXCEPT ![<<i, to>>] = Append(@, Msg(i, n))]
  BY DEF ExchangeInv, Send, Msg
<1>2. Images' = Images /\ Message' = Message
  BY <1>1 DEF Images, Message
<1>3. n \in 1..4 /\ sent[i] \in 0..4
  <2>1. sent[i] \in 0..4
    BY <1>1, TypesOf
  <2> QED
    BY <1>1, <2>1
<1>4. \A k \in Images : sent'[k] = IF k = i THEN n ELSE sent[k]
  BY <1>1 DEF TypeOK
<1>5. ASSUME NEW k \in Images
      PROVE  Counted(k)' /\ Received(k)' /\ Between(k)'
  <2>1. UNCHANGED <<images, pc[k], neb_step[k], received[k], meetings[k]>>
    BY <1>1
  <2>2. CASE k = i
    <3>1. Counted(i) /\ sent'[i] = n
      BY <1>1, <1>4
    <3>2. Counted(i)'
      BY <1>1, <1>3, <2>1, <2>2, <3>1 DEF Counted, Place, Working
    <3> QED
      BY <1>1, <2>1, <2>2, <3>2, Untouched
  <2>3. CASE k # i
    <3>1. sent'[k] = sent[k]
      BY <1>4, <2>3
    <3> QED
      BY <1>1, <2>1, <3>1, Untouched, CountedStill
  <2> QED
    BY <2>2, <2>3
<1>6. TypeOK'
  <2>1. sent' \in [Images -> 0..4] /\ \A j \in Images : Len(received[j]) <= sent'[j]
    BY <1>1, <1>3, <1>4 DEF TypeOK
  <2>2. chan' \in [Images \X Images -> Seq(Message)]
    <3>1. chan \in [Images \X Images -> Seq(Message)] /\ <<i, to>> \in Images \X Images
      BY <1>1, <1>3, RingCalls, TypesOf DEF TypeOK
    <3>2. Append(chan[<<i, to>>], Msg(i, n)) \in Seq(Message)
      BY <1>1, <1>3, <3>1, MsgType, AppendProperties
    <3> QED
      BY <1>1, <3>1, <3>2
  <2> QED
    BY <1>1, <1>2, <2>1, <2>2, Zenon DEF TypeOK
<1>7. \A x, y \in Images : Near(x, y)'
  BY <1>1 DEF ExchangeInv, Near
<1>8. \A x, d \in Images : OnTheWay(x, d)'
  BY SendMakesWay
<1> QED
  BY <1>2, <1>5, <1>6, <1>7, <1>8 DEF ExchangeInv

LEMMA ReceiveKeeps ==
    ASSUME ExchangeInv, NEW i \in Images, Receive(i)
    PROVE  ExchangeInv'
<1> DEFINE n == sent[i]
           f == Source(i, n)
           c == chan[<<f, i>>]
<1>1. /\ TypeOK /\ \A j \in Images : Counted(j) /\ Received(j) /\ Between(j)
      /\ UNCHANGED <<images, pc, neb_step, sent, meetings, relaxed, all_frc, file>>
      /\ pc[i] = "exchange"
      /\ received' = [received EXCEPT ![i] = Append(@, Head(c))]
      /\ chan' = [chan EXCEPT ![<<f, i>>] = Tail(@)]
  BY DEF ExchangeInv, Receive
<1>2. Images' = Images /\ Message' = Message
  BY <1>1 DEF Images, Message
<1>3. /\ f \in Images /\ n \in 1..4 /\ Len(received[i]) = n - 1
      /\ neb_step[f] = neb_step[i] /\ c # << >> /\ Head(c) = Msg(f, n)
  BY FindsItsCall
<1>4. /\ Msg(f, n) \in Message /\ received[i] \in Seq(Message)
      /\ received \in [Images -> Seq(Message)]
      /\ chan \in [Images \X Images -> Seq(Message)] /\ c \in Seq(Message)
  BY <1>1, <1>3, MsgType, TypesOf DEF TypeOK
<1>5. /\ \A k \in Images : received'[k] = IF k = i THEN Append(received[k], Msg(f, n)) ELSE received[k]
      /\ received'[i] \in Seq(Message)
      /\ Len(received'[i]) = n
      /\ \A k \in 1..(n - 1) : received'[i][k] = received[i][k]
      /\ received'[i][n] = Msg(f, n)
  <2>1. \A k \in Images : received'[k] = IF k = i THEN Append(received[k], Msg(f, n)) ELSE received[k]
    BY <1>1, <1>3, <1>4
  <2>2. /\ Append(received[i], Msg(f, n)) \in Seq(Message)
        /\ Len(Append(received[i], Msg(f, n))) = n - 1 + 1
        /\ \A k \in 1..(n - 1) : Append(received[i], Msg(f, n))[k] = received[i][k]
        /\ Append(received[i], Msg(f, n))[n - 1 + 1] = Msg(f, n)
    BY <1>3, <1>4, AppendProperties
  <2>3. n - 1 + 1 = n
    BY <1>3
  <2> QED
    BY <2>1, <2>2, <2>3
<1>6. ASSUME NEW k \in Images
      PROVE  Counted(k)' /\ Received(k)' /\ Between(k)'
  <2>1. UNCHANGED <<images, pc[k], neb_step[k], sent[k], meetings[k]>>
    BY <1>1
  <2>2. CASE k = i
    <3>1. Counted(i)'
      <4>1. Counted(i)
        BY <1>1
      <4> QED
        BY <1>1, <1>3, <1>5, <2>1, <2>2, <4>1 DEF Counted, Place, Working
    <3>2. Between(i)'
      BY <1>1 DEF Between
    <3>3. ASSUME NEW j \in 1..n
          PROVE  received'[i][j] = [what |-> Calls[j].what, img |-> Source(i, j), step |-> neb_step[i]]
      <4>1. CASE j = n
        BY <1>3, <1>5, <4>1 DEF Msg
      <4>2. CASE j # n
        <5>1. j \in 1..(n - 1) /\ j \in 1..Len(received[i])
          BY <1>3, <4>2
        <5> QED
          BY <1>1, <1>5, <5>1 DEF Received
      <4> QED
        BY <4>1, <4>2
    <3>4. \A j : Source(i, j)' = Source(i, j)
      BY <1>1, Fixed
    <3>5. Received(i)'
      BY <1>5, <2>1, <2>2, <3>3, <3>4 DEF Received
    <3> QED
      BY <2>2, <3>1, <3>2, <3>5
  <2>3. CASE k # i
    <3>1. received'[k] = received[k]
      BY <1>5, <2>3
    <3> QED
      BY <1>1, <2>1, <3>1, Untouched, CountedStill
  <2> QED
    BY <2>2, <2>3
<1>7. TypeOK'
  <2>1. received' \in [Images -> Seq(Message)]
    BY <1>1, <1>4, <1>5
  <2>2. \A j \in Images : Len(received'[j]) <= sent[j]
    <3>1. ASSUME NEW j \in Images
          PROVE  Len(received'[j]) <= sent[j]
      <4>1. CASE j = i
        BY <1>3, <1>5, <4>1
      <4>2. CASE j # i
        BY <1>1, <1>5, <4>2 DEF TypeOK
      <4> QED
        BY <4>1, <4>2
    <3> QED
      BY <3>1
  <2>3. chan' \in [Images \X Images -> Seq(Message)]
    <3>1. Tail(c) \in Seq(Message)
      BY <1>3, <1>4, HeadTailProperties
    <3> QED
      BY <1>1, <1>3, <1>4, <3>1
  <2> QED
    BY <1>1, <1>2, <2>1, <2>2, <2>3, Zenon DEF TypeOK
<1>8. \A x, y \in Images : Near(x, y)'
  BY <1>1 DEF ExchangeInv, Near
<1>9. \A x, d \in Images : OnTheWay(x, d)'
  BY ReceiveMakesWay
<1> QED
  BY <1>2, <1>6, <1>7, <1>8, <1>9 DEF ExchangeInv

LEMMA SetEndsKeeps ==
    ASSUME ExchangeInv, NEW i \in Images, SetEnds(i)
    PROVE  ExchangeInv'
<1> DEFINE side(n) == IF Calls[n].to = "left" THEN i + 1 ELSE i - 1
           msg(n)  == [what |-> Calls[n].what, img |-> side(n),
                       step |-> IF side(n) \in Images THEN neb_step[i] ELSE 0]
           ends    == [n \in 1..4 |->
               IF i = 0 /\ Calls[n].to = "right" THEN [received[i][n] EXCEPT !.img = -1, !.step = 0]
               ELSE IF i = images - 1 /\ Calls[n].to = "left"
               THEN [received[i][n] EXCEPT !.img = images, !.step = 0]
               ELSE received[i][n]]
<1>1. /\ TypeOK /\ \A j \in Images : Counted(j) /\ Received(j) /\ Between(j)
      /\ UNCHANGED <<images, neb_step, sent, chan, relaxed, all_frc, file>>
      /\ pc[i] = "exchange" /\ Len(received[i]) = 4
      /\ received' = [received EXCEPT ![i] = ends]
      /\ Come(i) /\ Goto(i, "start")
  BY DEF ExchangeInv, SetEnds
<1>2. Images' = Images /\ Message' = Message
  BY <1>1 DEF Images, Message
<1>3. /\ images \in Nat \ {0, 1} /\ i \in 0..(images - 1) /\ images \in ImageCounts
      /\ neb_step[i] \in 0..max_steps /\ max_steps \in Nat /\ sent[i] \in 0..4 /\ 4 <= sent[i]
  BY <1>1, TypesOf, Ring DEF Images
<1>4. ASSUME NEW n \in 1..4
      PROVE  ends[n] = msg(n) /\ msg(n) \in Message
  <2>1. received[i][n] = [what |-> Calls[n].what, img |-> Source(i, n), step |-> neb_step[i]]
    BY <1>1 DEF Received
  <2>2. Calls[n].to \in {"left", "right"} /\ Calls[n].what \in {"coor", "total"}
    BY DEF Calls
  <2> DEFINE w == Calls[n].what
             a == Source(i, n)
             b == neb_step[i]
             r == received[i][n]
  <2>21. ASSUME NEW c
         PROVE  [r EXCEPT !.img = c, !.step = 0] = [what |-> w, img |-> c, step |-> 0]
    <3> HIDE DEF w, a, b, r
    <3>1. [[what |-> w, img |-> a, step |-> b] EXCEPT !.img = c] = [what |-> w, img |-> c, step |-> b]
      OBVIOUS
    <3>2. [[what |-> w, img |-> c, step |-> b] EXCEPT !.step = 0] = [what |-> w, img |-> c, step |-> 0]
      OBVIOUS
    <3>3. [r EXCEPT !.img = c, !.step = 0] = [[r EXCEPT !.img = c] EXCEPT !.step = 0]
      BY Zenon
    <3>4. r = [what |-> w, img |-> a, step |-> b]
      BY <2>1 DEF r, w, a, b
    <3>5. [r EXCEPT !.img = c] = [[what |-> w, img |-> a, step |-> b] EXCEPT !.img = c]
      BY <3>4, Zenon
    <3> QED
      BY <3>1, <3>2, <3>3, <3>5, Zenon
  <2>3. CASE i = 0 /\ Calls[n].to = "right"
    <3>1. side(n) = -1 /\ side(n) \notin Images
      BY <1>3, <2>3 DEF Images
    <3>2. ends[n] = [what |-> Calls[n].what, img |-> -1, step |-> 0]
      <4>1. ends[n] = [received[i][n] EXCEPT !.img = -1, !.step = 0]
        BY <2>3
      <4> HIDE DEF ends
      <4>2. [received[i][n] EXCEPT !.img = -1, !.step = 0] = [what |-> Calls[n].what, img |-> -1, step |-> 0]
        BY <2>21, Zenon
      <4> QED
        BY <4>1, <4>2
    <3> QED
      BY <1>3, <2>2, <3>1, <3>2 DEF Message
  <2>4. CASE i = images - 1 /\ Calls[n].to = "left"
    <3>1. side(n) = images /\ side(n) \notin Images
      BY <1>3, <2>4 DEF Images
    <3>2. ends[n] = [what |-> Calls[n].what, img |-> images, step |-> 0]
      <4>1. ends[n] = [received[i][n] EXCEPT !.img = images, !.step = 0]
        BY <1>3, <2>4
      <4> HIDE DEF ends
      <4>2. [received[i][n] EXCEPT !.img = images, !.step = 0] = [what |-> Calls[n].what, img |-> images, step |-> 0]
        BY <2>21, Zenon
      <4> QED
        BY <4>1, <4>2
    <3> QED
      BY <1>3, <2>2, <3>1, <3>2 DEF Message
  <2>5. CASE ~ (i = 0 /\ Calls[n].to = "right") /\ ~ (i = images - 1 /\ Calls[n].to = "left")
    <3>1. Source(i, n) = side(n) /\ side(n) \in Images
      BY <1>3, <2>2, <2>5 DEF Source, left_img, right_img, Images
    <3>2. ends[n] = received[i][n]
      BY <2>5
    <3> QED
      BY <1>3, <2>1, <2>2, <3>1, <3>2 DEF Message, Images
  <2> QED
    BY <2>3, <2>4, <2>5
<1>5. ends \in Seq(Message) /\ Len(ends) = 4
  <2>1. ends \in [1..4 -> Message]
    BY <1>4
  <2> HIDE DEF ends
  <2>2. ends \in Seq(Message)
    BY <2>1, SeqDef
  <2>3. DOMAIN ends = 1..Len(ends) /\ Len(ends) \in Nat
    BY <2>2, LenProperties
  <2> QED
    BY <2>1, <2>2, <2>3
<1> HIDE DEF ends, msg
<1>6. \A k \in Images : /\ pc'[k] = IF k = i THEN "start" ELSE pc[k]
                        /\ received'[k] = IF k = i THEN ends ELSE received[k]
                        /\ meetings'[k] = IF k = i THEN meetings[i] + 1 ELSE meetings[k]
                        /\ meetings[k] \in Nat
  BY <1>1, TypesOf DEF TypeOK, Goto, Come
<1>7. ASSUME NEW k \in Images \ {i}
      PROVE  Counted(k)' /\ Received(k)' /\ Between(k)'
  <2>1. UNCHANGED <<images, pc[k], neb_step[k], sent[k], received[k], meetings[k]>>
    BY <1>1, <1>6
  <2> QED
    BY <1>1, <2>1, Untouched, CountedStill
<1>8. Counted(i)'
  <2>1. /\ pc'[i] = "start" /\ meetings'[i] = meetings[i] + 1 /\ meetings[i] \in Nat
        /\ UNCHANGED <<neb_step[i], sent[i]>> /\ Len(received'[i]) = 4
        /\ Counted(i) /\ sent[i] = 4
    BY <1>1, <1>3, <1>5, <1>6
  <2>2. Place(i) = 0 /\ Place(i)' = 1 /\ neb_step[i] < max_steps
    BY <1>1, <2>1 DEF Counted, Place, Working
  <2>3. meetings[i] = 4 * neb_step[i]
    BY <1>3, <2>1, <2>2 DEF Counted
  <2> QED
    BY <1>3, <2>1, <2>2, <2>3 DEF Counted, Working
<1>9. Received(i)'
  BY <1>6 DEF Received
<1>10. Between(i)'
  <2>1. \A n \in 1..4 : received'[i][n] = msg(n)
    BY <1>4, <1>6
  <2> QED
    BY <1>1, <1>2, <2>1 DEF Between, msg
<1>11. TypeOK'
  <2>1. received' \in [Images -> Seq(Message)] /\ \A j \in Images : Len(received'[j]) <= sent[j]
    <3>1. received' \in [Images -> Seq(Message)]
      BY <1>1, <1>5 DEF TypeOK
    <3>2. \A j \in Images : Len(received'[j]) <= sent[j]
      BY <1>1, <1>3, <1>5, <1>6 DEF TypeOK
    <3> QED
      BY <3>1, <3>2
  <2>2. pc' \in [Images -> {"exchange", "start", "save", "quenched", "reduce",
                            "reduced", "move", "finish", "finishing", "done"}]
    BY <1>1 DEF TypeOK, Goto
  <2>3. meetings' \in [Images -> 0..(4 * max_steps + 1)]
    <3>1. meetings[i] + 1 \in 0..(4 * max_steps + 1)
      <4>1. meetings[i] = 4 * neb_step[i] /\ neb_step[i] < max_steps
        BY <1>1, <1>3 DEF Counted, Place, Working
      <4> QED
        BY <1>3, <4>1
    <3> QED
      BY <1>1, <3>1 DEF TypeOK, Come
  <2> QED
    BY <1>1, <1>2, <2>1, <2>2, <2>3, Zenon DEF TypeOK
<1>12. \A x, y \in Images : Near(x, y)'
  BY <1>1, HasMet, NearAfterCome
<1>13. \A x, d \in Images : OnTheWay(x, d)'
  <2>1. \A j \in Images : Len(received'[j]) = Len(received[j])
    BY <1>1, <1>5, <1>6
  <2> QED
    BY <1>1, <2>1, StillOnTheWay
<1> QED
  BY <1>2, <1>7, <1>8, <1>9, <1>10, <1>11, <1>12, <1>13 DEF ExchangeInv

LEMMA MoveKeeps ==
    ASSUME ExchangeInv, NEW i \in Images, Move(i)
    PROVE  ExchangeInv'
<1> DEFINE s == neb_step[i]
           place == IF s + 1 < max_steps THEN "exchange" ELSE "finish"
<1>1. /\ TypeOK /\ \A j \in Images : Counted(j) /\ Received(j) /\ Between(j)
      /\ UNCHANGED <<images, chan, meetings, relaxed, all_frc>>
      /\ pc[i] = "move" /\ Goto(i, place)
      /\ WriteRestart(i, s + 1)
      /\ neb_step' = [neb_step EXCEPT ![i] = s + 1]
      /\ sent' = [sent EXCEPT ![i] = 0]
      /\ received' = [received EXCEPT ![i] = << >>]
  BY DEF ExchangeInv, Move
<1>2. Images' = Images /\ Message' = Message
  BY <1>1 DEF Images, Message
<1>3. /\ s \in 0..max_steps /\ max_steps \in Nat /\ s < max_steps
      /\ meetings[i] = 4 * s + 4
  <2>1. s \in 0..max_steps /\ max_steps \in Nat
    BY <1>1, TypesOf
  <2>2. Place(i) = 4 /\ s < max_steps
    BY <1>1 DEF Place, Working, Counted
  <2> QED
    BY <1>1, <2>1, <2>2 DEF Counted
<1>4. \A k \in Images : /\ pc'[k] = IF k = i THEN place ELSE pc[k]
                        /\ received'[k] = IF k = i THEN << >> ELSE received[k]
                        /\ neb_step'[k] = IF k = i THEN s + 1 ELSE neb_step[k]
                        /\ sent'[k] = IF k = i THEN 0 ELSE sent[k]
  BY <1>1 DEF TypeOK, Goto
<1>5. ASSUME NEW k \in Images \ {i}
      PROVE  Counted(k)' /\ Received(k)' /\ Between(k)'
  <2>1. UNCHANGED <<images, pc[k], neb_step[k], sent[k], received[k], meetings[k]>>
    BY <1>1, <1>4
  <2> QED
    BY <1>1, <2>1, Untouched, CountedStill
<1>6. Counted(i)' /\ Received(i)' /\ Between(i)'
  <2>1. /\ pc'[i] = place /\ received'[i] = << >> /\ Len(received'[i]) = 0
        /\ neb_step'[i] = s + 1 /\ sent'[i] = 0
        /\ meetings'[i] = 4 * s + 4
    BY <1>1, <1>3, <1>4
  <2>2. Counted(i)'
    <3>1. Place(i)' = 0 /\ (Working(i)' => s + 1 < max_steps) /\ ~ (s + 1 < max_steps /\ pc'[i] # "exchange")
      BY <2>1 DEF Place, Working
    <3> QED
      BY <1>3, <2>1, <3>1 DEF Counted
  <2> QED
    BY <2>1, <2>2 DEF Received, Between
<1>7. TypeOK'
  <2>1. /\ received' \in [Images -> Seq(Message)] /\ sent' \in [Images -> 0..4]
        /\ \A j \in Images : Len(received'[j]) <= sent'[j]
    <3>1. << >> \in Seq(Message) /\ Len(<< >>) = 0
      BY EmptySeq
    <3> QED
      BY <1>1, <1>4, <3>1 DEF TypeOK
  <2>2. pc' \in [Images -> {"exchange", "start", "save", "quenched", "reduce",
                            "reduced", "move", "finish", "finishing", "done"}]
    BY <1>1 DEF TypeOK, Goto
  <2>3. /\ neb_step' \in [Images -> 0..max_steps]
        /\ file' \in [Images -> [cur : 0..max_steps, kept : 0..max_steps]]
    <3>1. s + 1 \in 0..max_steps
      BY <1>3
    <3>2. file' \in [Images -> [cur : 0..max_steps, kept : 0..max_steps]]
      BY <1>1, <3>1, Written
    <3> QED
      BY <1>1, <3>1, <3>2 DEF TypeOK
  <2> QED
    BY <1>1, <1>2, <2>1, <2>2, <2>3, Zenon DEF TypeOK
<1>8. \A x, y \in Images : Near(x, y)'
  BY <1>1, HasMet, NearAfterMet
<1>9. \A x, d \in Images : OnTheWay(x, d)'
  BY MoveMakesWay
<1> QED
  BY <1>2, <1>5, <1>6, <1>7, <1>8, <1>9 DEF ExchangeInv

LEMMA InitExchange == Init => ExchangeInv
<1> SUFFICES ASSUME Init PROVE ExchangeInv
  OBVIOUS
<1>1. images \in Nat \ {0, 1} /\ max_steps \in Nat /\ << >> \in Seq(Message) /\ Len(<< >>) = 0
  BY CountsAssumption, EmptySeq DEF Init
<1>2. TypeOK
  BY <1>1 DEF Init, TypeOK
<1>3. \A i \in Images : Counted(i) /\ Received(i) /\ Between(i)
  BY <1>1 DEF Init, Counted, Place, Working, Received, Between
<1>4. \A i, j \in Images : Near(i, j)
  BY DEF Init, Near
<1>5. ASSUME NEW i \in Images, NEW d \in Images
      PROVE  OnTheWay(i, d)
  <2>1. /\ chan[<<i, d>>] = << >> /\ sent[i] = 0 /\ neb_step[i] = 0 /\ neb_step[d] = 0
        /\ Got(d, 0) = 0
    BY <1>1 DEF Init, Got
  <2> QED
    BY <1>1, <2>1, CountStep DEF OnTheWay
<1> QED
  BY <1>2, <1>3, <1>4, <1>5 DEF ExchangeInv

LEMMA StutterKeeps ==
    ASSUME ExchangeInv, UNCHANGED vars
    PROVE  ExchangeInv'
<1>1. UNCHANGED <<images, pc, neb_step, sent, received, chan, meetings, relaxed, all_frc, file>>
  BY DEF vars
<1>2. Images' = Images /\ Message' = Message
  BY <1>1 DEF Images, Message
<1>3. TypeOK'
  BY <1>1, <1>2, Zenon DEF ExchangeInv, TypeOK
<1>4. \A k \in Images : Counted(k)' /\ Received(k)' /\ Between(k)'
  BY <1>1, Untouched, CountedStill DEF ExchangeInv
<1>5. \A x, y \in Images : Near(x, y)' /\ OnTheWay(x, y)'
  BY <1>1, StillOnTheWay DEF ExchangeInv, Near
<1> QED
  BY <1>2, <1>3, <1>4, <1>5 DEF ExchangeInv

LEMMA NextExchange == ExchangeInv /\ [Next]_vars => ExchangeInv'
<1> SUFFICES ASSUME ExchangeInv, [Next]_vars PROVE ExchangeInv'
  OBVIOUS
<1>1. ASSUME NEW i \in Images, Image(i)
      PROVE  ExchangeInv'
  BY <1>1, SendKeeps, ReceiveKeeps, SetEndsKeeps, CheckpointKeeps, QuenchImageKeeps,
     SaveImageKeeps, BeginReduceKeeps, EndReduceKeeps, DecideKeeps, MoveKeeps, FinishKeeps, ExitKeeps DEF Image
<1>2. CASE UNCHANGED vars
  BY <1>2, StutterKeeps
<1>3. CASE Finished
  BY <1>2, <1>3 DEF Finished
<1> QED
  BY <1>1, <1>2, <1>3 DEF Next

\* What images have counted, sent and received is always consistent.
THEOREM ExchangeIsConsistent == Spec => []ExchangeInv
  BY InitExchange, NextExchange, PTL DEF Spec

\* Every variable of Neb keeps its type: for one, an image makes no more steps than
\* max_neb_steps, and comes to no more barriers than these have.
THEOREM NebTypeCorrect == Spec => []TypeOK
<1>1. ExchangeInv => TypeOK
  BY DEF ExchangeInv
<1> QED
  BY <1>1, ExchangeIsConsistent, PTL

\* The forces of an image are computed from its two neighbours in the same step, or
\* the fixed end in the place of one, however far the four MPI_Sendrecv of other
\* images have come, and whether or not the images stop together.
THEOREM NeighboursAreRight == Spec => []BetweenItsNeighbours
<1>1. ExchangeInv => BetweenItsNeighbours
  BY DEF ExchangeInv, Between, BetweenItsNeighbours
<1> QED
  BY <1>1, ExchangeIsConsistent, PTL
-----------------------------------------------------------------------------
(* Stopping *)

\* What the barriers tell of two images
LEMMA HowFar ==
    ASSUME ExchangeInv, NEW i \in Images, NEW j \in Images
    PROVE  /\ neb_step[i] \in Nat /\ neb_step[j] \in Nat /\ max_steps \in Nat
           /\ Place(i) \in 0..5 /\ Place(j) \in 0..5
           /\ 4 * neb_step[i] + Place(i) <= 4 * neb_step[j] + Place(j) + 1
           /\ 4 * neb_step[j] + Place(j) <= 4 * neb_step[i] + Place(i) + 1
           /\ Met(i) => 4 * neb_step[i] + Place(i) <= 4 * neb_step[j] + Place(j)
           /\ Converged(i) => Place(i) \in {4, 5}
           /\ ~ Working(i) /\ ~ Converged(i) => neb_step[i] = max_steps /\ Place(i) \in {0, 1}
           /\ Working(i) => neb_step[i] < max_steps
           /\ neb_step[i] <= max_steps
<1>1. TypeOK /\ Counted(i) /\ Counted(j) /\ Near(i, j) /\ Near(j, i)
  BY DEF ExchangeInv
<1>2. /\ neb_step[i] \in 0..max_steps /\ neb_step[j] \in 0..max_steps /\ max_steps \in Nat
      /\ Place(i) \in 0..5 /\ Place(j) \in 0..5
  BY <1>1, TypesOf, PlaceType DEF ExchangeInv
<1>3. pc[i] \in {"exchange", "start", "save", "quenched", "reduce", "reduced", "move", "finish", "finishing", "done"}
  BY <1>1 DEF TypeOK
<1>4. meetings[i] = 4 * neb_step[i] + Place(i) /\ meetings[j] = 4 * neb_step[j] + Place(j)
  BY <1>1 DEF Counted
<1>5. /\ meetings[i] <= meetings[j] + 1 /\ meetings[j] <= meetings[i] + 1
      /\ Met(i) => meetings[j] >= meetings[i]
  BY <1>1 DEF Near, Met
<1>6. /\ Converged(i) => Place(i) \in {4, 5}
      /\ ~ Working(i) /\ ~ Converged(i) => neb_step[i] = max_steps /\ Place(i) \in {0, 1}
      /\ Working(i) => neb_step[i] < max_steps
  BY <1>1, <1>2, <1>3 DEF Converged, Working, Place, Counted
<1> QED
  BY <1>2, <1>4, <1>5, <1>6

\* Steps that decide nothing and change no force
LEMMA AgreedStill ==
    ASSUME StopInv, UNCHANGED <<images, neb_step, relaxed, all_frc>>,
           \A k \in Images : /\ pc'[k] = "reduced" => pc[k] = "reduced"
                             /\ pc'[k] = "move" => pc[k] = "move"
                             /\ Converged(k)' => Converged(k)
    PROVE  Agreed' /\ StopTogether'
<1>1. Images' = Images /\ (Covered => Covered') /\ (AllRelaxed <=> AllRelaxed')
  BY DEF Images, Covered, AllRelaxed, Last
<1>2. Agreed'
  BY <1>1 DEF StopInv, Agreed
<1>3. StopTogether'
  BY <1>1 DEF StopInv, StopTogether, Converged
<1> QED
  BY <1>2, <1>3

LEMMA MostAgree ==
    ASSUME StopInv, NEW i \in Images,
           \/ Send(i) \/ Receive(i) \/ SetEnds(i) \/ Checkpoint(i) \/ SaveImage(i)
           \/ BeginReduce(i) \/ Finish(i) \/ Exit(i)
    PROVE  Agreed' /\ StopTogether'
<1>1. UNCHANGED <<images, neb_step, relaxed, all_frc>>
  BY DEF Send, Receive, SetEnds, Checkpoint, SaveImage, BeginReduce, Finish, Exit
<1>2. pc \in [Images -> {"exchange", "start", "save", "quenched", "reduce", "reduced",
                         "move", "finish", "finishing", "done"}]
  BY DEF StopInv, ExchangeInv, TypeOK
<1>3. \A k \in Images : /\ pc'[k] = "reduced" => pc[k] = "reduced"
                        /\ pc'[k] = "move" => pc[k] = "move"
                        /\ pc'[k] \in {"finish", "finishing", "done"} => pc[k] \in {"finish", "finishing", "done"}
  BY <1>2 DEF Send, Receive, SetEnds, Checkpoint, SaveImage, BeginReduce, Finish, Exit, Goto
<1>4. \A k \in Images : Converged(k)' => Converged(k)
  BY <1>1, <1>3 DEF Converged
<1> QED
  BY <1>1, <1>3, <1>4, AgreedStill

\* While an image waits for the forces of the next step to be computed, no other has
\* decided from those of the last one and not gone on.
LEMMA QuenchAgrees ==
    ASSUME StopInv, NEW i \in Images, QuenchImage(i)
    PROVE  Agreed' /\ StopTogether'
<1>1. /\ UNCHANGED <<images, neb_step, all_frc>> /\ pc[i] = "start" /\ Met(i)
      /\ Goto(i, "save") /\ ExchangeInv /\ TypeOK
  BY DEF StopInv, ExchangeInv, QuenchImage
<1>2. Images' = Images
  BY <1>1, Fixed
<1>3. \A k \in Images : pc'[k] = IF k = i THEN "save" ELSE pc[k]
  BY <1>1 DEF TypeOK, Goto
<1>4. Place(i) = 1
  BY <1>1 DEF Place
<1>5. ASSUME NEW k \in Images
      PROVE  pc[k] \notin {"reduced", "move"} /\ ~ Converged(k) /\ neb_step[k] = neb_step[i]
  <2>1. /\ neb_step[i] \in Nat /\ neb_step[k] \in Nat /\ Place(k) \in 0..5
        /\ 4 * neb_step[i] + 1 <= 4 * neb_step[k] + Place(k)
        /\ 4 * neb_step[k] + Place(k) <= 4 * neb_step[i] + 2
    BY <1>1, <1>4, HowFar
  <2>2. pc[k] \notin {"reduced", "move"}
    <3>1. SUFFICES ASSUME pc[k] \in {"reduced", "move"} PROVE FALSE
      OBVIOUS
    <3>2. Place(k) = 4
      BY <3>1 DEF Place
    <3> QED
      BY <2>1, <3>2
  <2>3. ~ Converged(k)
    <3>1. SUFFICES ASSUME Converged(k) PROVE FALSE
      OBVIOUS
    <3>2. neb_step[i] = neb_step[k]
      BY <3>1 DEF StopInv, StopTogether, Converged
    <3>3. Place(k) \in {4, 5}
      BY <1>1, <3>1, HowFar
    <3> QED
      BY <2>1, <3>2, <3>3
  <2>4. neb_step[k] = neb_step[i]
    <3>1. Place(k) \in 4..5 => Converged(k) \/ pc[k] \in {"reduced", "move"}
      BY <1>1 DEF Place, Converged, TypeOK
    <3>2. Place(k) \in 0..3
      BY <2>1, <2>2, <2>3, <3>1
    <3> QED
      BY <2>1, <3>2
  <2> QED
    BY <2>2, <2>3, <2>4
<1>6. \A k \in Images : neb_step[k] \in Int /\ neb_step'[k] = neb_step[k]
  BY <1>1, HowFar
<1>7. \A k \in Images : pc'[k] \notin {"reduced", "move"} /\ ~ Converged(k)'
  BY <1>3, <1>5, <1>6 DEF Converged
<1>8. \A j, k \in Images : ~ neb_step'[j] < neb_step'[k]
  BY <1>5, <1>6
<1>9. Agreed'
  BY <1>2, <1>7, <1>8 DEF Agreed
<1>10. StopTogether'
  BY <1>2, <1>7 DEF StopTogether, Converged
<1> QED
  BY <1>9, <1>10

\* The forces that an image has got are those that all others get.
LEMMA EndReduceAgrees ==
    ASSUME StopInv, NEW i \in Images, EndReduce(i), LastIsCovered'
    PROVE  Agreed' /\ StopTogether'
<1>1. /\ UNCHANGED <<images, neb_step, relaxed>> /\ pc[i] = "reduce" /\ Met(i)
      /\ Goto(i, "reduced") /\ all_frc' = [all_frc EXCEPT ![i] = relaxed]
      /\ ExchangeInv /\ TypeOK
  BY DEF StopInv, ExchangeInv, EndReduce
<1>2. Images' = Images /\ Last' = Last
  BY <1>1, Fixed
<1>3. \A k \in Images : /\ pc'[k] = IF k = i THEN "reduced" ELSE pc[k]
                        /\ all_frc'[k] = IF k = i THEN relaxed ELSE all_frc[k]
  BY <1>1 DEF TypeOK, Goto
<1>4. ASSUME NEW k \in Images
      PROVE  pc[k] \in {"reduce", "reduced"}
  <2>1. Place(i) = 3 /\ neb_step[i] < max_steps
    BY <1>1, HowFar DEF Place, Working
  <2>2. /\ neb_step[i] \in Nat /\ neb_step[k] \in Nat /\ Place(k) \in 0..5 /\ max_steps \in Nat
        /\ 4 * neb_step[i] + 3 <= 4 * neb_step[k] + Place(k)
        /\ 4 * neb_step[k] + Place(k) <= 4 * neb_step[i] + 4
    BY <1>1, <2>1, HowFar
  <2>3. pc[k] \in {"exchange", "save", "move", "finish", "done"} => Met(k)
    BY <1>1, HasMet
  <2>4. Met(k) => 4 * neb_step[k] + Place(k) <= 4 * neb_step[i] + 3
    BY <1>1, <2>1, HowFar
  <2>5. \/ Place(k) \in {3, 4} /\ neb_step[k] = neb_step[i]
        \/ Place(k) = 0 /\ neb_step[k] = neb_step[i] + 1
    <3> DEFINE s == neb_step[i]
               t == neb_step[k]
               q == Place(k)
    <3>1. q = 5 => s = t
      <4>1. q = 5 => Converged(k)
        BY <1>1, <2>2, SMTT(30) DEF Place, Converged, TypeOK
      <4> QED
        BY <4>1 DEF StopInv, StopTogether, Converged
    <3>2. s \in Nat /\ t \in Nat /\ q \in 0..5 /\ 4 * s + 3 <= 4 * t + q /\ 4 * t + q <= 4 * s + 4
      BY <2>2
    <3> HIDE DEF s, t, q
    <3>3. ~ t < s /\ (t = s => q \in {3, 4}) /\ (t > s => q = 0 /\ t = s + 1)
      BY <3>1, <3>2
    <3> QED
      BY <3>2, <3>3 DEF s, t, q
  <2>6. CASE Place(k) = 0
    <3>1. pc[k] \in {"exchange", "finish"}
      BY <1>1, <2>6 DEF Place, TypeOK
    <3> QED
      BY <2>2, <2>3, <2>4, <2>5, <2>6, <3>1
  <2>7. CASE Place(k) \in {3, 4}
    <3>1. pc[k] \in {"reduce", "reduced", "move", "finish"}
      BY <1>1, <2>7 DEF Place, TypeOK
    <3>2. Place(k) = 4 /\ pc[k] \in {"move", "finish"} => FALSE
      BY <2>2, <2>3, <2>4, <2>5
    <3>3. pc[k] \in {"move", "finish"} => Place(k) # 3
      BY DEF Place
    <3> QED
      BY <2>7, <3>1, <3>2, <3>3
  <2> QED
    BY <2>5, <2>6, <2>7
<1>5. Covered'
  <2>1. \A k \in Images' : pc'[k] \in {"save", "quenched", "reduce", "reduced"}
    BY <1>2, <1>3, <1>4
  <2> QED
    BY <2>1 DEF LastIsCovered, Covered
<1>6. \A k \in Images : pc'[k] = "reduced" => all_frc'[k] = relaxed'
  BY <1>1, <1>3 DEF StopInv, Agreed
<1>7. \A k \in Images : pc'[k] # "move" /\ ~ Converged(k)'
  BY <1>3, <1>4 DEF Converged
<1>8. \A j, k \in Images : neb_step'[j] < neb_step'[k] => ~ AllRelaxed'
  BY <1>1, <1>2 DEF StopInv, Agreed, AllRelaxed
<1>9. Agreed'
  BY <1>2, <1>5, <1>6, <1>7, <1>8 DEF Agreed
<1>10. StopTogether'
  BY <1>2, <1>7 DEF StopTogether, Converged
<1> QED
  BY <1>9, <1>10

\* CONV_FORCE says of all images what each of them says, even though it does not look
\* at the last one's force.
LEMMA ConvForceIsAllRelaxed ==
    ASSUME StopInv, NEW i \in Images, pc[i] = "reduced"
    PROVE  CONV_FORCE(i) <=> AllRelaxed
<1>1. all_frc[i] = relaxed /\ Covered /\ TypeOK
  BY DEF StopInv, ExchangeInv, Agreed
<1>2. images \in Nat \ {0, 1} /\ Images = 0..(images - 1) /\ Last = images - 1
  BY <1>1, CountsAssumption DEF TypeOK, Images, Last
<1>3. CONV_FORCE(i) <=> relaxed[i] /\ \A k \in 1..(images - 1) : relaxed[k - 1]
  BY <1>1 DEF CONV_FORCE
<1>4. ASSUME CONV_FORCE(i)
      PROVE  AllRelaxed
  <2>1. ASSUME NEW k \in Images \ {Last}
        PROVE  relaxed[k]
    <3>1. k + 1 \in 1..(images - 1) /\ (k + 1) - 1 = k
      BY <1>2
    <3> QED
      BY <1>3, <1>4, <3>1
  <2>2. relaxed[Last]
    BY <1>1, <2>1 DEF Covered
  <2> QED
    BY <2>1, <2>2 DEF AllRelaxed
<1>5. ASSUME AllRelaxed
      PROVE  CONV_FORCE(i)
  <2>1. \A k \in 1..(images - 1) : k - 1 \in Images
    BY <1>2
  <2> QED
    BY <1>3, <1>5, <2>1 DEF AllRelaxed
<1> QED
  BY <1>4, <1>5

LEMMA DecideAgrees ==
    ASSUME StopInv, NEW i \in Images, Decide(i)
    PROVE  Agreed' /\ StopTogether'
<1>1. /\ UNCHANGED <<images, neb_step, relaxed, all_frc>> /\ pc[i] = "reduced" /\ Met(i)
      /\ Goto(i, IF CONV_FORCE(i) THEN "finish" ELSE "move")
      /\ ExchangeInv /\ TypeOK
  BY DEF StopInv, ExchangeInv, Decide
<1>2. Images' = Images /\ Last' = Last
  BY <1>1, Fixed
<1>3. /\ \A k \in Images \ {i} : pc'[k] = pc[k]
      /\ CONV_FORCE(i) => pc'[i] = "finish"
      /\ ~ CONV_FORCE(i) => pc'[i] = "move"
  BY <1>1 DEF TypeOK, Goto
<1>4. CONV_FORCE(i) <=> AllRelaxed
  BY <1>1, ConvForceIsAllRelaxed
<1>5. (AllRelaxed' <=> AllRelaxed) /\ (Covered => Covered')
  BY <1>1, <1>2 DEF AllRelaxed, Covered
<1>6. \A k \in Images \ {i} : Converged(k)' => Converged(k)
  BY <1>1, <1>3 DEF Converged
<1>7. \A k \in Images : pc'[k] = "reduced" => all_frc'[k] = relaxed' /\ Covered'
  BY <1>1, <1>3, <1>5 DEF StopInv, Agreed
<1>8. \A k \in Images : Converged(k)' => AllRelaxed'
  <2>1. ASSUME NEW k \in Images, Converged(k)'
        PROVE  AllRelaxed
    <3>1. CASE k = i
      BY <1>3, <1>4, <2>1, <3>1 DEF Converged
    <3>2. CASE k # i
      BY <1>6, <2>1, <3>2 DEF StopInv, Agreed
    <3> QED
      BY <3>1, <3>2
  <2> QED
    BY <1>5, <2>1
<1>9. \A k \in Images : pc'[k] = "move" => ~ AllRelaxed'
  <2>1. ASSUME NEW k \in Images, pc'[k] = "move"
        PROVE  ~ AllRelaxed
    <3>1. CASE k = i
      BY <1>3, <1>4, <2>1, <3>1
    <3>2. CASE k # i
      BY <1>3, <2>1, <3>2 DEF StopInv, Agreed
    <3> QED
      BY <3>1, <3>2
  <2> QED
    BY <1>5, <2>1
<1>10. \A j, k \in Images : neb_step'[j] < neb_step'[k] => ~ AllRelaxed'
  BY <1>1, <1>5 DEF StopInv, Agreed
<1>11. Agreed'
  BY <1>2, <1>7, <1>8, <1>9, <1>10 DEF Agreed
<1>12. \A j, k \in Images : Converged(j)' => neb_step'[k] = neb_step'[j] /\ pc'[k] # "move"
  <2>1. \A k \in Images : neb_step[k] \in Nat
    BY <1>1, HowFar
  <2>2. ASSUME NEW j \in Images, NEW k \in Images, Converged(j)'
        PROVE  neb_step[k] = neb_step[j]
    BY <1>1, <1>5, <1>8, <2>1, <2>2 DEF StopInv, Agreed
  <2> QED
    BY <1>1, <1>8, <1>9, <2>2
<1>13. StopTogether'
  BY <1>2, <1>12 DEF StopTogether, Converged
<1> QED
  BY <1>11, <1>13

LEMMA MoveAgrees ==
    ASSUME StopInv, NEW i \in Images, Move(i)
    PROVE  Agreed' /\ StopTogether'
<1>1. /\ UNCHANGED <<images, relaxed, all_frc>> /\ pc[i] = "move"
      /\ Goto(i, IF neb_step[i] + 1 < max_steps THEN "exchange" ELSE "finish")
      /\ neb_step' = [neb_step EXCEPT ![i] = @ + 1]
      /\ ExchangeInv /\ TypeOK
  BY DEF StopInv, ExchangeInv, Move
<1>2. Images' = Images /\ Last' = Last
  BY <1>1, Fixed
<1>3. \A k \in Images \ {i} : pc'[k] = pc[k] /\ neb_step'[k] = neb_step[k]
  BY <1>1 DEF TypeOK, Goto
<1>4. pc'[i] \in {"exchange", "finish"} /\ (neb_step'[i] < max_steps => pc'[i] = "exchange")
  BY <1>1 DEF TypeOK, Goto
<1>5. (AllRelaxed' <=> AllRelaxed) /\ (Covered => Covered')
  BY <1>1, <1>2 DEF AllRelaxed, Covered
<1>6. ~ AllRelaxed
  BY <1>1 DEF StopInv, Agreed
<1>7. \A k \in Images : ~ Converged(k)
  BY <1>6 DEF StopInv, Agreed
<1>8. \A k \in Images : ~ Converged(k)'
  BY <1>3, <1>4, <1>7 DEF Converged
<1>9. \A k \in Images : pc'[k] = "reduced" => all_frc'[k] = relaxed' /\ Covered'
  BY <1>1, <1>3, <1>4, <1>5 DEF StopInv, Agreed
<1>10. Agreed'
  BY <1>2, <1>5, <1>6, <1>8, <1>9 DEF Agreed
<1>11. StopTogether'
  BY <1>2, <1>8 DEF StopTogether, Converged
<1> QED
  BY <1>10, <1>11

LEMMA InitStop == Init => StopInv
<1> SUFFICES ASSUME Init PROVE StopInv
  OBVIOUS
<1>1. ExchangeInv /\ max_steps \in Nat
  BY InitExchange, CountsAssumption
<1>2. \A i \in Images : neb_step[i] = 0 /\ pc[i] = (IF max_steps > 0 THEN "exchange" ELSE "finish")
  BY DEF Init
<1>3. \A i \in Images : ~ Converged(i) /\ pc[i] \notin {"reduced", "move"}
  BY <1>1, <1>2 DEF Converged
<1>4. Agreed
  BY <1>2, <1>3 DEF Agreed
<1>5. StopTogether
  BY <1>3 DEF StopTogether, Converged
<1> QED
  BY <1>1, <1>4, <1>5 DEF StopInv

LEMMA NextStop == StopInv /\ [Next /\ LastIsCovered']_vars => StopInv'
<1> SUFFICES ASSUME StopInv, [Next /\ LastIsCovered']_vars PROVE StopInv'
  OBVIOUS
<1>1. ExchangeInv'
  BY NextExchange DEF StopInv
<1>2. ASSUME NEW i \in Images, Image(i), LastIsCovered'
      PROVE  Agreed' /\ StopTogether'
  BY <1>2, MostAgree, QuenchAgrees, EndReduceAgrees, DecideAgrees, MoveAgrees DEF Image
<1>3. ASSUME UNCHANGED vars
      PROVE  Agreed' /\ StopTogether'
  <2>1. UNCHANGED <<images, neb_step, relaxed, all_frc>> /\ UNCHANGED pc
    BY <1>3 DEF vars
  <2>2. \A k \in Images : /\ pc'[k] = "reduced" => pc[k] = "reduced"
                          /\ pc'[k] = "move" => pc[k] = "move"
                          /\ Converged(k)' => Converged(k)
    BY <2>1 DEF Converged
  <2> QED
    BY <2>1, <2>2, AgreedStill
<1>4. Agreed' /\ StopTogether'
  <2>1. CASE Next /\ LastIsCovered'
    <3>1. CASE \E i \in Images : Image(i)
      BY <1>2, <2>1, <3>1
    <3>2. CASE Finished
      BY <1>3, <3>2, Zenon DEF Finished
    <3> QED
      BY <2>1, <3>1, <3>2 DEF Next
  <2> QED
    BY <1>3, <2>1, Zenon
<1> QED
  BY <1>1, <1>4 DEF StopInv

LEMMA StopInvHolds == MCSpec => []StopInv
<1>1. MCSpec => Init /\ [][Next /\ LastIsCovered']_vars
  BY PTL DEF MCSpec
<1> QED
  BY <1>1, InitStop, NextStop, PTL

\* If the last image is never the only one whose force is too large, the images stop
\* at the same step, although CONV_FORCE looks at the others' forces only.
THEOREM ImagesStopTogether == MCSpec => []StopTogether
<1>1. StopInv => StopTogether
  BY DEF StopInv
<1> QED
  BY <1>1, StopInvHolds, PTL

\* ... and then the forces of all images are below the threshold: without this
\* hypothesis the run neb_last_image shows that they are not.
THEOREM ConvergedIsRelaxed == MCSpec => []ConvergedMeansRelaxed
<1>1. StopInv => ConvergedMeansRelaxed
  BY DEF StopInv, Agreed, Converged, AllRelaxed, ConvergedMeansRelaxed
<1> QED
  BY <1>1, StopInvHolds, PTL

-----------------------------------------------------------------------------
(* Restart files *)

\* An image's file is of its step, from its first WriteRestart of a step on both are,
\* and no image keeps positions that another has not come to.
FileInv ==
    /\ \A i \in Images : file[i].cur = neb_step[i] /\ file[i].kept >= neb_step[i] - 1
    /\ \A i \in Images : pc[i] \in {"save", "quenched", "reduce", "reduced", "move"} =>
          file[i].kept = neb_step[i]
    /\ \A i, j \in Images : file[i].kept <= neb_step[j]

\* An image that has met the others at the barrier before the quench is not of a later
\* step than any of them.
LEMMA StartIsReached ==
    ASSUME StopInv, NEW i \in Images, pc[i] = "start", Met(i), NEW j \in Images
    PROVE  neb_step[i] <= neb_step[j]
<1>1. ExchangeInv /\ Place(i) = 1 /\ TypeOK
  BY DEF StopInv, ExchangeInv, Place
<1>2. /\ neb_step[i] \in Nat /\ neb_step[j] \in Nat /\ Place(j) \in 0..5
      /\ 4 * neb_step[i] + 1 <= 4 * neb_step[j] + Place(j)
  BY <1>1, HowFar
<1>3. Place(j) = 5 => neb_step[i] = neb_step[j]
  <2>1. Place(j) = 5 => Converged(j)
    BY <1>1 DEF Place, Converged, TypeOK
  <2> QED
    BY <2>1 DEF StopInv, StopTogether, Converged
<1> QED
  BY <1>2, <1>3

\* A WriteRestart while the step goes on
LEMMA WriteKeepsFiles ==
    ASSUME StopInv, FileInv, NEW i \in Images, UNCHANGED <<images, neb_step>>,
           WriteRestart(i, neb_step[i]), \A j \in Images : neb_step[i] <= neb_step[j],
           \A k \in Images \ {i} : pc'[k] = pc[k]
    PROVE  FileInv'
<1>1. TypeOK /\ neb_step[i] \in 0..max_steps /\ max_steps \in Nat /\ Images' = Images
  BY TypesOf, Fixed DEF StopInv, ExchangeInv
<1>2. \A k \in Images : neb_step[k] \in Int /\ neb_step'[k] = neb_step[k]
  BY <1>1 DEF TypeOK
<1>3. \A k \in Images \ {i} : file'[k] = file[k]
  BY <1>1, Written
<1>4. file'[i].cur = neb_step[i] /\ file'[i].kept = neb_step[i]
  <2>1. file'[i] = [cur |-> neb_step[i], kept |-> file[i].cur]
    BY <1>1, Written
  <2>2. file[i].cur = neb_step[i]
    BY DEF FileInv
  <2> QED
    BY <2>1, <2>2
<1> QED
  BY <1>1, <1>2, <1>3, <1>4 DEF FileInv

LEMMA MoveKeepsFiles ==
    ASSUME StopInv, FileInv, NEW i \in Images, Move(i)
    PROVE  FileInv'
<1>1. /\ TypeOK /\ neb_step[i] \in 0..max_steps /\ neb_step[i] < max_steps
      /\ max_steps \in Nat /\ Images' = Images
  BY TypesOf, Fixed DEF StopInv, ExchangeInv, Move, Counted, Working
<1>2. /\ \A k \in Images : neb_step[k] \in Int
      /\ \A k \in Images \ {i} : neb_step'[k] = neb_step[k] /\ pc'[k] = pc[k]
      /\ neb_step'[i] = neb_step[i] + 1 /\ pc'[i] \in {"exchange", "finish"}
  BY <1>1 DEF TypeOK, Move, Goto
<1>3. /\ \A k \in Images \ {i} : file'[k] = file[k]
      /\ file'[i].cur = neb_step[i] + 1 /\ file'[i].kept = neb_step[i]
  <2>1. neb_step[i] + 1 \in 0..max_steps
    BY <1>1
  <2>2. WriteRestart(i, neb_step[i] + 1)
    BY DEF Move
  <2>3. \A k \in Images : file'[k] = IF k = i THEN [cur |-> neb_step[i] + 1, kept |-> file[i].cur]
                                     ELSE file[k]
    BY <1>1, <2>1, <2>2, Written
  <2>4. file[i].cur = neb_step[i]
    BY DEF FileInv
  <2> QED
    BY <2>3, <2>4
<1>4. file[i].kept = neb_step[i] /\ \A j \in Images : neb_step[i] <= neb_step[j]
  BY DEF FileInv, Move
<1>5. \A j \in Images : file[j].kept \in Int
  BY <1>1 DEF TypeOK
<1> QED
  BY <1>1, <1>2, <1>3, <1>4, <1>5 DEF FileInv

LEMMA NextFiles == StopInv /\ FileInv /\ [Next /\ LastIsCovered']_vars => FileInv'
<1> SUFFICES ASSUME StopInv, FileInv, [Next]_vars PROVE FileInv'
  BY Zenon
<1>1. TypeOK
  BY DEF StopInv, ExchangeInv
<1>2. ASSUME NEW i \in Images, Checkpoint(i)
      PROVE  FileInv'
  BY <1>2, StartIsReached, WriteKeepsFiles DEF Checkpoint
<1>3. ASSUME NEW i \in Images, QuenchImage(i)
      PROVE  FileInv'
  <2>1. \A k \in Images \ {i} : pc'[k] = pc[k]
    BY <1>1, <1>3 DEF TypeOK, QuenchImage, Goto
  <2> QED
    BY <1>3, <2>1, StartIsReached, WriteKeepsFiles DEF QuenchImage
<1>4. ASSUME NEW i \in Images, SaveImage(i)
      PROVE  FileInv'
  <2>1. \A k \in Images \ {i} : pc'[k] = pc[k]
    BY <1>1, <1>4 DEF TypeOK, SaveImage, Goto
  <2>2. \A j \in Images : neb_step[i] <= neb_step[j]
    BY <1>4 DEF FileInv, SaveImage
  <2> QED
    BY <1>4, <2>1, <2>2, WriteKeepsFiles DEF SaveImage
<1>5. ASSUME UNCHANGED <<images, neb_step, file>>,
             \A k \in Images : pc'[k] \in {"save", "quenched", "reduce", "reduced", "move"} =>
                 pc[k] \in {"save", "quenched", "reduce", "reduced", "move"}
      PROVE  FileInv'
  <2>1. Images' = Images
    BY <1>5, Fixed
  <2> QED
    BY <1>5, <2>1 DEF FileInv
<1>6. ASSUME NEW i \in Images,
             \/ Send(i) \/ Receive(i) \/ SetEnds(i) \/ BeginReduce(i) \/ EndReduce(i)
             \/ Decide(i) \/ Finish(i) \/ Exit(i)
      PROVE  FileInv'
  <2>1. UNCHANGED <<images, neb_step, file>>
    BY <1>6 DEF Send, Receive, SetEnds, BeginReduce, EndReduce, Decide, Finish, Exit
  <2>2. \A k \in Images : pc'[k] \in {"save", "quenched", "reduce", "reduced", "move"} =>
            pc[k] \in {"save", "quenched", "reduce", "reduced", "move"}
    BY <1>1, <1>6
       DEF TypeOK, Goto, Send, Receive, SetEnds, BeginReduce, EndReduce, Decide, Finish, Exit
  <2> QED
    BY <1>5, <2>1, <2>2
<1>7. ASSUME UNCHANGED vars
      PROVE  FileInv'
  BY <1>5, <1>7 DEF vars
<1> QED
  BY <1>2, <1>3, <1>4, <1>6, <1>7, MoveKeepsFiles DEF Next, Image, Finished

LEMMA InitFiles == Init => FileInv
<1> SUFFICES ASSUME Init PROVE FileInv
  OBVIOUS
<1>1. \A i \in Images : neb_step[i] = 0 /\ file[i].cur = 0 /\ file[i].kept = 0
  BY DEF Init
<1> QED
  BY <1>1 DEF FileInv

\* Two images are at most one step apart, so the files, which are of the images'
\* steps, are; and where some image is a step behind, the others keep that step.
LEMMA FilesAreClose ==
    ASSUME StopInv, FileInv
    PROVE  RestartsAreClose
<1>1. ExchangeInv /\ TypeOK
  BY DEF StopInv, ExchangeInv
<1>2. \A k \in Images : file[k].cur = neb_step[k]
  BY DEF FileInv
<1>3. \A k \in Images : neb_step[k] \in 0..max_steps /\ file[k].kept \in 0..max_steps
  BY <1>1 DEF TypeOK
<1>4. ASSUME NEW i \in Images, NEW j \in Images
      PROVE  neb_step[i] <= neb_step[j] + 1
  <2> DEFINE s == neb_step[i]
             t == neb_step[j]
             p == Place(i)
             q == Place(j)
  <2>1. s \in Nat /\ t \in Nat /\ p \in 0..5 /\ q \in 0..5 /\ 4 * s + p <= 4 * t + q + 1
    BY <1>1, HowFar
  <2> HIDE DEF s, t, p, q
  <2>2. s <= t + 1
    BY <2>1
  <2> QED
    BY <2>2 DEF s, t
<1>5. ASSUME NEW j \in Images, \E i \in Images : neb_step[j] < neb_step[i]
      PROVE  \A k \in Images : neb_step[j] \in {file[k].cur, file[k].kept}
  <2>1. ASSUME NEW k \in Images
        PROVE  neb_step[j] \in {file[k].cur, file[k].kept}
    <3> DEFINE t == neb_step[j]
               s == neb_step[k]
               f == file[k].kept
    <3>1. PICK i \in Images : neb_step[j] < neb_step[i]
      BY <1>5
    <3> DEFINE u == neb_step[i]
    <3>2. /\ s \in Int /\ t \in Int /\ u \in Int /\ f \in Int
          /\ t < u /\ u <= s + 1 /\ s <= t + 1 /\ f <= t /\ f >= s - 1
      BY <1>3, <1>4, <3>1, CountsAssumption DEF FileInv
    <3> HIDE DEF s, t, u, f
    <3>3. t = s \/ t = f
      BY <3>2
    <3> QED
      BY <1>2, <3>3 DEF s, t, f
  <2> QED
    BY <2>1
<1>6. \E s \in 0..max_steps : \A i \in Images : s \in {file[i].cur, file[i].kept}
  <2>1. CASE \E i, j \in Images : neb_step[j] < neb_step[i]
    BY <1>3, <1>5, <2>1
  <2>2. CASE ~ \E i, j \in Images : neb_step[j] < neb_step[i]
    <3>1. Last \in Images
      BY <1>1, CountsAssumption DEF TypeOK, Images, Last
    <3>2. \A k \in Images : neb_step[k] = neb_step[Last]
      BY <1>3, <2>2, <3>1
    <3> QED
      BY <1>2, <1>3, <3>1, <3>2
  <2> QED
    BY <2>1, <2>2
<1> QED
  BY <1>2, <1>4, <1>6 DEF RestartsAreClose

\* Whatever the moment of a crash, and although an image writes its restart file two
\* times and at every checkpoint in the quench of a step, the files of the images are at
\* most one step apart, and with the files kept with _1 they are a band of one step.
THEOREM RestartFilesAreClose == MCSpec => []RestartsAreClose
<1>1. MCSpec => Init /\ [][Next /\ LastIsCovered']_vars
  BY PTL DEF MCSpec
<1>2. MCSpec => []FileInv
  BY <1>1, StopInvHolds, InitFiles, NextFiles, PTL
<1>3. StopInv /\ FileInv => RestartsAreClose
  BY FilesAreClose
<1> QED
  BY <1>2, <1>3, StopInvHolds, PTL
=============================================================================

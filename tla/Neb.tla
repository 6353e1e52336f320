-------------------------------- MODULE Neb --------------------------------
(***************************************************************************)
(* The nudged elastic band (RMG/Common/Neb.cpp): images of a system        *)
(* between an initial and a final one, each computed by processes of its   *)
(* own.  In each step an image exchanges coordinates and energies with its *)
(* two neighbours, computes its forces under the constraints that these    *)
(* make, learns the largest force of every image, and either stops or      *)
(* moves its ions.                                                         *)
(*                                                                         *)
(* An image is one process here: the processes of an image exchange with   *)
(* those of the same place in other images and compute the same forces.    *)
(* There are at least two images (InitPe4image makes no img_cross_comm for *)
(* one), with as many processes each.  Of a force only matters whether it  *)
(* is below thr_frc; of coordinates, which image's they are and of which   *)
(* step.  MPI is external: messages of a pair of processes with one tag    *)
(* keep their order, barriers and reductions wait for everyone.            *)
(***************************************************************************)
EXTENDS Integers, Sequences

CONSTANTS
    ImageCounts,    \* the numbers of images to look at
    max_steps       \* max_neb_steps of the input

ASSUME CountsAssumption == ImageCounts \subseteq Nat \ {0, 1} /\ max_steps \in Nat

VARIABLES
    images,
    pc,             \* per image
    neb_step,       \* per image
    sent,           \* calls of MPI_Sendrecv begun in this step
    received,       \* what they have returned, in order
    chan,           \* per pair of images: messages on the way
    meetings,       \* barriers and reductions that the image has come to
    relaxed,        \* is the largest force of the image below thr_frc
    all_frc,        \* the same of every image, as this image knows it
    file            \* per image: the step whose positions its restart file holds,
                    \* and the one before it, kept with _1 at the end of its name

vars == <<images, pc, neb_step, sent, received, chan, meetings, relaxed,
          all_frc, file>>

Images == 0..(images - 1)

\* The neighbours' processes: the images make a ring.
left_img(i)  == IF i = 0 THEN images - 1 ELSE i - 1
right_img(i) == IF i = images - 1 THEN 0 ELSE i + 1

\* The four calls of MPI_Sendrecv, in this order: to which side they send (they
\* receive from the other) and what.
Calls == << [to |-> "left",  what |-> "coor"],  [to |-> "right", what |-> "coor"],
            [to |-> "left",  what |-> "total"], [to |-> "right", what |-> "total"] >>

Dest(i, n)   == IF Calls[n].to = "left" THEN left_img(i) ELSE right_img(i)
Source(i, n) == IF Calls[n].to = "left" THEN right_img(i) ELSE left_img(i)

\* What a call returns, or what stands in its place: image -1 is the initial one
\* and image number images the final one.
Message == [what : {"coor", "total"}, img : -1..images, step : 0..max_steps]

TypeOK ==
    /\ images \in ImageCounts
    /\ pc \in [Images -> {"exchange", "start", "save", "quenched", "reduce",
                          "reduced", "move", "finish", "finishing", "done"}]
    /\ neb_step \in [Images -> 0..max_steps]
    /\ sent \in [Images -> 0..4]
    /\ received \in [Images -> Seq(Message)]
    /\ \A i \in Images : Len(received[i]) <= sent[i]
    /\ chan \in [Images \X Images -> Seq(Message)]
    /\ meetings \in [Images -> 0..(4 * max_steps + 1)]
    /\ relaxed \in [Images -> BOOLEAN]
    /\ all_frc \in [Images -> [Images -> BOOLEAN]]
    /\ file \in [Images -> [cur : 0..max_steps, kept : 0..max_steps]]

Init ==
    /\ images \in ImageCounts
    /\ pc = [i \in Images |-> IF max_steps > 0 THEN "exchange" ELSE "finish"]
    /\ neb_step = [i \in Images |-> 0]
    /\ sent = [i \in Images |-> 0]
    /\ received = [i \in Images |-> << >>]
    /\ chan = [p \in Images \X Images |-> << >>]
    /\ meetings = [i \in Images |-> 0]
    /\ relaxed = [i \in Images |-> FALSE]
    /\ all_frc = [i \in Images |-> [j \in Images |-> FALSE]]
    /\ file = [i \in Images |-> [cur |-> 0, kept |-> 0]]
-----------------------------------------------------------------------------
Goto(i, place) == pc' = [pc EXCEPT ![i] = place]

\* WriteRestart: the file there is gets the name with _1, and the positions, which
\* are those of step s, go to a new one.
WriteRestart(i, s) == file' = [file EXCEPT ![i] = [cur |-> s, kept |-> @.cur]]

\* Image i comes to a barrier or a reduction of all images ...
Come(i) == meetings' = [meetings EXCEPT ![i] = @ + 1]

\* ... and may go on when all have come to it.
Met(i) == \A j \in Images : meetings[j] >= meetings[i]

\* MPI_Sendrecv begins: its message goes off.
Send(i) ==
    /\ pc[i] = "exchange"
    /\ sent[i] < 4 /\ Len(received[i]) = sent[i]
    /\ LET n == sent[i] + 1
       IN  chan' = [chan EXCEPT ![<<i, Dest(i, n)>>] =
               Append(@, [what |-> Calls[n].what, img |-> i, step |-> neb_step[i]])]
    /\ sent' = [sent EXCEPT ![i] = @ + 1]
    /\ UNCHANGED <<images, pc, neb_step, received, meetings, relaxed, all_frc, file>>

\* MPI_Sendrecv returns with a message from the other side.
Receive(i) ==
    /\ pc[i] = "exchange"
    /\ Len(received[i]) < sent[i]
    /\ LET from == <<Source(i, sent[i]), i>>
       IN  /\ chan[from] # << >>
           /\ received' = [received EXCEPT ![i] = Append(@, Head(chan[from]))]
           /\ chan' = [chan EXCEPT ![from] = Tail(@)]
    /\ UNCHANGED <<images, pc, neb_step, sent, meetings, relaxed, all_frc, file>>

\* Mutation: the last image is not given the final one for its right neighbour
SetLeftEndOnly(i) ==
    /\ pc[i] = "exchange"
    /\ Len(received[i]) = 4
    /\ received' = [received EXCEPT ![i] = [n \in 1..4 |->
           IF i = 0 /\ Calls[n].to = "right" THEN [@[n] EXCEPT !.img = -1, !.step = 0]
           ELSE @[n]]]
    /\ Come(i)
    /\ Goto(i, "start")
    /\ UNCHANGED <<images, neb_step, sent, chan, relaxed, all_frc, file>>

\* The first image takes the initial one for its left neighbour, the last image
\* the final one for its right neighbour.  Then the barrier before the quench.
SetEnds(i) ==
    /\ pc[i] = "exchange"
    /\ Len(received[i]) = 4
    /\ received' = [received EXCEPT ![i] = [n \in 1..4 |->
           IF i = 0 /\ Calls[n].to = "right" THEN [@[n] EXCEPT !.img = -1, !.step = 0]
           ELSE IF i = images - 1 /\ Calls[n].to = "left"
           THEN [@[n] EXCEPT !.img = images, !.step = 0]
           ELSE @[n]]]
    /\ Come(i)
    /\ Goto(i, "start")
    /\ UNCHANGED <<images, neb_step, sent, chan, relaxed, all_frc, file>>

\* Quench writes the restart file at its checkpoints ...
Checkpoint(i) ==
    /\ pc[i] = "start"
    /\ Met(i)
    /\ WriteRestart(i, neb_step[i])
    /\ UNCHANGED <<images, pc, neb_step, sent, received, chan, meetings, relaxed,
                   all_frc>>

\* ... and once more at its end, with the forces of this step.
QuenchImage(i) ==
    /\ pc[i] = "start"
    /\ Met(i)
    /\ \E small \in BOOLEAN : relaxed' = [relaxed EXCEPT ![i] = small]
    /\ WriteRestart(i, neb_step[i])
    /\ Goto(i, "save")
    /\ UNCHANGED <<images, neb_step, sent, received, chan, meetings, all_frc>>

\* WriteRestart again, the largest force, and the barrier
SaveImage(i) ==
    /\ pc[i] = "save"
    /\ WriteRestart(i, neb_step[i])
    /\ Come(i)
    /\ Goto(i, "quenched")
    /\ UNCHANGED <<images, neb_step, sent, received, chan, relaxed, all_frc>>

\* The reductions of energies, forces and path lengths begin (as one) ...
BeginReduce(i) ==
    /\ pc[i] = "quenched"
    /\ Met(i)
    /\ Come(i)
    /\ Goto(i, "reduce")
    /\ UNCHANGED <<images, neb_step, sent, received, chan, relaxed, all_frc, file>>

\* ... and end with what all images have contributed.  Then the third barrier.
EndReduce(i) ==
    /\ pc[i] = "reduce"
    /\ Met(i)
    /\ all_frc' = [all_frc EXCEPT ![i] = relaxed]
    /\ Come(i)
    /\ Goto(i, "reduced")
    /\ UNCHANGED <<images, neb_step, sent, received, chan, relaxed, file>>

\* CONV_FORCE, which looks at all_frc[0..images-1].  The force of image img is in
\* all_frc[img + 1], and in all_frc[0] is zero.
CONV_FORCE(i) ==
    /\ relaxed[i]
    /\ \A k \in 1..(images - 1) : all_frc[i][k - 1]

\* Mutation: every image looks at its own force only
DecideAlone(i) ==
    /\ pc[i] = "reduced"
    /\ Met(i)
    /\ Goto(i, IF relaxed[i] THEN "finish" ELSE "move")
    /\ UNCHANGED <<images, neb_step, sent, received, chan, meetings, relaxed,
                   all_frc, file>>

\* if(CONV_FORCE) break;
Decide(i) ==
    /\ pc[i] = "reduced"
    /\ Met(i)
    /\ Goto(i, IF CONV_FORCE(i) THEN "finish" ELSE "move")
    /\ UNCHANGED <<images, neb_step, sent, received, chan, meetings, relaxed,
                   all_frc, file>>

\* Mutation: a step too many
MoveOnceMore(i) ==
    /\ pc[i] = "move"
    /\ WriteRestart(i, neb_step[i] + 1)
    /\ neb_step' = [neb_step EXCEPT ![i] = @ + 1]
    /\ sent' = [sent EXCEPT ![i] = 0]
    /\ received' = [received EXCEPT ![i] = << >>]
    /\ Goto(i, IF neb_step[i] + 1 <= max_steps THEN "exchange" ELSE "finish")
    /\ UNCHANGED <<images, chan, meetings, relaxed, all_frc>>

\* Mutation: a second WriteRestart after the move, as there are two after the quench
MoveAndSaveTwice(i) ==
    /\ pc[i] = "move"
    /\ file' = [file EXCEPT ![i] = [cur |-> neb_step[i] + 1, kept |-> neb_step[i] + 1]]
    /\ neb_step' = [neb_step EXCEPT ![i] = @ + 1]
    /\ sent' = [sent EXCEPT ![i] = 0]
    /\ received' = [received EXCEPT ![i] = << >>]
    /\ Goto(i, IF neb_step[i] + 1 < max_steps THEN "exchange" ELSE "finish")
    /\ UNCHANGED <<images, chan, meetings, relaxed, all_frc>>

\* Move the ions, WriteRestart, and the next step if there is one
Move(i) ==
    /\ pc[i] = "move"
    /\ WriteRestart(i, neb_step[i] + 1)
    /\ neb_step' = [neb_step EXCEPT ![i] = @ + 1]
    /\ sent' = [sent EXCEPT ![i] = 0]
    /\ received' = [received EXCEPT ![i] = << >>]
    /\ Goto(i, IF neb_step[i] + 1 < max_steps THEN "exchange" ELSE "finish")
    /\ UNCHANGED <<images, chan, meetings, relaxed, all_frc>>

\* finish, with its barrier (the second one is as the first)
Finish(i) ==
    /\ pc[i] = "finish"
    /\ Come(i)
    /\ Goto(i, "finishing")
    /\ UNCHANGED <<images, neb_step, sent, received, chan, relaxed, all_frc, file>>

Exit(i) ==
    /\ pc[i] = "finishing"
    /\ Met(i)
    /\ Goto(i, "done")
    /\ UNCHANGED <<images, neb_step, sent, received, chan, meetings, relaxed,
                   all_frc, file>>

Image(i) == \/ Send(i) \/ Receive(i) \/ SetEnds(i)
            \/ Checkpoint(i) \/ QuenchImage(i) \/ SaveImage(i)
            \/ BeginReduce(i) \/ EndReduce(i) \/ Decide(i) \/ Move(i)
            \/ Finish(i) \/ Exit(i)

Finished == (\A i \in Images : pc[i] = "done") /\ UNCHANGED vars

Next == (\E i \in Images : Image(i)) \/ Finished

Spec == Init /\ [][Next]_vars
-----------------------------------------------------------------------------
\* An image computes its forces between its two neighbours as they are in this
\* step, or between a neighbour and the fixed end: no message of another step, of
\* the other side, or of the other kind is taken for one of these.
BetweenItsNeighbours ==
    \A i \in Images : pc[i] = "start" => \A n \in 1..4 :
        LET side == IF Calls[n].to = "left" THEN i + 1 ELSE i - 1
        IN  received[i][n] = [what |-> Calls[n].what, img |-> side,
                              step |-> IF side \in Images THEN neb_step[i] ELSE 0]

\* Images stop at the same step: none goes on to exchange with one that has
\* stopped.
StopTogether ==
    \A i, j \in Images :
        neb_step[i] < max_steps /\ pc[i] \in {"finish", "finishing", "done"} =>
            neb_step[j] = neb_step[i] /\ pc[j] # "move"

\* Converged means that the forces of all images are below the threshold.
ConvergedMeansRelaxed ==
    \A i \in Images :
        neb_step[i] < max_steps /\ pc[i] \in {"finish", "finishing", "done"} =>
            \A j \in Images : relaxed[j]

\* A crash at any time leaves a band that can be put together again: the images'
\* restart files are at most one step apart, and there is a step whose positions all
\* images still have, some in the file and some in the one kept with _1.
RestartsAreClose ==
    /\ \A i, j \in Images : file[i].cur <= file[j].cur + 1
    /\ \E s \in 0..max_steps : \A i \in Images : s \in {file[i].cur, file[i].kept}

\* All images end.
AllDone == <>(\A i \in Images : pc[i] = "done")
=============================================================================

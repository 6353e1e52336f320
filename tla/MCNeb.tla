------------------------------- MODULE MCNeb -------------------------------
(***************************************************************************)
(* Two to four images.  LastIsCovered leaves out the steps in which the    *)
(* last image is the only one whose force is not below the threshold; the  *)
(* run neb_last_image shows what happens in those.                         *)
(***************************************************************************)
EXTENDS Neb

Last == images - 1

LastIsCovered ==
    (\A i \in Images : pc[i] \in {"save", "quenched", "reduce", "reduced"}) =>
        relaxed[Last] \/ \E i \in Images \ {Last} : ~ relaxed[i]

MCSpec == /\ Init /\ [][Next /\ LastIsCovered']_vars
          /\ \A i \in 0..3 : WF_vars(i \in Images /\ Image(i))
=============================================================================

----------------------------- MODULE MCMpiQueue -----------------------------
(***************************************************************************)
(* Two threads, exchanges of a receive and a send, two regions.  In one    *)
(* program there are trades and sums, in another remaps and sums: after a  *)
(* remap, which does not wait for its count, the manager may write to      *)
(* whatever is on the stack by then, which may be the count of a trade.    *)
(***************************************************************************)
EXTENDS MpiQueue

TradesOrRemaps == {{"trade", "sum"}, {"remap", "sum"}}
=============================================================================

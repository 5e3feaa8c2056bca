------------------------------ MODULE MCPagePool ------------------------------
(***************************************************************************)
(* Instances of PagePool for TLC.                                          *)
(***************************************************************************)
EXTENDS PagePool

\* One page, an aligned pair (the root table of a 40-bit stage 2 address
\* space) and an odd block.
MCRequests == {<<1, FALSE>>, <<2, TRUE>>, <<3, FALSE>>}
==============================================================================

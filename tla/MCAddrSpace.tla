----------------------------- MODULE MCAddrSpace -----------------------------
(***************************************************************************)
(* Instances of AddrSpace for TLC.                                         *)
(***************************************************************************)
EXTENDS AddrSpace, TLC

\* With four levels of two entries: a single page, entries of one and two levels
\* as a whole, ranges that begin or end inside of one, and the empty range.
MCRanges == {<<0, 0>>, <<1, 1>>, <<2, 2>>, <<3, 3>>, <<4, 4>>, <<1, 7>>, <<6, 6>>, <<8, 4>>}

\* The CPUs are interchangeable.
MCSymmetry == Permutations(CPUs)
==============================================================================

------------------------------ MODULE MCSnapshot ------------------------------
(***************************************************************************)
(* Instances of Snapshot for TLC.  The geometry is that of the qemu        *)
(* platform with one machine of 128 MB, scaled down: the root pool has     *)
(* just under five times the size of a snapshot pool, and boot has taken   *)
(* four tenths of one.                                                     *)
(***************************************************************************)
EXTENDS Snapshot

ASSUME Proportions == PlatformSizes

\* CPU 0 runs the first machine, CPU 1 the second.
MCVmOf(c) == IF c = 0 THEN "vm0" ELSE "vm1"

\* Every id a guest could have seen, and one more.
MCAsked == 0..40

\* The ids of the second pool's last two snapshots.
MCOldIds == {7, 8}
==============================================================================

---------------------------- MODULE SnapshotStore ----------------------------
(***************************************************************************)
(* What the snapshot hypercalls promise to one virtual machine.            *)
(*                                                                         *)
(* The states a guest is in when it asks for a checkpoint are numbered by  *)
(* the checkpoints: state k is the one that checkpoint k saves.  cur is    *)
(* the guest's state, store the saved states that can still be asked for,  *)
(* next the number of checkpoints so far, up whether the guest's CPU runs,  *)
(* asked the snapshot the guest waits for.                                 *)
(***************************************************************************)
EXTENDS Integers

CONSTANTS
    Boot,      \* the state of a machine that has just been loaded
    None,      \* no snapshot is asked for
    Latest     \* the newest snapshot is asked for

VARIABLES cur, store, next, up, asked

vars == <<cur, store, next, up, asked>>

Init ==
    /\ cur = Boot
    /\ store = <<>>
    /\ next = 0
    /\ up = TRUE
    /\ asked = None

Free == up /\ asked = None

\* The guest runs up to its next request for a checkpoint.
Run == Free /\ cur' = next /\ UNCHANGED <<store, next, up, asked>>

\* The current state is saved under the next number.
Checkpoint ==
    /\ Free
    /\ store' = [k \in (DOMAIN store) \cup {next} |-> IF k = next THEN cur ELSE store[k]]
    /\ next' = next + 1
    /\ UNCHANGED <<cur, up, asked>>

\* The oldest snapshots, and only those, are given up.
Evict ==
    /\ Free
    /\ \E first \in DOMAIN store \cup {next} :
          store' = [k \in {j \in DOMAIN store : j >= first} |-> store[k]]
    /\ UNCHANGED <<cur, next, up, asked>>

\* The guest asks for a snapshot.
Ask == Free /\ asked' # None /\ UNCHANGED <<cur, store, next, up>>

\* The snapshot that request k means, if there is one.
Meant(k) == IF k = Latest THEN {j \in DOMAIN store : j = next - 1} ELSE {k} \cap DOMAIN store

\* The guest is in the state it asked for.  Nothing is promised to a guest
\* that asks for a snapshot that does not exist.
Restore ==
    /\ up /\ asked # None
    /\ \A k \in Meant(asked) : cur' = store[k]
    /\ asked' = None
    /\ UNCHANGED <<store, next, up>>

\* The machine is loaded anew.
Restart == Free /\ cur' = Boot /\ UNCHANGED <<store, next, up, asked>>

\* The CPU stops: the snapshot asked for does not exist.
Stop ==
    /\ Free /\ asked' # None /\ Meant(asked') = {}
    /\ up' = FALSE
    /\ UNCHANGED <<store, next, cur>>

Next == Run \/ Checkpoint \/ Evict \/ Ask \/ Restore \/ Restart \/ Stop

Spec == Init /\ [][Next]_vars
==============================================================================

---------------------------- MODULE SnapshotStore ----------------------------
(***************************************************************************)
(* What the file persistence of the server promises: a memory that absorbs *)
(* updates and a checkpoint of it that outlives the process.  The two maps *)
(* of the memory are represented by the sets of updates they have absorbed *)
(* (see SnapshotServer).                                                   *)
(***************************************************************************)
CONSTANT Updates

VARIABLES memory, checkpoint

Maps == [counters : SUBSET Updates, gauges : SUBSET Updates]

Within(A, B) == A.counters \subseteq B.counters /\ A.gauges \subseteq B.gauges

Init ==
  /\ memory = [counters |-> {}, gauges |-> {}]
  /\ checkpoint = memory

\* An update is taken into memory.
Absorb ==
  /\ memory' \in {m \in Maps : Within(memory, m)}
  /\ UNCHANGED checkpoint

\* The checkpoint moves forward, to some state between its own and memory's.
Checkpoint ==
  /\ checkpoint' \in {c \in Maps : Within(checkpoint, c) /\ Within(c, memory)}
  /\ UNCHANGED memory

\* What memory held beyond the checkpoint is lost, and nothing else.
Restart ==
  /\ memory' = checkpoint
  /\ UNCHANGED checkpoint

Next == Absorb \/ Checkpoint \/ Restart

Spec == Init /\ [][Next]_<<memory, checkpoint>>
=============================================================================

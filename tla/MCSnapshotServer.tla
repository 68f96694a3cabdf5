------------------------- MODULE MCSnapshotServer -------------------------
(***************************************************************************)
(* Instances of SnapshotServer for TLC: a counter request, a batch of a    *)
(* counter and a gauge, a single gauge, and one gauge that is not a number.*)
(***************************************************************************)
EXTENDS SnapshotServer

CONSTANTS counter, batch, gauge, grpcBatch, g

MCGaugesOf ==
  [r \in Requests |-> IF r \in {batch, gauge, grpcBatch} THEN {g} ELSE {}]

\* Every gauge can be encoded.
NoNaNs == [r \in Requests |-> {}]

\* POST /update/gauge/g/NaN
GaugeIsNaN == [r \in Requests |-> IF r = gauge THEN {g} ELSE {}]

ASSUME InterestingRequests == Requests \cap {batch, grpcBatch} # {}
=============================================================================

-------------------------- MODULE MCPostgresStore --------------------------
(***************************************************************************)
(* Instances of PostgresStore for TLC: two batches that update the same    *)
(* two counters in opposite orders, one of them with a gauge, and a single *)
(* counter that goes down, over two connections.                           *)
(***************************************************************************)
EXTENDS PostgresStore

CONSTANTS forward, backward, single, x, y, g

Row(k, d) == [key |-> k, delta |-> d]

MCRows == [c \in Callers |->
  CASE c = forward  -> <<Row(x, 1), Row(g, 0), Row(y, 1)>>
    [] c = backward -> <<Row(y, 1), Row(x, 1)>>
    [] c = single   -> <<Row(x, -2)>>]
=============================================================================

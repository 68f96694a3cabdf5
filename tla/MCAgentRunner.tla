--------------------------- MODULE MCAgentRunner ---------------------------
(***************************************************************************)
(* Instances of AgentRunner for TLC.  With two runtime gauges, two system  *)
(* gauges and two workers a batch of five items makes two chunks, and      *)
(* PollCount is at the end of the first one, as it is in the code: 28      *)
(* runtime gauges, PollCount, and the system gauges after it.              *)
(***************************************************************************)
EXTENDS AgentRunner, TLC

CONSTANTS w1, w2

Symmetric == Permutations(Workers)
=============================================================================

----------------------------- MODULE MCSystem -----------------------------
(***************************************************************************)
(* Instances of System for TLC.  The launches of the agent combine what    *)
(* the three sources say of its intervals and its transport; some do not   *)
(* start: an interval of less than a second in the file, no worker.        *)
(***************************************************************************)
EXTENDS System

CONSTANTS w1, json, pem, address

Plain == [configFlag |-> Blank, configEnv |-> Blank, files |-> Nothing,
          flags |-> Nothing, env |-> Nothing]

WithFile(content) ==
  [Plain EXCEPT !.configFlag = json, !.files = [f \in {json} |-> content]]

MCAgentLaunches ==
  {[WithFile(f) EXCEPT !.flags = g, !.env = e] :
     f \in {Nothing, [pollInterval |-> [n |-> 300, unit |-> "ms"]],
            [reportInterval |-> [n |-> 5, unit |-> "s"], grpc |-> address, cert |-> pem]},
     g \in {Nothing, [pollInterval |-> 1, cryptoKey |-> pem], [reportInterval |-> 0]},
     e \in {Nothing, [reportInterval |-> 3], [grpc |-> Blank], [rateLimit |-> 0]}}
  \cup {WithFile(Bad), WithFile([pollInterval |-> Bad]),
        [Plain EXCEPT !.env = [pollInterval |-> Bad]]}
=============================================================================

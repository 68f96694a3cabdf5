--------------------------- MODULE MCDeployment ---------------------------
(***************************************************************************)
(* Instances of Deployment for TLC.  The launches combine what the three   *)
(* sources say of the path, the interval and -r, with and without a        *)
(* database, an auditor, a key, a subnet and gRPC; some cannot be loaded.  *)
(***************************************************************************)
EXTENDS Deployment

CONSTANTS first, second, grpcUpdate, other, dsn, file, url, pem, address, cidr, json

Plain == [configFlag |-> Blank, configEnv |-> Blank, files |-> Nothing,
          flags |-> Nothing, env |-> Nothing]

WithFile(content) ==
  [Plain EXCEPT !.configFlag = json, !.files = [f \in {json} |-> content]]

Ms(n)      == [n |-> n, unit |-> "ms"]
Seconds(n) == [n |-> n, unit |-> "s"]

Complete == [grpc |-> address, cert |-> pem, grpcKey |-> pem, cryptoKey |-> pem,
             subnet |-> cidr, auditFile |-> file, auditUrl |-> url]

\* Path and interval from every source, in every combination.
Precedence ==
  {[WithFile(f) EXCEPT !.flags = g, !.env = e] :
     f \in {Nothing, [storeInterval |-> Ms(300), path |-> other], [restore |-> TRUE]},
     g \in {Nothing, [storeInterval |-> 0, restore |-> TRUE], [path |-> Blank]},
     e \in {Nothing, [path |-> Blank, storeInterval |-> 300], [storeFile |-> other],
            [path |-> Blank, storeFile |-> Blank], [storeFile |-> Blank]}}

Special ==
  { \* PostgreSQL, with everything there is
    [WithFile([dsn |-> dsn, storeInterval |-> Seconds(1), restore |-> TRUE])
       EXCEPT !.env = Complete],
    \* CONFIG against -c, a negative interval
    [Plain EXCEPT !.configFlag = file, !.configEnv = json,
                  !.files = [f \in {json, file} |->
                               IF f = json THEN [restore |-> TRUE] ELSE Bad],
                  !.flags = [storeInterval |-> -1, auditFile |-> file, grpc |-> address]],
    \* half a certificate
    [Plain EXCEPT !.flags = [grpc |-> address, cert |-> pem, restore |-> TRUE]] }

Broken ==
  { WithFile(Bad), WithFile([storeInterval |-> Bad]),
    [Plain EXCEPT !.flags = [storeInterval |-> Bad]],
    [Plain EXCEPT !.env = [storeInterval |-> Bad]] }

MCLaunches == Precedence \cup Special \cup Broken
=============================================================================

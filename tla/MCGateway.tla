----------------------------- MODULE MCGateway -----------------------------
(***************************************************************************)
(* Instances of Gateway for TLC: every configuration of server and agent   *)
(* over two keys (the certificates vary when there are no other keys), and *)
(* requests that meet each guard of the middleware and of the handlers.    *)
(***************************************************************************)
EXTENDS Gateway, TLC

CONSTANTS a, b, k1, k2, r1, r2

Metric(type, id) == [type |-> type, id |-> id, valued |-> TRUE, nan |-> FALSE]
Counter(id) == Metric("counter", id)
Gauge(id)   == Metric("gauge", id)
Unvalued(m) == [m EXCEPT !.valued = FALSE]
NaN(m)      == [m EXCEPT !.nan = TRUE]

MCAgentBatches == {<<Counter(a), Gauge(b)>>}

NoKeys(c) == c.priv = NoKey /\ c.pub = NoKey /\ c.key = NoKey /\ c.agentKey = NoKey

\* The server has key k1 or none; PostgreSQL without encryption and subnet.
MCConfigs ==
  {c \in ConfigType :
     /\ k2 \notin {c.priv, c.key, c.cert}
     /\ {c.cert, c.agentCert} # {NoKey} => NoKeys(c) /\ ~c.db
     /\ c.trusted \/ c.agentInside
     /\ c.db => c.priv = NoKey /\ c.pub = NoKey /\ c.agentKey = NoKey /\ ~c.trusted}

Plain(route, items) ==
  [route |-> route, items |-> items, layers |-> <<>>, json |-> TRUE, gzip |-> FALSE,
   cut |-> FALSE, encrypted |-> FALSE, sig |-> NoSignature, ca |-> NoKey, inside |-> TRUE, accept |-> TRUE,
   agent |-> FALSE, status |-> 0, by |-> ""]

MCOtherRequests ==
  { Plain("update", <<Counter(a)>>),
    Plain("update", <<Unvalued(Gauge(b))>>),
    Plain("updates", <<Counter(a), Unvalued(Gauge(b))>>),
    Plain("updates", <<>>),
    Plain("path", <<NaN(Gauge(b))>>),
    Plain("path", <<Metric("unknown", a)>>),
    Plain("value", <<Unvalued(Gauge(b))>>),
    Plain("get", <<Unvalued(Gauge(b))>>),
    Plain("get", <<Metric("unknown", a)>>),
    Plain("page", <<>>), Plain("ping", <<>>), Plain("other", <<>>),
    Plain("grpc", <<Counter(NoName), Metric("unknown", a)>>),
    Plain("grpc", <<Unvalued(Gauge(b))>>),
    [Plain("update", <<Counter(a)>>) EXCEPT !.layers = <<Garbage>>, !.accept = FALSE],
    [Plain("value", <<Counter(a)>>) EXCEPT !.json = FALSE],
    [Plain("updates", <<Counter(a)>>) EXCEPT !.inside = FALSE],
    [Plain("updates", <<Counter(a)>>) EXCEPT !.gzip = TRUE, !.encrypted = TRUE],
    [Plain("updates", <<Counter(a)>>) EXCEPT !.gzip = TRUE, !.cut = TRUE,
                                             !.layers = <<Gzip>>] }

Symmetric == Permutations(Requests)
=============================================================================

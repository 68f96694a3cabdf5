------------------------------ MODULE Gateway ------------------------------
(***************************************************************************)
(* The road of a request: how the agent wraps a batch (gzip, signature,    *)
(* encryption), the middleware that unwraps it, the handlers that validate *)
(* it, save it, notify the audit and answer, and the way the answer is     *)
(* signed and compressed.  HTTP and gRPC share the store.                  *)
(*                                                                         *)
(* Data.  A body is what its bytes hold, under layers that have to be      *)
(* taken off: a batch of metrics, or one metric for the routes of one.  A  *)
(* layer that cannot be taken off is found by whoever looks at the body,   *)
(* at last by the decoder of JSON.  A signature is the key and the layers  *)
(* of the bytes it was computed from.  Statuses are those of HTTP; gRPC    *)
(* answers OK, PermissionDenied, Internal and, when there is no connection *)
(* to begin with, Unavailable: 200, 403, 500 and 503.                      *)
(***************************************************************************)
EXTENDS Naturals, Sequences

CONSTANTS
  Requests,      \* requests in progress
  Configs,       \* configurations of a server and of an agent, see ConfigType
  AgentBatches,  \* what the agent sends
  OtherRequests, \* what other clients send
  Ids, NoName,   \* names of metrics, and the empty one
  MaxAttempts,   \* how often retry.Do runs a statement or a transaction (four in the code)
  Keys, NoKey    \* keys for signatures, encryption and certificates; none

Types == {"counter", "gauge"}
MetricType == [type : Types \cup {"unknown"}, id : Ids \cup {NoName},
               valued : BOOLEAN, nan : BOOLEAN]
ConfigType == [priv : Keys \cup {NoKey}, key : Keys \cup {NoKey}, \* of the server
               cert : Keys \cup {NoKey},                          \* for gRPC
               trusted : BOOLEAN, db : BOOLEAN,                   \* subnet set; PostgreSQL
               pub : Keys \cup {NoKey}, agentKey : Keys \cup {NoKey}, \* of the agent
               agentCert : Keys \cup {NoKey}, agentInside : BOOLEAN]

LayerType     == [kind : {"gzip", "rsa", "garbage"}, key : Keys \cup {NoKey}]
SignatureType == [key : Keys \cup {NoKey}, layers : Seq(LayerType)]
Routes == {"update", "updates", "path", "value", "get", "page", "ping", "other", "grpc"}
Stages == {"decrypt", "compress", "sign", "subnet", "tls", "handler"}
Refusals == {400, 403, 404, 415, 500, 503}
RequestType ==
  [route : Routes, items : Seq(MetricType), json : BOOLEAN,    \* Content-Type
   gzip : BOOLEAN, encrypted : BOOLEAN, layers : Seq(LayerType), \* two headers, the body
   cut : BOOLEAN,                           \* the gzip stream ends before the JSON does
   sig : SignatureType, ca : Keys \cup {NoKey}, inside : BOOLEAN, accept : BOOLEAN,
   agent : BOOLEAN, status : Refusals \cup {0}, by : Stages \cup {""}]

\* The routes of one metric carry one, and what a client sends nobody has
\* refused yet.
ASSUME GatewayAssumption ==
  /\ Configs \subseteq ConfigType
  /\ AgentBatches \subseteq Seq(MetricType) \ {<<>>}
  /\ NoName \notin Ids /\ NoKey \notin Keys
  /\ MaxAttempts \in Nat \ {0}
  /\ \A b \in AgentBatches : \A i \in DOMAIN b :
       b[i].type \in Types /\ b[i].id # NoName /\ b[i].valued /\ ~b[i].nan
  /\ OtherRequests \subseteq {q \in RequestType : q.status = 0 /\ q.by = "" /\ ~q.agent}
  /\ \A q \in OtherRequests :
       q.route \in {"update", "path", "value", "get"} => Len(q.items) = 1

VARIABLES
  cfg,      \* the configuration
  pc,       \* where each request is
  req,      \* the request, as the middleware has left it
  resp,     \* the answer
  store,    \* the metrics: "absent", "number" or "nan"
  acked,    \* history: the metrics whose update has been answered with 200
  since,    \* history: acked when the request was sent
  applied,  \* history: how often the request was saved
  events    \* history: how often the audit was notified of it

vars == <<cfg, pc, req, resp, store, acked, since, applied, events>>

-----------------------------------------------------------------------------
(* Layers and signatures *)

Gzip       == [kind |-> "gzip", key |-> NoKey]
Sealed(k)  == [kind |-> "rsa", key |-> k]
Garbage    == [kind |-> "garbage", key |-> NoKey]

Signature(k, layers) == [key |-> k, layers |-> layers]
NoSignature          == Signature(NoKey, <<>>)

-----------------------------------------------------------------------------
(* The agent *)

\* It signs the JSON, before the layers are put on.
AgentSignature ==
  IF cfg.agentKey = NoKey THEN NoSignature ELSE Signature(cfg.agentKey, <<>>)

AgentPost(route, items, layers) ==
  [route |-> route, items |-> items, json |-> TRUE, gzip |-> layers # <<>>, cut |-> FALSE,
   layers |-> IF cfg.pub = NoKey THEN layers ELSE <<Sealed(cfg.pub)>> \o layers,
   encrypted |-> cfg.pub # NoKey, sig |-> AgentSignature, ca |-> NoKey,
   inside |-> cfg.agentInside, accept |-> TRUE, agent |-> TRUE, status |-> 0, by |-> ""]

AgentHttp(batch) == AgentPost("updates", batch, <<Gzip>>)

\* SendGauge and SendCounter: one metric, not compressed.
AgentSingle(m) == AgentPost("update", <<m>>, <<>>)

\* Over gRPC there are the address and the certificate it trusts, if any.
AgentGrpc(batch) ==
  [route |-> "grpc", items |-> batch, layers |-> <<>>, json |-> FALSE,
   gzip |-> FALSE, cut |-> FALSE, encrypted |-> FALSE, sig |-> NoSignature, ca |-> cfg.agentCert,
   inside |-> cfg.agentInside, accept |-> FALSE, agent |-> TRUE, status |-> 0, by |-> ""]

AgentRequests ==
  UNION {{AgentHttp(b), AgentGrpc(b)} \cup {AgentSingle(b[i]) : i \in DOMAIN b} : b \in AgentBatches}

-----------------------------------------------------------------------------
(* The middleware, outermost first.  A refusal is the status and who gave it. *)

Refused(q, status, by) == [q EXCEPT !.status = status, !.by = by]

Unwrapped(q) == [q EXCEPT !.layers = Tail(@)]

Outer(q) == IF q.layers = <<>> THEN Garbage ELSE Head(q.layers)

Decrypt(q) ==
  IF cfg.priv = NoKey \/ ~q.encrypted THEN q
  ELSE IF Outer(q) = Sealed(cfg.priv) THEN Unwrapped(q)
  ELSE Refused(q, 400, "decrypt")

Decompress(q) ==
  IF ~q.gzip THEN q
  ELSE IF Outer(q) = Gzip THEN Unwrapped(q)
  ELSE Refused(q, 400, "compress")

\* After Decompress: reading the body fails where the stream is cut.
Unreadable(q) == q.gzip /\ q.cut

\* The body is read whatever the signature; a request without one passes.
CheckSignature(q) ==
  IF cfg.key # NoKey /\ Unreadable(q) THEN Refused(q, 400, "sign")
  ELSE IF cfg.key = NoKey \/ q.sig = NoSignature THEN q
  ELSE IF q.sig = Signature(cfg.key, q.layers) THEN q
  ELSE Refused(q, 400, "sign")

\* Only updates are restricted to the trusted subnet.
CheckSubnet(q) ==
  IF q.route \in {"update", "updates", "path", "grpc"} /\ cfg.trusted /\ ~q.inside
  THEN Refused(q, 403, "subnet")
  ELSE q

\* The handshake.  Without files the server has a certificate that no client
\* knows; a client that trusts none in particular takes any.
CheckCertificate(q) ==
  IF q.ca \in {NoKey, cfg.cert} THEN q ELSE Refused(q, 503, "tls")

Then(q, Stage(_)) == IF q.status = 0 THEN Stage(q) ELSE q

\* Mutant of Admitted: the signature is checked before the body is unpacked.
SignatureFirst(q) ==
  IF q.route = "grpc" THEN Then(CheckCertificate(q), CheckSubnet)
  ELSE Then(Then(Then(Decrypt(q), CheckSignature), Decompress), CheckSubnet)

Admitted(q) ==
  IF q.route = "grpc" THEN Then(CheckCertificate(q), CheckSubnet)
  ELSE Then(Then(Then(Decrypt(q), Decompress), CheckSignature), CheckSubnet)

-----------------------------------------------------------------------------
(* The handlers: what they refuse, and with which status *)

Valid(m) == m.type \in Types /\ m.valued

\* What is left of the body is no JSON.
Undecodable(q) == q.layers # <<>> \/ Unreadable(q)

\* Mutant of UpdateRefusal: the error of Decode is not looked at.
DecodeIgnored(q) == IF ~q.json THEN 415 ELSE IF ~Valid(q.items[1]) THEN 400 ELSE 0

UpdateRefusal(q) ==
  IF ~q.json THEN 415
  ELSE IF Undecodable(q) \/ ~Valid(q.items[1]) THEN 400 ELSE 0

\* Mutant of UpdatesRefusal: only the first metric is looked at.
ChecksFirst(q) ==
  IF ~q.json THEN 415
  ELSE IF Undecodable(q) \/ (q.items # <<>> /\ ~Valid(q.items[1])) THEN 400 ELSE 0

\* The whole batch is looked at before any of it is saved.
UpdatesRefusal(q) ==
  IF ~q.json THEN 415
  ELSE IF Undecodable(q) \/ \E i \in DOMAIN q.items : ~Valid(q.items[i]) THEN 400 ELSE 0

PostRefusal(q) == IF Valid(q.items[1]) THEN 0 ELSE 400

ValueRefusal(q) ==
  IF ~q.json THEN 415
  ELSE IF Undecodable(q) \/ q.items[1].type \notin Types THEN 400 ELSE 0

GetRefusal(q) == IF q.items[1].type \in Types THEN 0 ELSE 404

Refusal(q) ==
  CASE q.route = "update"  -> UpdateRefusal(q)
    [] q.route = "updates" -> UpdatesRefusal(q)
    [] q.route = "path"    -> PostRefusal(q)
    [] q.route = "value"   -> ValueRefusal(q)
    [] q.route = "get"     -> GetRefusal(q)
    [] q.route = "ping"    -> IF cfg.db THEN 0 ELSE 500
    [] q.route = "other"   -> 404
    [] q.route \in {"page", "grpc"} -> 0

\* gRPC drops what has no name or no known type, and a missing value is zero.
\* What is left keeps its place.
ToModel(items) ==
  [i \in {j \in DOMAIN items : items[j].id # NoName /\ items[j].type \in Types}
     |-> [items[i] EXCEPT !.valued = TRUE]]

ToSave(q) == IF q.route = "grpc" THEN ToModel(q.items) ELSE q.items

-----------------------------------------------------------------------------
(* The answer.  A handler writes it with or without an explicit WriteHeader; *)
(* sign buffers it and always sends an explicit one; compress looks at the   *)
(* type of the content there and nowhere else.                               *)

NoAnswer == [status |-> 0, type |-> "none", explicit |-> FALSE, body |-> FALSE,
             gzip |-> FALSE, layers |-> <<>>, sig |-> NoSignature, shows |-> {}]

\* A text, as http.Error writes it.
Text(status) == [NoAnswer EXCEPT !.status = status, !.type = "text", !.explicit = TRUE, !.body = TRUE]

\* The handlers of JSON answer what they cannot decode with a bare status.
Bare(status) == [NoAnswer EXCEPT !.status = status, !.explicit = TRUE]

RefusalAnswer(q) ==
  IF q.route \in {"update", "updates", "value"} /\ q.json /\ Undecodable(q)
  THEN Bare(Refusal(q)) ELSE Text(Refusal(q))

Success(q) ==
  CASE q.route = "update"  -> [NoAnswer EXCEPT !.status = 200, !.type = "json", !.body = TRUE]
    [] q.route = "updates" -> [NoAnswer EXCEPT !.status = 200, !.explicit = TRUE,
                                 !.type = IF q.items = <<>> THEN "none" ELSE "json"]
    [] q.route = "value"   -> [NoAnswer EXCEPT !.status = 200, !.type = "json",
                                 !.explicit = TRUE, !.body = TRUE]
    [] q.route \in {"path", "get"} -> Text(200)
    [] q.route = "ping"    -> [NoAnswer EXCEPT !.status = 200, !.explicit = TRUE]
    [] q.route = "page"    -> [NoAnswer EXCEPT !.status = 200, !.type = "html", !.body = TRUE]
    [] q.route = "grpc"    -> [NoAnswer EXCEPT !.status = 200]

SignAnswer(a) ==
  IF cfg.key = NoKey THEN a
  ELSE [a EXCEPT !.sig = Signature(cfg.key, a.layers), !.explicit = TRUE]

\* The types of content that are compressed.
Compressible == {"json", "html"}

\* Mutant of GzipHeader: the header is forgotten when the body is compressed.
NoGzipHeader(a) == FALSE

GzipHeader(a) == a.explicit /\ a.type \in Compressible

CompressAnswer(q, a) ==
  IF ~q.accept THEN a
  ELSE [a EXCEPT !.gzip = GzipHeader(a),
                 !.layers = IF a.explicit /\ a.type \in Compressible /\ a.body
                            THEN <<Gzip>> ELSE <<>>]

\* What was refused by a stage goes through the stages outside of it only.
Answered(q, a) ==
  IF q.route = "grpc" \/ q.by \in {"decrypt", "compress"} THEN a
  ELSE CompressAnswer(q, IF q.by = "sign" THEN a ELSE SignAnswer(a))

Answer(r, q, a) ==
  /\ pc' = [pc EXCEPT ![r] = "answered"]
  /\ req' = [req EXCEPT ![r] = q]
  /\ resp' = [resp EXCEPT ![r] = Answered(q, a)]

-----------------------------------------------------------------------------
(* Actions *)

KeyType == Types \X (Ids \cup {NoName})
Key(m)  == <<m.type, m.id>>
Absent  == [k \in KeyType |-> "absent"]

\* MemStorage: what has no value is skipped, the last one wins.
Absorb(s, items) ==
  [k \in DOMAIN s |->
     LET hits == {i \in DOMAIN items : Valid(items[i]) /\ Key(items[i]) = k}
         last == CHOOSE i \in hits : \A j \in hits : j <= i
     IN  IF hits = {} THEN s[k] ELSE IF items[last].nan THEN "nan" ELSE "number"]

Init ==
  /\ cfg \in Configs
  /\ pc = [r \in Requests |-> "idle"]
  /\ req = [r \in Requests |-> [status |-> 0]]
  /\ resp = [r \in Requests |-> NoAnswer]
  /\ store = Absent
  /\ acked = {} /\ since = [r \in Requests |-> {}]
  /\ applied = [r \in Requests |-> 0] /\ events = [r \in Requests |-> 0]

Send(r) ==
  /\ pc[r] = "idle"
  /\ \E q \in OtherRequests \cup AgentRequests :
       req' = [req EXCEPT ![r] = q]
  /\ pc' = [pc EXCEPT ![r] = "sent"]
  /\ since' = [since EXCEPT ![r] = acked]
  /\ UNCHANGED <<cfg, resp, store, acked, applied, events>>

IsRead(q) == q.route \in {"value", "get", "page", "ping"}

\* Where the request goes once it is admitted and found valid.
NextStep(q) ==
  CASE q.route \in {"value", "get"} -> "read"
    [] q.route = "page" -> "counters"
    [] q.route = "ping" -> "ping"
    [] OTHER -> "save"

\* The middleware and the validation touch nothing that is shared.
Handle(r) ==
  LET q == Admitted(req[r]) IN
  /\ pc[r] = "sent"
  /\ \/ q.status # 0 /\ Answer(r, q, Text(q.status))
     \/ q.status = 0 /\ Refusal(q) # 0 /\ Answer(r, Refused(q, Refusal(q), "handler"), RefusalAnswer(q))
     \/ /\ q.status = 0 /\ Refusal(q) = 0
        /\ ~IsRead(q) /\ DOMAIN ToSave(q) = {}
        /\ Answer(r, q, Success(q))
     \/ /\ q.status = 0 /\ Refusal(q) = 0
        /\ IsRead(q) \/ DOMAIN ToSave(q) # {}
        /\ pc' = [pc EXCEPT ![r] = NextStep(q)]
        /\ req' = [req EXCEPT ![r] = q]
        /\ UNCHANGED resp
  /\ UNCHANGED <<cfg, store, acked, since, applied, events>>

Save(r) ==
  /\ pc[r] = "save"
  /\ store' = Absorb(store, ToSave(req[r]))
  /\ applied' = [applied EXCEPT ![r] = @ + 1]
  /\ pc' = [pc EXCEPT ![r] = "notify"]
  /\ UNCHANGED <<cfg, req, resp, acked, since, events>>

\* A commit takes effect in PostgreSQL, its answer is lost, and retry.Do saves the
\* request again.
SaveRepeats(r) ==
  /\ pc[r] = "save" /\ cfg.db /\ applied[r] + 1 < MaxAttempts
  /\ store' = Absorb(store, ToSave(req[r]))
  /\ applied' = [applied EXCEPT ![r] = @ + 1]
  /\ UNCHANGED <<cfg, pc, req, resp, acked, since, events>>

\* Only PostgreSQL can fail; the transaction may have taken effect all the same.
SaveFails(r) ==
  /\ pc[r] = "save" /\ cfg.db
  /\ \/ UNCHANGED <<store, applied>>
     \/ /\ store' = Absorb(store, ToSave(req[r]))
        /\ applied' = [applied EXCEPT ![r] = @ + 1]
  /\ Answer(r, Refused(req[r], 500, "handler"), Text(500))
  /\ UNCHANGED <<cfg, acked, since, events>>

\* Notify, then the answer; whether the queue has room is the audit's affair.
Notify(r) ==
  /\ pc[r] = "notify"
  /\ events' = [events EXCEPT ![r] = @ + 1]
  /\ acked' = acked \cup {Key(ToSave(req[r])[i]) : i \in DOMAIN ToSave(req[r])}
  /\ Answer(r, req[r], Success(req[r]))
  /\ UNCHANGED <<cfg, store, since, applied>>

\* Mutant of Lookup: the counters are looked up whatever the type.
LookupCounter(m) == store[<<"counter", m.id>>]

Lookup(m) == store[Key(m)]

\* NaN cannot be encoded as JSON.  Any error of the store is answered with 404.
Read(r) ==
  LET q == req[r]
      found == Lookup(q.items[1])
      status == IF found = "absent" THEN 404
                ELSE IF found = "nan" /\ q.route = "value" THEN 500 ELSE 200
  IN
  /\ pc[r] = "read"
  /\ \/ status = 200 /\ Answer(r, q, Success(q))
     \/ status # 200 /\ Answer(r, Refused(q, status, "handler"), Text(status))
     \/ cfg.db /\ Answer(r, Refused(q, 404, "handler"), Text(404))
  /\ UNCHANGED <<cfg, store, acked, since, applied, events>>

\* GET /: the counters, then the gauges.  An error of the store is logged and the
\* page does without them.
Shown(type) == {k \in DOMAIN store : k[1] = type /\ store[k] # "absent"}

PageCounters(r) ==
  /\ pc[r] = "counters"
  /\ pc' = [pc EXCEPT ![r] = "gauges"]
  /\ \/ resp' = [resp EXCEPT ![r].shows = Shown("counter")]
     \/ cfg.db /\ UNCHANGED resp
  /\ UNCHANGED <<cfg, req, store, acked, since, applied, events>>

PageGauges(r) ==
  /\ pc[r] = "gauges"
  /\ \E shown \in {Shown("gauge")} \cup (IF cfg.db THEN {{}} ELSE {}) :
       Answer(r, req[r], [Success(req[r]) EXCEPT !.shows = resp[r].shows \cup shown])
  /\ UNCHANGED <<cfg, store, acked, since, applied, events>>

\* GET /ping: the database answers within three seconds, or not.
Ping(r) ==
  /\ pc[r] = "ping"
  /\ \/ Answer(r, req[r], Success(req[r]))
     \/ Answer(r, Refused(req[r], 500, "handler"), Text(500))
  /\ UNCHANGED <<cfg, store, acked, since, applied, events>>

Done ==
  /\ \A r \in Requests : pc[r] = "answered"
  /\ UNCHANGED vars

Next ==
  \/ \E r \in Requests : Send(r) \/ Handle(r) \/ Save(r) \/ SaveRepeats(r) \/ SaveFails(r) \/ Notify(r)
                            \/ Read(r) \/ PageCounters(r) \/ PageGauges(r) \/ Ping(r)
  \/ Done

Spec == Init /\ [][Next]_vars

-----------------------------------------------------------------------------
(* Properties *)

Finished(r) == pc[r] = "answered"

AnswerType ==
  [status : Refusals \cup {0, 200}, type : {"none", "text", "json", "html"},
   explicit : BOOLEAN, body : BOOLEAN, gzip : BOOLEAN, layers : Seq(LayerType),
   sig : SignatureType, shows : SUBSET KeyType]

TypeOK ==
  /\ cfg \in ConfigType
  /\ pc \in [Requests -> {"idle", "sent", "save", "notify", "read", "counters", "gauges", "ping",
                      "answered"}]
  /\ resp \in [Requests -> AnswerType]
  /\ \A r \in Requests :
       /\ pc[r] # "idle" => req[r] \in RequestType
       /\ Finished(r) <=> resp[r].status # 0
       /\ pc[r] \in {"save", "notify", "read"} =>
            /\ req[r].status = 0
            /\ req[r].route \in {"update", "updates", "value"} => req[r].layers = <<>>
  /\ store \in [KeyType -> {"absent", "number", "nan"}]
  /\ acked \subseteq KeyType /\ since \in [Requests -> SUBSET KeyType]
  /\ applied \in [Requests -> Nat] /\ events \in [Requests -> Nat]

\* Which agents and servers go together.  Over gRPC the keys play no part, and
\* over HTTP the certificates.
Compatible(route) ==
  /\ cfg.trusted => cfg.agentInside
  /\ route = "grpc" /\ cfg.agentCert # NoKey => cfg.agentCert = cfg.cert
  /\ route # "grpc" =>
       /\ cfg.pub # NoKey => cfg.pub = cfg.priv
       /\ NoKey \notin {cfg.key, cfg.agentKey} => cfg.agentKey = cfg.key

\* The server unwraps what the agent wraps, layer by layer and with the
\* signature over the same bytes, exactly when they are configured alike.
AgentUnderstood ==
  \A r \in Requests :
    Finished(r) /\ req[r].agent => (resp[r].status \in {200, 500} <=> Compatible(req[r].route))

\* How often a request may be saved.
MostSaves == IF cfg.db THEN MaxAttempts ELSE 1

\* Over memory an update answered with 200 was saved exactly once; over PostgreSQL
\* at least once and at most as often as retry.Do tries.  It was saved whole, and
\* notified once however often it was saved (one with nothing in it is neither
\* saved nor notified); a request refused with 4xx, or without a connection, left
\* nothing behind; nothing is notified that was not saved.
AnswersTellTheTruth ==
  \A r \in Requests :
    /\ events[r] <= applied[r]
    /\ Finished(r) /\ resp[r].status \in 400 .. 499 \cup {503} => applied[r] = 0
    /\ Finished(r) /\ resp[r].status = 200 /\ ~IsRead(req[r]) =>
         LET items == ToSave(req[r]) IN
         /\ applied[r] \in (IF DOMAIN items = {} THEN {0} ELSE 1 .. MostSaves)
         /\ events[r] = (IF DOMAIN items = {} THEN 0 ELSE 1)
         /\ \A i \in DOMAIN items : store[Key(items[i])] # "absent"

\* Some request saved NaN under the key.
NaNSaved(k) ==
  \E r \in Requests :
    /\ applied[r] > 0
    /\ \E i \in DOMAIN ToSave(req[r]) : Key(ToSave(req[r])[i]) = k /\ ToSave(req[r])[i].nan

\* Over memory, a read that comes after the answer to an update finds the
\* metric, whatever route the update took.  POST /value answers 500 instead only
\* for a metric that a request has set to NaN, which has no JSON.  The page, put
\* together from two reads, shows them all.
ReadYourWrites ==
  ~cfg.db =>
    \A r \in {x \in Requests : Finished(x) /\ resp[x].status \notin {400, 415}} :
      LET q == req[r] IN
      /\ q.route \in {"value", "get"} /\ Key(q.items[1]) \in since[r] =>
           \/ resp[r].status = 200
           \/ q.route = "value" /\ resp[r].status = 500 /\ NaNSaved(Key(q.items[1]))
      /\ q.route = "page" => since[r] \subseteq resp[r].shows

\* The answer says how its body is to be read, is compressed only for a client
\* that accepts it, and whatever got past the signature is signed, over the
\* bytes the client sees after unpacking.
AnswerReadable ==
  \A r \in Requests :
    Finished(r) /\ req[r].route # "grpc" =>
      /\ resp[r].layers = (IF resp[r].gzip /\ resp[r].body THEN <<Gzip>> ELSE <<>>)
      /\ resp[r].gzip => req[r].accept
      /\ cfg.key # NoKey /\ req[r].by \notin {"decrypt", "compress", "sign"} =>
           resp[r].sig = Signature(cfg.key, <<>>)
=============================================================================

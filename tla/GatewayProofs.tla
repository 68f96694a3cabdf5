---------------------------- MODULE GatewayProofs ----------------------------
(***************************************************************************)
(* Proofs about Gateway, for every set of configurations, batches, clients *)
(* and concurrent requests: what the middleware lets through, that server  *)
(* and agent understand each other, that the answers tell the truth about  *)
(* the store, that updates can be read back, and that the answers can be   *)
(* read.                                                                   *)
(***************************************************************************)
EXTENDS Gateway, FiniteSetTheorems, SequenceTheorems, TLAPS

-----------------------------------------------------------------------------
(* The middleware: a stage passes the request on, perhaps without a layer, *)
(* or refuses it.                                                          *)

Fresh(q) == q \in RequestType /\ q.status = 0 /\ q.by = ""

SameRequest(p, q) ==
  /\ p.route = q.route /\ p.items = q.items /\ p.json = q.json /\ p.gzip = q.gzip
  /\ p.cut = q.cut
  /\ p.encrypted = q.encrypted /\ p.sig = q.sig /\ p.ca = q.ca /\ p.inside = q.inside
  /\ p.accept = q.accept /\ p.agent = q.agent

Staged(p, q, status, by) ==
  /\ p \in RequestType /\ SameRequest(p, q)
  /\ \/ p.status = 0 /\ p.by = ""
     \/ p.status # 0 /\ p.status = status /\ p.by = by

LEMMA SameTransitive ==
  ASSUME NEW p, NEW q, NEW s, SameRequest(p, q), SameRequest(q, s)
  PROVE  SameRequest(p, s)
BY DEF SameRequest

LEMMA PassedStage ==
  ASSUME NEW q, Fresh(q)
  PROVE  \A status, by : Staged(q, q, status, by)
BY DEF Fresh, Staged, SameRequest

LEMMA RefusedStage ==
  ASSUME NEW q, Fresh(q)
  PROVE  \A status \in Refusals, by \in Stages : Staged(Refused(q, status, by), q, status, by)
<1> TAKE status \in Refusals, by \in Stages
<1> DEFINE p == Refused(q, status, by)
<1>1. p \in RequestType /\ p.status = status /\ p.by = by
  BY DEF Fresh, Refused, RequestType
<1>2. SameRequest(p, q)
  BY DEF Fresh, Refused, RequestType, SameRequest
<1>3. status # 0
  BY DEF Refusals
<1> QED
  BY <1>1, <1>2, <1>3 DEF Staged

LEMMA UnwrappedStage ==
  ASSUME NEW q, Fresh(q), q.layers # <<>>
  PROVE  \A status, by : Staged(Unwrapped(q), q, status, by)
<1>1. q \in RequestType /\ q.layers \in Seq(LayerType)
  BY DEF Fresh, RequestType
<1>2. PICK t \in Seq(LayerType) : t = Tail(q.layers)
  BY <1>1, HeadTailProperties
<1>3. Unwrapped(q) = [q EXCEPT !.layers = t]
  BY <1>2 DEF Unwrapped
<1>4. Unwrapped(q) \in RequestType /\ SameRequest(Unwrapped(q), q)
  BY <1>1, <1>3 DEF RequestType, SameRequest
<1>5. Unwrapped(q).status = q.status /\ Unwrapped(q).by = q.by
  BY <1>1, <1>3 DEF RequestType
<1> QED
  BY <1>4, <1>5 DEF Staged, Fresh

\* What a stage has passed is as good as new for the next one.
LEMMA NextStage ==
  ASSUME NEW p, NEW q, NEW status, NEW by, Staged(p, q, status, by), p.status = 0
  PROVE  Fresh(p)
BY DEF Staged, Fresh

LEMMA StageNames ==
  /\ 400 \in Refusals /\ 403 \in Refusals /\ 503 \in Refusals /\ 500 \in Refusals
  /\ "decrypt" \in Stages /\ "compress" \in Stages /\ "sign" \in Stages
  /\ "subnet" \in Stages /\ "tls" \in Stages /\ "handler" \in Stages
BY DEF Refusals, Stages

LEMMA UnpackStages ==
  ASSUME NEW q, Fresh(q)
  PROVE  /\ Staged(Decrypt(q), q, 400, "decrypt")
         /\ Staged(Decompress(q), q, 400, "compress")
<1>1. Outer(q) \in {Gzip, Sealed(cfg.priv)} => q.layers # <<>>
  BY DEF Outer, Gzip, Sealed, Garbage
<1>2. \/ Decrypt(q) \in {q, Refused(q, 400, "decrypt")}
      \/ Decrypt(q) = Unwrapped(q) /\ Outer(q) = Sealed(cfg.priv)
  BY DEF Decrypt
<1>3. \/ Decompress(q) \in {q, Refused(q, 400, "compress")}
      \/ Decompress(q) = Unwrapped(q) /\ Outer(q) = Gzip
  BY DEF Decompress
<1> QED
  BY <1>1, <1>2, <1>3, PassedStage, RefusedStage, UnwrappedStage, StageNames

LEMMA OtherStages ==
  ASSUME NEW q, Fresh(q)
  PROVE  /\ Staged(CheckSignature(q), q, 400, "sign")
         /\ Staged(CheckSubnet(q), q, 403, "subnet")
         /\ Staged(CheckCertificate(q), q, 503, "tls")
         /\ CheckSubnet(q).status # 0 => q.route \in {"update", "updates", "path", "grpc"}
<1>1. /\ CheckSignature(q) \in {q, Refused(q, 400, "sign")}
      /\ CheckCertificate(q) \in {q, Refused(q, 503, "tls")}
      /\ \/ CheckSubnet(q) = q
         \/ /\ CheckSubnet(q) = Refused(q, 403, "subnet")
            /\ q.route \in {"update", "updates", "path", "grpc"}
  BY DEF CheckSignature, CheckSubnet, CheckCertificate
<1>2. q.status = 0
  BY DEF Fresh
<1> QED
  BY <1>1, <1>2, PassedStage, RefusedStage, StageNames

\* What comes out of the middleware: the request, or who has refused it and how.
Outcome(p, q) ==
  /\ p \in RequestType /\ SameRequest(p, q)
  /\ \/ p.status = 0 /\ p.by = ""
     \/ p.status # 0 /\ p.status = 400 /\ p.by \in {"decrypt", "compress", "sign"} /\ q.route # "grpc"
     \/ p.status # 0 /\ p.status = 403 /\ p.by = "subnet" /\ q.route \in {"update", "updates", "path", "grpc"}
     \/ p.status # 0 /\ p.status = 503 /\ p.by = "tls" /\ q.route = "grpc"

\* The same for the stages that have to do with the body.
Unpacked(p, q, who) ==
  /\ p \in RequestType /\ SameRequest(p, q)
  /\ \/ p.status = 0 /\ p.by = ""
     \/ p.status # 0 /\ p.status = 400 /\ p.by \in who

LEMMA StageUnpacked ==
  ASSUME NEW q, NEW p, NEW n, NEW who, NEW by,
         Unpacked(p, q, who), Fresh(p) => Staged(n, p, 400, by)
  PROVE  Unpacked(IF p.status = 0 THEN n ELSE p, q, who \cup {by})
<1>1. CASE p.status = 0
  <2>1. Staged(n, p, 400, by)
    BY <1>1 DEF Unpacked, Fresh
  <2>2. SameRequest(n, q)
    BY <2>1, SameTransitive DEF Unpacked, Staged
  <2> QED
    BY <1>1, <2>1, <2>2 DEF Unpacked, Staged
<1>2. CASE p.status # 0
  BY <1>2 DEF Unpacked
<1> QED
  BY <1>1, <1>2

\* The three stages that may have the last word.
LEMMA LastStage ==
  ASSUME NEW p, NEW q
  PROVE  /\ Staged(p, q, 503, "tls") /\ q.route = "grpc" => Outcome(p, q)
         /\ /\ p \in RequestType /\ SameRequest(p, q)
            /\ \/ p.status = 0 /\ p.by = ""
               \/ p.status # 0 /\ p.status = 403 /\ p.by = "subnet"
            /\ p.status # 0 => q.route \in {"update", "updates", "path", "grpc"}
            => Outcome(p, q)
         /\ Unpacked(p, q, {"decrypt", "compress", "sign"}) /\ q.route # "grpc" => Outcome(p, q)
<1>1. Staged(p, q, 503, "tls") /\ q.route = "grpc" => Outcome(p, q)
  BY DEF Staged, Outcome
<1>2. /\ p \in RequestType /\ SameRequest(p, q)
      /\ \/ p.status = 0 /\ p.by = ""
         \/ p.status # 0 /\ p.status = 403 /\ p.by = "subnet"
      /\ p.status # 0 => q.route \in {"update", "updates", "path", "grpc"}
      => Outcome(p, q)
  BY DEF Outcome
<1>3. Unpacked(p, q, {"decrypt", "compress", "sign"}) /\ q.route # "grpc" => Outcome(p, q)
  BY DEF Unpacked, Outcome
<1> QED
  BY <1>1, <1>2, <1>3, Zenon

LEMMA AdmittedOutcome == ASSUME NEW q, Fresh(q) PROVE Outcome(Admitted(q), q)
<1>1. CASE q.route = "grpc"
  <2>1. PICK p : p = CheckCertificate(q)
    OBVIOUS
  <2>2. Staged(p, q, 503, "tls")
    BY <2>1, OtherStages
  <2>3. Admitted(q) = IF p.status = 0 THEN CheckSubnet(p) ELSE p
    BY <1>1, <2>1 DEF Admitted, Then
  <2>4. CASE p.status = 0
    <3>1. Fresh(p) /\ SameRequest(p, q)
      BY <2>2, <2>4, NextStage DEF Staged
    <3>2. Staged(CheckSubnet(p), p, 403, "subnet")
      BY <3>1, OtherStages
    <3>3. SameRequest(CheckSubnet(p), q)
      BY <3>1, <3>2, SameTransitive DEF Staged
    <3>4. PICK n : n = CheckSubnet(p) /\ n = Admitted(q)
      BY <2>3, <2>4
    <3>5. Staged(n, p, 403, "subnet") /\ SameRequest(n, q)
      BY <3>2, <3>3, <3>4
    <3>6. Outcome(n, q)
      BY <1>1, <3>5, LastStage DEF Staged
    <3> QED
      BY <3>4, <3>6
  <2>5. CASE p.status # 0
    <3>1. Admitted(q) = p
      BY <2>3, <2>5
    <3>2. Outcome(p, q)
      BY <1>1, <2>2, LastStage, Zenon
    <3> QED
      BY <3>1, <3>2
  <2> QED
    BY <2>4, <2>5
<1>2. CASE q.route # "grpc"
  <2>1. PICK d : d = Decrypt(q)
    OBVIOUS
  <2>2. PICK z : z = IF d.status = 0 THEN Decompress(d) ELSE d
    OBVIOUS
  <2>3. PICK s : s = IF z.status = 0 THEN CheckSignature(z) ELSE z
    OBVIOUS
  <2>4. Admitted(q) = IF s.status = 0 THEN CheckSubnet(s) ELSE s
    BY <1>2, <2>1, <2>2, <2>3 DEF Admitted, Then
  <2>5. Unpacked(d, q, {"decrypt"})
    <3>1. Staged(d, q, 400, "decrypt")
      BY <2>1, UnpackStages
    <3> QED
      BY <3>1 DEF Staged, Unpacked
  <2>6. Unpacked(z, q, {"decrypt"} \cup {"compress"})
    BY <2>2, <2>5, UnpackStages, StageUnpacked
  <2>7. Unpacked(s, q, {"decrypt"} \cup {"compress"} \cup {"sign"})
    BY <2>3, <2>6, OtherStages, StageUnpacked
  <2>8. CASE s.status = 0
    <3>1. Fresh(s)
      BY <2>7, <2>8 DEF Fresh, Unpacked
    <3>2. /\ Staged(CheckSubnet(s), s, 403, "subnet")
          /\ CheckSubnet(s).status # 0 => s.route \in {"update", "updates", "path", "grpc"}
      BY <3>1, OtherStages
    <3>3. SameRequest(CheckSubnet(s), q)
      BY <2>7, <3>2, SameTransitive DEF Staged, Unpacked
    <3>4. s.route = q.route
      BY <2>7 DEF SameRequest, Unpacked
    <3>5. PICK n : n = CheckSubnet(s) /\ n = Admitted(q)
      BY <2>4, <2>8
    <3>6. /\ Staged(n, s, 403, "subnet") /\ SameRequest(n, q)
          /\ n.status # 0 => q.route \in {"update", "updates", "path", "grpc"}
      BY <3>2, <3>3, <3>4, <3>5
    <3>7. Outcome(n, q)
      BY <3>6, LastStage DEF Staged
    <3> QED
      BY <3>5, <3>7
  <2>9. CASE s.status # 0
    <3>1. Admitted(q) = s
      BY <2>4, <2>9
    <3>2. {"decrypt"} \cup {"compress"} \cup {"sign"} = {"decrypt", "compress", "sign"}
      OBVIOUS
    <3>3. Outcome(s, q)
      BY <1>2, <2>7, <3>2, LastStage
    <3> QED
      BY <3>1, <3>3
  <2> QED
    BY <2>8, <2>9
<1> QED
  BY <1>1, <1>2

-----------------------------------------------------------------------------
(* The answer on its way out. *)

\* What a handler or a refusal writes: neither compressed nor signed.
Raw(a) == a \in AnswerType /\ ~a.gzip /\ a.layers = <<>>

\* What signing and compression leave alone.
SameAnswer(b, a) == b.status = a.status /\ b.body = a.body /\ b.shows = a.shows

Readable(b, q) ==
  q.route # "grpc" =>
    /\ b.layers = (IF b.gzip /\ b.body THEN <<Gzip>> ELSE <<>>)
    /\ b.gzip => q.accept
    /\ cfg.key # NoKey /\ q.by \notin {"decrypt", "compress", "sign"} =>
         b.sig = Signature(cfg.key, <<>>)

\* Changing fields keeps an answer an answer.
LEMMA AnswerChanged ==
  ASSUME NEW a \in AnswerType
  PROVE  /\ \A i \in SignatureType, e \in BOOLEAN :
              [a EXCEPT !.sig = i, !.explicit = e] \in AnswerType
         /\ \A g \in BOOLEAN, l \in Seq(LayerType) :
              [a EXCEPT !.gzip = g, !.layers = l] \in AnswerType
         /\ \A w \in SUBSET KeyType : [a EXCEPT !.shows = w] \in AnswerType
         /\ \A s \in Refusals \cup {0, 200}, t \in {"none", "text", "json", "html"},
               e \in BOOLEAN, b \in BOOLEAN :
              [a EXCEPT !.status = s, !.type = t, !.explicit = e, !.body = b] \in AnswerType
<1>1. PICK S, T, E, L, I, W :
        /\ S = Refusals \cup {0, 200} /\ T = {"none", "text", "json", "html"}
        /\ E = BOOLEAN /\ L = Seq(LayerType) /\ I = SignatureType /\ W = SUBSET KeyType
  BY Zenon
<1>2. AnswerType = [status : S, type : T, explicit : E, body : E, gzip : E, layers : L,
                    sig : I, shows : W]
  BY <1>1, Zenon DEF AnswerType
<1>3. /\ \A i \in I, e \in E : [a EXCEPT !.sig = i, !.explicit = e] \in AnswerType
      /\ \A g \in E, l \in L : [a EXCEPT !.gzip = g, !.layers = l] \in AnswerType
      /\ \A w \in W : [a EXCEPT !.shows = w] \in AnswerType
      /\ \A s \in S, t \in T, e \in E, b \in E :
           [a EXCEPT !.status = s, !.type = t, !.explicit = e, !.body = b] \in AnswerType
  BY <1>2
<1>4. ASSUME NEW i \in SignatureType, NEW e \in BOOLEAN
      PROVE  [a EXCEPT !.sig = i, !.explicit = e] \in AnswerType
  <2>1. i \in I /\ e \in E
    BY <1>1
  <2> QED
    BY <1>3, <2>1, Zenon
<1>5. ASSUME NEW g \in BOOLEAN, NEW l \in Seq(LayerType)
      PROVE  [a EXCEPT !.gzip = g, !.layers = l] \in AnswerType
  <2>1. g \in E /\ l \in L
    BY <1>1
  <2> QED
    BY <1>3, <2>1, Zenon
<1>6. ASSUME NEW w \in SUBSET KeyType
      PROVE  [a EXCEPT !.shows = w] \in AnswerType
  <2>1. w \in W
    BY <1>1
  <2> QED
    BY <1>3, <2>1, Zenon
<1>7. ASSUME NEW s \in Refusals \cup {0, 200}, NEW t \in {"none", "text", "json", "html"},
             NEW e \in BOOLEAN, NEW b \in BOOLEAN
      PROVE  [a EXCEPT !.status = s, !.type = t, !.explicit = e, !.body = b] \in AnswerType
  <2>1. s \in S /\ t \in T /\ e \in E /\ b \in E
    BY <1>1
  <2> QED
    BY <1>3, <2>1, Zenon
<1> QED
  BY <1>4, <1>5, <1>6, <1>7, Zenon

LEMMA SignedAnswer ==
  ASSUME cfg \in ConfigType, NEW a, Raw(a)
  PROVE  /\ Raw(SignAnswer(a)) /\ SameAnswer(SignAnswer(a), a)
         /\ cfg.key # NoKey => SignAnswer(a).sig = Signature(cfg.key, <<>>)
<1>1. cfg.key \in Keys \cup {NoKey}
  BY DEF ConfigType
<1>2. Signature(cfg.key, <<>>) \in SignatureType
  BY <1>1 DEF Signature, SignatureType
<1>3. PICK s \in SignatureType : s = Signature(cfg.key, <<>>)
  BY <1>2
<1>4. SignAnswer(a) = IF cfg.key = NoKey THEN a ELSE [a EXCEPT !.sig = s, !.explicit = TRUE]
  BY <1>3 DEF SignAnswer, Raw
<1>5. CASE cfg.key = NoKey
  BY <1>4, <1>5 DEF SameAnswer
<1>6. CASE cfg.key # NoKey
  <2>1. SignAnswer(a) = [a EXCEPT !.sig = s, !.explicit = TRUE]
    BY <1>4, <1>6
  <2>2. a \in AnswerType /\ a.gzip = FALSE /\ a.layers = <<>>
    BY DEF Raw, AnswerType
  <2>3. SignAnswer(a) \in AnswerType
    BY <1>3, <2>1, <2>2, AnswerChanged, Zenon
  <2>4. SignAnswer(a).gzip = FALSE /\ SignAnswer(a).layers = <<>> /\ SignAnswer(a).sig = s
    BY <1>3, <2>1, <2>2 DEF AnswerType
  <2>5. SameAnswer(SignAnswer(a), a)
    BY <1>3, <2>1, <2>2 DEF AnswerType, SameAnswer
  <2> QED
    BY <1>3, <2>3, <2>4, <2>5 DEF Raw
<1> QED
  BY <1>5, <1>6

LEMMA CompressedAnswer ==
  ASSUME NEW a, Raw(a), NEW q, q.accept \in BOOLEAN
  PROVE  LET b == CompressAnswer(q, a) IN
         /\ b \in AnswerType /\ SameAnswer(b, a) /\ b.sig = a.sig
         /\ b.layers = (IF b.gzip /\ b.body THEN <<Gzip>> ELSE <<>>)
         /\ b.gzip => q.accept
<1>1. CASE ~q.accept
  <2>1. CompressAnswer(q, a) = a
    BY <1>1 DEF CompressAnswer
  <2> QED
    BY <2>1 DEF Raw, SameAnswer
<1>2. CASE q.accept
  <2>1. PICK g \in BOOLEAN : g = GzipHeader(a)
    BY DEF GzipHeader, Raw, AnswerType
  <2>2. <<Gzip>> \in Seq(LayerType) /\ <<>> \in Seq(LayerType)
    BY DEF Gzip, LayerType
  <2>3. PICK l \in Seq(LayerType) : l = IF g /\ a.body THEN <<Gzip>> ELSE <<>>
    BY <2>2
  <2>4. CompressAnswer(q, a) = [a EXCEPT !.gzip = g, !.layers = l]
    BY <1>2, <2>1, <2>3 DEF CompressAnswer, GzipHeader
  <2>5. a \in AnswerType
    BY DEF Raw
  <2>6. PICK b : b = CompressAnswer(q, a)
    OBVIOUS
  <2>7. b \in AnswerType
    <3>1. [a EXCEPT !.gzip = g, !.layers = l] \in AnswerType
      BY <2>5, AnswerChanged, Zenon
    <3> QED
      BY <2>4, <2>6, <3>1, Zenon
  <2>8. b.gzip = g /\ b.layers = l /\ b.sig = a.sig
    BY <2>3, <2>4, <2>5, <2>6 DEF AnswerType
  <2>9. SameAnswer(b, a)
    BY <2>3, <2>4, <2>5, <2>6 DEF AnswerType, SameAnswer
  <2> QED
    BY <1>2, <2>3, <2>6, <2>7, <2>8, <2>9 DEF SameAnswer
<1> QED
  BY <1>1, <1>2

LEMMA AnsweredFacts ==
  ASSUME cfg \in ConfigType, NEW a, Raw(a), NEW q, q.accept \in BOOLEAN
  PROVE  /\ Answered(q, a) \in AnswerType
         /\ SameAnswer(Answered(q, a), a)
         /\ Readable(Answered(q, a), q)
<1>1. CASE q.route = "grpc" \/ q.by \in {"decrypt", "compress"}
  <2>1. Answered(q, a) = a
    BY <1>1 DEF Answered
  <2> QED
    BY <1>1, <2>1 DEF Raw, SameAnswer, Readable
<1>2. CASE ~(q.route = "grpc" \/ q.by \in {"decrypt", "compress"})
  <2>1. PICK s : s = IF q.by = "sign" THEN a ELSE SignAnswer(a)
    OBVIOUS
  <2>2. Raw(s) /\ SameAnswer(s, a) /\ (cfg.key # NoKey /\ q.by # "sign" => s.sig = Signature(cfg.key, <<>>))
    BY <2>1, SignedAnswer DEF SameAnswer
  <2>3. Answered(q, a) = CompressAnswer(q, s)
    BY <1>2, <2>1 DEF Answered
  <2>4. PICK b : b = CompressAnswer(q, s)
    OBVIOUS
  <2>5. /\ b \in AnswerType /\ SameAnswer(b, s) /\ b.sig = s.sig
        /\ b.layers = (IF b.gzip /\ b.body THEN <<Gzip>> ELSE <<>>)
        /\ b.gzip => q.accept
    BY <2>2, <2>4, CompressedAnswer
  <2> QED
    BY <2>2, <2>3, <2>4, <2>5 DEF SameAnswer, Readable
<1> QED
  BY <1>1, <1>2

\* What the handlers write.
LEMMA RawAnswers ==
  /\ Raw(NoAnswer) /\ NoAnswer.status = 0
  /\ \A status \in Refusals \cup {200} : Raw(Text(status)) /\ Text(status).status = status
  /\ \A status \in Refusals : Raw(Bare(status)) /\ Bare(status).status = status
  /\ \A q : q.route \in Routes \ {"other"} => Raw(Success(q)) /\ Success(q).status = 200
<1>1. NoSignature \in SignatureType
  BY DEF NoSignature, Signature, SignatureType
<1>2. PICK s \in SignatureType : s = NoSignature
  BY <1>1
<1>3. NoAnswer = [status |-> 0, type |-> "none", explicit |-> FALSE, body |-> FALSE,
                  gzip |-> FALSE, layers |-> <<>>, sig |-> s, shows |-> {}]
  BY <1>2 DEF NoAnswer
<1>4. Raw(NoAnswer) /\ NoAnswer.status = 0
  BY <1>3 DEF Raw, AnswerType
<1>5. ASSUME NEW status \in Refusals \cup {200}
      PROVE  Raw(Text(status)) /\ Text(status).status = status
  <2>1. Text(status) = [NoAnswer EXCEPT !.status = status, !.type = "text", !.explicit = TRUE, !.body = TRUE]
    BY DEF Text
  <2>2. [NoAnswer EXCEPT !.status = status, !.type = "text", !.explicit = TRUE, !.body = TRUE] \in AnswerType
    <3>1. NoAnswer \in AnswerType /\ status \in Refusals \cup {0, 200}
      BY <1>4 DEF Raw
    <3>2. \A t \in {"none", "text", "json", "html"}, e \in BOOLEAN, b \in BOOLEAN :
            [NoAnswer EXCEPT !.status = status, !.type = t, !.explicit = e, !.body = b] \in AnswerType
      BY <3>1, AnswerChanged, Zenon
    <3> QED
      BY <3>2, Zenon
  <2>3. Text(status).gzip = NoAnswer.gzip /\ Text(status).layers = NoAnswer.layers
        /\ Text(status).status = status
    BY <1>4, <2>1 DEF Raw, AnswerType
  <2> QED
    BY <1>4, <2>1, <2>2, <2>3 DEF Raw
<1>5a. ASSUME NEW status \in Refusals
       PROVE  Raw(Bare(status)) /\ Bare(status).status = status
  <2>1. NoAnswer \in AnswerType /\ NoAnswer.type = "none" /\ NoAnswer.body = FALSE
    BY <1>3, <1>4 DEF Raw
  <2>2. Bare(status) = [NoAnswer EXCEPT !.status = status, !.type = "none", !.explicit = TRUE,
                                        !.body = FALSE]
    BY <2>1 DEF Bare, AnswerType
  <2>3. Bare(status) \in AnswerType
    <3>1. status \in Refusals \cup {0, 200}
      OBVIOUS
    <3>2. \A t \in {"none", "text", "json", "html"}, e \in BOOLEAN, b \in BOOLEAN :
            [NoAnswer EXCEPT !.status = status, !.type = t, !.explicit = e, !.body = b] \in AnswerType
      BY <2>1, <3>1, AnswerChanged, Zenon
    <3> QED
      BY <2>2, <3>2, Zenon
  <2>4. Bare(status).gzip = NoAnswer.gzip /\ Bare(status).layers = NoAnswer.layers
        /\ Bare(status).status = status
    BY <1>4, <2>2 DEF Raw, AnswerType
  <2> QED
    BY <1>4, <2>3, <2>4 DEF Raw
<1>6. ASSUME NEW q, q.route \in Routes \ {"other"}
      PROVE  Raw(Success(q)) /\ Success(q).status = 200
  <2>1. CASE q.route \in {"path", "get"}
    BY <1>5, <2>1 DEF Success
  <2>2. CASE q.route \notin {"path", "get"}
    <3> DEFINE A(t, e, b) == [status |-> 200, type |-> t, explicit |-> e, body |-> b,
                              gzip |-> FALSE, layers |-> <<>>, sig |-> s, shows |-> {}]
    <3> DEFINE Good(a) == Raw(a) /\ a.status = 200
    <3>1. ASSUME NEW e \in BOOLEAN, NEW b \in BOOLEAN, NEW t \in {"none", "json", "html"}
          PROVE  Good(A(t, e, b))
      <4>1. A(t, e, b) \in AnswerType
        BY <1>2 DEF AnswerType
      <4> QED
        BY <4>1 DEF Raw
    <3> SUFFICES Good(Success(q))
      OBVIOUS
    <3>0. TRUE \in BOOLEAN /\ FALSE \in BOOLEAN
      OBVIOUS
    <3>2. CASE q.route = "update"
      <4>1. Success(q) = A("json", FALSE, TRUE)
        BY <1>3, <3>2 DEF Success
      <4> HIDE DEF A, Good
      <4> QED
        BY <3>0, <3>1, <4>1
    <3>3. CASE q.route = "updates"
      <4>1. Success(q) = A("none", TRUE, FALSE) \/ Success(q) = A("json", TRUE, FALSE)
        BY <1>3, <3>3 DEF Success
      <4> HIDE DEF A, Good
      <4> QED
        BY <3>0, <3>1, <4>1
    <3>4. CASE q.route = "value"
      <4>1. Success(q) = A("json", TRUE, TRUE)
        BY <1>3, <3>4 DEF Success
      <4> HIDE DEF A, Good
      <4> QED
        BY <3>0, <3>1, <4>1
    <3>5. CASE q.route = "ping"
      <4>1. Success(q) = A("none", TRUE, FALSE)
        BY <1>3, <3>5 DEF Success
      <4> HIDE DEF A, Good
      <4> QED
        BY <3>0, <3>1, <4>1
    <3>6. CASE q.route = "page"
      <4>1. Success(q) = A("html", FALSE, TRUE)
        BY <1>3, <3>6 DEF Success
      <4> HIDE DEF A, Good
      <4> QED
        BY <3>0, <3>1, <4>1
    <3>7. CASE q.route = "grpc"
      <4>1. Success(q) = A("none", FALSE, FALSE)
        BY <1>3, <3>7 DEF Success
      <4> HIDE DEF A, Good
      <4> QED
        BY <3>0, <3>1, <4>1
    <3> QED
      BY <1>6, <2>2, <3>2, <3>3, <3>4, <3>5, <3>6, <3>7 DEF Routes
  <2> QED
    BY <2>1, <2>2
<1> QED
  BY <1>4, <1>5, <1>5a, <1>6

-----------------------------------------------------------------------------
(* The handlers: what gets past their validation, and what is saved. *)

\* What every request in progress looks like.
Shaped(q) ==
  /\ q \in RequestType
  /\ q.route \in {"update", "path", "value", "get"} => Len(q.items) = 1
  /\ q.agent => q.route \in {"update", "updates", "grpc"}

Savable(q) ==
  /\ q.route \in {"update", "updates", "path", "grpc"}
  /\ DOMAIN ToSave(q) # {}
  /\ \A i \in DOMAIN ToSave(q) : ToSave(q)[i] \in MetricType /\ Valid(ToSave(q)[i])

LEMMA ShapeKept ==
  ASSUME NEW q, Shaped(q)
  PROVE  /\ \A p \in RequestType : SameRequest(p, q) => Shaped(p)
         /\ \A status \in Refusals : Shaped(Refused(q, status, "handler"))
                                  /\ SameRequest(Refused(q, status, "handler"), q)
<1>1. ASSUME NEW p \in RequestType, SameRequest(p, q)
      PROVE  Shaped(p)
  BY <1>1 DEF Shaped, SameRequest
<1>2. ASSUME NEW status \in Refusals
      PROVE  LET p == Refused(q, status, "handler") IN p \in RequestType /\ SameRequest(p, q)
  <2>1. q \in RequestType /\ "handler" \in Stages
    BY StageNames DEF Shaped
  <2>2. Refused(q, status, "handler") \in RequestType
    BY <2>1 DEF Refused, RequestType
  <2>3. SameRequest(Refused(q, status, "handler"), q)
    BY <2>1 DEF Refused, RequestType, SameRequest
  <2> QED
    BY <2>2, <2>3
<1> QED
  BY <1>1, <1>2

LEMMA RequestItems ==
  ASSUME NEW q, Shaped(q)
  PROVE  /\ q.items \in Seq(MetricType) /\ q.route \in Routes /\ q.accept \in BOOLEAN
         /\ \A i \in DOMAIN q.items : q.items[i] \in MetricType
         /\ q.route \in {"update", "path", "value", "get"} =>
              DOMAIN q.items = {1} /\ q.items[1] \in MetricType
<1>1. q.items \in Seq(MetricType) /\ q.route \in Routes /\ q.accept \in BOOLEAN
  BY DEF Shaped, RequestType
<1>2. \A i \in DOMAIN q.items : q.items[i] \in MetricType
  BY <1>1
<1>3. q.route \in {"update", "path", "value", "get"} => DOMAIN q.items = {1}
  BY <1>1 DEF Shaped
<1> QED
  BY <1>1, <1>2, <1>3

LEMMA Refusing ==
  ASSUME NEW q, Shaped(q)
  PROVE  /\ Refusal(q) \in Refusals \cup {0}
         /\ q.route = "other" => Refusal(q) # 0
         /\ Refusal(q) = 0 /\ q.route \in {"update", "updates", "value"} => q.layers = <<>>
         /\ Refusal(q) = 0 /\ q.route \in {"value", "get"} => q.items[1].type \in Types
<1>1. q.route \in Routes
  BY RequestItems
<1>2. /\ q.route = "update" => Refusal(q) = UpdateRefusal(q)
      /\ q.route = "updates" => Refusal(q) = UpdatesRefusal(q)
      /\ q.route = "path" => Refusal(q) = PostRefusal(q)
      /\ q.route = "value" => Refusal(q) = ValueRefusal(q)
      /\ q.route = "get" => Refusal(q) = GetRefusal(q)
      /\ q.route = "ping" => Refusal(q) \in {0, 500}
      /\ q.route = "other" => Refusal(q) = 404
      /\ q.route \in {"page", "grpc"} => Refusal(q) = 0
  BY DEF Refusal
<1>3. /\ UpdateRefusal(q) \in {0, 400, 415} /\ (UpdateRefusal(q) = 0 => q.layers = <<>>)
      /\ UpdatesRefusal(q) \in {0, 400, 415} /\ (UpdatesRefusal(q) = 0 => q.layers = <<>>)
      /\ PostRefusal(q) \in {0, 400}
      /\ ValueRefusal(q) \in {0, 400, 415}
      /\ ValueRefusal(q) = 0 => q.layers = <<>> /\ q.items[1].type \in Types
      /\ GetRefusal(q) \in {0, 404} /\ (GetRefusal(q) = 0 => q.items[1].type \in Types)
  BY DEF UpdateRefusal, UpdatesRefusal, PostRefusal, ValueRefusal, GetRefusal, Undecodable
<1> QED
  BY <1>1, <1>2, <1>3 DEF Routes, Refusals

LEMMA Saving ==
  ASSUME NEW q, Shaped(q), Refusal(q) = 0, ~IsRead(q)
  PROVE  /\ q.route \in {"update", "updates", "path", "grpc"}
         /\ \A i \in DOMAIN ToSave(q) : ToSave(q)[i] \in MetricType /\ Valid(ToSave(q)[i])
<1>1. q.route \in {"update", "updates", "path", "grpc"}
  BY Refusing, RequestItems DEF IsRead, Routes
<1>2. CASE q.route = "grpc"
  <2>1. ToSave(q) = ToModel(q.items)
    BY <1>2 DEF ToSave
  <2>2. ASSUME NEW i \in DOMAIN ToModel(q.items)
        PROVE  ToModel(q.items)[i] \in MetricType /\ Valid(ToModel(q.items)[i])
    <3>1. i \in DOMAIN q.items /\ q.items[i].type \in Types
          /\ ToModel(q.items)[i] = [q.items[i] EXCEPT !.valued = TRUE]
      BY <2>2 DEF ToModel
    <3>2. q.items[i] \in MetricType
      BY <3>1, RequestItems
    <3> QED
      BY <3>1, <3>2 DEF MetricType, Valid
  <2> QED
    BY <1>1, <2>1, <2>2
<1>3. CASE q.route # "grpc"
  <2>1. ToSave(q) = q.items
    BY <1>3 DEF ToSave
  <2>2. \A i \in DOMAIN q.items : Valid(q.items[i])
    <3>1. CASE q.route = "update"
      BY <3>1, RequestItems DEF Refusal, UpdateRefusal
    <3>2. CASE q.route = "updates"
      BY <3>2 DEF Refusal, UpdatesRefusal
    <3>3. CASE q.route = "path"
      BY <3>3, RequestItems DEF Refusal, PostRefusal
    <3> QED
      BY <1>1, <1>3, <3>1, <3>2, <3>3
  <2> QED
    BY <1>1, <2>1, <2>2, RequestItems
<1> QED
  BY <1>1, <1>2, <1>3

StoreType == [KeyType -> {"absent", "number", "nan"}]

LEMMA KeyTyped == ASSUME NEW m \in MetricType, m.type \in Types PROVE Key(m) \in KeyType
BY DEF MetricType, Key, KeyType

\* Saving makes metrics appear and none disappear.
LEMMA Absorbing ==
  ASSUME NEW s \in StoreType, NEW items,
         \A i \in DOMAIN items : items[i] \in MetricType /\ Valid(items[i])
  PROVE  /\ Absorb(s, items) \in StoreType
         /\ \A k \in KeyType : s[k] # "absent" => Absorb(s, items)[k] # "absent"
         /\ \A i \in DOMAIN items : Absorb(s, items)[Key(items[i])] # "absent"
<1>1. DOMAIN s = KeyType /\ \A k \in KeyType : s[k] \in {"absent", "number", "nan"}
  BY DEF StoreType
<1>2. ASSUME NEW k \in KeyType
      PROVE  LET hits == {i \in DOMAIN items : Valid(items[i]) /\ Key(items[i]) = k} IN
             /\ Absorb(s, items)[k] \in {s[k], "number", "nan"}
             /\ hits # {} => Absorb(s, items)[k] \in {"number", "nan"}
  BY <1>1 DEF Absorb
<1>3. DOMAIN Absorb(s, items) = KeyType
  BY <1>1 DEF Absorb
<1>4. Absorb(s, items) = [k \in KeyType |-> Absorb(s, items)[k]]
  BY <1>1 DEF Absorb
<1>5. Absorb(s, items) \in StoreType
  BY <1>1, <1>2, <1>4 DEF StoreType
<1>6. ASSUME NEW i \in DOMAIN items
      PROVE  Absorb(s, items)[Key(items[i])] # "absent"
  <2>1. Key(items[i]) \in KeyType
    BY KeyTyped DEF Valid
  <2> QED
    BY <1>2, <2>1
<1> QED
  BY <1>1, <1>2, <1>5, <1>6

-----------------------------------------------------------------------------
(* Types, and what is known of a request while it is in progress. *)

PcType == {"idle", "sent", "save", "notify", "read", "counters", "gauges", "ping", "answered"}

RequestInv(r) ==
  /\ pc[r] # "idle" => Shaped(req[r])
  /\ pc[r] \notin {"idle", "answered"} => req[r].status = 0 /\ req[r].by = ""
  /\ pc[r] = "sent" => (req[r].agent => req[r] \in AgentRequests)
  /\ pc[r] \in {"save", "notify"} => Savable(req[r])
  /\ pc[r] = "read" =>
       /\ req[r].route \in {"value", "get"}
       /\ req[r].items[1] \in MetricType /\ req[r].items[1].type \in Types
  /\ pc[r] \in {"counters", "gauges"} => req[r].route = "page"
  /\ pc[r] = "ping" => req[r].route = "ping"
  /\ pc[r] \in {"save", "notify", "read"} /\ req[r].route \in {"update", "updates", "value"} =>
       req[r].layers = <<>>

TypeInv == TypeOK /\ DOMAIN req = Requests /\ \A r \in Requests : RequestInv(r)

\* What the step of one request leaves to the others.
Elsewhere(r) ==
  \A x \in Requests \ {r} :
    /\ pc'[x] = pc[x] /\ req'[x] = req[x] /\ resp'[x] = resp[x]
    /\ since'[x] = since[x] /\ applied'[x] = applied[x] /\ events'[x] = events[x]

Typed ==
  /\ cfg \in ConfigType /\ pc \in [Requests -> PcType] /\ resp \in [Requests -> AnswerType]
  /\ store \in StoreType /\ acked \subseteq KeyType /\ since \in [Requests -> SUBSET KeyType]
  /\ applied \in [Requests -> Nat] /\ events \in [Requests -> Nat] /\ DOMAIN req = Requests

StatusInv(r) == Finished(r) <=> resp[r].status # 0

LEMMA TypeParts == TypeInv <=> Typed /\ \A r \in Requests : RequestInv(r) /\ StatusInv(r)
<1>1. ASSUME TypeInv
      PROVE  Typed /\ \A r \in Requests : RequestInv(r) /\ StatusInv(r)
  BY <1>1 DEF TypeInv, TypeOK, Typed, PcType, StoreType, StatusInv
<1>2. ASSUME Typed, \A r \in Requests : RequestInv(r) /\ StatusInv(r)
      PROVE  TypeInv
  BY <1>2 DEF TypeInv, TypeOK, Typed, PcType, StoreType, StatusInv, RequestInv, Shaped
<1> QED
  BY <1>1, <1>2

LEMMA AnswerStep ==
  ASSUME TypeInv, NEW r \in Requests, NEW q, Shaped(q), NEW a, Raw(a), a.status # 0,
         Answer(r, q, a)
  PROVE  /\ pc' \in [Requests -> PcType] /\ resp' \in [Requests -> AnswerType]
         /\ DOMAIN req' = Requests
         /\ pc'[r] = "answered" /\ req'[r] = q /\ resp'[r] = Answered(q, a)
         /\ SameAnswer(resp'[r], a) /\ Readable(resp'[r], q)
         /\ \A x \in Requests \ {r} : pc'[x] = pc[x] /\ req'[x] = req[x] /\ resp'[x] = resp[x]
<1>1. Typed
  BY TypeParts
<1>2. q.accept \in BOOLEAN
  BY RequestItems
<1>3. /\ Answered(q, a) \in AnswerType
      /\ SameAnswer(Answered(q, a), a)
      /\ Readable(Answered(q, a), q)
  BY <1>1, <1>2, AnsweredFacts DEF Typed
<1>4. pc' \in [Requests -> PcType] /\ pc'[r] = "answered" /\ \A x \in Requests \ {r} : pc'[x] = pc[x]
  BY <1>1 DEF Typed, Answer, PcType
<1>5. DOMAIN req' = Requests /\ req'[r] = q /\ \A x \in Requests \ {r} : req'[x] = req[x]
  BY <1>1 DEF Typed, Answer
<1>6. PICK b \in AnswerType : b = Answered(q, a)
  BY <1>3
<1>7. resp' \in [Requests -> AnswerType] /\ resp'[r] = b /\ \A x \in Requests \ {r} : resp'[x] = resp[x]
  BY <1>1, <1>6 DEF Typed, Answer
<1> QED
  BY <1>3, <1>4, <1>5, <1>6, <1>7

LEMMA TypesConstant ==
  /\ ConfigType' = ConfigType /\ PcType' = PcType /\ AnswerType' = AnswerType
  /\ StoreType' = StoreType /\ KeyType' = KeyType
<1>1. ConfigType' = ConfigType
  BY DEF ConfigType
<1>2. PcType' = PcType
  BY DEF PcType
<1>3. AnswerType' = AnswerType
  BY DEF AnswerType
<1>4. StoreType' = StoreType /\ KeyType' = KeyType
  BY DEF StoreType
<1> QED
  BY <1>1, <1>2, <1>3, <1>4

LEMMA AgentsConstant == ASSUME cfg' = cfg PROVE AgentRequests' = AgentRequests
BY DEF AgentRequests, AgentHttp, AgentGrpc, AgentSingle, AgentPost, AgentSignature

\* The invariant of the requests that do not take the step.
LEMMA OthersKept ==
  ASSUME TypeInv, NEW r \in Requests, Elsewhere(r), cfg' = cfg,
         NEW x \in Requests \ {r}
  PROVE  RequestInv(x)' /\ StatusInv(x)'
<1>1. RequestInv(x) /\ StatusInv(x)
  BY TypeParts
<1>2. pc'[x] = pc[x] /\ req'[x] = req[x] /\ resp'[x] = resp[x] /\ AgentRequests' = AgentRequests
  BY AgentsConstant DEF Elsewhere
<1>3. StatusInv(x)'
  BY <1>1, <1>2 DEF StatusInv, Finished
<1>4. RequestInv(x)'
  BY <1>1, <1>2 DEF RequestInv
<1> QED
  BY <1>3, <1>4

LEMMA AgentPosts ==
  ASSUME cfg \in ConfigType, NEW b \in Seq(MetricType), NEW route \in {"update", "updates"},
         NEW layers \in Seq(LayerType), route = "update" => Len(b) = 1
  PROVE  LET q == AgentPost(route, b, layers) IN
         /\ Fresh(q) /\ Shaped(q) /\ q.agent /\ q.route = route /\ q.items = b /\ q.json
<1>1. /\ cfg.pub \in Keys \cup {NoKey} /\ cfg.agentKey \in Keys \cup {NoKey}
      /\ cfg.agentInside \in BOOLEAN
  BY DEF ConfigType
<1>2. PICK g \in BOOLEAN, e \in BOOLEAN : g = (layers # <<>>) /\ e = (cfg.pub # NoKey)
  OBVIOUS
<1>3. AgentSignature \in SignatureType
  BY <1>1 DEF AgentSignature, Signature, NoSignature, SignatureType
<1>4. PICK s \in SignatureType : s = AgentSignature
  BY <1>3
<1>5. <<Sealed(cfg.pub)>> \o layers \in Seq(LayerType)
  BY <1>1 DEF Sealed, LayerType
<1>6. PICK l \in Seq(LayerType) :
        l = IF cfg.pub = NoKey THEN layers ELSE <<Sealed(cfg.pub)>> \o layers
  BY <1>5
<1>7. PICK i \in BOOLEAN : i = cfg.agentInside
  BY <1>1
<1>8. AgentPost(route, b, layers) =
        [route |-> route, items |-> b, json |-> TRUE, gzip |-> g, cut |-> FALSE, layers |-> l,
         encrypted |-> e, sig |-> s, ca |-> NoKey, inside |-> i, accept |-> TRUE, agent |-> TRUE,
         status |-> 0, by |-> ""]
  BY <1>2, <1>4, <1>6, <1>7 DEF AgentPost
<1>9. /\ route \in Routes /\ 0 \in Refusals \cup {0} /\ "" \in Stages \cup {""}
      /\ NoKey \in Keys \cup {NoKey} /\ TRUE \in BOOLEAN /\ FALSE \in BOOLEAN
  BY DEF Routes
<1>10. PICK q : q = AgentPost(route, b, layers)
  OBVIOUS
<1>11. q \in RequestType
  <2>1. [route |-> route, items |-> b, json |-> TRUE, gzip |-> g, cut |-> FALSE, layers |-> l,
         encrypted |-> e, sig |-> s, ca |-> NoKey, inside |-> i, accept |-> TRUE, agent |-> TRUE,
         status |-> 0, by |-> ""] \in RequestType
    BY <1>9, Zenon DEF RequestType
  <2> QED
    BY <1>8, <1>10, <2>1, Zenon
<1>12. q.status = 0 /\ q.by = "" /\ q.agent = TRUE /\ q.route = route /\ q.items = b /\ q.json = TRUE
  BY <1>10 DEF AgentPost
<1> QED
  BY <1>10, <1>11, <1>12 DEF Fresh, Shaped

LEMMA AgentGrpcs ==
  ASSUME cfg \in ConfigType, NEW b \in Seq(MetricType)
  PROVE  LET q == AgentGrpc(b) IN
         Fresh(q) /\ Shaped(q) /\ q.agent /\ q.route = "grpc" /\ q.items = b
<1>1. cfg.agentCert \in Keys \cup {NoKey} /\ cfg.agentInside \in BOOLEAN
  BY DEF ConfigType
<1>2. NoSignature \in SignatureType /\ "grpc" \in Routes
  BY DEF Signature, NoSignature, SignatureType, Routes
<1>3. PICK q : q = AgentGrpc(b)
  OBVIOUS
<1>4. q \in RequestType
  <2>1. /\ 0 \in Refusals \cup {0} /\ "" \in Stages \cup {""} /\ TRUE \in BOOLEAN
        /\ FALSE \in BOOLEAN /\ <<>> \in Seq(LayerType)
    OBVIOUS
  <2> QED
    BY <1>1, <1>2, <1>3, <2>1, Zenon DEF AgentGrpc, RequestType
<1>5. q.status = 0 /\ q.by = "" /\ q.agent = TRUE /\ q.route = "grpc" /\ q.items = b
  BY <1>3 DEF AgentGrpc
<1> QED
  BY <1>3, <1>4, <1>5 DEF Fresh, Shaped

LEMMA BatchFacts ==
  ASSUME NEW b \in AgentBatches
  PROVE  /\ b \in Seq(MetricType)
         /\ \A i \in DOMAIN b : /\ b[i] \in MetricType /\ b[i].type \in Types /\ b[i].valued
                                /\ <<b[i]>> \in Seq(MetricType) /\ Len(<<b[i]>>) = 1
<1>1. b \in Seq(MetricType)
  BY GatewayAssumption
<1>2. ASSUME NEW i \in DOMAIN b
      PROVE  /\ b[i] \in MetricType /\ b[i].type \in Types /\ b[i].valued
             /\ <<b[i]>> \in Seq(MetricType) /\ Len(<<b[i]>>) = 1
  <2>1. b[i] \in MetricType
    BY <1>1
  <2>2. b[i].type \in Types /\ b[i].valued
    BY GatewayAssumption
  <2> QED
    BY <2>1, <2>2
<1> QED
  BY <1>1, <1>2

\* What is sent is fresh, and the agent's has its shape.
LEMMA Sent ==
  ASSUME cfg \in ConfigType, NEW q \in OtherRequests \cup AgentRequests
  PROVE  Fresh(q) /\ Shaped(q) /\ (q.agent => q \in AgentRequests)
<1>1. CASE q \in OtherRequests
  BY <1>1, GatewayAssumption DEF Fresh, Shaped
<1>2. CASE q \in AgentRequests
  <2>1. PICK b \in AgentBatches :
          q \in {AgentHttp(b), AgentGrpc(b)} \cup {AgentSingle(b[i]) : i \in DOMAIN b}
    BY <1>2 DEF AgentRequests
  <2>2. CASE q = AgentHttp(b)
    <3>1. <<Gzip>> \in Seq(LayerType)
      BY DEF Gzip, LayerType
    <3> QED
      BY <1>2, <2>2, <3>1, BatchFacts, AgentPosts DEF AgentHttp
  <2>3. CASE q = AgentGrpc(b)
    BY <1>2, <2>3, BatchFacts, AgentGrpcs
  <2>4. CASE q \in {AgentSingle(b[i]) : i \in DOMAIN b}
    <3>1. PICK i \in DOMAIN b : q = AgentPost("update", <<b[i]>>, <<>>)
      BY <2>4 DEF AgentSingle
    <3>2. <<b[i]>> \in Seq(MetricType) /\ Len(<<b[i]>>) = 1 /\ <<>> \in Seq(LayerType)
      BY BatchFacts
    <3> QED
      BY <1>2, <3>1, <3>2, AgentPosts, Zenon
  <2> QED
    BY <2>1, <2>2, <2>3, <2>4
<1> QED
  BY <1>1, <1>2

\* Enough for a step of one request to keep the invariant.
LEMMA StepOfOne ==
  ASSUME TypeInv, NEW r \in Requests, Elsewhere(r), cfg' = cfg,
         Typed', RequestInv(r)', StatusInv(r)'
  PROVE  TypeInv'
<1>1. \A x \in Requests : RequestInv(x)' /\ StatusInv(x)'
  BY OthersKept, Zenon
<1> QED
  BY <1>1 DEF TypeInv, TypeOK, Typed, PcType, StoreType, StatusInv, RequestInv, Shaped

Quiet(r) ==
  /\ cfg' = cfg /\ store' \in StoreType /\ acked' \subseteq KeyType
  /\ since' \in [Requests -> SUBSET KeyType]
  /\ applied' \in [Requests -> Nat] /\ events' \in [Requests -> Nat]
  /\ \A x \in Requests \ {r} :
       since'[x] = since[x] /\ applied'[x] = applied[x] /\ events'[x] = events[x]

LEMMA QuietSteps ==
  ASSUME TypeInv, NEW r \in Requests, UNCHANGED <<cfg, since>>,
         store' \in StoreType, acked' \subseteq KeyType,
         applied' \in {applied, [applied EXCEPT ![r] = @ + 1]},
         events' \in {events, [events EXCEPT ![r] = @ + 1]}
  PROVE  Quiet(r)
<1>1. Typed
  BY TypeParts
<1>2. applied' \in [Requests -> Nat] /\ \A x \in Requests \ {r} : applied'[x] = applied[x]
  BY <1>1 DEF Typed
<1>3. events' \in [Requests -> Nat] /\ \A x \in Requests \ {r} : events'[x] = events[x]
  BY <1>1 DEF Typed
<1> QED
  BY <1>1, <1>2, <1>3 DEF Typed, Quiet

LEMMA Answering ==
  ASSUME TypeInv, NEW r \in Requests, NEW q, Shaped(q), NEW a, Raw(a), a.status # 0,
         Answer(r, q, a), Quiet(r)
  PROVE  TypeInv' /\ Elsewhere(r) /\ Readable(resp'[r], req'[r])
<1>1. /\ Readable(resp'[r], req'[r])
      /\ pc' \in [Requests -> PcType] /\ resp' \in [Requests -> AnswerType]
      /\ DOMAIN req' = Requests
      /\ pc'[r] = "answered" /\ req'[r] = q /\ resp'[r].status = a.status
      /\ \A x \in Requests \ {r} : pc'[x] = pc[x] /\ req'[x] = req[x] /\ resp'[x] = resp[x]
  BY AnswerStep DEF SameAnswer
<1>2. Elsewhere(r)
  BY <1>1 DEF Elsewhere, Quiet
<1>3. Typed'
  <2>1. cfg' \in ConfigType
    BY TypeParts DEF Typed, Quiet
  <2> QED
    BY <1>1, <2>1 DEF Typed, Quiet, PcType, StoreType, AnswerType, ConfigType
<1>4. RequestInv(r)' /\ StatusInv(r)'
  BY <1>1 DEF RequestInv, StatusInv, Finished
<1> QED
  BY <1>1, <1>2, <1>3, <1>4, StepOfOne DEF Quiet

LEMMA SendStep ==
  ASSUME TypeInv, NEW r \in Requests, Send(r)
  PROVE  /\ TypeInv' /\ Elsewhere(r)
         /\ pc'[r] = "sent" /\ since'[r] = acked /\ resp'[r] = resp[r]
         /\ applied'[r] = applied[r] /\ events'[r] = events[r]
<1>1. Typed /\ RequestInv(r) /\ StatusInv(r)
  BY TypeParts
<1>2. PICK q \in OtherRequests \cup AgentRequests : req' = [req EXCEPT ![r] = q]
  BY DEF Send
<1>3. Fresh(q) /\ Shaped(q) /\ (q.agent => q \in AgentRequests)
  BY <1>1, Sent DEF Typed
<1>4. /\ DOMAIN req' = Requests /\ req'[r] = q
      /\ \A x \in Requests \ {r} : req'[x] = req[x]
  BY <1>1, <1>2 DEF Typed
<1>5. /\ pc' \in [Requests -> PcType] /\ pc'[r] = "sent"
      /\ \A x \in Requests \ {r} : pc'[x] = pc[x]
  BY <1>1 DEF Typed, Send, PcType
<1>6. /\ since' \in [Requests -> SUBSET KeyType] /\ since'[r] = acked
      /\ \A x \in Requests \ {r} : since'[x] = since[x]
  BY <1>1 DEF Typed, Send
<1>7. UNCHANGED <<cfg, resp, store, acked, applied, events>> /\ pc[r] = "idle"
  BY DEF Send
<1>8. Elsewhere(r)
  BY <1>4, <1>5, <1>6, <1>7 DEF Elsewhere
<1>9. Typed'
  BY <1>1, <1>4, <1>5, <1>6, <1>7, TypesConstant DEF Typed
<1>10. StatusInv(r)'
  BY <1>1, <1>5, <1>7 DEF StatusInv, Finished
<1>11. RequestInv(r)'
  <2>1. AgentRequests' = AgentRequests
    BY <1>7, AgentsConstant
  <2> QED
    BY <1>3, <1>4, <1>5, <2>1 DEF RequestInv, Fresh
<1> QED
  BY <1>5, <1>6, <1>7, <1>8, <1>9, <1>10, <1>11, StepOfOne

\* What the middleware makes of a request that has been sent.
LEMMA Admission ==
  ASSUME TypeInv, NEW r \in Requests, pc[r] = "sent"
  PROVE  Outcome(Admitted(req[r]), req[r]) /\ Shaped(Admitted(req[r])) /\ Shaped(req[r])
<1>1. RequestInv(r)
  BY TypeParts
<1>2. Fresh(req[r]) /\ Shaped(req[r])
  BY <1>1 DEF RequestInv, Fresh, Shaped
<1>3. PICK q : q = req[r]
  OBVIOUS
<1>4. Outcome(Admitted(q), q) /\ Shaped(q)
  BY <1>2, <1>3, AdmittedOutcome
<1>5. Admitted(q) \in RequestType /\ SameRequest(Admitted(q), q)
  BY <1>4 DEF Outcome
<1>6. Shaped(Admitted(q))
  BY <1>4, <1>5, ShapeKept, Zenon
<1> QED
  BY <1>3, <1>4, <1>6

\* Where a request goes that is neither refused nor empty.
Goes(r, q) ==
  /\ pc' = [pc EXCEPT ![r] = NextStep(q)]
  /\ req' = [req EXCEPT ![r] = q]
  /\ UNCHANGED resp

LEMMA GoesStep ==
  ASSUME TypeInv, NEW r \in Requests, NEW q, Shaped(q), q.status = 0, q.by = "",
         Refusal(q) = 0, IsRead(q) \/ DOMAIN ToSave(q) # {}, pc[r] = "sent",
         Goes(r, q), UNCHANGED <<cfg, store, acked, since, applied, events>>
  PROVE  /\ TypeInv' /\ Elsewhere(r)
         /\ pc'[r] = NextStep(q) /\ req'[r] = q
         /\ pc'[r] \in {"save", "read", "counters", "ping"}
<1>1. Typed /\ RequestInv(r) /\ StatusInv(r)
  BY TypeParts
<1>2. /\ DOMAIN req' = Requests /\ req'[r] = q
      /\ \A x \in Requests \ {r} : req'[x] = req[x]
  BY <1>1 DEF Typed, Goes
<1>3. NextStep(q) \in {"save", "read", "counters", "ping"}
  BY DEF NextStep
<1>4. /\ pc' \in [Requests -> PcType] /\ pc'[r] = NextStep(q)
      /\ \A x \in Requests \ {r} : pc'[x] = pc[x]
  BY <1>1, <1>3 DEF Typed, Goes, PcType
<1>5. Elsewhere(r) /\ UNCHANGED <<cfg, resp, store, acked, since, applied, events>>
  BY <1>2, <1>4 DEF Elsewhere, Goes
<1>6. Typed'
  BY <1>1, <1>2, <1>4, <1>5, TypesConstant DEF Typed
<1>7. StatusInv(r)'
  BY <1>1, <1>3, <1>4, <1>5 DEF StatusInv, Finished
<1>8. RequestInv(r)'
  <2>1. /\ q.route \in {"value", "get"} => NextStep(q) = "read"
        /\ q.route = "page" => NextStep(q) = "counters"
        /\ q.route = "ping" => NextStep(q) = "ping"
        /\ q.route \notin {"value", "get", "page", "ping"} => NextStep(q) = "save"
    BY DEF NextStep
  <2>2. NextStep(q) = "save" => Savable(q)
    BY <2>1, Saving DEF Savable, IsRead
  <2>3. NextStep(q) = "read" =>
          /\ q.route \in {"value", "get"}
          /\ q.items[1] \in MetricType /\ q.items[1].type \in Types
    BY <2>1, RequestItems, Refusing
  <2>4. /\ NextStep(q) \notin {"gauges", "sent", "notify", "idle", "answered"}
        /\ NextStep(q) = "counters" => q.route = "page"
        /\ NextStep(q) = "ping" => q.route = "ping"
        /\ q.route \in {"update", "updates", "value"} => q.layers = <<>>
    BY <2>1, Refusing
  <2> QED
    BY <1>2, <1>4, <2>2, <2>3, <2>4 DEF RequestInv
<1> QED
  BY <1>2, <1>3, <1>4, <1>5, <1>6, <1>7, <1>8, StepOfOne

\* A request that was sent is refused, answered at once, or goes on.
LEMMA HandleStep ==
  ASSUME TypeInv, NEW r \in Requests, Handle(r)
  PROVE  LET q == Admitted(req[r])
             refused == Refused(q, Refusal(q), "handler") IN
         /\ TypeInv' /\ Elsewhere(r) /\ (pc'[r] = "answered" => Readable(resp'[r], req'[r]))
         /\ UNCHANGED <<cfg, store, acked, since, applied, events>>
         /\ pc[r] = "sent" /\ Shaped(q) /\ Outcome(q, req[r])
         /\ \/ /\ q.status # 0 /\ pc'[r] = "answered" /\ req'[r] = q
               /\ SameAnswer(resp'[r], Text(q.status))
               /\ resp'[r].status = q.status
            \/ /\ q.status = 0 /\ Refusal(q) # 0 /\ pc'[r] = "answered" /\ req'[r] = refused
               /\ SameRequest(refused, q)
               /\ SameAnswer(resp'[r], RefusalAnswer(q))
               /\ resp'[r].status = Refusal(q)
            \/ /\ q.status = 0 /\ Refusal(q) = 0 /\ ~IsRead(q) /\ DOMAIN ToSave(q) = {}
               /\ pc'[r] = "answered" /\ req'[r] = q /\ resp'[r].status = 200
            \/ /\ q.status = 0 /\ Refusal(q) = 0 /\ (IsRead(q) \/ DOMAIN ToSave(q) # {})
               /\ pc'[r] = NextStep(q) /\ req'[r] = q /\ resp' = resp
               /\ pc'[r] \in {"save", "read", "counters", "ping"}
<1>1. Typed
  BY TypeParts
<1>2. pc[r] = "sent" /\ UNCHANGED <<cfg, store, acked, since, applied, events>>
  BY DEF Handle
<1>3. PICK q : q = Admitted(req[r])
  OBVIOUS
<1>4. Shaped(q) /\ Outcome(q, req[r])
  BY <1>2, <1>3, Admission
<1>5. Quiet(r)
  BY <1>1, <1>2, QuietSteps DEF Typed
<1>6. \/ q.status # 0 /\ Answer(r, q, Text(q.status))
      \/ /\ q.status = 0 /\ Refusal(q) # 0
         /\ Answer(r, Refused(q, Refusal(q), "handler"), RefusalAnswer(q))
      \/ /\ q.status = 0 /\ Refusal(q) = 0
         /\ ~IsRead(q) /\ DOMAIN ToSave(q) = {}
         /\ Answer(r, q, Success(q))
      \/ /\ q.status = 0 /\ Refusal(q) = 0
         /\ IsRead(q) \/ DOMAIN ToSave(q) # {}
         /\ Goes(r, q)
  BY <1>3 DEF Handle, Goes
<1>7. CASE q.status # 0 /\ Answer(r, q, Text(q.status))
  <2>0. q.status \in {400, 403, 503}
    BY <1>4, <1>7, Zenon DEF Outcome
  <2>1. q.status \in Refusals
    BY <2>0 DEF Refusals
  <2>2. Raw(Text(q.status)) /\ Text(q.status).status = q.status
    BY <2>1, RawAnswers, Zenon
  <2>3. /\ TypeInv' /\ Elsewhere(r) /\ Readable(resp'[r], req'[r])
        /\ pc'[r] = "answered" /\ req'[r] = q /\ SameAnswer(resp'[r], Text(q.status))
    BY <1>4, <1>5, <1>7, <2>2, Answering, AnswerStep
  <2> QED
    BY <1>2, <1>3, <1>4, <1>7, <2>2, <2>3 DEF SameAnswer
<1>8. CASE /\ q.status = 0 /\ Refusal(q) # 0
           /\ Answer(r, Refused(q, Refusal(q), "handler"), RefusalAnswer(q))
  <2>1. Refusal(q) \in Refusals
    BY <1>4, <1>8, Refusing
  <2>2. Raw(RefusalAnswer(q)) /\ RefusalAnswer(q).status = Refusal(q)
    BY <2>1, RawAnswers DEF RefusalAnswer
  <2>3. PICK p : p = Refused(q, Refusal(q), "handler")
    OBVIOUS
  <2>4. Shaped(p) /\ SameRequest(p, q)
    BY <1>4, <2>1, <2>3, ShapeKept
  <2>5. Answer(r, p, RefusalAnswer(q))
    BY <1>8, <2>3
  <2>6. /\ TypeInv' /\ Elsewhere(r) /\ Readable(resp'[r], req'[r])
        /\ pc'[r] = "answered" /\ req'[r] = p /\ SameAnswer(resp'[r], RefusalAnswer(q))
    BY <1>5, <1>8, <2>2, <2>4, <2>5, Answering, AnswerStep
  <2> QED
    BY <1>2, <1>3, <1>4, <1>8, <2>2, <2>3, <2>4, <2>6 DEF SameAnswer
<1>9. CASE /\ q.status = 0 /\ Refusal(q) = 0
           /\ ~IsRead(q) /\ DOMAIN ToSave(q) = {}
           /\ Answer(r, q, Success(q))
  <2>1. q.route \in Routes \ {"other"}
    BY <1>4, <1>9, Saving DEF Routes
  <2>2. Raw(Success(q)) /\ Success(q).status = 200 /\ Success(q).status # 0
    BY <2>1, RawAnswers
  <2>3. /\ TypeInv' /\ Elsewhere(r) /\ Readable(resp'[r], req'[r])
        /\ pc'[r] = "answered" /\ req'[r] = q /\ SameAnswer(resp'[r], Success(q))
    BY <1>4, <1>5, <1>9, <2>2, Answering, AnswerStep
  <2> QED
    BY <1>2, <1>3, <1>4, <1>9, <2>2, <2>3 DEF SameAnswer
<1>10. CASE /\ q.status = 0 /\ Refusal(q) = 0
            /\ IsRead(q) \/ DOMAIN ToSave(q) # {}
            /\ Goes(r, q)
  <2>1. q.by = ""
    BY <1>4, <1>10 DEF Outcome
  <2>2. /\ TypeInv' /\ Elsewhere(r)
        /\ pc'[r] = NextStep(q) /\ req'[r] = q
        /\ pc'[r] \in {"save", "read", "counters", "ping"}
    BY <1>2, <1>4, <1>10, <2>1, GoesStep
  <2>3. resp' = resp
    BY <1>10 DEF Goes
  <2> QED
    BY <1>2, <1>3, <1>4, <1>10, <2>2, <2>3
<1> QED
  BY <1>6, <1>7, <1>8, <1>9, <1>10

LEMMA SavedTypes ==
  ASSUME TypeInv, NEW r \in Requests, pc[r] \in {"save", "notify"}
  PROVE  /\ Savable(req[r]) /\ Shaped(req[r]) /\ req[r].status = 0
         /\ Absorb(store, ToSave(req[r])) \in StoreType
         /\ \A k \in KeyType : store[k] # "absent" => Absorb(store, ToSave(req[r]))[k] # "absent"
         /\ \A i \in DOMAIN ToSave(req[r]) :
              /\ Key(ToSave(req[r])[i]) \in KeyType
              /\ Absorb(store, ToSave(req[r]))[Key(ToSave(req[r])[i])] # "absent"
<1>1. RequestInv(r) /\ Typed
  BY TypeParts
<1>2. Savable(req[r]) /\ Shaped(req[r]) /\ req[r].status = 0
  BY <1>1 DEF RequestInv
<1>3. \A i \in DOMAIN ToSave(req[r]) : ToSave(req[r])[i] \in MetricType /\ Valid(ToSave(req[r])[i])
  BY <1>2 DEF Savable
<1>4. \A i \in DOMAIN ToSave(req[r]) : Key(ToSave(req[r])[i]) \in KeyType
  BY <1>3, KeyTyped DEF Valid
<1> QED
  BY <1>1, <1>2, <1>3, <1>4, Absorbing DEF Typed

LEMMA SaveStep ==
  ASSUME TypeInv, NEW r \in Requests, Save(r)
  PROVE  /\ TypeInv' /\ Elsewhere(r)
         /\ UNCHANGED <<cfg, req, resp, acked, since, events>>
         /\ store' = Absorb(store, ToSave(req[r]))
         /\ pc[r] = "save" /\ pc'[r] = "notify" /\ applied'[r] = applied[r] + 1
<1>1. Typed /\ RequestInv(r) /\ StatusInv(r)
  BY TypeParts
<1>2. /\ pc[r] = "save" /\ UNCHANGED <<cfg, req, resp, acked, since, events>>
      /\ store' = Absorb(store, ToSave(req[r]))
  BY DEF Save
<1>3. store' \in StoreType
  BY <1>2, SavedTypes
<1>4. /\ pc' \in [Requests -> PcType] /\ pc'[r] = "notify"
      /\ \A x \in Requests \ {r} : pc'[x] = pc[x]
  BY <1>1 DEF Typed, Save, PcType
<1>5. /\ applied' \in [Requests -> Nat] /\ applied'[r] = applied[r] + 1
      /\ \A x \in Requests \ {r} : applied'[x] = applied[x]
  BY <1>1 DEF Typed, Save
<1>6. Elsewhere(r)
  BY <1>2, <1>4, <1>5 DEF Elsewhere
<1>7. Typed'
  BY <1>1, <1>2, <1>3, <1>4, <1>5, TypesConstant DEF Typed
<1>8. StatusInv(r)'
  BY <1>1, <1>2, <1>4 DEF StatusInv, Finished
<1>9. RequestInv(r)'
  BY <1>1, <1>2, <1>4 DEF RequestInv
<1> QED
  BY <1>2, <1>4, <1>5, <1>6, <1>7, <1>8, <1>9, StepOfOne

LEMMA SaveRepeatsStep ==
  ASSUME TypeInv, NEW r \in Requests, SaveRepeats(r)
  PROVE  /\ TypeInv' /\ Elsewhere(r)
         /\ UNCHANGED <<cfg, pc, req, resp, acked, since, events>>
         /\ store' = Absorb(store, ToSave(req[r]))
         /\ pc[r] = "save" /\ cfg.db /\ applied[r] + 1 < MaxAttempts
         /\ applied'[r] = applied[r] + 1
<1>1. Typed /\ RequestInv(r) /\ StatusInv(r)
  BY TypeParts
<1>2. /\ pc[r] = "save" /\ UNCHANGED <<cfg, pc, req, resp, acked, since, events>>
      /\ store' = Absorb(store, ToSave(req[r]))
      /\ cfg.db /\ applied[r] + 1 < MaxAttempts
  BY DEF SaveRepeats
<1>3. store' \in StoreType
  BY <1>2, SavedTypes
<1>4. /\ applied' \in [Requests -> Nat] /\ applied'[r] = applied[r] + 1
      /\ \A x \in Requests \ {r} : applied'[x] = applied[x]
  BY <1>1 DEF Typed, SaveRepeats
<1>5. Elsewhere(r)
  BY <1>2, <1>4 DEF Elsewhere
<1>6. Typed'
  BY <1>1, <1>2, <1>3, <1>4, TypesConstant DEF Typed
<1>7. StatusInv(r)' /\ RequestInv(r)'
  BY <1>1, <1>2 DEF StatusInv, Finished, RequestInv
<1> QED
  BY <1>2, <1>4, <1>5, <1>6, <1>7, StepOfOne

\* An error answers a request in progress.
LEMMA ErrorStep ==
  ASSUME TypeInv, NEW r \in Requests, pc[r] \notin {"idle", "answered"}, NEW status \in Refusals,
         Answer(r, Refused(req[r], status, "handler"), Text(status)), Quiet(r)
  PROVE  /\ TypeInv' /\ Elsewhere(r) /\ pc'[r] = "answered"
         /\ SameRequest(req'[r], req[r]) /\ resp'[r].status = status
         /\ Readable(resp'[r], req'[r])
<1>1. Shaped(req[r])
  BY TypeParts DEF RequestInv
<1>2. PICK p : p = Refused(req[r], status, "handler")
  OBVIOUS
<1>3. Shaped(p) /\ SameRequest(p, req[r])
  BY <1>1, <1>2, ShapeKept
<1>4. Raw(Text(status)) /\ Text(status).status = status /\ status # 0
  BY RawAnswers DEF Refusals
<1>5. Answer(r, p, Text(status))
  BY <1>2
<1> QED
  BY <1>3, <1>4, <1>5, Answering, AnswerStep DEF SameAnswer

\* So does a success, whose page shows what it shows.
LEMMA SuccessStep ==
  ASSUME TypeInv, NEW r \in Requests, pc[r] \in {"notify", "read", "gauges", "ping"},
         Answer(r, req[r], Success(req[r])), Quiet(r)
  PROVE  /\ TypeInv' /\ Elsewhere(r) /\ Readable(resp'[r], req'[r]) /\ pc'[r] = "answered"
         /\ req'[r] = req[r] /\ resp'[r].status = 200
<1>1. RequestInv(r)
  BY TypeParts
<1>2. Shaped(req[r]) /\ req[r].route \in Routes \ {"other"}
  BY <1>1 DEF RequestInv, Savable, Routes
<1>3. PICK a : a = Success(req[r])
  OBVIOUS
<1>4. Raw(a) /\ a.status = 200 /\ a.status # 0
  BY <1>2, <1>3, RawAnswers
<1>5. /\ TypeInv' /\ Elsewhere(r) /\ pc'[r] = "answered" /\ req'[r] = req[r]
      /\ SameAnswer(resp'[r], a) /\ Readable(resp'[r], req'[r])
  BY <1>2, <1>3, <1>4, Answering, AnswerStep
<1> QED
  BY <1>4, <1>5 DEF SameAnswer

LEMMA PageAnswer ==
  ASSUME NEW q, q.route = "page", NEW w \in SUBSET KeyType
  PROVE  LET a == [Success(q) EXCEPT !.shows = w] IN
         Raw(a) /\ a.status = 200 /\ a.shows = w
<1>1. PICK b : b = Success(q)
  OBVIOUS
<1>2. Raw(b) /\ b.status = 200 /\ b \in AnswerType
  BY <1>1, RawAnswers DEF Raw, Routes
<1>3. [b EXCEPT !.shows = w] \in AnswerType
  BY <1>2, AnswerChanged, Zenon
<1>4. PICK a : a = [b EXCEPT !.shows = w]
  OBVIOUS
<1>5. a.gzip = b.gzip /\ a.layers = b.layers /\ a.status = b.status /\ a.shows = w
  BY <1>2, <1>4 DEF AnswerType
<1> QED
  BY <1>1, <1>2, <1>3, <1>4, <1>5 DEF Raw

LEMMA PageStep ==
  ASSUME TypeInv, NEW r \in Requests, pc[r] = "gauges",
         NEW a, Raw(a), a.status = 200, Answer(r, req[r], a), Quiet(r)
  PROVE  /\ TypeInv' /\ Elsewhere(r) /\ Readable(resp'[r], req'[r]) /\ pc'[r] = "answered"
         /\ req'[r] = req[r] /\ resp'[r].status = 200 /\ resp'[r].shows = a.shows
<1>1. Shaped(req[r])
  BY TypeParts DEF RequestInv
<1>2. a.status # 0
  OBVIOUS
<1>3. /\ TypeInv' /\ Elsewhere(r) /\ pc'[r] = "answered" /\ req'[r] = req[r]
      /\ SameAnswer(resp'[r], a) /\ Readable(resp'[r], req'[r])
  BY <1>1, <1>2, Answering, AnswerStep
<1> QED
  BY <1>3 DEF SameAnswer

LEMMA SaveFailsStep ==
  ASSUME TypeInv, NEW r \in Requests, SaveFails(r)
  PROVE  /\ TypeInv' /\ Elsewhere(r) /\ Readable(resp'[r], req'[r])
         /\ UNCHANGED <<cfg, acked, since, events>>
         /\ store' \in {store, Absorb(store, ToSave(req[r]))}
         /\ pc[r] = "save" /\ pc'[r] = "answered" /\ cfg.db
         /\ applied' \in {applied, [applied EXCEPT ![r] = @ + 1]}
         /\ resp'[r].status = 500 /\ SameRequest(req'[r], req[r])
<1>1. Typed
  BY TypeParts
<1>2. /\ pc[r] = "save" /\ cfg.db /\ UNCHANGED <<cfg, acked, since, events>>
      /\ store' \in {store, Absorb(store, ToSave(req[r]))}
      /\ applied' \in {applied, [applied EXCEPT ![r] = @ + 1]}
      /\ Answer(r, Refused(req[r], 500, "handler"), Text(500))
  BY DEF SaveFails
<1>3. store' \in StoreType
  BY <1>1, <1>2, SavedTypes DEF Typed
<1>4. Quiet(r)
  BY <1>1, <1>2, <1>3, QuietSteps DEF Typed
<1> QED
  BY <1>2, <1>4, ErrorStep, StageNames

LEMMA NotifyStep ==
  ASSUME TypeInv, NEW r \in Requests, Notify(r)
  PROVE  /\ TypeInv' /\ Elsewhere(r) /\ Readable(resp'[r], req'[r])
         /\ UNCHANGED <<cfg, store, since, applied>>
         /\ acked' = acked \cup {Key(ToSave(req[r])[i]) : i \in DOMAIN ToSave(req[r])}
         /\ pc[r] = "notify" /\ pc'[r] = "answered" /\ events'[r] = events[r] + 1
         /\ resp'[r].status = 200 /\ req'[r] = req[r]
<1>1. Typed
  BY TypeParts
<1>2. /\ pc[r] = "notify" /\ UNCHANGED <<cfg, store, since, applied>>
      /\ events' = [events EXCEPT ![r] = @ + 1]
      /\ acked' = acked \cup {Key(ToSave(req[r])[i]) : i \in DOMAIN ToSave(req[r])}
      /\ Answer(r, req[r], Success(req[r]))
  BY DEF Notify
<1>3. acked' \subseteq KeyType
  BY <1>1, <1>2, SavedTypes DEF Typed
<1>4. Quiet(r)
  BY <1>1, <1>2, <1>3, QuietSteps DEF Typed
<1>5. events'[r] = events[r] + 1
  BY <1>1, <1>2 DEF Typed
<1>6. /\ TypeInv' /\ Elsewhere(r) /\ Readable(resp'[r], req'[r])
      /\ pc'[r] = "answered" /\ req'[r] = req[r] /\ resp'[r].status = 200
  BY <1>2, <1>4, SuccessStep
<1> QED
  BY <1>2, <1>5, <1>6

Silent == UNCHANGED <<cfg, store, acked, since, applied, events>>

LEMMA SilentQuiet == ASSUME TypeInv, NEW r \in Requests, Silent PROVE Quiet(r)
<1>1. Typed
  BY TypeParts
<1> QED
  BY <1>1, QuietSteps DEF Typed, Silent

LEMMA ReadStep ==
  ASSUME TypeInv, NEW r \in Requests, Read(r)
  PROVE  /\ TypeInv' /\ Elsewhere(r) /\ Silent /\ Readable(resp'[r], req'[r])
         /\ pc[r] = "read" /\ pc'[r] = "answered" /\ SameRequest(req'[r], req[r])
         /\ resp'[r].status \in {200, 404, 500}
         /\ ~cfg.db /\ Lookup(req[r].items[1]) # "absent" =>
              resp'[r].status = 200 \/ (resp'[r].status = 500 /\ req[r].route = "value")
         /\ resp'[r].status = 500 => Lookup(req[r].items[1]) = "nan"
<1>1. Typed
  BY TypeParts
<1>2. PICK status :
        /\ status = IF Lookup(req[r].items[1]) = "absent" THEN 404
                    ELSE IF Lookup(req[r].items[1]) = "nan" /\ req[r].route = "value" THEN 500 ELSE 200
        /\ pc[r] = "read" /\ Silent
        /\ \/ status = 200 /\ Answer(r, req[r], Success(req[r]))
           \/ status # 200 /\ Answer(r, Refused(req[r], status, "handler"), Text(status))
           \/ cfg.db /\ Answer(r, Refused(req[r], 404, "handler"), Text(404))
  BY DEF Read, Silent
<1>3. Quiet(r)
  BY <1>2, SilentQuiet
<1>4. status \in {200, 404, 500} /\ (status # 200 => status \in Refusals) /\ 404 \in Refusals
  BY <1>2 DEF Refusals
<1>4a. Lookup(req[r].items[1]) # "absent" => status = 200 \/ (status = 500 /\ req[r].route = "value")
  <2>1. status = IF Lookup(req[r].items[1]) = "absent" THEN 404
                 ELSE IF Lookup(req[r].items[1]) = "nan" /\ req[r].route = "value" THEN 500 ELSE 200
    BY <1>2
  <2> QED
    BY <2>1
<1>4b. status = 500 => Lookup(req[r].items[1]) = "nan"
  BY <1>2
<1>5. SameRequest(req[r], req[r])
  BY DEF SameRequest
<1>6. CASE status = 200 /\ Answer(r, req[r], Success(req[r]))
  <2>1. /\ TypeInv' /\ Elsewhere(r) /\ Readable(resp'[r], req'[r])
        /\ pc'[r] = "answered" /\ req'[r] = req[r] /\ resp'[r].status = 200
    BY <1>2, <1>3, <1>6, SuccessStep
  <2>2. ~cfg.db /\ Lookup(req[r].items[1]) # "absent" =>
          resp'[r].status = 200 \/ (resp'[r].status = 500 /\ req[r].route = "value")
    BY <2>1
  <2>3. resp'[r].status \in {200, 404, 500} /\ resp'[r].status # 500
    BY <2>1
  <2>4. SameRequest(req'[r], req[r])
    BY <1>5, <2>1
  <2> QED
    BY <1>2, <2>1, <2>2, <2>3, <2>4, Zenon
<1>7. CASE status # 200 /\ Answer(r, Refused(req[r], status, "handler"), Text(status))
  <2>1. /\ TypeInv' /\ Elsewhere(r) /\ Readable(resp'[r], req'[r])
        /\ pc'[r] = "answered" /\ SameRequest(req'[r], req[r])
        /\ resp'[r].status = status
    BY <1>2, <1>3, <1>4, <1>7, ErrorStep
  <2>2. ~cfg.db /\ Lookup(req[r].items[1]) # "absent" =>
              resp'[r].status = 200 \/ (resp'[r].status = 500 /\ req[r].route = "value")
    BY <1>4a, <2>1, Zenon
  <2>3. resp'[r].status \in {200, 404, 500}
    BY <1>4, <2>1, Zenon
  <2>4. resp'[r].status = 500 => Lookup(req[r].items[1]) = "nan"
    BY <1>4b, <2>1, Zenon
  <2> QED
    BY <1>2, <2>1, <2>2, <2>3, <2>4, Zenon
<1>8. CASE cfg.db /\ Answer(r, Refused(req[r], 404, "handler"), Text(404))
  <2>1. /\ TypeInv' /\ Elsewhere(r) /\ Readable(resp'[r], req'[r])
        /\ pc'[r] = "answered" /\ SameRequest(req'[r], req[r])
        /\ resp'[r].status = 404
    BY <1>2, <1>3, <1>4, <1>8, ErrorStep
  <2> QED
    BY <1>2, <1>8, <2>1
<1> QED
  BY <1>2, <1>6, <1>7, <1>8

LEMMA ShownTypes ==
  ASSUME TypeInv, NEW type
  PROVE  /\ Shown(type) \in SUBSET KeyType
         /\ \A k \in KeyType : k[1] = type /\ store[k] # "absent" => k \in Shown(type)
<1>1. DOMAIN store = KeyType
  BY TypeParts DEF Typed, StoreType
<1> QED
  BY <1>1 DEF Shown

LEMMA PageCountersStep ==
  ASSUME TypeInv, NEW r \in Requests, PageCounters(r)
  PROVE  /\ TypeInv' /\ Elsewhere(r) /\ Silent
         /\ pc[r] = "counters" /\ pc'[r] = "gauges" /\ req' = req
         /\ ~cfg.db => resp'[r].shows = Shown("counter")
<1>1. Typed /\ RequestInv(r) /\ StatusInv(r)
  BY TypeParts
<1>2. pc[r] = "counters" /\ Silent /\ req' = req
  BY DEF PageCounters, Silent
<1>3. /\ pc' \in [Requests -> PcType] /\ pc'[r] = "gauges"
      /\ \A x \in Requests \ {r} : pc'[x] = pc[x]
  BY <1>1 DEF Typed, PageCounters, PcType
<1>4. /\ resp' \in [Requests -> AnswerType] /\ resp'[r].status = resp[r].status
      /\ \A x \in Requests \ {r} : resp'[x] = resp[x]
      /\ ~cfg.db => resp'[r].shows = Shown("counter")
  <2>1. CASE resp' = [resp EXCEPT ![r].shows = Shown("counter")]
    <3>1. PICK w \in SUBSET KeyType : w = Shown("counter")
      BY ShownTypes
    <3>2. PICK a \in AnswerType : a = resp[r]
      BY <1>1 DEF Typed
    <3>3. PICK b \in AnswerType : b = [a EXCEPT !.shows = w]
      BY AnswerChanged, Zenon
    <3>4. b.status = a.status /\ b.shows = w
      BY <3>3 DEF AnswerType
    <3>5. resp' = [resp EXCEPT ![r] = b]
      BY <2>1, <3>1, <3>2, <3>3
    <3> QED
      BY <1>1, <3>1, <3>2, <3>4, <3>5 DEF Typed
  <2>2. CASE cfg.db /\ UNCHANGED resp
    BY <1>1, <2>2 DEF Typed
  <2> QED
    BY <2>1, <2>2 DEF PageCounters
<1>5. Elsewhere(r)
  BY <1>2, <1>3, <1>4 DEF Elsewhere, Silent
<1>6. Typed'
  BY <1>1, <1>2, <1>3, <1>4, TypesConstant DEF Typed, Silent
<1>7. StatusInv(r)'
  BY <1>1, <1>2, <1>3, <1>4 DEF StatusInv, Finished
<1>8. RequestInv(r)'
  BY <1>1, <1>2, <1>3 DEF RequestInv
<1> QED
  BY <1>2, <1>3, <1>4, <1>5, <1>6, <1>7, <1>8, StepOfOne DEF Silent

LEMMA PageGaugesStep ==
  ASSUME TypeInv, NEW r \in Requests, PageGauges(r)
  PROVE  /\ TypeInv' /\ Elsewhere(r) /\ Silent /\ Readable(resp'[r], req'[r])
         /\ pc[r] = "gauges" /\ pc'[r] = "answered" /\ req'[r] = req[r] /\ resp'[r].status = 200
         /\ ~cfg.db => resp'[r].shows = resp[r].shows \cup Shown("gauge")
<1>1. Typed
  BY TypeParts
<1>2. pc[r] = "gauges" /\ Silent
  BY DEF PageGauges, Silent
<1>3. PICK shown \in {Shown("gauge")} \cup (IF cfg.db THEN {{}} ELSE {}) :
        Answer(r, req[r], [Success(req[r]) EXCEPT !.shows = resp[r].shows \cup shown])
  BY DEF PageGauges
<1>4. resp[r].shows \cup shown \in SUBSET KeyType
  <2>1. resp[r].shows \in SUBSET KeyType
    BY <1>1 DEF Typed, AnswerType
  <2>2. shown \in SUBSET KeyType
    BY ShownTypes
  <2> QED
    BY <2>1, <2>2
<1>5. PICK w \in SUBSET KeyType : w = resp[r].shows \cup shown
  BY <1>4
<1>6. Quiet(r)
  BY <1>2, SilentQuiet
<1>7. PICK a : a = [Success(req[r]) EXCEPT !.shows = w] /\ Answer(r, req[r], a)
  BY <1>3, <1>5
<1>8. req[r].route = "page"
  BY <1>2, TypeParts DEF RequestInv
<1>9. Raw(a) /\ a.status = 200 /\ a.shows = w
  BY <1>7, <1>8, PageAnswer
<1>10. Answer(r, req[r], a) /\ pc[r] = "gauges"
  BY <1>2, <1>7
<1>11. /\ TypeInv' /\ Elsewhere(r) /\ Readable(resp'[r], req'[r])
       /\ pc'[r] = "answered" /\ req'[r] = req[r]
       /\ resp'[r].status = 200 /\ resp'[r].shows = a.shows
  BY <1>6, <1>9, <1>10, PageStep
<1>12. ~cfg.db => w = resp[r].shows \cup Shown("gauge")
  BY <1>5
<1> QED
  BY <1>2, <1>9, <1>11, <1>12, Zenon

LEMMA PingStep ==
  ASSUME TypeInv, NEW r \in Requests, Ping(r)
  PROVE  /\ TypeInv' /\ Elsewhere(r) /\ Silent /\ Readable(resp'[r], req'[r])
         /\ pc[r] = "ping" /\ pc'[r] = "answered" /\ SameRequest(req'[r], req[r])
         /\ resp'[r].status \in {200, 500}
<1>1. pc[r] = "ping" /\ Silent
  BY DEF Ping, Silent
<1>2. Quiet(r)
  BY <1>1, SilentQuiet
<1>3. CASE Answer(r, req[r], Success(req[r]))
  <2>1. /\ TypeInv' /\ Elsewhere(r) /\ Readable(resp'[r], req'[r])
        /\ pc'[r] = "answered" /\ req'[r] = req[r] /\ resp'[r].status = 200
    BY <1>1, <1>2, <1>3, SuccessStep
  <2> QED
    BY <1>1, <2>1 DEF SameRequest
<1>4. CASE Answer(r, Refused(req[r], 500, "handler"), Text(500))
  <2>1. /\ TypeInv' /\ Elsewhere(r) /\ Readable(resp'[r], req'[r])
        /\ pc'[r] = "answered" /\ SameRequest(req'[r], req[r])
        /\ resp'[r].status = 500
    BY <1>1, <1>2, <1>4, ErrorStep, StageNames
  <2> QED
    BY <1>1, <2>1
<1> QED
  BY <1>3, <1>4 DEF Ping

LEMMA TypeInit == ASSUME Init PROVE TypeInv
<1>1. Raw(NoAnswer) /\ NoAnswer.status = 0
  BY RawAnswers
<1>2. NoAnswer \in AnswerType /\ cfg \in ConfigType
  BY <1>1, GatewayAssumption DEF Raw, Init
<1>3. Typed
  <2>1. store \in StoreType
    BY DEF Init, StoreType, Absent
  <2>2. resp \in [Requests -> AnswerType]
    BY <1>2, Zenon DEF Init
  <2>3. /\ pc \in [Requests -> PcType] /\ acked \subseteq KeyType /\ DOMAIN req = Requests
        /\ since \in [Requests -> SUBSET KeyType]
        /\ applied \in [Requests -> Nat] /\ events \in [Requests -> Nat]
    BY DEF Init, PcType
  <2> QED
    BY <1>2, <2>1, <2>2, <2>3 DEF Typed
<1>4. ASSUME NEW r \in Requests
      PROVE  RequestInv(r) /\ StatusInv(r)
  BY <1>1 DEF Init, RequestInv, StatusInv, Finished
<1> QED
  BY <1>3, <1>4, TypeParts

LEMMA TypeKept == ASSUME TypeInv, UNCHANGED vars PROVE TypeInv'
<1>1. Typed /\ \A r \in Requests : RequestInv(r) /\ StatusInv(r)
  BY TypeParts
<1>2. AgentRequests' = AgentRequests
  BY AgentsConstant DEF vars
<1>3. Typed'
  BY <1>1 DEF vars, Typed, PcType, StoreType, AnswerType, ConfigType
<1>4. ASSUME NEW r \in Requests
      PROVE  RequestInv(r)' /\ StatusInv(r)'
  BY <1>1, <1>2 DEF vars, RequestInv, StatusInv, Finished
<1> QED
  BY <1>3, <1>4 DEF TypeInv, TypeOK, Typed, PcType, StoreType, StatusInv, RequestInv, Shaped

StepOf(r) ==
  \/ Send(r) \/ Handle(r) \/ Save(r) \/ SaveRepeats(r) \/ SaveFails(r) \/ Notify(r)
  \/ Read(r) \/ PageCounters(r) \/ PageGauges(r) \/ Ping(r)

\* A step is a step of some request, or none.
LEMMA StepCases ==
  ASSUME [Next]_vars
  PROVE  UNCHANGED vars \/ \E r \in Requests : StepOf(r)
BY DEF Next, Done, StepOf

LEMMA OneStep ==
  ASSUME TypeInv, NEW r \in Requests, StepOf(r)
  PROVE  /\ TypeInv' /\ Elsewhere(r) /\ cfg' = cfg
         /\ pc'[r] = "answered" => Readable(resp'[r], req'[r])
<1>1. CASE Send(r)
  BY <1>1, SendStep DEF Send
<1>2. CASE Handle(r)
  BY <1>2, HandleStep, Zenon
<1>3. CASE Save(r)
  BY <1>3, SaveStep
<1>4. CASE SaveFails(r)
  BY <1>4, SaveFailsStep
<1>5. CASE Notify(r)
  BY <1>5, NotifyStep
<1>6. CASE Read(r)
  BY <1>6, ReadStep DEF Silent
<1>7. CASE PageCounters(r)
  BY <1>7, PageCountersStep DEF Silent
<1>8. CASE PageGauges(r)
  BY <1>8, PageGaugesStep DEF Silent
<1>9. CASE Ping(r)
  BY <1>9, PingStep DEF Silent
<1>10. CASE SaveRepeats(r)
  BY <1>10, SaveRepeatsStep
<1> QED
  BY <1>1, <1>2, <1>3, <1>4, <1>5, <1>6, <1>7, <1>8, <1>9, <1>10 DEF StepOf

LEMMA TypeNext == ASSUME TypeInv, [Next]_vars PROVE TypeInv'
BY TypeKept, StepCases, OneStep

LEMMA TypeAlways == Spec => []TypeInv
BY TypeInit, TypeNext, PTL DEF Spec

\* Every variable of the gateway keeps its type, a request is answered exactly
\* when it is done, and what goes to a handler has not been refused and has no
\* layer left that the handler would have to decode.
THEOREM TypeCorrect == Spec => []TypeOK
<1>1. TypeInv => TypeOK
  BY DEF TypeInv
<1> QED
  BY <1>1, TypeAlways, PTL

-----------------------------------------------------------------------------
(* Server and agent understand each other: what the middleware and the      *)
(* handlers make of what the agent sends.                                   *)

LEMMA RefusedStatus ==
  ASSUME NEW q, Fresh(q), NEW status \in Refusals, NEW by \in Stages
  PROVE  Refused(q, status, by).status = status /\ Refused(q, status, by).status # 0
<1>1. Refused(q, status, by).status = status
  BY DEF Fresh, Refused, RequestType
<1>2. status # 0
  BY DEF Refusals
<1> QED
  BY <1>1, <1>2

LEMMA UnwrappedLayers ==
  ASSUME NEW q, Fresh(q), q.layers # <<>>
  PROVE  /\ Unwrapped(q).layers = Tail(q.layers) /\ Unwrapped(q).status = 0
         /\ Fresh(Unwrapped(q)) /\ SameRequest(Unwrapped(q), q)
<1>1. PICK t : t = Tail(q.layers)
  OBVIOUS
<1>2. Unwrapped(q) = [q EXCEPT !.layers = t]
  BY <1>1 DEF Unwrapped
<1>3. Unwrapped(q).layers = t /\ Unwrapped(q).status = q.status /\ Unwrapped(q).by = q.by
  BY <1>2 DEF Fresh, RequestType
<1>4. Staged(Unwrapped(q), q, 400, "decrypt")
  BY UnwrappedStage
<1> QED
  BY <1>1, <1>3, <1>4 DEF Staged, Fresh

SealedFor(k, layers) == <<Sealed(k)>> \o layers

LEMMA AgentPostFields ==
  ASSUME NEW b, NEW route, NEW layers, NEW q, q = AgentPost(route, b, layers)
  PROVE  /\ (q.gzip <=> layers # <<>>) /\ (q.encrypted <=> cfg.pub # NoKey)
         /\ q.sig = AgentSignature /\ q.inside = cfg.agentInside /\ q.json = TRUE
         /\ q.cut = FALSE
<1>1. PICK g, e, l : /\ g = (layers # <<>>) /\ e = (cfg.pub # NoKey)
                     /\ l = IF cfg.pub = NoKey THEN layers ELSE SealedFor(cfg.pub, layers)
  OBVIOUS
<1>2. q = [route |-> route, items |-> b, json |-> TRUE, gzip |-> g, cut |-> FALSE, layers |-> l,
           encrypted |-> e, sig |-> AgentSignature, ca |-> NoKey, inside |-> cfg.agentInside, accept |-> TRUE,
           agent |-> TRUE, status |-> 0, by |-> ""]
  BY <1>1 DEF AgentPost, SealedFor
<1>3. PICK s, inside : s = AgentSignature /\ inside = cfg.agentInside
  OBVIOUS
<1>4. ASSUME NEW p,
             p = [route |-> route, items |-> b, json |-> TRUE, gzip |-> g, cut |-> FALSE,
                  layers |-> l, encrypted |-> e, sig |-> s, ca |-> NoKey, inside |-> inside, accept |-> TRUE,
                  agent |-> TRUE, status |-> 0, by |-> ""]
      PROVE  /\ p.gzip = g /\ p.encrypted = e /\ p.sig = s /\ p.inside = inside /\ p.json = TRUE
             /\ p.cut = FALSE
  BY <1>4
<1>5. /\ q.gzip = g /\ q.encrypted = e /\ q.sig = s /\ q.inside = inside /\ q.json = TRUE
      /\ q.cut = FALSE
  BY <1>2, <1>3, <1>4
<1> QED
  BY <1>1, <1>3, <1>5

LEMMA PutInFront ==
  ASSUME NEW S, NEW x \in S, NEW s \in Seq(S)
  PROVE  /\ <<x>> \o s \in Seq(S) /\ <<x>> \o s # <<>>
         /\ Head(<<x>> \o s) = x /\ Tail(<<x>> \o s) = s
<1>1. <<x>> \in Seq(S) /\ Len(<<x>>) = 1 /\ <<x>>[1] = x
  OBVIOUS
<1>2. /\ <<x>> \o s \in Seq(S) /\ Len(<<x>> \o s) = 1 + Len(s)
      /\ \A i \in 1 .. 1 + Len(s) : (<<x>> \o s)[i] = IF i <= 1 THEN <<x>>[i] ELSE s[i - 1]
  BY <1>1, ConcatProperties
<1>3. PICK t \in Seq(S) : t = <<x>> \o s
  BY <1>2
<1>4. t # <<>> /\ Head(t) = x
  BY <1>1, <1>2, <1>3
<1>5. Tail(t) = s
  BY <1>2, <1>3, <1>4
<1> QED
  BY <1>2, <1>3, <1>4, <1>5

LEMMA LayerFacts ==
  ASSUME cfg \in ConfigType, NEW layers \in {<<>>, <<Gzip>>}, NEW k \in Keys \cup {NoKey}
  PROVE  /\ SealedFor(k, layers) \in Seq(LayerType)
         /\ SealedFor(k, layers) # <<>> /\ Head(SealedFor(k, layers)) = Sealed(k)
         /\ Tail(SealedFor(k, layers)) = layers
         /\ Sealed(k) # Gzip /\ \A j : Sealed(k) = Sealed(j) => k = j
         /\ layers # <<>> => layers = <<Gzip>> /\ Head(layers) = Gzip /\ Tail(layers) = <<>>
         /\ layers \in Seq(LayerType)
<1>1. Gzip \in LayerType /\ Sealed(k) \in LayerType
  BY DEF Gzip, Sealed, LayerType
<1>2. Sealed(k) # Gzip /\ \A j : Sealed(k) = Sealed(j) => k = j
  BY DEF Sealed, Gzip
<1>3. layers \in Seq(LayerType)
  <2>1. <<Gzip>> \in Seq(LayerType) /\ <<>> \in Seq(LayerType)
    BY <1>1
  <2> QED
    BY <2>1
<1>4. layers # <<>> => layers = <<Gzip>> /\ Head(layers) = Gzip /\ Tail(layers) = <<>>
  <2>1. Head(<<Gzip>>) = Gzip /\ Tail(<<Gzip>>) = <<>>
    OBVIOUS
  <2> QED
    BY <2>1
<1>5. SealedFor(k, layers) = <<Sealed(k)>> \o layers
  BY DEF SealedFor
<1>6. /\ <<Sealed(k)>> \o layers \in Seq(LayerType) /\ <<Sealed(k)>> \o layers # <<>>
      /\ Head(<<Sealed(k)>> \o layers) = Sealed(k) /\ Tail(<<Sealed(k)>> \o layers) = layers
  BY <1>1, <1>3, PutInFront
<1> QED
  BY <1>2, <1>3, <1>4, <1>5, <1>6, Zenon

\* An agent that seals for this server, or does not seal, is unpacked.
LEMMA AgentUnpacked ==
  ASSUME cfg \in ConfigType, NEW b \in Seq(MetricType), NEW route \in {"update", "updates"},
         NEW layers \in {<<>>, <<Gzip>>}, route = "update" => Len(b) = 1,
         cfg.pub # NoKey => cfg.pub = cfg.priv
  PROVE  LET q == AgentPost(route, b, layers)
             d == Decrypt(q)
             z == Decompress(d) IN
         d.status = 0 /\ z.status = 0 /\ z.layers = <<>> /\ SameRequest(z, q) /\ Fresh(z)
<1>1. PICK q : q = AgentPost(route, b, layers)
  OBVIOUS
<1>2. /\ Fresh(q) /\ q.status = 0 /\ (q.gzip <=> layers # <<>>) /\ (q.encrypted <=> cfg.pub # NoKey)
      /\ cfg.pub = NoKey => q.layers = layers
      /\ cfg.pub # NoKey => q.layers = SealedFor(cfg.pub, layers)
  <2>1. layers \in Seq(LayerType)
    <3>1. NoKey \in Keys \cup {NoKey}
      OBVIOUS
    <3> QED
      BY <3>1, LayerFacts
  <2>2. Fresh(q)
    BY <1>1, <2>1, AgentPosts
  <2>3. (q.gzip <=> layers # <<>>) /\ (q.encrypted <=> cfg.pub # NoKey)
    BY <1>1, AgentPostFields, Zenon
  <2>4. /\ cfg.pub = NoKey => q.layers = layers
        /\ cfg.pub # NoKey => q.layers = SealedFor(cfg.pub, layers)
    <3>1. q.layers = IF cfg.pub = NoKey THEN layers ELSE SealedFor(cfg.pub, layers)
      BY <1>1 DEF AgentPost, SealedFor
    <3> QED
      BY <3>1
  <2> QED
    BY <2>2, <2>3, <2>4 DEF Fresh
<1>3. PICK d : d = Decrypt(q)
  OBVIOUS
<1>4. Fresh(d) /\ d.status = 0 /\ d.layers = layers /\ SameRequest(d, q)
  <2>1. CASE cfg.pub = NoKey
    <3>1. d = q
      BY <1>2, <1>3, <2>1 DEF Decrypt
    <3> QED
      BY <1>2, <2>1, <3>1 DEF SameRequest
  <2>2. CASE cfg.pub # NoKey
    <3>0. cfg.pub \in Keys \cup {NoKey}
      BY DEF ConfigType
    <3>1. q.layers # <<>> /\ Outer(q) = Sealed(cfg.priv)
      BY <3>0, <1>2, <2>2, LayerFacts DEF Outer
    <3>2. d = Unwrapped(q)
      BY <1>2, <1>3, <2>2, <3>1 DEF Decrypt
    <3>3. Tail(q.layers) = layers
      BY <3>0, <1>2, <2>2, LayerFacts
    <3> QED
      BY <1>2, <3>1, <3>2, <3>3, UnwrappedLayers
  <2> QED
    BY <2>1, <2>2
<1>5. PICK z : z = Decompress(d)
  OBVIOUS
<1>6. z.status = 0 /\ z.layers = <<>> /\ SameRequest(z, d) /\ Fresh(z)
  <2>1. d.gzip <=> layers # <<>>
    BY <1>2, <1>4 DEF SameRequest
  <2>2. CASE layers = <<>>
    <3>1. z = d
      BY <1>5, <2>1, <2>2 DEF Decompress
    <3> QED
      BY <1>4, <2>2, <3>1 DEF SameRequest
  <2>3. CASE layers # <<>>
    <3>0. NoKey \in Keys \cup {NoKey}
      OBVIOUS
    <3>1. d.layers # <<>> /\ Outer(d) = Gzip
      BY <3>0, <1>4, <2>3, LayerFacts DEF Outer
    <3>2. z = Unwrapped(d)
      BY <1>5, <2>1, <2>3, <3>1 DEF Decompress
    <3>3. Tail(d.layers) = <<>>
      BY <3>0, <1>4, <2>3, LayerFacts
    <3> QED
      BY <1>4, <3>1, <3>2, <3>3, UnwrappedLayers
  <2> QED
    BY <2>2, <2>3
<1>7. SameRequest(z, q)
  BY <1>4, <1>6, SameTransitive
<1> QED
  BY <1>1, <1>3, <1>4, <1>5, <1>6, <1>7

\* What is sealed for another server is refused, or its handler finds the layers.
LEMMA AgentSealed ==
  ASSUME cfg \in ConfigType, NEW b \in Seq(MetricType), NEW route \in {"update", "updates"},
         NEW layers \in {<<>>, <<Gzip>>}, route = "update" => Len(b) = 1,
         cfg.pub # NoKey, cfg.pub # cfg.priv
  PROVE  LET p == Admitted(AgentPost(route, b, layers)) IN
         p.status # 0 \/ (p.route = route /\ p.layers # <<>>)
<1>1. PICK q : q = AgentPost(route, b, layers)
  OBVIOUS
<1>2. cfg.pub \in Keys \cup {NoKey}
  BY DEF ConfigType
<1>3. Fresh(q) /\ q.route = route
  <2>1. layers \in Seq(LayerType)
    BY <1>2, LayerFacts
  <2> QED
    BY <1>1, <2>1, AgentPosts
<1>4. /\ (q.gzip <=> layers # <<>>) /\ (q.encrypted <=> cfg.pub # NoKey)
      /\ cfg.pub = NoKey => q.layers = layers
      /\ cfg.pub # NoKey => q.layers = SealedFor(cfg.pub, layers)
  <2>1. (q.gzip <=> layers # <<>>) /\ (q.encrypted <=> cfg.pub # NoKey)
    BY <1>1, AgentPostFields, Zenon
  <2>2. /\ cfg.pub = NoKey => q.layers = layers
        /\ cfg.pub # NoKey => q.layers = SealedFor(cfg.pub, layers)
    <3>1. q.layers = IF cfg.pub = NoKey THEN layers ELSE SealedFor(cfg.pub, layers)
      BY <1>1 DEF AgentPost, SealedFor
    <3> QED
      BY <3>1
  <2> QED
    BY <2>1, <2>2
<1>5. q.layers # <<>> /\ Outer(q) = Sealed(cfg.pub) /\ Outer(q) # Gzip /\ Outer(q) # Sealed(cfg.priv)
  BY <1>2, <1>4, LayerFacts DEF Outer
<1>6. q.status = 0 /\ route # "grpc"
  BY <1>3 DEF Fresh
<1>7. PICK d : d = Decrypt(q)
  OBVIOUS
<1>8. PICK z : z = IF d.status = 0 THEN Decompress(d) ELSE d
  OBVIOUS
<1>9. PICK s : s = IF z.status = 0 THEN CheckSignature(z) ELSE z
  OBVIOUS
<1>10. PICK p : p = IF s.status = 0 THEN CheckSubnet(s) ELSE s
  OBVIOUS
<1>11. p = Admitted(q)
  BY <1>3, <1>6, <1>7, <1>8, <1>9, <1>10 DEF Admitted, Then
<1>12. /\ Refused(q, 400, "decrypt").status # 0 /\ Refused(q, 400, "compress").status # 0
       /\ Refused(q, 400, "sign").status # 0 /\ Refused(q, 403, "subnet").status # 0
  BY <1>3, RefusedStatus, StageNames
<1>13. d = q \/ d.status # 0
  BY <1>5, <1>7, <1>12 DEF Decrypt
<1>14. z = q \/ z.status # 0
  BY <1>5, <1>8, <1>12, <1>13 DEF Decompress
<1>15. s = q \/ s.status # 0
  BY <1>9, <1>12, <1>14 DEF CheckSignature
<1>16. p = q \/ p.status # 0
  BY <1>10, <1>12, <1>15 DEF CheckSubnet
<1> QED
  BY <1>1, <1>3, <1>5, <1>11, <1>16

\* The signature and the subnet decide about what has been unpacked.
LEMMA AgentChecked ==
  ASSUME cfg \in ConfigType, NEW q, q.route \in {"update", "updates"}, q.sig = AgentSignature,
         q.inside = cfg.agentInside, ~q.cut,
         NEW z, Fresh(z), SameRequest(z, q), z.layers = <<>>
  PROVE  LET s == CheckSignature(z)
             p == IF s.status = 0 THEN CheckSubnet(s) ELSE s IN
         /\ p.status = 0 <=> /\ NoKey \notin {cfg.key, cfg.agentKey} => cfg.agentKey = cfg.key
                             /\ cfg.trusted => cfg.agentInside
         /\ p.status = 0 => p = z
<1>1. /\ z.status = 0 /\ z.sig = AgentSignature /\ z.inside = cfg.agentInside
      /\ z.route \in {"update", "updates"} /\ ~Unreadable(z)
  BY DEF Fresh, SameRequest, Unreadable
<1>2. Refused(z, 400, "sign").status # 0 /\ Refused(z, 403, "subnet").status # 0
  BY RefusedStatus, StageNames
<1>3. PICK good \in BOOLEAN : good <=> (NoKey \notin {cfg.key, cfg.agentKey} => cfg.agentKey = cfg.key)
  OBVIOUS
<1>4. CheckSignature(z) = IF good THEN z ELSE Refused(z, 400, "sign")
  <2>1. AgentSignature = NoSignature <=> cfg.agentKey = NoKey
    BY DEF AgentSignature, NoSignature, Signature
  <2>2. cfg.agentKey # NoKey =>
          (AgentSignature = Signature(cfg.key, <<>>) <=> cfg.agentKey = cfg.key)
    BY DEF AgentSignature, NoSignature, Signature
  <2> QED
    BY <1>1, <1>3, <2>1, <2>2 DEF CheckSignature
<1>5. CheckSubnet(z) = IF cfg.trusted => cfg.agentInside THEN z ELSE Refused(z, 403, "subnet")
  <2>1. cfg.trusted \in BOOLEAN /\ cfg.agentInside \in BOOLEAN
    BY DEF ConfigType
  <2> QED
    BY <1>1, <2>1 DEF CheckSubnet
<1>6. CASE ~good
  BY <1>2, <1>3, <1>4, <1>6
<1>7. CASE good
  BY <1>1, <1>2, <1>3, <1>4, <1>5, <1>7
<1> QED
  BY <1>6, <1>7

LEMMA AgentPostOrigin ==
  ASSUME NEW b, NEW route, NEW layers, NEW q, q = AgentPost(route, b, layers)
  PROVE  q.sig = AgentSignature /\ q.inside = cfg.agentInside /\ q.cut = FALSE
<1>1. q.sig = AgentSignature
  BY Zenon DEF AgentPost
<1>2. q.inside = cfg.agentInside
  BY Zenon DEF AgentPost
<1>3. q.cut = FALSE
  BY Zenon DEF AgentPost
<1> QED
  BY <1>1, <1>2, <1>3

LEMMA AgentPostAdmitted ==
  ASSUME cfg \in ConfigType, NEW b \in Seq(MetricType), NEW route \in {"update", "updates"},
         NEW layers \in {<<>>, <<Gzip>>}, route = "update" => Len(b) = 1,
         \A i \in DOMAIN b : Valid(b[i])
  PROVE  LET p == Admitted(AgentPost(route, b, layers)) IN
         p.status = 0 /\ Refusal(p) = 0 <=> Compatible(route)
<1>1. PICK q : q = AgentPost(route, b, layers)
  OBVIOUS
<1>2. layers \in Seq(LayerType)
  <2>1. cfg.pub \in Keys \cup {NoKey}
    BY DEF ConfigType
  <2> QED
    BY <2>1, LayerFacts
<1>3. Fresh(q) /\ Shaped(q) /\ q.route = route /\ q.items = b /\ q.json
  BY <1>1, <1>2, AgentPosts
<1>4. q.sig = AgentSignature /\ q.inside = cfg.agentInside /\ q.cut = FALSE
  BY <1>1, AgentPostOrigin, Zenon
<1>5. PICK p : p = Admitted(q)
  OBVIOUS
<1>6. CASE cfg.pub # NoKey /\ cfg.pub # cfg.priv
  <2>1. p.status # 0 \/ (p.route = route /\ p.layers # <<>>)
    BY <1>1, <1>5, <1>6, AgentSealed
  <2>2. p.route = route /\ p.layers # <<>> => Refusal(p) # 0
    BY DEF Refusal, UpdateRefusal, UpdatesRefusal, Undecodable
  <2>3. ~Compatible(route)
    BY <1>6 DEF Compatible
  <2> QED
    BY <1>1, <1>5, <2>1, <2>2, <2>3
<1>7. CASE cfg.pub # NoKey => cfg.pub = cfg.priv
  <2>1. PICK d, z : d = Decrypt(q) /\ z = Decompress(d)
    OBVIOUS
  <2>2. d.status = 0 /\ z.status = 0 /\ z.layers = <<>> /\ SameRequest(z, q) /\ Fresh(z)
    BY <1>1, <1>7, <2>1, AgentUnpacked
  <2>3. PICK s : s = CheckSignature(z)
    OBVIOUS
  <2>4. p = IF s.status = 0 THEN CheckSubnet(s) ELSE s
    <3>1. q.route # "grpc"
      BY <1>3
    <3> QED
      BY <1>5, <2>1, <2>2, <2>3, <3>1 DEF Admitted, Then
  <2>5. /\ p.status = 0 <=> /\ NoKey \notin {cfg.key, cfg.agentKey} => cfg.agentKey = cfg.key
                            /\ cfg.trusted => cfg.agentInside
        /\ p.status = 0 => p = z
    <3>1. q.route \in {"update", "updates"} /\ z.layers = <<>> /\ Fresh(z) /\ SameRequest(z, q)
          /\ q.sig = AgentSignature /\ q.inside = cfg.agentInside /\ ~q.cut
      BY <1>3, <1>4, <2>2
    <3> QED
      BY <2>3, <2>4, <3>1, AgentChecked
  <2>6. p.status = 0 <=> Compatible(route)
    BY <1>7, <2>5 DEF Compatible
  <2>7. p.status = 0 => Refusal(p) = 0
    <3>1. z.route = route /\ z.json /\ z.items = b /\ ~Unreadable(z)
      BY <1>3, <1>4, <2>2 DEF SameRequest, Unreadable
    <3>2. b \in Seq(MetricType) /\ (route = "update" => 1 \in DOMAIN b)
      OBVIOUS
    <3> QED
      BY <2>2, <2>5, <3>1, <3>2 DEF Refusal, UpdateRefusal, UpdatesRefusal, Undecodable
  <2> QED
    BY <1>1, <1>5, <2>6, <2>7
<1> QED
  BY <1>6, <1>7

LEMMA AgentGrpcAdmitted ==
  ASSUME cfg \in ConfigType, NEW b \in Seq(MetricType)
  PROVE  LET p == Admitted(AgentGrpc(b)) IN
         p.status = 0 /\ Refusal(p) = 0 <=> Compatible("grpc")
<1>1. PICK q : q = AgentGrpc(b)
  OBVIOUS
<1>2. Fresh(q) /\ Shaped(q) /\ q.route = "grpc" /\ q.status = 0
  BY <1>1, AgentGrpcs DEF Fresh
<1>3. q.ca = cfg.agentCert /\ q.inside = cfg.agentInside
  BY <1>1 DEF AgentGrpc
<1>4. Refused(q, 503, "tls").status # 0 /\ Refused(q, 403, "subnet").status # 0
  BY <1>2, RefusedStatus, StageNames
<1>5. PICK c : c = CheckCertificate(q)
  OBVIOUS
<1>6. PICK p : p = Admitted(q)
  OBVIOUS
<1>7. p = IF c.status = 0 THEN CheckSubnet(c) ELSE c
  BY <1>2, <1>5, <1>6 DEF Admitted, Then
<1>8. CASE cfg.agentCert # NoKey /\ cfg.agentCert # cfg.cert
  <2>1. c.status # 0
    BY <1>3, <1>4, <1>5, <1>8 DEF CheckCertificate
  <2>2. ~Compatible("grpc")
    BY <1>8 DEF Compatible
  <2> QED
    BY <1>1, <1>6, <1>7, <2>1, <2>2
<1>9. CASE cfg.agentCert # NoKey => cfg.agentCert = cfg.cert
  <2>1. c = q
    BY <1>3, <1>5, <1>9 DEF CheckCertificate
  <2>2. p = IF cfg.trusted /\ ~cfg.agentInside THEN Refused(q, 403, "subnet") ELSE q
    BY <1>2, <1>3, <1>7, <2>1 DEF CheckSubnet
  <2>3. cfg.trusted \in BOOLEAN /\ cfg.agentInside \in BOOLEAN
    BY DEF ConfigType
  <2>4. p.status = 0 <=> Compatible("grpc")
    BY <1>2, <1>4, <1>9, <2>2, <2>3 DEF Compatible
  <2>5. p.status = 0 => Refusal(p) = 0
    BY <1>2, <1>4, <2>2 DEF Refusal
  <2> QED
    BY <1>1, <1>6, <2>4, <2>5
<1> QED
  BY <1>8, <1>9

\* Whatever the agent sends is taken exactly when the two are configured alike.
LEMMA AgentAdmitted ==
  ASSUME cfg \in ConfigType, NEW q \in AgentRequests
  PROVE  LET p == Admitted(q) IN p.status = 0 /\ Refusal(p) = 0 <=> Compatible(q.route)
<1>1. PICK b \in AgentBatches :
        q \in {AgentHttp(b), AgentGrpc(b)} \cup {AgentSingle(b[i]) : i \in DOMAIN b}
  BY DEF AgentRequests
<1>2. b \in Seq(MetricType) /\ \A i \in DOMAIN b : Valid(b[i])
  BY BatchFacts DEF Valid
<1>3. cfg.pub \in Keys \cup {NoKey}
  BY DEF ConfigType
<1>4. CASE q = AgentHttp(b)
  <2>1. PICK layers \in {<<>>, <<Gzip>>} : q = AgentPost("updates", b, layers)
    BY <1>4 DEF AgentHttp
  <2>2. layers \in Seq(LayerType)
    BY <1>3, LayerFacts
  <2>3. q.route = "updates"
    BY <1>2, <2>1, <2>2, AgentPosts
  <2> QED
    BY <1>2, <2>1, <2>3, AgentPostAdmitted
<1>5. CASE q = AgentGrpc(b)
  <2>1. q.route = "grpc"
    BY <1>2, <1>5, AgentGrpcs
  <2> QED
    BY <1>2, <1>5, <2>1, AgentGrpcAdmitted
<1>6. CASE q \in {AgentSingle(b[i]) : i \in DOMAIN b}
  <2>1. PICK i \in DOMAIN b : q = AgentPost("update", <<b[i]>>, <<>>)
    BY <1>6 DEF AgentSingle
  <2>2. PICK s : s = <<b[i]>>
    OBVIOUS
  <2>3. s \in Seq(MetricType) /\ Len(s) = 1 /\ \A j \in DOMAIN s : Valid(s[j])
    <3>1. s \in Seq(MetricType) /\ Len(s) = 1
      BY <2>2, BatchFacts
    <3>2. s[1] = b[i] /\ DOMAIN s = {1}
      BY <2>2
    <3> QED
      BY <1>2, <3>1, <3>2
  <2>4. PICK layers \in {<<>>, <<Gzip>>} : layers = <<>>
    OBVIOUS
  <2>5. q = AgentPost("update", s, layers)
    BY <2>1, <2>2, <2>4
  <2>6. q.route = "update"
    <3>1. layers \in Seq(LayerType)
      BY <1>3, LayerFacts
    <3> QED
      BY <2>3, <2>5, <3>1, AgentPosts
  <2> QED
    BY <2>3, <2>5, <2>6, AgentPostAdmitted
<1> QED
  BY <1>1, <1>4, <1>5, <1>6

\* Whose request it is and which way it goes never changes once it is under way.
AgentInv(r) ==
  pc[r] \notin {"idle", "sent"} /\ req[r].agent =>
    IF pc[r] = "answered" THEN resp[r].status \in {200, 500} <=> Compatible(req[r].route)
    ELSE Compatible(req[r].route)

LEMMA AgentElsewhere ==
  ASSUME NEW r \in Requests, Elsewhere(r), cfg' = cfg, NEW x \in Requests \ {r}, AgentInv(x)
  PROVE  AgentInv(x)'
BY DEF AgentInv, Elsewhere, Compatible

\* A request under way that is answered with 200 or 500, or goes on.
LEMMA AgentGoesOn ==
  ASSUME NEW r \in Requests, cfg' = cfg, pc[r] \notin {"idle", "sent", "answered"}, AgentInv(r),
         SameRequest(req'[r], req[r]),
         pc'[r] = "answered" => resp'[r].status \in {200, 500}
  PROVE  AgentInv(r)'
<1>1. req'[r].agent = req[r].agent /\ req'[r].route = req[r].route
  BY DEF SameRequest
<1> QED
  BY <1>1 DEF AgentInv, Compatible

LEMMA AgentHandled ==
  ASSUME TypeInv, NEW r \in Requests, Handle(r)
  PROVE  AgentInv(r)'
<1>1. RequestInv(r) /\ Typed
  BY TypeParts
<1>2. PICK q : q = Admitted(req[r])
  OBVIOUS
<1>3. cfg' = cfg /\ pc[r] = "sent" /\ Shaped(q) /\ Outcome(q, req[r])
  BY <1>2, HandleStep
<1>4. q.agent = req[r].agent /\ q.route = req[r].route
  BY <1>3 DEF Outcome, SameRequest
<1>5. CASE ~q.agent
  <2>1. req'[r].agent = q.agent
    BY <1>2, HandleStep DEF SameRequest
  <2> QED
    BY <1>5, <2>1 DEF AgentInv
<1>6. CASE q.agent
  <2>1. req[r] \in AgentRequests
    BY <1>1, <1>3, <1>4, <1>6 DEF RequestInv
  <2>2. q.status = 0 /\ Refusal(q) = 0 <=> Compatible(q.route)
    BY <1>1, <1>2, <1>4, <2>1, AgentAdmitted DEF Typed
  <2>3. q.route \in {"update", "updates", "grpc"}
    BY <1>3, <1>6 DEF Shaped
  <2>4. req'[r].route = q.route
    BY <1>2, HandleStep DEF SameRequest
  <2>5. Compatible(q.route)' <=> Compatible(q.route)
    BY <1>3 DEF Compatible
  <2>6. CASE q.status # 0
    <3>1. q.status \in {400, 403, 503}
      BY <1>3, <2>6 DEF Outcome
    <3>2. pc'[r] = "answered" /\ resp'[r].status = q.status
      BY <1>2, <2>6, HandleStep
    <3> QED
      BY <1>3, <2>2, <2>4, <2>6, <3>1, <3>2 DEF AgentInv, Compatible
  <2>7. CASE q.status = 0 /\ Refusal(q) # 0
    <3>1. Refusal(q) \in {400, 415}
      BY <2>3, <2>7 DEF Refusal, UpdateRefusal, UpdatesRefusal
    <3>2. pc'[r] = "answered" /\ resp'[r].status = Refusal(q)
      BY <1>2, <2>7, HandleStep
    <3> QED
      BY <1>3, <2>2, <2>4, <2>7, <3>1, <3>2 DEF AgentInv, Compatible
  <2>8. CASE q.status = 0 /\ Refusal(q) = 0
    <3>1. \/ pc'[r] = "answered" /\ resp'[r].status = 200
          \/ pc'[r] \in {"save", "read", "counters", "ping"}
      BY <1>2, <2>8, HandleStep
    <3> QED
      BY <1>3, <2>2, <2>4, <2>8, <3>1 DEF AgentInv, Compatible
  <2> QED
    BY <2>6, <2>7, <2>8
<1> QED
  BY <1>5, <1>6

LEMMA AgentStepKept ==
  ASSUME TypeInv, NEW r \in Requests, AgentInv(r), StepOf(r)
  PROVE  AgentInv(r)'
<1>1. RequestInv(r)
  BY TypeParts
<1>2. cfg' = cfg
  BY OneStep
<1>3. SameRequest(req[r], req[r])
  BY DEF SameRequest
<1>4. CASE Send(r)
  <2>1. pc'[r] = "sent"
    BY <1>4, SendStep
  <2> QED
    BY <2>1 DEF AgentInv
<1>5. CASE Handle(r)
  BY <1>5, AgentHandled
<1>6. CASE Save(r)
  <2>1. pc[r] = "save" /\ pc'[r] = "notify" /\ req' = req
    BY <1>6, SaveStep
  <2> QED
    BY <1>2, <2>1 DEF AgentInv, Compatible
<1>6a. CASE SaveRepeats(r)
  <2>1. pc[r] = "save" /\ pc' = pc /\ req' = req
    BY <1>6a, SaveRepeatsStep
  <2> QED
    BY <1>2, <2>1 DEF AgentInv, Compatible
<1>7. CASE SaveFails(r)
  <2>1. pc[r] = "save" /\ SameRequest(req'[r], req[r]) /\ resp'[r].status = 500
    BY <1>7, SaveFailsStep
  <2> QED
    BY <1>2, <2>1, AgentGoesOn
<1>8. CASE Notify(r)
  <2>1. pc[r] = "notify" /\ req'[r] = req[r] /\ resp'[r].status = 200
    BY <1>8, NotifyStep
  <2> QED
    BY <1>2, <1>3, <2>1, AgentGoesOn
<1>9. CASE Read(r)
  <2>1. pc[r] = "read" /\ SameRequest(req'[r], req[r])
    BY <1>9, ReadStep
  <2>2. ~req[r].agent
    BY <1>1, <2>1 DEF RequestInv, Shaped
  <2> QED
    BY <2>1, <2>2 DEF AgentInv, SameRequest
<1>10. CASE PageCounters(r)
  <2>1. pc[r] = "counters" /\ pc'[r] = "gauges" /\ req' = req
    BY <1>10, PageCountersStep
  <2> QED
    BY <1>2, <2>1 DEF AgentInv, Compatible
<1>11. CASE PageGauges(r)
  <2>1. pc[r] = "gauges" /\ req'[r] = req[r] /\ resp'[r].status = 200
    BY <1>11, PageGaugesStep
  <2> QED
    BY <1>2, <1>3, <2>1, AgentGoesOn
<1>12. CASE Ping(r)
  <2>1. pc[r] = "ping" /\ SameRequest(req'[r], req[r]) /\ resp'[r].status \in {200, 500}
    BY <1>12, PingStep
  <2> QED
    BY <1>2, <2>1, AgentGoesOn
<1> QED
  BY <1>4, <1>5, <1>6, <1>6a, <1>7, <1>8, <1>9, <1>10, <1>11, <1>12 DEF StepOf

LEMMA AgentNext ==
  ASSUME TypeInv, \A r \in Requests : AgentInv(r), [Next]_vars
  PROVE  \A r \in Requests : AgentInv(r)'
<1>1. CASE UNCHANGED vars
  BY <1>1 DEF vars, AgentInv, Compatible
<1>2. ASSUME NEW r \in Requests, StepOf(r)
      PROVE  \A x \in Requests : AgentInv(x)'
  <2>1. AgentInv(r)'
    BY <1>2, AgentStepKept
  <2>2. Elsewhere(r) /\ cfg' = cfg
    BY <1>2, OneStep
  <2>3. \A x \in Requests \ {r} : AgentInv(x)'
    BY <2>2, AgentElsewhere
  <2> QED
    BY <2>1, <2>3
<1> QED
  BY <1>1, <1>2, StepCases

\* Server and agent understand each other exactly when they are configured alike:
\* what the agent wraps (gzip, signature, encryption, in this order) the
\* middleware unwraps, whatever else is going on.
THEOREM AgentUnderstoodHolds == Spec => []AgentUnderstood
<1>1. Init => \A r \in Requests : AgentInv(r)
  BY DEF Init, AgentInv
<1>2. TypeInv /\ (\A r \in Requests : AgentInv(r)) /\ [Next]_vars => (\A r \in Requests : AgentInv(r))'
  BY AgentNext
<1>3. (\A r \in Requests : AgentInv(r)) => AgentUnderstood
  BY DEF AgentInv, AgentUnderstood, Finished
<1> QED
  BY <1>1, <1>2, <1>3, TypeAlways, PTL DEF Spec

-----------------------------------------------------------------------------
(* The answers can be read. *)

AnswerInv(r) == Finished(r) => Readable(resp[r], req[r])

LEMMA AnswerNext ==
  ASSUME TypeInv, \A r \in Requests : AnswerInv(r), [Next]_vars
  PROVE  \A r \in Requests : AnswerInv(r)'
<1>1. CASE UNCHANGED vars
  BY <1>1 DEF vars, AnswerInv, Finished, Readable
<1>2. ASSUME NEW r \in Requests, StepOf(r), NEW x \in Requests
      PROVE  AnswerInv(x)'
  <2>1. Elsewhere(r) /\ cfg' = cfg /\ (pc'[r] = "answered" => Readable(resp'[r], req'[r]))
    BY <1>2, OneStep
  <2>2. CASE x = r
    BY <2>1, <2>2 DEF AnswerInv, Finished, Readable
  <2>3. CASE x # r
    BY <2>1, <2>3 DEF AnswerInv, Finished, Readable, Elsewhere
  <2> QED
    BY <2>2, <2>3
<1> QED
  BY <1>1, <1>2, StepCases

\* Whatever stage answers, the answer says how its body is to be read, is
\* compressed only for a client that accepts it and, past the check of the
\* signature, is signed over the bytes the client sees.
THEOREM AnswerReadableHolds == Spec => []AnswerReadable
<1>1. Init => \A r \in Requests : AnswerInv(r)
  BY DEF Init, AnswerInv, Finished
<1>2. TypeInv /\ (\A r \in Requests : AnswerInv(r)) /\ [Next]_vars => (\A r \in Requests : AnswerInv(r))'
  BY AnswerNext
<1>3. (\A r \in Requests : AnswerInv(r)) => AnswerReadable
  BY DEF AnswerInv, AnswerReadable, Readable
<1> QED
  BY <1>1, <1>2, <1>3, TypeAlways, PTL DEF Spec

-----------------------------------------------------------------------------
(* The answers tell the truth about the store, and what was acknowledged is *)
(* there to be read.                                                        *)

Present(q) ==
  \A i \in DOMAIN ToSave(q) :
    Key(ToSave(q)[i]) \in KeyType /\ store[Key(ToSave(q)[i])] # "absent"

TruthInv(r) ==
  /\ pc[r] \notin {"save", "notify", "answered"} => applied[r] = 0
  /\ pc[r] # "answered" => events[r] = 0
  /\ pc[r] = "save" => applied[r] < MostSaves
  /\ pc[r] = "notify" => applied[r] \in 1 .. MostSaves /\ Present(req[r])
  /\ pc[r] = "answered" =>
       /\ events[r] <= applied[r]
       /\ resp[r].status \in {400, 403, 404, 415, 503} => applied[r] = 0
       /\ resp[r].status = 200 /\ ~IsRead(req[r]) =>
            /\ applied[r] \in (IF DOMAIN ToSave(req[r]) = {} THEN {0} ELSE 1 .. MostSaves)
            /\ events[r] = (IF DOMAIN ToSave(req[r]) = {} THEN 0 ELSE 1)
            /\ Present(req[r])

LEMMA MostSavesType == ASSUME TypeInv PROVE MostSaves \in Nat /\ MostSaves >= 1
<1>1. MaxAttempts \in Nat /\ MaxAttempts >= 1
  <2>1. MaxAttempts \in Nat \ {0}
    BY GatewayAssumption, Zenon
  <2> QED
    BY <2>1
<1>2. CASE cfg.db
  BY <1>1, <1>2 DEF MostSaves
<1>3. CASE ~cfg.db
  BY <1>3 DEF MostSaves
<1> QED
  BY <1>2, <1>3

\* What an answered read shows of what was acknowledged before it was sent.
Shows(r) ==
  /\ req[r].route \in {"value", "get"} /\ Key(req[r].items[1]) \in since[r] =>
       resp[r].status = 200 \/ (resp[r].status = 500 /\ req[r].route = "value")
  /\ req[r].route = "page" => since[r] \subseteq resp[r].shows

ReadInv(r) ==
  /\ since[r] \subseteq acked
  /\ ~cfg.db =>
       /\ pc[r] = "gauges" => \A k \in since[r] : k[1] = "counter" => k \in resp[r].shows
       /\ pc[r] = "answered" /\ resp[r].status \notin {400, 415} => Shows(r)

AckedInv == \A k \in acked : store[k] # "absent"

HistoryInv == AckedInv /\ \A r \in Requests : TruthInv(r) /\ ReadInv(r)

\* What is stored stays stored, and what is acknowledged was saved.
LEMMA StoreGrows ==
  ASSUME TypeInv, NEW r \in Requests, StepOf(r)
  PROVE  /\ \A k \in KeyType : store[k] # "absent" => store'[k] # "absent"
         /\ acked \subseteq acked'
         /\ \A k \in acked' \ acked :
              pc[r] = "notify" /\ \E i \in DOMAIN ToSave(req[r]) : k = Key(ToSave(req[r])[i])
<1>1. CASE Send(r)
  BY <1>1 DEF Send
<1>2. CASE Handle(r)
  BY <1>2 DEF Handle
<1>3. CASE Save(r)
  <2>1. store' = Absorb(store, ToSave(req[r])) /\ acked' = acked /\ pc[r] = "save"
    BY <1>3, SaveStep
  <2> QED
    BY <2>1, SavedTypes
<1>4. CASE SaveFails(r)
  <2>1. store' \in {store, Absorb(store, ToSave(req[r]))} /\ acked' = acked /\ pc[r] = "save"
    BY <1>4, SaveFailsStep
  <2> QED
    BY <2>1, SavedTypes
<1>5. CASE Notify(r)
  BY <1>5, NotifyStep
<1>6. CASE Read(r)
  BY <1>6, ReadStep DEF Silent
<1>7. CASE PageCounters(r)
  BY <1>7, PageCountersStep DEF Silent
<1>8. CASE PageGauges(r)
  BY <1>8, PageGaugesStep DEF Silent
<1>9. CASE Ping(r)
  BY <1>9, PingStep DEF Silent
<1>10. CASE SaveRepeats(r)
  <2>1. store' = Absorb(store, ToSave(req[r])) /\ acked' = acked /\ pc[r] = "save"
    BY <1>10, SaveRepeatsStep
  <2> QED
    BY <2>1, SavedTypes
<1> QED
  BY <1>1, <1>2, <1>3, <1>4, <1>5, <1>6, <1>7, <1>8, <1>9, <1>10 DEF StepOf

LEMMA PresentKept ==
  ASSUME NEW q, Present(q), \A k \in KeyType : store[k] # "absent" => store'[k] # "absent"
  PROVE  Present(q)'
BY DEF Present

LEMMA AckedKept ==
  ASSUME TypeInv, HistoryInv, NEW r \in Requests, StepOf(r)
  PROVE  AckedInv'
<1>1. acked \subseteq KeyType
  BY TypeParts DEF Typed
<1>2. ASSUME NEW k \in acked'
      PROVE  store'[k] # "absent"
  <2>1. k \in KeyType /\ store[k] # "absent"
    <3>1. CASE k \in acked
      BY <1>1, <3>1 DEF HistoryInv, AckedInv
    <3>2. CASE k \notin acked
      <4>1. PICK i \in DOMAIN ToSave(req[r]) : pc[r] = "notify" /\ k = Key(ToSave(req[r])[i])
        BY <1>2, <3>2, StoreGrows
      <4>2. Present(req[r])
        BY <4>1 DEF HistoryInv, TruthInv
      <4> QED
        BY <4>1, <4>2 DEF Present
    <3> QED
      BY <3>1, <3>2
  <2> QED
    BY <2>1, StoreGrows
<1> QED
  BY <1>2 DEF AckedInv

LEMMA HistoryElsewhere ==
  ASSUME TypeInv, HistoryInv, NEW r \in Requests, StepOf(r), NEW x \in Requests \ {r}
  PROVE  TruthInv(x)' /\ ReadInv(x)'
<1>1. TruthInv(x) /\ ReadInv(x)
  BY DEF HistoryInv
<1>2. /\ pc'[x] = pc[x] /\ req'[x] = req[x] /\ resp'[x] = resp[x] /\ cfg' = cfg
      /\ since'[x] = since[x] /\ applied'[x] = applied[x] /\ events'[x] = events[x]
  BY OneStep DEF Elsewhere
<1>3. acked \subseteq acked'
  BY StoreGrows
<1>4. PICK q : q = req[x]
  OBVIOUS
<1>5. Present(q) => Present(q)'
  BY PresentKept, StoreGrows
<1>6. TruthInv(x)'
  <2>1. Present(req[x]) <=> Present(q)
    BY <1>4
  <2>2. Present(req[x])' <=> Present(q)'
    BY <1>2, <1>4 DEF Present
  <2> QED
    BY <1>1, <1>2, <1>5, <2>1, <2>2 DEF TruthInv, IsRead, MostSaves
<1>7. ReadInv(x)'
  BY <1>1, <1>2, <1>3 DEF ReadInv, Shows
<1> QED
  BY <1>6, <1>7

LEMMA TruthHandled ==
  ASSUME TypeInv, NEW r \in Requests, TruthInv(r), Handle(r)
  PROVE  TruthInv(r)'
<1>1. PICK q : q = Admitted(req[r])
  OBVIOUS
<1>2. /\ pc[r] = "sent" /\ applied' = applied /\ events' = events
      /\ Shaped(q) /\ Outcome(q, req[r])
  BY <1>1, HandleStep, Zenon
<1>3. applied'[r] = 0 /\ events'[r] = 0 /\ applied'[r] < MostSaves'
  <2>1. MostSaves' = MostSaves
    BY HandleStep DEF MostSaves
  <2> QED
    BY <1>2, <2>1, MostSavesType DEF TruthInv
<1>4. CASE q.status # 0
  <2>1. pc'[r] = "answered" /\ resp'[r].status = q.status
    BY <1>1, <1>4, HandleStep, Zenon
  <2>2. q.status \in {400, 403, 503}
    BY <1>2, <1>4 DEF Outcome
  <2> QED
    BY <1>3, <2>1, <2>2 DEF TruthInv
<1>5. CASE q.status = 0 /\ Refusal(q) # 0
  <2>1. pc'[r] = "answered" /\ resp'[r].status = Refusal(q)
    BY <1>1, <1>5, HandleStep, Zenon
  <2>2. Refusal(q) # 200
    BY <1>2, <1>5, Refusing DEF Refusals
  <2> QED
    BY <1>3, <2>1, <2>2 DEF TruthInv
<1>6. CASE q.status = 0 /\ Refusal(q) = 0 /\ ~IsRead(q) /\ DOMAIN ToSave(q) = {}
  <2>1. pc'[r] = "answered" /\ resp'[r].status = 200 /\ req'[r] = q
    BY <1>1, <1>6, HandleStep, Zenon
  <2>2. DOMAIN ToSave(req[r])' = {}
    BY <1>6, <2>1
  <2>3. Present(req[r])'
    BY <2>2 DEF Present
  <2> QED
    BY <1>3, <2>1, <2>2, <2>3 DEF TruthInv
<1>7. CASE q.status = 0 /\ Refusal(q) = 0 /\ (IsRead(q) \/ DOMAIN ToSave(q) # {})
  <2>1. pc'[r] \in {"save", "read", "counters", "ping"}
    BY <1>1, <1>7, HandleStep, Zenon
  <2> QED
    BY <1>3, <2>1 DEF TruthInv
<1> QED
  BY <1>4, <1>5, <1>6, <1>7

LEMMA TruthRead ==
  ASSUME NEW r \in Requests, TruthInv(r), applied' = applied, events' = events,
         pc[r] \notin {"save", "notify", "answered"}, pc'[r] \notin {"save", "notify"},
         IsRead(req[r]), req'[r].route = req[r].route
  PROVE  TruthInv(r)'
<1>1. applied'[r] = 0 /\ events'[r] = 0 /\ IsRead(req[r])' /\ 0 <= 0
  BY DEF TruthInv, IsRead
<1> QED
  BY <1>1 DEF TruthInv

LEMMA TruthKept ==
  ASSUME TypeInv, NEW r \in Requests, TruthInv(r), StepOf(r)
  PROVE  TruthInv(r)'
<1>1. Typed /\ RequestInv(r) /\ MostSaves' = MostSaves /\ MostSaves \in Nat /\ MostSaves >= 1
      /\ applied[r] \in Nat
  BY TypeParts, OneStep, MostSavesType DEF MostSaves, Typed
<1>2. CASE Send(r)
  BY <1>2, SendStep DEF Send, TruthInv
<1>3. CASE Handle(r)
  BY <1>3, TruthHandled
<1>4. CASE Save(r)
  <2>1. /\ store' = Absorb(store, ToSave(req[r])) /\ req' = req /\ events' = events
        /\ pc[r] = "save" /\ pc'[r] = "notify" /\ applied'[r] = applied[r] + 1
    BY <1>4, SaveStep
  <2>2. Present(req[r])'
    BY <2>1, SavedTypes DEF Present
  <2>3. applied'[r] \in 1 .. MostSaves' /\ events'[r] = 0
    BY <1>1, <2>1 DEF TruthInv
  <2> QED
    BY <2>1, <2>2, <2>3 DEF TruthInv
<1>4a. CASE SaveRepeats(r)
  <2>1. /\ pc' = pc /\ events' = events /\ pc[r] = "save" /\ cfg.db
        /\ applied[r] + 1 < MaxAttempts /\ applied'[r] = applied[r] + 1
    BY <1>4a, SaveRepeatsStep
  <2>2. applied'[r] < MostSaves' /\ events'[r] = 0
    BY <1>1, <2>1 DEF TruthInv, MostSaves
  <2> QED
    BY <2>1, <2>2 DEF TruthInv
<1>5. CASE SaveFails(r)
  <2>1. /\ pc[r] = "save" /\ pc'[r] = "answered" /\ resp'[r].status = 500 /\ events' = events
        /\ applied' \in {applied, [applied EXCEPT ![r] = @ + 1]}
    BY <1>5, SaveFailsStep
  <2>2. events'[r] = 0 /\ applied'[r] \in {applied[r], applied[r] + 1}
    BY <1>1, <2>1 DEF TruthInv, Typed
  <2> QED
    BY <1>1, <2>1, <2>2 DEF TruthInv
<1>6. CASE Notify(r)
  <2>1. /\ pc[r] = "notify" /\ pc'[r] = "answered" /\ req'[r] = req[r] /\ store' = store
        /\ applied' = applied /\ events'[r] = events[r] + 1 /\ resp'[r].status = 200
    BY <1>6, NotifyStep
  <2>2. Present(req[r])'
    BY <2>1 DEF TruthInv, Present
  <2>3. DOMAIN ToSave(req[r])' # {}
    BY <1>1, <2>1 DEF RequestInv, Savable
  <2>4. applied'[r] \in 1 .. MostSaves' /\ events'[r] = 1
    BY <1>1, <2>1 DEF TruthInv
  <2>5. events'[r] <= applied'[r]
    BY <1>1, <2>4
  <2>6. /\ applied'[r] \in (IF DOMAIN ToSave(req[r])' = {} THEN {0} ELSE 1 .. MostSaves')
        /\ events'[r] = (IF DOMAIN ToSave(req[r])' = {} THEN 0 ELSE 1)
    BY <2>3, <2>4
  <2>7. resp'[r].status \notin {400, 403, 404, 415, 503}
    BY <2>1
  <2> QED
    BY <2>1, <2>2, <2>5, <2>6, <2>7 DEF TruthInv
<1>7. CASE Read(r)
  <2>1. pc[r] = "read" /\ pc'[r] = "answered" /\ SameRequest(req'[r], req[r]) /\ Silent
    BY <1>7, ReadStep
  <2> QED
    BY <1>1, <2>1, TruthRead DEF RequestInv, IsRead, SameRequest, Silent
<1>8. CASE PageCounters(r)
  <2>1. pc[r] = "counters" /\ pc'[r] = "gauges" /\ req' = req /\ Silent
    BY <1>8, PageCountersStep
  <2> QED
    BY <2>1 DEF TruthInv, Silent
<1>9. CASE PageGauges(r)
  <2>1. pc[r] = "gauges" /\ pc'[r] = "answered" /\ req'[r] = req[r] /\ Silent
    BY <1>9, PageGaugesStep
  <2> QED
    BY <1>1, <2>1, TruthRead DEF RequestInv, IsRead, Silent
<1>10. CASE Ping(r)
  <2>1. pc[r] = "ping" /\ pc'[r] = "answered" /\ SameRequest(req'[r], req[r]) /\ Silent
    BY <1>10, PingStep
  <2> QED
    BY <1>1, <2>1, TruthRead DEF RequestInv, IsRead, SameRequest, Silent
<1> QED
  BY <1>2, <1>3, <1>4, <1>4a, <1>5, <1>6, <1>7, <1>8, <1>9, <1>10 DEF StepOf

LEMMA ReadHandled ==
  ASSUME TypeInv, NEW r \in Requests, ReadInv(r), Handle(r)
  PROVE  ReadInv(r)'
<1>1. PICK q : q = Admitted(req[r])
  OBVIOUS
<1>2. /\ pc[r] = "sent" /\ UNCHANGED <<cfg, acked, since>>
      /\ Shaped(q) /\ Outcome(q, req[r])
  BY <1>1, HandleStep, Zenon
<1>3. since'[r] \subseteq acked' /\ since'[r] \in SUBSET KeyType
  BY <1>2, TypeParts DEF ReadInv, Typed
<1>4. q.status # 0 /\ q.status \notin {400, 415} => q.route \notin {"value", "get", "page"}
  BY <1>2 DEF Outcome, SameRequest
<1>5. CASE q.status # 0
  <2>1. pc'[r] = "answered" /\ resp'[r].status = q.status /\ req'[r] = q
    BY <1>1, <1>5, HandleStep, Zenon
  <2> QED
    BY <1>3, <1>4, <1>5, <2>1 DEF ReadInv, Shows
<1>6. CASE q.status = 0 /\ Refusal(q) # 0
  <2>1. /\ pc'[r] = "answered" /\ resp'[r].status = Refusal(q)
        /\ SameRequest(req'[r], q)
    BY <1>1, <1>6, HandleStep, Zenon
  <2>2. Refusal(q) \notin {400, 415} =>
          q.route \notin {"value", "page"} /\ (q.route = "get" => q.items[1].type \notin Types)
    BY <1>6 DEF Refusal, ValueRefusal, GetRefusal
  <2>3. q.route = "get" /\ q.items[1].type \notin Types => Key(q.items[1]) \notin KeyType
    BY DEF Key, KeyType
  <2> QED
    BY <1>3, <2>1, <2>2, <2>3 DEF ReadInv, Shows, SameRequest
<1>7. CASE q.status = 0 /\ Refusal(q) = 0 /\ ~IsRead(q) /\ DOMAIN ToSave(q) = {}
  <2>1. pc'[r] = "answered" /\ req'[r] = q
    BY <1>1, <1>7, HandleStep, Zenon
  <2> QED
    BY <1>3, <1>7, <2>1 DEF ReadInv, Shows, IsRead
<1>8. CASE q.status = 0 /\ Refusal(q) = 0 /\ (IsRead(q) \/ DOMAIN ToSave(q) # {})
  <2>1. pc'[r] \in {"save", "read", "counters", "ping"}
    BY <1>1, <1>8, HandleStep, Zenon
  <2> QED
    BY <1>3, <2>1 DEF ReadInv
<1> QED
  BY <1>5, <1>6, <1>7, <1>8

LEMMA ReadKept ==
  ASSUME TypeInv, HistoryInv, NEW r \in Requests, StepOf(r)
  PROVE  ReadInv(r)'
<1>1. Typed /\ RequestInv(r) /\ ReadInv(r) /\ AckedInv /\ cfg' = cfg
  BY TypeParts, OneStep DEF HistoryInv
<1>2. acked \subseteq acked'
  BY StoreGrows
<1>3. ASSUME since'[r] = since[r], pc'[r] \notin {"gauges", "answered"}
      PROVE  ReadInv(r)'
  BY <1>1, <1>2, <1>3 DEF ReadInv
<1>4. ASSUME since'[r] = since[r], pc'[r] = "answered", req'[r].route \notin {"value", "get", "page"}
      PROVE  ReadInv(r)'
  BY <1>1, <1>2, <1>4 DEF ReadInv, Shows
<1>5. CASE Send(r)
  <2>1. pc'[r] = "sent" /\ since'[r] = acked
    BY <1>5, SendStep
  <2> QED
    BY <1>2, <2>1 DEF ReadInv
<1>6. CASE Handle(r)
  BY <1>1, <1>6, ReadHandled
<1>7. CASE Save(r)
  <2>1. since' = since /\ pc'[r] = "notify"
    BY <1>7, SaveStep
  <2> QED
    BY <1>3, <2>1
<1>7a. CASE SaveRepeats(r)
  <2>1. since' = since /\ pc[r] = "save" /\ pc' = pc
    BY <1>7a, SaveRepeatsStep
  <2> QED
    BY <1>3, <2>1
<1>8. CASE SaveFails(r)
  <2>1. pc[r] = "save" /\ since' = since /\ pc'[r] = "answered" /\ SameRequest(req'[r], req[r])
    BY <1>8, SaveFailsStep
  <2> QED
    BY <1>1, <1>4, <2>1 DEF RequestInv, Savable, SameRequest
<1>9. CASE Notify(r)
  <2>1. pc[r] = "notify" /\ since' = since /\ pc'[r] = "answered" /\ req'[r] = req[r]
    BY <1>9, NotifyStep
  <2> QED
    BY <1>1, <1>4, <2>1 DEF RequestInv, Savable
<1>10. CASE Read(r)
  <2>1. /\ pc[r] = "read" /\ pc'[r] = "answered" /\ SameRequest(req'[r], req[r]) /\ since' = since
        /\ ~cfg.db /\ Lookup(req[r].items[1]) # "absent" =>
             resp'[r].status = 200 \/ (resp'[r].status = 500 /\ req[r].route = "value")
    BY <1>10, ReadStep DEF Silent
  <2>2. Key(req[r].items[1]) \in since[r] => Lookup(req[r].items[1]) # "absent"
    BY <1>1 DEF ReadInv, AckedInv, Lookup
  <2>3. req'[r].route = req[r].route /\ req'[r].items = req[r].items /\ req[r].route # "page"
    BY <1>1, <2>1 DEF SameRequest, RequestInv
  <2> QED
    BY <1>1, <1>2, <2>1, <2>2, <2>3 DEF ReadInv, Shows
<1>11. CASE PageCounters(r)
  <2>1. /\ since' = since /\ pc'[r] = "gauges"
        /\ ~cfg.db => resp'[r].shows = Shown("counter")
    BY <1>11, PageCountersStep DEF Silent
  <2>2. \A k \in since[r] : k[1] = "counter" => k \in Shown("counter")
    <3>1. \A k \in since[r] : k \in KeyType /\ store[k] # "absent"
      BY <1>1 DEF ReadInv, AckedInv, Typed
    <3> QED
      BY <3>1, ShownTypes
  <2> QED
    BY <1>1, <1>2, <2>1, <2>2 DEF ReadInv
<1>12. CASE PageGauges(r)
  <2>1. /\ pc[r] = "gauges" /\ since' = since /\ pc'[r] = "answered" /\ req'[r] = req[r]
        /\ ~cfg.db => resp'[r].shows = resp[r].shows \cup Shown("gauge")
    BY <1>12, PageGaugesStep DEF Silent
  <2>2. \A k \in since[r] : k[1] \in {"counter", "gauge"} /\ (k[1] = "gauge" => k \in Shown("gauge"))
    <3>1. \A k \in since[r] : k \in KeyType /\ store[k] # "absent"
      BY <1>1 DEF ReadInv, AckedInv, Typed
    <3>2. \A k \in KeyType : k[1] \in {"counter", "gauge"}
      BY DEF KeyType, Types
    <3> QED
      BY <3>1, <3>2, ShownTypes
  <2>3. req'[r].route = "page"
    BY <1>1, <2>1 DEF RequestInv
  <2> QED
    BY <1>1, <1>2, <2>1, <2>2, <2>3 DEF ReadInv, Shows
<1>13. CASE Ping(r)
  <2>1. pc[r] = "ping" /\ since' = since /\ pc'[r] = "answered" /\ SameRequest(req'[r], req[r])
    BY <1>13, PingStep DEF Silent
  <2> QED
    BY <1>1, <1>4, <2>1 DEF RequestInv, SameRequest
<1> QED
  BY <1>5, <1>6, <1>7, <1>7a, <1>8, <1>9, <1>10, <1>11, <1>12, <1>13 DEF StepOf

LEMMA HistoryNext ==
  ASSUME TypeInv, HistoryInv, [Next]_vars
  PROVE  HistoryInv'
<1>1. CASE UNCHANGED vars
  <2>1. MostSaves' = MostSaves /\ (AckedInv => AckedInv')
    BY <1>1 DEF vars, MostSaves, AckedInv
  <2>2. ASSUME NEW r \in Requests PROVE TruthInv(r)' /\ ReadInv(r)'
    <3>1. TruthInv(r) /\ ReadInv(r)
      BY DEF HistoryInv
    <3>2. ReadInv(r)'
      BY <1>1, <3>1 DEF vars, ReadInv, Shows
    <3>3. Present(req[r])' <=> Present(req[r])
      BY <1>1 DEF vars, Present, ToSave, ToModel
    <3>4. TruthInv(r)'
      BY <1>1, <2>1, <3>1, <3>3 DEF vars, TruthInv, IsRead
    <3> QED
      BY <3>2, <3>4
  <2> QED
    BY <2>1, <2>2 DEF HistoryInv
<1>2. ASSUME NEW r \in Requests, StepOf(r)
      PROVE  HistoryInv'
  <2>1. TruthInv(r)' /\ ReadInv(r)'
    BY <1>2, TruthKept, ReadKept DEF HistoryInv
  <2>2. \A x \in Requests \ {r} : TruthInv(x)' /\ ReadInv(x)'
    BY <1>2, HistoryElsewhere
  <2> QED
    BY <1>2, <2>1, <2>2, AckedKept DEF HistoryInv
<1> QED
  BY <1>1, <1>2, StepCases

LEMMA HistoryAlways == Spec => [](TypeInv /\ HistoryInv)
<1>1. Init => HistoryInv
  BY DEF Init, HistoryInv, AckedInv, TruthInv, ReadInv
<1>2. TypeInv /\ HistoryInv /\ [Next]_vars => HistoryInv'
  BY HistoryNext
<1> QED
  BY <1>1, <1>2, TypeAlways, PTL DEF Spec

-----------------------------------------------------------------------------
(* Only what a request has set to NaN cannot be read as JSON. *)

\* Of the indexes that are hit one is the last: of the sets of those above one
\* of them, the smallest is empty.
LEMMA LastHit ==
  ASSUME NEW n \in Nat, NEW H \in SUBSET (1 .. n), H # {}
  PROVE  \E m \in H : \A j \in H : j <= m
<1> DEFINE Above(i) == {j \in H : j > i}
           Tails == {Above(i) : i \in H}
<1>1. Tails # {} /\ Tails \subseteq FiniteSubsetsOf(1 .. n)
  <2>1. \A i \in H : Above(i) \in SUBSET (1 .. n)
    OBVIOUS
  <2>2. IsFiniteSet(1 .. n)
    BY FS_Interval
  <2>3. \A i \in H : IsFiniteSet(Above(i))
    BY <2>1, <2>2, FS_Subset
  <2> QED
    BY <2>1, <2>3 DEF FiniteSubsetsOf
<1> HIDE DEF Tails
<1>2. PICK A \in Tails : \A B \in Tails : ~(<<B, A>> \in StrictSubsetOrdering(1 .. n))
  BY <1>1, FS_StrictSubsetOrderingWellFounded, WFMin
<1>3. PICK m \in H : A = Above(m)
  BY DEF Tails
<1>4. ASSUME NEW j \in H, j > m PROVE FALSE
  <2>1. Above(j) \in Tails
    BY DEF Tails
  <2>2. Above(j) \subseteq Above(m) /\ j \in Above(m) /\ j \notin Above(j)
    <3>1. \A i \in H : i \in Nat
      OBVIOUS
    <3>2. \A i \in H : i > j => i > m
      BY <1>4, <3>1
    <3>3. Above(j) \subseteq Above(m)
      BY <3>2
    <3>4. j \in Above(m)
      BY <1>4
    <3>5. ~(j > j)
      BY <3>1
    <3>6. j \notin Above(j)
      BY <3>5
    <3> QED
      BY <3>3, <3>4, <3>6
  <2>3. <<Above(j), A>> \in StrictSubsetOrdering(1 .. n)
    BY <1>3, <2>2 DEF StrictSubsetOrdering
  <2> QED
    BY <1>2, <2>1, <2>3
<1> QED
  BY <1>4

\* What was saved is kept with the request that saved it.
LEMMA SavedStays ==
  ASSUME TypeInv, HistoryInv, NEW r \in Requests, StepOf(r), applied[r] > 0
  PROVE  applied'[r] > 0 /\ ToSave(req[r])' = ToSave(req[r])
<1>1. Typed /\ TruthInv(r) /\ applied[r] \in Nat /\ applied[r] # 0
  BY TypeParts DEF HistoryInv, Typed
<1>2. pc[r] \in {"save", "notify", "answered"}
  BY <1>1 DEF TruthInv
<1>3. ASSUME SameRequest(req'[r], req[r]) PROVE ToSave(req[r])' = ToSave(req[r])
  BY <1>3 DEF SameRequest, ToSave
<1>4. SameRequest(req[r], req[r])
  BY DEF SameRequest
<1>5. CASE Save(r)
  BY <1>1, <1>3, <1>4, <1>5, SaveStep
<1>6. CASE SaveRepeats(r)
  BY <1>1, <1>3, <1>4, <1>6, SaveRepeatsStep
<1>7. CASE SaveFails(r)
  <2>1. SameRequest(req'[r], req[r]) /\ applied' \in {applied, [applied EXCEPT ![r] = @ + 1]}
    BY <1>7, SaveFailsStep
  <2>2. applied'[r] > 0
    BY <1>1, <2>1 DEF Typed
  <2> QED
    BY <1>3, <2>1, <2>2
<1>8. CASE Notify(r)
  <2>1. req'[r] = req[r] /\ applied' = applied
    BY <1>8, NotifyStep
  <2> QED
    BY <1>3, <1>4, <2>1
<1>9. pc[r] \notin {"save", "notify"} => ~Save(r) /\ ~SaveRepeats(r) /\ ~SaveFails(r) /\ ~Notify(r)
  BY DEF Save, SaveRepeats, SaveFails, Notify
<1>10. ~Send(r) /\ ~Handle(r) /\ ~Read(r) /\ ~PageCounters(r) /\ ~PageGauges(r) /\ ~Ping(r)
  BY <1>2 DEF Send, Handle, Read, PageCounters, PageGauges, Ping
<1> QED
  BY <1>5, <1>6, <1>7, <1>8, <1>10 DEF StepOf

LEMMA NaNStays ==
  ASSUME TypeInv, HistoryInv, NEW r \in Requests, StepOf(r), NEW k, NaNSaved(k)
  PROVE  NaNSaved(k)'
<1>1. PICK x \in Requests :
        /\ applied[x] > 0
        /\ \E i \in DOMAIN ToSave(req[x]) : Key(ToSave(req[x])[i]) = k /\ ToSave(req[x])[i].nan
  BY DEF NaNSaved
<1>2. applied'[x] > 0 /\ ToSave(req[x])' = ToSave(req[x])
  <2>1. CASE x = r
    BY <1>1, <2>1, SavedStays
  <2>2. CASE x # r
    <3>1. applied'[x] = applied[x] /\ req'[x] = req[x]
      BY <2>2, OneStep DEF Elsewhere
    <3> QED
      BY <1>1, <3>1 DEF ToSave
  <2> QED
    BY <2>1, <2>2
<1> QED
  BY <1>1, <1>2 DEF NaNSaved

\* The steps that change the store.
LEMMA SavingStep ==
  ASSUME TypeInv, NEW r \in Requests, StepOf(r), store' # store
  PROVE  /\ pc[r] = "save" /\ store' = Absorb(store, ToSave(req[r]))
         /\ SameRequest(req'[r], req[r]) /\ applied'[r] > 0
<1>1. applied[r] \in Nat /\ Requests = DOMAIN applied
  BY TypeParts DEF Typed
<1>2. SameRequest(req[r], req[r])
  BY DEF SameRequest
<1>3. CASE Save(r)
  BY <1>1, <1>2, <1>3, SaveStep
<1>4. CASE SaveRepeats(r)
  BY <1>1, <1>2, <1>4, SaveRepeatsStep
<1>5. CASE SaveFails(r)
  <2>1. store' = Absorb(store, ToSave(req[r])) /\ applied' = [applied EXCEPT ![r] = @ + 1]
    BY <1>5 DEF SaveFails
  <2>2. applied'[r] > 0
    BY <1>1, <2>1
  <2> QED
    BY <1>5, <2>1, <2>2, SaveFailsStep
<1>6. ~Send(r) /\ ~Handle(r) /\ ~Notify(r) /\ ~Read(r) /\ ~PageCounters(r) /\ ~PageGauges(r) /\ ~Ping(r)
  BY DEF Send, Handle, Notify, Read, PageCounters, PageGauges, Ping
<1> QED
  BY <1>3, <1>4, <1>5, <1>6 DEF StepOf

\* The middleware and the validation refuse no look-up with 500.
LEMMA HandledFailure ==
  ASSUME TypeInv, NEW r \in Requests, Handle(r)
  PROVE  ~(pc'[r] = "answered" /\ resp'[r].status = 500 /\ req'[r].route = "value")
<1>1. PICK q : q = Admitted(req[r])
  OBVIOUS
<1>2. Shaped(q) /\ Outcome(q, req[r])
  BY <1>1, HandleStep, Zenon
<1>3. CASE q.status # 0
  <2>1. pc'[r] = "answered" /\ resp'[r].status = q.status
    BY <1>1, <1>3, HandleStep, Zenon
  <2>2. q.status \in {400, 403, 503}
    BY <1>2, <1>3 DEF Outcome
  <2> QED
    BY <2>1, <2>2
<1>4. CASE q.status = 0 /\ Refusal(q) # 0
  <2>1. /\ pc'[r] = "answered" /\ resp'[r].status = Refusal(q)
        /\ SameRequest(req'[r], q)
    BY <1>1, <1>4, HandleStep, Zenon
  <2>2. q.route = "value" => Refusal(q) # 500
    BY DEF Refusal, ValueRefusal
  <2> QED
    BY <2>1, <2>2 DEF SameRequest
<1>5. CASE q.status = 0 /\ Refusal(q) = 0 /\ ~IsRead(q) /\ DOMAIN ToSave(q) = {}
  <2>1. pc'[r] = "answered" /\ resp'[r].status = 200
    BY <1>1, <1>5, HandleStep, Zenon
  <2> QED
    BY <2>1
<1>6. CASE q.status = 0 /\ Refusal(q) = 0 /\ (IsRead(q) \/ DOMAIN ToSave(q) # {})
  <2>1. pc'[r] \in {"save", "read", "counters", "ping"}
    BY <1>1, <1>6, HandleStep, Zenon
  <2> QED
    BY <2>1
<1> QED
  BY <1>3, <1>4, <1>5, <1>6

\* Over memory only reading fails with 500 on a route that looks a metric up.
LEMMA NewlyFailed ==
  ASSUME TypeInv, NEW r \in Requests, StepOf(r), NEW x \in Requests, ~cfg'.db,
         Finished(x)', resp'[x].status = 500, req'[x].route = "value",
         ~(Finished(x) /\ UNCHANGED <<resp[x], req[x]>>)
  PROVE  x = r /\ Read(r)
<1>1. cfg' = cfg /\ Elsewhere(r)
  BY OneStep
<1>2. x = r
  BY <1>1 DEF Elsewhere, Finished
<1>3. RequestInv(r)
  BY TypeParts
<1>4. ~Send(r) /\ ~Save(r) /\ ~SaveRepeats(r) /\ ~PageCounters(r)
  BY <1>2, SendStep, SaveStep, SaveRepeatsStep, PageCountersStep DEF Finished
<1>5. ~SaveFails(r)
  BY <1>1 DEF SaveFails
<1>6. ~Notify(r) /\ ~PageGauges(r)
  BY <1>2, NotifyStep, PageGaugesStep
<1>7. ~Ping(r)
  <2>1. Ping(r) => pc[r] = "ping" /\ SameRequest(req'[r], req[r])
    BY PingStep
  <2> QED
    BY <1>2, <1>3, <2>1 DEF RequestInv, SameRequest
<1>8. ~Handle(r)
  BY <1>2, HandledFailure DEF Finished
<1> QED
  BY <1>2, <1>4, <1>5, <1>6, <1>7, <1>8 DEF StepOf

\* A metric that is NaN was set to it, and only such a one has no JSON.
NaNInv ==
  /\ \A k \in KeyType : store[k] = "nan" => NaNSaved(k)
  /\ ~cfg.db => \A r \in Requests :
       Finished(r) /\ resp[r].status = 500 /\ req[r].route = "value" => NaNSaved(Key(req[r].items[1]))

LEMMA NaNAbsorbed ==
  ASSUME TypeInv, \A k \in KeyType : store[k] = "nan" => NaNSaved(k), HistoryInv,
         NEW r \in Requests, StepOf(r), pc[r] = "save", applied'[r] > 0,
         ToSave(req[r])' = ToSave(req[r]), store' = Absorb(store, ToSave(req[r])),
         NEW k \in KeyType, store'[k] = "nan"
  PROVE  NaNSaved(k)'
<1> DEFINE items == ToSave(req[r])
           hits  == {i \in DOMAIN items : Valid(items[i]) /\ Key(items[i]) = k}
           last  == CHOOSE i \in hits : \A j \in hits : j <= i
<1>1. DOMAIN store = KeyType
  BY TypeParts DEF Typed, StoreType
<1>2. store'[k] = IF hits = {} THEN store[k] ELSE IF items[last].nan THEN "nan" ELSE "number"
  BY <1>1 DEF Absorb
<1>2a. PICK n \in Nat : DOMAIN items \subseteq 1 .. n
  <2>1. req[r].items \in Seq(MetricType)
    BY SavedTypes, RequestItems
  <2>2. DOMAIN items \subseteq DOMAIN req[r].items
    BY DEF ToSave, ToModel
  <2>3. DOMAIN req[r].items = 1 .. Len(req[r].items) /\ Len(req[r].items) \in Nat
    BY <2>1
  <2> HIDE DEF items
  <2> QED
    BY <2>2, <2>3
<1>3. CASE hits = {}
  BY <1>2, <1>3, NaNStays
<1>4. CASE hits # {}
  <2>1. items[last].nan
    BY <1>2, <1>4
  <2>2. last \in hits
    <3>1. hits \in SUBSET (1 .. n)
      BY <1>2a
    <3>2. \E m \in hits : \A j \in hits : j <= m
      BY <1>4, <3>1, LastHit
    <3> QED
      BY <3>2
  <2>3. last \in DOMAIN items /\ Key(items[last]) = k
    BY <2>2
  <2> HIDE DEF items, last
  <2>4. \E i \in DOMAIN items : Key(items[i]) = k /\ items[i].nan
    BY <2>1, <2>3
  <2>5. \E i \in DOMAIN ToSave(req[r])' : Key(ToSave(req[r])'[i]) = k /\ ToSave(req[r])'[i].nan
    BY <2>4 DEF items
  <2> QED
    BY <2>5 DEF NaNSaved
<1> QED
  BY <1>3, <1>4

LEMMA NaNNext ==
  ASSUME TypeInv, HistoryInv, NaNInv, [Next]_vars
  PROVE  NaNInv'
<1>1. CASE UNCHANGED vars
  BY <1>1 DEF vars, NaNInv, NaNSaved, Finished
<1>2. ASSUME NEW r \in Requests, StepOf(r)
      PROVE  NaNInv'
  <2>1. ASSUME NEW k \in KeyType, store'[k] = "nan" PROVE NaNSaved(k)'
    <3>1. CASE store' = store
      BY <1>2, <2>1, <3>1, NaNStays DEF NaNInv
    <3>2. CASE store' # store
      <4>1. pc[r] = "save" /\ store' = Absorb(store, ToSave(req[r])) /\ SameRequest(req'[r], req[r])
            /\ applied'[r] > 0
        BY <1>2, <3>2, SavingStep
      <4>2. ToSave(req[r])' = ToSave(req[r])
        BY <4>1 DEF SameRequest, ToSave
      <4> QED
        BY <1>2, <2>1, <4>1, <4>2, NaNAbsorbed DEF NaNInv
    <3> QED
      BY <3>1, <3>2
  <2>2. ASSUME ~cfg'.db, NEW x \in Requests, Finished(x)', resp'[x].status = 500,
               req'[x].route = "value"
        PROVE  NaNSaved(Key(req[x].items[1]))'
    <3>0. cfg' = cfg
      BY <1>2, OneStep
    <3>1. CASE Finished(x) /\ UNCHANGED <<resp[x], req[x]>>
      <4>1. NaNSaved(Key(req[x].items[1]))
        BY <2>2, <3>0, <3>1 DEF NaNInv
      <4>2. PICK k : k = Key(req[x].items[1])
        OBVIOUS
      <4>3. NaNSaved(k)'
        BY <1>2, <4>1, <4>2, NaNStays
      <4> QED
        BY <3>1, <4>2, <4>3 DEF Key, NaNSaved
    <3>2. CASE ~(Finished(x) /\ UNCHANGED <<resp[x], req[x]>>)
      <4>1. x = r /\ Read(r)
        BY <1>2, <2>2, <3>2, NewlyFailed
      <4>2. /\ Silent /\ SameRequest(req'[r], req[r]) /\ Lookup(req[r].items[1]) = "nan"
            /\ pc[r] = "read"
        BY <2>2, <4>1, <3>0, ReadStep
      <4>3. RequestInv(r)
        BY TypeParts
      <4>4. Key(req[r].items[1]) \in KeyType
        BY <4>2, <4>3, KeyTyped DEF RequestInv
      <4>5. PICK k \in KeyType : k = Key(req[r].items[1])
        BY <4>4
      <4>6. NaNSaved(k)
        BY <4>2, <4>5 DEF NaNInv, Lookup
      <4>7. NaNSaved(k)'
        BY <1>2, <4>6, NaNStays
      <4>8. Key(req[r].items[1])' = k
        BY <4>2, <4>5 DEF SameRequest, Key
      <4> QED
        BY <4>1, <4>7, <4>8 DEF NaNSaved
    <3> QED
      BY <3>1, <3>2
  <2> QED
    BY <2>1, <2>2 DEF NaNInv
<1> QED
  BY <1>1, <1>2, StepCases

LEMMA RefusalCodes ==
  ASSUME NEW n \in Refusals \cup {0, 200}, n \in 400 .. 499 \cup {503}
  PROVE  n \in {400, 403, 404, 415, 503}
BY DEF Refusals

\* An answer tells the client the truth: 200 to an update means it was saved
\* whole and notified once, once saved over memory, and over PostgreSQL as often
\* as commits that took effect lost their answer, and once more; a refusal means
\* it left nothing behind; and nothing is notified that was not saved.
THEOREM AnswersTellTheTruthHolds == Spec => []AnswersTellTheTruth
<1> DEFINE Denies(r) == resp[r].status \in 400 .. 499 \cup {503}
           Saved(r) == LET items == ToSave(req[r]) IN
                       /\ applied[r] \in (IF DOMAIN items = {} THEN {0} ELSE 1 .. MostSaves)
                       /\ events[r] = (IF DOMAIN items = {} THEN 0 ELSE 1)
                       /\ \A i \in DOMAIN items : store[Key(items[i])] # "absent"
           Truth(r) == /\ events[r] <= applied[r]
                       /\ Finished(r) /\ Denies(r) => applied[r] = 0
                       /\ Finished(r) /\ resp[r].status = 200 /\ ~IsRead(req[r]) => Saved(r)
<1>1. ASSUME TypeInv, HistoryInv, NEW r \in Requests
      PROVE  Truth(r)
  <2>1. TruthInv(r)
    BY <1>1, Zenon DEF HistoryInv
  <2>2. events[r] <= applied[r]
    <3>1. applied[r] \in Nat
      BY <1>1, TypeParts DEF Typed
    <3> QED
      BY <2>1, <3>1 DEF TruthInv
  <2>3. resp[r] \in AnswerType
    BY <1>1, TypeParts DEF Typed
  <2>4. resp[r].status \in Refusals \cup {0, 200}
    BY <2>3 DEF AnswerType
  <2>5. ASSUME Finished(r), Denies(r) PROVE applied[r] = 0
    <3>1. resp[r].status \in {400, 403, 404, 415, 503}
      BY <2>4, <2>5, RefusalCodes
    <3> QED
      BY <2>1, <2>5, <3>1, Zenon DEF TruthInv, Finished
  <2>6. ASSUME Finished(r), resp[r].status = 200, ~IsRead(req[r]) PROVE Saved(r)
    <3>1. /\ applied[r] \in (IF DOMAIN ToSave(req[r]) = {} THEN {0} ELSE 1 .. MostSaves)
          /\ events[r] = (IF DOMAIN ToSave(req[r]) = {} THEN 0 ELSE 1) /\ Present(req[r])
      BY <2>1, <2>6, Zenon DEF TruthInv, Finished
    <3> QED
      BY <3>1 DEF Present
  <2> HIDE DEF Denies, Saved
  <2> QED
    BY <2>2, <2>5, <2>6, Zenon
<1>2. ASSUME TypeInv, HistoryInv
      PROVE  AnswersTellTheTruth
  <2>1. \A r \in Requests : Truth(r)
    BY <1>1, <1>2, Zenon
  <2> QED
    BY <2>1, Zenon DEF AnswersTellTheTruth
<1> QED
  BY <1>2, HistoryAlways, PTL

\* Over memory, a read sent after an update was answered finds what it updated,
\* whatever routes the two took and whatever happens in between; what POST /value
\* cannot encode, some request has set to NaN.
THEOREM ReadYourWritesHolds == Spec => []ReadYourWrites
<1>1. Init => NaNInv
  BY DEF Init, NaNInv, Finished, Absent
<1>2. TypeInv /\ HistoryInv /\ NaNInv /\ [Next]_vars => NaNInv'
  BY NaNNext
<1>3. ASSUME HistoryInv, NaNInv
      PROVE  ReadYourWrites
  <2> DEFINE Found(r) ==
               LET q == req[r] IN
               /\ q.route \in {"value", "get"} /\ Key(q.items[1]) \in since[r] =>
                    \/ resp[r].status = 200
                    \/ q.route = "value" /\ resp[r].status = 500 /\ NaNSaved(Key(q.items[1]))
               /\ q.route = "page" => since[r] \subseteq resp[r].shows
  <2>1. ASSUME ~cfg.db, NEW r \in Requests, Finished(r), resp[r].status \notin {400, 415}
        PROVE  Found(r)
    <3>1. Shows(r)
      BY <1>3, <2>1 DEF HistoryInv, ReadInv, Finished
    <3>2. resp[r].status = 500 /\ req[r].route = "value" => NaNSaved(Key(req[r].items[1]))
      BY <1>3, <2>1 DEF NaNInv
    <3> QED
      BY <3>1, <3>2 DEF Shows
  <2> HIDE DEF Found
  <2>2. ~cfg.db => \A r \in {x \in Requests : Finished(x) /\ resp[x].status \notin {400, 415}} : Found(r)
    BY <2>1
  <2> QED
    BY <2>2, Zenon DEF ReadYourWrites, Found
<1> QED
  BY <1>1, <1>2, <1>3, HistoryAlways, PTL DEF Spec
=============================================================================

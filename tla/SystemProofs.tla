---------------------------- MODULE SystemProofs ----------------------------
(***************************************************************************)
(* Proofs about System: an agent and a server that crashes and comes back, *)
(* for any launch of the agent and any number of requests, polls, crashes  *)
(* and restarts.  The types of the agent are those of AgentRunnerProofs.   *)
(***************************************************************************)
EXTENDS System, AgentRunnerProofs

-----------------------------------------------------------------------------
(* Types *)

Steps == {"none", "applied", "saved", "broken"}

\* A request is handled while its worker waits for the answer, and by a server
\* that is there; only SyncSaveRepo saves on behalf of one.
HandlingInv ==
  /\ handling \in [Workers -> Steps]
  /\ \A w \in Workers : handling[w] # "none" => workers[w].pc = "send"
  /\ \A w \in Workers : handling[w] \in {"applied", "saved"} => up
  /\ \A w \in Workers : handling[w] = "saved" => sync

SysTypeInv ==
  /\ TypeInv
  /\ sync \in BOOLEAN /\ up \in BOOLEAN
  /\ saved \in ServerType
  /\ answered \in Nat /\ lost \in Int
  /\ HandlingInv

\* What the server has, saved or not, it may start from.
LEMMA SavedGrows ==
  ASSUME SysTypeInv, gauges' \in {gauges, gauges + 1}
  PROVE  server \in ServerType' /\ saved \in ServerType'
BY ChunksGrow DEF SysTypeInv, TypeInv, TypeOK

LEMMA RunnerStepIsNext == RunnerStep => Next
BY DEF RunnerStep, Next, Send

LEMMA RunnerGauges ==
  ASSUME TypeInv, [Next]_vars
  PROVE  gauges' \in {gauges, gauges + 1}
<1>1. CASE PollRuntime
  BY <1>1 DEF PollRuntime
<1>2. CASE ~PollRuntime
  BY <1>2 DEF Next, vars, runnerVars, Cancel, PollSystem, LoopStops, ReportTick, FinalFlush,
              FlushExpires, SubmitChecks, SubmitSends, SubmitFails, FlushDone, PoolStop,
              PoolStopped, Receive, WorkerExits, Send, SendSucceeds, SendRefused, SendFails,
              Retry, SendTimesOut, ArrivesLate, Terminated
<1> QED
  BY <1>1, <1>2

\* Only a worker that is not sending goes on by itself, and the server is left
\* alone.
LEMMA RunnerLeaves ==
  ASSUME TypeInv, RunnerStep
  PROVE  /\ server' = server
         /\ \A w \in Workers : workers[w].pc = "send" => workers'[w] = workers[w]
<1>1. ASSUME NEW w \in Workers, Receive(w) \/ WorkerExits(w) \/ Retry(w)
      PROVE  /\ server' = server
             /\ \A v \in Workers : workers[v].pc = "send" => workers'[v] = workers[v]
  BY <1>1 DEF Receive, WorkerExits, Retry, netVars, TypeInv, TypeOK
<1>2. CASE \A w \in Workers : ~Receive(w) /\ ~WorkerExits(w) /\ ~Retry(w)
  BY <1>2 DEF RunnerStep, netVars, Cancel, PollRuntime, PollSystem, LoopStops, ReportTick,
              FinalFlush, FlushExpires, SubmitChecks, SubmitSends, SubmitFails, FlushDone,
              PoolStop, PoolStopped
<1> QED
  BY <1>1, <1>2

LEMMA InitSysType == SysInit => SysTypeInv
<1> SUFFICES ASSUME SysInit PROVE SysTypeInv
  OBVIOUS
<1>1. TypeInv
  BY InitType DEF SysInit
<1>2. saved \in ServerType
  BY <1>1 DEF SysInit, TypeInv, TypeOK
<1> QED
  BY <1>1, <1>2 DEF SysInit, SysTypeInv, HandlingInv, Steps

LEMMA QuietType ==
  ASSUME TypeInv, UNCHANGED vars
  PROVE  TypeInv' /\ ServerType' = ServerType
<1>1. TypeInv'
  BY NextType
<1>2. ServerType' = ServerType
  BY DEF vars, runnerVars, ServerType
<1> QED
  BY <1>1, <1>2

LEMMA NextSysType == SysTypeInv /\ [SysNext]_sysVars => SysTypeInv'
<1> SUFFICES ASSUME SysTypeInv, [SysNext]_sysVars PROVE SysTypeInv'
  OBVIOUS
<1>1. ASSUME UNCHANGED vars,
             UNCHANGED <<sync, answered, lost>>,
             up' \in BOOLEAN, saved' \in {saved, server}, HandlingInv'
      PROVE  SysTypeInv'
  <2>1. TypeInv' /\ ServerType' = ServerType
    BY <1>1, QuietType DEF SysTypeInv
  <2>2. saved' \in ServerType'
    BY <1>1, <2>1 DEF SysTypeInv, TypeInv, TypeOK
  <2> QED
    BY <1>1, <2>1, <2>2 DEF SysTypeInv
<1>2. CASE \/ \E l \in AgentLaunches : LaunchAgent(l)
           \/ NewSender \/ NewRunner \/ UNCHANGED sysVars
  <2>1. UNCHANGED <<vars, serverVars>>
    BY <1>2 DEF LaunchAgent, NewSender, NewRunner, sysVars
  <2>2. HandlingInv'
    BY <2>1 DEF SysTypeInv, HandlingInv, vars, serverVars
  <2> QED
    BY <1>1, <2>1, <2>2 DEF SysTypeInv, serverVars
<1>3. CASE RunnerStep
  <2>1. TypeInv' /\ saved \in ServerType'
    BY <1>3, NextType, RunnerStepIsNext, RunnerGauges, SavedGrows DEF SysTypeInv
  <2>2. UNCHANGED serverVars
    BY <1>3 DEF RunnerStep
  <2>3. HandlingInv'
    BY <1>3, <2>2, RunnerLeaves DEF SysTypeInv, HandlingInv, serverVars
  <2> QED
    BY <2>1, <2>2, <2>3 DEF SysTypeInv, serverVars
<1>4. ASSUME NEW w \in Workers, RequestFails(w) PROVE SysTypeInv'
  <2>1. Next /\ UNCHANGED <<sync, up, saved, answered, lost>> /\ gauges' = gauges
    BY <1>4 DEF RequestFails, Next, Send, SendRefused, SendFails, SendTimesOut, runnerVars
  <2>2. TypeInv' /\ saved \in ServerType'
    BY <2>1, NextType, SavedGrows DEF SysTypeInv
  <2>3. /\ handling' = [handling EXCEPT ![w] = "none"]
        /\ \A v \in Workers : v # w => workers'[v] = workers[v]
    BY <1>4 DEF RequestFails, Handles, SendRefused, SendFails, SendTimesOut, GiveUp, SysTypeInv,
                TypeInv, TypeOK
  <2>4. HandlingInv'
    BY <2>1, <2>3 DEF SysTypeInv, HandlingInv, Steps
  <2> QED
    BY <2>1, <2>2, <2>4 DEF SysTypeInv
<1>5. ASSUME NEW w \in Workers, ServerApplies(w) PROVE SysTypeInv'
  <2>1. server' \in ServerType
    BY <1>5, AppliedType DEF ServerApplies, SysTypeInv, TypeInv, TypeOK, WorkerType
  <2>2. ServerType' = ServerType /\ Chunks' = Chunks /\ FlushType' = FlushType
        /\ WorkerType' = WorkerType
    BY <1>5 DEF ServerApplies, runnerVars, ServerType, Chunks, Items, FlushType, WorkerType
  <2>3. TypeInv'
    BY <1>5, <2>1, <2>2 DEF ServerApplies, runnerVars, SysTypeInv, TypeInv, TypeOK, FlushInv, WorkerInv
  <2>4. HandlingInv'
    BY <1>5 DEF ServerApplies, Handles, SysTypeInv, HandlingInv, Steps
  <2> QED
    BY <1>5, <2>2, <2>3, <2>4 DEF ServerApplies, SysTypeInv
<1>6. ASSUME NEW w \in Workers, ServerSaves(w) PROVE SysTypeInv'
  <2>1. HandlingInv'
    BY <1>6 DEF ServerSaves, Handles, SysTypeInv, HandlingInv, Steps, vars
  <2> QED
    BY <1>1, <1>6, <2>1 DEF ServerSaves, SysTypeInv
<1>7. ASSUME NEW w \in Workers, ServerAnswers(w) PROVE SysTypeInv'
  <2>1. workers' \in [Workers -> WorkerType] /\ \A v \in Workers : WorkerInv(v)'
    BY <1>7, GiveUpType DEF ServerAnswers, SysTypeInv
  <2>2. ServerType' = ServerType /\ Chunks' = Chunks /\ FlushType' = FlushType
        /\ WorkerType' = WorkerType
    BY <1>7 DEF ServerAnswers, runnerVars, ServerType, Chunks, Items, FlushType, WorkerType
  <2>3. TypeInv'
    BY <1>7, <2>1, <2>2 DEF ServerAnswers, runnerVars, netVars, SysTypeInv, TypeInv, TypeOK, FlushInv
  <2>4. Polls(workers[w].chunk) \in Nat
    BY BooksNat DEF SysTypeInv
  <2>5. HandlingInv'
    BY <1>7 DEF ServerAnswers, Handles, SysTypeInv, HandlingInv, Steps, TypeInv, TypeOK
  <2> QED
    BY <1>7, <2>2, <2>3, <2>4, <2>5 DEF ServerAnswers, SysTypeInv
<1>8. CASE LeftoverSaves \/ ServerTick
  <2>1. HandlingInv'
    BY <1>8 DEF LeftoverSaves, ServerTick, SysTypeInv, HandlingInv, vars
  <2> QED
    BY <1>1, <1>8, <2>1 DEF LeftoverSaves, ServerTick, SysTypeInv
<1>9. CASE ServerCrash
  <2>1. ServerType' = ServerType /\ Chunks' = Chunks /\ FlushType' = FlushType
        /\ WorkerType' = WorkerType
    BY <1>9 DEF ServerCrash, runnerVars, ServerType, Chunks, Items, FlushType, WorkerType
  <2>2. TypeInv'
    BY <1>9, <2>1 DEF ServerCrash, runnerVars, SysTypeInv, TypeInv, TypeOK, FlushInv, WorkerInv
  <2>3. HandlingInv'
    BY <1>9 DEF ServerCrash, SysTypeInv, HandlingInv, Steps
  <2>4. lost' \in Int
    BY <1>9 DEF ServerCrash, SysTypeInv, TypeInv, TypeOK, ServerType
  <2> QED
    BY <1>9, <2>1, <2>2, <2>3, <2>4 DEF ServerCrash, SysTypeInv
<1>10. CASE ServerExit \/ ServerStart
  <2>1. HandlingInv'
    BY <1>10 DEF ServerExit, ServerStart, SysTypeInv, HandlingInv, Steps, vars
  <2> QED
    BY <1>1, <1>10, <2>1 DEF ServerExit, ServerStart, SysTypeInv
<1> QED
  BY <1>2, <1>3, <1>4, <1>5, <1>6, <1>7, <1>8, <1>9, <1>10 DEF SysNext

-----------------------------------------------------------------------------
(* What has been answered.  AnsweredSurvives is about answers that have    *)
(* been given; it is inductive together with the requests that the server  *)
(* has applied, or saved, and has not answered yet.                        *)

\* The polls of a request that the server has applied, and of one it has saved.
AppliedOf(w) == IF handling[w] \in {"applied", "saved"} THEN Polls(workers[w].chunk) ELSE 0
SavedOf(w)   == IF handling[w] = "saved" THEN Polls(workers[w].chunk) ELSE 0

ToAnswer   == SumOver(Workers, [w \in Workers |-> AppliedOf(w)])
SafeAnswer == SumOver(Workers, [w \in Workers |-> SavedOf(w)])

Forgiven == IF sync THEN 0 ELSE lost

\* Every poll that is or may yet be answered is on the server, but for those it
\* had not saved when it crashed; one whose request has been saved is on disk.
SurviveInv ==
  /\ answered + ToAnswer <= server.polls + Forgiven
  /\ sync => answered + SafeAnswer <= saved.polls

LEMMA HandledNat ==
  ASSUME SysTypeInv
  PROVE  /\ \A w \in Workers : AppliedOf(w) \in Nat /\ SavedOf(w) \in Nat /\ SavedOf(w) <= AppliedOf(w)
         /\ ToAnswer \in Nat /\ SafeAnswer \in Nat /\ SafeAnswer <= ToAnswer
         /\ server.polls \in Nat /\ saved.polls \in Nat /\ Forgiven \in Int /\ answered \in Nat
<1> DEFINE applied == [w \in Workers |-> AppliedOf(w)]
           safe    == [w \in Workers |-> SavedOf(w)]
<1>1. \A w \in Workers : AppliedOf(w) \in Nat /\ SavedOf(w) \in Nat /\ SavedOf(w) <= AppliedOf(w)
  BY BooksNat DEF SysTypeInv, AppliedOf, SavedOf
<1>2. /\ IsFiniteSet(Workers)
      /\ \A w \in Workers : safe[w] \in Nat /\ applied[w] \in Nat /\ safe[w] <= applied[w]
  BY <1>1, AgentAssumption
<1>3. ToAnswer = SumOver(Workers, applied) /\ SafeAnswer = SumOver(Workers, safe)
  BY DEF ToAnswer, SafeAnswer
<1> HIDE DEF applied, safe
<1>4. ToAnswer \in Nat /\ SafeAnswer \in Nat /\ SafeAnswer <= ToAnswer
  BY <1>2, <1>3, SumOverNat, SumOverMonotone
<1>5. server.polls \in Nat /\ saved.polls \in Nat /\ Forgiven \in Int /\ answered \in Nat
  BY DEF SysTypeInv, TypeInv, TypeOK, ServerType, Forgiven
<1> QED
  BY <1>1, <1>4, <1>5

\* A step that concerns the request of one worker.
LEMMA OneRequest ==
  ASSUME SysTypeInv, NEW w \in Workers, Polls(workers'[w].chunk) \in Nat,
         \A v \in Workers : v # w => handling'[v] = handling[v] /\ workers'[v] = workers[v]
  PROVE  /\ ToAnswer' = ToAnswer - AppliedOf(w) + AppliedOf(w)'
         /\ SafeAnswer' = SafeAnswer - SavedOf(w) + SavedOf(w)'
<1> DEFINE a  == [v \in Workers |-> AppliedOf(v)]
           a2 == [v \in Workers |-> AppliedOf(v)']
           s  == [v \in Workers |-> SavedOf(v)]
           s2 == [v \in Workers |-> SavedOf(v)']
<1>1. /\ IsFiniteSet(Workers)
      /\ \A v \in Workers : a[v] \in Nat /\ a2[v] \in Nat
      /\ \A v \in Workers : s[v] \in Nat /\ s2[v] \in Nat
  <2>1. \A v \in Workers : AppliedOf(v) \in Nat /\ SavedOf(v) \in Nat
    BY HandledNat
  <2>2. \A v \in Workers : AppliedOf(v)' \in Nat /\ SavedOf(v)' \in Nat
    BY <2>1 DEF AppliedOf, SavedOf
  <2> QED
    BY <2>1, <2>2, AgentAssumption
<1>2. /\ \A v \in Workers : v # w => a2[v] = a[v]
      /\ \A v \in Workers : v # w => s2[v] = s[v]
  BY DEF AppliedOf, SavedOf
<1>3. /\ a[w] = AppliedOf(w) /\ a2[w] = AppliedOf(w)'
      /\ s[w] = SavedOf(w) /\ s2[w] = SavedOf(w)'
  OBVIOUS
<1>4. /\ ToAnswer = SumOver(Workers, a) /\ ToAnswer' = SumOver(Workers, a2)
      /\ SafeAnswer = SumOver(Workers, s) /\ SafeAnswer' = SumOver(Workers, s2)
  BY DEF ToAnswer, SafeAnswer
<1> HIDE DEF a, a2, s, s2
<1>5. SumOver(Workers, a2) = SumOver(Workers, a) - a[w] + a2[w]
  BY <1>1, <1>2, SumOverReplace
<1>6. SumOver(Workers, s2) = SumOver(Workers, s) - s[w] + s2[w]
  BY <1>1, <1>2, SumOverReplace
<1> QED
  BY <1>3, <1>4, <1>5, <1>6

\* A step that concerns no request.
LEMMA NoRequest ==
  ASSUME HandlingInv, UNCHANGED handling,
         \A w \in Workers : workers[w].pc = "send" => workers'[w] = workers[w]
  PROVE  ToAnswer' = ToAnswer /\ SafeAnswer' = SafeAnswer
<1>1. \A w \in Workers : AppliedOf(w)' = AppliedOf(w) /\ SavedOf(w)' = SavedOf(w)
  BY DEF AppliedOf, SavedOf, HandlingInv
<1> QED
  BY <1>1 DEF ToAnswer, SafeAnswer

LEMMA NextSurvive == SysTypeInv /\ SurviveInv /\ [SysNext]_sysVars => SurviveInv'
<1> SUFFICES ASSUME SysTypeInv, SurviveInv, [SysNext]_sysVars PROVE SurviveInv'
  OBVIOUS
<1>N. /\ \A w \in Workers : AppliedOf(w) \in Nat /\ SavedOf(w) \in Nat /\ SavedOf(w) <= AppliedOf(w)
      /\ ToAnswer \in Nat /\ SafeAnswer \in Nat /\ SafeAnswer <= ToAnswer
      /\ server.polls \in Nat /\ saved.polls \in Nat /\ Forgiven \in Int /\ answered \in Nat
      /\ \A w \in Workers : Polls(workers[w].chunk) \in Nat
      /\ Polls(IdleWorker.chunk) = 0
  BY HandledNat, BooksNat, PollsEmpty DEF SysTypeInv, IdleWorker
<1>T. HandlingInv
  BY DEF SysTypeInv
<1>1. ASSUME UNCHANGED <<server, saved, handling, sync, answered, lost>>,
             \A w \in Workers : workers[w].pc = "send" => workers'[w] = workers[w]
      PROVE  SurviveInv'
  <2>1. ToAnswer' = ToAnswer /\ SafeAnswer' = SafeAnswer
    BY <1>1, <1>T, NoRequest
  <2> QED
    BY <1>1, <2>1 DEF SurviveInv, Forgiven
<1>2. CASE \/ \E l \in AgentLaunches : LaunchAgent(l)
           \/ NewSender \/ NewRunner \/ ServerStart \/ UNCHANGED sysVars
  <2>1. UNCHANGED <<server, saved, handling, sync, answered, lost, workers>>
    BY <1>2 DEF LaunchAgent, NewSender, NewRunner, ServerStart, sysVars, vars, netVars, serverVars
  <2> QED
    BY <1>1, <2>1
<1>3. CASE RunnerStep
  <2>1. UNCHANGED <<server, saved, handling, sync, answered, lost>>
    BY <1>3, RunnerLeaves DEF RunnerStep, serverVars, SysTypeInv
  <2> QED
    BY <1>1, <1>3, <2>1, RunnerLeaves DEF SysTypeInv
<1>4. ASSUME NEW w \in Workers, RequestFails(w) PROVE SurviveInv'
  <2>1. /\ UNCHANGED <<server, saved, sync, answered, lost>>
        /\ handling' = [handling EXCEPT ![w] = "none"]
        /\ \A v \in Workers : v # w => workers'[v] = workers[v]
        /\ workers'[w].chunk \in {workers[w].chunk, IdleWorker.chunk}
    BY <1>4 DEF RequestFails, Handles, SendRefused, SendFails, SendTimesOut, GiveUp, SysTypeInv,
                TypeInv, TypeOK, WorkerType
  <2>2. AppliedOf(w)' = 0 /\ SavedOf(w)' = 0
    BY <1>T, <2>1 DEF HandlingInv, AppliedOf, SavedOf
  <2>3. /\ ToAnswer' = ToAnswer - AppliedOf(w) + AppliedOf(w)'
        /\ SafeAnswer' = SafeAnswer - SavedOf(w) + SavedOf(w)'
    BY <1>N, <1>T, <2>1, OneRequest DEF HandlingInv
  <2> QED
    BY <1>N, <2>1, <2>2, <2>3 DEF SurviveInv, Forgiven
<1>5. ASSUME NEW w \in Workers, ServerApplies(w) PROVE SurviveInv'
  <2>1. /\ UNCHANGED <<workers, saved, sync, answered, lost>>
        /\ handling' = [handling EXCEPT ![w] = "applied"] /\ handling[w] = "none"
        /\ server' = Applied(server, workers[w].chunk)
    BY <1>5 DEF ServerApplies, Handles
  <2>2. server'.polls = server.polls + Polls(workers[w].chunk)
    BY <2>1 DEF Applied
  <2>3. /\ AppliedOf(w) = 0 /\ AppliedOf(w)' = Polls(workers[w].chunk)
        /\ SavedOf(w) = 0 /\ SavedOf(w)' = 0
    BY <1>T, <2>1 DEF HandlingInv, AppliedOf, SavedOf
  <2>4. /\ ToAnswer' = ToAnswer - AppliedOf(w) + AppliedOf(w)'
        /\ SafeAnswer' = SafeAnswer - SavedOf(w) + SavedOf(w)'
    BY <1>N, <1>T, <2>1, OneRequest DEF HandlingInv
  <2> QED
    BY <1>N, <2>1, <2>2, <2>3, <2>4 DEF SurviveInv, Forgiven
<1>6. ASSUME NEW w \in Workers, ServerSaves(w) PROVE SurviveInv'
  <2>1. /\ UNCHANGED <<workers, server, sync, answered, lost>> /\ sync
        /\ handling' = [handling EXCEPT ![w] = "saved"] /\ handling[w] = "applied"
        /\ saved' = server
    BY <1>6 DEF ServerSaves, Handles, vars, netVars
  <2>2. /\ AppliedOf(w)' = AppliedOf(w)
        /\ SavedOf(w) = 0 /\ SavedOf(w)' = AppliedOf(w)
    BY <1>T, <2>1 DEF HandlingInv, AppliedOf, SavedOf
  <2>3. /\ ToAnswer' = ToAnswer - AppliedOf(w) + AppliedOf(w)'
        /\ SafeAnswer' = SafeAnswer - SavedOf(w) + SavedOf(w)'
    BY <1>N, <1>T, <2>1, OneRequest DEF HandlingInv
  <2>4. SafeAnswer' <= ToAnswer'
    <3>1. \A v \in Workers : AppliedOf(v)' \in Nat /\ SavedOf(v)' \in Nat /\ SavedOf(v)' <= AppliedOf(v)'
      BY <1>N, <2>1 DEF AppliedOf, SavedOf
    <3> DEFINE a == [v \in Workers |-> AppliedOf(v)']
               s == [v \in Workers |-> SavedOf(v)']
    <3>2. /\ IsFiniteSet(Workers)
          /\ \A v \in Workers : s[v] \in Nat /\ a[v] \in Nat /\ s[v] <= a[v]
      BY <3>1, AgentAssumption
    <3>3. ToAnswer' = SumOver(Workers, a) /\ SafeAnswer' = SumOver(Workers, s)
      BY DEF ToAnswer, SafeAnswer
    <3> HIDE DEF a, s
    <3> QED
      BY <3>2, <3>3, SumOverMonotone
  <2> QED
    BY <1>N, <2>1, <2>2, <2>3, <2>4 DEF SurviveInv, Forgiven
<1>7. ASSUME NEW w \in Workers, ServerAnswers(w) PROVE SurviveInv'
  <2>1. /\ UNCHANGED <<server, saved, sync, lost>>
        /\ handling' = [handling EXCEPT ![w] = "none"]
        /\ handling[w] = IF sync THEN "saved" ELSE "applied"
        /\ workers' = [workers EXCEPT ![w] = IdleWorker]
        /\ answered' = answered + Polls(workers[w].chunk)
    BY <1>7 DEF ServerAnswers, Handles, ReadyToAnswer, netVars
  <2>2. workers'[w] = IdleWorker /\ \A v \in Workers : v # w => workers'[v] = workers[v]
    BY <2>1 DEF SysTypeInv, TypeInv, TypeOK
  <2>3. /\ AppliedOf(w) = Polls(workers[w].chunk) /\ AppliedOf(w)' = 0
        /\ sync => SavedOf(w) = Polls(workers[w].chunk)
        /\ SavedOf(w)' = 0
    BY <1>T, <2>1 DEF HandlingInv, AppliedOf, SavedOf
  <2>4. /\ ToAnswer' = ToAnswer - AppliedOf(w) + AppliedOf(w)'
        /\ SafeAnswer' = SafeAnswer - SavedOf(w) + SavedOf(w)'
    BY <1>N, <1>T, <2>1, <2>2, OneRequest DEF HandlingInv
  <2> QED
    BY <1>N, <2>1, <2>3, <2>4 DEF SurviveInv, Forgiven
<1>8. CASE LeftoverSaves \/ ServerTick \/ ServerExit
  <2>1. UNCHANGED <<workers, server, sync, handling, answered, lost>> /\ saved' = server
    BY <1>8 DEF LeftoverSaves, ServerTick, ServerExit, vars, netVars
  <2>2. ToAnswer' = ToAnswer /\ SafeAnswer' = SafeAnswer
    BY <1>T, <2>1, NoRequest
  <2> QED
    BY <1>N, <2>1, <2>2 DEF SurviveInv, Forgiven
<1>9. CASE ServerCrash
  <2>1. /\ UNCHANGED <<workers, saved, sync, answered>>
        /\ server' = saved /\ lost' = lost + server.polls - saved.polls
        /\ \A w \in Workers : handling'[w] \in {"none", "broken"}
    BY <1>9 DEF ServerCrash
  <2>2. \A w \in Workers : AppliedOf(w)' = 0 /\ SavedOf(w)' = 0
    BY <2>1 DEF AppliedOf, SavedOf
  <2>3. ToAnswer' = 0 /\ SafeAnswer' = 0
    <3> DEFINE a == [v \in Workers |-> AppliedOf(v)']
               s == [v \in Workers |-> SavedOf(v)']
    <3>1. IsFiniteSet(Workers) /\ (\A v \in Workers : a[v] = 0) /\ (\A v \in Workers : s[v] = 0)
      BY <2>2, AgentAssumption
    <3>2. ToAnswer' = SumOver(Workers, a) /\ SafeAnswer' = SumOver(Workers, s)
      BY DEF ToAnswer, SafeAnswer
    <3> HIDE DEF a, s
    <3> QED
      BY <3>1, <3>2, SumOverZero
  <2>4. lost \in Int
    BY DEF SysTypeInv
  <2> QED
    BY <1>N, <2>1, <2>3, <2>4 DEF SurviveInv, Forgiven
<1> QED
  BY <1>2, <1>3, <1>4, <1>5, <1>6, <1>7, <1>8, <1>9 DEF SysNext

LEMMA InitSurvive == SysInit => SurviveInv
<1> SUFFICES ASSUME SysInit PROVE SurviveInv
  OBVIOUS
<1> DEFINE a == [v \in Workers |-> AppliedOf(v)]
           s == [v \in Workers |-> SavedOf(v)]
<1>1. IsFiniteSet(Workers) /\ (\A v \in Workers : a[v] = 0) /\ (\A v \in Workers : s[v] = 0)
  BY AgentAssumption DEF SysInit, AppliedOf, SavedOf
<1>2. ToAnswer = SumOver(Workers, a) /\ SafeAnswer = SumOver(Workers, s)
  BY DEF ToAnswer, SafeAnswer
<1> HIDE DEF a, s
<1>3. ToAnswer = 0 /\ SafeAnswer = 0
  BY <1>1, <1>2, SumOverZero
<1>4. server.polls = 0 /\ saved.polls = 0 /\ answered = 0 /\ lost = 0
  BY DEF SysInit, Init
<1> QED
  BY <1>3, <1>4 DEF SurviveInv, Forgiven

\* What the agent was told is delivered is on the server: with synchronous
\* persistence always, and otherwise but for what the crashes have cost, whatever
\* fails, is repeated or is restarted, and however many workers there are whose
\* saves are one step (with one worker they are).
THEOREM AnsweredSurvivesHolds == SysSpec => []AnsweredSurvives
<1>1. SysTypeInv /\ SurviveInv => AnsweredSurvives
  <2> SUFFICES ASSUME SysTypeInv, SurviveInv PROVE AnsweredSurvives
    OBVIOUS
  <2>1. /\ ToAnswer \in Nat /\ server.polls \in Nat /\ Forgiven \in Int /\ answered \in Nat
        /\ answered + ToAnswer <= server.polls + Forgiven
    BY HandledNat DEF SurviveInv
  <2> QED
    BY <2>1 DEF AnsweredSurvives, Forgiven
<1> QED
  BY <1>1, InitSysType, NextSysType, InitSurvive, NextSurvive, PTL DEF SysSpec

-----------------------------------------------------------------------------
(* The settings of the agent.  The order of precedence is that of          *)
(* DeploymentProofs, here without STORE_FILE.                              *)

\* The strongest source that gives s, found by asking them in turn.
LEMMA AgentGiven ==
  ASSUME NEW l, NEW s \in DOMAIN AgentDefaults, NEW file, file = FromFile(File(l))
  PROVE  Given(AgentDefaults, l, s) =
           IF s \in DOMAIN l.env /\ l.env[s] # Blank THEN l.env[s]
           ELSE IF s \in DOMAIN l.flags THEN l.flags[s]
           ELSE IF s \in DOMAIN file THEN file[s]
           ELSE AgentDefaults[s]
<1> DEFINE S == Sources(AgentDefaults, l)
           giving == {i \in 1 .. 4 : s \in DOMAIN S[i] /\ (i = 4 => S[i][s] # Blank)}
           strongest == CHOOSE i \in giving : \A j \in giving : j <= i
<1>1. S[1] = AgentDefaults /\ S[2] = file /\ S[3] = l.flags /\ S[4] = l.env
  BY DEF Sources
<1>2. Given(AgentDefaults, l, s) = S[strongest][s]
  BY DEF Given
<1> HIDE DEF S
<1>3. /\ giving \subseteq 1 .. 4 /\ 1 \in giving
      /\ 2 \in giving <=> s \in DOMAIN file
      /\ 3 \in giving <=> s \in DOMAIN l.flags
      /\ 4 \in giving <=> s \in DOMAIN l.env /\ l.env[s] # Blank
  BY <1>1
<1> HIDE DEF giving
<1>4. \E i \in giving : \A j \in giving : j <= i
  <2>1. CASE 4 \in giving
    BY <1>3, <2>1
  <2>2. CASE 4 \notin giving /\ 3 \in giving
    BY <1>3, <2>2
  <2>3. CASE 4 \notin giving /\ 3 \notin giving /\ 2 \in giving
    BY <1>3, <2>3
  <2>4. CASE 4 \notin giving /\ 3 \notin giving /\ 2 \notin giving
    BY <1>3, <2>4
  <2> QED
    BY <2>1, <2>2, <2>3, <2>4
<1>5. strongest \in giving /\ \A j \in giving : j <= strongest
  BY <1>4
<1> HIDE DEF strongest
<1> QED
  BY <1>1, <1>2, <1>3, <1>5

\* Overlaying one source after the other comes to the same.
LEMMA AgentConfigGiven ==
  ASSUME NEW l, NEW s
  PROVE  /\ DOMAIN AgentConfig(l) = DOMAIN AgentDefaults
         /\ s \in DOMAIN AgentDefaults => AgentConfig(l)[s] = Given(AgentDefaults, l, s)
<1> DEFINE file == FromFile(File(l))
           one  == Overlay(AgentDefaults, file)
           two  == Overlay(one, l.flags)
           set  == NonBlank(l.env)
<1>1. DOMAIN AgentConfig(l) = DOMAIN AgentDefaults
  BY DEF AgentConfig, Merged, Overlay
<1>2. SUFFICES ASSUME s \in DOMAIN AgentDefaults
               PROVE  AgentConfig(l)[s] = Given(AgentDefaults, l, s)
  BY <1>1
<1>3. one[s] = (IF s \in DOMAIN file THEN file[s] ELSE AgentDefaults[s]) /\ s \in DOMAIN one
  BY <1>2 DEF Overlay
<1>4. two[s] = (IF s \in DOMAIN l.flags THEN l.flags[s] ELSE one[s]) /\ s \in DOMAIN two
  BY <1>3 DEF Overlay
<1>5. AgentConfig(l)[s] = IF s \in DOMAIN set THEN set[s] ELSE two[s]
  BY <1>4 DEF AgentConfig, Merged, Overlay
<1>6. /\ s \in DOMAIN set <=> s \in DOMAIN l.env /\ l.env[s] # Blank
      /\ s \in DOMAIN set => set[s] = l.env[s]
  BY DEF NonBlank
<1> QED
  BY <1>2, <1>3, <1>4, <1>5, <1>6, AgentGiven

\* What an agent that has just loaded its settings has loaded them from.
AgentLoadedInv == agent = "loaded" => agentCfg = AgentConfig(agentLaunch)

LEMMA NextAgentLoaded == AgentLoadedInv /\ [SysNext]_sysVars => AgentLoadedInv'
<1> SUFFICES ASSUME AgentLoadedInv, [SysNext]_sysVars PROVE AgentLoadedInv'
  OBVIOUS
<1>1. ASSUME NEW l \in AgentLaunches, LaunchAgent(l) PROVE AgentLoadedInv'
  BY <1>1 DEF LaunchAgent, AgentLoadedInv
<1>2. CASE NewSender \/ NewRunner
  BY <1>2 DEF NewSender, NewRunner, AgentLoadedInv
<1>3. CASE UNCHANGED startVars
  BY <1>3 DEF startVars, AgentLoadedInv
<1>4. CASE \/ RunnerStep \/ LeftoverSaves \/ ServerTick \/ ServerCrash \/ ServerExit \/ ServerStart
           \/ \E w \in Workers : \/ ServerApplies(w) \/ ServerSaves(w) \/ ServerAnswers(w)
                                 \/ RequestFails(w)
           \/ UNCHANGED sysVars
  <2>1. UNCHANGED startVars
    BY <1>4 DEF RunnerStep, LeftoverSaves, ServerTick, ServerCrash, ServerExit, ServerStart, ServerApplies,
                ServerSaves, ServerAnswers, RequestFails, startVars, sysVars
  <2> QED
    BY <1>3, <2>1
<1> QED
  BY <1>1, <1>2, <1>4 DEF SysNext

\* Every setting an agent starts with is what the strongest source that gives it
\* says, for any launch, with any text in any of the sources.
THEOREM AgentSettingsAsGivenHolds == SysSpec => []AgentSettingsAsGiven
<1>1. SysInit => AgentLoadedInv
  BY DEF SysInit, AgentLoadedInv
<1>2. AgentLoadedInv => AgentSettingsAsGiven
  BY AgentConfigGiven DEF AgentLoadedInv, AgentSettingsAsGiven
<1> QED
  BY <1>1, <1>2, NextAgentLoaded, PTL DEF SysSpec

-----------------------------------------------------------------------------
(* With one worker, samples arrive in the order they were taken.  Nobody   *)
(* compares them: the invariant says that what the worker holds, the queue *)
(* and what is left of the flush are one line of chunks, older samples     *)
(* first, behind what the server has and has saved.                        *)

\* The numbers of the runtime samples in a chunk.
Values(chunk) ==
  {chunk[k].val : k \in {j \in 1 .. Len(chunk) : chunk[j].id \in 1 .. RuntimeGauges}}

Before(c, d) == \A x \in Values(c), y \in Values(d) : x <= y

\* The line of chunks, from the worker to the flush.
LineLen == 1 + Len(jobs) + Len(flush.chunks)

InLine(w, a) == IF a = 1 THEN workers[w].chunk
                ELSE IF a <= 1 + Len(jobs) THEN jobs[a - 1]
                ELSE flush.chunks[a - 1 - Len(jobs)]

OrderInv(w) ==
  /\ \A a, b \in 1 .. LineLen : a <= b => Before(InLine(w, a), InLine(w, b))
  /\ \A a \in 1 .. LineLen : \A x \in Values(InLine(w, a)), i \in 1 .. RuntimeGauges :
       server.gauges[i] <= x /\ saved.gauges[i] <= x

\* No sample is ahead of the gauges.
LEMMA LineValues ==
  ASSUME SysTypeInv, NEW w \in Workers
  PROVE  /\ \A a \in 1 .. LineLen : Values(InLine(w, a)) \subseteq 0 .. gauges
         /\ \A i \in 1 .. RuntimeGauges : /\ server.gauges[i] \in 0 .. gauges
                                          /\ saved.gauges[i] \in 0 .. gauges
         /\ Len(jobs) \in Nat /\ Len(flush.chunks) \in Nat /\ gauges \in Nat
<1>1. /\ jobs \in Seq(Chunks) /\ flush.chunks \in Seq(Chunks) /\ workers[w].chunk \in Chunks
      /\ server \in ServerType /\ saved \in ServerType /\ gauges \in Nat
  BY DEF SysTypeInv, TypeInv, TypeOK, FlushType, WorkerType
<1>2. Len(jobs) \in Nat /\ Len(flush.chunks) \in Nat
  BY <1>1
<1>3. ASSUME NEW a \in 1 .. LineLen
      PROVE  InLine(w, a) \in Chunks
  <2>1. CASE a = 1
    BY <1>1, <2>1 DEF InLine
  <2>2. CASE a # 1 /\ a <= 1 + Len(jobs)
    <3>1. a - 1 \in 1 .. Len(jobs)
      BY <1>2, <2>2 DEF LineLen
    <3>2. jobs[a - 1] \in Chunks
      BY <1>1, <3>1
    <3> QED
      BY <2>2, <3>2 DEF InLine
  <2>3. CASE a > 1 + Len(jobs)
    <3>1. a - 1 - Len(jobs) \in 1 .. Len(flush.chunks) /\ a # 1
      <4>1. PICK m \in Nat, n \in Nat : m = Len(jobs) /\ n = Len(flush.chunks)
        BY <1>2
      <4>2. a \in 1 .. 1 + m + n /\ a > 1 + m
        BY <2>3, <4>1 DEF LineLen
      <4>3. a - 1 - m \in 1 .. n /\ a # 1
        BY <4>2
      <4> QED
        BY <4>1, <4>3
    <3>2. flush.chunks[a - 1 - Len(jobs)] \in Chunks
      BY <1>1, <3>1
    <3> QED
      BY <1>2, <2>3, <3>1, <3>2 DEF InLine
  <2> QED
    BY <1>2, <2>1, <2>2, <2>3 DEF LineLen
<1>4. ASSUME NEW chunk \in Chunks
      PROVE  Values(chunk) \subseteq 0 .. gauges
  <2>1. \A k \in 1 .. Len(chunk) : chunk[k] \in Items
    BY DEF Chunks
  <2> QED
    BY <2>1 DEF Values, Items, PollCount, SystemItem
<1> QED
  BY <1>1, <1>2, <1>3, <1>4 DEF ServerType

\* The line moves up, shrinks, or loses samples from a place in it.
LEMMA LineMoves ==
  ASSUME NEW w \in Workers, OrderInv(w), NEW d \in Nat,
         \A a \in 1 .. LineLen' : \/ Values(InLine(w, a)') = {}
                                  \/ a + d \in 1 .. LineLen /\ InLine(w, a)' = InLine(w, a + d),
         server' \in {server, saved}, saved' \in {server, saved},
         LineLen' \in Nat
  PROVE  OrderInv(w)'
<1>1. ASSUME NEW a \in 1 .. LineLen', NEW b \in 1 .. LineLen', a <= b,
             NEW x \in Values(InLine(w, a)'), NEW y \in Values(InLine(w, b)')
      PROVE  x <= y
  <2>1. /\ a + d \in 1 .. LineLen /\ InLine(w, a)' = InLine(w, a + d)
        /\ b + d \in 1 .. LineLen /\ InLine(w, b)' = InLine(w, b + d)
    BY <1>1
  <2>2. a + d <= b + d
    BY <1>1
  <2>3. Before(InLine(w, a + d), InLine(w, b + d))
    BY <2>1, <2>2 DEF OrderInv
  <2> QED
    BY <1>1, <2>1, <2>3 DEF Before
<1>2. ASSUME NEW a \in 1 .. LineLen', NEW x \in Values(InLine(w, a)'), NEW i \in 1 .. RuntimeGauges
      PROVE  server'.gauges[i] <= x /\ saved'.gauges[i] <= x
  <2>1. a + d \in 1 .. LineLen /\ InLine(w, a)' = InLine(w, a + d)
    BY <1>2
  <2>2. server.gauges[i] <= x /\ saved.gauges[i] <= x
    BY <1>2, <2>1 DEF OrderInv
  <2> QED
    BY <2>2
<1> QED
  BY <1>1, <1>2 DEF OrderInv, Before

\* Nothing in the line moves.
LEMMA LineStays ==
  ASSUME SysTypeInv, NEW w \in Workers, OrderInv(w), UNCHANGED jobs,
         flush'.chunks = flush.chunks, workers'[w].chunk \in {workers[w].chunk, <<>>},
         server' \in {server, saved}, saved' \in {server, saved}
  PROVE  OrderInv(w)'
<1>1. LineLen' = LineLen /\ LineLen \in Nat
  <2>1. PICK m \in Nat, n \in Nat : m = Len(jobs) /\ n = Len(flush.chunks)
    BY LineValues
  <2>2. LineLen = 1 + m + n
    BY <2>1 DEF LineLen
  <2>3. LineLen' = LineLen
    BY DEF LineLen
  <2> QED
    BY <2>2, <2>3
<1>2. Values(<<>>) = {}
  BY DEF Values
<1>3. \A a \in 1 .. LineLen' : \/ Values(InLine(w, a)') = {}
                               \/ a + 0 \in 1 .. LineLen /\ InLine(w, a)' = InLine(w, a + 0)
  BY <1>1, <1>2 DEF InLine
<1> QED
  BY <1>1, <1>3, LineMoves

\* The head of the line goes to the worker.
LEMMA LineReceives ==
  ASSUME SysTypeInv, NEW w \in Workers, OrderInv(w), Receive(w), UNCHANGED saved
  PROVE  OrderInv(w)'
<1>1. /\ jobs \in Seq(Chunks) /\ jobs # <<>> /\ jobs' = Tail(jobs)
      /\ workers'[w].chunk = Head(jobs) /\ UNCHANGED <<flush, server>>
  BY DEF Receive, runnerVars, netVars, SysTypeInv, TypeInv, TypeOK
<1>2. PICK m \in Nat, n \in Nat : m = Len(jobs) /\ n = Len(flush.chunks)
  BY LineValues
<1>3. /\ m > 0 /\ Len(jobs') = m - 1 /\ workers'[w].chunk = jobs[1]
      /\ \A k \in 1 .. m - 1 : jobs'[k] = jobs[k + 1]
  BY <1>1, <1>2
<1>4. LineLen = 1 + m + n /\ LineLen' = m + n /\ LineLen' \in Nat
  BY <1>1, <1>2, <1>3 DEF LineLen
<1>5. ASSUME NEW a \in 1 .. LineLen'
      PROVE  a + 1 \in 1 .. LineLen /\ InLine(w, a)' = InLine(w, a + 1)
  <2>1. a + 1 \in 1 .. LineLen
    BY <1>4
  <2>2. CASE a = 1
    <3>1. a + 1 # 1 /\ a + 1 <= 1 + m /\ a + 1 - 1 = 1
      BY <1>3, <2>2
    <3>2. InLine(w, a)' = workers'[w].chunk /\ InLine(w, a + 1) = jobs[1]
      BY <1>2, <2>2, <3>1 DEF InLine
    <3> QED
      BY <1>3, <2>1, <3>2
  <2>3. CASE a # 1 /\ a <= m
    <3>1. a - 1 \in 1 .. m - 1 /\ (a - 1) + 1 = a /\ a + 1 - 1 = a /\ a + 1 # 1
          /\ a <= 1 + (m - 1) /\ a + 1 <= 1 + m
      BY <1>4, <2>3
    <3>2. InLine(w, a)' = jobs'[a - 1] /\ InLine(w, a + 1) = jobs[a]
      BY <1>2, <1>3, <2>3, <3>1 DEF InLine
    <3> QED
      BY <1>3, <2>1, <3>1, <3>2
  <2>4. CASE a > m
    <3>1. a # 1 /\ a + 1 # 1 /\ ~(a <= 1 + (m - 1)) /\ ~(a + 1 <= 1 + m)
          /\ a - 1 - (m - 1) = a + 1 - 1 - m
      BY <1>3, <1>4, <2>4
    <3>2. InLine(w, a)' = flush.chunks[a - 1 - (m - 1)] /\ InLine(w, a + 1) = flush.chunks[a + 1 - 1 - m]
      BY <1>1, <1>2, <1>3, <3>1 DEF InLine
    <3> QED
      BY <2>1, <3>1, <3>2
  <2> QED
    BY <1>4, <2>1, <2>2, <2>3, <2>4
<1> QED
  BY <1>1, <1>4, <1>5, LineMoves

\* A chunk that is submitted keeps its place.
LEMMA LineSubmits ==
  ASSUME SysTypeInv, NEW w \in Workers, OrderInv(w), SubmitSends, UNCHANGED saved
  PROVE  OrderInv(w)'
<1>1. /\ flush.chunks \in Seq(Chunks) /\ flush.chunks # <<>> /\ jobs \in Seq(Chunks)
      /\ flush'.chunks = Tail(flush.chunks) /\ jobs' = Append(jobs, Head(flush.chunks))
      /\ UNCHANGED <<workers, server>>
  BY DEF SubmitSends, netVars, SysTypeInv, TypeInv, TypeOK, FlushType, FlushInv
<1>2. PICK m \in Nat, n \in Nat : m = Len(jobs) /\ n = Len(flush.chunks)
  BY LineValues
<1>3. /\ n > 0 /\ Len(flush'.chunks) = n - 1
      /\ \A k \in 1 .. n - 1 : flush'.chunks[k] = flush.chunks[k + 1]
  BY <1>1, <1>2
<1>4. /\ Len(jobs') = m + 1 /\ jobs'[m + 1] = flush.chunks[1]
      /\ \A k \in 1 .. m : jobs'[k] = jobs[k]
  BY <1>1, <1>2
<1>5. LineLen = 1 + m + n /\ LineLen' = 1 + m + n /\ LineLen' \in Nat
  <2>1. LineLen' = 1 + (m + 1) + (n - 1) /\ LineLen = 1 + m + n
    BY <1>2, <1>3, <1>4 DEF LineLen
  <2> QED
    BY <2>1
<1>6. ASSUME NEW a \in 1 .. LineLen'
      PROVE  a + 0 \in 1 .. LineLen /\ InLine(w, a)' = InLine(w, a + 0)
  <2>1. a + 0 = a /\ a \in 1 .. LineLen
    BY <1>5
  <2>2. CASE a = 1
    BY <1>1, <2>1, <2>2 DEF InLine
  <2>3. CASE a # 1 /\ a <= 1 + m
    <3>1. a - 1 \in 1 .. m /\ a <= 1 + (m + 1)
      BY <1>5, <2>3
    <3>2. InLine(w, a)' = jobs'[a - 1] /\ InLine(w, a) = jobs[a - 1]
      BY <1>2, <1>4, <2>3, <3>1 DEF InLine
    <3> QED
      BY <1>4, <2>1, <3>1, <3>2
  <2>4. CASE a = 2 + m
    <3>1. a # 1 /\ a <= 1 + (m + 1) /\ ~(a <= 1 + m) /\ a - 1 = m + 1 /\ a - 1 - m = 1
      BY <2>4
    <3>2. InLine(w, a)' = jobs'[m + 1] /\ InLine(w, a) = flush.chunks[1]
      BY <1>2, <1>4, <3>1 DEF InLine
    <3> QED
      BY <1>4, <2>1, <3>2
  <2>5. CASE a > 2 + m
    <3>1. /\ a # 1 /\ ~(a <= 1 + (m + 1)) /\ ~(a <= 1 + m)
          /\ a - 1 - (m + 1) \in 1 .. n - 1 /\ (a - 1 - (m + 1)) + 1 = a - 1 - m
      BY <1>3, <1>5, <2>5
    <3>2. InLine(w, a)' = flush'.chunks[a - 1 - (m + 1)] /\ InLine(w, a) = flush.chunks[a - 1 - m]
      BY <1>2, <1>4, <3>1 DEF InLine
    <3> QED
      BY <1>3, <2>1, <3>1, <3>2
  <2> QED
    BY <1>5, <2>2, <2>3, <2>4, <2>5
<1> QED
  BY <1>1, <1>5, <1>6, LineMoves

\* What a flush leaves behind is forgotten.
LEMMA LineShrinks ==
  ASSUME SysTypeInv, NEW w \in Workers, OrderInv(w), flush'.chunks = <<>>,
         UNCHANGED <<jobs, workers, server, saved>>
  PROVE  OrderInv(w)'
<1>1. PICK m \in Nat, n \in Nat : m = Len(jobs) /\ n = Len(flush.chunks)
  BY LineValues
<1>2. LineLen = 1 + m + n /\ LineLen' = 1 + m /\ LineLen' \in Nat
  <2>1. Len(flush'.chunks) = 0
    OBVIOUS
  <2> QED
    BY <1>1, <2>1 DEF LineLen
<1>3. ASSUME NEW a \in 1 .. LineLen'
      PROVE  a + 0 \in 1 .. LineLen /\ InLine(w, a)' = InLine(w, a + 0)
  <2>1. a + 0 = a /\ a \in 1 .. LineLen /\ a <= 1 + m
    BY <1>2
  <2> QED
    BY <1>1, <2>1 DEF InLine
<1> QED
  BY <1>2, <1>3, LineMoves

\* Every runtime sample of a new batch is the last one, whatever it is cut into.
LEMMA BatchValues ==
  ASSUME TypeOK
  PROVE  \A c \in 1 .. Len(ChunkBatch(BuildBatch, RateLimit)) :
           Values(ChunkBatch(BuildBatch, RateLimit)[c]) \subseteq {gauges}
<1> DEFINE S       == {x \in Items : x.id \in 1 .. RuntimeGauges => x.val = gauges}
           runtime == [i \in 1 .. RuntimeGauges |-> Item(i, gauges)]
           count   == <<Item(PollCount, pollCount)>>
           n       == SystemGauges + (IF system THEN CpuGauges ELSE 0)
           others  == [i \in 1 .. n |-> Item(SystemItem, 0)]
           cut     == ChunkBatch(BuildBatch, RateLimit)
<1>1. n \in Nat /\ RuntimeGauges \in Nat \ {0} /\ gauges \in Nat /\ pollCount \in Nat
  BY AgentAssumption DEF TypeOK
<1>2. /\ \A i \in 1 .. RuntimeGauges : Item(i, gauges) \in S
      /\ Item(PollCount, pollCount) \in S /\ Item(SystemItem, 0) \in S
  BY <1>1 DEF Items, Item, PollCount, SystemItem
<1>3. S \subseteq AnyItem
  BY AgentAssumption DEF Items, AnyItem, PollCount, SystemItem
<1> HIDE DEF n, S
<1>4. runtime \in Seq(S) /\ count \in Seq(S) /\ others \in Seq(S)
  BY <1>1, <1>2
<1>5. BuildBatch = (runtime \o count) \o others
  BY DEF BuildBatch, n
<1> HIDE DEF runtime, count, others
<1>6. BuildBatch \in Seq(S)
  BY <1>4, <1>5
<1>7. RateLimit \in Nat \ {0}
  BY AgentAssumption, FS_CardinalityType, FS_EmptySet DEF RateLimit
<1>8. cut \in Seq(Seq(S))
  BY <1>3, <1>6, <1>7, BatchPolls, ChunkBatchPolls
<1> HIDE DEF cut
<1>9. ASSUME NEW c \in 1 .. Len(cut) PROVE Values(cut[c]) \subseteq {gauges}
  <2>1. cut[c] \in Seq(S)
    BY <1>8
  <2>2. \A k \in 1 .. Len(cut[c]) : cut[c][k] \in S
    BY <2>1
  <2> QED
    BY <2>2 DEF Values, S
<1> QED
  BY <1>9 DEF cut

\* A new batch joins the line at its end.
LEMMA LineGrows ==
  ASSUME SysTypeInv, NEW w \in Workers, OrderInv(w), flush.chunks = <<>>, TakeBatch,
         UNCHANGED <<gauges, jobs, workers, server, saved>>
  PROVE  OrderInv(w)'
<1> DEFINE cut == ChunkBatch(BuildBatch, RateLimit)
<1>1. TypeOK /\ flush'.chunks = cut
  BY DEF TakeBatch, SysTypeInv, TypeInv
<1>2. /\ \A c \in 1 .. Len(cut) : Values(cut[c]) \subseteq {gauges}
      /\ Len(cut) \in Nat
  <2>1. \A c \in 1 .. Len(cut) : Values(cut[c]) \subseteq {gauges}
    BY <1>1, BatchValues, Zenon
  <2>2. cut \in Seq(Chunks)
    BY <1>1, CutBatch
  <2> HIDE DEF cut
  <2>3. Len(cut) \in Nat
    BY <2>2
  <2> QED
    BY <2>1, <2>3
<1> HIDE DEF cut
<1>3. PICK m \in Nat, n \in Nat : m = Len(jobs) /\ n = Len(cut)
  BY <1>2, LineValues
<1>4. LineLen = 1 + m /\ LineLen' = 1 + m + n
  <2>1. Len(flush.chunks) = 0
    OBVIOUS
  <2> QED
    BY <1>1, <1>3, <2>1 DEF LineLen
<1>5. ASSUME NEW a \in 1 .. LineLen, a \in 1 .. LineLen'
      PROVE  InLine(w, a)' = InLine(w, a)
  <2>1. a <= 1 + m
    BY <1>4
  <2> QED
    BY <1>3, <2>1 DEF InLine
<1>6. ASSUME NEW a \in 1 .. LineLen', a \notin 1 .. LineLen
      PROVE  Values(InLine(w, a)') \subseteq {gauges}
  <2>1. a # 1 /\ ~(a <= 1 + m) /\ a - 1 - m \in 1 .. n
    BY <1>4, <1>6
  <2>2. InLine(w, a)' = cut[a - 1 - m]
    BY <1>1, <1>3, <2>1 DEF InLine
  <2> QED
    BY <1>2, <1>3, <2>1, <2>2
<1>7. /\ \A a \in 1 .. LineLen : Values(InLine(w, a)) \subseteq 0 .. gauges
      /\ \A i \in 1 .. RuntimeGauges : /\ server.gauges[i] \in 0 .. gauges
                                       /\ saved.gauges[i] \in 0 .. gauges
      /\ gauges \in Nat
  BY LineValues
<1>8. ASSUME NEW a \in 1 .. LineLen', NEW b \in 1 .. LineLen', a <= b,
             NEW x \in Values(InLine(w, a)'), NEW y \in Values(InLine(w, b)')
      PROVE  x <= y
  <2>1. CASE b \in 1 .. LineLen
    <3>1. a \in 1 .. LineLen
      BY <1>4, <1>8, <2>1
    <3>2. x \in Values(InLine(w, a)) /\ y \in Values(InLine(w, b))
      BY <1>5, <1>8, <2>1, <3>1
    <3> QED
      BY <1>8, <2>1, <3>1, <3>2 DEF OrderInv, Before
  <2>2. CASE b \notin 1 .. LineLen /\ a \in 1 .. LineLen
    <3>1. y = gauges /\ x \in 0 .. gauges
      BY <1>5, <1>6, <1>7, <1>8, <2>2
    <3> QED
      BY <1>7, <3>1
  <2>3. CASE b \notin 1 .. LineLen /\ a \notin 1 .. LineLen
    BY <1>6, <1>7, <1>8, <2>3
  <2> QED
    BY <2>1, <2>2, <2>3
<1>9. ASSUME NEW a \in 1 .. LineLen', NEW x \in Values(InLine(w, a)'), NEW i \in 1 .. RuntimeGauges
      PROVE  server'.gauges[i] <= x /\ saved'.gauges[i] <= x
  <2>1. CASE a \in 1 .. LineLen
    BY <1>5, <1>9, <2>1 DEF OrderInv
  <2>2. CASE a \notin 1 .. LineLen
    <3>1. x = gauges
      BY <1>6, <1>9, <2>2
    <3>2. server.gauges[i] \in 0 .. gauges /\ saved.gauges[i] \in 0 .. gauges
      BY <1>7
    <3> QED
      BY <1>7, <3>1, <3>2
  <2> QED
    BY <2>1, <2>2
<1> QED
  BY <1>8, <1>9 DEF OrderInv, Before

\* The order of the shutdown is that of AgentRunner.
LEMMA NextSysShutdown ==
  SysTypeInv /\ ShutdownInv /\ [SysNext]_sysVars => ShutdownInv'
<1> SUFFICES ASSUME SysTypeInv, ShutdownInv, [SysNext]_sysVars PROVE ShutdownInv'
  OBVIOUS
<1>1. CASE RunnerStep \/ UNCHANGED vars \/ \E w \in Workers : RequestFails(w)
  <2>1. [Next]_vars
    BY <1>1, RunnerStepIsNext DEF RequestFails, Next, Send
  <2> QED
    BY <2>1, NextShutdown DEF SysTypeInv
<1>2. CASE ServerCrash \/ \E w \in Workers : ServerApplies(w)
  <2>1. UNCHANGED <<runnerVars, jobs, closed, workers>>
    BY <1>2 DEF ServerCrash, ServerApplies
  <2> QED
    BY <2>1 DEF ShutdownInv, runnerVars, LoopsDone, WorkersDone
<1>3. ASSUME NEW w \in Workers, ServerAnswers(w) PROVE ShutdownInv'
  <2>1. /\ workers[w].pc # "exited" /\ workers' = [workers EXCEPT ![w] = IdleWorker]
        /\ IdleWorker.pc # "exited" /\ UNCHANGED <<jobs, closed, runnerVars>>
    BY <1>3 DEF ServerAnswers, IdleWorker
  <2> QED
    BY <2>1, WorkerKeeps DEF SysTypeInv
<1>4. CASE \/ \E l \in AgentLaunches : LaunchAgent(l)
           \/ NewSender \/ NewRunner \/ LeftoverSaves \/ ServerTick \/ ServerExit \/ ServerStart
           \/ \E w \in Workers : ServerSaves(w)
           \/ UNCHANGED sysVars
  BY <1>1, <1>4 DEF LaunchAgent, NewSender, NewRunner, ServerTick, ServerExit, ServerStart,
                    LeftoverSaves, ServerSaves, sysVars
<1> QED
  BY <1>1, <1>2, <1>3, <1>4 DEF SysNext

\* What the server applies is at the head of the line: it has no sample that is
\* newer than one further back, and none that is older than what was there.
LEMMA AppliedInOrder ==
  ASSUME SysTypeInv, NEW w \in Workers, OrderInv(w), ServerApplies(w),
         NEW i \in 1 .. RuntimeGauges
  PROVE  /\ server.gauges[i] <= server'.gauges[i]
         /\ server'.gauges[i] \in {server.gauges[i]} \cup Values(InLine(w, 1))
<1> DEFINE chunk == workers[w].chunk
           at    == {k \in 1 .. Len(chunk) : chunk[k].id = i}
<1>1. server' = Applied(server, chunk) /\ InLine(w, 1) = chunk
  BY DEF ServerApplies, InLine
<1> HIDE DEF chunk
<1>2. 1 \in 1 .. LineLen
  <2>1. PICK m \in Nat, n \in Nat : m = Len(jobs) /\ n = Len(flush.chunks)
    BY LineValues
  <2>2. LineLen = 1 + m + n
    BY <2>1 DEF LineLen
  <2> QED
    BY <2>2
<1>3. \A x \in Values(chunk) : server.gauges[i] <= x
  BY <1>1, <1>2 DEF OrderInv
<1>4. server.gauges[i] \in 0 .. gauges /\ gauges \in Nat
  BY LineValues
<1>5. CASE \E k \in 1 .. Len(chunk) : chunk[k].id = i
  <2>1. PICK k \in 1 .. Len(chunk) : chunk[k].id = i /\ server'.gauges[i] = chunk[k].val
    BY <1>1, <1>5 DEF Applied
  <2>2. chunk[k].val \in Values(chunk)
    BY <2>1 DEF Values
  <2> QED
    BY <1>1, <1>3, <2>1, <2>2
<1>6. CASE ~ \E k \in 1 .. Len(chunk) : chunk[k].id = i
  <2>1. server'.gauges[i] = server.gauges[i]
    BY <1>1, <1>6 DEF Applied
  <2> QED
    BY <1>4, <2>1
<1> QED
  BY <1>5, <1>6

LEMMA LineApplied ==
  ASSUME SysTypeInv, NEW w \in Workers, OrderInv(w), ServerApplies(w)
  PROVE  OrderInv(w)'
<1>1. UNCHANGED <<jobs, flush, workers, saved>>
  BY DEF ServerApplies, runnerVars
<1>2. LineLen' = LineLen /\ \A a \in 1 .. LineLen : InLine(w, a)' = InLine(w, a)
  BY <1>1 DEF LineLen, InLine
<1>3. LineLen \in Nat \ {0}
  <2>1. PICK m \in Nat, n \in Nat : m = Len(jobs) /\ n = Len(flush.chunks)
    BY LineValues
  <2>2. LineLen = 1 + m + n
    BY <2>1 DEF LineLen
  <2> QED
    BY <2>2
<1>4. ASSUME NEW a \in 1 .. LineLen, NEW x \in Values(InLine(w, a)),
             NEW i \in 1 .. RuntimeGauges
      PROVE  server'.gauges[i] <= x /\ saved'.gauges[i] <= x
  <2>1. server.gauges[i] <= x /\ saved.gauges[i] <= x
    BY DEF OrderInv
  <2>2. 1 \in 1 .. LineLen /\ 1 <= a
    BY <1>3
  <2>3. Before(InLine(w, 1), InLine(w, a))
    BY <2>2 DEF OrderInv
  <2>4. \A y \in Values(InLine(w, 1)) : y <= x
    BY <2>3 DEF Before
  <2> QED
    BY <1>1, <2>1, <2>4, AppliedInOrder
<1> QED
  BY <1>2, <1>4 DEF OrderInv

LEMMA NextOrder ==
  ASSUME NEW w \in Workers, Workers = {w}
  PROVE  SysTypeInv /\ ShutdownInv /\ OrderInv(w) /\ [SysNext]_sysVars => OrderInv(w)'
<1> SUFFICES ASSUME SysTypeInv, ShutdownInv, OrderInv(w), [SysNext]_sysVars
             PROVE  OrderInv(w)'
  OBVIOUS
<1>1. CASE RunnerStep
  <2>1. UNCHANGED saved
    BY <1>1 DEF RunnerStep, serverVars
  <2>2. CASE \/ Cancel \/ PollRuntime \/ PollSystem \/ PoolStop \/ PoolStopped
             \/ \E l \in DOMAIN loops : LoopStops(l)
    <3>1. UNCHANGED <<jobs, flush, workers, server>>
      BY <2>2 DEF Cancel, PollRuntime, PollSystem, PoolStop, PoolStopped, LoopStops, runnerVars,
                  netVars
    <3> QED
      BY <2>1, <3>1, LineStays
  <2>3. CASE FlushExpires \/ SubmitChecks
    <3>1. UNCHANGED <<jobs, workers, server>> /\ flush'.chunks = flush.chunks
      BY <2>3 DEF FlushExpires, SubmitChecks, netVars, SysTypeInv, TypeInv, TypeOK, FlushType
    <3> QED
      BY <2>1, <3>1, LineStays
  <2>4. CASE FlushDone \/ SubmitFails
    <3>1. UNCHANGED <<jobs, workers, server>> /\ flush'.chunks = <<>>
      BY <2>4 DEF FlushDone, SubmitFails, FlushReturns, NoFlush, netVars
    <3> QED
      BY <2>1, <3>1, LineShrinks
  <2>5. CASE ReportTick \/ FinalFlush
    <3>1. UNCHANGED <<gauges, jobs, workers, server>> /\ TakeBatch
      BY <2>5 DEF ReportTick, FinalFlush, netVars
    <3>2. ~flush.active
      BY <2>5 DEF ReportTick, FinalFlush, ShutdownInv, LoopsDone, SysTypeInv, TypeInv, TypeOK
    <3>3. flush.chunks = <<>>
      BY <3>2 DEF SysTypeInv, TypeInv, FlushInv, NoFlush
    <3> QED
      BY <2>1, <3>1, <3>3, LineGrows
  <2>6. CASE SubmitSends
    BY <2>1, <2>6, LineSubmits
  <2>7. ASSUME NEW v \in Workers, Receive(v)
        PROVE  OrderInv(w)'
    BY <2>1, <2>7, LineReceives
  <2>8. ASSUME NEW v \in Workers, WorkerExits(v) \/ Retry(v)
        PROVE  OrderInv(w)'
    <3>1. UNCHANGED <<jobs, flush, server>> /\ workers'[w].chunk = workers[w].chunk
      BY <2>8 DEF WorkerExits, Retry, runnerVars, netVars, SysTypeInv, TypeInv, TypeOK, WorkerType
    <3> QED
      BY <2>1, <3>1, LineStays
  <2> QED
    BY <1>1, <2>2, <2>3, <2>4, <2>5, <2>6, <2>7, <2>8 DEF RunnerStep
<1>2. ASSUME NEW v \in Workers, ServerApplies(v)
      PROVE  OrderInv(w)'
  BY <1>2, LineApplied
<1>3. ASSUME NEW v \in Workers, ServerAnswers(v) \/ RequestFails(v)
      PROVE  OrderInv(w)'
  <2>1. /\ UNCHANGED <<jobs, flush, server, saved>>
        /\ workers'[w].chunk \in {workers[w].chunk, <<>>}
    BY <1>3 DEF ServerAnswers, RequestFails, SendRefused, SendFails, SendTimesOut, GiveUp,
                IdleWorker, runnerVars, netVars, SysTypeInv, TypeInv, TypeOK, WorkerType
  <2> QED
    BY <2>1, LineStays
<1>4. CASE \/ \E l \in AgentLaunches : LaunchAgent(l)
           \/ NewSender \/ NewRunner
           \/ \E v \in Workers : ServerSaves(v)
           \/ LeftoverSaves \/ ServerTick \/ ServerExit \/ ServerStart
           \/ UNCHANGED sysVars
  <2>1. UNCHANGED <<jobs, flush, workers, server>> /\ saved' \in {server, saved}
    BY <1>4 DEF LaunchAgent, NewSender, NewRunner, ServerSaves, LeftoverSaves, ServerTick, ServerExit,
                ServerStart, sysVars, serverVars, vars, runnerVars, netVars
  <2> QED
    BY <2>1, LineStays
<1>5. CASE ServerCrash
  <2>1. UNCHANGED <<jobs, flush, workers, saved>> /\ server' = saved
    BY <1>5 DEF ServerCrash, runnerVars
  <2> QED
    BY <2>1, LineStays
<1> QED
  BY <1>1, <1>2, <1>3, <1>4, <1>5 DEF SysNext

LEMMA InitOrder ==
  ASSUME NEW w \in Workers
  PROVE  SysInit => OrderInv(w)
<1> SUFFICES ASSUME SysInit PROVE OrderInv(w)
  OBVIOUS
<1>1. jobs = <<>> /\ flush.chunks = <<>> /\ workers[w].chunk = <<>>
  BY DEF SysInit, Init, NoFlush, IdleWorker
<1>2. Len(jobs) = 0 /\ Len(flush.chunks) = 0 /\ Values(<<>>) = {}
  BY <1>1 DEF Values
<1>3. LineLen = 1
  BY <1>2 DEF LineLen
<1>4. \A a \in 1 .. LineLen : Values(InLine(w, a)) = {}
  BY <1>1, <1>2, <1>3 DEF InLine
<1> QED
  BY <1>4 DEF OrderInv, Before

LEMMA StepInOrder ==
  ASSUME NEW w \in Workers, Workers = {w},
         SysTypeInv, OrderInv(w), [SysNext]_sysVars, up, up'
  PROVE  \A i \in 1 .. RuntimeGauges : server.gauges[i] <= server'.gauges[i]
<1>1. CASE \E v \in Workers : ServerApplies(v)
  BY <1>1, AppliedInOrder
<1>2. CASE UNCHANGED server
  BY <1>2, LineValues
<1>3. CASE RunnerStep
  BY <1>2, <1>3, RunnerLeaves DEF SysTypeInv
<1>4. CASE \/ \E l \in AgentLaunches : LaunchAgent(l)
           \/ NewSender \/ NewRunner
           \/ \E v \in Workers : ServerSaves(v) \/ ServerAnswers(v) \/ RequestFails(v)
           \/ LeftoverSaves \/ ServerTick \/ ServerExit \/ ServerStart
           \/ UNCHANGED sysVars
  <2>1. UNCHANGED server
    BY <1>4 DEF LaunchAgent, NewSender, NewRunner, ServerSaves, ServerAnswers, RequestFails,
                SendRefused, SendFails, SendTimesOut, LeftoverSaves, ServerTick, ServerExit, ServerStart,
                sysVars, vars, netVars
  <2> QED
    BY <1>2, <2>1
<1>5. CASE ServerCrash
  BY <1>5 DEF ServerCrash
<1> QED
  BY <1>1, <1>3, <1>4, <1>5 DEF SysNext

\* With one worker an older sample never replaces a newer one on the server, for
\* any number of polls and reports, any size of the batches, and however often
\* requests fail, are repeated, or the server crashes and comes back with what it
\* had saved.
THEOREM SamplesInOrderHolds ==
  ASSUME NEW w \in Workers, Workers = {w}
  PROVE  SysSpec => SamplesInOrder
<1>1. SysInit => SysTypeInv /\ ShutdownInv /\ OrderInv(w)
  BY InitSysType, InitShutdown, InitOrder DEF SysInit
<1>2. /\ SysTypeInv /\ ShutdownInv /\ OrderInv(w) /\ [SysNext]_sysVars
      => (SysTypeInv /\ ShutdownInv /\ OrderInv(w))'
  BY NextSysType, NextSysShutdown, NextOrder
<1>3. SysTypeInv /\ OrderInv(w) /\ [SysNext]_sysVars =>
        [up /\ up' => \A i \in 1 .. RuntimeGauges : server.gauges[i] <= server'.gauges[i]]_sysVars
  BY StepInOrder
<1> QED
  BY <1>1, <1>2, <1>3, PTL DEF SysSpec, SamplesInOrder
=============================================================================

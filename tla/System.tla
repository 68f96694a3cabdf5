------------------------------- MODULE System -------------------------------
(***************************************************************************)
(* The agent of AgentRunner, from its command line on, against a server    *)
(* that applies a batch, may have to save it, and answers in steps of its  *)
(* own, that may crash in between, exit, and come back with what it had    *)
(* saved (-r).  Over a crash "server" is what the next process will start  *)
(* from.  How the server saves is SnapshotServer; here a save is one step, *)
(* which is right while one save is in progress at a time: rateLimit = 1,  *)
(* and no request is applied before the save of an earlier one, whose      *)
(* client has left, is over.                                               *)
(*                                                                         *)
(* A request whose client has left is not applied any more: late delivery  *)
(* is the subject of AgentRunner.                                          *)
(***************************************************************************)
EXTENDS AgentRunner, Config

CONSTANTS
  AgentLaunches,  \* what an agent may find when it starts: see Config
  NoLaunch

VARIABLES
  agent,        \* where the run() of the agent is
  agentLaunch,  \* what it found, and
  agentCfg,     \* its settings, until Runner has them
  sync,         \* whether the server saves after every update
  up,           \* whether there is a server
  saved,        \* what it has saved
  handling,     \* how far it is with the request of each worker
  leftover,     \* whether a handler has still to save what its client gave up
  answered,     \* history: polls the agent takes for delivered
  lost          \* history: polls the server has forgotten in crashes

startVars  == <<agent, agentLaunch, agentCfg>>
serverVars == <<sync, up, saved, handling, leftover, answered, lost>>
sysVars    == <<vars, startVars, serverVars>>

\* There are as many workers as the settings say.
ASSUME AgentLaunchAssumption ==
  \A l \in AgentLaunches : ~LoadFails(l) /\ AgentConfig(l).rateLimit >= 1
                             => AgentConfig(l).rateLimit = RateLimit

ASSUME NoLateDelivery == ~LateDelivery

SysInit ==
  /\ Init
  /\ agent = "off" /\ agentLaunch = NoLaunch /\ agentCfg = AgentDefaults
  /\ sync \in BOOLEAN
  /\ up = TRUE /\ saved = server
  /\ handling = [w \in Workers |-> "none"] /\ leftover = FALSE
  /\ answered = 0 /\ lost = 0

-----------------------------------------------------------------------------
(* cmd/agent: run() up to Runner.Run *)

LaunchAgent(l) ==
  /\ agent = "off"
  /\ IF LoadFails(l)
     THEN agent' = "refused" /\ UNCHANGED <<agentLaunch, agentCfg>>
     ELSE agent' = "loaded" /\ agentLaunch' = l /\ agentCfg' = AgentConfig(l)
  /\ UNCHANGED <<vars, serverVars>>

\* The transport of the settings: only the files it needs are read.
SenderFile == IF agentCfg.grpc # Blank THEN agentCfg.cert ELSE agentCfg.cryptoKey

NewSender ==
  /\ agent = "loaded"
  /\ \/ agent' = "sender" /\ UNCHANGED agentCfg
     \/ SenderFile # Blank /\ agent' = "refused" /\ agentCfg' = AgentDefaults
  /\ agentLaunch' = NoLaunch
  /\ UNCHANGED <<vars, serverVars>>

\* NewRunner and NewWorkerPool: no ticker and no pool without a positive number.
SettingsRefused ==
  agentCfg.pollInterval <= 0 \/ agentCfg.reportInterval <= 0 \/ agentCfg.rateLimit < 1

NewRunner ==
  /\ agent = "sender"
  /\ agent' = IF SettingsRefused THEN "refused" ELSE "running"
  /\ agentCfg' = AgentDefaults
  /\ UNCHANGED <<vars, agentLaunch, serverVars>>

\* What Runner and WorkerPool do by themselves.
RunnerStep ==
  /\ agent = "running"
  /\ \/ Cancel
     \/ PollRuntime \/ PollSystem
     \/ \E l \in DOMAIN loops : LoopStops(l)
     \/ ReportTick \/ FinalFlush
     \/ FlushExpires \/ SubmitChecks \/ SubmitSends \/ SubmitFails \/ FlushDone
     \/ PoolStop \/ PoolStopped
     \/ \E w \in Workers : Receive(w) \/ WorkerExits(w) \/ Retry(w)
  /\ UNCHANGED <<startVars, serverVars>>

-----------------------------------------------------------------------------
(* A request, and the server *)

Handles(w, step) == handling' = [handling EXCEPT ![w] = step]

ServerApplies(w) ==
  /\ up /\ ~leftover
  /\ workers[w].pc = "send" /\ handling[w] = "none"
  /\ server' = Applied(server, workers[w].chunk)
  /\ Handles(w, "applied")
  /\ UNCHANGED <<cancelled, runnerVars, jobs, closed, workers, limbo, dropped, repeated,
                 startVars, sync, up, saved, leftover, answered, lost>>

\* SyncSaveRepo, before the handler goes on.
ServerSaves(w) ==
  /\ sync
  /\ handling[w] = "applied"
  /\ saved' = server
  /\ Handles(w, "saved")
  /\ UNCHANGED <<vars, startVars, sync, up, leftover, answered, lost>>

\* The handler of a request that was given up goes on without its client.
LeftoverSaves ==
  /\ leftover
  /\ saved' = server
  /\ leftover' = FALSE
  /\ UNCHANGED <<vars, startVars, sync, up, handling, answered, lost>>

\* Mutant of ReadyToAnswer: the answer does not wait for the save.
ReadyOnceApplied(w) == handling[w] \in {"applied", "saved"}

ReadyToAnswer(w) == handling[w] = IF sync THEN "saved" ELSE "applied"

ServerAnswers(w) ==
  /\ up
  /\ workers[w].pc = "send"
  /\ ReadyToAnswer(w)
  /\ workers' = [workers EXCEPT ![w] = IdleWorker]
  /\ answered' = answered + Polls(workers[w].chunk)
  /\ Handles(w, "none")
  /\ UNCHANGED <<cancelled, runnerVars, jobs, closed, netVars, startVars, sync, up, saved,
                 leftover, lost>>

\* Refused, failed or timed out; what has been applied stays applied, and is saved
\* if that is how the server works.
RequestFails(w) ==
  /\ \/ SendRefused(w) /\ up /\ handling[w] = "none"
     \/ SendFails(w)
     \/ SendTimesOut(w)
  /\ Handles(w, "none")
  /\ leftover' = (leftover \/ (sync /\ handling[w] = "applied"))
  /\ UNCHANGED <<startVars, sync, up, saved, answered, lost>>

\* RunPeriodicSave.
ServerTick ==
  /\ up /\ ~sync
  /\ saved' = server
  /\ UNCHANGED <<vars, startVars, sync, up, handling, leftover, answered, lost>>

\* The connections of the requests in progress break.
ServerCrash ==
  /\ up
  /\ up' = FALSE
  /\ server' = saved
  /\ lost' = lost + server.polls - saved.polls
  /\ handling' = [w \in Workers |-> IF workers[w].pc = "send" THEN "broken" ELSE "none"]
  /\ leftover' = FALSE
  /\ UNCHANGED <<cancelled, runnerVars, jobs, closed, workers, limbo, dropped, repeated,
                 startVars, sync, saved, answered>>

\* Shutdown waits for the handlers, and run() saves once more.
ServerExit ==
  /\ up
  /\ ~leftover /\ \A w \in Workers : handling[w] \in {"none", "broken"}
  /\ up' = FALSE
  /\ saved' = server
  /\ UNCHANGED <<vars, startVars, sync, handling, leftover, answered, lost>>

ServerStart ==
  /\ ~up
  /\ up' = TRUE
  /\ UNCHANGED <<vars, startVars, sync, saved, handling, leftover, answered, lost>>

-----------------------------------------------------------------------------
SysNext ==
  \/ \E l \in AgentLaunches : LaunchAgent(l)
  \/ NewSender \/ NewRunner
  \/ RunnerStep
  \/ \E w \in Workers : \/ ServerApplies(w) \/ ServerSaves(w) \/ ServerAnswers(w)
                        \/ RequestFails(w)
  \/ LeftoverSaves \/ ServerTick \/ ServerCrash \/ ServerExit \/ ServerStart

SysSpec == SysInit /\ [][SysNext]_sysVars

Agent(step) == agent = "running" /\ step /\ UNCHANGED <<startVars, serverVars>>

\* Goroutines run, tickers tick, requests and the pauses between them end, and a
\* select that finds its context cancelled again and again does not ignore it for
\* ever.  Nothing obliges a signal to come.  Nothing is asked of the server, which
\* may be down for ever or never answer: requests have timeouts.
SysFairness ==
  /\ WF_sysVars(Agent(PollRuntime)) /\ WF_sysVars(Agent(PollSystem))
  /\ WF_sysVars(Agent(ReportTick))
  /\ \A l \in {"runtime", "system", "report"} : SF_sysVars(Agent(LoopStops(l)))
  /\ WF_sysVars(Agent(FinalFlush \/ PoolStop \/ PoolStopped))
  /\ WF_sysVars(Agent(SubmitChecks \/ SubmitSends \/ SubmitFails \/ FlushDone))
  /\ \A w \in Workers : /\ WF_sysVars(Agent(Receive(w) \/ WorkerExits(w) \/ Retry(w)))
                        /\ WF_sysVars(ServerAnswers(w) \/ RequestFails(w))

FairSystem == SysSpec /\ SysFairness

-----------------------------------------------------------------------------
(* Properties *)

\* What the server has answered it keeps.  With synchronous persistence no crash
\* between applying, saving and answering makes it forget a poll the agent takes
\* for delivered; with periodic persistence only a crash does, and no more than
\* it had not saved: an orderly exit forgets nothing.
AnsweredSurvives == answered <= server.polls + (IF sync THEN 0 ELSE lost)

\* With one worker an older sample never replaces a newer one on the server,
\* however often requests are repeated and the server restarts: a restart alone
\* may bring older samples back, and the agent only sends newer ones.
SamplesInOrder ==
  [][up /\ up' => \A i \in 1 .. RuntimeGauges : server.gauges[i] <= server'.gauges[i]]_sysVars

\* A cancelled agent stops, even when the server is down and stays down: requests
\* in progress, their retries and the batches in the queue all end.
AgentStops == cancelled ~> main = "stopped"

\* "defaults < JSON < flags < environment", for the agent.
AgentSettingsAsGiven ==
  agent = "loaded" =>
    \A s \in DOMAIN agentCfg : agentCfg[s] = Given(AgentDefaults, agentLaunch, s)
=============================================================================

---------------------------- MODULE AgentRunner ----------------------------
(***************************************************************************)
(* The agent: Runner polls the runtime and the system, the report loop     *)
(* cuts what was collected into chunks and submits them to WorkerPool, the *)
(* workers send them with retries, and on shutdown Run flushes once more   *)
(* and stops the pool.  The server is seen only through the metrics it has *)
(* applied: gauges are replaced, PollCount is added to.                    *)
(*                                                                         *)
(* Data.  The n-th runtime sample is represented by n, whatever the gauge. *)
(* A system gauge has no value: what matters is that such items follow     *)
(* PollCount in the batch.                                                 *)
(***************************************************************************)
EXTENDS Sums

CONSTANTS
  Workers,        \* the goroutines of the pool; rateLimit is their number
  RuntimeGauges,  \* how many gauges Collect yields (28 in the code)
  SystemGauges,   \* how many follow PollCount before the first system poll
  CpuGauges,      \* how many more come with it, one per core
  MaxAttempts,    \* attempts of one SendBatch: 4 over HTTP, 1 over gRPC
  NetFaults,      \* whether a request may fail, be refused or time out
  LateDelivery,   \* whether a request that failed may still reach the server
  FlushTimeouts,  \* whether the context of flush may expire
  MaxPolls,       \* bound: ticks of the runtime poller
  MaxReports,     \* bound: ticks of the report loop
  MaxLimbo        \* bound: failed requests still on their way

ASSUME AgentAssumption ==
  /\ IsFiniteSet(Workers) /\ Workers # {}
  /\ RuntimeGauges \in Nat \ {0} /\ SystemGauges \in Nat /\ CpuGauges \in Nat
  /\ MaxAttempts \in Nat \ {0}
  /\ {NetFaults, LateDelivery, FlushTimeouts} \subseteq BOOLEAN
  /\ {MaxPolls, MaxReports, MaxLimbo} \subseteq Nat

RateLimit == Cardinality(Workers)

VARIABLES
  cancelled,  \* the context of Run
  loops,      \* pollRuntime, pollSystem, report: where each of them is
  main,       \* where Run is
  gauges,     \* Runner.gauges: the number of the last runtime sample
  pollCount,  \* Runner.counters.PollCount
  system,     \* Runner.system: whether it has ever been read
  reports,    \* ticks of the report loop so far
  flush,      \* the flush in progress, by report or by Run
  jobs,       \* WorkerPool.jobs
  closed,     \* ... and whether it is closed
  workers,    \* what each worker is doing
  limbo,      \* failed requests that the server may still receive
  server,     \* gauges and PollCount of the agent, as the server has them
  dropped,    \* history: polls in the batches the workers have given up on
  repeated    \* history: polls that are in two of these places

runnerVars == <<loops, main, gauges, pollCount, system, reports, flush>>
netVars    == <<limbo, server, dropped, repeated>>
vars == <<cancelled, runnerVars, jobs, closed, workers, netVars>>

NoFlush    == [active |-> FALSE, chunks |-> <<>>, polls |-> 0,
               expired |-> FALSE, checked |-> FALSE]
IdleWorker == [pc |-> "idle", chunk |-> <<>>, attempt |-> 0]

-----------------------------------------------------------------------------
(* Batches *)

\* The runtime gauges are numbered from 1.
Item(id, val) == [id |-> id, val |-> val]
PollCount  == 0
SystemItem == -1

\* takeBatch: the runtime gauges, PollCount, then the system gauges.
BuildBatch ==
  [i \in 1 .. RuntimeGauges |-> Item(i, gauges)]
    \o <<Item(PollCount, pollCount)>>
    \o [i \in 1 .. SystemGauges + (IF system THEN CpuGauges ELSE 0)
          |-> Item(SystemItem, 0)]

\* At most "parts" chunks of equal size; the last one takes the rest.
ChunkBatch(batch, parts) ==
  LET size  == (Len(batch) + parts - 1) \div parts
      count == (Len(batch) + size - 1) \div size
  IN  [c \in 1 .. count |->
         SubSeq(batch, (c - 1) * size + 1,
                IF c * size < Len(batch) THEN c * size ELSE Len(batch))]

\* The polls a chunk carries, and those of a sequence of chunks.
Counted(item) == IF item.id = PollCount THEN item.val ELSE 0
Polls(chunk)  == SumTo([i \in 1 .. Len(chunk) |-> Counted(chunk[i])], Len(chunk))
PollsOf(chunks) == SumTo([c \in 1 .. Len(chunks) |-> Polls(chunks[c])], Len(chunks))

\* The server applies a chunk: POST /updates/ and SaveBatch.
Applied(srv, chunk) ==
  [polls  |-> srv.polls + Polls(chunk),
   gauges |-> [i \in 1 .. RuntimeGauges |->
                 IF \E k \in 1 .. Len(chunk) : chunk[k].id = i
                 THEN chunk[CHOOSE k \in 1 .. Len(chunk) : chunk[k].id = i].val
                 ELSE srv.gauges[i]]]

-----------------------------------------------------------------------------
Init ==
  /\ cancelled = FALSE
  /\ loops = [runtime |-> "first", system |-> "first", report |-> "loop"]
  /\ main = "waiting"
  /\ gauges = 0 /\ pollCount = 0 /\ system = FALSE /\ reports = 0
  /\ flush = NoFlush
  /\ jobs = <<>> /\ closed = FALSE
  /\ workers = [w \in Workers |-> IdleWorker]
  /\ limbo = <<>>
  /\ server = [polls |-> 0, gauges |-> [i \in 1 .. RuntimeGauges |-> 0]]
  /\ dropped = 0 /\ repeated = 0

\* SIGINT or SIGTERM.
Cancel ==
  /\ ~cancelled
  /\ cancelled' = TRUE
  /\ UNCHANGED <<runnerVars, jobs, closed, workers, netVars>>

-----------------------------------------------------------------------------
(* The pollers: one poll at once, whatever the context, then one per tick *)

PollRuntime ==
  /\ \/ loops.runtime = "first"
     \/ loops.runtime = "loop" /\ gauges < MaxPolls
  /\ loops' = [loops EXCEPT !.runtime = "loop"]
  /\ gauges' = gauges + 1
  /\ pollCount' = pollCount + 1
  /\ UNCHANGED <<cancelled, main, system, reports, flush, jobs, closed, workers, netVars>>

\* An error of gopsutil leaves the previous values in place.
PollSystem ==
  /\ loops.system \in {"first", "loop"}
  /\ loops' = [loops EXCEPT !.system = "loop"]
  /\ system' \in {system, TRUE}
  /\ UNCHANGED <<cancelled, main, gauges, pollCount, reports, flush, jobs, closed, workers,
                 netVars>>

\* Mutant of SeesCancel: the report loop does not watch the context.
ReportIgnoresCancel(l) == cancelled /\ l # "report"

SeesCancel(l) == cancelled

LoopStops(l) ==
  /\ SeesCancel(l)
  /\ loops[l] = "loop"
  /\ loops' = [loops EXCEPT ![l] = "done"]
  /\ UNCHANGED <<cancelled, main, gauges, pollCount, system, reports, flush, jobs, closed,
                 workers, netVars>>

-----------------------------------------------------------------------------
(* flush: submitCurrentMetrics under a context of 15 seconds *)

\* Mutant of TakeBatch: PollCount is read and not zeroed.
ReadBatch ==
  /\ flush' = [active |-> TRUE, chunks |-> ChunkBatch(BuildBatch, RateLimit),
               polls |-> pollCount, expired |-> FALSE, checked |-> FALSE]
  /\ UNCHANGED pollCount

\* takeBatch zeroes PollCount under the mutex of the runner.
TakeBatch ==
  /\ flush' = [active |-> TRUE, chunks |-> ChunkBatch(BuildBatch, RateLimit),
               polls |-> pollCount, expired |-> FALSE, checked |-> FALSE]
  /\ pollCount' = 0

ReportTick ==
  /\ loops.report = "loop"
  /\ reports < MaxReports
  /\ loops' = [loops EXCEPT !.report = "flush"]
  /\ reports' = reports + 1
  /\ TakeBatch
  /\ UNCHANGED <<cancelled, main, gauges, system, jobs, closed, workers, netVars>>

\* Mutant of LoopsDone: Run does not wait for the report loop.
PollersDone == loops.runtime = "done" /\ loops.system = "done"

\* wg.Wait() of Run has returned.
LoopsDone == \A l \in DOMAIN loops : loops[l] = "done"

FinalFlush ==
  /\ main = "waiting"
  /\ LoopsDone
  /\ main' = "flush"
  /\ TakeBatch
  /\ UNCHANGED <<cancelled, loops, gauges, system, reports, jobs, closed, workers, netVars>>

FlushExpires ==
  /\ FlushTimeouts
  /\ flush.active /\ ~flush.expired
  /\ flush' = [flush EXCEPT !.expired = TRUE]
  /\ UNCHANGED <<cancelled, loops, main, gauges, pollCount, system, reports, jobs, closed,
                 workers, netVars>>

\* flush returns to the loop that called it.
FlushReturns ==
  /\ flush' = NoFlush
  /\ IF main = "flush"
     THEN main' = "stop" /\ UNCHANGED loops
     ELSE loops' = [loops EXCEPT !.report = "loop"] /\ UNCHANGED main

\* The first select of Submit.
SubmitChecks ==
  /\ flush.active /\ flush.chunks # <<>> /\ ~flush.checked /\ ~flush.expired
  /\ flush' = [flush EXCEPT !.checked = TRUE]
  /\ UNCHANGED <<cancelled, loops, main, gauges, pollCount, system, reports, jobs, closed,
                 workers, netVars>>

\* The second one.  The context may have expired since the first.
SubmitSends ==
  /\ flush.active /\ flush.checked
  /\ Len(jobs) < RateLimit
  /\ jobs' = Append(jobs, Head(flush.chunks))
  /\ flush' = [flush EXCEPT !.chunks = Tail(@), !.checked = FALSE]
  /\ UNCHANGED <<cancelled, loops, main, gauges, pollCount, system, reports, closed, workers,
                 netVars>>

\* addPollCount gives the polls of the whole batch back.
Returned == flush.polls

\* Either select sees the expired context: the chunks that are left are
\* forgotten, but PollCount may be in one that has been submitted.
SubmitFails ==
  /\ flush.active /\ flush.chunks # <<>> /\ flush.expired
  /\ pollCount' = pollCount + Returned
  /\ repeated' = repeated + flush.polls - PollsOf(flush.chunks)
  /\ FlushReturns
  /\ UNCHANGED <<cancelled, gauges, system, reports, jobs, closed, workers, limbo, server, dropped>>

FlushDone ==
  /\ flush.active /\ flush.chunks = <<>>
  /\ FlushReturns
  /\ UNCHANGED <<cancelled, gauges, pollCount, system, reports, jobs, closed, workers,
                 netVars>>

-----------------------------------------------------------------------------
(* WorkerPool *)

\* Stop closes the queue ...
PoolStop ==
  /\ main = "stop"
  /\ closed' = TRUE
  /\ main' = "join"
  /\ UNCHANGED <<cancelled, loops, gauges, pollCount, system, reports, flush, jobs, workers,
                 netVars>>

\* Mutant of WorkersDone: Stop does not wait for the workers.
WorkersNotAwaited == TRUE

WorkersDone == \A w \in Workers : workers[w].pc = "exited"

\* ... and waits for the workers.
PoolStopped ==
  /\ main = "join"
  /\ WorkersDone
  /\ main' = "stopped"
  /\ UNCHANGED <<cancelled, loops, gauges, pollCount, system, reports, flush, jobs, closed,
                 workers, netVars>>

Receive(w) ==
  /\ workers[w].pc = "idle"
  /\ jobs # <<>>
  /\ jobs' = Tail(jobs)
  /\ workers' = [workers EXCEPT ![w] = [pc |-> "send", chunk |-> Head(jobs), attempt |-> 1]]
  /\ UNCHANGED <<cancelled, runnerVars, closed, netVars>>

\* Mutant of QueueOver: a worker leaves as soon as the queue is closed.
QueueClosed == closed

\* range over a closed channel ends when the channel is empty.
QueueOver == closed /\ jobs = <<>>

WorkerExits(w) ==
  /\ workers[w].pc = "idle"
  /\ QueueOver
  /\ workers' = [workers EXCEPT ![w].pc = "exited"]
  /\ UNCHANGED <<cancelled, runnerVars, jobs, closed, netVars>>

-----------------------------------------------------------------------------
(* SendBatch: an HTTP request with retries, or one gRPC call *)

SendSucceeds(w) ==
  /\ workers[w].pc = "send"
  /\ server' = Applied(server, workers[w].chunk)
  /\ workers' = [workers EXCEPT ![w] = IdleWorker]
  /\ UNCHANGED <<cancelled, runnerVars, jobs, closed, limbo, dropped, repeated>>

\* The worker logs the error and goes on with the next batch.
GiveUp(w) ==
  /\ workers' = [workers EXCEPT ![w] = IdleWorker]
  /\ dropped' = dropped + Polls(workers[w].chunk)

\* The request may be on its way although the client has given it up.
MayArriveLate(chunk) ==
  \/ UNCHANGED limbo
  \/ LateDelivery /\ Len(limbo) < MaxLimbo /\ limbo' = Append(limbo, chunk)

\* An answer other than 2xx is not retried.
SendRefused(w) ==
  /\ NetFaults
  /\ workers[w].pc = "send"
  /\ GiveUp(w)
  /\ UNCHANGED <<cancelled, runnerVars, jobs, closed, limbo, server, repeated>>

\* Mutant of TriesLeft: one attempt too many.
OneTryMore(w) == workers[w].attempt <= MaxAttempts

TriesLeft(w) == workers[w].attempt < MaxAttempts

SendFails(w) ==
  /\ NetFaults
  /\ workers[w].pc = "send"
  /\ IF TriesLeft(w)
     THEN /\ workers' = [workers EXCEPT ![w].pc = "backoff"]
          /\ UNCHANGED dropped
     ELSE GiveUp(w)
  /\ MayArriveLate(workers[w].chunk)
  /\ UNCHANGED <<cancelled, runnerVars, jobs, closed, server, repeated>>

\* Mutant of Retry: the batch goes back to the end of the queue.
RetryLater(w) ==
  /\ workers[w].pc = "backoff"
  /\ jobs' = Append(jobs, workers[w].chunk)
  /\ workers' = [workers EXCEPT ![w] = IdleWorker]
  /\ UNCHANGED <<cancelled, runnerVars, closed, netVars>>

Retry(w) ==
  /\ workers[w].pc = "backoff"
  /\ workers' = [workers EXCEPT ![w].pc = "send", ![w].attempt = @ + 1]
  /\ UNCHANGED <<cancelled, runnerVars, jobs, closed, netVars>>

\* The 15 seconds of the worker are over, during a request or between two.
SendTimesOut(w) ==
  /\ NetFaults
  /\ workers[w].pc \in {"send", "backoff"}
  /\ GiveUp(w)
  /\ IF workers[w].pc = "send" THEN MayArriveLate(workers[w].chunk) ELSE UNCHANGED limbo
  /\ UNCHANGED <<cancelled, runnerVars, jobs, closed, server, repeated>>

ArrivesLate ==
  /\ \E k \in 1 .. Len(limbo) : /\ server' = Applied(server, limbo[k])
                                /\ limbo' = RemoveAt(limbo, k)
                                /\ repeated' = repeated + Polls(limbo[k])
  /\ UNCHANGED <<cancelled, runnerVars, jobs, closed, workers, dropped>>

Send(w) ==
  SendSucceeds(w) \/ SendRefused(w) \/ SendFails(w) \/ Retry(w) \/ SendTimesOut(w)

-----------------------------------------------------------------------------
Terminated == main = "stopped" /\ limbo = <<>> /\ UNCHANGED vars

Next ==
  \/ Cancel
  \/ PollRuntime \/ PollSystem
  \/ \E l \in DOMAIN loops : LoopStops(l)
  \/ ReportTick \/ FinalFlush
  \/ FlushExpires \/ SubmitChecks \/ SubmitSends \/ SubmitFails \/ FlushDone
  \/ PoolStop \/ PoolStopped
  \/ \E w \in Workers : Receive(w) \/ WorkerExits(w) \/ Send(w)
  \/ ArrivesLate
  \/ Terminated

Spec == Init /\ [][Next]_vars

-----------------------------------------------------------------------------
(* Properties *)

\* No gauge is ahead of the samples.
Items  == [id : {PollCount, SystemItem}, val : Nat]
            \cup [id : 1 .. RuntimeGauges, val : 0 .. gauges]
Chunks == Seq(Items)

FlushType  == [active : BOOLEAN, chunks : Seq(Chunks), polls : Nat,
               expired : BOOLEAN, checked : BOOLEAN]
WorkerType == [pc : {"idle", "send", "backoff", "exited"}, chunk : Chunks,
               attempt : 0 .. MaxAttempts]
ServerType == [polls : Nat, gauges : [1 .. RuntimeGauges -> 0 .. gauges]]

TypeOK ==
  /\ cancelled \in BOOLEAN /\ closed \in BOOLEAN /\ system \in BOOLEAN
  /\ loops \in [{"runtime", "system", "report"} -> {"first", "loop", "flush", "done"}]
  /\ main \in {"waiting", "flush", "stop", "join", "stopped"}
  /\ gauges \in Nat /\ pollCount \in Nat /\ dropped \in Nat /\ repeated \in Nat
  /\ reports \in 0 .. MaxReports
  /\ flush \in FlushType
  /\ jobs \in Seq(Chunks) /\ Len(jobs) <= RateLimit
  /\ workers \in [Workers -> WorkerType]
  /\ limbo \in Seq(Chunks) /\ Len(limbo) <= MaxLimbo
  /\ server \in ServerType

\* Where the polls are: not yet reported, about to be submitted, in the queue,
\* in the hands of a worker, on the server, or given up (and logged).
InHand  == SumOver(Workers, [w \in Workers |-> Polls(workers[w].chunk)])
Pending == pollCount + PollsOf(flush.chunks) + PollsOf(jobs) + InHand

Accounted == Pending + server.polls + dropped

\* Every poll of the runtime is in exactly one of those places, except for two
\* ways of counting it twice: an interrupted flush gives back polls it has
\* already submitted, and a request that was given up arrives.  takeBatch and
\* the pollers share PollCount, the batch is cut up and crosses the queue to the
\* workers, and nothing is lost or invented on the way.
EveryPollCounted == gauges + repeated = Accounted

\* "PollCount grows with every poll": the server never counts more of them
\* than there were.
ServerNeverOvercounts == server.polls <= gauges

\* Seen from outside, the agent reports each poll until it is delivered or given
\* up.
Report == INSTANCE AgentReport
            WITH pending   <- Pending,
                 delivered <- server.polls,
                 givenUp   <- dropped,
                 doubtful  <- PollsOf(limbo),
                 handed    <- flush.polls - PollsOf(flush.chunks),
                 stopped   <- main = "stopped"

\* The three loops, the queue and the workers implement that report: every step
\* of theirs polls, hands over, delivers, fails, arrives late or gives back, and
\* nothing but a late request reaches the server once Run has returned.
ImplementsReport == Report!Spec

\* When Run returns, every poll is on the server, was given up by a worker that
\* logged it, or was given back by a final flush that was interrupted: the final
\* flush comes after the loops have stopped, and Stop waits until the workers
\* have dealt with all that is queued.
ShutdownDeliversEverything ==
  main = "stopped" => server.polls + dropped + pollCount = gauges + repeated

\* Nobody submits to a closed queue, which would panic: Stop comes after the
\* report loop has returned from its flush and Run from its own.
NoSubmitAfterClose == closed => ~flush.active
=============================================================================

--------------------------- MODULE SnapshotServer ---------------------------
(***************************************************************************)
(* The server process without a database: MemStorage, the snapshot file,   *)
(* the handlers that write through SyncSaveRepo, the periodic saver and    *)
(* the start and stop sequence of cmd/server/main.go.                      *)
(*                                                                         *)
(* Data.  What a counter map holds is determined by the set of write       *)
(* requests whose deltas it has absorbed (additions commute), and how new  *)
(* a gauge map is by the set of requests that have written to it.  A map   *)
(* is represented by that set.  Of the gauge values themselves only one    *)
(* fact matters here: whether encoding/json can encode them (NaN and the   *)
(* infinities are accepted by POST /update/gauge/... and by gRPC, and      *)
(* cannot be encoded); "nan" is the set of names that hold such a value.   *)
(* A missing snapshot file is the empty one: Load returns empty maps.      *)
(*                                                                         *)
(* A crash is the death of the process; the files outlive it.              *)
(***************************************************************************)
EXTENDS Integers, FiniteSets

CONSTANTS
  Requests,       \* write requests a client may send, each sent once
  GrpcRequests,   \* those that come over gRPC; the others come over HTTP
  CounterWrites,  \* the requests that add to counters
  GaugesOf,       \* the gauge names a request sets
  NaNsOf,         \* those of them it sets to a value JSON cannot encode
  GaugeNames,
  Ticker,         \* the goroutine of RunPeriodicSave
  Main,           \* the goroutine of run()
  FileStorage,    \* FileStoragePath # ""
  StoreInterval,  \* seconds; 0 is synchronous persistence
  Restore,        \* the -r flag
  WriteFaults,    \* whether writing the temporary file may fail
  RenameFaults,   \* whether renaming it may fail
  LoadFaults,     \* whether reading the snapshot at start may fail
  DrainTimeouts,  \* whether Shutdown and GracefulStop may time out
  ListenFaults,   \* whether ListenAndServe may return by itself
  MaxInFlight,    \* bound: requests the clients keep in progress at once
  MaxBoots        \* bound: process starts

Savers == Requests \cup {Ticker, Main}

ASSUME SaversAssumption ==
  /\ Ticker \notin Requests
  /\ Main \notin Requests
  /\ Ticker # Main
  /\ GrpcRequests \subseteq Requests

ASSUME WritesAssumption ==
  /\ CounterWrites \subseteq Requests
  /\ GaugesOf \in [Requests -> SUBSET GaugeNames]
  /\ NaNsOf \in [Requests -> SUBSET GaugeNames]
  /\ \A r \in Requests : NaNsOf[r] \subseteq GaugesOf[r]

ASSUME ConfigAssumption ==
  /\ {FileStorage, Restore, WriteFaults, RenameFaults, LoadFaults,
      DrainTimeouts, ListenFaults} \subseteq BOOLEAN
  /\ StoreInterval \in Int
  /\ MaxInFlight \in Nat
  /\ MaxBoots \in Nat

SyncMode     == FileStorage /\ StoreInterval = 0
PeriodicMode == FileStorage /\ StoreInterval > 0

VARIABLES
  phase,      \* where run() is
  listening,  \* transports that still take new requests
  mem,        \* MemStorage: Counters and Gauges
  file,       \* the snapshot file, as Load would read it
  pc,         \* where each handler, the ticker and the final save are
  copy,       \* the maps each of them has copied from MemStorage
  acked,      \* requests answered with success
  boots,      \* process starts so far
  gaveUp      \* whether a drain has given up waiting for handlers

vars == <<phase, listening, mem, file, pc, copy, acked, boots, gaveUp>>

Empty    == [counters |-> {}, gauges |-> {}, nan |-> {}]
Snapshot == [counters : SUBSET Requests, gauges : SUBSET Requests,
             nan : SUBSET GaugeNames]

GaugeWrites == {r \in Requests : GaugesOf[r] # {}}

\* A is not newer than B.
AtMost(A, B) == A.counters \subseteq B.counters /\ A.gauges \subseteq B.gauges

Up == phase \notin {"down", "exited"}

\* The steps of SaveSnapshot and storage.Save.
SaveSteps == {"readFirst", "readSecond", "write",
              "rename", "remove", "renameAgain"}
PCs == SaveSteps \cup {"idle", "apply", "reply", "done", "aborted",   \* handlers
                       "off", "wait", "exit"}            \* Ticker and Main
Active(r) == pc[r] \in SaveSteps \cup {"apply", "reply"}
InFlight  == {r \in Requests : Active(r)}

TypeOK ==
  /\ phase \in {"down", "serving", "drainHttp", "drainGrpc", "stopping",
                "saving", "exited"}
  /\ listening \in SUBSET {"http", "grpc"}
  /\ mem \in Snapshot
  /\ file \in Snapshot
  /\ copy \in [Savers -> Snapshot]
  /\ pc \in [Savers -> PCs]
  /\ \A r \in Requests : pc[r] \notin {"off", "wait", "exit"}
  /\ pc[Ticker] \in SaveSteps \cup {"off", "wait"}
  /\ pc[Main] \in SaveSteps \cup {"off", "exit"}
  /\ acked \subseteq Requests
  /\ boots \in 0 .. MaxBoots
  /\ gaveUp \in BOOLEAN

Init ==
  /\ phase = "down"
  /\ listening = {}
  /\ mem = Empty
  /\ file = Empty
  /\ pc = [p \in Savers |-> IF p \in Requests THEN "idle" ELSE "off"]
  /\ copy = [p \in Savers |-> Empty]
  /\ acked = {}
  /\ boots = 0
  /\ gaveUp = FALSE

-----------------------------------------------------------------------------
(* Start and stop of the process *)

\* The requests in progress die with the process; nobody answers them.
KillAll == [p \in Savers |-> IF p \notin Requests THEN "off"
                             ELSE IF Active(p) THEN "aborted" ELSE pc[p]]

\* Mutant of RestoredFrom: the server ignores the snapshot.
RestoredFromNothing(f) == {Empty}

\* What RestoreIfNeeded leaves in the new MemStorage: it only warns when
\* Load fails, and the server starts empty.
RestoredFrom(f) ==
  {s \in {f, Empty} : \/ s = f /\ Restore /\ FileStorage
                      \/ s = Empty /\ (LoadFaults \/ ~(Restore /\ FileStorage))}

Boot ==
  /\ ~Up
  /\ boots < MaxBoots
  /\ boots' = boots + 1
  /\ mem' \in RestoredFrom(file)
  /\ phase' = "serving"
  /\ listening' = {"http", "grpc"}
  /\ pc' = [pc EXCEPT ![Ticker] = IF PeriodicMode THEN "wait" ELSE "off"]
  /\ gaveUp' = FALSE
  /\ UNCHANGED <<file, copy, acked>>

\* A signal: Shutdown closes the HTTP listener and waits; gRPC goes on.
ShutdownSignal ==
  /\ phase = "serving"
  /\ phase' = "drainHttp"
  /\ listening' = {"grpc"}
  /\ UNCHANGED <<mem, file, pc, copy, acked, boots, gaveUp>>

\* ListenAndServe returns an error: nothing calls Shutdown, and connections
\* that are already open go on being served.
ListenerFailed ==
  /\ ListenFaults
  /\ phase = "serving"
  /\ phase' = "drainGrpc"
  /\ listening' = {"http"}
  /\ UNCHANGED <<mem, file, pc, copy, acked, boots, gaveUp>>

\* Mutant of HttpIdle: Shutdown is called and not waited for.
NoWait == TRUE

\* Every HTTP handler has returned.
HttpIdle == InFlight \subseteq GrpcRequests

\* Shutdown has seen that, or its context has expired.
HttpDrained ==
  /\ phase = "drainHttp"
  /\ HttpIdle \/ DrainTimeouts
  /\ gaveUp' = (gaveUp \/ ~HttpIdle)
  /\ phase' = "drainGrpc"
  /\ listening' = {}          \* GracefulStop refuses new calls
  /\ UNCHANGED <<mem, file, pc, copy, acked, boots>>

GrpcIdle == InFlight \cap GrpcRequests = {}

\* GracefulStop has returned, or Stop was called; then stopSave().
GrpcDrained ==
  /\ phase = "drainGrpc"
  /\ GrpcIdle \/ DrainTimeouts
  /\ gaveUp' = (gaveUp \/ ~GrpcIdle)
  /\ phase' = "stopping"
  /\ UNCHANGED <<listening, mem, file, pc, copy, acked, boots>>

\* Mutant of SaverGone: saveWG.Wait() is missing.
SaverNotAwaited == TRUE

\* saveWG.Wait() has returned: there is no ticker any more.
SaverGone == pc[Ticker] = "off"

\* run() takes the last snapshot itself.
FinalSave ==
  /\ phase = "stopping"
  /\ SaverGone
  /\ phase' = "saving"
  /\ pc' = [pc EXCEPT ![Main] = IF FileStorage THEN "readFirst" ELSE "exit"]
  /\ UNCHANGED <<listening, mem, file, copy, acked, boots, gaveUp>>

Exit ==
  /\ phase = "saving"
  /\ pc[Main] = "exit"
  /\ phase' = "exited"
  /\ listening' = {}
  /\ pc' = KillAll
  /\ UNCHANGED <<mem, file, copy, acked, boots, gaveUp>>

\* mem is what the dead process held; only Boot reads it again, to replace it.
Crash ==
  /\ Up
  /\ phase' = "down"
  /\ listening' = {}
  /\ pc' = KillAll
  /\ UNCHANGED <<mem, file, copy, acked, boots, gaveUp>>

-----------------------------------------------------------------------------
(* Handlers: accept, write to the repository, reply *)

Transport(r) == IF r \in GrpcRequests THEN "grpc" ELSE "http"

Accept(r) ==
  /\ pc[r] = "idle"
  /\ Transport(r) \in listening
  /\ Cardinality(InFlight) < MaxInFlight
  /\ pc' = [pc EXCEPT ![r] = "apply"]
  /\ UNCHANGED <<phase, listening, mem, file, copy, acked, boots, gaveUp>>

\* The maps after SaveCounter, SaveGauge or SaveBatch, under the mutex.
Absorbed(m, r) ==
  [counters |-> m.counters \cup ({r} \cap CounterWrites),
   gauges   |-> m.gauges \cup ({r} \cap GaugeWrites),
   nan      |-> (m.nan \ GaugesOf[r]) \cup NaNsOf[r]]

\* Mutant of AfterWrite: the handler answers before it saves.
AfterWriteNoSync == "reply"

\* SyncSaveRepo goes on to SaveSnapshot with no lock held.
AfterWrite == IF SyncMode THEN "readFirst" ELSE "reply"

Apply(r) ==
  /\ pc[r] = "apply"
  /\ mem' = Absorbed(mem, r)
  /\ pc' = [pc EXCEPT ![r] = AfterWrite]
  /\ UNCHANGED <<phase, listening, file, copy, acked, boots, gaveUp>>

\* A gRPC call that outlives Stop has lost its connection.
Reply(r) ==
  /\ pc[r] = "reply"
  /\ IF Transport(r) = "grpc" /\ phase \in {"stopping", "saving"}
     THEN /\ pc' = [pc EXCEPT ![r] = "aborted"]
          /\ UNCHANGED acked
     ELSE /\ pc' = [pc EXCEPT ![r] = "done"]
          /\ acked' = acked \cup {r}
  /\ UNCHANGED <<phase, listening, mem, file, copy, boots, gaveUp>>

-----------------------------------------------------------------------------
(* RunPeriodicSave *)

\* After stopSave both channels of the select may be ready: Go picks either.
Tick ==
  /\ pc[Ticker] = "wait"
  /\ pc' = [pc EXCEPT ![Ticker] = "readFirst"]
  /\ UNCHANGED <<phase, listening, mem, file, copy, acked, boots, gaveUp>>

\* Mutant of SaveStopped: stopSave() comes after saveWG.Wait().
SaveStoppedLate == phase = "saving"

\* stopSave() has been called.
SaveStopped == phase = "stopping"

StopTicker ==
  /\ pc[Ticker] = "wait"
  /\ SaveStopped
  /\ pc' = [pc EXCEPT ![Ticker] = "off"]
  /\ UNCHANGED <<phase, listening, mem, file, copy, acked, boots, gaveUp>>

-----------------------------------------------------------------------------
(* SaveSnapshot and storage.Save, by a handler, the ticker or run() *)

\* Mutant of AfterSave: a save ends as in a handler, whoever runs it.
AfterSaveReply(p) == IF p = Main THEN "exit" ELSE "reply"

\* Mutant of AfterSave: the loop of RunPeriodicSave returns after a save.
AfterSaveOnce(p) ==
  IF p = Main THEN "exit" ELSE IF p = Ticker THEN "off" ELSE "reply"

\* SaveSnapshot returns nothing: a failed save is logged and forgotten.
AfterSave(p) ==
  IF p = Main THEN "exit" ELSE IF p = Ticker THEN "wait" ELSE "reply"

\* Mutant of ReadOrder: gauges first.
ReadOrderSwapped == <<"gauges", "counters">>

\* The two maps are read one after the other, each under a lock of its own.
ReadOrder == <<"counters", "gauges">>

CopyMap(p, map) ==
  copy' = [copy EXCEPT ![p] =
             IF map = "counters"
             THEN [@ EXCEPT !.counters = mem.counters]
             ELSE [@ EXCEPT !.gauges = mem.gauges, !.nan = mem.nan]]

ReadFirst(p) ==
  /\ pc[p] = "readFirst"
  /\ CopyMap(p, ReadOrder[1])
  /\ pc' = [pc EXCEPT ![p] = "readSecond"]
  /\ UNCHANGED <<phase, listening, mem, file, acked, boots, gaveUp>>

ReadSecond(p) ==
  /\ pc[p] = "readSecond"
  /\ CopyMap(p, ReadOrder[2])
  /\ pc' = [pc EXCEPT ![p] = "write"]
  /\ UNCHANGED <<phase, listening, mem, file, acked, boots, gaveUp>>

\* MkdirAll, CreateTemp, Encode, Sync and Close: any of them may fail, and
\* Encode does when a gauge is not a number.  The temporary file holds the
\* copy from here to the rename.
WriteTemp(p) ==
  /\ pc[p] = "write"
  /\ \/ /\ copy[p].nan = {}
        /\ pc' = [pc EXCEPT ![p] = "rename"]
     \/ /\ copy[p].nan # {} \/ WriteFaults
        /\ pc' = [pc EXCEPT ![p] = AfterSave(p)]
  /\ UNCHANGED <<phase, listening, mem, file, copy, acked, boots, gaveUp>>

Rename(p) ==
  /\ pc[p] = "rename"
  /\ \/ /\ file' = copy[p]
        /\ pc' = [pc EXCEPT ![p] = AfterSave(p)]
     \/ /\ RenameFaults
        /\ pc' = [pc EXCEPT ![p] = "remove"]
        /\ UNCHANGED file
  /\ UNCHANGED <<phase, listening, mem, copy, acked, boots, gaveUp>>

\* The fallback removes the target, ignoring an error of Remove.
RemoveTarget(p) ==
  /\ pc[p] = "remove"
  /\ file' \in {Empty, file}
  /\ pc' = [pc EXCEPT ![p] = "renameAgain"]
  /\ UNCHANGED <<phase, listening, mem, copy, acked, boots, gaveUp>>

\* When this one fails too, the deferred Remove drops the temporary file.
RenameAgain(p) ==
  /\ pc[p] = "renameAgain"
  /\ file' \in {copy[p], file}
  /\ pc' = [pc EXCEPT ![p] = AfterSave(p)]
  /\ UNCHANGED <<phase, listening, mem, copy, acked, boots, gaveUp>>

SaveStep(p) ==
  \/ ReadFirst(p) \/ ReadSecond(p) \/ WriteTemp(p)
  \/ Rename(p) \/ RemoveTarget(p) \/ RenameAgain(p)

-----------------------------------------------------------------------------
\* The process is down for good once the boots are used up.
Terminated == ~Up /\ boots = MaxBoots /\ UNCHANGED vars

Next ==
  \/ Boot \/ Crash
  \/ ShutdownSignal \/ ListenerFailed
  \/ HttpDrained \/ GrpcDrained \/ FinalSave \/ Exit
  \/ Tick \/ StopTicker
  \/ \E r \in Requests : Accept(r) \/ Apply(r) \/ Reply(r)
  \/ \E p \in Savers : SaveStep(p)
  \/ Terminated

Spec == Init /\ [][Next]_vars

\* Every goroutine that can run does; the ticker ticks again and again, and
\* its select, which picks at random, does not miss the cancelled context for
\* ever.  Nothing obliges a client to send, a signal to come or a process to
\* crash or to be started.
Fairness ==
  /\ \A r \in Requests : WF_vars(Apply(r) \/ Reply(r))
  /\ \A p \in Savers : WF_vars(SaveStep(p))
  /\ WF_vars(Tick)
  /\ SF_vars(StopTicker)
  /\ WF_vars(HttpDrained) /\ WF_vars(GrpcDrained)
  /\ WF_vars(FinalSave) /\ WF_vars(Exit)

FairSpec == Spec /\ Fairness
-----------------------------------------------------------------------------
(* Properties *)

\* The file never holds an update that memory does not: a snapshot is taken
\* from memory, and a restarted server begins with what the file holds
\* (RestoreIfNeeded), so nothing that reached the disk is forgotten by the
\* next process, whatever the handlers and the savers were doing when the
\* previous one died.
FileWithinMemory == Up => AtMost(file, mem)

\* With one saver at a time (the ticker, then run() once saveWG.Wait() has
\* returned), and renames that do not fail, a snapshot never replaces a newer
\* one and the file never vanishes ("Save atomically writes" it): not across a
\* crash and a restart, nor in a shutdown that gave up waiting for handlers.
SnapshotNeverRegresses == [][AtMost(file, file')]_vars

\* Seen from outside, the server is a memory with a checkpoint.
Store == INSTANCE SnapshotStore
           WITH Updates <- Requests,
                memory <- [counters |-> mem.counters, gauges |-> mem.gauges],
                checkpoint <- [counters |-> file.counters, gauges |-> file.gauges]

\* The saver and the start and stop sequence implement that checkpoint: it
\* only moves forward, never past memory, and a restart returns to it.
ImplementsStore == Store!Spec

\* SaveBatch is atomic but SaveSnapshot is not: it may hold the gauges of a
\* batch without its counters.  It never holds the counters without the
\* gauges, because counters are read first.
TornOneWay == file.counters \cap GaugeWrites \subseteq file.gauges

\* An orderly exit leaves everything in the file: unless a drain gave up on a
\* handler, the final SaveSnapshot of run() covers every write in memory, whatever
\* order the racing saves of the handlers, or the ticker's last one, have left
\* behind.
ExitPersistsEverything == phase = "exited" /\ ~gaveUp => AtMost(mem, file)

\* SyncSaveRepo "flushes a snapshot to disk at once": what a client has been
\* told is saved is in the file, and survives a crash.
AckedIsDurable ==
  /\ acked \cap CounterWrites \subseteq file.counters
  /\ acked \cap GaugeWrites \subseteq file.gauges

\* Whatever is in memory reaches the file, or the process dies first.  The
\* counters and the gauges of a batch are followed apart: after a crash a torn
\* snapshot is all that is left of it.
WritesReachTheFile ==
  \A r \in Requests :
    /\ Up /\ r \in mem.counters ~> ~Up \/ r \in file.counters
    /\ Up /\ r \in mem.gauges ~> ~Up \/ r \in file.gauges

\* Once shutdown has begun the process ends: the handlers drain, the ticker
\* sees its cancelled context, the final save returns.
ShutdownCompletes == phase = "drainHttp" ~> ~Up
=============================================================================

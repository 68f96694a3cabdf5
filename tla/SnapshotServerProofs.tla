------------------------ MODULE SnapshotServerProofs ------------------------
(***************************************************************************)
(* Proofs about SnapshotServer, for every set of requests, every           *)
(* configuration and every number of restarts.                             *)
(***************************************************************************)
EXTENDS SnapshotServer, FiniteSetTheorems, TLAPS

LEMMA InitTypeOK == Init => TypeOK
<1> SUFFICES ASSUME Init PROVE TypeOK
  OBVIOUS
<1>1. /\ pc \in [Savers -> PCs]
      /\ \A r \in Requests : pc[r] \notin {"off", "wait", "exit"}
      /\ pc[Ticker] = "off" /\ pc[Main] = "off"
  BY SaversAssumption DEF Init, Savers, PCs, SaveSteps
<1>2. mem \in Snapshot /\ file \in Snapshot /\ copy \in [Savers -> Snapshot]
  BY DEF Init, Empty, Snapshot
<1>3. boots \in 0 .. MaxBoots
  BY ConfigAssumption DEF Init
<1>4. phase = "down" /\ listening = {} /\ acked = {} /\ gaveUp = FALSE
  BY DEF Init
<1> QED
  BY <1>1, <1>2, <1>3, <1>4 DEF TypeOK

\* Every action keeps the types.
LEMMA NextTypeOK == TypeOK /\ [Next]_vars => TypeOK'
<1> SUFFICES ASSUME TypeOK, [Next]_vars PROVE TypeOK'
  OBVIOUS
<1> USE SaversAssumption DEF TypeOK, Savers, PCs, SaveSteps
<1>1. /\ KillAll \in [Savers -> PCs]
      /\ \A r \in Requests : KillAll[r] \notin {"off", "wait", "exit"}
      /\ KillAll[Ticker] = "off" /\ KillAll[Main] = "off"
  BY DEF KillAll, Savers, PCs
<1>2. /\ AfterSave(Main) = "exit"
      /\ AfterSave(Ticker) = "wait"
      /\ \A r \in Requests : AfterSave(r) = "reply"
  BY DEF AfterSave
<1>3. CASE Boot
  <2>1. mem' \in Snapshot
    BY <1>3 DEF Boot, RestoredFrom, Empty, Snapshot
  <2>2. boots' \in 0 .. MaxBoots
    BY <1>3, ConfigAssumption DEF Boot
  <2> QED
    BY <1>3, <2>1, <2>2 DEF Boot
<1>4. CASE Crash
  BY <1>1, <1>4 DEF Crash
<1>5. CASE ShutdownSignal
  BY <1>5 DEF ShutdownSignal
<1>6. CASE ListenerFailed
  BY <1>6 DEF ListenerFailed
<1>7. CASE HttpDrained \/ GrpcDrained
  BY <1>7 DEF HttpDrained, HttpIdle, GrpcDrained
<1>8. CASE FinalSave
  BY <1>8 DEF FinalSave, SaverGone
<1>9. CASE Exit
  BY <1>1, <1>9 DEF Exit
<1>10. CASE Tick \/ StopTicker
  BY <1>10 DEF Tick, StopTicker, SaveStopped
<1>11. ASSUME NEW r \in Requests, Accept(r) PROVE TypeOK'
  BY <1>11 DEF Accept
<1>12. ASSUME NEW r \in Requests, Apply(r) PROVE TypeOK'
  <2>1. mem' \in Snapshot
    BY <1>12, WritesAssumption DEF Apply, Absorbed, AfterWrite, Snapshot, GaugeWrites
  <2> QED
    BY <1>12, <2>1 DEF Apply, Absorbed, AfterWrite
<1>13. ASSUME NEW r \in Requests, Reply(r) PROVE TypeOK'
  BY <1>13 DEF Reply
<1>14. ASSUME NEW p \in Savers, SaveStep(p) PROVE TypeOK'
  <2>1. CASE ReadFirst(p)
    BY <2>1 DEF ReadFirst, CopyMap, Snapshot
  <2>2. CASE ReadSecond(p)
    BY <2>2 DEF ReadSecond, CopyMap, Snapshot
  <2>3. CASE WriteTemp(p)
    BY <1>2, <2>3 DEF WriteTemp
  <2>4. CASE Rename(p)
    BY <1>2, <2>4 DEF Rename
  <2>5. CASE RemoveTarget(p)
    BY <2>5 DEF RemoveTarget, SaveSteps, Empty, Snapshot
  <2>6. CASE RenameAgain(p)
    BY <1>2, <2>6 DEF RenameAgain
  <2> QED
    BY <1>14, <2>1, <2>2, <2>3, <2>4, <2>5, <2>6 DEF SaveStep
<1>15. CASE UNCHANGED vars
  BY <1>15 DEF vars
<1> QED
  BY <1>3, <1>4, <1>5, <1>6, <1>7, <1>8, <1>9, <1>10, <1>11, <1>12, <1>13,
     <1>14, <1>15 DEF Next, Terminated

\* Every reachable state of the server is well typed.
THEOREM TypeCorrect == Spec => []TypeOK
BY InitTypeOK, NextTypeOK, PTL DEF Spec
-----------------------------------------------------------------------------
(* A snapshot may be torn, but only one way.                               *)

Whole(s) == s.counters \cap GaugeWrites \subseteq s.gauges

\* Nothing runs, and nothing is accepted, when the process is dead.
DeadIsIdle ==
  ~Up => /\ listening = {}
         /\ \A p \in Savers : pc[p] \in {"idle", "done", "aborted", "off"}

\* TornOneWay is about the file only.  It is inductive together with the
\* memory, whose updates are atomic, and with the maps that are being copied:
\* between the two reads, memory already has the gauges that go with the
\* counters read, and it can only gain more.
TornInv ==
  /\ DeadIsIdle
  /\ Whole(mem)
  /\ Whole(file)
  /\ \A p \in Savers :
       /\ pc[p] = "readSecond" => copy[p].counters \cap GaugeWrites \subseteq mem.gauges
       /\ pc[p] \in {"write", "rename", "remove", "renameAgain"} => Whole(copy[p])

\* A process that dies leaves no goroutine running.
LEMMA KillAllIsIdle ==
  TypeOK => \A p \in Savers : KillAll[p] \in {"idle", "done", "aborted", "off"}
BY DEF TypeOK, KillAll, Active, PCs

\* The steps of a dead process are disabled.
LEMMA DeadIsIdleStep == TypeOK /\ DeadIsIdle /\ [Next]_vars => DeadIsIdle'
<1> SUFFICES ASSUME TypeOK, DeadIsIdle, [Next]_vars PROVE DeadIsIdle'
  OBVIOUS
<1> USE SaversAssumption DEF TypeOK, DeadIsIdle, Up, Savers
<1>1. CASE Boot
  BY <1>1 DEF Boot
<1>2. CASE Crash \/ Exit
  BY <1>2, KillAllIsIdle DEF Crash, Exit
<1>3. CASE ShutdownSignal \/ ListenerFailed \/ HttpDrained \/ GrpcDrained \/ FinalSave
  BY <1>3 DEF ShutdownSignal, ListenerFailed, HttpDrained, HttpIdle, GrpcDrained, FinalSave, SaverGone
<1>4. CASE Tick \/ StopTicker
  BY <1>4 DEF Tick, StopTicker, SaveStopped
<1>5. ASSUME NEW r \in Requests, Accept(r) \/ Apply(r) \/ Reply(r) PROVE DeadIsIdle'
  BY <1>5 DEF Accept, Apply, Absorbed, AfterWrite, Reply
<1>6. ASSUME NEW p \in Savers, SaveStep(p) PROVE DeadIsIdle'
  BY <1>6 DEF SaveStep, ReadFirst, ReadSecond, WriteTemp, Rename, RemoveTarget, RenameAgain
<1>7. CASE UNCHANGED vars
  BY <1>7 DEF vars
<1> QED
  BY <1>1, <1>2, <1>3, <1>4, <1>5, <1>6, <1>7 DEF Next, Terminated

\* Every action keeps the one-way tear.
LEMMA TornStep == TypeOK /\ TornInv /\ [Next]_vars => TornInv'
<1> SUFFICES ASSUME TypeOK, TornInv, [Next]_vars PROVE TornInv'
  OBVIOUS
<1>1. DeadIsIdle'
  BY DeadIsIdleStep DEF TornInv
<1> USE SaversAssumption DEF TypeOK, TornInv, Whole
<1>2. CASE Boot
  <2>1. \A p \in Savers : pc[p] \in {"idle", "done", "aborted", "off"}
    BY <1>2 DEF Boot, DeadIsIdle
  <2>2. \A p \in Savers : pc'[p] \in {"idle", "done", "aborted", "off", "wait"}
    BY <1>2, <2>1 DEF Boot
  <2> QED
    BY <1>1, <1>2, <2>2 DEF Boot, RestoredFrom, Empty
<1>3. CASE Crash \/ Exit
  <2>1. pc' = KillAll /\ UNCHANGED <<mem, file, copy>>
    BY <1>3 DEF Crash, Exit
  <2> QED
    BY <1>1, <2>1, KillAllIsIdle
<1>4. CASE ShutdownSignal \/ ListenerFailed \/ HttpDrained \/ GrpcDrained
  BY <1>1, <1>4 DEF ShutdownSignal, ListenerFailed, HttpDrained, HttpIdle, GrpcDrained
<1>5. CASE FinalSave \/ Tick \/ StopTicker
  BY <1>1, <1>5 DEF FinalSave, SaverGone, Tick, StopTicker, SaveStopped
<1>6. ASSUME NEW r \in Requests, Accept(r) \/ Reply(r) PROVE TornInv'
  BY <1>1, <1>6 DEF Accept, Reply
<1>7. ASSUME NEW r \in Requests, Apply(r) PROVE TornInv'
  <2>1. Whole(mem') /\ mem.gauges \subseteq mem'.gauges
    BY <1>7 DEF Apply, Absorbed, AfterWrite
  <2> QED
    BY <1>1, <1>7, <2>1 DEF Apply, Absorbed, AfterWrite
<1>8. ASSUME NEW p \in Savers, SaveStep(p) PROVE TornInv'
  <2>1. CASE ReadFirst(p)
    <3>1. /\ copy'[p].counters = mem.counters
          /\ \A q \in Savers \ {p} : copy'[q] = copy[q]
      BY <2>1 DEF ReadFirst, CopyMap, ReadOrder, Snapshot
    <3> QED
      BY <1>1, <2>1, <3>1 DEF ReadFirst
  <2>2. CASE ReadSecond(p)
    <3>1. /\ copy'[p].counters = copy[p].counters
          /\ copy'[p].gauges = mem.gauges
          /\ \A q \in Savers \ {p} : copy'[q] = copy[q]
      BY <2>2 DEF ReadSecond, CopyMap, ReadOrder, Snapshot
    <3> QED
      BY <1>1, <2>2, <3>1 DEF ReadSecond
  <2>3. AfterSave(p) \notin SaveSteps
    BY DEF AfterSave, SaveSteps
  <2>4. CASE WriteTemp(p)
    BY <1>1, <2>3, <2>4 DEF WriteTemp, SaveSteps
  <2>5. CASE Rename(p)
    BY <1>1, <2>3, <2>5 DEF Rename, SaveSteps
  <2>6. CASE RemoveTarget(p)
    BY <1>1, <2>6 DEF RemoveTarget, Empty
  <2>7. CASE RenameAgain(p)
    BY <1>1, <2>3, <2>7 DEF RenameAgain, SaveSteps
  <2> QED
    BY <1>8, <2>1, <2>2, <2>4, <2>5, <2>6, <2>7 DEF SaveStep
<1>9. CASE UNCHANGED vars
  BY <1>1, <1>9 DEF vars
<1> QED
  BY <1>2, <1>3, <1>4, <1>5, <1>6, <1>7, <1>8, <1>9 DEF Next, Terminated

\* Whatever fails, and however often the process dies, the file never holds
\* the counters of a batch without its gauges.
THEOREM TornOneWayHolds == Spec => []TornOneWay
<1>1. Init => TornInv
  BY SaversAssumption DEF Init, TornInv, DeadIsIdle, Whole, Empty, Up, Savers
<1>2. TornInv => TornOneWay
  BY DEF TornInv, TornOneWay, Whole
<1> QED
  BY <1>1, <1>2, InitTypeOK, NextTypeOK, TornStep, PTL DEF Spec

-----------------------------------------------------------------------------
(* With one saver at a time, the file is a checkpoint.                     *)

\* Periodic persistence (or a negative interval: the final save only), with
\* -r, on a disk whose renames and reads succeed.  Writing the temporary file
\* may fail, and the drains of the shutdown may time out.
OneSaver == FileStorage /\ StoreInterval # 0 /\ Restore /\ ~RenameFaults /\ ~LoadFaults

\* The order of file, copy and memory while p saves.  Only p may rename: the
\* file cannot overtake the copy before p is done.
SaverInv(p) ==
  /\ pc[p] \notin {"remove", "renameAgain"}
  /\ pc[p] = "readSecond" => /\ file.counters \subseteq copy[p].counters
                             /\ copy[p].counters \subseteq mem.counters
  /\ pc[p] \in {"write", "rename"} => AtMost(file, copy[p]) /\ AtMost(copy[p], mem)

CheckpointInv ==
  /\ DeadIsIdle
  /\ AtMost(file, mem)
  /\ \A r \in Requests : pc[r] \notin SaveSteps
  /\ pc[Main] # "off" => phase = "saving"
  /\ phase = "saving" => pc[Ticker] = "off"
  /\ SaverInv(Ticker)
  /\ SaverInv(Main)

\* One saver at a time: the handlers never save, and run() starts its save
\* when the ticker is gone.
LEMMA CheckpointStep ==
  ASSUME OneSaver, TypeOK, CheckpointInv, [Next]_vars PROVE CheckpointInv'
<1>1. DeadIsIdle'
  BY DeadIsIdleStep DEF CheckpointInv
<1> USE SaversAssumption DEF TypeOK, CheckpointInv, SaverInv, AtMost
<1>2. CASE Boot
  <2>1. pc[Main] = "off" /\ pc[Ticker] = "off" /\ Main \in Savers /\ Ticker \in Savers
    BY <1>2 DEF Boot, DeadIsIdle, Savers, SaveSteps
  <2>2. mem' = file
    BY <1>2 DEF Boot, RestoredFrom, OneSaver
  <2> QED
    BY <1>1, <1>2, <2>1, <2>2 DEF Boot, Savers, SaveSteps
<1>3. CASE Crash \/ Exit
  <2>1. pc' = KillAll /\ UNCHANGED <<mem, file, copy>> /\ phase' # "saving"
    BY <1>3 DEF Crash, Exit
  <2>2. KillAll[Ticker] = "off" /\ KillAll[Main] = "off"
    BY DEF KillAll, Savers
  <2>3. \A r \in Requests : KillAll[r] \notin SaveSteps
    BY DEF KillAll, Active, Savers, SaveSteps
  <2> QED
    BY <1>1, <2>1, <2>2, <2>3 DEF Savers
<1>4. CASE ShutdownSignal \/ ListenerFailed \/ HttpDrained \/ GrpcDrained
  BY <1>1, <1>4 DEF ShutdownSignal, ListenerFailed, HttpDrained, HttpIdle, GrpcDrained
<1>5. CASE FinalSave
  BY <1>1, <1>5 DEF FinalSave, SaverGone, Savers, SaveSteps
<1>6. CASE Tick \/ StopTicker
  BY <1>1, <1>6 DEF Tick, StopTicker, SaveStopped, Savers, SaveSteps
<1>7. ASSUME NEW r \in Requests, Accept(r) \/ Reply(r) PROVE CheckpointInv'
  BY <1>1, <1>7 DEF Accept, Reply, Savers, SaveSteps
<1>8. ASSUME NEW r \in Requests, Apply(r) PROVE CheckpointInv'
  <2>1. pc'[r] = "reply" /\ AtMost(mem, mem')
    BY <1>8 DEF Apply, Absorbed, AfterWrite, SyncMode, OneSaver, Savers
  <2> QED
    BY <1>1, <1>8, <2>1 DEF Apply, Absorbed, AfterWrite, Savers, SaveSteps
<1>9. ASSUME NEW p \in Savers, SaveStep(p) PROVE CheckpointInv'
  <2>1. pc[p] \in SaveSteps
    BY <1>9 DEF SaveStep, ReadFirst, ReadSecond, WriteTemp, Rename, RemoveTarget,
                RenameAgain, SaveSteps
  <2>2. /\ p \in {Ticker, Main}
        /\ \A q \in {Ticker, Main} \ {p} : pc[q] = "off"
    BY <2>1 DEF Savers, SaveSteps
  <2>3. AfterSave(p) = IF p = Main THEN "exit" ELSE "wait"
    BY <2>2 DEF AfterSave
  <2> USE DEF SaveSteps
  <2>4. CASE ReadFirst(p)
    <3>1. copy'[p].counters = mem.counters
      BY <2>4 DEF ReadFirst, CopyMap, ReadOrder, Snapshot
    <3> QED
      BY <1>1, <2>2, <2>4, <3>1 DEF ReadFirst, Savers
  <2>5. CASE ReadSecond(p)
    <3>1. /\ copy'[p].counters = copy[p].counters
          /\ copy'[p].gauges = mem.gauges
      BY <2>5 DEF ReadSecond, CopyMap, ReadOrder, Snapshot
    <3> QED
      BY <1>1, <2>2, <2>5, <3>1 DEF ReadSecond, Savers
  <2>6. CASE WriteTemp(p)
    BY <1>1, <2>2, <2>3, <2>6 DEF WriteTemp, Savers
  <2>7. CASE Rename(p)
    BY <1>1, <2>2, <2>3, <2>7 DEF Rename, Savers, OneSaver
  <2>8. CASE RemoveTarget(p) \/ RenameAgain(p)
    BY <2>2, <2>8 DEF RemoveTarget, RenameAgain
  <2> QED
    BY <1>9, <2>4, <2>5, <2>6, <2>7, <2>8 DEF SaveStep
<1>10. CASE UNCHANGED vars
  BY <1>1, <1>10 DEF vars
<1> QED
  BY <1>2, <1>3, <1>4, <1>5, <1>6, <1>7, <1>8, <1>9, <1>10 DEF Next, Terminated

LEMMA CheckpointInit == Init => CheckpointInv
BY SaversAssumption
   DEF Init, CheckpointInv, SaverInv, DeadIsIdle, AtMost, Empty, Up, Savers, SaveSteps

\* What reached the disk is in memory: no restart forgets it.
THEOREM FileWithinMemoryHolds == ASSUME OneSaver PROVE Spec => []FileWithinMemory
<1>1. CheckpointInv => FileWithinMemory
  BY DEF CheckpointInv, FileWithinMemory
<1> QED
  BY <1>1, InitTypeOK, NextTypeOK, CheckpointInit, CheckpointStep, PTL DEF Spec

\* A step changes the file only by the rename of the one saver, whose copy is
\* not older than the file.
LEMMA FileMovesForward ==
  ASSUME OneSaver, TypeOK, CheckpointInv, [Next]_vars
  PROVE  /\ AtMost(file, file')
         /\ file' # file => AtMost(file', mem) /\ mem' = mem
<1> USE SaversAssumption DEF AtMost
<1>1. ASSUME NEW p \in Savers, SaveStep(p)
      PROVE  /\ AtMost(file, file')
             /\ file' # file => AtMost(file', mem) /\ mem' = mem
  <2>1. CASE Rename(p)
    BY <2>1 DEF Rename, CheckpointInv, SaverInv, Savers, SaveSteps
  <2>2. CASE RemoveTarget(p) \/ RenameAgain(p)
    BY <2>2 DEF RemoveTarget, RenameAgain, CheckpointInv, SaverInv, Savers, SaveSteps
  <2> QED
    BY <1>1, <2>1, <2>2 DEF SaveStep, ReadFirst, ReadSecond, WriteTemp
<1>2. (\A p \in Savers : ~SaveStep(p)) => file' = file
  BY DEF Next, vars, Boot, Crash, ShutdownSignal, ListenerFailed, HttpDrained, HttpIdle, GrpcDrained,
         FinalSave, Exit, Tick, StopTicker, Accept, Apply, Reply, Terminated
<1> QED
  BY <1>1, <1>2

\* A snapshot never replaces a newer one.
THEOREM SnapshotNeverRegressesHolds ==
  ASSUME OneSaver PROVE Spec => SnapshotNeverRegresses
<1>1. TypeOK /\ CheckpointInv /\ [Next]_vars => [AtMost(file, file')]_vars
  BY FileMovesForward
<1> QED
  BY <1>1, InitTypeOK, NextTypeOK, CheckpointInit, CheckpointStep, PTL
     DEF Spec, SnapshotNeverRegresses

-----------------------------------------------------------------------------
(* ... and the server implements SnapshotStore.                            *)

LEMMA StepIsStoreStep ==
  ASSUME OneSaver, TypeOK, TypeOK', CheckpointInv, [Next]_vars
  PROVE  Store!Next \/ UNCHANGED <<mem, file>>
<1> DEFINE maps(s) == [counters |-> s.counters, gauges |-> s.gauges]
<1>1. maps(mem) \in Store!Maps /\ maps(file) \in Store!Maps
  BY DEF TypeOK, Snapshot, Store!Maps
<1>2. maps(mem') \in Store!Maps /\ maps(file') \in Store!Maps
  BY DEF TypeOK, Snapshot, Store!Maps
<1>3. CASE Boot
  <2>1. mem' = file /\ file' = file
    BY <1>3 DEF Boot, RestoredFrom, OneSaver
  <2> QED
    BY <2>1 DEF Store!Next, Store!Restart
<1>4. ASSUME NEW r \in Requests, Apply(r) PROVE Store!Next
  <2>1. AtMost(mem, mem') /\ file' = file
    BY <1>4 DEF Apply, Absorbed, AfterWrite, AtMost
  <2> QED
    BY <1>2, <2>1 DEF Store!Next, Store!Absorb, Store!Within, AtMost
<1>5. CASE file' # file
  <2>1. AtMost(file, file') /\ AtMost(file', mem) /\ mem' = mem
    BY <1>5, FileMovesForward
  <2> QED
    BY <1>2, <2>1 DEF Store!Next, Store!Checkpoint, Store!Within, AtMost
<1>6. CASE file' = file /\ ~Boot /\ \A r \in Requests : ~Apply(r)
  <2>1. mem' = mem
    BY <1>6 DEF Next, vars, Crash, ShutdownSignal, ListenerFailed, HttpDrained, HttpIdle,
                GrpcDrained, FinalSave, Exit, Tick, StopTicker, Accept, Reply, SaveStep,
                ReadFirst, ReadSecond, WriteTemp, Rename, RemoveTarget, RenameAgain,
                Terminated
  <2> QED
    BY <1>6, <2>1
<1> QED
  BY <1>3, <1>4, <1>5, <1>6

\* With one saver at a time, the server implements the checkpointed memory of
\* SnapshotStore.
THEOREM ServerImplementsStore == ASSUME OneSaver PROVE Spec => ImplementsStore
<1>1. Init => Store!Init
  BY DEF Init, Empty, Store!Init
<1>2. TypeOK /\ TypeOK' /\ CheckpointInv /\ [Next]_vars
        => [Store!Next]_<<[counters |-> mem.counters, gauges |-> mem.gauges],
                          [counters |-> file.counters, gauges |-> file.gauges]>>
  BY StepIsStoreStep
<1> QED
  BY <1>1, <1>2, InitTypeOK, NextTypeOK, CheckpointInit, CheckpointStep, PTL
     DEF Spec, ImplementsStore, Store!Spec

-----------------------------------------------------------------------------
(* Synchronous persistence is durable for one request at a time.           *)

\* StoreInterval = 0, a client that waits for each answer, a disk and values
\* that can be written, and a shutdown that lets the handlers finish.
OneClient ==
  /\ SyncMode /\ Restore /\ MaxInFlight = 1
  /\ ~WriteFaults /\ ~RenameFaults /\ ~LoadFaults /\ ~DrainTimeouts /\ ~ListenFaults
  /\ \A r \in Requests : NaNsOf[r] = {}
  /\ IsFiniteSet(Requests)

Holds(s, r) == /\ r \in CounterWrites => r \in s.counters
               /\ r \in GaugeWrites => r \in s.gauges

\* At most one request is in progress, and none once the drains are over.
AloneInv ==
  /\ DeadIsIdle
  /\ pc[Ticker] = "off"
  /\ pc[Main] # "off" => phase = "saving"
  /\ \A r, s \in Requests : Active(r) /\ Active(s) => r = s
  /\ phase = "drainHttp" => listening = {"grpc"}
  /\ phase = "drainGrpc" => listening = {} /\ InFlight \subseteq GrpcRequests
  /\ phase \in {"stopping", "saving"} => listening = {} /\ InFlight = {}

\* While somebody saves, memory does not move: the copy is memory.
DurableInv ==
  /\ Up => AtMost(file, mem)
  /\ mem.nan = {}
  /\ file.nan = {}
  /\ \A p \in Savers :
       /\ pc[p] \notin {"remove", "renameAgain"}
       /\ copy[p].nan = {}
       /\ pc[p] = "readSecond" => copy[p].counters = mem.counters
       /\ pc[p] \in {"write", "rename"} => /\ copy[p].counters = mem.counters
                                          /\ copy[p].gauges = mem.gauges
  /\ \A r \in Requests : /\ pc[r] \in SaveSteps => Holds(mem, r)
                         /\ pc[r] = "reply" => Holds(file, r)
                         /\ r \in acked => Holds(file, r)

LEMMA AloneStep ==
  ASSUME OneClient, TypeOK, AloneInv, [Next]_vars PROVE AloneInv'
<1>1. DeadIsIdle'
  BY DeadIsIdleStep DEF AloneInv
<1> USE SaversAssumption DEF TypeOK, AloneInv, InFlight, Active
<1>2. CASE Boot
  BY <1>1, <1>2 DEF Boot, DeadIsIdle, PeriodicMode, SyncMode, OneClient, Savers, SaveSteps
<1>3. CASE Crash \/ Exit
  <2>1. pc' = KillAll /\ phase' \in {"down", "exited"}
    BY <1>3 DEF Crash, Exit
  <2>2. KillAll[Ticker] = "off" /\ KillAll[Main] = "off"
    BY DEF KillAll, Savers
  <2>3. \A r \in Requests : KillAll[r] \notin SaveSteps \cup {"apply", "reply"}
    BY DEF KillAll, Savers, SaveSteps
  <2> QED
    BY <1>1, <2>1, <2>2, <2>3
<1>4. CASE ShutdownSignal \/ ListenerFailed
  BY <1>1, <1>4 DEF ShutdownSignal, ListenerFailed, OneClient
<1>5. CASE HttpDrained \/ GrpcDrained
  BY <1>1, <1>5 DEF HttpDrained, HttpIdle, GrpcDrained, GrpcIdle, OneClient
<1>6. CASE FinalSave
  <2>1. /\ pc'[Ticker] = "off"
        /\ \A r \in Requests : pc'[r] = pc[r]
        /\ phase' = "saving" /\ listening' = {}
    BY <1>6 DEF FinalSave, SaverGone, Savers
  <2> QED
    BY <1>1, <1>6, <2>1 DEF FinalSave, SaverGone
<1>7. CASE Tick \/ StopTicker
  BY <1>7 DEF Tick, StopTicker, SaveStopped
<1>8. ASSUME NEW r \in Requests, Accept(r) PROVE AloneInv'
  <2>1. InFlight = {}
    <3>1. IsFiniteSet(InFlight)
      BY FS_Subset DEF OneClient
    <3>2. Cardinality(InFlight) = 0
      BY <1>8, <3>1, FS_CardinalityType DEF Accept, OneClient
    <3> QED
      BY <3>1, <3>2, FS_EmptySet
  <2>2. \A s \in Requests : ~Active(s)
    BY <2>1
  <2>3. /\ \A p \in Savers \ {r} : pc'[p] = pc[p]
        /\ UNCHANGED <<phase, listening, gaveUp>>
    BY <1>8 DEF Accept
  <2>4. phase \notin {"stopping", "saving"}
    BY <1>8 DEF Accept
  <2>5. phase # "drainGrpc"
    BY <1>8 DEF Accept
  <2> QED
    BY <1>1, <2>2, <2>3, <2>4, <2>5 DEF Savers
<1>9. ASSUME NEW r \in Requests, Apply(r) \/ Reply(r) PROVE AloneInv'
  <2>1. /\ Active(r)
        /\ \A p \in Savers \ {r} : pc'[p] = pc[p]
        /\ UNCHANGED <<phase, listening, gaveUp>>
    BY <1>9 DEF Apply, Absorbed, AfterWrite, Reply
  <2> QED
    BY <1>1, <2>1 DEF Savers
<1>10. ASSUME NEW p \in Savers, SaveStep(p) PROVE AloneInv'
  <2>1. /\ pc[p] \in SaveSteps
        /\ \A q \in Savers \ {p} : pc'[q] = pc[q]
        /\ UNCHANGED <<phase, listening, gaveUp>>
    BY <1>10 DEF SaveStep, ReadFirst, ReadSecond, WriteTemp, Rename, RemoveTarget,
                 RenameAgain, SaveSteps
  <2>2. p # Ticker
    BY <2>1 DEF SaveSteps
  <2>3. p = Main => phase = "saving"
    BY <2>1 DEF SaveSteps
  <2>4. \A s \in Requests : Active(s)' => Active(s)
    BY <2>1 DEF Savers
  <2> QED
    BY <1>1, <2>1, <2>2, <2>3, <2>4 DEF Savers
<1>11. CASE UNCHANGED vars
  BY <1>1, <1>11 DEF vars
<1> QED
  BY <1>2, <1>3, <1>4, <1>5, <1>6, <1>7, <1>8, <1>9, <1>10, <1>11 DEF Next, Terminated

\* Everything the file may become is memory as it is, and memory only grows.
LEMMA DurableStep ==
  ASSUME OneClient, TypeOK, AloneInv, DurableInv, [Next]_vars PROVE DurableInv'
<1> USE SaversAssumption DEF TypeOK, DurableInv, AtMost, Holds
<1>1. CASE Boot
  <2>1. \A p \in Savers : pc[p] \in {"idle", "done", "aborted", "off"}
    BY <1>1 DEF Boot, AloneInv, DeadIsIdle
  <2>2. \A p \in Savers : pc'[p] \in {"idle", "done", "aborted", "off", "wait"}
    BY <1>1, <2>1 DEF Boot
  <2>3. mem' = file /\ UNCHANGED <<file, copy, acked>>
    BY <1>1 DEF Boot, RestoredFrom, OneClient, SyncMode
  <2> QED
    BY <2>2, <2>3 DEF Savers, SaveSteps
<1>2. CASE Crash \/ Exit
  <2>1. pc' = KillAll /\ UNCHANGED <<mem, file, copy, acked>> /\ ~Up'
    BY <1>2 DEF Crash, Exit, Up
  <2> QED
    BY <2>1, KillAllIsIdle DEF Savers, SaveSteps
<1>3. CASE ShutdownSignal \/ ListenerFailed \/ HttpDrained \/ GrpcDrained
  BY <1>3 DEF ShutdownSignal, ListenerFailed, HttpDrained, HttpIdle, GrpcDrained, Up
<1>4. CASE FinalSave
  <2>1. /\ \A r \in Requests : pc'[r] = pc[r]
        /\ \A p \in Savers : pc'[p] = pc[p] \/ pc'[p] \in {"readFirst", "exit"}
        /\ UNCHANGED <<mem, file, copy, acked>>
        /\ Up
    BY <1>4 DEF FinalSave, SaverGone, Savers, Up
  <2> QED
    BY <2>1
<1>5. CASE Tick \/ StopTicker
  BY <1>5 DEF Tick, StopTicker, SaveStopped, AloneInv
<1>6. ASSUME NEW r \in Requests, Accept(r) PROVE DurableInv'
  BY <1>6 DEF Accept, Up, Savers, SaveSteps
<1>7. ASSUME NEW r \in Requests, Apply(r) PROVE DurableInv'
  <2>1. /\ pc'[r] = "readFirst"
        /\ \A p \in Savers \ {r} : pc'[p] = pc[p]
        /\ UNCHANGED <<phase, file, copy, acked>>
        /\ AtMost(mem, mem') /\ Holds(mem', r)
    BY <1>7 DEF Apply, Absorbed, AfterWrite, OneClient, Savers
  <2>2. mem'.nan = {}
    BY <1>7 DEF Apply, Absorbed, AfterWrite, OneClient
  <2>3. \A p \in Savers : pc[p] \notin SaveSteps
    <3>1. \A s \in Requests : pc[s] \notin SaveSteps
      BY <1>7 DEF Apply, Absorbed, AfterWrite, AloneInv, Active, SaveSteps
    <3>2. pc[Main] = "off"
      BY <1>7 DEF Apply, Absorbed, AfterWrite, AloneInv, InFlight, Active
    <3> QED
      BY <3>1, <3>2 DEF AloneInv, Savers, SaveSteps
  <2> QED
    BY <2>1, <2>2, <2>3 DEF SaveSteps, Up, Savers
<1>8. ASSUME NEW r \in Requests, Reply(r) PROVE DurableInv'
  BY <1>8 DEF Reply, Up, Savers, SaveSteps
<1>9. ASSUME NEW p \in Savers, SaveStep(p) PROVE DurableInv'
  <2>1. /\ \A q \in Savers \ {p} : pc'[q] = pc[q] /\ copy'[q] = copy[q]
        /\ UNCHANGED <<phase, mem, acked>>
    BY <1>9 DEF SaveStep, ReadFirst, ReadSecond, WriteTemp, Rename, RemoveTarget,
                RenameAgain, CopyMap
  <2>2. Up
    BY <1>9 DEF SaveStep, ReadFirst, ReadSecond, WriteTemp, Rename, RemoveTarget,
                RenameAgain, AloneInv, DeadIsIdle
  <2>3. AfterSave(p) \notin SaveSteps \cup {"apply"}
    BY DEF AfterSave, SaveSteps
  <2>4. CASE ReadFirst(p)
    <3>1. copy'[p].counters = mem.counters /\ copy'[p].nan = {}
      BY <2>4 DEF ReadFirst, CopyMap, ReadOrder, Snapshot
    <3> QED
      BY <2>1, <2>2, <2>4, <3>1 DEF ReadFirst, SaveSteps, Up, Savers
  <2>5. CASE ReadSecond(p)
    <3>1. /\ copy'[p].counters = copy[p].counters
          /\ copy'[p].gauges = mem.gauges /\ copy'[p].nan = {}
      BY <2>5 DEF ReadSecond, CopyMap, ReadOrder, Snapshot
    <3> QED
      BY <2>1, <2>2, <2>5, <3>1 DEF ReadSecond, SaveSteps, Up, Savers
  <2>6. CASE WriteTemp(p)
    <3>1. pc' = [pc EXCEPT ![p] = "rename"] /\ UNCHANGED <<file, copy>>
      BY <2>6 DEF WriteTemp, OneClient
    <3> QED
      BY <2>1, <2>2, <2>6, <3>1 DEF WriteTemp, SaveSteps, Up, Savers
  <2>7. CASE Rename(p)
    <3>1. /\ file' = copy[p] /\ pc'[p] = AfterSave(p) /\ copy' = copy
          /\ file'.counters = mem.counters /\ file'.gauges = mem.gauges
      BY <2>7 DEF Rename, OneClient
    <3>2. AtMost(file, file')
      BY <2>2, <3>1
    <3>3. p \in Requests => Holds(mem, p)
      BY <2>7 DEF Rename, SaveSteps
    <3> QED
      BY <2>1, <2>2, <2>3, <3>1, <3>2, <3>3 DEF SaveSteps, Up, Savers
  <2>8. CASE RemoveTarget(p) \/ RenameAgain(p)
    BY <2>8 DEF RemoveTarget, RenameAgain
  <2> QED
    BY <1>9, <2>4, <2>5, <2>6, <2>7, <2>8 DEF SaveStep
<1>10. CASE UNCHANGED vars
  BY <1>10 DEF vars, Up
<1> QED
  BY <1>1, <1>2, <1>3, <1>4, <1>5, <1>6, <1>7, <1>8, <1>9, <1>10 DEF Next, Terminated

\* With one request in progress at a time, what a client was told is saved is
\* in the file, at every moment and after every crash.
THEOREM AckedIsDurableHolds == ASSUME OneClient PROVE Spec => []AckedIsDurable
<1>1. Init => AloneInv /\ DurableInv
  BY SaversAssumption
     DEF Init, AloneInv, DurableInv, DeadIsIdle, AtMost, Empty, Up, Savers, SaveSteps,
         InFlight, Active, Holds
<1>2. DurableInv /\ TypeOK => AckedIsDurable
  BY DEF DurableInv, Holds, AckedIsDurable, TypeOK
<1> QED
  BY <1>1, <1>2, InitTypeOK, NextTypeOK, AloneStep, DurableStep, PTL DEF Spec

-----------------------------------------------------------------------------
(* An orderly exit leaves everything in the file.                          *)

\* A disk and values that can be written, and a listener that does not fail; any
\* interval, any number of requests at once, with or without -r, and drains that
\* may give up.
OrderlyExit ==
  /\ FileStorage
  /\ ~WriteFaults /\ ~RenameFaults /\ ~ListenFaults
  /\ \A r \in Requests : NaNsOf[r] = {}

\* Nothing is in progress once drains that did not give up are over, and the ticker
\* has gone before run() saves.
DrainedInv ==
  /\ DeadIsIdle
  /\ phase = "drainHttp" => listening = {"grpc"}
  /\ phase \in {"drainGrpc", "stopping", "saving"} => listening = {}
  /\ phase = "drainGrpc" /\ ~gaveUp => InFlight \subseteq GrpcRequests
  /\ phase \in {"stopping", "saving"} /\ ~gaveUp => InFlight = {}
  /\ phase = "saving" => pc[Ticker] = "off"
  /\ pc[Main] # "off" => phase = "saving"

\* While run() saves, after drains that did not give up, memory does not move and
\* nobody else writes the file.
FinalInv ==
  /\ mem.nan = {} /\ file.nan = {}
  /\ \A p \in Savers : copy[p].nan = {} /\ pc[p] \notin {"remove", "renameAgain"}
  /\ ~gaveUp =>
       /\ pc[Main] = "readSecond" => mem.counters \subseteq copy[Main].counters
       /\ pc[Main] \in {"write", "rename"} => AtMost(mem, copy[Main])
       /\ pc[Main] = "exit" \/ phase = "exited" => AtMost(mem, file)

LEMMA DrainedStep ==
  ASSUME OrderlyExit, TypeOK, DrainedInv, [Next]_vars PROVE DrainedInv'
<1>1. DeadIsIdle'
  BY DeadIsIdleStep DEF DrainedInv
<1> USE SaversAssumption DEF TypeOK, DrainedInv, InFlight, Active
<1>2. CASE Boot
  <2>1. pc[Main] \in {"idle", "done", "aborted", "off"}
    BY <1>2 DEF Boot, DeadIsIdle, Savers
  <2>2. pc[Main] = "off"
    BY <2>1 DEF SaveSteps
  <2> QED
    BY <1>1, <1>2, <2>2 DEF Boot, Savers
<1>3. CASE Crash \/ Exit
  <2>1. pc' = KillAll /\ phase' \in {"down", "exited"}
    BY <1>3 DEF Crash, Exit
  <2>2. KillAll[Main] = "off"
    BY DEF KillAll, Savers
  <2> QED
    BY <1>1, <2>1, <2>2
<1>4. CASE ShutdownSignal \/ ListenerFailed
  BY <1>1, <1>4 DEF ShutdownSignal, ListenerFailed, OrderlyExit
<1>5. CASE HttpDrained \/ GrpcDrained
  BY <1>1, <1>5 DEF HttpDrained, HttpIdle, GrpcDrained, GrpcIdle, OrderlyExit
<1>6. CASE FinalSave
  <2>1. /\ pc'[Ticker] = "off"
        /\ \A r \in Requests : pc'[r] = pc[r]
        /\ phase' = "saving" /\ listening' = {}
    BY <1>6 DEF FinalSave, SaverGone, Savers
  <2> QED
    BY <1>1, <1>6, <2>1 DEF FinalSave
<1>7. CASE Tick \/ StopTicker
  <2>1. /\ pc[Ticker] = "wait"
        /\ \A p \in Savers \ {Ticker} : pc'[p] = pc[p]
        /\ UNCHANGED <<phase, listening, gaveUp>>
    BY <1>7 DEF Tick, StopTicker, SaveStopped
  <2> QED
    BY <1>1, <2>1 DEF Savers
<1>8. ASSUME NEW r \in Requests, Accept(r) PROVE DrainedInv'
  <2>1. /\ Transport(r) \in listening
        /\ \A p \in Savers \ {r} : pc'[p] = pc[p]
        /\ UNCHANGED <<phase, listening, gaveUp>>
    BY <1>8 DEF Accept
  <2>2. phase \notin {"drainGrpc", "stopping", "saving"}
    BY <2>1
  <2> QED
    BY <1>1, <2>1, <2>2 DEF Savers
<1>9. ASSUME NEW r \in Requests, Apply(r) \/ Reply(r) PROVE DrainedInv'
  <2>1. /\ Active(r)
        /\ \A p \in Savers \ {r} : pc'[p] = pc[p]
        /\ UNCHANGED <<phase, listening, gaveUp>>
    BY <1>9 DEF Apply, Absorbed, AfterWrite, Reply
  <2> QED
    BY <1>1, <2>1 DEF Savers
<1>10. ASSUME NEW p \in Savers, SaveStep(p) PROVE DrainedInv'
  <2>1. /\ pc[p] \in SaveSteps
        /\ \A q \in Savers \ {p} : pc'[q] = pc[q]
        /\ UNCHANGED <<phase, listening, gaveUp>>
    BY <1>10 DEF SaveStep, ReadFirst, ReadSecond, WriteTemp, Rename, RemoveTarget,
                 RenameAgain, SaveSteps
  <2>2. p = Main => phase = "saving"
    BY <2>1 DEF SaveSteps
  <2>3. phase = "saving" => p # Ticker
    BY <2>1 DEF SaveSteps
  <2>4. \A s \in Requests : Active(s)' => Active(s)
    BY <2>1 DEF Savers
  <2> QED
    BY <1>1, <2>1, <2>2, <2>3, <2>4 DEF Savers
<1>11. CASE UNCHANGED vars
  BY <1>1, <1>11 DEF vars
<1> QED
  BY <1>2, <1>3, <1>4, <1>5, <1>6, <1>7, <1>8, <1>9, <1>10, <1>11 DEF Next, Terminated

\* Where run() saves, and after its last save, it is alone.
LEMMA FinalStep ==
  ASSUME OrderlyExit, TypeOK, DrainedInv, FinalInv, [Next]_vars PROVE FinalInv'
<1> USE SaversAssumption DEF TypeOK, FinalInv, AtMost
<1>1. CASE Boot
  <2>1. pc[Main] \in {"idle", "done", "aborted", "off"} /\ pc'[Main] = pc[Main]
    BY <1>1 DEF Boot, DrainedInv, DeadIsIdle, Savers
  <2>2. mem'.nan = {}
    BY <1>1 DEF Boot, RestoredFrom, Empty
  <2>3. /\ \A p \in Savers : pc'[p] = pc[p] \/ pc'[p] \in {"wait", "off"}
        /\ UNCHANGED <<file, copy>> /\ phase' = "serving"
    BY <1>1 DEF Boot
  <2> QED
    BY <2>1, <2>2, <2>3
<1>2. CASE Crash \/ Exit
  <2>1. /\ pc' = KillAll /\ UNCHANGED <<mem, file, copy>>
        /\ UNCHANGED gaveUp
        /\ phase' = "down" \/ (phase' = "exited" /\ pc[Main] = "exit")
    BY <1>2 DEF Crash, Exit
  <2>2. KillAll[Main] = "off"
    BY DEF KillAll, Savers
  <2> QED
    BY <2>1, <2>2, KillAllIsIdle
<1>3. CASE ShutdownSignal \/ ListenerFailed \/ HttpDrained \/ GrpcDrained
  BY <1>3 DEF ShutdownSignal, ListenerFailed, HttpDrained, HttpIdle, GrpcDrained
<1>4. CASE FinalSave
  <2>1. /\ pc'[Main] = "readFirst"
        /\ \A p \in Savers \ {Main} : pc'[p] = pc[p]
        /\ UNCHANGED <<mem, file, copy, gaveUp>> /\ phase' = "saving"
    BY <1>4 DEF FinalSave, SaverGone, OrderlyExit, Savers
  <2> QED
    BY <2>1
<1>5. CASE Tick \/ StopTicker
  <2>1. /\ \A p \in Savers \ {Ticker} : pc'[p] = pc[p]
        /\ pc'[Ticker] \in {"readFirst", "off"}
        /\ UNCHANGED <<phase, mem, file, copy, gaveUp>>
    BY <1>5 DEF Tick, StopTicker, SaveStopped, Savers
  <2> QED
    BY <2>1 DEF Savers
<1>6. ASSUME NEW r \in Requests, Accept(r) \/ Reply(r) PROVE FinalInv'
  <2>1. /\ \A p \in Savers \ {r} : pc'[p] = pc[p]
        /\ pc'[r] \in {"apply", "done", "aborted"}
        /\ UNCHANGED <<phase, mem, file, copy, gaveUp>>
    BY <1>6 DEF Accept, Reply, Savers
  <2> QED
    BY <2>1 DEF Savers
<1>7. ASSUME NEW r \in Requests, Apply(r) PROVE FinalInv'
  <2>1. /\ pc[r] = "apply" /\ pc'[r] \in {"readFirst", "reply"}
        /\ \A p \in Savers \ {r} : pc'[p] = pc[p]
        /\ UNCHANGED <<phase, file, copy, gaveUp>>
    BY <1>7 DEF Apply, Absorbed, AfterWrite, Savers
  <2>2. mem'.nan = {}
    BY <1>7 DEF Apply, Absorbed, AfterWrite, OrderlyExit
  <2>3. ~gaveUp => pc[Main] = "off" /\ phase # "exited"
    BY <2>1 DEF DrainedInv, DeadIsIdle, InFlight, Active, Up, Savers
  <2> QED
    BY <2>1, <2>2, <2>3 DEF Savers
<1>8. ASSUME NEW p \in Savers, SaveStep(p) PROVE FinalInv'
  <2>1. /\ pc[p] \in SaveSteps
        /\ \A q \in Savers \ {p} : pc'[q] = pc[q] /\ copy'[q] = copy[q]
        /\ UNCHANGED <<phase, mem, gaveUp>>
    BY <1>8 DEF SaveStep, ReadFirst, ReadSecond, WriteTemp, Rename, RemoveTarget,
                RenameAgain, CopyMap, SaveSteps
  <2>2. phase # "exited"
    BY <2>1 DEF DrainedInv, DeadIsIdle, Up, SaveSteps
  <2>3. p # Main /\ ~gaveUp => pc[Main] \notin {"readSecond", "write", "rename", "exit"}
    BY <2>1 DEF DrainedInv, InFlight, Active, Savers, SaveSteps
  <2>4. AfterSave(p) \in {"exit", "wait", "reply"} /\ (p # Main => AfterSave(p) # "exit")
    BY DEF AfterSave
  <2>5. Main \in Savers
    BY DEF Savers
  <2>6. CASE ReadFirst(p)
    <3>1. /\ copy'[p].counters = mem.counters /\ copy'[p].nan = copy[p].nan
          /\ pc'[p] = "readSecond" /\ file' = file
      BY <2>6 DEF ReadFirst, CopyMap, ReadOrder, Snapshot
    <3> QED
      BY <2>1, <2>2, <2>3, <2>5, <3>1
  <2>7. CASE ReadSecond(p)
    <3>1. /\ copy'[p].counters = copy[p].counters
          /\ copy'[p].gauges = mem.gauges /\ copy'[p].nan = mem.nan
          /\ pc[p] = "readSecond" /\ pc'[p] = "write" /\ file' = file
      BY <2>7 DEF ReadSecond, CopyMap, ReadOrder, Snapshot
    <3> QED
      BY <2>1, <2>2, <2>3, <2>5, <3>1
  <2>8. CASE WriteTemp(p)
    <3>1. /\ pc[p] = "write" /\ pc'[p] = "rename" /\ UNCHANGED <<file, copy>>
      BY <2>8 DEF WriteTemp, OrderlyExit
    <3> QED
      BY <2>1, <2>2, <2>3, <2>5, <3>1
  <2>9. CASE Rename(p)
    <3>1. /\ pc[p] = "rename" /\ pc'[p] = AfterSave(p)
          /\ file' = copy[p] /\ copy' = copy
      BY <2>9 DEF Rename, OrderlyExit
    <3> QED
      BY <2>1, <2>2, <2>3, <2>4, <2>5, <3>1
  <2>10. CASE RemoveTarget(p) \/ RenameAgain(p)
    BY <2>10 DEF RemoveTarget, RenameAgain
  <2> QED
    BY <1>8, <2>6, <2>7, <2>8, <2>9, <2>10 DEF SaveStep
<1>9. CASE UNCHANGED vars
  BY <1>9 DEF vars
<1> QED
  BY <1>1, <1>2, <1>3, <1>4, <1>5, <1>6, <1>7, <1>8, <1>9 DEF Next, Terminated

\* A server that exits by itself, without having given up on a handler, has
\* everything in the file that it had in memory, however many handlers were racing
\* to save when the shutdown began.
THEOREM ExitPersistsEverythingHolds == ASSUME OrderlyExit PROVE Spec => []ExitPersistsEverything
<1>1. Init => DrainedInv /\ FinalInv
  BY SaversAssumption
     DEF Init, DrainedInv, FinalInv, DeadIsIdle, Empty, Up, Savers, SaveSteps
<1>2. FinalInv => ExitPersistsEverything
  BY DEF FinalInv, ExitPersistsEverything
<1> QED
  BY <1>1, <1>2, InitTypeOK, NextTypeOK, DrainedStep, FinalStep, PTL DEF Spec
=============================================================================

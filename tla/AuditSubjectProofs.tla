------------------------- MODULE AuditSubjectProofs -------------------------
(***************************************************************************)
(* Proofs about AuditSubject, for any number of handlers and closers, any  *)
(* observers and any size of the queue.                                    *)
(***************************************************************************)
EXTENDS AuditSubject, SequenceTheorems, TLAPS

LEMMA InitTypeOK == Init => TypeOK
<1> SUFFICES ASSUME Init PROVE TypeOK
  OBVIOUS
<1> USE AuditAssumption DEF Init
<1>1. <<>> \in Seq(Handlers) /\ Len(<<>>) = 0
  OBVIOUS
<1>2. worker \in [pc : {"range", "copy", "observe", "exited"}, event : Seq(Handlers),
                 todo : SUBSET Observers]
  BY <1>1
<1>3. /\ log \in [Observers -> Seq(Handlers)]
      /\ file \in [Files -> {"open", "closed"}]
      /\ notifier \in [Handlers -> {"call", "send", "runlock", "done"}]
      /\ closer \in [Closers -> {"call", "mark", "wait", "copy", "close", "done"}]
      /\ toClose \in [Closers -> SUBSET Observers]
  BY <1>1
<1>4. events \in Seq(Handlers) /\ accepted \in Seq(Handlers) /\ Len(events) <= BufferSize
  BY <1>1
<1> QED
  BY <1>2, <1>3, <1>4 DEF TypeOK

\* Every action keeps the types.
LEMMA NextTypeOK == TypeOK /\ [Next]_vars => TypeOK'
<1> SUFFICES ASSUME TypeOK, [Next]_vars PROVE TypeOK'
  OBVIOUS
<1> USE AuditAssumption DEF TypeOK
<1>1. ASSUME NEW o \in Observers, Subscribe(o) PROVE TypeOK'
  BY <1>1 DEF Subscribe, lockVars, threadVars, outVars
<1>2. ASSUME NEW o \in Observers, Observe(o) PROVE TypeOK'
  <2>1. log' \in [Observers -> Seq(Handlers)]
    BY <1>2, ConcatProperties DEF Observe
  <2> QED
    BY <1>2, <2>1 DEF Observe, lockVars, outVars
<1>3. ASSUME NEW h \in Handlers, Notify(h) PROVE TypeOK'
  <2>1. CASE NotifyRLock(h) \/ NotifyRUnlock(h)
    BY <2>1 DEF NotifyRLock, NotifyRUnlock, outVars
  <2>2. CASE NotifySend(h)
    <3>1. events' \in Seq(Handlers) /\ Len(events') <= BufferSize /\ accepted' \in Seq(Handlers)
      <4>1. CASE Accept(h)
        BY <4>1, AppendProperties DEF Accept
      <4> QED
        BY <2>2, <4>1 DEF NotifySend
    <3>2. panicked' \in BOOLEAN
      BY <2>2 DEF NotifySend
    <3> QED
      BY <2>2, <3>1, <3>2 DEF NotifySend, lockVars, outVars
  <2> QED
    BY <1>3, <2>1, <2>2 DEF Notify
<1>4. ASSUME NEW c \in Closers, Close(c) PROVE TypeOK'
  <2>1. CASE CloseLock(c)
    BY <2>1 DEF CloseLock, outVars
  <2>2. CASE CloseMark(c)
    BY <2>2 DEF CloseMark, AfterMark, outVars
  <2>3. CASE CloseWaited(c) \/ CloseCopy(c) \/ CloseReturn(c)
    BY <2>3 DEF CloseWaited, CloseCopy, CloseReturn, lockVars, outVars
  <2>4. ASSUME NEW o \in Observers, CloseObserver(c, o) PROVE TypeOK'
    <3>1. file' \in [Files -> {"open", "closed"}]
      BY <2>4 DEF CloseObserver
    <3> QED
      BY <2>4, <3>1 DEF CloseObserver, lockVars
  <2> QED
    BY <1>4, <2>1, <2>2, <2>3, <2>4 DEF Close
<1>5. CASE Dispatch
  <2>1. CASE Take
    <3>1. Head(events) \in Handlers /\ Tail(events) \in Seq(Handlers)
          /\ Len(Tail(events)) = Len(events) - 1
      BY <2>1, HeadTailProperties DEF Take
    <3> QED
      BY <2>1, <3>1 DEF Take, lockVars, outVars
  <2>2. CASE CopyObservers
    BY <2>2 DEF CopyObservers, lockVars, outVars
  <2>3. CASE NextEvent
    <3>1. worker' \in [pc : {"range", "copy", "observe", "exited"}, event : Seq(Handlers),
                       todo : SUBSET Observers]
      BY <2>3 DEF NextEvent
    <3> QED
      BY <2>3, <3>1 DEF NextEvent, lockVars, outVars
  <2>4. CASE WorkerExit
    BY <2>4 DEF WorkerExit, lockVars, outVars
  <2> QED
    BY <1>5, <2>1, <2>2, <2>3, <2>4 DEF Dispatch
<1>6. CASE UNCHANGED vars
  BY <1>6 DEF vars, lockVars, threadVars, outVars
<1> QED
  BY <1>1, <1>2, <1>3, <1>4, <1>5, <1>6 DEF Next, Terminated

\* Every reachable state of the subject is well typed.
THEOREM TypeCorrect == Spec => []TypeOK
BY InitTypeOK, NextTypeOK, PTL DEF Spec

-----------------------------------------------------------------------------
(* The lock, the flag and the channel.                                     *)

\* A handler is inside the read lock exactly between its two steps, and a
\* closer inside the write lock exactly before it marks the subject.
LockInv ==
  /\ readers = {h \in Handlers : notifier[h] \in {"send", "runlock"}}
  /\ \A c \in Closers : closer[c] = "mark" => writer = c
  /\ writer # NoOne => readers = {}

\* The flag tells the truth about the channel, and a handler that is about to
\* send has seen it unset, so it still is.
ChanInv ==
  /\ closed <=> chan = "closed"
  /\ \A h \in Handlers : notifier[h] = "send" => ~closed
  /\ \A c \in Closers : closer[c] \in {"copy", "close", "done"} => worker.pc = "exited"
  /\ worker.pc = "exited" => closed /\ events = <<>>
  /\ \A f \in Files : file[f] = "closed" => worker.pc = "exited"

SafeInv == TypeOK /\ LockInv /\ ChanInv /\ NeverPanics

LEMMA InitSafeInv == Init => SafeInv
BY InitTypeOK, AuditAssumption DEF Init, SafeInv, LockInv, ChanInv, NeverPanics

\* Every action keeps the lock discipline, hence no send meets a closed channel.
LEMMA NextSafeInv == SafeInv /\ [Next]_vars => SafeInv'
<1> SUFFICES ASSUME SafeInv, [Next]_vars PROVE LockInv' /\ ChanInv' /\ NeverPanics'
  BY NextTypeOK DEF SafeInv
<1> USE AuditAssumption DEF SafeInv, TypeOK, LockInv, ChanInv, NeverPanics
<1> DEFINE Goal == LockInv' /\ ChanInv' /\ NeverPanics'
<1>1. ASSUME NEW o \in Observers, Subscribe(o) \/ Observe(o) PROVE Goal
  BY <1>1 DEF Subscribe, Observe, lockVars, threadVars, outVars
<1>2. ASSUME NEW h \in Handlers, Notify(h) PROVE Goal
  <2>1. CASE NotifyRLock(h)
    BY <2>1 DEF NotifyRLock, RLockFree, outVars
  <2>2. CASE NotifyRUnlock(h)
    BY <2>2 DEF NotifyRUnlock, outVars
  <2>3. CASE NotifySend(h)
    <3>1. chan = "open" /\ worker.pc # "exited" /\ ~panicked'
      BY <2>3 DEF NotifySend
    <3> QED
      BY <2>3, <3>1 DEF NotifySend, lockVars, outVars
  <2> QED
    BY <1>2, <2>1, <2>2, <2>3 DEF Notify
<1>3. ASSUME NEW c \in Closers, Close(c) PROVE Goal
  <2>1. CASE CloseLock(c)
    BY <2>1 DEF CloseLock, LockFree, outVars
  <2>2. CASE CloseMark(c)
    <3>1. writer = c /\ readers = {}
      BY <2>2 DEF CloseMark
    <3>2. \A h \in Handlers : notifier[h] # "send"
      BY <3>1
    <3>3. closed' /\ chan' = "closed" /\ ~panicked' /\ writer' = NoOne
      BY <2>2 DEF CloseMark, FirstClose, AfterMark
    <3>4. \A d \in Closers : closer'[d] # "mark"
      BY <2>2, <3>1 DEF CloseMark
    <3> QED
      BY <2>2, <3>1, <3>2, <3>3, <3>4 DEF CloseMark, outVars
  <2>3. CASE CloseWaited(c)
    BY <2>3 DEF CloseWaited, WorkerGone, lockVars, outVars
  <2>4. CASE CloseCopy(c) \/ CloseReturn(c)
    BY <2>4 DEF CloseCopy, CloseReturn, lockVars, outVars
  <2>5. ASSUME NEW o \in Observers, CloseObserver(c, o) PROVE Goal
    BY <2>5 DEF CloseObserver, lockVars
  <2> QED
    BY <1>3, <2>1, <2>2, <2>3, <2>4, <2>5 DEF Close
<1>4. CASE Dispatch
  <2>1. CASE Take
    BY <2>1 DEF Take, lockVars, outVars
  <2>2. CASE CopyObservers
    BY <2>2 DEF CopyObservers, lockVars, outVars
  <2>4. CASE NextEvent
    BY <2>4 DEF NextEvent, lockVars, outVars
  <2>3. CASE WorkerExit
    BY <2>3 DEF WorkerExit, RangeOver, lockVars, outVars
  <2> QED
    BY <1>4, <2>1, <2>2, <2>3, <2>4 DEF Dispatch
<1>5. CASE UNCHANGED vars
  BY <1>5 DEF vars, lockVars, threadVars, outVars
<1> QED
  BY <1>1, <1>2, <1>3, <1>4, <1>5 DEF Next, Terminated

\* Notify never sends on a closed channel and Close closes it once.
THEOREM NeverPanicsHolds == Spec => []NeverPanics
<1>1. SafeInv => NeverPanics
  BY DEF SafeInv
<1> QED
  BY <1>1, InitSafeInv, NextSafeInv, PTL DEF Spec

-----------------------------------------------------------------------------
(* Where the accepted events are.                                          *)

LEMMA HeadThenTail ==
  ASSUME NEW S, NEW s \in Seq(S), s # <<>>
  PROVE  s = <<Head(s)>> \o Tail(s)
<1>1. Len(s) > 0 /\ Head(s) = s[1] /\ <<Head(s)>> \in Seq(S) /\ Tail(s) \in Seq(S)
  BY HeadTailProperties, EmptySeq
<1>2. Len(<<Head(s)>> \o Tail(s)) = Len(s)
  BY <1>1, HeadTailProperties, ConcatProperties
<1>3. ASSUME NEW i \in 1 .. Len(s) PROVE s[i] = (<<Head(s)>> \o Tail(s))[i]
  BY <1>1, <1>3, HeadTailProperties, ConcatProperties
<1> QED
  BY <1>1, <1>2, <1>3, SeqEqual, ConcatProperties

\* The event the worker holds and has not yet given to o.
Pending(o) == IF worker.pc = "copy" \/ o \in worker.todo THEN worker.event ELSE <<>>

\* An observer has what was accepted, except the event in the hands of the
\* worker and those in the queue.
DeliveryInv ==
  /\ worker.pc \in {"copy", "observe"} => \E e \in Handlers : worker.event = <<e>>
  /\ worker.pc # "observe" => worker.todo = {}
  /\ \A o \in Early : accepted = (log[o] \o Pending(o)) \o events

IInv == SafeInv /\ DeliveryInv

LEMMA InitIInv == Init => IInv
<1> SUFFICES ASSUME Init PROVE DeliveryInv
  BY InitSafeInv DEF IInv
<1>1. ASSUME NEW o \in Early PROVE accepted = (log[o] \o Pending(o)) \o events
  <2>1. o \in Observers
    BY AuditAssumption
  <2>2. accepted = <<>> /\ log[o] = <<>> /\ Pending(o) = <<>> /\ events = <<>>
    BY <2>1 DEF Init, Pending
  <2>3. <<>> \in Seq(Handlers)
    OBVIOUS
  <2> QED
    BY <2>2, <2>3, ConcatEmptySeq
<1> QED
  BY <1>1 DEF Init, DeliveryInv

\* Every action moves each accepted event along, from the channel through the
\* worker to the observers.
LEMMA NextIInv == IInv /\ [Next]_vars => IInv'
<1> SUFFICES ASSUME IInv, [Next]_vars PROVE DeliveryInv'
  BY NextSafeInv DEF IInv
<1> USE AuditAssumption DEF IInv, SafeInv, TypeOK, DeliveryInv
<1>0. \A o \in Early : /\ log[o] \in Seq(Handlers) /\ Pending(o) \in Seq(Handlers)
                       /\ o \in observers
  BY DEF Pending
<1>1. ASSUME NEW o \in Observers, Subscribe(o) PROVE DeliveryInv'
  BY <1>1 DEF Subscribe, Pending, threadVars, outVars
<1>2. ASSUME NEW o \in Observers, Observe(o) PROVE DeliveryInv'
  <2>1. ~Ignores(o)
    BY <1>2 DEF Observe, Ignores, ChanInv
  <2>2. ASSUME NEW p \in Early PROVE accepted' = (log'[p] \o Pending(p)') \o events'
    <3>1. CASE p = o
      <4>1. Pending(p) = worker.event /\ Pending(p)' = <<>> /\ log'[p] = log[p] \o worker.event
        BY <1>2, <2>1, <3>1 DEF Observe, Pending
      <4>2. log[p] \o worker.event \in Seq(Handlers)
        BY <1>0, ConcatProperties
      <4>3. log'[p] \o Pending(p)' = log[p] \o Pending(p)
        BY <4>1, <4>2, ConcatEmptySeq
      <4> QED
        BY <1>2, <4>3 DEF Observe
    <3>2. CASE p # o
      <4>1. log'[p] = log[p] /\ Pending(p)' = Pending(p)
        BY <1>2, <3>2 DEF Observe, Pending
      <4> QED
        BY <1>2, <4>1 DEF Observe
    <3> QED
      BY <3>1, <3>2
  <2>3. worker'.pc = "observe" /\ worker'.event = worker.event /\ worker.pc = "observe"
    BY <1>2 DEF Observe
  <2> QED
    BY <2>2, <2>3
<1>3. ASSUME NEW h \in Handlers, NotifySend(h) PROVE DeliveryInv'
  <2>1. UNCHANGED <<worker, log>>
    BY <1>3 DEF NotifySend, outVars
  <2>2. CASE Accept(h)
    <3>1. ASSUME NEW o \in Early PROVE accepted' = (log'[o] \o Pending(o)') \o events'
      <4>1. Pending(o)' = Pending(o) /\ log'[o] = log[o]
        BY <2>1 DEF Pending
      <4>2. accepted' = accepted \o <<h>> /\ events' = events \o <<h>>
        BY <2>2, AppendIsConcat DEF Accept
      <4>3. /\ <<h>> \in Seq(Handlers) /\ events \in Seq(Handlers)
            /\ log[o] \o Pending(o) \in Seq(Handlers)
        BY <1>0, ConcatProperties
      <4>4. ((log[o] \o Pending(o)) \o events) \o <<h>>
              = (log[o] \o Pending(o)) \o (events \o <<h>>)
        <5> DEFINE s == log[o] \o Pending(o)
        <5> HIDE DEF s, IInv, SafeInv, TypeOK, DeliveryInv
        <5>1. s \in Seq(Handlers)
          BY <4>3 DEF s
        <5>2. (s \o events) \o <<h>> = s \o (events \o <<h>>)
          BY <4>3, <5>1, ConcatAssociative
        <5> QED
          BY <5>2 DEF s
      <4>5. accepted = (log[o] \o Pending(o)) \o events
        OBVIOUS
      <4> HIDE DEF IInv, SafeInv, TypeOK, DeliveryInv
      <4> QED
        BY <4>1, <4>2, <4>4, <4>5, Zenon
    <3> QED
      BY <2>1, <3>1
  <2>3. CASE UNCHANGED <<events, accepted>>
    BY <2>1, <2>3 DEF Pending
  <2> QED
    BY <1>3, <2>2, <2>3 DEF NotifySend
<1>4. ASSUME NEW h \in Handlers, NotifyRLock(h) \/ NotifyRUnlock(h) PROVE DeliveryInv'
  BY <1>4 DEF NotifyRLock, NotifyRUnlock, Pending, outVars
<1>5. ASSUME NEW c \in Closers, Close(c) PROVE DeliveryInv'
  <2>1. UNCHANGED <<worker, log, accepted, events>>
    BY <1>5 DEF Close, CloseLock, CloseMark, CloseWaited, CloseCopy, CloseReturn, CloseObserver,
                outVars
  <2> QED
    BY <2>1 DEF Pending
<1>6. CASE Take
  <2>1. worker' = [pc |-> "copy", event |-> <<Head(events)>>, todo |-> {}]
        /\ UNCHANGED <<log, accepted>> /\ worker.pc = "range" /\ worker.todo = {}
    BY <1>6 DEF Take, outVars
  <2>2. events \in Seq(Handlers) /\ events # <<>> /\ events' = Tail(events)
    BY <1>6 DEF Take
  <2>3. Head(events) \in Handlers /\ <<Head(events)>> \in Seq(Handlers)
        /\ Tail(events) \in Seq(Handlers)
    BY <2>2, HeadTailProperties
  <2>4. ASSUME NEW o \in Early PROVE accepted' = (log'[o] \o Pending(o)') \o events'
    <3>1. Pending(o) = <<>> /\ Pending(o)' = <<Head(events)>> /\ log'[o] = log[o]
      BY <2>1 DEF Pending
    <3>2. accepted = log[o] \o events
      <4>1. log[o] \o <<>> = log[o]
        BY <1>0, ConcatEmptySeq
      <4>2. accepted = (log[o] \o Pending(o)) \o events
        OBVIOUS
      <4> QED
        BY <3>1, <4>1, <4>2, Zenon
    <3>3. (log[o] \o <<Head(events)>>) \o Tail(events)
            = log[o] \o (<<Head(events)>> \o Tail(events))
      <4>1. log[o] \in Seq(Handlers)
        BY <1>0, Zenon
      <4> HIDE DEF IInv, SafeInv, TypeOK, DeliveryInv
      <4> QED
        BY <2>3, <4>1, ConcatAssociative
    <3>4. <<Head(events)>> \o Tail(events) = events
      BY <2>2, HeadThenTail
    <3>5. (log[o] \o <<Head(events)>>) \o Tail(events) = accepted
      BY <3>2, <3>3, <3>4, Zenon
    <3> QED
      BY <2>1, <2>2, <3>1, <3>5, Zenon
  <2> QED
    BY <2>1, <2>3, <2>4
<1>7. CASE CopyObservers
  <2>1. ASSUME NEW o \in Early PROVE Pending(o)' = Pending(o)
    BY <1>0, <1>7 DEF CopyObservers, Pending
  <2> QED
    BY <1>7, <2>1 DEF CopyObservers, outVars
<1>8. CASE NextEvent
  <2>1. ASSUME NEW o \in Early PROVE Pending(o)' = Pending(o)
    BY <1>8 DEF NextEvent, Pending
  <2> QED
    BY <1>8, <2>1 DEF NextEvent, outVars
<1>9. CASE WorkerExit
  <2>1. ASSUME NEW o \in Early PROVE Pending(o)' = Pending(o)
    BY <1>9 DEF WorkerExit, Pending
  <2> QED
    BY <1>9, <2>1 DEF WorkerExit, outVars
<1>10. CASE UNCHANGED vars
  BY <1>10 DEF vars, threadVars, outVars, Pending
<1> QED
  BY <1>1, <1>2, <1>3, <1>4, <1>5, <1>6, <1>7, <1>8, <1>9, <1>10
     DEF Next, Notify, Dispatch, Terminated

\* When the worker has left, nothing is on its way any more.
LEMMA NothingPending ==
  ASSUME IInv, worker.pc = "exited", NEW o \in Early
  PROVE  log[o] = accepted
<1>1. Pending(o) = <<>> /\ events = <<>>
  BY DEF IInv, SafeInv, ChanInv, DeliveryInv, Pending
<1>2. log[o] \in Seq(Handlers)
  BY AuditAssumption DEF IInv, SafeInv, TypeOK
<1>3. accepted = (log[o] \o Pending(o)) \o events
  BY DEF IInv, DeliveryInv
<1> QED
  BY <1>1, <1>2, <1>3, ConcatEmptySeq

\* A Close that has returned from wg.Wait leaves no accepted event undelivered.
THEOREM CloseDeliversHolds == Spec => []CloseDelivers
<1>1. IInv => CloseDelivers
  BY NothingPending DEF CloseDelivers, IInv, SafeInv, ChanInv
<1> QED
  BY <1>1, InitIInv, NextIInv, PTL DEF Spec

-----------------------------------------------------------------------------
(* The subject implements the best-effort log.                             *)

EarlyLog == [o \in Early |-> log[o]]

LEMMA InitPromise == Init => Promise!Init
BY AuditAssumption DEF Init, Promise!Init

\* An observer that still waits for the event in the worker's hands gets the
\* one that follows what it has.
LEMMA ObserveDelivers ==
  ASSUME IInv, NEW o \in Early, Observe(o)
  PROVE  Promise!Deliver(o)
<1> USE AuditAssumption
<1>1. /\ log[o] \in Seq(Handlers) /\ events \in Seq(Handlers)
      /\ worker.pc = "observe" /\ o \in worker.todo
      /\ accepted' = accepted
  BY DEF IInv, SafeInv, TypeOK, Observe
<1>2. PICK e \in Handlers : worker.event = <<e>>
  BY <1>1 DEF IInv, DeliveryInv
<1>3. accepted = (log[o] \o <<e>>) \o events
  BY <1>1, <1>2 DEF IInv, DeliveryInv, Pending
<1>4. /\ log[o] \o <<e>> = Append(log[o], e) /\ Append(log[o], e) \in Seq(Handlers)
      /\ Len(Append(log[o], e)) = Len(log[o]) + 1 /\ Append(log[o], e)[Len(log[o]) + 1] = e
      /\ Len(log[o]) \in Nat
  BY <1>1, AppendIsConcat, AppendProperties, LenProperties
<1>5. Len(log[o]) < Len(accepted) /\ accepted[Len(log[o]) + 1] = e
  <2> DEFINE s == log[o] \o <<e>>
  <2>1. s \in Seq(Handlers) /\ Len(s) = Len(log[o]) + 1 /\ s[Len(s)] = e
    BY <1>4
  <2> HIDE DEF s
  <2>2. Len(s \o events) = Len(s) + Len(events)
    BY <1>1, <2>1, ConcatProperties
  <2>4. Len(s) \in 1 .. Len(s) /\ Len(s) \in 1 .. (Len(s) + Len(events))
    BY <1>1, <1>4, <2>1, LenProperties
  <2>5. (s \o events)[Len(s)] = s[Len(s)]
    BY <1>1, <2>1, <2>4
  <2>3. accepted = s \o events
    BY <1>3 DEF s
  <2> QED
    BY <1>1, <1>4, <2>1, <2>2, <2>3, <2>5, LenProperties
<1>6. log' = [log EXCEPT ![o] = Append(@, e)]
  <2>1. ~Ignores(o)
    BY DEF IInv, SafeInv, ChanInv, Observe, Ignores
  <2>2. log' = [log EXCEPT ![o] = log[o] \o worker.event]
    BY <2>1 DEF Observe
  <2> QED
    BY <1>2, <1>4, <2>2
<1>7. log \in [Observers -> Seq(Handlers)] /\ o \in Observers
  BY DEF IInv, SafeInv, TypeOK
<1>8. EarlyLog' = [EarlyLog EXCEPT ![o] = Append(@, accepted[Len(@) + 1])]
  BY <1>5, <1>6, <1>7 DEF EarlyLog
<1>9. worker.pc # "exited" /\ worker'.pc = worker.pc
  BY <1>1 DEF IInv, SafeInv, TypeOK, Observe
<1>10. EarlyLog[o] = log[o]
  BY DEF EarlyLog
<1> QED
  BY <1>1, <1>5, <1>8, <1>9, <1>10 DEF Promise!Deliver, EarlyLog

\* Every step of the subject is a step of the log, or none.
LEMMA NextPromise == IInv /\ [Next]_vars => [Promise!Next]_Promise!vars
<1> SUFFICES ASSUME IInv, [Next]_vars PROVE Promise!Next \/ UNCHANGED Promise!vars
  OBVIOUS
<1> USE AuditAssumption
<1> DEFINE Goal == Promise!Next \/ UNCHANGED Promise!vars
<1>0. worker \in [pc : {"range", "copy", "observe", "exited"}, event : Seq(Handlers),
                  todo : SUBSET Observers]
  BY DEF IInv, SafeInv, TypeOK
<1>1. ASSUME NEW o \in Observers, Observe(o) PROVE Goal
  <2>1. CASE o \in Early
    BY <1>1, <2>1, ObserveDelivers DEF Promise!Next
  <2>2. CASE o \notin Early
    <3>1. \A p \in Early : log'[p] = log[p]
      BY <1>1, <2>2 DEF Observe, IInv, SafeInv, TypeOK
    <3>2. EarlyLog' = EarlyLog
      BY <3>1 DEF EarlyLog
    <3>3. worker'.pc = worker.pc /\ accepted' = accepted
      BY <1>0, <1>1 DEF Observe
    <3> QED
      BY <3>2, <3>3 DEF Promise!vars, EarlyLog
  <2> QED
    BY <2>1, <2>2
<1>2. ASSUME NEW h \in Handlers, NotifySend(h) PROVE Goal
  <2>1. UNCHANGED <<worker, log>>
    BY <1>2 DEF NotifySend, outVars
  <2>2. worker.pc # "exited"
    BY <1>2 DEF NotifySend, IInv, SafeInv, ChanInv
  <2>3. CASE Accept(h)
    <3>1. Promise!Accept(h)
      BY <2>1, <2>2, <2>3 DEF Accept, Promise!Accept
    <3> QED
      BY <3>1 DEF Promise!Next
  <2>4. CASE UNCHANGED accepted
    BY <2>1, <2>4 DEF Promise!vars
  <2> QED
    BY <1>2, <2>3, <2>4 DEF NotifySend
<1>3. CASE WorkerExit
  <2>1. worker'.pc = "exited" /\ UNCHANGED <<log, accepted>> /\ worker.pc = "range" /\ events = <<>>
    BY <1>0, <1>3 DEF WorkerExit, RangeOver, outVars
  <2>2. ASSUME NEW o \in Early PROVE log[o] = accepted
    <3>1. log[o] \in Seq(Handlers) /\ Pending(o) = <<>>
      BY <2>1 DEF IInv, SafeInv, TypeOK, DeliveryInv, Pending
    <3>2. accepted = (log[o] \o Pending(o)) \o events
      BY DEF IInv, DeliveryInv
    <3>3. log[o] \o <<>> = log[o]
      BY <3>1, ConcatEmptySeq
    <3> QED
      BY <2>1, <3>1, <3>2, <3>3
  <2>3. Promise!Finish
    BY <2>1, <2>2 DEF Promise!Finish
  <2> QED
    BY <2>3 DEF Promise!Next
<1>4. ASSUME NEW h \in Handlers, NotifyRLock(h) \/ NotifyRUnlock(h) PROVE Goal
  BY <1>4 DEF NotifyRLock, NotifyRUnlock, outVars, Promise!vars
<1>5. ASSUME NEW c \in Closers, Close(c) PROVE Goal
  <2>1. UNCHANGED <<worker, log, accepted>>
    BY <1>5 DEF Close, CloseLock, CloseMark, CloseWaited, CloseCopy, CloseReturn, CloseObserver,
                outVars
  <2> QED
    BY <2>1 DEF Promise!vars
<1>6. CASE Take \/ CopyObservers \/ NextEvent
  <2> DEFINE Running == worker.pc # "exited" /\ worker'.pc # "exited" /\ UNCHANGED <<log, accepted>>
  <2>1. ASSUME Take PROVE Running
    BY <2>1 DEF Take, outVars
  <2>2. ASSUME CopyObservers PROVE Running
    BY <1>0, <2>2 DEF CopyObservers, outVars
  <2>3. ASSUME NextEvent PROVE Running
    BY <2>3 DEF NextEvent, outVars
  <2>4. worker.pc # "exited" /\ worker'.pc # "exited" /\ UNCHANGED <<log, accepted>>
    BY <1>6, <2>1, <2>2, <2>3
  <2> QED
    BY <2>4 DEF Promise!vars
<1>7. ASSUME NEW o \in Observers, Subscribe(o) PROVE Goal
  BY <1>7 DEF Subscribe, threadVars, outVars, Promise!vars
<1>8. CASE UNCHANGED vars
  BY <1>8 DEF vars, threadVars, outVars, Promise!vars
<1> QED
  BY <1>1, <1>2, <1>3, <1>4, <1>5, <1>6, <1>7, <1>8 DEF Next, Notify, Dispatch, Terminated

\* The subject implements AuditLog for the observers of newAuditor.
THEOREM SubjectImplementsLog == Spec => ImplementsLog
<1>1. Init => Promise!Init
  BY InitPromise
<1>2. IInv /\ [Next]_vars => [Promise!Next]_Promise!vars
  BY NextPromise
<1> QED
  BY <1>1, <1>2, InitIInv, NextIInv, PTL DEF Spec, ImplementsLog, Promise!Spec

-----------------------------------------------------------------------------
(* Who waits for whom.  The lock is held for writing only by a Close whose   *)
(* next step needs nothing, and for reading by handlers that do not wait.    *)

WaitInv ==
  /\ \A c \in Closers : writer = c => closer[c] = "mark"
  /\ \A c \in Closers : closer[c] \in {"wait", "copy", "close", "done"} => closed

\* The guards of the steps of a handler, of a closer and of the worker.
HandlerReady(h) ==
  \/ notifier[h] = "call" /\ RLockFree
  \/ notifier[h] = "send" /\ (chan = "closed" \/ Len(events) < BufferSize \/ WhenFull)
  \/ notifier[h] = "runlock"

CloserReady(c) ==
  \/ closer[c] \in {"call", "copy"} /\ LockFree
  \/ closer[c] \in {"mark", "close"}
  \/ closer[c] = "wait" /\ WorkerGone

WorkerReady ==
  \/ worker.pc = "range" /\ (events # <<>> \/ RangeOver)
  \/ worker.pc = "copy" /\ RLockFree
  \/ worker.pc = "observe"

Marking == \E c \in Closers : closer[c] = "mark"

NobodyStuck ==
  /\ \A h \in Handlers : notifier[h] # "done" => HandlerReady(h) \/ Marking
  /\ \A c \in Closers : closer[c] # "done" =>
       \/ CloserReady(c) \/ Marking
       \/ \E h \in readers : HandlerReady(h)
       \/ closer[c] = "wait" /\ WorkerReady

LEMMA InitWaitInv == Init => WaitInv
BY AuditAssumption DEF Init, WaitInv

LEMMA NextWaitInv == SafeInv /\ WaitInv /\ [Next]_vars => WaitInv'
<1> SUFFICES ASSUME SafeInv, WaitInv, [Next]_vars PROVE WaitInv'
  OBVIOUS
<1>1. writer \in Closers \cup {NoOne} /\ NoOne \notin Closers /\ DOMAIN closer = Closers
      /\ \A c \in Closers : closer[c] = "mark" => writer = c
  BY AuditAssumption DEF SafeInv, TypeOK, LockInv
<1>2. ASSUME NEW c \in Closers, CloseLock(c) PROVE WaitInv'
  BY <1>1, <1>2 DEF WaitInv, CloseLock
<1>3. ASSUME NEW c \in Closers, CloseMark(c) PROVE WaitInv'
  BY <1>1, <1>3 DEF WaitInv, CloseMark, AfterMark
<1>4. ASSUME NEW c \in Closers, CloseWaited(c) \/ CloseCopy(c) \/ CloseReturn(c) PROVE WaitInv'
  <2>1. UNCHANGED <<writer, closed>> /\ closed
    BY <1>4 DEF WaitInv, CloseWaited, CloseCopy, CloseReturn, lockVars
  <2>2. \A d \in Closers : writer # d \/ (d # c /\ closer'[d] = closer[d])
    BY <1>1, <1>4 DEF WaitInv, CloseWaited, CloseCopy, CloseReturn
  <2> QED
    BY <2>1, <2>2 DEF WaitInv
<1>5. CASE UNCHANGED <<writer, closer, closed>>
  BY <1>5 DEF WaitInv
<1>6. \/ \E c \in Closers : \/ CloseLock(c) \/ CloseMark(c)
                           \/ CloseWaited(c) \/ CloseCopy(c) \/ CloseReturn(c)
      \/ UNCHANGED <<writer, closer, closed>>
  <2>1. CASE \E o \in Observers : Subscribe(o) \/ Observe(o)
    BY <2>1 DEF Subscribe, Observe, lockVars, threadVars
  <2>2. CASE \E h \in Handlers : Notify(h)
    BY <2>2 DEF Notify, NotifyRLock, NotifySend, NotifyRUnlock, lockVars
  <2>3. CASE \E c \in Closers : Close(c)
    BY <2>3 DEF Close, CloseObserver, lockVars
  <2>4. CASE Dispatch
    BY <2>4 DEF Dispatch, Take, CopyObservers, NextEvent, WorkerExit, lockVars
  <2>5. CASE UNCHANGED vars
    BY <2>5 DEF vars, lockVars, threadVars
  <2> QED
    BY <2>1, <2>2, <2>3, <2>4, <2>5 DEF Next, Terminated
<1> QED
  BY <1>2, <1>3, <1>4, <1>5, <1>6

\* A handler that has the lock does not wait for room, and a queue that is
\* closed is there to be emptied.
LEMMA FreeOfWaits == SafeInv /\ WaitInv => NobodyStuck
<1> SUFFICES ASSUME SafeInv, WaitInv PROVE NobodyStuck
  OBVIOUS
<1>1. /\ writer \in Closers \cup {NoOne} /\ readers = {h \in Handlers : notifier[h] \in {"send", "runlock"}}
      /\ Len(events) \in Nat /\ BufferSize \in Nat
      /\ worker.pc \in {"range", "copy", "observe", "exited"}
      /\ notifier \in [Handlers -> {"call", "send", "runlock", "done"}]
      /\ closer \in [Closers -> {"call", "mark", "wait", "copy", "close", "done"}]
  BY AuditAssumption DEF SafeInv, TypeOK, LockInv
<1>2. RLockFree \/ Marking
  BY <1>1 DEF RLockFree, Marking, WaitInv
<1>3. ASSUME NEW h \in readers PROVE HandlerReady(h)
  BY <1>1 DEF HandlerReady, WhenFull
<1>4. ASSUME NEW h \in Handlers, notifier[h] # "done" PROVE HandlerReady(h) \/ Marking
  <2>1. notifier[h] = "call" \/ h \in readers
    BY <1>1, <1>4
  <2> QED
    BY <1>2, <1>3, <2>1 DEF HandlerReady
<1>5. ASSUME NEW c \in Closers, closer[c] # "done"
      PROVE  \/ CloserReady(c) \/ Marking
             \/ \E h \in readers : HandlerReady(h)
             \/ closer[c] = "wait" /\ WorkerReady
  <2>1. CASE closer[c] \in {"call", "copy"}
    BY <1>2, <1>3, <2>1 DEF CloserReady, LockFree, RLockFree
  <2>2. CASE closer[c] \in {"mark", "close"}
    BY <2>2 DEF CloserReady
  <2>3. CASE closer[c] = "wait"
    <3>1. chan = "closed"
      BY <2>3 DEF WaitInv, SafeInv, ChanInv
    <3>2. WorkerGone \/ WorkerReady \/ Marking
      BY <1>1, <1>2, <3>1 DEF WorkerGone, WorkerReady, RangeOver
    <3> QED
      BY <2>3, <3>2 DEF CloserReady
  <2> QED
    BY <1>1, <1>5, <2>1, <2>2, <2>3
<1> QED
  BY <1>4, <1>5 DEF NobodyStuck

\* Nobody is ever stuck.  A handler in Notify can take its next step, or waits
\* for the one step of a Close that is about to set the flag: never for an
\* observer, for room in the queue or for the rest of a Close.  A Close waits for
\* such a step, for handlers that can go on, or for a worker that can.
THEOREM NobodyStuckHolds == Spec => []NobodyStuck
BY InitSafeInv, NextSafeInv, InitWaitInv, NextWaitInv, FreeOfWaits, PTL DEF Spec
=============================================================================

---------------------------- MODULE AuditSubject ----------------------------
(***************************************************************************)
(* The audit subject of the server: handlers call Notify after a           *)
(* successful write, a background goroutine dispatches the events to the   *)
(* observers (a file, a URL), Close stops it and closes the observers.     *)
(*                                                                         *)
(* Data.  An event is identified by the handler that notifies it.  The     *)
(* code calls the observers in the order they subscribed; here any order   *)
(* is possible, and no property depends on it.                             *)
(***************************************************************************)
EXTENDS Naturals, Sequences, FiniteSets

CONSTANTS
  Handlers,   \* goroutines that call Notify, once each
  Closers,    \* goroutines that call Close
  Observers,
  Files,      \* the observers that have a Close: FileObserver
  Early,      \* the observers subscribed before any handler runs (newAuditor)
  BufferSize, \* eventBufferSize, 64 in the code
  NoOne       \* nobody holds the write lock

ASSUME AuditAssumption ==
  /\ Files \subseteq Observers /\ Early \subseteq Observers
  /\ Closers \cap Handlers = {} /\ NoOne \notin Closers
  /\ BufferSize \in Nat \ {0}

VARIABLES
  readers,   \* mu: the handlers that hold it for reading
  writer,    \* ... and who holds it for writing
  observers, \* those subscribed
  events,    \* the channel
  chan,      \* ... whether it is closed
  closed,    \* the flag beside it
  notifier,  \* where each handler is in Notify
  closer,    \* where each closer is in Close
  toClose,   \* the copy of observers it works on
  worker,    \* dispatch: [pc, event, todo]
  file,      \* whether a file is open
  log,       \* what each observer has written or posted
  accepted,  \* history: the events that entered the channel
  panicked   \* a send on, or a close of, a closed channel

lockVars   == <<readers, writer>>
threadVars == <<notifier, closer, toClose, worker>>
outVars    == <<file, log>>
vars == <<lockVars, observers, events, chan, closed, threadVars, outVars, accepted, panicked>>

Init ==
  /\ readers = {} /\ writer = NoOne
  /\ observers = Early
  /\ events = <<>> /\ chan = "open" /\ closed = FALSE
  /\ notifier = [h \in Handlers |-> "call"]
  /\ closer = [c \in Closers |-> "call"]
  /\ toClose = [c \in Closers |-> {}]
  /\ worker = [pc |-> "range", event |-> <<>>, todo |-> {}]
  /\ file = [o \in Files |-> "open"]
  /\ log = [o \in Observers |-> <<>>]
  /\ accepted = <<>>
  /\ panicked = FALSE

-----------------------------------------------------------------------------
(* sync.RWMutex *)

\* Mutant of LockFree: the write lock does not wait for the readers.
WriterFree == writer = NoOne

RLockFree == writer = NoOne
LockFree  == writer = NoOne /\ readers = {}

Subscribe(o) ==
  /\ o \notin observers
  /\ LockFree
  /\ observers' = observers \cup {o}
  /\ UNCHANGED <<lockVars, events, chan, closed, threadVars, outVars, accepted, panicked>>

-----------------------------------------------------------------------------
(* Notify *)

NotifyRLock(h) ==
  /\ notifier[h] = "call"
  /\ RLockFree
  /\ readers' = readers \cup {h}
  /\ notifier' = [notifier EXCEPT ![h] = IF closed THEN "runlock" ELSE "send"]
  /\ UNCHANGED <<writer, observers, events, chan, closed, closer, toClose, worker, outVars,
                 accepted, panicked>>

NotifyRUnlock(h) ==
  /\ notifier[h] = "runlock"
  /\ readers' = readers \ {h}
  /\ notifier' = [notifier EXCEPT ![h] = "done"]
  /\ UNCHANGED <<writer, observers, events, chan, closed, closer, toClose, worker, outVars,
                 accepted, panicked>>

\* Mutant of Accept: a queue without a limit.
AcceptAlways(h) ==
  /\ events' = Append(events, h)
  /\ accepted' = Append(accepted, h)

Accept(h) ==
  /\ Len(events) < BufferSize
  /\ events' = Append(events, h)
  /\ accepted' = Append(accepted, h)

\* Mutant of WhenFull: the send waits for room.
WaitForRoom == FALSE

\* The default branch of the select: the event is dropped.
WhenFull == Len(events) >= BufferSize

NotifySend(h) ==
  /\ notifier[h] = "send"
  /\ IF chan = "closed"
     THEN panicked' = TRUE /\ UNCHANGED <<events, accepted>>
     ELSE /\ \/ Accept(h)
             \/ WhenFull /\ UNCHANGED <<events, accepted>>
          /\ UNCHANGED panicked
  /\ notifier' = [notifier EXCEPT ![h] = "runlock"]
  /\ UNCHANGED <<lockVars, observers, chan, closed, closer, toClose, worker, outVars>>

-----------------------------------------------------------------------------
(* Close *)

CloseLock(c) ==
  /\ closer[c] = "call"
  /\ LockFree
  /\ writer' = c
  /\ closer' = [closer EXCEPT ![c] = "mark"]
  /\ UNCHANGED <<readers, observers, events, chan, closed, notifier, toClose, worker, outVars,
                 accepted, panicked>>

\* Mutant of FirstClose: every Close closes the channel.
EveryClose == TRUE

FirstClose == ~closed

\* Mutant of AfterMark: the lock is held while Close waits.
LockKept == writer

AfterMark == NoOne

CloseMark(c) ==
  /\ closer[c] = "mark"
  /\ closed' = TRUE
  /\ IF FirstClose
     THEN chan' = "closed" /\ panicked' = (panicked \/ chan = "closed")
     ELSE UNCHANGED <<chan, panicked>>
  /\ writer' = AfterMark
  /\ closer' = [closer EXCEPT ![c] = "wait"]
  /\ UNCHANGED <<readers, observers, events, notifier, toClose, worker, outVars, accepted>>

\* Mutant of WorkerGone: Close does not wait for the worker.
WorkerIgnored == TRUE

\* wg.Wait() has returned.
WorkerGone == worker.pc = "exited"

CloseWaited(c) ==
  /\ closer[c] = "wait"
  /\ WorkerGone
  /\ closer' = [closer EXCEPT ![c] = "copy"]
  /\ UNCHANGED <<lockVars, observers, events, chan, closed, notifier, toClose, worker, outVars,
                 accepted, panicked>>

CloseCopy(c) ==
  /\ closer[c] = "copy"
  /\ LockFree
  /\ toClose' = [toClose EXCEPT ![c] = observers]
  /\ closer' = [closer EXCEPT ![c] = "close"]
  /\ UNCHANGED <<lockVars, observers, events, chan, closed, notifier, worker, outVars, accepted,
                 panicked>>

\* Only a FileObserver has a Close; closing it again changes nothing.
CloseObserver(c, o) ==
  /\ closer[c] = "close"
  /\ o \in toClose[c]
  /\ toClose' = [toClose EXCEPT ![c] = @ \ {o}]
  /\ file' = [f \in Files |-> IF f = o THEN "closed" ELSE file[f]]
  /\ UNCHANGED <<lockVars, observers, events, chan, closed, notifier, closer, worker, log,
                 accepted, panicked>>

CloseReturn(c) ==
  /\ closer[c] = "close"
  /\ toClose[c] = {}
  /\ closer' = [closer EXCEPT ![c] = "done"]
  /\ UNCHANGED <<lockVars, observers, events, chan, closed, notifier, toClose, worker, outVars,
                 accepted, panicked>>

-----------------------------------------------------------------------------
(* dispatch *)

Take ==
  /\ worker.pc = "range"
  /\ events # <<>>
  /\ worker' = [pc |-> "copy", event |-> <<Head(events)>>, todo |-> {}]
  /\ events' = Tail(events)
  /\ UNCHANGED <<lockVars, observers, chan, closed, notifier, closer, toClose, outVars, accepted,
                 panicked>>

CopyObservers ==
  /\ worker.pc = "copy"
  /\ RLockFree
  /\ worker' = [worker EXCEPT !.pc = "observe", !.todo = observers]
  /\ UNCHANGED <<lockVars, observers, events, chan, closed, notifier, closer, toClose, outVars,
                 accepted, panicked>>

\* A FileObserver that has been closed ignores the event.
Ignores(o) == o \in Files /\ file[o] = "closed"

\* Observe returns: a line has been written, or the POST has ended, or its
\* three seconds have passed.
Observe(o) ==
  /\ worker.pc = "observe"
  /\ o \in worker.todo
  /\ worker' = [worker EXCEPT !.todo = @ \ {o}]
  /\ log' = IF Ignores(o) THEN log ELSE [log EXCEPT ![o] = @ \o worker.event]
  /\ UNCHANGED <<lockVars, observers, events, chan, closed, notifier, closer, toClose, file,
                 accepted, panicked>>

NextEvent ==
  /\ worker.pc = "observe"
  /\ worker.todo = {}
  /\ worker' = [pc |-> "range", event |-> <<>>, todo |-> {}]
  /\ UNCHANGED <<lockVars, observers, events, chan, closed, notifier, closer, toClose, outVars,
                 accepted, panicked>>

\* Mutant of RangeOver: the worker leaves as soon as the channel is closed.
ChannelClosed == chan = "closed"

\* range ends when the channel is closed and empty.
RangeOver == chan = "closed" /\ events = <<>>

WorkerExit ==
  /\ worker.pc = "range"
  /\ RangeOver
  /\ worker' = [worker EXCEPT !.pc = "exited"]
  /\ UNCHANGED <<lockVars, observers, events, chan, closed, notifier, closer, toClose, outVars,
                 accepted, panicked>>

-----------------------------------------------------------------------------
Terminated ==
  /\ \A h \in Handlers : notifier[h] = "done"
  /\ \A c \in Closers : closer[c] = "done"
  /\ UNCHANGED vars

Notify(h) == NotifyRLock(h) \/ NotifySend(h) \/ NotifyRUnlock(h)

Close(c) ==
  \/ CloseLock(c) \/ CloseMark(c) \/ CloseWaited(c) \/ CloseCopy(c) \/ CloseReturn(c)
  \/ \E o \in Observers : CloseObserver(c, o)

Dispatch == Take \/ CopyObservers \/ NextEvent \/ WorkerExit

\* A panic ends the process: what follows it here means nothing.
Next ==
  \/ \E o \in Observers : Subscribe(o) \/ Observe(o)
  \/ \E h \in Handlers : Notify(h)
  \/ \E c \in Closers : Close(c)
  \/ Dispatch
  \/ Terminated

Spec == Init /\ [][Next]_vars

\* Handlers and closers do what they came for; no observer is assumed to return.
SlowSpec ==
  /\ Spec
  /\ \A h \in Handlers : WF_vars(Notify(h))
  /\ \A c \in Closers : SF_vars(Close(c))

-----------------------------------------------------------------------------
(* Properties *)

TypeOK ==
  /\ readers \subseteq Handlers /\ writer \in Closers \cup {NoOne}
  /\ observers \subseteq Observers /\ Early \subseteq observers
  /\ events \in Seq(Handlers) /\ Len(events) <= BufferSize
  /\ chan \in {"open", "closed"} /\ closed \in BOOLEAN /\ panicked \in BOOLEAN
  /\ notifier \in [Handlers -> {"call", "send", "runlock", "done"}]
  /\ closer \in [Closers -> {"call", "mark", "wait", "copy", "close", "done"}]
  /\ toClose \in [Closers -> SUBSET Observers]
  /\ worker \in [pc : {"range", "copy", "observe", "exited"}, event : Seq(Handlers),
                 todo : SUBSET Observers]
  /\ file \in [Files -> {"open", "closed"}]
  /\ log \in [Observers -> Seq(Handlers)]
  /\ accepted \in Seq(Handlers)

\* Notify never sends on a closed channel, however it races with Close, and a
\* repeated Close does not close it twice: either would bring the server down.
NeverPanics == ~panicked

\* Past its wg.Wait, Close finds every accepted event with every observer: none
\* is still queued, and none comes to a file that has just been closed.
CloseDelivers ==
  \A c \in Closers : closer[c] \in {"copy", "close", "done"} =>
    \A o \in Early : log[o] = accepted

\* The subject is a best-effort log for the observers that were there from the
\* start.
Promise == INSTANCE AuditLog
  WITH Events <- Handlers, Observers <- Early,
       log <- [o \in Early |-> log[o]], finished <- worker.pc = "exited"
ImplementsLog == Promise!Spec

\* "Notify returns at once": no handler is held by a slow observer, nor by a
\* Close that waits for one.
NotifyReturns == <>(\A h \in Handlers : notifier[h] = "done")

\* The worker runs, and Observe ends: HTTPObserver has a timeout.
ObserversReturn == WF_vars(Dispatch) /\ \A o \in Observers : WF_vars(Observe(o))

\* If the observers return, so does every Close, and the queue is empty by then.
CloseReturns ==
  ObserversReturn => \A c \in Closers : <>(closer[c] = "done" /\ events = <<>>)
=============================================================================

--------------------------- MODULE PostgresStore ---------------------------
(***************************************************************************)
(* postgres.Storage: concurrent handlers call SaveCounter, SaveGauge and   *)
(* SaveBatch, each under retry.Do, over a pool of connections; GET / reads *)
(* all counters, then all gauges.                                          *)
(*                                                                         *)
(* PostgreSQL is modelled by what the code relies on: READ COMMITTED, an   *)
(* upsert locks its row until the end of its transaction, a cycle of       *)
(* waiting transactions is broken by failing one of them, a bigint does    *)
(* not wrap, and the connection may be lost before or after a commit has   *)
(* taken effect, with an error that isRetriable knows or with another.  A  *)
(* transaction whose connection is lost ends at once.                      *)
(*                                                                         *)
(* Data.  A statement is a row [key, delta]; a gauge is a row with delta   *)
(* 0, and its value is the caller that wrote it.                           *)
(***************************************************************************)
EXTENDS Integers, Sequences, FiniteSets, Sums

CONSTANTS
  Callers,      \* handlers, one call each
  Rows,         \* [Callers -> sequences of rows]
  Single,       \* the callers of SaveCounter or SaveGauge
  Keys,
  MaxBigint,    \* 2^63 - 1 in the code
  MaxOpenConns, \* 10 in the code
  MaxAttempts,  \* 4 in the code
  MaxFaults,    \* bound: lost connections
  Impatient,    \* the callers whose clients may give up their request
  Nobody

ASSUME PostgresAssumption ==
  /\ IsFiniteSet(Callers) /\ Nobody \notin Callers
  /\ Rows \in [Callers -> Seq([key : Keys, delta : Int])]
  /\ Single \subseteq Callers
  /\ \A c \in Callers : Rows[c] # <<>> /\ (c \in Single => Len(Rows[c]) = 1)
  /\ {MaxOpenConns, MaxAttempts} \subseteq Nat \ {0} /\ {MaxBigint, MaxFaults} \subseteq Nat
  /\ Impatient \subseteq Callers

\* What a counter of the table can hold.
Bigint == -MaxBigint - 1 .. MaxBigint

VARIABLES
  pc,         \* where each caller is
  attempt,    \* the attempt of its retry.Do
  row,        \* the statement it executes next
  cancelled,  \* whether the context of its request is done
  conns,      \* the callers that hold a connection
  lock,       \* who holds the lock of each row of the table
  sum, last,  \* the table: counters, and who wrote each gauge
  committed,  \* history: how often each call has been committed
  lost,       \* history: how often without the caller knowing
  faults,
  page        \* GET /: the query it is at, the tables it has read, those that
              \* failed, the calls acked before it, and how often its counters have
              \* seen each call committed

callVars  == <<pc, attempt, row>>
tableVars == <<sum, last>>
histVars  == <<committed, lost>>
vars == <<callVars, cancelled, conns, lock, tableVars, histVars, faults, page>>

NoPage == [pc |-> 0, counters |-> [k \in Keys |-> 0], gauges |-> [k \in Keys |-> Nobody],
           failed |-> {}, acked |-> {}, seen |-> [c \in Callers |-> 0]]

Init ==
  /\ pc = [c \in Callers |-> "idle"]
  /\ attempt = [c \in Callers |-> 0]
  /\ row = [c \in Callers |-> 1]
  /\ cancelled = {}
  /\ conns = {}
  /\ lock = [k \in Keys |-> Nobody]
  /\ sum = [k \in Keys |-> 0] /\ last = [k \in Keys |-> Nobody]
  /\ committed = [c \in Callers |-> 0] /\ lost = [c \in Callers |-> 0]
  /\ faults = 0
  /\ page = NoPage

-----------------------------------------------------------------------------
(* retry.Do and the pool of connections *)

\* Whether the call touches k, and what its first n rows add to k.
Touches(c, k) == \E i \in 1 .. Len(Rows[c]) : Rows[c][i].key = k
Part(c, k) == [i \in 1 .. Len(Rows[c]) |-> IF Rows[c][i].key = k THEN Rows[c][i].delta ELSE 0]
Added == [c \in Callers |-> [n \in 0 .. Len(Rows[c]) |-> [k \in Keys |-> SumTo(Part(c, k), n)]]]
Delta(c, k) == Added[c][Len(Rows[c])][k]

Call(c) ==
  /\ pc[c] = "idle"
  /\ pc' = [pc EXCEPT ![c] = IF c \in cancelled THEN "error" ELSE "conn"]
  /\ attempt' = [attempt EXCEPT ![c] = 1]
  /\ UNCHANGED <<row, cancelled, conns, lock, tableVars, histVars, faults, page>>

CancelRequest(c) ==
  /\ c \in Impatient \ cancelled
  /\ pc[c] \notin {"ok", "error"}
  /\ cancelled' = cancelled \cup {c}
  /\ UNCHANGED <<callVars, conns, lock, tableVars, histVars, faults, page>>

FreeConn == Cardinality(conns) < MaxOpenConns

\* BeginTx; a single statement needs no transaction of its own.
Begin(c) ==
  /\ pc[c] = "conn"
  /\ FreeConn
  /\ conns' = conns \cup {c}
  /\ row' = [row EXCEPT ![c] = 1]
  /\ pc' = [pc EXCEPT ![c] = IF c \in Single THEN "rows" ELSE "prepare"]
  /\ UNCHANGED <<attempt, cancelled, lock, tableVars, histVars, faults, page>>

\* Mutant of CanPrepare: the statements are prepared on the pool.
PrepareOnPool(c) == FreeConn

\* They are prepared on the connection of the transaction.
CanPrepare(c) == c \in conns

Prepare(c) ==
  /\ pc[c] = "prepare"
  /\ CanPrepare(c)
  /\ pc' = [pc EXCEPT ![c] = "rows"]
  /\ UNCHANGED <<attempt, row, cancelled, conns, lock, tableVars, histVars, faults, page>>

\* Mutant of Release: a transaction that fails keeps its connection.
KeepConn(c) == conns' = conns /\ lock' = [k \in Keys |-> IF lock[k] = c THEN Nobody ELSE lock[k]]

\* The end of a transaction, by Commit or by the deferred Rollback.
Release(c) ==
  /\ conns' = conns \ {c}
  /\ lock' = [k \in Keys |-> IF lock[k] = c THEN Nobody ELSE lock[k]]

\* Mutant of Retries: the attempts are not counted.
RetriesForEver(c) == c \notin cancelled

\* A retriable error: after the pause, unless the context is done.
Retries(c) == attempt[c] < MaxAttempts /\ c \notin cancelled

Fail(c, retriable) ==
  IF retriable /\ Retries(c)
  THEN pc' = [pc EXCEPT ![c] = "conn"] /\ attempt' = [attempt EXCEPT ![c] = @ + 1]
  ELSE pc' = [pc EXCEPT ![c] = "error"] /\ UNCHANGED attempt

-----------------------------------------------------------------------------
(* The statements *)

Statement(c) == Rows[c][row[c]]

RowsFree(c) == lock[Statement(c).key] \in {c, Nobody}

Overflows(c) ==
  sum[Statement(c).key] + Added[c][row[c]][Statement(c).key] \notin Bigint

\* Mutant of RowEffect: the statement is executed outside the transaction.
AutoCommit(c) ==
  /\ sum' = [sum EXCEPT ![Statement(c).key] = @ + Statement(c).delta]
  /\ UNCHANGED last

\* Nobody sees it before the commit.
RowEffect(c) == UNCHANGED tableVars

Execute(c) ==
  /\ pc[c] = "rows"
  /\ RowsFree(c)
  /\ ~Overflows(c)
  /\ lock' = [lock EXCEPT ![Statement(c).key] = c]
  /\ RowEffect(c)
  /\ IF row[c] = Len(Rows[c])
     THEN pc' = [pc EXCEPT ![c] = "commit"] /\ UNCHANGED row
     ELSE row' = [row EXCEPT ![c] = @ + 1] /\ UNCHANGED pc
  /\ UNCHANGED <<attempt, cancelled, conns, histVars, faults, page>>

\* 22003, numeric value out of range.
OutOfRange(c) ==
  /\ pc[c] = "rows"
  /\ RowsFree(c)
  /\ Overflows(c)
  /\ Release(c)
  /\ Fail(c, FALSE)
  /\ UNCHANGED <<row, cancelled, tableVars, histVars, faults, page>>

Blocked(c) == pc[c] = "rows" /\ lock[Statement(c).key] \notin {c, Nobody}

\* It waits for a transaction that waits, in the end, for it.
Deadlocked(c) ==
  \E S \in SUBSET Callers :
    c \in S /\ \A d \in S : Blocked(d) /\ lock[Statement(d).key] \in S

\* 40P01, deadlock detected.
Deadlock(c) ==
  /\ Deadlocked(c)
  /\ Release(c)
  /\ Fail(c, FALSE)
  /\ UNCHANGED <<row, cancelled, tableVars, histVars, faults, page>>

\* The connection is lost, or cannot be had, and nothing is committed.  Some of
\* these errors are retriable: those of class 08, and those of the network.
ConnLost(c) ==
  /\ pc[c] \in {"conn", "prepare", "rows", "commit"}
  /\ faults < MaxFaults
  /\ faults' = faults + 1
  /\ Release(c)
  /\ \E retriable \in BOOLEAN : Fail(c, retriable)
  /\ UNCHANGED <<row, cancelled, tableVars, histVars, page>>

\* database/sql gives up at the next point where it looks at the context.
Abandon(c) ==
  /\ pc[c] \in {"conn", "prepare", "rows", "commit"}
  /\ c \in cancelled
  /\ Release(c)
  /\ Fail(c, FALSE)
  /\ UNCHANGED <<row, cancelled, tableVars, histVars, faults, page>>

-----------------------------------------------------------------------------
(* Commit *)

\* The transaction takes effect.
TakeEffect(c) ==
  /\ sum' = [k \in Keys |-> sum[k] + Delta(c, k)]
  /\ last' = [k \in Keys |->
                IF Touches(c, k) THEN c ELSE last[k]]
  /\ committed' = [committed EXCEPT ![c] = @ + 1]
  /\ Release(c)

Commit(c) ==
  /\ pc[c] = "commit"
  /\ TakeEffect(c)
  /\ pc' = [pc EXCEPT ![c] = "ok"]
  /\ UNCHANGED <<attempt, row, cancelled, lost, faults, page>>

\* Mutant of AfterLostCommit: an unknown outcome is taken for success.
TakenForSuccess(c) == pc' = [pc EXCEPT ![c] = "ok"] /\ UNCHANGED attempt

\* The error looks like that of any other lost connection.
AfterLostCommit(c) == \E retriable \in BOOLEAN : Fail(c, retriable)

\* The transaction took effect and the caller does not learn it.
CommitLost(c) ==
  /\ pc[c] = "commit"
  /\ \/ faults < MaxFaults /\ faults' = faults + 1
     \/ c \in cancelled /\ UNCHANGED faults
  /\ TakeEffect(c)
  /\ lost' = [lost EXCEPT ![c] = @ + 1]
  /\ AfterLostCommit(c)
  /\ UNCHANGED <<row, cancelled, page>>

-----------------------------------------------------------------------------
(* GET /: one query per table; the page is rendered even if one fails *)

PageStart ==
  /\ page.pc = 0
  /\ page' = [page EXCEPT !.pc = 1, !.acked = {c \in Callers : pc[c] = "ok"}]
  /\ UNCHANGED <<callVars, cancelled, conns, lock, tableVars, histVars, faults>>

\* Mutant of PageOrder: the gauges are read first.
PageOrderSwapped == <<"gauges", "counters">>

PageOrder == <<"counters", "gauges">>

\* Both queries take a connection of the pool and read what is committed.
PageQuery ==
  /\ page.pc \in DOMAIN PageOrder
  /\ FreeConn
  /\ page' =
       IF PageOrder[page.pc] = "counters"
       THEN [page EXCEPT !.pc = @ + 1, !.counters = sum, !.seen = committed]
       ELSE [page EXCEPT !.pc = @ + 1, !.gauges = last]
  /\ UNCHANGED <<callVars, cancelled, conns, lock, tableVars, histVars, faults>>

\* The last attempt has failed, or the client is gone: the error is logged and
\* the table shown empty.
PageQueryFails ==
  /\ page.pc \in DOMAIN PageOrder
  /\ page' = [page EXCEPT !.pc = @ + 1, !.failed = @ \cup {PageOrder[page.pc]}]
  /\ UNCHANGED <<callVars, cancelled, conns, lock, tableVars, histVars, faults>>

PageDone ==
  /\ page.pc > Len(PageOrder)
  /\ page' = NoPage
  /\ UNCHANGED <<callVars, cancelled, conns, lock, tableVars, histVars, faults>>

-----------------------------------------------------------------------------
Step(c) ==
  \/ Begin(c) \/ Prepare(c) \/ Execute(c) \/ OutOfRange(c) \/ Deadlock(c)
  \/ Commit(c) \/ CommitLost(c) \/ ConnLost(c) \/ Abandon(c)

Next ==
  \/ \E c \in Callers : Call(c) \/ CancelRequest(c) \/ Step(c)
  \/ PageStart \/ PageQuery \/ PageQueryFails \/ PageDone

Spec == Init /\ [][Next]_vars

\* Statements end, the server detects deadlocks, pauses end.  Clients need not call.
FairSpec == Spec /\ \A c \in Callers : WF_vars(Step(c))

-----------------------------------------------------------------------------
(* Properties *)

TypeOK ==
  /\ pc \in [Callers -> {"idle", "conn", "prepare", "rows", "commit", "ok", "error"}]
  /\ attempt \in [Callers -> 0 .. MaxAttempts]
  /\ row \in [Callers -> Nat] /\ \A c \in Callers : row[c] \in 1 .. Len(Rows[c])
  /\ cancelled \subseteq Callers /\ conns \subseteq Callers
  /\ lock \in [Keys -> Callers \cup {Nobody}]
  /\ sum \in [Keys -> Bigint] /\ last \in [Keys -> Callers \cup {Nobody}]
  /\ committed \in [Callers -> Nat] /\ lost \in [Callers -> Nat]
  /\ faults \in 0 .. MaxFaults
  /\ page \in [pc : 0 .. 3, counters : [Keys -> Bigint],
               gauges : [Keys -> Callers \cup {Nobody}], failed : SUBSET {"counters", "gauges"},
               acked : SUBSET Callers, seen : [Callers -> Nat]]

\* The table is what the committed calls make of it, each as a whole: a batch
\* that fails leaves nothing behind, and no concurrent update is lost.
CountersAddUp ==
  \A k \in Keys :
    sum[k] = SumOver(Callers, [c \in Callers |-> committed[c] * Delta(c, k)])

\* A call that reports success was committed; whatever was committed besides
\* is a commit whose outcome was lost.
CommitsAccounted ==
  \A c \in Callers : committed[c] = lost[c] + (IF pc[c] = "ok" THEN 1 ELSE 0)

\* A call that has returned holds neither a connection nor a row, whatever way
\* it ended, and nobody holds a row without a connection.
NothingLeaks ==
  /\ \A c \in conns : pc[c] \in {"prepare", "rows", "commit"}
  /\ \A k \in Keys : lock[k] # Nobody => lock[k] \in conns

\* A page whose queries succeed counts whole calls, each as often as it had been
\* committed by then and those acknowledged before the page was requested among
\* them, and never shows the counters of a batch without its gauges.
PageIsRecent ==
  page.pc > Len(PageOrder) /\ page.failed = {} =>
    /\ \A c \in page.acked : page.seen[c] > 0
    /\ \A k \in Keys :
         /\ page.counters[k] = SumOver(Callers, [c \in Callers |-> page.seen[c] * Delta(c, k)])
         /\ page.gauges[k] = Nobody => \A c \in Callers : page.seen[c] > 0 => ~Touches(c, k)

\* Every call returns: nobody waits for ever for a row or for a connection.
EveryCallReturns == \A c \in Callers : pc[c] = "conn" ~> pc[c] \in {"ok", "error"}
=============================================================================

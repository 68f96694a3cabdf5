------------------------ MODULE PostgresStoreProofs ------------------------
(***************************************************************************)
(* Proofs about PostgresStore, for any number of calls, rows, connections  *)
(* and lost connections: what a call leaves behind, how often it is        *)
(* committed, that the counters are the sum of that, and what the page     *)
(* shows.                                                                  *)
(***************************************************************************)
EXTENDS PostgresStore, SumProofs

\* The part of TypeOK that these proofs need.
CallsOK ==
  /\ pc \in [Callers -> {"idle", "conn", "prepare", "rows", "commit", "ok", "error"}]
  /\ attempt \in [Callers -> Nat]
  /\ conns \subseteq Callers
  /\ lock \in [Keys -> Callers \cup {Nobody}]
  /\ committed \in [Callers -> Nat] /\ lost \in [Callers -> Nat]

\* A call that is past Begin holds its connection: the locks that it takes are
\* covered.
ConnInv == \A c \in Callers : pc[c] \in {"prepare", "rows", "commit"} => c \in conns

IInv == CallsOK /\ ConnInv /\ NothingLeaks /\ CommitsAccounted

LEMMA InitIInv == Init => IInv
BY PostgresAssumption DEF Init, IInv, CallsOK, ConnInv, NothingLeaks, CommitsAccounted

\* The calls that do not move keep what they had.
LEMMA FailMoves ==
  ASSUME CallsOK, NEW c \in Callers, NEW b \in BOOLEAN, Fail(c, b)
  PROVE  /\ pc' \in [Callers -> {"idle", "conn", "prepare", "rows", "commit", "ok", "error"}]
         /\ attempt' \in [Callers -> Nat]
         /\ pc'[c] \in {"conn", "error"}
         /\ \A d \in Callers \ {c} : pc'[d] = pc[d]
BY DEF Fail, CallsOK

\* Nothing is held by a call that releases.
LEMMA ReleaseMoves ==
  ASSUME CallsOK, NothingLeaks, NEW c \in Callers, Release(c)
  PROVE  /\ conns' = conns \ {c} /\ conns' \subseteq Callers
         /\ lock' \in [Keys -> Callers \cup {Nobody}]
         /\ \A k \in Keys : lock'[k] # Nobody => lock'[k] \in conns'
BY DEF Release, CallsOK, NothingLeaks

\* A call that releases and moves alone keeps the invariant, if its commits add
\* up where it moves to.
LEMMA EndKeepsIInv ==
  ASSUME IInv, NEW c \in Callers, Release(c),
         pc' \in [Callers -> {"idle", "conn", "prepare", "rows", "commit", "ok", "error"}],
         attempt' \in [Callers -> Nat],
         pc'[c] \in {"conn", "ok", "error"},
         \A d \in Callers \ {c} : pc'[d] = pc[d],
         committed' \in [Callers -> Nat], lost' \in [Callers -> Nat],
         \A d \in Callers \ {c} : committed'[d] = committed[d] /\ lost'[d] = lost[d],
         committed'[c] = lost'[c] + (IF pc'[c] = "ok" THEN 1 ELSE 0)
  PROVE  IInv'
<1>1. /\ conns' = conns \ {c} /\ conns' \subseteq Callers
      /\ lock' \in [Keys -> Callers \cup {Nobody}]
      /\ \A k \in Keys : lock'[k] # Nobody => lock'[k] \in conns'
  BY ReleaseMoves DEF IInv
<1>2. CallsOK'
  BY <1>1 DEF CallsOK
<1>3. ConnInv' /\ NothingLeaks'
  BY <1>1 DEF IInv, ConnInv, NothingLeaks, CallsOK
<1>4. CommitsAccounted'
  <2> SUFFICES ASSUME NEW d \in Callers
               PROVE  committed'[d] = lost'[d] + (IF pc'[d] = "ok" THEN 1 ELSE 0)
    BY DEF CommitsAccounted
  <2>1. CASE d = c
    BY <2>1
  <2>2. CASE d # c
    BY <2>2 DEF IInv, CommitsAccounted
  <2> QED
    BY <2>1, <2>2
<1> QED
  BY <1>2, <1>3, <1>4 DEF IInv

LEMMA NextIInv == IInv /\ [Next]_vars => IInv'
<1> SUFFICES ASSUME IInv, [Next]_vars PROVE IInv'
  OBVIOUS
<1>0. CallsOK /\ ConnInv /\ NothingLeaks /\ CommitsAccounted
  BY DEF IInv
<1>1. ASSUME NEW c \in Callers,
             Call(c) \/ CancelRequest(c) \/ Begin(c) \/ Prepare(c)
      PROVE  IInv'
  <2>. USE <1>0 DEF callVars, tableVars, histVars,
                    IInv, CallsOK, ConnInv, NothingLeaks, CommitsAccounted
  <2>1. CASE Call(c)
    BY <2>1 DEF Call
  <2>2. CASE CancelRequest(c)
    BY <2>2 DEF CancelRequest
  <2>3. CASE Begin(c)
    BY <2>3 DEF Begin
  <2>4. CASE Prepare(c)
    BY <2>4 DEF Prepare
  <2> QED
    BY <1>1, <2>1, <2>2, <2>3, <2>4
<1>2. ASSUME NEW c \in Callers, Execute(c) PROVE IInv'
  <2>1. c \in conns /\ pc[c] = "rows"
    BY <1>0, <1>2 DEF Execute, ConnInv
  <2>2. /\ lock' \in [Keys -> Callers \cup {Nobody}]
        /\ \A k \in Keys : lock'[k] # Nobody => lock'[k] \in conns
    BY <1>0, <1>2, <2>1 DEF Execute, CallsOK, NothingLeaks
  <2>3. /\ pc' \in [Callers -> {"idle", "conn", "prepare", "rows", "commit", "ok", "error"}]
        /\ pc'[c] \in {"rows", "commit"}
        /\ \A d \in Callers \ {c} : pc'[d] = pc[d]
    BY <1>0, <1>2, <2>1 DEF Execute, CallsOK
  <2>4. UNCHANGED <<attempt, conns, committed, lost>>
    BY <1>2 DEF Execute, histVars
  <2> QED
    BY <1>0, <2>1, <2>2, <2>3, <2>4
       DEF IInv, CallsOK, ConnInv, NothingLeaks, CommitsAccounted
\* The four ways of failing before the commit.
<1>3. ASSUME NEW c \in Callers,
             OutOfRange(c) \/ Deadlock(c) \/ ConnLost(c) \/ Abandon(c)
      PROVE  IInv'
  <2>1. PICK b \in BOOLEAN : Fail(c, b)
    BY <1>3 DEF OutOfRange, Deadlock, ConnLost, Abandon
  <2>2. Release(c) /\ pc[c] \notin {"ok", "error"} /\ UNCHANGED <<committed, lost>>
    BY <1>3 DEF OutOfRange, Deadlock, Deadlocked, Blocked, ConnLost, Abandon, histVars
  <2>3. /\ pc' \in [Callers -> {"idle", "conn", "prepare", "rows", "commit", "ok", "error"}]
        /\ attempt' \in [Callers -> Nat]
        /\ pc'[c] \in {"conn", "error"}
        /\ \A d \in Callers \ {c} : pc'[d] = pc[d]
    BY <1>0, <2>1, FailMoves
  <2>4. /\ committed' \in [Callers -> Nat] /\ lost' \in [Callers -> Nat]
        /\ committed'[c] = lost'[c] + (IF pc'[c] = "ok" THEN 1 ELSE 0)
    BY <1>0, <2>2, <2>3 DEF CallsOK, CommitsAccounted
  <2> QED
    BY <2>2, <2>3, <2>4, EndKeepsIInv
<1>4. ASSUME NEW c \in Callers, Commit(c) PROVE IInv'
  <2>1. /\ Release(c) /\ pc[c] = "commit" /\ pc' = [pc EXCEPT ![c] = "ok"]
        /\ committed' = [committed EXCEPT ![c] = @ + 1]
        /\ UNCHANGED <<attempt, lost>>
    BY <1>4 DEF Commit, TakeEffect
  <2>2. /\ pc' \in [Callers -> {"idle", "conn", "prepare", "rows", "commit", "ok", "error"}]
        /\ pc'[c] = "ok" /\ \A d \in Callers \ {c} : pc'[d] = pc[d]
    BY <1>0, <2>1 DEF CallsOK
  <2>3. /\ committed' \in [Callers -> Nat] /\ committed'[c] = committed[c] + 1
        /\ \A d \in Callers \ {c} : committed'[d] = committed[d]
    BY <1>0, <2>1 DEF CallsOK
  <2>4. committed[c] = lost[c] + 0
    BY <1>0, <2>1 DEF CommitsAccounted
  <2>5. attempt' \in [Callers -> Nat] /\ lost' \in [Callers -> Nat] /\ lost' = lost
    BY <1>0, <2>1 DEF CallsOK
  <2>6. committed'[c] = lost'[c] + (IF pc'[c] = "ok" THEN 1 ELSE 0)
    BY <1>0, <2>2, <2>3, <2>4, <2>5 DEF CallsOK
  <2> QED
    BY <2>1, <2>2, <2>3, <2>5, <2>6, EndKeepsIInv
<1>5. ASSUME NEW c \in Callers, CommitLost(c) PROVE IInv'
  <2>1. /\ Release(c) /\ pc[c] = "commit" /\ (\E retriable \in BOOLEAN : Fail(c, retriable))
        /\ committed' = [committed EXCEPT ![c] = @ + 1]
        /\ lost' = [lost EXCEPT ![c] = @ + 1]
    BY <1>5 DEF CommitLost, TakeEffect, AfterLostCommit
  <2>2. /\ pc' \in [Callers -> {"idle", "conn", "prepare", "rows", "commit", "ok", "error"}]
        /\ attempt' \in [Callers -> Nat]
        /\ pc'[c] \in {"conn", "error"}
        /\ \A d \in Callers \ {c} : pc'[d] = pc[d]
    BY <1>0, <2>1, FailMoves
  <2>3. /\ committed' \in [Callers -> Nat] /\ committed'[c] = committed[c] + 1
        /\ lost' \in [Callers -> Nat] /\ lost'[c] = lost[c] + 1
        /\ \A d \in Callers \ {c} : committed'[d] = committed[d] /\ lost'[d] = lost[d]
    BY <1>0, <2>1 DEF CallsOK
  <2>4. committed[c] = lost[c] + 0
    BY <1>0, <2>1 DEF CommitsAccounted
  <2>5. committed'[c] = lost'[c] + (IF pc'[c] = "ok" THEN 1 ELSE 0)
    BY <1>0, <2>2, <2>3, <2>4 DEF CallsOK
  <2> QED
    BY <2>1, <2>2, <2>3, <2>5, EndKeepsIInv
<1>6. CASE PageStart \/ PageQuery \/ PageQueryFails \/ PageDone
  BY <1>0, <1>6 DEF PageStart, PageQuery, PageQueryFails, PageDone, callVars, tableVars,
     histVars, IInv, CallsOK, ConnInv, NothingLeaks, CommitsAccounted
<1>7. CASE UNCHANGED vars
  BY <1>0, <1>7 DEF vars, callVars, tableVars, histVars, IInv, CallsOK, ConnInv, NothingLeaks,
     CommitsAccounted
<1> QED
  BY <1>1, <1>2, <1>3, <1>4, <1>5, <1>6, <1>7 DEF Next, Step

\* However a call ends, it keeps neither a connection nor a row; nobody holds a
\* row without a connection.
THEOREM NothingLeaksHolds == Spec => []NothingLeaks
<1>1. IInv => NothingLeaks
  BY DEF IInv
<1> QED
  BY <1>1, InitIInv, NextIInv, PTL DEF Spec

\* What is committed is the calls that report success, and the commits whose
\* outcome was lost.
THEOREM CommitsAccountedHolds == Spec => []CommitsAccounted
<1>1. IInv => CommitsAccounted
  BY DEF IInv
<1> QED
  BY <1>1, InitIInv, NextIInv, PTL DEF Spec

-----------------------------------------------------------------------------
(* What a call adds to a counter, row by row *)

Covered(c, n, k) == \E i \in 1 .. n : Rows[c][i].key = k

LEMMA RowsFacts ==
  ASSUME NEW c \in Callers
  PROVE  /\ Len(Rows[c]) \in Nat \ {0}
         /\ \A n \in 1 .. Len(Rows[c]) :
              Rows[c][n] \in [key : Keys, delta : Int]
              /\ Rows[c][n].key \in Keys /\ Rows[c][n].delta \in Int
<1>1. PICK s \in Seq([key : Keys, delta : Int]) : s = Rows[c] /\ s # <<>>
  BY PostgresAssumption
<1>2. Len(s) \in Nat /\ Len(s) # 0
  BY <1>1, EmptySeq
<1>3. \A n \in 1 .. Len(s) : s[n] \in [key : Keys, delta : Int]
  BY ElementOfSeq
<1> QED
  BY <1>1, <1>2, <1>3

LEMMA AddedFacts ==
  ASSUME NEW c \in Callers, NEW k \in Keys
  PROVE  /\ \A n \in 0 .. Len(Rows[c]) :
              Added[c][n][k] \in Int /\ (~Covered(c, n, k) => Added[c][n][k] = 0)
         /\ \A n \in 1 .. Len(Rows[c]) :
              Added[c][n][k] = Added[c][n - 1][k]
                                 + (IF Rows[c][n].key = k THEN Rows[c][n].delta ELSE 0)
         /\ Delta(c, k) \in Int /\ (~Touches(c, k) => Delta(c, k) = 0)
<1> DEFINE N == Len(Rows[c])
           p == Part(c, k)
<1>2. N \in Nat \ {0} /\ \A n \in 1 .. N : Rows[c][n].delta \in Int
  BY RowsFacts
<1>3. \A n \in 1 .. N : /\ p[n] = (IF Rows[c][n].key = k THEN Rows[c][n].delta ELSE 0)
                        /\ p[n] \in Int
  BY <1>2 DEF Part
<1>4. \A n \in 0 .. N : Added[c][n][k] = SumTo(p, n)
  BY DEF Added
<1> HIDE DEF p
<1>5. ASSUME NEW n \in 0 .. N
      PROVE  Added[c][n][k] \in Int /\ (~Covered(c, n, k) => Added[c][n][k] = 0)
  <2>1. n \in Nat /\ \A i \in 1 .. n : i \in 1 .. N
    BY <1>2
  <2>2. SumTo(p, n) \in Int
    BY <1>3, <2>1, SumToInt
  <2>3. ASSUME ~Covered(c, n, k) PROVE SumTo(p, n) = 0
    <3>1. \A i \in 1 .. n : p[i] = 0
      BY <1>3, <2>1, <2>3 DEF Covered
    <3> QED
      BY <2>1, <3>1, SumToZeros
  <2> QED
    BY <1>4, <2>2, <2>3
<1>6. ASSUME NEW n \in 1 .. N
      PROVE  Added[c][n][k] = Added[c][n - 1][k]
                                + (IF Rows[c][n].key = k THEN Rows[c][n].delta ELSE 0)
  <2>1. n - 1 \in Nat /\ (n - 1) + 1 = n /\ \A i \in 1 .. (n - 1) + 1 : p[i] \in Int
    BY <1>2, <1>3
  <2>2. SumTo(p, (n - 1) + 1) = SumTo(p, n - 1) + p[(n - 1) + 1]
    BY <2>1, SumToStep
  <2>3. n \in 0 .. N /\ n - 1 \in 0 .. N
    BY <1>2
  <2> QED
    BY <1>3, <1>4, <2>1, <2>2, <2>3
<1>7. Delta(c, k) \in Int /\ (~Touches(c, k) => Delta(c, k) = 0)
  BY <1>2, <1>5 DEF Delta, Touches, Covered
<1> QED
  BY <1>2, <1>5, <1>6, <1>7

-----------------------------------------------------------------------------
(* Types.  That a commit leaves no counter out of range is what the locks    *)
(* are for.                                                                  *)

LEMMA BigintFacts == 0 \in Bigint /\ Bigint \subseteq Int
BY PostgresAssumption DEF Bigint

\* The rows that a transaction has executed are locked, and there is room for
\* what it adds to them.
Executed(c) ==
  CASE pc[c] = "commit" -> Len(Rows[c])
    [] pc[c] = "rows"   -> row[c] - 1
    [] OTHER            -> 0

HoldInv(c) ==
  /\ pc[c] = "prepare" => row[c] = 1
  /\ \A k \in Keys : Covered(c, Executed(c), k) =>
       lock[k] = c /\ sum[k] + Added[c][Executed(c)][k] \in Bigint

TypeInv == TypeOK /\ \A c \in Callers : HoldInv(c)

Rest(c) == \A d \in Callers \ {c} : pc'[d] = pc[d] /\ row'[d] = row[d]

LEMMA HoldElsewhere ==
  ASSUME NEW c \in Callers, Rest(c), NEW d \in Callers \ {c}, HoldInv(d),
         \A k \in Keys : lock[k] = d => lock'[k] = d /\ sum'[k] = sum[k]
  PROVE  HoldInv(d)'
<1>1. Executed(d)' = Executed(d)
  BY DEF Executed, Rest
<1>2. PICK n : n = Executed(d)
  OBVIOUS
<1>3. \A k \in Keys : Covered(d, n, k) => lock[k] = d /\ sum[k] + Added[d][n][k] \in Bigint
  BY <1>2 DEF HoldInv
<1>4. \A k \in Keys : Covered(d, n, k) => lock'[k] = d /\ sum'[k] + Added[d][n][k] \in Bigint
  BY <1>3
<1> QED
  BY <1>1, <1>2, <1>4 DEF HoldInv, Rest

LEMMA NothingExecuted ==
  ASSUME NEW c \in Callers, Executed(c) = 0, pc[c] = "prepare" => row[c] = 1
  PROVE  HoldInv(c)
BY DEF HoldInv, Covered

PcType == {"idle", "conn", "prepare", "rows", "commit", "ok", "error"}

LEMMA TypeInit == Init => TypeInv
<1> SUFFICES ASSUME Init PROVE TypeInv
  OBVIOUS
<1>1. \A c \in Callers : 1 \in 1 .. Len(Rows[c])
  BY RowsFacts
<1>2. page \in [pc : 0 .. 3, counters : [Keys -> Bigint],
                gauges : [Keys -> Callers \cup {Nobody}], failed : SUBSET {"counters", "gauges"},
                acked : SUBSET Callers, seen : [Callers -> Nat]]
  BY BigintFacts, PostgresAssumption DEF Init, NoPage
<1>3. TypeOK
  BY <1>1, <1>2, BigintFacts, PostgresAssumption DEF Init, TypeOK
<1>4. \A c \in Callers : HoldInv(c)
  BY NothingExecuted DEF Init, Executed
<1> QED
  BY <1>3, <1>4 DEF TypeInv

\* The calls and requests that execute nothing.
LEMMA TypeQuiet ==
  ASSUME TypeInv, NEW c \in Callers, Call(c) \/ CancelRequest(c) \/ Begin(c) \/ Prepare(c)
  PROVE  TypeInv'
<1>1. TypeOK /\ HoldInv(c) /\ \A d \in Callers : HoldInv(d)
  BY DEF TypeInv
<1>2. UNCHANGED <<lock, sum, last, committed, lost, faults, page>>
  BY DEF Call, CancelRequest, Begin, Prepare, tableVars, histVars, callVars
<1>3. CASE CancelRequest(c)
  <2>1. TypeOK'
    BY <1>1, <1>2, <1>3 DEF CancelRequest, TypeOK, callVars
  <2>2. \A d \in Callers : HoldInv(d)'
    BY <1>1, <1>2, <1>3 DEF CancelRequest, HoldInv, Executed, callVars
  <2> QED
    BY <2>1, <2>2 DEF TypeInv
<1>4. CASE Call(c) \/ Begin(c) \/ Prepare(c)
  <2>1. /\ pc' \in [Callers -> PcType] /\ row' \in [Callers -> Nat]
        /\ \A d \in Callers : row'[d] \in 1 .. Len(Rows[d])
        /\ attempt' \in [Callers -> 0 .. MaxAttempts]
        /\ cancelled' = cancelled /\ conns' \subseteq Callers
        /\ pc'[c] \in {"conn", "error", "prepare", "rows"}
        /\ pc'[c] \in {"prepare", "rows"} => row'[c] = 1
        /\ Rest(c)
    <3>1. CASE Call(c)
      <4>1. 1 \in 0 .. MaxAttempts
        BY PostgresAssumption
      <4>2. attempt' \in [Callers -> 0 .. MaxAttempts]
        BY <1>1, <3>1, <4>1 DEF Call, TypeOK
      <4>3. /\ pc' \in [Callers -> PcType] /\ pc'[c] \in {"conn", "error"}
            /\ UNCHANGED <<row, cancelled, conns>>
            /\ \A d \in Callers \ {c} : pc'[d] = pc[d]
        BY <1>1, <3>1 DEF Call, TypeOK, PcType
      <4> QED
        BY <1>1, <4>2, <4>3 DEF TypeOK, Rest
    <3>2. CASE Begin(c)
      BY <1>1, <3>2, RowsFacts DEF Begin, TypeOK, PcType, Rest
    <3>3. CASE Prepare(c)
      BY <1>1, <3>3 DEF Prepare, TypeOK, PcType, Rest, HoldInv
    <3> QED
      BY <1>4, <3>1, <3>2, <3>3
  <2>2. TypeOK'
    BY <1>1, <1>2, <2>1 DEF TypeOK, PcType
  <2>3. HoldInv(c)'
    BY <2>1, NothingExecuted DEF HoldInv, Executed, Covered
  <2>4. \A d \in Callers \ {c} : HoldInv(d)'
    BY <1>1, <1>2, <2>1, HoldElsewhere
  <2> QED
    BY <2>2, <2>3, <2>4 DEF TypeInv
<1> QED
  BY <1>3, <1>4

LEMMA TypeExecute ==
  ASSUME TypeInv, NEW c \in Callers, Execute(c)
  PROVE  TypeInv'
<1>1. TypeOK /\ HoldInv(c) /\ \A d \in Callers : HoldInv(d)
  BY DEF TypeInv
<1> DEFINE n == row[c]
           m == Rows[c][n].key
           N == Len(Rows[c])
<1>2. /\ pc[c] = "rows" /\ lock[m] \in {c, Nobody} /\ lock' = [lock EXCEPT ![m] = c]
      /\ sum[m] + Added[c][n][m] \in Bigint
      /\ UNCHANGED <<attempt, cancelled, conns, sum, last, committed, lost, faults, page>>
      /\ IF n = N
         THEN pc' = [pc EXCEPT ![c] = "commit"] /\ row' = row
         ELSE row' = [row EXCEPT ![c] = n + 1] /\ pc' = pc
  BY DEF Execute, RowsFree, Overflows, Statement, RowEffect, tableVars, histVars
<1>3. n \in 1 .. N /\ N \in Nat /\ m \in Keys
  BY <1>1, RowsFacts DEF TypeOK
<1>4. \A d \in Callers : row[d] \in 1 .. Len(Rows[d]) /\ Len(Rows[d]) \in Nat
  BY <1>1, RowsFacts DEF TypeOK
<1> HIDE DEF n, m, N
<1>5. /\ pc' \in [Callers -> PcType] /\ row' \in [Callers -> Nat] /\ Rest(c)
      /\ \A d \in Callers \ {c} : row'[d] \in 1 .. Len(Rows[d])
      /\ row'[c] \in 1 .. N
      /\ pc'[c] = "commit" \/ (pc'[c] = "rows" /\ row'[c] = n + 1)
  <2>1. pc \in [Callers -> PcType] /\ row \in [Callers -> Nat] /\ row[c] = n /\ n \in Nat
    BY <1>1, <1>3 DEF TypeOK, PcType, n
  <2>2. CASE n = N
    BY <1>2, <1>3, <1>4, <2>1, <2>2 DEF PcType, Rest
  <2>3. CASE n # N
    BY <1>2, <1>3, <1>4, <2>1, <2>3 DEF PcType, Rest
  <2> QED
    BY <2>2, <2>3
<1>6. /\ lock' \in [Keys -> Callers \cup {Nobody}] /\ lock'[m] = c
      /\ \A k \in Keys \ {m} : lock'[k] = lock[k]
  BY <1>1, <1>2, <1>3 DEF TypeOK
<1>7. TypeOK'
  BY <1>1, <1>2, <1>5, <1>6 DEF TypeOK, PcType, N
<1>8. HoldInv(c)'
  <2>1. Executed(c) = n - 1 /\ Executed(c)' = n
    BY <1>2, <1>3, <1>5 DEF Executed, n, N
  <2>2. ASSUME NEW k \in Keys, Covered(c, n, k)
        PROVE  lock'[k] = c /\ sum'[k] + Added[c][n][k] \in Bigint
    <3>1. CASE k = m
      BY <1>2, <1>6, <3>1
    <3>2. CASE k # m
      <4>1. Covered(c, n - 1, k)
        BY <1>3, <2>2, <3>2 DEF Covered, m
      <4>2. Added[c][n][k] = Added[c][n - 1][k] + 0 /\ Added[c][n - 1][k] \in Int
        <5>1. n - 1 \in 0 .. N
          BY <1>3
        <5> QED
          BY <1>3, <3>2, <5>1, AddedFacts DEF m, N
      <4>3. lock[k] = c /\ sum[k] + Added[c][n - 1][k] \in Bigint
        BY <1>1, <2>1, <4>1 DEF HoldInv
      <4> QED
        BY <1>2, <1>6, <3>2, <4>2, <4>3
    <3> QED
      BY <3>1, <3>2
  <2> QED
    BY <1>5, <2>1, <2>2 DEF HoldInv
<1>9. ASSUME NEW d \in Callers \ {c}
      PROVE  HoldInv(d)'
  <2>1. \A k \in Keys : lock[k] = d => lock'[k] = d /\ sum'[k] = sum[k]
    BY <1>2, <1>6, PostgresAssumption
  <2> QED
    BY <1>1, <1>5, <2>1, HoldElsewhere
<1> QED
  BY <1>7, <1>8, <1>9 DEF TypeInv

\* What releasing leaves to the others, and what Fail does to the caller.
LEMMA TypeRelease ==
  ASSUME TypeOK, NEW c \in Callers, Release(c)
  PROVE  /\ conns' \subseteq Callers /\ lock' \in [Keys -> Callers \cup {Nobody}]
         /\ \A d \in Callers \ {c} : \A k \in Keys : lock[k] = d => lock'[k] = d
BY DEF TypeOK, Release

LEMMA TypeFail ==
  ASSUME TypeOK, NEW c \in Callers, NEW b \in BOOLEAN, Fail(c, b)
  PROVE  /\ pc' \in [Callers -> PcType] /\ attempt' \in [Callers -> 0 .. MaxAttempts]
         /\ pc'[c] \in {"conn", "error"}
         /\ \A d \in Callers \ {c} : pc'[d] = pc[d]
<1>1. MaxAttempts \in Nat
  BY PostgresAssumption
<1>2. pc \in [Callers -> PcType] /\ attempt \in [Callers -> 0 .. MaxAttempts]
  BY DEF TypeOK, PcType
<1>3. CASE /\ attempt[c] < MaxAttempts /\ pc' = [pc EXCEPT ![c] = "conn"]
           /\ attempt' = [attempt EXCEPT ![c] = @ + 1]
  BY <1>1, <1>2, <1>3 DEF PcType
<1>4. CASE pc' = [pc EXCEPT ![c] = "error"] /\ UNCHANGED attempt
  BY <1>1, <1>2, <1>4 DEF PcType
<1> QED
  BY <1>3, <1>4 DEF Fail, Retries

LEMMA FaultsBounded ==
  ASSUME TypeOK, faults' = faults \/ (faults < MaxFaults /\ faults' = faults + 1)
  PROVE  faults' \in 0 .. MaxFaults
<1>1. faults \in 0 .. MaxFaults /\ MaxFaults \in Nat
  BY PostgresAssumption DEF TypeOK
<1> QED
  BY <1>1

\* The four ways of failing before the commit.
LEMMA TypeFails ==
  ASSUME TypeInv, NEW c \in Callers,
         OutOfRange(c) \/ Deadlock(c) \/ ConnLost(c) \/ Abandon(c)
  PROVE  TypeInv'
<1>1. TypeOK /\ \A d \in Callers : HoldInv(d)
  BY DEF TypeInv
<1>2. /\ Release(c) /\ \E b \in BOOLEAN : Fail(c, b)
      /\ UNCHANGED <<row, cancelled, sum, last, committed, lost, page>>
      /\ faults' \in 0 .. MaxFaults
  <2>1. Release(c) /\ UNCHANGED <<row, cancelled, sum, last, committed, lost, page>>
    BY DEF OutOfRange, Deadlock, ConnLost, Abandon, tableVars, histVars
  <2>2. \E b \in BOOLEAN : Fail(c, b)
    BY DEF OutOfRange, Deadlock, ConnLost, Abandon
  <2>3. faults' = faults \/ (faults < MaxFaults /\ faults' = faults + 1)
    BY DEF OutOfRange, Deadlock, ConnLost, Abandon
  <2> QED
    BY <1>1, <2>1, <2>2, <2>3, FaultsBounded
<1>3. /\ conns' \subseteq Callers /\ lock' \in [Keys -> Callers \cup {Nobody}]
      /\ \A d \in Callers \ {c} : \A k \in Keys : lock[k] = d => lock'[k] = d
  BY <1>1, <1>2, TypeRelease
<1>4. /\ pc' \in [Callers -> PcType] /\ attempt' \in [Callers -> 0 .. MaxAttempts]
      /\ pc'[c] \in {"conn", "error"} /\ Rest(c)
  BY <1>1, <1>2, TypeFail DEF Rest
<1>5. TypeOK'
  BY <1>1, <1>2, <1>3, <1>4 DEF TypeOK, PcType
<1>6. HoldInv(c)'
  BY <1>4, NothingExecuted DEF Executed, HoldInv, Covered
<1>7. \A d \in Callers \ {c} : HoldInv(d)'
  BY <1>1, <1>2, <1>3, <1>4, HoldElsewhere
<1> QED
  BY <1>5, <1>6, <1>7 DEF TypeInv

\* A commit keeps the counters within bounds, and the rows that others have
\* locked as they are.
LEMMA TypeTakeEffect ==
  ASSUME TypeInv, NEW c \in Callers, pc[c] = "commit", TakeEffect(c)
  PROVE  /\ sum' \in [Keys -> Bigint] /\ last' \in [Keys -> Callers \cup {Nobody}]
         /\ committed' \in [Callers -> Nat] /\ committed'[c] = committed[c] + 1
         /\ \A d \in Callers \ {c} : committed'[d] = committed[d]
         /\ \A k \in Keys : sum'[k] = sum[k] + Delta(c, k)
         /\ \A d \in Callers \ {c} : \A k \in Keys : lock[k] = d => lock'[k] = d /\ sum'[k] = sum[k]
<1>1. TypeOK /\ HoldInv(c) /\ Release(c) /\ MaxBigint \in Nat
  BY PostgresAssumption DEF TypeInv, TakeEffect
<1>2. \A k \in Keys : sum'[k] = sum[k] + Delta(c, k)
  BY DEF TakeEffect
<1>3. \A k \in Keys : Touches(c, k) => lock[k] = c /\ sum[k] + Delta(c, k) \in Bigint
  <2>1. Executed(c) = Len(Rows[c])
    BY DEF Executed
  <2> QED
    BY <1>1, <2>1 DEF HoldInv, Touches, Covered, Delta
<1>4. \A k \in Keys : sum[k] \in Bigint /\ sum[k] \in Int
  BY <1>1, BigintFacts DEF TypeOK
<1>5. \A k \in Keys : sum[k] + Delta(c, k) \in Bigint
  BY <1>1, <1>3, <1>4, AddedFacts
<1>6. sum' \in [Keys -> Bigint]
  BY <1>5 DEF TakeEffect
<1>7. last' \in [Keys -> Callers \cup {Nobody}]
  BY <1>1 DEF TakeEffect, TypeOK
<1>8. /\ committed' \in [Callers -> Nat] /\ committed'[c] = committed[c] + 1
      /\ \A d \in Callers \ {c} : committed'[d] = committed[d]
  BY <1>1 DEF TakeEffect, TypeOK
<1>9. ASSUME NEW d \in Callers \ {c}, NEW k \in Keys, lock[k] = d
      PROVE  lock'[k] = d /\ sum'[k] = sum[k]
  <2>1. Delta(c, k) = 0
    BY <1>3, <1>9, AddedFacts
  <2>2. sum'[k] = sum[k]
    BY <1>2, <1>4, <2>1
  <2> QED
    BY <1>1, <1>9, <2>2, TypeRelease
<1> QED
  BY <1>2, <1>6, <1>7, <1>8, <1>9

LEMMA TypeCommits ==
  ASSUME TypeInv, NEW c \in Callers, Commit(c) \/ CommitLost(c)
  PROVE  TypeInv'
<1>1. TypeOK /\ \A d \in Callers : HoldInv(d)
  BY DEF TypeInv
<1>2. /\ pc[c] = "commit" /\ TakeEffect(c) /\ Release(c)
      /\ UNCHANGED <<row, cancelled, page>> /\ faults' \in 0 .. MaxFaults
  <2>1. pc[c] = "commit" /\ TakeEffect(c) /\ UNCHANGED <<row, cancelled, page>>
    BY DEF Commit, CommitLost
  <2>2. faults' = faults \/ (faults < MaxFaults /\ faults' = faults + 1)
    BY DEF Commit, CommitLost
  <2> QED
    BY <1>1, <2>1, <2>2, FaultsBounded DEF TakeEffect
<1>3. /\ sum' \in [Keys -> Bigint] /\ last' \in [Keys -> Callers \cup {Nobody}]
      /\ committed' \in [Callers -> Nat]
      /\ \A d \in Callers \ {c} : \A k \in Keys : lock[k] = d => lock'[k] = d /\ sum'[k] = sum[k]
  BY <1>2, TypeTakeEffect
<1>4. conns' \subseteq Callers /\ lock' \in [Keys -> Callers \cup {Nobody}]
  BY <1>1, <1>2, TypeRelease
<1>5. /\ pc' \in [Callers -> PcType] /\ attempt' \in [Callers -> 0 .. MaxAttempts]
      /\ pc'[c] \in {"ok", "conn", "error"} /\ Rest(c) /\ lost' \in [Callers -> Nat]
  <2>1. CASE Commit(c)
    BY <1>1, <2>1 DEF Commit, TypeOK, PcType, Rest
  <2>2. CASE CommitLost(c)
    <3>1. (\E retriable \in BOOLEAN : Fail(c, retriable)) /\ lost' = [lost EXCEPT ![c] = @ + 1]
      BY <2>2 DEF CommitLost, AfterLostCommit
    <3>2. lost' \in [Callers -> Nat]
      BY <1>1, <3>1 DEF TypeOK
    <3> QED
      BY <1>1, <1>2, <3>1, <3>2, TypeFail DEF Rest
  <2> QED
    BY <2>1, <2>2
<1>6. TypeOK'
  BY <1>1, <1>2, <1>3, <1>4, <1>5 DEF TypeOK, PcType
<1>7. HoldInv(c)'
  BY <1>5, NothingExecuted DEF Executed, HoldInv, Covered
<1>8. \A d \in Callers \ {c} : HoldInv(d)'
  BY <1>1, <1>3, <1>5, HoldElsewhere
<1> QED
  BY <1>6, <1>7, <1>8 DEF TypeInv

-----------------------------------------------------------------------------
(* The page *)

PageType ==
  [pc : 0 .. 3, counters : [Keys -> Bigint], gauges : [Keys -> Callers \cup {Nobody}],
   failed : SUBSET {"counters", "gauges"}, acked : SUBSET Callers, seen : [Callers -> Nat]]

PageStepCases ==
  \/ /\ page.pc = 0 /\ page'.pc = 1 /\ page'.acked = {c \in Callers : pc[c] = "ok"}
     /\ page'.failed = page.failed /\ page'.seen = page.seen
  \/ /\ page.pc = 1 /\ page'.pc = 2 /\ page'.counters = sum
     /\ page'.seen = committed
     /\ page'.failed = page.failed /\ page'.acked = page.acked
  \/ /\ page.pc = 2 /\ page'.pc = 3 /\ page'.gauges = last /\ page'.counters = page.counters
     /\ page'.failed = page.failed /\ page'.acked = page.acked /\ page'.seen = page.seen
  \/ /\ page.pc = 1 /\ page'.pc = 2 /\ page'.failed = page.failed \cup {"counters"}
     /\ page'.acked = page.acked /\ page'.seen = page.seen
  \/ /\ page.pc = 2 /\ page'.pc = 3 /\ page'.failed = page.failed \cup {"gauges"}
     /\ page'.counters = page.counters /\ page'.acked = page.acked /\ page'.seen = page.seen
  \/ page'.pc = 0 /\ page'.acked = {}

LEMMA PageSteps ==
  ASSUME TypeInv, PageStart \/ PageQuery \/ PageQueryFails \/ PageDone
  PROVE  page' \in PageType /\ PageStepCases
<1>1. PICK p \in PageType, s \in [Keys -> Bigint], l \in [Keys -> Callers \cup {Nobody}] :
        p = page /\ s = sum /\ l = last
  BY DEF TypeInv, TypeOK, PageType
<1>2. p.pc \in 0 .. 3 /\ p.failed \subseteq {"counters", "gauges"}
  BY DEF PageType
<1>3. CASE PageStart
  <2>1. PICK S \in SUBSET Callers : S = {c \in Callers : pc[c] = "ok"}
    OBVIOUS
  <2>2. p.pc = 0 /\ page' = [p EXCEPT !.pc = 1, !.acked = S]
    BY <1>1, <1>3, <2>1 DEF PageStart
  <2>3. 1 \in 0 .. 3
    OBVIOUS
  <2>4. /\ page' \in PageType /\ page'.pc = 1 /\ page'.acked = S
        /\ page'.failed = p.failed /\ page'.seen = p.seen
    BY <2>2, <2>3 DEF PageType
  <2> QED
    BY <1>1, <2>1, <2>2, <2>4 DEF PageStepCases
<1>4. CASE PageQuery
  <2>1. PageOrder[1] = "counters" /\ PageOrder[2] = "gauges" /\ p.pc \in {1, 2}
    BY <1>1, <1>4 DEF PageQuery, PageOrder
  <2>2. PICK S \in [Callers -> Nat] : S = committed
    BY DEF TypeInv, TypeOK
  <2>3. page' = IF PageOrder[p.pc] = "counters"
                THEN [p EXCEPT !.pc = p.pc + 1, !.counters = s, !.seen = S]
                ELSE [p EXCEPT !.pc = p.pc + 1, !.gauges = l]
    BY <1>1, <1>4, <2>2 DEF PageQuery
  <2>4. CASE p.pc = 1
    <3>1. 2 \in 0 .. 3 /\ page' = [p EXCEPT !.pc = 2, !.counters = s, !.seen = S]
      BY <2>1, <2>3, <2>4
    <3>2. /\ page' \in PageType /\ page'.pc = 2 /\ page'.counters = s /\ page'.seen = S
          /\ page'.failed = p.failed /\ page'.acked = p.acked
      BY <3>1 DEF PageType
    <3> QED
      BY <1>1, <2>2, <2>4, <3>2 DEF PageStepCases
  <2>5. CASE p.pc = 2
    <3>1. 3 \in 0 .. 3 /\ page' = [p EXCEPT !.pc = 3, !.gauges = l]
      BY <2>1, <2>3, <2>5
    <3>2. /\ page' \in PageType /\ page'.pc = 3 /\ page'.gauges = l /\ page'.counters = p.counters
          /\ page'.failed = p.failed /\ page'.acked = p.acked /\ page'.seen = p.seen
      BY <3>1 DEF PageType
    <3> QED
      BY <1>1, <2>5, <3>2 DEF PageStepCases
  <2> QED
    BY <2>1, <2>4, <2>5
<1>5. CASE PageQueryFails
  <2>1. PageOrder[1] = "counters" /\ PageOrder[2] = "gauges" /\ p.pc \in {1, 2}
    BY <1>1, <1>5 DEF PageQueryFails, PageOrder
  <2>2. PICK F \in SUBSET {"counters", "gauges"} : F = p.failed \cup {PageOrder[p.pc]}
    BY <1>2, <2>1
  <2>3. page' = [p EXCEPT !.pc = p.pc + 1, !.failed = F]
    BY <1>1, <1>5, <2>2 DEF PageQueryFails
  <2>4. CASE p.pc = 1
    <3>1. 2 \in 0 .. 3 /\ page' = [p EXCEPT !.pc = 2, !.failed = F] /\ F = p.failed \cup {"counters"}
      BY <2>1, <2>2, <2>3, <2>4
    <3>2. /\ page' \in PageType /\ page'.pc = 2 /\ page'.failed = F
          /\ page'.counters = p.counters /\ page'.acked = p.acked /\ page'.seen = p.seen
      BY <3>1 DEF PageType
    <3> QED
      BY <1>1, <2>4, <3>1, <3>2 DEF PageStepCases
  <2>5. CASE p.pc = 2
    <3>1. 3 \in 0 .. 3 /\ page' = [p EXCEPT !.pc = 3, !.failed = F] /\ F = p.failed \cup {"gauges"}
      BY <2>1, <2>2, <2>3, <2>5
    <3>2. /\ page' \in PageType /\ page'.pc = 3 /\ page'.failed = F
          /\ page'.counters = p.counters /\ page'.acked = p.acked /\ page'.seen = p.seen
      BY <3>1 DEF PageType
    <3> QED
      BY <1>1, <2>5, <3>1, <3>2 DEF PageStepCases
  <2> QED
    BY <2>1, <2>4, <2>5
<1>6. CASE PageDone
  BY <1>6, BigintFacts, PostgresAssumption DEF PageDone, NoPage, PageType, PageStepCases
<1> QED
  BY <1>3, <1>4, <1>5, <1>6

LEMMA TypeNext == TypeInv /\ [Next]_vars => TypeInv'
<1> SUFFICES ASSUME TypeInv, [Next]_vars PROVE TypeInv'
  OBVIOUS
<1>1. ASSUME NEW c \in Callers, Call(c) \/ CancelRequest(c) \/ Step(c)
      PROVE  TypeInv'
  BY <1>1, TypeQuiet, TypeExecute, TypeFails, TypeCommits DEF Step
<1>2. CASE PageStart \/ PageQuery \/ PageQueryFails \/ PageDone
  <2>1. UNCHANGED <<callVars, cancelled, conns, lock, tableVars, histVars, faults>>
    BY <1>2 DEF PageStart, PageQuery, PageQueryFails, PageDone
  <2>2. page' \in PageType
    BY <1>2, PageSteps
  <2>3. TypeOK'
    BY <2>1, <2>2 DEF TypeInv, TypeOK, PageType, callVars, tableVars, histVars
  <2>4. \A d \in Callers : HoldInv(d)'
    BY <2>1 DEF TypeInv, HoldInv, Executed, callVars, tableVars
  <2> QED
    BY <2>3, <2>4 DEF TypeInv
<1>3. CASE UNCHANGED vars
  BY <1>3 DEF vars, callVars, tableVars, histVars, TypeInv, TypeOK, HoldInv, Executed
<1> QED
  BY <1>1, <1>2, <1>3 DEF Next

LEMMA TypeAlways == Spec => []TypeInv
BY TypeInit, TypeNext, PTL DEF Spec

\* Every variable keeps its type; in particular no counter ever leaves
\* the range of a bigint, whatever the calls that run at the same time add to it.
THEOREM TypeCorrect == Spec => []TypeOK
<1>1. TypeInv => TypeOK
  BY DEF TypeInv
<1> QED
  BY <1>1, TypeAlways, PTL

-----------------------------------------------------------------------------
(* The table is what was committed, and the page shows it. *)

\* Who last wrote a gauge is one of those who committed it.
LastInv ==
  \A k \in Keys : last[k] = Nobody => \A c \in Callers : committed[c] > 0 => ~Touches(c, k)

Seen(k) == [c \in Callers |-> page.seen[c] * Delta(c, k)]

PageInv ==
  /\ page.pc = 0 => page.acked = {}
  /\ \A c \in page.acked : committed[c] > 0
  /\ page.pc > 1 /\ "counters" \notin page.failed =>
       /\ \A c \in Callers : page.seen[c] > 0 => committed[c] > 0
       /\ \A c \in page.acked : page.seen[c] > 0
       /\ \A k \in Keys : page.counters[k] = SumOver(Callers, Seen(k))
  /\ page.pc > 2 /\ page.failed = {} =>
       \A k \in Keys : page.gauges[k] = Nobody =>
         \A c \in Callers : page.seen[c] > 0 => ~Touches(c, k)

Committed(k) == [c \in Callers |-> committed[c] * Delta(c, k)]

HistoryInv == CountersAddUp /\ LastInv /\ PageInv

LEMMA CommittedTypes ==
  ASSUME TypeInv, NEW k \in Keys
  PROVE  \A c \in Callers : Committed(k)[c] = committed[c] * Delta(c, k) /\ Committed(k)[c] \in Int
<1>1. ASSUME NEW c \in Callers
      PROVE  committed[c] * Delta(c, k) \in Int
  <2>1. PICK m \in Nat, n \in Int : m = committed[c] /\ n = Delta(c, k)
    BY AddedFacts DEF TypeInv, TypeOK
  <2> QED
    BY <2>1
<1> QED
  BY <1>1 DEF Committed

\* A commit adds to the counters what it adds to the sum of the commits.
LEMMA HistoryCommits ==
  ASSUME TypeInv, HistoryInv, NEW c \in Callers, pc[c] = "commit", TakeEffect(c), page' = page
  PROVE  HistoryInv'
<1>1. /\ \A d \in Callers : committed[d] \in Nat
      /\ committed'[c] = committed[c] + 1
      /\ \A d \in Callers \ {c} : committed'[d] = committed[d]
      /\ \A k \in Keys : sum'[k] = sum[k] + Delta(c, k)
  BY TypeTakeEffect DEF TypeInv, TypeOK
<1>2. ASSUME NEW k \in Keys
      PROVE  sum'[k] = SumOver(Callers, [d \in Callers |-> committed'[d] * Delta(d, k)])
  <2> DEFINE f == Committed(k)
             g == [d \in Callers |-> committed'[d] * Delta(d, k)]
  <2>1. \A d \in Callers : f[d] = committed[d] * Delta(d, k) /\ f[d] \in Int
    BY CommittedTypes
  <2>2. PICK m \in Nat, n \in Int : m = committed[c] /\ n = Delta(c, k)
    BY <1>1, AddedFacts
  <2>3. f[c] = m * n /\ g[c] = (m + 1) * n
    BY <1>1, <2>1, <2>2
  <2>4. g[c] = f[c] + n /\ g[c] \in Int
    <3>1. (m + 1) * n = m * n + n /\ m * n \in Int
      OBVIOUS
    <3> QED
      BY <2>3, <3>1
  <2>5. \A d \in Callers : d # c => g[d] = f[d]
    BY <1>1, <2>1
  <2>6. \A d \in Callers : f[d] \in Int /\ g[d] \in Int
    BY <2>1, <2>4, <2>5
  <2>7. SumOver(Callers, f) \in Int /\ sum[k] = SumOver(Callers, f)
    BY <2>1, SumOverInt, PostgresAssumption DEF HistoryInv, CountersAddUp, Committed
  <2>11. IsFiniteSet(Callers)
    BY PostgresAssumption
  <2> HIDE DEF f, g
  <2>8. SumOver(Callers, g) = SumOver(Callers, f) - f[c] + g[c]
    BY ONLY <2>5, <2>6, <2>11, c \in Callers, SumOverReplace
  <2>9. f[c] \in Int
    BY <2>6
  <2>10. sum'[k] = SumOver(Callers, g)
    BY <1>1, <2>2, <2>4, <2>7, <2>8, <2>9
  <2> QED
    BY <2>10 DEF g
<1>3. CountersAddUp'
  BY <1>2 DEF CountersAddUp
<1>4. LastInv'
  <2>1. ASSUME NEW k \in Keys, last'[k] = Nobody, NEW d \in Callers, committed'[d] > 0
        PROVE  ~Touches(d, k)
    <3>1. last'[k] = IF Touches(c, k) THEN c ELSE last[k]
      BY DEF TakeEffect
    <3>2. ~Touches(c, k) /\ last[k] = Nobody
      BY <2>1, <3>1, PostgresAssumption
    <3>3. CASE d # c
      BY <1>1, <2>1, <3>2, <3>3 DEF HistoryInv, LastInv
    <3> QED
      BY <3>2, <3>3
  <2> QED
    BY <2>1 DEF LastInv
<1>5. PageInv'
  <2>1. page.acked \subseteq Callers
    BY DEF TypeInv, TypeOK
  <2>2. \A d \in Callers : committed[d] > 0 => committed'[d] > 0
    BY <1>1
  <2>3. \A k \in Keys : Seen(k)' = Seen(k)
    BY DEF Seen
  <2> QED
    BY <2>1, <2>2, <2>3 DEF HistoryInv, PageInv
<1> QED
  BY <1>3, <1>4, <1>5 DEF HistoryInv

LEMMA HistoryPage ==
  ASSUME TypeInv, IInv, HistoryInv, PageStart \/ PageQuery \/ PageQueryFails \/ PageDone
  PROVE  HistoryInv'
<1>1. UNCHANGED <<pc, sum, last, committed, lost>>
  BY DEF PageStart, PageQuery, PageQueryFails, PageDone, callVars, tableVars, histVars
<1>2. CountersAddUp' /\ LastInv'
  BY <1>1 DEF HistoryInv, CountersAddUp, LastInv
<1>3. /\ PageInv /\ PageStepCases /\ page' \in PageType /\ page \in PageType
      /\ page.acked \subseteq Callers
  BY PageSteps DEF HistoryInv, TypeInv, TypeOK, PageType
<1>4. \A c \in Callers : pc[c] = "ok" => committed[c] > 0
  BY DEF IInv, CommitsAccounted, CallsOK
<1>5. \A c \in page'.acked : committed'[c] > 0
  BY <1>1, <1>3, <1>4 DEF PageStepCases, PageInv
<1>6. ASSUME page'.pc > 1, "counters" \notin page'.failed
      PROVE  /\ \A c \in Callers : page'.seen[c] > 0 => committed'[c] > 0
             /\ \A c \in page'.acked : page'.seen[c] > 0
             /\ \A k \in Keys : page'.counters[k] = SumOver(Callers, Seen(k)')
  <2>1. CASE /\ page.pc = 1 /\ page'.pc = 2 /\ page'.counters = sum
             /\ page'.seen = committed /\ page'.acked = page.acked
    <3>1. \A k \in Keys : Seen(k)' = Committed(k)
      BY <2>1 DEF Seen, Committed
    <3>2. \A k \in Keys : sum[k] = SumOver(Callers, Committed(k))
      BY DEF HistoryInv, CountersAddUp, Committed
    <3> QED
      BY <1>1, <1>3, <2>1, <3>1, <3>2 DEF PageInv
  <2>2. CASE /\ page.pc = 2 /\ page'.pc = 3 /\ page'.counters = page.counters
             /\ page'.seen = page.seen /\ page'.acked = page.acked
             /\ "counters" \notin page.failed
    <3>1. \A k \in Keys : Seen(k)' = Seen(k)
      BY <2>2 DEF Seen
    <3> QED
      BY <1>1, <1>3, <2>2, <3>1 DEF PageInv
  <2> QED
    BY <1>3, <1>6, <2>1, <2>2 DEF PageStepCases
<1>7. ASSUME page'.pc > 2, page'.failed = {}, NEW k \in Keys, page'.gauges[k] = Nobody,
             NEW c \in Callers, page'.seen[c] > 0
      PROVE  ~Touches(c, k)
  <2>1. page.pc = 2 /\ page'.gauges = last /\ page'.seen = page.seen /\ page.failed = {}
    BY <1>3, <1>7 DEF PageStepCases
  <2>2. committed[c] > 0
    BY <1>3, <1>7, <2>1 DEF PageInv
  <2> QED
    BY <1>7, <2>1, <2>2 DEF HistoryInv, LastInv
<1>8. page'.pc = 0 => page'.acked = {}
  BY <1>3 DEF PageStepCases
<1>9. PageInv'
  BY <1>5, <1>6, <1>7, <1>8 DEF PageInv
<1> QED
  BY <1>2, <1>9 DEF HistoryInv

LEMMA HistoryNext == TypeInv /\ IInv /\ HistoryInv /\ [Next]_vars => HistoryInv'
<1> SUFFICES ASSUME TypeInv, IInv, HistoryInv, [Next]_vars PROVE HistoryInv'
  OBVIOUS
<1>1. ASSUME UNCHANGED <<sum, last, committed, page>> PROVE HistoryInv'
  BY <1>1 DEF HistoryInv, CountersAddUp, LastInv, PageInv, Seen
<1>2. ASSUME NEW c \in Callers, Call(c) \/ CancelRequest(c) \/ Begin(c) \/ Prepare(c) \/ Execute(c)
      PROVE  HistoryInv'
  BY <1>1, <1>2 DEF Call, CancelRequest, Begin, Prepare, Execute, RowEffect, tableVars, histVars
<1>3. ASSUME NEW c \in Callers, OutOfRange(c) \/ Deadlock(c) \/ ConnLost(c) \/ Abandon(c)
      PROVE  HistoryInv'
  BY <1>1, <1>3 DEF OutOfRange, Deadlock, ConnLost, Abandon, tableVars, histVars
<1>4. ASSUME NEW c \in Callers, Commit(c) \/ CommitLost(c)
      PROVE  HistoryInv'
  <2>1. pc[c] = "commit" /\ TakeEffect(c) /\ page' = page
    BY <1>4 DEF Commit, CommitLost
  <2> QED
    BY <2>1, HistoryCommits
<1>5. CASE PageStart \/ PageQuery \/ PageQueryFails \/ PageDone
  BY <1>5, HistoryPage
<1>6. CASE UNCHANGED vars
  BY <1>1, <1>6 DEF vars, tableVars, histVars
<1> QED
  BY <1>2, <1>3, <1>4, <1>5, <1>6 DEF Next, Step

LEMMA HistoryInit == Init => HistoryInv
<1> SUFFICES ASSUME Init PROVE HistoryInv
  OBVIOUS
<1>1. ASSUME NEW k \in Keys
      PROVE  SumOver(Callers, [c \in Callers |-> committed[c] * Delta(c, k)]) = 0
  <2> DEFINE f == [c \in Callers |-> committed[c] * Delta(c, k)]
  <2>1. \A c \in Callers : f[c] = 0
    <3> TAKE c \in Callers
    <3>1. PICK n \in Int : n = Delta(c, k)
      BY AddedFacts
    <3>2. 0 * n = 0 /\ committed[c] = 0
      BY DEF Init
    <3> QED
      BY <3>1, <3>2
  <2> HIDE DEF f
  <2>2. SumOver(Callers, f) = 0
    BY <2>1, SumOverZero, PostgresAssumption
  <2> QED
    BY <2>2 DEF f
<1>2. CountersAddUp
  BY <1>1 DEF CountersAddUp, Init
<1> QED
  BY <1>2 DEF HistoryInv, LastInv, PageInv, Init, NoPage

LEMMA HistoryAlways == Spec => [](TypeInv /\ IInv /\ HistoryInv)
BY TypeInit, InitIInv, HistoryInit, TypeNext, NextIInv, HistoryNext, PTL DEF Spec

\* The counters are the sum of what was committed: no concurrent update is lost,
\* no batch takes effect in part, and a call that fails leaves nothing behind.
THEOREM CountersAddUpHolds == Spec => []CountersAddUp
<1>1. HistoryInv => CountersAddUp
  BY DEF HistoryInv
<1> QED
  BY <1>1, HistoryAlways, PTL

\* A page whose two queries succeed counts whole calls, as often as they had been
\* committed and with all that were acknowledged when it was requested, and shows no
\* counter of a batch without its gauges.
THEOREM PageIsRecentHolds == Spec => []PageIsRecent
<1>1. ASSUME TypeInv, HistoryInv, page.pc > Len(PageOrder), page.failed = {}
      PROVE  /\ \A c \in page.acked : page.seen[c] > 0
             /\ \A k \in Keys :
                  /\ page.counters[k] =
                       SumOver(Callers, [c \in Callers |-> page.seen[c] * Delta(c, k)])
                  /\ page.gauges[k] = Nobody =>
                       \A c \in Callers : page.seen[c] > 0 => ~Touches(c, k)
  <2>1. page.pc > 2 /\ page.pc > 1
    BY <1>1 DEF TypeInv, TypeOK, PageOrder
  <2>2. PageInv /\ "counters" \notin page.failed
    BY <1>1 DEF HistoryInv
  <2> QED
    BY <1>1, <2>1, <2>2 DEF PageInv, Seen
<1>2. TypeInv /\ HistoryInv => PageIsRecent
  BY <1>1 DEF PageIsRecent
<1> QED
  BY <1>2, HistoryAlways, PTL

-----------------------------------------------------------------------------
(* Why every call returns: somebody can always go on, and nobody can go on   *)
(* for ever.                                                                 *)

Active(c) == pc[c] \in {"conn", "prepare", "rows", "commit"}

\* The guards of Step(c) that depend neither on a fault nor on the client: a
\* connection is free, a row is free, or the deadlock is detected.
Ready(c) ==
  \/ pc[c] = "conn" /\ FreeConn
  \/ pc[c] = "prepare" /\ CanPrepare(c)
  \/ pc[c] = "rows" /\ RowsFree(c)
  \/ Deadlocked(c)
  \/ pc[c] = "commit"

SomebodyReady == (\E c \in Callers : Active(c)) => \E c \in Callers : Ready(c)

\* If nobody holds a connection there is a free one.  Otherwise, who holds one
\* and cannot go on is blocked by a call that holds one too; if that is so of
\* all of them, they are deadlocked.
LEMMA ReadySomebody == TypeInv /\ IInv => SomebodyReady
<1> SUFFICES ASSUME TypeInv, IInv, NEW c \in Callers, Active(c)
             PROVE  \E d \in Callers : Ready(d)
  BY DEF SomebodyReady
<1>1. CASE conns = {}
  <2>1. pc[c] = "conn"
    BY <1>1 DEF Active, IInv, ConnInv
  <2>2. FreeConn
    BY <1>1, FS_EmptySet, PostgresAssumption DEF FreeConn
  <2> QED
    BY <2>1, <2>2 DEF Ready
<1>2. CASE \E d \in conns : ~Blocked(d)
  <2>1. PICK d \in conns : ~Blocked(d)
    BY <1>2
  <2>2. d \in Callers /\ pc[d] \in {"prepare", "rows", "commit"}
    BY <2>1 DEF IInv, CallsOK, NothingLeaks
  <2> QED
    BY <2>1, <2>2 DEF Ready, CanPrepare, RowsFree, Blocked
<1>3. CASE conns # {} /\ \A d \in conns : Blocked(d)
  <2>1. PICK d \in conns : TRUE
    BY <1>3
  <2>2. conns \in SUBSET Callers
    BY DEF IInv, CallsOK
  <2>3. ASSUME NEW e \in conns PROVE lock[Statement(e).key] \in conns
    <3>1. e \in Callers /\ Statement(e).key \in Keys
      BY <2>2, RowsFacts DEF Statement, TypeInv, TypeOK
    <3>2. lock[Statement(e).key] # Nobody
      BY <1>3 DEF Blocked
    <3> QED
      BY <3>1, <3>2 DEF IInv, NothingLeaks
  <2>4. Deadlocked(d)
    BY <1>3, <2>1, <2>2, <2>3 DEF Deadlocked
  <2> QED
    BY <2>1, <2>2, <2>4 DEF Ready
<1> QED
  BY <1>1, <1>2, <1>3

\* As long as a call has not returned, some call can take its next step without
\* the help of a fault or of a client that gives up: the pool and the row locks
\* never bring all of them to a halt.
THEOREM SomebodyReadyHolds == Spec => []SomebodyReady
BY ReadySomebody, HistoryAlways, PTL

\* What a call has before it: the steps of this attempt, and those of the
\* attempts that are left.
Attempt(c) == Len(Rows[c]) + 3

OfAttempt(c) ==
  CASE pc[c] = "conn"    -> Len(Rows[c]) + 3
    [] pc[c] = "prepare" -> Len(Rows[c]) + 2
    [] pc[c] = "rows"    -> (Len(Rows[c]) + 2) - row[c]
    [] OTHER             -> 1

StepsLeft(c) ==
  CASE pc[c] = "idle"            -> MaxAttempts * Attempt(c) + 1
    [] pc[c] \in {"ok", "error"} -> 0
    [] OTHER                     -> (MaxAttempts - attempt[c]) * Attempt(c) + OfAttempt(c)

CallsAdvance ==
  \A c \in Callers :
    /\ StepsLeft(c)' <= StepsLeft(c)
    /\ Call(c) \/ Step(c) => StepsLeft(c)' < StepsLeft(c)

LEMMA StepsLeftFacts ==
  ASSUME TypeInv, NEW c \in Callers
  PROVE  /\ Attempt(c) \in Nat /\ MaxAttempts - attempt[c] \in Nat /\ attempt[c] \in Nat
         /\ MaxAttempts \in Nat \ {0} /\ row[c] \in 1 .. Len(Rows[c]) /\ Len(Rows[c]) \in Nat \ {0}
         /\ OfAttempt(c) \in 1 .. Attempt(c)
         /\ StepsLeft(c) \in Nat /\ (pc[c] \notin {"ok", "error"} => StepsLeft(c) > 0)
<1>1. Len(Rows[c]) \in Nat \ {0} /\ row[c] \in 1 .. Len(Rows[c])
  BY RowsFacts DEF TypeInv, TypeOK
<1>2. MaxAttempts \in Nat \ {0} /\ attempt[c] \in 0 .. MaxAttempts
  BY PostgresAssumption DEF TypeInv, TypeOK
<1>3. MaxAttempts - attempt[c] \in Nat /\ attempt[c] \in Nat
  BY <1>2
<1>4. Attempt(c) \in Nat /\ OfAttempt(c) \in 1 .. Attempt(c)
  BY <1>1 DEF Attempt, OfAttempt
<1>5. /\ MaxAttempts * Attempt(c) \in Nat
      /\ (MaxAttempts - attempt[c]) * Attempt(c) \in Nat
  BY <1>2, <1>3, <1>4
<1>6. StepsLeft(c) \in Nat /\ (pc[c] \notin {"ok", "error"} => StepsLeft(c) > 0)
  <2>1. PICK i \in Nat, j \in Nat, k \in Nat \ {0} :
          /\ i = MaxAttempts * Attempt(c) /\ j = (MaxAttempts - attempt[c]) * Attempt(c)
          /\ k = OfAttempt(c)
    BY <1>4, <1>5
  <2> QED
    BY <2>1 DEF StepsLeft
<1> QED
  BY <1>1, <1>2, <1>3, <1>4, <1>6

\* A failed attempt is over, whether or not there is another one.
LEMMA FailAdvances ==
  ASSUME TypeInv, NEW c \in Callers, Active(c), NEW b \in BOOLEAN, Fail(c, b)
  PROVE  StepsLeft(c)' \in Nat /\ StepsLeft(c)' < StepsLeft(c)
<1>1. c \in DOMAIN pc /\ c \in DOMAIN attempt
  BY DEF TypeInv, TypeOK
<1>2. PICK n \in Nat, k \in Nat \ {0} : n = Attempt(c) /\ k = OfAttempt(c)
  BY StepsLeftFacts
<1>3. StepsLeft(c) = (MaxAttempts - attempt[c]) * n + k
  BY <1>2 DEF Active, StepsLeft
<1>4. CASE attempt[c] < MaxAttempts /\ pc'[c] = "conn" /\ attempt'[c] = attempt[c] + 1
  <2>1. PICK m \in Nat : MaxAttempts - attempt[c] = m + 1 /\ MaxAttempts - attempt'[c] = m
    <3>1. MaxAttempts \in Nat /\ attempt[c] \in Nat
      BY StepsLeftFacts
    <3>2. (MaxAttempts - attempt[c]) - 1 \in Nat
      BY <1>4, <3>1
    <3> QED
      BY <1>4, <3>1, <3>2
  <2>2. Attempt(c)' = n /\ OfAttempt(c)' = n
    BY <1>2, <1>4 DEF Attempt, OfAttempt
  <2>3. StepsLeft(c)' = m * n + n
    BY <1>4, <2>1, <2>2 DEF StepsLeft
  <2>4. (m + 1) * n = m * n + n /\ m * n \in Nat
    BY <1>2, <2>1
  <2> QED
    BY <1>2, <1>3, <2>1, <2>3, <2>4
<1>5. CASE pc'[c] = "error"
  <2>1. StepsLeft(c)' = 0
    BY <1>5 DEF StepsLeft
  <2> QED
    BY <2>1, StepsLeftFacts DEF Active
<1> QED
  BY <1>1, <1>4, <1>5 DEF Fail, Retries

\* A step within an attempt.
LEMMA WithinAttempt ==
  ASSUME TypeInv, NEW c \in Callers, Active(c), pc'[c] \in {"prepare", "rows", "commit"},
         attempt'[c] = attempt[c], OfAttempt(c)' < OfAttempt(c), OfAttempt(c)' \in Nat
  PROVE  StepsLeft(c)' \in Nat /\ StepsLeft(c)' < StepsLeft(c)
<1>1. PICK m \in Nat, n \in Nat, i \in Nat, j \in Nat :
        /\ m = MaxAttempts - attempt[c] /\ n = Attempt(c) /\ i = OfAttempt(c) /\ j = OfAttempt(c)'
  BY StepsLeftFacts
<1>2. StepsLeft(c) = m * n + i
  BY <1>1 DEF Active, StepsLeft
<1>3. Attempt(c)' = n
  BY <1>1 DEF Attempt
<1>4. StepsLeft(c)' = m * n + j
  BY <1>1, <1>3 DEF StepsLeft
<1> QED
  BY <1>1, <1>2, <1>4

\* The calls that do not move have as much before them as they had.
LEMMA OthersWait ==
  ASSUME NEW d, pc'[d] = pc[d], row'[d] = row[d], attempt'[d] = attempt[d]
  PROVE  StepsLeft(d)' = StepsLeft(d)
BY DEF StepsLeft, OfAttempt, Attempt

LEMMA CallAdvances ==
  ASSUME TypeInv, NEW c \in Callers, Call(c) \/ Step(c)
  PROVE  /\ StepsLeft(c)' \in Nat /\ StepsLeft(c)' < StepsLeft(c)
         /\ \A d \in Callers \ {c} : StepsLeft(d)' = StepsLeft(d)
<1> DEFINE Goal == /\ StepsLeft(c)' \in Nat /\ StepsLeft(c)' < StepsLeft(c)
                   /\ \A d \in Callers \ {c} :
                        pc'[d] = pc[d] /\ row'[d] = row[d] /\ attempt'[d] = attempt[d]
<1> SUFFICES Goal
  BY OthersWait
<1>0. TypeOK /\ DOMAIN pc = Callers /\ DOMAIN row = Callers /\ DOMAIN attempt = Callers
  BY DEF TypeInv, TypeOK
<1>1. CASE Call(c)
  <2>1. pc[c] = "idle" /\ pc'[c] \in {"conn", "error"} /\ attempt'[c] = 1
    BY <1>0, <1>1 DEF Call
  <2>2. PICK m \in Nat, n \in Nat : MaxAttempts = m + 1 /\ n = Attempt(c)
    <3>1. MaxAttempts \in Nat \ {0} /\ Attempt(c) \in Nat
      BY StepsLeftFacts
    <3>2. MaxAttempts - 1 \in Nat /\ MaxAttempts = (MaxAttempts - 1) + 1
      BY <3>1
    <3> QED
      BY <3>1, <3>2
  <2>3. StepsLeft(c) = (m + 1) * n + 1 /\ (m + 1) * n = m * n + n /\ m * n \in Nat
    BY <2>1, <2>2 DEF StepsLeft
  <2>4. ASSUME pc'[c] = "conn" PROVE StepsLeft(c)' = m * n + n
    <3>1. Attempt(c)' = n /\ OfAttempt(c)' = n /\ MaxAttempts - attempt'[c] = m
      BY <2>1, <2>2, <2>4 DEF Attempt, OfAttempt
    <3> QED
      BY <2>4, <3>1 DEF StepsLeft
  <2>5. ASSUME pc'[c] = "error" PROVE StepsLeft(c)' = 0
    BY <2>5 DEF StepsLeft
  <2>6. StepsLeft(c)' \in Nat /\ StepsLeft(c)' < StepsLeft(c)
    BY <2>1, <2>2, <2>3, <2>4, <2>5
  <2> QED
    BY <1>0, <1>1, <2>6 DEF Call
<1>2. CASE Begin(c)
  <2>1. /\ pc[c] = "conn" /\ row'[c] = 1 /\ UNCHANGED attempt
        /\ pc'[c] \in {"rows", "prepare"}
    BY <1>0, <1>2 DEF Begin
  <2>2. OfAttempt(c)' \in Nat /\ OfAttempt(c)' < OfAttempt(c)
    BY <2>1, RowsFacts DEF OfAttempt
  <2>3. StepsLeft(c)' \in Nat /\ StepsLeft(c)' < StepsLeft(c)
    BY <2>1, <2>2, WithinAttempt DEF Active
  <2> QED
    BY <1>0, <1>2, <2>3 DEF Begin
<1>3. CASE Prepare(c)
  <2>1. pc[c] = "prepare" /\ pc'[c] = "rows" /\ UNCHANGED <<row, attempt>> /\ row[c] = 1
    BY <1>0, <1>3 DEF Prepare, TypeInv, HoldInv
  <2>2. OfAttempt(c)' \in Nat /\ OfAttempt(c)' < OfAttempt(c)
    BY <2>1, RowsFacts DEF OfAttempt
  <2>3. StepsLeft(c)' \in Nat /\ StepsLeft(c)' < StepsLeft(c)
    BY <2>1, <2>2, WithinAttempt DEF Active
  <2> QED
    BY <1>0, <1>3, <2>3 DEF Prepare
<1>4. CASE Execute(c)
  <2>1. /\ pc[c] = "rows" /\ UNCHANGED attempt
        /\ \/ row[c] = Len(Rows[c]) /\ pc'[c] = "commit" /\ row' = row
           \/ row[c] # Len(Rows[c]) /\ pc'[c] = "rows" /\ row'[c] = row[c] + 1
    BY <1>0, <1>4 DEF Execute
  <2>2. PICK n \in Nat, i \in Nat : n = Len(Rows[c]) /\ i = row[c] /\ i \in 1 .. n
    BY StepsLeftFacts
  <2>3. OfAttempt(c)' \in Nat /\ OfAttempt(c)' < OfAttempt(c)
    BY <2>1, <2>2 DEF OfAttempt
  <2>4. StepsLeft(c)' \in Nat /\ StepsLeft(c)' < StepsLeft(c)
    BY <2>1, <2>3, WithinAttempt DEF Active
  <2> QED
    BY <1>0, <1>4, <2>4 DEF Execute
<1>5. CASE OutOfRange(c) \/ Deadlock(c) \/ ConnLost(c) \/ Abandon(c) \/ CommitLost(c)
  <2>1. UNCHANGED row /\ Active(c) /\ \E b \in BOOLEAN : Fail(c, b)
    BY <1>5 DEF OutOfRange, Deadlock, Deadlocked, Blocked, ConnLost, Abandon, CommitLost,
                AfterLostCommit, Active
  <2>2. \A d \in Callers \ {c} : pc'[d] = pc[d] /\ attempt'[d] = attempt[d]
    BY <1>0, <2>1 DEF Fail
  <2> QED
    BY <2>1, <2>2, FailAdvances
<1>6. CASE Commit(c)
  <2>1. pc[c] = "commit" /\ pc'[c] = "ok" /\ UNCHANGED <<row, attempt>>
    BY <1>0, <1>6 DEF Commit
  <2>2. StepsLeft(c)' = 0 /\ StepsLeft(c) > 0
    BY <2>1, StepsLeftFacts DEF StepsLeft
  <2> QED
    BY <1>0, <1>6, <2>1, <2>2 DEF Commit
<1> QED
  BY <1>1, <1>2, <1>3, <1>4, <1>5, <1>6 DEF Step

\* Every step that a call takes leaves it fewer to take, and nothing that the
\* others do gives it more: a call returns after at most as many steps as its
\* rows and the attempts of retry.Do allow.
THEOREM CallsAdvanceAlways == Spec => [][CallsAdvance]_vars
<1>1. ASSUME TypeInv, [Next]_vars
      PROVE  CallsAdvance
  <2>1. ASSUME NEW c \in Callers, Call(c) \/ Step(c)
        PROVE  StepsLeft(c)' < StepsLeft(c) /\ StepsLeft(c)' \in Nat /\ StepsLeft(c) \in Nat
    BY <1>1, <2>1, CallAdvances, StepsLeftFacts
  <2>2. ASSUME NEW d \in Callers PROVE StepsLeft(d)' <= StepsLeft(d)
    <3>1. StepsLeft(d) \in Nat
      BY <1>1, StepsLeftFacts
    <3>2. ASSUME NEW c \in Callers, Call(c) \/ Step(c) PROVE StepsLeft(d)' <= StepsLeft(d)
      <4>1. CASE d = c
        BY <2>1, <3>2, <4>1
      <4>2. CASE d # c
        BY <1>1, <3>1, <3>2, <4>2, CallAdvances
      <4> QED
        BY <4>1, <4>2
    <3>3. CASE UNCHANGED <<pc, row, attempt>>
      BY <3>1, <3>3, OthersWait
    <3>4. \/ \E c \in Callers : Call(c) \/ Step(c)
          \/ UNCHANGED <<pc, row, attempt>>
      BY <1>1 DEF Next, CancelRequest, PageStart, PageQuery, PageQueryFails, PageDone, vars,
                  callVars
    <3> QED
      BY <3>2, <3>3, <3>4
  <2> QED
    BY <2>1, <2>2 DEF CallsAdvance
<1> QED
  BY <1>1, TypeAlways, PTL DEF Spec
=============================================================================

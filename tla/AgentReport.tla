---------------------------- MODULE AgentReport ----------------------------
(***************************************************************************)
(* What the agent promises about the polls it counts: each of them is      *)
(* reported until it is delivered or given up.  Nothing is delivered that  *)
(* was not polled, and a poll is counted twice only by a request that was  *)
(* taken for lost and arrives, or by a flush that was interrupted when it  *)
(* had handed over what it gives back.                                     *)
(***************************************************************************)
EXTENDS Naturals

VARIABLES
  pending,    \* polls the agent has yet to report, or is reporting
  delivered,  \* polls the server has counted
  givenUp,    \* polls the agent has given up
  doubtful,   \* polls in requests taken for lost that may still arrive
  handed,     \* those of the batch being submitted that the workers have
  stopped     \* the agent has returned

vars == <<pending, delivered, givenUp, doubtful, handed, stopped>>

Init ==
  /\ pending = 0 /\ delivered = 0 /\ givenUp = 0 /\ doubtful = 0 /\ handed = 0
  /\ stopped = FALSE

Poll ==
  /\ ~stopped
  /\ pending' = pending + 1
  /\ UNCHANGED <<delivered, givenUp, doubtful, handed, stopped>>

HandOver(n) ==
  /\ ~stopped
  /\ handed' = handed + n
  /\ UNCHANGED <<pending, delivered, givenUp, doubtful, stopped>>

\* The batch is done with.
Submitted ==
  /\ handed' = 0
  /\ UNCHANGED <<pending, delivered, givenUp, doubtful, stopped>>

\* Its submission was interrupted: what has been handed over is pending twice.
GiveBack ==
  /\ pending' = pending + handed
  /\ handed' = 0
  /\ UNCHANGED <<delivered, givenUp, doubtful, stopped>>

Deliver(n) ==
  /\ ~stopped
  /\ pending' = pending - n
  /\ delivered' = delivered + n
  /\ UNCHANGED <<givenUp, doubtful, handed, stopped>>

\* Given up, or to be tried again; whether it arrives is another matter.
Fail(n) ==
  /\ ~stopped
  /\ \/ pending' = pending - n /\ givenUp' = givenUp + n
     \/ UNCHANGED <<pending, givenUp>>
  /\ doubtful' \in {doubtful, doubtful + n}
  /\ UNCHANGED <<delivered, handed, stopped>>

Arrive(n) ==
  /\ doubtful' = doubtful - n
  /\ delivered' = delivered + n
  /\ UNCHANGED <<pending, givenUp, handed, stopped>>

Stop ==
  /\ handed = 0
  /\ stopped' = TRUE
  /\ UNCHANGED <<pending, delivered, givenUp, doubtful, handed>>

Next ==
  \/ Poll \/ Submitted \/ GiveBack \/ Stop
  \/ \E n \in 1 .. pending : HandOver(n) \/ Deliver(n) \/ Fail(n)
  \/ \E n \in 1 .. doubtful : Arrive(n)

Spec == Init /\ [][Next]_vars
=============================================================================

------------------------------ MODULE AuditLog ------------------------------
(***************************************************************************)
(* What the audit promises: a best-effort log.  An event is accepted or    *)
(* not; every observer gets the accepted ones, in that order, each once;   *)
(* when the log is finished, everybody has everything.                     *)
(***************************************************************************)
EXTENDS Naturals, Sequences

CONSTANTS Events, Observers

VARIABLES
  accepted,  \* the accepted events, in order
  log,       \* what each observer has got
  finished

vars == <<accepted, log, finished>>

Init ==
  /\ accepted = <<>>
  /\ log = [o \in Observers |-> <<>>]
  /\ finished = FALSE

Accept(e) ==
  /\ ~finished
  /\ accepted' = Append(accepted, e)
  /\ UNCHANGED <<log, finished>>

Deliver(o) ==
  /\ ~finished
  /\ Len(log[o]) < Len(accepted)
  /\ log' = [log EXCEPT ![o] = Append(@, accepted[Len(@) + 1])]
  /\ UNCHANGED <<accepted, finished>>

Finish ==
  /\ \A o \in Observers : log[o] = accepted
  /\ finished' = TRUE
  /\ UNCHANGED <<accepted, log>>

Next == (\E e \in Events : Accept(e)) \/ (\E o \in Observers : Deliver(o)) \/ Finish

Spec == Init /\ [][Next]_vars
=============================================================================

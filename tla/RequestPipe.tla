----------------------------- MODULE RequestPipe -----------------------------
(***************************************************************************)
(* What WSClient.Send promises, without connections or goroutines: a pipe  *)
(* that holds at most one accepted request, passes requests on in the      *)
(* order it accepted them, passes each one on at most once and never drops *)
(* one it accepted.  A caller may give up only on a request that the pipe  *)
(* has not accepted.                                                       *)
(***************************************************************************)
EXTENDS Sequences

CONSTANTS Requests, None

VARIABLES
    phase,    \* how far each Send got
    slot,     \* the accepted request that has not been passed on, or None
    log       \* the requests passed on, in order

vars == <<phase, slot, log>>

Init ==
    /\ phase = [r \in Requests |-> "new"]
    /\ slot = None
    /\ log = <<>>

Offer(r) ==
    /\ phase[r] = "new"
    /\ phase' = [phase EXCEPT ![r] = "sending"]
    /\ UNCHANGED <<slot, log>>

GiveUp(r) ==
    /\ phase[r] = "sending"
    /\ phase' = [phase EXCEPT ![r] = "cancelled"]
    /\ UNCHANGED <<slot, log>>

Accept(r) ==
    /\ phase[r] = "sending"
    /\ slot = None
    /\ phase' = [phase EXCEPT ![r] = "accepted"]
    /\ slot' = r
    /\ UNCHANGED log

PassOn ==
    /\ slot # None
    /\ log' = Append(log, slot)
    /\ slot' = None
    /\ UNCHANGED phase

Next ==
    \/ \E r \in Requests : Offer(r) \/ GiveUp(r) \/ Accept(r)
    \/ PassOn

Spec == Init /\ [][Next]_vars

==============================================================================

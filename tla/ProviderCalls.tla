--------------------------- MODULE ProviderCalls ----------------------------
(***************************************************************************)
(* Calls to a model provider: a request enters the semaphore (handlers/    *)
(* agent.py), calls the provider through its circuit breaker as often as   *)
(* the retries allow (resilience_policy, providers/base.py), and leaves.   *)
(* A lost lease cancels the request, and with it the call in flight, which *)
(* may be the probe of the breaker.  Background callers use the breaker    *)
(* without a slot.                                                         *)
(***************************************************************************)
EXTENDS LlmSemaphore, CircuitBreaker

ASSUME CallersAssumption == Requests \subseteq Callers

vars == <<semaphore, breaker>>

Init == SemaphoreInit /\ BreakerInit

\* run_with_resilience: an attempt by a request that holds a slot and has not
\* been cancelled, or by a background caller.
Attempt(c) ==
  /\ c \in Requests => pc[c] = "hold" /\ c \notin lost
  /\ Admit(c)
  /\ UNCHANGED semaphore

\* It ends: with a result, a failure, a timeout or a cancellation.
AttemptEnds(c) == End(c) /\ UNCHANGED semaphore

\* The body of the async with is left when nothing is in flight for it.
BodyEnds(r) ==
  /\ r \notin inflight
  /\ Leave(r)
  /\ UNCHANGED breaker

Slots(r) == SemaphoreStep(r) /\ UNCHANGED breaker

World == (OtherAdmitted \/ OtherLeaves \/ Tick) /\ UNCHANGED breaker

Operator == (Monitor \/ Cool \/ force_open \/ force_close \/ reset) /\ UNCHANGED semaphore

\* The process dies and is started again: its tokens stay in Redis.
Crash ==
  /\ pc' = [r \in Requests |-> "idle"]
  /\ permits' = Limit
  /\ safe' = [r \in Requests |-> 0] /\ next' = [r \in Requests |-> 0]
  /\ left' = [r \in Requests |-> 0]
  /\ renewal' = [r \in Requests |-> "off"]
  /\ local' = {} /\ lost' = {} /\ tokens' = {}
  /\ others' = others + Cardinality(Live)
  /\ circuit' = "closed" /\ failures' = 0 /\ cooled' = TRUE /\ probe' = FALSE
  /\ inflight' = {} /\ current' = {}

Next == \/ \E c \in Callers : Attempt(c) \/ AttemptEnds(c)
        \/ \E r \in Requests : Slots(r) \/ BodyEnds(r)
        \/ World \/ Operator \/ Crash

Spec == Init /\ [][Next]_vars

-----------------------------------------------------------------------------
\* The types of both.
TypeOK == SemaphoreTypeOK /\ BreakerTypeOK

\* Fairness: a call ends, at the latest by its timeout or because its request
\* was cancelled.
FairSpec == Spec /\ \A c \in Callers : WF_vars(AttemptEnds(c))

\* The breaker never stays half open: it decides, whatever becomes of its probe.
HalfOpenEnds == circuit = "half_open" ~> circuit # "half_open"
=============================================================================

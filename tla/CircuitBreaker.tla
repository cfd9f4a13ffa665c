--------------------------- MODULE CircuitBreaker ---------------------------
(***************************************************************************)
(* One circuit breaker (app/circuit_breaker.py): the state, the failures   *)
(* behind it and the calls that run outside its lock.  The lock is held    *)
(* only between two awaits, so each side of a call is one step.  A call    *)
(* remembers the generation it was admitted in and acts on the breaker only*)
(* if that is still the generation: the model keeps the calls for which it *)
(* is.  The statistics are left out, with the generation that guards them. *)
(***************************************************************************)
EXTENDS Naturals

CONSTANTS Callers,    \* tasks that call, one call at a time each
          Threshold,  \* failure_threshold
          MaxFailures \* max_failures: what the monitor keeps

ASSUME BreakerAssumption == /\ Threshold \in Nat \ {0}
                            /\ MaxFailures \in Nat /\ MaxFailures >= Threshold

VARIABLES circuit,  \* _state
          failures, \* _failure_count
          cooled,   \* recovery_timeout has passed since _last_failure_time
          probe,    \* _half_open_probe_active
          inflight, \* callers whose function runs
          current   \* those of them whose generation is _generation

breaker == <<circuit, failures, cooled, probe, inflight, current>>

BreakerInit == /\ circuit = "closed"
               /\ failures = 0
               /\ cooled = TRUE
               /\ probe = FALSE
               /\ inflight = {}
               /\ current = {}

-----------------------------------------------------------------------------
\* What _set_state leaves of `calls`, the calls of the present generation: a
\* transition makes them all stale.
_set_state(new, calls) == /\ circuit' = new
                          /\ current' = IF new = circuit THEN calls ELSE {}

\* Fault: a call is let through while a probe is in flight.
RefusesOpen == circuit = "open" /\ (~cooled \/ probe)

\* call raises CircuitBreakerOpenError.
Refuses == \/ circuit = "half_open"
           \/ circuit = "open" /\ (~cooled \/ probe)

\* call, up to the await: an open breaker that has cooled down takes this call
\* as its probe.
Admit(c) ==
  /\ c \notin inflight /\ ~Refuses
  /\ inflight' = inflight \cup {c}
  /\ IF circuit = "open"
     THEN probe' = TRUE /\ circuit' = "half_open" /\ current' = {c}
     ELSE current' = current \cup {c} /\ UNCHANGED <<probe, circuit>>
  /\ UNCHANGED <<failures, cooled>>

\* A call that was admitted before a transition or a reset changes nothing.
Stale(c) ==
  /\ c \in inflight \ current
  /\ inflight' = inflight \ {c}
  /\ UNCHANGED <<circuit, failures, cooled, probe, current>>

Success(c) ==
  /\ c \in current
  /\ inflight' = inflight \ {c}
  /\ probe' = FALSE
  /\ _set_state("closed", current \ {c})
  /\ failures' = 0
  /\ UNCHANGED cooled

\* An expected exception, and _on_failure.  All counts above MaxFailures are one:
\* the monitor brings each of them back to MaxFailures.
Failure(c) ==
  /\ c \in current
  /\ inflight' = inflight \ {c}
  /\ probe' = FALSE
  /\ failures' = IF failures > MaxFailures THEN failures ELSE failures + 1
  /\ cooled' = FALSE
  /\ _set_state(IF failures + 1 >= Threshold THEN "open" ELSE circuit, current \ {c})

\* Fault: an outcome that is not a failure leaves the probe's state as it is.
IgnoredInPlace(c) ==
  /\ c \in current
  /\ inflight' = inflight \ {c}
  /\ current' = current \ {c}
  /\ probe' = FALSE
  /\ UNCHANGED <<circuit, failures, cooled>>

\* A cancelled call, or an exception that is not the provider's failure: the
\* probe is given back, with the old cooldown.
Ignored(c) ==
  /\ c \in current
  /\ inflight' = inflight \ {c}
  /\ probe' = FALSE
  /\ _set_state(IF circuit = "half_open" THEN "open" ELSE circuit, current \ {c})
  /\ UNCHANGED <<failures, cooled>>

\* _monitor_loop bounds the count.
Monitor ==
  /\ failures > MaxFailures
  /\ failures' = MaxFailures
  /\ UNCHANGED <<circuit, cooled, probe, inflight, current>>

\* recovery_timeout passes.
Cool ==
  /\ circuit = "open" /\ ~cooled
  /\ cooled' = TRUE
  /\ UNCHANGED <<circuit, failures, probe, inflight, current>>

force_open ==
  /\ probe' = FALSE /\ current' = {}
  /\ circuit' = "open"
  /\ failures' = Threshold
  /\ cooled' = FALSE
  /\ UNCHANGED inflight

force_close ==
  /\ probe' = FALSE /\ current' = {}
  /\ circuit' = "closed"
  /\ failures' = 0
  /\ UNCHANGED <<cooled, inflight>>

\* reset also forgets the last failure.
reset ==
  /\ probe' = FALSE /\ current' = {}
  /\ circuit' = "closed"
  /\ failures' = 0
  /\ cooled' = TRUE
  /\ UNCHANGED inflight

End(c) == Stale(c) \/ Success(c) \/ Failure(c) \/ Ignored(c)

BreakerNext == \/ \E c \in Callers : Admit(c) \/ End(c)
               \/ Monitor \/ Cool \/ force_open \/ force_close \/ reset

BreakerSpec == BreakerInit /\ [][BreakerNext]_breaker

-----------------------------------------------------------------------------
\* The types of the breaker.
BreakerTypeOK == /\ circuit \in {"closed", "open", "half_open"}
                 /\ failures \in 0..(MaxFailures + 1)
                 /\ cooled \in BOOLEAN /\ probe \in BOOLEAN
                 /\ inflight \subseteq Callers /\ current \subseteq inflight

\* A half-open breaker refuses everyone, so it is half open only while exactly
\* one call that can still move it is in flight: its probe.  Whatever becomes of
\* the probe, and whatever older calls report meanwhile, nobody is locked out
\* for good.
ProbeAlive == circuit = "half_open" => /\ probe
                                       /\ \E c \in inflight : current = {c}
=============================================================================

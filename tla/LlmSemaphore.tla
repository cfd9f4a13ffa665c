---------------------------- MODULE LlmSemaphore ----------------------------
(***************************************************************************)
(* GlobalLLMSemaphore (app/adapters/concurrency.py) as one process sees it:*)
(* its own semaphore, the sorted set in Redis in which every process keeps *)
(* a token per request, and the lease that the token is.  Time is counted  *)
(* down: what is left of a token in Redis, of the owner's own reckoning of *)
(* its lease, and of the one it will have if the command it has sent       *)
(* succeeds.  Clocks run at the same rate.  Who has to stop may take its   *)
(* time to do so.                                                          *)
(*                                                                         *)
(* Each acquisition has a token of its own: what a failed release leaves   *)
(* behind counts among the tokens of others until it expires.              *)
(***************************************************************************)
EXTENDS Integers, FiniteSets

CONSTANTS Requests, \* tasks that enter the semaphore
          Limit,    \* its size, here and in Redis
          Waiters,  \* waiter_limit: 3 * Limit
          TTL       \* _lease_ttl

ASSUME SemaphoreAssumption == /\ IsFiniteSet(Requests)
                              /\ Limit \in Nat \ {0}
                              /\ Waiters \in Nat
                              /\ TTL \in Nat \ {0}

VARIABLES
  pc,       \* [Requests -> where it is]
  permits,  \* value of _local_semaphore
  safe,     \* [Requests -> what is left until last_confirmed + _lease_ttl]
  next,     \* [Requests -> the same, counted from `started` of the last command]
  renewal,  \* [Requests -> the renewal task: "off", "idle" or where its command is]
  local,    \* requests admitted without Redis (mode local_fallback)
  lost,     \* requests whose lease is lost
  tokens,   \* tokens of these requests in the sorted set
  left,     \* [Requests -> what is left of its token]
  others    \* live tokens of other processes, and those left behind

semaphore == <<pc, permits, safe, next, renewal, local, lost, tokens, left, others>>

SemaphoreInit == /\ pc = [r \in Requests |-> "idle"]
                 /\ permits = Limit
                 /\ safe = [r \in Requests |-> 0]
                 /\ next = [r \in Requests |-> 0]
                 /\ renewal = [r \in Requests |-> "off"]
                 /\ local = {} /\ lost = {}
                 /\ tokens = {}
                 /\ left = [r \in Requests |-> 0]
                 /\ others = 0

Waiting == {r \in Requests : pc[r] = "wait"}

-----------------------------------------------------------------------------
\* Entering.

\* __aenter__: beyond waiter_limit the request is rejected.
Enter(r) ==
  /\ pc[r] = "idle" /\ Cardinality(Waiting) < Waiters
  /\ pc' = [pc EXCEPT ![r] = "wait"]
  /\ UNCHANGED <<permits, safe, next, renewal, local, lost, tokens, left, others>>

\* The deadline passes, or the request is cancelled, before it has a local slot.
GiveUp(r) ==
  /\ pc[r] = "wait"
  /\ pc' = [pc EXCEPT ![r] = "idle"]
  /\ UNCHANGED <<permits, safe, next, renewal, local, lost, tokens, left, others>>

\* The local slot, and the command for one in Redis.
TakeLocal(r) ==
  /\ pc[r] = "wait" /\ permits > 0
  /\ permits' = permits - 1
  /\ pc' = [pc EXCEPT ![r] = "sent"]
  /\ next' = [next EXCEPT ![r] = TTL]
  /\ UNCHANGED <<safe, renewal, local, lost, tokens, left, others>>

\* ZREMRANGEBYSCORE.
Live == {t \in tokens : left[t] > 0}

HasRoom == Cardinality(Live) + others < Limit

\* _ADMIT_SLOT.
RedisAdmits(r) ==
  /\ pc[r] = "sent"
  /\ IF HasRoom
     THEN /\ tokens' = Live \cup {r}
          /\ left' = [left EXCEPT ![r] = TTL]
          /\ pc' = [pc EXCEPT ![r] = "admitted"]
     ELSE /\ tokens' = Live
          /\ pc' = [pc EXCEPT ![r] = "refused"]
          /\ UNCHANGED left
  /\ UNCHANGED <<permits, safe, next, renewal, local, lost, others>>

\* A request that was refused asks again.  A command whose answer is lost is not
\* sent again: the client of Redis has no retries.
AskAgain(r) ==
  /\ pc[r] = "refused"
  /\ pc' = [pc EXCEPT ![r] = "sent"]
  /\ next' = [next EXCEPT ![r] = TTL]
  /\ UNCHANGED <<permits, safe, renewal, local, lost, tokens, left, others>>

\* Fault: the lease is counted from the answer.
ConfirmedOnAnswer(r) == TTL

\* scope.last_confirmed = started, for an admission and for a renewal.
Confirmed(r) == next[r]

\* The slot is confirmed; an answer that comes later than the lease lasts is of
\* no use.
Acquired(r) ==
  /\ pc[r] = "admitted"
  /\ IF Confirmed(r) > 0
     THEN /\ pc' = [pc EXCEPT ![r] = "hold"]
          /\ safe' = [safe EXCEPT ![r] = Confirmed(r)]
          /\ renewal' = [renewal EXCEPT ![r] = "idle"]
          /\ UNCHANGED lost
     ELSE /\ pc' = [pc EXCEPT ![r] = "exit"]
          /\ lost' = lost \cup {r}
          /\ UNCHANGED <<safe, renewal>>
  /\ UNCHANGED <<permits, next, local, tokens, left, others>>

\* Redis fails, or is not there: the local slot has to do.  The token may be in
\* Redis all the same.
Degrade(r) ==
  /\ pc[r] \in {"sent", "admitted", "refused"}
  /\ pc' = [pc EXCEPT ![r] = "hold"]
  /\ local' = local \cup {r}
  /\ UNCHANGED <<permits, safe, next, renewal, lost, tokens, left, others>>

\* The deadline passes or the request is cancelled: _acquire cleans up itself.
Reject(r) ==
  /\ pc[r] \in {"sent", "admitted", "refused"}
  /\ pc' = [pc EXCEPT ![r] = "exit"]
  /\ UNCHANGED <<permits, safe, next, renewal, local, lost, tokens, left, others>>

-----------------------------------------------------------------------------
\* Holding: _renew_slot.

RenewSend(r) ==
  /\ pc[r] = "hold" /\ renewal[r] = "idle" /\ safe[r] > 0
  /\ renewal' = [renewal EXCEPT ![r] = "sent"]
  /\ next' = [next EXCEPT ![r] = TTL]
  /\ UNCHANGED <<pc, permits, safe, local, lost, tokens, left, others>>

\* _RENEW_SLOT: an expired token that nobody has removed is renewed too.
RedisRenews(r) ==
  /\ renewal[r] = "sent"
  /\ renewal' = [renewal EXCEPT ![r] = IF r \in tokens THEN "renewed" ELSE "gone"]
  /\ left' = IF r \in tokens THEN [left EXCEPT ![r] = TTL] ELSE left
  /\ UNCHANGED <<pc, permits, safe, next, local, lost, tokens, others>>

Renewed(r) ==
  /\ renewal[r] = "renewed" /\ safe[r] > 0
  /\ renewal' = [renewal EXCEPT ![r] = "idle"]
  /\ safe' = [safe EXCEPT ![r] = Confirmed(r)]
  /\ UNCHANGED <<pc, permits, next, local, lost, tokens, left, others>>

\* The command fails or takes more than five seconds: another try, while the
\* lease lasts.
RenewFails(r) ==
  /\ renewal[r] \in {"sent", "renewed", "gone"} /\ safe[r] > 0
  /\ renewal' = [renewal EXCEPT ![r] = "idle"]
  /\ UNCHANGED <<pc, permits, safe, next, local, lost, tokens, left, others>>

\* _lose_lease: the owner is cancelled, and the renewal ends.
LoseLease(r) ==
  /\ pc[r] = "hold" /\ renewal[r] # "off"
  /\ safe[r] = 0 \/ renewal[r] = "gone"
  /\ lost' = lost \cup {r}
  /\ renewal' = [renewal EXCEPT ![r] = "off"]
  /\ UNCHANGED <<pc, permits, safe, next, local, tokens, left, others>>

-----------------------------------------------------------------------------
\* Leaving.

\* The body has returned, raised or been cancelled.
Leave(r) ==
  /\ pc[r] = "hold"
  /\ pc' = [pc EXCEPT ![r] = "exit"]
  /\ UNCHANGED <<permits, safe, next, renewal, local, lost, tokens, left, others>>

\* Fault: a failed ZREM skips the rest of __aexit__.
GivenBackIf(ok) == IF ok THEN permits + 1 ELSE permits

\* Fault: a failed __aenter__ cleans up, and the async with does so again.
GivenBackTwice(ok) == permits + 2

\* The local slot is given back in `finally`.
GivenBack(ok) == permits + 1

\* __aexit__: the token is removed, or not, within the cleanup timeout.
Release(r) ==
  /\ pc[r] = "exit"
  /\ \E ok \in BOOLEAN :
       /\ permits' = GivenBack(ok)
       /\ others' = IF ~ok /\ r \in Live THEN others + 1 ELSE others
  /\ tokens' = tokens \ {r}
  /\ pc' = [pc EXCEPT ![r] = "idle"]
  /\ safe' = [safe EXCEPT ![r] = 0]
  /\ next' = [next EXCEPT ![r] = 0]
  /\ left' = [left EXCEPT ![r] = 0]
  /\ renewal' = [renewal EXCEPT ![r] = "off"]
  /\ local' = local \ {r} /\ lost' = lost \ {r}

-----------------------------------------------------------------------------
\* The rest of the world.

\* Redis runs _ADMIT_SLOT for another process, or late for a request of this one
\* that has given up.
OtherAdmitted ==
  /\ HasRoom
  /\ tokens' = Live
  /\ others' = others + 1
  /\ UNCHANGED <<pc, permits, safe, next, renewal, local, lost, left>>

\* It releases its slot, or a token left behind expires.
OtherLeaves ==
  /\ others > 0
  /\ others' = others - 1
  /\ UNCHANGED <<pc, permits, safe, next, renewal, local, lost, tokens, left>>

Earlier(f) == [r \in Requests |-> IF f[r] > 0 THEN f[r] - 1 ELSE 0]

Tick ==
  /\ safe' = Earlier(safe) /\ next' = Earlier(next) /\ left' = Earlier(left)
  /\ UNCHANGED <<pc, permits, renewal, local, lost, tokens, others>>

SemaphoreStep(r) ==
  \/ Enter(r) \/ GiveUp(r) \/ TakeLocal(r) \/ RedisAdmits(r) \/ AskAgain(r) \/ Acquired(r)
  \/ Degrade(r) \/ Reject(r) \/ RenewSend(r) \/ RedisRenews(r) \/ Renewed(r) \/ RenewFails(r)
  \/ LoseLease(r) \/ Release(r)

SemaphoreNext == \/ \E r \in Requests : SemaphoreStep(r) \/ Leave(r)
                 \/ OtherAdmitted \/ OtherLeaves \/ Tick

SemaphoreSpec == SemaphoreInit /\ [][SemaphoreNext]_semaphore

-----------------------------------------------------------------------------
Places == {"idle", "wait", "sent", "admitted", "refused", "hold", "exit"}

\* The types of the semaphore.
SemaphoreTypeOK ==
  /\ pc \in [Requests -> Places]
  /\ permits \in 0..Limit
  /\ safe \in [Requests -> 0..TTL] /\ next \in [Requests -> 0..TTL]
  /\ left \in [Requests -> 0..TTL]
  /\ renewal \in [Requests -> {"off", "idle", "sent", "renewed", "gone"}]
  /\ local \subseteq Requests /\ lost \subseteq Requests /\ tokens \subseteq Requests
  /\ others \in 0..Limit

\* Requests that work on the strength of their lease.
Working == {r \in Requests : pc[r] = "hold" /\ r \notin local /\ safe[r] > 0}

\* The requests that work under a lease and the slots that the rest of the
\* world has are never more than the limit, whatever is late or lost
\* between here and Redis: no lease is relied on longer than Redis keeps it.
SlotsBounded == Cardinality(Working) + others <= Limit

Inside == {r \in Requests : pc[r] \in {"sent", "admitted", "refused", "hold", "exit"}}

\* Every way out of the semaphore, out of a failed __aenter__ too, gives the
\* local slot back once: with Redis gone this process still runs at most Limit
\* requests, and never loses a slot.
LocalConserved == permits + Cardinality(Inside) = Limit
=============================================================================

------------------------ MODULE ProviderCallsProofs -------------------------
(***************************************************************************)
(* Proofs about ProviderCalls, for every set of requests and callers, every*)
(* limit and every lease.                                                  *)
(***************************************************************************)
EXTENDS ProviderCalls, FiniteSetTheorems, TLAPS

\* The types, the bounds that follow from the other parts left out.
Shape ==
  /\ pc \in [Requests -> Places]
  /\ permits \in Nat /\ others \in Nat
  /\ safe \in [Requests -> 0..TTL] /\ next \in [Requests -> 0..TTL]
  /\ left \in [Requests -> 0..TTL]
  /\ renewal \in [Requests -> {"off", "idle", "sent", "renewed", "gone"}]
  /\ local \subseteq Requests /\ lost \subseteq Requests /\ tokens \subseteq Requests

\* Nothing of a lease exists outside the body.
Quiet == \A r \in Requests :
           pc[r] \notin {"hold", "exit"} => renewal[r] = "off" /\ safe[r] = 0

\* The owner's reckoning, now and after the answer under way, is never ahead of
\* what Redis keeps.
Covered == \A r \in Requests :
  /\ safe[r] > 0 => r \in tokens /\ safe[r] <= left[r]
  /\ (pc[r] = "admitted" \/ renewal[r] = "renewed") /\ next[r] > 0
       => r \in tokens /\ next[r] <= left[r]

\* The sorted set is within its limit, expired tokens included: a renewal may
\* bring one back.
Capped == Cardinality(tokens) + others <= Limit

SemInv == Shape /\ Quiet /\ Covered /\ Capped /\ LocalConserved

\* What keeps a failed probe from leaving the breaker half open: the failures
\* that opened it still stand.
BreakerInv == /\ BreakerTypeOK
              /\ circuit # "closed" => failures >= Threshold
              /\ probe => circuit = "half_open"
              /\ circuit = "open" => current = {}
              /\ ProbeAlive

-----------------------------------------------------------------------------
LEMMA InitSem == ASSUME SemaphoreInit PROVE SemInv
<1> USE SemaphoreAssumption
<1>1. Shape /\ Quiet /\ Covered
  BY DEF SemaphoreInit, Shape, Quiet, Covered, Places
<1>2. Inside = {}
  BY DEF SemaphoreInit, Inside
<1>3. Capped /\ LocalConserved
  BY <1>2, FS_EmptySet DEF SemaphoreInit, Capped, LocalConserved
<1> QED BY <1>1, <1>3 DEF SemInv

LEMMA InitBreaker == ASSUME BreakerInit PROVE BreakerInv
<1>1. failures \in 0..(MaxFailures + 1)
  BY BreakerAssumption DEF BreakerInit
<1>2. /\ circuit \in {"closed", "open", "half_open"}
      /\ cooled \in BOOLEAN /\ probe \in BOOLEAN
      /\ inflight \subseteq Callers /\ current \subseteq inflight
  BY Zenon DEF BreakerInit
<1>3. circuit = "closed" /\ ~probe
  BY DEF BreakerInit
<1> QED BY <1>1, <1>2, <1>3 DEF BreakerInv, BreakerTypeOK, ProbeAlive

\* The part of a step that the semaphore sees.
SemStep == \/ \E r \in Requests : SemaphoreStep(r) \/ Leave(r)
           \/ OtherAdmitted \/ OtherLeaves \/ Tick

LEMMA ShapeKept == ASSUME Shape, SemStep PROVE Shape'
<1> USE SemaphoreAssumption DEF Shape, Places
<1>1. ASSUME NEW r \in Requests, Enter(r) PROVE Shape'
  BY <1>1 DEF Enter
<1>2. ASSUME NEW r \in Requests, GiveUp(r) PROVE Shape'
  BY <1>2 DEF GiveUp
<1>3. ASSUME NEW r \in Requests, TakeLocal(r) PROVE Shape'
  BY <1>3 DEF TakeLocal
<1>4. ASSUME NEW r \in Requests, RedisAdmits(r) PROVE Shape'
  BY <1>4 DEF RedisAdmits, Live
<1>5. ASSUME NEW r \in Requests, AskAgain(r) PROVE Shape'
  BY <1>5 DEF AskAgain
<1>6. ASSUME NEW r \in Requests, Acquired(r) PROVE Shape'
  BY <1>6 DEF Acquired, Confirmed
<1>7. ASSUME NEW r \in Requests, Degrade(r) PROVE Shape'
  BY <1>7 DEF Degrade
<1>8. ASSUME NEW r \in Requests, Reject(r) PROVE Shape'
  BY <1>8 DEF Reject
<1>9. ASSUME NEW r \in Requests, RenewSend(r) PROVE Shape'
  BY <1>9 DEF RenewSend
<1>10. ASSUME NEW r \in Requests, RedisRenews(r) PROVE Shape'
  BY <1>10 DEF RedisRenews
<1>11. ASSUME NEW r \in Requests, Renewed(r) PROVE Shape'
  BY <1>11 DEF Renewed, Confirmed
<1>12. ASSUME NEW r \in Requests, RenewFails(r) PROVE Shape'
  BY <1>12 DEF RenewFails
<1>13. ASSUME NEW r \in Requests, LoseLease(r) PROVE Shape'
  BY <1>13 DEF LoseLease
<1>14. ASSUME NEW r \in Requests, Release(r) PROVE Shape'
  BY <1>14 DEF Release, GivenBack
<1>15. ASSUME NEW r \in Requests, Leave(r) PROVE Shape'
  BY <1>15 DEF Leave
<1>16. CASE OtherAdmitted
  BY <1>16 DEF OtherAdmitted, Live
<1>17. CASE OtherLeaves
  BY <1>17 DEF OtherLeaves
<1>18. CASE Tick
  BY <1>18 DEF Tick, Earlier
<1> QED
  BY <1>1, <1>2, <1>3, <1>4, <1>5, <1>6, <1>7, <1>8, <1>9, <1>10, <1>11, <1>12, <1>13,
     <1>14, <1>15, <1>16, <1>17, <1>18 DEF SemStep, SemaphoreStep

LEMMA QuietKept == ASSUME Shape, Quiet, SemStep PROVE Quiet'
<1> USE SemaphoreAssumption DEF Shape, Quiet
<1>1. ASSUME NEW r \in Requests, Enter(r) PROVE Quiet'
  BY <1>1 DEF Enter
<1>2. ASSUME NEW r \in Requests, GiveUp(r) PROVE Quiet'
  BY <1>2 DEF GiveUp
<1>3. ASSUME NEW r \in Requests, TakeLocal(r) PROVE Quiet'
  BY <1>3 DEF TakeLocal
<1>4. ASSUME NEW r \in Requests, RedisAdmits(r) PROVE Quiet'
  BY <1>4 DEF RedisAdmits, Live
<1>5. ASSUME NEW r \in Requests, AskAgain(r) PROVE Quiet'
  BY <1>5 DEF AskAgain
<1>6. ASSUME NEW r \in Requests, Acquired(r) PROVE Quiet'
  BY <1>6 DEF Acquired, Confirmed
<1>7. ASSUME NEW r \in Requests, Degrade(r) PROVE Quiet'
  BY <1>7 DEF Degrade
<1>8. ASSUME NEW r \in Requests, Reject(r) PROVE Quiet'
  BY <1>8 DEF Reject
<1>9. ASSUME NEW r \in Requests, RenewSend(r) PROVE Quiet'
  BY <1>9 DEF RenewSend
<1>10. ASSUME NEW r \in Requests, RedisRenews(r) PROVE Quiet'
  BY <1>10 DEF RedisRenews
<1>11. ASSUME NEW r \in Requests, Renewed(r) PROVE Quiet'
  BY <1>11 DEF Renewed, Confirmed
<1>12. ASSUME NEW r \in Requests, RenewFails(r) PROVE Quiet'
  BY <1>12 DEF RenewFails
<1>13. ASSUME NEW r \in Requests, LoseLease(r) PROVE Quiet'
  BY <1>13 DEF LoseLease
<1>14. ASSUME NEW r \in Requests, Release(r) PROVE Quiet'
  BY <1>14 DEF Release, GivenBack
<1>15. ASSUME NEW r \in Requests, Leave(r) PROVE Quiet'
  BY <1>15 DEF Leave
<1>16. CASE OtherAdmitted
  BY <1>16 DEF OtherAdmitted, Live
<1>17. CASE OtherLeaves
  BY <1>17 DEF OtherLeaves
<1>18. CASE Tick
  BY <1>18 DEF Tick, Earlier
<1> QED
  BY <1>1, <1>2, <1>3, <1>4, <1>5, <1>6, <1>7, <1>8, <1>9, <1>10, <1>11, <1>12, <1>13,
     <1>14, <1>15, <1>16, <1>17, <1>18 DEF SemStep, SemaphoreStep

LEMMA CoveredKept == ASSUME Shape, Quiet, Covered, SemStep PROVE Covered'
<1> USE SemaphoreAssumption DEF Shape, Quiet, Covered
<1>1. ASSUME NEW r \in Requests, Enter(r) PROVE Covered'
  BY <1>1 DEF Enter
<1>2. ASSUME NEW r \in Requests, GiveUp(r) PROVE Covered'
  BY <1>2 DEF GiveUp
<1>3. ASSUME NEW r \in Requests, TakeLocal(r) PROVE Covered'
  BY <1>3 DEF TakeLocal
<1>4. ASSUME NEW r \in Requests, RedisAdmits(r) PROVE Covered'
  BY <1>4 DEF RedisAdmits, Live
<1>5. ASSUME NEW r \in Requests, AskAgain(r) PROVE Covered'
  BY <1>5 DEF AskAgain
<1>6. ASSUME NEW r \in Requests, Acquired(r) PROVE Covered'
  BY <1>6 DEF Acquired, Confirmed
<1>7. ASSUME NEW r \in Requests, Degrade(r) PROVE Covered'
  BY <1>7 DEF Degrade
<1>8. ASSUME NEW r \in Requests, Reject(r) PROVE Covered'
  BY <1>8 DEF Reject
<1>9. ASSUME NEW r \in Requests, RenewSend(r) PROVE Covered'
  BY <1>9 DEF RenewSend
<1>10. ASSUME NEW r \in Requests, RedisRenews(r) PROVE Covered'
  BY <1>10 DEF RedisRenews
<1>11. ASSUME NEW r \in Requests, Renewed(r) PROVE Covered'
  BY <1>11 DEF Renewed, Confirmed
<1>12. ASSUME NEW r \in Requests, RenewFails(r) PROVE Covered'
  BY <1>12 DEF RenewFails
<1>13. ASSUME NEW r \in Requests, LoseLease(r) PROVE Covered'
  BY <1>13 DEF LoseLease
<1>14. ASSUME NEW r \in Requests, Release(r) PROVE Covered'
  BY <1>14 DEF Release, GivenBack
<1>15. ASSUME NEW r \in Requests, Leave(r) PROVE Covered'
  BY <1>15 DEF Leave
<1>16. CASE OtherAdmitted
  BY <1>16 DEF OtherAdmitted, Live
<1>17. CASE OtherLeaves
  BY <1>17 DEF OtherLeaves
<1>18. CASE Tick
  BY <1>18 DEF Tick, Earlier
<1> QED
  BY <1>1, <1>2, <1>3, <1>4, <1>5, <1>6, <1>7, <1>8, <1>9, <1>10, <1>11, <1>12, <1>13,
     <1>14, <1>15, <1>16, <1>17, <1>18 DEF SemStep, SemaphoreStep

\* Removing the expired tokens, or one token, never makes the set larger.
LEMMA FiniteTokens ==
  ASSUME Shape
  PROVE  /\ IsFiniteSet(tokens) /\ Cardinality(tokens) \in Nat
         /\ IsFiniteSet(Live) /\ Cardinality(Live) \in Nat
         /\ Cardinality(Live) <= Cardinality(tokens)
<1>1. IsFiniteSet(tokens)
  BY SemaphoreAssumption, FS_Subset DEF Shape
<1>2. IsFiniteSet(Live) /\ Cardinality(Live) <= Cardinality(tokens)
  BY <1>1, FS_Subset DEF Live
<1> QED BY <1>1, <1>2, FS_CardinalityType

LEMMA CappedKept == ASSUME Shape, Capped, SemStep PROVE Capped'
<1> USE SemaphoreAssumption, FiniteTokens DEF Shape, Capped
<1>1. ASSUME NEW r \in Requests, RedisAdmits(r) PROVE Capped'
  <2>1. Cardinality(Live \cup {r}) = IF r \in Live THEN Cardinality(Live)
                                     ELSE Cardinality(Live) + 1
    BY FS_AddElement, Zenon
  <2>2. CASE HasRoom
    <3>1. tokens' = Live \cup {r} /\ others' = others
      BY <1>1, <2>2 DEF RedisAdmits
    <3>2. Cardinality(Live) + others + 1 <= Limit /\ Cardinality(Live) \in Nat
      BY <2>2 DEF HasRoom
    <3>3. Cardinality(tokens') <= Cardinality(Live) + 1 /\ Cardinality(tokens') \in Nat
      BY <2>1, <3>1, <3>2
    <3> QED BY <3>1, <3>2, <3>3
  <2>3. CASE ~HasRoom
    BY <1>1, <2>3 DEF RedisAdmits
  <2> QED BY <2>2, <2>3
<1>2. ASSUME NEW r \in Requests, Release(r) PROVE Capped'
  <2>1. IsFiniteSet(tokens \ {r})
    BY FS_RemoveElement
  <2>2. Cardinality(tokens \ {r}) \in Nat
    BY <2>1, FS_CardinalityType
  <2>3. Cardinality(tokens \ {r}) = IF r \in tokens THEN Cardinality(tokens) - 1
                                    ELSE Cardinality(tokens)
    BY FS_RemoveElement
  <2> QED BY <1>2, <2>2, <2>3 DEF Release, Live
<1>3. CASE OtherAdmitted
  BY <1>3 DEF OtherAdmitted, HasRoom
<1>4. CASE OtherLeaves
  BY <1>4 DEF OtherLeaves
<1>5. CASE tokens' = tokens /\ others' = others
  BY <1>5
<1> QED
  BY <1>1, <1>2, <1>3, <1>4, <1>5
  DEF SemStep, SemaphoreStep, Enter, GiveUp, TakeLocal, AskAgain, Acquired, Degrade, Reject,
      RenewSend, RedisRenews, Renewed, RenewFails, LoseLease, Leave, Tick

\* Only TakeLocal and Release change who is inside.
LEMMA ConservedKept == ASSUME Shape, LocalConserved, SemStep PROVE LocalConserved'
<1> USE DEF Shape, LocalConserved
<1>1. IsFiniteSet(Inside) /\ Cardinality(Inside) \in Nat
  BY SemaphoreAssumption, FS_Subset, FS_CardinalityType DEF Inside
<1>2. ASSUME NEW r \in Requests, TakeLocal(r) PROVE LocalConserved'
  <2>1. Inside' = Inside \cup {r} /\ r \notin Inside
    BY <1>2 DEF TakeLocal, Inside
  <2>2. Cardinality(Inside') = Cardinality(Inside) + 1
    BY <1>1, <2>1, FS_AddElement
  <2> QED BY <1>1, <1>2, <2>2, SemaphoreAssumption DEF TakeLocal
<1>3. ASSUME NEW r \in Requests, Release(r) PROVE LocalConserved'
  <2>1. Inside' = Inside \ {r} /\ r \in Inside
    BY <1>3 DEF Release, Inside
  <2>2. Cardinality(Inside') = Cardinality(Inside) - 1
    BY <1>1, <2>1, FS_RemoveElement
  <2> QED BY <1>1, <1>3, <2>2, SemaphoreAssumption DEF Release, GivenBack
<1>4. ASSUME NEW r \in Requests, Inside' = Inside, permits' = permits PROVE LocalConserved'
  BY <1>4
<1>5. ASSUME NEW r \in Requests, SemaphoreStep(r) \/ Leave(r), ~TakeLocal(r), ~Release(r)
      PROVE  Inside' = Inside /\ permits' = permits
  <2>1. CASE Enter(r)
    BY <2>1 DEF Enter, Inside
  <2>2. CASE GiveUp(r)
    BY <2>2 DEF GiveUp, Inside
  <2>3. CASE RedisAdmits(r)
    BY <2>3 DEF RedisAdmits, Inside
  <2>4. CASE AskAgain(r)
    BY <2>4 DEF AskAgain, Inside
  <2>5. CASE Acquired(r)
    BY <2>5 DEF Acquired, Inside
  <2>6. CASE Degrade(r)
    BY <2>6 DEF Degrade, Inside
  <2>7. CASE Reject(r)
    BY <2>7 DEF Reject, Inside
  <2>8. CASE Leave(r)
    BY <2>8 DEF Leave, Inside
  <2>9. CASE pc' = pc /\ permits' = permits
    BY <2>9 DEF Inside
  <2> QED
    BY <1>5, <2>1, <2>2, <2>3, <2>4, <2>5, <2>6, <2>7, <2>8, <2>9
    DEF SemaphoreStep, RenewSend, RedisRenews, Renewed, RenewFails, LoseLease
<1>6. CASE OtherAdmitted \/ OtherLeaves \/ Tick
  BY <1>6 DEF OtherAdmitted, OtherLeaves, Tick, Inside
<1> QED BY <1>2, <1>3, <1>4, <1>5, <1>6 DEF SemStep

LEMMA SemKept == ASSUME SemInv, SemStep PROVE SemInv'
  BY ShapeKept, QuietKept, CoveredKept, CappedKept, ConservedKept DEF SemInv

-----------------------------------------------------------------------------
\* The flags of the breaker.
LEMMA FlagsKept ==
  ASSUME cooled \in BOOLEAN, probe \in BOOLEAN, BreakerNext
  PROVE  cooled' \in BOOLEAN /\ probe' \in BOOLEAN
  BY Zenon DEF BreakerNext, End, Admit, Stale, Success, Failure, Ignored, Monitor, Cool,
               force_open, force_close, reset

\* What the breaker's other variables and the probe flag have to do with each
\* other.
Probing == /\ circuit \in {"closed", "open", "half_open"}
           /\ failures \in 0..(MaxFailures + 1)
           /\ inflight \subseteq Callers /\ current \subseteq inflight
           /\ circuit # "closed" => failures >= Threshold
           /\ probe => circuit = "half_open"
           /\ circuit = "open" => current = {}
           /\ ProbeAlive

LEMMA ProbingKept == ASSUME Probing, BreakerNext PROVE Probing'
<1> USE BreakerAssumption DEF Probing, ProbeAlive
<1>1. ASSUME NEW c \in Callers, Admit(c) PROVE Probing'
  BY <1>1 DEF Admit, Refuses
<1>2. ASSUME NEW c \in Callers, Stale(c) PROVE Probing'
  BY <1>2 DEF Stale
<1>3. ASSUME NEW c \in Callers, Success(c) PROVE Probing'
  BY <1>3 DEF Success, _set_state
<1>4. ASSUME NEW c \in Callers, Failure(c) PROVE Probing'
  BY <1>4 DEF Failure, _set_state
<1>5. ASSUME NEW c \in Callers, Ignored(c) PROVE Probing'
  BY <1>5 DEF Ignored, _set_state
<1>6. CASE Monitor
  BY <1>6 DEF Monitor
<1>7. CASE Cool
  BY <1>7 DEF Cool
<1>8. CASE force_open
  BY <1>8 DEF force_open
<1>9. CASE force_close
  BY <1>9 DEF force_close
<1>10. CASE reset
  BY <1>10 DEF reset
<1> QED
  BY <1>1, <1>2, <1>3, <1>4, <1>5, <1>6, <1>7, <1>8, <1>9, <1>10 DEF BreakerNext, End

LEMMA BreakerKept == ASSUME BreakerInv, BreakerNext PROVE BreakerInv'
<1>1. Probing'
  BY ProbingKept DEF Probing, BreakerInv, BreakerTypeOK
<1>2. cooled' \in BOOLEAN /\ probe' \in BOOLEAN
  BY FlagsKept DEF BreakerInv, BreakerTypeOK
<1> QED BY <1>1, <1>2, Zenon DEF Probing, BreakerInv, BreakerTypeOK

-----------------------------------------------------------------------------
\* A crash empties the process; its tokens become those of others.
LEMMA CrashSem == ASSUME SemInv, Crash PROVE SemInv'
<1> USE SemaphoreAssumption DEF SemInv
<1>1. Shape' /\ Quiet' /\ Covered'
  BY FiniteTokens DEF Crash, Shape, Quiet, Covered, Places
<1>2. Inside' = {}
  BY DEF Crash, Inside
<1>3. Cardinality({}) = 0
  BY FS_EmptySet
<1>4. LocalConserved'
  BY <1>2, <1>3 DEF Crash, LocalConserved
<1>5. Capped'
  BY <1>3, FiniteTokens DEF Crash, Capped, Shape
<1> QED BY <1>1, <1>4, <1>5

\* Every step, as the semaphore and as the breaker see it.
LEMMA StepParts ==
  ASSUME Next
  PROVE  \/ SemStep /\ UNCHANGED breaker
         \/ BreakerNext /\ UNCHANGED semaphore
         \/ Crash
<1>1. ASSUME NEW c \in Callers, Attempt(c) \/ AttemptEnds(c)
      PROVE  BreakerNext /\ UNCHANGED semaphore
  BY <1>1 DEF Attempt, AttemptEnds, BreakerNext
<1>2. ASSUME NEW r \in Requests, Slots(r) \/ BodyEnds(r)
      PROVE  SemStep /\ UNCHANGED breaker
  BY <1>2 DEF Slots, BodyEnds, SemStep
<1>3. CASE World
  BY <1>3 DEF World, SemStep
<1>4. CASE Operator
  BY <1>4 DEF Operator, BreakerNext
<1> QED BY <1>1, <1>2, <1>3, <1>4 DEF Next

LEMMA SemStutters == ASSUME SemInv, UNCHANGED semaphore PROVE SemInv'
  BY DEF SemInv, Shape, Quiet, Covered, Capped, LocalConserved, Inside, semaphore

LEMMA BreakerStutters == ASSUME BreakerInv, UNCHANGED breaker PROVE BreakerInv'
  BY Zenon DEF BreakerInv, BreakerTypeOK, ProbeAlive, breaker

LEMMA CrashBreaker == ASSUME Crash PROVE BreakerInv'
<1>1. failures' \in 0..(MaxFailures + 1)
  BY BreakerAssumption DEF Crash
<1>2. /\ circuit' \in {"closed", "open", "half_open"}
      /\ cooled' \in BOOLEAN /\ probe' \in BOOLEAN
      /\ inflight' \subseteq Callers /\ current' \subseteq inflight'
  BY Zenon DEF Crash
<1>3. circuit' = "closed" /\ ~probe'
  BY DEF Crash
<1> QED BY <1>1, <1>2, <1>3 DEF BreakerInv, BreakerTypeOK, ProbeAlive

\* The two invariants hold of every behaviour.
LEMMA Invariance == Spec => [](SemInv /\ BreakerInv)
<1>1. Init => SemInv /\ BreakerInv
  BY InitSem, InitBreaker DEF Init
<1>2. SemInv /\ BreakerInv /\ [Next]_vars => SemInv' /\ BreakerInv'
  <2> SUFFICES ASSUME SemInv, BreakerInv, [Next]_vars PROVE SemInv' /\ BreakerInv'
    OBVIOUS
  <2>1. CASE SemStep /\ UNCHANGED breaker
    BY <2>1, SemKept, BreakerStutters
  <2>2. CASE BreakerNext /\ UNCHANGED semaphore
    BY <2>2, BreakerKept, SemStutters
  <2>3. CASE Crash
    BY <2>3, CrashSem, CrashBreaker
  <2>4. CASE UNCHANGED vars
    BY <2>4, SemStutters, BreakerStutters DEF vars
  <2> QED BY <2>1, <2>2, <2>3, <2>4, StepParts
<1> QED BY <1>1, <1>2, PTL DEF Spec

-----------------------------------------------------------------------------
\* Who works under a lease has a token in Redis.
LEMMA WorkingCounted ==
  ASSUME SemInv
  PROVE  SlotsBounded
<1>1. Working \subseteq tokens
  BY DEF SemInv, Covered, Working
<1>2. IsFiniteSet(tokens) /\ Cardinality(tokens) \in Nat
  BY FiniteTokens DEF SemInv
<1>3. IsFiniteSet(Working) /\ Cardinality(Working) <= Cardinality(tokens)
  BY <1>1, <1>2, FS_Subset
<1>4. Cardinality(Working) \in Nat
  BY <1>3, FS_CardinalityType
<1> QED BY <1>2, <1>3, <1>4, SemaphoreAssumption DEF SemInv, Capped, Shape, SlotsBounded

\* No lease of GlobalLLMSemaphore is relied on longer than Redis keeps its token:
\* with any number of requests, any limit and any lease, the requests at work
\* under a lease and the slots of the rest of the world are within the limit.
THEOREM SlotsBoundedAlways == Spec => []SlotsBounded
  BY Invariance, WorkingCounted, PTL

\* Every path out of the semaphore, a failed __aenter__, a failed release and a
\* lost lease included, returns the local slot exactly once.
THEOREM LocalConservedAlways == Spec => []LocalConserved
<1>1. SemInv => LocalConserved
  BY DEF SemInv
<1> QED BY <1>1, Invariance, PTL

\* A half-open CircuitBreaker always has its probe in flight, the one call that
\* can still move it, whatever stale calls, cancellations or operators do.
THEOREM ProbeAliveAlways == Spec => []ProbeAlive
<1>1. BreakerInv => ProbeAlive
  BY DEF BreakerInv
<1> QED BY <1>1, Invariance, PTL

\* Type correctness of semaphore and breaker together; the bounds on the permits
\* and on the slots of others come from the two laws of conservation.
THEOREM ProviderTypeCorrect == Spec => []TypeOK
<1>1. SemInv /\ BreakerInv => TypeOK
  <2> SUFFICES ASSUME SemInv, BreakerInv PROVE TypeOK
    OBVIOUS
  <2>1. IsFiniteSet(Inside) /\ Cardinality(Inside) \in Nat
    BY SemaphoreAssumption, FS_Subset, FS_CardinalityType DEF Inside
  <2>2. Cardinality(tokens) \in Nat
    BY FiniteTokens DEF SemInv
  <2>3. permits <= Limit /\ others \in 0..Limit
    BY <2>1, <2>2, SemaphoreAssumption DEF SemInv, Shape, Capped, LocalConserved
  <2> QED BY <2>3 DEF SemInv, BreakerInv, TypeOK, SemaphoreTypeOK, Shape
<1> QED BY <1>1, Invariance, PTL
=============================================================================

----------------------------- MODULE QueueStore -----------------------------
(***************************************************************************)
(* The version-two job queue kept in Redis: app/queue_lua.py, one Lua      *)
(* script that Redis runs atomically, driven by RedisQueueStore in         *)
(* app/queue_store.py.  Every command first runs sweep() and then its own  *)
(* branch, so every action below starts from the swept jobs.  A command    *)
(* the script refuses (wrong owner, wrong revision, lane paused, ...) has  *)
(* swept and changed nothing else: it is the action Sweep, and so are the  *)
(* pure reads.                                                             *)
(*                                                                         *)
(* A job record carries the fields of the JSON metadata the control flow   *)
(* reads, its entry in each of the script's sorted sets (the z fields;     *)
(* Never when it has none) and its share of the lane counters (the n       *)
(* fields).  HINCRBY is commutative, so a lane counter is the sum of the   *)
(* shares of its jobs; a share outlives the record, as the counter does.   *)
(***************************************************************************)
EXTENDS Integers, FiniteSets, Functions

CONSTANTS
  Jobs,          \* task ids: one per (user, idempotency key), a uuid5 of both
  Ops,           \* operation ids of operator commands
  Kids, KidOf,   \* the task id a retry under an operation creates (a uuid5)
  KidUser,       \* the account whose job that operation retries
  Lanes, Lane, Workers, MaxJobs,
  User,          \* user_id, 0 for system jobs
  Effectful, Image, Daily,   \* subsets of Jobs: the registration's flags
  ConflictKeys, Keys,        \* conflict keys, already scoped by lane and user
  Priority, Size, MaxPayload, MaxBytes,
  MaxAttempts, MaxAge, PayloadTTL, Lease, Budget, RetryTTL, MetaTTL,
  MaxAliases, Delays,
  MaxIdle,       \* how long something due may wait for the next command
  MaxTime, LastAdmit, MaxClaims, MaxAdmits, MaxLaneRev  \* bounds of a model

AllJobs == Jobs \cup Kids
Never   == -1
NoTok   == -1
NoJob   == "none"
Outcomes == {"succeeded", "retryable_failure", "permanent_failure",
             "unknown_delivery"}
HeldStates   == {"running", "cancel_requested"}
ActiveStates == {"queued", "delayed"} \cup HeldStates
EndStates    == {"succeeded", "failed", "cancelled", "expired",
                 "unknown_delivery"}

\* The longest time from the admission of a job to its deadline: its age in the
\* queue, and the budget of a daily system job that is claimed at the last moment.
Life(j) == MaxAge[Lane[j]] + (IF j \in Daily /\ User[j] = 0 THEN Budget ELSE 0)

ASSUME StoreAssumption ==
  /\ Jobs \cap Kids = {} /\ NoJob \notin AllJobs /\ Jobs # {}
  /\ KidOf \in [Ops -> Kids]
  /\ \A o, p \in Ops : KidOf[o] = KidOf[p] => o = p
  /\ KidUser \in [Kids -> Nat]
  /\ Lane \in [Jobs -> Lanes] /\ User \in [Jobs -> Nat]
  /\ Workers \in [Lanes -> Nat] /\ MaxJobs \in [Lanes -> Nat]
  /\ Effectful \subseteq Jobs /\ Image \subseteq Jobs /\ Daily \subseteq Jobs
  /\ Keys \in [Jobs -> SUBSET ConflictKeys]
  /\ \A i, j \in Jobs : Keys[i] \cap Keys[j] # {}
                          => User[i] = User[j] /\ Lane[i] = Lane[j]
  /\ Priority \in [Jobs -> 1..4] /\ Size \in [Jobs -> Nat]
  /\ MaxPayload \in Nat /\ MaxBytes \in Nat /\ MaxAliases \in Nat
  /\ MaxAttempts \in Nat \ {0} /\ MaxAge \in [Lanes -> Nat \ {0}]
  /\ PayloadTTL \in Nat \ {0} /\ Lease \in Nat \ {0} /\ Budget \in Nat \ {0}
  /\ RetryTTL \in Nat \ {0} /\ MetaTTL \in Nat \ {0}
  \* A job ends before its identity is forgotten: about an hour at most, and 24 hours.
  /\ \A j \in Jobs : Life(j) <= MetaTTL
  /\ 0 \in Delays /\ Delays \subseteq Nat
  /\ MaxTime \in Nat /\ LastAdmit \in Nat /\ MaxClaims \in Nat
  /\ MaxAdmits \in Nat
  /\ MaxLaneRev \in Nat /\ MaxIdle \in Nat \ {0}

\* Ids are hashes of fixed length: there are finitely many.
ASSUME FiniteIds == IsFiniteSet(AllJobs)

VARIABLES
  now,       \* Redis TIME
  job,       \* job:<id> with its index entries and counter shares
  permit,    \* permit:image with its TTL: the owner token allowed to draw
  conflict,  \* conflict:<lane>:<key> -> the job that holds the key
  idem,      \* idem:<identity> -> the job an identity was admitted as
  op,        \* operation:<key>: the operator commands already applied
  lane,      \* lane:<lane>
  claims,    \* owner tokens handed out so far; a token is never reused
  admits     \* sequence:all

storeVars == <<now, job, permit, conflict, idem, op, lane, claims, admits>>

Time == Nat \cup {Never}

JobRec ==
  [st : ActiveStates \cup EndStates \cup {"absent"}, org : Jobs,
   rev : Nat, att : Nat, seq : Nat, sub : Nat, qdl : Nat,
   own : Nat \cup {NoTok}, fin : Nat \cup {NoTok},
   grants : {0, 1}, elig : BOOLEAN, pay : BOOLEAN, ids : SUBSET AllJobs,
   zReady : BOOLEAN, zDelay : Time, zDead : Time, zRun : Time, zPay : Time,
   zMeta : Time, nActive : Int, nHeld : Int, nByte : Int]

NoRec ==
  [st |-> "absent", org |-> CHOOSE j \in Jobs : TRUE,
   rev |-> 0, att |-> 0, seq |-> 0, sub |-> 0, qdl |-> 0,
   own |-> NoTok, fin |-> NoTok,
   grants |-> 0, elig |-> FALSE, pay |-> FALSE, ids |-> {},
   zReady |-> FALSE, zDelay |-> Never, zDead |-> Never, zRun |-> Never,
   zPay |-> Never, zMeta |-> Never, nActive |-> 0, nHeld |-> 0, nByte |-> 0]

\* The records, indexes, permits and keys of the queue in Redis are well formed.
TypeOK ==
  /\ now \in Nat /\ claims \in Nat /\ admits \in Nat
  /\ job \in [AllJobs -> JobRec]
  /\ permit \in [own : Nat \cup {NoTok}, exp : Nat]
  /\ conflict \in [ConflictKeys -> AllJobs \cup {NoJob}]
  /\ idem \in [AllJobs -> [to : AllJobs \cup {NoJob}, exp : Nat]]
  /\ op \in [Ops -> [on : AllJobs \cup {NoJob}, exp : Nat]]
  /\ lane \in [Lanes -> [rev : Nat, admissionPaused : BOOLEAN,
                         claimPaused : BOOLEAN]]

Init ==
  /\ now = 0 /\ claims = 0 /\ admits = 0
  /\ job = [j \in AllJobs |-> NoRec]
  /\ permit = [own |-> NoTok, exp |-> 0]
  /\ conflict = [c \in ConflictKeys |-> NoJob]
  /\ idem = [j \in AllJobs |-> [to |-> NoJob, exp |-> 0]]
  /\ op = [o \in Ops |-> [on |-> NoJob, exp |-> 0]]
  /\ lane = [l \in Lanes |-> [rev |-> 0, admissionPaused |-> FALSE,
                              claimPaused |-> FALSE]]

-----------------------------------------------------------------------------
(* The script's local functions, each on one job's record m.               *)

Active(m)  == m.st \in ActiveStates
Held(m)    == m.st \in HeldStates
Due(z)     == z # Never /\ z <= now
Sooner(a, b) == IF a < b THEN a ELSE b

\* job:<id> carries a PEXPIREAT once it has metadata_expires_at: get() is nil.
Gone(m) == m.st = "absent" \/ (m.st \in EndStates /\ Due(m.zMeta))

\* EXISTS payload:<id>: the key's TTL is always its score in expiry:payload.
HasPayload(m) == m.pay /\ ~Due(m.zPay)

\* Fault: the payload is dropped and its bytes stay counted.
DropUncounted(m) == [m EXCEPT !.pay = FALSE, !.elig = FALSE, !.zPay = Never]

drop_payload(m) ==
  [m EXCEPT !.pay = FALSE, !.elig = FALSE, !.zPay = Never,
            !.nByte = @ - (IF m.pay THEN Size[m.org] ELSE 0)]

\* The record's part: the image permit is released by PermitAfter.
release_running(m) ==
  [m EXCEPT !.zRun = Never, !.nHeld = @ - (IF Held(m) THEN 1 ELSE 0)]

terminal(m, state, safe) ==
  LET r == release_running(
             [m EXCEPT !.nActive = @ - (IF Active(m) THEN 1 ELSE 0)])
      e == [r EXCEPT !.st = state, !.own = NoTok, !.rev = @ + 1,
                     !.zReady = FALSE, !.zDelay = Never, !.zDead = Never,
                     !.zMeta = now + MetaTTL]
  IN  IF safe /\ m.grants > 0 /\ HasPayload(m)
      THEN [e EXCEPT !.elig = TRUE, !.zPay = now + RetryTTL]
      ELSE drop_payload(e)

\* Fault: a job whose lease ran out is not put back into the ready set.
RequeueUnready(m) ==
  [release_running(m) EXCEPT !.st = "queued", !.own = NoTok, !.rev = @ + 1,
                             !.zDead = m.qdl]

\* Fault: a job put back into the ready set still has its old owner.
RequeueOwned(m) ==
  [release_running(m) EXCEPT !.st = "queued", !.rev = @ + 1, !.zDead = m.qdl,
                             !.zReady = TRUE]

\* Fault: a state the contract does not know.
RequeueMisnamed(m) ==
  [release_running(m) EXCEPT !.st = "ready", !.own = NoTok, !.rev = @ + 1,
                             !.zDead = m.qdl, !.zReady = TRUE]

requeue(m) ==
  [release_running(m) EXCEPT !.st = "queued", !.own = NoTok, !.rev = @ + 1,
                             !.zDead = m.qdl, !.zReady = TRUE]

\* Fault: only a cancelled execution counts as uncertain.
UncertainIfCancelled(m) == m.st = "cancel_requested" /\ m.org \in Effectful

\* A running effectful job that loses its owner may have acted on the world.
Uncertain(m) == Held(m) /\ m.org \in Effectful

UncertainOr(m, state) == IF Uncertain(m) THEN "unknown_delivery" ELSE state

(* The five loops of sweep(), in the script's order.                       *)

SweepPayload(m) ==
  CASE ~Due(m.zPay)            -> m
    [] Due(m.zPay) /\ Gone(m)  -> [m EXCEPT !.zPay = Never]
    [] Due(m.zPay) /\ Active(m) ->
         terminal(drop_payload(m), UncertainOr(m, "expired"), FALSE)
    [] OTHER                   -> drop_payload(m)

SweepDeadline(m) ==
  CASE ~Due(m.zDead)              -> m
    [] Due(m.zDead) /\ Active(m)  -> terminal(m, UncertainOr(m, "expired"), FALSE)
    [] OTHER                      -> [m EXCEPT !.zDead = Never]

SweepRunning(m) ==
  CASE ~Due(m.zRun)     -> m
    [] Due(m.zRun) /\ ~Held(m) -> [m EXCEPT !.zRun = Never]
    [] Due(m.zRun) /\ Uncertain(m) -> terminal(m, "unknown_delivery", FALSE)
    [] Due(m.zRun) /\ ~Uncertain(m) /\ m.st = "cancel_requested" ->
         terminal(m, "cancelled", FALSE)
    [] OTHER ->
         IF m.att >= MaxAttempts THEN terminal(m, "failed", TRUE)
         ELSE IF now >= m.qdl THEN terminal(m, "expired", TRUE)
         ELSE requeue(m)

SweepDelayed(m) ==
  IF ~Due(m.zDelay) THEN m
  ELSE IF m.st = "delayed"
       THEN [m EXCEPT !.zDelay = Never, !.st = "queued", !.rev = @ + 1,
                      !.zReady = TRUE]
       ELSE [m EXCEPT !.zDelay = Never]

\* What is left of a job once its record is deleted: its counter shares.
Removed(m) == [NoRec EXCEPT !.org = m.org, !.nActive = m.nActive,
                            !.nHeld = m.nHeld, !.nByte = m.nByte]

SweepMetadata(m) ==
  CASE ~Due(m.zMeta)           -> m
    [] Due(m.zMeta) /\ Gone(m) -> Removed(m)
    [] OTHER                   -> [m EXCEPT !.zMeta = Never, !.ids = {}]

sweep(m) ==
  SweepMetadata(SweepDelayed(SweepRunning(SweepDeadline(SweepPayload(m)))))

Swept == [j \in AllJobs |-> sweep(job[j])]

-----------------------------------------------------------------------------
(* Keys outside the job records, once a command has turned the jobs into K.*)

\* Fault: conflict keys are freed when cancellation is requested.
SettledOnRequest(K) ==
  {j \in AllJobs : Active(job[j]) /\ (~Active(K[j]) \/ K[j].st = "cancel_requested")}

Settled(K)  == {j \in AllJobs : Active(job[j]) /\ ~Active(K[j])}
Released(K) == {job[j].own : j \in {i \in AllJobs : Held(job[i]) /\ K[i].own # job[i].own}}

Permitted == permit.own # NoTok /\ permit.exp > now

PermitAfter(K) ==
  IF ~Permitted \/ permit.own \in Released(K)
  THEN [own |-> NoTok, exp |-> 0] ELSE permit

\* release_conflicts: a key is given up only by the job that still holds it.
ConflictAfter(K) ==
  [c \in ConflictKeys |->
     IF \E j \in Settled(K) : conflict[c] = j /\ c \in Keys[job[j].org]
     THEN NoJob ELSE conflict[c]]

\* SMEMBERS identities:<id>.  terminal() gives the set the TTL of the metadata,
\* and SADD does not lift it: when the metadata is due the set is gone.
Identities(m) == IF Due(m.zMeta) THEN {} ELSE m.ids

\* terminal() restarts the day an identity is remembered; erasure ends it.
IdemAfter(K) ==
  [i \in AllJobs |->
     IF idem[i].exp <= now \/ \E j \in AllJobs : i \in Identities(job[j]) \ K[j].ids
     THEN [to |-> NoJob, exp |-> 0]
     ELSE IF \E j \in Settled(K) : i \in Identities(job[j])
     THEN [idem[i] EXCEPT !.exp = now + MetaTTL]
     ELSE idem[i]]

\* The metadata loop deletes commands:<id>, not the operations it lists.
OpAfter ==
  [o \in Ops |-> IF op[o].exp <= now THEN [on |-> NoJob, exp |-> 0]
                 ELSE IF \E j \in AllJobs : op[o].on = j /\ Due(job[j].zMeta)
                 THEN [op[o] EXCEPT !.on = NoJob] ELSE op[o]]

Commit(K) ==
  /\ job' = K
  /\ permit' = PermitAfter(K)
  /\ conflict' = ConflictAfter(K)
  /\ idem' = IdemAfter(K)
  /\ op' = OpAfter

\* The lane counters, as the sums of the shares.
LaneJobs(K, l) == {j \in AllJobs : Lane[K[j].org] = l}
nonterminal(K, l)   == SumFunction([j \in LaneJobs(K, l) |-> K[j].nActive])
running(K, l)       == SumFunction([j \in LaneJobs(K, l) |-> K[j].nHeld])
payload_bytes(K, l) == SumFunction([j \in LaneJobs(K, l) |-> K[j].nByte])

-----------------------------------------------------------------------------
(* The passing of time, and the commands that only sweep: sweep, read,     *)
(* private, load, progress, lookup_admission, lane, list, stats, and every *)
(* command the script refuses or has already applied.                      *)

\* A bot that is up sweeps every five seconds, so nothing due waits long for
\* its sweep; MaxIdle is the longest outage a model allows.
Punctual(m) ==
  \A z \in {m.zPay, m.zDead, m.zRun, m.zDelay, m.zMeta} :
    z = Never \/ now - z < MaxIdle

Tick ==
  /\ now < MaxTime
  /\ \A j \in AllJobs : Punctual(job[j])
  /\ now' = now + 1
  /\ UNCHANGED <<job, permit, conflict, idem, op, lane, claims, admits>>

Sweep == Commit(Swept) /\ UNCHANGED <<now, lane, claims, admits>>

-----------------------------------------------------------------------------
(* admit.  What an accepted admission of j, running org's handler, leaves  *)
(* in j's record m.                                                        *)

Admitted(m, j, org, delay, grant) ==
  LET dl  == now + MaxAge[Lane[org]]
      exp == now + (IF User[org] > 0 THEN Sooner(PayloadTTL, MaxAge[Lane[org]])
                    ELSE MaxAge[Lane[org]])
  IN  [m EXCEPT !.st = IF delay > 0 THEN "delayed" ELSE "queued",
                !.org = org, !.rev = 1, !.att = 0, !.seq = admits + 1,
                !.sub = now, !.qdl = dl, !.own = NoTok, !.fin = NoTok,
                !.grants = grant, !.elig = FALSE, !.pay = TRUE,
                !.ids = @ \cup {j}, !.zDead = dl, !.zPay = exp,
                !.zReady = delay <= 0,
                !.zDelay = IF delay > 0 THEN now + delay ELSE @,
                !.nActive = @ + 1, !.nByte = @ + Size[org]]

\* The job ids that hold a conflict key of org once the sweep is done.
Holders(org) == {ConflictAfter(Swept)[c] : c \in Keys[org]} \ {NoJob}

\* Fault: the identity is remembered for the retry window only.
RememberedBriefly(i, j) ==
  [IdemAfter(Swept) EXCEPT ![i] = [to |-> j, exp |-> now + RetryTTL]]

\* SET idem:<identity> EX 86400: identity i leads to job j.
Remembered(i, j) ==
  [IdemAfter(Swept) EXCEPT ![i] = [to |-> j, exp |-> now + MetaTTL]]

\* Fault: retained payloads of settled jobs are not counted.
HasRoomForLive(org, credit) ==
  LET l == Lane[org] IN
  /\ ~lane[l].admissionPaused
  /\ Size[org] <= MaxPayload
  /\ nonterminal(Swept, l) < MaxJobs[l]
  /\ (nonterminal(Swept, l) + 1) * Size[org] - credit <= MaxBytes

HasRoom(org, credit) ==
  LET l == Lane[org] IN
  /\ ~lane[l].admissionPaused
  /\ Size[org] <= MaxPayload
  /\ nonterminal(Swept, l) < MaxJobs[l]
  /\ payload_bytes(Swept, l) + Size[org] - credit <= MaxBytes

\* admission() from its first test to 'accepted'; K is what the command
\* makes of the jobs besides j.
Accept(K, j, org, delay, grant) ==
  /\ admits < MaxAdmits /\ now <= LastAdmit
  /\ IdemAfter(Swept)[j].to = NoJob
  /\ Holders(org) = {}
  /\ job' = [K EXCEPT ![j] = Admitted(K[j], j, org, delay, grant)]
  /\ permit' = PermitAfter(Swept)
  /\ conflict' = [c \in ConflictKeys |->
                    IF c \in Keys[org] THEN j ELSE ConflictAfter(Swept)[c]]
  /\ idem' = Remembered(j, j)
  /\ admits' = admits + 1

Admit(j, delay) ==
  /\ HasRoom(j, 0)
  /\ Accept(Swept, j, j, delay, 1)
  /\ op' = OpAfter
  /\ UNCHANGED <<now, lane, claims>>

\* A conflict key is held: the identity becomes an alias of the holder h.
Alias(i, org, h) ==
  /\ IdemAfter(Swept)[i].to = NoJob
  /\ h \in Holders(org)
  /\ Cardinality(Swept[h].ids) < MaxAliases
  /\ job' = [Swept EXCEPT ![h].ids = @ \cup {i}]
  /\ permit' = PermitAfter(Swept)
  /\ conflict' = ConflictAfter(Swept)
  /\ idem' = Remembered(i, h)
  /\ UNCHANGED admits

AdmitAlias(j) ==
  /\ \E h \in AllJobs : Alias(j, j, h)
  /\ op' = OpAfter
  /\ UNCHANGED <<now, lane, claims>>

-----------------------------------------------------------------------------
(* claim.  The ready set is ordered by descending priority, then sequence. *)

Before(m, n) ==
  \/ Priority[m.org] > Priority[n.org]
  \/ Priority[m.org] = Priority[n.org] /\ m.seq < n.seq

Blocked(m) == m.org \in Image /\ PermitAfter(Swept).own # NoTok

Claimable(m) ==
  m.st = "queued" /\ m.att < MaxAttempts /\ ~Blocked(m) /\ HasPayload(m)

\* What the scan does to a ready entry it passes over.
Passed(m) ==
  CASE m.st # "queued" -> [m EXCEPT !.zReady = FALSE]
    [] m.st = "queued" /\ m.att >= MaxAttempts -> terminal(m, "failed", TRUE)
    [] m.st = "queued" /\ m.att < MaxAttempts /\ ~Blocked(m) /\ ~HasPayload(m) ->
         terminal(m, "expired", FALSE)
    [] OTHER -> m

\* Fault: a running job has no deadline, only a lease.
ClaimedUndated(m, tok) ==
  [m EXCEPT !.zReady = FALSE, !.st = "running", !.own = tok, !.att = @ + 1,
            !.rev = @ + 1, !.fin = NoTok, !.zRun = now + Lease, !.nHeld = @ + 1,
            !.zDead = Never, !.zPay = Never]

\* A system job of the daily lane gets its execution budget at its claim.
Claimed(m, tok) ==
  LET daily == m.org \in Daily /\ User[m.org] = 0 IN
  [m EXCEPT !.zReady = FALSE, !.st = "running", !.own = tok, !.att = @ + 1,
            !.rev = @ + 1, !.fin = NoTok, !.zRun = now + Lease, !.nHeld = @ + 1,
            !.zDead = IF daily THEN now + Budget ELSE @,
            !.zPay  = IF daily THEN now + Budget ELSE @]

Ready(l) == {j \in AllJobs : Swept[j].zReady /\ Lane[Swept[j].org] = l}

CanClaim(l) == ~lane[l].claimPaused /\ running(Swept, l) < Workers[l]

Claim(l) ==
  LET C == {j \in Ready(l) : Claimable(Swept[j])}
      tok == claims + 1
  IN  /\ CanClaim(l)
      /\ claims < MaxClaims
      /\ \E j \in C :
           LET K == [i \in AllJobs |->
                       IF i = j THEN Claimed(Swept[i], tok)
                       ELSE IF i \in Ready(l) /\ Before(Swept[i], Swept[j])
                       THEN Passed(Swept[i]) ELSE Swept[i]]
           IN  /\ \A i \in C \ {j} : Before(Swept[j], Swept[i])
               /\ job' = K
               /\ permit' = IF Swept[j].org \in Image
                            THEN [own |-> tok, exp |-> now + Lease]
                            ELSE PermitAfter(K)
               /\ conflict' = ConflictAfter(K)
               /\ idem' = IdemAfter(K)
               /\ op' = OpAfter
      /\ claims' = tok
      /\ UNCHANGED <<now, lane, admits>>

\* The scan reaches the end of the ready set and answers null.
ClaimNothing(l) ==
  /\ CanClaim(l)
  /\ \A j \in Ready(l) : ~Claimable(Swept[j])
  /\ Commit([i \in AllJobs |-> IF i \in Ready(l) THEN Passed(Swept[i]) ELSE Swept[i]])
  /\ UNCHANGED <<now, lane, claims, admits>>

-----------------------------------------------------------------------------
(* heartbeat and finish, by the owner tok that last saw revision rev.      *)

\* Fault: a result is accepted for whatever the record has become.
OwnsAnything(m, tok, rev) == m.st # "absent"

Owns(m, tok, rev) == Held(m) /\ m.own = tok /\ m.rev = rev

\* Fault: a heartbeat renews the lease and not the permit.
PermitNotRenewed(m, tok) == PermitAfter(Swept)

\* Only the permit's own holder extends it.
PermitRenewed(m, tok) ==
  IF m.org \in Image /\ PermitAfter(Swept).own = tok
  THEN [own |-> tok, exp |-> now + Lease] ELSE PermitAfter(Swept)

Heartbeat(j, tok, rev) ==
  /\ Owns(Swept[j], tok, rev)
  /\ job' = [Swept EXCEPT ![j].zRun = now + Lease]
  /\ permit' = PermitRenewed(Swept[j], tok)
  /\ conflict' = ConflictAfter(Swept)
  /\ idem' = IdemAfter(Swept)
  /\ op' = OpAfter
  /\ UNCHANGED <<now, lane, claims, admits>>

\* Fault: each attempt starts the age of the job in the queue anew.
RescheduledAnew(m, delay) ==
  LET dl == now + MaxAge[Lane[m.org]] IN
  [release_running(m) EXCEPT
     !.st = IF delay > 0 THEN "delayed" ELSE "queued", !.own = NoTok,
     !.rev = @ + 1, !.qdl = dl, !.zDead = dl, !.zPay = dl,
     !.zReady = delay <= 0,
     !.zDelay = IF delay > 0 THEN now + delay ELSE @]

\* A retryable failure goes back to the queue, after a delay if there is one.
Rescheduled(m, delay) ==
  [release_running(m) EXCEPT
     !.st = IF delay > 0 THEN "delayed" ELSE "queued", !.own = NoTok,
     !.rev = @ + 1, !.zDead = m.qdl,
     !.zPay = IF User[m.org] > 0 THEN Sooner(m.qdl, m.sub + PayloadTTL)
              ELSE m.qdl,
     !.zReady = delay <= 0,
     !.zDelay = IF delay > 0 THEN now + delay ELSE @]

\* Fault: a permanent failure is kept for a manual retry.
FinishedRetriable(m, outcome, delay) ==
  CASE outcome = "unknown_delivery" -> terminal(m, "unknown_delivery", FALSE)
    [] outcome # "unknown_delivery" /\ m.st = "cancel_requested" ->
         terminal(m, "cancelled", FALSE)
    [] outcome = "retryable_failure" /\ m.st # "cancel_requested" ->
         IF m.att >= MaxAttempts THEN terminal(m, "failed", TRUE)
         ELSE IF now + delay >= m.qdl THEN terminal(m, "expired", TRUE)
         ELSE Rescheduled(m, delay)
    [] OTHER -> terminal(m, IF outcome = "succeeded" THEN "succeeded"
                            ELSE "failed", TRUE)

Finished(m, outcome, delay) ==
  CASE outcome = "unknown_delivery" -> terminal(m, "unknown_delivery", FALSE)
    [] outcome # "unknown_delivery" /\ m.st = "cancel_requested" ->
         terminal(m, "cancelled", FALSE)
    [] outcome = "retryable_failure" /\ m.st # "cancel_requested" ->
         IF m.att >= MaxAttempts THEN terminal(m, "failed", TRUE)
         ELSE IF now + delay >= m.qdl THEN terminal(m, "expired", TRUE)
         ELSE Rescheduled(m, delay)
    [] OTHER -> terminal(m, IF outcome = "succeeded" THEN "succeeded"
                            ELSE "failed", FALSE)

Finish(j, tok, rev, outcome, delay) ==
  /\ Swept[j].fin # tok
  /\ Owns(Swept[j], tok, rev)
  /\ Commit([Swept EXCEPT
               ![j] = [Finished(Swept[j], outcome, delay) EXCEPT !.fin = tok]])
  /\ UNCHANGED <<now, lane, claims, admits>>

-----------------------------------------------------------------------------
(* cancel, retry and set_lane, each under an operation id, and erase.      *)

Unused(o) == op[o].exp <= now

\* operation:<key> is written, and listed under commands:<j>.
Recorded(o, j) == [OpAfter EXCEPT ![o] = [on |-> j, exp |-> now + MetaTTL]]

\* Fault: cancelling does not change the revision.
CancelledSilently(m) ==
  CASE Held(m) -> [m EXCEPT !.st = "cancel_requested"]
    [] Active(m) /\ ~Held(m) -> terminal(m, "cancelled", FALSE)
    [] OTHER -> m

\* Fault: a settled job can be cancelled.
CancelledLate(m) ==
  IF Held(m) THEN [m EXCEPT !.st = "cancel_requested", !.rev = @ + 1]
  ELSE terminal(m, "cancelled", FALSE)

Cancelled(m) ==
  CASE Held(m) -> [m EXCEPT !.st = "cancel_requested", !.rev = @ + 1]
    [] Active(m) /\ ~Held(m) -> terminal(m, "cancelled", FALSE)
    [] OTHER -> m

Cancel(o, j) ==
  LET K == [Swept EXCEPT ![j] = Cancelled(@)] IN
  /\ Unused(o) /\ ~Gone(Swept[j])
  /\ job' = K /\ permit' = PermitAfter(K) /\ conflict' = ConflictAfter(K)
  /\ idem' = IdemAfter(K)
  /\ op' = Recorded(o, j)
  /\ UNCHANGED <<now, lane, claims, admits>>

\* A child's task id is a hash of the operation, its identity one of the
\* operation and the account.  The operator's page makes a new operation id for
\* each command, so none is used for jobs of two accounts.
ForJob(o, m) == User[m.org] = KidUser[KidOf[o]]

Retriable(m) ==
  m.st \in {"failed", "expired"} /\ m.elig /\ m.grants >= 1 /\ HasPayload(m)

\* Fault: the retried job keeps its grant and its payload.
Unspent(m) == m

\* The job that was retried: its one grant is spent, its payload is gone.
Spent(m) == [drop_payload(m) EXCEPT !.grants = 0]

\* The retained payload moves to the child job KidOf[o], which has no grant.  A
\* child that exists is found only under the same operation, job and revision:
\* for a day the operation answers first, and the payload is kept for less.
Retry(o, j) ==
  LET m == Swept[j]
      credit == IF m.pay THEN Size[m.org] ELSE 0
  IN  /\ Unused(o) /\ ForJob(o, m) /\ ~Gone(m) /\ Retriable(m)
      /\ HasRoom(m.org, credit)
      /\ Accept([Swept EXCEPT ![j] = Spent(m)], KidOf[o], m.org, 0, 0)
      /\ op' = Recorded(o, j)
      /\ UNCHANGED <<now, lane, claims>>

\* The child's identity is an alias of the holder; the parent keeps its grant.
RetryAlias(o, j) ==
  /\ Unused(o) /\ ForJob(o, Swept[j]) /\ ~Gone(Swept[j]) /\ Retriable(Swept[j])
  /\ \E h \in AllJobs : Alias(KidOf[o], Swept[j].org, h)
  /\ op' = Recorded(o, j)
  /\ UNCHANGED <<now, lane, claims>>

SetLane(o, l, a, c) ==
  /\ Unused(o) /\ lane[l].rev < MaxLaneRev
  /\ lane' = [lane EXCEPT ![l] = [rev |-> @.rev + 1, admissionPaused |-> a,
                                  claimPaused |-> c]]
  /\ job' = Swept /\ permit' = PermitAfter(Swept)
  /\ conflict' = ConflictAfter(Swept) /\ idem' = IdemAfter(Swept)
  /\ op' = [OpAfter EXCEPT ![o] = [on |-> NoJob, exp |-> now + MetaTTL]]
  /\ UNCHANGED <<now, claims, admits>>

Erased(m) ==
  LET a == [m EXCEPT !.nActive = @ - (IF Active(m) THEN 1 ELSE 0)]
  IN  Removed(drop_payload(release_running(a)))

Erase(u) ==
  LET mine == {j \in AllJobs : ~Gone(Swept[j]) /\ User[Swept[j].org] = u}
      K == [j \in AllJobs |-> IF j \in mine THEN Erased(Swept[j]) ELSE Swept[j]]
  IN  /\ mine # {}
      /\ job' = K /\ permit' = PermitAfter(K) /\ conflict' = ConflictAfter(K)
      /\ idem' = [i \in AllJobs |-> IF i \in mine THEN [to |-> NoJob, exp |-> 0]
                                    ELSE IdemAfter(K)[i]]
      /\ op' = [o \in Ops |-> IF OpAfter[o].on \in mine
                              THEN [on |-> NoJob, exp |-> 0] ELSE OpAfter[o]]
      /\ UNCHANGED <<now, lane, claims, admits>>

-----------------------------------------------------------------------------
Users == {User[j] : j \in Jobs} \ {0}

Worker ==
  \/ \E l \in Lanes : Claim(l)
  \/ \E l \in Lanes : ClaimNothing(l)
  \/ \E j \in AllJobs : Heartbeat(j, Swept[j].own, Swept[j].rev)
  \/ \E j \in AllJobs, out \in Outcomes, d \in Delays :
       Finish(j, Swept[j].own, Swept[j].rev, out, d)

Operator ==
  \/ \E o \in Ops, j \in AllJobs : Cancel(o, j)
  \/ \E o \in Ops, j \in AllJobs : Retry(o, j)
  \/ \E o \in Ops, j \in AllJobs : RetryAlias(o, j)
  \/ \E o \in Ops, l \in Lanes, a, c \in BOOLEAN : SetLane(o, l, a, c)

Producer ==
  \/ \E j \in Jobs, d \in Delays : Admit(j, d)
  \/ \E j \in Jobs : AdmitAlias(j)
  \/ \E u \in Users : Erase(u)

Next == Tick \/ Sweep \/ Producer \/ Worker \/ Operator

Spec == Init /\ [][Next]_storeVars

\* Redis time passes, and a running bot keeps sending commands: its scheduler
\* sweeps every five seconds even when all workers are occupied.
FairSpec == Spec /\ WF_storeVars(Tick) /\ WF_storeVars(Sweep)

-----------------------------------------------------------------------------
(* Properties.                                                             *)

Flag(b) == IF b THEN 1 ELSE 0

\* No job is lost: an active job is always in exactly the index that moves it
\* on (ready, delayed or running), always has a deadline and its payload, and
\* is counted once against its lane; a settled one is in none of them.
\* (terminal, release_running, ready and the sweep keep six structures in step.)
CoherentRec(m) ==
  /\ m.zReady = (m.st = "queued")
  /\ (m.zDelay # Never) = (m.st = "delayed")
  /\ (m.zRun # Never) = Held(m) /\ (m.own # NoTok) = Held(m)
  /\ (m.zDead # Never) = Active(m)
  /\ (m.zPay # Never) = m.pay /\ (Active(m) => m.pay)
  /\ m.elig => m.pay /\ m.grants = 1 /\ m.st \in {"failed", "expired"}
  /\ m.st \in EndStates => m.zMeta # Never
  /\ m.st = "absent" => ~m.pay /\ m.zMeta = Never
  /\ m.nActive = Flag(Active(m)) /\ m.nHeld = Flag(Held(m))

Coherent == \A j \in AllJobs : CoherentRec(job[j])

\* At most one job that draws images is held by a worker, whatever leases
\* expire, owners vanish or jobs are cancelled and erased meanwhile (the
\* permit:image key, taken at a claim and kept by heartbeats).
ImageExclusive ==
  \A i, j \in AllJobs :
    Held(job[i]) /\ Held(job[j]) /\ job[i].org \in Image /\ job[j].org \in Image
      => i = j

\* Two unfinished jobs of a lane never share a conflict key, retries included:
\* a key is taken at admission and freed at settlement by its holder only.
ConflictExclusive ==
  \A i, j \in AllJobs :
    Active(job[i]) /\ Active(job[j])
      /\ Keys[job[i].org] \cap Keys[job[j].org] # {} => i = j

\* The caps hold for the real jobs and payloads, not just for the counters
\* that admission and claim compare: retained retry payloads included.
CapsHold ==
  \A l \in Lanes :
    LET mine == {j \in AllJobs : Lane[job[j].org] = l} IN
    /\ Cardinality({j \in mine : Active(job[j])}) <= MaxJobs[l]
    /\ Cardinality({j \in mine : Held(job[j])}) <= Workers[l]
    /\ SumFunction([j \in {i \in mine : HasPayload(job[i])} |-> Size[job[j].org]])
         <= MaxBytes

\* A job is started at most MaxAttempts times, and retried by hand at most
\* once: of a job and its children at most one can still run or be retried,
\* and a child never can be retried again (retry_grants of the retry command).
RetryOnce ==
  \A j \in Jobs :
    /\ job[j].att <= MaxAttempts
    /\ Cardinality({k \in AllJobs : job[k].org = j
                      /\ (Active(sweep(job[k])) \/ job[k].elig)}) <= 1
    /\ \A k \in Kids : ~job[k].elig

\* A job that the next command still finds active is the one its identity
\* leads to: a repeated submission is answered 'existing'.
DuplicateRecognised ==
  \A j \in AllJobs :
    Active(sweep(job[j])) => idem[j].to = j /\ idem[j].exp > now

\* No job outlives its promise: however often it is requeued, rescheduled,
\* delayed, renewed by heartbeats or claimed again, a job is settled within its
\* longest life from its submission, and the wait for the next command
\* (queue_deadline_at, the deadline set and the budget of a claim).
SettledInTime ==
  \A j \in AllJobs :
    Active(job[j]) => now <= job[j].sub + Life(job[j].org) + MaxIdle

\* A retained payload is counted, and a payload no longer kept is not: the
\* byte counter of a lane is the size of the payloads its jobs still own.
BytesExact ==
  \A j \in AllJobs :
    job[j].nByte = IF job[j].pay THEN Size[job[j].org] ELSE 0

SameJob(j) == job'[j].seq = job[j].seq /\ job'[j].st # "absent"

\* A settled job never comes back: until its record is removed or its identity
\* admitted anew it keeps its state, whoever reports late.
SettledIsFinal ==
  [][\A j \in AllJobs :
       job[j].st \in EndStates /\ SameJob(j) => job'[j].st = job[j].st]_storeVars

\* Every change of state or owner changes the revision, so that a command or
\* a finish computed from what was read before it is refused.
RevisionCovers ==
  [][\A j \in AllJobs :
       SameJob(j) /\ (job'[j].st # job[j].st \/ job'[j].own # job[j].own)
         => job'[j].rev > job[j].rev]_storeVars

\* The refinement of QueuePromise: a record is seen through its state alone.
StageOf(m) ==
  CASE Held(m) -> "held"
    [] Active(m) /\ ~Held(m) -> "waiting"
    [] m.st \in EndStates -> "over"
    [] OTHER -> "unknown"

Promise == INSTANCE QueuePromise WITH
  Ids <- AllJobs, Tasks <- Jobs,
  task <- [j \in AllJobs |-> job[j].org], stage <- [j \in AllJobs |-> StageOf(job[j])],
  owner <- [j \in AllJobs |-> job[j].own], issued <- claims

\* Whatever the sweep finds due and whoever is late, a job comes back only by an
\* admission, a claim under a new token or its own owner's report; an effectful
\* job whose owner is lost never does; lanes, keys and the image permit bind at
\* every admission and claim.
KeepsPromise == Promise!PromiseSpec

\* An owner that disappears leaves no job behind: whatever was running, delayed
\* or queued is settled in the end, and in the end forgotten.
EverySettles == \A j \in AllJobs : Active(job[j]) ~> ~Active(job[j])
=============================================================================

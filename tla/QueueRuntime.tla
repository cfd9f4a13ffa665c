---------------------------- MODULE QueueRuntime ----------------------------
(***************************************************************************)
(* The workers of app/queue_runtime.py on top of the Redis queue.  Every   *)
(* call a worker makes is one command of QueueStore; between two commands  *)
(* the clock, the other workers, the sweep, operators and producers may    *)
(* all act.  A call may fail before Redis sees it, or be applied and its   *)
(* reply lost (asyncio.timeout(5) in RedisQueueStore._call).  A worker may *)
(* stop at any point: the process is killed, or stop() cancels it.         *)
(*                                                                         *)
(* A worker's claim runs as two tasks: the execution (_run_claim and the   *)
(* handler) and the heartbeat (_heartbeat).  Both call checkpoint(), which *)
(* reads the record and then sends a heartbeat for the revision it read;   *)
(* the guard's lock lets one of them at a time between the two.            *)
(***************************************************************************)
EXTENDS QueueStore

CONSTANTS Runners, Serves     \* the workers and the lane each one polls

ASSUME RuntimeAssumption == Serves \in [Runners -> Lanes]

VARIABLES
  wk,    \* what each worker is doing
  hist   \* history: per owner token, the job its handler worked on (NoJob
         \* once the job was admitted anew) and how that ended

vars == <<now, job, permit, conflict, idem, op, lane, claims, admits, wk, hist>>

Phases == {"idle", "start", "load", "run", "fin", "write", "again"}
Tokens == 1..MaxClaims

Idle == [pc |-> "idle", job |-> NoJob, tok |-> NoTok, eff |-> FALSE, rev |-> 0,
         by |-> "none", res |-> "none"]

\* What each worker holds and the history of executions are well formed.
RuntimeTypeOK ==
  /\ wk \in [Runners -> [pc : Phases, job : AllJobs \cup {NoJob},
                         tok : Tokens \cup {NoTok}, eff : BOOLEAN, rev : Nat,
                         by : {"none", "exec", "beat"},
                         res : Outcomes \cup {"none"}]]
  /\ hist \in [Tokens -> [of : AllJobs \cup {NoJob},
                          ev : Outcomes \cup {"none", "started"}]]

RuntimeInit ==
  /\ Init
  /\ wk = [w \in Runners |-> Idle]
  /\ hist = [t \in Tokens |-> [of |-> NoJob, ev |-> "none"]]

-----------------------------------------------------------------------------
Executing(w) == wk[w].pc \in {"start", "load", "run"}
Mine(w)      == Swept[wk[w].job]
StillOwner(w) == Held(Mine(w)) /\ Mine(w).own = wk[w].tok

\* Fault: a job state where an outcome is expected.
DoubtFailed(w) == IF wk[w].eff THEN "unknown_delivery" ELSE "failed"

\* An execution that ends without a result of its own: what it did is unknown.
Doubt(w) == IF wk[w].eff THEN "unknown_delivery" ELSE "retryable_failure"

Becomes(w, v) == wk' = [wk EXCEPT ![w] = v]
Drop(w) == Becomes(w, Idle)

\* The execution task is over with a result; the heartbeat task is cancelled.
Report(w, res) ==
  Becomes(w, [wk[w] EXCEPT !.pc = "fin", !.res = res, !.by = "none"])

\* _worker: the claim's reply, or no reply; an uncertain claim is not repeated.
ClaimJob(w) ==
  /\ wk[w].pc = "idle"
  /\ Claim(Serves[w])
  /\ \/ \E j \in AllJobs :
          /\ job'[j].own = claims'
          /\ Becomes(w, [Idle EXCEPT !.pc = "start", !.job = j, !.tok = claims',
                                   !.eff = job'[j].org \in Effectful])
     \/ UNCHANGED wk
  /\ UNCHANGED hist

\* _worker: the lane has nothing to claim, and the worker sleeps.
ClaimNull(w) ==
  /\ wk[w].pc = "idle"
  /\ ClaimNothing(Serves[w])
  /\ UNCHANGED <<wk, hist>>

\* checkpoint(), up to its heartbeat.  The execution sees each error as it is;
\* whatever the heartbeat task meets, it cancels the execution.
CheckRead(w, by) ==
  /\ Executing(w) /\ wk[w].by = "none"
  /\ by = "exec" => wk[w].pc # "load"
  /\ Sweep
  /\ \/ /\ StillOwner(w) /\ Mine(w).st = "running"
        /\ Becomes(w, [wk[w] EXCEPT !.by = by, !.rev = Mine(w).rev])
     \/ /\ ~StillOwner(w)
        /\ IF by = "exec" THEN Drop(w) ELSE Report(w, Doubt(w))
     \/ /\ StillOwner(w)
        /\ Mine(w).st = "cancel_requested" \/ User[Mine(w).org] > 0
        /\ Report(w, IF by = "exec" THEN "permanent_failure" ELSE Doubt(w))
  /\ UNCHANGED hist

\* checkpoint()'s heartbeat is applied and its reply arrives.
CheckBeat(w) ==
  /\ wk[w].by # "none"
  /\ Heartbeat(wk[w].job, wk[w].tok, wk[w].rev)
  /\ Becomes(w, [wk[w] EXCEPT !.by = "none",
                   !.pc = IF @ = "start" /\ wk[w].by = "exec" THEN "load" ELSE @])
  /\ UNCHANGED hist

\* The record changed since checkpoint() read it: its heartbeat is refused.
CheckRefused(w) ==
  /\ wk[w].by # "none"
  /\ ~Owns(Mine(w), wk[w].tok, wk[w].rev)
  /\ Sweep
  /\ Report(w, Doubt(w))
  /\ UNCHANGED hist

\* The execution ends in doubt: a call of checkpoint() or load_payload is
\* lost, the handler raises, or stop(), purge_user_jobs() or the
\* heartbeat task cancels it.  A heartbeat under way may still be applied.
Aborts(w) ==
  /\ Executing(w)
  /\ \/ /\ wk[w].by # "none" /\ Heartbeat(wk[w].job, wk[w].tok, wk[w].rev)
     \/ UNCHANGED storeVars
  /\ Report(w, Doubt(w))
  /\ UNCHANGED hist

\* No registration for the kind here, or no privacy lease: nothing is started.
Refuses(w) ==
  /\ wk[w].pc = "start" /\ wk[w].by # "exec"
  /\ Report(w, "permanent_failure")
  /\ UNCHANGED <<storeVars, hist>>

\* load_payload, then the handler starts; a payload it cannot read is final.
Load(w) ==
  /\ wk[w].pc = "load"
  /\ Sweep
  /\ \/ /\ Mine(w).st = "running" /\ Mine(w).own = wk[w].tok /\ HasPayload(Mine(w))
        /\ Becomes(w, [wk[w] EXCEPT !.pc = "run"])
        /\ hist' = [hist EXCEPT ![wk[w].tok] = [of |-> wk[w].job, ev |-> "started"]]
     \/ /\ Mine(w).st = "running" /\ Mine(w).own = wk[w].tok /\ HasPayload(Mine(w))
        /\ Report(w, "permanent_failure")
        /\ UNCHANGED hist
     \/ /\ ~(Mine(w).st = "running" /\ Mine(w).own = wk[w].tok /\ HasPayload(Mine(w)))
        /\ Report(w, Doubt(w))
        /\ UNCHANGED hist

\* The handler returns; a heartbeat in progress is cancelled with it.
HandlerReturns(w, out) ==
  /\ wk[w].pc = "run" /\ wk[w].by # "exec"
  /\ Report(w, out)
  /\ hist' = [hist EXCEPT ![wk[w].tok].ev = out]
  /\ UNCHANGED storeVars

\* _finish_claim: the revision is read, and the result written for it.
FinishRead(w) ==
  /\ wk[w].pc = "fin"
  /\ Sweep
  /\ IF Mine(w).own = wk[w].tok
     THEN Becomes(w, [wk[w] EXCEPT !.pc = "write", !.rev = Mine(w).rev])
     ELSE Drop(w)
  /\ UNCHANGED hist

\* finish is applied; without a reply the call is made once more (_mutate).
\* next_attempt_at() always delays an automatic retry.
FinishWrite(w) ==
  /\ wk[w].pc \in {"write", "again"}
  /\ \E d \in (IF wk[w].res = "retryable_failure" THEN Delays \ {0} ELSE {0}) :
       Finish(wk[w].job, wk[w].tok, wk[w].rev, wk[w].res, d)
  /\ \/ Drop(w)
     \/ wk[w].pc = "write" /\ Becomes(w, [wk[w] EXCEPT !.pc = "again"])
  /\ UNCHANGED hist

\* finish is refused, or answered from finish_token, or never reaches Redis.
FinishUnapplied(w) ==
  /\ wk[w].pc \in {"write", "again"}
  /\ \/ /\ Mine(w).fin = wk[w].tok \/ ~Owns(Mine(w), wk[w].tok, wk[w].rev)
        /\ Sweep /\ Drop(w)
     \/ /\ wk[w].pc = "write"
        /\ UNCHANGED storeVars /\ Becomes(w, [wk[w] EXCEPT !.pc = "again"])
     \/ /\ wk[w].pc = "again"
        /\ UNCHANGED storeVars /\ Drop(w)
  /\ UNCHANGED hist

\* The process dies, stop() reaches the worker outside an execution, or the
\* read of _finish_claim gets no answer.
Crash(w) ==
  /\ wk[w].pc # "idle"
  /\ Drop(w)
  /\ UNCHANGED <<storeVars, hist>>

-----------------------------------------------------------------------------
\* An identity admitted anew is a new job: what ran before is another's past.
Renewed == {j \in AllJobs : job'[j].seq # job[j].seq /\ job'[j].st # "absent"}

Outside ==
  /\ Producer \/ Operator
  /\ hist' = [t \in Tokens |-> IF hist[t].of \in Renewed
                               THEN [hist[t] EXCEPT !.of = NoJob] ELSE hist[t]]
  /\ UNCHANGED wk

Background == (Tick \/ Sweep) /\ UNCHANGED <<wk, hist>>

Step(w) ==
  \/ ClaimJob(w) \/ ClaimNull(w)
  \/ \E by \in {"exec", "beat"} : CheckRead(w, by)
  \/ CheckBeat(w) \/ CheckRefused(w) \/ Aborts(w) \/ Refuses(w) \/ Load(w)
  \/ \E out \in Outcomes : HandlerReturns(w, out)
  \/ FinishRead(w) \/ FinishWrite(w) \/ FinishUnapplied(w)
  \/ Crash(w)

RuntimeNext == Background \/ Outside \/ \E w \in Runners : Step(w)

RuntimeSpec == RuntimeInit /\ [][RuntimeNext]_vars

\* The worker's own steps run when they can: each is a bounded call or a local
\* step of asyncio.  Handlers are not assumed to return, nor work to arrive.
Proceed(w) ==
  \/ CheckRead(w, "beat") \/ CheckBeat(w) \/ CheckRefused(w)
  \/ FinishRead(w) \/ FinishWrite(w) \/ FinishUnapplied(w)

RuntimeFair ==
  /\ RuntimeSpec
  /\ WF_vars(Tick /\ UNCHANGED <<wk, hist>>)
  /\ WF_vars(Sweep /\ UNCHANGED <<wk, hist>>)
  /\ \A w \in Runners : WF_vars(Proceed(w))

-----------------------------------------------------------------------------
(* Properties.                                                             *)

Open(j) == {t \in Tokens : hist[t].of = j
                             /\ hist[t].ev \notin {"none", "retryable_failure"}}

\* The handler of an effectful job is started again only when the execution
\* before it came back and said that a retry is safe: not after a crash, a lost
\* reply, an expired lease, a cancellation or a late answer.
EffectNotRepeated ==
  \A j \in AllJobs : job[j].org \in Effectful => Cardinality(Open(j)) <= 1

\* What an operator may still retry by hand has no execution whose effect is
\* uncertain ("cannot be retried automatically or through the ordinary manual
\* retry action", docs/ARCHITECTURE.md:342).
RetryIsClean ==
  \A j \in AllJobs : job[j].org \in Effectful /\ job[j].elig => Open(j) = {}

\* A job is recorded as succeeded only if the handler of its last owner
\* returned success: no stale owner's result is accepted over a later start.
SuccessIsReal ==
  \A j \in AllJobs :
    job[j].st = "succeeded" =>
      /\ job[j].fin \in Tokens /\ hist[job[j].fin].ev = "succeeded"
      /\ \A t \in Tokens : hist[t].of = j => t <= job[j].fin

\* A worker is never lost to a handler that hangs: the job's deadline makes the
\* heartbeat fail, which cancels the execution, whatever else fails meanwhile.
HungHandlerFreed == \A w \in Runners : wk[w].pc # "idle" ~> wk[w].pc = "idle"
=============================================================================

------------------------- MODULE QueueRuntimeProofs -------------------------
(***************************************************************************)
(* The invariant behind the properties of QueueRuntime, and what each      *)
(* command of the queue does to the records it speaks of.  RunInv has      *)
(* three parts, each relating two pieces of the state: the records and the *)
(* history of executions (JobHist), the workers and the records (WorkJob), *)
(* the workers and the history (WorkHist).  Every step preserves it, so    *)
(* what QueueRuntime checks of executions and their effects holds for any  *)
(* number of jobs, workers, claims and operations.                         *)
(***************************************************************************)
EXTENDS QueueRuntime, QueueStoreSafety, FiniteSetTheorems

\* The executions of job j in history H that may have acted on the world.
OpenIn(H, j) == {t \in Tokens : H[t].of = j
                                  /\ H[t].ev \notin {"none", "retryable_failure"}}

\* One record m of job j, against history H when c tokens are handed out: only
\* the owner of an effectful live job has an execution that may have acted,
\* there never are two of them, owners follow each other in token order, and a
\* success is that of the last execution.
JobHistRec(m, j, H, c) ==
  /\ m.elig => ~Active(m)
  /\ m.fin <= c
  /\ m.org \in Effectful =>
       /\ \A t \in OpenIn(H, j) : Live(m) => Held(m) /\ m.own = t
       /\ \A s, t \in OpenIn(H, j) : s = t
  /\ Held(m) => \A t \in Tokens : H[t].of = j => t <= m.own
  /\ m.st = "succeeded" =>
       /\ m.fin \in Tokens /\ H[m.fin].ev = "succeeded"
       /\ \A t \in Tokens : H[t].of = j => t <= m.fin

JobHist(J, H, c) ==
  /\ \A j \in AllJobs : JobHistRec(J[j], j, H, c)
  /\ \A t \in Tokens : H[t].of # NoJob => t <= c

\* A worker that has not sent its result yet.
Unsent == {"start", "load", "run", "fin", "write"}

\* A worker works on one job under one token of its own, which is the job's
\* owner or none's, and a result not yet sent is not yet recorded.
WorkJobRec(v, J, c) ==
  /\ v.pc = "idle" => v = Idle
  /\ v.pc # "idle" => v.job \in AllJobs /\ v.tok \in 1..c
  /\ \A j \in AllJobs : J[j].own = v.tok /\ v.tok # NoTok
       => v.job = j /\ v.eff = (J[j].org \in Effectful)
  /\ v.pc \in Unsent => \A j \in AllJobs : J[j].fin # v.tok

WorkJob(W, J, c) ==
  /\ \A w \in Runners : WorkJobRec(W[w], J, c)
  /\ \A v, w \in Runners : W[v].tok = W[w].tok /\ W[v].tok # NoTok => v = w

\* A running handler is on record as started; a result that calls a retry of
\* an effectful job safe, or claims success, is the handler's own; only an
\* execution that is under way sends heartbeats.
WorkHistRec(v, H) ==
  /\ v.by # "none" => v.pc \in {"start", "load", "run"}
  /\ v.pc = "run" => H[v.tok].ev = "started"
  /\ v.pc \in {"fin", "write", "again"} =>
       /\ v.res \in Outcomes
       /\ v.eff /\ v.res = "retryable_failure"
            => H[v.tok].ev \in {"none", "retryable_failure"}
       /\ v.res = "succeeded" => H[v.tok].ev = "succeeded"

WorkHist(W, H) == \A w \in Runners : WorkHistRec(W[w], H)

RunInv ==
  /\ JobHist(job, hist, claims)
  /\ WorkJob(wk, job, claims)
  /\ WorkHist(wk, hist)

-----------------------------------------------------------------------------
(* What a command may do to a record without claiming or finishing it.     *)

Traces(m, s) ==
  /\ s.org = m.org /\ (s.own = m.own \/ s.own = NoTok)
  /\ s.fin = m.fin \/ s.fin = NoTok
  /\ Held(s) => Held(m) /\ s.own = m.own
  /\ Live(s) => Live(m)
  /\ Live(s) /\ Held(m) /\ m.org \in Effectful => Held(s)
  /\ s.elig /\ Active(s) => m.elig /\ Active(m)
  /\ s.st = "succeeded" => m.st = "succeeded" /\ s.fin = m.fin

\* What sweep() may do, it may do here.
LEMMA FollowsTraces == ASSUME NEW m, NEW s, Follows(m, s) PROVE Traces(m, s)
BY DEF Follows, Traces

\* Two allowed changes in a row are allowed.
LEMMA TracesTrans ==
  ASSUME NEW a, NEW b, NEW c, Traces(a, b), Traces(b, c) PROVE Traces(a, c)
BY DEF Traces

\* Leaving the control fields alone is allowed, and so is giving up the retry.
LEMMA TracesSame ==
  ASSUME NEW m, NEW s, s.st = m.st, s.org = m.org, s.own = m.own, s.fin = m.fin,
         s.elig => m.elig
  PROVE  Traces(m, s)
BY DEF Traces, Live, Active, Held

\* The sweep of a command is allowed.
LEMMA SweptTraces ==
  ASSUME TypeOK, NEW i \in AllJobs PROVE Traces(job[i], Swept[i])
<1>1. job[i] \in JobRec /\ now \in Nat BY DEF TypeOK
<1> QED BY <1>1, SweepFollows, FollowsTraces DEF Swept

\* Passing over a ready entry is allowed.
LEMMA PassedTraces ==
  ASSUME NEW m \in JobRec, now \in Nat PROVE Traces(m, Passed(m))
<1> DEFINE z == [m EXCEPT !.zReady = FALSE]
<1>1. Traces(m, m) BY TracesSame
<1>2. Traces(m, z)
  <2>1. z.st = m.st /\ z.org = m.org /\ z.own = m.own /\ z.fin = m.fin /\ z.elig = m.elig
    BY DEF JobRec
  <2> HIDE DEF z
  <2> QED BY <2>1, TracesSame
<1>3. ASSUME m.st = "queued"
      PROVE  Traces(m, terminal(m, "failed", TRUE)) /\ Traces(m, terminal(m, "expired", FALSE))
  <2>1. Active(m) /\ ~Uncertain(m)
    BY <1>3 DEF Active, ActiveStates, Uncertain, Held, HeldStates
  <2>2. {"failed", "expired"} \subseteq EndStates \ {"succeeded"} BY DEF EndStates
  <2> QED BY <2>1, <2>2, TerminalFollows, FollowsTraces
<1>4. CASE m.st # "queued"
  <2>1. Passed(m) = z BY <1>4 DEF Passed
  <2> QED BY <1>2, <2>1
<1>5. CASE m.st = "queued" BY <1>1, <1>3, <1>5 DEF Passed
<1> QED BY <1>4, <1>5

\* Cancelling is allowed: a held job keeps its owner.
LEMMA CancelledTraces ==
  ASSUME NEW m \in JobRec, now \in Nat PROVE Traces(m, Cancelled(m))
<1> DEFINE c == [m EXCEPT !.st = "cancel_requested", !.rev = @ + 1]
<1>1. CASE Held(m)
  <2>1. /\ c.st = "cancel_requested" /\ c.org = m.org /\ c.own = m.own /\ c.fin = m.fin
        /\ c.elig = m.elig
    BY DEF JobRec
  <2>2. Cancelled(m) = c BY <1>1 DEF Cancelled
  <2> HIDE DEF c
  <2>3. Held(c) /\ Active(c) /\ Active(m)
    BY <1>1, <2>1 DEF Held, HeldStates, Active, ActiveStates
  <2> QED BY <1>1, <2>1, <2>2, <2>3 DEF Traces, Live
<1>2. CASE Active(m) /\ ~Held(m)
  <2>1. Cancelled(m) = terminal(m, "cancelled", FALSE) BY <1>2 DEF Cancelled
  <2>2. "cancelled" \in EndStates \ {"succeeded"} BY DEF EndStates
  <2> QED BY <2>1, <2>2, TerminalFollows, FollowsTraces
<1>3. CASE ~Active(m) /\ ~Held(m)
  <2>1. Cancelled(m) = m BY <1>3 DEF Cancelled
  <2> QED BY <2>1, TracesSame
<1> QED BY <1>1, <1>2, <1>3, States

\* Erasing is allowed.
LEMMA ErasedTraces == ASSUME NEW m \in JobRec PROVE Traces(m, Erased(m))
<1> DEFINE a == [m EXCEPT !.nActive = @ - (IF Active(m) THEN 1 ELSE 0)]
           r == drop_payload(release_running(a))
<1>1. a \in JobRec /\ a.org = m.org
  <2>1. m.nActive - (IF Active(m) THEN 1 ELSE 0) \in Int BY DEF JobRec
  <2> QED BY <2>1 DEF JobRec
<1> HIDE DEF a
<1>2. r.org = m.org BY <1>1, ReleaseType, ReleaseFields, DropFields
<1>3. Erased(m) = Removed(r) BY DEF Erased, a, r
<1> HIDE DEF r
<1> QED BY <1>2, <1>3, RemovedFields, States DEF Traces, Live

-----------------------------------------------------------------------------
(* The commands.                                                           *)

\* No record is claimed, finished or admitted.
Calmly == (\A i \in AllJobs : Traces(job[i], job'[i])) /\ UNCHANGED claims

\* A command whose own branch is allowed is allowed with its sweep.
LEMMA CalmlyFromSwept ==
  ASSUME TypeOK, UNCHANGED claims, \A i \in AllJobs : Traces(Swept[i], job'[i])
  PROVE  Calmly
BY SweptTraces, TracesTrans DEF Calmly

\* The commands that only sweep, and the passing of time.
LEMMA SweepCalm ==
  ASSUME TypeOK, Sweep \/ Tick \/ UNCHANGED storeVars PROVE Calmly
<1>1. CASE Sweep
  <2>1. \A i \in AllJobs : job'[i] = Swept[i] BY <1>1 DEF Sweep, Commit
  <2> QED BY <1>1, <2>1, TracesSame, CalmlyFromSwept DEF Sweep
<1>2. CASE Tick \/ UNCHANGED storeVars
  BY <1>2, TracesSame DEF Tick, storeVars, Calmly
<1> QED BY <1>1, <1>2

\* A claim that finds nothing.
LEMMA ClaimNothingCalm ==
  ASSUME TypeOK, NEW l, ClaimNothing(l) PROVE Calmly
<1>1. Swept \in [AllJobs -> JobRec] /\ now \in Nat BY SweptType DEF TypeOK
<1>2. ASSUME NEW i \in AllJobs PROVE Traces(Swept[i], job'[i])
  <2>1. job'[i] = Passed(Swept[i]) \/ job'[i] = Swept[i] BY DEF ClaimNothing, Commit
  <2> QED BY <1>1, <2>1, PassedTraces, TracesSame
<1> QED BY <1>2, CalmlyFromSwept DEF ClaimNothing

\* A heartbeat renews the lease and nothing else.
LEMMA HeartbeatCalm ==
  ASSUME TypeOK, NEW j \in AllJobs, NEW tok, NEW rev, Heartbeat(j, tok, rev) PROVE Calmly
<1>1. Swept \in [AllJobs -> JobRec] BY SweptType
<1>2. ASSUME NEW i \in AllJobs PROVE Traces(Swept[i], job'[i])
  <2> DEFINE n == [Swept[i] EXCEPT !.zRun = now + Lease]
  <2>1. job'[i] = IF i = j THEN n ELSE Swept[i] BY <1>1 DEF Heartbeat
  <2>2. n.st = Swept[i].st /\ n.org = Swept[i].org /\ n.own = Swept[i].own
        /\ n.fin = Swept[i].fin /\ n.elig = Swept[i].elig
    BY <1>1 DEF JobRec
  <2> HIDE DEF n
  <2> QED BY <2>1, <2>2, TracesSame
<1> QED BY <1>2, CalmlyFromSwept DEF Heartbeat

\* An identity that becomes an alias changes no record's control fields.
LEMMA AliasTraces ==
  ASSUME TypeOK, NEW a, NEW org, NEW h \in AllJobs, Alias(a, org, h), UNCHANGED claims
  PROVE  Calmly
<1>1. Swept \in [AllJobs -> JobRec] BY SweptType
<1>2. ASSUME NEW i \in AllJobs PROVE Traces(Swept[i], job'[i])
  <2> DEFINE n == [Swept[i] EXCEPT !.ids = @ \cup {a}]
  <2>1. job'[i] = IF i = h THEN n ELSE Swept[i] BY <1>1 DEF Alias
  <2>2. n.st = Swept[i].st /\ n.org = Swept[i].org /\ n.own = Swept[i].own
        /\ n.fin = Swept[i].fin /\ n.elig = Swept[i].elig
    BY <1>1 DEF JobRec
  <2> HIDE DEF n
  <2> QED BY <2>1, <2>2, TracesSame
<1> QED BY <1>2, CalmlyFromSwept

\* The commands of producers and operators that admit nothing.
LEMMA OtherCalm ==
  ASSUME TypeOK,
         \/ \E j \in Jobs : AdmitAlias(j)
         \/ \E u \in Users : Erase(u)
         \/ \E o \in Ops, j \in AllJobs : Cancel(o, j)
         \/ \E o \in Ops, j \in AllJobs : RetryAlias(o, j)
         \/ \E o \in Ops, l \in Lanes, a, c \in BOOLEAN : SetLane(o, l, a, c)
  PROVE  Calmly
<1>0. Swept \in [AllJobs -> JobRec] /\ now \in Nat BY SweptType DEF TypeOK
<1>1. ASSUME NEW j \in Jobs, AdmitAlias(j) PROVE Calmly
  BY <1>1, AliasTraces DEF AdmitAlias
<1>2. ASSUME NEW u \in Users, Erase(u) PROVE Calmly
  <2>1. ASSUME NEW i \in AllJobs PROVE Traces(Swept[i], job'[i])
    <3>1. job'[i] = Erased(Swept[i]) \/ job'[i] = Swept[i] BY <1>2 DEF Erase
    <3> QED BY <1>0, <3>1, ErasedTraces, TracesSame
  <2> QED BY <1>2, <2>1, CalmlyFromSwept DEF Erase
<1>3. ASSUME NEW o \in Ops, NEW j \in AllJobs, Cancel(o, j) PROVE Calmly
  <2>1. ASSUME NEW i \in AllJobs PROVE Traces(Swept[i], job'[i])
    <3>1. job'[i] = IF i = j THEN Cancelled(Swept[i]) ELSE Swept[i]
      BY <1>0, <1>3 DEF Cancel
    <3> QED BY <1>0, <3>1, CancelledTraces, TracesSame
  <2> QED BY <1>3, <2>1, CalmlyFromSwept DEF Cancel
<1>4. ASSUME NEW o \in Ops, NEW j \in AllJobs, RetryAlias(o, j) PROVE Calmly
  BY <1>4, AliasTraces DEF RetryAlias
<1>5. ASSUME NEW o \in Ops, NEW l \in Lanes, NEW a \in BOOLEAN, NEW c \in BOOLEAN,
             SetLane(o, l, a, c)
      PROVE  Calmly
  <2>1. ASSUME NEW i \in AllJobs PROVE Traces(Swept[i], job'[i])
    BY <1>5, TracesSame DEF SetLane
  <2> QED BY <1>5, <2>1, CalmlyFromSwept DEF SetLane
<1> QED BY <1>1, <1>2, <1>3, <1>4, <1>5

\* Job j is admitted: a record without owner, result or retry, and with a
\* sequence number that no job had before.
Admission(j) ==
  /\ job'[j].st \in {"queued", "delayed"} /\ job'[j].own = NoTok
  /\ job'[j].fin = NoTok /\ ~job'[j].elig /\ job'[j].seq = admits + 1
  /\ \A i \in AllJobs \ {j} : Traces(job[i], job'[i])
  /\ UNCHANGED claims

\* An accepted admission admits its job and leaves the others alone.
LEMMA AcceptAdmits ==
  ASSUME TypeOK, NEW K \in [AllJobs -> JobRec], NEW j \in AllJobs, NEW org, NEW delay,
         NEW grant, Accept(K, j, org, delay, grant), UNCHANGED claims,
         \A i \in AllJobs : Traces(Swept[i], K[i])
  PROVE  Admission(j)
<1> DEFINE n == Admitted(K[j], j, org, delay, grant)
<1>1. K[j] \in JobRec OBVIOUS
<1>2. /\ n.st \in {"queued", "delayed"} /\ n.own = NoTok /\ n.fin = NoTok /\ n.elig = FALSE
      /\ n.seq = admits + 1
  BY <1>1 DEF Admitted, JobRec
<1>3. job' = [K EXCEPT ![j] = n] BY DEF Accept
<1> HIDE DEF n
<1>4. \A i \in AllJobs \ {j} : Traces(job[i], job'[i])
  BY <1>3, SweptTraces, TracesTrans
<1>5. job'[j] = n BY <1>3
<1> QED BY <1>2, <1>4, <1>5 DEF Admission

\* The commands that admit a job.
LEMMA AdmitAdmits ==
  ASSUME TypeOK,
         \/ \E j \in Jobs, d \in Delays : Admit(j, d)
         \/ \E o \in Ops, j \in AllJobs : Retry(o, j)
  PROVE  \E k \in AllJobs : Admission(k)
<1>0. Swept \in [AllJobs -> JobRec] BY SweptType
<1>1. ASSUME NEW j \in Jobs, NEW d \in Delays, Admit(j, d) PROVE Admission(j)
  BY <1>0, <1>1, AcceptAdmits, TracesSame DEF Admit, AllJobs
<1>2. ASSUME NEW o \in Ops, NEW j \in AllJobs, Retry(o, j) PROVE Admission(KidOf[o])
  <2> DEFINE s == Spent(Swept[j])
             p == drop_payload(Swept[j])
             K == [Swept EXCEPT ![j] = s]
  <2>1. p \in JobRec /\ p.st = Swept[j].st /\ p.own = Swept[j].own
        /\ p.org = Swept[j].org /\ p.fin = Swept[j].fin /\ p.elig = FALSE
    BY <1>0, DropType, DropFields
  <2>2. s = [p EXCEPT !.grants = 0] BY DEF Spent
  <2> HIDE DEF p, s
  <2>3. s \in JobRec /\ s.st = p.st /\ s.own = p.own /\ s.org = p.org /\ s.fin = p.fin
        /\ s.elig = p.elig
    BY <2>1, <2>2 DEF JobRec
  <2>4. Traces(Swept[j], s) BY <2>1, <2>3, TracesSame
  <2>5. K \in [AllJobs -> JobRec] /\ \A x \in AllJobs : Traces(Swept[x], K[x])
    BY <1>0, <2>3, <2>4, TracesSame
  <2>6. KidOf[o] \in AllJobs BY ConstTypes DEF AllJobs
  <2>7. Accept(K, KidOf[o], Swept[j].org, 0, 0) /\ UNCHANGED claims BY <1>2 DEF Retry, s
  <2> HIDE DEF K
  <2> QED BY <2>5, <2>6, <2>7, AcceptAdmits
<1> QED BY <1>1, <1>2, ConstTypes DEF AllJobs

-----------------------------------------------------------------------------
\* The workers are safe.

\* One job's part of the history when jobs are admitted anew: nothing that ran
\* is changed, it may be another job's past.
Trims(H, G) ==
  \A t \in Tokens : G[t].ev = H[t].ev /\ (G[t].of = H[t].of \/ G[t].of = NoJob)

\* The names of jobs are not the name of no job, and no token is a token.
LEMMA Names == (\A j \in AllJobs : j # NoJob) /\ (\A t \in Tokens : t # NoTok /\ t \in Nat)
BY StoreAssumption DEF StoreAssumption, Tokens, NoTok

\* A trimmed history has no more open executions.
LEMMA TrimmedOpen ==
  ASSUME NEW H, NEW G, Trims(H, G), NEW j \in AllJobs
  PROVE  OpenIn(G, j) \subseteq OpenIn(H, j)
BY Names DEF Trims, OpenIn

\* A record that is neither claimed nor finished nor admitted stays in line
\* with the history.
LEMMA TracedRec ==
  ASSUME NEW m \in JobRec, NEW s \in JobRec, NEW j \in AllJobs, NEW H, NEW G,
         NEW c \in Nat, JobHistRec(m, j, H, c), Traces(m, s), Trims(H, G)
  PROVE  JobHistRec(s, j, G, c)
<1>0. OpenIn(G, j) \subseteq OpenIn(H, j) BY TrimmedOpen
<1>1. s.elig => ~Active(s) BY DEF JobHistRec, Traces
<1>2. s.fin <= c BY DEF JobHistRec, Traces, JobRec, NoTok
<1>3. ASSUME s.org \in Effectful
      PROVE  /\ \A t \in OpenIn(G, j) : Live(s) => Held(s) /\ s.own = t
             /\ \A r, t \in OpenIn(G, j) : r = t
  BY <1>0, <1>3 DEF JobHistRec, Traces
<1>4. Held(s) => \A t \in Tokens : G[t].of = j => t <= s.own
  BY Names DEF JobHistRec, Traces, Trims
<1>5. s.st = "succeeded" =>
        /\ s.fin \in Tokens /\ G[s.fin].ev = "succeeded"
        /\ \A t \in Tokens : G[t].of = j => t <= s.fin
  BY Names DEF JobHistRec, Traces, Trims
<1> QED BY <1>1, <1>2, <1>3, <1>4, <1>5 DEF JobHistRec

\* A token handed out elsewhere changes nothing.
LEMMA LaterRec ==
  ASSUME NEW m \in JobRec, NEW j \in AllJobs, NEW H, NEW c \in Nat, JobHistRec(m, j, H, c)
  PROVE  JobHistRec(m, j, H, c + 1)
BY DEF JobHistRec, JobRec, NoTok

\* A claimed job had no open execution of an effect, and its new owner comes
\* after every earlier one.
LEMMA TakenRec ==
  ASSUME NEW m \in JobRec, NEW s \in JobRec, NEW j \in AllJobs, NEW H, NEW c \in Nat,
         JobHistRec(m, j, H, c), \A t \in Tokens : H[t].of # NoJob => t <= c,
         m.st = "queued", s.st = "running", s.own = c + 1, s.org = m.org,
         s.fin = NoTok, s.elig = m.elig
  PROVE  JobHistRec(s, j, H, c + 1)
<1>1. Active(m) /\ ~Held(m) /\ Live(m)
  BY DEF Active, ActiveStates, Held, HeldStates, Live
<1>2. ~s.elig BY <1>1 DEF JobHistRec
<1>3. s.fin <= c + 1 BY DEF NoTok
<1>4. s.org \in Effectful => OpenIn(H, j) = {} BY <1>1 DEF JobHistRec
<1>5. \A t \in Tokens : H[t].of = j => t <= s.own BY Names
<1> QED BY <1>2, <1>3, <1>4, <1>5 DEF JobHistRec

\* A finished job is open again only if its owner's execution was not, and a
\* success is that of its last owner.
LEMMA EndedRec ==
  ASSUME NEW m \in JobRec, NEW s \in JobRec, NEW j \in AllJobs, NEW H, NEW c \in Nat,
         JobHistRec(m, j, H, c), Held(m), m.own \in Tokens, m.own <= c, ~Held(s),
         s.org = m.org, s.fin = m.own, s.elig /\ Active(s) => m.elig,
         Live(s) /\ m.org \in Effectful => H[m.own].ev \in {"none", "retryable_failure"},
         s.st = "succeeded" => H[m.own].ev = "succeeded"
  PROVE  JobHistRec(s, j, H, c)
<1>1. Active(m) /\ Live(m) BY States DEF Live
<1>2. s.elig => ~Active(s) BY <1>1 DEF JobHistRec
<1>3. ASSUME s.org \in Effectful
      PROVE  /\ \A t \in OpenIn(H, j) : Live(s) => Held(s) /\ s.own = t
             /\ \A r, t \in OpenIn(H, j) : r = t
  <2>1. \A t \in OpenIn(H, j) : m.own = t BY <1>1, <1>3 DEF JobHistRec
  <2>2. ~Live(s) \/ m.own \notin OpenIn(H, j) BY <1>3 DEF OpenIn
  <2> QED BY <2>1, <2>2
<1>4. \A t \in Tokens : H[t].of = j => t <= m.own BY DEF JobHistRec
<1> QED BY <1>2, <1>3, <1>4 DEF JobHistRec

\* A job admitted anew has no past.
LEMMA FreshRec ==
  ASSUME NEW s \in JobRec, NEW j \in AllJobs, NEW G, NEW c \in Nat,
         s.st \in {"queued", "delayed"}, s.fin = NoTok, ~s.elig,
         \A t \in Tokens : G[t].of # j
  PROVE  JobHistRec(s, j, G, c)
<1>1. OpenIn(G, j) = {} BY DEF OpenIn
<1>2. s.fin <= c BY DEF NoTok
<1>3. ~Held(s) /\ s.st # "succeeded" BY DEF Held, HeldStates
<1> QED BY <1>1, <1>2, <1>3 DEF JobHistRec

\* The owner's handler starts: its execution is the only open one.
LEMMA StartedRec ==
  ASSUME NEW m \in JobRec, NEW i \in AllJobs, NEW j \in AllJobs, NEW H, NEW G,
         NEW tok \in Tokens, NEW c \in Nat, JobHistRec(m, i, H, c),
         G[tok].of = j, \A t \in Tokens \ {tok} : G[t] = H[t],
         i = j => m.st = "running" /\ m.own = tok, m.fin # tok
  PROVE  JobHistRec(m, i, G, c)
<1>1. CASE i # j
  <2>1. OpenIn(G, i) \subseteq OpenIn(H, i) BY <1>1 DEF OpenIn
  <2>2. \A t \in Tokens : G[t].of = i => H[t].of = i BY <1>1
  <2> QED BY <2>1, <2>2 DEF JobHistRec
<1>2. CASE i = j
  <2>1. Held(m) /\ Active(m) /\ Live(m) /\ m.st # "succeeded"
    BY <1>2 DEF Active, ActiveStates, Held, HeldStates, Live
  <2>2. m.org \in Effectful => OpenIn(G, i) \subseteq {tok}
    BY <1>2, <2>1 DEF JobHistRec, OpenIn
  <2>3. \A t \in Tokens : G[t].of = i => t <= m.own
    BY <1>2, <2>1, Names DEF JobHistRec
  <2>4. m.own = tok BY <1>2
  <2> QED BY <2>1, <2>2, <2>3, <2>4 DEF JobHistRec
<1> QED BY <1>1, <1>2

\* The handler's answer opens no execution, and overwrites no recorded success.
LEMMA ReturnedRec ==
  ASSUME NEW m \in JobRec, NEW i \in AllJobs, NEW H, NEW G, NEW tok \in Tokens,
         NEW c \in Nat, JobHistRec(m, i, H, c), H[tok].ev = "started",
         G[tok].of = H[tok].of, \A t \in Tokens \ {tok} : G[t] = H[t], m.fin # tok
  PROVE  JobHistRec(m, i, G, c)
<1>1. OpenIn(G, i) \subseteq OpenIn(H, i) BY DEF OpenIn
<1>2. \A t \in Tokens : G[t].of = i => H[t].of = i OBVIOUS
<1> QED BY <1>1, <1>2 DEF JobHistRec

-----------------------------------------------------------------------------
(* The records after a step.                                               *)

\* The inductive invariant: RunInv, and what it needs of the queue.
WholeInv == Numbered /\ ImageInv /\ RuntimeTypeOK /\ RunInv

\* The parts of the invariant, and the types they give.
LEMMA Given ==
  ASSUME WholeInv
  PROVE  /\ TypeOK /\ now \in Nat /\ claims \in Nat /\ admits \in Nat
         /\ job \in [AllJobs -> JobRec] /\ Swept \in [AllJobs -> JobRec]
         /\ JobHist(job, hist, claims) /\ WorkJob(wk, job, claims) /\ WorkHist(wk, hist)
BY SweptType DEF WholeInv, Numbered, TypeOK, RunInv

\* After the sweep of a command the records are in line with the history.
LEMMA SweptHist ==
  ASSUME WholeInv, NEW j \in AllJobs PROVE JobHistRec(Swept[j], j, hist, claims)
<1>1. Trims(hist, hist) BY DEF Trims
<1>2. job[j] \in JobRec /\ Swept[j] \in JobRec /\ claims \in Nat /\ TypeOK
      /\ JobHistRec(job[j], j, hist, claims)
  BY Given DEF JobHist
<1> QED BY <1>1, <1>2, SweptTraces, TracedRec

\* Calm commands keep the records in line with the history.
LEMMA CalmHist ==
  ASSUME WholeInv, TypeOK', Calmly, Trims(hist, hist')
  PROVE  JobHist(job', hist', claims')
<1>1. ASSUME NEW j \in AllJobs PROVE JobHistRec(job'[j], j, hist', claims')
  <2>1. job[j] \in JobRec /\ job'[j] \in JobRec /\ claims \in Nat /\ claims' = claims
        /\ JobHistRec(job[j], j, hist, claims) /\ Traces(job[j], job'[j])
    BY Given DEF TypeOK, JobHist, Calmly
  <2> QED BY <2>1, TracedRec
<1>2. claims' = claims BY DEF Calmly
<1>3. ASSUME NEW t \in Tokens, hist'[t].of # NoJob PROVE t <= claims'
  BY <1>2, <1>3, Given DEF JobHist, Trims
<1> QED BY <1>1, <1>3 DEF JobHist

\* claim: one queued job gets the next token.
Taking(j) ==
  /\ Swept[j].st = "queued" /\ job'[j].st = "running" /\ job'[j].own = claims + 1
  /\ job'[j].org = Swept[j].org /\ job'[j].fin = NoTok /\ job'[j].elig = Swept[j].elig
  /\ \A i \in AllJobs \ {j} : Traces(job[i], job'[i])
  /\ claims < MaxClaims /\ claims' = claims + 1

\* A successful claim takes one job.
LEMMA ClaimTakes ==
  ASSUME TypeOK, NEW l, Claim(l) PROVE \E j \in AllJobs : Taking(j)
<1> DEFINE tok == claims + 1
           K(j) == [i \in AllJobs |->
                     IF i = j THEN Claimed(Swept[i], tok)
                     ELSE IF i \in Ready(l) /\ Before(Swept[i], Swept[j])
                     THEN Passed(Swept[i]) ELSE Swept[i]]
<1>0. Swept \in [AllJobs -> JobRec] /\ now \in Nat BY SweptType DEF TypeOK
<1>1. PICK j \in AllJobs : Claimable(Swept[j]) /\ job' = K(j) BY DEF Claim, Ready
<1>2. Swept[j].st = "queued" BY <1>1 DEF Claimable
<1>3. job'[j] = Claimed(Swept[j], tok) BY <1>1
<1>4. LET n == Claimed(Swept[j], tok) IN
      /\ n.st = "running" /\ n.own = tok /\ n.org = Swept[j].org /\ n.fin = NoTok
      /\ n.elig = Swept[j].elig
  <2>1. Swept[j] \in JobRec BY <1>0
  <2> QED BY <2>1 DEF Claimed, JobRec
<1>5. ASSUME NEW i \in AllJobs \ {j} PROVE Traces(job[i], job'[i])
  <2>1. job'[i] \in {Passed(Swept[i]), Swept[i]} BY <1>1, <1>5
  <2>2. Traces(Swept[i], job'[i]) BY <1>0, <2>1, PassedTraces, TracesSame
  <2> QED BY <2>2, SweptTraces, TracesTrans
<1>6. claims < MaxClaims /\ claims' = claims + 1 BY DEF Claim
<1> QED BY <1>2, <1>3, <1>4, <1>5, <1>6 DEF Taking

\* A claim keeps the records in line with the history.
LEMMA TakingHist ==
  ASSUME WholeInv, TypeOK', NEW j \in AllJobs, Taking(j), UNCHANGED hist
  PROVE  JobHist(job', hist', claims')
<1>0. /\ claims' = claims + 1 /\ claims \in Nat
      /\ \A t \in Tokens : hist[t].of # NoJob => t <= claims
  BY Given DEF Taking, JobHist
<1>1. ASSUME NEW i \in AllJobs PROVE JobHistRec(job'[i], i, hist, claims + 1)
  <2>1. job[i] \in JobRec /\ job'[i] \in JobRec /\ Swept[i] \in JobRec
        /\ JobHistRec(job[i], i, hist, claims)
    BY Given DEF TypeOK, JobHist
  <2>2. CASE i = j
    BY <1>0, <2>1, <2>2, SweptHist, TakenRec DEF Taking
  <2>3. CASE i # j
    <3>1. Traces(job[i], job'[i]) BY <2>3 DEF Taking
    <3>2. Trims(hist, hist) BY DEF Trims
    <3>3. JobHistRec(job'[i], i, hist, claims) BY <1>0, <2>1, <3>1, <3>2, TracedRec
    <3> QED BY <1>0, <2>1, <3>3, LaterRec
  <2> QED BY <2>2, <2>3
<1>2. \A t \in Tokens : hist[t].of # NoJob => t <= claims + 1
  BY <1>0, Names
<1> QED BY <1>0, <1>1, <1>2 DEF JobHist

\* finish: the job is freed under its owner's token; it can run or be retried
\* again only after a retryable failure.
Ending(j, tok, out) ==
  /\ Held(Swept[j]) /\ Swept[j].own = tok /\ Swept[j].fin # tok
  /\ ~Held(job'[j]) /\ job'[j].own = NoTok /\ job'[j].org = Swept[j].org
  /\ job'[j].fin = tok /\ (job'[j].elig /\ Active(job'[j]) => Swept[j].elig)
  /\ Live(job'[j]) => out = "retryable_failure"
  /\ job'[j].st = "succeeded" => out = "succeeded"
  /\ \A i \in AllJobs \ {j} : Traces(job[i], job'[i])
  /\ UNCHANGED claims

\* What a result does to the record of a held job.
LEMMA FinishedFields ==
  ASSUME NEW m \in JobRec, NEW out, NEW d \in Nat, now \in Nat, Held(m)
  PROVE  LET s == Finished(m, out, d) IN
         /\ ~Held(s) /\ s.own = NoTok /\ s.org = m.org
         /\ s.elig /\ Active(s) => m.elig
         /\ Live(s) => out = "retryable_failure"
         /\ s.st = "succeeded" => out = "succeeded"
<1> DEFINE s == Finished(m, out, d)
           r == Rescheduled(m, d)
           last == IF out = "succeeded" THEN "succeeded" ELSE "failed"
<1>1. /\ r.st \in {"queued", "delayed"} /\ r.own = NoTok /\ r.org = m.org
      /\ r.elig = m.elig
  <2>1. release_running(m) \in JobRec BY ReleaseType
  <2>2. release_running(m).org = m.org /\ release_running(m).elig = m.elig
    BY ReleaseFields
  <2> QED BY <2>1, <2>2 DEF Rescheduled, JobRec
<1>2. last \in EndStates /\ (last = "succeeded" => out = "succeeded") BY EndTypes
<1>3. ASSUME NEW e \in EndStates, NEW safe \in BOOLEAN, s = terminal(m, e, safe)
      PROVE  s.st = e /\ s.own = NoTok /\ s.org = m.org /\ (s.elig => safe)
  BY <1>3, TerminalFields
<1>4. \/ s = terminal(m, "unknown_delivery", FALSE) \/ s = terminal(m, "cancelled", FALSE)
      \/ s = terminal(m, last, FALSE)
      \/ out = "retryable_failure" /\ s = r
      \/ out = "retryable_failure"
           /\ (s = terminal(m, "failed", TRUE) \/ s = terminal(m, "expired", TRUE))
  BY DEF Finished
<1> HIDE DEF s, r, last
<1>5. CASE out = "retryable_failure" /\ s = r
  BY <1>1, <1>5 DEF Held, HeldStates, s
<1>6. ASSUME NEW e \in EndStates, NEW safe \in BOOLEAN, s = terminal(m, e, safe),
             safe => out = "retryable_failure", e = "succeeded" => out = "succeeded"
      PROVE  /\ ~Held(s) /\ ~Active(s) /\ s.own = NoTok /\ s.org = m.org
             /\ (Live(s) => out = "retryable_failure")
             /\ (s.st = "succeeded" => out = "succeeded")
  <2>1. s.st = e /\ s.own = NoTok /\ s.org = m.org /\ (s.elig => safe) BY <1>3, <1>6
  <2> QED BY <1>6, <2>1, States DEF Live
<1>7. CASE ~(out = "retryable_failure" /\ s = r)
  BY <1>2, <1>4, <1>6, <1>7, EndTypes DEF s
<1> QED BY <1>5, <1>7

\* An accepted result ends the execution.
LEMMA FinishEnds ==
  ASSUME TypeOK, NEW j \in AllJobs, NEW tok \in Nat, NEW rev, NEW out, NEW d \in Nat,
         Finish(j, tok, rev, out, d)
  PROVE  Ending(j, tok, out)
<1> DEFINE f == Finished(Swept[j], out, d)
           n == [f EXCEPT !.fin = tok]
<1>0. Swept \in [AllJobs -> JobRec] /\ now \in Nat /\ f \in JobRec
  BY SweptType, FinishedType DEF TypeOK
<1>1. Held(Swept[j]) /\ Swept[j].own = tok /\ Swept[j].fin # tok BY DEF Finish, Owns
<1>2. job' = [Swept EXCEPT ![j] = n] /\ UNCHANGED claims BY DEF Finish, Commit
<1>3. /\ ~Held(f) /\ f.own = NoTok /\ f.org = Swept[j].org
      /\ f.elig /\ Active(f) => Swept[j].elig
      /\ Live(f) => out = "retryable_failure"
      /\ f.st = "succeeded" => out = "succeeded"
  BY <1>0, <1>1, FinishedFields
<1> HIDE DEF f
<1>4. n.st = f.st /\ n.own = f.own /\ n.org = f.org /\ n.elig = f.elig /\ n.fin = tok
  BY <1>0 DEF JobRec
<1> HIDE DEF n
<1>5. job'[j] = n BY <1>0, <1>2
<1>6. (Held(n) = Held(f)) /\ (Active(n) = Active(f)) /\ (Live(n) = Live(f))
  BY <1>4 DEF Held, Active, Live
<1>7. ASSUME NEW i \in AllJobs \ {j} PROVE Traces(job[i], job'[i])
  BY <1>0, <1>2, SweptTraces
<1> QED BY <1>1, <1>2, <1>3, <1>4, <1>5, <1>6, <1>7 DEF Ending

\* A result keeps the records in line with the history, if it says of the
\* execution what the execution said.
LEMMA EndingHist ==
  ASSUME WholeInv, TypeOK', NEW j \in AllJobs, NEW tok \in Tokens, NEW out,
         Ending(j, tok, out), UNCHANGED hist, tok <= claims,
         Swept[j].org \in Effectful /\ out = "retryable_failure"
           => hist[tok].ev \in {"none", "retryable_failure"},
         out = "succeeded" => hist[tok].ev = "succeeded"
  PROVE  JobHist(job', hist', claims')
<1>0. claims' = claims /\ claims \in Nat /\ Trims(hist, hist)
  BY Given DEF Ending, Trims
<1>1. ASSUME NEW i \in AllJobs PROVE JobHistRec(job'[i], i, hist, claims)
  <2>1. job[i] \in JobRec /\ job'[i] \in JobRec /\ Swept[i] \in JobRec
        /\ JobHistRec(job[i], i, hist, claims)
    BY Given DEF TypeOK, JobHist
  <2>2. CASE i = j
    BY <1>0, <2>1, <2>2, SweptHist, EndedRec DEF Ending
  <2>3. CASE i # j
    BY <1>0, <2>1, <2>3, TracedRec DEF Ending
  <2> QED BY <2>2, <2>3
<1> QED BY <1>0, <1>1, Given DEF JobHist

\* Every record but the newly admitted one is in line with the history, and
\* that one starts without any.
LEMMA AdmissionHist ==
  ASSUME WholeInv, TypeOK', NEW j \in AllJobs, Admission(j), Trims(hist, hist'),
         \A t \in Tokens : hist[t].of \in Renewed => hist'[t].of = NoJob
  PROVE  JobHist(job', hist', claims')
<1>0. claims' = claims /\ claims \in Nat BY Given DEF Admission
<1>1. ASSUME NEW i \in AllJobs PROVE JobHistRec(job'[i], i, hist', claims)
  <2>1. job[i] \in JobRec /\ job'[i] \in JobRec /\ JobHistRec(job[i], i, hist, claims)
    BY Given DEF TypeOK, JobHist
  <2>2. CASE i = j
    <3>1. job[j].seq <= admits /\ job[j].seq \in Nat /\ admits \in Nat
      BY <2>1, <2>2, Given DEF WholeInv, Numbered, JobRec
    <3>2. j \in Renewed BY <3>1 DEF Admission, Renewed
    <3>3. \A t \in Tokens : hist'[t].of # j BY <3>2, Names DEF Trims
    <3> QED BY <1>0, <2>1, <2>2, <3>3, FreshRec DEF Admission
  <2>3. CASE i # j BY <1>0, <2>1, <2>3, TracedRec DEF Admission
  <2> QED BY <2>2, <2>3
<1>2. ASSUME NEW t \in Tokens, hist'[t].of # NoJob PROVE t <= claims
  BY <1>2, Given DEF JobHist, Trims
<1> QED BY <1>0, <1>1, <1>2 DEF JobHist

-----------------------------------------------------------------------------
(* The workers after a step.                                               *)

WorkRec ==
  [pc : Phases, job : AllJobs \cup {NoJob}, tok : Tokens \cup {NoTok}, eff : BOOLEAN,
   rev : Nat, by : {"none", "exec", "beat"}, res : Outcomes \cup {"none"}]
PastRec == [of : AllJobs \cup {NoJob}, ev : Outcomes \cup {"none", "started"}]

Sending == {"fin", "write", "again"}

\* A worker goes on with its job, or gives it up.
Moves(v, u) ==
  \/ u = v \/ u = Idle
  \/ /\ v.pc # "idle" /\ u.pc # "idle"
     /\ u.job = v.job /\ u.tok = v.tok /\ u.eff = v.eff
     /\ u.pc \in Unsent => v.pc \in Unsent

\* A worker starts no handler, and calls an effect safe or done only if its
\* handler did.
Keeps(v, u) ==
  \/ u = v \/ u = Idle
  \/ /\ u.tok = v.tok /\ u.eff = v.eff /\ (u.pc = "run" => v.pc = "run")
     /\ u.by # "none" => u.pc \in {"start", "load", "run"}
     /\ u.pc \in Sending =>
          \/ v.pc \in Sending /\ u.res = v.res
          \/ u.res \in Outcomes \ {"succeeded"} /\ (u.eff => u.res # "retryable_failure")

\* The record of a worker without a job.
LEMMA IdleFields ==
  Idle \in WorkRec /\ Idle.pc = "idle" /\ Idle.tok = NoTok /\ Idle.by = "none"
BY DEF Idle, WorkRec, Phases

\* The types of the workers' side of the state.
LEMMA Staff ==
  ASSUME WholeInv
  PROVE  wk \in [Runners -> WorkRec] /\ hist \in [Tokens -> PastRec]
BY DEF WholeInv, RuntimeTypeOK, WorkRec, PastRec

\* A busy worker's job and token.
LEMMA Busy ==
  ASSUME WholeInv, NEW w \in Runners, wk[w].pc # "idle"
  PROVE  /\ wk[w].job \in AllJobs /\ wk[w].tok \in Tokens /\ wk[w].tok <= claims
         /\ wk[w].tok # NoTok /\ Swept[wk[w].job] \in JobRec
<1>1. WorkJobRec(wk[w], job, claims) /\ Swept \in [AllJobs -> JobRec] /\ claims \in Nat
  BY Given DEF WorkJob
<1>2. wk[w].tok \in Tokens \cup {NoTok} BY Staff DEF WorkRec
<1> QED BY <1>1, <1>2 DEF WorkJobRec, NoTok

\* A record that is neither claimed nor finished: its owner and the token of
\* its last result stay or vanish.
Frees(m, s) ==
  /\ (s.own = m.own /\ s.org = m.org) \/ s.own = NoTok
  /\ s.fin = m.fin \/ s.fin = NoTok

\* A worker that goes on stays in line with the records.
LEMMA MovedRec ==
  ASSUME NEW v, NEW u, NEW J, NEW K, NEW c \in Nat, WorkJobRec(v, J, c), Moves(v, u),
         \A i \in AllJobs : Frees(J[i], K[i])
  PROVE  WorkJobRec(u, K, c)
<1>1. CASE u = Idle BY <1>1, IdleFields DEF WorkJobRec, Unsent
<1>2. CASE u # Idle
  <2>1. /\ u.pc # "idle" /\ v.pc # "idle" /\ u.job = v.job /\ u.tok = v.tok
        /\ u.eff = v.eff /\ (u.pc \in Unsent => v.pc \in Unsent)
    BY <1>2 DEF Moves, WorkJobRec
  <2>2. u.job \in AllJobs /\ u.tok \in 1..c /\ u.tok # NoTok
    BY <2>1 DEF WorkJobRec, NoTok
  <2>3. ASSUME NEW j \in AllJobs, K[j].own = u.tok
        PROVE  u.job = j /\ u.eff = (K[j].org \in Effectful)
    BY <2>1, <2>2, <2>3 DEF WorkJobRec, Frees
  <2>4. u.pc \in Unsent => \A j \in AllJobs : K[j].fin # u.tok
    BY <2>1, <2>2 DEF WorkJobRec, Frees
  <2> QED BY <2>1, <2>2, <2>3, <2>4 DEF WorkJobRec
<1> QED BY <1>1, <1>2

\* Workers that go on stay in line with the records, each under its own token.
LEMMA MovedWork ==
  ASSUME WholeInv, UNCHANGED claims, \A w \in Runners : Moves(wk[w], wk'[w]),
         \A i \in AllJobs : Frees(job[i], job'[i])
  PROVE  WorkJob(wk', job', claims')
<1>1. ASSUME NEW w \in Runners PROVE WorkJobRec(wk'[w], job', claims')
  BY <1>1, Given, MovedRec DEF WorkJob
<1>2. ASSUME NEW w \in Runners PROVE wk'[w].tok = wk[w].tok \/ wk'[w].tok = NoTok
  BY <1>2, IdleFields DEF Moves
<1> QED BY <1>1, <1>2, Given DEF WorkJob

\* Workers that keep to what happened stay in line with the history.
LEMMA KeptWork ==
  ASSUME WholeInv, Trims(hist, hist'), \A w \in Runners : Keeps(wk[w], wk'[w])
  PROVE  WorkHist(wk', hist')
<1> SUFFICES ASSUME NEW w \in Runners PROVE WorkHistRec(wk'[w], hist')
  BY DEF WorkHist
<1>0. WorkHistRec(wk[w], hist) BY Given DEF WorkHist
<1>1. CASE wk'[w] = Idle BY <1>1, IdleFields DEF WorkHistRec
<1>2. CASE wk[w].pc = "idle" /\ wk'[w] # Idle
  <2>1. wk[w] = Idle BY <1>2, Given DEF WorkJob, WorkJobRec
  <2>2. wk'[w].pc # "run" BY <1>2, <2>1, IdleFields DEF Keeps
  <2> QED BY <1>0, <1>2, <2>1, <2>2, IdleFields DEF WorkHistRec, Keeps, Sending
<1>3. CASE wk[w].pc # "idle" /\ wk'[w] # Idle
  <2>1. wk[w].tok \in Tokens BY <1>3, Busy
  <2>2. hist'[wk[w].tok].ev = hist[wk[w].tok].ev BY <2>1 DEF Trims
  <2> QED BY <1>0, <1>3, <2>2 DEF WorkHistRec, Keeps, Sending
<1> QED BY <1>1, <1>2, <1>3

-----------------------------------------------------------------------------
(* The runtime's actions.                                                  *)

\* A calm command frees owners and results at most.
LEMMA CalmFrees ==
  ASSUME Calmly PROVE UNCHANGED claims /\ \A i \in AllJobs : Frees(job[i], job'[i])
BY DEF Calmly, Traces, Frees

\* One worker goes on over a calm command.
LEMMA WorkerStep ==
  ASSUME WholeInv, TypeOK', Calmly, UNCHANGED hist, NEW w \in Runners,
         NEW u \in WorkRec, Becomes(w, u), Moves(wk[w], u), Keeps(wk[w], u)
  PROVE  RuntimeTypeOK' /\ RunInv'
<1>1. wk \in [Runners -> WorkRec] /\ hist \in [Tokens -> PastRec] BY Staff
<1>2. ASSUME NEW x \in Runners PROVE wk'[x] = IF x = w THEN u ELSE wk[x]
  BY <1>1 DEF Becomes
<1>3. RuntimeTypeOK' BY <1>1 DEF Becomes, RuntimeTypeOK, WorkRec, PastRec
<1>4. \A x \in Runners : Moves(wk[x], wk'[x]) /\ Keeps(wk[x], wk'[x])
  BY <1>2 DEF Moves, Keeps
<1>5. Trims(hist, hist') BY DEF Trims
<1> QED BY <1>3, <1>4, <1>5, CalmHist, CalmFrees, MovedWork, KeptWork DEF RunInv

\* A worker gives its job up, whatever became of it.
LEMMA DropStep ==
  ASSUME WholeInv, TypeOK', Calmly, UNCHANGED hist, NEW w \in Runners, Drop(w)
  PROVE  RuntimeTypeOK' /\ RunInv'
BY IdleFields, WorkerStep DEF Drop, Moves, Keeps

\* Nobody moves.
LEMMA StillStep ==
  ASSUME WholeInv, TypeOK', Calmly, UNCHANGED <<wk, hist>>
  PROVE  RuntimeTypeOK' /\ RunInv'
<1>1. Trims(hist, hist') /\ RuntimeTypeOK' BY DEF Trims, WholeInv, RuntimeTypeOK
<1>2. \A x \in Runners : Moves(wk[x], wk'[x]) /\ Keeps(wk[x], wk'[x])
  BY DEF Moves, Keeps
<1> QED BY <1>1, <1>2, CalmHist, CalmFrees, MovedWork, KeptWork DEF RunInv

\* What Report writes.
LEMMA ReportFields ==
  ASSUME NEW v \in WorkRec, NEW res \in Outcomes
  PROVE  LET u == [v EXCEPT !.pc = "fin", !.res = res, !.by = "none"] IN
         /\ u \in WorkRec /\ u.pc = "fin" /\ u.res = res /\ u.by = "none"
         /\ u.job = v.job /\ u.tok = v.tok /\ u.eff = v.eff
BY DEF WorkRec, Phases

\* An execution that ends on its own account never calls an effect safe.
LEMMA ReportStep ==
  ASSUME WholeInv, TypeOK', Calmly, UNCHANGED hist, NEW w \in Runners, Executing(w),
         NEW res, Report(w, res), res = Doubt(w) \/ res = "permanent_failure"
  PROVE  RuntimeTypeOK' /\ RunInv'
<1> DEFINE u == [wk[w] EXCEPT !.pc = "fin", !.res = res, !.by = "none"]
<1>0. wk[w] \in WorkRec BY Staff
<1>1. res \in Outcomes \ {"succeeded"} /\ (wk[w].eff => res # "retryable_failure")
  BY DEF Doubt, Outcomes
<1>2. /\ u \in WorkRec /\ u.pc = "fin" /\ u.res = res /\ u.by = "none"
      /\ u.job = wk[w].job /\ u.tok = wk[w].tok /\ u.eff = wk[w].eff
  BY <1>0, <1>1, ReportFields
<1>3. Becomes(w, u) BY DEF Report
<1> HIDE DEF u
<1>4. wk[w].pc \in Unsent /\ wk[w].pc # "idle" BY DEF Executing, Unsent
<1>5. Moves(wk[w], u) BY <1>2, <1>4 DEF Moves
<1>6. Keeps(wk[w], u) BY <1>1, <1>2 DEF Keeps
<1> QED BY <1>2, <1>3, <1>5, <1>6, WorkerStep

\* A worker changes only its phase, its revision or its heartbeat.
LEMMA PhaseStep ==
  ASSUME WholeInv, TypeOK', Calmly, UNCHANGED hist, NEW w \in Runners,
         wk[w].pc # "idle", NEW p \in Phases \ {"idle"}, NEW r \in Nat,
         NEW b \in {"none", "exec", "beat"},
         Becomes(w, [wk[w] EXCEPT !.pc = p, !.rev = r, !.by = b]),
         p \in Unsent => wk[w].pc \in Unsent, p = "run" => wk[w].pc = "run",
         p \in Sending => wk[w].pc \in Sending, b # "none" => Executing(w) /\ p = wk[w].pc
  PROVE  RuntimeTypeOK' /\ RunInv'
<1> DEFINE u == [wk[w] EXCEPT !.pc = p, !.rev = r, !.by = b]
<1>0. wk[w] \in WorkRec BY Staff
<1>1. /\ u \in WorkRec /\ u.pc = p /\ u.res = wk[w].res /\ u.by = b
      /\ u.job = wk[w].job /\ u.tok = wk[w].tok /\ u.eff = wk[w].eff
  BY <1>0 DEF WorkRec
<1> HIDE DEF u
<1>2. Moves(wk[w], u) /\ Keeps(wk[w], u) BY <1>1 DEF Moves, Keeps, Executing
<1> QED BY <1>1, <1>2, WorkerStep DEF u

\* A claim disturbs no worker that already has a token.
LEMMA OthersAtClaim ==
  ASSUME WholeInv, NEW j \in AllJobs, Taking(j), NEW w \in Runners
  PROVE  WorkJobRec(wk[w], job', claims')
<1>0. WorkJobRec(wk[w], job, claims) /\ claims \in Nat /\ claims' = claims + 1
  BY Given DEF WorkJob, Taking
<1>1. CASE wk[w].pc = "idle"
  BY <1>0, <1>1, IdleFields DEF WorkJobRec, Unsent
<1>2. CASE wk[w].pc # "idle"
  <2>1. wk[w].job \in AllJobs /\ wk[w].tok \in 1..claims /\ wk[w].tok # NoTok
    BY <1>0, <1>2 DEF WorkJobRec, NoTok
  <2>2. wk[w].tok \in 1..claims' /\ wk[w].tok # claims + 1 BY <1>0, <2>1
  <2>3. ASSUME NEW i \in AllJobs, i # j PROVE Frees(job[i], job'[i])
    BY <2>3 DEF Taking, Traces, Frees
  <2>4. ASSUME NEW i \in AllJobs, job'[i].own = wk[w].tok
        PROVE  wk[w].job = i /\ wk[w].eff = (job'[i].org \in Effectful)
    BY <1>0, <2>1, <2>2, <2>3, <2>4 DEF WorkJobRec, Frees, Taking
  <2>5. ASSUME wk[w].pc \in Unsent, NEW i \in AllJobs PROVE job'[i].fin # wk[w].tok
    BY <1>0, <2>1, <2>3, <2>5 DEF WorkJobRec, Frees, Taking
  <2> QED BY <1>2, <2>1, <2>2, <2>4, <2>5 DEF WorkJobRec
<1> QED BY <1>1, <1>2

\* The worker whose claim is answered: its token is new to every record.
LEMMA ClaimantRec ==
  ASSUME WholeInv, TypeOK', NEW j \in AllJobs, Taking(j), NEW k \in AllJobs,
         job'[k].own = claims', NEW u, u.pc = "start", u.job = k, u.tok = claims',
         u.eff = (job'[k].org \in Effectful)
  PROVE  WorkJobRec(u, job', claims')
<1>0. claims \in Nat /\ claims' = claims + 1 BY Given DEF Taking
<1>1. ASSUME NEW i \in AllJobs, i # j
      PROVE  job'[i].own # claims' /\ job'[i].fin # claims'
  <2>1. Frees(job[i], job'[i]) BY <1>1 DEF Taking, Traces, Frees
  <2>2. job[i].own <= claims /\ job[i].fin <= claims
    BY Given DEF WholeInv, ImageInv, JobHist, JobHistRec
  <2>3. job[i] \in JobRec BY Given
  <2>4. job[i].own # claims + 1 /\ job[i].fin # claims + 1 /\ NoTok # claims + 1
    BY <1>0, <2>2, <2>3 DEF JobRec, NoTok
  <2> QED BY <1>0, <2>1, <2>4 DEF Frees
<1>2. job'[j].fin # claims' BY <1>0 DEF Taking, NoTok
<1>3. k = j BY <1>1
<1>4. u.tok \in 1..claims' BY <1>0
<1> QED BY <1>1, <1>2, <1>3, <1>4 DEF WorkJobRec

\* _worker's claim.
LEMMA ClaimJobStep ==
  ASSUME WholeInv, TypeOK', NEW w \in Runners, ClaimJob(w)
  PROVE  RuntimeTypeOK' /\ RunInv'
<1>0. UNCHANGED hist /\ TypeOK BY Given DEF ClaimJob
<1>1. PICK j \in AllJobs : Taking(j) BY <1>0, ClaimTakes DEF ClaimJob
<1>2. JobHist(job', hist', claims') BY <1>0, <1>1, TakingHist
<1>3. wk \in [Runners -> WorkRec] /\ hist \in [Tokens -> PastRec] BY Staff
<1>4. claims' \in Tokens /\ claims' = claims + 1 /\ claims \in Nat
  <2>1. claims < MaxClaims /\ claims' = claims + 1 /\ claims \in Nat
    BY <1>1, Given DEF Taking
  <2>2. MaxClaims \in Nat BY StoreAssumption DEF StoreAssumption
  <2> QED BY <2>1, <2>2 DEF Tokens
<1>5. CASE UNCHANGED wk
  <2>1. WorkJob(wk', job', claims') BY <1>1, <1>5, OthersAtClaim, Given DEF WorkJob
  <2>2. WorkHist(wk', hist') BY <1>0, <1>5, Given
  <2>3. RuntimeTypeOK' BY <1>0, <1>5 DEF WholeInv, RuntimeTypeOK
  <2> QED BY <1>2, <2>1, <2>2, <2>3 DEF RunInv
<1>6. ASSUME NEW k \in AllJobs, job'[k].own = claims',
             Becomes(w, [Idle EXCEPT !.pc = "start", !.job = k, !.tok = claims',
                                     !.eff = job'[k].org \in Effectful])
      PROVE  RuntimeTypeOK' /\ RunInv'
  <2> DEFINE u == [Idle EXCEPT !.pc = "start", !.job = k, !.tok = claims',
                               !.eff = job'[k].org \in Effectful]
  <2>1. /\ u.pc = "start" /\ u.job = k /\ u.tok = claims' /\ u.by = "none"
        /\ u.eff = (job'[k].org \in Effectful)
    BY DEF Idle
  <2>2. u \in WorkRec
    <3>1. (job'[k].org \in Effectful) \in BOOLEAN OBVIOUS
    <3>2. "start" \in Phases BY DEF Phases
    <3> QED BY <1>4, <3>1, <3>2, IdleFields DEF WorkRec
  <2>3. wk' = [wk EXCEPT ![w] = u] BY <1>6 DEF Becomes
  <2> HIDE DEF u
  <2>4. \A x \in Runners : wk'[x] = IF x = w THEN u ELSE wk[x] BY <1>3, <2>3
  <2>5. RuntimeTypeOK' BY <1>0, <1>3, <2>2, <2>3 DEF RuntimeTypeOK, WorkRec, PastRec
  <2>6. WorkJobRec(u, job', claims') BY <1>1, <1>6, <2>1, ClaimantRec
  <2>7. ASSUME NEW x \in Runners PROVE wk[x].tok # claims'
    <3>1. wk[x].pc = "idle" => wk[x].tok = NoTok
      BY Given, IdleFields DEF WorkJob, WorkJobRec
    <3>2. wk[x].pc # "idle" => wk[x].tok \in 1..claims BY Given DEF WorkJob, WorkJobRec
    <3> QED BY <1>4, <3>1, <3>2 DEF NoTok
  <2>8. WorkJob(wk', job', claims')
    <3>1. ASSUME NEW x \in Runners PROVE WorkJobRec(wk'[x], job', claims')
      BY <1>1, <2>4, <2>6, OthersAtClaim
    <3>2. ASSUME NEW x \in Runners, NEW y \in Runners, wk'[x].tok = wk'[y].tok,
                 wk'[x].tok # NoTok
          PROVE  x = y
      BY <2>1, <2>4, <2>7, <3>2, Given DEF WorkJob
    <3> QED BY <3>1, <3>2 DEF WorkJob
  <2>9. WorkHist(wk', hist')
    <3>1. WorkHistRec(u, hist) BY <2>1 DEF WorkHistRec
    <3> QED BY <1>0, <2>4, <3>1, Given DEF WorkHist
  <2> QED BY <1>2, <2>5, <2>8, <2>9 DEF RunInv
<1> QED BY <1>5, <1>6 DEF ClaimJob

\* checkpoint()'s read.
LEMMA CheckReadStep ==
  ASSUME WholeInv, TypeOK', NEW w \in Runners, NEW by \in {"exec", "beat"}, CheckRead(w, by)
  PROVE  RuntimeTypeOK' /\ RunInv'
<1>0. Executing(w) /\ UNCHANGED hist /\ Calmly /\ wk[w].pc # "idle" /\ wk[w] \in WorkRec
  BY Given, SweepCalm, Staff DEF CheckRead, Executing
<1>1. CASE Becomes(w, [wk[w] EXCEPT !.by = by, !.rev = Mine(w).rev])
  <2>1. Mine(w).rev \in Nat BY <1>0, Busy DEF Mine, JobRec
  <2>2. [wk[w] EXCEPT !.by = by, !.rev = Mine(w).rev]
          = [wk[w] EXCEPT !.pc = wk[w].pc, !.rev = Mine(w).rev, !.by = by]
    BY <1>0 DEF WorkRec
  <2>3. wk[w].pc \in Phases \ {"idle"} BY <1>0 DEF WorkRec
  <2> QED BY <1>0, <1>1, <2>1, <2>2, <2>3, PhaseStep
<1>2. CASE Drop(w) BY <1>0, <1>2, DropStep
<1>3. CASE \E res : Report(w, res) /\ (res = Doubt(w) \/ res = "permanent_failure")
  BY <1>0, <1>3, ReportStep
<1> QED BY <1>1, <1>2, <1>3 DEF CheckRead

\* checkpoint()'s heartbeat, its refusal, and an execution that is cut short.
LEMMA CheckStep ==
  ASSUME WholeInv, TypeOK', NEW w \in Runners,
         CheckBeat(w) \/ CheckRefused(w) \/ Aborts(w) \/ Refuses(w)
  PROVE  RuntimeTypeOK' /\ RunInv'
<1>0. UNCHANGED hist /\ TypeOK /\ wk[w] \in WorkRec
  BY Given, Staff DEF CheckBeat, CheckRefused, Aborts, Refuses
<1>1. Executing(w) /\ wk[w].pc # "idle" /\ wk[w].job \in AllJobs
  <2>1. wk[w].by # "none" => Executing(w) BY Given DEF WorkHist, WorkHistRec, Executing
  <2> QED BY <2>1, Busy DEF CheckBeat, CheckRefused, Aborts, Refuses, Executing
<1>2. Calmly
  BY <1>0, <1>1, SweepCalm, HeartbeatCalm DEF CheckBeat, CheckRefused, Aborts, Refuses
<1>3. CASE CheckBeat(w)
  <2> DEFINE p == IF wk[w].pc = "start" /\ wk[w].by = "exec" THEN "load" ELSE wk[w].pc
  <2>1. [wk[w] EXCEPT !.by = "none", !.pc = p]
          = [wk[w] EXCEPT !.pc = p, !.rev = wk[w].rev, !.by = "none"]
    BY <1>0 DEF WorkRec
  <2>2. Becomes(w, [wk[w] EXCEPT !.by = "none", !.pc = p]) BY <1>3 DEF CheckBeat
  <2>3. /\ p \in Phases \ {"idle"} /\ (p \in Unsent => wk[w].pc \in Unsent)
        /\ (p = "run" => wk[w].pc = "run") /\ (p \in Sending => wk[w].pc \in Sending)
    BY <1>0, <1>1 DEF WorkRec, Phases, Unsent, Sending, Executing
  <2>4. wk[w].rev \in Nat BY <1>0 DEF WorkRec
  <2> HIDE DEF p
  <2> QED BY <1>0, <1>1, <1>2, <2>1, <2>2, <2>3, <2>4, PhaseStep
<1>4. CASE ~CheckBeat(w)
  BY <1>0, <1>1, <1>2, <1>4, ReportStep DEF CheckRefused, Aborts, Refuses
<1> QED BY <1>3, <1>4

\* A result not yet sent is recorded nowhere, before and after a sweep.
LEMMA Unrecorded ==
  ASSUME WholeInv, NEW w \in Runners, wk[w].pc \in Unsent, NEW i \in AllJobs
  PROVE  job[i].fin # wk[w].tok /\ Swept[i].fin # wk[w].tok
<1>1. wk[w].pc # "idle" BY DEF Unsent
<1>2. wk[w].tok # NoTok BY <1>1, Busy
<1>3. job[i].fin # wk[w].tok BY Given DEF WorkJob, WorkJobRec
<1>4. Swept[i].fin = job[i].fin \/ Swept[i].fin = NoTok
  BY Given, SweptTraces DEF Traces
<1> QED BY <1>2, <1>3, <1>4

\* A worker rewrites the history of its own token only: the others do not mind.
LEMMA RewriteStep ==
  ASSUME WholeInv, TypeOK', Calmly, NEW w \in Runners, wk[w].pc # "idle",
         NEW u \in WorkRec, Becomes(w, u), Moves(wk[w], u),
         NEW e \in PastRec, hist' = [hist EXCEPT ![wk[w].tok] = e],
         WorkHistRec(u, hist'), JobHist(job', hist', claims')
  PROVE  RuntimeTypeOK' /\ RunInv'
<1>1. wk \in [Runners -> WorkRec] /\ hist \in [Tokens -> PastRec] BY Staff
<1>2. wk' = [wk EXCEPT ![w] = u] BY DEF Becomes
<1>3. RuntimeTypeOK' BY <1>1, <1>2, Busy DEF RuntimeTypeOK, WorkRec, PastRec
<1>4. \A x \in Runners : wk'[x] = IF x = w THEN u ELSE wk[x] BY <1>1, <1>2
<1>5. \A x \in Runners : Moves(wk[x], wk'[x]) BY <1>4 DEF Moves
<1>6. WorkJob(wk', job', claims') BY <1>5, CalmFrees, MovedWork
<1>7. ASSUME NEW x \in Runners, x # w PROVE WorkHistRec(wk[x], hist')
  <2>1. WorkHistRec(wk[x], hist) BY Given DEF WorkHist
  <2>2. CASE wk[x].pc = "idle" BY <2>1, <2>2 DEF WorkHistRec
  <2>3. CASE wk[x].pc # "idle"
    <3>1. wk[x].tok \in Tokens /\ wk[x].tok # NoTok BY <2>3, Busy
    <3>2. wk[x].tok # wk[w].tok BY <1>7, <3>1, Given DEF WorkJob
    <3>3. hist'[wk[x].tok] = hist[wk[x].tok] BY <1>1, <3>1, <3>2
    <3> QED BY <2>1, <3>3 DEF WorkHistRec
  <2> QED BY <2>2, <2>3
<1>8. WorkHist(wk', hist') BY <1>4, <1>7 DEF WorkHist
<1> QED BY <1>3, <1>6, <1>8 DEF RunInv

\* load_payload, and the start of the handler.
LEMMA LoadStep ==
  ASSUME WholeInv, TypeOK', NEW w \in Runners, Load(w)
  PROVE  RuntimeTypeOK' /\ RunInv'
<1> DEFINE v == wk[w]
           e == [of |-> v.job, ev |-> "started"]
           u == [v EXCEPT !.pc = "run"]
<1>0. /\ Calmly /\ v.pc = "load" /\ v \in WorkRec /\ job' = Swept /\ claims' = claims
      /\ Executing(w) /\ v.pc # "idle" /\ v.pc \in Unsent
  BY Given, SweepCalm, Staff DEF Load, Sweep, Commit, Executing, Unsent
<1>1. v.job \in AllJobs /\ v.tok \in Tokens /\ v.tok <= claims BY <1>0, Busy
<1>2. CASE /\ Mine(w).st = "running" /\ Mine(w).own = v.tok
           /\ Becomes(w, u) /\ hist' = [hist EXCEPT ![v.tok] = e]
  <2>1. e \in PastRec /\ hist \in [Tokens -> PastRec] BY <1>1, Staff DEF PastRec
  <2>2. /\ u \in WorkRec /\ u.pc = "run" /\ u.job = v.job /\ u.tok = v.tok
        /\ u.eff = v.eff
    BY <1>0 DEF WorkRec, Phases
  <2>3. hist'[v.tok] = e /\ \A t \in Tokens \ {v.tok} : hist'[t] = hist[t]
    BY <1>1, <1>2, <2>1
  <2>4. e.of = v.job /\ e.ev = "started" OBVIOUS
  <2> HIDE DEF u, e
  <2>5. WorkHistRec(u, hist') BY <2>2, <2>3, <2>4 DEF WorkHistRec
  <2>6. Moves(v, u) BY <1>0, <2>2 DEF Moves
  <2>7. ASSUME NEW i \in AllJobs PROVE JobHistRec(job'[i], i, hist', claims')
    <3>1. Swept[i] \in JobRec /\ claims \in Nat /\ JobHistRec(Swept[i], i, hist, claims)
      BY Given, SweptHist
    <3>2. Swept[i].fin # v.tok BY <1>0, Unrecorded
    <3>3. i = v.job => Swept[i].st = "running" /\ Swept[i].own = v.tok
      BY <1>2 DEF Mine
    <3>4. JobHistRec(Swept[i], i, hist', claims)
      BY <1>1, <2>3, <2>4, <3>1, <3>2, <3>3, StartedRec
    <3> QED BY <1>0, <3>4
  <2>8. ASSUME NEW t \in Tokens, hist'[t].of # NoJob PROVE t <= claims'
    BY <1>0, <1>1, <2>3, <2>8, Given DEF JobHist
  <2> QED BY <1>0, <1>2, <2>1, <2>2, <2>5, <2>6, <2>7, <2>8, RewriteStep DEF JobHist
<1>3. CASE UNCHANGED hist /\ (Report(w, Doubt(w)) \/ Report(w, "permanent_failure"))
  BY <1>0, <1>3, ReportStep
<1> QED BY <1>2, <1>3 DEF Load

\* The handler returns.
LEMMA HandlerReturnsStep ==
  ASSUME WholeInv, TypeOK', NEW w \in Runners, NEW out \in Outcomes, HandlerReturns(w, out)
  PROVE  RuntimeTypeOK' /\ RunInv'
<1> DEFINE v == wk[w]
           e == [hist[v.tok] EXCEPT !.ev = out]
           u == [v EXCEPT !.pc = "fin", !.res = out, !.by = "none"]
<1>0. /\ Calmly /\ v.pc = "run" /\ v \in WorkRec /\ UNCHANGED storeVars
      /\ v.pc # "idle" /\ v.pc \in Unsent
  BY Given, SweepCalm, Staff DEF HandlerReturns, Unsent
<1>1. v.tok \in Tokens BY <1>0, Busy
<1>2. hist \in [Tokens -> PastRec] /\ hist[v.tok].ev = "started"
  BY <1>0, Staff, Given DEF WorkHist, WorkHistRec
<1>3. e \in PastRec /\ e.of = hist[v.tok].of /\ e.ev = out BY <1>1, <1>2 DEF PastRec
<1>4. hist' = [hist EXCEPT ![v.tok] = e] BY DEF HandlerReturns
<1>5. hist'[v.tok] = e /\ \A t \in Tokens \ {v.tok} : hist'[t] = hist[t]
  BY <1>1, <1>2, <1>4
<1>6. /\ u \in WorkRec /\ u.pc = "fin" /\ u.res = out /\ u.by = "none"
      /\ u.job = v.job /\ u.tok = v.tok /\ u.eff = v.eff
  BY <1>0, ReportFields
<1>7. Becomes(w, u) BY DEF HandlerReturns, Report
<1> HIDE DEF u, e
<1>8. WorkHistRec(u, hist') BY <1>3, <1>5, <1>6 DEF WorkHistRec
<1>9. Moves(v, u) BY <1>0, <1>6 DEF Moves
<1>10. ASSUME NEW i \in AllJobs PROVE JobHistRec(job'[i], i, hist', claims')
  <2>1. job[i] \in JobRec /\ claims \in Nat /\ JobHistRec(job[i], i, hist, claims)
    BY Given DEF JobHist
  <2>2. job[i].fin # v.tok BY <1>0, Unrecorded
  <2>3. JobHistRec(job[i], i, hist', claims)
    BY <1>1, <1>2, <1>3, <1>5, <2>1, <2>2, ReturnedRec
  <2> QED BY <1>0, <2>3 DEF storeVars
<1>11. ASSUME NEW t \in Tokens, hist'[t].of # NoJob PROVE t <= claims'
  BY <1>0, <1>3, <1>5, <1>11, Given DEF JobHist, storeVars
<1> QED BY <1>0, <1>3, <1>4, <1>6, <1>7, <1>8, <1>9, <1>10, <1>11, RewriteStep
        DEF JobHist

\* _finish_claim's read.
LEMMA FinishReadStep ==
  ASSUME WholeInv, TypeOK', NEW w \in Runners, FinishRead(w)
  PROVE  RuntimeTypeOK' /\ RunInv'
<1>0. UNCHANGED hist /\ Calmly /\ wk[w].pc = "fin" /\ wk[w].pc # "idle" /\ wk[w] \in WorkRec
  BY Given, SweepCalm, Staff DEF FinishRead
<1>1. CASE Drop(w) BY <1>0, <1>1, DropStep
<1>2. CASE Becomes(w, [wk[w] EXCEPT !.pc = "write", !.rev = Mine(w).rev])
  <2>1. Mine(w).rev \in Nat BY <1>0, Busy DEF Mine, JobRec
  <2>2. wk[w].by = "none" BY <1>0, Given DEF WorkHist, WorkHistRec
  <2>3. [wk[w] EXCEPT !.pc = "write", !.rev = Mine(w).rev]
          = [wk[w] EXCEPT !.pc = "write", !.rev = Mine(w).rev, !.by = "none"]
    BY <1>0, <2>2 DEF WorkRec
  <2>4. PICK p \in Phases \ {"idle"} : p = "write" BY DEF Phases
  <2>5. wk[w].pc \in Unsent /\ wk[w].pc \in Sending BY <1>0 DEF Unsent, Sending
  <2>6. Becomes(w, [wk[w] EXCEPT !.pc = p, !.rev = Mine(w).rev, !.by = "none"])
    BY <1>2, <2>3, <2>4
  <2> QED BY <1>0, <2>1, <2>4, <2>5, <2>6, PhaseStep
<1> QED BY <1>1, <1>2 DEF FinishRead

\* A second try of _finish_claim's write.
LEMMA AgainFields ==
  ASSUME NEW v \in WorkRec
  PROVE  LET u == [v EXCEPT !.pc = "again"] IN
         /\ u \in WorkRec /\ u.pc = "again" /\ u.res = v.res /\ u.by = v.by
         /\ u.job = v.job /\ u.tok = v.tok /\ u.eff = v.eff
BY DEF WorkRec, Phases

\* _finish_claim's write when it changes nothing, and a crash.
LEMMA FinishUnappliedStep ==
  ASSUME WholeInv, TypeOK', NEW w \in Runners, FinishUnapplied(w) \/ Crash(w)
  PROVE  RuntimeTypeOK' /\ RunInv'
<1>0. UNCHANGED hist /\ Calmly /\ wk[w].pc # "idle" /\ wk[w] \in WorkRec
  BY Given, SweepCalm, Staff DEF FinishUnapplied, Crash
<1>1. CASE Drop(w) BY <1>0, <1>1, DropStep
<1>2. CASE wk[w].pc = "write" /\ Becomes(w, [wk[w] EXCEPT !.pc = "again"])
  <2> DEFINE u == [wk[w] EXCEPT !.pc = "again"]
  <2>1. /\ u \in WorkRec /\ u.pc = "again" /\ u.res = wk[w].res /\ u.by = wk[w].by
        /\ u.job = wk[w].job /\ u.tok = wk[w].tok /\ u.eff = wk[w].eff
    BY <1>0, AgainFields
  <2>2. wk[w].by = "none" BY <1>2, Given DEF WorkHist, WorkHistRec
  <2> HIDE DEF u
  <2>3. Moves(wk[w], u) /\ Keeps(wk[w], u)
    BY <1>0, <1>2, <2>1, <2>2 DEF Moves, Keeps, Unsent, Sending
  <2> QED BY <1>0, <1>2, <2>1, <2>3, WorkerStep DEF u
<1> QED BY <1>1, <1>2 DEF FinishUnapplied, Crash

\* _finish_claim's write when it is applied: every other worker's result is
\* still unrecorded, for it has another token.
LEMMA EndingWork ==
  ASSUME WholeInv, NEW w \in Runners, wk[w].pc # "idle", NEW j \in AllJobs, NEW out,
         Ending(j, wk[w].tok, out), NEW u, u.pc \notin Unsent, Moves(wk[w], u),
         \A x \in Runners : wk'[x] = IF x = w THEN u ELSE wk[x]
  PROVE  WorkJob(wk', job', claims')
<1> DEFINE K == [i \in AllJobs |-> [own |-> job'[i].own, org |-> job'[i].org,
                                    fin |-> IF i = j THEN NoTok ELSE job'[i].fin]]
<1>0. wk[w].tok # NoTok BY Busy
<1>1. claims' = claims /\ claims \in Nat /\ job'[j].own = NoTok /\ job'[j].fin = wk[w].tok
  BY Given DEF Ending
<1>2. ASSUME NEW i \in AllJobs PROVE Frees(job[i], K[i])
  BY <1>1 DEF Ending, Traces, Frees
<1>3. ASSUME NEW x \in Runners PROVE WorkJobRec(wk'[x], job', claims')
  <2>1. Moves(wk[x], wk'[x]) /\ WorkJobRec(wk[x], job, claims)
    BY Given DEF Moves, WorkJob
  <2>2. WorkJobRec(wk'[x], K, claims)
    <3> HIDE DEF K
    <3> QED BY <1>1, <1>2, <2>1, MovedRec
  <2>3. ASSUME wk'[x].pc \in Unsent, NEW i \in AllJobs PROVE job'[i].fin # wk'[x].tok
    <3>1. x # w /\ wk'[x] = wk[x] BY <2>3
    <3>2. CASE i = j BY <1>0, <1>1, <3>1, <3>2, Given DEF WorkJob
    <3>3. CASE i # j
      <4>1. K[i].fin # wk'[x].tok BY <2>2, <2>3 DEF WorkJobRec
      <4> QED BY <3>3, <4>1
    <3> QED BY <3>2, <3>3
  <2>4. ASSUME NEW i \in AllJobs, job'[i].own = wk'[x].tok, wk'[x].tok # NoTok
        PROVE  wk'[x].job = i /\ wk'[x].eff = (job'[i].org \in Effectful)
    BY <2>2, <2>4 DEF WorkJobRec
  <2> QED BY <1>1, <2>2, <2>3, <2>4 DEF WorkJobRec
<1>4. ASSUME NEW x \in Runners PROVE wk'[x].tok = wk[x].tok \/ wk'[x].tok = NoTok
  BY <1>4, IdleFields DEF Moves
<1> QED BY <1>3, <1>4, Given DEF WorkJob

\* A worker that is the owner of a job after the sweep owned it before, and
\* knows whether the job has an effect.
LEMMA OwnerKnows ==
  ASSUME WholeInv, NEW w \in Runners, wk[w].pc # "idle", NEW j \in AllJobs,
         Swept[j].own = wk[w].tok
  PROVE  wk[w].eff = (Swept[j].org \in Effectful)
<1>1. Traces(job[j], Swept[j]) BY Given, SweptTraces
<1>2. wk[w].tok # NoTok BY Busy
<1>3. job[j].own = wk[w].tok /\ job[j].org = Swept[j].org BY <1>1, <1>2 DEF Traces
<1> QED BY <1>2, <1>3, Given DEF WorkJob, WorkJobRec

\* _finish_claim's write when it is applied.
LEMMA FinishWriteStep ==
  ASSUME WholeInv, TypeOK', NEW w \in Runners, FinishWrite(w)
  PROVE  RuntimeTypeOK' /\ RunInv'
<1> DEFINE v == wk[w]
           a == [v EXCEPT !.pc = "again"]
<1>0. /\ v \in WorkRec /\ UNCHANGED hist /\ v.pc # "idle" /\ v.pc \in Sending
      /\ wk \in [Runners -> WorkRec] /\ hist \in [Tokens -> PastRec]
  BY Staff DEF FinishWrite, Sending
<1>1. v.job \in AllJobs /\ v.tok \in Tokens /\ v.tok <= claims /\ v.tok \in Nat
  BY <1>0, Busy, Names
<1>2. PICK d \in Nat : Finish(v.job, v.tok, v.rev, v.res, d)
  BY ConstTypes DEF FinishWrite
<1>3. Ending(v.job, v.tok, v.res) BY <1>1, <1>2, Given, FinishEnds
<1>4. WorkHistRec(v, hist) BY Given DEF WorkHist
<1>5. JobHist(job', hist', claims')
  <2>1. v.eff = (Swept[v.job].org \in Effectful)
    BY <1>0, <1>1, <1>3, OwnerKnows DEF Ending
  <2>2. Swept[v.job].org \in Effectful /\ v.res = "retryable_failure"
          => hist[v.tok].ev \in {"none", "retryable_failure"}
    BY <1>0, <1>4, <2>1 DEF WorkHistRec, Sending
  <2>3. v.res = "succeeded" => hist[v.tok].ev = "succeeded"
    BY <1>0, <1>4 DEF WorkHistRec, Sending
  <2> QED BY <1>0, <1>1, <1>3, <2>2, <2>3, EndingHist
<1>6. /\ a \in WorkRec /\ a.pc = "again" /\ a.res = v.res /\ a.by = v.by
      /\ a.job = v.job /\ a.tok = v.tok /\ a.eff = v.eff
  BY <1>0, AgainFields
<1>7. Becomes(w, Idle) \/ Becomes(w, a) BY DEF FinishWrite, Drop
<1>8. v.by = "none" BY <1>0, <1>4 DEF WorkHistRec, Sending
<1> HIDE DEF a
<1>9. PICK u \in WorkRec : Becomes(w, u) /\ u \in {Idle, a} BY <1>6, <1>7, IdleFields
<1>10. Moves(v, u) /\ Keeps(v, u) /\ u.pc \notin Unsent
  BY <1>0, <1>6, <1>8, <1>9, IdleFields DEF Moves, Keeps, Unsent
<1>11. \A x \in Runners : wk'[x] = IF x = w THEN u ELSE wk[x]
  BY <1>0, <1>9 DEF Becomes
<1>12. RuntimeTypeOK' BY <1>0, <1>9 DEF Becomes, RuntimeTypeOK, WorkRec, PastRec
<1>13. WorkJob(wk', job', claims') BY <1>0, <1>1, <1>3, <1>10, <1>11, EndingWork
<1>14. WorkHist(wk', hist')
  <2>1. \A x \in Runners : Keeps(wk[x], wk'[x]) BY <1>10, <1>11 DEF Keeps
  <2>2. Trims(hist, hist') BY <1>0 DEF Trims
  <2> QED BY <2>1, <2>2, KeptWork
<1> QED BY <1>5, <1>12, <1>13, <1>14 DEF RunInv

\* Producers and operators.
LEMMA OutsideStep ==
  ASSUME WholeInv, TypeOK', Outside PROVE RuntimeTypeOK' /\ RunInv'
<1>1. hist \in [Tokens -> PastRec] /\ wk' = wk /\ TypeOK BY Staff, Given DEF Outside
<1>2. ASSUME NEW t \in Tokens
      PROVE  hist'[t] = IF hist[t].of \in Renewed THEN [hist[t] EXCEPT !.of = NoJob]
                        ELSE hist[t]
  BY DEF Outside
<1>3. hist' \in [Tokens -> PastRec]
  <2>1. ASSUME NEW t \in Tokens PROVE hist'[t] \in PastRec BY <1>1, <1>2 DEF PastRec
  <2>2. hist' = [t \in Tokens |-> IF hist[t].of \in Renewed
                                  THEN [hist[t] EXCEPT !.of = NoJob] ELSE hist[t]]
    BY DEF Outside
  <2>3. hist' = [t \in Tokens |-> hist'[t]] BY <2>2
  <2> QED BY <2>1, <2>3
<1>4. Trims(hist, hist') BY <1>1, <1>2 DEF Trims, PastRec
<1>5. \A t \in Tokens : hist[t].of \in Renewed => hist'[t].of = NoJob
  BY <1>1, <1>2 DEF PastRec
<1>6. RuntimeTypeOK' BY <1>1, <1>3, Staff DEF RuntimeTypeOK, WorkRec, PastRec
<1>7. Calmly \/ \E j \in AllJobs : Admission(j)
  BY <1>1, OtherCalm, AdmitAdmits DEF Outside, Producer, Operator
<1>8. JobHist(job', hist', claims') BY <1>4, <1>5, <1>7, CalmHist, AdmissionHist
<1>9. UNCHANGED claims /\ \A i \in AllJobs : Frees(job[i], job'[i])
  BY <1>7, CalmFrees DEF Admission, Frees, Traces
<1>10. \A w \in Runners : Moves(wk[w], wk'[w]) /\ Keeps(wk[w], wk'[w])
  BY <1>1 DEF Moves, Keeps
<1> QED BY <1>4, <1>6, <1>8, <1>9, <1>10, MovedWork, KeptWork DEF RunInv

-----------------------------------------------------------------------------
(* The theorems.                                                           *)

\* Every call of a worker is a command of the queue.
LEMMA StoreStep == WholeInv /\ [RuntimeNext]_vars => [Next]_storeVars
<1> SUFFICES ASSUME WholeInv, [RuntimeNext]_vars PROVE [Next]_storeVars
  OBVIOUS
<1>1. CASE UNCHANGED vars BY <1>1 DEF vars, storeVars
<1>2. CASE Background \/ Outside BY <1>2 DEF Background, Outside, Next
<1>3. ASSUME NEW w \in Runners, Step(w) PROVE [Next]_storeVars
  <2>0. Serves[w] \in Lanes BY RuntimeAssumption DEF RuntimeAssumption
  <2>1. CASE Claim(Serves[w]) \/ ClaimNothing(Serves[w])
    BY <2>0, <2>1 DEF Next, Worker
  <2>2. CASE Sweep \/ UNCHANGED storeVars BY <2>2 DEF Next
  <2>3. ASSUME wk[w].by # "none", Heartbeat(wk[w].job, wk[w].tok, wk[w].rev)
        PROVE  Next
    <3>1. wk[w].pc # "idle" BY <2>3, Given DEF WorkHist, WorkHistRec
    <3>2. wk[w].job \in AllJobs BY <3>1, Busy
    <3>3. Swept[wk[w].job].own = wk[w].tok /\ Swept[wk[w].job].rev = wk[w].rev
      BY <2>3 DEF Heartbeat, Owns
    <3> QED BY <2>3, <3>2, <3>3 DEF Next, Worker
  <2>4. ASSUME FinishWrite(w) PROVE Next
    <3>1. wk[w].pc # "idle" /\ wk[w].pc \in {"fin", "write", "again"}
      BY <2>4 DEF FinishWrite
    <3>2. wk[w].job \in AllJobs /\ wk[w].res \in Outcomes
      BY <3>1, Busy, Given DEF WorkHist, WorkHistRec
    <3>3. PICK d \in Delays : Finish(wk[w].job, wk[w].tok, wk[w].rev, wk[w].res, d)
      BY <2>4, ConstTypes DEF FinishWrite
    <3>4. Swept[wk[w].job].own = wk[w].tok /\ Swept[wk[w].job].rev = wk[w].rev
      BY <3>3 DEF Finish, Owns
    <3> QED BY <3>2, <3>3, <3>4 DEF Next, Worker
  <2> QED BY <1>3, <2>1, <2>2, <2>3, <2>4
          DEF Step, ClaimJob, ClaimNull, CheckRead, CheckBeat, CheckRefused, Aborts,
              Refuses, Load, HandlerReturns, FinishRead, FinishUnapplied, Crash
<1> QED BY <1>1, <1>2, <1>3 DEF RuntimeNext

\* Every step of the runtime preserves the invariant.
LEMMA WholeStep == WholeInv /\ [RuntimeNext]_vars => WholeInv'
<1> SUFFICES ASSUME WholeInv, [RuntimeNext]_vars PROVE WholeInv'
  OBVIOUS
<1>1. [Next]_storeVars BY StoreStep
<1>2. Numbered' /\ TypeOK /\ TypeOK' BY <1>1, NumberedStep, Given DEF WholeInv, Numbered
<1>3. ImageInv' BY <1>1, <1>2, ImageStep DEF WholeInv
<1>4. RuntimeTypeOK' /\ RunInv'
  <2>1. CASE UNCHANGED vars BY <1>2, <2>1, SweepCalm, StillStep DEF vars, storeVars
  <2>2. CASE Background BY <1>2, <2>2, SweepCalm, StillStep DEF Background
  <2>3. CASE Outside BY <1>2, <2>3, OutsideStep
  <2>4. ASSUME NEW w \in Runners, Step(w) PROVE RuntimeTypeOK' /\ RunInv'
    <3>1. CASE ClaimJob(w) BY <1>2, <3>1, ClaimJobStep
    <3>2. CASE ClaimNull(w) BY <1>2, <3>2, ClaimNothingCalm, StillStep DEF ClaimNull
    <3>3. CASE \E by \in {"exec", "beat"} : CheckRead(w, by)
      BY <1>2, <3>3, CheckReadStep
    <3>4. CASE CheckBeat(w) \/ CheckRefused(w) \/ Aborts(w) \/ Refuses(w)
      BY <1>2, <3>4, CheckStep
    <3>5. CASE Load(w) BY <1>2, <3>5, LoadStep
    <3>6. CASE \E out \in Outcomes : HandlerReturns(w, out)
      BY <1>2, <3>6, HandlerReturnsStep
    <3>7. CASE FinishRead(w) BY <1>2, <3>7, FinishReadStep
    <3>8. CASE FinishWrite(w) BY <1>2, <3>8, FinishWriteStep
    <3>9. CASE FinishUnapplied(w) \/ Crash(w) BY <1>2, <3>9, FinishUnappliedStep
    <3> QED BY <2>4, <3>1, <3>2, <3>3, <3>4, <3>5, <3>6, <3>7, <3>8, <3>9 DEF Step
  <2> QED BY <2>1, <2>2, <2>3, <2>4 DEF RuntimeNext
<1> QED BY <1>2, <1>3, <1>4 DEF WholeInv

\* No job, no worker, no past.
LEMMA WholeInit == RuntimeInit => WholeInv
<1> SUFFICES ASSUME RuntimeInit PROVE WholeInv
  OBVIOUS
<1>1. Numbered /\ ImageInv /\ TypeOK BY NumberedInit, ImageInit, TypeInit DEF RuntimeInit
<1>2. wk \in [Runners -> WorkRec] /\ \A w \in Runners : wk[w] = Idle
  BY IdleFields DEF RuntimeInit
<1>3. /\ hist \in [Tokens -> PastRec]
      /\ \A t \in Tokens : hist[t].of = NoJob /\ hist[t].ev = "none"
  BY DEF RuntimeInit, PastRec
<1>4. RuntimeTypeOK BY <1>2, <1>3 DEF RuntimeTypeOK, WorkRec, PastRec
<1>5. claims = 0 BY DEF RuntimeInit, Init
<1>6. ASSUME NEW j \in AllJobs PROVE JobHistRec(job[j], j, hist, claims)
  <2>1. job[j].st = "absent" /\ ~job[j].elig /\ job[j].fin = NoTok
    BY DEF RuntimeInit, Init, NoRec
  <2>2. \A t \in Tokens : hist[t].of # j BY <1>3, Names
  <2>3. OpenIn(hist, j) = {} BY <2>2 DEF OpenIn
  <2>4. job[j].fin <= claims BY <1>5, <2>1 DEF NoTok
  <2>5. ~Held(job[j]) BY <2>1, States
  <2> QED BY <2>1, <2>3, <2>4, <2>5 DEF JobHistRec
<1>7. JobHist(job, hist, claims) BY <1>3, <1>6 DEF JobHist
<1>8. WorkJob(wk, job, claims) BY <1>2, IdleFields DEF WorkJob, WorkJobRec, Unsent
<1>9. WorkHist(wk, hist) BY <1>2, IdleFields DEF WorkHist, WorkHistRec
<1> QED BY <1>1, <1>4, <1>7, <1>8, <1>9 DEF WholeInv, RunInv

\* The invariant implies the three properties of executions.
LEMMA WholeImplies == WholeInv => EffectNotRepeated /\ RetryIsClean /\ SuccessIsReal
<1> SUFFICES ASSUME WholeInv, NEW j \in AllJobs
             PROVE  /\ job[j].org \in Effectful => Cardinality(Open(j)) <= 1
                    /\ job[j].org \in Effectful /\ job[j].elig => Open(j) = {}
                    /\ job[j].st = "succeeded" =>
                         /\ job[j].fin \in Tokens /\ hist[job[j].fin].ev = "succeeded"
                         /\ \A t \in Tokens : hist[t].of = j => t <= job[j].fin
  BY DEF EffectNotRepeated, RetryIsClean, SuccessIsReal
<1>1. JobHistRec(job[j], j, hist, claims) BY Given DEF JobHist
<1>2. Open(j) = OpenIn(hist, j) BY DEF Open, OpenIn
<1>3. ASSUME job[j].org \in Effectful PROVE Cardinality(Open(j)) <= 1
  <2>1. \A s, t \in Open(j) : s = t BY <1>1, <1>2, <1>3 DEF JobHistRec
  <2>2. CASE Open(j) = {} BY <2>2, FS_EmptySet
  <2>3. CASE Open(j) # {}
    <3>1. PICK t \in Open(j) : TRUE BY <2>3
    <3>2. Open(j) = {t} BY <2>1, <3>1
    <3>3. Cardinality({t}) = 1 BY FS_Singleton
    <3> QED BY <3>2, <3>3
  <2> QED BY <2>2, <2>3
<1>4. ASSUME job[j].org \in Effectful, job[j].elig PROVE Open(j) = {}
  <2>1. Live(job[j]) /\ ~Held(job[j]) BY <1>1, <1>4, States DEF JobHistRec, Live
  <2> QED BY <1>1, <1>2, <1>4, <2>1 DEF JobHistRec
<1> QED BY <1>1, <1>3, <1>4 DEF JobHistRec

\* A worker is one more client of the queue: under the runtime the queue does
\* only what QueueStore allows, and all that is proved of Spec holds here too.
THEOREM RuntimeRefinesStore == RuntimeSpec => Spec
<1>1. RuntimeInit => Init BY DEF RuntimeInit
<1> QED BY <1>1, WholeInit, WholeStep, StoreStep, PTL DEF RuntimeSpec, Spec

\* The workers' state and the history of executions keep their types.
THEOREM RuntimeTypeCorrect == RuntimeSpec => []RuntimeTypeOK
<1>1. WholeInv => RuntimeTypeOK BY DEF WholeInv
<1> QED BY <1>1, WholeInit, WholeStep, PTL DEF RuntimeSpec

\* However workers crash, leases expire, replies get lost and answers come
\* late: an effectful handler starts again only after its last execution said
\* that a retry is safe.
THEOREM EffectNotRepeatedAlways == RuntimeSpec => []EffectNotRepeated
BY WholeInit, WholeStep, WholeImplies, PTL DEF RuntimeSpec

\* What an operator may retry by hand has no execution in doubt.
THEOREM RetryIsCleanAlways == RuntimeSpec => []RetryIsClean
BY WholeInit, WholeStep, WholeImplies, PTL DEF RuntimeSpec

\* A job recorded as succeeded did succeed, in the last of its executions.
THEOREM SuccessIsRealAlways == RuntimeSpec => []SuccessIsReal
BY WholeInit, WholeStep, WholeImplies, PTL DEF RuntimeSpec
=============================================================================

-------------------------- MODULE BroadcastJournal --------------------------
(***************************************************************************)
(* Durable broadcasts: the journal's transactions (repos/broadcast_jobs),  *)
(* the service that creates, enqueues, executes, retries and recovers      *)
(* batches (broadcast_jobs), the owner of one recipient's delivery         *)
(* (broadcast_delivery) and the account erasure that removes rows under    *)
(* them (repos/users).                                                     *)
(*                                                                         *)
(* Every batch modelled belongs to one scheduled slot (scheduled=True, one *)
(* channel, mode, date and variant), as a call of the scheduler or as a    *)
(* retry of another batch.                                                 *)
(*                                                                         *)
(* A transaction is atomic.  Between two transactions, two checkpoints or a*)
(* checkpoint and a Bot call anything else may happen.  A transaction whose*)
(* acknowledgement is lost may have committed.  The queue is external: its *)
(* job is effectful, so it is run at most once and ends terminal whatever  *)
(* happens to its worker (QueueRuntime!EffectNotRepeated).                 *)
(***************************************************************************)
EXTENDS Naturals, FiniteSets

CONSTANTS Batches,   \* broadcast_batches rows that may come to exist
          Users,     \* recipients
          None,      \* the parent of a batch that retries no other
          MaxOpen,   \* batches not finished at one time
          MaxSends,  \* bound: Bot calls of one delivery
          MaxEpoch   \* bound: privacy generations, of all users

ASSUME BroadcastAssumption ==
  /\ None \notin Batches /\ IsFiniteSet(Users)
  /\ MaxOpen \in Nat /\ MaxSends \in Nat /\ MaxEpoch \in Nat \ {0}

VARIABLES
  batch,  \* [Batches -> the broadcast_batches row]
  rec,    \* [Batches -> [Users -> the broadcast_recipients row]]
  enq,    \* [Batches -> the request that creates and enqueues the batch]
  job,    \* [Batches -> "absent", "queued", "running" or "terminal"]
  exec,   \* [Batches -> where BroadcastService.execute stands]
  dl,     \* [Batches -> [Users -> one() and its DeliveryOwner]]
  doom,   \* [Batches -> BOOLEAN]: recover() has read a reason to interrupt
  user,   \* [Users -> account and privacy generation]
  seq,    \* memory_consent_epoch_seq: the last privacy generation issued
  reached \* ghost: <<batch, user, generation>> whose message arrived

vars == <<batch, rec, enq, job, exec, dl, doom, user, seq, reached>>

Epochs == 1..MaxEpoch
Outcomes == {"sent", "failed", "skipped", "unknown_delivery"}
NoRow == [state |-> "none", owned |-> FALSE, retry |-> FALSE, epoch |-> 0,
          key |-> FALSE, att |-> FALSE]
NoBatch == [state |-> "none", parent |-> None, owned |-> FALSE, total |-> 0, pending |-> 0,
            started |-> 0, sent |-> 0, failed |-> 0, skipped |-> 0,
            unknown_delivery |-> 0, retryable |-> 0]
NoRequest == [pc |-> "idle", parent |-> None, asked |-> {}, ok |-> [u \in Users |-> 0]]
NoDelivery == [pc |-> "idle", res |-> "none", again |-> FALSE,
               quar |-> FALSE, rcpt |-> FALSE, n |-> 0]

Init == /\ batch = [b \in Batches |-> NoBatch]
        /\ rec = [b \in Batches |-> [u \in Users |-> NoRow]]
        /\ enq = [b \in Batches |-> NoRequest]
        /\ job = [b \in Batches |-> "absent"]
        /\ exec = [b \in Batches |-> "idle"]
        /\ dl = [b \in Batches |-> [u \in Users |-> NoDelivery]]
        /\ doom = [b \in Batches |-> FALSE]
        /\ user = [u \in Users |-> [here |-> TRUE, epoch |-> 1, erased |-> 0]]
        /\ seq = 1
        /\ reached = {}

-----------------------------------------------------------------------------
\* Reading the journal.

Open == {b \in Batches : batch[b].state \in {"draft", "queued", "running"}}
InState(b, s) == {u \in Users : rec[b][u].state = s}
Retryable(b) == {u \in InState(b, "failed") : rec[b][u].retry}

\* checkpoint(): the guard of the queue's job, then the recipient's live row.  The
\* subscription, its settings and the channel switch may change between any two
\* reads, so a checkpoint that may pass may also fail.
Checkpoint(b, u) == /\ job[b] = "running"
                    /\ user[u].here /\ user[u].epoch = rec[b][u].epoch

\* Fault: a settled row gives its schedule key up.
ReservedWhileOpen(p, u, e) == \E c \in Batches : /\ rec[c][u].key /\ rec[c][u].epoch = e
                                                /\ rec[c][u].state \in {"pending", "started"}

\* The user's schedule key is held by a row of the slot, the failed row of the
\* parent p excepted: create_batch takes the key from it.
Reserved(p, u, e) == \E c \in Batches : /\ rec[c][u].key /\ rec[c][u].epoch = e
                                       /\ ~(c = p /\ rec[c][u].state = "failed")

\* The row is started and carries the owner token of this execution.
Mine(b, u) == rec[b][u].state = "started" /\ rec[b][u].owned

\* A delivery that has its private-data lease (a lost request lives less than
\* the lease of the process that crashed).  Deliveries are taken to be over
\* within the lease's maximum lifetime, 900 s.
Holds(d) == d.pc \in {"helper", "armed", "cleared", "persist", "settle", "lost"}

-----------------------------------------------------------------------------
\* Creating and enqueueing a batch: BroadcastService._enqueue.

\* candidates(): a user who may be given no reason to be left out.
Candidate(p, u) == /\ user[u].here
                   /\ p # None => rec[p][u].epoch = user[u].epoch

\* _enqueue reads who may be asked, and goes on later with what it has read.
Ask(b, p, asked) ==
  /\ enq[b].pc = "idle"
  /\ \E chosen \in SUBSET {u \in asked : Candidate(p, u)} :
       enq' = [enq EXCEPT ![b] =
         [pc |-> "ready", parent |-> p, asked |-> asked,
          ok |-> [u \in Users |-> IF u \in chosen THEN user[u].epoch ELSE 0]]]
  /\ UNCHANGED <<batch, rec, job, exec, dl, doom, user, seq, reached>>

enqueue_scheduled(b) == Ask(b, None, Users)

retry_failed(b, p) == /\ batch[p].state = "finished" /\ Retryable(p) # {}
                      /\ Ask(b, p, Retryable(p))

\* A parent's failed recipient is consumed by the first child that asks for it.
Consumed(b) == IF enq[b].parent = None THEN {}
               ELSE enq[b].asked \cap Retryable(enq[b].parent)

Eligible(b) == {u \in enq[b].asked : /\ enq[b].ok[u] # 0
                                     /\ enq[b].parent = None \/ u \in Consumed(b)}

\* ON CONFLICT DO NOTHING on the schedule key, and no row for a missing account.
Inserted(b) == {u \in Eligible(b) : /\ user[u].here
                                    /\ ~Reserved(enq[b].parent, u, enq[b].ok[u])}

NewRows(b) ==
  [u \in Users |->
     IF u \in Inserted(b)
     THEN [NoRow EXCEPT !.state = "pending", !.epoch = enq[b].ok[u], !.key = TRUE]
     ELSE NoRow]

ParentRows(b) ==
  [u \in Users |->
     LET r == rec[enq[b].parent][u] IN
     [r EXCEPT !.retry = @ /\ u \notin Consumed(b),
               !.key = @ /\ ~(/\ u \in Eligible(b) /\ r.state = "failed"
                              /\ r.epoch = enq[b].ok[u])]]

NewBatch(b) ==
  [NoBatch EXCEPT !.state = "draft", !.parent = enq[b].parent, !.total = Cardinality(enq[b].asked),
                  !.pending = Cardinality(Inserted(b)),
                  !.skipped = Cardinality(enq[b].asked \ Inserted(b))]

\* create_batch; the request may die without learning that it committed.
Create(b) ==
  /\ enq[b].pc = "ready"
  /\ IF Cardinality(Open) >= MaxOpen
     THEN /\ enq' = [enq EXCEPT ![b] = [NoRequest EXCEPT !.pc = "over"]]
          /\ UNCHANGED <<batch, rec>>
     ELSE /\ \E next \in {"created", "over"} :
               enq' = [enq EXCEPT ![b] = [NoRequest EXCEPT !.pc = next]]
          /\ IF enq[b].parent = None
             THEN /\ batch' = [batch EXCEPT ![b] = NewBatch(b)]
                  /\ rec' = [rec EXCEPT ![b] = NewRows(b)]
             ELSE /\ batch' = [batch EXCEPT ![b] = NewBatch(b),
                                            ![enq[b].parent].retryable = @ - Cardinality(Consumed(b))]
                  /\ rec' = [rec EXCEPT ![b] = NewRows(b), ![enq[b].parent] = ParentRows(b)]
  /\ UNCHANGED <<job, exec, dl, doom, user, seq, reached>>

\* queue.enqueue_job: accepted, refused, or unknown either way; or the request
\* dies first.
Admit(b) ==
  /\ enq[b].pc = "created"
  /\ \/ /\ job' = [job EXCEPT ![b] = "queued"]
        /\ \E next \in {"accepted", "unknown", "over"} : enq' = [enq EXCEPT ![b].pc = next]
     \/ /\ \E next \in {"rejected", "unknown", "over"} : enq' = [enq EXCEPT ![b].pc = next]
        /\ UNCHANGED job
  /\ UNCHANGED <<batch, rec, exec, dl, doom, user, seq, reached>>

\* The rows of a batch whose job the queue refused.
Refused(b) == [u \in Users |-> IF rec[b][u].state = "pending"
                               THEN [rec[b][u] EXCEPT !.state = "failed", !.retry = TRUE]
                               ELSE rec[b][u]]
RefusedBatch(r) == [r EXCEPT !.state = "finished", !.failed = @ + r.pending,
                             !.retryable = @ + r.pending, !.pending = 0]
Queued(r) == IF r.state = "draft" THEN [r EXCEPT !.state = "queued"] ELSE r

record_admission(b) ==
  /\ enq[b].pc \in {"accepted", "unknown", "rejected"}
  /\ CASE enq[b].pc = "accepted" ->
            batch' = [batch EXCEPT ![b] = Queued(@)] /\ UNCHANGED rec
       [] enq[b].pc = "unknown" ->
            batch' \in {batch, [batch EXCEPT ![b] = Queued(@)]} /\ UNCHANGED rec
       [] enq[b].pc = "rejected" ->
            /\ rec' = [rec EXCEPT ![b] = Refused(b)]
            /\ batch' = [batch EXCEPT ![b] = IF @.state \in {"draft", "queued"}
                                             THEN RefusedBatch(@) ELSE @]
  /\ enq' = [enq EXCEPT ![b].pc = "over"]
  /\ UNCHANGED <<job, exec, dl, doom, user, seq, reached>>

\* The request fails before its last transaction.
Abort(b) ==
  /\ enq[b].pc \in {"ready", "accepted", "unknown", "rejected"}
  /\ enq' = [enq EXCEPT ![b] = [NoRequest EXCEPT !.pc = "over"]]
  /\ UNCHANGED <<batch, rec, job, exec, dl, doom, user, seq, reached>>

-----------------------------------------------------------------------------
\* The queue's job (external): started once; cancelled, expired, finished or
\* lost with its worker at any moment.  To recover() a job that the queue has
\* forgotten is like a terminal one.

JobEnds(b) == /\ job[b] \in {"queued", "running"}
              /\ job' = [job EXCEPT ![b] = "terminal"]
              /\ UNCHANGED <<batch, rec, enq, exec, dl, doom, user, seq, reached>>

StartExecution(b) == /\ job[b] = "queued"
                     /\ job' = [job EXCEPT ![b] = "running"]
                     /\ exec' = [exec EXCEPT ![b] = "claim"]
                     /\ UNCHANGED <<batch, rec, enq, dl, doom, user, seq, reached>>

-----------------------------------------------------------------------------
\* BroadcastService.execute: claim the batch, start one task per pending row.

claim_batch(b) ==
  /\ exec[b] = "claim"
  /\ \/ /\ job[b] = "running"
        /\ batch[b].state \in {"draft", "queued"}
        /\ batch' = [batch EXCEPT ![b] = [batch[b] EXCEPT !.state = "running", !.owned = TRUE]]
        /\ \/ /\ exec' = [exec EXCEPT ![b] = "deliver"]
              /\ dl' = [dl EXCEPT ![b] = [u \in Users |->
                          [NoDelivery EXCEPT !.pc = IF rec[b][u].state = "pending"
                                                    THEN "queued" ELSE "done"]]]
           \/ exec' = [exec EXCEPT ![b] = "over"] /\ UNCHANGED dl
     \/ exec' = [exec EXCEPT ![b] = "over"] /\ UNCHANGED <<batch, dl>>
  /\ UNCHANGED <<rec, enq, job, doom, user, seq, reached>>

\* One task goes on, one row is written.
Goes(b, u, d) == dl' = [dl EXCEPT ![b][u] = d]
Writes(b, u, r) == rec' = [rec EXCEPT ![b][u] = r]

\* One task ends with an exception: nothing it already committed is undone.
Raised(b, u) == Goes(b, u, [NoDelivery EXCEPT !.pc = "raised"])

claim_recipient(b, u) ==
  /\ dl[b][u].pc = "queued"
  /\ \/ /\ job[b] = "running"
        /\ batch[b].owned /\ batch[b].state = "running" /\ rec[b][u].state = "pending"
        /\ Writes(b, u, [rec[b][u] EXCEPT !.state = "started", !.owned = TRUE])
        /\ batch' = [batch EXCEPT ![b] = [batch[b] EXCEPT !.pending = @ - 1, !.started = @ + 1]]
        /\ \/ Goes(b, u, [dl[b][u] EXCEPT !.pc = "claimed"])
           \/ Raised(b, u)
     \/ /\ job[b] = "running"
        /\ ~(batch[b].owned /\ batch[b].state = "running" /\ rec[b][u].state = "pending")
        /\ Goes(b, u, [dl[b][u] EXCEPT !.pc = "done"])
        /\ UNCHANGED <<batch, rec>>
     \/ Raised(b, u) /\ UNCHANGED <<batch, rec>>
  /\ UNCHANGED <<enq, job, exec, doom, user, seq, reached>>

\* private_data_lease: granted only to the generation the row was created for.
AcquireLease(b, u) ==
  /\ dl[b][u].pc = "claimed"
  /\ \/ /\ user[u].here /\ user[u].epoch = rec[b][u].epoch
        /\ Goes(b, u, [dl[b][u] EXCEPT !.pc = "helper"])
     \/ Goes(b, u, [dl[b][u] EXCEPT !.pc = "denied", !.res = "skipped"])
  /\ UNCHANGED <<batch, rec, enq, job, exec, doom, user, seq, reached>>

-----------------------------------------------------------------------------
\* DeliveryOwner._send, called by a domain helper that may catch what it raises
\* and send something else.

\* The first checkpoint and start_attempt; nothing in between is acted on
\* before start_attempt's own condition and the second checkpoint.
Arm(b, u) ==
  LET d == [dl[b][u] EXCEPT !.n = @ + 1]
      r == rec[b][u]
  IN
  /\ d.pc = "helper" /\ ~d.quar /\ dl[b][u].n < MaxSends
  /\ \/ Goes(b, u, [d EXCEPT !.res = "skipped", !.again = FALSE]) /\ UNCHANGED rec
     \/ /\ Checkpoint(b, u)
        /\ \/ /\ Mine(b, u)
              /\ Writes(b, u, [r EXCEPT !.att = TRUE])
              /\ Goes(b, u, [d EXCEPT !.pc = "armed"])
           \/ /\ ~Mine(b, u)
              /\ Goes(b, u, [d EXCEPT !.quar = TRUE, !.res = "unknown_delivery", !.again = FALSE])
              /\ UNCHANGED rec
           \/ /\ UNCHANGED rec \/ (Mine(b, u) /\ Writes(b, u, [r EXCEPT !.att = TRUE]))
              /\ Goes(b, u, [d EXCEPT !.res = "failed", !.again = TRUE])
  /\ UNCHANGED <<batch, enq, job, exec, doom, user, seq, reached>>

\* The second checkpoint, before the Bot is called.
Clear(b, u) ==
  /\ dl[b][u].pc = "armed"
  /\ \/ Checkpoint(b, u) /\ Goes(b, u, [dl[b][u] EXCEPT !.pc = "cleared"])
     \/ Goes(b, u, [dl[b][u] EXCEPT !.pc = "persist", !.res = "skipped", !.again = FALSE])
     \/ Goes(b, u, [dl[b][u] EXCEPT !.pc = "helper"])
  /\ UNCHANGED <<batch, rec, enq, job, exec, doom, user, seq, reached>>

Arrives(b, u) == reached' = reached \cup {<<b, u, rec[b][u].epoch>>}

\* The Bot call: a receipt, a definite refusal (rate limit or rejection), or an
\* ambiguous end of a message that may have arrived.
BotCall(b, u) ==
  LET d == [dl[b][u] EXCEPT !.pc = "persist", !.again = FALSE] IN
  /\ dl[b][u].pc = "cleared"
  /\ \/ Arrives(b, u) /\ Goes(b, u, [d EXCEPT !.rcpt = TRUE, !.res = "sent"])
     \/ /\ \E limited \in BOOLEAN : Goes(b, u, [d EXCEPT !.res = "failed", !.again = limited])
        /\ UNCHANGED reached
     \/ /\ Arrives(b, u) \/ UNCHANGED reached
        /\ Goes(b, u, [d EXCEPT !.quar = TRUE, !.res = "unknown_delivery"])
  /\ UNCHANGED <<batch, rec, enq, job, exec, doom, user, seq>>

\* finish_attempt: anything but a confirmed update quarantines the delivery.
Persist(b, u) ==
  LET d == [dl[b][u] EXCEPT !.pc = "helper"]
      r == rec[b][u]
      Updated == r.att /\ Mine(b, u) /\ Writes(b, u, [r EXCEPT !.att = FALSE])
  IN
  /\ dl[b][u].pc = "persist"
  /\ \/ Updated /\ Goes(b, u, d)
     \/ /\ Updated \/ UNCHANGED rec
        /\ Goes(b, u, [d EXCEPT !.quar = TRUE, !.res = "unknown_delivery", !.again = FALSE])
  /\ UNCHANGED <<batch, enq, job, exec, doom, user, seq, reached>>

\* Fault: the last result of the helper decides, receipts or not.
VerdictOfLastSend(d, cut) ==
  [res |-> IF d.res = "none" THEN (IF cut THEN "skipped" ELSE "failed") ELSE d.res,
   again |-> IF d.res = "none" THEN ~cut ELSE d.res = "failed" /\ d.again]

\* DeliveryOwner.deliver: the helper is over, `cut` if the job's guard stopped it;
\* a receipt that was not the last word is a partial delivery.
Verdict(d, cut) ==
  CASE d.quar -> [res |-> d.res, again |-> FALSE]
    [] ~d.quar /\ d.rcpt -> [res |-> IF d.res = "sent" THEN "sent" ELSE "unknown_delivery",
                             again |-> FALSE]
    [] ~d.quar /\ ~d.rcpt /\ d.res = "none" -> [res |-> IF cut THEN "skipped" ELSE "failed",
                                                again |-> ~cut]
    [] OTHER -> [res |-> d.res, again |-> d.again]

Deliver(b, u) ==
  /\ dl[b][u].pc = "helper"
  /\ \E cut \in BOOLEAN :
       LET v == Verdict(dl[b][u], cut) IN
       Goes(b, u, [NoDelivery EXCEPT !.pc = "settle", !.res = v.res, !.again = v.again])
  /\ UNCHANGED <<batch, rec, enq, job, exec, doom, user, seq, reached>>

\* finish_recipient, then progress, which may fail after the row is settled.
\* _acknowledge and _retire_unreachable only change what candidates() will say.
One(p) == IF p THEN 1 ELSE 0
FinishedBatch(r, d) ==
  [r EXCEPT !.started = r.started - 1,
            !.sent = r.sent + One(d.res = "sent"),
            !.failed = r.failed + One(d.res = "failed"),
            !.skipped = r.skipped + One(d.res = "skipped"),
            !.unknown_delivery = r.unknown_delivery + One(d.res = "unknown_delivery"),
            !.retryable = r.retryable + One(d.res = "failed" /\ d.again)]

\* Fault: the row is stored under a name that is no outcome.
FinishedMisnamed(b, u, d) == [rec[b][u] EXCEPT !.state = "finished", !.owned = FALSE]

FinishedRow(b, u, d) == [rec[b][u] EXCEPT !.state = d.res, !.owned = FALSE,
                                          !.retry = d.res = "failed" /\ d.again]
finish_recipient(b, u) ==
  LET d == dl[b][u] IN
  /\ d.pc \in {"settle", "denied"}
  /\ \/ /\ Mine(b, u)
        /\ Writes(b, u, FinishedRow(b, u, d))
        /\ batch' = [batch EXCEPT ![b] = FinishedBatch(batch[b], d)]
        /\ \/ Goes(b, u, [NoDelivery EXCEPT !.pc = "done"])
           \/ Raised(b, u)
     \/ Raised(b, u) /\ UNCHANGED <<batch, rec>>
  /\ UNCHANGED <<enq, job, exec, doom, user, seq, reached>>

-----------------------------------------------------------------------------
\* Closing a batch.

\* What was under way is unknown, what was pending is skipped.
InterruptedRow(r) ==
  IF r.state \in {"pending", "started"}
  THEN [r EXCEPT !.state = IF r.state = "started" THEN "unknown_delivery" ELSE "skipped",
                 !.owned = FALSE, !.retry = FALSE, !.att = FALSE]
  ELSE [r EXCEPT !.att = FALSE]
InterruptedBatch(r) ==
  IF r.state = "finished" THEN r
  ELSE [r EXCEPT !.state = "finished", !.owned = FALSE, !.pending = 0, !.started = 0,
                 !.unknown_delivery = @ + r.started, !.skipped = @ + r.pending]

Interrupted(b) ==
  /\ rec' = [rec EXCEPT ![b] = [u \in Users |-> InterruptedRow(rec[b][u])]]
  /\ batch' = [batch EXCEPT ![b] = InterruptedBatch(@)]

TasksOver(b) == \A u \in Users : dl[b][u].pc \in {"done", "raised"}

\* finish_batch after a clean gather, interrupt_batch after a raised task; or
\* the execution is cancelled or loses the journal and leaves the batch open.
EndExecution(b) ==
  /\ exec[b] = "deliver" /\ TasksOver(b)
  /\ \/ /\ \E u \in Users : dl[b][u].pc = "raised"
        /\ Interrupted(b)
     \/ /\ \A u \in Users : dl[b][u].pc = "done"
        /\ batch[b].owned /\ batch[b].pending = 0 /\ batch[b].started = 0
        /\ batch' = [batch EXCEPT ![b] = [batch[b] EXCEPT !.state = "finished", !.owned = FALSE]]
        /\ UNCHANGED rec
     \/ UNCHANGED <<batch, rec>>
  /\ exec' = [exec EXCEPT ![b] = "over"]
  /\ dl' = [dl EXCEPT ![b] = [u \in Users |-> NoDelivery]]
  /\ UNCHANGED <<enq, job, doom, user, seq, reached>>

\* The process dies; a request already on the wire may still arrive.
Crash(b) ==
  /\ exec[b] \in {"claim", "deliver"}
  /\ exec' = [exec EXCEPT ![b] = "over"]
  /\ dl' = [dl EXCEPT ![b] = [u \in Users |->
              [NoDelivery EXCEPT !.pc = IF dl[b][u].pc = "cleared" THEN "lost" ELSE "idle"]]]
  /\ UNCHANGED <<batch, rec, enq, job, doom, user, seq, reached>>

Landed(b, u) ==
  /\ dl[b][u].pc = "lost"
  /\ Arrives(b, u) \/ UNCHANGED reached
  /\ Goes(b, u, [dl[b][u] EXCEPT !.pc = "idle"])
  /\ UNCHANGED <<batch, rec, enq, job, exec, doom, user, seq>>

\* Fault: only a job that the queue still knows condemns its batch.
CondemnedIfKnown(b) == job[b] = "terminal"

\* The job ended, or is nowhere a minute after the batch was created.
Condemned(b) == job[b] \in {"terminal", "absent"}

\* recover(): what the queue says is read first and acted on later.
RecoverRead(b) ==
  /\ b \in Open /\ ~doom[b]
  /\ doom' = [doom EXCEPT ![b] = Condemned(b)]
  /\ batch' = [batch EXCEPT ![b] = IF job[b] # "absent" THEN Queued(@) ELSE @]
  /\ UNCHANGED <<rec, enq, job, exec, dl, user, seq, reached>>

RecoverInterrupt(b) ==
  /\ doom[b]
  /\ Interrupted(b)
  /\ doom' = [doom EXCEPT ![b] = FALSE]
  /\ UNCHANGED <<enq, job, exec, dl, user, seq, reached>>

-----------------------------------------------------------------------------
\* The recipients.

\* A new privacy generation, from the global sequence.
NewEpoch(u) == /\ seq < MaxEpoch
               /\ seq' = seq + 1
               /\ user' = [user EXCEPT ![u].here = TRUE, ![u].epoch = seq + 1]

\* A consent change starts a new generation and waits for no delivery.
Consent(u) == /\ user[u].here /\ NewEpoch(u)
              /\ UNCHANGED <<batch, rec, enq, job, exec, dl, doom, reached>>

\* Fault: a delivery that had started is not counted again.
ErasedUncounted(b, u) ==
  IF rec[b][u].state = "pending" THEN [batch[b] EXCEPT !.pending = @ - 1, !.skipped = @ + 1]
  ELSE batch[b]

\* The anonymous counts that survive the rows.
ErasedBatch(b, u) ==
  CASE rec[b][u].state = "pending" -> [batch[b] EXCEPT !.pending = @ - 1, !.skipped = @ + 1]
    [] rec[b][u].state = "started" -> [batch[b] EXCEPT !.started = @ - 1,
                                                       !.unknown_delivery = @ + 1]
    [] OTHER -> batch[b]

\* erase_user_account drains the leases, then deletes the rows: it waits for every
\* delivery that is younger than the maximum lifetime of a lease.
Erase(u) ==
  /\ user[u].here
  /\ \A b \in Batches : ~Holds(dl[b][u])
  /\ user' = [user EXCEPT ![u].here = FALSE, ![u].erased = user[u].epoch]
  /\ rec' = [b \in Batches |-> [rec[b] EXCEPT ![u] = NoRow]]
  /\ batch' = [b \in Batches |-> ErasedBatch(b, u)]
  /\ UNCHANGED <<enq, job, exec, dl, doom, seq, reached>>

\* The same person comes back as a new account.
Return(u) == /\ ~user[u].here /\ NewEpoch(u)
             /\ UNCHANGED <<batch, rec, enq, job, exec, dl, doom, reached>>

Next == \/ \E b \in Batches : \/ enqueue_scheduled(b) \/ \E p \in Batches : retry_failed(b, p)
                              \/ Create(b) \/ Admit(b)
                              \/ record_admission(b) \/ Abort(b)
                              \/ JobEnds(b) \/ StartExecution(b)
                              \/ claim_batch(b) \/ EndExecution(b) \/ Crash(b)
                              \/ RecoverRead(b) \/ RecoverInterrupt(b)
        \/ \E b \in Batches, u \in Users :
              \/ claim_recipient(b, u) \/ AcquireLease(b, u) \/ Arm(b, u)
              \/ Clear(b, u) \/ BotCall(b, u) \/ Persist(b, u) \/ Deliver(b, u)
              \/ finish_recipient(b, u) \/ Landed(b, u)
        \/ \E u \in Users : Consent(u) \/ Erase(u) \/ Return(u)

Spec == Init /\ [][Next]_vars

-----------------------------------------------------------------------------
BatchRow == [state : {"none", "draft", "queued", "running", "finished"},
             parent : Batches \cup {None}, owned : BOOLEAN, total : Nat, pending : Nat,
             started : Nat, sent : Nat, failed : Nat, skipped : Nat,
             unknown_delivery : Nat, retryable : Nat]
Recipient == [state : {"none", "pending", "started"} \cup Outcomes, owned : BOOLEAN,
              retry : BOOLEAN, epoch : 0..MaxEpoch, key : BOOLEAN, att : BOOLEAN]
Request == [pc : {"idle", "ready", "created", "accepted", "unknown", "rejected", "over"},
            parent : Batches \cup {None}, asked : SUBSET Users, ok : [Users -> 0..MaxEpoch]]
Delivery == [pc : {"idle", "queued", "claimed", "denied", "helper", "armed", "cleared",
                   "persist", "settle", "lost", "done", "raised"},
             res : Outcomes \cup {"none"}, again : BOOLEAN, quar : BOOLEAN,
             rcpt : BOOLEAN, n : 0..MaxSends]
Account == [here : BOOLEAN, epoch : Epochs, erased : 0..MaxEpoch]

\* The types of the rows, of the requests and of the deliveries.
TypeOK == /\ batch \in [Batches -> BatchRow]
          /\ rec \in [Batches -> [Users -> Recipient]]
          /\ enq \in [Batches -> Request]
          /\ job \in [Batches -> {"absent", "queued", "running", "terminal"}]
          /\ exec \in [Batches -> {"idle", "claim", "deliver", "over"}]
          /\ dl \in [Batches -> [Users -> Delivery]]
          /\ doom \in [Batches -> BOOLEAN]
          /\ user \in [Users -> Account]
          /\ seq \in Epochs
          /\ reached \subseteq Batches \X Users \X Epochs

\* The counters a batch row carries are what its recipient rows say (erased rows
\* stay counted), nothing is counted twice, and a finished batch is closed.
CountersExact ==
  \A b \in Batches :
    LET r == batch[b] IN
    /\ r.pending = Cardinality(InState(b, "pending"))
    /\ r.started = Cardinality(InState(b, "started"))
    /\ r.total = r.pending + r.started + r.sent + r.failed + r.skipped + r.unknown_delivery
    /\ \A s \in Outcomes : r[s] >= Cardinality(InState(b, s))
    /\ r.retryable >= Cardinality(Retryable(b))
    /\ r.state = "finished" => r.pending + r.started = 0

\* The journal does not lie: what it reports as failed or skipped never reached
\* the recipient, what it reports as sent did.
JournalHonest ==
  \A b \in Batches, u \in Users :
    LET r == rec[b][u] IN
    /\ r.state \in {"pending", "failed", "skipped"} => <<b, u, r.epoch>> \notin reached
    /\ r.state = "sent" => <<b, u, r.epoch>> \in reached

\* The refinement of BroadcastPromise: one slot per user and generation.
ScheduledSlots == Users \X Epochs
Reports(u, e) == {rec[b][u].state : b \in {c \in Batches : rec[c][u].epoch = e}}
Promise == INSTANCE BroadcastPromise WITH
  Slots <- ScheduledSlots,
  got <- [s \in ScheduledSlots |->
            Cardinality({b \in Batches : <<b, s[1], s[2]>> \in reached})],
  said <- [s \in ScheduledSlots |->
            CASE s[2] <= user[s[1]].erased -> "forgotten"
              [] s[2] > user[s[1]].erased /\ "sent" \in Reports(s[1], s[2]) -> "sent"
              [] s[2] > user[s[1]].erased /\ "sent" \notin Reports(s[1], s[2])
                   /\ "unknown_delivery" \in Reports(s[1], s[2]) -> "unknown"
              [] OTHER -> "open"]

\* Whatever batches, retries, crashes and recoveries it takes, a scheduled slot
\* is reached by at most one delivery, a report of it stands, and nothing
\* reaches an erased account.
KeepsPromise == Promise!PromiseSpec

\* Fairness: the queue ends every job (QueueStore!EverySettles), and the
\* repeating reconcile_broadcast_journal job keeps calling recover().
FairSpec == /\ Spec
            /\ \A b \in Batches : /\ WF_vars(JobEnds(b))
                                  /\ WF_vars(RecoverRead(b))
                                  /\ WF_vars(RecoverInterrupt(b))

\* Every batch is closed in the end, wherever its request, its job or its worker
\* stopped.
EveryBatchCloses == \A b \in Batches : b \in Open ~> batch[b].state = "finished"
=============================================================================

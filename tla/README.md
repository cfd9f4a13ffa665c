# TLA+ models of Bobby Botique

Bobby Botique is a Telegram bot in Python: an asyncio process (`bot.py`, `app/`) that
answers messages with language models, draws images, runs daily games and broadcasts, and
keeps its state in PostgreSQL and Redis. Its control logic is where several tasks, processes
and stores meet: updates that Telegram repeats, jobs that outlive their worker, provider
calls that share slots, broadcasts that may not reach anyone twice, and an account that may be
erased under all of them. This project models those parts from the source, checks their
promises on small instances with TLC and proves central ones for every instance with TLAPS.

    Telegram --> WebhookIntake --> handlers --> ProviderCalls (LlmSemaphore + CircuitBreaker)
                                      |
                                      +--> QueueStore <-- QueueRuntime --> BroadcastJournal
                                      |                                        |
                                      +--------> PrivacyLease <----------------+

## 1. Inventory

| Part | State it keeps | Operations | What is hard | What makes it correct |
|---|---|---|---|---|
| Redis script (`queue_lua.py`) | job records, six sorted sets, lane counters, image permit, conflict keys, identities, applied operations, lane controls | sweep, admit, claim, heartbeat, finish, cancel, retry, set_lane, erase, reads | one settlement touches ten structures; five kinds of TTL end at different moments; every command sweeps first | indexes and counters follow the state; caps; exclusions; revisions |
| Queue client (`queue_store.py`) | none (Redis); `MemoryQueueStore` keeps the same data in a process | one call per command, 5 s timeout, one repetition of mutations, none of a claim | applied calls whose answer is lost | repetition is harmless |
| Workers (`queue_runtime.py`) | what each worker holds, the guard's lock, status cache | claim, checkpoint, load, handler, finish, stop, purge | two tasks per claim; the revision is read in one call and used in the next; crash at any point | effects are not repeated; a stale result is not accepted; a hung handler frees its worker |
| Legacy cutover (`queue_legacy.py`) | version-one lists | inspect, import, erase | run while the new queue is live | imported once |
| Webhook intake (`bot.py`, `webhook_admission.py`, `webhook_dedupe.py`, `update_queue.py`, `update_processor.py`) | the gate's lock, claims in Redis and in the process, the count of outstanding updates, a lane per user, handler slots | call, claim, put, fetch, process, shut down | repeated calls, two processes, a claim that must be followed by a put, a sentinel in a bounded queue | an update is handled once, none is swallowed, the backlog is bounded, shutdown ends |
| LLM semaphore (`adapters/concurrency.py`) | local semaphore, tokens with scores in Redis, the owner's reckoning of its lease | enter, admit, renew, lose, leave | late and lost answers, lost Redis, failed clean-up | the limit holds, slots come back |
| Circuit breaker (`circuit_breaker.py`) | state, failures, generation, probe | call, success, failure, ignored outcome, monitor, force, reset | the call runs outside the lock; late results; a cancelled probe | a half-open breaker always decides |
| Provider router (`providers/router.py`, `resilience_policy.py`) | attempt order, hedged streams | attempt, hedge, cancel | two streams, one answer | one winner, the loser is cancelled |
| Broadcast journal (`broadcast_jobs.py`, `broadcast_delivery.py`, `repos/broadcast_jobs.py`) | batch and recipient rows, schedule keys, one attempt per row | create, admit, claim, arm, send, settle, interrupt, retry, recover | crash inside a batch, lost acknowledgements, erasure during delivery | nobody is messaged twice in a slot, the journal does not lie, every batch closes |
| Privacy (`repos/memory_consent.py`, `repos/users.py`, `repos/memory.py`, `repos/chats.py`) | generation, gate and switch of an account, leases | capture, lease, renew, erase, forget, switch, compensate | two-phase commands that fail, wait or die between the phases | no use outlives a revocation, what was deleted stays deleted, consent is the account's own |
| Response delivery (`response_delivery/`) | parts sent and edited | send, edit, fall back | one of several parts fails | the answer is complete or known to be partial |
| Keys and quotas (`repos/keys.py`) | row-locked reservations | reserve, commit, release | concurrent reservations | a quota is not exceeded |
| Debounce and dedup (`middleware/`) | timers and seen ids | add, flush | a timer against a new message | a message is answered once |
| User state (`state.py`) | write-behind cache | load, change, flush | flush against change | no change is lost |
| Background tasks (`utils/background_tasks.py`) | supervised tasks | start, restart, stop | stop during a restart | everything is stopped |
| Runtime settings (`runtime_settings/`) | versioned settings, snapshots | stage, apply, read | change during an execution | one execution sees one version |
| Migrations (`db/migrations.py`) | applied versions, advisory lock | run | two runners | each migration runs once |
| Daily games, voice, documents, astrology, dashboard, handlers, observability | database rows and content | producers and handlers of the queue | mostly I/O and data | outside this project, see section 10 |

Interactions: message handlers, the dashboard and the daily schedulers *admit* jobs
(`TaskQueue.enqueue_job`); the workers of the four lanes (deferred 3, maintenance 1, daily 2,
broadcast 1) *claim* them and run the registered handler; the heartbeat task of each claim and
the scheduler talk to the same script; operators *cancel*, *retry* and pause lanes from the
dashboard; a privacy request *erases* a user's jobs. A broadcast is a job of the broadcast lane whose
handler works through a journal in PostgreSQL; each delivery, each provider call with private
data and each stored memory runs under a privacy lease of its account; every provider call
goes through the semaphore and a breaker.

The hazards are listed with their lines in `PROJECT.json`; they are the reason for each
property below.

## 2. Modules

* `QueueStore` - the script. One action per command; `sweep` is a function on a job record that
  every action applies first, as the script does.
* `QueuePromise` - what the queue promises, abstractly: a job waits, is held under a token, is over or
  unknown, and comes back only by an admission, a claim or its owner. `QueueStore` refines it.
* `QueueRuntime` - workers on top of `QueueStore`: each worker step makes at most one
  `QueueStore` command, so everything else can happen between two of them.
* `BroadcastPromise` - what a scheduled slot is promised, abstractly. `BroadcastJournal` - the
  journal, its service, the delivery owner and account erasure, which refine it.
* `PrivacyLease` - generations, leases and the commands that revoke.
* `WebhookIntake` - from Telegram's call to the handler's slot.
* `LlmSemaphore`, `CircuitBreaker` - the two guards of a provider call; `ProviderCalls` composes
  them, with the lost lease that cancels the call in flight.
* `MCQueueStore`, `MCQueueRuntime`, `MCBroadcast`, `MCPrivacy`, `MCIntake`, `MCProvider` with the
  `.cfg` files - instances for TLC.
* `QueueStoreSafety` - type correctness and lemmas on every helper of the script, the exclusive
  image permit, and what a record keeps from one command to the next. `QueueStoreLife` - indexes,
  counters, identities, conflict keys, retries, caps and deadlines over a job's life, and the refinement of
  `QueuePromise`. `SetSums` - sums over finite sets, which the caps need. `QueueRuntimeProofs` - the workers: the invariant that
  relates records, workers and executions, and the theorems about effects. `ProviderCallsProofs` -
  the semaphore and the breaker. `PrivacyLeaseProofs` - consent and erasure. `BroadcastJournalProofs` -
  the journal, its counters and its refinement of `BroadcastPromise`. `WebhookIntakeProofs` - from
  the gate to the handler's slot.

Definitions commented `Fault:` in the modules are plausible defects (a counter not given back, a
permit not renewed). They are used nowhere in the specifications; `PROJECT.json` pairs each property with
one, which TLC shows the property to detect when it takes the place of the real definition.

## 3. How `QueueStore` corresponds to the script

A job record of the model carries

* the JSON fields that steer control: `st` state, `org` the job whose registration and payload
  it runs (itself, or the parent of a retry), `rev` revision, `att` attempts_started, `seq` sequence,
  `sub` submitted_at, `qdl` queue_deadline_at, `own` owner_token, `fin` finish_token, `grants`
  retry_grants, `elig` retry_eligible, `pay` the accounted payload, `ids` the set
  `identities:<id>`;
* its entries in the sorted sets `ready`, `delayed`, `deadline`, `running`, `expiry:payload`,
  `expiry:metadata` as `zReady`, `zDelay`, `zDead`, `zRun`, `zPay`, `zMeta` (`Never` = no entry);
* its share of the lane counters `nonterminal`, `running`, `payload_bytes` as `nActive`,
  `nHeld`, `nByte`. Counters in Redis change by increments only, so the counter is the sum of the
  shares. Shares are changed exactly where the script changes the counter and outlive the
  record, so a lost or doubled increment is visible.

Besides: `permit` is `permit:image` with its TTL, `conflict` the keys `conflict:<lane>:<key>`,
`idem` the identities, `op` the applied operation ids, `lane` the pause flags and lane revision,
`claims` and `admits` number owner tokens and admissions. Expiring keys keep their expiry and
are read through `Gone`, `HasPayload`, `Permitted`, `Identities`.

`terminal`, `drop_payload`, `release_running`, `requeue` are the script's functions on one
record; their effect on keys outside the record (permit, conflict keys, identities) is computed
from the difference between the jobs before and after the command (`PermitAfter`,
`ConflictAfter`, `IdemAfter`, `OpAfter`), because several jobs can settle in one command.

The task id of a retry is a hash of the operation id alone, its identity one of the operation id and
the account (`queue_store.py:854`). `KidUser` and `ForJob` say that one operation id is used for jobs of
one account: the operator's page makes a new id for each command (`controls-queues.js:167`).
`StoreAssumption` also keeps the order of the code's retention times that every argument about
identities rests on: a job's longest life (30 minutes, and as much again as the budget of a daily
system job) ends within the 24 hours of its identity. `FiniteIds`: task ids are hashes of a fixed length, so
there are finitely many, and sums and counts over all of them have a value.

A refused command, a repeated operation id and a pure read sweep and change nothing else: they
are the action `Sweep`.

Abstractions: fingerprints (a mismatch only rejects), the limits of 256, 128 and 100 entries per
loop (listed as an open hazard), display counters and reason codes, the operator's expected
revision (a wrong one is refused, hence `Sweep`), the privacy epoch (a
nondeterministic refusal in the workers), the order of a job's conflict keys. A retry that finds its own
child (`queue_lua.py:309-314` with state `existing`) is not an action: the child's identity answers `existing` only
to the fingerprint of the same operation, job and revision; for a day that operation is answered from
its own key (`queue_lua.py:282`), and later the payload of the retried job, kept for 15 minutes, is gone. The permit's TTL
counts from the same instant as the lease: in the code both are 60 s, apart by the resolution of
Redis.

## 4. How `QueueRuntime` corresponds to the workers

A worker is at `idle`, `start` (claimed, the execution task has not passed its first checkpoint),
`load`, `run` (the handler runs), `fin` (a result exists), `write` (the revision is read) or
`again` (finish is repeated once). `by` says which of the two tasks of the claim holds the guard's
lock between the read and the heartbeat of `checkpoint()`. `CheckRead`/`CheckBeat`/
`CheckRefused` are the two calls of `checkpoint()`; `Aborts` is every way an execution ends
without a result (a lost call, an exception of the handler, cancellation by stop, purge or the
heartbeat task); `Refuses`, `Load`, `HandlerReturns` are `_run_claim`; `FinishRead`, `FinishWrite`,
`FinishUnapplied` are `_finish_claim` with the repetition of `_mutate`; `Crash` is the death of the
process at any point. An answer may be lost after the command was applied: `ClaimJob` (the job
runs without a worker), `Aborts` (a heartbeat that was applied), `FinishWrite`.

`hist` is history only: per owner token the job its handler worked on and how it ended.

Not modelled: a call that Redis applies only after the worker gave up on it and went on (the
connection is closed by then), the status cache and the registry `_executions`
(listed as an open hazard), handlers that catch checkpoint errors and go on.

## 5. How the other modules correspond to the code

### `BroadcastJournal`

`batch` and `rec` are the rows of `broadcast_batches` and `broadcast_recipients`. Of a recipient
the model keeps the state, whether the execution's token owns it, the retry flag, the generation,
whether it holds the schedule key, and the open attempt. `enq` is the request (`_enqueue`:
read the candidates, `create_batch`, `enqueue_job`, `record_admission`), `exec` and `dl` the
execution and its task per recipient (`one()` with its `DeliveryOwner`), `doom` what
`recover()` has read and not yet acted on. Each transaction is one action; where the
acknowledgement can be lost the action has a branch in which it committed and the caller failed.
`Arm`, `Clear`, `BotCall`, `Persist` are the steps of `DeliveryOwner._send`: attempt recorded, checked
again, sent, result recorded; `Verdict` is what `deliver` makes of several sends.
The helper between two sends may do anything: it stops, or sends again up to `MaxSends` times.

`seq` is the sequence the account's generations come from: every change of consent and every return
after an erasure takes the next one, so a generation is never used twice.

All batches belong to one scheduled slot, which is where two of them can meet: a second call of the
scheduler, a retry, a retry of a retry. The queue is external and is used by what `QueueRuntime`
proves of it: an effectful job starts once and ends. A delivery whose process dies may still arrive
(`Landed`); the account's lease holds an erasure back until then. `Erase` waits for every delivery that
has its lease, which is what the code does for deliveries shorter than the lease's maximum lifetime of
900 s; one that lasts longer loses its row to the drain while it runs (finding `lifetime` of section 8),
and what it sends after that is outside this model.
Abstractions: subscriptions, channel switches and quiet hours are a checkpoint that may
fail at any time; texts, photos and rate limits are the three outcomes of a Bot call.

`reached` is history: which delivery's message arrived at which generation. `Promise` maps a slot
(user, generation) to the number of deliveries that reached it and to the strongest report of it
in the journal.

### `PrivacyLease`

One account. `chat` is its row with generation, gate and long-term-memory switch; `row` the
`private_data_leases` rows; `use` the tasks that hold them, with the age of the lease and the time
since its last renewal; `op` the commands in flight (`erase`, `forget`, `disable`) with their barrier.
Every transaction takes the account's advisory lock or decides on one locked row, so it is one
action. `Barrier` ends in `drain` or, cancelled in its COMMIT, in `restore`; `Poll` and `Sweep` are
`wait_for_private_data_leases`; `Over` has a branch in which the command committed and its caller
saw an exception, so that the guard compensates for something that succeeded. `mem` is the
oldest generation that has a stored memory: all a late write can spoil.
Time is in ticks; a renewal takes at most `Lag` ticks (the pool's `command_timeout`), other steps
any time. `revoked`, `wiped`, `choice` and `orphaned` are history.

### `WebhookIntake`

`gate` is the lock of `WebhookAdmissionGate` with the operation inside it; the operation is
shielded, so a cancelled request does not end it. `Claim` is one SET NX, of the update or of the
command it carries; an error may come before or after its effect. `Reply` is the rest of the route:
`should_accept_webhook_update` decides, `put_nowait` follows without an await. The Redis client never
sends a command again (`cache.py:37`), so an answer that is lost is an error. `out` is the count of
`OutstandingUpdateQueue`, which `task_done` gives back, not the fetch. `lane` orders the fetched tasks by
their request for the user's lock; `TakeSlot` needs the lock first. The other process of a
deploy shares only Redis: `far` is the operation at its gate and `farSeen` its history, and its two
claims interleave with this process's, fail and are lost in its crash in the same way (`CallElsewhere`,
`ClaimElsewhere`, `ReplyElsewhere`, `CrashElsewhere`); its queue is not modelled, what it admits counts as
handled. `StopLock`, `StopPut`, `Stopped` are `drain_and_stop` with
PTB's `Application.stop` inside. python-telegram-bot is external and modelled as it is used: a
fetcher that makes a task per update and ends at a sentinel, and a `stop` that joins the queue.

### `LlmSemaphore`, `CircuitBreaker`, `ProviderCalls`

A request is at `wait` (local semaphore), `sent`, `admitted`, `refused` (its admission in Redis), `hold` or
`exit`; `renewal` is its renewal task. Three times run down: `left`, the token's in Redis;
`safe`, the owner's reckoning, which counts from before the command was sent; `next`, the
reckoning it will adopt when the answer under way arrives. Sending, the effect in Redis and the
answer are three actions; a command is not sent again (`Retry(NoBackoff(), 0)`, `cache.py:48`), but
`_acquire` asks anew with the same token when it was refused.
`others` counts the live tokens of other processes and those that failed releases leave behind.
Clocks run at the same rate.

A call of the breaker is two steps, as its lock is released around the await. The code numbers
generations and compares them; the model keeps the set `current` of calls for which the comparison
succeeds. All counts of failures above `max_failures` are one value: the monitor brings each
of them back to `max_failures`. `force_open`, `force_close` and `reset` are part of the class's interface and enabled
at any time, although only tests call them today.

`ProviderCalls` lets a request call only while it holds a slot and has not lost its lease, ends
the call before the body, and lets background callers use the breaker without a slot. A crash
empties the process and leaves its tokens in Redis to expire.

## 6. What TLC checks

Time is counted in abstract units; the order of the real constants is kept (for the queue: lease 60 s <
queue deadline 900-1800 s, retry retention 900 s, metadata 86400 s; for the privacy lease:
heartbeat 30 s < TTL 120 s < lifetime 900 s).

| Run | Instance | Properties and what they show |
|---|---|---|
| `image` | three jobs of one lane, two with images, one effectful, two workers, room for two unfinished jobs and two payload units, lease 2 and deadline 3 so that heartbeats matter | `ImageExclusive`: one image job is held at a time. `CapsHold`: for real jobs and payloads, retained retry payloads included. `RevisionCovers`: every change of state or owner changes the revision. `KeepsPromise`: the queue refines `QueuePromise` |
| `retry` | one job, two manual retries, automatic retries with and without delay, metadata ends within the run | `Coherent`: an active job is in exactly the index that moves it on, has a deadline and a payload and is counted once. `SettledInTime`: no requeue, delay, heartbeat or claim carries a job past its longest life. `TypeOK`, `RetryOnce`, `BytesExact`, `SettledIsFinal` |
| `outage` | two identities of one user with one conflict key, aliases, a retry that meets a held key, lane pauses, no command for up to 7 units, longer than every TTL | `DuplicateRecognised`, `ConflictExclusive`: the first sweep after an outage leaves identities and conflict keys consistent |
| `owner` | two workers and one job at a time, an effectful one or one that may be repeated; crashes, lost answers, lost leases, cancellations, pauses; the manual retry itself is in `retry` | `EffectNotRepeated`: a handler starts again only after an execution that reported a safe failure. `RetryIsClean`: what an operator may retry has no uncertain execution. `SuccessIsReal`: success is recorded only for the handler of the last owner. `RuntimeTypeOK` |
| `hung` | one worker, its handler may never return, heartbeats without end | `EverySettles`, `HungHandlerFreed` |
| `leak` | as `retry`, with outages up to 9 units | first finding of section 8 |
| `promise` | two batches, one user, two sends per delivery, one generation: erasure, but no consent change and no return | `KeepsPromise`: the journal refines `BroadcastPromise`. `JournalHonest`: what it reports as failed or skipped did not arrive, what it reports as sent did. `TypeOK` |
| `closing` | one batch, two users, one send each, a consent change or an erasure | `CountersExact`: the counters of a batch are what its rows say, erased rows included. `EveryBatchCloses` |
| `revoke` | one task, two commands, TTL 2, heartbeat 1, lifetime 3, four generations | `DrainComplete`: an acknowledged revocation has drained every older use younger than the maximum lifetime. `DrainShrinks`: while it drains, no lease in its scope is added or extended. `ForgottenStaysForgotten`, `ConsentKept`, `GateHasOwner`, `TypeOK` |
| `lifetime` | one task, TTL 3, heartbeat 1, renewal up to 1 late, lifetime 4 | second finding of section 8 |
| `intake` | five updates of two users (an edited command, an inline query), room for two, two slots, one user whose handlers may hang, a second process that is called with the command and its edit, three calls, one Redis error, one crash of either process | `AdmittedOnce`, `NothingSwallowed`, `BacklogBounded`, `OneSlotPerUser`, `ShutdownEnds`, `TypeOK` |
| `calls` | three requests and two background callers, one slot, one waiter, lease 3, threshold 2 | `SlotsBounded`, `LocalConserved`, `ProbeAlive`, `HalfOpenEnds`, `TypeOK` |

Bounds. In the queue `MaxTime`, `MaxClaims`, `MaxAdmits`, `LastAdmit`, `MaxLaneRev` cap the counters in
the guards; `MaxAliases` is the code's 256; `MaxIdle` is the longest time that something due waits for
the next command: 1 or 2 where the bot is up, 8 or 9 in `outage` and `leak`. `MaxClaims` 2 or 3
gives a job a second owner (and a third after a retry), `MaxAdmits` 2 or 3 a retry child and
a re-admitted identity, `MaxTime` passes each TTL that the run is about. In `owner` and `hung` `MaxAdmits` is 1:
one job and no manual retry. For several jobs and their retries the invariants of `owner` are
proved (section 7). A daily system job with its execution budget is in `image`; `retry` has
none, there the theorems of `Coherent` and `SettledInTime` cover the budget.
In the journal two batches are what it takes to send twice in one slot, two sends what makes a
delivery partial, two users what makes one batch both settled and open; `MaxEpoch` 2 in `closing` allows one
consent change, or one erasure and the return of the user. In `promise` it is 1; changes of
generation are covered there by the theorems. In `revoke` two commands meet at
one gate, and four generations allow a barrier, another one on top and both compensations. In
`intake` capacity 2 is reached by updates of one user while another waits, and three calls bring an update,
its repetition or its edited command, and another one. In `calls` one slot makes the three requests
compete; two callers outside the semaphore keep old calls in flight across transitions.

Symmetry: the two workers in `owner`, the two batches in `promise`, the two commands in `revoke`. No run
with a liveness property uses symmetry.

Deadlock is checked except in `promise`, `closing` and `intake`, where everything may come to its end: all
batches finished and all generations used, or the process stopped and Telegram's calls used up.

Image exclusivity is that of ownership. A stalled handler whose lease was lost may still be in its
own drawing call until its next checkpoint; the queue cannot see that and the code does not claim to
prevent it. `AdmittedOnce` excepts updates admitted while Redis failed: there the process's own
memory is all there is. `NothingSwallowed` excepts what a crash
takes with it: a claim is not undone.

Fairness. `RuntimeFair` assumes that Redis' clock advances, that some command is sent again and
again (the scheduler sweeps every `MAX_IDLE_POLL_SECONDS`, `queue_runtime.py:510`, and every poll of an
idle worker sweeps as well), and that a worker's own calls proceed, each bounded by
`asyncio.timeout(5)`, with its heartbeat task scheduled every two seconds. Neither a handler's return
nor a successful claim is assumed, nor that a heartbeat succeeds. The journal's `FairSpec` assumes
that the queue ends every job, which is `EverySettles`, and that `recover()` runs again and again
(`bot.py:687`, every 60 s, and at start); it assumes nothing of requests, executions or
deliveries. The intake's `FairSpec` assumes that the process runs its own tasks and that handlers return,
except those of a stuck user; `ShutdownEnds` then excuses only a shutdown that waits for
such a handler. The provider's `FairSpec` assumes that a call ends (`run_with_resilience` bounds it with a
timeout, and a lost lease cancels it).

## 7. What is proved

TLAPS proves, for every choice of the constants that satisfies `StoreAssumption` and `FiniteIds` (any jobs, lanes,
workers, limits, leases and, except for `RetryOnce` and `BytesExact`, any length of outage):

* `TypeCorrect` (`QueueStoreSafety`): `Spec => []TypeOK`. The module has a lemma per helper of the
  script (what `terminal`, `requeue`, each sweep loop, `Admitted`, `Claimed`, `Finished` return) and
  one step per action.
* `ImageExclusiveAlways` (`QueueStoreSafety`): `Spec => []ImageExclusive`. Exclusion alone is not
  inductive: that no second image job is claimed depends on the permit still being there, which
  depends on its TTL. The invariant `ImageInv` adds that a held image job has an owner token and
  a lease entry, that tokens are never reused, and that the permit belongs to the token of
  the held image job and expires no earlier than its lease. Then a claim that finds no permit
  follows a sweep that has already taken every image job whose lease is over, and a release frees
  only the permit of the token it takes away. The heartbeat is the delicate step: it must move
  permit and lease together.

* `SettledIsFinalAlways` and `RevisionCoversAlways` (`QueueStoreSafety`): both action properties
  compare a record before and after a command, and one command may change a record in up to six
  places (five loops of the sweep, then its own branch). The relation `Kept` says what any
  number of such changes may do - a settled state stays, a changed state or owner has a higher
  revision, or the record is gone - and is transitive. The invariant `Numbered` (no record's
  sequence number exceeds the counter) tells a kept record from a re-admitted identity.
* `CoherentAlways`, `ConflictExclusiveAlways` and `DuplicateRecognisedAlways` (`QueueStoreLife`), for outages
  of any length. The invariant `LifeInv` has four parts. `Good`: each record is coherent and dated, so a job
  is over by its deadline (`DatedRec`; without the dates the sweep could keep a job longer than its
  identity). `Known`: the identity of a job that is not overdue leads to it, for a day from its
  submission. `Owned`: a record, its identities and its handler belong to one account; this is why the
  erasure of one account takes no identity of another's job, and it needs the conflict keys, which make
  aliases, to be scoped by account. `Keyed`: a conflict key names the active job that has it, and only
  that. Each change of a record, by one of the five loops or a branch of a command, is a `Moves`
  step; these compose, and the lemma `Commands` shows that every command but admission, alias, retry and
  erasure does nothing else. An admission needs the other parts: that its identity leads to no job
  says that the record it takes over is not active.
* `RetryOnceAlways` and `BytesExactAlways` (`QueueStoreLife`), under `ShortOutage`: a job's life or its payload's retention
  plus an outage end within the retention of the metadata (at most 61 minutes, `queue_lua.py:151` and
  `:220`, and 15 minutes against 24 hours, so every outage of up to 22 hours; the instance of run `retry` satisfies it). The invariant
  `ShortInv` adds to `LifeInv`: nothing due has waited longer than the outage, so a retained payload is
  swept while its record still says what it costs (`FreshRec`); an identity outlives the record it leads to, so
  nothing is admitted over a settled record (`Found`); while a retry goes on, the job it retries can
  neither run nor be retried, its identity is still taken, and there is no other retry of it
  (`SingleBy`). The last needs that retention and the longest life together fit into the metadata's. For
  `BytesExact` the hypothesis is necessary (section 8).
* `CapsHoldAlways` (`QueueStoreLife`), for outages of any length. Admission and claim compare counters, which
  are sums of shares; the property speaks of the real jobs. The invariant `CapsInv` has the caps and
  `Covered`: the share of a job is at least what it keeps. It need not be exact, so the theorem holds beyond
  the leak of section 8: a leaked counter only refuses too early. Every command first shrinks what the
  lanes hold (`Shrinks`, through the five loops of the sweep and the branch), then at most one job grows,
  by what the guard has room for; a retry moves its parent's payload to the child. That a sum bounds
  a cardinality and a smaller sum, and that it can be taken apart at one job, is `SetSums`: an induction
  over the subsets of a finite set, made with a set of subsets in the place of a predicate.
* `SettledInTimeAlways` (`QueueStoreLife`): the bound in time that `EverySettles` leaves open. `LateInv` says that an
  active job's deadline is at most `MaxIdle` behind: a command leaves nothing overdue, and time passes
  only while nothing due has waited that long. `DatedRec` of `LifeInv` ties the deadline to the submission.
* `QueueKeepsPromise` (`QueueStoreLife`): `Spec` implements `QueuePromise`. Between the records before and after,
  `Eases` says what may happen to a job that nobody admits, claims or hands back; it is transitive, so
  the sweep and the branch that follows compose, and a command is one of four steps of the promise
  (`StoreSteps`) with all other jobs easing at once. The guards of the abstract admission and claim are not in the
  branch alone: they follow from `ConflictExclusive`, `CapsHold` and `ImageExclusive` after the step, and
  that a job loses its token with its worker from `Coherent`.
* `RuntimeRefinesStore` (`QueueRuntimeProofs`): `RuntimeSpec => Spec`, so the theorems above hold
  under the workers too.
* `RuntimeTypeCorrect`, `EffectNotRepeatedAlways`, `RetryIsCleanAlways` and `SuccessIsRealAlways`
  (`QueueRuntimeProofs`), under `RuntimeAssumption` as well. None is inductive: whether a handler
  may start again is decided by a record, long after the execution the property speaks of. The
  invariant `RunInv` closes the circle in three parts. `JobHist`: an execution of an effectful job
  that may have acted belongs to the job's present owner, or the job can neither run nor be retried;
  there is at most one of them; owners follow each other in token order; a recorded success is the
  last execution's. `WorkJob`: each worker has a token of its own, which owns its job or nothing, and
  a result not yet sent is recorded nowhere. `WorkHist`: a result that calls a retry of an effectful
  job safe, or claims success, is the one its handler returned. The sweep can only take owners away,
  and from an effectful job only by settling it for good (`Traces`); a claim finds no open execution;
  a load that starts the handler is checked against the owner token in the same command; a finish
  is accepted from the owner only and says what its handler said.

TLAPS also proves, for all sets of requests and callers, limits, leases and thresholds
(`ProviderCallsProofs`, under the assumptions of `LlmSemaphore`, `CircuitBreaker` and `ProviderCalls`):

* `SlotsBoundedAlways` and `LocalConservedAlways`. The invariant `SemInv` has five parts. `Shape` are
  the types; `Quiet`: nothing of a lease exists outside the body; `Covered`: the owner's
  reckoning, the present one and the one under way, is never ahead of Redis, which is why the
  time before the command counts; `Capped`: the tokens in the set, expired ones included, are within
  the limit, because a renewal may bring an expired one back; and `LocalConserved` itself.
* `ProbeAliveAlways`. `BreakerInv` adds that the failures which opened the breaker still stand while it is not
  closed: otherwise a failed probe could leave it half open with nobody in flight.
* `ProviderTypeCorrect`.

And for all numbers of tasks, commands and generations and all lease times with `Beat + Lag < TTL <= MaxLife`
(`PrivacyLeaseProofs`, under `PrivacyAssumption`):

* `DrainCompleteAlways` and `DrainShrinksAlways`. `Dated`: the account's generation is the last one taken from
  the sequence, so a lease, a command or a deletion never remembers a newer one, and a row that is written
  anew is outside the scope of every command under way. `Backed`: a task that is not at the end of its
  lifetime has its row, and the row has more left than the task can go without renewing it; this is
  where the order of heartbeat, command timeout and TTL is needed. `Drained`: a command that has stopped
  waiting has no live row in its scope. Together they leave an older use no way past an acknowledged
  revocation except its lifetime's end.
* `ConsentKeptAlways` and `GateHasOwnerAlways`. `Restores`: the command that owns the gate would restore the account's
  decision, which nobody can change while the gate is there; `Kinds`: only a command that set a gate
  compensates.
* `ForgottenAlways`, from `Dated` (a deletion is older than the generation of an existing account), and
  `PrivacyTypeCorrect`.

For all batches, users, numbers of sends and generations (`BroadcastJournalProofs`):

* `BroadcastTypeCorrect`, `CountersExactAlways` and `JournalHonestAlways`. The invariant `Inv` relates the rows
  to what is under way. `StagesOK`, `TasksOK`: an execution works on a batch that the journal shows as
  claimed, and a task's delivery, attempt and lease belong together. `RowsOK`: the state of a recipient
  decides which of its fields are set. `OwnersOK`: what a delivery's owner knows of its messages (sent,
  uncertain, receipt) is what row and history say, and its lease holds the account until it has settled.
  `KeysOK`: a row that may send holds the schedule key of its slot, so no other row of the slot can.
  `GenerationsOK`: generations come from the sequence, and an existing account is newer than
  its last erasure. `TraceOK`, `SentOK`: a message that arrived
  has a row that is not called failed or skipped, or a task that will still settle it; a row called sent arrived.
  `CountersExact` is itself a conjunct: the counters of a batch change with its rows, in the same transaction.
* `JournalKeepsPromise`: `Spec` implements `BroadcastPromise`. A transaction may settle many slots, so the
  refinement is shown slot by slot: at each, `Got` (how many deliveries reached it) and `Said` (the strongest
  report) either stay, or change as one action of the promise allows (`SlotStep`). It needs one more
  invariant, `Begun`: a row is claimed only under the execution of its batch. That at most one delivery
  reaches a slot is `KeysOK` again; that a report is never stronger than the truth is `TraceOK` and `SentOK`.

And for all updates, users, capacities, slots and numbers of failures and crashes (`WebhookIntakeProofs`,
under `IntakeAssumption`: a command's claim is never an update's, since the keys have different prefixes in Redis):

* `AdmittedOnceAlways`, `NothingSwallowedAlways`, `BacklogBoundedAlways`, `OneSlotPerUserAlways` and
  `IntakeTypeCorrect`, from `IntakeInvariant`. `AccountOK`: the count of outstanding items is what stands in the
  queue and in the lanes, and is within the capacity; `BacklogBounded` follows. `GateOK`: the room that the gate saw is still there when it
  puts, as everything else only makes room. `OperationsOK`: an operation, here or in the other process, has
  an update, and claims a command only if there is one. `SentinelOK`: nothing is put behind the sentinel.
  `LanesOK`: who holds a slot holds its user's lock, so the first of a user's lane. `ClaimsOK`: a
  key that an operation of either process has won is in Redis, and neither the other operation nor an admitted
  update has it; this is what a repeated call, an edited command and the second process meet. `ServedOK`: behind
  every claimed key stands an update that was kept or that is at the gate of one of the processes. A step of
  either process is one lemma (`OneWinner`, `AdmitsOnce`, `ClaimServes`, `OverServes`), used twice.

Model-checked only: liveness (`EverySettles`, `HungHandlerFreed`, `EveryBatchCloses`, `ShutdownEnds`,
`HalfOpenEnds`), which this prover does not reach. Every other property of a passing run is stated by a theorem.

## 8. Findings

`leak`: the byte counter of a lane can count a payload that does not exist any more. A failed job
keeps its payload 15 minutes for a manual retry and its record 24 hours. If no queue command runs
until the record has expired, the payload loop of the first sweep finds the score but no record
(`queue_lua.py:92`), removes the score and never subtracts the bytes. Each such job costs the
lane up to 256 KiB of its 8 MiB for good. As long as the bot runs at least once a day the counter is
exact (`BytesExact` in run `retry`).

`lifetime`: a use of private data that reaches the maximum lifetime of its lease (900 s) goes on until
its next heartbeat, up to 30 s later, while its row has expired (`memory_consent.py:183`). A
revocation in that time deletes the row and is acknowledged with the provider call still
running, which the comment at `memory_consent.py:229` says must not happen. `DrainComplete` in run
`revoke` is the rest of that promise: no younger use outlives a revocation.

## 9. Plan

Done: the modules of section 2, their runs, the theorems of section 7. Next, in this order:

1. `MemoryQueueStore`, the process-local twin of the script, as a second implementation of `QueuePromise`.
2. Hedged streams of the router on top of `ProviderCalls`.
3. Debounce and dedup, key quota reservations, user-state persistence, background tasks.
4. Response delivery, runtime settings, migrations, the legacy cutover, bounded sweeps.

## 10. Not modelled

`PROJECT.json` lists every part with its status. The models cover the control logic named above; most of
the repository's lines are something else. Left out for good: content and computation
(astrology, tarot, word banks, prompts, translations), Telegram and web user interfaces, audio and document
processing, SQL and HTTP plumbing, metrics and logs. They carry no shared control state beyond the queue
commands, leases and provider calls they issue, and those are modelled where they arrive. Left out of the
modelled parts: offers and large batches of the journal (no schedule key; batches of 100), the tables that
erasure empties besides long-term memory, the capacity and age of the claims' history, the
statistics of breaker and semaphore, and what each component's note in `PROJECT.json` says.

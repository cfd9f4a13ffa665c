--------------------------- MODULE WebhookIntake ---------------------------
(***************************************************************************)
(* Telegram updates from the webhook to their handlers: the admission gate *)
(* and its shutdown (webhook_admission), the claim of an update in Redis   *)
(* with the process's own history behind it (webhook_dedupe), the route of *)
(* bot.py that joins them, the bounded queue (update_queue) and the lanes  *)
(* of users in front of the handler slots (update_processor).              *)
(*                                                                         *)
(* One process is modelled whole.  Another one overlaps with it during a   *)
(* deploy: they share Redis and nothing else, so of the other one only the *)
(* operation at its gate and its history are kept, and what it admits it   *)
(* handles.  Telegram calls either of them until it has seen a 200; a call *)
(* may be abandoned and an answer lost.  Redis may fail, before or after   *)
(* it has applied a SET.  Claims outlive the model (24 hours, 10000        *)
(* entries).  The python-telegram-bot application is external: it fetches  *)
(* updates into tasks, and its stop() queues a sentinel and joins the      *)
(* queue.                                                                  *)
(***************************************************************************)
EXTENDS Naturals, Sequences, FiniteSets, SequencesExt

CONSTANTS Updates,   \* Telegram updates
          User,      \* [Updates -> user]
          Command,   \* [Updates -> the command message it carries, or NoCommand]
          NoCommand,
          Inline,    \* updates that are inline queries: no lane
          Stuck,     \* users whose handlers may never return
          Capacity,  \* UPDATE_QUEUE_MAXSIZE
          Slots,     \* UserScopedUpdateProcessor(50)
          Stop,      \* the sentinel of Application.stop
          NoUpdate,
          Shared,    \* bound: updates that reach the other process too
          MaxCalls,  \* bound: webhook calls
          MaxErrors, \* bound: errors of Redis
          MaxCrash   \* bound: crashes

ASSUME IntakeAssumption == /\ Stop \notin Updates /\ NoUpdate \notin Updates
                           /\ \A u \in Updates : Command[u] \notin Updates \* a prefix of its own
                           /\ Inline \subseteq Updates
                           /\ Capacity \in Nat \ {0} /\ Slots \in Nat \ {0}
                           /\ Shared \subseteq Updates
                           /\ MaxCalls \in Nat /\ MaxErrors \in Nat /\ MaxCrash \in Nat

VARIABLES
  calls,    \* webhook calls made
  req,      \* updates of the requests waiting at the gate
  gate,     \* the lock: whose operation, and how far it is
  closed,   \* WebhookAdmissionGate._closed
  stop,     \* drain_and_stop: "no", "put" (it has the lock) or "join"
  redis,    \* identities claimed in Redis
  seen,     \* identities in seen_update_ids
  far,      \* the operation at the gate of the other process
  farSeen,  \* its seen_update_ids
  queue,    \* OutstandingUpdateQueue, with the sentinel
  out,      \* its _outstanding
  fetching, \* PTB's fetcher runs
  lane,     \* tasks, in the order in which they asked for their user's lock
  slots,    \* updates that hold a slot
  crashes,
  errors,   \* Redis errors so far
  puts,     \* ghost: [Updates -> times it was put in a queue]
  blind,    \* ghost: updates admitted without Redis's word
  done,     \* ghost: updates whose handler has run
  lost      \* ghost: updates a crash took away

bounds == <<calls, crashes, errors>>
door == <<req, gate, closed, stop>>
claims == <<redis, seen>>
other == <<far, farSeen>>
backlog == <<queue, out, fetching, lane, slots>>
ghosts == <<puts, blind, done, lost>>
vars == <<bounds, door, claims, other, backlog, ghosts>>

Free == [pc |-> "free", u |-> NoUpdate]

Init == /\ calls = 0 /\ errors = 0 /\ redis = {} /\ crashes = 0
        /\ req = {}
        /\ gate = Free
        /\ closed = FALSE /\ stop = "no"
        /\ seen = {}
        /\ far = Free /\ farSeen = {}
        /\ queue = <<>>
        /\ out = 0
        /\ fetching = TRUE
        /\ lane = <<>>
        /\ slots = {}
        /\ puts = [u \in Updates |-> 0]
        /\ blind = {} /\ done = {} /\ lost = {}

-----------------------------------------------------------------------------
\* The webhook.

\* Fault: an update that has been fetched no longer counts.
fullBuffered == Len(queue) >= Capacity

\* OutstandingUpdateQueue.full: accepted and not yet done, fetched or not.
full == out >= Capacity

\* Telegram calls.  A closed gate answers 503 at once.
Call(u) ==
  /\ calls < MaxCalls
  /\ calls' = calls + 1
  /\ req' = IF closed THEN req ELSE req \cup {u}
  /\ UNCHANGED <<crashes, errors, gate, closed, stop, claims, other, backlog, ghosts>>

\* A request that waits for the lock is cancelled.
Abandon(u) ==
  /\ u \in req
  /\ req' = req \ {u}
  /\ UNCHANGED <<bounds, gate, closed, stop, claims, other, backlog, ghosts>>

\* Fault: the queue is looked at only when the update is put in it.
EnterUnchecked(u) ==
  /\ u \in req /\ gate.pc = "free" /\ stop = "no"
  /\ req' = req \ {u}
  /\ gate' = IF closed THEN gate ELSE [pc |-> "claim", u |-> u]
  /\ UNCHANGED <<bounds, closed, stop, claims, other, backlog, ghosts>>

\* The lock is taken; a closed gate or a full queue answers 503.  From here on
\* the operation runs to its end even if its request is cancelled.
Enter(u) ==
  /\ u \in req /\ gate.pc = "free" /\ stop = "no"
  /\ req' = req \ {u}
  /\ gate' = IF closed \/ full THEN gate
             ELSE [pc |-> "claim", u |-> u]
  /\ UNCHANGED <<bounds, closed, stop, claims, other, backlog, ghosts>>

\* The keys under which an update is claimed, one after the other.
Keys(u) == IF Command[u] = NoCommand THEN {u} ELSE {u, Command[u]}

\* The key an operation claims next, and where it stands when it has won it.
Target(g) == IF g.pc = "claim" THEN g.u ELSE Command[g.u]
Ahead(g) == IF g.pc = "claim" /\ Command[g.u] # NoCommand THEN "command" ELSE "won"

\* SET NX of the update, then of the command, and what the process learns of it:
\* the operation goes from g to h.
SetNX(g, h) ==
  /\ g.pc \in {"claim", "command"}
  /\ \/ /\ redis' = redis \cup {Target(g)}
        /\ h = [g EXCEPT !.pc = IF Target(g) \in redis THEN "held" ELSE Ahead(g)]
        /\ UNCHANGED errors
     \/ /\ errors < MaxErrors
        /\ errors' = errors + 1
        /\ redis' \in {redis, redis \cup {Target(g)}}
        /\ h = [g EXCEPT !.pc = "error"]

Claim ==
  /\ SetNX(gate, gate')
  /\ UNCHANGED <<calls, crashes, req, closed, stop, seen, other, backlog, ghosts>>

\* Fault: what Redis says is not heeded, the process knows better.
DuplicateHere(g, known) == Keys(g.u) \cap known # {}

\* should_accept_webhook_update says no: Redis holds a key, or Redis failed and
\* the process remembers one.
Duplicate(g, known) == \/ g.pc = "held"
                       \/ g.pc = "error" /\ Keys(g.u) \cap known # {}

\* put_nowait, in the same step as the answer of Redis; QueueFull answers 503.
Reply ==
  LET u == gate.u IN
  /\ gate.pc \in {"won", "held", "error"}
  /\ gate' = Free
  /\ seen' = IF Duplicate(gate, seen) THEN seen ELSE seen \cup Keys(u)
  /\ IF Duplicate(gate, seen) \/ full
     THEN UNCHANGED <<queue, out, puts, blind>>
     ELSE /\ queue' = Append(queue, u)
          /\ out' = out + 1
          /\ puts' = [puts EXCEPT ![u] = @ + 1]
          /\ blind' = IF gate.pc = "error" THEN blind \cup {u} ELSE blind
  /\ UNCHANGED <<bounds, req, closed, stop, redis, other, fetching, lane, slots, done, lost>>

\* The update of an operation that has claimed a key, or may have.
Begun(g) == IF g.pc \in {"command", "won", "error"} THEN {g.u} ELSE {}

\* The other process is called, and has room for the update.
CallElsewhere(u) ==
  /\ u \in Shared /\ calls < MaxCalls /\ far.pc = "free"
  /\ calls' = calls + 1
  /\ far' = [pc |-> "claim", u |-> u]
  /\ UNCHANGED <<crashes, errors, door, claims, farSeen, backlog, ghosts>>

ClaimElsewhere ==
  /\ SetNX(far, far')
  /\ UNCHANGED <<calls, crashes, door, seen, farSeen, backlog, ghosts>>

\* What the other process admits, it handles.
ReplyElsewhere ==
  LET u == far.u IN
  /\ far.pc \in {"won", "held", "error"}
  /\ far' = Free
  /\ IF Duplicate(far, farSeen)
     THEN UNCHANGED <<farSeen, puts, blind, done>>
     ELSE /\ farSeen' = farSeen \cup Keys(u)
          /\ puts' = [puts EXCEPT ![u] = @ + 1]
          /\ blind' = IF far.pc = "error" THEN blind \cup {u} ELSE blind
          /\ done' = done \cup {u}
  /\ UNCHANGED <<bounds, door, claims, backlog, lost>>

\* The other process dies, and is started again if the deploy is not over.
CrashElsewhere ==
  /\ crashes < MaxCrash
  /\ crashes' = crashes + 1
  /\ lost' = lost \cup Begun(far)
  /\ far' = Free /\ farSeen' = {}
  /\ UNCHANGED <<calls, errors, door, claims, backlog, puts, blind, done>>

-----------------------------------------------------------------------------
\* Processing.

InLane == ToSet(lane)
Queued == ToSet(queue) \ {Stop}

\* PTB's fetcher: a task per update, which joins its user's lane; the sentinel
\* ends it.
Fetch ==
  /\ fetching /\ queue # <<>>
  /\ queue' = Tail(queue)
  /\ IF Head(queue) = Stop
     THEN /\ fetching' = FALSE
          /\ out' = out - 1
          /\ UNCHANGED lane
     ELSE /\ lane' = Append(lane, Head(queue))
          /\ UNCHANGED <<fetching, out>>
  /\ UNCHANGED <<bounds, door, claims, other, slots, ghosts>>

\* The user's lock is held by the first of the user's tasks; an inline query has
\* no lock to wait for.
HasLane(u) == \/ u \in Inline
              \/ \E i \in 1..Len(lane) :
                   /\ lane[i] = u
                   /\ \A k \in 1..(i - 1) : lane[k] \in Inline \/ User[lane[k]] # User[u]

\* Fault: a task takes a slot first and waits for its user's lock inside.
ReadyAnyway(u) == TRUE

\* The lane comes before the slot.
Ready(u) == HasLane(u)

TakeSlot(u) ==
  /\ u \in InLane \ slots /\ Ready(u) /\ Cardinality(slots) < Slots
  /\ slots' = slots \cup {u}
  /\ UNCHANGED <<bounds, door, claims, other, queue, out, fetching, lane, ghosts>>

\* The handler returns or raises: task_done frees the capacity.
Finish(u) ==
  /\ u \in slots /\ HasLane(u)
  /\ slots' = slots \ {u}
  /\ lane' = RemoveFirst(lane, u)
  /\ out' = out - 1
  /\ done' = done \cup {u}
  /\ UNCHANGED <<bounds, door, claims, other, queue, fetching, puts, blind, lost>>

-----------------------------------------------------------------------------
\* Shutting down.

\* WebhookAdmissionGate.shutdown: no new work from here on.
Close ==
  /\ ~closed
  /\ closed' = TRUE
  /\ UNCHANGED <<bounds, req, gate, stop, claims, other, backlog, ghosts>>

\* Fault: the application is stopped beside an admission in progress.
MayStopAnytime == closed

\* drain_and_stop waits for the lock.
MayStop == closed /\ gate.pc = "free"

StopLock ==
  /\ stop = "no" /\ MayStop
  /\ stop' = "put"
  /\ UNCHANGED <<bounds, req, gate, closed, claims, other, backlog, ghosts>>

\* Fault: the sentinel is queued past the account of outstanding items.
StopPutUncounted ==
  /\ stop = "put" /\ ~full
  /\ stop' = "join"
  /\ queue' = Append(queue, Stop)
  /\ UNCHANGED <<bounds, req, gate, closed, claims, other, out, fetching, lane, slots, ghosts>>

\* Application.stop: the sentinel waits for room like any update.
StopPut ==
  /\ stop = "put" /\ ~full
  /\ stop' = "join"
  /\ queue' = Append(queue, Stop)
  /\ out' = out + 1
  /\ UNCHANGED <<bounds, req, gate, closed, claims, other, fetching, lane, slots, ghosts>>

\* queue.join returns, and the fetcher has ended.
Stopped == stop = "join" /\ out = 0 /\ ~fetching

\* The process dies and is started again.
Crash ==
  /\ crashes < MaxCrash /\ ~Stopped
  /\ crashes' = crashes + 1
  /\ lost' = lost \cup Queued \cup InLane \cup Begun(gate)
  /\ req' = {}
  /\ gate' = Free
  /\ closed' = FALSE /\ stop' = "no"
  /\ seen' = {}
  /\ queue' = <<>>
  /\ out' = 0
  /\ fetching' = TRUE
  /\ lane' = <<>>
  /\ slots' = {}
  /\ UNCHANGED <<calls, errors, redis, other, puts, blind, done>>

Next == \/ \E u \in Updates : \/ Call(u) \/ Abandon(u) \/ Enter(u)
                              \/ TakeSlot(u) \/ Finish(u) \/ CallElsewhere(u)
        \/ ClaimElsewhere \/ ReplyElsewhere \/ CrashElsewhere
        \/ Claim \/ Reply \/ Fetch \/ Close \/ StopLock \/ StopPut \/ Crash

Spec == Init /\ [][Next]_vars

-----------------------------------------------------------------------------
Identities == Updates \cup {Command[u] : u \in Updates}
Operation == [pc : {"free", "claim", "command", "won", "held", "error"},
              u : Updates \cup {NoUpdate}]

\* The types of the door, the claims and the backlog; only a fetched update has a slot.
TypeOK ==
  /\ calls \in 0..MaxCalls /\ crashes \in 0..MaxCrash
  /\ errors \in 0..MaxErrors
  /\ req \subseteq Updates
  /\ gate \in Operation /\ far \in Operation
  /\ closed \in BOOLEAN /\ stop \in {"no", "put", "join"} /\ fetching \in BOOLEAN
  /\ redis \subseteq Identities /\ seen \subseteq Identities /\ farSeen \subseteq Identities
  /\ Queued \subseteq Updates /\ InLane \subseteq Updates /\ slots \subseteq InLane
  /\ out \in Nat /\ puts \in [Updates -> Nat]
  /\ blind \subseteq Updates /\ done \subseteq Updates /\ lost \subseteq Updates

\* Whatever Telegram repeats and whichever process it calls, an update or a
\* command is handed to the handlers once, unless it was admitted without Redis.
AdmittedOnce ==
  \A u, v \in Updates :
    (Keys(u) \cap Keys(v) # {} /\ puts[u] > 0 /\ puts[v] > 0 /\ (u = v => puts[u] > 1))
    => u \in blind \/ v \in blind

\* An update that is claimed, or that Telegram was told is done with, has been
\* or will be handled, it or another update that carries its command, unless
\* its process crashed: no full queue, cancelled request or shutdown comes
\* between the claim and the queue.
NothingSwallowed ==
  \A u \in (redis \cup seen \cup farSeen) \cap Updates : \E v \in Updates :
    /\ Keys(u) \cap Keys(v) # {}
    /\ \/ v \in done \cup lost \cup InLane \/ (fetching /\ v \in Queued)
       \/ v \in Begun(gate) \cup Begun(far)

\* The bound counts every item that is accepted until it is done, fetched or
\* not, the sentinel too: fetching one makes no room.
BacklogBounded == Len(queue) + Len(lane) <= Capacity

\* A user's backlog occupies one handler slot at a time, whatever is fetched, so
\* it neither runs beside itself nor takes the slots of the others; inline
\* queries are exempt.
OneSlotPerUser == \A u, v \in slots \ Inline : User[u] = User[v] => u = v

\* Fairness: the process runs its tasks, and handlers return, those of a stuck
\* user excepted.
FairSpec ==
  /\ Spec
  /\ WF_vars(Claim) /\ WF_vars(Reply) /\ WF_vars(Fetch)
  /\ WF_vars(StopLock) /\ WF_vars(StopPut)
  /\ \A u \in Updates : WF_vars(TakeSlot(u))
  /\ \A u \in {v \in Updates : User[v] \notin Stuck} : WF_vars(Finish(u))

\* A shutdown ends, unless a handler never returns.
ShutdownEnds == closed ~> Stopped \/ ~closed \/ \E u \in InLane : User[u] \in Stuck
=============================================================================

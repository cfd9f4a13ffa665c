---------------------------- MODULE PrivacyLease ----------------------------
(***************************************************************************)
(* Consent and erasure of one account: the privacy generation of its chat  *)
(* row, the leases under which its data is used outside the database       *)
(* (repos/memory_consent), and the commands that revoke that use: account  *)
(* erasure (repos/users), memory deletion (repos/memory) and the           *)
(* long-term-memory switch (repos/chats).                                  *)
(*                                                                         *)
(* A transaction is one step: each takes the account's advisory lock or    *)
(* decides on one locked row.  Between two of them anything may happen.    *)
(* Time passes in ticks.  A renewal is over at most Lag ticks after it is  *)
(* due (the pool's command_timeout); everything else takes any time.       *)
(***************************************************************************)
EXTENDS Naturals

CONSTANTS Holders,  \* tasks that use private data under a lease
          Ops,      \* privacy commands in flight
          TTL,      \* _LEASE_TTL_SECONDS, in ticks
          Beat,     \* _LEASE_HEARTBEAT_SECONDS
          Lag,      \* time a renewal may take
          MaxLife,  \* _LEASE_MAX_LIFETIME_SECONDS
          MaxEpoch  \* bound: generations taken from memory_consent_epoch_seq

ASSUME PrivacyAssumption == /\ TTL \in Nat /\ Beat \in Nat /\ Lag \in Nat
                            /\ MaxLife \in Nat /\ MaxEpoch \in Nat \ {0}
                            /\ Beat + Lag < TTL /\ TTL <= MaxLife

VARIABLES
  chat,     \* the account and its chats row
  seq,      \* last value of memory_consent_epoch_seq
  row,      \* [Holders -> its private_data_leases row]
  use,      \* [Holders -> where the task that owns the lease stands]
  op,       \* [Ops -> where the privacy command stands]
  mem,      \* oldest generation with a stored long-term memory (0: none)
  revoked,  \* ghost: barrier of the last acknowledged revocation, by scope
  wiped,    \* ghost: barrier of the last deletion of long-term memories
  choice,   \* ghost: the account's last decision on long-term memory
  orphaned  \* ghost: the gate's command died or could not compensate

vars == <<chat, seq, row, use, op, mem, revoked, wiped, choice, orphaned>>
ghosts == <<revoked, wiped, choice, orphaned>>

Epochs == 1..MaxEpoch
NoRow == [live |-> FALSE, epoch |-> 0, ltm |-> FALSE, left |-> 0]
NoUse == [pc |-> "idle", epoch |-> 0, ltm |-> FALSE, age |-> 0, since |-> 0]
NoOp == [pc |-> "idle", kind |-> "none", bar |-> 0, prev |-> TRUE]

\* An account that has turned long-term memory off, or not.
Init == /\ choice \in BOOLEAN
        /\ chat = [here |-> TRUE, epoch |-> 1, blocked |-> FALSE, ltm |-> choice]
        /\ seq = 1
        /\ row = [h \in Holders |-> NoRow]
        /\ use = [h \in Holders |-> NoUse]
        /\ op = [o \in Ops |-> NoOp]
        /\ mem = 0
        /\ revoked = [ltm |-> 0, all |-> 0]
        /\ wiped = 0
        /\ orphaned = FALSE

-----------------------------------------------------------------------------
\* Using private data.

\* What every consumer's SQL asks of the chat row: the exact generation, no
\* barrier, and the switch when the data is long-term memory.
Current(e, ltm) == /\ chat.here /\ chat.epoch = e /\ ~chat.blocked
                   /\ ltm => chat.ltm

\* A request reads its generation: capture_epoch, resolve_current_epoch, or the
\* exact live generation of ensure_chat_generation.
Snapshot(h) ==
  /\ use[h].pc = "idle" /\ ~row[h].live
  /\ \E ltm \in BOOLEAN :
       /\ Current(chat.epoch, ltm)
       /\ use' = [use EXCEPT ![h] = [NoUse EXCEPT !.pc = "ready", !.epoch = chat.epoch,
                                                  !.ltm = ltm]]
  /\ UNCHANGED <<chat, seq, row, op, mem, ghosts>>

\* _acquire_private_data_lease.  An acquisition that fails, or whose commit is
\* not acknowledged, fails closed; the row may stay behind.
Acquire(h) ==
  /\ use[h].pc = "ready"
  /\ \/ /\ Current(use[h].epoch, use[h].ltm)
        /\ row' = [row EXCEPT ![h] = [live |-> TRUE, epoch |-> use[h].epoch,
                                      ltm |-> use[h].ltm, left |-> TTL]]
        /\ \/ use' = [use EXCEPT ![h].pc = "using"]
           \/ use' = [use EXCEPT ![h] = NoUse]
     \/ /\ use' = [use EXCEPT ![h] = NoUse]
        /\ UNCHANGED row
  /\ UNCHANGED <<chat, seq, op, mem, ghosts>>

\* Fault: a renewal looks at the row only.
RenewableWhileAlive(h) == row[h].live /\ use[h].age < MaxLife

\* _renew_private_data_lease finds the row, its lifetime not exhausted and its
\* generation current.
Renewable(h) == /\ row[h].live /\ use[h].age < MaxLife
                /\ Current(row[h].epoch, row[h].ltm)

\* Fault: the lease grows by what it had left.
ExtendedFurther(h) == row[h].left + TTL

\* LEAST(created_at + MaxLife, now() + TTL).
Extended(h) == IF MaxLife - use[h].age < TTL THEN MaxLife - use[h].age ELSE TTL

\* One turn of _lease_heartbeat: a refused or failed renewal cancels the owner.
Renew(h) ==
  /\ use[h].pc = "using" /\ use[h].since >= Beat
  /\ \/ /\ Renewable(h)
        /\ row' = [row EXCEPT ![h].left = Extended(h)]
        /\ use' = [use EXCEPT ![h].since = 0]
     \/ /\ use' = [use EXCEPT ![h].pc = "cleanup"]
        /\ UNCHANGED row
  /\ UNCHANGED <<chat, seq, op, mem, ghosts>>

Stored(h) == IF mem = 0 \/ use[h].epoch < mem THEN use[h].epoch ELSE mem

\* Fault: the transaction that stores a result trusts the lease.
WriteTrusting(h) ==
  /\ use[h].pc = "using" /\ use[h].ltm /\ chat.here
  /\ mem' = Stored(h)
  /\ UNCHANGED <<chat, seq, row, use, op, ghosts>>

\* _store_embedded_memory: the memory is stored under the generation of the
\* snapshot, or not at all.
Write(h) ==
  /\ use[h].pc = "using" /\ use[h].ltm /\ Current(use[h].epoch, TRUE)
  /\ mem' = Stored(h)
  /\ UNCHANGED <<chat, seq, row, use, op, ghosts>>

\* The body of private_data_lease ends or is cancelled: its finally begins.
Leave(h) == /\ use[h].pc = "using"
            /\ use' = [use EXCEPT ![h].pc = "cleanup"]
            /\ UNCHANGED <<chat, seq, row, op, mem, ghosts>>

\* _release_private_data_lease; a failed DELETE is logged and the row expires.
Release(h) == /\ use[h].pc = "cleanup"
              /\ use' = [use EXCEPT ![h] = NoUse]
              /\ row' \in {row, [row EXCEPT ![h] = NoRow]}
              /\ UNCHANGED <<chat, seq, op, mem, ghosts>>

\* The owner's process dies, and its provider call with it.
OwnerCrash(h) == /\ use[h].pc \in {"using", "cleanup"}
                 /\ use' = [use EXCEPT ![h] = NoUse]
                 /\ UNCHANGED <<chat, seq, row, op, mem, ghosts>>

Tick == /\ \A h \in Holders : use[h].pc = "using" => use[h].since < Beat + Lag
        /\ row' = [h \in Holders |->
                     [row[h] EXCEPT !.left = IF @ > 0 THEN @ - 1 ELSE 0]]
        /\ use' = [h \in Holders |->
                     IF use[h].pc # "using" THEN use[h]
                     ELSE [use[h] EXCEPT !.since = @ + 1,
                                         !.age = IF @ < MaxLife THEN @ + 1 ELSE MaxLife]]
        /\ UNCHANGED <<chat, seq, op, mem, ghosts>>

-----------------------------------------------------------------------------
\* Revoking it.

Gates == {"erase", "forget"}
LtmOnly(o) == op[o].kind # "erase"

\* The next value of memory_consent_epoch_seq, never given out before.
NextEpoch == seq + 1

\* Fault: the guard learns of its barrier when the commit is acknowledged.
BarrierUnarmed(o, k) ==
  /\ op[o].pc = "idle" /\ chat.here /\ seq < MaxEpoch
  /\ seq' = NextEpoch
  /\ chat' = [chat EXCEPT !.epoch = NextEpoch, !.blocked = TRUE]
  /\ op' \in {[op EXCEPT ![o] = [kind |-> k, bar |-> NextEpoch, prev |-> chat.ltm,
                                 pc |-> "drain"]], op}
  /\ orphaned' = FALSE
  /\ UNCHANGED <<row, use, mem, revoked, wiped, choice>>

\* Phase 1 of private_data_barrier: a new generation and the gate.  A command
\* cancelled in its COMMIT already knows what to restore.
Barrier(o, k) ==
  /\ op[o].pc = "idle" /\ chat.here /\ seq < MaxEpoch
  /\ seq' = NextEpoch
  /\ chat' = [chat EXCEPT !.epoch = NextEpoch, !.blocked = TRUE]
  /\ \E pc \in {"drain", "restore"} :
       op' = [op EXCEPT ![o] = [kind |-> k, bar |-> NextEpoch, prev |-> chat.ltm, pc |-> pc]]
  /\ orphaned' = FALSE
  /\ UNCHANGED <<row, use, mem, revoked, wiped, choice>>

\* set_ltm_enabled(False): the trigger of migration 069 takes a new generation
\* when the switch really turns.  A gate makes it raise.
Disable(o) ==
  /\ op[o].pc = "idle" /\ chat.here /\ ~chat.blocked
  /\ chat.ltm => seq < MaxEpoch
  /\ seq' = IF chat.ltm THEN NextEpoch ELSE seq
  /\ chat' = [chat EXCEPT !.ltm = FALSE, !.epoch = IF chat.ltm THEN NextEpoch ELSE @]
  /\ op' = [op EXCEPT ![o] = [kind |-> "disable", pc |-> "drain", bar |-> chat'.epoch,
                              prev |-> chat.ltm]]
  /\ choice' = FALSE
  /\ UNCHANGED <<row, use, mem, revoked, wiped, orphaned>>

\* set_ltm_enabled(True).
Enable == /\ chat.here /\ ~chat.blocked /\ ~chat.ltm
          /\ chat' = [chat EXCEPT !.ltm = TRUE]
          /\ choice' = TRUE
          /\ UNCHANGED <<seq, row, use, op, mem, revoked, wiped, orphaned>>

\* Fault: every command waits for the long-term-memory leases only.
OldMemory(o, h) == row[h].live /\ row[h].epoch < op[o].bar /\ row[h].ltm

\* Rows a command waits for: older generations, in its scope.
Old(o, h) == row[h].live /\ row[h].epoch < op[o].bar /\ (LtmOnly(o) => row[h].ltm)

\* One poll of wait_for_private_data_leases: the expired rows go, the others count.
Poll(o) ==
  /\ op[o].pc = "drain"
  /\ row' = [h \in Holders |-> IF row[h].left = 0 THEN NoRow ELSE row[h]]
  /\ op' = [op EXCEPT ![o].pc =
              IF \E h \in Holders : Old(o, h) /\ row[h].left > 0 THEN "drain" ELSE "sweep"]
  /\ UNCHANGED <<chat, seq, use, mem, ghosts>>

\* Its last transaction.
Sweep(o) ==
  /\ op[o].pc = "sweep"
  /\ row' = [h \in Holders |-> IF Old(o, h) THEN NoRow ELSE row[h]]
  /\ op' = [op EXCEPT ![o].pc = "act"]
  /\ UNCHANGED <<chat, seq, use, mem, ghosts>>

\* The barrier is still this command's.
Mine(o) == chat.here /\ chat.epoch = op[o].bar /\ chat.blocked

\* The caller learns of the result, or an exception after COMMIT hides it.
Over(o) == op' \in {[op EXCEPT ![o] = NoOp], [op EXCEPT ![o].pc = "restore"]}

\* _finish_account_erasure (DELETE FROM users cascades).
CommitErase(o) ==
  /\ op[o].pc = "act" /\ op[o].kind = "erase" /\ Mine(o)
  /\ chat' = [chat EXCEPT !.here = FALSE]
  /\ mem' = 0
  /\ revoked' = [ltm |-> op[o].bar, all |-> op[o].bar]
  /\ wiped' = op[o].bar
  /\ Over(o)
  /\ UNCHANGED <<seq, row, use, choice, orphaned>>

\* Phase 2 of delete_user_memories: delete, and unblock under a new generation.
CommitForget(o) ==
  /\ op[o].pc = "act" /\ op[o].kind = "forget" /\ Mine(o) /\ seq < MaxEpoch
  /\ seq' = NextEpoch
  /\ chat' = [chat EXCEPT !.blocked = FALSE, !.ltm = op[o].prev, !.epoch = NextEpoch]
  /\ mem' = 0
  /\ revoked' = [revoked EXCEPT !.ltm = op[o].bar]
  /\ wiped' = op[o].bar
  /\ Over(o)
  /\ UNCHANGED <<row, use, choice, orphaned>>

\* set_ltm_enabled(False) returns.
CommitDisable(o) ==
  /\ op[o].pc = "act" /\ op[o].kind = "disable"
  /\ revoked' = [revoked EXCEPT !.ltm = IF @ < op[o].bar THEN op[o].bar ELSE @]
  /\ op' = [op EXCEPT ![o] = NoOp]
  /\ UNCHANGED <<chat, seq, row, use, mem, wiped, choice, orphaned>>

\* A command is cancelled, a statement or the purge of queued jobs raises, or the
\* barrier has been replaced: the guard compensates; set_ltm_enabled has none.
Fail(o) ==
  /\ op[o].pc \in {"drain", "sweep", "act"}
  /\ op' = [op EXCEPT ![o] = IF op[o].kind = "disable" THEN NoOp
                             ELSE [op[o] EXCEPT !.pc = "restore"]]
  /\ UNCHANGED <<chat, seq, row, use, mem, ghosts>>

\* Fault: whatever gate is there is lifted.
RestorableGate(o) == chat.here

\* restore_private_data_barrier applies to its exact generation only.
Restorable(o) == Mine(o)

Restore(o) ==
  /\ op[o].pc = "restore"
  /\ op' = [op EXCEPT ![o] = NoOp]
  /\ IF Restorable(o)
     THEN /\ seq < MaxEpoch
          /\ seq' = NextEpoch
          /\ chat' = [chat EXCEPT !.blocked = FALSE, !.ltm = op[o].prev, !.epoch = NextEpoch]
     ELSE UNCHANGED <<chat, seq>>
  /\ UNCHANGED <<row, use, mem, ghosts>>

\* The command's process dies, or its compensation fails: the gate stays until
\* another command takes it over.
OpCrash(o) ==
  /\ op[o].pc # "idle"
  /\ op' = [op EXCEPT ![o] = NoOp]
  /\ orphaned' = (orphaned \/ (op[o].kind \in Gates /\ op[o].bar = chat.epoch))
  /\ UNCHANGED <<chat, seq, row, use, mem, revoked, wiped, choice>>

\* The same person comes back: a new account, ensure_chat_generation's new row.
Return == /\ ~chat.here /\ seq < MaxEpoch
          /\ seq' = NextEpoch
          /\ chat' = [here |-> TRUE, epoch |-> NextEpoch, blocked |-> FALSE, ltm |-> TRUE]
          /\ choice' = TRUE
          /\ UNCHANGED <<row, use, op, mem, revoked, wiped, orphaned>>

Next == \/ \E h \in Holders : \/ Snapshot(h) \/ Acquire(h) \/ Renew(h) \/ Write(h)
                              \/ Leave(h) \/ Release(h) \/ OwnerCrash(h)
        \/ \E o \in Ops : \/ \E k \in Gates : Barrier(o, k)
                          \/ Disable(o) \/ Poll(o) \/ Sweep(o)
                          \/ CommitErase(o) \/ CommitForget(o) \/ CommitDisable(o)
                          \/ Fail(o) \/ Restore(o) \/ OpCrash(o)
        \/ Enable \/ Return \/ Tick

Spec == Init /\ [][Next]_vars

-----------------------------------------------------------------------------
\* The types: no lease is longer than TTL, and no use older than its renewal is late.
TypeOK ==
  /\ chat \in [here : BOOLEAN, epoch : Epochs, blocked : BOOLEAN, ltm : BOOLEAN]
  /\ seq \in Epochs
  /\ row \in [Holders -> [live : BOOLEAN, epoch : 0..MaxEpoch, ltm : BOOLEAN, left : 0..TTL]]
  /\ use \in [Holders -> [pc : {"idle", "ready", "using", "cleanup"}, epoch : 0..MaxEpoch,
                          ltm : BOOLEAN, age : 0..MaxLife, since : 0..(Beat + Lag)]]
  /\ op \in [Ops -> [pc : {"idle", "drain", "sweep", "act", "restore"},
                     kind : Gates \cup {"disable", "none"}, bar : 0..MaxEpoch, prev : BOOLEAN]]
  /\ mem \in 0..MaxEpoch
  /\ revoked \in [ltm : 0..MaxEpoch, all : 0..MaxEpoch]
  /\ wiped \in 0..MaxEpoch
  /\ choice \in BOOLEAN
  /\ orphaned \in BOOLEAN

\* A task uses data the account has already been told is out of use.
Outlived(h) == /\ use[h].pc = "using"
               /\ use[h].epoch < (IF use[h].ltm THEN revoked.ltm ELSE revoked.all)

\* Revocation has drained every use of the older generations when it is
\* acknowledged, a use that has reached its maximum lifetime excepted.
DrainComplete == \A h \in Holders : Outlived(h) => use[h].age = MaxLife

\* "Do not let the provider outlive a lease which can no longer be renewed"
\* (memory_consent.py): no use at all survives an acknowledged revocation.
NoUseAfterRevocation == \A h \in Holders : ~Outlived(h)

\* What was deleted stays deleted: no late result of an older generation, of the
\* same account or of the one before it, is stored after the deletion.
ForgottenStaysForgotten == mem # 0 => mem > wiped

\* Commands that fail, compensate late or take each other's gate over never
\* change the account's own decision on long-term memory.
ConsentKept == chat.here => chat.ltm = choice

\* A gate is always some live command's to lift, unless that command died.
GateHasOwner ==
  (chat.here /\ chat.blocked) =>
    \/ \E o \in Ops : op[o].kind \in Gates /\ op[o].bar = chat.epoch
    \/ orphaned

\* A revocation waits TTL at most, whatever becomes of the tasks it waits for:
\* while it drains, no lease in its scope is added or extended.
DrainShrinks ==
  [][\A o \in Ops, h \in Holders :
       (op[o].pc = "drain" /\ op'[o].pc = "drain" /\ Old(o, h)') =>
          Old(o, h) /\ row'[h].left <= row[h].left]_vars
=============================================================================

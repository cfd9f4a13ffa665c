------------------------ MODULE BroadcastJournalProofs ------------------------
(***************************************************************************)
(* The journal of durable broadcasts, proved for any number of batches,    *)
(* recipients, Bot calls and privacy generations: its types, its counters, *)
(* the honesty of its reports and the refinement of BroadcastPromise.      *)
(*                                                                         *)
(* The inductive invariant Inv is a conjunction of named parts; every      *)
(* action has one lemma per part it can disturb.                           *)
(***************************************************************************)
EXTENDS BroadcastJournal, FiniteSetTheorems, TLAPS

-----------------------------------------------------------------------------
\* The inductive invariant.

\* How far the request, the job and the execution of one batch can be apart:
\* nothing exists before create_batch, nothing runs before the queue's job, and
\* a delivery exists only under its execution, or as a request lost with it.
Stages(b) ==
  /\ enq[b].pc \in {"idle", "ready"} => batch[b].state = "none"
  /\ enq[b].pc \in {"created", "accepted", "unknown", "rejected"} => batch[b].state # "none"
  /\ enq[b].pc \in {"created", "rejected"} => job[b] = "absent"
  /\ batch[b].state = "none" => /\ job[b] = "absent" /\ ~doom[b]
                                /\ batch[b] = NoBatch
                                /\ \A u \in Users : rec[b][u].state = "none"
  /\ job[b] \in {"absent", "queued"} => exec[b] = "idle"
  /\ batch[b].state = "running" \/ batch[b].owned => exec[b] \in {"deliver", "over"}
  /\ enq[b].pc = "ready" /\ enq[b].parent # None => batch[enq[b].parent].state = "finished"

\* Where the execution stands decides where its deliveries may be.
Tasks(b, u) ==
  /\ exec[b] \in {"idle", "claim"} => dl[b][u].pc = "idle"
  /\ exec[b] = "over" => dl[b][u].pc \in {"idle", "lost"}
  /\ exec[b] = "deliver" => dl[b][u].pc \notin {"idle", "lost"}

\* A recipient's row by itself.
RowKept(b, u) ==
  LET r == rec[b][u] IN
  /\ r.owned <=> r.state = "started"
  /\ r.retry => r.state = "failed"
  /\ r.state = "none" => r.epoch = 0 /\ ~r.key
  /\ r.state # "none" => r.epoch # 0
  /\ r.state \notin {"none", "failed"} => r.key
  /\ r.epoch <= user[u].epoch
  /\ enq[b].ok[u] <= user[u].epoch

\* Two rows of one slot never hold the schedule key together.
OneKey(b, c, u) == rec[b][u].key /\ rec[c][u].key /\ rec[b][u].epoch = rec[c][u].epoch => b = c

\* The generations of one recipient.
Generations(u) == /\ user[u].epoch <= seq /\ user[u].erased <= user[u].epoch
                  /\ user[u].here => user[u].erased < user[u].epoch

Reached(b, u, e) == <<b, u, e>> \in reached

\* A message that arrived leaves a row that says it may have, until the account
\* is erased.
Trace(b, u) ==
  \A e \in Epochs : Reached(b, u, e) =>
    /\ e <= user[u].epoch
    /\ exec[b] \in {"deliver", "over"}
    /\ \/ rec[b][u].state = "none" /\ e <= user[u].erased
       \/ rec[b][u].epoch = e /\ rec[b][u].state \in {"started", "sent", "unknown_delivery"}

\* What a report of "sent" rests on.
SentReached(b, u) == rec[b][u].state = "sent" => Reached(b, u, rec[b][u].epoch)

\* What the owner of a delivery knows about its own messages and its row.
Touched(b, u) == Reached(b, u, rec[b][u].epoch)
Untouched(b, u) == \A e \in Epochs : ~Reached(b, u, e)
Leased(b, u) == /\ user[u].here /\ rec[b][u].epoch > user[u].erased
                /\ rec[b][u].state \in {"started", "unknown_delivery"}
Knows(b, u, d) == /\ Touched(b, u) => d.rcpt \/ d.quar
                  /\ d.rcpt => Touched(b, u)
                  /\ d.quar => d.res = "unknown_delivery"
                  /\ d.res = "sent" => d.rcpt
Owner(b, u, d) ==
  /\ d.pc = "queued" => rec[b][u].state \in {"pending", "skipped", "none"} /\ Untouched(b, u)
  /\ d.pc \in {"claimed", "denied"} =>
       rec[b][u].state \in {"started", "unknown_delivery", "none"} /\ Untouched(b, u)
  /\ d.pc \in {"queued", "claimed"} => ~d.quar /\ ~d.rcpt /\ d.res = "none"
  /\ d.pc = "denied" => d.res = "skipped"
  /\ Holds(d) => Leased(b, u)
  /\ d.pc \in {"helper", "armed", "cleared", "persist"} => Knows(b, u, d)
  /\ d.pc \in {"armed", "cleared"} => ~d.quar
  /\ d.pc = "settle" => /\ d.res \in Outcomes
                        /\ Touched(b, u) => d.res \in {"sent", "unknown_delivery"}
                        /\ d.res = "sent" => Touched(b, u)

StagesOK == \A b \in Batches : Stages(b)
TasksOK == \A b \in Batches, u \in Users : Tasks(b, u)
RowsOK == \A b \in Batches, u \in Users : RowKept(b, u)
KeysOK == \A b, c \in Batches, u \in Users : OneKey(b, c, u)
GenerationsOK == \A u \in Users : Generations(u)
TraceOK == \A b \in Batches, u \in Users : Trace(b, u)
SentOK == \A b \in Batches, u \in Users : SentReached(b, u)
OwnersOK == \A b \in Batches, u \in Users : Owner(b, u, dl[b][u])

Inv == /\ TypeOK /\ StagesOK /\ TasksOK /\ RowsOK /\ KeysOK
       /\ GenerationsOK /\ TraceOK /\ SentOK /\ OwnersOK /\ CountersExact

-----------------------------------------------------------------------------
\* Types, once and for all.

LEMMA Blank == /\ NoRow \in Recipient /\ NoBatch \in BatchRow
               /\ NoRequest \in Request /\ NoDelivery \in Delivery
BY BroadcastAssumption DEF NoRow, NoBatch, NoRequest, NoDelivery, Recipient, BatchRow,
   Request, Delivery, Outcomes

LEMMA Typed ==
  ASSUME TypeOK, NEW b \in Batches, NEW u \in Users
  PROVE  /\ batch[b] \in BatchRow /\ rec[b] \in [Users -> Recipient]
         /\ rec[b][u] \in Recipient /\ enq[b] \in Request
         /\ dl[b] \in [Users -> Delivery] /\ dl[b][u] \in Delivery
         /\ user[u] \in Account
BY DEF TypeOK

LEMMA Numbers == MaxEpoch \in Nat /\ MaxSends \in Nat /\ MaxOpen \in Nat
BY BroadcastAssumption

\* One task moves, one row is written: every other one stays.
LEMMA GoesTo ==
  ASSUME TypeOK, NEW b \in Batches, NEW u \in Users, NEW d \in Delivery, Goes(b, u, d)
  PROVE  /\ dl' \in [Batches -> [Users -> Delivery]]
         /\ dl'[b][u] = d
         /\ \A c \in Batches, v \in Users : c # b \/ v # u => dl'[c][v] = dl[c][v]
BY DEF TypeOK, Goes

LEMMA WritesTo ==
  ASSUME TypeOK, NEW b \in Batches, NEW u \in Users, NEW r \in Recipient, Writes(b, u, r)
  PROVE  /\ rec' \in [Batches -> [Users -> Recipient]]
         /\ rec'[b][u] = r
         /\ \A c \in Batches, v \in Users : c # b \/ v # u => rec'[c][v] = rec[c][v]
BY DEF TypeOK, Writes

\* A part of the invariant stands while what it speaks of stands.
LEMMA StagesFrame == ASSUME StagesOK, UNCHANGED <<enq, batch, rec, job, exec, doom>> PROVE StagesOK'
BY DEF StagesOK, Stages
LEMMA TasksFrame == ASSUME TasksOK, UNCHANGED <<exec, dl>> PROVE TasksOK'
BY DEF TasksOK, Tasks
LEMMA RowsFrame == ASSUME RowsOK, UNCHANGED <<rec, user, enq>> PROVE RowsOK'
BY DEF RowsOK, RowKept
LEMMA KeysFrame == ASSUME KeysOK, UNCHANGED rec PROVE KeysOK'
BY DEF KeysOK, OneKey
LEMMA GenerationsFrame == ASSUME GenerationsOK, UNCHANGED <<user, seq>> PROVE GenerationsOK'
BY DEF GenerationsOK, Generations
LEMMA TraceFrame == ASSUME TraceOK, UNCHANGED <<reached, user, exec, rec>> PROVE TraceOK'
BY DEF TraceOK, Trace, Reached
LEMMA SentFrame == ASSUME SentOK, UNCHANGED <<rec, reached>> PROVE SentOK'
BY DEF SentOK, SentReached, Reached
LEMMA OwnersFrame == ASSUME OwnersOK, UNCHANGED <<dl, rec, user, reached>> PROVE OwnersOK'
BY DEF OwnersOK, Owner, Knows, Leased, Touched, Untouched, Reached, Holds
LEMMA CountersFrame == ASSUME CountersExact, UNCHANGED <<batch, rec>> PROVE CountersExact'
BY DEF CountersExact, InState, Retryable

\* A step that may change what the journal keeps of an attempt and nothing else
\* of any row.
SameRows == \A c \in Batches, v \in Users :
              /\ rec'[c][v].state = rec[c][v].state /\ rec'[c][v].owned = rec[c][v].owned
              /\ rec'[c][v].retry = rec[c][v].retry /\ rec'[c][v].epoch = rec[c][v].epoch
              /\ rec'[c][v].key = rec[c][v].key

LEMMA SameCounts ==
  ASSUME TypeOK, CountersExact, SameRows, UNCHANGED batch
  PROVE  CountersExact'
<1>1. ASSUME NEW b \in Batches
      PROVE  Retryable(b)' = Retryable(b) /\ \A s : InState(b, s)' = InState(b, s)
  BY DEF SameRows, InState, Retryable
<1> QED BY <1>1 DEF CountersExact

\* One delivery goes on without a message arriving: its owner's knowledge is all
\* there is to check.
LEMMA DeliveryStep ==
  ASSUME Inv, NEW b \in Batches, NEW u \in Users, NEW d \in Delivery, Goes(b, u, d),
         dl[b][u].pc \notin {"idle", "lost"}, d.pc \notin {"idle", "lost"}, Owner(b, u, d),
         rec' \in [Batches -> [Users -> Recipient]], SameRows,
         UNCHANGED <<batch, enq, job, exec, doom, user, seq, reached>>
  PROVE  Inv'
<1> USE DEF Inv
<1>1. /\ dl' \in [Batches -> [Users -> Delivery]] /\ dl'[b][u] = d
      /\ \A c \in Batches, v \in Users : c # b \/ v # u => dl'[c][v] = dl[c][v]
  BY GoesTo
<1>2. TypeOK'
  BY <1>1 DEF TypeOK
<1>3. StagesOK' /\ RowsOK' /\ KeysOK' /\ SentOK'
  <2>1. StagesOK'
    BY DEF SameRows, StagesOK, Stages
  <2>2. RowsOK'
    BY DEF SameRows, RowsOK, RowKept
  <2>3. KeysOK'
    BY DEF SameRows, KeysOK, OneKey
  <2>4. SentOK'
    BY DEF SameRows, SentOK, SentReached, Reached
  <2> QED BY <2>1, <2>2, <2>3, <2>4
<1>4. TraceOK'
  BY DEF SameRows, TraceOK, Trace, Reached
<1>5. TasksOK'
  BY <1>1 DEF TasksOK, Tasks
<1>6. OwnersOK'
  <2>1. ASSUME NEW c \in Batches, NEW v \in Users, NEW x, Owner(c, v, x)
        PROVE  Owner(c, v, x)'
    BY <2>1 DEF SameRows, Owner, Knows, Leased, Touched, Untouched, Reached, Holds
  <2> QED BY <1>1, <2>1 DEF OwnersOK
<1>7. GenerationsOK' /\ CountersExact'
  BY GenerationsFrame, SameCounts
<1> QED BY <1>2, <1>3, <1>4, <1>5, <1>6, <1>7

\* A task that ends, done or with an exception, knows nothing any more.
LEMMA OverKnows ==
  ASSUME NEW b, NEW u, NEW pc \in {"done", "raised"}
  PROVE  /\ [NoDelivery EXCEPT !.pc = pc] \in Delivery
         /\ [NoDelivery EXCEPT !.pc = pc].pc = pc
         /\ Owner(b, u, [NoDelivery EXCEPT !.pc = pc])
<1>1. [NoDelivery EXCEPT !.pc = pc] \in Delivery /\ [NoDelivery EXCEPT !.pc = pc].pc = pc
  BY Blank DEF Delivery
<1> QED BY <1>1 DEF Owner, Holds

\* The lease is granted to the generation of a row that exists.
LEMMA AcquireLease_Inv ==
  ASSUME Inv, NEW b \in Batches, NEW u \in Users, AcquireLease(b, u)
  PROVE  Inv'
<1> DEFINE granted == [dl[b][u] EXCEPT !.pc = "helper"]
           denied == [dl[b][u] EXCEPT !.pc = "denied", !.res = "skipped"]
<1>1. /\ rec[b][u].state \in {"started", "unknown_delivery", "none"} /\ Untouched(b, u)
      /\ ~dl[b][u].quar /\ ~dl[b][u].rcpt /\ dl[b][u].res = "none"
      /\ rec[b][u].state = "none" => rec[b][u].epoch = 0
  BY DEF Inv, AcquireLease, OwnersOK, Owner, RowsOK, RowKept
<1>2. /\ granted \in Delivery /\ granted.pc = "helper" /\ granted.res = "none"
      /\ ~granted.quar /\ ~granted.rcpt
      /\ denied \in Delivery /\ denied.pc = "denied" /\ denied.res = "skipped"
  <2>1. dl[b][u] \in Delivery
    BY Typed DEF Inv
  <2>2. denied \in Delivery /\ denied.pc = "denied" /\ denied.res = "skipped"
    BY <2>1 DEF Delivery, Outcomes
  <2>3. granted \in Delivery
    BY <2>1 DEF Delivery
  <2> QED BY <1>1, <2>1, <2>2, <2>3 DEF Delivery
<1> HIDE DEF granted, denied
<1>3. Owner(b, u, denied)
  BY <1>1, <1>2 DEF Owner, Holds
<1>4. ASSUME user[u].here, user[u].epoch = rec[b][u].epoch
      PROVE  Owner(b, u, granted)
  <2>1. rec[b][u].epoch \in Epochs /\ rec[b][u].epoch # 0 /\ rec[b][u].epoch > user[u].erased
    BY <1>4, Typed DEF Inv, Account, Epochs, GenerationsOK, Generations
  <2> QED BY <1>1, <1>2, <1>4, <2>1 DEF Owner, Knows, Leased, Touched, Untouched, Reached, Holds
<1>5. Goes(b, u, denied) \/ (Goes(b, u, granted) /\ Owner(b, u, granted))
  BY <1>4 DEF AcquireLease, granted, denied
<1>6. SameRows /\ rec' \in [Batches -> [Users -> Recipient]]
  BY DEF AcquireLease, SameRows, Inv, TypeOK
<1> QED BY <1>2, <1>3, <1>5, <1>6, DeliveryStep DEF AcquireLease

\* What the owner knows follows its delivery from the helper to the Bot and back.
LEMMA OwnerKnows ==
  ASSUME Inv, NEW b \in Batches, NEW u \in Users,
         dl[b][u].pc \in {"helper", "armed", "cleared", "persist"}
  PROVE  /\ dl[b][u] \in Delivery /\ Leased(b, u) /\ Knows(b, u, dl[b][u])
         /\ dl[b][u].pc \in {"armed", "cleared"} => ~dl[b][u].quar
BY Typed DEF Inv, OwnersOK, Owner, Holds

LEMMA StillOwner ==
  ASSUME NEW b, NEW u, NEW d, d.pc \in {"helper", "armed", "cleared", "persist"},
         Leased(b, u), Knows(b, u, d), d.pc \in {"armed", "cleared"} => ~d.quar
  PROVE  Owner(b, u, d)
BY DEF Owner, Holds

\* The second checkpoint.
LEMMA Clear_Inv ==
  ASSUME Inv, NEW b \in Batches, NEW u \in Users, Clear(b, u)
  PROVE  Inv'
<1> DEFINE d == dl[b][u]
           cleared == [d EXCEPT !.pc = "cleared"]
           skipped == [d EXCEPT !.pc = "persist", !.res = "skipped", !.again = FALSE]
           caught == [d EXCEPT !.pc = "helper"]
<1>1. d \in Delivery /\ Leased(b, u) /\ Knows(b, u, d) /\ ~d.quar /\ d.pc = "armed"
  BY OwnerKnows DEF Clear
<1> HIDE DEF d
<1>2. /\ cleared \in Delivery /\ cleared.pc = "cleared" /\ Owner(b, u, cleared)
      /\ caught \in Delivery /\ caught.pc = "helper" /\ Owner(b, u, caught)
  <2>1. cleared \in Delivery /\ cleared.pc = "cleared" /\ caught \in Delivery /\ caught.pc = "helper"
    BY <1>1 DEF Delivery
  <2>2. /\ cleared.quar = d.quar /\ cleared.rcpt = d.rcpt /\ cleared.res = d.res
        /\ caught.quar = d.quar /\ caught.rcpt = d.rcpt /\ caught.res = d.res
    BY <1>1 DEF Delivery
  <2> HIDE DEF cleared, caught
  <2> QED BY <1>1, <2>1, <2>2, StillOwner DEF Knows
<1>3. skipped \in Delivery /\ skipped.pc = "persist" /\ Owner(b, u, skipped)
  <2>1. /\ skipped \in Delivery /\ skipped.pc = "persist"
        /\ skipped.quar = d.quar /\ skipped.rcpt = d.rcpt /\ skipped.res = "skipped"
    BY <1>1 DEF Delivery, Outcomes
  <2> HIDE DEF skipped
  <2> QED BY <1>1, <2>1, StillOwner DEF Knows
<1>4. Goes(b, u, cleared) \/ Goes(b, u, skipped) \/ Goes(b, u, caught)
  BY DEF Clear, d
<1>5. SameRows /\ rec' \in [Batches -> [Users -> Recipient]]
  BY DEF Clear, SameRows, Inv, TypeOK
<1> HIDE DEF cleared, skipped, caught
<1>6. dl[b][u].pc \notin {"idle", "lost"}
  BY <1>1 DEF d
<1> QED BY <1>2, <1>3, <1>4, <1>5, <1>6, DeliveryStep DEF Clear

\* What the journal keeps of an attempt is no part of what it reports.
LEMMA AttemptOnly ==
  ASSUME TypeOK, NEW b \in Batches, NEW u \in Users, NEW x \in BOOLEAN,
         UNCHANGED rec \/ Writes(b, u, [rec[b][u] EXCEPT !.att = x])
  PROVE  SameRows /\ rec' \in [Batches -> [Users -> Recipient]]
<1> DEFINE r == [rec[b][u] EXCEPT !.att = x]
<1>1. /\ r \in Recipient /\ r.state = rec[b][u].state /\ r.owned = rec[b][u].owned
      /\ r.retry = rec[b][u].retry /\ r.epoch = rec[b][u].epoch /\ r.key = rec[b][u].key
  BY Typed DEF Recipient
<1>2. CASE UNCHANGED rec
  BY <1>2 DEF SameRows, TypeOK
<1>3. CASE Writes(b, u, r)
  <2> HIDE DEF r
  <2> QED BY <1>1, <1>3, WritesTo DEF SameRows
<1> QED BY <1>2, <1>3

\* The first checkpoint and start_attempt.
LEMMA Arm_Inv ==
  ASSUME Inv, NEW b \in Batches, NEW u \in Users, Arm(b, u)
  PROVE  Inv'
<1> DEFINE d == dl[b][u]
           n == [d EXCEPT !.n = @ + 1]
           skipped == [n EXCEPT !.res = "skipped", !.again = FALSE]
           armed == [n EXCEPT !.pc = "armed"]
           lost == [n EXCEPT !.quar = TRUE, !.res = "unknown_delivery", !.again = FALSE]
           failed == [n EXCEPT !.res = "failed", !.again = TRUE]
<1>1. d \in Delivery /\ d.n < MaxSends
  BY Typed DEF Inv, Arm
<1>2. /\ n \in Delivery /\ n.pc = d.pc /\ n.quar = d.quar
      /\ n.rcpt = d.rcpt /\ n.res = d.res
  BY <1>1, Numbers DEF Delivery
<1>3. d.pc = "helper" /\ ~d.quar /\ Leased(b, u) /\ Knows(b, u, d)
  BY <1>2, OwnerKnows DEF Arm
<1>4. /\ Goes(b, u, skipped) \/ Goes(b, u, armed) \/ Goes(b, u, lost) \/ Goes(b, u, failed)
      /\ UNCHANGED rec \/ Writes(b, u, [rec[b][u] EXCEPT !.att = TRUE])
  BY DEF Arm
<1>5. dl[b][u].pc \notin {"idle", "lost"}
  BY <1>3
<1> HIDE DEF d, n
<1>6. skipped \in Delivery /\ skipped.pc = "helper" /\ Owner(b, u, skipped)
  <2>1. /\ skipped \in Delivery /\ skipped.pc = "helper"
        /\ skipped.quar = d.quar /\ skipped.rcpt = d.rcpt /\ skipped.res = "skipped"
    BY <1>2, <1>3 DEF Delivery, Outcomes
  <2> HIDE DEF skipped
  <2> QED BY <1>3, <2>1, StillOwner DEF Knows
<1>7. armed \in Delivery /\ armed.pc = "armed" /\ Owner(b, u, armed)
  <2>1. /\ armed \in Delivery /\ armed.pc = "armed"
        /\ armed.quar = d.quar /\ armed.rcpt = d.rcpt /\ armed.res = d.res
    BY <1>2, <1>3 DEF Delivery
  <2> HIDE DEF armed
  <2> QED BY <1>3, <2>1, StillOwner DEF Knows
<1>8. lost \in Delivery /\ lost.pc = "helper" /\ Owner(b, u, lost)
  <2>1. /\ lost \in Delivery /\ lost.pc = "helper"
        /\ lost.quar /\ lost.rcpt = d.rcpt /\ lost.res = "unknown_delivery"
    BY <1>2, <1>3 DEF Delivery, Outcomes
  <2> HIDE DEF lost
  <2> QED BY <1>3, <2>1, StillOwner DEF Knows
<1>9. failed \in Delivery /\ failed.pc = "helper" /\ Owner(b, u, failed)
  <2>1. /\ failed \in Delivery /\ failed.pc = "helper"
        /\ failed.quar = d.quar /\ failed.rcpt = d.rcpt /\ failed.res = "failed"
    BY <1>2, <1>3 DEF Delivery, Outcomes
  <2> HIDE DEF failed
  <2> QED BY <1>3, <2>1, StillOwner DEF Knows
<1>10. SameRows /\ rec' \in [Batches -> [Users -> Recipient]]
  BY <1>4, AttemptOnly DEF Inv
<1> HIDE DEF skipped, armed, lost, failed
<1> QED BY <1>4, <1>5, <1>6, <1>7, <1>8, <1>9, <1>10, DeliveryStep DEF Arm

\* finish_attempt.
LEMMA Persist_Inv ==
  ASSUME Inv, NEW b \in Batches, NEW u \in Users, Persist(b, u)
  PROVE  Inv'
<1> DEFINE d == dl[b][u]
           back == [d EXCEPT !.pc = "helper"]
           lost == [back EXCEPT !.quar = TRUE, !.res = "unknown_delivery", !.again = FALSE]
<1>1. d \in Delivery /\ d.pc = "persist" /\ Leased(b, u) /\ Knows(b, u, d)
  BY OwnerKnows DEF Persist
<1>2. /\ Goes(b, u, back) \/ Goes(b, u, lost)
      /\ UNCHANGED rec \/ Writes(b, u, [rec[b][u] EXCEPT !.att = FALSE])
  BY DEF Persist
<1>3. dl[b][u].pc \notin {"idle", "lost"}
  BY <1>1
<1> HIDE DEF d
<1>4. /\ back \in Delivery /\ back.pc = "helper"
      /\ back.quar = d.quar /\ back.rcpt = d.rcpt /\ back.res = d.res
  BY <1>1 DEF Delivery
<1> HIDE DEF back
<1>5. Owner(b, u, back)
  BY <1>1, <1>4, StillOwner DEF Knows
<1>6. lost \in Delivery /\ lost.pc = "helper" /\ Owner(b, u, lost)
  <2>1. /\ lost \in Delivery /\ lost.pc = "helper"
        /\ lost.quar /\ lost.rcpt = d.rcpt /\ lost.res = "unknown_delivery"
    BY <1>4 DEF Delivery, Outcomes
  <2> HIDE DEF lost
  <2> QED BY <1>1, <2>1, StillOwner DEF Knows
<1>7. SameRows /\ rec' \in [Batches -> [Users -> Recipient]]
  BY <1>2, AttemptOnly DEF Inv
<1> HIDE DEF lost
<1> QED BY <1>2, <1>3, <1>4, <1>5, <1>6, <1>7, DeliveryStep DEF Persist

\* The helper is over: the verdict claims no more than the owner knows.
LEMMA Deliver_Inv ==
  ASSUME Inv, NEW b \in Batches, NEW u \in Users, Deliver(b, u)
  PROVE  Inv'
<1>1. PICK cut \in BOOLEAN :
        Goes(b, u, [NoDelivery EXCEPT !.pc = "settle", !.res = Verdict(dl[b][u], cut).res,
                                      !.again = Verdict(dl[b][u], cut).again])
  BY DEF Deliver
<1> DEFINE d == dl[b][u]
           v == Verdict(d, cut)
           told == [NoDelivery EXCEPT !.pc = "settle", !.res = v.res, !.again = v.again]
<1>2. d \in Delivery /\ d.pc = "helper" /\ Leased(b, u) /\ Knows(b, u, d)
  BY OwnerKnows DEF Deliver
<1>3. dl[b][u].pc \notin {"idle", "lost"} /\ Goes(b, u, told)
  BY <1>1, <1>2
<1> HIDE DEF d
<1>4. /\ v.res \in Outcomes /\ v.again \in BOOLEAN
      /\ Touched(b, u) => v.res \in {"sent", "unknown_delivery"}
      /\ v.res = "sent" => Touched(b, u)
  <2>1. d.quar \in BOOLEAN /\ d.rcpt \in BOOLEAN /\ d.again \in BOOLEAN /\ d.res \in Outcomes \cup {"none"}
    BY <1>2 DEF Delivery
  <2>2. CASE d.quar
    BY <1>2, <2>1, <2>2 DEF Verdict, Knows, Outcomes
  <2>3. CASE ~d.quar /\ d.rcpt
    BY <1>2, <2>1, <2>3 DEF Verdict, Knows, Outcomes
  <2>4. CASE ~d.quar /\ ~d.rcpt /\ d.res = "none"
    BY <1>2, <2>1, <2>4 DEF Verdict, Knows, Outcomes
  <2>5. CASE ~d.quar /\ ~d.rcpt /\ d.res # "none"
    BY <1>2, <2>1, <2>5 DEF Verdict, Knows, Outcomes
  <2> QED BY <2>1, <2>2, <2>3, <2>4, <2>5
<1> HIDE DEF v
<1>5. told \in Delivery /\ told.pc = "settle" /\ told.res = v.res
  BY <1>4, Blank DEF Delivery
<1> HIDE DEF told
<1>6. Owner(b, u, told)
  BY <1>2, <1>4, <1>5 DEF Owner, Holds
<1>7. SameRows /\ rec' \in [Batches -> [Users -> Recipient]]
  BY DEF Deliver, SameRows, Inv, TypeOK
<1> QED BY <1>3, <1>5, <1>6, <1>7, DeliveryStep DEF Deliver

\* A message under way arrives, or does not: its row and its owner answer for it.
LEMMA ArrivalStep ==
  ASSUME Inv, NEW b \in Batches, NEW u \in Users, NEW d \in Delivery, Goes(b, u, d),
         Leased(b, u), exec[b] \in {"deliver", "over"}, Arrives(b, u) \/ UNCHANGED reached,
         Owner(b, u, d)', Tasks(b, u)',
         UNCHANGED <<batch, rec, enq, job, exec, doom, user, seq>>
  PROVE  Inv'
<1> USE DEF Inv
<1>1. /\ dl' \in [Batches -> [Users -> Delivery]] /\ dl'[b][u] = d
      /\ \A c \in Batches, v \in Users : c # b \/ v # u => dl'[c][v] = dl[c][v]
  BY GoesTo
<1>2. rec[b][u].epoch \in Epochs /\ rec[b][u].epoch <= user[u].epoch
  BY Typed, Numbers DEF Leased, RowsOK, RowKept, Recipient, Account, Epochs
<1>3. /\ reached \subseteq reached'
      /\ \A c, v, e : Reached(c, v, e)' =>
           Reached(c, v, e) \/ (c = b /\ v = u /\ e = rec[b][u].epoch)
  BY DEF Arrives, Reached
<1>4. TypeOK'
  BY <1>1, <1>2 DEF TypeOK, Arrives
<1>5. TraceOK'
  BY <1>2, <1>3 DEF TraceOK, Trace, Leased
<1>6. SentOK'
  BY <1>3 DEF SentOK, SentReached, Reached
<1>7. TasksOK'
  BY <1>1 DEF TasksOK, Tasks
<1>8. OwnersOK'
  <2>1. ASSUME NEW c \in Batches, NEW v \in Users, c # b \/ v # u
        PROVE  Owner(c, v, dl[c][v])'
    <3>1. \A e : Reached(c, v, e)' <=> Reached(c, v, e)
      BY <1>3, <2>1 DEF Reached
    <3>2. Owner(c, v, dl[c][v])
      BY DEF OwnersOK
    <3> QED BY <1>1, <2>1, <3>1, <3>2 DEF Owner, Knows, Leased, Touched, Untouched, Holds
  <2> QED BY <1>1, <2>1 DEF OwnersOK
<1> QED
  BY <1>4, <1>5, <1>6, <1>7, <1>8, StagesFrame, RowsFrame, KeysFrame, GenerationsFrame, CountersFrame

\* The Bot call.
LEMMA BotCall_Inv ==
  ASSUME Inv, NEW b \in Batches, NEW u \in Users, BotCall(b, u)
  PROVE  Inv'
<1> DEFINE d == dl[b][u]
           over == [d EXCEPT !.pc = "persist", !.again = FALSE]
           sent == [over EXCEPT !.rcpt = TRUE, !.res = "sent"]
           failed(limited) == [over EXCEPT !.res = "failed", !.again = limited]
           open == [over EXCEPT !.quar = TRUE, !.res = "unknown_delivery"]
<1>1. /\ d \in Delivery /\ d.pc = "cleared" /\ Leased(b, u) /\ Knows(b, u, d) /\ ~d.quar
  BY OwnerKnows DEF BotCall
<1>2. \/ Arrives(b, u) /\ Goes(b, u, sent)
      \/ UNCHANGED reached /\ \E limited \in BOOLEAN : Goes(b, u, failed(limited))
      \/ (Arrives(b, u) \/ UNCHANGED reached) /\ Goes(b, u, open)
  BY DEF BotCall
<1>3. exec[b] = "deliver"
  BY <1>1 DEF Inv, TasksOK, Tasks, TypeOK
<1>4. ASSUME NEW x \in Delivery, Goes(b, u, x), x.pc = "persist", Knows(b, u, x)'
      PROVE  Inv'
  <2>1. Tasks(b, u)'
    BY <1>3, <1>4, GoesTo DEF BotCall, Inv, Tasks
  <2>2. Owner(b, u, x)'
    BY <1>1, <1>4 DEF BotCall, Owner, Holds, Leased
  <2>3. Arrives(b, u) \/ UNCHANGED reached
    BY <1>2
  <2> QED BY <1>1, <1>3, <1>4, <2>1, <2>2, <2>3, ArrivalStep DEF BotCall
<1> HIDE DEF d
<1>6. /\ over \in Delivery /\ over.pc = "persist"
      /\ over.quar = d.quar /\ over.rcpt = d.rcpt /\ over.res = d.res
  BY <1>1 DEF Delivery
<1> HIDE DEF over
<1>7. CASE Arrives(b, u) /\ Goes(b, u, sent)
  <2>1. PICK x : x = sent
    OBVIOUS
  <2>2. x \in Delivery /\ x.pc = "persist" /\ x.rcpt /\ ~x.quar /\ x.res = "sent"
    BY <1>1, <1>6, <2>1 DEF Delivery, Outcomes
  <2>3. Knows(b, u, x)'
    BY <1>1, <1>7, <2>2 DEF BotCall, Knows, Touched, Reached, Arrives
  <2> QED BY <1>4, <1>7, <2>1, <2>2, <2>3
<1>8. ASSUME NEW limited \in BOOLEAN, UNCHANGED reached, Goes(b, u, failed(limited))
      PROVE  Inv'
  <2>1. PICK x : x = failed(limited)
    OBVIOUS
  <2>2. x \in Delivery /\ x.pc = "persist" /\ x.rcpt = d.rcpt /\ ~x.quar /\ x.res = "failed"
    BY <1>1, <1>6, <2>1 DEF Delivery, Outcomes
  <2>3. Knows(b, u, x)'
    BY <1>1, <1>8, <2>2 DEF BotCall, Knows, Touched, Reached
  <2> QED BY <1>4, <1>8, <2>1, <2>2, <2>3
<1>9. CASE (Arrives(b, u) \/ UNCHANGED reached) /\ Goes(b, u, open)
  <2>1. PICK x : x = open
    OBVIOUS
  <2>2. x \in Delivery /\ x.pc = "persist" /\ x.rcpt = d.rcpt /\ x.quar /\ x.res = "unknown_delivery"
    BY <1>1, <1>6, <2>1 DEF Delivery, Outcomes
  <2>3. Knows(b, u, x)'
    BY <1>1, <1>9, <2>2 DEF BotCall, Knows, Touched, Reached, Arrives
  <2> QED BY <1>4, <1>9, <2>1, <2>2, <2>3
<1> QED BY <1>2, <1>7, <1>8, <1>9

\* A request that outlives its process arrives, or does not.
LEMMA Landed_Inv ==
  ASSUME Inv, NEW b \in Batches, NEW u \in Users, Landed(b, u)
  PROVE  Inv'
<1> DEFINE d == dl[b][u]
           idle == [d EXCEPT !.pc = "idle"]
<1>1. d \in Delivery /\ d.pc = "lost" /\ Leased(b, u) /\ Goes(b, u, idle)
  BY Typed DEF Inv, Landed, OwnersOK, Owner, Holds
<1>2. exec[b] = "over"
  BY <1>1 DEF Inv, TasksOK, Tasks, TypeOK
<1> HIDE DEF d
<1>3. PICK x : x = idle
  OBVIOUS
<1>4. x \in Delivery /\ x.pc = "idle" /\ Goes(b, u, x)
  BY <1>1, <1>3 DEF Delivery
<1>5. Owner(b, u, x)' /\ Tasks(b, u)'
  BY <1>2, <1>4, GoesTo DEF Owner, Holds, Inv, Tasks, Landed
<1> QED BY <1>1, <1>2, <1>3, <1>4, <1>5, ArrivalStep DEF Landed

\* One row of a batch that has one is written, and its batch counts it.
LEMMA WriteStep ==
  ASSUME Inv, NEW b \in Batches, NEW u \in Users, NEW d \in Delivery, NEW r \in Recipient,
         Goes(b, u, d), dl[b][u].pc \notin {"idle", "lost"}, d.pc \notin {"idle", "lost"},
         Writes(b, u, r), rec[b][u].state \in {"pending", "started"},
         r.key = rec[b][u].key, r.epoch = rec[b][u].epoch,
         r.state \notin {"none", "pending"}, r.owned <=> r.state = "started",
         r.retry => r.state = "failed",
         Touched(b, u) => r.state \in {"started", "sent", "unknown_delivery"},
         r.state = "sent" => Touched(b, u),
         Owner(b, u, d)', CountersExact', batch' \in [Batches -> BatchRow],
         \A c \in Batches : /\ batch'[c].state = batch[c].state /\ batch'[c].owned = batch[c].owned
                            /\ c # b => batch'[c] = batch[c],
         UNCHANGED <<enq, job, exec, doom, user, seq, reached>>
  PROVE  Inv'
<1> USE DEF Inv
<1>1. /\ dl' \in [Batches -> [Users -> Delivery]] /\ dl'[b][u] = d
      /\ \A c \in Batches, v \in Users : c # b \/ v # u => dl'[c][v] = dl[c][v]
  BY GoesTo
<1>2. /\ rec' \in [Batches -> [Users -> Recipient]] /\ rec'[b][u] = r
      /\ \A c \in Batches, v \in Users : c # b \/ v # u => rec'[c][v] = rec[c][v]
  BY WritesTo
<1>3. TypeOK'
  BY <1>1, <1>2 DEF TypeOK
<1>4. StagesOK'
  <2>1. batch[b].state # "none"
    BY DEF StagesOK, Stages
  <2>2. ASSUME NEW c \in Batches PROVE Stages(c)'
    <3>1. Stages(c) /\ enq[c] \in Request
      BY Typed DEF StagesOK, TypeOK
    <3>2. batch'[c].state = "none" => batch'[c] = batch[c] /\ \A v \in Users : rec'[c][v] = rec[c][v]
      BY <1>2, <2>1
    <3>3. enq[c].parent # None => batch'[enq[c].parent].state = batch[enq[c].parent].state
      BY <3>1 DEF Request
    <3> QED BY <3>1, <3>2, <3>3 DEF Stages
  <2> QED BY <2>2 DEF StagesOK
<1>5. TasksOK'
  BY <1>1 DEF TasksOK, Tasks
<1>6. RowsOK'
  BY <1>2 DEF RowsOK, RowKept
<1>7. KeysOK'
  BY <1>2 DEF KeysOK, OneKey
<1>8. TraceOK'
  <2>1. ASSUME NEW e \in Epochs, Reached(b, u, e)
        PROVE  /\ e <= user[u].epoch /\ exec[b] \in {"deliver", "over"}
               /\ rec[b][u].epoch = e /\ r.state \in {"started", "sent", "unknown_delivery"}
    BY <2>1 DEF TraceOK, Trace, Touched
  <2>2. Trace(b, u)'
    BY <1>2, <2>1 DEF Trace, Reached
  <2>3. ASSUME NEW c \in Batches, NEW v \in Users, c # b \/ v # u
        PROVE  Trace(c, v)'
    BY <1>2, <2>3 DEF TraceOK, Trace, Reached
  <2> QED BY <2>2, <2>3 DEF TraceOK
<1>9. SentOK'
  BY <1>2 DEF SentOK, SentReached, Touched, Reached
<1>10. OwnersOK'
  <2>1. ASSUME NEW c \in Batches, NEW v \in Users, c # b \/ v # u
        PROVE  Owner(c, v, dl[c][v])'
    <3>1. Owner(c, v, dl[c][v])
      BY DEF OwnersOK
    <3> QED BY <1>1, <1>2, <2>1, <3>1 DEF Owner, Knows, Leased, Touched, Untouched, Reached, Holds
  <2> QED BY <1>1, <2>1 DEF OwnersOK
<1> QED
  BY <1>3, <1>4, <1>5, <1>6, <1>7, <1>8, <1>9, <1>10, GenerationsFrame

-----------------------------------------------------------------------------
\* Counting rows.

\* The rows of a batch are finitely many.
LEMMA Finite ==
  ASSUME NEW b, NEW s
  PROVE  /\ IsFiniteSet(InState(b, s)) /\ Cardinality(InState(b, s)) \in Nat
         /\ IsFiniteSet(Retryable(b)) /\ Cardinality(Retryable(b)) \in Nat
<1>1. InState(b, s) \in SUBSET Users /\ Retryable(b) \in SUBSET Users
  BY DEF InState, Retryable
<1>2. IsFiniteSet(InState(b, s)) /\ IsFiniteSet(Retryable(b))
  BY <1>1, BroadcastAssumption, FS_Subset
<1> QED BY <1>2, FS_CardinalityType

\* What one row's new state does to the sets that are counted.
LEMMA Recount ==
  ASSUME TypeOK, NEW b \in Batches, NEW u \in Users, NEW r \in Recipient, Writes(b, u, r)
  PROVE  /\ \A s : InState(b, s)' = IF r.state = s THEN InState(b, s) \cup {u} ELSE InState(b, s) \ {u}
         /\ Retryable(b)' = IF r.state = "failed" /\ r.retry THEN Retryable(b) \cup {u}
                            ELSE Retryable(b) \ {u}
         /\ \A c \in Batches : c # b => /\ \A s : InState(c, s)' = InState(c, s)
                                        /\ Retryable(c)' = Retryable(c)
<1>1. /\ rec'[b][u] = r
      /\ \A c \in Batches, v \in Users : c # b \/ v # u => rec'[c][v] = rec[c][v]
  BY WritesTo
<1>2. ASSUME NEW s
      PROVE  InState(b, s)' = IF r.state = s THEN InState(b, s) \cup {u} ELSE InState(b, s) \ {u}
  BY <1>1 DEF InState
<1>3. Retryable(b)' = IF r.state = "failed" /\ r.retry THEN Retryable(b) \cup {u} ELSE Retryable(b) \ {u}
  BY <1>1 DEF InState, Retryable
<1>4. ASSUME NEW c \in Batches, c # b
      PROVE  (\A s : InState(c, s)' = InState(c, s)) /\ Retryable(c)' = Retryable(c)
  BY <1>1, <1>4 DEF InState, Retryable
<1> QED BY <1>2, <1>3, <1>4

\* A row more, a row less.
LEMMA Counting ==
  ASSUME NEW b, NEW s, NEW u
  PROVE  /\ u \in InState(b, s) => Cardinality(InState(b, s) \ {u}) = Cardinality(InState(b, s)) - 1
         /\ u \notin InState(b, s) => Cardinality(InState(b, s) \cup {u}) = Cardinality(InState(b, s)) + 1
         /\ Cardinality(InState(b, s) \ {u}) \in Nat
         /\ Cardinality(InState(b, s) \ {u}) <= Cardinality(InState(b, s))
         /\ Cardinality(Retryable(b) \ {u}) \in Nat
         /\ Cardinality(Retryable(b) \ {u}) <= Cardinality(Retryable(b))
         /\ Cardinality(Retryable(b) \cup {u}) \in Nat
         /\ Cardinality(Retryable(b) \cup {u}) <= Cardinality(Retryable(b)) + 1
<1>1. IsFiniteSet(InState(b, s)) /\ IsFiniteSet(Retryable(b))
  BY Finite
<1>2. u \in InState(b, s) => Cardinality(InState(b, s) \ {u}) = Cardinality(InState(b, s)) - 1
  BY <1>1, FS_RemoveElement
<1>3. u \notin InState(b, s) => Cardinality(InState(b, s) \cup {u}) = Cardinality(InState(b, s)) + 1
  BY <1>1, FS_AddElement
<1>4. /\ Cardinality(InState(b, s) \ {u}) \in Nat /\ Cardinality(InState(b, s) \ {u}) <= Cardinality(InState(b, s))
  <2>1. IsFiniteSet(InState(b, s) \ {u})
    BY <1>1, FS_RemoveElement
  <2> QED BY <1>1, <2>1, FS_CardinalityType, FS_Subset
<1>5. /\ Cardinality(Retryable(b) \ {u}) \in Nat
      /\ Cardinality(Retryable(b) \ {u}) <= Cardinality(Retryable(b))
  <2>1. IsFiniteSet(Retryable(b) \ {u})
    BY <1>1, FS_RemoveElement
  <2> QED BY <1>1, <2>1, FS_CardinalityType, FS_Subset
<1>6. /\ Cardinality(Retryable(b) \cup {u}) \in Nat
      /\ Cardinality(Retryable(b) \cup {u}) <= Cardinality(Retryable(b)) + 1
  <2>1. IsFiniteSet(Retryable(b) \cup {u}) /\ Cardinality(Retryable(b)) \in Nat
    BY <1>1, FS_AddElement, FS_CardinalityType
  <2>2. Cardinality(Retryable(b) \cup {u}) \in Nat
    BY <2>1, FS_CardinalityType
  <2>3. Cardinality(Retryable(b) \cup {u}) = IF u \in Retryable(b) THEN Cardinality(Retryable(b)) ELSE Cardinality(Retryable(b)) + 1
    BY <1>1, FS_AddElement
  <2> QED BY <2>1, <2>2, <2>3
<1> QED BY <1>2, <1>3, <1>4, <1>5, <1>6

\* A row that changes its state leaves one count and joins another.
LEMMA Moved ==
  ASSUME TypeOK, NEW b \in Batches, NEW u \in Users, NEW r \in Recipient, Writes(b, u, r),
         NEW old, rec[b][u].state = old, r.state # old
  PROVE  /\ Cardinality(InState(b, old)') = Cardinality(InState(b, old)) - 1
         /\ Cardinality(InState(b, old)') \in Nat
         /\ Cardinality(InState(b, r.state)') = Cardinality(InState(b, r.state)) + 1
         /\ \A s : s # old /\ s # r.state => InState(b, s)' = InState(b, s)
         /\ Cardinality(Retryable(b)') \in Nat
         /\ Cardinality(Retryable(b)') <= Cardinality(Retryable(b))
                                           + IF r.state = "failed" /\ r.retry THEN 1 ELSE 0
         /\ \A c \in Batches : c # b => /\ \A s : InState(c, s)' = InState(c, s)
                                        /\ Retryable(c)' = Retryable(c)
<1>1. u \in InState(b, old) /\ \A s : s # old => u \notin InState(b, s)
  BY DEF InState
<1>2. InState(b, old)' = InState(b, old) \ {u} /\ InState(b, r.state)' = InState(b, r.state) \cup {u}
  BY Recount
<1>3. /\ Cardinality(InState(b, old) \ {u}) = Cardinality(InState(b, old)) - 1
      /\ Cardinality(InState(b, old) \ {u}) \in Nat
  BY <1>1, Counting
<1>4. Cardinality(InState(b, r.state) \cup {u}) = Cardinality(InState(b, r.state)) + 1
  BY <1>1, Counting
<1>5. ASSUME NEW s, s # old, s # r.state PROVE InState(b, s)' = InState(b, s)
  <2>1. InState(b, s)' = InState(b, s) \ {u}
    BY <1>5, Recount
  <2>2. u \notin InState(b, s)
    BY <1>1, <1>5
  <2> QED BY <2>1, <2>2
<1>6. Cardinality(Retryable(b)) \in Nat
  BY Finite
<1>7. /\ Cardinality(Retryable(b)') \in Nat
      /\ Cardinality(Retryable(b)') <= Cardinality(Retryable(b))
                                        + IF r.state = "failed" /\ r.retry THEN 1 ELSE 0
  <2>1. CASE r.state = "failed" /\ r.retry
    <3>1. Retryable(b)' = Retryable(b) \cup {u}
      BY <2>1, Recount
    <3> QED BY <1>6, <2>1, <3>1, Counting
  <2>2. CASE ~(r.state = "failed" /\ r.retry)
    <3>1. Retryable(b)' = Retryable(b) \ {u}
      BY <2>2, Recount
    <3>2. /\ Cardinality(Retryable(b) \ {u}) \in Nat
          /\ Cardinality(Retryable(b) \ {u}) <= Cardinality(Retryable(b))
      BY Counting
    <3> QED BY <1>6, <2>2, <3>1, <3>2
  <2> QED BY <2>1, <2>2
<1> QED BY <1>2, <1>3, <1>4, <1>5, <1>7, Recount

\* CountersExact, spelled out for one batch.
Tallied(b) ==
  /\ batch[b].pending = Cardinality(InState(b, "pending"))
  /\ batch[b].started = Cardinality(InState(b, "started"))
  /\ batch[b].total = batch[b].pending + batch[b].started + batch[b].sent + batch[b].failed
                        + batch[b].skipped + batch[b].unknown_delivery
  /\ batch[b].sent >= Cardinality(InState(b, "sent"))
  /\ batch[b].failed >= Cardinality(InState(b, "failed"))
  /\ batch[b].skipped >= Cardinality(InState(b, "skipped"))
  /\ batch[b].unknown_delivery >= Cardinality(InState(b, "unknown_delivery"))
  /\ batch[b].retryable >= Cardinality(Retryable(b))
  /\ batch[b].state = "finished" => batch[b].pending + batch[b].started = 0

LEMMA Tally == CountersExact <=> \A b \in Batches : Tallied(b)
BY DEF CountersExact, Tallied, Outcomes

\* The counters stay exact when they are those of the only batch that changed.
LEMMA TallyOne ==
  ASSUME CountersExact, NEW b \in Batches, Tallied(b)',
         \A c \in Batches : c # b => /\ batch'[c] = batch[c] /\ Retryable(c)' = Retryable(c)
                                     /\ \A s : InState(c, s)' = InState(c, s)
  PROVE  CountersExact'
<1>1. ASSUME NEW c \in Batches, c # b PROVE Tallied(c)'
  BY <1>1, Tally DEF Tallied
<1>2. \A c \in Batches : Tallied(c)'
  BY <1>1
<1> QED BY <1>2 DEF CountersExact, Tallied, Outcomes

\* claim_recipient: one pending row becomes started.
LEMMA claim_recipient_Inv ==
  ASSUME Inv, NEW b \in Batches, NEW u \in Users, claim_recipient(b, u)
  PROVE  Inv'
<1> DEFINE d == dl[b][u]
           claimed == [d EXCEPT !.pc = "claimed"]
           done == [d EXCEPT !.pc = "done"]
           raised == [NoDelivery EXCEPT !.pc = "raised"]
           r == [rec[b][u] EXCEPT !.state = "started", !.owned = TRUE]
           n == [batch[b] EXCEPT !.pending = @ - 1, !.started = @ + 1]
<1>1. /\ d \in Delivery /\ d.pc = "queued" /\ ~d.quar /\ ~d.rcpt /\ d.res = "none"
      /\ Untouched(b, u) /\ rec[b][u] \in Recipient /\ rec[b] \in [Users -> Recipient] /\ batch[b] \in BatchRow
  BY Typed DEF Inv, claim_recipient, OwnersOK, Owner
<1>2. /\ claimed \in Delivery /\ claimed.pc = "claimed" /\ ~claimed.quar /\ ~claimed.rcpt
      /\ claimed.res = "none" /\ done \in Delivery /\ done.pc = "done"
  BY <1>1 DEF Delivery
<1>3. raised \in Delivery /\ raised.pc = "raised"
  BY OverKnows
<1>4. dl[b][u].pc \notin {"idle", "lost"}
  BY <1>1
<1>5. \/ /\ rec[b][u].state = "pending" /\ batch[b].state = "running"
         /\ Writes(b, u, r) /\ batch' = [batch EXCEPT ![b] = n]
         /\ Goes(b, u, claimed) \/ Goes(b, u, raised)
      \/ /\ Goes(b, u, done) \/ Goes(b, u, raised)
         /\ UNCHANGED <<batch, rec>>
  BY DEF claim_recipient, Raised
<1> HIDE DEF d, claimed, done, raised
<1>6. CASE UNCHANGED <<batch, rec>> /\ (Goes(b, u, done) \/ Goes(b, u, raised))
  <2>1. SameRows /\ rec' \in [Batches -> [Users -> Recipient]]
    BY <1>6 DEF SameRows, Inv, TypeOK
  <2>2. Owner(b, u, done) /\ Owner(b, u, raised)
    BY <1>2, <1>3 DEF Owner, Holds
  <2> QED BY <1>2, <1>3, <1>4, <1>6, <2>1, <2>2, DeliveryStep DEF claim_recipient
<1>7. CASE /\ rec[b][u].state = "pending" /\ batch[b].state = "running"
           /\ Writes(b, u, r) /\ batch' = [batch EXCEPT ![b] = n]
           /\ Goes(b, u, claimed) \/ Goes(b, u, raised)
  <2>1. /\ r \in Recipient /\ r.state = "started" /\ r.owned
        /\ r.retry = rec[b][u].retry /\ r.epoch = rec[b][u].epoch /\ r.key = rec[b][u].key
    BY <1>1 DEF Recipient
  <2>2. ~r.retry
    BY <1>7, <2>1 DEF Inv, RowsOK, RowKept
  <2> HIDE DEF r
  <2>3. /\ Cardinality(InState(b, "pending")') = Cardinality(InState(b, "pending")) - 1
        /\ Cardinality(InState(b, "pending")') \in Nat
        /\ Cardinality(InState(b, "started")') = Cardinality(InState(b, "started")) + 1
        /\ \A s \in Outcomes : InState(b, s)' = InState(b, s)
        /\ Cardinality(Retryable(b)') \in Nat
        /\ Cardinality(Retryable(b)') <= Cardinality(Retryable(b))
        /\ \A c \in Batches : c # b => /\ \A s : InState(c, s)' = InState(c, s)
                                       /\ Retryable(c)' = Retryable(c)
    <3>1. \A s \in Outcomes : s # "pending" /\ s # "started"
      BY DEF Outcomes
    <3>2. Cardinality(Retryable(b)) \in Nat
      BY Finite
    <3> QED BY <1>7, <2>1, <3>1, <3>2, Moved DEF Inv
  <2>4. Tallied(b)
    BY Tally DEF Inv
  <2>5. batch[b].pending - 1 \in Nat /\ batch[b].started + 1 \in Nat
    BY <1>1, <2>3, <2>4 DEF Tallied, BatchRow
  <2>6. /\ n \in BatchRow /\ n.pending = batch[b].pending - 1 /\ n.started = batch[b].started + 1
        /\ n.state = batch[b].state /\ n.owned = batch[b].owned /\ n.total = batch[b].total
        /\ n.sent = batch[b].sent /\ n.failed = batch[b].failed /\ n.skipped = batch[b].skipped
        /\ n.unknown_delivery = batch[b].unknown_delivery /\ n.retryable = batch[b].retryable
    BY <1>1, <2>5 DEF BatchRow
  <2> HIDE DEF n
  <2>7. /\ batch' \in [Batches -> BatchRow] /\ batch'[b] = n
        /\ \A c \in Batches : c # b => batch'[c] = batch[c]
    BY <1>7, <2>6 DEF Inv, TypeOK
  <2>8. batch[b].state # "finished"
    BY <1>7
  <2>9. CountersExact'
    <3>1. Tallied(b)'
      <4>1. /\ InState(b, "sent")' = InState(b, "sent") /\ InState(b, "failed")' = InState(b, "failed")
            /\ InState(b, "skipped")' = InState(b, "skipped")
            /\ InState(b, "unknown_delivery")' = InState(b, "unknown_delivery")
        BY <2>3 DEF Outcomes
      <4>2. Cardinality(Retryable(b)) \in Nat
        BY Finite
      <4> QED BY <1>1, <2>3, <2>4, <2>6, <2>7, <2>8, <4>1, <4>2 DEF Tallied, BatchRow
    <3> QED BY <2>3, <2>7, <3>1, TallyOne DEF Inv
  <2>10. ASSUME NEW x \in Delivery, x = claimed \/ x = raised
         PROVE  Owner(b, u, x)'
    <3>1. rec'[b][u].state = "started" /\ Untouched(b, u)'
      BY <1>1, <1>7, <2>1, WritesTo DEF Inv, claim_recipient, Untouched, Reached
    <3>2. CASE x = claimed
      BY <1>2, <3>1, <3>2 DEF Owner, Holds
    <3>3. CASE x = raised
      BY <1>3, <3>3 DEF Owner, Holds
    <3> QED BY <2>10, <3>2, <3>3
  <2>11. PICK x \in Delivery : (x = claimed \/ x = raised) /\ Goes(b, u, x)
    BY <1>2, <1>3, <1>7
  <2>12. x.pc \notin {"idle", "lost"}
    BY <1>2, <1>3, <2>11
  <2>13. ~Touched(b, u)
    BY <1>1, <1>7, Typed DEF Touched, Untouched, Inv, RowsOK, RowKept, Recipient, Epochs
  <2>14. Owner(b, u, x)'
    BY <2>10, <2>11
  <2> QED
    BY <1>4, <1>7, <2>1, <2>2, <2>6, <2>7, <2>9, <2>11, <2>12, <2>13, <2>14, WriteStep
       DEF claim_recipient
<1> QED BY <1>5, <1>6, <1>7

\* The counters of a batch one of whose deliveries is settled.
LEMMA FinishedCounts ==
  ASSUME NEW r \in BatchRow, NEW d, r.started - 1 \in Nat, NEW n, n = FinishedBatch(r, d)
  PROVE     /\ n \in BatchRow /\ n.state = r.state /\ n.owned = r.owned
            /\ n.total = r.total /\ n.pending = r.pending /\ n.started = r.started - 1
            /\ n.sent = r.sent + One(d.res = "sent")
            /\ n.failed = r.failed + One(d.res = "failed")
            /\ n.skipped = r.skipped + One(d.res = "skipped")
            /\ n.unknown_delivery = r.unknown_delivery + One(d.res = "unknown_delivery")
            /\ n.retryable = r.retryable + One(d.res = "failed" /\ d.again)
<1>1. /\ n.state = r.state /\ n.owned = r.owned /\ n.total = r.total /\ n.pending = r.pending
      /\ n.started = r.started - 1 /\ n.sent = r.sent + One(d.res = "sent")
      /\ n.failed = r.failed + One(d.res = "failed")
  BY DEF FinishedBatch, BatchRow
<1>2. /\ n.skipped = r.skipped + One(d.res = "skipped")
      /\ n.unknown_delivery = r.unknown_delivery + One(d.res = "unknown_delivery")
      /\ n.retryable = r.retryable + One(d.res = "failed" /\ d.again)
  BY DEF FinishedBatch, BatchRow
<1>3. n \in BatchRow
  <2>1. /\ r.sent + One(d.res = "sent") \in Nat /\ r.failed + One(d.res = "failed") \in Nat
        /\ r.skipped + One(d.res = "skipped") \in Nat
        /\ r.unknown_delivery + One(d.res = "unknown_delivery") \in Nat
        /\ r.retryable + One(d.res = "failed" /\ d.again) \in Nat
    BY DEF BatchRow, One
  <2>2. PICK i \in Nat, j \in Nat, k \in Nat, l \in Nat, m \in Nat, o \in Nat :
          /\ i = r.started - 1 /\ j = r.sent + One(d.res = "sent")
          /\ k = r.failed + One(d.res = "failed") /\ l = r.skipped + One(d.res = "skipped")
          /\ m = r.unknown_delivery + One(d.res = "unknown_delivery")
          /\ o = r.retryable + One(d.res = "failed" /\ d.again)
    BY <2>1
  <2> DEFINE y == [r EXCEPT !.started = i, !.sent = j, !.failed = k]
             z == [y EXCEPT !.skipped = l, !.unknown_delivery = m, !.retryable = o]
  <2>3. y \in BatchRow
    BY DEF BatchRow
  <2>4. n = z
    BY <2>2 DEF FinishedBatch
  <2> HIDE DEF y
  <2>5. z \in BatchRow
    BY <2>3 DEF BatchRow
  <2> HIDE DEF z
  <2> QED BY <2>4, <2>5
<1> QED BY <1>1, <1>2, <1>3

\* finish_recipient: a started row becomes what its owner knows.
LEMMA finish_recipient_Inv ==
  ASSUME Inv, NEW b \in Batches, NEW u \in Users, finish_recipient(b, u)
  PROVE  Inv'
<1> DEFINE d == dl[b][u]
           done == [NoDelivery EXCEPT !.pc = "done"]
           raised == [NoDelivery EXCEPT !.pc = "raised"]
           n == FinishedBatch(batch[b], d)
<1>1. /\ d \in Delivery /\ rec[b][u] \in Recipient /\ batch[b] \in BatchRow
      /\ d.pc \in {"settle", "denied"} /\ d.res \in Outcomes
  BY Typed DEF Inv, finish_recipient, OwnersOK, Owner, Outcomes
<1>2. /\ done \in Delivery /\ done.pc = "done" /\ raised \in Delivery /\ raised.pc = "raised"
  BY OverKnows
<1>3. \/ /\ rec[b][u].state = "started" /\ Writes(b, u, FinishedRow(b, u, d))
         /\ batch' = [batch EXCEPT ![b] = n]
         /\ Goes(b, u, done) \/ Goes(b, u, raised)
      \/ Goes(b, u, raised) /\ UNCHANGED <<batch, rec>>
  BY DEF finish_recipient, Raised, Mine
<1>4. d.pc \notin {"idle", "lost"}
  BY <1>1
<1>5. CASE Goes(b, u, raised) /\ UNCHANGED <<batch, rec>>
  <2>1. SameRows /\ rec' \in [Batches -> [Users -> Recipient]]
    BY <1>5 DEF SameRows, Inv, TypeOK
  <2>2. Owner(b, u, raised)
    BY OverKnows
  <2> HIDE DEF raised
  <2> QED BY <1>2, <1>4, <1>5, <2>1, <2>2, DeliveryStep DEF finish_recipient
<1>6. CASE /\ rec[b][u].state = "started" /\ Writes(b, u, FinishedRow(b, u, d))
           /\ batch' = [batch EXCEPT ![b] = n]
           /\ Goes(b, u, done) \/ Goes(b, u, raised)
  <2>1. PICK r, res : r = FinishedRow(b, u, d) /\ res = d.res
    OBVIOUS
  <2>2. /\ r \in Recipient /\ r.state = d.res /\ r.state = res /\ ~r.owned
        /\ r.retry = (d.res = "failed" /\ d.again)
        /\ r.epoch = rec[b][u].epoch /\ r.key = rec[b][u].key
    BY <1>1, <2>1 DEF Recipient, FinishedRow, Delivery
  <2>3. /\ Touched(b, u) => d.res \in {"sent", "unknown_delivery"}
        /\ d.res = "sent" => Touched(b, u)
    <3>1. rec[b][u].epoch \in Epochs
      BY <1>6, Typed DEF Inv, RowsOK, RowKept, Recipient, Epochs
    <3> QED BY <1>1, <3>1 DEF Inv, OwnersOK, Owner, Touched, Untouched
  <2>4. /\ Cardinality(InState(b, "started")') = Cardinality(InState(b, "started")) - 1
        /\ Cardinality(InState(b, "started")') \in Nat
        /\ Cardinality(InState(b, res)') = Cardinality(InState(b, res)) + 1
        /\ \A s : s # "started" /\ s # res => InState(b, s)' = InState(b, s)
        /\ Cardinality(Retryable(b)') \in Nat
        /\ Cardinality(Retryable(b)') <= Cardinality(Retryable(b)) + One(d.res = "failed" /\ d.again)
        /\ \A c \in Batches : c # b => /\ \A s : InState(c, s)' = InState(c, s)
                                       /\ Retryable(c)' = Retryable(c)
    <3>1. r.state # "started"
      BY <1>1, <2>2 DEF Outcomes
    <3>2. One(d.res = "failed" /\ d.again) = IF r.state = "failed" /\ r.retry THEN 1 ELSE 0
      BY <2>2 DEF One
    <3> QED BY <1>6, <2>1, <2>2, <3>1, <3>2, Moved DEF Inv
  <2>5. Tallied(b)
    BY Tally DEF Inv
  <2>6. batch[b].started - 1 \in Nat
    BY <2>4, <2>5 DEF Tallied
  <2>7. /\ n \in BatchRow /\ n.state = batch[b].state /\ n.owned = batch[b].owned
        /\ n.total = batch[b].total /\ n.pending = batch[b].pending
        /\ n.started = batch[b].started - 1
        /\ n.sent = batch[b].sent + One(d.res = "sent")
        /\ n.failed = batch[b].failed + One(d.res = "failed")
        /\ n.skipped = batch[b].skipped + One(d.res = "skipped")
        /\ n.unknown_delivery = batch[b].unknown_delivery + One(d.res = "unknown_delivery")
        /\ n.retryable = batch[b].retryable + One(d.res = "failed" /\ d.again)
    <3>0. PICK q \in BatchRow : q = batch[b]
      BY <1>1
    <3>1. PICK e : q = batch[b] /\ e = d
      BY <3>0
    <3>2. q.started - 1 \in Nat
      BY <2>6, <3>1
    <3>21. PICK m : m = FinishedBatch(q, e)
      OBVIOUS
    <3>3. /\ m \in BatchRow /\ m.state = q.state /\ m.owned = q.owned
          /\ m.total = q.total /\ m.pending = q.pending /\ m.started = q.started - 1
          /\ m.sent = q.sent + One(e.res = "sent")
          /\ m.failed = q.failed + One(e.res = "failed")
          /\ m.skipped = q.skipped + One(e.res = "skipped")
          /\ m.unknown_delivery = q.unknown_delivery + One(e.res = "unknown_delivery")
          /\ m.retryable = q.retryable + One(e.res = "failed" /\ e.again)
      BY <3>2, <3>21, FinishedCounts
    <3> QED BY <3>1, <3>21, <3>3
  <2> HIDE DEF n, done, raised
  <2>8. /\ batch' \in [Batches -> BatchRow] /\ batch'[b] = n
        /\ \A c \in Batches : c # b => batch'[c] = batch[c]
    BY <1>6, <2>7 DEF Inv, TypeOK
  <2>9. CountersExact'
    <3>1. Tallied(b)'
      <4>1. InState(b, "pending")' = InState(b, "pending")
        BY <1>1, <2>2, <2>4 DEF Outcomes
      <4>2. ASSUME NEW s \in Outcomes, NEW k \in Nat, k >= Cardinality(InState(b, s))
            PROVE  k + One(res = s) >= Cardinality(InState(b, s)')
        <5>1. Cardinality(InState(b, s)) \in Nat /\ s # "started"
          BY Finite DEF Outcomes
        <5>2. CASE res = s
          BY <2>4, <4>2, <5>1, <5>2 DEF One
        <5>3. CASE res # s
          <6>1. InState(b, s)' = InState(b, s)
            BY <2>4, <5>1, <5>3
          <6> QED BY <4>2, <5>1, <5>3, <6>1 DEF One
        <5> QED BY <5>2, <5>3
      <4>3. /\ batch'[b].sent >= Cardinality(InState(b, "sent")')
            /\ batch'[b].failed >= Cardinality(InState(b, "failed")')
            /\ batch'[b].skipped >= Cardinality(InState(b, "skipped")')
            /\ batch'[b].unknown_delivery >= Cardinality(InState(b, "unknown_delivery")')
        BY <1>1, <2>2, <2>5, <2>7, <2>8, <4>2 DEF Tallied, Outcomes, BatchRow
      <4>4. batch'[b].retryable >= Cardinality(Retryable(b)')
        <5>1. Cardinality(Retryable(b)) \in Nat
          BY Finite
        <5> QED BY <1>1, <2>4, <2>5, <2>7, <2>8, <5>1 DEF Tallied, BatchRow, One
      <4>5. batch'[b].total = batch'[b].pending + batch'[b].started + batch'[b].sent
                    + batch'[b].failed + batch'[b].skipped + batch'[b].unknown_delivery
        <5>1. One(d.res = "sent") + One(d.res = "failed") + One(d.res = "skipped")
                + One(d.res = "unknown_delivery") = 1
          BY <1>1 DEF One, Outcomes
        <5>2. /\ One(d.res = "sent") \in Nat /\ One(d.res = "failed") \in Nat
              /\ One(d.res = "skipped") \in Nat /\ One(d.res = "unknown_delivery") \in Nat
          BY DEF One
        <5> QED BY <1>1, <2>5, <2>7, <2>8, <5>1, <5>2 DEF Tallied, BatchRow
      <4>6. batch[b].state # "finished"
        BY <1>1, <2>5, <2>6 DEF Tallied, BatchRow
      <4> QED BY <1>1, <2>4, <2>5, <2>7, <2>8, <4>1, <4>3, <4>4, <4>5, <4>6 DEF Tallied, BatchRow
    <3> QED BY <2>4, <2>8, <3>1, TallyOne DEF Inv
  <2>10. PICK x \in Delivery : x.pc \in {"done", "raised"} /\ Goes(b, u, x)
    BY <1>2, <1>6
  <2>11. Owner(b, u, x)'
    BY <2>10 DEF Owner, Holds
  <2>12. r.state \notin {"none", "pending", "started"}
    BY <1>1, <2>2 DEF Outcomes
  <2>13. r.retry => r.state = "failed"
    BY <2>2
  <2>14. \A c \in Batches : /\ batch'[c].state = batch[c].state /\ batch'[c].owned = batch[c].owned
                            /\ c # b => batch'[c] = batch[c]
    BY <2>7, <2>8
  <2>15. /\ Touched(b, u) => r.state \in {"started", "sent", "unknown_delivery"}
         /\ r.state = "sent" => Touched(b, u)
         /\ (r.owned <=> r.state = "started")
    BY <2>2, <2>3, <2>12
  <2>16. /\ dl[b][u].pc \notin {"idle", "lost"} /\ x.pc \notin {"idle", "lost"}
         /\ rec[b][u].state \in {"pending", "started"}
         /\ UNCHANGED <<enq, job, exec, doom, user, seq, reached>>
    BY <1>4, <1>6, <2>10 DEF finish_recipient
  <2> HIDE DEF d
  <2> QED
    BY <1>6, <2>1, <2>2, <2>8, <2>9, <2>10, <2>11, <2>12, <2>13, <2>14, <2>15, <2>16, WriteStep
<1> QED BY <1>3, <1>5, <1>6

-----------------------------------------------------------------------------
\* Requests and jobs.

LEMMA Ask_Inv ==
  ASSUME Inv, NEW b \in Batches, NEW p \in Batches \cup {None}, NEW asked \in SUBSET Users,
         p # None => batch[p].state = "finished", Ask(b, p, asked)
  PROVE  Inv'
<1> USE DEF Inv
<1>1. PICK chosen \in SUBSET {u \in asked : Candidate(p, u)} :
        enq' = [enq EXCEPT ![b] =
          [pc |-> "ready", parent |-> p, asked |-> asked,
           ok |-> [u \in Users |-> IF u \in chosen THEN user[u].epoch ELSE 0]]]
  BY DEF Ask
<1> DEFINE ok == [u \in Users |-> IF u \in chosen THEN user[u].epoch ELSE 0]
           q == [pc |-> "ready", parent |-> p, asked |-> asked, ok |-> ok]
<1>2. ok \in [Users -> 0..MaxEpoch] /\ \A u \in Users : ok[u] <= user[u].epoch
  <2>1. \A u \in Users : user[u].epoch \in 1..MaxEpoch
    BY DEF TypeOK, Account, Epochs
  <2> QED BY <2>1, Numbers
<1> HIDE DEF ok
<1>3. q \in Request
  BY <1>2 DEF Request
<1>4. /\ enq' \in [Batches -> Request] /\ enq'[b] = q
      /\ \A c \in Batches : c # b => enq'[c] = enq[c]
  BY <1>1, <1>3 DEF TypeOK, ok
<1>5. TypeOK'
  BY <1>4 DEF TypeOK, Ask
<1>6. StagesOK'
  <2>1. batch[b].state = "none"
    BY DEF Ask, StagesOK, Stages
  <2> QED BY <1>4, <2>1 DEF Ask, StagesOK, Stages
<1>7. RowsOK'
  BY <1>2, <1>4 DEF Ask, RowsOK, RowKept
<1> QED
  BY <1>5, <1>6, <1>7, TasksFrame, KeysFrame, GenerationsFrame, TraceFrame, SentFrame,
     OwnersFrame, CountersFrame DEF Ask

LEMMA enqueue_scheduled_Inv ==
  ASSUME Inv, NEW b \in Batches, enqueue_scheduled(b) PROVE Inv'
<1>1. Ask(b, None, Users) /\ Users \in SUBSET Users
  BY DEF enqueue_scheduled
<1> QED BY <1>1, Ask_Inv

LEMMA retry_failed_Inv ==
  ASSUME Inv, NEW b \in Batches, NEW p \in Batches, retry_failed(b, p) PROVE Inv'
<1>1. Ask(b, p, Retryable(p)) /\ Retryable(p) \in SUBSET Users /\ batch[p].state = "finished"
  BY DEF retry_failed, Retryable, InState
<1> QED BY <1>1, Ask_Inv

\* A request that goes on or ends without touching the journal.
LEMMA RequestStep ==
  ASSUME Inv, NEW b \in Batches, NEW q \in Request, enq' = [enq EXCEPT ![b] = q],
         q.pc \notin {"idle", "ready"}, \A u \in Users : q.ok[u] <= user[u].epoch,
         q.pc \in {"created", "accepted", "unknown", "rejected"} => batch[b].state # "none",
         job' \in [Batches -> {"absent", "queued", "running", "terminal"}],
         \A c \in Batches : c # b => job'[c] = job[c],
         job'[b] # job[b] => job'[b] = "queued" /\ job[b] = "absent" /\ batch[b].state # "none",
         q.pc \in {"created", "rejected"} => job'[b] = "absent",
         UNCHANGED <<batch, rec, exec, dl, doom, user, seq, reached>>
  PROVE  Inv'
<1> USE DEF Inv
<1>1. /\ enq' \in [Batches -> Request] /\ enq'[b] = q
      /\ \A c \in Batches : c # b => enq'[c] = enq[c]
  BY DEF TypeOK
<1>2. TypeOK'
  BY <1>1 DEF TypeOK
<1>3. StagesOK'
  BY <1>1 DEF StagesOK, Stages
<1>4. RowsOK'
  BY <1>1 DEF RowsOK, RowKept
<1> QED
  BY <1>2, <1>3, <1>4, TasksFrame, KeysFrame, GenerationsFrame, TraceFrame, SentFrame,
     OwnersFrame, CountersFrame

\* A request that is over has nothing left to ask.
LEMMA OverRequest ==
  ASSUME Inv, NEW pc \in {"created", "over"}
  PROVE  /\ [NoRequest EXCEPT !.pc = pc] \in Request /\ [NoRequest EXCEPT !.pc = pc].pc = pc
         /\ \A u \in Users : [NoRequest EXCEPT !.pc = pc].ok[u] <= user[u].epoch
<1>1. /\ [NoRequest EXCEPT !.pc = pc] \in Request /\ [NoRequest EXCEPT !.pc = pc].pc = pc
      /\ [NoRequest EXCEPT !.pc = pc].ok = [u \in Users |-> 0]
  BY Blank DEF Request, NoRequest
<1>2. \A u \in Users : user[u].epoch \in Nat
  BY DEF Inv, TypeOK, Account, Epochs
<1> QED BY <1>1, <1>2

LEMMA Abort_Inv ==
  ASSUME Inv, NEW b \in Batches, Abort(b) PROVE Inv'
<1> DEFINE q == [NoRequest EXCEPT !.pc = "over"]
<1>1. q \in Request /\ q.pc = "over" /\ \A u \in Users : q.ok[u] <= user[u].epoch
  BY OverRequest
<1>2. enq' = [enq EXCEPT ![b] = q] /\ UNCHANGED <<batch, rec, job, exec, dl, doom, user, seq, reached>>
  BY DEF Abort
<1>3. job' \in [Batches -> {"absent", "queued", "running", "terminal"}]
  BY <1>2 DEF Inv, TypeOK
<1> HIDE DEF q
<1> QED BY <1>1, <1>2, <1>3, RequestStep

LEMMA Admit_Inv ==
  ASSUME Inv, NEW b \in Batches, Admit(b) PROVE Inv'
<1>1. /\ enq[b].pc = "created" /\ enq[b] \in Request /\ batch[b].state # "none" /\ job[b] = "absent"
      /\ \A u \in Users : enq[b].ok[u] <= user[u].epoch
  BY DEF Admit, Inv, TypeOK, StagesOK, Stages, RowsOK, RowKept
<1>2. PICK next \in {"accepted", "unknown", "rejected", "over"} :
        /\ enq' = [enq EXCEPT ![b].pc = next]
        /\ \/ job' = [job EXCEPT ![b] = "queued"] /\ next # "rejected"
           \/ UNCHANGED job
  BY DEF Admit
<1> DEFINE q == [enq[b] EXCEPT !.pc = next]
<1>3. q \in Request /\ q.pc = next /\ q.ok = enq[b].ok /\ enq' = [enq EXCEPT ![b] = q]
  BY <1>1, <1>2 DEF Request
<1>4. /\ job' \in [Batches -> {"absent", "queued", "running", "terminal"}]
      /\ \A c \in Batches : c # b => job'[c] = job[c]
      /\ job'[b] = "queued" \/ job'[b] = job[b]
      /\ next = "rejected" => job'[b] = "absent"
  BY <1>1, <1>2 DEF Inv, TypeOK
<1> HIDE DEF q
<1> QED BY <1>1, <1>3, <1>4, RequestStep DEF Admit

LEMMA JobEnds_Inv ==
  ASSUME Inv, NEW b \in Batches, JobEnds(b) PROVE Inv'
<1> USE DEF Inv
<1>1. TypeOK'
  BY DEF JobEnds, TypeOK
<1>2. StagesOK'
  BY DEF JobEnds, TypeOK, StagesOK, Stages
<1> QED
  BY <1>1, <1>2, TasksFrame, RowsFrame, KeysFrame, GenerationsFrame, TraceFrame, SentFrame,
     OwnersFrame, CountersFrame DEF JobEnds

LEMMA StartExecution_Inv ==
  ASSUME Inv, NEW b \in Batches, StartExecution(b) PROVE Inv'
<1> USE DEF Inv
<1>1. exec[b] = "idle" /\ batch[b].state # "none"
  BY DEF StartExecution, StagesOK, Stages
<1>2. TypeOK'
  BY DEF StartExecution, TypeOK
<1>3. StagesOK'
  BY <1>1 DEF StartExecution, TypeOK, StagesOK, Stages
<1>4. TasksOK'
  BY <1>1 DEF StartExecution, TypeOK, TasksOK, Tasks
<1>5. TraceOK'
  BY <1>1 DEF StartExecution, TypeOK, TraceOK, Trace, Reached
<1> QED
  BY <1>2, <1>3, <1>4, <1>5, RowsFrame, KeysFrame, GenerationsFrame, SentFrame,
     OwnersFrame, CountersFrame DEF StartExecution

-----------------------------------------------------------------------------
\* Privacy generations.

LEMMA NewEpoch_Inv ==
  ASSUME Inv, NEW u \in Users, NewEpoch(u),
         UNCHANGED <<batch, rec, enq, job, exec, dl, doom, reached>>
  PROVE  Inv'
<1> USE DEF Inv
<1> DEFINE a == [user[u] EXCEPT !.here = TRUE, !.epoch = seq + 1]
<1>1. seq \in Nat /\ seq + 1 \in Epochs /\ user[u] \in Account
  BY Typed, Numbers DEF NewEpoch, TypeOK, Epochs
<1>2. a \in Account /\ a.here /\ a.epoch = seq + 1 /\ a.erased = user[u].erased
  BY <1>1 DEF Account
<1>3. user' = [user EXCEPT ![u] = a] /\ seq' = seq + 1
  BY DEF NewEpoch
<1> HIDE DEF a
<1>4. /\ user' \in [Users -> Account] /\ user'[u] = a
      /\ \A v \in Users : v # u => user'[v] = user[v]
  BY <1>2, <1>3 DEF TypeOK
<1>5. TypeOK'
  BY <1>1, <1>3, <1>4 DEF TypeOK
<1>6. ASSUME NEW v \in Users
      PROVE  /\ user[v].epoch \in Nat /\ user[v].erased \in Nat /\ user[v].epoch <= user'[v].epoch
             /\ user'[v].epoch \in Nat /\ user'[v].erased = user[v].erased
             /\ user[v].here => user'[v].here
  <2>1. user[v] \in Account /\ user[v].epoch <= seq
    BY DEF TypeOK, GenerationsOK, Generations
  <2> QED BY <1>1, <1>2, <1>4, <2>1 DEF Account, Epochs
<1>7. GenerationsOK'
  <2>1. ASSUME NEW v \in Users PROVE Generations(v)'
    <3>1. Generations(v) /\ user[v] \in Account
      BY DEF TypeOK, GenerationsOK
    <3> QED BY <1>1, <1>2, <1>3, <1>4, <1>6, <3>1 DEF Generations, Account, Epochs
  <2> QED BY <2>1 DEF GenerationsOK
<1>8. RowsOK'
  <2>1. ASSUME NEW c \in Batches, NEW v \in Users
        PROVE  rec[c][v].epoch <= user'[v].epoch /\ enq[c].ok[v] <= user'[v].epoch
    <3>1. rec[c][v].epoch \in 0..MaxEpoch /\ enq[c].ok[v] \in 0..MaxEpoch
      BY Typed DEF Recipient, Request
    <3> QED BY <1>6, <3>1, Numbers DEF RowsOK, RowKept
  <2> QED BY <2>1 DEF RowsOK, RowKept
<1>9. TraceOK'
  <2>1. ASSUME NEW c \in Batches, NEW v \in Users, NEW e \in Epochs, Reached(c, v, e)
        PROVE  e <= user'[v].epoch
    BY <1>6, <2>1, Numbers DEF TraceOK, Trace, Epochs
  <2> QED BY <1>6, <2>1 DEF TraceOK, Trace, Reached
<1>10. OwnersOK'
  <2>1. ASSUME NEW c \in Batches, NEW v \in Users, NEW x, Owner(c, v, x)
        PROVE  Owner(c, v, x)'
    BY <1>6, <2>1 DEF Owner, Knows, Leased, Touched, Untouched, Reached, Holds
  <2> QED BY <2>1 DEF OwnersOK
<1> QED
  BY <1>5, <1>7, <1>8, <1>9, <1>10, StagesFrame, TasksFrame, KeysFrame, SentFrame, CountersFrame

LEMMA Consent_Inv == ASSUME Inv, NEW u \in Users, Consent(u) PROVE Inv'
BY NewEpoch_Inv DEF Consent

LEMMA Return_Inv == ASSUME Inv, NEW u \in Users, Return(u) PROVE Inv'
BY NewEpoch_Inv DEF Return

-----------------------------------------------------------------------------
\* Interrupting a batch.

\* What interrupt_batch does to the rows of its batch, and to no other.
RowInterrupted(r, q) ==
  /\ q.epoch = r.epoch /\ q.key = r.key
  /\ r.state = "started" => q.state = "unknown_delivery" /\ ~q.owned /\ ~q.retry
  /\ r.state = "pending" => q.state = "skipped" /\ ~q.owned /\ ~q.retry
  /\ r.state \notin {"pending", "started"} =>
       q.state = r.state /\ q.owned = r.owned /\ q.retry = r.retry

LEMMA InterruptedRows ==
  ASSUME TypeOK, NEW b \in Batches, Interrupted(b)
  PROVE  /\ rec' \in [Batches -> [Users -> Recipient]]
         /\ \A v \in Users : RowInterrupted(rec[b][v], rec'[b][v])
         /\ \A c \in Batches : c # b => rec'[c] = rec[c]
<1>1. ASSUME NEW r \in Recipient
      PROVE  InterruptedRow(r) \in Recipient /\ RowInterrupted(r, InterruptedRow(r))
  BY DEF InterruptedRow, Recipient, RowInterrupted, Outcomes
<1>2. \A v \in Users : rec[b][v] \in Recipient
  BY DEF TypeOK
<1> DEFINE rows == [u \in Users |-> InterruptedRow(rec[b][u])]
<1>3. rows \in [Users -> Recipient] /\ \A v \in Users : RowInterrupted(rec[b][v], rows[v])
  BY <1>1, <1>2
<1>4. rec' = [rec EXCEPT ![b] = rows]
  BY DEF Interrupted
<1> HIDE DEF rows
<1> QED BY <1>3, <1>4 DEF TypeOK

LEMMA InterruptedCounts ==
  ASSUME Inv, NEW b \in Batches, Interrupted(b), batch[b].state # "none"
  PROVE  /\ batch' \in [Batches -> BatchRow] /\ batch'[b].state = "finished"
         /\ batch[b].state # "finished" => ~batch'[b].owned
         /\ batch[b].state = "finished" => batch'[b] = batch[b]
         /\ \A c \in Batches : c # b => batch'[c] = batch[c]
         /\ CountersExact'
<1>1. /\ \A v \in Users : RowInterrupted(rec[b][v], rec'[b][v])
      /\ \A c \in Batches : c # b => rec'[c] = rec[c]
  BY InterruptedRows DEF Inv
<1>2. batch[b] \in BatchRow /\ Tallied(b)
  BY Tally DEF Inv, TypeOK
<1>3. batch' = [batch EXCEPT ![b] = InterruptedBatch(batch[b])]
  BY DEF Interrupted
<1>4. /\ InState(b, "pending")' = {} /\ InState(b, "started")' = {}
      /\ InState(b, "sent")' = InState(b, "sent") /\ InState(b, "failed")' = InState(b, "failed")
      /\ InState(b, "skipped")' = InState(b, "skipped") \cup InState(b, "pending")
      /\ InState(b, "unknown_delivery")' = InState(b, "unknown_delivery") \cup InState(b, "started")
      /\ Retryable(b)' = Retryable(b)
  BY <1>1 DEF InState, Retryable, RowInterrupted
<1>5. /\ Cardinality(InState(b, "skipped")') = Cardinality(InState(b, "skipped")) + Cardinality(InState(b, "pending"))
      /\ Cardinality(InState(b, "unknown_delivery")')
           = Cardinality(InState(b, "unknown_delivery")) + Cardinality(InState(b, "started"))
      /\ Cardinality(InState(b, "pending")') = 0 /\ Cardinality(InState(b, "started")') = 0
  <2>1. ASSUME NEW s, NEW t, s # t
        PROVE  Cardinality(InState(b, s) \cup InState(b, t)) = Cardinality(InState(b, s)) + Cardinality(InState(b, t))
    <3>1. InState(b, s) \cap InState(b, t) = {}
      BY <2>1 DEF InState
    <3>2. /\ IsFiniteSet(InState(b, s)) /\ IsFiniteSet(InState(b, t))
          /\ Cardinality(InState(b, s)) \in Nat /\ Cardinality(InState(b, t)) \in Nat
      BY Finite
    <3>3. Cardinality(InState(b, s) \cup InState(b, t)) =
            Cardinality(InState(b, s)) + Cardinality(InState(b, t))
              - Cardinality(InState(b, s) \cap InState(b, t))
      BY <3>2, FS_Union
    <3>4. Cardinality(InState(b, s) \cap InState(b, t)) = 0
      BY <3>1, FS_EmptySet
    <3> QED BY <3>2, <3>3, <3>4
  <2> QED BY <1>4, <2>1, FS_EmptySet
<1>6. ASSUME NEW c \in Batches, c # b
      PROVE  (\A s : InState(c, s)' = InState(c, s)) /\ Retryable(c)' = Retryable(c)
  BY <1>1, <1>6 DEF InState, Retryable
<1>7. \A s : Cardinality(InState(b, s)) \in Nat
  BY Finite
<1>8. CASE batch[b].state = "finished"
  <2>1. batch' = batch
    BY <1>3, <1>8 DEF Inv, TypeOK, InterruptedBatch
  <2>2. Cardinality(InState(b, "pending")) = 0 /\ Cardinality(InState(b, "started")) = 0
    BY <1>2, <1>7, <1>8 DEF Tallied, BatchRow
  <2>3. Tallied(b)'
    BY <1>2, <1>4, <1>5, <1>7, <2>1, <2>2 DEF Tallied, BatchRow
  <2>4. CountersExact'
    BY <1>6, <2>1, <2>3, TallyOne DEF Inv
  <2> QED BY <1>8, <2>1, <2>4 DEF Inv, TypeOK
<1>9. CASE batch[b].state # "finished"
  <2> DEFINE n == InterruptedBatch(batch[b])
  <2>1. PICK q \in BatchRow : q = batch[b]
    BY <1>2
  <2>2. PICK k \in Nat, l \in Nat : k = q.unknown_delivery + q.started /\ l = q.skipped + q.pending
    BY DEF BatchRow
  <2> DEFINE y == [q EXCEPT !.state = "finished", !.owned = FALSE, !.pending = 0, !.started = 0]
             z == [y EXCEPT !.unknown_delivery = k, !.skipped = l]
  <2>3. /\ y \in BatchRow /\ y.state = "finished" /\ ~y.owned /\ y.pending = 0 /\ y.started = 0
        /\ y.total = q.total /\ y.sent = q.sent /\ y.failed = q.failed /\ y.retryable = q.retryable
    BY DEF BatchRow
  <2>4. n = z
    BY <1>9, <2>1, <2>2 DEF InterruptedBatch, BatchRow
  <2> HIDE DEF y
  <2>5. /\ z \in BatchRow /\ z.state = "finished" /\ ~z.owned /\ z.pending = 0 /\ z.started = 0
        /\ z.total = q.total /\ z.sent = q.sent /\ z.failed = q.failed /\ z.retryable = q.retryable
        /\ z.unknown_delivery = k /\ z.skipped = l
    BY <2>3 DEF BatchRow
  <2> HIDE DEF n, z
  <2>6. /\ batch' \in [Batches -> BatchRow] /\ batch'[b] = z
        /\ \A c \in Batches : c # b => batch'[c] = batch[c]
    BY <1>3, <2>4, <2>5 DEF Inv, TypeOK, n
  <2>7. Tallied(b)'
    BY <1>2, <1>4, <1>5, <1>7, <2>1, <2>2, <2>5, <2>6 DEF Tallied, BatchRow
  <2>8. CountersExact'
    BY <1>6, <2>6, <2>7, TallyOne DEF Inv
  <2> QED BY <1>9, <2>5, <2>6, <2>8
<1> QED BY <1>8, <1>9

\* Interrupting a batch leaves every row honest and every key where it is.
LEMMA InterruptedParts ==
  ASSUME Inv, NEW b \in Batches, Interrupted(b), UNCHANGED <<user, enq, reached>>,
         \A c \in Batches : exec[c] \in {"deliver", "over"} => exec'[c] \in {"deliver", "over"}
  PROVE  RowsOK' /\ KeysOK' /\ TraceOK' /\ SentOK'
<1> USE DEF Inv
<1>1. /\ \A v \in Users : RowInterrupted(rec[b][v], rec'[b][v])
      /\ \A c \in Batches : c # b => rec'[c] = rec[c]
  BY InterruptedRows
<1>2. RowsOK'
  <2>1. ASSUME NEW c \in Batches, NEW v \in Users PROVE RowKept(c, v)'
    <3>1. CASE c = b
      BY <1>1, <3>1, Typed DEF RowsOK, RowKept, RowInterrupted, Recipient, Outcomes
    <3>2. CASE c # b
      BY <1>1, <3>2 DEF RowsOK, RowKept
    <3> QED BY <3>1, <3>2
  <2> QED BY <2>1 DEF RowsOK
<1>3. \A c \in Batches, v \in Users : rec'[c][v].key = rec[c][v].key /\ rec'[c][v].epoch = rec[c][v].epoch
  BY <1>1 DEF RowInterrupted
<1>4. KeysOK'
  BY <1>3 DEF KeysOK, OneKey
<1>5. TraceOK'
  <2>1. ASSUME NEW c \in Batches, NEW v \in Users PROVE Trace(c, v)'
    <3>1. CASE c = b
      BY <1>1, <3>1 DEF TraceOK, Trace, Reached, RowInterrupted
    <3>2. CASE c # b
      BY <1>1, <3>2 DEF TraceOK, Trace, Reached
    <3> QED BY <3>1, <3>2
  <2> QED BY <2>1 DEF TraceOK
<1>6. SentOK'
  <2>1. ASSUME NEW c \in Batches, NEW v \in Users, rec'[c][v].state = "sent" PROVE rec[c][v].state = "sent"
    BY <1>1, <2>1 DEF RowInterrupted
  <2> QED BY <1>3, <2>1 DEF SentOK, SentReached, Reached
<1> QED BY <1>2, <1>4, <1>5, <1>6

LEMMA RecoverInterrupt_Inv ==
  ASSUME Inv, NEW b \in Batches, RecoverInterrupt(b)
  PROVE  Inv'
<1> USE DEF Inv
<1>1. batch[b].state # "none" /\ Interrupted(b)
  BY DEF RecoverInterrupt, StagesOK, Stages
<1>2. /\ rec' \in [Batches -> [Users -> Recipient]]
      /\ \A v \in Users : RowInterrupted(rec[b][v], rec'[b][v])
      /\ \A c \in Batches : c # b => rec'[c] = rec[c]
  BY <1>1, InterruptedRows
<1>3. /\ batch' \in [Batches -> BatchRow] /\ batch'[b].state = "finished"
      /\ batch[b].state # "finished" => ~batch'[b].owned
      /\ batch[b].state = "finished" => batch'[b] = batch[b]
      /\ \A c \in Batches : c # b => batch'[c] = batch[c]
      /\ CountersExact'
  BY <1>1, InterruptedCounts
<1>4. TypeOK'
  BY <1>2, <1>3 DEF RecoverInterrupt, TypeOK
<1>5. StagesOK'
  <2>1. ASSUME NEW c \in Batches PROVE Stages(c)'
    <3>1. Stages(c) /\ enq[c] \in Request
      BY Typed DEF StagesOK, TypeOK
    <3>2. enq[c].parent # None /\ batch[enq[c].parent].state = "finished" => batch'[enq[c].parent].state = "finished"
      BY <1>3, <3>1 DEF Request
    <3>3. CASE c = b
      BY <1>1, <1>3, <3>1, <3>2, <3>3 DEF RecoverInterrupt, Stages
    <3>4. CASE c # b
      BY <1>2, <1>3, <3>1, <3>2, <3>4 DEF RecoverInterrupt, Stages, TypeOK
    <3> QED BY <3>3, <3>4
  <2> QED BY <2>1 DEF StagesOK
<1>6. RowsOK' /\ KeysOK' /\ TraceOK' /\ SentOK'
  BY <1>1, InterruptedParts DEF RecoverInterrupt
<1>7. OwnersOK'
  <2>1. ASSUME NEW c \in Batches, NEW v \in Users, NEW x, Owner(c, v, x) PROVE Owner(c, v, x)'
    <3>1. CASE c = b
      <4>1. /\ rec'[b][v].epoch = rec[b][v].epoch
            /\ rec[b][v].state \in {"started", "unknown_delivery"} => rec'[b][v].state \in {"started", "unknown_delivery"}
            /\ rec[b][v].state \in {"pending", "skipped", "none"} => rec'[b][v].state \in {"pending", "skipped", "none"}
            /\ rec[b][v].state = "none" => rec'[b][v].state = "none"
        BY <1>2 DEF RowInterrupted
      <4> QED BY <2>1, <3>1, <4>1 DEF RecoverInterrupt, Owner, Knows, Leased, Touched, Untouched, Reached, Holds
    <3>2. CASE c # b
      BY <1>2, <2>1, <3>2 DEF RecoverInterrupt, Owner, Knows, Leased, Touched, Untouched, Reached, Holds
    <3> QED BY <3>1, <3>2
  <2> QED BY <2>1 DEF RecoverInterrupt, OwnersOK
<1> QED
  BY <1>3, <1>4, <1>5, <1>6, <1>7, TasksFrame, GenerationsFrame DEF RecoverInterrupt

-----------------------------------------------------------------------------
\* The execution of a batch.

\* A batch whose state and owner alone have changed counts the same rows.
LEMMA StateOnly ==
  ASSUME Inv, NEW b \in Batches, NEW st \in {"queued", "running", "finished"}, NEW ow \in BOOLEAN,
         batch' = [batch EXCEPT ![b] = [batch[b] EXCEPT !.state = st, !.owned = ow]],
         st = "finished" => batch[b].pending = 0 /\ batch[b].started = 0, UNCHANGED rec
  PROVE  /\ batch' \in [Batches -> BatchRow] /\ batch'[b].state = st /\ batch'[b].owned = ow
         /\ \A c \in Batches : c # b => batch'[c] = batch[c]
         /\ CountersExact'
<1> DEFINE n == [batch[b] EXCEPT !.state = st, !.owned = ow]
<1>1. batch[b] \in BatchRow /\ Tallied(b)
  BY Tally DEF Inv, TypeOK
<1>2. /\ n \in BatchRow /\ n.state = st /\ n.owned = ow /\ n.pending = batch[b].pending
      /\ n.started = batch[b].started /\ n.total = batch[b].total /\ n.sent = batch[b].sent
      /\ n.failed = batch[b].failed /\ n.skipped = batch[b].skipped
      /\ n.unknown_delivery = batch[b].unknown_delivery /\ n.retryable = batch[b].retryable
  BY <1>1 DEF BatchRow
<1> HIDE DEF n
<1>3. /\ batch' \in [Batches -> BatchRow] /\ batch'[b] = n
      /\ \A c \in Batches : c # b => batch'[c] = batch[c]
  BY <1>2 DEF Inv, TypeOK, n
<1>4. Tallied(b)'
  BY <1>1, <1>2, <1>3 DEF Tallied, InState, Retryable
<1>5. CountersExact'
  BY <1>3, <1>4, TallyOne DEF Inv, InState, Retryable
<1> QED BY <1>2, <1>3, <1>5

LEMMA claim_batch_Inv ==
  ASSUME Inv, NEW b \in Batches, claim_batch(b)
  PROVE  Inv'
<1> USE DEF Inv
<1> DEFINE tasks == [u \in Users |-> [NoDelivery EXCEPT !.pc = IF rec[b][u].state = "pending"
                                                              THEN "queued" ELSE "done"]]
<1>1. exec[b] = "claim" /\ exec' \in {[exec EXCEPT ![b] = "deliver"], [exec EXCEPT ![b] = "over"]}
  BY DEF claim_batch
<1>2. \A u \in Users : dl[b][u].pc = "idle" /\ Untouched(b, u)
  BY <1>1 DEF TasksOK, Tasks, TraceOK, Trace, Untouched
<1>3. batch[b].state # "none"
  BY <1>1 DEF StagesOK, Stages
<1>4. /\ batch' \in [Batches -> BatchRow] /\ CountersExact'
      /\ \A c \in Batches : c # b => batch'[c] = batch[c]
      /\ batch'[b] = batch[b] \/ (batch'[b].state = "running" /\ batch[b].state # "finished")
  <2>1. CASE UNCHANGED batch
    <3>1. UNCHANGED rec
      BY DEF claim_batch
    <3>2. batch' \in [Batches -> BatchRow]
      BY <2>1 DEF TypeOK
    <3> QED BY <2>1, <3>1, <3>2, CountersFrame
  <2>2. CASE /\ batch' = [batch EXCEPT ![b] = [batch[b] EXCEPT !.state = "running", !.owned = TRUE]]
             /\ batch[b].state \in {"draft", "queued"}
    BY <2>2, StateOnly DEF claim_batch
  <2> QED BY <2>1, <2>2 DEF claim_batch
<1>5. /\ exec' \in [Batches -> {"idle", "claim", "deliver", "over"}]
      /\ exec'[b] \in {"deliver", "over"} /\ \A c \in Batches : c # b => exec'[c] = exec[c]
  BY <1>1 DEF TypeOK
<1>6. ASSUME NEW u \in Users
      PROVE  /\ tasks[u] \in Delivery
             /\ IF rec[b][u].state = "pending" THEN tasks[u].pc = "queued" ELSE tasks[u].pc = "done"
             /\ ~tasks[u].quar /\ ~tasks[u].rcpt /\ tasks[u].res = "none"
  BY Blank DEF Delivery, NoDelivery
<1>7. \/ UNCHANGED dl /\ exec'[b] = "over"
      \/ exec'[b] = "deliver" /\ dl' = [dl EXCEPT ![b] = tasks]
  BY <1>1, <1>5 DEF claim_batch, TypeOK
<1> HIDE DEF tasks
<1>8. /\ dl' \in [Batches -> [Users -> Delivery]]
      /\ \A c \in Batches, v \in Users : c # b => dl'[c][v] = dl[c][v]
      /\ \A v \in Users : \/ exec'[b] = "over" /\ dl'[b][v] = dl[b][v]
                          \/ exec'[b] = "deliver" /\ dl'[b][v] = tasks[v]
  <2>1. tasks \in [Users -> Delivery]
    BY <1>6 DEF tasks
  <2> QED BY <1>7, <2>1 DEF TypeOK
<1>9. TypeOK'
  BY <1>4, <1>5, <1>8 DEF claim_batch, TypeOK
<1>10. StagesOK'
  <2>1. ASSUME NEW c \in Batches PROVE Stages(c)'
    <3>1. Stages(c) /\ enq[c] \in Request
      BY Typed DEF StagesOK, TypeOK
    <3>2. enq[c].parent # None /\ batch[enq[c].parent].state = "finished" => batch'[enq[c].parent].state = "finished"
      BY <1>4, <3>1 DEF Request
    <3>3. CASE c = b
      BY <1>1, <1>3, <1>4, <1>5, <3>1, <3>2, <3>3 DEF claim_batch, Stages
    <3>4. CASE c # b
      BY <1>4, <1>5, <3>1, <3>2, <3>4 DEF claim_batch, Stages
    <3> QED BY <3>3, <3>4
  <2> QED BY <2>1 DEF StagesOK
<1>11. TasksOK'
  BY <1>2, <1>5, <1>6, <1>8 DEF TasksOK, Tasks
<1>12. TraceOK'
  BY <1>5 DEF claim_batch, TraceOK, Trace, Reached
<1>13. OwnersOK'
  <2>1. ASSUME NEW c \in Batches, NEW v \in Users, NEW x, Owner(c, v, x) PROVE Owner(c, v, x)'
    BY <2>1 DEF claim_batch, Owner, Knows, Leased, Touched, Untouched, Reached, Holds
  <2>2. ASSUME NEW v \in Users PROVE Owner(b, v, tasks[v])
    BY <1>2, <1>6, <2>2 DEF Owner, Holds
  <2>3. ASSUME NEW c \in Batches, NEW v \in Users PROVE Owner(c, v, dl[c][v])'
    <3>1. CASE c # b \/ exec'[b] = "over"
      BY <1>8, <2>1, <3>1 DEF OwnersOK
    <3>2. CASE c = b /\ exec'[b] = "deliver"
      <4>1. PICK x : x = tasks[v]
        OBVIOUS
      <4>2. Owner(c, v, x)' /\ dl'[c][v] = x
        BY <1>8, <2>1, <2>2, <3>2, <4>1
      <4> QED BY <4>2
    <3> QED BY <1>8, <3>1, <3>2
  <2> QED BY <2>3 DEF OwnersOK
<1> QED
  BY <1>4, <1>9, <1>10, <1>11, <1>12, <1>13, RowsFrame, KeysFrame, GenerationsFrame, SentFrame
     DEF claim_batch

LEMMA EndExecution_Inv ==
  ASSUME Inv, NEW b \in Batches, EndExecution(b)
  PROVE  Inv'
<1> USE DEF Inv
<1>1. exec[b] = "deliver" /\ batch[b].state # "none"
  BY DEF EndExecution, StagesOK, Stages
<1>2. /\ dl' \in [Batches -> [Users -> Delivery]]
      /\ \A c \in Batches, v \in Users : c # b => dl'[c][v] = dl[c][v]
      /\ \A v \in Users : dl'[b][v].pc = "idle"
  BY Blank DEF EndExecution, TypeOK, NoDelivery
<1>3. /\ exec' \in [Batches -> {"idle", "claim", "deliver", "over"}]
      /\ exec'[b] = "over" /\ \A c \in Batches : c # b => exec'[c] = exec[c]
  BY DEF EndExecution, TypeOK
<1>4. /\ rec' \in [Batches -> [Users -> Recipient]] /\ batch' \in [Batches -> BatchRow]
      /\ \A c \in Batches : c # b => batch'[c] = batch[c] /\ rec'[c] = rec[c]
      /\ batch'[b] = batch[b] \/ batch'[b].state = "finished"
      /\ CountersExact' /\ RowsOK' /\ KeysOK' /\ TraceOK' /\ SentOK'
  <2>1. CASE Interrupted(b)
    BY <1>1, <1>3, <2>1, InterruptedRows, InterruptedCounts, InterruptedParts DEF EndExecution
  <2>2. ASSUME UNCHANGED rec PROVE RowsOK' /\ KeysOK' /\ TraceOK' /\ SentOK'
    BY <1>3, <2>2, RowsFrame, KeysFrame, SentFrame DEF EndExecution, TraceOK, Trace, Reached
  <2>3. CASE /\ batch[b].owned /\ batch[b].pending = 0 /\ batch[b].started = 0
             /\ batch' = [batch EXCEPT ![b] = [batch[b] EXCEPT !.state = "finished", !.owned = FALSE]]
             /\ UNCHANGED rec
    BY <2>2, <2>3, StateOnly DEF TypeOK
  <2>4. CASE UNCHANGED <<batch, rec>>
    BY <2>2, <2>4, CountersFrame DEF TypeOK
  <2> QED BY <2>1, <2>3, <2>4 DEF EndExecution
<1>5. TypeOK'
  BY <1>2, <1>3, <1>4 DEF EndExecution, TypeOK
<1>6. StagesOK'
  <2>1. ASSUME NEW c \in Batches PROVE Stages(c)'
    <3>1. Stages(c) /\ enq[c] \in Request
      BY Typed DEF StagesOK, TypeOK
    <3>2. enq[c].parent # None /\ batch[enq[c].parent].state = "finished" => batch'[enq[c].parent].state = "finished"
      BY <1>4, <3>1 DEF Request
    <3>3. CASE c = b
      BY <1>1, <1>3, <1>4, <3>1, <3>2, <3>3 DEF EndExecution, Stages
    <3>4. CASE c # b
      BY <1>3, <1>4, <3>1, <3>2, <3>4 DEF EndExecution, Stages
    <3> QED BY <3>3, <3>4
  <2> QED BY <2>1 DEF StagesOK
<1>7. TasksOK'
  BY <1>2, <1>3 DEF TasksOK, Tasks
<1>8. OwnersOK'
  <2>1. ASSUME NEW c \in Batches, NEW v \in Users PROVE Owner(c, v, dl[c][v])'
    <3>1. CASE c = b
      BY <1>2, <3>1 DEF Owner, Holds
    <3>2. CASE c # b
      BY <1>2, <1>4, <3>2 DEF EndExecution, OwnersOK, Owner, Knows, Leased, Touched, Untouched, Reached, Holds
    <3> QED BY <3>1, <3>2
  <2> QED BY <2>1 DEF OwnersOK
<1> QED
  BY <1>4, <1>5, <1>6, <1>7, <1>8, GenerationsFrame DEF EndExecution

LEMMA Crash_Inv ==
  ASSUME Inv, NEW b \in Batches, Crash(b)
  PROVE  Inv'
<1> USE DEF Inv
<1> DEFINE rest == [u \in Users |-> [NoDelivery EXCEPT !.pc = IF dl[b][u].pc = "cleared"
                                                             THEN "lost" ELSE "idle"]]
<1>1. exec[b] \in {"claim", "deliver"} /\ job[b] \notin {"absent", "queued"} /\ batch[b].state # "none"
  BY DEF Crash, StagesOK, Stages
<1>2. rest \in [Users -> Delivery] /\ \A v \in Users : rest[v].pc = IF dl[b][v].pc = "cleared" THEN "lost" ELSE "idle"
  BY Blank DEF NoDelivery, Delivery
<1>3. dl' = [dl EXCEPT ![b] = rest]
  BY DEF Crash
<1> HIDE DEF rest
<1>4. /\ dl' \in [Batches -> [Users -> Delivery]]
      /\ \A c \in Batches, v \in Users : c # b => dl'[c][v] = dl[c][v]
      /\ \A v \in Users : dl'[b][v].pc = IF dl[b][v].pc = "cleared" THEN "lost" ELSE "idle"
  BY <1>2, <1>3 DEF TypeOK
<1>5. /\ exec' \in [Batches -> {"idle", "claim", "deliver", "over"}]
      /\ exec'[b] = "over" /\ \A c \in Batches : c # b => exec'[c] = exec[c]
  BY DEF Crash, TypeOK
<1>6. TypeOK'
  BY <1>4, <1>5 DEF Crash, TypeOK
<1>7. StagesOK'
  BY <1>1, <1>5 DEF Crash, StagesOK, Stages
<1>8. TasksOK'
  BY <1>4, <1>5 DEF TasksOK, Tasks
<1>9. TraceOK'
  BY <1>5 DEF Crash, TraceOK, Trace, Reached
<1>10. OwnersOK'
  <2>1. ASSUME NEW c \in Batches, NEW v \in Users PROVE Owner(c, v, dl[c][v])'
    <3>1. CASE c = b
      <4>1. dl[b][v].pc = "cleared" => Leased(b, v)
        BY DEF OwnersOK, Owner, Holds
      <4> QED BY <1>4, <3>1, <4>1 DEF Crash, Owner, Holds, Leased
    <3>2. CASE c # b
      BY <1>4, <3>2 DEF Crash, OwnersOK, Owner, Knows, Leased, Touched, Untouched, Reached, Holds
    <3> QED BY <3>1, <3>2
  <2> QED BY <2>1 DEF OwnersOK
<1> QED
  BY <1>6, <1>7, <1>8, <1>9, <1>10, RowsFrame, KeysFrame, GenerationsFrame, SentFrame, CountersFrame
     DEF Crash

\* A draft that turns out to have a job is queued.
LEMMA QueuedOnly ==
  ASSUME Inv, NEW b \in Batches, batch' = [batch EXCEPT ![b] = Queued(batch[b])], UNCHANGED rec
  PROVE  /\ batch' \in [Batches -> BatchRow] /\ CountersExact'
         /\ \A c \in Batches : c # b => batch'[c] = batch[c]
         /\ batch'[b] = batch[b] \/ /\ batch[b].state = "draft" /\ batch'[b].state = "queued"
                                    /\ batch'[b].owned = batch[b].owned
<1>1. batch[b] \in BatchRow
  BY DEF Inv, TypeOK
<1>2. CASE batch[b].state = "draft"
  <2>1. [batch[b] EXCEPT !.state = "queued"] = [batch[b] EXCEPT !.state = "queued", !.owned = batch[b].owned]
    BY <1>1 DEF BatchRow
  <2>2. batch[b].owned \in BOOLEAN
    BY <1>1 DEF BatchRow
  <2>3. batch' = [batch EXCEPT ![b] = [batch[b] EXCEPT !.state = "queued", !.owned = batch[b].owned]]
    BY <1>2, <2>1 DEF Queued
  <2> QED BY <1>2, <2>2, <2>3, StateOnly
<1>3. CASE batch[b].state # "draft"
  <2>1. batch' = batch
    BY <1>3 DEF Queued, Inv, TypeOK
  <2> QED BY <2>1, CountersFrame DEF Inv, TypeOK
<1> QED BY <1>2, <1>3

LEMMA RecoverRead_Inv ==
  ASSUME Inv, NEW b \in Batches, RecoverRead(b)
  PROVE  Inv'
<1> USE DEF Inv
<1>1. batch[b].state \notin {"none", "finished"}
  BY DEF RecoverRead, Open
<1>2. /\ batch' \in [Batches -> BatchRow] /\ CountersExact'
      /\ \A c \in Batches : c # b => batch'[c] = batch[c]
      /\ batch'[b] = batch[b] \/ /\ batch[b].state = "draft" /\ batch'[b].state = "queued"
                                 /\ batch'[b].owned = batch[b].owned
  <2>1. CASE job[b] # "absent"
    BY <2>1, QueuedOnly DEF RecoverRead
  <2>2. CASE job[b] = "absent"
    <3>1. batch' = batch
      BY <2>2 DEF RecoverRead, TypeOK
    <3> QED BY <3>1, CountersFrame DEF RecoverRead, TypeOK
  <2> QED BY <2>1, <2>2
<1>3. doom' \in [Batches -> BOOLEAN] /\ \A c \in Batches : c # b => doom'[c] = doom[c]
  BY DEF RecoverRead, TypeOK, Condemned
<1>4. TypeOK'
  BY <1>2, <1>3 DEF RecoverRead, TypeOK
<1>5. StagesOK'
  <2>1. ASSUME NEW c \in Batches PROVE Stages(c)'
    <3>1. Stages(c) /\ enq[c] \in Request
      BY Typed DEF StagesOK, TypeOK
    <3>2. enq[c].parent # None /\ batch[enq[c].parent].state = "finished" => batch'[enq[c].parent].state = "finished"
      BY <1>2, <3>1 DEF Request
    <3>3. CASE c = b
      BY <1>1, <1>2, <3>1, <3>2, <3>3 DEF RecoverRead, Stages
    <3>4. CASE c # b
      BY <1>2, <1>3, <3>1, <3>2, <3>4 DEF RecoverRead, Stages
    <3> QED BY <3>3, <3>4
  <2> QED BY <2>1 DEF StagesOK
<1> QED
  BY <1>2, <1>4, <1>5, TasksFrame, RowsFrame, KeysFrame, GenerationsFrame, TraceFrame, SentFrame,
     OwnersFrame DEF RecoverRead

-----------------------------------------------------------------------------
\* Erasing an account.

LEMMA Erase_Inv ==
  ASSUME Inv, NEW u \in Users, Erase(u)
  PROVE  Inv'
<1> USE DEF Inv
<1> DEFINE a == [user[u] EXCEPT !.here = FALSE, !.erased = user[u].epoch]
<1>1. user[u] \in Account /\ user[u].here /\ \A b \in Batches : ~Holds(dl[b][u])
  BY Typed DEF Erase, TypeOK
<1>2. a \in Account /\ ~a.here /\ a.epoch = user[u].epoch /\ a.erased = user[u].epoch
  <2>1. user[u].epoch \in 0..MaxEpoch
    BY <1>1, Numbers DEF Account, Epochs
  <2> QED BY <1>1, <2>1 DEF Account
<1>3. user' = [user EXCEPT ![u] = a]
  BY DEF Erase
<1> HIDE DEF a
<1>4. /\ user' \in [Users -> Account] /\ user'[u] = a
      /\ \A v \in Users : v # u => user'[v] = user[v]
  BY <1>2, <1>3 DEF TypeOK
<1>5. /\ rec' \in [Batches -> [Users -> Recipient]]
      /\ \A b \in Batches : /\ rec'[b][u] = NoRow
                            /\ \A v \in Users : v # u => rec'[b][v] = rec[b][v]
  BY Blank DEF Erase, TypeOK
<1>6. ASSUME NEW b \in Batches
      PROVE  /\ \A s : s # "none" => InState(b, s)' = InState(b, s) \ {u}
             /\ Retryable(b)' = Retryable(b) \ {u}
  BY <1>5 DEF InState, Retryable, NoRow
<1>7. ASSUME NEW b \in Batches
      PROVE  /\ batch'[b] \in BatchRow /\ batch'[b].state = batch[b].state
             /\ batch'[b].owned = batch[b].owned
             /\ batch[b].state = "none" => batch'[b] = batch[b]
             /\ Tallied(b)'
  <2>1. batch[b] \in BatchRow /\ Tallied(b) /\ rec[b][u] \in Recipient
    BY Tally, Typed DEF TypeOK
  <2>2. batch'[b] = ErasedBatch(b, u)
    BY DEF Erase
  <2>3. \A s : /\ Cardinality(InState(b, s)) \in Nat /\ Cardinality(Retryable(b)) \in Nat
    BY Finite
  <2>4. ASSUME NEW s
        PROVE  /\ Cardinality(InState(b, s) \ {u}) \in Nat
               /\ Cardinality(InState(b, s) \ {u}) <= Cardinality(InState(b, s))
               /\ u \in InState(b, s) => Cardinality(InState(b, s) \ {u}) = Cardinality(InState(b, s)) - 1
               /\ u \notin InState(b, s) => InState(b, s) \ {u} = InState(b, s)
               /\ Cardinality(Retryable(b) \ {u}) \in Nat
               /\ Cardinality(Retryable(b) \ {u}) <= Cardinality(Retryable(b))
    BY Counting
  <2>5. \A s : u \in InState(b, s) <=> rec[b][u].state = s
    BY DEF InState
  <2>6. /\ InState(b, "pending")' = InState(b, "pending") \ {u}
        /\ InState(b, "started")' = InState(b, "started") \ {u}
        /\ InState(b, "sent")' = InState(b, "sent") \ {u}
        /\ InState(b, "failed")' = InState(b, "failed") \ {u}
        /\ InState(b, "skipped")' = InState(b, "skipped") \ {u}
        /\ InState(b, "unknown_delivery")' = InState(b, "unknown_delivery") \ {u}
    BY <1>6
  <2>0. ASSUME NEW k \in Nat, NEW s, k >= Cardinality(InState(b, s))
        PROVE  k >= Cardinality(InState(b, s) \ {u}) /\ k + 1 >= Cardinality(InState(b, s) \ {u})
    BY <2>0, <2>3, <2>4
  <2>61. batch[b].retryable >= Cardinality(Retryable(b)')
    <3>1. Retryable(b)' = Retryable(b) \ {u} /\ Cardinality(Retryable(b)) \in Nat
      BY <1>6, Finite
    <3>2. Cardinality(Retryable(b) \ {u}) \in Nat /\ Cardinality(Retryable(b) \ {u}) <= Cardinality(Retryable(b))
      BY Counting
    <3>3. batch[b].retryable \in Nat
      BY <2>1 DEF BatchRow
    <3> QED BY <2>1, <3>1, <3>2, <3>3 DEF Tallied
  <2>7. CASE rec[b][u].state = "pending"
    <3>1. batch[b].pending - 1 \in Nat
      BY <2>1, <2>3, <2>4, <2>5, <2>7 DEF Tallied
    <3>2. PICK r \in BatchRow : r = batch[b]
      BY <2>1
    <3>21. PICK i \in Nat, j \in Nat : i = r.pending - 1 /\ j = r.skipped + 1
      BY <3>1, <3>2 DEF BatchRow
    <3> DEFINE n == [r EXCEPT !.pending = i, !.skipped = j]
    <3>22. batch'[b] = n
      BY <2>2, <2>7, <3>2, <3>21 DEF ErasedBatch, BatchRow
    <3>23. /\ n \in BatchRow /\ n.state = r.state /\ n.owned = r.owned /\ n.total = r.total
          /\ n.pending = i /\ n.skipped = j
          /\ n.started = r.started /\ n.sent = r.sent /\ n.failed = r.failed
          /\ n.unknown_delivery = r.unknown_delivery /\ n.retryable = r.retryable
      BY DEF BatchRow
    <3> HIDE DEF n
    <3>3. /\ batch'[b] \in BatchRow /\ batch'[b].state = batch[b].state /\ batch'[b].owned = batch[b].owned
          /\ batch'[b].total = batch[b].total /\ batch'[b].pending = batch[b].pending - 1
          /\ batch'[b].skipped = batch[b].skipped + 1
          /\ batch'[b].started = batch[b].started /\ batch'[b].sent = batch[b].sent
          /\ batch'[b].failed = batch[b].failed /\ batch'[b].unknown_delivery = batch[b].unknown_delivery
          /\ batch'[b].retryable = batch[b].retryable
      BY <3>2, <3>21, <3>22, <3>23
    <3>4. batch[b].state # "none"
      BY <2>7 DEF StagesOK, Stages
    <3>5. batch[b].state # "finished"
      BY <2>1, <3>1 DEF Tallied, BatchRow
    <3>6. /\ Cardinality(InState(b, "pending")') = Cardinality(InState(b, "pending")) - 1
          /\ Cardinality(InState(b, "started")') = Cardinality(InState(b, "started"))
      BY <2>4, <2>5, <2>6, <2>7
    <3>7. /\ batch'[b].sent >= Cardinality(InState(b, "sent")')
          /\ batch'[b].failed >= Cardinality(InState(b, "failed")')
          /\ batch'[b].skipped >= Cardinality(InState(b, "skipped")')
          /\ batch'[b].unknown_delivery >= Cardinality(InState(b, "unknown_delivery")')
      BY <2>0, <2>1, <2>6, <3>3 DEF Tallied, BatchRow
    <3>8. batch'[b].total = batch'[b].pending + batch'[b].started + batch'[b].sent + batch'[b].failed
                        + batch'[b].skipped + batch'[b].unknown_delivery
      BY <2>1, <3>3 DEF Tallied, BatchRow
    <3>9. Tallied(b)'
      BY <2>1, <2>61, <3>3, <3>5, <3>6, <3>7, <3>8 DEF Tallied
    <3> QED BY <3>3, <3>4, <3>9
  <2>8. CASE rec[b][u].state = "started"
    <3>1. batch[b].started - 1 \in Nat
      BY <2>1, <2>3, <2>4, <2>5, <2>8 DEF Tallied
    <3>2. PICK r \in BatchRow : r = batch[b]
      BY <2>1
    <3>21. PICK i \in Nat, j \in Nat : i = r.started - 1 /\ j = r.unknown_delivery + 1
      BY <3>1, <3>2 DEF BatchRow
    <3> DEFINE n == [r EXCEPT !.started = i, !.unknown_delivery = j]
    <3>22. batch'[b] = n
      BY <2>2, <2>8, <3>2, <3>21 DEF ErasedBatch, BatchRow
    <3>23. /\ n \in BatchRow /\ n.state = r.state /\ n.owned = r.owned /\ n.total = r.total
          /\ n.started = i /\ n.unknown_delivery = j
          /\ n.pending = r.pending /\ n.sent = r.sent /\ n.failed = r.failed
          /\ n.skipped = r.skipped /\ n.retryable = r.retryable
      BY DEF BatchRow
    <3> HIDE DEF n
    <3>3. /\ batch'[b] \in BatchRow /\ batch'[b].state = batch[b].state /\ batch'[b].owned = batch[b].owned
          /\ batch'[b].total = batch[b].total /\ batch'[b].started = batch[b].started - 1
          /\ batch'[b].unknown_delivery = batch[b].unknown_delivery + 1
          /\ batch'[b].pending = batch[b].pending /\ batch'[b].sent = batch[b].sent
          /\ batch'[b].failed = batch[b].failed /\ batch'[b].skipped = batch[b].skipped
          /\ batch'[b].retryable = batch[b].retryable
      BY <3>2, <3>21, <3>22, <3>23
    <3>4. batch[b].state # "none"
      BY <2>8 DEF StagesOK, Stages
    <3>5. batch[b].state # "finished"
      BY <2>1, <3>1 DEF Tallied, BatchRow
    <3>6. /\ Cardinality(InState(b, "started")') = Cardinality(InState(b, "started")) - 1
          /\ Cardinality(InState(b, "pending")') = Cardinality(InState(b, "pending"))
      BY <2>4, <2>5, <2>6, <2>8
    <3>7. /\ batch'[b].sent >= Cardinality(InState(b, "sent")')
          /\ batch'[b].failed >= Cardinality(InState(b, "failed")')
          /\ batch'[b].skipped >= Cardinality(InState(b, "skipped")')
          /\ batch'[b].unknown_delivery >= Cardinality(InState(b, "unknown_delivery")')
      BY <2>0, <2>1, <2>6, <3>3 DEF Tallied, BatchRow
    <3>8. batch'[b].total = batch'[b].pending + batch'[b].started + batch'[b].sent + batch'[b].failed
                        + batch'[b].skipped + batch'[b].unknown_delivery
      BY <2>1, <3>3 DEF Tallied, BatchRow
    <3>9. Tallied(b)'
      BY <2>1, <2>61, <3>3, <3>5, <3>6, <3>7, <3>8 DEF Tallied
    <3> QED BY <3>3, <3>4, <3>9
  <2>9. CASE rec[b][u].state \notin {"pending", "started"}
    <3>1. batch'[b] = batch[b]
      BY <2>2, <2>9 DEF ErasedBatch
    <3>2. /\ Cardinality(InState(b, "pending")') = Cardinality(InState(b, "pending"))
          /\ Cardinality(InState(b, "started")') = Cardinality(InState(b, "started"))
      BY <2>4, <2>5, <2>6, <2>9
    <3>7. /\ batch'[b].sent >= Cardinality(InState(b, "sent")')
          /\ batch'[b].failed >= Cardinality(InState(b, "failed")')
          /\ batch'[b].skipped >= Cardinality(InState(b, "skipped")')
          /\ batch'[b].unknown_delivery >= Cardinality(InState(b, "unknown_delivery")')
      BY <2>0, <2>1, <2>6, <3>1 DEF Tallied, BatchRow
    <3>8. Tallied(b)'
      BY <2>1, <2>61, <3>1, <3>2, <3>7 DEF Tallied
    <3> QED BY <2>1, <3>1, <3>8
  <2> QED BY <2>7, <2>8, <2>9
<1>8. batch' \in [Batches -> BatchRow] /\ CountersExact'
  <2>1. batch' = [b \in Batches |-> ErasedBatch(b, u)]
    BY DEF Erase
  <2>2. \A b \in Batches : Tallied(b)'
    BY <1>7
  <2> QED BY <1>7, <2>1, <2>2 DEF CountersExact, Tallied, Outcomes
<1>9. TypeOK'
  BY <1>4, <1>5, <1>8 DEF Erase, TypeOK
<1>10. StagesOK'
  <2>1. ASSUME NEW c \in Batches PROVE Stages(c)'
    <3>1. Stages(c) /\ enq[c] \in Request
      BY Typed DEF StagesOK, TypeOK
    <3>2. enq[c].parent # None => batch'[enq[c].parent].state = batch[enq[c].parent].state
      BY <1>7, <3>1 DEF Request
    <3>3. batch[c].state = "none" => \A v \in Users : rec'[c][v].state = "none"
      BY <1>5, <3>1 DEF Stages, NoRow
    <3> QED BY <1>7, <3>1, <3>2, <3>3 DEF Erase, Stages
  <2> QED BY <2>1 DEF StagesOK
<1>11. RowsOK'
  <2>1. ASSUME NEW c \in Batches, NEW v \in Users PROVE RowKept(c, v)'
    <3>1. CASE v = u
      <4>1. user'[u].epoch = user[u].epoch /\ user[u].epoch \in Nat
        BY <1>1, <1>2, <1>4 DEF Account, Epochs
      <4> QED BY <1>5, <3>1, <4>1 DEF Erase, RowsOK, RowKept, NoRow
    <3>2. CASE v # u
      BY <1>4, <1>5, <3>2 DEF Erase, RowsOK, RowKept
    <3> QED BY <3>1, <3>2
  <2> QED BY <2>1 DEF RowsOK
<1>12. KeysOK'
  BY <1>5 DEF KeysOK, OneKey, NoRow
<1>13. GenerationsOK'
  <2>1. ASSUME NEW v \in Users PROVE Generations(v)'
    BY <1>1, <1>2, <1>4 DEF Erase, GenerationsOK, Generations, Account, Epochs
  <2> QED BY <2>1 DEF GenerationsOK
<1>14. TraceOK'
  <2>1. ASSUME NEW c \in Batches, NEW v \in Users PROVE Trace(c, v)'
    <3>1. CASE v = u
      BY <1>2, <1>4, <1>5, <3>1 DEF Erase, TraceOK, Trace, Reached, NoRow
    <3>2. CASE v # u
      BY <1>4, <1>5, <3>2 DEF Erase, TraceOK, Trace, Reached
    <3> QED BY <3>1, <3>2
  <2> QED BY <2>1 DEF TraceOK
<1>15. SentOK'
  BY <1>5 DEF Erase, SentOK, SentReached, Reached, NoRow
<1>16. OwnersOK'
  <2>1. ASSUME NEW c \in Batches, NEW v \in Users PROVE Owner(c, v, dl[c][v])'
    <3>1. CASE v = u
      <4>1. ~Holds(dl[c][u]) /\ Owner(c, u, dl[c][u]) /\ rec'[c][u].state = "none"
        BY <1>1, <1>5 DEF OwnersOK, NoRow
      <4> QED BY <3>1, <4>1 DEF Erase, Owner, Untouched, Reached, Holds
    <3>2. CASE v # u
      BY <1>4, <1>5, <3>2 DEF Erase, OwnersOK, Owner, Knows, Leased, Touched, Untouched, Reached, Holds
    <3> QED BY <3>1, <3>2
  <2> QED BY <2>1 DEF OwnersOK
<1> QED
  BY <1>8, <1>9, <1>10, <1>11, <1>12, <1>13, <1>14, <1>15, <1>16, TasksFrame DEF Erase

-----------------------------------------------------------------------------
\* A row is claimed only under the execution of its batch.

Begun == \A b \in Batches, u \in Users :
           rec[b][u].state = "started" => exec[b] \in {"deliver", "over"}

\* No step starts a row, and no execution goes back.
NothingBegins == \A b \in Batches, u \in Users :
  /\ rec'[b][u].state = "started" => rec[b][u].state = "started"
  /\ exec[b] \in {"deliver", "over"} => exec'[b] \in {"deliver", "over"}

\* What create_batch leaves of the rows of the parent.
LEMMA ParentRow ==
  ASSUME Inv, NEW b \in Batches, NEW p \in Batches, enq[b].parent = p, NEW v \in Users
  PROVE  /\ ParentRows(b)[v] \in Recipient
         /\ ParentRows(b)[v].state = rec[p][v].state
         /\ ParentRows(b)[v].owned = rec[p][v].owned
         /\ ParentRows(b)[v].epoch = rec[p][v].epoch
         /\ ParentRows(b)[v].retry <=> rec[p][v].retry /\ v \notin Consumed(b)
         /\ ParentRows(b)[v].key <=>
              rec[p][v].key /\ ~(v \in Eligible(b) /\ rec[p][v].state = "failed" /\ rec[p][v].epoch = enq[b].ok[v])
<1>1. PICK r \in Recipient : r = rec[p][v]
  BY DEF Inv, TypeOK
<1>2. PICK x \in BOOLEAN : x <=> r.retry /\ v \notin Consumed(b)
  OBVIOUS
<1>3. PICK y \in BOOLEAN : y <=> r.key /\ ~(v \in Eligible(b) /\ r.state = "failed" /\ r.epoch = enq[b].ok[v])
  OBVIOUS
<1> DEFINE z == [r EXCEPT !.retry = x, !.key = y]
<1>4. /\ z \in Recipient /\ z.state = r.state /\ z.owned = r.owned /\ z.epoch = r.epoch
      /\ z.retry = x /\ z.key = y
  BY DEF Recipient
<1>5. ParentRows(b)[v] = z
  <2>1. x = (r.retry /\ v \notin Consumed(b))
    BY <1>2 DEF Recipient
  <2>2. y = (r.key /\ ~(v \in Eligible(b) /\ r.state = "failed" /\ r.epoch = enq[b].ok[v]))
    BY <1>3 DEF Recipient
  <2>3. ParentRows(b)[v] = [r EXCEPT !.retry = (r.retry /\ v \notin Consumed(b)),
             !.key = (r.key /\ ~(v \in Eligible(b) /\ r.state = "failed" /\ r.epoch = enq[b].ok[v]))]
    BY <1>1 DEF ParentRows, Recipient
  <2> QED BY <2>1, <2>2, <2>3
<1> HIDE DEF z
<1> QED BY <1>1, <1>2, <1>3, <1>4, <1>5

LEMMA BegunKept == ASSUME Begun, NothingBegins PROVE Begun'
BY DEF Begun, NothingBegins

LEMMA BegunStep ==
  ASSUME Inv, Begun, [Next]_vars
  PROVE  Begun'
<1>1. ASSUME UNCHANGED <<rec, exec>> PROVE NothingBegins
  BY <1>1 DEF NothingBegins
<1>2. ASSUME UNCHANGED exec, NEW b \in Batches, NEW u \in Users, NEW r \in Recipient,
             Writes(b, u, r), r.state = "started" => rec[b][u].state = "started"
      PROVE  NothingBegins
  BY <1>2, WritesTo DEF NothingBegins, Inv
<1>3. ASSUME UNCHANGED exec, NEW b \in Batches, NEW u \in Users, Arm(b, u) \/ Persist(b, u)
      PROVE  NothingBegins
  <2>1. rec[b][u] \in Recipient
    BY Typed DEF Inv
  <2>2. /\ [rec[b][u] EXCEPT !.att = TRUE] \in Recipient
        /\ [rec[b][u] EXCEPT !.att = TRUE].state = rec[b][u].state
        /\ [rec[b][u] EXCEPT !.att = FALSE] \in Recipient
        /\ [rec[b][u] EXCEPT !.att = FALSE].state = rec[b][u].state
    BY <2>1 DEF Recipient
  <2>3. \/ UNCHANGED rec \/ Writes(b, u, [rec[b][u] EXCEPT !.att = TRUE])
        \/ Writes(b, u, [rec[b][u] EXCEPT !.att = FALSE])
    BY <1>3 DEF Arm, Persist
  <2> QED BY <1>1, <1>2, <1>3, <2>2, <2>3
<1>4. ASSUME NEW b \in Batches, NEW u \in Users, claim_recipient(b, u)
      PROVE  Begun'
  <2>1. exec[b] = "deliver"
    BY <1>4, Typed DEF claim_recipient, Inv, TypeOK, TasksOK, Tasks
  <2>2. /\ [rec[b][u] EXCEPT !.state = "started", !.owned = TRUE] \in Recipient
    BY Typed DEF Inv, Recipient
  <2>3. UNCHANGED rec \/ Writes(b, u, [rec[b][u] EXCEPT !.state = "started", !.owned = TRUE])
    BY <1>4 DEF claim_recipient
  <2>4. \A c \in Batches, v \in Users : c # b => rec'[c][v] = rec[c][v]
    BY <2>2, <2>3, WritesTo DEF Inv
  <2> QED BY <1>4, <2>1, <2>4 DEF claim_recipient, Begun
<1>5. ASSUME NEW b \in Batches, NEW u \in Users, finish_recipient(b, u)
      PROVE  NothingBegins
  <2>1. dl[b][u].res \in Outcomes /\ rec[b][u] \in Recipient /\ dl[b][u] \in Delivery
    BY <1>5, Typed DEF Inv, finish_recipient, OwnersOK, Owner, Outcomes
  <2>2. FinishedRow(b, u, dl[b][u]) \in Recipient /\ FinishedRow(b, u, dl[b][u]).state # "started"
    BY <2>1 DEF FinishedRow, Recipient, Outcomes, Delivery
  <2>3. UNCHANGED exec /\ (UNCHANGED rec \/ Writes(b, u, FinishedRow(b, u, dl[b][u])))
    BY <1>5 DEF finish_recipient
  <2> QED BY <1>1, <1>2, <2>2, <2>3
<1>6. ASSUME NEW b \in Batches, Interrupted(b), exec[b] \in {"deliver", "over"} => exec'[b] \in {"deliver", "over"},
             \A c \in Batches : c # b => exec'[c] = exec[c]
      PROVE  NothingBegins
  <2>1. /\ \A v \in Users : RowInterrupted(rec[b][v], rec'[b][v])
        /\ \A c \in Batches : c # b => rec'[c] = rec[c]
    BY <1>6, InterruptedRows DEF Inv
  <2> QED BY <1>6, <2>1 DEF RowInterrupted, NothingBegins
<1>7. ASSUME NEW b \in Batches, EndExecution(b) PROVE NothingBegins
  <2>1. exec'[b] = "over" /\ \A c \in Batches : c # b => exec'[c] = exec[c]
    BY <1>7 DEF EndExecution, Inv, TypeOK
  <2>2. Interrupted(b) \/ UNCHANGED rec
    BY <1>7 DEF EndExecution
  <2> QED BY <1>6, <2>1, <2>2 DEF NothingBegins
<1>8. ASSUME NEW b \in Batches, StartExecution(b) \/ claim_batch(b) \/ Crash(b) PROVE NothingBegins
  <2>1. UNCHANGED rec /\ \A c \in Batches : c # b => exec'[c] = exec[c]
    BY <1>8 DEF StartExecution, claim_batch, Crash, Inv, TypeOK
  <2>2. exec[b] \in {"deliver", "over"} => exec'[b] \in {"deliver", "over"}
    BY <1>8 DEF StartExecution, claim_batch, Crash, Inv, TypeOK, StagesOK, Stages
  <2> QED BY <2>1, <2>2 DEF NothingBegins
<1>9. ASSUME NEW b \in Batches, record_admission(b) PROVE NothingBegins
  <2>1. \A v \in Users : rec[b][v].state = "pending" => Refused(b)[v].state = "failed"
    BY DEF Refused, Inv, TypeOK, Recipient
  <2>2. \A v \in Users : rec[b][v].state # "pending" => Refused(b)[v] = rec[b][v]
    BY DEF Refused
  <2>3. UNCHANGED exec /\ (UNCHANGED rec \/ rec' = [rec EXCEPT ![b] = Refused(b)])
    BY <1>9 DEF record_admission
  <2>4. \A c \in Batches, v \in Users : rec'[c][v] = rec[c][v] \/ (c = b /\ rec'[c][v] = Refused(b)[v])
    BY <2>3 DEF Inv, TypeOK
  <2> QED BY <2>1, <2>2, <2>3, <2>4 DEF NothingBegins
<1>10. ASSUME NEW b \in Batches, Create(b) PROVE NothingBegins
  <2>1. \A v \in Users : NewRows(b)[v].state # "started"
    BY DEF NewRows, NoRow
  <2>2. ASSUME enq[b].parent # None
        PROVE  \A v \in Users : ParentRows(b)[v].state = rec[enq[b].parent][v].state
    <3>1. enq[b].parent \in Batches
      BY <2>2, Typed DEF Inv, TypeOK, Request
    <3> QED BY <3>1, ParentRow
  <2>3. UNCHANGED exec
    BY <1>10 DEF Create
  <2>4. CASE UNCHANGED rec
    BY <1>1, <2>3, <2>4
  <2>5. CASE enq[b].parent = None /\ rec' = [rec EXCEPT ![b] = NewRows(b)]
    <3>1. rec'[b] = NewRows(b) /\ \A c \in Batches : c # b => rec'[c] = rec[c]
      BY <2>5 DEF Inv, TypeOK
    <3> QED BY <2>1, <2>3, <3>1 DEF NothingBegins
  <2>6. CASE enq[b].parent # None /\ rec' = [rec EXCEPT ![b] = NewRows(b), ![enq[b].parent] = ParentRows(b)]
    <3>1. PICK p : p = enq[b].parent /\ p \in Batches
      BY <2>6, Typed DEF Inv, TypeOK, Request
    <3>2. /\ rec'[p] = ParentRows(b) /\ \A c \in Batches : c # b /\ c # p => rec'[c] = rec[c]
          /\ b # p => rec'[b] = NewRows(b)
      BY <2>6, <3>1 DEF Inv, TypeOK
    <3>3. ASSUME NEW c \in Batches, NEW v \in Users, rec'[c][v].state = "started"
          PROVE  rec[c][v].state = "started"
      <4>1. CASE c = p
        BY <2>2, <2>6, <3>1, <3>2, <3>3, <4>1
      <4>2. CASE c # p /\ c = b
        BY <2>1, <3>2, <3>3, <4>2
      <4>3. CASE c # p /\ c # b
        BY <3>2, <3>3, <4>3
      <4> QED BY <4>1, <4>2, <4>3
    <3> QED BY <2>3, <3>3 DEF NothingBegins
  <2> QED BY <1>10, <2>4, <2>5, <2>6 DEF Create
<1>11. ASSUME NEW u \in Users, Erase(u) PROVE NothingBegins
  <2>1. \A b \in Batches, v \in Users : rec'[b][v] = IF v = u THEN NoRow ELSE rec[b][v]
    BY <1>11 DEF Erase, Inv, TypeOK
  <2> QED BY <1>11, <2>1 DEF Erase, NothingBegins, NoRow
<1>12. CASE UNCHANGED vars
  BY <1>1, <1>12, BegunKept DEF vars
<1>13. ASSUME NEW b \in Batches, RecoverInterrupt(b) PROVE NothingBegins
  BY <1>6, <1>13 DEF RecoverInterrupt
<1>14. ASSUME NEW b \in Batches,
              \/ enqueue_scheduled(b) \/ \E p \in Batches : retry_failed(b, p)
              \/ Admit(b) \/ Abort(b) \/ JobEnds(b) \/ RecoverRead(b)
       PROVE  NothingBegins
  BY <1>1, <1>14 DEF enqueue_scheduled, retry_failed, Ask, Admit, Abort, JobEnds, RecoverRead
<1>15. ASSUME NEW b \in Batches, NEW u \in Users,
              \/ AcquireLease(b, u) \/ Clear(b, u) \/ BotCall(b, u) \/ Deliver(b, u) \/ Landed(b, u)
       PROVE  NothingBegins
  BY <1>1, <1>15 DEF AcquireLease, Clear, BotCall, Deliver, Landed
<1>16. ASSUME NEW u \in Users, Consent(u) \/ Return(u) PROVE NothingBegins
  BY <1>1, <1>16 DEF Consent, Return
<1>17. ASSUME NEW b \in Batches, NEW u \in Users, Arm(b, u) \/ Persist(b, u) PROVE UNCHANGED exec
  BY <1>17 DEF Arm, Persist
<1> QED
  BY <1>3, <1>4, <1>5, <1>7, <1>8, <1>9, <1>10, <1>11, <1>12, <1>13, <1>14, <1>15, <1>16, <1>17,
     BegunKept DEF Next

-----------------------------------------------------------------------------
\* Recording what the queue answered.

\* A batch whose job the queue refused, and its rows.
RowRefused(r, q) ==
  /\ q.epoch = r.epoch /\ q.key = r.key /\ q.owned = r.owned
  /\ r.state = "pending" => q.state = "failed" /\ q.retry
  /\ r.state # "pending" => q.state = r.state /\ q.retry = r.retry

LEMMA RefusedRows ==
  ASSUME TypeOK, NEW b \in Batches, rec' = [rec EXCEPT ![b] = Refused(b)]
  PROVE  /\ rec' \in [Batches -> [Users -> Recipient]]
         /\ \A v \in Users : RowRefused(rec[b][v], rec'[b][v])
         /\ \A c \in Batches : c # b => rec'[c] = rec[c]
<1>1. ASSUME NEW v \in Users
      PROVE  Refused(b)[v] \in Recipient /\ RowRefused(rec[b][v], Refused(b)[v])
  <2>1. PICK r \in Recipient : r = rec[b][v]
    BY DEF TypeOK
  <2>2. [r EXCEPT !.state = "failed", !.retry = TRUE] \in Recipient
    BY DEF Recipient, Outcomes
  <2>3. Refused(b)[v] = IF r.state = "pending" THEN [r EXCEPT !.state = "failed", !.retry = TRUE] ELSE r
    BY <2>1 DEF Refused
  <2>4. RowRefused(r, Refused(b)[v])
    BY <2>3 DEF RowRefused, Recipient
  <2> QED BY <2>1, <2>2, <2>3, <2>4
<1>2. Refused(b) \in [Users -> Recipient]
  <2>1. Refused(b) = [v \in Users |-> Refused(b)[v]]
    BY DEF Refused
  <2> QED BY <1>1, <2>1
<1> QED BY <1>1, <1>2 DEF TypeOK

LEMMA RefusedCounts ==
  ASSUME Inv, Begun, NEW b \in Batches, exec[b] = "idle", rec' = [rec EXCEPT ![b] = Refused(b)],
         batch' = [batch EXCEPT ![b] = IF batch[b].state \in {"draft", "queued"}
                                       THEN RefusedBatch(batch[b]) ELSE batch[b]],
         batch[b].state # "none"
  PROVE  /\ batch' \in [Batches -> BatchRow] /\ batch'[b].state = "finished"
         /\ batch'[b].owned = batch[b].owned
         /\ \A c \in Batches : c # b => batch'[c] = batch[c]
         /\ CountersExact'
<1>1. /\ \A v \in Users : RowRefused(rec[b][v], rec'[b][v])
      /\ \A c \in Batches : c # b => rec'[c] = rec[c]
  BY RefusedRows DEF Inv
<1>2. batch[b] \in BatchRow /\ Tallied(b)
  BY Tally DEF Inv, TypeOK
<1>3. batch[b].state \in {"draft", "queued", "finished"}
  BY <1>2 DEF Inv, StagesOK, Stages, BatchRow
<1>4. InState(b, "started") = {} /\ batch[b].started = 0
  <2>1. InState(b, "started") = {}
    BY DEF Begun, InState
  <2> QED BY <1>2, <2>1, FS_EmptySet DEF Tallied
<1>5. /\ InState(b, "pending")' = {} /\ InState(b, "started")' = InState(b, "started")
      /\ InState(b, "sent")' = InState(b, "sent") /\ InState(b, "skipped")' = InState(b, "skipped")
      /\ InState(b, "unknown_delivery")' = InState(b, "unknown_delivery")
      /\ InState(b, "failed")' = InState(b, "failed") \cup InState(b, "pending")
      /\ Retryable(b)' = Retryable(b) \cup InState(b, "pending")
  BY <1>1 DEF InState, Retryable, RowRefused
<1>6. /\ Cardinality(InState(b, "failed")') = Cardinality(InState(b, "failed")) + Cardinality(InState(b, "pending"))
      /\ Cardinality(Retryable(b)') = Cardinality(Retryable(b)) + Cardinality(InState(b, "pending"))
      /\ Cardinality(InState(b, "pending")') = 0
      /\ Cardinality(Retryable(b)) \in Nat /\ \A s : Cardinality(InState(b, s)) \in Nat
  <2>1. ASSUME NEW S, IsFiniteSet(S), S \cap InState(b, "pending") = {}
        PROVE  Cardinality(S \cup InState(b, "pending")) = Cardinality(S) + Cardinality(InState(b, "pending"))
    <3>1. IsFiniteSet(InState(b, "pending")) /\ Cardinality(InState(b, "pending")) \in Nat
      BY Finite
    <3>2. Cardinality(S) \in Nat
      BY <2>1, FS_CardinalityType
    <3>3. Cardinality(S \cup InState(b, "pending")) =
            Cardinality(S) + Cardinality(InState(b, "pending")) - Cardinality(S \cap InState(b, "pending"))
      BY <2>1, <3>1, FS_Union
    <3>4. Cardinality(S \cap InState(b, "pending")) = 0
      BY <2>1, FS_EmptySet
    <3> QED BY <3>1, <3>2, <3>3, <3>4
  <2>2. /\ InState(b, "failed") \cap InState(b, "pending") = {}
        /\ Retryable(b) \cap InState(b, "pending") = {}
    BY DEF InState, Retryable
  <2>3. IsFiniteSet(InState(b, "failed")) /\ IsFiniteSet(Retryable(b))
    BY Finite
  <2> QED BY <1>5, <2>1, <2>2, <2>3, Finite, FS_EmptySet
<1>7. ASSUME NEW c \in Batches, c # b
      PROVE  (\A s : InState(c, s)' = InState(c, s)) /\ Retryable(c)' = Retryable(c)
  BY <1>1, <1>7 DEF InState, Retryable
<1>8. CASE batch[b].state = "finished"
  <2>1. batch' = batch
    BY <1>8 DEF Inv, TypeOK
  <2>2. Cardinality(InState(b, "pending")) = 0
    BY <1>2, <1>6, <1>8 DEF Tallied, BatchRow
  <2>3. Tallied(b)'
    BY <1>2, <1>5, <1>6, <2>1, <2>2 DEF Tallied, BatchRow
  <2>4. CountersExact'
    BY <1>7, <2>1, <2>3, TallyOne DEF Inv
  <2> QED BY <1>8, <2>1, <2>4 DEF Inv, TypeOK
<1>9. CASE batch[b].state # "finished"
  <2>1. PICK q \in BatchRow : q = batch[b]
    BY <1>2
  <2>2. PICK k \in Nat, l \in Nat : k = q.failed + q.pending /\ l = q.retryable + q.pending
    BY DEF BatchRow
  <2> DEFINE z == [q EXCEPT !.state = "finished", !.failed = k, !.retryable = l, !.pending = 0]
  <2>3. z \in BatchRow
    BY DEF BatchRow
  <2>4. /\ z.state = "finished" /\ z.owned = q.owned /\ z.pending = 0 /\ z.started = q.started
        /\ z.total = q.total /\ z.sent = q.sent /\ z.failed = k /\ z.retryable = l
        /\ z.skipped = q.skipped /\ z.unknown_delivery = q.unknown_delivery
    BY DEF BatchRow
  <2>5. RefusedBatch(batch[b]) = z
    BY <2>1, <2>2 DEF RefusedBatch, BatchRow
  <2>6. batch' = [batch EXCEPT ![b] = z]
    BY <1>3, <1>9, <2>5
  <2> HIDE DEF z
  <2>7. /\ batch' \in [Batches -> BatchRow] /\ batch'[b] = z
        /\ \A c \in Batches : c # b => batch'[c] = batch[c]
    BY <2>3, <2>6 DEF Inv, TypeOK
  <2>8. Tallied(b)'
    BY <1>2, <1>4, <1>5, <1>6, <2>1, <2>2, <2>4, <2>7 DEF Tallied, BatchRow
  <2>9. CountersExact'
    BY <1>7, <2>7, <2>8, TallyOne DEF Inv
  <2> QED BY <2>1, <2>4, <2>7, <2>9
<1> QED BY <1>8, <1>9

LEMMA record_admission_Inv ==
  ASSUME Inv, Begun, NEW b \in Batches, record_admission(b)
  PROVE  Inv'
<1> USE DEF Inv
<1> DEFINE q == [enq[b] EXCEPT !.pc = "over"]
<1>1. enq[b] \in Request /\ batch[b].state # "none"
  BY DEF record_admission, TypeOK, StagesOK, Stages
<1>2. q \in Request /\ q.pc = "over" /\ q.ok = enq[b].ok
  BY <1>1 DEF Request
<1>3. enq' = [enq EXCEPT ![b] = q]
  BY DEF record_admission
<1> HIDE DEF q
<1>4. /\ enq' \in [Batches -> Request] /\ enq'[b] = q
      /\ \A c \in Batches : c # b => enq'[c] = enq[c]
  BY <1>2, <1>3 DEF TypeOK
<1>5. UNCHANGED <<job, exec, dl, doom, user, seq, reached>>
  BY DEF record_admission
<1>6. /\ batch' \in [Batches -> BatchRow] /\ rec' \in [Batches -> [Users -> Recipient]]
      /\ \A c \in Batches : c # b => batch'[c] = batch[c] /\ rec'[c] = rec[c]
      /\ batch'[b].state \in {batch[b].state, "queued", "finished"}
      /\ batch[b].state = "finished" => batch'[b].state = "finished"
      /\ batch'[b].owned = batch[b].owned
      /\ CountersExact' /\ RowsOK' /\ KeysOK' /\ TraceOK' /\ SentOK' /\ OwnersOK'
  <2>1. ASSUME UNCHANGED rec
        PROVE  RowsOK' /\ KeysOK' /\ TraceOK' /\ SentOK' /\ OwnersOK'
    <3>1. RowsOK'
      BY <1>2, <1>4, <1>5, <2>1 DEF RowsOK, RowKept
    <3> QED BY <1>5, <2>1, <3>1, KeysFrame, TraceFrame, SentFrame, OwnersFrame
  <2>2. CASE UNCHANGED <<batch, rec>>
    BY <2>1, <2>2, CountersFrame DEF TypeOK
  <2>3. CASE batch' = [batch EXCEPT ![b] = Queued(batch[b])] /\ UNCHANGED rec
    <3>1. /\ batch' \in [Batches -> BatchRow] /\ CountersExact'
          /\ \A c \in Batches : c # b => batch'[c] = batch[c]
          /\ batch'[b] = batch[b] \/ /\ batch[b].state = "draft" /\ batch'[b].state = "queued"
                                     /\ batch'[b].owned = batch[b].owned
      BY <2>3, QueuedOnly
    <3> QED BY <2>1, <2>3, <3>1 DEF TypeOK
  <2>4. CASE /\ enq[b].pc = "rejected" /\ rec' = [rec EXCEPT ![b] = Refused(b)]
             /\ batch' = [batch EXCEPT ![b] = IF batch[b].state \in {"draft", "queued"}
                                              THEN RefusedBatch(batch[b]) ELSE batch[b]]
    <3>1. exec[b] = "idle" /\ \A v \in Users : dl[b][v].pc = "idle"
      BY <2>4 DEF StagesOK, Stages, TasksOK, Tasks
    <3>2. /\ rec' \in [Batches -> [Users -> Recipient]]
          /\ \A v \in Users : RowRefused(rec[b][v], rec'[b][v])
          /\ \A c \in Batches : c # b => rec'[c] = rec[c]
      BY <2>4, RefusedRows
    <3>3. /\ batch' \in [Batches -> BatchRow] /\ batch'[b].state = "finished"
          /\ batch'[b].owned = batch[b].owned
          /\ \A c \in Batches : c # b => batch'[c] = batch[c]
          /\ CountersExact'
      BY <1>1, <2>4, <3>1, RefusedCounts
    <3>4. RowsOK'
      <4>1. ASSUME NEW c \in Batches, NEW v \in Users PROVE RowKept(c, v)'
        <5>1. RowKept(c, v) /\ enq'[c].ok = enq[c].ok
          BY <1>2, <1>4 DEF RowsOK
        <5>2. CASE c = b
          BY <1>5, <3>2, <5>1, <5>2 DEF RowRefused, RowKept
        <5>3. CASE c # b
          BY <1>5, <3>2, <5>1, <5>3 DEF RowKept
        <5> QED BY <5>2, <5>3
      <4> QED BY <4>1 DEF RowsOK
    <3>5. KeysOK'
      <4>1. \A c \in Batches, v \in Users : rec'[c][v].key = rec[c][v].key /\ rec'[c][v].epoch = rec[c][v].epoch
        BY <3>2 DEF RowRefused
      <4> QED BY <4>1 DEF KeysOK, OneKey
    <3>6. TraceOK'
      <4>1. ASSUME NEW c \in Batches, NEW v \in Users PROVE Trace(c, v)'
        <5>1. CASE c = b
          BY <1>5, <3>1, <5>1 DEF TraceOK, Trace, Reached
        <5>2. CASE c # b
          BY <1>5, <3>2, <5>2 DEF TraceOK, Trace, Reached
        <5> QED BY <5>1, <5>2
      <4> QED BY <4>1 DEF TraceOK
    <3>7. SentOK'
      <4>1. ASSUME NEW c \in Batches, NEW v \in Users PROVE SentReached(c, v)'
        <5>1. CASE c = b
          BY <1>5, <3>2, <5>1 DEF SentOK, SentReached, Reached, RowRefused
        <5>2. CASE c # b
          BY <1>5, <3>2, <5>2 DEF SentOK, SentReached, Reached
        <5> QED BY <5>1, <5>2
      <4> QED BY <4>1 DEF SentOK
    <3>8. OwnersOK'
      <4>1. ASSUME NEW c \in Batches, NEW v \in Users PROVE Owner(c, v, dl[c][v])'
        <5>1. CASE c = b
          BY <1>5, <3>1, <5>1 DEF Owner, Holds
        <5>2. CASE c # b
          BY <1>5, <3>2, <5>2 DEF OwnersOK, Owner, Knows, Leased, Touched, Untouched, Reached, Holds
        <5> QED BY <5>1, <5>2
      <4> QED BY <4>1 DEF OwnersOK
    <3> QED BY <3>2, <3>3, <3>4, <3>5, <3>6, <3>7, <3>8
  <2>5. enq[b].pc \in {"accepted", "unknown", "rejected"}
    BY DEF record_admission
  <2>6. CASE enq[b].pc = "accepted"
    BY <2>3, <2>6 DEF record_admission
  <2>7. CASE enq[b].pc = "unknown"
    BY <2>2, <2>3, <2>7 DEF record_admission
  <2>8. CASE enq[b].pc = "rejected"
    BY <2>4, <2>8 DEF record_admission
  <2> QED BY <2>5, <2>6, <2>7, <2>8
<1>7. TypeOK'
  BY <1>4, <1>5, <1>6 DEF TypeOK
<1>8. StagesOK'
  <2>1. ASSUME NEW c \in Batches PROVE Stages(c)'
    <3>1. Stages(c) /\ enq[c] \in Request
      BY Typed DEF StagesOK, TypeOK
    <3>2. enq[c].parent # None /\ batch[enq[c].parent].state = "finished" => batch'[enq[c].parent].state = "finished"
      BY <1>6, <3>1 DEF Request
    <3>3. CASE c = b
      BY <1>1, <1>2, <1>4, <1>5, <1>6, <3>1, <3>3 DEF Stages
    <3>4. CASE c # b
      BY <1>4, <1>5, <1>6, <3>1, <3>2, <3>4 DEF Stages
    <3> QED BY <3>3, <3>4
  <2> QED BY <2>1 DEF StagesOK
<1> QED
  BY <1>5, <1>6, <1>7, <1>8, TasksFrame, GenerationsFrame

-----------------------------------------------------------------------------
\* Creating a batch.

LEMMA CreatedRows ==
  ASSUME Inv, NEW b \in Batches, NEW v \in Users
  PROVE  /\ NewRows(b)[v] \in Recipient /\ ~NewRows(b)[v].owned /\ ~NewRows(b)[v].retry
         /\ v \in Inserted(b) => /\ NewRows(b)[v].state = "pending" /\ NewRows(b)[v].key
                                 /\ NewRows(b)[v].epoch = enq[b].ok[v]
         /\ v \notin Inserted(b) => NewRows(b)[v] = NoRow
<1>1. PICK e \in 0..MaxEpoch : e = enq[b].ok[v]
  BY DEF Inv, TypeOK, Request
<1> DEFINE z == [NoRow EXCEPT !.state = "pending", !.epoch = e, !.key = TRUE]
<1>2. z \in Recipient /\ z.state = "pending" /\ z.key /\ z.epoch = e /\ ~z.owned /\ ~z.retry
  BY Blank DEF Recipient, NoRow
<1>3. NewRows(b)[v] = IF v \in Inserted(b) THEN z ELSE NoRow
  BY <1>1 DEF NewRows
<1>4. ~NoRow.owned /\ ~NoRow.retry
  BY DEF NoRow
<1> HIDE DEF z
<1> QED BY <1>1, <1>2, <1>3, <1>4, Blank

\* The counters of a batch that has just been created.
LEMMA CreatedCounts ==
  ASSUME Inv, NEW b \in Batches, batch'[b] = NewBatch(b), rec'[b] = NewRows(b)
  PROVE  /\ batch'[b] \in BatchRow /\ batch'[b].state = "draft" /\ ~batch'[b].owned
         /\ Tallied(b)'
<1>1. enq[b] \in Request
  BY DEF Inv, TypeOK
<1>2. PICK A : A = enq[b].asked /\ A \in SUBSET Users
  BY <1>1 DEF Request
<1>3. PICK I : I = Inserted(b) /\ I \in SUBSET A
  BY <1>2 DEF Inserted, Eligible
<1>4. IsFiniteSet(A) /\ IsFiniteSet(I) /\ IsFiniteSet(A \ I)
  BY <1>2, <1>3, BroadcastAssumption, FS_Subset
<1>5. PICK i \in Nat, j \in Nat, k \in Nat :
        i = Cardinality(A) /\ j = Cardinality(I) /\ k = Cardinality(A \ I)
  BY <1>4, FS_CardinalityType
<1>6. i = j + k
  <2>1. A \cap I = I
    BY <1>3
  <2>2. Cardinality(A \ I) = Cardinality(A) - Cardinality(A \cap I)
    BY <1>4, FS_Difference
  <2>3. Cardinality(A \cap I) = Cardinality(I)
    BY <2>1
  <2>4. k = i - j
    BY <1>5, <2>2, <2>3
  <2> QED BY <2>4
<1>7. enq[b].parent \in Batches \cup {None}
  BY <1>1 DEF Request
<1> DEFINE y == [NoBatch EXCEPT !.state = "draft", !.parent = enq[b].parent]
           z == [y EXCEPT !.total = i, !.pending = j, !.skipped = k]
<1>8. /\ y \in BatchRow /\ y.state = "draft" /\ ~y.owned /\ y.started = 0 /\ y.sent = 0
      /\ y.failed = 0 /\ y.unknown_delivery = 0 /\ y.retryable = 0
  BY <1>7, Blank DEF BatchRow, NoBatch
<1>9. NewBatch(b) = z
  BY <1>2, <1>3, <1>5 DEF NewBatch, NoBatch
<1> HIDE DEF y
<1>10. /\ z \in BatchRow /\ z.state = "draft" /\ ~z.owned /\ z.started = 0 /\ z.sent = 0
       /\ z.failed = 0 /\ z.unknown_delivery = 0 /\ z.retryable = 0
       /\ z.total = i /\ z.pending = j /\ z.skipped = k
  BY <1>8 DEF BatchRow
<1> HIDE DEF z
<1>11. \A v \in Users : /\ v \in I => rec'[b][v].state = "pending"
                        /\ v \notin I => rec'[b][v].state = "none"
  BY <1>3, CreatedRows DEF NoRow
<1>12. /\ InState(b, "pending")' = I /\ InState(b, "started")' = {} /\ InState(b, "sent")' = {}
       /\ InState(b, "failed")' = {} /\ InState(b, "skipped")' = {}
       /\ InState(b, "unknown_delivery")' = {} /\ Retryable(b)' = {}
  BY <1>2, <1>3, <1>11 DEF InState, Retryable
<1>13. Cardinality({}) = 0
  BY FS_EmptySet
<1>14. /\ Cardinality(InState(b, "pending")') = j /\ Cardinality(InState(b, "started")') = 0
       /\ Cardinality(InState(b, "sent")') = 0 /\ Cardinality(InState(b, "failed")') = 0
       /\ Cardinality(InState(b, "skipped")') = 0 /\ Cardinality(Retryable(b)') = 0
       /\ Cardinality(InState(b, "unknown_delivery")') = 0
  BY <1>5, <1>12, <1>13
<1>15. batch'[b] = z
  BY <1>9
<1>16. Tallied(b)'
  BY <1>6, <1>10, <1>14, <1>15 DEF Tallied
<1> QED BY <1>10, <1>15, <1>16

\* The counters of the parent, whose failed rows the child has taken over.
LEMMA ParentCounts ==
  ASSUME Inv, NEW b \in Batches, NEW p \in Batches, enq[b].parent = p, rec'[p] = ParentRows(b),
         batch'[p] = [batch[p] EXCEPT !.retryable = @ - Cardinality(Consumed(b))]
  PROVE  /\ batch'[p] \in BatchRow /\ batch'[p].state = batch[p].state
         /\ batch'[p].owned = batch[p].owned /\ Tallied(p)'
<1>1. batch[p] \in BatchRow /\ Tallied(p)
  BY Tally DEF Inv, TypeOK
<1>2. PICK C : C = Consumed(b) /\ C \in SUBSET Retryable(p)
  BY BroadcastAssumption DEF Consumed
<1>3. /\ IsFiniteSet(Retryable(p)) /\ IsFiniteSet(C) /\ Cardinality(Retryable(p)) \in Nat
      /\ Cardinality(C) \in Nat
  <2>1. IsFiniteSet(Retryable(p)) /\ Cardinality(Retryable(p)) \in Nat
    BY Finite
  <2>2. IsFiniteSet(C)
    BY <1>2, <2>1, FS_Subset
  <2> QED BY <2>1, <2>2, FS_CardinalityType
<1>4. Cardinality(Retryable(p) \ C) = Cardinality(Retryable(p)) - Cardinality(C)
  <2>1. Retryable(p) \cap C = C
    BY <1>2
  <2>2. Cardinality(Retryable(p) \ C) = Cardinality(Retryable(p)) - Cardinality(Retryable(p) \cap C)
    BY <1>3, FS_Difference
  <2> QED BY <2>1, <2>2
<1>5. Cardinality(C) <= Cardinality(Retryable(p))
  BY <1>2, <1>3, FS_Subset
<1>6. PICK q \in BatchRow : q = batch[p]
  BY <1>1
<1>7. PICK k \in Nat : k = q.retryable - Cardinality(C)
  <2>1. q.retryable \in Nat /\ q.retryable >= Cardinality(Retryable(p))
    BY <1>1, <1>6 DEF Tallied, BatchRow
  <2> QED BY <1>3, <1>5, <2>1
<1> DEFINE z == [q EXCEPT !.retryable = k]
<1>8. /\ z \in BatchRow /\ z.state = q.state /\ z.owned = q.owned /\ z.total = q.total
      /\ z.pending = q.pending /\ z.started = q.started /\ z.sent = q.sent /\ z.failed = q.failed
      /\ z.skipped = q.skipped /\ z.unknown_delivery = q.unknown_delivery /\ z.retryable = k
  BY DEF BatchRow
<1>9. batch'[p] = z
  BY <1>2, <1>6, <1>7 DEF BatchRow
<1> HIDE DEF z
<1>10. ASSUME NEW v \in Users
       PROVE  /\ rec'[p][v].state = rec[p][v].state
              /\ rec'[p][v].retry <=> rec[p][v].retry /\ v \notin C
  BY <1>2, ParentRow
<1>11. (\A s : InState(p, s)' = InState(p, s)) /\ Retryable(p)' = Retryable(p) \ C
  BY <1>10 DEF InState, Retryable
<1>12. batch'[p].retryable >= Cardinality(Retryable(p)')
  <2>1. q.retryable \in Nat /\ q.retryable >= Cardinality(Retryable(p))
    BY <1>1, <1>6 DEF Tallied, BatchRow
  <2>2. Cardinality(Retryable(p)') = Cardinality(Retryable(p)) - Cardinality(C)
    BY <1>4, <1>11
  <2>3. batch'[p].retryable = q.retryable - Cardinality(C)
    BY <1>7, <1>8, <1>9
  <2> QED BY <1>3, <2>1, <2>2, <2>3
<1>13. Tallied(p)'
  BY <1>1, <1>6, <1>8, <1>9, <1>11, <1>12 DEF Tallied
<1> QED BY <1>6, <1>8, <1>9, <1>13

\* What create_batch does to the journal: a new batch with rows of its own, and
\* a parent that gives up what the new batch takes.
LEMMA CreateJournal ==
  ASSUME Inv, NEW b \in Batches, enq[b].pc = "ready", Create(b), ~(Cardinality(Open) >= MaxOpen)
  PROVE  /\ batch' \in [Batches -> BatchRow] /\ rec' \in [Batches -> [Users -> Recipient]]
         /\ batch'[b].state = "draft" /\ ~batch'[b].owned /\ rec'[b] = NewRows(b)
         /\ \A c \in Batches : c # b => /\ batch'[c].state = batch[c].state
                                        /\ batch'[c].owned = batch[c].owned
                                        /\ batch[c].state = "none" => batch'[c] = batch[c]
         /\ \A c \in Batches, v \in Users : c # b =>
              \/ rec'[c][v] = rec[c][v]
              \/ c = enq[b].parent /\ rec'[c][v] = ParentRows(b)[v]
         /\ enq[b].parent \in Batches => rec'[enq[b].parent] = ParentRows(b)
         /\ CountersExact'
<1> USE DEF Inv
<1>1. enq[b] \in Request /\ batch[b].state = "none"
  BY DEF TypeOK, StagesOK, Stages
<1>3. NewRows(b) \in [Users -> Recipient]
  <2>1. NewRows(b) = [v \in Users |-> NewRows(b)[v]]
    BY DEF NewRows
  <2>2. \A v \in Users : NewRows(b)[v] \in Recipient
    BY CreatedRows
  <2> QED BY <2>1, <2>2
<1>4. CASE enq[b].parent = None
  <2>1. batch' = [batch EXCEPT ![b] = NewBatch(b)] /\ rec' = [rec EXCEPT ![b] = NewRows(b)]
    BY <1>4 DEF Create
  <2>2. /\ rec' \in [Batches -> [Users -> Recipient]] /\ rec'[b] = NewRows(b)
        /\ \A c \in Batches : c # b => rec'[c] = rec[c]
    BY <1>3, <2>1 DEF TypeOK
  <2>3. batch'[b] = NewBatch(b) /\ \A c \in Batches : c # b => batch'[c] = batch[c]
    BY <2>1 DEF TypeOK
  <2>4. /\ batch'[b] \in BatchRow /\ batch'[b].state = "draft" /\ ~batch'[b].owned /\ Tallied(b)'
    BY <2>2, <2>3, CreatedCounts
  <2>5. batch' \in [Batches -> BatchRow]
    <3>1. NewBatch(b) \in BatchRow
      BY <2>3, <2>4
    <3> QED BY <2>1, <3>1 DEF TypeOK
  <2>6. ASSUME NEW c \in Batches, c # b
        PROVE  (\A s : InState(c, s)' = InState(c, s)) /\ Retryable(c)' = Retryable(c)
    BY <2>2, <2>6 DEF InState, Retryable
  <2>7. CountersExact'
    BY <2>3, <2>4, <2>6, TallyOne
  <2>8. enq[b].parent \notin Batches
    BY <1>4, BroadcastAssumption
  <2> QED BY <2>2, <2>3, <2>4, <2>5, <2>7, <2>8
<1>5. CASE enq[b].parent # None
  <2>1. PICK p \in Batches : p = enq[b].parent
    BY <1>1, <1>5 DEF Request
  <2>2. p # b /\ batch[p].state = "finished"
    BY <1>1, <1>5, <2>1 DEF StagesOK, Stages
  <2>3. /\ batch' = [batch EXCEPT ![b] = NewBatch(b), ![p].retryable = @ - Cardinality(Consumed(b))]
        /\ rec' = [rec EXCEPT ![b] = NewRows(b), ![p] = ParentRows(b)]
    BY <1>5, <2>1 DEF Create
  <2>4. ParentRows(b) \in [Users -> Recipient]
    <3>1. ParentRows(b) = [v \in Users |-> ParentRows(b)[v]]
      BY DEF ParentRows
    <3>2. \A v \in Users : ParentRows(b)[v] \in Recipient
      BY <2>1, ParentRow
    <3> QED BY <3>1, <3>2
  <2>5. /\ rec' \in [Batches -> [Users -> Recipient]] /\ rec'[b] = NewRows(b)
        /\ rec'[p] = ParentRows(b)
        /\ \A c \in Batches : c # b /\ c # p => rec'[c] = rec[c]
    BY <1>3, <2>2, <2>3, <2>4 DEF TypeOK
  <2>6. /\ batch'[b] = NewBatch(b)
        /\ batch'[p] = [batch[p] EXCEPT !.retryable = @ - Cardinality(Consumed(b))]
        /\ \A c \in Batches : c # b /\ c # p => batch'[c] = batch[c]
        /\ batch' = [c \in Batches |-> batch'[c]]
    BY <2>2, <2>3 DEF TypeOK
  <2>7. /\ batch'[b] \in BatchRow /\ batch'[b].state = "draft" /\ ~batch'[b].owned /\ Tallied(b)'
    BY <2>5, <2>6, CreatedCounts
  <2>8. /\ batch'[p] \in BatchRow /\ batch'[p].state = batch[p].state
        /\ batch'[p].owned = batch[p].owned /\ Tallied(p)'
    BY <2>1, <2>5, <2>6, ParentCounts
  <2>9. batch' \in [Batches -> BatchRow]
    <3>1. \A c \in Batches : batch'[c] \in BatchRow
      BY <2>6, <2>7, <2>8 DEF TypeOK
    <3> QED BY <2>6, <3>1
  <2>10. ASSUME NEW c \in Batches, c # b, c # p
         PROVE  Tallied(c)'
    <3>1. (\A s : InState(c, s)' = InState(c, s)) /\ Retryable(c)' = Retryable(c)
      BY <2>5, <2>10 DEF InState, Retryable
    <3>2. Tallied(c) /\ batch'[c] = batch[c]
      BY <2>6, <2>10, Tally
    <3> QED BY <3>1, <3>2 DEF Tallied
  <2>11. CountersExact'
    <3>1. \A c \in Batches : Tallied(c)'
      BY <2>7, <2>8, <2>10
    <3> QED BY <3>1 DEF CountersExact, Tallied, Outcomes
  <2>12. \A c \in Batches : c # b => /\ batch'[c].state = batch[c].state
                                     /\ batch'[c].owned = batch[c].owned
                                     /\ batch[c].state = "none" => batch'[c] = batch[c]
    BY <2>2, <2>6, <2>8
  <2>13. \A c \in Batches, v \in Users : c # b =>
           rec'[c][v] = rec[c][v] \/ (c = enq[b].parent /\ rec'[c][v] = ParentRows(b)[v])
    BY <2>1, <2>5
  <2> QED BY <2>1, <2>5, <2>7, <2>9, <2>11, <2>12, <2>13
<1> QED BY <1>4, <1>5

LEMMA Create_Inv ==
  ASSUME Inv, NEW b \in Batches, Create(b)
  PROVE  Inv'
<1> USE DEF Inv
<1>1. /\ enq[b].pc = "ready" /\ enq[b] \in Request /\ batch[b].state = "none" /\ job[b] = "absent"
      /\ exec[b] = "idle" /\ \A v \in Users : dl[b][v].pc = "idle"
  BY DEF Create, TypeOK, StagesOK, Stages, TasksOK, Tasks
<1>2. PICK next \in {"created", "over"} :
        /\ enq' = [enq EXCEPT ![b] = [NoRequest EXCEPT !.pc = next]]
        /\ Cardinality(Open) >= MaxOpen => next = "over" /\ UNCHANGED <<batch, rec>>
  BY DEF Create
<1>3. UNCHANGED <<job, exec, dl, doom, user, seq, reached>>
  BY DEF Create
<1> DEFINE q == [NoRequest EXCEPT !.pc = next]
<1>4. q \in Request /\ q.pc = next /\ \A u \in Users : q.ok[u] <= user[u].epoch
  BY OverRequest
<1>5. enq' = [enq EXCEPT ![b] = q]
  BY <1>2
<1> HIDE DEF q
<1>6. CASE Cardinality(Open) >= MaxOpen
  <2>1. job' \in [Batches -> {"absent", "queued", "running", "terminal"}]
    BY <1>3 DEF TypeOK
  <2> QED BY <1>2, <1>3, <1>4, <1>5, <1>6, <2>1, RequestStep
<1>7. CASE ~(Cardinality(Open) >= MaxOpen)
  <2>1. /\ enq' \in [Batches -> Request] /\ enq'[b] = q
        /\ \A c \in Batches : c # b => enq'[c] = enq[c]
    BY <1>4, <1>5 DEF TypeOK
  <2>2. /\ batch' \in [Batches -> BatchRow] /\ rec' \in [Batches -> [Users -> Recipient]]
        /\ batch'[b].state = "draft" /\ ~batch'[b].owned /\ rec'[b] = NewRows(b)
        /\ \A c \in Batches : c # b => /\ batch'[c].state = batch[c].state
                                       /\ batch'[c].owned = batch[c].owned
                                       /\ batch[c].state = "none" => batch'[c] = batch[c]
        /\ \A c \in Batches, v \in Users : c # b =>
             \/ rec'[c][v] = rec[c][v]
             \/ c = enq[b].parent /\ rec'[c][v] = ParentRows(b)[v]
        /\ enq[b].parent \in Batches => rec'[enq[b].parent] = ParentRows(b)
        /\ CountersExact'
    BY <1>1, <1>7, CreateJournal
  <2>3. \A v \in Users :
          /\ ~rec'[b][v].owned /\ ~rec'[b][v].retry
          /\ v \in Inserted(b) => /\ rec'[b][v].state = "pending" /\ rec'[b][v].key
                                  /\ rec'[b][v].epoch = enq[b].ok[v]
          /\ v \notin Inserted(b) => rec'[b][v] = NoRow
    BY <2>2, CreatedRows
  <2>4. ASSUME NEW c \in Batches, NEW v \in Users, c # b
        PROVE  /\ rec'[c][v].state = rec[c][v].state /\ rec'[c][v].owned = rec[c][v].owned
               /\ rec'[c][v].epoch = rec[c][v].epoch
               /\ rec'[c][v].retry => rec[c][v].retry
               /\ rec'[c][v].key => rec[c][v].key
               /\ rec[c][v].key /\ ~rec'[c][v].key => rec[c][v].state = "failed"
    BY <2>2, <2>4, ParentRow
  <2>5. TypeOK'
    BY <1>3, <2>1, <2>2 DEF TypeOK
  <2>6. StagesOK'
    <3>1. ASSUME NEW c \in Batches PROVE Stages(c)'
      <4>1. Stages(c) /\ enq[c] \in Request
        BY Typed DEF StagesOK, TypeOK
      <4>2. enq[c].parent # None /\ batch[enq[c].parent].state = "finished"
              => batch'[enq[c].parent].state = "finished"
        BY <1>1, <2>2, <4>1 DEF Request
      <4>3. CASE c = b
        BY <1>1, <1>3, <1>4, <2>1, <2>2, <4>1, <4>3 DEF Stages
      <4>4. CASE c # b
        BY <1>3, <2>1, <2>2, <2>4, <4>1, <4>2, <4>4 DEF Stages
      <4> QED BY <4>3, <4>4
    <3> QED BY <3>1 DEF StagesOK
  <2>7. RowsOK'
    <3>1. ASSUME NEW c \in Batches, NEW v \in Users PROVE RowKept(c, v)'
      <4>1. RowKept(c, v)
        BY DEF RowsOK
      <4>2. CASE c = b /\ v \in Inserted(b)
        <5>1. enq[b].ok[v] # 0 /\ enq[b].ok[v] <= user[v].epoch
          BY <4>1, <4>2 DEF Inserted, Eligible, RowKept
        <5> QED BY <1>3, <1>4, <2>1, <2>3, <4>2, <5>1 DEF RowKept
      <4>3. CASE c = b /\ v \notin Inserted(b)
        <5>1. rec'[b][v] = NoRow /\ user[v].epoch \in Nat
          BY <2>3, <4>3 DEF TypeOK, Account, Epochs
        <5> QED BY <1>3, <1>4, <2>1, <4>3, <5>1 DEF RowKept, NoRow
      <4>4. CASE c # b
        BY <1>3, <2>1, <2>4, <4>1, <4>4 DEF RowKept
      <4> QED BY <4>2, <4>3, <4>4
    <3> QED BY <3>1 DEF RowsOK
  <2>8. KeysOK'
    <3>1. ASSUME NEW c \in Batches, NEW v \in Users, c # b, rec'[c][v].key, rec'[b][v].key,
                 rec'[c][v].epoch = rec'[b][v].epoch
          PROVE  FALSE
      <4>1. v \in Inserted(b) /\ rec'[b][v].epoch = enq[b].ok[v]
        BY <2>3, <3>1 DEF NoRow
      <4>2. rec[c][v].key /\ rec[c][v].epoch = enq[b].ok[v]
        BY <2>4, <3>1, <4>1
      <4>3. v \in Eligible(b) /\ ~Reserved(enq[b].parent, v, enq[b].ok[v])
        BY <4>1 DEF Inserted
      <4>4. c = enq[b].parent /\ rec[c][v].state = "failed"
        BY <4>2, <4>3 DEF Reserved
      <4>5. rec'[c][v] = ParentRows(b)[v]
        BY <2>2, <4>4
      <4> QED BY <3>1, <4>2, <4>3, <4>4, <4>5, ParentRow
    <3>2. ASSUME NEW c \in Batches, NEW d \in Batches, NEW v \in Users PROVE OneKey(c, d, v)'
      <4>1. CASE c # b /\ d # b
        BY <2>4, <4>1 DEF KeysOK, OneKey
      <4>2. CASE c = b \/ d = b
        BY <3>1, <4>2 DEF OneKey
      <4> QED BY <4>1, <4>2
    <3> QED BY <3>2 DEF KeysOK
  <2>9. TraceOK'
    <3>1. ASSUME NEW c \in Batches, NEW v \in Users PROVE Trace(c, v)'
      <4>1. CASE c = b
        BY <1>1, <1>3, <4>1 DEF TraceOK, Trace, Reached
      <4>2. CASE c # b
        BY <1>3, <2>4, <4>2 DEF TraceOK, Trace, Reached
      <4> QED BY <4>1, <4>2
    <3> QED BY <3>1 DEF TraceOK
  <2>10. SentOK'
    <3>1. ASSUME NEW c \in Batches, NEW v \in Users PROVE SentReached(c, v)'
      <4>1. CASE c = b
        BY <2>3, <4>1 DEF SentReached, NoRow
      <4>2. CASE c # b
        BY <1>3, <2>4, <4>2 DEF SentOK, SentReached, Reached
      <4> QED BY <4>1, <4>2
    <3> QED BY <3>1 DEF SentOK
  <2>11. OwnersOK'
    <3>1. ASSUME NEW c \in Batches, NEW v \in Users PROVE Owner(c, v, dl[c][v])'
      <4>1. CASE c = b
        BY <1>1, <1>3, <4>1 DEF Owner, Holds
      <4>2. CASE c # b
        BY <1>3, <2>4, <4>2 DEF OwnersOK, Owner, Knows, Leased, Touched, Untouched, Reached, Holds
      <4> QED BY <4>1, <4>2
    <3> QED BY <3>1 DEF OwnersOK
  <2> QED
    BY <1>3, <2>2, <2>5, <2>6, <2>7, <2>8, <2>9, <2>10, <2>11, TasksFrame, GenerationsFrame
<1> QED BY <1>6, <1>7

-----------------------------------------------------------------------------
\* The invariant holds of every behaviour.

LEMMA InitInv == ASSUME Init PROVE Inv /\ Begun
<1> USE DEF Init
<1>1. TypeOK
  <2>1. [here |-> TRUE, epoch |-> 1, erased |-> 0] \in Account /\ 1 \in Epochs
    BY BroadcastAssumption DEF Account, Epochs
  <2> QED BY <2>1, Blank DEF TypeOK
<1>2. /\ \A b \in Batches : /\ batch[b] = NoBatch /\ enq[b] = NoRequest /\ job[b] = "absent"
                            /\ exec[b] = "idle" /\ ~doom[b]
      /\ \A b \in Batches, u \in Users : rec[b][u] = NoRow /\ dl[b][u].pc = "idle"
      /\ \A u \in Users : user[u].here /\ user[u].epoch = 1 /\ user[u].erased = 0
  BY DEF NoDelivery
<1>3. StagesOK
  BY <1>2 DEF StagesOK, Stages, NoBatch, NoRequest, NoRow
<1>4. TasksOK /\ TraceOK /\ SentOK /\ OwnersOK
  BY <1>2 DEF TasksOK, Tasks, TraceOK, Trace, SentOK, SentReached, OwnersOK, Owner, Holds, Reached, NoRow
<1>5. RowsOK /\ KeysOK /\ GenerationsOK /\ Begun
  BY <1>2 DEF RowsOK, RowKept, KeysOK, OneKey, GenerationsOK, Generations, Begun, NoRow, NoRequest
<1>6. CountersExact
  <2>1. ASSUME NEW b \in Batches PROVE Tallied(b)
    <3>1. /\ InState(b, "pending") = {} /\ InState(b, "started") = {} /\ InState(b, "sent") = {}
          /\ InState(b, "failed") = {} /\ InState(b, "skipped") = {}
          /\ InState(b, "unknown_delivery") = {} /\ Retryable(b) = {}
      BY <1>2 DEF InState, Retryable, NoRow
    <3>2. Cardinality({}) = 0
      BY FS_EmptySet
    <3>3. /\ batch[b].pending = 0 /\ batch[b].started = 0 /\ batch[b].total = 0 /\ batch[b].sent = 0
          /\ batch[b].failed = 0 /\ batch[b].skipped = 0 /\ batch[b].unknown_delivery = 0
          /\ batch[b].retryable = 0 /\ batch[b].state = "none"
      BY <1>2 DEF NoBatch
    <3>4. /\ Cardinality(InState(b, "pending")) = 0 /\ Cardinality(InState(b, "started")) = 0
          /\ Cardinality(InState(b, "sent")) = 0 /\ Cardinality(InState(b, "failed")) = 0
          /\ Cardinality(InState(b, "skipped")) = 0 /\ Cardinality(Retryable(b)) = 0
          /\ Cardinality(InState(b, "unknown_delivery")) = 0
      BY <3>1, <3>2
    <3> QED BY <3>3, <3>4 DEF Tallied
  <2> QED BY <2>1, Tally
<1> QED BY <1>1, <1>3, <1>4, <1>5, <1>6 DEF Inv

LEMMA NextInv == ASSUME Inv, Begun, [Next]_vars PROVE Inv'
<1>1. CASE UNCHANGED vars
  BY <1>1, StagesFrame, TasksFrame, RowsFrame, KeysFrame, GenerationsFrame, TraceFrame, SentFrame,
     OwnersFrame, CountersFrame DEF vars, Inv, TypeOK
<1>2. ASSUME NEW b \in Batches,
             \/ enqueue_scheduled(b) \/ \E p \in Batches : retry_failed(b, p)
             \/ Create(b) \/ Admit(b) \/ record_admission(b) \/ Abort(b)
      PROVE  Inv'
  BY <1>2, enqueue_scheduled_Inv, retry_failed_Inv, Create_Inv, Admit_Inv, record_admission_Inv,
     Abort_Inv
<1>3. ASSUME NEW b \in Batches,
             \/ JobEnds(b) \/ StartExecution(b) \/ claim_batch(b) \/ EndExecution(b) \/ Crash(b)
             \/ RecoverRead(b) \/ RecoverInterrupt(b)
      PROVE  Inv'
  BY <1>3, JobEnds_Inv, StartExecution_Inv, claim_batch_Inv, EndExecution_Inv, Crash_Inv,
     RecoverRead_Inv, RecoverInterrupt_Inv
<1>4. ASSUME NEW b \in Batches, NEW u \in Users,
             \/ claim_recipient(b, u) \/ AcquireLease(b, u) \/ Arm(b, u) \/ Clear(b, u)
             \/ BotCall(b, u) \/ Persist(b, u) \/ Deliver(b, u) \/ finish_recipient(b, u)
             \/ Landed(b, u)
      PROVE  Inv'
  BY <1>4, claim_recipient_Inv, AcquireLease_Inv, Arm_Inv, Clear_Inv, BotCall_Inv, Persist_Inv,
     Deliver_Inv, finish_recipient_Inv, Landed_Inv
<1>5. ASSUME NEW u \in Users, Consent(u) \/ Erase(u) \/ Return(u)
      PROVE  Inv'
  BY <1>5, Consent_Inv, Erase_Inv, Return_Inv
<1> QED BY <1>1, <1>2, <1>3, <1>4, <1>5 DEF Next

LEMMA InvAlways == Spec => [](Inv /\ Begun)
<1>1. Init => Inv /\ Begun
  BY InitInv
<1>2. Inv /\ Begun /\ [Next]_vars => (Inv /\ Begun)'
  BY NextInv, BegunStep
<1> QED BY <1>1, <1>2, PTL DEF Spec

\* The rows of repos/broadcast_jobs, the requests that create batches and the
\* deliveries of broadcast_delivery are well formed.
THEOREM BroadcastTypeCorrect == Spec => []TypeOK
<1>1. Inv => TypeOK
  BY DEF Inv
<1> QED BY <1>1, InvAlways, PTL

\* What interrupt_batch, finish_recipient, record_admission, create_batch and the
\* erasure of an account count is what the rows say: no recipient is lost or
\* counted twice.
THEOREM CountersExactAlways == Spec => []CountersExact
<1>1. Inv => CountersExact
  BY DEF Inv
<1> QED BY <1>1, InvAlways, PTL

\* No row says failed or skipped (and so may be sent again) when its message has
\* arrived, and none says sent when it has not.
THEOREM JournalHonestAlways == Spec => []JournalHonest
<1>1. ASSUME Inv PROVE JournalHonest
  <2>1. ASSUME NEW b \in Batches, NEW u \in Users, rec[b][u].state # "none"
        PROVE  rec[b][u].epoch \in Epochs
    BY <1>1, <2>1, Typed, Numbers DEF Inv, RowsOK, RowKept, Recipient, Epochs
  <2> QED BY <1>1, <2>1 DEF Inv, TraceOK, Trace, SentOK, SentReached, Reached, JournalHonest
<1> QED BY <1>1, InvAlways, PTL

-----------------------------------------------------------------------------
\* The journal keeps the promise: every step is, slot by slot, a step of
\* BroadcastPromise or a stutter.

\* What the journal shows of one slot.
ReachedBy(u, e) == {c \in Batches : <<c, u, e>> \in reached}
SaidOf(u, e, s) == \E c \in Batches : rec[c][u].epoch = e /\ rec[c][u].state = s
Got(u, e) == Cardinality(ReachedBy(u, e))
Said(u, e) == IF e <= user[u].erased THEN "forgotten"
              ELSE IF SaidOf(u, e, "sent") THEN "sent"
              ELSE IF SaidOf(u, e, "unknown_delivery") THEN "unknown" ELSE "open"

SlotIdle(u, e) == Got(u, e)' = Got(u, e) /\ Said(u, e)' = Said(u, e)
SlotStep(u, e) ==
  \/ /\ Got(u, e) = 0 /\ Got(u, e)' = 1
     /\ Said(u, e) \in {"open", "unknown"} /\ Said(u, e)' = Said(u, e)
  \/ /\ Said(u, e) = "open" /\ Got(u, e)' = Got(u, e)
     /\ (Said(u, e)' = "sent" /\ Got(u, e) = 1) \/ Said(u, e)' = "unknown"
  \/ Said(u, e)' = "forgotten" /\ Got(u, e)' = Got(u, e)
  \/ SlotIdle(u, e)

\* A row that reports nothing, and a step that changes no report.
Dull(r) == r.state \notin {"sent", "unknown_delivery"}
RowQuiet(r, q) == \/ q.epoch = r.epoch /\ q.state = r.state
                  \/ Dull(r) /\ Dull(q)
Quiet == \A c \in Batches, v \in Users : RowQuiet(rec[c][v], rec'[c][v])
SameErased == \A v \in Users : user'[v].erased = user[v].erased

LEMMA QuietSays ==
  ASSUME NEW u \in Users, NEW e \in Epochs, user'[u].erased = user[u].erased,
         \A c \in Batches : RowQuiet(rec[c][u], rec'[c][u]) \/ (rec[c][u].epoch # e /\ rec'[c][u].epoch # e)
  PROVE  Said(u, e)' = Said(u, e)
<1>1. SaidOf(u, e, "sent")' <=> SaidOf(u, e, "sent")
  BY DEF SaidOf, RowQuiet, Dull
<1>2. SaidOf(u, e, "unknown_delivery")' <=> SaidOf(u, e, "unknown_delivery")
  BY DEF SaidOf, RowQuiet, Dull
<1> QED BY <1>1, <1>2 DEF Said

LEMMA QuietStep ==
  ASSUME Quiet, SameErased, UNCHANGED reached, NEW u \in Users, NEW e \in Epochs
  PROVE  SlotStep(u, e)
<1>1. Said(u, e)' = Said(u, e)
  BY QuietSays DEF Quiet, SameErased
<1>2. Got(u, e)' = Got(u, e)
  BY DEF Got, ReachedBy
<1> QED BY <1>1, <1>2 DEF SlotStep, SlotIdle

\* A row that is under way, or that reports, is alone in its slot with its key.
LEMMA Alone ==
  ASSUME Inv, NEW b \in Batches, NEW u \in Users, NEW e \in Epochs, e > user[u].erased,
         rec[b][u].epoch = e, rec[b][u].state \in {"started", "sent", "unknown_delivery"}
  PROVE  /\ \A c \in Batches : rec[c][u].epoch = e
              /\ rec[c][u].state \in {"started", "sent", "unknown_delivery"} => c = b
         /\ ReachedBy(u, e) \in SUBSET {b}
<1>1. \A c \in Batches : rec[c][u].epoch = e /\ rec[c][u].state \in {"started", "sent", "unknown_delivery"} => c = b
  BY DEF Inv, RowsOK, RowKept, KeysOK, OneKey
<1>2. ASSUME NEW c \in Batches, Reached(c, u, e) PROVE c = b
  <2>1. e \in Nat /\ user[u].erased \in Nat
    BY Typed DEF Inv, Account, Epochs, TypeOK
  <2>2. \/ rec[c][u].state = "none" /\ e <= user[u].erased
        \/ rec[c][u].epoch = e /\ rec[c][u].state \in {"started", "sent", "unknown_delivery"}
    BY <1>2 DEF Inv, TraceOK, Trace
  <2> QED BY <1>1, <2>1, <2>2
<1> QED BY <1>1, <1>2 DEF ReachedBy, Reached

\* A message arrives.
LEMMA ArrivalSlot ==
  ASSUME Inv, NEW b \in Batches, NEW v \in Users, Leased(b, v), Arrives(b, v), UNCHANGED <<rec, user>>,
         NEW u \in Users, NEW e \in Epochs
  PROVE  SlotStep(u, e)
<1>1. Said(u, e)' = Said(u, e)
  <2>1. /\ user'[u].erased = user[u].erased
        /\ \A c \in Batches : RowQuiet(rec[c][u], rec'[c][u])
    BY DEF RowQuiet
  <2> QED BY <2>1, QuietSays
<1>2. rec[b][v].epoch \in Epochs /\ rec[b][v].epoch > user[v].erased
  BY Typed, Numbers DEF Inv, Leased, RowsOK, RowKept, Recipient, Account, Epochs
<1>3. CASE u = v /\ e = rec[b][v].epoch
  <2>1. /\ ReachedBy(u, e) \in SUBSET {b}
        /\ \A c \in Batches : rec[c][u].epoch = e
             /\ rec[c][u].state \in {"started", "sent", "unknown_delivery"} => c = b
    BY <1>2, <1>3, Alone DEF Leased
  <2>2. ReachedBy(u, e)' = ReachedBy(u, e) \cup {b}
    BY <1>3 DEF Arrives, ReachedBy
  <2>3. CASE b \in ReachedBy(u, e)
    <3>1. ReachedBy(u, e)' = ReachedBy(u, e)
      BY <2>2, <2>3
    <3> QED BY <1>1, <3>1 DEF SlotStep, SlotIdle, Got
  <2>4. CASE b \notin ReachedBy(u, e)
    <3>1. ReachedBy(u, e) = {} /\ ReachedBy(u, e)' = {b}
      BY <2>1, <2>2, <2>4
    <3>2. Cardinality({}) = 0 /\ Cardinality({b}) = 1
      BY FS_EmptySet, FS_Singleton
    <3>3. Got(u, e) = 0 /\ Got(u, e)' = 1
      BY <3>1, <3>2 DEF Got
    <3>4. ~SaidOf(u, e, "sent")
      <4>1. rec[b][u].state # "sent"
        BY <1>3 DEF Leased
      <4> QED BY <2>1, <4>1 DEF SaidOf
    <3>5. ~(e <= user[u].erased)
      BY <1>2, <1>3, Typed DEF Inv, TypeOK, Account, Epochs
    <3>6. Said(u, e) \in {"open", "unknown"}
      BY <3>4, <3>5 DEF Said
    <3> QED BY <1>1, <3>3, <3>6 DEF SlotStep
  <2> QED BY <2>3, <2>4
<1>4. CASE ~(u = v /\ e = rec[b][v].epoch)
  <2>1. ReachedBy(u, e)' = ReachedBy(u, e)
    BY <1>4 DEF Arrives, ReachedBy
  <2> QED BY <1>1, <2>1 DEF SlotStep, SlotIdle, Got
<1> QED BY <1>3, <1>4

\* Rows that were under way are settled: as sent only when the message arrived.
Settles(b) ==
  /\ \A c \in Batches : c # b => \A v \in Users : RowQuiet(rec[c][v], rec'[c][v])
  /\ \A v \in Users :
       \/ RowQuiet(rec[b][v], rec'[b][v])
       \/ /\ rec[b][v].state = "started" /\ rec'[b][v].epoch = rec[b][v].epoch
          /\ \/ rec'[b][v].state = "sent" /\ Reached(b, v, rec[b][v].epoch)
             \/ rec'[b][v].state = "unknown_delivery"

LEMMA SettleSlot ==
  ASSUME Inv, NEW b \in Batches, Settles(b), SameErased, UNCHANGED reached,
         NEW u \in Users, NEW e \in Epochs
  PROVE  SlotStep(u, e)
<1>1. Got(u, e)' = Got(u, e)
  BY DEF Got, ReachedBy
<1>2. e \in Nat /\ user[u].erased \in Nat /\ user'[u].erased = user[u].erased
  BY Typed DEF Inv, TypeOK, Account, Epochs, SameErased
<1>3. CASE e <= user[u].erased
  <2>1. Said(u, e)' = Said(u, e)
    BY <1>2, <1>3 DEF Said
  <2> QED BY <1>1, <2>1 DEF SlotStep, SlotIdle
<1>4. CASE e > user[u].erased /\ (RowQuiet(rec[b][u], rec'[b][u]) \/ rec[b][u].epoch # e)
  <2>1. \A c \in Batches : RowQuiet(rec[c][u], rec'[c][u]) \/ (rec[c][u].epoch # e /\ rec'[c][u].epoch # e)
    BY <1>4 DEF Settles
  <2>2. Said(u, e)' = Said(u, e)
    BY <1>2, <2>1, QuietSays
  <2> QED BY <1>1, <2>2 DEF SlotStep, SlotIdle
<1>5. CASE e > user[u].erased /\ ~RowQuiet(rec[b][u], rec'[b][u]) /\ rec[b][u].epoch = e
  <2>1. /\ rec[b][u].state = "started" /\ rec'[b][u].epoch = e
        /\ \/ rec'[b][u].state = "sent" /\ Reached(b, u, e)
           \/ rec'[b][u].state = "unknown_delivery"
    BY <1>5 DEF Settles
  <2>2. /\ \A c \in Batches : rec[c][u].epoch = e
             /\ rec[c][u].state \in {"started", "sent", "unknown_delivery"} => c = b
        /\ ReachedBy(u, e) \in SUBSET {b}
    BY <1>5, <2>1, Alone
  <2>3. ~SaidOf(u, e, "sent") /\ ~SaidOf(u, e, "unknown_delivery")
    BY <2>1, <2>2 DEF SaidOf
  <2>4. Said(u, e) = "open"
    BY <1>2, <1>5, <2>3 DEF Said
  <2>5. \A c \in Batches : c # b /\ rec'[c][u].epoch = e => rec'[c][u].state \notin {"sent", "unknown_delivery"}
    BY <2>2 DEF Settles, RowQuiet, Dull
  <2>6. CASE rec'[b][u].state = "sent" /\ Reached(b, u, e)
    <3>1. ReachedBy(u, e) = {b}
      BY <2>2, <2>6 DEF ReachedBy, Reached
    <3>2. Got(u, e) = 1
      BY <3>1, FS_Singleton DEF Got
    <3>3. SaidOf(u, e, "sent")'
      BY <2>1, <2>6 DEF SaidOf
    <3>4. Said(u, e)' = "sent"
      BY <1>2, <1>5, <3>3 DEF Said
    <3> QED BY <1>1, <2>4, <3>2, <3>4 DEF SlotStep
  <2>7. CASE rec'[b][u].state = "unknown_delivery"
    <3>1. SaidOf(u, e, "unknown_delivery")' /\ ~SaidOf(u, e, "sent")'
      BY <2>1, <2>5, <2>7 DEF SaidOf
    <3>2. Said(u, e)' = "unknown"
      BY <1>2, <1>5, <3>1 DEF Said
    <3> QED BY <1>1, <2>4, <3>2 DEF SlotStep
  <2> QED BY <2>1, <2>6, <2>7
<1> QED BY <1>2, <1>3, <1>4, <1>5

\* An account is erased: its slots are forgotten, and no later one is known yet.
LEMMA EraseSlot ==
  ASSUME Inv, NEW v \in Users, Erase(v), NEW u \in Users, NEW e \in Epochs
  PROVE  SlotStep(u, e)
<1>1. Got(u, e)' = Got(u, e)
  BY DEF Erase, Got, ReachedBy
<1>2. /\ user'[v].erased = user[v].epoch /\ \A w \in Users : w # v => user'[w] = user[w]
      /\ \A c \in Batches : /\ rec'[c][v] = NoRow
                            /\ \A w \in Users : w # v => rec'[c][w] = rec[c][w]
  BY DEF Erase, Inv, TypeOK, Account
<1>3. e \in Nat /\ e # 0 /\ user[u].erased \in Nat /\ user[u].epoch \in Nat /\ user[u].erased <= user[u].epoch
  BY Typed DEF Inv, TypeOK, Account, Epochs, GenerationsOK, Generations
<1>4. CASE u # v
  <2>1. /\ user'[u].erased = user[u].erased
        /\ \A c \in Batches : RowQuiet(rec[c][u], rec'[c][u])
    BY <1>2, <1>4 DEF RowQuiet
  <2>2. Said(u, e)' = Said(u, e)
    BY <2>1, QuietSays
  <2> QED BY <1>1, <2>2 DEF SlotStep, SlotIdle
<1>5. CASE u = v /\ e <= user[u].epoch
  <2>1. Said(u, e)' = "forgotten"
    BY <1>2, <1>5 DEF Said
  <2> QED BY <1>1, <2>1 DEF SlotStep
<1>6. CASE u = v /\ e > user[u].epoch
  <2>1. \A c \in Batches : rec[c][u].epoch # e /\ rec'[c][u].epoch # e
    <3>1. ASSUME NEW c \in Batches PROVE rec[c][u].epoch # e
      <4>1. rec[c][u].epoch \in Nat /\ rec[c][u].epoch <= user[u].epoch
        BY Typed DEF Inv, RowsOK, RowKept, Recipient
      <4> QED BY <1>3, <1>6, <4>1
    <3> QED BY <1>2, <1>3, <1>6, <3>1 DEF NoRow
  <2>2. ~SaidOf(u, e, "sent") /\ ~SaidOf(u, e, "unknown_delivery")
    BY <2>1 DEF SaidOf
  <2>3. ~SaidOf(u, e, "sent")' /\ ~SaidOf(u, e, "unknown_delivery")'
    BY <2>1 DEF SaidOf
  <2>4. Said(u, e)' = "open"
    BY <1>2, <1>3, <1>6, <2>3 DEF Said
  <2>5. Said(u, e) = "open"
    BY <1>3, <1>6, <2>2 DEF Said
  <2> QED BY <1>1, <2>4, <2>5 DEF SlotStep, SlotIdle
<1> QED BY <1>3, <1>4, <1>5, <1>6

\* Every step of the journal, slot by slot.
LEMMA EverySlot ==
  ASSUME Inv, [Next]_vars, NEW u \in Users, NEW e \in Epochs
  PROVE  SlotStep(u, e)
<1>1. ASSUME UNCHANGED <<rec, user, reached>> PROVE SlotStep(u, e)
  <2>1. Quiet /\ SameErased
    BY <1>1 DEF Quiet, RowQuiet, SameErased
  <2> QED BY <1>1, <2>1, QuietStep
<1>2. ASSUME UNCHANGED <<user, reached>>, NEW b \in Batches, NEW v \in Users, NEW r \in Recipient,
             Writes(b, v, r), \/ r.epoch = rec[b][v].epoch /\ r.state = rec[b][v].state
                              \/ Dull(r) /\ Dull(rec[b][v])
      PROVE  SlotStep(u, e)
  <2>1. rec'[b][v] = r /\ \A c \in Batches, w \in Users : c # b \/ w # v => rec'[c][w] = rec[c][w]
    BY <1>2, WritesTo DEF Inv
  <2>2. ASSUME NEW c \in Batches, NEW w \in Users PROVE RowQuiet(rec[c][w], rec'[c][w])
    <3>1. CASE c = b /\ w = v
      BY <1>2, <2>1, <3>1 DEF RowQuiet
    <3>2. CASE c # b \/ w # v
      BY <2>1, <3>2 DEF RowQuiet
    <3> QED BY <3>1, <3>2
  <2>3. Quiet /\ SameErased
    BY <1>2, <2>2 DEF Quiet, SameErased
  <2> QED BY <1>2, <2>3, QuietStep
<1>3. ASSUME NEW b \in Batches, NEW v \in Users, Arm(b, v) \/ Persist(b, v)
      PROVE  SlotStep(u, e)
  <2>1. rec[b][v] \in Recipient
    BY Typed DEF Inv
  <2>2. /\ [rec[b][v] EXCEPT !.att = TRUE] \in Recipient
        /\ [rec[b][v] EXCEPT !.att = TRUE].state = rec[b][v].state
        /\ [rec[b][v] EXCEPT !.att = TRUE].epoch = rec[b][v].epoch
        /\ [rec[b][v] EXCEPT !.att = FALSE] \in Recipient
        /\ [rec[b][v] EXCEPT !.att = FALSE].state = rec[b][v].state
        /\ [rec[b][v] EXCEPT !.att = FALSE].epoch = rec[b][v].epoch
    BY <2>1 DEF Recipient
  <2>3. \/ UNCHANGED rec \/ Writes(b, v, [rec[b][v] EXCEPT !.att = TRUE])
        \/ Writes(b, v, [rec[b][v] EXCEPT !.att = FALSE])
    BY <1>3 DEF Arm, Persist
  <2>4. UNCHANGED <<user, reached>>
    BY <1>3 DEF Arm, Persist
  <2> QED BY <1>1, <1>2, <2>2, <2>3, <2>4
<1>4. ASSUME NEW b \in Batches, NEW v \in Users, claim_recipient(b, v)
      PROVE  SlotStep(u, e)
  <2>1. rec[b][v] \in Recipient
    BY Typed DEF Inv
  <2> DEFINE r == [rec[b][v] EXCEPT !.state = "started", !.owned = TRUE]
  <2>2. r \in Recipient /\ r.state = "started"
    BY <2>1 DEF Recipient
  <2>3. /\ UNCHANGED <<user, reached>>
        /\ UNCHANGED rec \/ (rec[b][v].state = "pending" /\ Writes(b, v, r))
    BY <1>4 DEF claim_recipient
  <2> HIDE DEF r
  <2>4. rec[b][v].state = "pending" => Dull(r) /\ Dull(rec[b][v])
    BY <2>2 DEF Dull
  <2> QED BY <1>1, <1>2, <2>2, <2>3, <2>4
<1>5. ASSUME NEW b \in Batches, NEW v \in Users, BotCall(b, v) \/ Landed(b, v)
      PROVE  SlotStep(u, e)
  <2>1. Leased(b, v)
    <3>1. dl[b][v].pc \in {"cleared", "lost"}
      BY <1>5 DEF BotCall, Landed
    <3> QED BY <3>1 DEF Inv, OwnersOK, Owner, Holds
  <2>2. UNCHANGED <<rec, user>> /\ (Arrives(b, v) \/ UNCHANGED reached)
    BY <1>5 DEF BotCall, Landed
  <2> QED BY <1>1, <2>1, <2>2, ArrivalSlot
<1>6. ASSUME NEW b \in Batches, NEW v \in Users, finish_recipient(b, v)
      PROVE  SlotStep(u, e)
  <2>1. UNCHANGED <<user, reached>> /\ SameErased
    BY <1>6 DEF finish_recipient, SameErased
  <2>2. CASE UNCHANGED rec
    BY <1>1, <2>1, <2>2
  <2>3. CASE Mine(b, v) /\ Writes(b, v, FinishedRow(b, v, dl[b][v]))
    <3>1. PICK r : r = FinishedRow(b, v, dl[b][v])
      OBVIOUS
    <3>2. dl[b][v].res \in Outcomes /\ rec[b][v] \in Recipient /\ dl[b][v] \in Delivery
      BY <1>6, Typed DEF Inv, finish_recipient, OwnersOK, Owner, Outcomes
    <3>3. r \in Recipient /\ r.state = dl[b][v].res /\ r.epoch = rec[b][v].epoch
      BY <3>1, <3>2 DEF FinishedRow, Recipient, Outcomes, Delivery
    <3>4. dl[b][v].res = "sent" => Reached(b, v, rec[b][v].epoch)
      BY <1>6 DEF Inv, finish_recipient, OwnersOK, Owner, Touched
    <3>5. rec'[b][v] = r /\ \A c \in Batches, w \in Users : c # b \/ w # v => rec'[c][w] = rec[c][w]
      BY <2>3, <3>1, <3>3, WritesTo DEF Inv
    <3>6. rec[b][v].state = "started"
      BY <2>3 DEF Mine
    <3>7. \/ RowQuiet(rec[b][v], r)
          \/ r.state = "sent" /\ Reached(b, v, rec[b][v].epoch)
          \/ r.state = "unknown_delivery"
      BY <3>2, <3>3, <3>4, <3>6 DEF RowQuiet, Dull, Outcomes
    <3>8. Settles(b)
      <4>1. \A c \in Batches, w \in Users : c # b \/ w # v => RowQuiet(rec[c][w], rec'[c][w])
        BY <3>5 DEF RowQuiet
      <4> QED BY <3>3, <3>5, <3>6, <3>7, <4>1 DEF Settles
    <3> QED BY <2>1, <3>8, SettleSlot
  <2> QED BY <1>6, <2>2, <2>3 DEF finish_recipient
<1>7. ASSUME NEW b \in Batches, Interrupted(b), UNCHANGED <<user, reached>>
      PROVE  SlotStep(u, e)
  <2>1. /\ \A v \in Users : RowInterrupted(rec[b][v], rec'[b][v])
        /\ \A c \in Batches : c # b => rec'[c] = rec[c]
    BY <1>7, InterruptedRows DEF Inv
  <2>2. ASSUME NEW v \in Users
        PROVE  \/ RowQuiet(rec[b][v], rec'[b][v])
               \/ /\ rec[b][v].state = "started" /\ rec'[b][v].epoch = rec[b][v].epoch
                  /\ rec'[b][v].state = "unknown_delivery"
    BY <2>1 DEF RowInterrupted, RowQuiet, Dull
  <2>3. \A c \in Batches : c # b => \A v \in Users : RowQuiet(rec[c][v], rec'[c][v])
    BY <2>1 DEF RowQuiet
  <2>4. Settles(b) /\ SameErased
    BY <1>7, <2>2, <2>3 DEF Settles, SameErased
  <2> QED BY <1>7, <2>4, SettleSlot
<1>8. ASSUME NEW b \in Batches, record_admission(b)
      PROVE  SlotStep(u, e)
  <2>1. UNCHANGED <<user, reached>>
    BY <1>8 DEF record_admission
  <2>2. CASE UNCHANGED rec
    BY <1>1, <2>1, <2>2
  <2>3. CASE rec' = [rec EXCEPT ![b] = Refused(b)]
    <3>1. /\ \A v \in Users : RowRefused(rec[b][v], rec'[b][v])
          /\ \A c \in Batches : c # b => rec'[c] = rec[c]
      BY <2>3, RefusedRows DEF Inv
    <3>2. ASSUME NEW c \in Batches, NEW w \in Users PROVE RowQuiet(rec[c][w], rec'[c][w])
      BY <3>1 DEF RowRefused, RowQuiet, Dull
    <3> QED BY <2>1, <3>2, QuietStep DEF Quiet, SameErased
  <2> QED BY <1>8, <2>2, <2>3 DEF record_admission
<1>9. ASSUME NEW b \in Batches, Create(b)
      PROVE  SlotStep(u, e)
  <2>1. UNCHANGED <<user, reached>> /\ enq[b].pc = "ready"
    BY <1>9 DEF Create
  <2>2. CASE Cardinality(Open) >= MaxOpen
    BY <1>1, <1>9, <2>1, <2>2 DEF Create
  <2>3. CASE ~(Cardinality(Open) >= MaxOpen)
    <3>1. /\ rec'[b] = NewRows(b)
          /\ \A c \in Batches, v \in Users : c # b =>
               \/ rec'[c][v] = rec[c][v]
               \/ c = enq[b].parent /\ rec'[c][v] = ParentRows(b)[v]
      BY <1>9, <2>1, <2>3, CreateJournal
    <3>2. ASSUME NEW v \in Users PROVE RowQuiet(rec[b][v], rec'[b][v])
      <4>1. rec[b][v].state = "none"
        BY <2>1 DEF Inv, StagesOK, Stages
      <4>2. rec'[b][v].state \in {"pending", "none"}
        BY <3>1, CreatedRows DEF NoRow
      <4> QED BY <4>1, <4>2 DEF RowQuiet, Dull
    <3>3. ASSUME NEW c \in Batches, NEW v \in Users, c # b PROVE RowQuiet(rec[c][v], rec'[c][v])
      <4>1. CASE rec'[c][v] = rec[c][v]
        BY <4>1 DEF RowQuiet
      <4>2. CASE c = enq[b].parent /\ rec'[c][v] = ParentRows(b)[v]
        BY <4>2, ParentRow DEF RowQuiet
      <4> QED BY <3>1, <3>3, <4>1, <4>2
    <3>4. Quiet /\ SameErased
      BY <2>1, <3>2, <3>3 DEF Quiet, SameErased
    <3> QED BY <2>1, <3>4, QuietStep
  <2> QED BY <2>2, <2>3
<1>10. ASSUME NEW v \in Users, Consent(v) \/ Return(v)
       PROVE  SlotStep(u, e)
  <2>1. UNCHANGED <<rec, reached>> /\ NewEpoch(v)
    BY <1>10 DEF Consent, Return
  <2>2. SameErased
    BY <2>1 DEF NewEpoch, SameErased, Inv, TypeOK, Account
  <2>3. Quiet
    BY <2>1 DEF Quiet, RowQuiet
  <2> QED BY <2>1, <2>2, <2>3, QuietStep
<1>11. ASSUME NEW b \in Batches, EndExecution(b) \/ RecoverInterrupt(b)
       PROVE  SlotStep(u, e)
  <2>1. UNCHANGED <<user, reached>> /\ (Interrupted(b) \/ UNCHANGED rec)
    BY <1>11 DEF EndExecution, RecoverInterrupt
  <2> QED BY <1>1, <1>7, <2>1
<1>12. ASSUME NEW b \in Batches,
              \/ enqueue_scheduled(b) \/ \E p \in Batches : retry_failed(b, p)
              \/ Admit(b) \/ Abort(b) \/ JobEnds(b) \/ StartExecution(b) \/ claim_batch(b)
              \/ Crash(b) \/ RecoverRead(b)
       PROVE  SlotStep(u, e)
  BY <1>1, <1>12 DEF enqueue_scheduled, retry_failed, Ask, Admit, Abort, JobEnds, StartExecution,
     claim_batch, Crash, RecoverRead
<1>13. ASSUME NEW b \in Batches, NEW v \in Users,
              AcquireLease(b, v) \/ Clear(b, v) \/ Deliver(b, v)
       PROVE  SlotStep(u, e)
  BY <1>1, <1>13 DEF AcquireLease, Clear, Deliver
<1>14. CASE UNCHANGED vars
  BY <1>1, <1>14 DEF vars
<1> QED
  BY <1>3, <1>4, <1>5, <1>6, <1>8, <1>9, <1>10, <1>11, <1>12, <1>13, <1>14, EraseSlot DEF Next

\* The refinement mapping, in terms of one slot.
GotAll == [s \in ScheduledSlots |-> Cardinality({b \in Batches : <<b, s[1], s[2]>> \in reached})]
SaidAll == [s \in ScheduledSlots |->
              CASE s[2] <= user[s[1]].erased -> "forgotten"
                [] s[2] > user[s[1]].erased /\ "sent" \in Reports(s[1], s[2]) -> "sent"
                [] s[2] > user[s[1]].erased /\ "sent" \notin Reports(s[1], s[2])
                     /\ "unknown_delivery" \in Reports(s[1], s[2]) -> "unknown"
                [] OTHER -> "open"]

LEMMA Mapping ==
  ASSUME TypeOK, NEW u \in Users, NEW e \in Epochs
  PROVE  GotAll[<<u, e>>] = Got(u, e) /\ SaidAll[<<u, e>>] = Said(u, e)
<1>1. <<u, e>> \in ScheduledSlots /\ <<u, e>>[1] = u /\ <<u, e>>[2] = e
  BY DEF ScheduledSlots
<1>2. GotAll[<<u, e>>] = Got(u, e)
  BY <1>1 DEF GotAll, Got, ReachedBy
<1>3. ASSUME NEW s PROVE s \in Reports(u, e) <=> SaidOf(u, e, s)
  BY DEF Reports, SaidOf
<1>4. e \in Nat /\ user[u].erased \in Nat
  BY DEF TypeOK, Account, Epochs
<1>5. SaidAll[<<u, e>>] =
        CASE e <= user[u].erased -> "forgotten"
          [] e > user[u].erased /\ "sent" \in Reports(u, e) -> "sent"
          [] e > user[u].erased /\ "sent" \notin Reports(u, e)
               /\ "unknown_delivery" \in Reports(u, e) -> "unknown"
          [] OTHER -> "open"
  BY <1>1 DEF SaidAll
<1> QED BY <1>2, <1>3, <1>4, <1>5 DEF Said

Maps == \A u \in Users, e \in Epochs : GotAll[<<u, e>>] = Got(u, e) /\ SaidAll[<<u, e>>] = Said(u, e)

LEMMA MappingNext == TypeOK' => Maps'
<1>1. TypeOK => Maps
  BY Mapping DEF Maps
<1> QED BY <1>1, PTL

LEMMA PromiseStep ==
  ASSUME Inv, Inv', [Next]_vars
  PROVE  [Promise!PromiseNext]_(Promise!pvars)
<1>1. ASSUME NEW s \in ScheduledSlots
      PROVE  \/ /\ GotAll[s] = 0 /\ GotAll'[s] = 1
                /\ SaidAll[s] \in {"open", "unknown"} /\ SaidAll'[s] = SaidAll[s]
             \/ /\ SaidAll[s] = "open" /\ GotAll'[s] = GotAll[s]
                /\ (SaidAll'[s] = "sent" /\ GotAll[s] = 1) \/ SaidAll'[s] = "unknown"
             \/ SaidAll'[s] = "forgotten" /\ GotAll'[s] = GotAll[s]
             \/ GotAll'[s] = GotAll[s] /\ SaidAll'[s] = SaidAll[s]
  <2>1. PICK u \in Users, e \in Epochs : s = <<u, e>>
    BY DEF ScheduledSlots
  <2>2. GotAll[s] = Got(u, e) /\ SaidAll[s] = Said(u, e)
    BY <2>1, Mapping DEF Inv
  <2>3. GotAll'[s] = Got(u, e)' /\ SaidAll'[s] = Said(u, e)'
    <3>1. TypeOK'
      BY DEF Inv
    <3>2. GotAll'[<<u, e>>] = Got(u, e)' /\ SaidAll'[<<u, e>>] = Said(u, e)'
      BY <3>1, MappingNext DEF Maps
    <3> QED BY <2>1, <3>2
  <2>4. SlotStep(u, e)
    BY EverySlot
  <2> QED BY <2>2, <2>3, <2>4 DEF SlotStep, SlotIdle
<1>2. Promise!PromiseNext
  BY <1>1 DEF Promise!PromiseNext, Promise!Reach, Promise!Declare, Promise!Forget, Promise!Idle,
     GotAll, SaidAll
<1> QED BY <1>2

LEMMA PromiseStart == ASSUME Init PROVE Promise!PromiseInit
<1>1. Inv
  BY InitInv
<1>2. ASSUME NEW s \in ScheduledSlots PROVE GotAll[s] = 0 /\ SaidAll[s] = "open"
  <2>1. PICK u \in Users, e \in Epochs : s = <<u, e>>
    BY DEF ScheduledSlots
  <2>2. GotAll[s] = Got(u, e) /\ SaidAll[s] = Said(u, e)
    BY <1>1, <2>1, Mapping DEF Inv
  <2>3. ReachedBy(u, e) = {}
    BY DEF Init, ReachedBy
  <2>4. Got(u, e) = 0
    BY <2>3, FS_EmptySet DEF Got
  <2>5. Said(u, e) = "open"
    BY DEF Init, Said, SaidOf, NoRow, Epochs
  <2> QED BY <2>2, <2>4, <2>5
<1>3. GotAll = [s \in ScheduledSlots |-> 0] /\ SaidAll = [s \in ScheduledSlots |-> "open"]
  BY <1>2 DEF GotAll, SaidAll
<1> QED BY <1>3 DEF Promise!PromiseInit, GotAll, SaidAll

\* Whatever batches, retries, crashes, recoveries and erasures happen
\* (broadcast_jobs, broadcast_delivery, repos/users), a scheduled slot is reached
\* by at most one delivery, what the journal has reported of it stands, and
\* nothing reaches an erased account.
THEOREM JournalKeepsPromise == Spec => KeepsPromise
<1>1. Init => Promise!PromiseInit
  BY PromiseStart
<1>2. Inv /\ Inv' /\ [Next]_vars => [Promise!PromiseNext]_(Promise!pvars)
  BY PromiseStep
<1> QED BY <1>1, <1>2, InvAlways, PTL DEF Spec, KeepsPromise, Promise!PromiseSpec
=============================================================================

------------------------ MODULE WebhookIntakeProofs ------------------------
(***************************************************************************)
(* What WebhookIntake checks of updates on their way to the handlers,      *)
(* proved for any updates, users, capacities, calls, errors and crashes.   *)
(***************************************************************************)
EXTENDS WebhookIntake, SequenceTheorems, WellFoundedInduction, TLAPS

-----------------------------------------------------------------------------
\* Sequences: what joins, leaves and stays.

\* What an appended sequence holds.
LEMMA AppendSet ==
  ASSUME NEW S, NEW s \in Seq(S), NEW e \in S
  PROVE  ToSet(Append(s, e)) = ToSet(s) \cup {e}
BY AppendProperties DEF ToSet

\* What is left when the head is taken.
LEMMA TailSet ==
  ASSUME NEW S, NEW s \in Seq(S), s # <<>>
  PROVE  /\ Head(s) = s[1]
         /\ ToSet(s) = {Head(s)} \cup ToSet(Tail(s))
<1>1. /\ Tail(s) \in Seq(S) /\ Len(Tail(s)) = Len(s) - 1 /\ Len(s) \in Nat \ {0}
      /\ \A i \in 1..Len(Tail(s)) : Tail(s)[i] = s[i + 1]
  BY HeadTailProperties, EmptySeq
<1>2. Head(s) = s[1] OBVIOUS
<1>3. \A i \in 1..Len(s) : i = 1 \/ (i - 1 \in 1..Len(Tail(s)) /\ Tail(s)[i - 1] = s[i])
  BY <1>1
<1>4. DOMAIN s = 1..Len(s) /\ DOMAIN Tail(s) = 1..Len(Tail(s)) BY <1>1
<1>5. ASSUME NEW i \in 1..Len(s) PROVE s[i] \in {s[1]} \cup ToSet(Tail(s))
  <2>1. CASE i = 1 BY <2>1
  <2>2. CASE i # 1 BY <2>2, <1>3, <1>4 DEF ToSet
  <2> QED BY <2>1, <2>2
<1>6. s[1] \in ToSet(s) BY <1>1, <1>4 DEF ToSet
<1>7. ASSUME NEW i \in 1..Len(Tail(s)) PROVE Tail(s)[i] \in ToSet(s)
  BY <1>1, <1>4 DEF ToSet
<1>8. ToSet(s) \subseteq {s[1]} \cup ToSet(Tail(s)) BY <1>4, <1>5 DEF ToSet
<1>9. ToSet(Tail(s)) \subseteq ToSet(s) BY <1>4, <1>7 DEF ToSet
<1> QED BY <1>2, <1>6, <1>8, <1>9

\* A set has a smallest position in a sequence.
LEMMA FirstPlace ==
  ASSUME NEW n \in Nat, NEW I \in SUBSET (1..n), I # {}
  PROVE  Min(I) \in I /\ \A k \in I : Min(I) <= k
<1>1. \E x \in I : \A y \in I : x <= y
  <2>1. I \subseteq Nat OBVIOUS
  <2>2. PICK x \in I : \A y \in I : <<y, x>> \notin OpToRel(<, Nat)
    BY <2>1, WFMin, NatLessThanWellFounded, Zenon
  <2>3. \A y \in I : ~(y < x) BY <2>1, <2>2, Zenon DEF OpToRel
  <2> QED BY <2>1, <2>3
<1> QED BY <1>1 DEF Min

\* RemoveFirst takes the first occurrence out and moves up what follows.
LEMMA RemovesFirst ==
  ASSUME NEW S, NEW s \in Seq(S), NEW e \in ToSet(s)
  PROVE  \E n \in 1..Len(s) :
           /\ s[n] = e /\ \A k \in 1..(n - 1) : s[k] # e
           /\ RemoveFirst(s, e) \in Seq(S)
           /\ Len(RemoveFirst(s, e)) = Len(s) - 1
           /\ \A k \in 1..(Len(s) - 1) :
                RemoveFirst(s, e)[k] = IF k < n THEN s[k] ELSE s[k + 1]
<1> DEFINE I == {i \in 1..Len(s) : s[i] = e}
<1>1. Len(s) \in Nat /\ I \in SUBSET (1..Len(s)) /\ I # {} BY DEF ToSet
<1>2. PICK n : n = Min(I) OBVIOUS
<1>3. n \in I /\ \A k \in I : n <= k BY <1>1, <1>2, FirstPlace
<1>4. n \in 1..Len(s) /\ s[n] = e BY <1>3
<1>5. \A k \in 1..(n - 1) : s[k] # e BY <1>3, <1>4
<1>6. RemoveFirst(s, e) = RemoveAt(s, n)
  BY <1>1, <1>2, <1>4 DEF RemoveFirst, SelectInSeq
<1>7. PICK a : a = SubSeq(s, 1, n - 1) OBVIOUS
<1>8. PICK b : b = SubSeq(s, n + 1, Len(s)) OBVIOUS
<1>9. /\ a \in Seq(S) /\ Len(a) = n - 1
      /\ \A k \in 1..(n - 1) : a[k] = s[k]
  BY <1>4, <1>1, <1>7, SubSeqProperties
<1>10. /\ b \in Seq(S) /\ Len(b) = Len(s) - n
       /\ \A k \in 1..(Len(s) - n) : b[k] = s[n + k]
  BY <1>4, <1>1, <1>8, SubSeqProperties
<1>11. RemoveFirst(s, e) = a \o b BY <1>6, <1>7, <1>8 DEF RemoveAt
<1>12. /\ a \o b \in Seq(S) /\ Len(a \o b) = Len(a) + Len(b)
       /\ \A i \in 1..(Len(a) + Len(b)) : (a \o b)[i] = IF i <= Len(a) THEN a[i] ELSE b[i - Len(a)]
  BY <1>9, <1>10, ConcatProperties
<1>13. \A k \in 1..(Len(s) - 1) : (a \o b)[k] = IF k < n THEN s[k] ELSE s[k + 1]
  <2> SUFFICES ASSUME NEW k \in 1..(Len(s) - 1)
               PROVE (a \o b)[k] = IF k < n THEN s[k] ELSE s[k + 1]
    OBVIOUS
  <2>1. CASE k < n
    <3>1. k \in 1..(n - 1) /\ k \in 1..(Len(a) + Len(b)) /\ k <= Len(a)
      BY <2>1, <1>4, <1>1, <1>9, <1>10
    <3> QED BY <2>1, <3>1, <1>9, <1>12
  <2>2. CASE ~(k < n)
    <3>1. k - (n - 1) \in 1..(Len(s) - n) /\ n + (k - (n - 1)) = k + 1 BY <2>2, <1>4, <1>1
    <3>2. k \in 1..(Len(a) + Len(b)) /\ ~(k <= Len(a)) /\ k - Len(a) = k - (n - 1)
      BY <2>2, <1>4, <1>1, <1>9, <1>10
    <3>3. (a \o b)[k] = b[k - (n - 1)] BY <3>2, <1>12
    <3> QED BY <2>2, <3>1, <3>3, <1>10
  <2> QED BY <2>1, <2>2
<1>14. Len(a \o b) = Len(s) - 1 BY <1>1, <1>4, <1>9, <1>10, <1>12
<1>15. PICK r : r = a \o b OBVIOUS
<1> HIDE DEF I
<1> QED BY <1>4, <1>5, <1>11, <1>12, <1>13, <1>14, <1>15, Zenon

-----------------------------------------------------------------------------
\* The invariant.

\* What is accepted and not done is queued or has a task, and there is room for it.
AccountOK ==
  /\ queue \in Seq(Updates \cup {Stop}) /\ lane \in Seq(Updates)
  /\ out = Len(queue) + Len(lane) /\ out <= Capacity

\* The room seen at the gate is still there when the update is put in the queue:
\* nobody else can put anything there before.
GateOK == gate.pc # "free" => stop = "no" /\ out < Capacity

\* An operation has an update, and claims a command only if there is one.
WellFormed(g) == /\ g.pc # "free" => g.u \in Updates
                 /\ g.pc = "command" => Command[g.u] # NoCommand

OperationsOK == WellFormed(gate) /\ WellFormed(far)

\* Nothing is queued behind the sentinel, and nothing is left when it is fetched.
SentinelOK ==
  /\ \A i \in 1..Len(queue) : queue[i] = Stop => i = Len(queue) /\ stop = "join"
  /\ ~fetching => queue = <<>> /\ stop = "join"

\* Who holds a slot holds the lock of the user's lane.
LanesOK == \A u \in slots \ Inline : HasLane(u)

\* The keys an operation has won so far.
Won(g) == IF g.pc = "command" THEN {g.u} ELSE IF g.pc = "won" THEN Keys(g.u) ELSE {}

\* Updates admitted on Redis's word.
Sure == {u \in Updates : puts[u] > 0 /\ u \notin blind}

\* Every key is won by one operation, and is in Redis from then on.
ClaimsOK ==
  /\ Won(gate) \cup Won(far) \subseteq redis /\ Won(gate) \cap Won(far) = {}
  /\ \A u \in Sure : /\ puts[u] = 1 /\ Keys(u) \subseteq redis
                     /\ Keys(u) \cap (Won(gate) \cup Won(far)) = {}
  /\ \A u, v \in Sure : u # v => Keys(u) \cap Keys(v) = {}

\* Updates that are or will be handled, but for a crash.
Kept == done \cup lost \cup InLane \cup Queued

\* The update of an operation that will be admitted, unless the process has it.
Final(g) == IF g.pc \in {"won", "error"} THEN {g.u} ELSE {}

\* Behind every key stands an update that is kept or at a gate: it carries the
\* command, and shares a key with the update.
ServedOK ==
  /\ \A k \in seen \cup farSeen : \E v \in Kept : k \in Keys(v)
  /\ \A c \in redis \ Updates : \E v \in Kept \cup Final(gate) \cup Final(far) : c \in Keys(v)
  /\ \A u \in redis \cap Updates :
       \E v \in Kept \cup Begun(gate) \cup Begun(far) : Keys(u) \cap Keys(v) # {}

\* The inductive invariant.
Inv == /\ TypeOK /\ AccountOK /\ GateOK /\ OperationsOK /\ SentinelOK
       /\ LanesOK /\ ClaimsOK /\ ServedOK

-----------------------------------------------------------------------------
\* Each part is preserved.

\* The steps that touch the queue, the lanes and the slots.
LEMMA BacklogFrame ==
  ASSUME Next
  PROVE  \/ UNCHANGED backlog
         \/ Reply \/ Fetch \/ StopPut \/ Crash
         \/ \E u \in Updates : TakeSlot(u) \/ Finish(u)
BY DEF Next, Call, Abandon, Enter, Claim, Close, StopLock,
       CallElsewhere, ClaimElsewhere, ReplyElsewhere, CrashElsewhere

\* The sequences hold updates, the queue the sentinel too.
LEMMA Contents ==
  ASSUME AccountOK
  PROVE  /\ InLane \subseteq Updates /\ Queued \subseteq Updates
         /\ Len(queue) \in Nat /\ Len(lane) \in Nat /\ out \in Nat
         /\ \A i \in 1..Len(lane) : lane[i] \in Updates
BY DEF AccountOK, InLane, Queued, ToSet

\* A step leaves what is accepted on account.
LEMMA AccountStep ==
  ASSUME Inv, Next
  PROVE  AccountOK'
<1> DEFINE Q == Updates \cup {Stop}
<1>0. /\ queue \in Seq(Q) /\ lane \in Seq(Updates)
      /\ Len(queue) \in Nat /\ Len(lane) \in Nat /\ Capacity \in Nat \ {0}
      /\ out = Len(queue) + Len(lane) /\ out <= Capacity
  BY IntakeAssumption, Contents DEF Inv, AccountOK, IntakeAssumption
<1>1. CASE UNCHANGED <<queue, lane, out>> BY <1>0, <1>1 DEF AccountOK
<1>2. CASE Reply
  <2>1. CASE Duplicate(gate, seen) \/ full BY <1>2, <2>1, <1>1 DEF Reply
  <2>2. CASE ~(Duplicate(gate, seen) \/ full)
    <3>1. gate.u \in Q BY <1>2 DEF Inv, OperationsOK, WellFormed, Reply
    <3>2. queue' = Append(queue, gate.u) /\ out' = out + 1 /\ lane' = lane
      BY <1>2, <2>2 DEF Reply
    <3>3. queue' \in Seq(Q) /\ Len(queue') = Len(queue) + 1
      BY <1>0, <3>1, <3>2, AppendProperties
    <3> QED BY <1>0, <2>2, <3>2, <3>3 DEF AccountOK, full
  <2> QED BY <2>1, <2>2
<1>3. CASE Fetch
  <2>1. queue # <<>> /\ queue' = Tail(queue) BY <1>3 DEF Fetch
  <2>2. /\ Head(queue) \in Q /\ queue' \in Seq(Q)
        /\ Len(queue') = Len(queue) - 1 /\ Len(queue) >= 1
    BY <1>0, <2>1, HeadTailProperties, EmptySeq
  <2>3. CASE Head(queue) = Stop
    <3>1. out' = out - 1 /\ lane' = lane BY <1>3, <2>3 DEF Fetch
    <3> QED BY <1>0, <2>2, <3>1 DEF AccountOK
  <2>4. CASE Head(queue) # Stop
    <3>1. out' = out /\ lane' = Append(lane, Head(queue)) BY <1>3, <2>4 DEF Fetch
    <3>2. lane' \in Seq(Updates) /\ Len(lane') = Len(lane) + 1
      BY <1>0, <2>2, <2>4, <3>1, AppendProperties
    <3> QED BY <1>0, <2>2, <3>1, <3>2 DEF AccountOK
  <2> QED BY <2>3, <2>4
<1>4. ASSUME NEW u \in Updates, Finish(u) PROVE AccountOK'
  <2>1. u \in ToSet(lane) /\ lane' = RemoveFirst(lane, u) /\ out' = out - 1 /\ queue' = queue
    BY <1>4 DEF Finish, Inv, TypeOK, InLane
  <2>2. lane' \in Seq(Updates) /\ Len(lane') = Len(lane) - 1 /\ Len(lane) >= 1
    BY <1>0, <2>1, RemovesFirst
  <2> QED BY <1>0, <2>1, <2>2 DEF AccountOK
<1>5. CASE StopPut
  <2>1. queue' = Append(queue, Stop) /\ out' = out + 1 /\ lane' = lane /\ ~full
    BY <1>5 DEF StopPut
  <2>2. queue' \in Seq(Q) /\ Len(queue') = Len(queue) + 1 BY <1>0, <2>1, AppendProperties
  <2> QED BY <1>0, <2>1, <2>2 DEF AccountOK, full
<1>6. CASE Crash
  <2>1. queue' = <<>> /\ lane' = <<>> /\ out' = 0 BY <1>6 DEF Crash
  <2> QED BY <1>0, <2>1, EmptySeq DEF AccountOK
<1>7. ASSUME NEW u \in Updates, TakeSlot(u) PROVE UNCHANGED <<queue, lane, out>>
  BY <1>7 DEF TakeSlot
<1> QED BY <1>1, <1>2, <1>3, <1>4, <1>5, <1>6, <1>7, BacklogFrame DEF backlog

\* Nobody takes the room from the operation at the gate.
LEMMA GateStep ==
  ASSUME Inv, Next
  PROVE  GateOK'
<1>0. out \in Nat /\ Len(lane) \in Nat /\ Capacity \in Nat
  BY Contents, IntakeAssumption DEF Inv, IntakeAssumption
<1>1. CASE UNCHANGED <<gate, stop, out>> BY <1>1 DEF Inv, GateOK
<1>2. ASSUME NEW u \in Updates, Enter(u) PROVE GateOK'
  BY <1>2, <1>0 DEF Inv, GateOK, Enter, full, backlog
<1>3. CASE Claim
  BY <1>3 DEF Inv, GateOK, Claim, SetNX, backlog
<1>4. CASE Reply BY <1>4 DEF Reply, Free, GateOK
<1>5. CASE Fetch
  <2>1. out' \in {out, out - 1} /\ UNCHANGED <<gate, stop>> BY <1>5 DEF Fetch, door
  <2> QED BY <1>0, <2>1 DEF Inv, GateOK
<1>6. ASSUME NEW u \in Updates, Finish(u) PROVE GateOK'
  <2>1. out' = out - 1 /\ UNCHANGED <<gate, stop>> BY <1>6 DEF Finish, door
  <2> QED BY <1>0, <2>1 DEF Inv, GateOK
<1>7. CASE StopLock BY <1>7 DEF StopLock, MayStop, Inv, GateOK
<1>8. CASE StopPut BY <1>8 DEF StopPut, Inv, GateOK
<1>9. CASE Crash BY <1>9 DEF Crash, Free, GateOK
<1>10. ASSUME NEW u \in Updates, Call(u) \/ Abandon(u) \/ TakeSlot(u) \/ CallElsewhere(u)
       PROVE UNCHANGED <<gate, stop, out>>
  BY <1>10 DEF Call, CallElsewhere, Abandon, TakeSlot, backlog, door
<1>11. CASE Close \/ ClaimElsewhere \/ ReplyElsewhere \/ CrashElsewhere
  BY <1>11, <1>1 DEF Close, ClaimElsewhere, ReplyElsewhere, CrashElsewhere, backlog, door
<1> QED BY <1>1, <1>2, <1>3, <1>4, <1>5, <1>6, <1>7, <1>8, <1>9, <1>10, <1>11 DEF Next

\* Where a claim can lead.
LEMMA SetNXShape ==
  ASSUME NEW g \in Operation, NEW h, WellFormed(g), SetNX(g, h)
  PROVE  /\ h \in Operation /\ WellFormed(h) /\ h.u = g.u /\ g.u \in Updates
         /\ h.pc \in {"command", "won", "held", "error"}
<1>1. g.pc \in {"claim", "command"} /\ g.u \in Updates BY DEF SetNX, WellFormed
<1>2. PICK p \in {"command", "won", "held", "error"} :
        h = [g EXCEPT !.pc = p] /\ (p = "command" => Command[g.u] # NoCommand)
  BY DEF SetNX, Ahead
<1>3. h \in Operation /\ h.u = g.u /\ h.pc = p BY <1>2 DEF Operation
<1> QED BY <1>1, <1>2, <1>3 DEF WellFormed

\* The operations of both processes stay well formed.
LEMMA OperationsStep ==
  ASSUME Inv, Next
  PROVE  OperationsOK'
<1>0. gate \in Operation /\ far \in Operation /\ WellFormed(gate) /\ WellFormed(far)
  BY DEF Inv, TypeOK, OperationsOK
<1>1. CASE UNCHANGED <<gate, far>> BY <1>0, <1>1 DEF OperationsOK, WellFormed
<1>2. ASSUME NEW u \in Updates, Enter(u) PROVE OperationsOK'
  BY <1>0, <1>2 DEF Enter, OperationsOK, WellFormed, other
<1>3. ASSUME NEW u \in Updates, CallElsewhere(u) PROVE OperationsOK'
  BY <1>0, <1>3 DEF CallElsewhere, OperationsOK, WellFormed, door
<1>4. CASE Claim
  <2>1. far' = far /\ SetNX(gate, gate') BY <1>4 DEF Claim, other
  <2> QED BY <1>0, <2>1, SetNXShape DEF OperationsOK, WellFormed
<1>5. CASE ClaimElsewhere
  <2>1. gate' = gate /\ SetNX(far, far') BY <1>5 DEF ClaimElsewhere, door
  <2> QED BY <1>0, <2>1, SetNXShape DEF OperationsOK, WellFormed
<1>6. CASE Reply \/ Crash
  BY <1>0, <1>6 DEF Reply, Crash, other, Free, OperationsOK, WellFormed
<1>7. CASE ReplyElsewhere \/ CrashElsewhere
  BY <1>0, <1>7 DEF ReplyElsewhere, CrashElsewhere, door, Free, OperationsOK, WellFormed
<1>8. ASSUME NEW u \in Updates, Call(u) \/ Abandon(u) \/ TakeSlot(u) \/ Finish(u)
      PROVE  UNCHANGED <<gate, far>>
  BY <1>8 DEF Call, Abandon, TakeSlot, Finish, door, other
<1>9. CASE Fetch \/ Close \/ StopLock \/ StopPut
  BY <1>1, <1>9 DEF Fetch, Close, StopLock, StopPut, door, other
<1> QED BY <1>1, <1>2, <1>3, <1>4, <1>5, <1>6, <1>7, <1>8, <1>9 DEF Next

\* The sentinel stays last.
LEMMA SentinelStep ==
  ASSUME Inv, Next
  PROVE  SentinelOK'
<1> DEFINE Q == Updates \cup {Stop}
<1>0. queue \in Seq(Q) /\ Len(queue) \in Nat /\ Stop \notin Updates
  BY IntakeAssumption, Contents DEF Inv, AccountOK, IntakeAssumption
<1>1. CASE UNCHANGED <<queue, stop, fetching>> BY <1>1 DEF Inv, SentinelOK
<1>2. CASE Reply
  <2>0. stop = "no" /\ gate.u \in Updates /\ UNCHANGED <<stop, fetching>>
    BY <1>2 DEF Inv, GateOK, OperationsOK, WellFormed, Reply
  <2>1. CASE Duplicate(gate, seen) \/ full BY <1>2, <2>0, <2>1, <1>1 DEF Reply
  <2>2. CASE ~(Duplicate(gate, seen) \/ full)
    <3>1. queue' = Append(queue, gate.u) BY <1>2, <2>2 DEF Reply
    <3>2. /\ Len(queue') = Len(queue) + 1 /\ queue'[Len(queue) + 1] = gate.u
          /\ \A i \in 1..Len(queue) : queue'[i] = queue[i]
      BY <1>0, <2>0, <3>1, AppendProperties
    <3>3. \A i \in 1..Len(queue) : queue[i] # Stop BY <2>0 DEF Inv, SentinelOK
    <3>4. \A i \in 1..Len(queue') : queue'[i] # Stop BY <1>0, <2>0, <3>2, <3>3
    <3> QED BY <2>0, <3>4 DEF Inv, SentinelOK
  <2> QED BY <2>1, <2>2
<1>3. CASE Fetch
  <2>1. queue # <<>> /\ queue' = Tail(queue) /\ stop' = stop BY <1>3 DEF Fetch, door
  <2>2. /\ queue' \in Seq(Q) /\ Len(queue') = Len(queue) - 1 /\ Len(queue) >= 1
        /\ \A i \in 1..Len(queue') : queue'[i] = queue[i + 1]
        /\ Head(queue) = queue[1]
    BY <1>0, <2>1, HeadTailProperties, EmptySeq, TailSet
  <2>3. \A i \in 1..Len(queue') : queue'[i] = Stop => i = Len(queue') /\ stop' = "join"
    <3> SUFFICES ASSUME NEW i \in 1..Len(queue'), queue'[i] = Stop
                 PROVE  i = Len(queue') /\ stop' = "join"
      OBVIOUS
    <3>1. i + 1 \in 1..Len(queue) /\ queue[i + 1] = Stop BY <1>0, <2>2
    <3>2. i + 1 = Len(queue) /\ stop = "join" BY <3>1 DEF Inv, SentinelOK
    <3>3. PICK l \in Nat : l = Len(queue) BY <1>0
    <3>4. i \in Int /\ Len(queue') = l - 1 /\ i + 1 = l BY <2>2, <3>2, <3>3
    <3> QED BY <2>1, <3>2, <3>4
  <2>4. ASSUME ~fetching' PROVE queue' = <<>> /\ stop' = "join"
    <3>1. queue[1] = Stop BY <1>3, <2>2, <2>4 DEF Fetch
    <3>2. 1 = Len(queue) /\ stop = "join" BY <1>0, <2>2, <3>1 DEF Inv, SentinelOK
    <3>3. PICK l \in Nat : l = Len(queue) BY <1>0
    <3>4. Len(queue') = l - 1 /\ l = 1 BY <2>2, <3>2, <3>3
    <3>5. Len(queue') = 0 BY <3>4
    <3> QED BY <2>1, <2>2, <3>2, <3>5, EmptySeq
  <2> QED BY <2>3, <2>4 DEF SentinelOK
<1>4. CASE StopPut
  <2>1. /\ stop = "put" /\ stop' = "join" /\ fetching' = fetching
        /\ queue' = Append(queue, Stop)
    BY <1>4 DEF StopPut
  <2>2. /\ Len(queue') = Len(queue) + 1
        /\ \A i \in 1..Len(queue) : queue'[i] = queue[i]
    BY <1>0, <2>1, AppendProperties
  <2>3. \A i \in 1..Len(queue) : queue[i] # Stop BY <2>1 DEF Inv, SentinelOK
  <2>4. fetching BY <2>1 DEF Inv, SentinelOK
  <2> QED BY <1>0, <2>1, <2>2, <2>3, <2>4 DEF SentinelOK
<1>5. CASE StopLock
  <2>1. stop = "no" /\ stop' = "put" /\ UNCHANGED <<queue, fetching>>
    BY <1>5 DEF StopLock, backlog
  <2>2. stop # "join" BY <2>1
  <2> QED BY <2>1, <2>2 DEF Inv, SentinelOK
<1>6. CASE Crash
  <2>1. queue' = <<>> /\ fetching' BY <1>6 DEF Crash
  <2> QED BY <2>1 DEF SentinelOK
<1>7. ASSUME NEW u \in Updates,
             \/ Call(u) \/ Abandon(u) \/ Enter(u)
             \/ TakeSlot(u) \/ Finish(u) \/ CallElsewhere(u)
      PROVE  UNCHANGED <<queue, stop, fetching>>
  BY <1>7 DEF Call, CallElsewhere, Abandon, Enter, TakeSlot, Finish, backlog, door
<1>8. CASE Claim \/ Close \/ ClaimElsewhere \/ ReplyElsewhere \/ CrashElsewhere
  BY <1>8, <1>1
  DEF Claim, Close, ClaimElsewhere, ReplyElsewhere, CrashElsewhere, backlog, door
<1> QED BY <1>1, <1>2, <1>3, <1>4, <1>5, <1>6, <1>7, <1>8 DEF Next

\* A task that finishes takes the first place of its update: the others keep
\* theirs, or move up by one.
LEMMA Leaves ==
  ASSUME Inv, NEW u \in Updates, Finish(u)
  PROVE  \E n \in 1..Len(lane) :
           /\ lane[n] = u /\ lane' \in Seq(Updates) /\ Len(lane') = Len(lane) - 1
           /\ \A k \in 1..(n - 1) : lane[k] # u
           /\ \A k \in 1..(Len(lane) - 1) : lane'[k] = IF k < n THEN lane[k] ELSE lane[k + 1]
<1>1. lane \in Seq(Updates) /\ u \in ToSet(lane) /\ lane' = RemoveFirst(lane, u)
  BY DEF Inv, AccountOK, Finish, TypeOK, InLane
<1> QED BY <1>1, RemovesFirst

\* Another update that has a place among the tasks has one afterwards, and no one
\* gets in front of it.
LEMMA MovesUp ==
  ASSUME Inv, NEW u \in Updates, Finish(u), NEW i \in 1..Len(lane), lane[i] # u
  PROVE  \E m \in 1..Len(lane') :
           /\ lane'[m] = lane[i]
           /\ \A k \in 1..(m - 1) : \E l \in 1..(i - 1) : lane'[k] = lane[l]
<1>0. Len(lane) \in Nat BY Contents DEF Inv
<1>1. PICK n \in 1..Len(lane) :
           /\ lane[n] = u /\ lane' \in Seq(Updates) /\ Len(lane') = Len(lane) - 1
           /\ \A k \in 1..(n - 1) : lane[k] # u
           /\ \A k \in 1..(Len(lane) - 1) : lane'[k] = IF k < n THEN lane[k] ELSE lane[k + 1]
  BY Leaves
<1>2. CASE i < n
  <2>1. i \in 1..Len(lane') /\ lane'[i] = lane[i] BY <1>0, <1>1, <1>2
  <2>2. \A k \in 1..(i - 1) : k \in 1..(i - 1) /\ lane'[k] = lane[k] BY <1>0, <1>1, <1>2
  <2> QED BY <2>1, <2>2
<1>3. CASE i > n
  <2>1. i - 1 \in 1..Len(lane') /\ lane'[i - 1] = lane[i] BY <1>0, <1>1, <1>3
  <2>2. ASSUME NEW k \in 1..((i - 1) - 1) PROVE \E l \in 1..(i - 1) : lane'[k] = lane[l]
    <3>1. k \in 1..(Len(lane) - 1) /\ k \in 1..(i - 1) /\ k + 1 \in 1..(i - 1) BY <1>0, <1>3
    <3>2. lane'[k] = lane[k] \/ lane'[k] = lane[k + 1] BY <1>1, <3>1
    <3> QED BY <3>1, <3>2
  <2> QED BY <2>1, <2>2
<1>4. i < n \/ i > n BY <1>0, <1>1
<1> QED BY <1>2, <1>3, <1>4

\* The lane does not lose another update.
LEMMA LaneKeeps ==
  ASSUME Inv, NEW u \in Updates, Finish(u)
  PROVE  InLane \ {u} \subseteq InLane'
<1>0. lane \in Seq(Updates) /\ lane' \in Seq(Updates) BY Leaves DEF Inv, AccountOK
<1>1. ASSUME NEW v \in InLane, v # u PROVE v \in ToSet(lane')
  <2>1. PICK i \in 1..Len(lane) : lane[i] = v BY <1>0 DEF InLane, ToSet
  <2>2. PICK m \in 1..Len(lane') : lane'[m] = v BY <2>1, <1>1, MovesUp
  <2> QED BY <1>0, <2>2 DEF ToSet
<1> QED BY <1>1 DEF InLane

\* Who has the lock of its lane keeps it while another task of the lane's finishes.
LEMMA LaneHeld ==
  ASSUME Inv, NEW u \in Updates, Finish(u), NEW v \in Updates \ {u}, HasLane(v)
  PROVE  HasLane(v)'
<1>1. CASE v \in Inline BY <1>1 DEF HasLane
<1>2. CASE v \notin Inline
  <2>1. PICK i \in 1..Len(lane) :
          /\ lane[i] = v
          /\ \A k \in 1..(i - 1) : lane[k] \in Inline \/ User[lane[k]] # User[v]
    BY <1>2 DEF HasLane
  <2>2. PICK m \in 1..Len(lane') :
           /\ lane'[m] = lane[i]
           /\ \A k \in 1..(m - 1) : \E l \in 1..(i - 1) : lane'[k] = lane[l]
    BY <2>1, MovesUp
  <2>3. \A k \in 1..(m - 1) : lane'[k] \in Inline \/ User[lane'[k]] # User[v]
    BY <2>1, <2>2
  <2> QED BY <2>1, <2>2, <2>3 DEF HasLane
<1> QED BY <1>1, <1>2

\* A slot is held with the lane.
LEMMA LanesStep ==
  ASSUME Inv, Next
  PROVE  LanesOK'
<1>0. lane \in Seq(Updates) /\ slots \subseteq Updates /\ Len(lane) \in Nat
  BY Contents DEF Inv, AccountOK, TypeOK
<1>1. CASE UNCHANGED <<lane, slots>> BY <1>1 DEF Inv, LanesOK, HasLane
<1>2. CASE Fetch
  <2>1. CASE Head(queue) = Stop BY <1>1, <1>2, <2>1 DEF Fetch
  <2>2. CASE Head(queue) # Stop
    <3>1. lane' = Append(lane, Head(queue)) /\ slots' = slots /\ queue # <<>>
      BY <1>2, <2>2 DEF Fetch
    <3>2. Head(queue) \in Updates
      BY <2>2, <3>1, HeadTailProperties DEF Inv, AccountOK
    <3>3. Len(lane') = Len(lane) + 1 /\ \A i \in 1..Len(lane) : lane'[i] = lane[i]
      BY <1>0, <3>1, <3>2, AppendProperties
    <3>4. ASSUME NEW v \in slots \ Inline PROVE HasLane(v)'
      <4>1. PICK i \in 1..Len(lane) :
              /\ lane[i] = v
              /\ \A k \in 1..(i - 1) : lane[k] \in Inline \/ User[lane[k]] # User[v]
        BY <3>4 DEF Inv, LanesOK, HasLane
      <4>2. i \in 1..Len(lane') /\ lane'[i] = v BY <1>0, <3>3, <4>1
      <4>3. \A k \in 1..(i - 1) : lane'[k] \in Inline \/ User[lane'[k]] # User[v]
        BY <1>0, <3>3, <4>1
      <4> QED BY <4>2, <4>3 DEF HasLane
    <3> QED BY <3>1, <3>4 DEF LanesOK
  <2> QED BY <2>1, <2>2
<1>3. ASSUME NEW u \in Updates, TakeSlot(u) PROVE LanesOK'
  <2>1. slots' = slots \cup {u} /\ lane' = lane /\ HasLane(u) BY <1>3 DEF TakeSlot, Ready
  <2> QED BY <2>1 DEF Inv, LanesOK, HasLane
<1>4. ASSUME NEW u \in Updates, Finish(u) PROVE LanesOK'
  <2>1. slots' = slots \ {u} BY <1>4 DEF Finish
  <2>2. ASSUME NEW v \in slots' \ Inline PROVE HasLane(v)'
    <3>1. v \in slots \ Inline /\ v \in Updates \ {u} BY <1>0, <2>1
    <3>2. HasLane(v) BY <3>1 DEF Inv, LanesOK
    <3> QED BY <1>4, <3>1, <3>2, LaneHeld
  <2> QED BY <2>2 DEF LanesOK
<1>5. CASE Crash BY <1>5 DEF Crash, LanesOK
<1>6. CASE Reply \/ StopPut BY <1>6, <1>1 DEF Reply, StopPut
<1> QED BY <1>1, <1>2, <1>3, <1>4, <1>5, <1>6, BacklogFrame DEF backlog

\* An update is one of its keys, and the only update among them.
LEMMA KeyFacts ==
  ASSUME NEW u \in Updates
  PROVE  /\ u \in Keys(u) /\ Keys(u) \cap Updates = {u}
         /\ Command[u] # NoCommand => Keys(u) = {u, Command[u]}
         /\ Command[u] = NoCommand => Keys(u) = {u}
         /\ Keys(u) \subseteq Identities
BY IntakeAssumption DEF Keys, IntakeAssumption, Identities

\* What a claim does: the key is Redis's, and it is the operation's if it was
\* nobody's.
LEMMA ClaimWins ==
  ASSUME NEW g \in Operation, NEW h, WellFormed(g), SetNX(g, h), Won(g) \subseteq redis
  PROVE  /\ Target(g) \in Keys(g.u) /\ redis' \in {redis, redis \cup {Target(g)}}
         /\ Won(h) \subseteq redis' /\ Won(h) \subseteq Won(g) \cup ({Target(g)} \ redis)
         /\ h.pc = "held" => Target(g) \in redis /\ redis' = redis
         /\ h.pc = "command" => g.pc = "claim"
<1>0. g.pc \in {"claim", "command"} /\ g.u \in Updates BY DEF SetNX, WellFormed
<1>1. PICK u \in Updates : u = g.u BY <1>0
<1>2. /\ u \in Keys(u) /\ (Command[u] # NoCommand => Keys(u) = {u, Command[u]})
      /\ (Command[u] = NoCommand => Keys(u) = {u})
  BY KeyFacts
<1>3. PICK key : key = Target(g) OBVIOUS
<1>4. key \in Keys(u) BY <1>0, <1>1, <1>2, <1>3 DEF Target, WellFormed
<1>5. PICK next : next = Ahead(g) OBVIOUS
<1>6. \/ /\ redis' = redis \cup {key}
         /\ h = [g EXCEPT !.pc = IF key \in redis THEN "held" ELSE next]
      \/ /\ redis' \in {redis, redis \cup {key}}
         /\ h = [g EXCEPT !.pc = "error"]
  BY <1>3, <1>5 DEF SetNX
<1>7. CASE key \notin redis /\ redis' = redis \cup {key} /\ h = [g EXCEPT !.pc = next]
  <2>1. h.u = u /\ h.pc = next BY <1>1, <1>7 DEF Operation
  <2>2. next \in {"command", "won"} /\ (next = "command" => g.pc = "claim") BY <1>5 DEF Ahead
  <2>3. Won(h) = IF next = "command" THEN {u} ELSE Keys(u) BY <2>1, <2>2 DEF Won
  <2>4. Won(h) = Won(g) \cup {key}
    <3>1. CASE g.pc = "claim"
      <4>1. Won(g) = {} /\ key = u BY <3>1, <1>1, <1>3 DEF Won, Target
      <4> QED BY <3>1, <4>1, <1>1, <1>2, <1>5, <2>3 DEF Ahead
    <3>2. CASE g.pc = "command"
      <4>1. Won(g) = {u} /\ key = Command[u] /\ next = "won" /\ Command[u] # NoCommand
        BY <3>2, <1>1, <1>3, <1>5 DEF Won, Target, Ahead, WellFormed
      <4> QED BY <4>1, <1>2, <2>3
    <3> QED BY <1>0, <3>1, <3>2
  <2> QED BY <1>1, <1>3, <1>4, <1>7, <2>1, <2>2, <2>4
<1>8. CASE /\ redis' \in {redis, redis \cup {key}}
           /\ \/ h = [g EXCEPT !.pc = "held"] /\ key \in redis
              \/ h = [g EXCEPT !.pc = "error"]
  <2>1. h.pc \in {"held", "error"} /\ (h.pc = "held" => key \in redis) BY <1>8 DEF Operation
  <2>2. Won(h) = {} BY <2>1 DEF Won
  <2>3. h.pc = "held" => redis' = redis BY <1>8, <2>1
  <2> QED BY <1>1, <1>3, <1>4, <1>8, <2>1, <2>2, <2>3
<1> QED BY <1>6, <1>7, <1>8

\* An operation claims a key: the other one, o, has not won it, nor has anyone
\* who was admitted.
LEMMA OneWinner ==
  ASSUME Inv, NEW g \in Operation, NEW h, NEW o, WellFormed(g), SetNX(g, h),
         Won(g) \cup Won(o) \subseteq redis, Won(g) \cap Won(o) = {},
         \A u \in Sure : Keys(u) \cap (Won(g) \cup Won(o)) = {}
  PROVE  /\ Won(h) \cup Won(o) \subseteq redis' /\ Won(h) \cap Won(o) = {}
         /\ \A u \in Sure : /\ Keys(u) \subseteq redis'
                            /\ Keys(u) \cap (Won(h) \cup Won(o)) = {}
<1>1. /\ redis' \in {redis, redis \cup {Target(g)}}
      /\ Won(h) \subseteq redis' /\ Won(h) \subseteq Won(g) \cup ({Target(g)} \ redis)
  BY ClaimWins
<1>2. \A u \in Sure : Keys(u) \subseteq redis BY DEF Inv, ClaimsOK
<1>3. PICK key : key = Target(g) OBVIOUS
<1>4. redis \subseteq redis' BY <1>1
<1> QED BY <1>1, <1>2, <1>3, <1>4

\* An operation that admits its update gives the keys it won to it.
LEMMA AdmitsOnce ==
  ASSUME Inv, NEW g, NEW o, NEW u \in Updates, g.u = u, g.pc \in {"won", "error"},
         Won(g) \cup Won(o) \subseteq redis, Won(g) \cap Won(o) = {},
         \A v \in Sure : Keys(v) \cap (Won(g) \cup Won(o)) = {},
         puts' = [puts EXCEPT ![u] = @ + 1], redis' = redis,
         blind' = IF g.pc = "error" THEN blind \cup {u} ELSE blind
  PROVE  /\ \A v \in Sure' : puts'[v] = 1 /\ Keys(v) \subseteq redis' /\ Keys(v) \cap Won(o) = {}
         /\ \A v, w \in Sure' : v # w => Keys(v) \cap Keys(w) = {}
<1>0. /\ puts \in [Updates -> Nat] /\ u \in Keys(u)
      /\ \A v \in Sure : puts[v] = 1 /\ Keys(v) \subseteq redis
      /\ \A v, w \in Sure : v # w => Keys(v) \cap Keys(w) = {}
  BY KeyFacts DEF Inv, TypeOK, ClaimsOK
<1>1. CASE g.pc = "error"
  <2>1. blind' = blind \cup {u} BY <1>1
  <2>2. \A v \in Sure' : v \in Sure /\ puts'[v] = puts[v] BY <1>0, <2>1 DEF Sure
  <2> QED BY <1>0, <2>2
<1>2. CASE g.pc = "won"
  <2>1. blind' = blind /\ Won(g) = Keys(u) BY <1>2 DEF Won
  <2>2. u \notin Sure BY <1>0, <2>1
  <2>3. \A v \in Sure' : v \in Sure \cup {u} /\ puts'[v] = 1 BY <1>0, <2>1, <2>2 DEF Sure
  <2>4. /\ Keys(u) \subseteq redis /\ Keys(u) \cap Won(o) = {}
        /\ \A v \in Sure : Keys(v) \cap Keys(u) = {}
    BY <2>1
  <2>5. \A v \in Sure' : Keys(v) \subseteq redis /\ Keys(v) \cap Won(o) = {} BY <1>0, <2>3, <2>4
  <2>6. \A v, w \in Sure' : v # w => Keys(v) \cap Keys(w) = {} BY <1>0, <2>3, <2>4
  <2> QED BY <2>3, <2>5, <2>6
<1> QED BY <1>1, <1>2

\* No key is won twice, whichever process claims it.
LEMMA ClaimsStep ==
  ASSUME Inv, Next
  PROVE  ClaimsOK'
<1>0. /\ puts \in [Updates -> Nat]
      /\ Won(gate) \cup Won(far) \subseteq redis /\ Won(gate) \cap Won(far) = {}
      /\ \A u \in Sure : /\ puts[u] = 1 /\ Keys(u) \subseteq redis
                         /\ Keys(u) \cap (Won(gate) \cup Won(far)) = {}
      /\ \A u, v \in Sure : u # v => Keys(u) \cap Keys(v) = {}
      /\ gate \in Operation /\ far \in Operation /\ WellFormed(gate) /\ WellFormed(far)
  BY DEF Inv, TypeOK, OperationsOK, ClaimsOK
<1>p. Won(gate)' = Won(gate') /\ Won(far)' = Won(far') BY DEF Won, Keys
<1>1. CASE /\ UNCHANGED <<redis, puts, blind>>
           /\ Won(gate') \in {Won(gate), {}} /\ Won(far') \in {Won(far), {}}
  <2>1. Sure' = Sure BY <1>1 DEF Sure
  <2> QED BY <1>0, <1>1, <1>p, <2>1 DEF ClaimsOK, Keys
<1>2. CASE Claim
  <2>1. far' = far /\ SetNX(gate, gate') BY <1>2 DEF Claim, other
  <2>2. Sure' = Sure /\ UNCHANGED puts BY <1>2 DEF Claim, Sure, ghosts
  <2>3. /\ Won(gate') \cup Won(far) \subseteq redis' /\ Won(gate') \cap Won(far) = {}
        /\ \A u \in Sure : /\ Keys(u) \subseteq redis'
                           /\ Keys(u) \cap (Won(gate') \cup Won(far)) = {}
    BY <1>0, <2>1, OneWinner
  <2> QED BY <1>0, <1>p, <2>1, <2>2, <2>3 DEF ClaimsOK, Keys
<1>3. CASE ClaimElsewhere
  <2>1. gate' = gate /\ SetNX(far, far') BY <1>3 DEF ClaimElsewhere, door
  <2>2. Sure' = Sure /\ UNCHANGED puts BY <1>3 DEF ClaimElsewhere, Sure, ghosts
  <2>3. /\ Won(far') \cup Won(gate) \subseteq redis' /\ Won(far') \cap Won(gate) = {}
        /\ \A u \in Sure : /\ Keys(u) \subseteq redis'
                           /\ Keys(u) \cap (Won(far') \cup Won(gate)) = {}
    BY <1>0, <2>1, OneWinner
  <2> QED BY <1>0, <1>p, <2>1, <2>2, <2>3 DEF ClaimsOK, Keys
<1>4. CASE Reply
  <2>0. /\ gate.u \in Updates /\ redis' = redis /\ far' = far
        /\ gate.pc \in {"won", "held", "error"} /\ Won(gate') = {}
    BY <1>0, <1>4 DEF WellFormed, Reply, Won, Free, other
  <2>1. CASE Duplicate(gate, seen) \/ full BY <1>1, <1>4, <2>0, <2>1 DEF Reply
  <2>2. CASE ~(Duplicate(gate, seen) \/ full)
    <3>1. PICK u \in Updates : u = gate.u BY <2>0
    <3>2. /\ puts' = [puts EXCEPT ![u] = @ + 1] /\ gate.pc \in {"won", "error"}
          /\ blind' = IF gate.pc = "error" THEN blind \cup {u} ELSE blind
      BY <1>4, <2>0, <2>2, <3>1 DEF Reply, Duplicate
    <3>3. /\ \A v \in Sure' : puts'[v] = 1 /\ Keys(v) \subseteq redis' /\ Keys(v) \cap Won(far) = {}
          /\ \A v, w \in Sure' : v # w => Keys(v) \cap Keys(w) = {}
      BY <1>0, <2>0, <3>1, <3>2, AdmitsOnce
    <3> QED BY <1>0, <1>p, <2>0, <3>3 DEF ClaimsOK, Keys
  <2> QED BY <2>1, <2>2
<1>5. CASE ReplyElsewhere
  <2>0. /\ far.u \in Updates /\ redis' = redis /\ gate' = gate
        /\ far.pc \in {"won", "held", "error"} /\ Won(far') = {}
    BY <1>0, <1>5 DEF WellFormed, ReplyElsewhere, Won, Free, door, claims
  <2>1. CASE Duplicate(far, farSeen) BY <1>1, <1>5, <2>0, <2>1 DEF ReplyElsewhere
  <2>2. CASE ~Duplicate(far, farSeen)
    <3>1. PICK u \in Updates : u = far.u BY <2>0
    <3>2. /\ puts' = [puts EXCEPT ![u] = @ + 1] /\ far.pc \in {"won", "error"}
          /\ blind' = IF far.pc = "error" THEN blind \cup {u} ELSE blind
      BY <1>5, <2>0, <2>2, <3>1 DEF ReplyElsewhere, Duplicate
    <3>3. /\ Won(far) \cup Won(gate) \subseteq redis /\ Won(far) \cap Won(gate) = {}
          /\ \A v \in Sure : Keys(v) \cap (Won(far) \cup Won(gate)) = {}
      BY <1>0
    <3>4. /\ \A v \in Sure' : puts'[v] = 1 /\ Keys(v) \subseteq redis' /\ Keys(v) \cap Won(gate) = {}
          /\ \A v, w \in Sure' : v # w => Keys(v) \cap Keys(w) = {}
      BY <2>0, <3>1, <3>2, <3>3, AdmitsOnce
    <3> QED BY <1>0, <1>p, <2>0, <3>4 DEF ClaimsOK, Keys
  <2> QED BY <2>1, <2>2
<1>6. ASSUME NEW u \in Updates, Enter(u) \/ CallElsewhere(u) PROVE ClaimsOK'
  <2>1. UNCHANGED <<redis, puts, blind>> BY <1>6 DEF Enter, CallElsewhere, claims, ghosts
  <2>2. /\ gate' = gate \/ gate' = [pc |-> "claim", u |-> u]
        /\ far' = far \/ far' = [pc |-> "claim", u |-> u]
    BY <1>6 DEF Enter, CallElsewhere, other, door
  <2>3. Won(gate') \in {Won(gate), {}} /\ Won(far') \in {Won(far), {}} BY <2>2 DEF Won
  <2> QED BY <1>1, <2>1, <2>3
<1>7. CASE Crash \/ CrashElsewhere
  <2>1. UNCHANGED <<redis, puts, blind>> /\ gate' \in {gate, Free} /\ far' \in {far, Free}
    BY <1>7 DEF Crash, CrashElsewhere, other, door, claims
  <2>2. Won(gate') \in {Won(gate), {}} /\ Won(far') \in {Won(far), {}} BY <2>1 DEF Won, Free
  <2> QED BY <1>1, <2>1, <2>2
<1>8. CASE UNCHANGED <<redis, puts, blind, gate, far>> BY <1>1, <1>8
<1>9. ASSUME NEW u \in Updates, Call(u) \/ Abandon(u) \/ TakeSlot(u) \/ Finish(u)
      PROVE  UNCHANGED <<redis, puts, blind, gate, far>>
  BY <1>9 DEF Call, Abandon, TakeSlot, Finish, claims, ghosts, door, other
<1>10. CASE Fetch \/ Close \/ StopLock \/ StopPut
  BY <1>8, <1>10 DEF Fetch, Close, StopLock, StopPut, claims, ghosts, door, other
<1> QED BY <1>2, <1>3, <1>4, <1>5, <1>6, <1>7, <1>8, <1>9, <1>10 DEF Next

\* What is kept stays kept.
LEMMA KeptGrows ==
  ASSUME Inv, Next
  PROVE  Kept \subseteq Kept'
<1> DEFINE Q == Updates \cup {Stop}
<1>0. queue \in Seq(Q) /\ lane \in Seq(Updates) BY DEF Inv, AccountOK
<1>1. CASE UNCHANGED <<queue, lane>> /\ done \subseteq done' /\ lost \subseteq lost'
  BY <1>1 DEF Kept, InLane, Queued
<1>2. CASE Reply
  <2>1. gate.u \in Q /\ UNCHANGED <<lane, done, lost>>
    BY <1>2 DEF Reply, Inv, OperationsOK, WellFormed
  <2>2. queue' = queue \/ queue' = Append(queue, gate.u) BY <1>2 DEF Reply
  <2>3. ToSet(Append(queue, gate.u)) = ToSet(queue) \cup {gate.u} BY <1>0, <2>1, AppendSet
  <2> QED BY <2>1, <2>2, <2>3 DEF Kept, InLane, Queued
<1>3. CASE Fetch
  <2>1. queue # <<>> /\ queue' = Tail(queue) /\ UNCHANGED <<done, lost>>
    BY <1>3 DEF Fetch, ghosts
  <2>2. ToSet(queue) = {Head(queue)} \cup ToSet(queue') /\ Head(queue) \in Q
    BY <1>0, <2>1, TailSet, HeadTailProperties
  <2>3. CASE Head(queue) = Stop
    <3>1. lane' = lane BY <1>3, <2>3 DEF Fetch
    <3> QED BY <2>1, <2>2, <2>3, <3>1 DEF Kept, InLane, Queued
  <2>4. CASE Head(queue) # Stop
    <3>1. lane' = Append(lane, Head(queue)) BY <1>3, <2>4 DEF Fetch
    <3>2. ToSet(lane') = ToSet(lane) \cup {Head(queue)} BY <1>0, <2>2, <2>4, <3>1, AppendSet
    <3> QED BY <2>1, <2>2, <3>2 DEF Kept, InLane, Queued
  <2> QED BY <2>3, <2>4
<1>4. ASSUME NEW u \in Updates, Finish(u) PROVE Kept \subseteq Kept'
  <2>1. done' = done \cup {u} /\ UNCHANGED <<queue, lost>> BY <1>4 DEF Finish
  <2>2. InLane \ {u} \subseteq InLane' BY <1>4, LaneKeeps
  <2> QED BY <2>1, <2>2 DEF Kept, Queued
<1>5. CASE StopPut
  <2>1. queue' = Append(queue, Stop) /\ UNCHANGED <<lane, done, lost>>
    BY <1>5 DEF StopPut, ghosts
  <2>2. Stop \in Q OBVIOUS
  <2>3. ToSet(Append(queue, Stop)) = ToSet(queue) \cup {Stop} BY <1>0, <2>2, AppendSet
  <2> QED BY <2>1, <2>3 DEF Kept, InLane, Queued
<1>6. CASE Crash
  <2>1. lost \cup Queued \cup InLane \subseteq lost' /\ done' = done BY <1>6 DEF Crash
  <2> QED BY <2>1 DEF Kept
<1>7. ASSUME NEW u \in Updates,
             Call(u) \/ Abandon(u) \/ Enter(u) \/ TakeSlot(u) \/ CallElsewhere(u)
      PROVE  UNCHANGED <<queue, lane>> /\ done \subseteq done' /\ lost \subseteq lost'
  BY <1>7 DEF Call, CallElsewhere, Abandon, Enter, TakeSlot, backlog, ghosts
<1>8. CASE Claim \/ Close \/ StopLock \/ ClaimElsewhere \/ ReplyElsewhere \/ CrashElsewhere
  BY <1>1, <1>8
  DEF Claim, Close, StopLock, ClaimElsewhere, ReplyElsewhere, CrashElsewhere, backlog, ghosts
<1> QED BY <1>1, <1>2, <1>3, <1>4, <1>5, <1>6, <1>7, <1>8 DEF Next

\* What two updates have in common, if they are not one, is a command.
LEMMA CommonCommand ==
  ASSUME NEW u \in Updates, NEW w \in Updates, u # w, NEW k \in Keys(u) \cap Keys(w)
  PROVE  k = Command[u] /\ k \notin Updates
BY KeyFacts, IntakeAssumption DEF Keys, IntakeAssumption

\* An operation claims a key, beside the other one, o: behind every key an
\* update still stands.
LEMMA ClaimServes ==
  ASSUME NEW g \in Operation, NEW h, NEW o, WellFormed(g), SetNX(g, h), Won(g) \subseteq redis,
         Kept \subseteq Kept',
         \A c \in redis \ Updates : \E v \in Kept \cup Final(g) \cup Final(o) : c \in Keys(v),
         \A w \in redis \cap Updates :
           \E v \in Kept \cup Begun(g) \cup Begun(o) : Keys(w) \cap Keys(v) # {}
  PROVE  /\ \A c \in redis' \ Updates : \E v \in Kept' \cup Final(h) \cup Final(o) : c \in Keys(v)
         /\ \A w \in redis' \cap Updates :
              \E v \in Kept' \cup Begun(h) \cup Begun(o) : Keys(w) \cap Keys(v) # {}
<1>0. /\ h.pc \in {"command", "won", "held", "error"} /\ h.u = g.u /\ g.u \in Updates
      /\ g.pc \in {"claim", "command"}
  BY SetNXShape DEF SetNX
<1>1. PICK u \in Updates : u = g.u BY <1>0
<1>2. PICK key \in Keys(u) : key = Target(g) BY <1>1, ClaimWins
<1>3. /\ redis' \in {redis, redis \cup {key}}
      /\ h.pc = "held" => key \in redis /\ redis' = redis
      /\ h.pc = "command" => g.pc = "claim"
  BY <1>2, ClaimWins
<1>4. u \in Keys(u) /\ Keys(u) \cap Updates = {u} BY KeyFacts
<1>5. Final(g) = {} /\ Begun(g) \subseteq {u} /\ Final(o) \subseteq Begun(o)
  BY <1>0, <1>1 DEF Final, Begun
<1>6. ASSUME NEW c \in redis' \ Updates
      PROVE  \E v \in Kept' \cup Final(h) \cup Final(o) : c \in Keys(v)
  <2>1. CASE c \in redis BY <1>5, <1>6, <2>1
  <2>2. CASE c \notin redis
    <3>1. c = key /\ h.pc # "held" BY <1>3, <1>6, <2>2
    <3>2. g.pc # "claim" BY <1>1, <1>2, <1>6, <3>1 DEF Target
    <3>3. Final(h) = {u} BY <1>0, <1>1, <1>3, <3>1, <3>2 DEF Final
    <3> QED BY <1>2, <3>1, <3>3
  <2> QED BY <2>1, <2>2
<1>7. ASSUME NEW w \in redis' \cap Updates
      PROVE  \E v \in Kept' \cup Begun(h) \cup Begun(o) : Keys(w) \cap Keys(v) # {}
  <2>0. w \in Keys(w) BY <1>7, KeyFacts
  <2>1. CASE h.pc # "held"
    <3>1. Begun(h) = {u} BY <1>0, <1>1, <2>1 DEF Begun
    <3>2. CASE w \in redis BY <1>5, <1>7, <3>1, <3>2
    <3>3. CASE w \notin redis
      <4>1. w = key BY <1>3, <1>7, <3>3
      <4> QED BY <1>2, <2>0, <3>1, <4>1
    <3> QED BY <3>2, <3>3
  <2>2. CASE h.pc = "held"
    <3>1. key \in redis /\ w \in redis BY <1>3, <1>7, <2>2
    <3>2. PICK v \in Kept \cup Begun(g) \cup Begun(o) : Keys(w) \cap Keys(v) # {} BY <1>7, <3>1
    <3>3. CASE v \in Kept \cup Begun(o) BY <3>2, <3>3
    <3>4. CASE v \notin Kept \cup Begun(o)
      <4>1. v = u /\ g.pc = "command" BY <1>0, <1>5, <3>2, <3>4 DEF Begun
      <4>2. key = Command[u] /\ key \notin Updates
        BY <1>1, <1>2, <4>1, IntakeAssumption DEF Target, IntakeAssumption
      <4>3. PICK x \in Kept \cup Final(o) : key \in Keys(x) BY <1>5, <3>1, <4>2
      <4>4. key \in Keys(w)
        <5>1. CASE w = u BY <1>2, <5>1
        <5>2. CASE w # u BY <1>7, <3>2, <4>1, <4>2, <5>2, CommonCommand
        <5> QED BY <5>1, <5>2
      <4> QED BY <1>5, <4>3, <4>4
    <3> QED BY <3>3, <3>4
  <2> QED BY <2>1, <2>2
<1> QED BY <1>6, <1>7

\* An operation is over, beside the other one, o: its update is kept, or it has
\* claimed nothing, or it has a key of an update that is kept.
LEMMA OverServes ==
  ASSUME NEW g, NEW o, WellFormed(g), Kept \subseteq Kept', Kept \subseteq Updates, redis' = redis,
         \A c \in redis \ Updates : \E v \in Kept \cup Final(g) \cup Final(o) : c \in Keys(v),
         \A w \in redis \cap Updates :
           \E v \in Kept \cup Begun(g) \cup Begun(o) : Keys(w) \cap Keys(v) # {},
         \/ Begun(g) \subseteq Kept'
         \/ g.pc = "error" /\ \E k \in Keys(g.u) : \E v \in Kept : k \in Keys(v)
  PROVE  /\ \A c \in redis' \ Updates : \E v \in Kept' \cup Final(o) : c \in Keys(v)
         /\ \A w \in redis' \cap Updates :
              \E v \in Kept' \cup Begun(o) : Keys(w) \cap Keys(v) # {}
<1>0. Final(g) \subseteq Begun(g) BY DEF Final, Begun
<1>1. CASE Begun(g) \subseteq Kept' BY <1>0, <1>1
<1>2. CASE g.pc = "error" /\ \E k \in Keys(g.u) : \E v \in Kept : k \in Keys(v)
  <2>1. PICK u \in Updates : u = g.u BY <1>2 DEF WellFormed
  <2>2. PICK k \in Keys(u), v \in Kept : k \in Keys(v) BY <1>2, <2>1
  <2>3. v \in Updates /\ Begun(g) = {u} /\ Final(g) = {u} BY <1>2, <2>1 DEF Begun, Final
  <2>4. CASE v = u BY <1>1, <2>3, <2>4
  <2>5. CASE v # u
    <3>1. k = Command[u] /\ k \notin Updates BY <2>2, <2>3, <2>5, CommonCommand
    <3>2. Keys(u) \subseteq {u, k} BY <3>1 DEF Keys
    <3>3. \A c \in redis \ Updates : c \in Keys(u) => c \in Keys(v) BY <2>2, <3>2
    <3>4. ASSUME NEW w \in redis \cap Updates, Keys(w) \cap Keys(u) # {}
          PROVE  k \in Keys(w)
      <4>1. CASE w = u BY <2>2, <4>1
      <4>2. CASE w # u BY <3>1, <3>4, <4>2, CommonCommand
      <4> QED BY <4>1, <4>2
    <3>5. \A c \in redis \ Updates : \E x \in Kept \cup Final(o) : c \in Keys(x) BY <2>3, <3>3
    <3>6. \A w \in redis \cap Updates :
            \E x \in Kept \cup Begun(o) : Keys(w) \cap Keys(x) # {}
      BY <2>2, <2>3, <3>4
    <3> QED BY <3>5, <3>6
  <2> QED BY <2>4, <2>5
<1> QED BY <1>1, <1>2

\* Behind every key stands an update.
LEMMA ServedStep ==
  ASSUME Inv, Next
  PROVE  ServedOK'
<1>0. /\ \A k \in seen \cup farSeen : \E v \in Kept : k \in Keys(v)
      /\ \A c \in redis \ Updates : \E v \in Kept \cup Final(gate) \cup Final(far) : c \in Keys(v)
      /\ \A w \in redis \cap Updates :
           \E v \in Kept \cup Begun(gate) \cup Begun(far) : Keys(w) \cap Keys(v) # {}
      /\ gate \in Operation /\ far \in Operation /\ WellFormed(gate) /\ WellFormed(far)
      /\ Won(gate) \cup Won(far) \subseteq redis
  BY DEF Inv, ServedOK, TypeOK, OperationsOK, ClaimsOK
<1>k. Kept \subseteq Kept' /\ Kept \subseteq Updates
  BY KeptGrows, Contents DEF Inv, TypeOK, Kept
<1>p. /\ Final(gate)' = Final(gate') /\ Final(far)' = Final(far')
      /\ Begun(gate)' = Begun(gate') /\ Begun(far)' = Begun(far')
  BY DEF Final, Begun
<1>f. Final(Free) = {} /\ Begun(Free) = {} BY DEF Final, Begun, Free
<1> DEFINE Remembered == \A k \in seen' \cup farSeen' : \E v \in Kept' : k \in Keys(v)
<1>q. ASSUME Remembered,
             \A c \in redis' \ Updates :
               \E v \in Kept' \cup Final(gate') \cup Final(far') : c \in Keys(v),
             \A w \in redis' \cap Updates :
               \E v \in Kept' \cup Begun(gate') \cup Begun(far') : Keys(w) \cap Keys(v) # {}
      PROVE  ServedOK'
  BY <1>p, <1>q DEF ServedOK, Keys
<1>r. seen' \subseteq seen /\ farSeen' \subseteq farSeen => Remembered BY <1>0, <1>k
<1>1. CASE /\ UNCHANGED redis /\ seen' \subseteq seen /\ farSeen' \subseteq farSeen
           /\ Final(gate') = Final(gate) /\ Final(far') = Final(far)
           /\ Begun(gate') = Begun(gate) /\ Begun(far') = Begun(far)
  BY <1>0, <1>k, <1>q, <1>r, <1>1
<1>2. CASE Claim
  <2>1. far' = far /\ SetNX(gate, gate') /\ UNCHANGED <<seen, farSeen>>
    BY <1>2 DEF Claim, other
  <2>2. /\ \A c \in redis' \ Updates :
             \E v \in Kept' \cup Final(gate') \cup Final(far) : c \in Keys(v)
        /\ \A w \in redis' \cap Updates :
             \E v \in Kept' \cup Begun(gate') \cup Begun(far) : Keys(w) \cap Keys(v) # {}
    BY <1>0, <1>k, <2>1, ClaimServes
  <2> QED BY <1>q, <1>r, <2>1, <2>2
<1>3. CASE ClaimElsewhere
  <2>1. gate' = gate /\ SetNX(far, far') /\ UNCHANGED <<seen, farSeen>>
    BY <1>3 DEF ClaimElsewhere, door
  <2>2. PICK g, h, o : g = far /\ h = far' /\ o = gate OBVIOUS
  <2>3. /\ g \in Operation /\ WellFormed(g) /\ SetNX(g, h) /\ Won(g) \subseteq redis
        /\ \A c \in redis \ Updates : \E v \in Kept \cup Final(g) \cup Final(o) : c \in Keys(v)
        /\ \A w \in redis \cap Updates :
             \E v \in Kept \cup Begun(g) \cup Begun(o) : Keys(w) \cap Keys(v) # {}
    BY <1>0, <2>1, <2>2
  <2>4. /\ \A c \in redis' \ Updates : \E v \in Kept' \cup Final(h) \cup Final(o) : c \in Keys(v)
        /\ \A w \in redis' \cap Updates :
             \E v \in Kept' \cup Begun(h) \cup Begun(o) : Keys(w) \cap Keys(v) # {}
    BY <1>k, <2>3, ClaimServes
  <2> QED BY <1>q, <1>r, <2>1, <2>2, <2>4
<1>4. CASE Reply
  <2>0. /\ gate.u \in Updates /\ gate.pc \in {"won", "held", "error"} /\ out < Capacity
        /\ gate' = Free /\ UNCHANGED <<redis, far, farSeen>>
    BY <1>0, <1>4 DEF Inv, GateOK, WellFormed, Reply, other
  <2>1. PICK u \in Updates : u = gate.u BY <2>0
  <2>2. Remembered /\ (\/ Begun(gate) \subseteq Kept'
                      \/ /\ gate.pc = "error"
                         /\ \E k \in Keys(gate.u) : \E v \in Kept : k \in Keys(v))
    <3>1. CASE ~Duplicate(gate, seen)
      <4>1. ~full BY <2>0, Contents, IntakeAssumption DEF full, Inv, IntakeAssumption
      <4>2. queue' = Append(queue, u) /\ seen' = seen \cup Keys(u)
        BY <1>4, <2>1, <3>1, <4>1 DEF Reply
      <4>3. u \in ToSet(queue') BY <4>2, AppendSet DEF Inv, AccountOK
      <4>4. u \in Kept' BY <4>3, IntakeAssumption DEF Kept, Queued, IntakeAssumption
      <4> QED BY <1>0, <1>k, <2>0, <2>1, <4>2, <4>4 DEF Begun
    <3>2. CASE Duplicate(gate, seen)
      <4>1. seen' = seen BY <1>4, <3>2 DEF Reply
      <4>2. Remembered BY <1>r, <2>0, <4>1
      <4>3. CASE gate.pc = "held" BY <4>2, <4>3 DEF Begun
      <4>4. CASE gate.pc # "held"
        <5>1. gate.pc = "error" /\ \E k \in Keys(gate.u) : k \in seen
          BY <3>2, <4>4 DEF Duplicate
        <5> QED BY <1>0, <4>2, <5>1
      <4> QED BY <4>3, <4>4
    <3> QED BY <3>1, <3>2
  <2>3. /\ \A c \in redis' \ Updates : \E v \in Kept' \cup Final(far) : c \in Keys(v)
        /\ \A w \in redis' \cap Updates :
             \E v \in Kept' \cup Begun(far) : Keys(w) \cap Keys(v) # {}
    BY <1>0, <1>k, <2>0, <2>2, OverServes
  <2> QED BY <1>f, <1>q, <2>0, <2>2, <2>3
<1>5. CASE ReplyElsewhere
  <2>0. /\ far.u \in Updates /\ far.pc \in {"won", "held", "error"}
        /\ far' = Free /\ UNCHANGED <<redis, gate, seen>>
    BY <1>0, <1>5 DEF WellFormed, ReplyElsewhere, door, claims
  <2>1. PICK u \in Updates : u = far.u BY <2>0
  <2>2. Remembered /\ (\/ Begun(far) \subseteq Kept'
                      \/ /\ far.pc = "error"
                         /\ \E k \in Keys(far.u) : \E v \in Kept : k \in Keys(v))
    <3>1. CASE ~Duplicate(far, farSeen)
      <4>1. done' = done \cup {u} /\ farSeen' = farSeen \cup Keys(u)
        BY <1>5, <2>1, <3>1 DEF ReplyElsewhere
      <4>2. u \in Kept' BY <4>1 DEF Kept
      <4> QED BY <1>0, <1>k, <2>0, <2>1, <4>1, <4>2 DEF Begun
    <3>2. CASE Duplicate(far, farSeen)
      <4>1. farSeen' = farSeen BY <1>5, <3>2 DEF ReplyElsewhere
      <4>2. Remembered BY <1>r, <2>0, <4>1
      <4>3. CASE far.pc = "held" BY <4>2, <4>3 DEF Begun
      <4>4. CASE far.pc # "held"
        <5>1. far.pc = "error" /\ \E k \in Keys(far.u) : k \in farSeen
          BY <3>2, <4>4 DEF Duplicate
        <5> QED BY <1>0, <4>2, <5>1
      <4> QED BY <4>3, <4>4
    <3> QED BY <3>1, <3>2
  <2>3. /\ \A c \in redis' \ Updates : \E v \in Kept' \cup Final(gate) : c \in Keys(v)
        /\ \A w \in redis' \cap Updates :
             \E v \in Kept' \cup Begun(gate) : Keys(w) \cap Keys(v) # {}
    BY <1>0, <1>k, <2>0, <2>2, OverServes
  <2> QED BY <1>f, <1>q, <2>0, <2>2, <2>3
<1>6. CASE Crash
  <2>1. /\ gate' = Free /\ seen' = {} /\ UNCHANGED <<redis, far, farSeen>>
        /\ Begun(gate) \subseteq Kept'
    BY <1>6 DEF Crash, Kept, other
  <2>2. /\ \A c \in redis' \ Updates : \E v \in Kept' \cup Final(far) : c \in Keys(v)
        /\ \A w \in redis' \cap Updates :
             \E v \in Kept' \cup Begun(far) : Keys(w) \cap Keys(v) # {}
    BY <1>0, <1>k, <2>1, OverServes
  <2> QED BY <1>f, <1>q, <1>r, <2>1, <2>2
<1>7. CASE CrashElsewhere
  <2>1. /\ far' = Free /\ farSeen' = {} /\ UNCHANGED <<redis, gate, seen>>
        /\ Begun(far) \subseteq Kept'
    BY <1>7 DEF CrashElsewhere, Kept, door, claims
  <2>2. /\ \A c \in redis' \ Updates : \E v \in Kept' \cup Final(gate) : c \in Keys(v)
        /\ \A w \in redis' \cap Updates :
             \E v \in Kept' \cup Begun(gate) : Keys(w) \cap Keys(v) # {}
    BY <1>0, <1>k, <2>1, OverServes
  <2> QED BY <1>f, <1>q, <1>r, <2>1, <2>2
<1>8. ASSUME NEW u \in Updates, Enter(u) \/ CallElsewhere(u) PROVE ServedOK'
  <2>1. UNCHANGED <<redis, seen, farSeen>> BY <1>8 DEF Enter, CallElsewhere, claims, other
  <2>2. /\ gate' = gate \/ (gate.pc = "free" /\ gate' = [pc |-> "claim", u |-> u])
        /\ far' = far \/ (far.pc = "free" /\ far' = [pc |-> "claim", u |-> u])
    BY <1>8 DEF Enter, CallElsewhere, other, door
  <2>3. /\ Final(gate') = Final(gate) /\ Final(far') = Final(far)
        /\ Begun(gate') = Begun(gate) /\ Begun(far') = Begun(far)
    BY <2>2 DEF Final, Begun
  <2> QED BY <1>1, <2>1, <2>3
<1>9. CASE UNCHANGED <<redis, seen, farSeen, gate, far>> BY <1>1, <1>9
<1>10. ASSUME NEW u \in Updates, Call(u) \/ Abandon(u) \/ TakeSlot(u) \/ Finish(u)
       PROVE  UNCHANGED <<redis, seen, farSeen, gate, far>>
  BY <1>10 DEF Call, Abandon, TakeSlot, Finish, claims, door, other
<1>11. CASE Fetch \/ Close \/ StopLock \/ StopPut
  BY <1>9, <1>11 DEF Fetch, Close, StopLock, StopPut, claims, door, other
<1> QED BY <1>2, <1>3, <1>4, <1>5, <1>6, <1>7, <1>8, <1>9, <1>10, <1>11 DEF Next

\* A slot belongs to a fetched update.
LEMMA SlotsStep ==
  ASSUME Inv, Next
  PROVE  slots' \subseteq InLane'
<1>0. lane \in Seq(Updates) /\ slots \subseteq InLane BY DEF Inv, AccountOK, TypeOK
<1>1. CASE UNCHANGED <<lane, slots>> BY <1>0, <1>1 DEF InLane
<1>2. CASE Fetch
  <2>1. CASE Head(queue) = Stop BY <1>1, <1>2, <2>1 DEF Fetch
  <2>2. CASE Head(queue) # Stop
    <3>1. lane' = Append(lane, Head(queue)) /\ slots' = slots /\ queue # <<>>
      BY <1>2, <2>2 DEF Fetch
    <3>2. Head(queue) \in Updates BY <2>2, <3>1, HeadTailProperties DEF Inv, AccountOK
    <3>3. ToSet(lane') = ToSet(lane) \cup {Head(queue)} BY <1>0, <3>1, <3>2, AppendSet
    <3> QED BY <1>0, <3>1, <3>3 DEF InLane
  <2> QED BY <2>1, <2>2
<1>3. ASSUME NEW u \in Updates, TakeSlot(u) PROVE slots' \subseteq InLane'
  BY <1>0, <1>3 DEF TakeSlot, InLane
<1>4. ASSUME NEW u \in Updates, Finish(u) PROVE slots' \subseteq InLane'
  <2>1. slots' = slots \ {u} /\ InLane \ {u} \subseteq InLane' BY <1>4, LaneKeeps DEF Finish
  <2> QED BY <1>0, <2>1
<1>5. CASE Crash BY <1>5 DEF Crash
<1>6. CASE Reply \/ StopPut BY <1>1, <1>6 DEF Reply, StopPut
<1> QED BY <1>1, <1>2, <1>3, <1>4, <1>5, <1>6, BacklogFrame DEF backlog

\* Every step respects the types.
LEMMA TypeStep ==
  ASSUME Inv, Next
  PROVE  TypeOK'
<1> DEFINE Typed == /\ calls \in 0..MaxCalls /\ crashes \in 0..MaxCrash
                    /\ errors \in 0..MaxErrors
                    /\ req \subseteq Updates
                    /\ gate \in Operation /\ far \in Operation
                    /\ closed \in BOOLEAN /\ stop \in {"no", "put", "join"}
                    /\ fetching \in BOOLEAN
                    /\ redis \subseteq Identities /\ seen \subseteq Identities
                    /\ farSeen \subseteq Identities
           Ghosts == /\ puts \in [Updates -> Nat]
                     /\ blind \subseteq Updates /\ done \subseteq Updates
                     /\ lost \subseteq Updates
<1>0. Typed /\ Ghosts BY DEF Inv, TypeOK
<1>n. /\ MaxCalls \in Nat /\ MaxErrors \in Nat /\ MaxCrash \in Nat
      /\ InLane \subseteq Updates /\ Queued \subseteq Updates
      /\ WellFormed(gate) /\ WellFormed(far) /\ Won(gate) \cup Won(far) \subseteq redis
      /\ Free \in Operation /\ \A u \in Updates : [pc |-> "claim", u |-> u] \in Operation
  BY IntakeAssumption, Contents
  DEF IntakeAssumption, Inv, OperationsOK, ClaimsOK, Free, Operation
<1>w. ASSUME NEW g \in Operation, NEW h, WellFormed(g), SetNX(g, h), Won(g) \subseteq redis
      PROVE  errors' \in 0..MaxErrors /\ h \in Operation /\ redis' \subseteq Identities
  <2>1. errors' \in 0..MaxErrors BY <1>0, <1>n, <1>w DEF SetNX
  <2>2. h \in Operation /\ g.u \in Updates BY <1>w, SetNXShape
  <2>3. Target(g) \in Keys(g.u) /\ redis' \in {redis, redis \cup {Target(g)}}
    BY <1>w, ClaimWins
  <2> QED BY <1>0, <2>1, <2>2, <2>3, KeyFacts
<1>1. ASSUME NEW u \in Updates, Call(u) PROVE Typed' /\ Ghosts'
  BY <1>0, <1>n, <1>1 DEF Call, claims, other, backlog, ghosts
<1>2. ASSUME NEW u \in Updates, CallElsewhere(u) PROVE Typed' /\ Ghosts'
  BY <1>0, <1>n, <1>2 DEF CallElsewhere, door, claims, backlog, ghosts
<1>3. ASSUME NEW u \in Updates, Abandon(u) PROVE Typed' /\ Ghosts'
  BY <1>0, <1>3 DEF Abandon, bounds, claims, other, backlog, ghosts
<1>4. ASSUME NEW u \in Updates, Enter(u) PROVE Typed' /\ Ghosts'
  BY <1>0, <1>n, <1>4 DEF Enter, bounds, claims, other, backlog, ghosts
<1>5. ASSUME NEW u \in Updates, TakeSlot(u) PROVE Typed' /\ Ghosts'
  BY <1>0, <1>5 DEF TakeSlot, bounds, door, claims, other, ghosts
<1>6. ASSUME NEW u \in Updates, Finish(u) PROVE Typed' /\ Ghosts'
  BY <1>0, <1>6 DEF Finish, bounds, door, claims, other
<1>7. ASSUME Claim PROVE Typed' /\ Ghosts'
  <2>1. /\ SetNX(gate, gate')
        /\ UNCHANGED <<calls, crashes, req, closed, stop, fetching, seen, far, farSeen,
                       puts, blind, done, lost>>
    BY <1>7 DEF Claim, other, backlog, ghosts
  <2>2. errors' \in 0..MaxErrors /\ gate' \in Operation /\ redis' \subseteq Identities
    BY <1>0, <1>n, <1>w, <2>1
  <2> QED BY <1>0, <2>1, <2>2
<1>8. ASSUME ClaimElsewhere PROVE Typed' /\ Ghosts'
  <2>1. /\ SetNX(far, far')
        /\ UNCHANGED <<calls, crashes, req, gate, closed, stop, fetching, seen, farSeen,
                       puts, blind, done, lost>>
    BY <1>8 DEF ClaimElsewhere, door, backlog, ghosts
  <2>2. errors' \in 0..MaxErrors /\ far' \in Operation /\ redis' \subseteq Identities
    BY <1>0, <1>n, <1>w, <2>1
  <2> QED BY <1>0, <2>1, <2>2
<1>9. ASSUME Reply PROVE Typed' /\ Ghosts'
  <2>1. gate.u \in Updates /\ Keys(gate.u) \subseteq Identities
    BY <1>n, <1>9, KeyFacts DEF Reply, WellFormed
  <2>2. UNCHANGED <<calls, crashes, errors, req, closed, stop, redis, far, farSeen,
                    fetching, done, lost>>
    BY <1>9 DEF Reply, bounds, other
  <2>3. gate' = Free /\ seen' \subseteq Identities BY <1>0, <1>9, <2>1 DEF Reply
  <2>4. puts' \in [Updates -> Nat] /\ blind' \subseteq Updates
    BY <1>0, <1>9, <2>1 DEF Reply
  <2> QED BY <1>0, <1>n, <2>2, <2>3, <2>4
<1>10. ASSUME ReplyElsewhere PROVE Typed' /\ Ghosts'
  <2>1. far.u \in Updates /\ Keys(far.u) \subseteq Identities
    BY <1>n, <1>10, KeyFacts DEF ReplyElsewhere, WellFormed
  <2>2. UNCHANGED <<calls, crashes, errors, req, gate, closed, stop, redis, seen,
                    fetching, lost>>
    BY <1>10 DEF ReplyElsewhere, bounds, door, claims, backlog
  <2>3. far' = Free /\ farSeen' \subseteq Identities BY <1>0, <1>10, <2>1 DEF ReplyElsewhere
  <2>4. puts' \in [Updates -> Nat] /\ blind' \subseteq Updates /\ done' \subseteq Updates
    BY <1>0, <1>10, <2>1 DEF ReplyElsewhere
  <2> QED BY <1>0, <1>n, <2>2, <2>3, <2>4
<1>11. ASSUME Fetch PROVE Typed' /\ Ghosts'
  BY <1>0, <1>11 DEF Fetch, bounds, door, claims, other, ghosts
<1>12. ASSUME Close \/ StopLock \/ StopPut PROVE Typed' /\ Ghosts'
  BY <1>0, <1>12 DEF Close, StopLock, StopPut, bounds, claims, other, backlog, ghosts
<1>13. ASSUME Crash \/ CrashElsewhere PROVE Typed' /\ Ghosts'
  <2>0. Begun(gate) \subseteq Updates /\ Begun(far) \subseteq Updates
    BY <1>n DEF Begun, WellFormed
  <2>1. lost' \subseteq Updates BY <1>0, <1>n, <1>13, <2>0 DEF Crash, CrashElsewhere
  <2>2. crashes' \in 0..MaxCrash BY <1>0, <1>n, <1>13 DEF Crash, CrashElsewhere
  <2>3. CASE Crash BY <1>0, <1>n, <2>1, <2>2, <2>3 DEF Crash, other
  <2>4. CASE CrashElsewhere
    BY <1>0, <1>n, <2>1, <2>2, <2>4 DEF CrashElsewhere, door, claims, backlog
  <2> QED BY <1>13, <2>3, <2>4
<1>14. Typed' /\ Ghosts'
  BY <1>1, <1>2, <1>3, <1>4, <1>5, <1>6, <1>7, <1>8, <1>9, <1>10, <1>11, <1>12, <1>13 DEF Next
<1>15. AccountOK' => InLane' \subseteq Updates /\ Queued' \subseteq Updates /\ out' \in Nat
  BY DEF AccountOK, InLane, Queued, ToSet
<1> QED BY <1>14, <1>15, AccountStep, SlotsStep DEF TypeOK

-----------------------------------------------------------------------------
\* What holds of every behaviour.

\* The invariant holds at the start.
LEMMA InvInit == Init => Inv
<1> SUFFICES ASSUME Init PROVE Inv OBVIOUS
<1>0. Capacity \in Nat \ {0} /\ MaxCalls \in Nat /\ MaxErrors \in Nat /\ MaxCrash \in Nat
  BY IntakeAssumption DEF IntakeAssumption
<1>1. AccountOK BY <1>0, EmptySeq DEF Init, AccountOK
<1>2. InLane = {} /\ Queued = {} BY DEF Init, InLane, Queued, ToSet
<1>3. TypeOK
  <2>1. gate \in Operation /\ far \in Operation BY DEF Init, Free, Operation
  <2>2. puts \in [Updates -> Nat] /\ out \in Nat BY DEF Init
  <2>3. slots \subseteq InLane /\ req \subseteq Updates BY DEF Init
  <2>4. calls \in 0..MaxCalls /\ crashes \in 0..MaxCrash /\ errors \in 0..MaxErrors
    BY <1>0 DEF Init
  <2>5. redis \subseteq Identities /\ seen \subseteq Identities /\ farSeen \subseteq Identities
    BY DEF Init
  <2>6. closed \in BOOLEAN /\ stop \in {"no", "put", "join"} /\ fetching \in BOOLEAN
    BY DEF Init
  <2>7. blind \subseteq Updates /\ done \subseteq Updates /\ lost \subseteq Updates
    BY DEF Init
  <2>8. InLane \subseteq Updates /\ Queued \subseteq Updates BY <1>2
  <2> QED BY <2>1, <2>2, <2>3, <2>4, <2>5, <2>6, <2>7, <2>8 DEF TypeOK
<1>4. GateOK /\ OperationsOK /\ SentinelOK /\ LanesOK
  BY DEF Init, Free, GateOK, OperationsOK, WellFormed, SentinelOK, LanesOK
<1>5. Won(gate) = {} /\ Won(far) = {} BY DEF Init, Free, Won
<1>6. Sure = {} BY DEF Init, Sure
<1>7. ClaimsOK BY <1>5, <1>6 DEF ClaimsOK
<1>8. ServedOK BY DEF Init, Free, ServedOK
<1> QED BY <1>1, <1>3, <1>4, <1>7, <1>8 DEF Inv

\* A step that changes nothing keeps it.
LEMMA InvStutter == Inv /\ UNCHANGED vars => Inv'
<1> SUFFICES ASSUME Inv, UNCHANGED vars PROVE Inv' OBVIOUS
<1> USE DEF vars, bounds, door, claims, other, backlog, ghosts
<1>1. TypeOK' BY DEF Inv, TypeOK, Queued, InLane
<1>2. AccountOK' /\ GateOK' /\ OperationsOK' /\ SentinelOK'
  BY DEF Inv, AccountOK, GateOK, OperationsOK, WellFormed, SentinelOK
<1>3. LanesOK' BY DEF Inv, LanesOK, HasLane
<1>4. Sure' = Sure /\ Kept' = Kept BY DEF Sure, Kept, InLane, Queued
<1>5. ClaimsOK' BY <1>4 DEF Inv, ClaimsOK, Won, Keys
<1>6. ServedOK' BY <1>4 DEF Inv, ServedOK, Final, Begun, Keys
<1> QED BY <1>1, <1>2, <1>3, <1>5, <1>6 DEF Inv

\* Every step keeps it.
LEMMA InvNext == Inv /\ [Next]_vars => Inv'
<1>1. ASSUME Inv, Next PROVE Inv'
  BY <1>1, TypeStep, AccountStep, GateStep, OperationsStep, SentinelStep, LanesStep, ClaimsStep, ServedStep
  DEF Inv
<1> QED BY <1>1, InvStutter

\* The invariant of the intake.
THEOREM IntakeInvariant == Spec => []Inv
BY InvInit, InvNext, PTL DEF Spec

\* The types of the door, the claims and the backlog hold, and only a fetched
\* update has a slot.
THEOREM IntakeTypeCorrect == Spec => []TypeOK
<1>1. Inv => TypeOK BY DEF Inv
<1> QED BY <1>1, IntakeInvariant, PTL

\* SET NX hands an update or a command to the handlers once, whatever Telegram
\* repeats and whichever process it calls, unless Redis failed to answer.
THEOREM AdmittedOnceAlways == Spec => []AdmittedOnce
<1>1. ASSUME Inv PROVE AdmittedOnce
  <2> SUFFICES ASSUME NEW u \in Updates, NEW v \in Updates, Keys(u) \cap Keys(v) # {},
                      puts[u] > 0, puts[v] > 0, u = v => puts[u] > 1,
                      u \notin blind, v \notin blind
               PROVE  FALSE
    BY DEF AdmittedOnce
  <2>1. u \in Sure /\ v \in Sure BY DEF Sure
  <2>2. puts[u] = 1 /\ (u # v => Keys(u) \cap Keys(v) = {}) BY <1>1, <2>1 DEF Inv, ClaimsOK
  <2> QED BY <2>2
<1> QED BY <1>1, IntakeInvariant, PTL

\* An update that was claimed, or answered with a 200, is handled, it or another
\* that carries its command, but for a crash of the process that has it.
THEOREM NothingSwallowedAlways == Spec => []NothingSwallowed
<1>1. ASSUME Inv PROVE NothingSwallowed
  <2> SUFFICES ASSUME NEW u \in (redis \cup seen \cup farSeen) \cap Updates
               PROVE  \E v \in Updates :
                        /\ Keys(u) \cap Keys(v) # {}
                        /\ \/ v \in done \cup lost \cup InLane \/ (fetching /\ v \in Queued)
                           \/ v \in Begun(gate) \cup Begun(far)
    BY DEF NothingSwallowed
  <2>1. u \in Keys(u) BY KeyFacts
  <2>2. \E v \in Kept \cup Begun(gate) \cup Begun(far) : Keys(u) \cap Keys(v) # {}
    BY <1>1, <2>1 DEF Inv, ServedOK
  <2>3. Queued # {} => fetching BY <1>1 DEF Inv, SentinelOK, Queued, ToSet
  <2>4. Kept \subseteq Updates /\ Begun(gate) \subseteq Updates /\ Begun(far) \subseteq Updates
    BY <1>1, Contents DEF Inv, TypeOK, OperationsOK, WellFormed, Kept, Begun
  <2> QED BY <2>1, <2>2, <2>3, <2>4 DEF Kept
<1> QED BY <1>1, IntakeInvariant, PTL

\* UPDATE_QUEUE_MAXSIZE bounds the items that are accepted and not done, fetched or
\* not, the sentinel of a shutdown among them.
THEOREM BacklogBoundedAlways == Spec => []BacklogBounded
<1>1. Inv => BacklogBounded BY DEF Inv, AccountOK, BacklogBounded
<1> QED BY <1>1, IntakeInvariant, PTL

\* A user's backlog takes one handler slot at a time, inline queries excepted.
THEOREM OneSlotPerUserAlways == Spec => []OneSlotPerUser
<1>1. ASSUME Inv PROVE OneSlotPerUser
  <2> SUFFICES ASSUME NEW u \in slots \ Inline, NEW v \in slots \ Inline, User[u] = User[v]
               PROVE  u = v
    BY DEF OneSlotPerUser
  <2>0. Len(lane) \in Nat BY <1>1, Contents DEF Inv
  <2>1. PICK i \in 1..Len(lane) :
          /\ lane[i] = u
          /\ \A k \in 1..(i - 1) : lane[k] \in Inline \/ User[lane[k]] # User[u]
    BY <1>1 DEF Inv, LanesOK, HasLane
  <2>2. PICK j \in 1..Len(lane) :
          /\ lane[j] = v
          /\ \A k \in 1..(j - 1) : lane[k] \in Inline \/ User[lane[k]] # User[v]
    BY <1>1 DEF Inv, LanesOK, HasLane
  <2>3. ~(i < j) BY <2>0, <2>1, <2>2
  <2>4. ~(j < i) BY <2>0, <2>1, <2>2
  <2>5. i = j BY <2>0, <2>3, <2>4
  <2> QED BY <2>1, <2>2, <2>5
<1> QED BY <1>1, IntakeInvariant, PTL
=============================================================================

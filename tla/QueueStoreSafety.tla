------------------------- MODULE QueueStoreSafety -------------------------
(***************************************************************************)
(* The type invariant of QueueStore, the exclusion of image jobs, and what *)
(* a record keeps from one command to the next, proved.  Typing comes      *)
(* first: the record functions of the script, the loops of sweep(), what   *)
(* each command writes, then one step per command.                         *)
(***************************************************************************)
EXTENDS QueueStore, TLAPS

\* What the proofs use of the assumptions on the constants.
LEMMA ConstTypes ==
  /\ Size \in [Jobs -> Nat] /\ Lane \in [Jobs -> Lanes] /\ User \in [Jobs -> Nat]
  /\ MaxAge \in [Lanes -> Nat] /\ KidOf \in [Ops -> Kids]
  /\ MetaTTL \in Nat /\ RetryTTL \in Nat /\ Lease \in Nat /\ Budget \in Nat
  /\ PayloadTTL \in Nat /\ 0 \in Delays /\ Delays \subseteq Nat
BY StoreAssumption DEF StoreAssumption

\* Never and every moment are times.
LEMMA TimeType == Never \in Time /\ (\A n \in Nat : n \in Time)
BY DEF Time

\* Having no owner is a legal owner token.
LEMMA TokenType == NoTok \in Nat \cup {NoTok}
OBVIOUS

\* drop_payload keeps a record well formed.
LEMMA DropType ==
  ASSUME NEW m \in JobRec PROVE drop_payload(m) \in JobRec
<1>1. m.nByte - (IF m.pay THEN Size[m.org] ELSE 0) \in Int
  BY ConstTypes DEF JobRec
<1> QED BY <1>1, TimeType DEF drop_payload, JobRec

\* release_running keeps a record well formed.
LEMMA ReleaseType ==
  ASSUME NEW m \in JobRec PROVE release_running(m) \in JobRec
<1>1. m.nHeld - (IF Held(m) THEN 1 ELSE 0) \in Int BY DEF JobRec
<1> QED BY <1>1, TimeType DEF release_running, JobRec

\* A requeued record is well formed.
LEMMA RequeueType ==
  ASSUME NEW m \in JobRec PROVE requeue(m) \in JobRec
<1> DEFINE r == release_running(m)
<1>1. r \in JobRec BY ReleaseType
<1>2. r.rev + 1 \in Nat /\ m.qdl \in Time /\ "queued" \in ActiveStates
  BY <1>1, TimeType DEF JobRec, ActiveStates
<1> HIDE DEF r
<1>3. [r EXCEPT !.st = "queued", !.own = NoTok, !.rev = @ + 1,
                             !.zDead = m.qdl, !.zReady = TRUE] \in JobRec
  BY <1>1, <1>2 DEF JobRec
<1> QED BY <1>3 DEF requeue, r

\* terminal keeps a record well formed, whether it keeps the payload or not.
LEMMA TerminalType ==
  ASSUME NEW m \in JobRec, NEW s \in EndStates, NEW safe \in BOOLEAN, now \in Nat
  PROVE  terminal(m, s, safe) \in JobRec
<1> DEFINE a == [m EXCEPT !.nActive = @ - (IF Active(m) THEN 1 ELSE 0)]
           r == release_running(a)
           e == [r EXCEPT !.st = s, !.own = NoTok, !.rev = @ + 1,
                     !.zReady = FALSE, !.zDelay = Never, !.zDead = Never,
                     !.zMeta = now + MetaTTL]
<1>0. now + MetaTTL \in Time /\ now + RetryTTL \in Time BY ConstTypes, TimeType
<1>1. a \in JobRec
  <2>1. m.nActive - (IF Active(m) THEN 1 ELSE 0) \in Int BY DEF JobRec
  <2> QED BY <2>1 DEF JobRec
<1>2. r \in JobRec BY <1>1, ReleaseType
<1>3. e \in JobRec
  <2> HIDE DEF a, r
  <2>1. r.rev + 1 \in Nat BY <1>2 DEF JobRec
  <2> QED BY <1>0, <1>2, <2>1, TimeType DEF JobRec
<1>4. drop_payload(e) \in JobRec BY <1>3, DropType
<1>5. [e EXCEPT !.elig = TRUE, !.zPay = now + RetryTTL] \in JobRec
  <2> HIDE DEF e
  <2> QED BY <1>0, <1>3 DEF JobRec
<1>6. terminal(m, s, safe) = IF safe /\ m.grants > 0 /\ HasPayload(m)
      THEN [e EXCEPT !.elig = TRUE, !.zPay = now + RetryTTL]
      ELSE drop_payload(e)
    BY DEF terminal
<1> HIDE DEF e
<1> QED BY <1>4, <1>5, <1>6

\* The states the script passes to terminal are end states.
LEMMA EndTypes ==
  /\ {"unknown_delivery", "expired", "cancelled", "failed", "succeeded"} \subseteq EndStates
  /\ \A m, s : s \in EndStates => UncertainOr(m, s) \in EndStates
BY DEF EndStates, UncertainOr

\* The payload loop of sweep() keeps a record well formed.
LEMMA SweepPayloadType ==
  ASSUME NEW m \in JobRec, now \in Nat PROVE SweepPayload(m) \in JobRec
<1>1. [m EXCEPT !.zPay = Never] \in JobRec BY TimeType DEF JobRec
<1>2. drop_payload(m) \in JobRec BY DropType
<1>3. terminal(drop_payload(m), UncertainOr(m, "expired"), FALSE) \in JobRec
  BY <1>2, EndTypes, TerminalType
<1> QED BY <1>1, <1>2, <1>3 DEF SweepPayload

\* The deadline loop of sweep() keeps a record well formed.
LEMMA SweepDeadlineType ==
  ASSUME NEW m \in JobRec, now \in Nat PROVE SweepDeadline(m) \in JobRec
<1>1. [m EXCEPT !.zDead = Never] \in JobRec BY TimeType DEF JobRec
<1>2. terminal(m, UncertainOr(m, "expired"), FALSE) \in JobRec
  BY EndTypes, TerminalType
<1> QED BY <1>1, <1>2 DEF SweepDeadline

\* The lease loop of sweep() keeps a record well formed.
LEMMA SweepRunningType ==
  ASSUME NEW m \in JobRec, now \in Nat PROVE SweepRunning(m) \in JobRec
<1>1. [m EXCEPT !.zRun = Never] \in JobRec BY TimeType DEF JobRec
<1>2. /\ terminal(m, "unknown_delivery", FALSE) \in JobRec
      /\ terminal(m, "cancelled", FALSE) \in JobRec
      /\ terminal(m, "failed", TRUE) \in JobRec
      /\ terminal(m, "expired", TRUE) \in JobRec
  BY EndTypes, TerminalType
<1>3. requeue(m) \in JobRec BY RequeueType
<1> QED BY <1>1, <1>2, <1>3 DEF SweepRunning

\* The delay loop of sweep() keeps a record well formed.
LEMMA SweepDelayedType ==
  ASSUME NEW m \in JobRec PROVE SweepDelayed(m) \in JobRec
<1>1. [m EXCEPT !.zDelay = Never] \in JobRec BY TimeType DEF JobRec
<1>2. m.rev + 1 \in Nat /\ "queued" \in ActiveStates BY DEF JobRec, ActiveStates
<1>3. [m EXCEPT !.zDelay = Never, !.st = "queued", !.rev = @ + 1,
                !.zReady = TRUE] \in JobRec
  BY <1>2, TimeType DEF JobRec
<1> QED BY <1>1, <1>3 DEF SweepDelayed

\* The record of a job that does not exist is well formed.
LEMMA NoRecType == NoRec \in JobRec
<1>1. (CHOOSE j \in Jobs : TRUE) \in Jobs BY StoreAssumption DEF StoreAssumption
<1> QED BY <1>1, TimeType DEF NoRec, JobRec

\* A deleted job leaves a well-formed record.
LEMMA RemovedType ==
  ASSUME NEW m \in JobRec PROVE Removed(m) \in JobRec
<1>1. m.org \in Jobs /\ m.nActive \in Int /\ m.nHeld \in Int /\ m.nByte \in Int
  BY DEF JobRec
<1> HIDE DEF NoRec
<1> QED BY <1>1, NoRecType DEF Removed, JobRec

\* The metadata loop of sweep() keeps a record well formed.
LEMMA SweepMetadataType ==
  ASSUME NEW m \in JobRec PROVE SweepMetadata(m) \in JobRec
<1>1. Removed(m) \in JobRec BY RemovedType
<1>2. [m EXCEPT !.zMeta = Never, !.ids = {}] \in JobRec BY TimeType DEF JobRec
<1> QED BY <1>1, <1>2 DEF SweepMetadata

\* sweep() as a whole keeps a record well formed.
LEMMA SweepType ==
  ASSUME NEW m \in JobRec, now \in Nat PROVE sweep(m) \in JobRec
BY SweepPayloadType, SweepDeadlineType, SweepRunningType, SweepDelayedType,
   SweepMetadataType DEF sweep

\* An admission writes a well-formed record.
LEMMA AdmittedType ==
  ASSUME NEW m \in JobRec, NEW j \in AllJobs, NEW org \in Jobs, NEW delay \in Nat,
         NEW grant \in {0, 1}, now \in Nat, admits \in Nat
  PROVE  Admitted(m, j, org, delay, grant) \in JobRec
<1> DEFINE dl  == now + MaxAge[Lane[org]]
           exp == now + (IF User[org] > 0 THEN Sooner(PayloadTTL, MaxAge[Lane[org]])
                         ELSE MaxAge[Lane[org]])
           st0 == IF delay > 0 THEN "delayed" ELSE "queued"
           zd  == IF delay > 0 THEN now + delay ELSE m.zDelay
<1>1. dl \in Nat /\ exp \in Nat BY ConstTypes DEF Sooner
<1>2. st0 \in ActiveStates /\ zd \in Time
  BY TimeType DEF ActiveStates, JobRec
<1>3. admits + 1 \in Nat /\ dl \in Time /\ exp \in Time /\ (delay <= 0) \in BOOLEAN
  BY <1>1, TimeType
<1>4. m.nActive + 1 \in Int /\ m.nByte + Size[org] \in Int /\ m.ids \cup {j} \in SUBSET AllJobs
  BY ConstTypes DEF JobRec
<1>5. 1 \in Nat /\ 0 \in Nat OBVIOUS
<1> HIDE DEF dl, exp, st0, zd
<1>6. [m EXCEPT !.st = st0,
                !.org = org, !.rev = 1, !.att = 0, !.seq = admits + 1,
                !.sub = now, !.qdl = dl, !.own = NoTok, !.fin = NoTok,
                !.grants = grant, !.elig = FALSE, !.pay = TRUE,
                !.ids = @ \cup {j}, !.zDead = dl, !.zPay = exp,
                !.zReady = delay <= 0,
                !.zDelay = zd,
                !.nActive = @ + 1, !.nByte = @ + Size[org]] \in JobRec
  BY <1>1, <1>2, <1>3, <1>4, <1>5 DEF JobRec
<1> QED BY <1>6 DEF Admitted, dl, exp, st0, zd

\* A ready entry the claim scan passes over stays well formed.
LEMMA PassedType ==
  ASSUME NEW m \in JobRec, now \in Nat PROVE Passed(m) \in JobRec
<1>1. [m EXCEPT !.zReady = FALSE] \in JobRec BY DEF JobRec
<1>2. terminal(m, "failed", TRUE) \in JobRec /\ terminal(m, "expired", FALSE) \in JobRec
  BY EndTypes, TerminalType
<1> QED BY <1>1, <1>2 DEF Passed

\* A claim writes a well-formed record.
LEMMA ClaimedType ==
  ASSUME NEW m \in JobRec, NEW tok \in Nat, now \in Nat PROVE Claimed(m, tok) \in JobRec
<1> DEFINE daily == m.org \in Daily /\ User[m.org] = 0
           zd == IF daily THEN now + Budget ELSE m.zDead
           zp == IF daily THEN now + Budget ELSE m.zPay
<1>1. zd \in Time /\ zp \in Time /\ now + Lease \in Time BY ConstTypes, TimeType DEF JobRec
<1>2. m.att + 1 \in Nat /\ m.rev + 1 \in Nat /\ m.nHeld + 1 \in Int BY DEF JobRec
<1>3. "running" \in ActiveStates BY DEF ActiveStates, HeldStates
<1> HIDE DEF zd, zp
<1>4. [m EXCEPT !.zReady = FALSE, !.st = "running", !.own = tok, !.att = @ + 1,
            !.rev = @ + 1, !.fin = NoTok, !.zRun = now + Lease, !.nHeld = @ + 1,
            !.zDead = zd, !.zPay  = zp] \in JobRec
  BY <1>1, <1>2, <1>3 DEF JobRec
<1> QED BY <1>4 DEF Claimed, zd, zp

\* A retryable failure puts a well-formed record back.
LEMMA RescheduledType ==
  ASSUME NEW m \in JobRec, NEW delay \in Nat, now \in Nat
  PROVE  Rescheduled(m, delay) \in JobRec
<1> DEFINE r == release_running(m)
           st0 == IF delay > 0 THEN "delayed" ELSE "queued"
           zp == IF User[m.org] > 0 THEN Sooner(m.qdl, m.sub + PayloadTTL) ELSE m.qdl
           zd == IF delay > 0 THEN now + delay ELSE r.zDelay
<1>1. r \in JobRec BY ReleaseType
<1>2. st0 \in ActiveStates BY DEF ActiveStates
<1>3. zp \in Nat BY ConstTypes DEF Sooner, JobRec
<1> HIDE DEF r, st0, zp
<1>4. zd \in Time /\ zp \in Time /\ m.qdl \in Time /\ (delay <= 0) \in BOOLEAN
  BY <1>1, <1>3, TimeType DEF JobRec
<1>5. r.rev + 1 \in Nat BY <1>1 DEF JobRec
<1> HIDE DEF zd
<1>6. [r EXCEPT !.st = st0, !.own = NoTok, !.rev = @ + 1, !.zDead = m.qdl, !.zPay = zp,
                !.zReady = delay <= 0, !.zDelay = zd] \in JobRec
  BY <1>1, <1>2, <1>4, <1>5 DEF JobRec
<1> QED BY <1>6 DEF Rescheduled, r, st0, zp, zd

\* Whatever outcome finish reports, the record stays well formed.
LEMMA FinishedType ==
  ASSUME NEW m \in JobRec, NEW outcome, NEW delay \in Nat, now \in Nat
  PROVE  Finished(m, outcome, delay) \in JobRec
<1>1. /\ terminal(m, "unknown_delivery", FALSE) \in JobRec
      /\ terminal(m, "cancelled", FALSE) \in JobRec
      /\ terminal(m, "failed", TRUE) \in JobRec
      /\ terminal(m, "expired", TRUE) \in JobRec
      /\ terminal(m, IF outcome = "succeeded" THEN "succeeded" ELSE "failed", FALSE) \in JobRec
  BY EndTypes, TerminalType
<1>2. Rescheduled(m, delay) \in JobRec BY RescheduledType
<1> QED BY <1>1, <1>2 DEF Finished

\* Cancelling keeps a record well formed.
LEMMA CancelledType ==
  ASSUME NEW m \in JobRec, now \in Nat PROVE Cancelled(m) \in JobRec
<1>1. terminal(m, "cancelled", FALSE) \in JobRec BY EndTypes, TerminalType
<1>2. m.rev + 1 \in Nat /\ "cancel_requested" \in ActiveStates
  BY DEF JobRec, ActiveStates, HeldStates
<1>3. [m EXCEPT !.st = "cancel_requested", !.rev = @ + 1] \in JobRec
  BY <1>2 DEF JobRec
<1> QED BY <1>1, <1>3 DEF Cancelled

\* Erasing leaves a well-formed record.
LEMMA ErasedType ==
  ASSUME NEW m \in JobRec PROVE Erased(m) \in JobRec
<1> DEFINE a == [m EXCEPT !.nActive = @ - (IF Active(m) THEN 1 ELSE 0)]
<1>1. a \in JobRec
  <2>1. m.nActive - (IF Active(m) THEN 1 ELSE 0) \in Int BY DEF JobRec
  <2> QED BY <2>1 DEF JobRec
<1> HIDE DEF a
<1>2. Removed(drop_payload(release_running(a))) \in JobRec
  BY <1>1, ReleaseType, DropType, RemovedType
<1> QED BY <1>2 DEF Erased, a

PermitType == [own : Nat \cup {NoTok}, exp : Nat]
ConflictType == [ConflictKeys -> AllJobs \cup {NoJob}]
IdemType == [AllJobs -> [to : AllJobs \cup {NoJob}, exp : Nat]]
OpType == [Ops -> [on : AllJobs \cup {NoJob}, exp : Nat]]

\* Every command starts from well-formed records.
LEMMA SweptType == TypeOK => Swept \in [AllJobs -> JobRec]
BY SweepType DEF TypeOK, Swept

\* The permit, conflict, idempotency and operation keys keep their types.
LEMMA AfterTypes ==
  ASSUME TypeOK, NEW K
  PROVE  /\ PermitAfter(K) \in PermitType
         /\ ConflictAfter(K) \in ConflictType
         /\ IdemAfter(K) \in IdemType
         /\ OpAfter \in OpType
<1>1. PermitAfter(K) \in PermitType BY DEF TypeOK, PermitAfter, PermitType
<1>2. ConflictAfter(K) \in ConflictType BY DEF TypeOK, ConflictAfter, ConflictType
<1>3. IdemAfter(K) \in IdemType
  <2>1. now + MetaTTL \in Nat BY ConstTypes DEF TypeOK
  <2>2. ASSUME NEW i \in AllJobs PROVE [idem[i] EXCEPT !.exp = now + MetaTTL] \in [to : AllJobs \cup {NoJob}, exp : Nat]
    BY <2>1 DEF TypeOK
  <2> QED BY <2>2 DEF TypeOK, IdemAfter, IdemType
<1>4. OpAfter \in OpType
  <2>2. ASSUME NEW o \in Ops PROVE [op[o] EXCEPT !.on = NoJob] \in [on : AllJobs \cup {NoJob}, exp : Nat]
    BY DEF TypeOK
  <2> QED BY <2>2 DEF TypeOK, OpAfter, OpType
<1> QED BY <1>1, <1>2, <1>3, <1>4

\* A step that commits well-formed records preserves the type invariant.
LEMMA CommitType ==
  ASSUME TypeOK, NEW K \in [AllJobs -> JobRec], Commit(K),
         UNCHANGED <<now, lane, claims, admits>>
  PROVE  TypeOK'
BY AfterTypes DEF TypeOK, Commit, PermitType, ConflictType, IdemType, OpType

\* An accepted admission preserves the type invariant.
LEMMA AcceptType ==
  ASSUME TypeOK, NEW K \in [AllJobs -> JobRec], NEW j \in AllJobs, NEW org \in Jobs,
         NEW delay \in Nat, NEW grant \in {0, 1}, Accept(K, j, org, delay, grant),
         op' \in OpType, UNCHANGED <<now, lane, claims>>
  PROVE  TypeOK'
<1>1. Admitted(K[j], j, org, delay, grant) \in JobRec BY AdmittedType DEF TypeOK
<1>2. job' \in [AllJobs -> JobRec] BY <1>1 DEF Accept
<1>3. permit' \in PermitType BY AfterTypes DEF Accept
<1>4. conflict' \in ConflictType BY AfterTypes DEF Accept, ConflictType
<1>5. [to |-> j, exp |-> now + MetaTTL] \in [to : AllJobs \cup {NoJob}, exp : Nat]
  BY ConstTypes DEF TypeOK
<1>6. idem' \in IdemType BY <1>5, AfterTypes DEF Accept, Remembered, IdemType
<1>7. admits' \in Nat BY DEF Accept, TypeOK
<1> QED BY <1>2, <1>3, <1>4, <1>6, <1>7
        DEF TypeOK, PermitType, ConflictType, IdemType, OpType

\* An admission answered with the holder of a key preserves the type invariant.
LEMMA AliasType ==
  ASSUME TypeOK, NEW i \in AllJobs, NEW org, NEW h \in AllJobs, Alias(i, org, h),
         op' \in OpType, UNCHANGED <<now, lane, claims>>
  PROVE  TypeOK'
<1>1. Swept[h] \in JobRec BY SweptType
<1>2. [Swept[h] EXCEPT !.ids = @ \cup {i}] \in JobRec BY <1>1 DEF JobRec
<1>3. job' \in [AllJobs -> JobRec] BY <1>2, SweptType DEF Alias
<1>4. [to |-> h, exp |-> now + MetaTTL] \in [to : AllJobs \cup {NoJob}, exp : Nat]
  BY ConstTypes DEF TypeOK
<1>5. idem' \in IdemType BY <1>4, AfterTypes DEF Alias, Remembered, IdemType
<1> QED BY <1>3, <1>5, AfterTypes
        DEF TypeOK, Alias, PermitType, ConflictType, IdemType, OpType

\* A recorded operator command is well formed.
LEMMA RecordedType ==
  ASSUME TypeOK, NEW o \in Ops, NEW j \in AllJobs PROVE Recorded(o, j) \in OpType
<1>1. [on |-> j, exp |-> now + MetaTTL] \in [on : AllJobs \cup {NoJob}, exp : Nat]
  BY ConstTypes DEF TypeOK
<1> QED BY <1>1, AfterTypes DEF Recorded, OpType

\* The empty database is well formed.
LEMMA TypeInit == Init => TypeOK
BY NoRecType DEF Init, TypeOK

\* Every command preserves the type invariant.
LEMMA TypeStep == TypeOK /\ [Next]_storeVars => TypeOK'
<1> SUFFICES ASSUME TypeOK, [Next]_storeVars PROVE TypeOK'
  OBVIOUS
<1> USE SweptType
<1>1. CASE Tick BY <1>1 DEF Tick, TypeOK
<1>2. CASE Sweep BY <1>2, CommitType DEF Sweep
<1>3. ASSUME NEW j \in Jobs, NEW d \in Delays, Admit(j, d) PROVE TypeOK'
  BY <1>3, AcceptType, AfterTypes, ConstTypes DEF Admit, AllJobs
<1>4. ASSUME NEW j \in Jobs, AdmitAlias(j) PROVE TypeOK'
  BY <1>4, AliasType, AfterTypes DEF AdmitAlias, AllJobs
<1>5. ASSUME NEW u \in Users, Erase(u) PROVE TypeOK'
  <2> DEFINE mine == {j \in AllJobs : ~Gone(Swept[j]) /\ User[Swept[j].org] = u}
             K == [j \in AllJobs |-> IF j \in mine THEN Erased(Swept[j]) ELSE Swept[j]]
  <2>1. K \in [AllJobs -> JobRec] BY ErasedType
  <2> HIDE DEF mine, K
  <2>2. op' \in OpType
    <3>1. op' = [o \in Ops |-> IF OpAfter[o].on \in mine THEN [on |-> NoJob, exp |-> 0]
                                ELSE OpAfter[o]]
      BY <1>5 DEF Erase, mine, K
    <3> QED BY <3>1, AfterTypes DEF OpType
  <2>3. /\ job' = K /\ permit' = PermitAfter(K) /\ conflict' = ConflictAfter(K)
        /\ UNCHANGED <<now, lane, claims, admits>>
    BY <1>5 DEF Erase, mine, K
  <2>4. idem' \in IdemType
    <3>1. idem' = [i \in AllJobs |-> IF i \in mine THEN [to |-> NoJob, exp |-> 0]
                                      ELSE IdemAfter(K)[i]]
      BY <1>5 DEF Erase, mine, K
    <3> QED BY <2>1, <3>1, AfterTypes DEF IdemType
  <2> QED BY <2>1, <2>2, <2>3, <2>4, AfterTypes
          DEF TypeOK, PermitType, ConflictType, IdemType, OpType
<1>6. ASSUME NEW l \in Lanes, Claim(l) PROVE TypeOK'
  <2>1. claims + 1 \in Nat /\ now \in Nat BY DEF TypeOK
  <2>2. [own |-> claims + 1, exp |-> now + Lease] \in PermitType
    BY <2>1, ConstTypes DEF PermitType
  <2> DEFINE K(j) == [i \in AllJobs |->
                       IF i = j THEN Claimed(Swept[i], claims + 1)
                       ELSE IF i \in Ready(l) /\ Before(Swept[i], Swept[j])
                       THEN Passed(Swept[i]) ELSE Swept[i]]
  <2>3. \A j \in AllJobs : K(j) \in [AllJobs -> JobRec]
    BY <2>1, ClaimedType, PassedType
  <2>4. PICK j \in AllJobs :
          /\ job' = K(j)
          /\ permit' = IF Swept[j].org \in Image
                       THEN [own |-> claims + 1, exp |-> now + Lease] ELSE PermitAfter(K(j))
          /\ conflict' = ConflictAfter(K(j)) /\ idem' = IdemAfter(K(j))
          /\ op' = OpAfter
    BY <1>6 DEF Claim, Ready
  <2>5. claims' = claims + 1 /\ UNCHANGED <<now, lane, admits>> BY <1>6 DEF Claim
  <2> HIDE DEF K
  <2> QED BY <2>1, <2>2, <2>3, <2>4, <2>5, AfterTypes
          DEF TypeOK, PermitType, ConflictType, IdemType, OpType
<1>7. ASSUME NEW j \in AllJobs, NEW tok, NEW rev, Heartbeat(j, tok, rev) PROVE TypeOK'
  <2>1. now + Lease \in Nat /\ now + Lease \in Time BY ConstTypes, TimeType DEF TypeOK
  <2>2. Swept[j] \in JobRec OBVIOUS
  <2>3. [Swept[j] EXCEPT !.zRun = now + Lease] \in JobRec BY <2>1, <2>2 DEF JobRec
  <2>4. job' \in [AllJobs -> JobRec] BY <1>7, <2>3 DEF Heartbeat
  <2>5. tok \in Nat \cup {NoTok} BY <1>7, <2>2 DEF Heartbeat, Owns, JobRec
  <2>6. [own |-> tok, exp |-> now + Lease] \in PermitType BY <2>1, <2>5 DEF PermitType
  <2>7. permit' \in PermitType BY <1>7, <2>6, AfterTypes DEF Heartbeat, PermitRenewed
  <2> QED BY <1>7, <2>4, <2>7, AfterTypes
          DEF Heartbeat, TypeOK, PermitType, ConflictType, IdemType, OpType
<1>8. ASSUME NEW j \in AllJobs, NEW tok, NEW rev, NEW out, NEW d \in Delays,
             Finish(j, tok, rev, out, d)
      PROVE  TypeOK'
  <2> DEFINE f == Finished(Swept[j], out, d)
  <2>1. Swept[j] \in JobRec /\ now \in Nat /\ d \in Nat BY ConstTypes DEF TypeOK
  <2>2. f \in JobRec BY <2>1, FinishedType
  <2>3. tok \in Nat \cup {NoTok} BY <1>8, <2>1 DEF Finish, Owns, JobRec
  <2> HIDE DEF f
  <2>4. [f EXCEPT !.fin = tok] \in JobRec BY <2>2, <2>3 DEF JobRec
  <2>5. [Swept EXCEPT ![j] = [f EXCEPT !.fin = tok]] \in [AllJobs -> JobRec] BY <2>4
  <2> QED BY <1>8, <2>5, CommitType DEF Finish, f
<1>9. ASSUME NEW o \in Ops, NEW j \in AllJobs, Cancel(o, j) PROVE TypeOK'
  <2> DEFINE K == [Swept EXCEPT ![j] = Cancelled(@)]
  <2>1. K \in [AllJobs -> JobRec] BY CancelledType DEF TypeOK
  <2> HIDE DEF K
  <2>2. /\ job' = K /\ permit' = PermitAfter(K) /\ conflict' = ConflictAfter(K)
        /\ idem' = IdemAfter(K) /\ op' = Recorded(o, j)
        /\ UNCHANGED <<now, lane, claims, admits>>
    BY <1>9 DEF Cancel, K
  <2> QED BY <2>1, <2>2, AfterTypes, RecordedType
          DEF TypeOK, PermitType, ConflictType, IdemType, OpType
<1>10. ASSUME NEW o \in Ops, NEW j \in AllJobs, Retry(o, j) PROVE TypeOK'
  <2>1. Swept[j] \in JobRec OBVIOUS
  <2>2. drop_payload(Swept[j]) \in JobRec BY <2>1, DropType
  <2>3. Spent(Swept[j]) \in JobRec BY <2>2 DEF Spent, JobRec
  <2>4. [Swept EXCEPT ![j] = Spent(Swept[j])] \in [AllJobs -> JobRec] BY <2>3
  <2>5. KidOf[o] \in AllJobs /\ Swept[j].org \in Jobs
    BY <2>1, ConstTypes DEF AllJobs, JobRec
  <2> QED BY <1>10, <2>4, <2>5, AcceptType, RecordedType DEF Retry
<1>11. ASSUME NEW o \in Ops, NEW j \in AllJobs, RetryAlias(o, j) PROVE TypeOK'
  <2>1. KidOf[o] \in AllJobs BY ConstTypes DEF AllJobs
  <2> QED BY <1>11, <2>1, AliasType, RecordedType DEF RetryAlias
<1>12. ASSUME NEW o \in Ops, NEW l \in Lanes, NEW a \in BOOLEAN, NEW c \in BOOLEAN,
              SetLane(o, l, a, c)
       PROVE  TypeOK'
  <2>1. [on |-> NoJob, exp |-> now + MetaTTL] \in [on : AllJobs \cup {NoJob}, exp : Nat]
    BY ConstTypes DEF TypeOK
  <2>2. op' \in OpType BY <1>12, <2>1, AfterTypes DEF SetLane, OpType
  <2>3. [rev |-> lane[l].rev + 1, admissionPaused |-> a, claimPaused |-> c]
          \in [rev : Nat, admissionPaused : BOOLEAN, claimPaused : BOOLEAN]
    BY DEF TypeOK
  <2>4. lane' \in [Lanes -> [rev : Nat, admissionPaused : BOOLEAN, claimPaused : BOOLEAN]]
    BY <1>12, <2>3 DEF SetLane, TypeOK
  <2> QED BY <1>12, <2>2, <2>4, AfterTypes
          DEF SetLane, TypeOK, PermitType, ConflictType, IdemType, OpType
<1>13. ASSUME NEW l \in Lanes, ClaimNothing(l) PROVE TypeOK'
  <2> DEFINE K == [i \in AllJobs |-> IF i \in Ready(l) THEN Passed(Swept[i]) ELSE Swept[i]]
  <2>1. K \in [AllJobs -> JobRec] BY PassedType DEF TypeOK
  <2> QED BY <1>13, <2>1, CommitType DEF ClaimNothing
<1>14. CASE UNCHANGED storeVars BY <1>14 DEF storeVars, TypeOK
<1> QED BY <1>1, <1>2, <1>3, <1>4, <1>5, <1>6, <1>7, <1>8, <1>9, <1>10, <1>11, <1>12,
           <1>13, <1>14 DEF Next, Producer, Worker, Operator

\* Every reachable state of the Redis queue is well formed: for every set of
\* jobs, lanes and operations and every choice of limits and timeouts.
THEOREM TypeCorrect == Spec => []TypeOK
BY TypeInit, TypeStep, PTL DEF Spec

-----------------------------------------------------------------------------
(* What the sweep may do to a record (Follows), and from it the exclusion  *)
(* of image jobs.  ImageExclusive is not inductive: a claim is refused     *)
(* because permit:image exists, so the invariant has to say that the permit*)
(* exists for as long as an image job is held, and belongs to its owner.   *)
(* ImageInv adds that and what keeps it true: the permit never expires     *)
(* before the lease, a held job has a lease, and no token has two jobs.    *)

\* drop_payload leaves state, owner, lease and origin alone.
LEMMA DropFields ==
  ASSUME NEW m \in JobRec
  PROVE  LET s == drop_payload(m) IN
         /\ s.st = m.st /\ s.own = m.own /\ s.org = m.org /\ s.seq = m.seq
         /\ s.zRun = m.zRun /\ s.fin = m.fin /\ s.elig = FALSE
BY DEF drop_payload, JobRec

\* release_running leaves state, owner and origin alone.
LEMMA ReleaseFields ==
  ASSUME NEW m \in JobRec
  PROVE  LET s == release_running(m) IN
         /\ s.st = m.st /\ s.own = m.own /\ s.org = m.org /\ s.seq = m.seq
         /\ s.fin = m.fin /\ s.elig = m.elig
BY DEF release_running, JobRec

\* terminal settles the record, takes its owner away, and leaves it
\* retriable only when the caller called the failure safe.
LEMMA TerminalFields ==
  ASSUME NEW m \in JobRec, NEW s \in EndStates, NEW safe \in BOOLEAN, now \in Nat
  PROVE  LET t == terminal(m, s, safe) IN
         /\ t.st = s /\ t.own = NoTok /\ t.org = m.org /\ t.seq = m.seq
         /\ t.fin = m.fin /\ (t.elig => safe)
<1> DEFINE a == [m EXCEPT !.nActive = @ - (IF Active(m) THEN 1 ELSE 0)]
           r == release_running(a)
           e == [r EXCEPT !.st = s, !.own = NoTok, !.rev = @ + 1,
                     !.zReady = FALSE, !.zDelay = Never, !.zDead = Never,
                     !.zMeta = now + MetaTTL]
<1>0. now + MetaTTL \in Time /\ now + RetryTTL \in Time BY ConstTypes, TimeType
<1>1. a \in JobRec /\ a.org = m.org /\ a.seq = m.seq /\ a.fin = m.fin
  <2>1. m.nActive - (IF Active(m) THEN 1 ELSE 0) \in Int BY DEF JobRec
  <2> QED BY <2>1 DEF JobRec
<1>2. r \in JobRec /\ r.org = m.org /\ r.seq = m.seq /\ r.fin = m.fin
  <2> HIDE DEF a
  <2> QED BY <1>1, ReleaseType, ReleaseFields
<1> HIDE DEF r
<1>3. e \in JobRec
  <2>1. r.rev + 1 \in Nat BY <1>2 DEF JobRec
  <2> QED BY <1>0, <1>2, <2>1, TimeType DEF JobRec
<1>4. /\ e.st = s /\ e.own = NoTok /\ e.org = m.org /\ e.seq = m.seq
      /\ e.fin = m.fin
  BY <1>2 DEF JobRec
<1>5. terminal(m, s, safe) = IF safe /\ m.grants > 0 /\ HasPayload(m)
      THEN [e EXCEPT !.elig = TRUE, !.zPay = now + RetryTTL]
      ELSE drop_payload(e)
    BY DEF terminal, r
<1> HIDE DEF e
<1>6. CASE safe /\ m.grants > 0 /\ HasPayload(m)
  <2> DEFINE t == [e EXCEPT !.elig = TRUE, !.zPay = now + RetryTTL]
  <2>1. /\ t.st = e.st /\ t.own = e.own /\ t.org = e.org /\ t.seq = e.seq
        /\ t.fin = e.fin
    BY <1>3 DEF JobRec
  <2>2. terminal(m, s, safe) = t BY <1>5, <1>6
  <2> HIDE DEF t
  <2> QED BY <1>4, <1>6, <2>1, <2>2
<1>7. CASE ~(safe /\ m.grants > 0 /\ HasPayload(m))
  <2>1. terminal(m, s, safe) = drop_payload(e) BY <1>5, <1>7
  <2> QED BY <1>3, <1>4, <2>1, DropFields
<1> QED BY <1>6, <1>7

\* The job can still run, or be retried by hand.
Live(m) == Active(m) \/ m.elig

\* s is a record sweep() may turn m into: owners are only taken away, nothing
\* is claimed, settled jobs stay settled, and an effectful job that was held
\* either keeps its owner or can neither run nor be retried any more; only a
\* settled job becomes retriable.
Follows(m, s) ==
  /\ s.own = m.own \/ s.own = NoTok
  /\ s.org = m.org /\ (s.seq = m.seq \/ s.st = "absent")
  /\ Held(s) => Held(m) /\ s.own = m.own /\ s.zRun = m.zRun
  /\ Live(s) => Live(m)
  /\ Live(s) /\ Held(m) /\ m.org \in Effectful => Held(s) /\ s.own = m.own
  /\ s.st = "succeeded" => m.st = "succeeded"
  /\ s.fin = m.fin \/ (s.fin = NoTok /\ s.st = "absent")
  /\ s.elig /\ Active(s) => m.elig /\ Active(m)

\* End states and "absent" are neither active nor held; held is active.
LEMMA States ==
  /\ \A m : m.st \in EndStates => ~Active(m) /\ ~Held(m)
  /\ \A m : m.st = "absent" => ~Active(m) /\ ~Held(m)
  /\ \A m : Held(m) => Active(m)
BY DEF EndStates, Active, Held, ActiveStates, HeldStates

\* Follows composes, as long as no deleted record comes back to life.
LEMMA FollowsTrans ==
  ASSUME NEW a, NEW b, NEW c, b.st = "absent" => c.st = "absent",
         Follows(a, b), Follows(b, c)
  PROVE  Follows(a, c)
BY DEF Follows

\* Leaving a record alone is allowed.
LEMMA FollowsSelf == ASSUME NEW m PROVE Follows(m, m)
BY DEF Follows

\* Settling a record is allowed; keeping it retriable only if its effect is
\* certain.
LEMMA TerminalFollows ==
  ASSUME NEW m \in JobRec, NEW s \in EndStates \ {"succeeded"}, NEW safe \in BOOLEAN,
         now \in Nat, safe => Active(m) /\ ~Uncertain(m)
  PROVE  Follows(m, terminal(m, s, safe))
<1> DEFINE t == terminal(m, s, safe)
<1>1. /\ t.st = s /\ t.own = NoTok /\ t.org = m.org /\ t.seq = m.seq
      /\ t.fin = m.fin /\ (t.elig => safe)
  BY TerminalFields
<1> HIDE DEF t
<1>2. ~Active(t) /\ ~Held(t) BY <1>1, States
<1>3. Follows(m, t) BY <1>1, <1>2 DEF Follows, Live, Uncertain
<1> QED BY <1>3 DEF t

\* The payload loop only releases and settles.
LEMMA SweepPayloadFollows ==
  ASSUME NEW m \in JobRec, now \in Nat
  PROVE  Follows(m, SweepPayload(m)) /\ (m.st = "absent" => SweepPayload(m).st = "absent")
<1> DEFINE d == drop_payload(m)
<1>1. Follows(m, d) /\ d.st = m.st /\ d \in JobRec
  BY DropFields, DropType DEF Follows, Live, Active, Held
<1> HIDE DEF d
<1>2. Follows(m, [m EXCEPT !.zPay = Never])
  BY DEF Follows, Live, Active, Held, JobRec
<1>3. UncertainOr(m, "expired") \in EndStates \ {"succeeded"}
  BY DEF EndStates, UncertainOr
<1>4. m.st # "absent" => Follows(m, terminal(d, UncertainOr(m, "expired"), FALSE))
  <2>1. Follows(d, terminal(d, UncertainOr(m, "expired"), FALSE))
    BY <1>1, <1>3, TerminalFollows
  <2> QED BY <1>1, <2>1, FollowsTrans
<1>5. m.st = "absent" => ~Active(m) /\ Gone(m) BY States DEF Gone
<1>6. [m EXCEPT !.zPay = Never].st = m.st BY DEF JobRec
<1> QED BY <1>1, <1>2, <1>4, <1>5, <1>6, FollowsSelf, States DEF SweepPayload, d

\* The deadline loop only releases and settles.
LEMMA SweepDeadlineFollows ==
  ASSUME NEW m \in JobRec, now \in Nat
  PROVE  Follows(m, SweepDeadline(m)) /\ (m.st = "absent" => SweepDeadline(m).st = "absent")
<1>1. UncertainOr(m, "expired") \in EndStates \ {"succeeded"}
  BY DEF EndStates, UncertainOr
<1>2. Follows(m, terminal(m, UncertainOr(m, "expired"), FALSE)) BY <1>1, TerminalFollows
<1>3. Follows(m, [m EXCEPT !.zDead = Never]) /\ [m EXCEPT !.zDead = Never].st = m.st
  BY DEF Follows, Live, Active, Held, JobRec
<1>4. m.st = "absent" => ~Active(m) BY States
<1> QED BY <1>2, <1>3, <1>4, FollowsSelf DEF SweepDeadline

\* Only a job without an uncertain effect may be requeued.
LEMMA RequeueFollows ==
  ASSUME NEW m \in JobRec, Held(m), ~Uncertain(m) PROVE Follows(m, requeue(m))
<1> DEFINE r == release_running(m)
           s == [r EXCEPT !.st = "queued", !.own = NoTok, !.rev = @ + 1,
                          !.zDead = m.qdl, !.zReady = TRUE]
<1>1. r \in JobRec /\ r.org = m.org /\ r.seq = m.seq /\ r.fin = m.fin /\ r.elig = m.elig
  BY ReleaseType, ReleaseFields
<1> HIDE DEF r
<1>2. s.st = "queued" /\ s.own = NoTok /\ s.org = m.org /\ s.seq = m.seq
      /\ s.fin = m.fin /\ s.elig = m.elig
  BY <1>1 DEF JobRec
<1>3. requeue(m) = s BY DEF requeue, r
<1> HIDE DEF s
<1>4. ~Held(s) BY <1>2 DEF Held, HeldStates
<1> QED BY <1>2, <1>3, <1>4, States DEF Follows, Live, Uncertain

\* A job still held after the loop has a lease that has not run out.
LEMMA SweepRunningFollows ==
  ASSUME NEW m \in JobRec, now \in Nat
  PROVE  /\ Follows(m, SweepRunning(m))
         /\ m.st = "absent" => SweepRunning(m).st = "absent"
         /\ Held(SweepRunning(m)) => ~Due(m.zRun)
<1>0. {"unknown_delivery", "cancelled", "failed", "expired"} \subseteq EndStates \ {"succeeded"}
  BY DEF EndStates
<1>1. CASE ~Due(m.zRun) BY <1>1, FollowsSelf DEF SweepRunning
<1>2. CASE Due(m.zRun) /\ ~Held(m)
  <2>1. Follows(m, [m EXCEPT !.zRun = Never]) /\ [m EXCEPT !.zRun = Never].st = m.st
    BY <1>2 DEF Follows, Live, Active, Held, JobRec
  <2>2. SweepRunning(m) = [m EXCEPT !.zRun = Never] BY <1>2 DEF SweepRunning, Uncertain, Held, HeldStates
  <2>3. ~Held([m EXCEPT !.zRun = Never]) BY <1>2, <2>1 DEF Held
  <2> QED BY <2>1, <2>2, <2>3
<1>3. CASE Due(m.zRun) /\ Held(m)
  <2>1. m.st # "absent" BY <1>3, States
  <2>2. CASE Uncertain(m)
    <3>1. SweepRunning(m) = terminal(m, "unknown_delivery", FALSE)
      BY <1>3, <2>2 DEF SweepRunning
    <3>2. ~Held(SweepRunning(m)) BY <3>1, <1>0, TerminalFields, States
    <3> QED BY <2>1, <3>1, <3>2, <1>0, TerminalFollows
  <2>3. CASE ~Uncertain(m) /\ m.st = "cancel_requested"
    <3>1. SweepRunning(m) = terminal(m, "cancelled", FALSE)
      BY <1>3, <2>3 DEF SweepRunning
    <3>2. ~Held(SweepRunning(m)) BY <3>1, <1>0, TerminalFields, States
    <3> QED BY <2>1, <3>1, <3>2, <1>0, TerminalFollows
  <2>4. CASE ~Uncertain(m) /\ m.st # "cancel_requested"
    <3>1. \/ SweepRunning(m) = terminal(m, "failed", TRUE)
          \/ SweepRunning(m) = terminal(m, "expired", TRUE)
          \/ SweepRunning(m) = requeue(m)
      BY <1>3, <2>4 DEF SweepRunning
    <3>2. ~Held(terminal(m, "failed", TRUE)) /\ ~Held(terminal(m, "expired", TRUE))
      BY <1>0, TerminalFields, States
    <3>3. ~Held(requeue(m))
      <4>1. release_running(m) \in JobRec BY ReleaseType
      <4>2. requeue(m).st = "queued" BY <4>1 DEF requeue, JobRec
      <4> QED BY <4>2 DEF Held, HeldStates
    <3>4. Follows(m, requeue(m)) BY <1>3, <2>4, RequeueFollows
    <3>5. Follows(m, terminal(m, "failed", TRUE)) /\ Follows(m, terminal(m, "expired", TRUE))
      BY <1>0, <1>3, <2>4, TerminalFollows, States
    <3> QED BY <2>1, <3>1, <3>2, <3>3, <3>4, <3>5
  <2> QED BY <2>2, <2>3, <2>4
<1> QED BY <1>1, <1>2, <1>3

\* The delay loop claims nothing.
LEMMA SweepDelayedFollows ==
  ASSUME NEW m \in JobRec
  PROVE  Follows(m, SweepDelayed(m)) /\ (m.st = "absent" => SweepDelayed(m).st = "absent")
<1> DEFINE s == [m EXCEPT !.zDelay = Never, !.st = "queued", !.rev = @ + 1, !.zReady = TRUE]
           r == [m EXCEPT !.zDelay = Never]
<1>1. Follows(m, r) /\ r.st = m.st BY DEF Follows, Live, Active, Held, JobRec
<1>2. s.st = "queued" /\ s.own = m.own /\ s.org = m.org /\ s.seq = m.seq
      /\ s.fin = m.fin /\ s.elig = m.elig
  BY DEF JobRec
<1>3. SweepDelayed(m) = IF ~Due(m.zDelay) THEN m ELSE IF m.st = "delayed" THEN s ELSE r
  BY DEF SweepDelayed
<1> HIDE DEF s, r
<1>4. m.st = "delayed" => Follows(m, s)
  BY <1>2 DEF Follows, Live, Active, Held, ActiveStates, HeldStates
<1> QED BY <1>1, <1>3, <1>4, FollowsSelf

\* A removed record is absent, unowned and not retriable.
LEMMA RemovedFields ==
  ASSUME NEW m PROVE LET s == Removed(m) IN
         /\ s.st = "absent" /\ s.own = NoTok /\ s.org = m.org
         /\ s.elig = FALSE /\ s.fin = NoTok
BY DEF Removed, NoRec

\* Removing a record is allowed.
LEMMA RemovedFollows == ASSUME NEW m PROVE Follows(m, Removed(m))
BY RemovedFields, States DEF Follows, Live

\* The metadata loop claims nothing.
LEMMA SweepMetadataFollows ==
  ASSUME NEW m \in JobRec
  PROVE  Follows(m, SweepMetadata(m))
<1> DEFINE s == [m EXCEPT !.zMeta = Never, !.ids = {}]
<1>1. Follows(m, s) BY DEF Follows, Live, Active, Held, JobRec
<1>2. SweepMetadata(m) \in {m, Removed(m), s} BY DEF SweepMetadata
<1> HIDE DEF s
<1> QED BY <1>1, <1>2, RemovedFollows, FollowsSelf

\* sweep() claims nothing, requeues no uncertain job, and a job still held
\* after it has a lease that has not run out.
LEMMA SweepFollows ==
  ASSUME NEW m \in JobRec, now \in Nat
  PROVE  Follows(m, sweep(m)) /\ (Held(sweep(m)) => ~Due(m.zRun))
<1> DEFINE a == SweepPayload(m)
           b == SweepDeadline(a)
           c == SweepRunning(b)
           d == SweepDelayed(c)
           e == SweepMetadata(d)
<1>1. a \in JobRec /\ Follows(m, a) /\ (m.st = "absent" => a.st = "absent")
  BY SweepPayloadType, SweepPayloadFollows
<1> HIDE DEF a
<1>2. b \in JobRec /\ Follows(a, b) /\ (a.st = "absent" => b.st = "absent")
  BY <1>1, SweepDeadlineType, SweepDeadlineFollows
<1> HIDE DEF b
<1>3. c \in JobRec /\ Follows(b, c) /\ (b.st = "absent" => c.st = "absent")
      /\ (Held(c) => ~Due(b.zRun))
  BY <1>2, SweepRunningType, SweepRunningFollows
<1> HIDE DEF c
<1>4. d \in JobRec /\ Follows(c, d) /\ (c.st = "absent" => d.st = "absent")
  BY <1>3, SweepDelayedType, SweepDelayedFollows
<1> HIDE DEF d
<1>5. Follows(d, e) /\ (d.st = "absent" => e.st = "absent")
  <2>1. e \in {d, Removed(d), [d EXCEPT !.zMeta = Never, !.ids = {}]} BY DEF SweepMetadata
  <2>2. [d EXCEPT !.zMeta = Never, !.ids = {}].st = d.st BY <1>4 DEF JobRec
  <2> QED BY <1>4, <2>1, <2>2, SweepMetadataFollows, RemovedFields
<1> HIDE DEF e
<1>6. Follows(m, b) BY <1>1, <1>2, FollowsTrans
<1>7. Follows(m, e) /\ Follows(c, e)
  <2>1. Follows(c, e) BY <1>4, <1>5, FollowsTrans
  <2>2. Follows(b, e) BY <1>3, <1>4, <1>5, <2>1, FollowsTrans
  <2> QED BY <1>2, <1>3, <1>4, <1>5, <1>6, <2>1, <2>2, FollowsTrans
<1>8. Held(e) => Held(c) /\ Held(b) /\ b.zRun = m.zRun
  BY <1>3, <1>6, <1>7 DEF Follows
<1>9. sweep(m) = e BY DEF sweep, a, b, c, d, e
<1> QED BY <1>3, <1>7, <1>8, <1>9

(***************************************************************************)
(* The image permit.                                                       *)
(***************************************************************************)
ImageInv ==
  /\ \A j \in AllJobs : Held(job[j]) => job[j].own # NoTok /\ job[j].zRun # Never
  /\ \A j \in AllJobs : job[j].own <= claims
  /\ \A i, j \in AllJobs : job[i].own = job[j].own /\ job[i].own # NoTok => i = j
  /\ \A j \in AllJobs : Held(job[j]) /\ job[j].org \in Image
       => permit.own = job[j].own /\ job[j].zRun <= permit.exp

\* s is what m may become when no worker claims or renews it.
Quiet(m, s) ==
  /\ s.own = m.own \/ s.own = NoTok
  /\ Held(s) => /\ Held(m) /\ s.own = m.own /\ s.org = m.org
                /\ s.zRun = m.zRun /\ m.zRun > now

\* Before its own branch runs, a command has left every owner alone or freed
\* it, and every job it still sees held has a live lease.
LEMMA SweptQuiet ==
  ASSUME TypeOK, ImageInv, NEW j \in AllJobs
  PROVE  Quiet(job[j], Swept[j]) /\ Swept[j] \in JobRec
<1>1. job[j] \in JobRec /\ now \in Nat BY DEF TypeOK
<1>2. Swept[j] = sweep(job[j]) BY DEF Swept
<1>3. Swept[j] \in JobRec BY SweptType
<1>4. Follows(job[j], Swept[j]) /\ (Held(Swept[j]) => ~Due(job[j].zRun))
  BY <1>1, <1>2, SweepFollows
<1>5. Held(Swept[j]) => job[j].zRun # Never
  BY <1>4 DEF ImageInv, Follows
<1>6. job[j].zRun \in Int BY <1>1 DEF JobRec, Time, Never
<1> QED BY <1>1, <1>3, <1>4, <1>5, <1>6 DEF Quiet, Follows, Due

\* A held image job that is left alone keeps its permit.
LEMMA PermitKept ==
  ASSUME TypeOK, ImageInv, NEW K, NEW j \in AllJobs, Quiet(job[j], K[j]),
         Held(K[j]), K[j].org \in Image
  PROVE  /\ PermitAfter(K) = permit
         /\ permit.own = K[j].own /\ K[j].zRun <= permit.exp /\ permit.own # NoTok
<1>1. /\ Held(job[j]) /\ K[j].own = job[j].own /\ K[j].zRun = job[j].zRun
      /\ job[j].org \in Image /\ job[j].zRun > now
  BY DEF Quiet
<1>2. permit.own = job[j].own /\ job[j].zRun <= permit.exp /\ job[j].own # NoTok
  BY <1>1 DEF ImageInv
<1>3. job[j].zRun \in Int /\ permit.exp \in Nat /\ now \in Nat
  BY DEF TypeOK, JobRec, Time, Never
<1>4. Permitted BY <1>1, <1>2, <1>3 DEF Permitted
<1>5. permit.own \notin Released(K)
  <2> SUFFICES ASSUME NEW i \in AllJobs, Held(job[i]), K[i].own # job[i].own,
                      permit.own = job[i].own
               PROVE  FALSE
    BY DEF Released
  <2>1. i = j BY <1>2 DEF ImageInv
  <2> QED BY <1>1, <2>1
<1> QED BY <1>1, <1>2, <1>4, <1>5 DEF PermitAfter

\* Steps that claim and renew nothing; K is what the permit was released for.
LEMMA QuietStep ==
  ASSUME TypeOK, ImageInv, TypeOK', claims' = claims,
         NEW K, permit' = PermitAfter(K),
         \A j \in AllJobs : Quiet(job[j], job'[j]),
         \A j \in AllJobs : Held(job'[j]) =>
           Quiet(job[j], K[j]) /\ Held(K[j]) /\ K[j].org = job'[j].org
  PROVE  ImageInv'
<1>1. ASSUME NEW j \in AllJobs, Held(job'[j])
      PROVE  job'[j].own # NoTok /\ job'[j].zRun # Never
  BY <1>1 DEF Quiet, ImageInv
<1>2. ASSUME NEW j \in AllJobs PROVE job'[j].own <= claims
  <2>1. job[j].own <= claims BY DEF ImageInv
  <2>2. claims \in Nat BY DEF TypeOK
  <2> QED BY <2>1, <2>2 DEF Quiet, NoTok
<1>3. ASSUME NEW i \in AllJobs, NEW j \in AllJobs,
             job'[i].own = job'[j].own, job'[i].own # NoTok
      PROVE  i = j
  BY <1>3 DEF Quiet, ImageInv
<1>4. ASSUME NEW j \in AllJobs, Held(job'[j]), job'[j].org \in Image
      PROVE  permit'.own = job'[j].own /\ job'[j].zRun <= permit'.exp
  <2>1. PermitAfter(K) = permit /\ permit.own = K[j].own /\ K[j].zRun <= permit.exp
    BY <1>4, PermitKept
  <2>2. K[j].own = job[j].own /\ job'[j].own = job[j].own
        /\ K[j].zRun = job[j].zRun /\ job'[j].zRun = job[j].zRun
    BY <1>4 DEF Quiet
  <2> QED BY <2>1, <2>2
<1> QED BY <1>1, <1>2, <1>3, <1>4 DEF ImageInv

\* The records a command makes of a swept record s, other than by a claim or a
\* heartbeat, hold no more than s did.
Calm(s, t) ==
  /\ t.own = s.own \/ t.own = NoTok
  /\ Held(t) => Held(s) /\ t.own = s.own /\ t.org = s.org /\ t.zRun = s.zRun

\* Settling a record claims nothing.
LEMMA CalmTerminal ==
  ASSUME NEW m \in JobRec, NEW s \in EndStates, NEW safe \in BOOLEAN, now \in Nat
  PROVE  Calm(m, terminal(m, s, safe)) /\ terminal(m, s, safe).own = NoTok
BY TerminalFields, States DEF Calm

\* finish frees the record, whatever the outcome.
LEMMA CalmFinished ==
  ASSUME NEW m \in JobRec, NEW out, NEW d \in Nat, NEW tok, now \in Nat
  PROVE  Calm(m, [Finished(m, out, d) EXCEPT !.fin = tok])
<1> DEFINE f == Finished(m, out, d)
<1>0. {"unknown_delivery", "cancelled", "failed", "expired", "succeeded"} \subseteq EndStates
  BY DEF EndStates
<1>1. f \in JobRec BY FinishedType
<1>2. Rescheduled(m, d).own = NoTok /\ ~Held(Rescheduled(m, d))
  <2>1. release_running(m) \in JobRec BY ReleaseType
  <2>2. Rescheduled(m, d).own = NoTok BY <2>1 DEF Rescheduled, JobRec
  <2>3. Rescheduled(m, d).st \in {"queued", "delayed"} BY <2>1 DEF Rescheduled, JobRec
  <2> QED BY <2>2, <2>3 DEF Held, HeldStates
<1>3. \A s \in EndStates, b \in BOOLEAN :
        terminal(m, s, b).own = NoTok /\ ~Held(terminal(m, s, b))
  BY TerminalFields, States
<1>4. f.own = NoTok /\ ~Held(f)
  <2>1. \/ f = Rescheduled(m, d)
        \/ \E s \in EndStates, b \in BOOLEAN : f = terminal(m, s, b)
    BY <1>0 DEF Finished
  <2> HIDE DEF f
  <2> QED BY <1>2, <1>3, <2>1
<1> HIDE DEF f
<1>5. [f EXCEPT !.fin = tok].own = f.own /\ [f EXCEPT !.fin = tok].st = f.st
  BY <1>1 DEF JobRec
<1>6. Calm(m, [f EXCEPT !.fin = tok]) BY <1>4, <1>5 DEF Calm, Held
<1> QED BY <1>6 DEF f

\* Cancelling keeps the owner of a running job or settles a waiting one.
LEMMA CalmCancelled ==
  ASSUME NEW m \in JobRec, now \in Nat PROVE Calm(m, Cancelled(m))
<1> DEFINE c == [m EXCEPT !.st = "cancel_requested", !.rev = @ + 1]
<1>1. Held(m) => Calm(m, c) BY DEF Calm, JobRec
<1>2. Calm(m, terminal(m, "cancelled", FALSE)) BY CalmTerminal, EndTypes
<1>3. Calm(m, m) BY DEF Calm
<1>4. \/ Held(m) /\ Cancelled(m) = c
      \/ Cancelled(m) \in {m, terminal(m, "cancelled", FALSE)}
  BY DEF Cancelled
<1> HIDE DEF c
<1> QED BY <1>1, <1>2, <1>3, <1>4

\* Erasing frees the record.
LEMMA CalmErased == ASSUME NEW m PROVE Calm(m, Erased(m))
BY RemovedFields, States DEF Erased, Calm

\* A freshly admitted record has no owner.
LEMMA CalmAdmitted ==
  ASSUME NEW m \in JobRec, NEW s, NEW j, NEW org, NEW delay, NEW grant
  PROVE  Calm(s, Admitted(m, j, org, delay, grant))
<1>1. /\ Admitted(m, j, org, delay, grant).own = NoTok
      /\ Admitted(m, j, org, delay, grant).st \in {"queued", "delayed"}
  BY DEF Admitted, JobRec
<1> QED BY <1>1 DEF Calm, Held, HeldStates

\* Passing over a ready entry claims nothing.
LEMMA CalmPassed ==
  ASSUME NEW m \in JobRec, now \in Nat PROVE Calm(m, Passed(m))
<1>1. Calm(m, [m EXCEPT !.zReady = FALSE]) BY DEF Calm, Held, JobRec
<1>2. Calm(m, terminal(m, "failed", TRUE)) /\ Calm(m, terminal(m, "expired", FALSE))
  BY CalmTerminal, EndTypes
<1>3. Calm(m, m) BY DEF Calm
<1> QED BY <1>1, <1>2, <1>3 DEF Passed

\* The sweep followed by a calm branch is quiet.
LEMMA CalmQuiet ==
  ASSUME NEW m, NEW s, NEW t, Quiet(m, s), Calm(s, t) PROVE Quiet(m, t)
BY DEF Quiet, Calm

\* Commands whose permit is released for the very records they leave.
LEMMA CalmStep ==
  ASSUME TypeOK, ImageInv, TypeOK', claims' = claims, permit' = PermitAfter(job'),
         \A j \in AllJobs : Calm(Swept[j], job'[j])
  PROVE  ImageInv'
<1>1. ASSUME NEW j \in AllJobs PROVE Quiet(job[j], job'[j])
  BY SweptQuiet, CalmQuiet
<1> QED BY <1>1, QuietStep

\* Commands whose permit is released by the sweep alone.
LEMMA SweptStep ==
  ASSUME TypeOK, ImageInv, TypeOK', claims' = claims, permit' = PermitAfter(Swept),
         \A j \in AllJobs : Calm(Swept[j], job'[j])
  PROVE  ImageInv'
<1>1. ASSUME NEW j \in AllJobs PROVE Quiet(job[j], job'[j])
  BY SweptQuiet, CalmQuiet
<1>2. ASSUME NEW j \in AllJobs, Held(job'[j])
      PROVE  Quiet(job[j], Swept[j]) /\ Held(Swept[j]) /\ Swept[j].org = job'[j].org
  BY <1>2, SweptQuiet DEF Calm
<1> QED BY <1>1, <1>2, QuietStep

\* An accepted admission preserves the permit invariant.
LEMMA AcceptCalm ==
  ASSUME TypeOK, ImageInv, TypeOK', NEW K \in [AllJobs -> JobRec],
         \A i \in AllJobs : Calm(Swept[i], K[i]),
         NEW j \in AllJobs, NEW org, NEW delay, NEW grant,
         Accept(K, j, org, delay, grant), claims' = claims
  PROVE  ImageInv'
<1>1. ASSUME NEW i \in AllJobs PROVE Calm(Swept[i], job'[i])
  BY CalmAdmitted DEF Accept
<1> QED BY <1>1, SweptStep DEF Accept

\* An aliased admission preserves the permit invariant.
LEMMA AliasCalm ==
  ASSUME TypeOK, ImageInv, TypeOK', NEW i, NEW org, NEW h \in AllJobs,
         Alias(i, org, h), claims' = claims
  PROVE  ImageInv'
<1>1. Swept \in [AllJobs -> JobRec] BY SweptType
<1>2. Calm(Swept[h], [Swept[h] EXCEPT !.ids = @ \cup {i}])
  <2>1. Swept[h] \in JobRec BY <1>1
  <2> QED BY <2>1 DEF Calm, Held, JobRec
<1>3. ASSUME NEW k \in AllJobs PROVE Calm(Swept[k], job'[k])
  <2>1. job' = [Swept EXCEPT ![h].ids = @ \cup {i}] BY DEF Alias
  <2>2. job'[k] = IF k = h THEN [Swept[h] EXCEPT !.ids = @ \cup {i}] ELSE Swept[k]
    BY <1>1, <2>1
  <2>3. Calm(Swept[k], Swept[k]) BY DEF Calm
  <2> QED BY <1>2, <2>2, <2>3
<1> QED BY <1>3, SweptStep DEF Alias

\* A claim preserves the permit invariant: an image job is claimed only while
\* no permit exists, and its token is new.
LEMMA ClaimImage ==
  ASSUME TypeOK, ImageInv, TypeOK', NEW l \in Lanes, Claim(l) PROVE ImageInv'
<1> DEFINE tok == claims + 1
           K(j) == [i \in AllJobs |->
                     IF i = j THEN Claimed(Swept[i], tok)
                     ELSE IF i \in Ready(l) /\ Before(Swept[i], Swept[j])
                     THEN Passed(Swept[i]) ELSE Swept[i]]
<1>1. PICK j \in AllJobs :
        /\ Claimable(Swept[j])
        /\ job' = K(j)
        /\ permit' = IF Swept[j].org \in Image THEN [own |-> tok, exp |-> now + Lease]
                     ELSE PermitAfter(K(j))
  BY DEF Claim, Ready
<1>2. claims' = tok BY DEF Claim
<1>3. claims \in Nat /\ now \in Nat /\ now + Lease \in Nat /\ tok # NoTok /\ tok > claims
  BY ConstTypes DEF TypeOK, NoTok
<1>4. /\ job'[j].own = tok /\ job'[j].zRun = now + Lease /\ job'[j].org = Swept[j].org
      /\ Swept[j] \in JobRec
  <2>1. Swept[j] \in JobRec BY SweptType
  <2>2. job'[j] = Claimed(Swept[j], tok) BY <1>1
  <2> HIDE DEF K, tok
  <2> QED BY <2>1, <2>2 DEF Claimed, JobRec
<1>5. ASSUME NEW i \in AllJobs, i # j PROVE Quiet(job[i], job'[i])
  <2>1. job'[i] \in {Swept[i], Passed(Swept[i])} BY <1>1, <1>5
  <2>2. Calm(Swept[i], Swept[i]) BY DEF Calm
  <2>3. Calm(Swept[i], Passed(Swept[i])) BY SweptType, CalmPassed, <1>3
  <2> QED BY <2>1, <2>2, <2>3, SweptQuiet, CalmQuiet
<1>6. job' = K(j) BY <1>1
<1> HIDE DEF K, tok
<1>7. ASSUME NEW i \in AllJobs, i # j PROVE job'[i].own <= claims
  <2>1. job[i].own <= claims BY DEF ImageInv
  <2> QED BY <1>3, <1>5, <1>7, <2>1 DEF Quiet, NoTok
<1>8. ASSUME NEW i \in AllJobs, Held(job'[i])
      PROVE  job'[i].own # NoTok /\ job'[i].zRun # Never
  <2>1. CASE i = j BY <1>3, <1>4, <2>1 DEF Never
  <2>2. CASE i # j BY <1>5, <1>8, <2>2 DEF Quiet, ImageInv
  <2> QED BY <2>1, <2>2
<1>9. ASSUME NEW i \in AllJobs PROVE job'[i].own <= claims'
  <2>0. job'[i].own \in Int BY DEF TypeOK, JobRec, NoTok
  <2>1. CASE i = j BY <1>2, <1>3, <1>4, <2>1 DEF tok
  <2>2. CASE i # j BY <1>2, <1>3, <1>7, <2>0, <2>2 DEF tok
  <2> QED BY <2>1, <2>2
<1>10. ASSUME NEW a \in AllJobs, NEW b \in AllJobs,
              job'[a].own = job'[b].own, job'[a].own # NoTok
       PROVE  a = b
  <2>1. CASE a # j /\ b # j BY <1>5, <1>10, <2>1 DEF Quiet, ImageInv
  <2>2. CASE a = j /\ b # j
    <3>1. job'[b].own <= claims BY <1>7, <2>2
    <3> QED BY <1>3, <1>4, <1>10, <2>2, <3>1 DEF tok
  <2>3. CASE a # j /\ b = j
    <3>1. job'[a].own <= claims BY <1>7, <2>3
    <3> QED BY <1>3, <1>4, <1>10, <2>3, <3>1 DEF tok
  <2> QED BY <2>1, <2>2, <2>3
<1>11. ASSUME NEW i \in AllJobs, Held(job'[i]), job'[i].org \in Image
       PROVE  permit'.own = job'[i].own /\ job'[i].zRun <= permit'.exp
  <2>1. CASE i = j
    <3>1. permit' = [own |-> tok, exp |-> now + Lease] BY <1>1, <1>4, <1>11, <2>1
    <3> QED BY <1>3, <1>4, <2>1, <3>1
  <2>2. CASE i # j
    <3>1. Quiet(job[i], job'[i]) BY <1>5, <2>2
    <3>2. /\ PermitAfter(job') = permit /\ permit.own = job'[i].own
          /\ job'[i].zRun <= permit.exp
      BY <1>11, <3>1, PermitKept
    <3>3. CASE Swept[j].org \notin Image
      BY <1>1, <1>6, <3>2, <3>3
    <3>4. CASE Swept[j].org \in Image
      <4>1. PermitAfter(Swept).own = NoTok BY <1>1, <3>4 DEF Claimable, Blocked
      <4>2. job'[i] \in {Swept[i], Passed(Swept[i])} BY <1>1, <2>2 DEF K
      <4>3. Calm(Swept[i], Passed(Swept[i])) BY SweptType, CalmPassed, <1>3
      <4>4. Held(Swept[i]) /\ Swept[i].org \in Image BY <1>11, <4>2, <4>3 DEF Calm
      <4>5. PermitAfter(Swept) = permit /\ permit.own # NoTok
        BY <4>4, SweptQuiet, PermitKept
      <4> QED BY <4>1, <4>5
    <3> QED BY <3>3, <3>4
  <2> QED BY <2>1, <2>2
<1> QED BY <1>8, <1>9, <1>10, <1>11 DEF ImageInv

\* A heartbeat preserves the permit invariant: lease and permit move together.
LEMMA HeartbeatImage ==
  ASSUME TypeOK, ImageInv, TypeOK', NEW j \in AllJobs, NEW tok, NEW rev,
         Heartbeat(j, tok, rev)
  PROVE  ImageInv'
<1>1. Swept \in [AllJobs -> JobRec] BY SweptType
<1>2. now + Lease \in Nat BY ConstTypes DEF TypeOK
<1>3. job' = [Swept EXCEPT ![j] = [@ EXCEPT !.zRun = now + Lease]] BY DEF Heartbeat
<1>4. /\ job'[j].own = Swept[j].own /\ job'[j].org = Swept[j].org
      /\ job'[j].zRun = now + Lease /\ Held(job'[j]) /\ Held(Swept[j]) /\ Swept[j].own = tok
  <2>1. Swept[j] \in JobRec BY <1>1
  <2>2. job'[j] = [Swept[j] EXCEPT !.zRun = now + Lease] BY <1>1, <1>3
  <2>3. Held(Swept[j]) /\ Swept[j].own = tok BY DEF Heartbeat, Owns
  <2> QED BY <2>1, <2>2, <2>3 DEF Held, JobRec
<1>5. ASSUME NEW i \in AllJobs, i # j PROVE job'[i] = Swept[i] BY <1>1, <1>3, <1>5
<1>6. ASSUME NEW i \in AllJobs
      PROVE  /\ job'[i].own = job[i].own \/ job'[i].own = NoTok
             /\ Held(job'[i]) => Held(job[i]) /\ job'[i].own = job[i].own
  BY <1>4, <1>5, SweptQuiet DEF Quiet
<1>7. ASSUME NEW i \in AllJobs, Held(job'[i])
      PROVE  job'[i].own # NoTok /\ job'[i].zRun # Never
  <2>1. job'[i].own # NoTok BY <1>6, <1>7 DEF ImageInv
  <2>2. CASE i = j BY <1>2, <1>4, <2>1, <2>2 DEF Never
  <2>3. CASE i # j BY <1>5, <1>7, <2>1, <2>3, SweptQuiet DEF Quiet, ImageInv
  <2> QED BY <2>2, <2>3
<1>8. ASSUME NEW i \in AllJobs PROVE job'[i].own <= claims'
  <2>1. claims' = claims /\ claims \in Nat BY DEF Heartbeat, TypeOK
  <2>2. job[i].own <= claims BY DEF ImageInv
  <2> QED BY <1>6, <2>1, <2>2 DEF NoTok
<1>9. ASSUME NEW a \in AllJobs, NEW b \in AllJobs,
             job'[a].own = job'[b].own, job'[a].own # NoTok
      PROVE  a = b
  BY <1>6, <1>9 DEF ImageInv
<1>10. ASSUME NEW i \in AllJobs, Held(job'[i]), job'[i].org \in Image
       PROVE  permit'.own = job'[i].own /\ job'[i].zRun <= permit'.exp
  <2>1. Held(Swept[i]) /\ Swept[i].org \in Image /\ Swept[i].own = job'[i].own
    BY <1>4, <1>5, <1>10
  <2>2. /\ PermitAfter(Swept) = permit /\ permit.own = Swept[i].own
        /\ Swept[i].zRun <= permit.exp
    BY <2>1, SweptQuiet, PermitKept
  <2>3. CASE i = j
    <3>1. permit' = [own |-> tok, exp |-> now + Lease]
      BY <1>4, <2>1, <2>2, <2>3 DEF Heartbeat, PermitRenewed
    <3> QED BY <1>2, <1>4, <2>3, <3>1
  <2>4. CASE i # j
    <3>1. ~(Swept[j].org \in Image /\ PermitAfter(Swept).own = tok)
      <4> SUFFICES ASSUME Swept[j].org \in Image, PermitAfter(Swept).own = tok PROVE FALSE
        OBVIOUS
      <4>1. job'[i].own = job'[j].own /\ job'[i].own # NoTok
        BY <1>4, <1>7, <1>10, <2>1, <2>2
      <4> QED BY <1>9, <2>4, <4>1
    <3>2. permit' = permit BY <2>2, <3>1 DEF Heartbeat, PermitRenewed
    <3> QED BY <1>5, <2>1, <2>2, <2>4, <3>2
  <2> QED BY <2>3, <2>4
<1> QED BY <1>7, <1>8, <1>9, <1>10 DEF ImageInv

\* The permit invariant holds of the empty database.
LEMMA ImageInit == Init => ImageInv
<1> SUFFICES ASSUME Init PROVE ImageInv OBVIOUS
<1>1. ASSUME NEW j \in AllJobs PROVE job[j].own = NoTok /\ ~Held(job[j])
  BY DEF Init, NoRec, Held, HeldStates
<1>2. claims = 0 BY DEF Init
<1> QED BY <1>1, <1>2 DEF ImageInv, NoTok

\* Every command preserves the permit invariant.
LEMMA ImageStep == TypeOK /\ TypeOK' /\ ImageInv /\ [Next]_storeVars => ImageInv'
<1> SUFFICES ASSUME TypeOK, TypeOK', ImageInv, [Next]_storeVars PROVE ImageInv'
  OBVIOUS
<1>a. Swept \in [AllJobs -> JobRec] /\ now \in Nat BY SweptType DEF TypeOK
<1>b. \A i \in AllJobs : Calm(Swept[i], Swept[i]) BY DEF Calm
<1>1. CASE Tick BY <1>1 DEF Tick, ImageInv
<1>2. CASE Sweep BY <1>2, <1>b, SweptStep DEF Sweep, Commit
<1>3. ASSUME NEW j \in Jobs, NEW d \in Delays, Admit(j, d) PROVE ImageInv'
  BY <1>3, <1>a, <1>b, AcceptCalm DEF Admit, AllJobs
<1>4. ASSUME NEW j \in Jobs, AdmitAlias(j) PROVE ImageInv'
  BY <1>4, AliasCalm DEF AdmitAlias
<1>5. ASSUME NEW u \in Users, Erase(u) PROVE ImageInv'
  <2>1. \A i \in AllJobs : job'[i] \in {Swept[i], Erased(Swept[i])}
    BY <1>5 DEF Erase
  <2>2. \A i \in AllJobs : Calm(Swept[i], job'[i]) BY <1>b, <2>1, CalmErased
  <2> QED BY <1>5, <2>2, CalmStep DEF Erase
<1>6. ASSUME NEW l \in Lanes, Claim(l) PROVE ImageInv' BY <1>6, ClaimImage
<1>7. ASSUME NEW j \in AllJobs, NEW tok, NEW rev, Heartbeat(j, tok, rev) PROVE ImageInv'
  BY <1>7, HeartbeatImage
<1>8. ASSUME NEW j \in AllJobs, NEW tok, NEW rev, NEW out, NEW d \in Delays,
             Finish(j, tok, rev, out, d)
      PROVE  ImageInv'
  <2>1. d \in Nat BY ConstTypes
  <2>2. Calm(Swept[j], [Finished(Swept[j], out, d) EXCEPT !.fin = tok])
    BY <1>a, <2>1, CalmFinished
  <2>3. job' = [Swept EXCEPT ![j] = [Finished(Swept[j], out, d) EXCEPT !.fin = tok]]
    BY <1>8 DEF Finish, Commit
  <2>4. \A i \in AllJobs : Calm(Swept[i], job'[i]) BY <1>a, <1>b, <2>2, <2>3
  <2> QED BY <1>8, <2>3, <2>4, CalmStep DEF Finish, Commit
<1>9. ASSUME NEW o \in Ops, NEW j \in AllJobs, Cancel(o, j) PROVE ImageInv'
  <2>1. job' = [Swept EXCEPT ![j] = Cancelled(@)] BY <1>9 DEF Cancel
  <2>2. \A i \in AllJobs : Calm(Swept[i], job'[i]) BY <1>a, <1>b, <2>1, CalmCancelled
  <2> QED BY <1>9, <2>1, <2>2, CalmStep DEF Cancel
<1>10. ASSUME NEW o \in Ops, NEW j \in AllJobs, Retry(o, j) PROVE ImageInv'
  <2> DEFINE p == [drop_payload(Swept[j]) EXCEPT !.grants = 0]
             K == [Swept EXCEPT ![j] = p]
  <2>1. Swept[j] \in JobRec /\ drop_payload(Swept[j]) \in JobRec BY <1>a, DropType
  <2>2. p \in JobRec /\ Calm(Swept[j], p)
    <3>1. p \in JobRec /\ p.own = drop_payload(Swept[j]).own
          /\ p.st = drop_payload(Swept[j]).st /\ p.org = drop_payload(Swept[j]).org
          /\ p.zRun = drop_payload(Swept[j]).zRun
      BY <2>1 DEF JobRec
    <3> HIDE DEF p
    <3> QED BY <2>1, <3>1, DropFields DEF Calm, Held
  <2> HIDE DEF p
  <2>3. K \in [AllJobs -> JobRec] /\ \A i \in AllJobs : Calm(Swept[i], K[i])
    BY <1>a, <1>b, <2>2
  <2>4. KidOf[o] \in AllJobs BY ConstTypes DEF AllJobs
  <2>5. Accept(K, KidOf[o], Swept[j].org, 0, 0) /\ claims' = claims
    BY <1>10 DEF Retry, Spent, p
  <2> HIDE DEF K
  <2> QED BY <2>3, <2>4, <2>5, AcceptCalm
<1>11. ASSUME NEW o \in Ops, NEW j \in AllJobs, RetryAlias(o, j) PROVE ImageInv'
  BY <1>11, AliasCalm DEF RetryAlias
<1>12. ASSUME NEW o \in Ops, NEW l \in Lanes, NEW a \in BOOLEAN, NEW c \in BOOLEAN,
              SetLane(o, l, a, c)
       PROVE  ImageInv'
  BY <1>12, <1>b, SweptStep DEF SetLane
<1>13. ASSUME NEW l \in Lanes, ClaimNothing(l) PROVE ImageInv'
  <2>1. \A i \in AllJobs : job'[i] \in {Swept[i], Passed(Swept[i])}
    BY <1>13 DEF ClaimNothing, Commit
  <2>2. \A i \in AllJobs : Calm(Swept[i], job'[i]) BY <1>a, <1>b, <2>1, CalmPassed
  <2> QED BY <1>13, <2>2, CalmStep DEF ClaimNothing, Commit
<1>14. CASE UNCHANGED storeVars BY <1>14 DEF storeVars, ImageInv
<1> QED BY <1>1, <1>2, <1>3, <1>4, <1>5, <1>6, <1>7, <1>8, <1>9, <1>10, <1>11, <1>12,
           <1>13, <1>14 DEF Next, Producer, Worker, Operator

\* Two held image jobs would own the one permit under one token.
LEMMA ImageInvExclusive == ImageInv => ImageExclusive
BY DEF ImageInv, ImageExclusive

\* At most one job that draws images is held by a worker, for any number of
\* jobs, lanes and workers and any lease, deadline or outage: the promise of the
\* permit:image key (docs/runtime-controls.md:615).
THEOREM ImageExclusiveAlways == Spec => []ImageExclusive
<1>1. Init => ImageInv BY ImageInit
<1>2. TypeOK /\ TypeOK' /\ ImageInv /\ [Next]_storeVars => ImageInv' BY ImageStep
<1>3. ImageInv => ImageExclusive BY ImageInvExclusive
<1> QED BY <1>1, <1>2, <1>3, TypeCorrect, PTL DEF Spec

(***************************************************************************)
(* What one command may do to the record of a job: Kept.  It is reflexive  *)
(* and transitive, every function of the script on a record respects it,   *)
(* so every command does, except that an admission starts a new record.    *)
(* From it follow the two action properties of QueueStore: a settled job   *)
(* stays as it is, and the revision covers every change of state or owner. *)
(***************************************************************************)
Kept(m, n) ==
  \/ n.st = "absent" /\ n.seq <= m.seq
  \/ /\ m.st # "absent" /\ n.seq = m.seq /\ n.rev >= m.rev
     /\ m.st \in EndStates => n.st = m.st
     /\ n.st # m.st \/ n.own # m.own => n.rev > m.rev

\* A record that keeps its state, owner, revision and sequence is kept.
LEMMA SameKept ==
  ASSUME NEW m \in JobRec, NEW n \in JobRec,
         n.st = m.st, n.own = m.own, n.rev = m.rev, n.seq = m.seq
  PROVE  Kept(m, n)
BY DEF Kept, JobRec

\* A new revision covers any change of a record that is not settled.
LEMMA NewRevisionKept ==
  ASSUME NEW m \in JobRec, NEW n \in JobRec, Active(m),
         n.rev = m.rev + 1, n.seq = m.seq
  PROVE  Kept(m, n)
BY DEF Kept, JobRec, Active, ActiveStates, HeldStates, EndStates

\* One command may change a record in several places, one after the other.
LEMMA KeptTransitive ==
  ASSUME NEW a \in JobRec, NEW b \in JobRec, NEW c \in JobRec, Kept(a, b), Kept(b, c)
  PROVE  Kept(a, c)
BY DEF Kept, JobRec

\* drop_payload leaves state, owner, revision and sequence alone.
LEMMA DropSame ==
  ASSUME NEW m \in JobRec
  PROVE  LET s == drop_payload(m) IN
         s.st = m.st /\ s.own = m.own /\ s.rev = m.rev /\ s.seq = m.seq
BY DEF drop_payload, JobRec

\* release_running leaves state, owner, revision and sequence alone.
LEMMA ReleaseSame ==
  ASSUME NEW m \in JobRec
  PROVE  LET s == release_running(m) IN
         s.st = m.st /\ s.own = m.own /\ s.rev = m.rev /\ s.seq = m.seq
BY DEF release_running, JobRec

\* terminal raises the revision of the job it settles.
LEMMA TerminalRevision ==
  ASSUME NEW m \in JobRec, NEW s \in EndStates, NEW safe \in BOOLEAN, now \in Nat
  PROVE  LET t == terminal(m, s, safe) IN t.rev = m.rev + 1 /\ t.seq = m.seq
<1> DEFINE a == [m EXCEPT !.nActive = @ - (IF Active(m) THEN 1 ELSE 0)]
           r == release_running(a)
           e == [r EXCEPT !.st = s, !.own = NoTok, !.rev = @ + 1,
                     !.zReady = FALSE, !.zDelay = Never, !.zDead = Never,
                     !.zMeta = now + MetaTTL]
<1>0. now + MetaTTL \in Time /\ now + RetryTTL \in Time BY ConstTypes, TimeType
<1>1. a \in JobRec /\ a.rev = m.rev /\ a.seq = m.seq
  <2>1. m.nActive - (IF Active(m) THEN 1 ELSE 0) \in Int BY DEF JobRec
  <2> QED BY <2>1 DEF JobRec
<1>2. r \in JobRec /\ r.rev = m.rev /\ r.seq = m.seq
  <2> HIDE DEF a
  <2> QED BY <1>1, ReleaseType, ReleaseSame
<1> HIDE DEF r
<1>3. e \in JobRec
  <2>1. r.rev + 1 \in Nat BY <1>2 DEF JobRec
  <2> QED BY <1>0, <1>2, <2>1, TimeType DEF JobRec
<1>4. e.rev = m.rev + 1 /\ e.seq = m.seq BY <1>2 DEF JobRec
<1>5. terminal(m, s, safe) = IF safe /\ m.grants > 0 /\ HasPayload(m)
      THEN [e EXCEPT !.elig = TRUE, !.zPay = now + RetryTTL]
      ELSE drop_payload(e)
    BY DEF terminal, r
<1> HIDE DEF e
<1>6. LET t == [e EXCEPT !.elig = TRUE, !.zPay = now + RetryTTL] IN
        t.rev = e.rev /\ t.seq = e.seq
  BY <1>3 DEF JobRec
<1>7. LET t == drop_payload(e) IN t.rev = e.rev /\ t.seq = e.seq
  BY <1>3, DropSame
<1> QED BY <1>4, <1>5, <1>6, <1>7

\* Settling an active job keeps its record.
LEMMA TerminalKept ==
  ASSUME NEW m \in JobRec, NEW s \in EndStates, NEW safe \in BOOLEAN, now \in Nat,
         Active(m)
  PROVE  Kept(m, terminal(m, s, safe))
BY TerminalType, TerminalRevision, NewRevisionKept

\* A deleted record counts as kept: the job is gone.
LEMMA RemovedKept ==
  ASSUME NEW m \in JobRec PROVE Kept(m, Removed(m))
<1>1. Removed(m).st = "absent" /\ Removed(m).seq = 0 BY DEF Removed, NoRec
<1>2. m.seq \in Nat BY DEF JobRec
<1> QED BY <1>1, <1>2 DEF Kept

\* The payload loop keeps every record.
LEMMA SweepPayloadKept ==
  ASSUME NEW m \in JobRec, now \in Nat PROVE Kept(m, SweepPayload(m))
<1> DEFINE z == [m EXCEPT !.zPay = Never]
           d == drop_payload(m)
           t == terminal(d, UncertainOr(m, "expired"), FALSE)
<1>1. Kept(m, m) BY SameKept
<1>2. Kept(m, z)
  <2>1. z \in JobRec /\ z.st = m.st /\ z.own = m.own /\ z.rev = m.rev /\ z.seq = m.seq
    BY TimeType DEF JobRec
  <2> HIDE DEF z
  <2> QED BY <2>1, SameKept
<1>3. d \in JobRec /\ d.st = m.st /\ Kept(m, d) BY DropType, DropSame, SameKept
<1>4. ASSUME Active(m) PROVE Kept(m, t)
  <2>1. Active(d) BY <1>3, <1>4 DEF Active
  <2> HIDE DEF d
  <2>2. t \in JobRec /\ Kept(d, t) BY <1>3, <2>1, EndTypes, TerminalType, TerminalKept
  <2> QED BY <1>3, <2>2, KeptTransitive
<1>5. Gone(m) => ~Active(m) BY DEF Gone, Active, ActiveStates, HeldStates, EndStates
<1>6. CASE ~Due(m.zPay) BY <1>1, <1>6 DEF SweepPayload
<1>7. CASE Due(m.zPay) /\ Gone(m)
  <2>1. SweepPayload(m) = z BY <1>5, <1>7 DEF SweepPayload
  <2> QED BY <1>2, <2>1
<1>8. CASE Due(m.zPay) /\ ~Gone(m) /\ Active(m)
  <2>1. SweepPayload(m) = t BY <1>8 DEF SweepPayload
  <2> QED BY <1>4, <1>8, <2>1
<1>9. CASE Due(m.zPay) /\ ~Gone(m) /\ ~Active(m)
  <2>1. SweepPayload(m) = d BY <1>9 DEF SweepPayload
  <2> QED BY <1>3, <2>1
<1> QED BY <1>6, <1>7, <1>8, <1>9

\* The deadline loop keeps every record.
LEMMA SweepDeadlineKept ==
  ASSUME NEW m \in JobRec, now \in Nat PROVE Kept(m, SweepDeadline(m))
<1> DEFINE z == [m EXCEPT !.zDead = Never]
           t == terminal(m, UncertainOr(m, "expired"), FALSE)
<1>1. Kept(m, m) BY SameKept
<1>2. Kept(m, z)
  <2>1. z \in JobRec /\ z.st = m.st /\ z.own = m.own /\ z.rev = m.rev /\ z.seq = m.seq
    BY TimeType DEF JobRec
  <2> HIDE DEF z
  <2> QED BY <2>1, SameKept
<1>3. Active(m) => Kept(m, t) BY EndTypes, TerminalKept
<1>4. SweepDeadline(m) \in {m, z} \/ (Active(m) /\ SweepDeadline(m) = t)
  BY DEF SweepDeadline
<1> HIDE DEF z, t
<1> QED BY <1>1, <1>2, <1>3, <1>4

\* Putting a held job back into the queue keeps its record.
LEMMA RequeueKept ==
  ASSUME NEW m \in JobRec, Held(m) PROVE Kept(m, requeue(m))
<1> DEFINE r == release_running(m)
<1>1. r \in JobRec /\ r.rev = m.rev /\ r.seq = m.seq BY ReleaseType, ReleaseSame
<1> HIDE DEF r
<1>2. requeue(m).rev = r.rev + 1 /\ requeue(m).seq = r.seq
  BY <1>1 DEF requeue, r, JobRec
<1>3. Active(m) BY DEF Held, Active, ActiveStates
<1> QED BY <1>1, <1>2, <1>3, RequeueType, NewRevisionKept

\* The lease loop keeps every record.
LEMMA SweepRunningKept ==
  ASSUME NEW m \in JobRec, now \in Nat PROVE Kept(m, SweepRunning(m))
<1> DEFINE z == [m EXCEPT !.zRun = Never]
<1>1. Kept(m, m) BY SameKept
<1>2. Kept(m, z)
  <2>1. z \in JobRec /\ z.st = m.st /\ z.own = m.own /\ z.rev = m.rev /\ z.seq = m.seq
    BY TimeType DEF JobRec
  <2> HIDE DEF z
  <2> QED BY <2>1, SameKept
<1>3. ASSUME Held(m)
      PROVE  /\ Kept(m, terminal(m, "unknown_delivery", FALSE))
             /\ Kept(m, terminal(m, "cancelled", FALSE))
             /\ Kept(m, terminal(m, "failed", TRUE))
             /\ Kept(m, terminal(m, "expired", TRUE))
             /\ Kept(m, requeue(m))
  <2>1. Active(m) BY <1>3 DEF Held, Active, ActiveStates
  <2> QED BY <1>3, <2>1, EndTypes, TerminalKept, RequeueKept
<1>4. CASE ~Due(m.zRun) BY <1>1, <1>4 DEF SweepRunning
<1>5. CASE Due(m.zRun) /\ ~Held(m)
  <2>1. ~Uncertain(m) BY <1>5 DEF Uncertain
  <2>2. m.st # "cancel_requested" BY <1>5 DEF Held, HeldStates
  <2>3. SweepRunning(m) = z BY <1>5, <2>1, <2>2 DEF SweepRunning
  <2> QED BY <1>2, <2>3
<1>6. CASE Due(m.zRun) /\ Held(m) /\ Uncertain(m)
  BY <1>3, <1>6 DEF SweepRunning
<1>7. CASE Due(m.zRun) /\ Held(m) /\ ~Uncertain(m) /\ m.st = "cancel_requested"
  BY <1>3, <1>7 DEF SweepRunning
<1>8. CASE Due(m.zRun) /\ Held(m) /\ ~Uncertain(m) /\ m.st # "cancel_requested"
  BY <1>3, <1>8 DEF SweepRunning
<1> QED BY <1>4, <1>5, <1>6, <1>7, <1>8

\* The delay loop keeps every record.
LEMMA SweepDelayedKept ==
  ASSUME NEW m \in JobRec PROVE Kept(m, SweepDelayed(m))
<1> DEFINE z == [m EXCEPT !.zDelay = Never]
           q == [m EXCEPT !.zDelay = Never, !.st = "queued", !.rev = @ + 1,
                          !.zReady = TRUE]
<1>1. Kept(m, m) BY SameKept
<1>2. Kept(m, z)
  <2>1. z \in JobRec /\ z.st = m.st /\ z.own = m.own /\ z.rev = m.rev /\ z.seq = m.seq
    BY TimeType DEF JobRec
  <2> HIDE DEF z
  <2> QED BY <2>1, SameKept
<1>3. ASSUME m.st = "delayed" PROVE Kept(m, q)
  <2>1. m.rev + 1 \in Nat /\ "queued" \in ActiveStates BY DEF JobRec, ActiveStates
  <2>2. q \in JobRec /\ q.rev = m.rev + 1 /\ q.seq = m.seq
    BY <2>1, TimeType DEF JobRec
  <2>3. Active(m) BY <1>3 DEF Active, ActiveStates
  <2> HIDE DEF q
  <2> QED BY <2>2, <2>3, NewRevisionKept
<1>4. SweepDelayed(m) \in {m, z} \/ (m.st = "delayed" /\ SweepDelayed(m) = q)
  BY DEF SweepDelayed
<1> HIDE DEF z, q
<1> QED BY <1>1, <1>2, <1>3, <1>4

\* The metadata loop keeps every record or deletes it.
LEMMA SweepMetadataKept ==
  ASSUME NEW m \in JobRec PROVE Kept(m, SweepMetadata(m))
<1> DEFINE z == [m EXCEPT !.zMeta = Never, !.ids = {}]
<1>1. Kept(m, m) BY SameKept
<1>2. Kept(m, z)
  <2>1. z \in JobRec /\ z.st = m.st /\ z.own = m.own /\ z.rev = m.rev /\ z.seq = m.seq
    BY TimeType DEF JobRec
  <2> HIDE DEF z
  <2> QED BY <2>1, SameKept
<1>3. Kept(m, Removed(m)) BY RemovedKept
<1>4. SweepMetadata(m) \in {m, z, Removed(m)} BY DEF SweepMetadata
<1> HIDE DEF z
<1> QED BY <1>1, <1>2, <1>3, <1>4

\* sweep() as a whole keeps every record or deletes it.
LEMMA SweepKept ==
  ASSUME NEW m \in JobRec, now \in Nat PROVE Kept(m, sweep(m))
<1> DEFINE a == SweepPayload(m)
           b == SweepDeadline(a)
           c == SweepRunning(b)
           d == SweepDelayed(c)
<1>1. a \in JobRec /\ Kept(m, a) BY SweepPayloadType, SweepPayloadKept
<1> HIDE DEF a
<1>2. b \in JobRec /\ Kept(a, b) BY <1>1, SweepDeadlineType, SweepDeadlineKept
<1> HIDE DEF b
<1>3. c \in JobRec /\ Kept(b, c) BY <1>2, SweepRunningType, SweepRunningKept
<1> HIDE DEF c
<1>4. d \in JobRec /\ Kept(c, d) BY <1>3, SweepDelayedType, SweepDelayedKept
<1> HIDE DEF d
<1>5. SweepMetadata(d) \in JobRec /\ Kept(d, SweepMetadata(d))
  BY <1>4, SweepMetadataType, SweepMetadataKept
<1>6. Kept(m, b) BY <1>1, <1>2, KeptTransitive
<1>7. Kept(m, c) BY <1>2, <1>3, <1>6, KeptTransitive
<1>8. Kept(m, d) BY <1>3, <1>4, <1>7, KeptTransitive
<1>9. Kept(m, SweepMetadata(d)) BY <1>4, <1>5, <1>8, KeptTransitive
<1> QED BY <1>9 DEF sweep, a, b, c, d

\* What a command does after its sweep keeps the record it started from.
LEMMA FromSwept ==
  ASSUME TypeOK, NEW i \in AllJobs, NEW n \in JobRec, Kept(Swept[i], n)
  PROVE  Kept(job[i], n)
<1>1. job[i] \in JobRec /\ now \in Nat BY DEF TypeOK
<1>2. Swept[i] \in JobRec /\ Kept(job[i], Swept[i])
  BY <1>1, SweepType, SweepKept DEF Swept
<1> QED BY <1>1, <1>2, KeptTransitive

\* A ready entry that the claim scan passes over is kept.
LEMMA PassedKept ==
  ASSUME NEW m \in JobRec, now \in Nat PROVE Kept(m, Passed(m))
<1> DEFINE z == [m EXCEPT !.zReady = FALSE]
<1>1. Kept(m, m) BY SameKept
<1>2. Kept(m, z)
  <2>1. z \in JobRec /\ z.st = m.st /\ z.own = m.own /\ z.rev = m.rev /\ z.seq = m.seq
    BY DEF JobRec
  <2> HIDE DEF z
  <2> QED BY <2>1, SameKept
<1>3. CASE m.st # "queued"
  <2>1. Passed(m) = z BY <1>3 DEF Passed
  <2> QED BY <1>2, <2>1
<1>4. CASE m.st = "queued"
  <2>1. Active(m) BY <1>4 DEF Active, ActiveStates
  <2>2. Kept(m, terminal(m, "failed", TRUE)) /\ Kept(m, terminal(m, "expired", FALSE))
    BY <2>1, EndTypes, TerminalKept
  <2>3. CASE m.att >= MaxAttempts
    <3>1. ~(m.att < MaxAttempts) BY <2>3, StoreAssumption DEF StoreAssumption, JobRec
    <3> QED BY <1>4, <2>2, <2>3, <3>1 DEF Passed
  <2>4. CASE ~(m.att >= MaxAttempts) /\ m.att < MaxAttempts /\ ~Blocked(m) /\ ~HasPayload(m)
    BY <1>4, <2>2, <2>4 DEF Passed
  <2>5. CASE ~(m.att >= MaxAttempts) /\ ~(m.att < MaxAttempts /\ ~Blocked(m) /\ ~HasPayload(m))
    BY <1>1, <1>4, <2>5 DEF Passed
  <2> QED BY <2>3, <2>4, <2>5
<1> QED BY <1>3, <1>4

\* A claim takes a queued job under a new revision.
LEMMA ClaimedKept ==
  ASSUME NEW m \in JobRec, NEW tok \in Nat, now \in Nat, m.st = "queued"
  PROVE  Kept(m, Claimed(m, tok))
<1>1. Active(m) BY DEF Active, ActiveStates
<1>2. Claimed(m, tok).rev = m.rev + 1 /\ Claimed(m, tok).seq = m.seq
  BY DEF Claimed, JobRec
<1> QED BY <1>1, <1>2, ClaimedType, NewRevisionKept

\* A result of the owner settles or reschedules the job under a new revision.
LEMMA FinishedKept ==
  ASSUME NEW m \in JobRec, NEW outcome, NEW delay \in Nat, now \in Nat, Held(m)
  PROVE  Kept(m, Finished(m, outcome, delay))
<1> DEFINE r == release_running(m)
           last == IF outcome = "succeeded" THEN "succeeded" ELSE "failed"
<1>1. Active(m) BY DEF Held, Active, ActiveStates
<1>2. /\ Kept(m, terminal(m, "unknown_delivery", FALSE))
      /\ Kept(m, terminal(m, "cancelled", FALSE))
      /\ Kept(m, terminal(m, "failed", TRUE))
      /\ Kept(m, terminal(m, "expired", TRUE))
      /\ Kept(m, terminal(m, last, FALSE))
  BY <1>1, EndTypes, TerminalKept
<1>3. Kept(m, Rescheduled(m, delay))
  <2>1. r \in JobRec /\ r.rev = m.rev /\ r.seq = m.seq BY ReleaseType, ReleaseSame
  <2> HIDE DEF r
  <2>2. Rescheduled(m, delay).rev = r.rev + 1 /\ Rescheduled(m, delay).seq = r.seq
    BY <2>1 DEF Rescheduled, r, JobRec
  <2> QED BY <1>1, <2>1, <2>2, RescheduledType, NewRevisionKept
<1> HIDE DEF last
<1>4. CASE outcome = "unknown_delivery" BY <1>2, <1>4 DEF Finished
<1>5. CASE outcome # "unknown_delivery" /\ m.st = "cancel_requested"
  BY <1>2, <1>5 DEF Finished
<1>6. CASE outcome = "retryable_failure" /\ m.st # "cancel_requested"
  BY <1>2, <1>3, <1>6 DEF Finished
<1>7. CASE /\ outcome # "unknown_delivery" /\ outcome # "retryable_failure"
           /\ m.st # "cancel_requested"
  <2>1. Finished(m, outcome, delay) = terminal(m, last, FALSE)
    BY <1>7 DEF Finished, last
  <2> QED BY <1>2, <2>1
<1> QED BY <1>4, <1>5, <1>6, <1>7

\* A cancellation raises the revision of an active job and nothing else.
LEMMA CancelledKept ==
  ASSUME NEW m \in JobRec, now \in Nat PROVE Kept(m, Cancelled(m))
<1> DEFINE c == [m EXCEPT !.st = "cancel_requested", !.rev = @ + 1]
<1>1. CASE Held(m)
  <2>1. Active(m) BY <1>1 DEF Held, Active, ActiveStates
  <2>2. m.rev + 1 \in Nat /\ "cancel_requested" \in ActiveStates
    BY DEF JobRec, ActiveStates, HeldStates
  <2>3. c \in JobRec /\ c.rev = m.rev + 1 /\ c.seq = m.seq BY <2>2 DEF JobRec
  <2>4. Cancelled(m) = c BY <1>1 DEF Cancelled
  <2> HIDE DEF c
  <2> QED BY <2>1, <2>3, <2>4, NewRevisionKept
<1>2. CASE Active(m) /\ ~Held(m)
  <2>1. Cancelled(m) = terminal(m, "cancelled", FALSE) BY <1>2 DEF Cancelled
  <2> QED BY <1>2, <2>1, EndTypes, TerminalKept
<1>3. CASE ~Active(m) /\ ~Held(m)
  <2>1. Cancelled(m) = m BY <1>3 DEF Cancelled
  <2> QED BY <2>1, SameKept
<1>4. Held(m) => Active(m) BY DEF Held, Active, ActiveStates
<1> QED BY <1>1, <1>2, <1>3, <1>4

\* An erased record is gone.
LEMMA ErasedKept ==
  ASSUME NEW m \in JobRec PROVE Kept(m, Erased(m))
<1>1. Erased(m).st = "absent" /\ Erased(m).seq = 0 BY DEF Erased, Removed, NoRec
<1>2. m.seq \in Nat BY DEF JobRec
<1> QED BY <1>1, <1>2 DEF Kept

-----------------------------------------------------------------------------
\* A sequence number is never handed out twice, so that an identity which is
\* admitted again can be told from the job it was before.
Numbered == TypeOK /\ \A j \in AllJobs : job[j].seq <= admits

\* Record i is kept, or starts anew with the next sequence number.
Steps(i) ==
  \/ Kept(job[i], job'[i]) /\ admits' >= admits
  \/ job'[i].seq = admits + 1 /\ admits' = admits + 1

\* An accepted admission keeps all other records and starts a new one.
LEMMA AcceptSteps ==
  ASSUME TypeOK, NEW K \in [AllJobs -> JobRec], NEW j \in AllJobs, NEW org, NEW delay,
         NEW grant, Accept(K, j, org, delay, grant), NEW i \in AllJobs,
         \A x \in AllJobs : Kept(Swept[x], K[x])
  PROVE  Steps(i)
<1>1. admits' = admits + 1 /\ job' = [K EXCEPT ![j] = Admitted(K[j], j, org, delay, grant)]
  BY DEF Accept
<1>2. admits \in Nat BY DEF TypeOK
<1>3. CASE i = j
  <2>1. K[j] \in JobRec OBVIOUS
  <2>2. Admitted(K[j], j, org, delay, grant).seq = admits + 1 BY <2>1 DEF Admitted, JobRec
  <2>3. job'[i].seq = admits + 1 BY <1>1, <1>3, <2>2
  <2> QED BY <1>1, <2>3 DEF Steps
<1>4. CASE i # j
  <2>1. job'[i] = K[i] /\ K[i] \in JobRec BY <1>1, <1>4
  <2>2. Kept(job[i], K[i]) BY <2>1, FromSwept
  <2> QED BY <1>1, <1>2, <2>1, <2>2 DEF Steps
<1> QED BY <1>3, <1>4

\* An admission answered with the holder of a key keeps all records.
LEMMA AliasSteps ==
  ASSUME TypeOK, NEW a \in AllJobs, NEW org, NEW h \in AllJobs, Alias(a, org, h),
         NEW i \in AllJobs
  PROVE  Steps(i)
<1> DEFINE n == [Swept[h] EXCEPT !.ids = @ \cup {a}]
<1>1. Swept[h] \in JobRec /\ Swept[i] \in JobRec /\ admits \in Nat BY SweptType DEF TypeOK
<1>2. n \in JobRec /\ n.st = Swept[h].st /\ n.own = Swept[h].own
      /\ n.rev = Swept[h].rev /\ n.seq = Swept[h].seq
  BY <1>1 DEF JobRec
<1>3. job'[i] = IF i = h THEN n ELSE Swept[i] BY SweptType DEF Alias
<1> HIDE DEF n
<1>4. job'[i] \in JobRec /\ Kept(Swept[i], job'[i]) BY <1>1, <1>2, <1>3, SameKept
<1>5. admits' = admits BY DEF Alias
<1> QED BY <1>1, <1>4, <1>5, FromSwept DEF Steps

\* Every command keeps every record, or admits it anew.
LEMMA NextSteps ==
  ASSUME TypeOK, [Next]_storeVars, NEW i \in AllJobs
  PROVE  Steps(i)
<1>0. /\ Swept \in [AllJobs -> JobRec] /\ Swept[i] \in JobRec /\ job[i] \in JobRec
      /\ admits \in Nat /\ now \in Nat /\ claims \in Nat
  BY SweptType DEF TypeOK
<1>a. \A x \in AllJobs : Kept(Swept[x], Swept[x]) BY <1>0, SameKept
<1>b. ASSUME NEW n \in JobRec, Kept(Swept[i], n), job'[i] = n, UNCHANGED admits
      PROVE  Steps(i)
  BY <1>0, <1>b, FromSwept DEF Steps
<1>1. CASE Tick \/ UNCHANGED storeVars
  <2>1. UNCHANGED <<job, admits>> BY <1>1 DEF Tick, storeVars
  <2>2. Kept(job[i], job[i]) BY <1>0, SameKept
  <2> QED BY <1>0, <2>1, <2>2 DEF Steps
<1>2. CASE Sweep BY <1>0, <1>a, <1>b, <1>2 DEF Sweep, Commit
<1>3. ASSUME NEW j \in Jobs, NEW d \in Delays, Admit(j, d) PROVE Steps(i)
  BY <1>0, <1>a, <1>3, AcceptSteps DEF Admit, AllJobs
<1>4. ASSUME NEW j \in Jobs, AdmitAlias(j) PROVE Steps(i)
  BY <1>4, AliasSteps DEF AdmitAlias, AllJobs
<1>5. ASSUME NEW u \in Users, Erase(u) PROVE Steps(i)
  <2>1. job'[i] = Erased(Swept[i]) \/ job'[i] = Swept[i] BY <1>5 DEF Erase
  <2>2. UNCHANGED admits BY <1>5 DEF Erase
  <2> QED BY <1>0, <1>a, <1>b, <2>1, <2>2, ErasedKept, ErasedType
<1>6. ASSUME NEW l \in Lanes, Claim(l) PROVE Steps(i)
  <2>1. PICK j \in AllJobs :
          /\ Claimable(Swept[j])
          /\ job'[i] = IF i = j THEN Claimed(Swept[i], claims + 1)
                       ELSE IF i \in Ready(l) /\ Before(Swept[i], Swept[j])
                       THEN Passed(Swept[i]) ELSE Swept[i]
    BY <1>6 DEF Claim, Ready
  <2>2. UNCHANGED admits /\ claims + 1 \in Nat BY <1>0, <1>6 DEF Claim
  <2>3. CASE i = j
    <3>1. Swept[i].st = "queued" BY <2>1, <2>3 DEF Claimable
    <3> QED BY <1>0, <1>b, <2>1, <2>2, <2>3, <3>1, ClaimedKept, ClaimedType
  <2>4. CASE i # j
    BY <1>0, <1>a, <1>b, <2>1, <2>2, <2>4, PassedKept, PassedType
  <2> QED BY <2>3, <2>4
<1>7. ASSUME NEW l \in Lanes, ClaimNothing(l) PROVE Steps(i)
  <2>1. job'[i] = Passed(Swept[i]) \/ job'[i] = Swept[i]
    BY <1>7 DEF ClaimNothing, Commit
  <2>2. UNCHANGED admits BY <1>7 DEF ClaimNothing
  <2> QED BY <1>0, <1>a, <1>b, <2>1, <2>2, PassedKept, PassedType
<1>8. ASSUME NEW j \in AllJobs, NEW tok, NEW rev, Heartbeat(j, tok, rev) PROVE Steps(i)
  <2> DEFINE n == [Swept[i] EXCEPT !.zRun = now + Lease]
  <2>1. job'[i] = (IF i = j THEN n ELSE Swept[i]) /\ UNCHANGED admits
    BY <1>0, <1>8 DEF Heartbeat
  <2>2. now + Lease \in Time BY <1>0, ConstTypes, TimeType
  <2>3. n \in JobRec /\ n.st = Swept[i].st /\ n.own = Swept[i].own
        /\ n.rev = Swept[i].rev /\ n.seq = Swept[i].seq
    BY <1>0, <2>2 DEF JobRec
  <2> HIDE DEF n
  <2> QED BY <1>0, <1>a, <1>b, <2>1, <2>3, SameKept
<1>9. ASSUME NEW j \in AllJobs, NEW tok, NEW rev, NEW out, NEW d \in Delays,
             Finish(j, tok, rev, out, d)
      PROVE  Steps(i)
  <2> DEFINE f == Finished(Swept[i], out, d)
             n == [f EXCEPT !.fin = tok]
  <2>1. job'[i] = (IF i = j THEN n ELSE Swept[i]) /\ UNCHANGED admits
    BY <1>0, <1>9 DEF Finish, Commit
  <2>2. CASE i = j
    <3>1. Held(Swept[i]) /\ tok \in Nat \cup {NoTok} /\ d \in Nat
      BY <1>0, <1>9, <2>2, ConstTypes DEF Finish, Owns, JobRec
    <3>2. f \in JobRec /\ Kept(Swept[i], f) BY <1>0, <3>1, FinishedType, FinishedKept
    <3> HIDE DEF f
    <3>3. n \in JobRec /\ n.st = f.st /\ n.own = f.own /\ n.rev = f.rev /\ n.seq = f.seq
      BY <3>1, <3>2 DEF JobRec
    <3> HIDE DEF n
    <3>4. Kept(Swept[i], n) BY <1>0, <3>2, <3>3, SameKept, KeptTransitive
    <3> QED BY <1>b, <2>1, <2>2, <3>3, <3>4
  <2>3. CASE i # j BY <1>0, <1>a, <1>b, <2>1, <2>3
  <2> QED BY <2>2, <2>3
<1>10. ASSUME NEW o \in Ops, NEW j \in AllJobs, Cancel(o, j) PROVE Steps(i)
  <2>1. job'[i] = (IF i = j THEN Cancelled(Swept[i]) ELSE Swept[i]) /\ UNCHANGED admits
    BY <1>0, <1>10 DEF Cancel
  <2> QED BY <1>0, <1>a, <1>b, <2>1, CancelledType, CancelledKept
<1>11. ASSUME NEW o \in Ops, NEW j \in AllJobs, Retry(o, j) PROVE Steps(i)
  <2> DEFINE s == Spent(Swept[j])
             p == drop_payload(Swept[j])
             K == [Swept EXCEPT ![j] = s]
  <2>1. p \in JobRec /\ p.st = Swept[j].st /\ p.own = Swept[j].own
        /\ p.rev = Swept[j].rev /\ p.seq = Swept[j].seq
    BY <1>0, DropType, DropSame
  <2>2. s = [p EXCEPT !.grants = 0] BY DEF Spent
  <2> HIDE DEF p, s
  <2>3. s \in JobRec /\ s.st = p.st /\ s.own = p.own /\ s.rev = p.rev /\ s.seq = p.seq
    BY <2>1, <2>2 DEF JobRec
  <2>4. Kept(Swept[j], s) BY <1>0, <2>1, <2>3, SameKept
  <2>5. K \in [AllJobs -> JobRec] /\ \A x \in AllJobs : Kept(Swept[x], K[x])
    BY <1>0, <1>a, <2>3, <2>4
  <2>6. KidOf[o] \in AllJobs BY ConstTypes DEF AllJobs
  <2>7. Accept(K, KidOf[o], Swept[j].org, 0, 0) BY <1>11 DEF Retry, s
  <2> HIDE DEF K
  <2> QED BY <2>5, <2>6, <2>7, AcceptSteps
<1>12. ASSUME NEW o \in Ops, NEW j \in AllJobs, RetryAlias(o, j) PROVE Steps(i)
  <2>1. KidOf[o] \in AllJobs BY ConstTypes DEF AllJobs
  <2> QED BY <1>12, <2>1, AliasSteps DEF RetryAlias
<1>13. ASSUME NEW o \in Ops, NEW l \in Lanes, NEW a \in BOOLEAN, NEW c \in BOOLEAN,
              SetLane(o, l, a, c)
       PROVE  Steps(i)
  <2>1. job'[i] = Swept[i] /\ UNCHANGED admits BY <1>13 DEF SetLane
  <2> QED BY <1>0, <1>a, <1>b, <2>1
<1> QED BY <1>1, <1>2, <1>3, <1>4, <1>5, <1>6, <1>7, <1>8, <1>9, <1>10, <1>11, <1>12,
           <1>13 DEF Next, Producer, Worker, Operator

\* Sequence numbers start at nothing and only an admission hands one out.
LEMMA NumberedInit == Init => Numbered
BY TypeInit DEF Init, Numbered, NoRec

\* No command hands out a sequence number twice.
LEMMA NumberedStep == Numbered /\ [Next]_storeVars => Numbered'
<1> SUFFICES ASSUME Numbered, [Next]_storeVars PROVE Numbered'
  OBVIOUS
<1>1. TypeOK /\ TypeOK' BY TypeStep DEF Numbered
<1>2. ASSUME NEW i \in AllJobs PROVE job'[i].seq <= admits'
  <2>1. job[i] \in JobRec /\ job'[i] \in JobRec /\ admits \in Nat /\ admits' \in Nat
    BY <1>1 DEF TypeOK
  <2>2. job[i].seq \in Nat /\ job'[i].seq \in Nat BY <2>1 DEF JobRec
  <2>3. job[i].seq <= admits BY DEF Numbered
  <2>4. Steps(i) BY <1>1, NextSteps
  <2> QED BY <2>1, <2>2, <2>3, <2>4 DEF Steps, Kept
<1> QED BY <1>1, <1>2 DEF Numbered

\* A step that leaves i the same job keeps its record.
LEMMA SameJobKept ==
  ASSUME Numbered, [Next]_storeVars, NEW i \in AllJobs, SameJob(i)
  PROVE  Kept(job[i], job'[i]) /\ job'[i].st # "absent"
<1>1. TypeOK /\ job[i].seq <= admits BY DEF Numbered
<1>2. Steps(i) BY <1>1, NextSteps
<1>3. job[i].seq \in Nat /\ admits \in Nat BY <1>1 DEF TypeOK, JobRec
<1> QED BY <1>1, <1>2, <1>3 DEF Steps, SameJob

\* A settled job never changes its state again, whatever is reported late,
\* cancelled, retried or swept, until it is removed or its identity admitted
\* anew: for any number of jobs, workers, operations and any timing.
THEOREM SettledIsFinalAlways == Spec => SettledIsFinal
<1>1. Numbered /\ [Next]_storeVars =>
        [\A j \in AllJobs :
           job[j].st \in EndStates /\ SameJob(j) => job'[j].st = job[j].st]_storeVars
  BY SameJobKept DEF Kept
<1> QED BY <1>1, NumberedInit, NumberedStep, PTL DEF Spec, SettledIsFinal

\* Every change of state or owner raises the revision, so a command computed
\* from an older read of the record is refused.
THEOREM RevisionCoversAlways == Spec => RevisionCovers
<1>1. Numbered /\ [Next]_storeVars =>
        [\A j \in AllJobs :
           SameJob(j) /\ (job'[j].st # job[j].st \/ job'[j].own # job[j].own)
             => job'[j].rev > job[j].rev]_storeVars
  BY SameJobKept DEF Kept
<1> QED BY <1>1, NumberedInit, NumberedStep, PTL DEF Spec, RevisionCovers
=============================================================================

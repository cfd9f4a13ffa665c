--------------------------- MODULE QueueStoreLife ---------------------------
(***************************************************************************)
(* The life of a job in the script, proved: its place in the indexes and   *)
(* counters (Coherent), the identity that leads to it                      *)
(* (DuplicateRecognised), the conflict keys it holds (ConflictExclusive),  *)
(* what it takes of its lane's caps (CapsHold), the time by which it is    *)
(* settled (SettledInTime) and, when outages are short, its one retry      *)
(* (RetryOnce) and the bytes counted for it (BytesExact).  From these, that*)
(* the script implements QueuePromise (KeepsPromise).                      *)
(***************************************************************************)
EXTENDS QueueStoreSafety, SetSums

\* The account a task id belongs to.
Account(i) == IF i \in Jobs THEN User[i] ELSE KidUser[i]

\* A job is started at most MaxAttempts times and is over by its deadline.
DatedRec(m) ==
  /\ m.att <= MaxAttempts
  /\ Active(m) => /\ m.sub <= now /\ m.qdl = m.sub + MaxAge[Lane[m.org]]
                  /\ m.zDead <= m.sub + Life(m.org)
                  /\ m.st \in {"queued", "delayed"} => m.zDead = m.qdl

GoodRec(m) == m \in JobRec /\ CoherentRec(m) /\ DatedRec(m)

\* n is what a command may make of the record m of a job it does not admit.
Continues(m, n) ==
  /\ n.org = m.org
  /\ n.st # "absent" => m.st # "absent"
  /\ n.grants \in {m.grants, 0}
  /\ n.ids \subseteq m.ids
  /\ Active(n) => Active(m) /\ n.sub = m.sub

\* The set of identities lives as long as the record.
KeepsIds(m, n) == Due(m.zMeta) \/ (n.ids = m.ids /\ ~Due(n.zMeta))

\* The payload's bytes are counted as long as it is kept.
Exact(m) == m.nByte = IF m.pay THEN Size[m.org] ELSE 0

\* The bytes of a payload that is kept are counted; more may be.
Covered(m) == m.nByte >= IF m.pay THEN Size[m.org] ELSE 0

\* The count follows the payload.
Counts(m, n) == (Exact(m) => Exact(n)) /\ (Covered(m) => Covered(n))

\* Settling dates the metadata and a retained payload, once; until then neither
\* is touched, and a settled job gains nothing.
Lives(m, n) ==
  /\ Active(n) => n.zMeta = m.zMeta /\ (n.zDead = m.zDead \/ n.zDead > now)
  /\ n.st \in EndStates =>
       IF Active(m) THEN n.zMeta = now + MetaTTL ELSE n.zMeta = m.zMeta /\ m.st \in EndStates
  /\ ~Active(n) /\ n.pay =>
       IF Active(m) THEN n.zPay = now + RetryTTL /\ n.zMeta = now + MetaTTL
       ELSE m.pay /\ n.zPay = m.zPay /\ n.zMeta = m.zMeta
  /\ n.elig => m.elig \/ Active(m)
  /\ Counts(m, n)

\* A step from active to active that leaves payload and metadata alone.
LEMMA LivesActive ==
  ASSUME NEW m, NEW n, Active(m), Active(n), n.zMeta = m.zMeta,
         n.zDead = m.zDead \/ n.zDead > now,
         n.pay = m.pay, n.nByte = m.nByte, n.org = m.org
  PROVE  Lives(m, n)
<1>1. n.st \notin EndStates BY States
<1> QED BY <1>1 DEF Lives, Counts, Exact, Covered

\* Nothing happens to a record left alone.
LEMMA LivesSelf == ASSUME NEW m PROVE Lives(m, m)
<1>1. m.st \in EndStates => ~Active(m) BY States
<1> QED BY <1>1 DEF Lives, Counts

\* One life after another.
LEMMA LivesTrans ==
  ASSUME NEW a, NEW b, NEW c, Lives(a, b), Lives(b, c),
         Active(b) => Active(a), Active(c) => Active(b)
  PROVE  Lives(a, c)
<1>1. Active(c) => c.zMeta = a.zMeta /\ (c.zDead = a.zDead \/ c.zDead > now) BY DEF Lives
<1>2. c.st \in EndStates =>
        IF Active(a) THEN c.zMeta = now + MetaTTL ELSE c.zMeta = a.zMeta /\ a.st \in EndStates
  BY DEF Lives
<1>3. ~Active(c) /\ c.pay =>
        IF Active(a) THEN c.zPay = now + RetryTTL /\ c.zMeta = now + MetaTTL
        ELSE a.pay /\ c.zPay = a.zPay /\ c.zMeta = a.zMeta
  BY DEF Lives
<1>4. (c.elig => a.elig \/ Active(a)) /\ Counts(a, c) BY DEF Lives, Counts
<1> QED BY <1>1, <1>2, <1>3, <1>4 DEF Lives

\* Nothing but the payload and what depends on it differs.
SameButPayload(m, s) ==
  /\ s.st = m.st /\ s.org = m.org /\ s.att = m.att /\ s.sub = m.sub /\ s.qdl = m.qdl
  /\ s.own = m.own /\ s.grants = m.grants /\ s.ids = m.ids
  /\ s.zReady = m.zReady /\ s.zDelay = m.zDelay /\ s.zDead = m.zDead /\ s.zRun = m.zRun
  /\ s.zMeta = m.zMeta /\ s.nActive = m.nActive /\ s.nHeld = m.nHeld

\* drop_payload forgets the payload and its bytes.
LEMMA DropValues ==
  ASSUME NEW m \in JobRec
  PROVE  LET s == drop_payload(m) IN
         /\ s \in JobRec /\ SameButPayload(m, s)
         /\ s.pay = FALSE /\ s.elig = FALSE /\ s.zPay = Never
         /\ s.nByte = m.nByte - (IF m.pay THEN Size[m.org] ELSE 0)
<1> DEFINE s == drop_payload(m)
<1>1. s \in JobRec BY DropType
<1>2. SameButPayload(m, s) BY DEF drop_payload, JobRec, SameButPayload
<1>3. /\ s.pay = FALSE /\ s.elig = FALSE /\ s.zPay = Never
      /\ s.nByte = m.nByte - (IF m.pay THEN Size[m.org] ELSE 0)
  BY DEF drop_payload, JobRec
<1> QED BY <1>1, <1>2, <1>3

\* release_running forgets the lease and gives the slot back.
LEMMA ReleaseValues ==
  ASSUME NEW m \in JobRec
  PROVE  LET s == release_running(m) IN
         /\ s \in JobRec
         /\ s.st = m.st /\ s.org = m.org /\ s.att = m.att /\ s.sub = m.sub /\ s.qdl = m.qdl
         /\ s.own = m.own /\ s.grants = m.grants /\ s.ids = m.ids /\ s.rev = m.rev
         /\ s.zReady = m.zReady /\ s.zDelay = m.zDelay /\ s.zDead = m.zDead /\ s.zRun = Never
         /\ s.zMeta = m.zMeta /\ s.nActive = m.nActive /\ s.nHeld = m.nHeld - Flag(Held(m))
         /\ s.pay = m.pay /\ s.elig = m.elig /\ s.zPay = m.zPay /\ s.nByte = m.nByte
<1> DEFINE s == release_running(m)
<1>1. s \in JobRec BY ReleaseType
<1>2. /\ s.st = m.st /\ s.org = m.org /\ s.att = m.att /\ s.sub = m.sub /\ s.qdl = m.qdl
      /\ s.own = m.own /\ s.grants = m.grants /\ s.ids = m.ids /\ s.rev = m.rev
  BY DEF release_running, JobRec
<1>3. /\ s.zReady = m.zReady /\ s.zDelay = m.zDelay /\ s.zDead = m.zDead /\ s.zRun = Never
      /\ s.zMeta = m.zMeta /\ s.nActive = m.nActive
      /\ s.pay = m.pay /\ s.elig = m.elig /\ s.zPay = m.zPay /\ s.nByte = m.nByte
  BY DEF release_running, JobRec
<1>4. s.nHeld = m.nHeld - Flag(Held(m)) BY DEF release_running, JobRec, Flag
<1> QED BY <1>1, <1>2, <1>3, <1>4

\* terminal takes the job out of every index and counter; it keeps the payload
\* only of a safe failure that has a grant.
LEMMA TerminalValues ==
  ASSUME NEW m \in JobRec, NEW s \in EndStates, NEW safe \in BOOLEAN, now \in Nat
  PROVE  LET t == terminal(m, s, safe) IN
         /\ t \in JobRec /\ t.st = s /\ t.own = NoTok
         /\ t.org = m.org /\ t.att = m.att /\ t.sub = m.sub /\ t.qdl = m.qdl
         /\ t.grants = m.grants /\ t.ids = m.ids
         /\ t.zReady = FALSE /\ t.zDelay = Never /\ t.zDead = Never /\ t.zRun = Never
         /\ t.zMeta = now + MetaTTL
         /\ t.nActive = m.nActive - Flag(Active(m)) /\ t.nHeld = m.nHeld - Flag(Held(m))
         /\ \/ /\ safe /\ m.grants > 0 /\ m.pay /\ t.elig = TRUE /\ t.pay = TRUE
               /\ t.zPay = now + RetryTTL /\ t.nByte = m.nByte
            \/ /\ t.elig = FALSE /\ t.pay = FALSE /\ t.zPay = Never
               /\ t.nByte = m.nByte - (IF m.pay THEN Size[m.org] ELSE 0)
<1> DEFINE a == [m EXCEPT !.nActive = @ - (IF Active(m) THEN 1 ELSE 0)]
           r == release_running(a)
           e == [r EXCEPT !.st = s, !.own = NoTok, !.rev = @ + 1,
                     !.zReady = FALSE, !.zDelay = Never, !.zDead = Never,
                     !.zMeta = now + MetaTTL]
<1>0. now + MetaTTL \in Time /\ now + RetryTTL \in Time BY ConstTypes, TimeType
<1>1. a \in JobRec
  <2>1. m.nActive - (IF Active(m) THEN 1 ELSE 0) \in Int BY DEF JobRec
  <2> QED BY <2>1 DEF JobRec
<1>2. /\ a.st = m.st /\ a.org = m.org /\ a.att = m.att /\ a.sub = m.sub /\ a.qdl = m.qdl
      /\ a.grants = m.grants /\ a.ids = m.ids /\ a.nHeld = m.nHeld
      /\ a.nActive = m.nActive - Flag(Active(m))
      /\ a.pay = m.pay /\ a.zPay = m.zPay /\ a.nByte = m.nByte
  BY DEF JobRec, Flag
<1> HIDE DEF a
<1>3. Held(a) = Held(m) BY <1>2 DEF Held
<1>4. /\ r \in JobRec /\ r.org = m.org /\ r.att = m.att /\ r.sub = m.sub /\ r.qdl = m.qdl
      /\ r.grants = m.grants /\ r.ids = m.ids /\ r.zRun = Never
      /\ r.nHeld = m.nHeld - Flag(Held(m)) /\ r.nActive = m.nActive - Flag(Active(m))
      /\ r.pay = m.pay /\ r.zPay = m.zPay /\ r.nByte = m.nByte
  BY <1>1, <1>2, <1>3, ReleaseValues
<1>r. r \in JobRec BY <1>4
<1> HIDE DEF r
<1>5. e \in JobRec
  <2>1. r.rev + 1 \in Nat BY <1>r DEF JobRec
  <2> QED BY <1>0, <1>r, <2>1, TimeType DEF JobRec
<1>6. /\ e.st = s /\ e.own = NoTok
      /\ e.zReady = FALSE /\ e.zDelay = Never /\ e.zDead = Never /\ e.zMeta = now + MetaTTL
  BY <1>r DEF JobRec
<1>7. /\ e.org = m.org /\ e.att = m.att /\ e.sub = m.sub /\ e.qdl = m.qdl
      /\ e.grants = m.grants /\ e.ids = m.ids /\ e.zRun = Never
      /\ e.nHeld = m.nHeld - Flag(Held(m)) /\ e.nActive = m.nActive - Flag(Active(m))
      /\ e.pay = m.pay /\ e.zPay = m.zPay /\ e.nByte = m.nByte
  BY <1>4 DEF JobRec
<1>8. terminal(m, s, safe) = IF safe /\ m.grants > 0 /\ HasPayload(m)
      THEN [e EXCEPT !.elig = TRUE, !.zPay = now + RetryTTL]
      ELSE drop_payload(e)
    BY DEF terminal, r, a
<1>e. terminal(m, s, safe) \in JobRec BY TerminalType
<1> HIDE DEF e
<1>9. CASE safe /\ m.grants > 0 /\ HasPayload(m)
  <2> DEFINE t == [e EXCEPT !.elig = TRUE, !.zPay = now + RetryTTL]
  <2>1. SameButPayload(e, t) BY <1>5 DEF JobRec, SameButPayload
  <2>2. t.elig = TRUE /\ t.zPay = now + RetryTTL /\ t.pay = e.pay /\ t.nByte = e.nByte
    BY <1>5 DEF JobRec
  <2>3. terminal(m, s, safe) = t BY <1>8, <1>9
  <2>4. m.pay = TRUE BY <1>9 DEF HasPayload, JobRec
  <2> HIDE DEF t
  <2> QED BY <1>6, <1>7, <1>9, <1>e, <2>1, <2>2, <2>3, <2>4 DEF SameButPayload
<1>10. CASE ~(safe /\ m.grants > 0 /\ HasPayload(m))
  <2> DEFINE d == drop_payload(e)
  <2>1. terminal(m, s, safe) = d BY <1>8, <1>10
  <2>2. /\ SameButPayload(e, d) /\ d.pay = FALSE /\ d.elig = FALSE /\ d.zPay = Never
        /\ d.nByte = e.nByte - (IF e.pay THEN Size[e.org] ELSE 0)
    BY <1>5, DropValues
  <2> HIDE DEF d
  <2> QED BY <1>6, <1>7, <1>e, <2>1, <2>2 DEF SameButPayload
<1> QED BY <1>9, <1>10

\* What terminal needs to find to leave a coherent record.
Counted(m) == /\ m \in JobRec /\ Active(m) /\ m.nActive = 1 /\ m.nHeld = Flag(Held(m))
              /\ m.att <= MaxAttempts

\* A settled job is in no index but those of what is kept of it.
LEMMA TerminalGood ==
  ASSUME NEW m, Counted(m), NEW s \in EndStates, NEW safe \in BOOLEAN,
         safe => s \in {"failed", "expired"}, now \in Nat
  PROVE  LET t == terminal(m, s, safe) IN
         /\ GoodRec(t) /\ ~Active(t) /\ t.st # "absent" /\ Continues(m, t)
         /\ t.ids = m.ids /\ ~Due(t.zMeta) /\ Lives(m, t)
<1> DEFINE t == terminal(m, s, safe)
<1>1. m \in JobRec /\ MetaTTL \in Nat \ {0} /\ RetryTTL \in Nat
  BY StoreAssumption DEF Counted, StoreAssumption
<1>2. /\ t \in JobRec /\ t.st = s /\ t.own = NoTok
      /\ t.org = m.org /\ t.att = m.att /\ t.sub = m.sub /\ t.qdl = m.qdl
      /\ t.grants = m.grants /\ t.ids = m.ids
      /\ t.zReady = FALSE /\ t.zDelay = Never /\ t.zDead = Never /\ t.zRun = Never
      /\ t.zMeta = now + MetaTTL
      /\ t.nActive = m.nActive - Flag(Active(m)) /\ t.nHeld = m.nHeld - Flag(Held(m))
      /\ \/ /\ safe /\ m.grants > 0 /\ m.pay /\ t.elig = TRUE /\ t.pay = TRUE
            /\ t.zPay = now + RetryTTL /\ t.nByte = m.nByte
         \/ /\ t.elig = FALSE /\ t.pay = FALSE /\ t.zPay = Never
            /\ t.nByte = m.nByte - (IF m.pay THEN Size[m.org] ELSE 0)
  BY <1>1, TerminalValues
<1> HIDE DEF t
<1>3. ~Active(t) /\ ~Held(t) /\ t.st # "absent" /\ t.st \notin {"queued", "delayed"}
  BY <1>2 DEF EndStates, Active, ActiveStates, Held, HeldStates
<1>4. t.zMeta # Never /\ ~Due(t.zMeta) BY <1>1, <1>2 DEF Due, Never
<1>5. t.nActive = Flag(Active(t)) /\ t.nHeld = Flag(Held(t))
  BY <1>2, <1>3 DEF Counted, Flag
<1>6. (t.zPay # Never) = t.pay
  <2>1. now + RetryTTL # Never BY <1>1 DEF Never
  <2> QED BY <1>2, <2>1
<1>a. t.elig => t.pay /\ t.grants = 1 /\ t.st \in {"failed", "expired"}
  <2>1. m.grants > 0 => m.grants = 1 BY <1>1 DEF JobRec
  <2> QED BY <1>2, <2>1
<1>b. /\ t.zReady = (t.st = "queued") /\ (t.zDelay # Never) = (t.st = "delayed")
      /\ (t.zRun # Never) = Held(t) /\ (t.own # NoTok) = Held(t)
      /\ (t.zDead # Never) = Active(t)
  <2>1. Active(t) = FALSE /\ Held(t) = FALSE BY <1>3
  <2>2. t.zReady = (t.st = "queued") /\ (t.zDelay # Never) = (t.st = "delayed")
    BY <1>2, <1>3
  <2> QED BY <1>2, <2>1, <2>2
<1>7. CoherentRec(t) BY <1>3, <1>4, <1>5, <1>6, <1>a, <1>b DEF CoherentRec
<1>8. DatedRec(t) BY <1>2, <1>3 DEF DatedRec, Counted
<1>9. m.st # "absent" BY States DEF Counted
<1>10. Continues(m, t) BY <1>2, <1>3, <1>9 DEF Continues
<1>11. Counts(m, t)
  <2>1. m.org \in Jobs /\ Size[m.org] \in Nat /\ m.nByte \in Int
    BY <1>1, ConstTypes DEF JobRec
  <2> QED BY <1>2, <2>1 DEF Counts, Exact, Covered
<1>12. Lives(m, t) BY <1>2, <1>3, <1>11 DEF Lives, Counted
<1> QED BY <1>2, <1>3, <1>4, <1>7, <1>8, <1>10, <1>12 DEF GoodRec, t

-----------------------------------------------------------------------------
(* The loops of sweep().                                                   *)

\* n is a coherent record that continues m with all its identities.
Moves(m, n) == /\ GoodRec(n) /\ Continues(m, n) /\ Lives(m, n) /\ n.ids = m.ids
               /\ Due(n.zMeta) => Due(m.zMeta)

\* A good record may stay as it is.
LEMMA MovesSelf == ASSUME NEW m, GoodRec(m) PROVE Moves(m, m)
BY LivesSelf DEF Moves, Continues

\* One move after another.
LEMMA MovesTrans ==
  ASSUME NEW a, NEW b, NEW c, Moves(a, b), Moves(b, c) PROVE Moves(a, c)
<1>1. Lives(a, c) BY LivesTrans DEF Moves, Continues
<1> QED BY <1>1 DEF Moves, Continues

\* A coherent active record can be settled.
LEMMA GoodCounted ==
  ASSUME NEW m, GoodRec(m), Active(m)
  PROVE  Counted(m) /\ Counted(drop_payload(m))
<1>1. Counted(m) BY DEF Counted, GoodRec, CoherentRec, DatedRec, Flag
<1>2. drop_payload(m) \in JobRec /\ SameButPayload(m, drop_payload(m))
  BY <1>1, DropValues DEF Counted
<1>3. Active(drop_payload(m)) = Active(m) /\ Held(drop_payload(m)) = Held(m)
  BY <1>2 DEF SameButPayload, Active, Held
<1> QED BY <1>1, <1>2, <1>3 DEF Counted, SameButPayload

\* Settling a coherent active record.
LEMMA TerminalMoves ==
  ASSUME NEW m, GoodRec(m), Active(m), NEW s \in EndStates, NEW safe \in BOOLEAN,
         safe => s \in {"failed", "expired"}, now \in Nat
  PROVE  LET t == terminal(m, s, safe) IN
         Moves(m, t) /\ ~Active(t) /\ t.st # "absent"
BY GoodCounted, TerminalGood DEF Moves

\* Dropping the payload drops its bytes from the count.
LEMMA DropLives == ASSUME NEW m \in JobRec PROVE Lives(m, drop_payload(m))
<1> DEFINE d == drop_payload(m)
<1>1. /\ SameButPayload(m, d) /\ d.pay = FALSE /\ d.elig = FALSE
      /\ d.nByte = m.nByte - (IF m.pay THEN Size[m.org] ELSE 0)
  BY DropValues
<1> HIDE DEF d
<1>2. Active(d) = Active(m) BY <1>1 DEF SameButPayload, Active
<1>3. Counts(m, d)
  <2>1. m.org \in Jobs /\ Size[m.org] \in Nat /\ m.nByte \in Int
    BY ConstTypes DEF JobRec
  <2> QED BY <1>1, <2>1 DEF Counts, Exact, Covered, SameButPayload
<1>4. d.st \in EndStates => ~Active(m) BY <1>1, <1>2, States
<1>5. Lives(m, d) BY <1>1, <1>2, <1>3, <1>4 DEF Lives, SameButPayload
<1> QED BY <1>5 DEF d

\* A job whose payload has expired is settled.
LEMMA SweepPayloadMoves ==
  ASSUME NEW m, GoodRec(m), Active(m), now \in Nat
  PROVE  LET n == SweepPayload(m) IN
         Moves(m, n) /\ n.st # "absent" /\ (Active(n) => n = m /\ ~Due(m.zPay))
<1> DEFINE d == drop_payload(m)
           s == UncertainOr(m, "expired")
           t == terminal(d, s, FALSE)
<1>1. m.st # "absent" /\ ~Gone(m)
  BY DEF Gone, Active, ActiveStates, HeldStates, EndStates
<1>2. CASE ~Due(m.zPay)
  <2>1. SweepPayload(m) = m BY <1>2 DEF SweepPayload
  <2> QED BY <1>1, <1>2, <2>1, MovesSelf
<1>3. CASE Due(m.zPay)
  <2>1. SweepPayload(m) = t BY <1>1, <1>3 DEF SweepPayload
  <2>2. s \in EndStates BY EndTypes
  <2>3. Counted(d) BY GoodCounted
  <2>4. SameButPayload(m, d) BY DropValues DEF GoodRec
  <2>l. Lives(m, d) BY DropLives DEF GoodRec
  <2> HIDE DEF d, s
  <2>5. GoodRec(t) /\ ~Active(t) /\ t.st # "absent" /\ Continues(d, t) /\ t.ids = d.ids
        /\ ~Due(t.zMeta) /\ Lives(d, t)
    BY <2>2, <2>3, TerminalGood
  <2> HIDE DEF t
  <2>6. Lives(m, t) BY <2>5, <2>l, LivesTrans
  <2>7. Moves(m, t) BY <1>1, <2>4, <2>5, <2>6 DEF Moves, Continues, SameButPayload
  <2> QED BY <2>1, <2>5, <2>7
<1> QED BY <1>2, <1>3

\* A job past its deadline is settled; a settled job has none.
LEMMA SweepDeadlineMoves ==
  ASSUME NEW m, GoodRec(m), now \in Nat
  PROVE  LET n == SweepDeadline(m) IN
         /\ Moves(m, n) /\ (m.st # "absent" => n.st # "absent")
         /\ Active(n) => n = m /\ m.zDead > now
<1>1. (m.zDead # Never) = Active(m) /\ m.zDead \in Time /\ m \in JobRec
  BY DEF GoodRec, CoherentRec, JobRec
<1>2. CASE ~Due(m.zDead)
  <2>1. SweepDeadline(m) = m BY <1>2 DEF SweepDeadline
  <2>2. m.zDead \in Int BY <1>1 DEF Time, Never
  <2>3. Active(m) => m.zDead # Never /\ ~(m.zDead <= now) BY <1>1, <1>2 DEF Due
  <2> QED BY <2>1, <2>2, <2>3, MovesSelf
<1>3. CASE Due(m.zDead)
  <2> DEFINE s == UncertainOr(m, "expired")
             t == terminal(m, s, FALSE)
  <2>1. Active(m) BY <1>1, <1>3 DEF Due
  <2>2. SweepDeadline(m) = t BY <1>3, <2>1 DEF SweepDeadline
  <2>3. s \in EndStates BY EndTypes
  <2> HIDE DEF s
  <2>4. Moves(m, t) /\ ~Active(t) /\ t.st # "absent" BY <2>1, <2>3, TerminalMoves
  <2> HIDE DEF t
  <2> QED BY <2>2, <2>4
<1> QED BY <1>2, <1>3

\* A held job that goes back to the queue gets its queue deadline back.
LEMMA RequeueMoves ==
  ASSUME NEW m, GoodRec(m), Held(m), m.qdl > now, now \in Nat
  PROVE  LET n == requeue(m) IN
         Moves(m, n) /\ n.st = "queued" /\ n.zDead = m.qdl
<1> DEFINE r == release_running(m)
           n == [r EXCEPT !.st = "queued", !.own = NoTok, !.rev = @ + 1,
                          !.zDead = m.qdl, !.zReady = TRUE]
<1>1. m \in JobRec /\ requeue(m) \in JobRec BY RequeueType DEF GoodRec
<1>2. requeue(m) = n BY DEF requeue
<1>3. /\ r \in JobRec
      /\ r.org = m.org /\ r.att = m.att /\ r.sub = m.sub /\ r.qdl = m.qdl
      /\ r.grants = m.grants /\ r.ids = m.ids
      /\ r.zDelay = m.zDelay /\ r.zRun = Never
      /\ r.zMeta = m.zMeta /\ r.nActive = m.nActive /\ r.nHeld = m.nHeld - Flag(Held(m))
      /\ r.pay = m.pay /\ r.elig = m.elig /\ r.zPay = m.zPay /\ r.nByte = m.nByte
  BY <1>1, ReleaseValues
<1>4. r \in JobRec BY <1>3
<1> HIDE DEF r
<1>5. n.st = "queued" /\ n.own = NoTok /\ n.zDead = m.qdl /\ n.zReady = TRUE
  BY <1>4 DEF JobRec
<1>6. /\ n.org = m.org /\ n.att = m.att /\ n.sub = m.sub /\ n.qdl = m.qdl
      /\ n.grants = m.grants /\ n.ids = m.ids
      /\ n.zDelay = m.zDelay /\ n.zRun = Never
      /\ n.zMeta = m.zMeta /\ n.nActive = m.nActive /\ n.nHeld = m.nHeld - Flag(Held(m))
      /\ n.pay = m.pay /\ n.elig = m.elig /\ n.zPay = m.zPay /\ n.nByte = m.nByte
  BY <1>3 DEF JobRec
<1> HIDE DEF n
<1>7. Active(n) /\ ~Held(n) /\ Active(m) /\ m.st \notin {"queued", "delayed"}
      /\ m.st \notin EndStates /\ n.st \notin EndStates
  BY <1>5 DEF Active, Held, ActiveStates, HeldStates, EndStates
<1>8. Active(m) = TRUE /\ Held(m) = TRUE /\ Active(n) = TRUE /\ Held(n) = FALSE BY <1>7
<1>9. /\ m.zDelay = Never /\ m.pay = TRUE /\ m.zPay # Never /\ m.elig = FALSE
      /\ m.nActive = 1 /\ m.nHeld = 1 /\ m.att <= MaxAttempts
      /\ m.sub <= now /\ m.qdl = m.sub + MaxAge[Lane[m.org]]
  <2>1. m.zDelay = Never /\ m.nActive = 1 /\ m.nHeld = 1
    BY <1>7, <1>8 DEF GoodRec, CoherentRec, Flag
  <2>2. m.pay = TRUE /\ m.zPay # Never /\ m.elig = FALSE
    BY <1>1, <1>7, <1>8 DEF GoodRec, CoherentRec, JobRec, EndStates
  <2> QED BY <1>7, <2>1, <2>2 DEF GoodRec, DatedRec
<1>10. m.qdl \in Nat /\ m.sub \in Nat /\ m.org \in Jobs BY <1>1 DEF JobRec
<1>11. m.qdl # Never /\ m.qdl <= m.sub + Life(m.org)
  BY <1>9, <1>10, ConstTypes DEF Never, Life
<1>12. CoherentRec(n)
  <2>1. n.zReady = (n.st = "queued") /\ (n.zDelay # Never) = (n.st = "delayed")
    BY <1>5, <1>6, <1>9
  <2>2. (n.zRun # Never) = Held(n) /\ (n.own # NoTok) = Held(n) /\ (n.zDead # Never) = Active(n)
    BY <1>5, <1>6, <1>8, <1>11
  <2>3. (n.zPay # Never) = n.pay /\ (Active(n) => n.pay) /\ ~n.elig
    BY <1>6, <1>9
  <2>4. n.nActive = Flag(Active(n)) /\ n.nHeld = Flag(Held(n))
    BY <1>6, <1>8, <1>9 DEF Flag
  <2> QED BY <1>5, <1>7, <2>1, <2>2, <2>3, <2>4 DEF CoherentRec
<1>13. DatedRec(n) BY <1>5, <1>6, <1>9, <1>11 DEF DatedRec
<1>14. m.st # "absent" BY States
<1>15. Continues(m, n) BY <1>6, <1>7, <1>14 DEF Continues
<1>16. Lives(m, n) BY <1>5, <1>6, <1>7, LivesActive
<1> QED BY <1>1, <1>2, <1>5, <1>6, <1>12, <1>13, <1>15, <1>16 DEF Moves, GoodRec

\* A job whose lease is over goes back to the queue or is settled; what is
\* still active has its deadline before it.
LEMMA SweepRunningMoves ==
  ASSUME NEW m, GoodRec(m), Active(m) => m.zDead > now, now \in Nat
  PROVE  LET n == SweepRunning(m) IN
         /\ Moves(m, n) /\ (m.st # "absent" => n.st # "absent")
         /\ Active(n) => Active(m) /\ n.zDead > now
<1>0. {"unknown_delivery", "cancelled", "failed", "expired"} \subseteq EndStates
  BY DEF EndStates
<1>1. CASE ~Due(m.zRun) BY <1>1, MovesSelf DEF SweepRunning
<1>2. CASE Due(m.zRun)
  <2>1. Held(m) /\ Active(m) BY <1>2, States DEF Due, GoodRec, CoherentRec
  <2>2. ASSUME NEW s \in {"unknown_delivery", "cancelled", "failed", "expired"},
               NEW safe \in BOOLEAN, safe => s \in {"failed", "expired"},
               SweepRunning(m) = terminal(m, s, safe)
        PROVE  LET n == SweepRunning(m) IN
               Moves(m, n) /\ n.st # "absent" /\ ~Active(n)
    <3> DEFINE t == terminal(m, s, safe)
    <3>1. Moves(m, t) /\ ~Active(t) /\ t.st # "absent" BY <1>0, <2>1, <2>2, TerminalMoves
    <3>2. SweepRunning(m) = t BY <2>2
    <3> HIDE DEF t
    <3> QED BY <3>1, <3>2
  <2>3. CASE Uncertain(m) \/ m.st = "cancel_requested" \/ m.att >= MaxAttempts \/ now >= m.qdl
    <3>1. \/ SweepRunning(m) = terminal(m, "unknown_delivery", FALSE)
          \/ SweepRunning(m) = terminal(m, "cancelled", FALSE)
          \/ SweepRunning(m) = terminal(m, "failed", TRUE)
          \/ SweepRunning(m) = terminal(m, "expired", TRUE)
      BY <1>2, <2>1, <2>3 DEF SweepRunning
    <3> QED BY <2>2, <3>1
  <2>4. CASE ~(Uncertain(m) \/ m.st = "cancel_requested" \/ m.att >= MaxAttempts \/ now >= m.qdl)
    <3> DEFINE n == requeue(m)
    <3>1. SweepRunning(m) = n BY <1>2, <2>1, <2>4 DEF SweepRunning
    <3>3. m.qdl \in Nat BY DEF GoodRec, JobRec
    <3>4. m.qdl > now BY <2>4, <3>3
    <3>2. Moves(m, n) /\ n.st = "queued" /\ n.zDead = m.qdl BY <2>1, <3>4, RequeueMoves
    <3> HIDE DEF n
    <3> QED BY <2>1, <3>1, <3>2, <3>4
  <2> QED BY <2>3, <2>4
<1> QED BY <1>1, <1>2

\* A delayed job whose time has come is ready.
LEMMA SweepDelayedMoves ==
  ASSUME NEW m, GoodRec(m), now \in Nat
  PROVE  LET n == SweepDelayed(m) IN
         /\ Moves(m, n) /\ (m.st # "absent" => n.st # "absent")
         /\ Active(n) => Active(m) /\ n.zDead = m.zDead
<1> DEFINE q == [m EXCEPT !.zDelay = Never, !.st = "queued", !.rev = @ + 1, !.zReady = TRUE]
<1>1. m \in JobRec BY DEF GoodRec
<1>2. CASE ~Due(m.zDelay) BY <1>2, MovesSelf DEF SweepDelayed
<1>3. CASE Due(m.zDelay)
  <2>1. m.st = "delayed" BY <1>3 DEF Due, GoodRec, CoherentRec
  <2>2. SweepDelayed(m) = q BY <1>3, <2>1 DEF SweepDelayed
  <2>3. q \in JobRec BY <1>1, <2>2, SweepDelayedType
  <2>4. q.zDelay = Never /\ q.st = "queued" /\ q.zReady = TRUE BY <1>1 DEF JobRec
  <2>5. /\ q.org = m.org /\ q.att = m.att /\ q.sub = m.sub /\ q.qdl = m.qdl /\ q.own = m.own
        /\ q.grants = m.grants /\ q.ids = m.ids /\ q.zDead = m.zDead
        /\ q.zRun = m.zRun /\ q.zMeta = m.zMeta /\ q.nActive = m.nActive /\ q.nHeld = m.nHeld
        /\ q.pay = m.pay /\ q.elig = m.elig /\ q.zPay = m.zPay /\ q.nByte = m.nByte
    BY <1>1 DEF JobRec
  <2> HIDE DEF q
  <2>6. /\ Active(m) = TRUE /\ Active(q) = TRUE /\ Held(m) = FALSE /\ Held(q) = FALSE
        /\ q.st \notin EndStates /\ m.st \notin EndStates
    BY <2>1, <2>4 DEF Active, Held, ActiveStates, HeldStates, EndStates
  <2>7. CoherentRec(q)
    <3>1. q.zReady = (q.st = "queued") /\ (q.zDelay # Never) = (q.st = "delayed")
      BY <2>4
    <3>2. /\ m.zRun = Never /\ m.own = NoTok /\ m.zDead # Never /\ m.elig = FALSE
          /\ m.pay = TRUE /\ m.zPay # Never /\ m.nActive = 1 /\ m.nHeld = 0
      BY <1>1, <2>1, <2>6 DEF GoodRec, CoherentRec, JobRec, Flag
    <3>3. (q.zRun # Never) = Held(q) /\ (q.own # NoTok) = Held(q) /\ (q.zDead # Never) = Active(q)
      BY <2>5, <2>6, <3>2
    <3>4. (q.zPay # Never) = q.pay /\ (Active(q) => q.pay) /\ ~q.elig
      BY <2>5, <3>2
    <3>5. q.nActive = Flag(Active(q)) /\ q.nHeld = Flag(Held(q))
      BY <2>5, <2>6, <3>2 DEF Flag
    <3> QED BY <2>4, <2>6, <3>1, <3>3, <3>4, <3>5 DEF CoherentRec
  <2>8. DatedRec(q) BY <2>1, <2>4, <2>5, <2>6 DEF GoodRec, DatedRec
  <2>9. Continues(m, q) BY <2>1, <2>4, <2>5, <2>6 DEF Continues
  <2>l. Lives(m, q) BY <2>5, <2>6, LivesActive
  <2>10. Moves(m, q) BY <2>3, <2>5, <2>7, <2>8, <2>9, <2>l DEF Moves, GoodRec
  <2> QED BY <2>2, <2>4, <2>5, <2>6, <2>10
<1> QED BY <1>2, <1>3

\* What is left of a settled record is coherent.
LEMMA RemovedGood ==
  ASSUME NEW m, m \in JobRec, m.nActive = 0, m.nHeld = 0
  PROVE  LET n == Removed(m) IN
         /\ GoodRec(n) /\ n.st = "absent" /\ ~Active(n) /\ n.org = m.org /\ n.grants = 0
         /\ n.ids = {} /\ n.zMeta = Never /\ n.nByte = m.nByte
<1> DEFINE n == Removed(m)
<1>1. n \in JobRec BY RemovedType
<1>2. /\ n.st = "absent" /\ n.org = m.org /\ n.grants = 0 /\ n.ids = {} /\ n.zMeta = Never
      /\ n.zReady = FALSE /\ n.zDelay = Never /\ n.zDead = Never /\ n.zRun = Never
      /\ n.zPay = Never /\ n.pay = FALSE /\ n.elig = FALSE /\ n.own = NoTok /\ n.att = 0
      /\ n.nActive = 0 /\ n.nHeld = 0 /\ n.nByte = m.nByte
  BY DEF Removed, NoRec
<1> HIDE DEF n
<1>3. Active(n) = FALSE /\ Held(n) = FALSE /\ n.st \notin EndStates
  BY <1>2, States DEF EndStates
<1>4. CoherentRec(n) BY <1>2, <1>3 DEF CoherentRec, Flag
<1>5. DatedRec(n) BY <1>2, <1>3, StoreAssumption DEF DatedRec, StoreAssumption
<1> QED BY <1>1, <1>2, <1>3, <1>4, <1>5 DEF GoodRec, n

\* The metadata loop deletes what is settled, and forgets the identities of a
\* record that was admitted again meanwhile.
LEMMA SweepMetadataGood ==
  ASSUME NEW m, GoodRec(m), now \in Nat
  PROVE  LET n == SweepMetadata(m) IN
         /\ GoodRec(n) /\ Continues(m, n) /\ KeepsIds(m, n) /\ ~Due(n.zMeta)
         /\ Active(n) => n.zDead = m.zDead
<1> DEFINE z == [m EXCEPT !.zMeta = Never, !.ids = {}]
           n == SweepMetadata(m)
<1>1. m \in JobRec BY DEF GoodRec
<1>2. CASE ~Due(m.zMeta)
  <2>1. n = m BY <1>2 DEF SweepMetadata
  <2> QED BY <1>2, <2>1 DEF Continues, KeepsIds
<1>3. CASE Due(m.zMeta) /\ Gone(m)
  <2>1. m.st \in EndStates
    <3>1. m.zMeta # Never BY <1>3 DEF Due
    <3>2. m.st # "absent" BY <3>1 DEF GoodRec, CoherentRec
    <3> QED BY <1>3, <3>2 DEF Gone
  <2>2. Active(m) = FALSE /\ Held(m) = FALSE BY <2>1, States
  <2>3. m.nActive = 0 /\ m.nHeld = 0 BY <2>2 DEF GoodRec, CoherentRec, Flag
  <2>4. n = Removed(m) BY <1>3 DEF SweepMetadata
  <2>5. /\ GoodRec(n) /\ n.st = "absent" /\ ~Active(n) /\ n.org = m.org /\ n.grants = 0
        /\ n.ids = {} /\ n.zMeta = Never
    BY <1>1, <2>3, <2>4, RemovedGood
  <2>6. m.st # "absent" BY <2>1, States DEF EndStates
  <2> QED BY <1>3, <2>5, <2>6 DEF Continues, KeepsIds, Due
<1>4. CASE Due(m.zMeta) /\ ~Gone(m)
  <2>1. n = z BY <1>4 DEF SweepMetadata
  <2>2. z \in JobRec BY <1>1, <2>1, SweepMetadataType
  <2>3. z.ids = {} /\ z.zMeta = Never BY <1>1 DEF JobRec
  <2>4. /\ z.st = m.st /\ z.org = m.org /\ z.att = m.att /\ z.sub = m.sub /\ z.qdl = m.qdl
        /\ z.own = m.own /\ z.grants = m.grants /\ z.zDead = m.zDead /\ z.zDelay = m.zDelay
        /\ z.zRun = m.zRun /\ z.zReady = m.zReady /\ z.nActive = m.nActive
        /\ z.nHeld = m.nHeld /\ z.pay = m.pay /\ z.elig = m.elig /\ z.zPay = m.zPay
    BY <1>1 DEF JobRec
  <2> HIDE DEF z
  <2>5. Active(z) = Active(m) /\ Held(z) = Held(m) BY <2>4 DEF Active, Held
  <2>6. m.st \notin EndStates /\ m.st # "absent" BY <1>4 DEF Gone
  <2>7. CoherentRec(z)
    <3>1. /\ z.zReady = (z.st = "queued") /\ (z.zDelay # Never) = (z.st = "delayed")
          /\ (z.zRun # Never) = Held(z) /\ (z.own # NoTok) = Held(z)
          /\ (z.zDead # Never) = Active(z)
      BY <2>4, <2>5 DEF GoodRec, CoherentRec
    <3>2. /\ (z.zPay # Never) = z.pay /\ (Active(z) => z.pay)
          /\ z.elig => z.pay /\ z.grants = 1 /\ z.st \in {"failed", "expired"}
      BY <2>4, <2>5 DEF GoodRec, CoherentRec
    <3>3. z.nActive = Flag(Active(z)) /\ z.nHeld = Flag(Held(z))
      BY <2>4, <2>5 DEF GoodRec, CoherentRec
    <3> QED BY <2>4, <2>6, <3>1, <3>2, <3>3 DEF CoherentRec
  <2>8. DatedRec(z) BY <2>4, <2>5 DEF GoodRec, DatedRec
  <2>9. Continues(m, z) BY <2>3, <2>4, <2>5 DEF Continues
  <2> QED BY <1>4, <2>1, <2>2, <2>3, <2>4, <2>7, <2>8, <2>9 DEF GoodRec, KeepsIds, Due
<1> QED BY <1>2, <1>3, <1>4

\* A settled job that loses its payload stays coherent.
LEMMA DropSettledGood ==
  ASSUME NEW m, GoodRec(m), ~Active(m)
  PROVE  LET d == drop_payload(m) IN GoodRec(d) /\ SameButPayload(m, d) /\ ~Active(d)
<1> DEFINE d == drop_payload(m)
<1>1. d \in JobRec /\ SameButPayload(m, d) /\ d.pay = FALSE /\ d.elig = FALSE /\ d.zPay = Never
  BY DropValues DEF GoodRec
<1> HIDE DEF d
<1>2. ~Held(m) BY States
<1>3. ~Active(d) /\ ~Held(d) BY <1>1, <1>2 DEF SameButPayload, Active, Held
<1>4. CoherentRec(d)
  <2>1. /\ d.zReady = (d.st = "queued") /\ (d.zDelay # Never) = (d.st = "delayed")
        /\ (d.zRun # Never) = Held(d) /\ (d.own # NoTok) = Held(d)
        /\ (d.zDead # Never) = Active(d)
    <3>1. Held(d) = Held(m) /\ Active(d) = Active(m)
      BY <1>1 DEF SameButPayload, Active, Held
    <3> QED BY <1>1, <3>1 DEF GoodRec, CoherentRec, SameButPayload
  <2>2. (d.zPay # Never) = d.pay /\ ~d.elig /\ ~d.pay BY <1>1
  <2>3. (d.st \in EndStates => d.zMeta # Never) /\ (d.st = "absent" => d.zMeta = Never)
    BY <1>1 DEF GoodRec, CoherentRec, SameButPayload
  <2>4. d.nActive = Flag(Active(d)) /\ d.nHeld = Flag(Held(d))
    BY <1>1, <1>2, <1>3 DEF GoodRec, CoherentRec, SameButPayload, Flag
  <2> QED BY <1>3, <2>1, <2>2, <2>3, <2>4 DEF CoherentRec
<1>5. DatedRec(d) BY <1>1, <1>3 DEF GoodRec, DatedRec, SameButPayload
<1> QED BY <1>1, <1>3, <1>4, <1>5 DEF GoodRec, d

\* The record was not admitted over an older one, and a retained payload is
\* swept before the record that says what it costs.
Kempt(m) ==
  /\ Active(m) => m.zMeta = Never
  /\ ~Active(m) /\ m.pay => ~Due(m.zMeta)

\* Deleting the record of a settled job whose payload is gone loses no bytes.
LEMMA SweepMetadataLives ==
  ASSUME NEW m, GoodRec(m), ~Active(m), Kempt(m), now \in Nat
  PROVE  Lives(m, SweepMetadata(m))
<1>1. CASE ~Due(m.zMeta)
  <2>1. SweepMetadata(m) = m BY <1>1 DEF SweepMetadata
  <2> QED BY <2>1, LivesSelf
<1>2. CASE Due(m.zMeta)
  <2> DEFINE n == Removed(m)
  <2>1. m \in JobRec /\ m.st # "absent" /\ ~m.pay /\ ~Held(m)
    <3>1. m.zMeta # Never BY <1>2 DEF Due
    <3> QED BY <1>2, <3>1, States DEF GoodRec, CoherentRec, Kempt
  <2>2. m.st \in EndStates
    BY <2>1 DEF JobRec, Active
  <2>3. SweepMetadata(m) = n BY <1>2, <2>2 DEF SweepMetadata, Gone
  <2>4. m.nActive = 0 /\ m.nHeld = 0 BY <2>1 DEF GoodRec, CoherentRec, Flag
  <2>5. GoodRec(n) /\ n.st = "absent" /\ ~Active(n) /\ n.org = m.org /\ n.nByte = m.nByte
    BY <2>1, <2>4, RemovedGood
  <2> HIDE DEF n
  <2>6. ~n.pay /\ ~n.elig BY <2>5 DEF GoodRec, CoherentRec
  <2>7. n.st \notin EndStates BY <2>5 DEF EndStates
  <2>8. Lives(m, n) BY <2>1, <2>5, <2>6, <2>7 DEF Lives, Counts, Exact, Covered
  <2> QED BY <2>3, <2>8
<1> QED BY <1>1, <1>2

\* The sweep of a job that is not active only forgets what is kept of it.
LEMMA SweepSettledGood ==
  ASSUME NEW m, GoodRec(m), ~Active(m), now \in Nat
  PROVE  LET n == sweep(m) IN
         /\ GoodRec(n) /\ Continues(m, n) /\ KeepsIds(m, n) /\ ~Active(n) /\ ~Due(n.zMeta)
         /\ Kempt(m) => Lives(m, n)
<1> DEFINE n == sweep(m)
           d == drop_payload(m)
           z == [m EXCEPT !.zPay = Never]
<1>1. /\ m \in JobRec /\ m.zDead = Never /\ m.zRun = Never /\ m.zDelay = Never
      /\ ~Active(m) /\ ~Held(m)
  <2>1. ~Held(m) BY States
  <2>2. m.zDead = Never /\ m.zRun = Never BY <2>1 DEF GoodRec, CoherentRec
  <2>3. m.st # "delayed" BY DEF Active, ActiveStates
  <2> QED BY <2>1, <2>2, <2>3 DEF GoodRec, CoherentRec
<1>2. m.nActive = 0 /\ m.nHeld = 0 BY <1>1 DEF GoodRec, CoherentRec, Flag
<1>3. ASSUME NEW s, s.zDead = Never, s.zRun = Never, s.zDelay = Never, SweepPayload(m) = s
      PROVE  n = SweepMetadata(s)
  <2>1. SweepDeadline(s) = s BY <1>3 DEF SweepDeadline, Due
  <2>2. SweepRunning(s) = s BY <1>3 DEF SweepRunning, Due
  <2>3. SweepDelayed(s) = s BY <1>3 DEF SweepDelayed, Due
  <2> QED BY <1>3, <2>1, <2>2, <2>3 DEF sweep
<1>4. CASE ~Due(m.zPay)
  <2>1. SweepPayload(m) = m BY <1>4 DEF SweepPayload
  <2>2. n = SweepMetadata(m) BY <1>1, <1>3, <2>1
  <2> QED BY <1>1, <2>2, SweepMetadataGood, SweepMetadataLives DEF Continues
<1>5. CASE Due(m.zPay) /\ Gone(m)
  <2>1. SweepPayload(m) = z BY <1>5 DEF SweepPayload
  <2>2. z \in JobRec BY <1>1, <2>1, SweepPayloadType
  <2>3. /\ z.zDead = Never /\ z.zRun = Never /\ z.zDelay = Never /\ z.zMeta = m.zMeta
        /\ z.st = m.st /\ z.org = m.org /\ z.nActive = 0 /\ z.nHeld = 0
    BY <1>1, <1>2 DEF JobRec
  <2> HIDE DEF z
  <2>4. n = SweepMetadata(z) BY <1>3, <2>1, <2>3
  <2>5. m.st # "absent"
    <3>1. m.zPay # Never BY <1>5 DEF Due
    <3> QED BY <3>1 DEF GoodRec, CoherentRec
  <2>6. Due(m.zMeta) /\ Gone(z) BY <1>5, <2>3, <2>5 DEF Gone
  <2>7. n = Removed(z) BY <2>3, <2>4, <2>6 DEF SweepMetadata
  <2>8. /\ GoodRec(n) /\ n.st = "absent" /\ ~Active(n) /\ n.org = m.org /\ n.grants = 0
        /\ n.ids = {} /\ n.zMeta = Never
    BY <2>2, <2>3, <2>7, RemovedGood
  <2> HIDE DEF n
  <2>9. GoodRec(n) /\ Continues(m, n) /\ KeepsIds(m, n) /\ ~Active(n) /\ ~Due(n.zMeta)
    BY <2>5, <2>6, <2>8 DEF Continues, KeepsIds, Due
  <2>10. m.pay
    <3>1. m.zPay # Never BY <1>5 DEF Due
    <3> QED BY <3>1 DEF GoodRec, CoherentRec
  <2>11. ~Kempt(m) BY <2>6, <2>10 DEF Kempt
  <2> QED BY <2>9, <2>11 DEF n
<1>6. CASE Due(m.zPay) /\ ~Gone(m)
  <2>1. SweepPayload(m) = d BY <1>1, <1>6 DEF SweepPayload
  <2>2. GoodRec(d) /\ SameButPayload(m, d) /\ ~Active(d) BY DropSettledGood
  <2> HIDE DEF d
  <2>7. n = SweepMetadata(d) BY <1>1, <1>3, <2>1, <2>2 DEF SameButPayload
  <2>8. GoodRec(n) /\ Continues(d, n) /\ KeepsIds(d, n) /\ ~Due(n.zMeta)
    BY <2>2, <2>7, SweepMetadataGood
  <2>l. Lives(m, d) /\ ~d.pay BY <1>1, DropLives, DropValues DEF d
  <2>k. Lives(d, n) BY <2>2, <2>7, <2>l, SweepMetadataLives DEF Kempt
  <2> HIDE DEF n
  <2>9. GoodRec(n) /\ Continues(m, n) /\ KeepsIds(m, n) /\ ~Active(n)
    BY <2>2, <2>8 DEF Continues, KeepsIds, SameButPayload
  <2>10. Lives(m, n) BY <2>2, <2>9, <2>k, <2>l, LivesTrans
  <2> QED BY <2>8, <2>9, <2>10 DEF n
<1> QED BY <1>4, <1>5, <1>6

\* sweep() leaves coherent records; what it leaves active was not overdue.
LEMMA SweepGood ==
  ASSUME NEW m, GoodRec(m), now \in Nat
  PROVE  LET n == sweep(m) IN
         /\ GoodRec(n) /\ Continues(m, n) /\ KeepsIds(m, n) /\ ~Due(n.zMeta)
         /\ Active(n) => m.zDead > now /\ n.zDead > now
         /\ Kempt(m) => Lives(m, n)
<1> DEFINE p == SweepPayload(m)
           d == SweepDeadline(p)
           r == SweepRunning(d)
           l == SweepDelayed(r)
           n == SweepMetadata(l)
<1>1. CASE ~Active(m) BY <1>1, SweepSettledGood
<1>2. CASE Active(m)
  <2>0. sweep(m) = n BY DEF sweep
  <2>1. Moves(m, p) /\ (Active(p) => p = m) BY <1>2, SweepPayloadMoves
  <2> HIDE DEF p
  <2>2. Moves(p, d) /\ (Active(d) => d = p /\ p.zDead > now)
    BY <2>1, SweepDeadlineMoves DEF Moves
  <2> HIDE DEF d
  <2>3. Moves(d, r) /\ (Active(r) => Active(d) /\ r.zDead > now)
    BY <2>2, SweepRunningMoves DEF Moves
  <2> HIDE DEF r
  <2>4. Moves(r, l) /\ (Active(l) => Active(r) /\ l.zDead = r.zDead)
    BY <2>3, SweepDelayedMoves DEF Moves
  <2> HIDE DEF l
  <2>5. /\ GoodRec(n) /\ Continues(l, n) /\ KeepsIds(l, n) /\ ~Due(n.zMeta)
        /\ Active(n) => n.zDead = l.zDead
    BY <2>4, SweepMetadataGood DEF Moves
  <2>6. Moves(m, l) BY <2>1, <2>2, <2>3, <2>4, MovesTrans
  <2>l. ASSUME Kempt(m) PROVE Lives(m, n)
    <3>1. GoodRec(l) /\ Lives(m, l) /\ l \in JobRec BY <2>6 DEF Moves, GoodRec
    <3>2. ~Due(l.zMeta)
      <4>1. CASE Active(l)
        <5>1. l.zMeta = Never BY <1>2, <2>l, <3>1, <4>1 DEF Kempt, Lives
        <5> QED BY <5>1 DEF Due
      <4>2. CASE l.st \in EndStates
        <5>1. l.zMeta = now + MetaTTL BY <1>2, <3>1, <4>2 DEF Lives
        <5>2. MetaTTL \in Nat \ {0} BY StoreAssumption DEF StoreAssumption
        <5> QED BY <5>1, <5>2 DEF Due
      <4>3. CASE l.st = "absent" BY <3>1, <4>3 DEF GoodRec, CoherentRec, Due
      <4> QED BY <3>1, <4>1, <4>2, <4>3 DEF JobRec, Active
    <3>3. n = l BY <3>2 DEF SweepMetadata
    <3> QED BY <3>1, <3>3
  <2> HIDE DEF n
  <2>7. Continues(m, n) BY <2>5, <2>6 DEF Moves, Continues
  <2>8. KeepsIds(m, n) BY <2>5, <2>6 DEF Moves, KeepsIds
  <2>9. Active(n) => m.zDead > now /\ n.zDead > now
    BY <2>1, <2>2, <2>3, <2>4, <2>5 DEF Continues
  <2> QED BY <2>0, <2>5, <2>7, <2>8, <2>9, <2>l
<1> QED BY <1>1, <1>2

-----------------------------------------------------------------------------
(* The branches of the commands.                                           *)

\* Every active record has a deadline, its payload and its counter shares.
ActiveValues(m) ==
  /\ m.zDead # Never /\ m.pay = TRUE /\ m.zPay # Never /\ m.elig = FALSE /\ m.nActive = 1

\* A record that waits is in the ready or in the delayed index.
WaitingValues(m) ==
  /\ m.st \in {"queued", "delayed"} /\ ActiveValues(m)
  /\ m.zRun = Never /\ m.own = NoTok /\ m.nHeld = 0
  /\ m.zReady = (m.st = "queued") /\ (m.zDelay # Never) = (m.st = "delayed")

\* A record that runs has an owner and a lease.
HeldValues(m) ==
  /\ m.st \in HeldStates /\ ActiveValues(m)
  /\ m.zRun # Never /\ m.own # NoTok /\ m.nHeld = 1
  /\ m.zReady = FALSE /\ m.zDelay = Never

\* For an active record, being coherent is having those values.
LEMMA CoherentActive ==
  ASSUME NEW m \in JobRec
  PROVE  /\ CoherentRec(m) /\ Active(m) => ActiveValues(m)
         /\ m.st \in {"queued", "delayed"} => (CoherentRec(m) <=> WaitingValues(m))
         /\ Held(m) => (CoherentRec(m) <=> HeldValues(m))
<1>0. m.pay \in BOOLEAN /\ m.elig \in BOOLEAN /\ m.zReady \in BOOLEAN BY DEF JobRec
<1>1. ASSUME CoherentRec(m), Active(m) PROVE ActiveValues(m)
  <2>1. m.st \notin EndStates BY <1>1, States
  <2>2. m.pay = TRUE /\ m.zDead # Never BY <1>0, <1>1 DEF CoherentRec
  <2>3. m.zPay # Never BY <1>1, <2>2 DEF CoherentRec
  <2>4. ~m.elig BY <1>1, <2>1 DEF CoherentRec, EndStates
  <2>5. m.nActive = 1 BY <1>1 DEF CoherentRec, Flag
  <2> QED BY <1>0, <2>2, <2>3, <2>4, <2>5 DEF ActiveValues
<1>2. ASSUME m.st \in {"queued", "delayed"} PROVE CoherentRec(m) => WaitingValues(m)
  <2>1. ~Held(m) /\ Active(m) BY <1>2 DEF Held, Active, HeldStates, ActiveStates
  <2>2. CoherentRec(m) => m.nHeld = 0 BY <2>1 DEF CoherentRec, Flag
  <2>3. CoherentRec(m) => m.zRun = Never /\ m.own = NoTok BY <2>1 DEF CoherentRec
  <2> QED BY <1>1, <1>2, <2>1, <2>2, <2>3 DEF CoherentRec, WaitingValues
<1>3. ASSUME m.st \in {"queued", "delayed"} PROVE WaitingValues(m) => CoherentRec(m)
  <2>1. /\ Held(m) = FALSE /\ Active(m) = TRUE /\ m.st \notin EndStates /\ m.st # "absent"
    BY <1>3 DEF Held, Active, HeldStates, ActiveStates, EndStates
  <2>2. Flag(Active(m)) = 1 /\ Flag(Held(m)) = 0 BY <2>1 DEF Flag
  <2> QED BY <2>1, <2>2 DEF CoherentRec, WaitingValues, ActiveValues
<1>4. ASSUME Held(m) PROVE CoherentRec(m) => HeldValues(m)
  <2>1. Active(m) /\ m.st # "queued" /\ m.st # "delayed" /\ m.st \in HeldStates
    BY <1>4 DEF Held, Active, HeldStates, ActiveStates
  <2>2. CoherentRec(m) => m.nHeld = 1 BY <1>4 DEF CoherentRec, Flag
  <2>3. CoherentRec(m) => m.zRun # Never /\ m.own # NoTok BY <1>4 DEF CoherentRec
  <2>4. CoherentRec(m) => m.zReady = FALSE /\ m.zDelay = Never BY <2>1 DEF CoherentRec
  <2> QED BY <1>1, <2>1, <2>2, <2>3, <2>4 DEF HeldValues
<1>5. ASSUME Held(m) PROVE HeldValues(m) => CoherentRec(m)
  <2>1. /\ Held(m) = TRUE /\ Active(m) = TRUE /\ m.st \notin EndStates /\ m.st # "absent"
        /\ m.st # "queued" /\ m.st # "delayed"
    BY <1>5 DEF Held, Active, HeldStates, ActiveStates, EndStates
  <2>2. Flag(Active(m)) = 1 /\ Flag(Held(m)) = 1 BY <2>1 DEF Flag
  <2> QED BY <2>1, <2>2 DEF CoherentRec, HeldValues, ActiveValues
<1> QED BY <1>1, <1>2, <1>3, <1>4, <1>5

\* The scan of claim settles what it cannot start.
LEMMA PassedMoves ==
  ASSUME NEW m, GoodRec(m), m.zReady, now \in Nat
  PROVE  Moves(m, Passed(m))
<1>1. m.st = "queued" BY DEF GoodRec, CoherentRec
<1>2. Active(m) /\ {"failed", "expired"} \subseteq EndStates
  BY <1>1 DEF Active, ActiveStates, EndStates
<1>3. Moves(m, terminal(m, "failed", TRUE)) /\ Moves(m, terminal(m, "expired", FALSE))
  BY <1>2, TerminalMoves
<1>4. Passed(m) \in {m, terminal(m, "failed", TRUE), terminal(m, "expired", FALSE)}
  BY <1>1 DEF Passed
<1> QED BY <1>3, <1>4, MovesSelf

\* A claim starts a queued job once more; the budget of a system job of the
\* daily lane starts before its queue deadline.
LEMMA ClaimedMoves ==
  ASSUME NEW m, GoodRec(m), m.st = "queued", m.att < MaxAttempts, m.zDead > now,
         NEW tok \in Nat, now \in Nat
  PROVE  Moves(m, Claimed(m, tok))
<1> DEFINE daily == m.org \in Daily /\ User[m.org] = 0
           dl == IF daily THEN now + Budget ELSE m.zDead
           pl == IF daily THEN now + Budget ELSE m.zPay
           n == [m EXCEPT !.zReady = FALSE, !.st = "running", !.own = tok, !.att = @ + 1,
                          !.rev = @ + 1, !.fin = NoTok, !.zRun = now + Lease,
                          !.nHeld = @ + 1, !.zDead = dl, !.zPay = pl]
<1>1. m \in JobRec BY DEF GoodRec
<1>2. Claimed(m, tok) \in JobRec BY <1>1, ClaimedType
<1>3. Claimed(m, tok) = n BY DEF Claimed
<1>4. WaitingValues(m) /\ m.zDelay = Never /\ m.nHeld = 0
  BY <1>1, CoherentActive DEF GoodRec, WaitingValues
<1>5. now + Lease # Never /\ now + Budget # Never /\ tok # NoTok
  BY ConstTypes DEF Never, NoTok
<1>6. dl # Never /\ pl # Never BY <1>4, <1>5 DEF WaitingValues, ActiveValues
<1>l. dl > now
  <2>1. Budget \in Nat \ {0} BY StoreAssumption DEF StoreAssumption
  <2> QED BY <2>1
<1>7. Active(m) BY DEF Active, ActiveStates
<1>8. /\ m.sub <= now /\ m.qdl = m.sub + MaxAge[Lane[m.org]] /\ m.zDead = m.qdl
      /\ m.sub \in Nat /\ m.qdl \in Nat /\ m.org \in Jobs /\ m.att \in Nat
  BY <1>1, <1>7 DEF GoodRec, DatedRec, JobRec
<1>9. dl <= m.sub + Life(m.org)
  <2>1. MaxAge[Lane[m.org]] \in Nat /\ Budget \in Nat BY <1>8, ConstTypes
  <2>2. CASE daily
    <3>1. dl = now + Budget /\ Life(m.org) = MaxAge[Lane[m.org]] + Budget BY <2>2 DEF Life
    <3> HIDE DEF dl
    <3> QED BY <1>8, <2>1, <3>1
  <2>3. CASE ~daily
    <3>1. dl = m.zDead /\ Life(m.org) = MaxAge[Lane[m.org]] + 0 BY <2>3 DEF Life
    <3> HIDE DEF dl
    <3> QED BY <1>8, <2>1, <3>1
  <2> QED BY <2>2, <2>3
<1> HIDE DEF dl, pl
<1>10. /\ n.zReady = FALSE /\ n.st = "running" /\ n.own = tok /\ n.att = m.att + 1
       /\ n.zRun = now + Lease /\ n.nHeld = m.nHeld + 1 /\ n.zDead = dl /\ n.zPay = pl
  BY <1>1 DEF JobRec
<1>11. /\ n.org = m.org /\ n.sub = m.sub /\ n.qdl = m.qdl /\ n.grants = m.grants
       /\ n.elig = m.elig /\ n.pay = m.pay /\ n.ids = m.ids /\ n.zDelay = m.zDelay
       /\ n.zMeta = m.zMeta /\ n.nActive = m.nActive /\ n.nByte = m.nByte
  BY <1>1 DEF JobRec
<1>12. n \in JobRec BY <1>2, <1>3
<1> HIDE DEF n
<1>13. HeldValues(n)
  BY <1>4, <1>5, <1>6, <1>10, <1>11 DEF HeldValues, ActiveValues, WaitingValues, HeldStates
<1>14. Held(n) /\ Active(n) BY <1>13, States DEF HeldValues, Held
<1>15. CoherentRec(n) BY <1>12, <1>13, <1>14, CoherentActive
<1>16. DatedRec(n)
  <2>1. n.att <= MaxAttempts BY <1>8, <1>10, StoreAssumption DEF StoreAssumption
  <2> QED BY <2>1, <1>8, <1>9, <1>10, <1>11 DEF DatedRec
<1>17. m.st # "absent" BY <1>7, States
<1>18. Continues(m, n) BY <1>7, <1>11, <1>17 DEF Continues
<1>19. Lives(m, n) BY <1>7, <1>10, <1>11, <1>14, <1>l, LivesActive
<1> QED BY <1>3, <1>11, <1>12, <1>15, <1>16, <1>18, <1>19 DEF Moves, GoodRec

\* A heartbeat moves the lease.
LEMMA RenewedMoves ==
  ASSUME NEW m, GoodRec(m), Held(m), now \in Nat
  PROVE  Moves(m, [m EXCEPT !.zRun = now + Lease])
<1> DEFINE n == [m EXCEPT !.zRun = now + Lease]
<1>1. m \in JobRec BY DEF GoodRec
<1>2. now + Lease \in Nat /\ now + Lease \in Time /\ now + Lease # Never
  BY ConstTypes, TimeType DEF Never
<1>3. n \in JobRec BY <1>1, <1>2 DEF JobRec
<1>4. n.zRun = now + Lease /\ n.own = m.own /\ n.nHeld = m.nHeld /\ n.zReady = m.zReady
  BY <1>1 DEF JobRec
<1>5. /\ n.st = m.st /\ n.org = m.org /\ n.att = m.att /\ n.sub = m.sub /\ n.qdl = m.qdl
      /\ n.grants = m.grants /\ n.elig = m.elig /\ n.pay = m.pay /\ n.ids = m.ids
      /\ n.zDelay = m.zDelay /\ n.zDead = m.zDead /\ n.zPay = m.zPay /\ n.zMeta = m.zMeta
      /\ n.nActive = m.nActive /\ n.nByte = m.nByte
  BY <1>1 DEF JobRec
<1> HIDE DEF n
<1>6. HeldValues(m) BY <1>1, CoherentActive DEF GoodRec
<1>7. HeldValues(n) BY <1>2, <1>4, <1>5, <1>6 DEF HeldValues, ActiveValues
<1>8. Held(n) /\ Active(n) /\ Active(m) BY <1>7, States DEF HeldValues, Held
<1>9. CoherentRec(n) BY <1>3, <1>7, <1>8, CoherentActive
<1>10. DatedRec(n) BY <1>5, <1>8 DEF GoodRec, DatedRec
<1>11. Continues(m, n) BY <1>5, <1>8, States DEF Continues
<1>12. Lives(m, n) BY <1>5, <1>8, LivesActive
<1> QED BY <1>3, <1>5, <1>9, <1>10, <1>11, <1>12 DEF Moves, GoodRec, n

\* A retryable failure goes back to the queue with its queue deadline.
LEMMA RescheduledMoves ==
  ASSUME NEW m, GoodRec(m), Held(m), m.qdl > now, NEW delay \in Nat, now \in Nat
  PROVE  Moves(m, Rescheduled(m, delay))
<1> DEFINE r == release_running(m)
           st0 == IF delay > 0 THEN "delayed" ELSE "queued"
           zp == IF User[m.org] > 0 THEN Sooner(m.qdl, m.sub + PayloadTTL) ELSE m.qdl
           zd == IF delay > 0 THEN now + delay ELSE r.zDelay
           n == [r EXCEPT !.st = st0, !.own = NoTok, !.rev = @ + 1, !.zDead = m.qdl,
                          !.zPay = zp, !.zReady = delay <= 0, !.zDelay = zd]
<1>1. m \in JobRec /\ Rescheduled(m, delay) \in JobRec BY RescheduledType DEF GoodRec
<1>2. Rescheduled(m, delay) = n BY DEF Rescheduled
<1>3. /\ r \in JobRec
      /\ r.org = m.org /\ r.att = m.att /\ r.sub = m.sub /\ r.qdl = m.qdl
      /\ r.grants = m.grants /\ r.ids = m.ids
      /\ r.zDelay = m.zDelay /\ r.zRun = Never
      /\ r.zMeta = m.zMeta /\ r.nActive = m.nActive /\ r.nHeld = m.nHeld - Flag(Held(m))
      /\ r.pay = m.pay /\ r.elig = m.elig /\ r.nByte = m.nByte
  BY <1>1, ReleaseValues
<1>4. r \in JobRec BY <1>3
<1>5. HeldValues(m) /\ Active(m) /\ m.st # "absent" /\ Held(m) = TRUE
  BY <1>1, CoherentActive, States DEF GoodRec
<1>6. /\ m.sub <= now /\ m.qdl = m.sub + MaxAge[Lane[m.org]] /\ m.att <= MaxAttempts
      /\ m.sub \in Nat /\ m.qdl \in Nat /\ m.org \in Jobs /\ PayloadTTL \in Nat
  BY <1>1, <1>5, ConstTypes DEF GoodRec, DatedRec, JobRec
<1>7. m.qdl # Never /\ m.qdl <= m.sub + Life(m.org)
  BY <1>6, ConstTypes DEF Never, Life
<1>8. zp # Never BY <1>6 DEF Sooner, Never
<1>9. \/ st0 = "delayed" /\ (delay <= 0) = FALSE /\ zd # Never
      \/ st0 = "queued" /\ (delay <= 0) = TRUE /\ zd = Never
  <2>1. r.zDelay = Never BY <1>3, <1>5 DEF HeldValues
  <2>2. now + delay # Never BY DEF Never
  <2> QED BY <2>1, <2>2
<1> HIDE DEF r, zp, zd, st0
<1>10. /\ n.st = st0 /\ n.own = NoTok /\ n.zDead = m.qdl /\ n.zPay = zp
       /\ n.zReady = (delay <= 0) /\ n.zDelay = zd
  BY <1>4 DEF JobRec
<1>11. /\ n.org = m.org /\ n.att = m.att /\ n.sub = m.sub /\ n.qdl = m.qdl
       /\ n.grants = m.grants /\ n.ids = m.ids /\ n.zRun = Never
       /\ n.zMeta = m.zMeta /\ n.nActive = m.nActive /\ n.nHeld = m.nHeld - Flag(Held(m))
       /\ n.pay = m.pay /\ n.elig = m.elig /\ n.nByte = m.nByte
  BY <1>3 DEF JobRec
<1>12. n \in JobRec BY <1>1, <1>2
<1> HIDE DEF n
<1>13. n.st \in {"queued", "delayed"} BY <1>9, <1>10
<1>14. n.nHeld = 0 BY <1>5, <1>11 DEF HeldValues, Flag
<1>15. WaitingValues(n)
  <2>1. ActiveValues(n) BY <1>5, <1>7, <1>8, <1>10, <1>11 DEF HeldValues, ActiveValues
  <2>2. n.zReady = (n.st = "queued") /\ (n.zDelay # Never) = (n.st = "delayed")
    BY <1>9, <1>10
  <2> QED BY <1>10, <1>11, <1>13, <1>14, <2>1, <2>2 DEF WaitingValues
<1>16. CoherentRec(n) BY <1>12, <1>13, <1>15, CoherentActive
<1>17. DatedRec(n) BY <1>6, <1>7, <1>10, <1>11 DEF DatedRec
<1>18. Continues(m, n) BY <1>5, <1>11 DEF Continues
<1>19. Active(n) BY <1>13 DEF Active, ActiveStates
<1>20. Lives(m, n) BY <1>5, <1>10, <1>11, <1>19, LivesActive
<1> QED BY <1>2, <1>11, <1>12, <1>16, <1>17, <1>18, <1>20 DEF Moves, GoodRec

\* Neither the finish token, nor the revision, nor the identities matter.
SameButMarks(m, n) ==
  /\ n.st = m.st /\ n.org = m.org /\ n.att = m.att /\ n.sub = m.sub /\ n.qdl = m.qdl
  /\ n.own = m.own /\ n.grants = m.grants /\ n.elig = m.elig /\ n.pay = m.pay
  /\ n.zReady = m.zReady /\ n.zDelay = m.zDelay /\ n.zDead = m.zDead /\ n.zRun = m.zRun
  /\ n.zPay = m.zPay /\ n.zMeta = m.zMeta /\ n.nActive = m.nActive /\ n.nHeld = m.nHeld
  /\ n.nByte = m.nByte

\* Such a change keeps a record good and alive.
LEMMA MarksGood ==
  ASSUME NEW m, GoodRec(m), NEW n \in JobRec, SameButMarks(m, n)
  PROVE  GoodRec(n) /\ (Active(n) <=> Active(m)) /\ Lives(m, n)
<1>1. Active(n) = Active(m) /\ Held(n) = Held(m) BY DEF SameButMarks, Active, Held
<1>2. CoherentRec(n) = CoherentRec(m) BY <1>1 DEF SameButMarks, CoherentRec
<1>3. DatedRec(n) BY <1>1 DEF SameButMarks, GoodRec, DatedRec
<1>4. m.st \in EndStates => ~Active(m) BY States
<1>5. Lives(m, n) BY <1>1, <1>4 DEF Lives, SameButMarks, Counts, Exact, Covered
<1> QED BY <1>1, <1>2, <1>3, <1>5 DEF GoodRec

\* finish settles the job or puts it back, and remembers the owner's token.
LEMMA FinishedMoves ==
  ASSUME NEW m, GoodRec(m), Held(m), NEW outcome, NEW delay \in Nat,
         NEW tok \in Nat \cup {NoTok}, now \in Nat
  PROVE  Moves(m, [Finished(m, outcome, delay) EXCEPT !.fin = tok])
<1> DEFINE f == Finished(m, outcome, delay)
           n == [f EXCEPT !.fin = tok]
<1>1. Moves(m, f)
  <2>1. Active(m) /\ {"unknown_delivery", "cancelled", "failed", "expired", "succeeded"}
          \subseteq EndStates
    BY States DEF EndStates
  <2>2. \A s \in EndStates : Moves(m, terminal(m, s, FALSE)) BY <2>1, TerminalMoves
  <2>3. Moves(m, terminal(m, "failed", TRUE)) /\ Moves(m, terminal(m, "expired", TRUE))
    BY <2>1, TerminalMoves
  <2>4. m.qdl > now => Moves(m, Rescheduled(m, delay)) BY RescheduledMoves
  <2>q. m.qdl \in Nat /\ (~(now + delay >= m.qdl) => m.qdl > now)
    <3>1. m.qdl \in Nat BY DEF GoodRec, JobRec
    <3> QED BY <3>1
  <2>5. CASE outcome = "unknown_delivery" BY <2>1, <2>2, <2>5 DEF Finished
  <2>6. CASE outcome # "unknown_delivery" /\ m.st = "cancel_requested"
    BY <2>1, <2>2, <2>6 DEF Finished
  <2>7. CASE outcome = "retryable_failure" /\ m.st # "cancel_requested"
    BY <2>3, <2>4, <2>7, <2>q DEF Finished
  <2>8. CASE /\ outcome # "unknown_delivery" /\ outcome # "retryable_failure"
             /\ m.st # "cancel_requested"
    <3>1. f = terminal(m, IF outcome = "succeeded" THEN "succeeded" ELSE "failed", FALSE)
      BY <2>8 DEF Finished
    <3> QED BY <2>1, <2>2, <3>1
  <2> QED BY <2>5, <2>6, <2>7, <2>8
<1>2. f \in JobRec BY <1>1 DEF Moves, GoodRec
<1> HIDE DEF f
<1>3. n \in JobRec BY <1>2 DEF JobRec
<1>4. SameButMarks(f, n) /\ n.ids = f.ids BY <1>2 DEF JobRec, SameButMarks
<1> HIDE DEF n
<1>5. GoodRec(n) /\ (Active(n) <=> Active(f)) /\ Lives(f, n)
  BY <1>1, <1>3, <1>4, MarksGood DEF Moves
<1>l. Lives(m, n) BY <1>1, <1>5, LivesTrans DEF Moves, Continues
<1>6. Moves(m, n) BY <1>1, <1>4, <1>5, <1>l DEF Moves, Continues, SameButMarks
<1> QED BY <1>6 DEF n, f

\* cancel marks a held job and settles one that waits.
LEMMA CancelledMoves ==
  ASSUME NEW m, GoodRec(m), now \in Nat
  PROVE  Moves(m, Cancelled(m))
<1> DEFINE n == [m EXCEPT !.st = "cancel_requested", !.rev = @ + 1]
<1>1. m \in JobRec /\ Cancelled(m) \in JobRec BY CancelledType DEF GoodRec
<1>2. CASE Held(m)
  <2>1. Cancelled(m) = n BY <1>2 DEF Cancelled
  <2>2. n.st = "cancel_requested" /\ n.ids = m.ids BY <1>1 DEF JobRec
  <2>3. /\ n.org = m.org /\ n.att = m.att /\ n.sub = m.sub /\ n.qdl = m.qdl
        /\ n.own = m.own /\ n.grants = m.grants /\ n.elig = m.elig /\ n.pay = m.pay
        /\ n.zReady = m.zReady /\ n.zDelay = m.zDelay /\ n.zDead = m.zDead /\ n.zRun = m.zRun
        /\ n.zPay = m.zPay /\ n.zMeta = m.zMeta /\ n.nActive = m.nActive /\ n.nHeld = m.nHeld
        /\ n.nByte = m.nByte
    BY <1>1 DEF JobRec
  <2>4. n \in JobRec BY <1>1, <2>1
  <2> HIDE DEF n
  <2>5. HeldValues(m) BY <1>1, <1>2, CoherentActive DEF GoodRec
  <2>6. HeldValues(n) BY <2>2, <2>3, <2>5 DEF HeldValues, ActiveValues, HeldStates
  <2>7. Held(n) /\ Active(n) /\ Active(m) /\ m.st # "absent" BY <1>2, <2>6, States DEF HeldValues, Held
  <2>8. CoherentRec(n) BY <2>4, <2>6, <2>7, CoherentActive
  <2>9. DatedRec(n) BY <2>2, <2>3, <2>7 DEF GoodRec, DatedRec
  <2>10. Continues(m, n) BY <2>2, <2>3, <2>7 DEF Continues
  <2>11. Lives(m, n) BY <2>3, <2>7, LivesActive
  <2> QED BY <2>1, <2>2, <2>3, <2>4, <2>8, <2>9, <2>10, <2>11 DEF Moves, GoodRec
<1>3. CASE Active(m) /\ ~Held(m)
  <2>1. "cancelled" \in EndStates BY DEF EndStates
  <2> QED BY <1>3, <2>1, TerminalMoves DEF Cancelled
<1>4. CASE ~Active(m)
  <2>1. ~Held(m) BY <1>4, States
  <2> QED BY <1>4, <2>1, MovesSelf DEF Cancelled
<1> QED BY <1>2, <1>3, <1>4

\* A retry takes the grant and the payload of the settled job.
LEMMA SpentMoves ==
  ASSUME NEW m, GoodRec(m), ~Active(m)
  PROVE  Moves(m, Spent(m)) /\ ~Active(Spent(m)) /\ ~Spent(m).elig
<1> DEFINE d == drop_payload(m)
           n == [d EXCEPT !.grants = 0]
<1>1. GoodRec(d) /\ SameButPayload(m, d) /\ ~Active(d) BY DropSettledGood
<1>2. d \in JobRec /\ d.elig = FALSE BY <1>1, DropValues DEF GoodRec
<1>3. Spent(m) = n /\ Lives(m, d) BY DropLives DEF Spent, GoodRec
<1> HIDE DEF d
<1>4. n \in JobRec BY <1>2 DEF JobRec
<1>5. /\ n.st = d.st /\ n.org = d.org /\ n.att = d.att /\ n.sub = d.sub /\ n.qdl = d.qdl
      /\ n.own = d.own /\ n.elig = d.elig /\ n.pay = d.pay /\ n.ids = d.ids
      /\ n.zReady = d.zReady /\ n.zDelay = d.zDelay /\ n.zDead = d.zDead /\ n.zRun = d.zRun
      /\ n.zPay = d.zPay /\ n.zMeta = d.zMeta /\ n.nActive = d.nActive /\ n.nHeld = d.nHeld
      /\ n.grants = 0 /\ n.nByte = d.nByte
  BY <1>2 DEF JobRec
<1> HIDE DEF n
<1>6. Active(n) = Active(d) /\ Held(n) = Held(d) BY <1>5 DEF Active, Held
<1>7. CoherentRec(n) BY <1>1, <1>2, <1>5, <1>6 DEF GoodRec, CoherentRec
<1>8. DatedRec(n) BY <1>1, <1>5, <1>6 DEF GoodRec, DatedRec
<1>l. Lives(m, n)
  <2>1. Lives(d, n) BY <1>1, <1>5, <1>6 DEF Lives, Counts, Exact, Covered
  <2> QED BY <1>1, <1>3, <1>6, <2>1, LivesTrans
<1>9. Moves(m, n)
  BY <1>1, <1>4, <1>5, <1>6, <1>7, <1>8, <1>l DEF Moves, GoodRec, Continues, SameButPayload
<1> QED BY <1>1, <1>2, <1>3, <1>5, <1>6, <1>9

\* Erasure leaves the counter shares of nothing.
LEMMA ErasedGood ==
  ASSUME NEW m, GoodRec(m)
  PROVE  LET n == Erased(m) IN
         /\ GoodRec(n) /\ n.st = "absent" /\ ~Active(n) /\ n.ids = {} /\ n.grants = 0
         /\ n.org = m.org /\ Counts(m, n)
<1> DEFINE a == [m EXCEPT !.nActive = @ - (IF Active(m) THEN 1 ELSE 0)]
           r == release_running(a)
           d == drop_payload(r)
           n == Removed(d)
<1>1. m \in JobRec /\ m.nActive = Flag(Active(m)) /\ m.nHeld = Flag(Held(m))
  BY DEF GoodRec, CoherentRec
<1>2. a \in JobRec
  <2>1. m.nActive - (IF Active(m) THEN 1 ELSE 0) \in Int BY <1>1 DEF JobRec
  <2> QED BY <1>1, <2>1 DEF JobRec
<1>3. /\ a.nActive = 0 /\ a.nHeld = m.nHeld /\ a.st = m.st /\ a.org = m.org
      /\ a.pay = m.pay /\ a.nByte = m.nByte
  <2>1. a.nActive = m.nActive - (IF Active(m) THEN 1 ELSE 0) BY <1>1 DEF JobRec
  <2>2. a.nActive = 0 BY <1>1, <2>1 DEF Flag
  <2>3. /\ a.nHeld = m.nHeld /\ a.st = m.st /\ a.org = m.org
        /\ a.pay = m.pay /\ a.nByte = m.nByte
    BY <1>1 DEF JobRec
  <2> QED BY <2>2, <2>3
<1>4. Erased(m) = n BY DEF Erased
<1> HIDE DEF a
<1>5. Held(a) = Held(m) BY <1>3 DEF Held
<1>6. /\ r \in JobRec /\ r.nActive = 0 /\ r.nHeld = 0 /\ r.org = m.org
      /\ r.pay = m.pay /\ r.nByte = m.nByte
  BY <1>1, <1>2, <1>3, <1>5, ReleaseValues DEF Flag
<1> HIDE DEF r
<1>7. /\ d \in JobRec /\ SameButPayload(r, d)
      /\ d.nByte = r.nByte - (IF r.pay THEN Size[r.org] ELSE 0)
  BY <1>6, DropValues
<1> HIDE DEF d
<1>d. /\ d.nActive = 0 /\ d.nHeld = 0 /\ d.org = m.org
      /\ d.nByte = m.nByte - (IF m.pay THEN Size[m.org] ELSE 0)
  BY <1>6, <1>7 DEF SameButPayload
<1>8. /\ GoodRec(n) /\ n.st = "absent" /\ ~Active(n) /\ n.ids = {} /\ n.grants = 0
      /\ n.org = m.org /\ n.nByte = d.nByte
  BY <1>7, <1>d, RemovedGood
<1> HIDE DEF n
<1>9. Counts(m, n)
  <2>1. ~n.pay BY <1>8 DEF GoodRec, CoherentRec
  <2>2. m.org \in Jobs /\ Size[m.org] \in Nat /\ m.nByte \in Int
    BY <1>1, ConstTypes DEF JobRec
  <2> QED BY <1>d, <1>8, <2>1, <2>2 DEF Counts, Exact, Covered
<1> QED BY <1>4, <1>8, <1>9

\* An admission over a record that is not active starts a coherent one.
LEMMA AdmittedGood ==
  ASSUME NEW m, GoodRec(m), ~Active(m), NEW j \in AllJobs, NEW org \in Jobs,
         NEW delay \in Nat, NEW grant \in {0, 1}, now \in Nat, admits \in Nat
  PROVE  LET n == Admitted(m, j, org, delay, grant) IN
         /\ GoodRec(n) /\ Active(n) /\ n.org = org /\ n.grants = grant
         /\ n.ids = m.ids \cup {j} /\ n.sub = now
<1> DEFINE dl  == now + MaxAge[Lane[org]]
           exp == now + (IF User[org] > 0 THEN Sooner(PayloadTTL, MaxAge[Lane[org]])
                         ELSE MaxAge[Lane[org]])
           st0 == IF delay > 0 THEN "delayed" ELSE "queued"
           zd  == IF delay > 0 THEN now + delay ELSE m.zDelay
           n == [m EXCEPT !.st = st0, !.org = org, !.rev = 1, !.att = 0, !.seq = admits + 1,
                          !.sub = now, !.qdl = dl, !.own = NoTok, !.fin = NoTok,
                          !.grants = grant, !.elig = FALSE, !.pay = TRUE,
                          !.ids = @ \cup {j}, !.zDead = dl, !.zPay = exp,
                          !.zReady = delay <= 0, !.zDelay = zd,
                          !.nActive = @ + 1, !.nByte = @ + Size[org]]
<1>1. m \in JobRec /\ Admitted(m, j, org, delay, grant) \in JobRec
  BY AdmittedType DEF GoodRec
<1>2. Admitted(m, j, org, delay, grant) = n BY DEF Admitted
<1>3. n \in JobRec BY <1>1, <1>2
<1>4. ~Held(m) /\ m.zDelay = Never /\ m.zRun = Never /\ m.nActive = 0 /\ m.nHeld = 0
  <2>1. ~Held(m) /\ m.st # "delayed" BY States DEF Active, ActiveStates
  <2>2. m.nActive = 0 /\ m.nHeld = 0 BY <2>1 DEF GoodRec, CoherentRec, Flag
  <2>3. m.zDelay = Never /\ m.zRun = Never BY <2>1 DEF GoodRec, CoherentRec
  <2> QED BY <2>1, <2>2, <2>3
<1>5. MaxAge[Lane[org]] \in Nat /\ PayloadTTL \in Nat BY ConstTypes
<1>6. dl \in Nat /\ dl # Never /\ exp # Never
  <2>1. dl \in Nat /\ exp \in Nat BY <1>5 DEF Sooner
  <2> HIDE DEF dl, exp
  <2> QED BY <2>1 DEF Never
<1>7. \/ st0 = "delayed" /\ (delay <= 0) = FALSE /\ zd # Never
      \/ st0 = "queued" /\ (delay <= 0) = TRUE /\ zd = Never
  <2>1. now + delay # Never BY DEF Never
  <2> QED BY <1>4, <2>1
<1>8. dl = now + MaxAge[Lane[org]] OBVIOUS
<1> HIDE DEF dl, exp, zd, st0
<1>9. /\ n.st = st0 /\ n.own = NoTok /\ n.zDead = dl /\ n.zPay = exp /\ n.qdl = dl
      /\ n.zReady = (delay <= 0) /\ n.zDelay = zd /\ n.org = org /\ n.att = 0 /\ n.sub = now
      /\ n.grants = grant /\ n.elig = FALSE /\ n.pay = TRUE /\ n.ids = m.ids \cup {j}
  BY <1>1 DEF JobRec
<1>10. /\ n.zRun = m.zRun /\ n.zMeta = m.zMeta /\ n.nActive = m.nActive + 1 /\ n.nHeld = m.nHeld
       /\ n.nByte = m.nByte + Size[org]
  BY <1>1 DEF JobRec
<1> HIDE DEF n
<1>11. WaitingValues(n)
  <2>1. ActiveValues(n) BY <1>4, <1>6, <1>9, <1>10 DEF ActiveValues
  <2>2. n.zReady = (n.st = "queued") /\ (n.zDelay # Never) = (n.st = "delayed")
    BY <1>7, <1>9
  <2> QED BY <1>4, <1>7, <1>9, <1>10, <2>1, <2>2 DEF WaitingValues
<1>12. CoherentRec(n) /\ Active(n)
  BY <1>3, <1>11, CoherentActive DEF WaitingValues, Active, ActiveStates
<1>13. DatedRec(n)
  <2>1. n.att <= MaxAttempts BY <1>9, StoreAssumption DEF StoreAssumption
  <2>2. dl <= now + Life(org) BY <1>5, <1>8, ConstTypes DEF Life
  <2> QED BY <1>8, <1>9, <2>1, <2>2 DEF DatedRec
<1> QED BY <1>2, <1>3, <1>9, <1>12, <1>13 DEF GoodRec

-----------------------------------------------------------------------------
(* The invariant: what a job's records, identity and conflict keys say of  *)
(* each other, whatever was outstanding before the command.                *)

KnownBy(J, I) ==
  \A j \in AllJobs : Active(J[j]) /\ J[j].zDead > now
    => I[j].to = j /\ I[j].exp >= J[j].sub + MetaTTL

OwnedBy(J) ==
  \A h \in AllJobs :
    /\ J[h].st # "absent" => User[J[h].org] = Account(h) /\ (h \in Jobs => J[h].org = h)
    /\ \A i \in J[h].ids : Account(i) = Account(h)
    /\ h \in Kids => J[h].grants = 0

KeyedBy(J, C) ==
  \A c \in ConflictKeys :
    /\ C[c] # NoJob => C[c] \in AllJobs /\ Active(J[C[c]]) /\ c \in Keys[J[C[c]].org]
    /\ \A j \in AllJobs : Active(J[j]) /\ c \in Keys[J[j].org] => C[c] = j

\* Every record is coherent and dated.
Good == \A j \in AllJobs : GoodRec(job[j])

\* A job that is not overdue is the one its identity leads to, for a day.
Known == KnownBy(job, idem)

\* A record, its identities and its handler belong to one account; a retried
\* job has no grant.
Owned == OwnedBy(job)

\* A conflict key names the active job that has it, and no other has it.
Keyed == KeyedBy(job, conflict)

LifeInv == Good /\ Known /\ Owned /\ Keyed

\* K continues every job, keeps every identity and revives nothing overdue.
Plain(K) ==
  \A j \in AllJobs :
    /\ GoodRec(K[j]) /\ Continues(job[j], K[j]) /\ KeepsIds(job[j], K[j])
    /\ Active(K[j]) => job[j].zDead > now

\* What a command makes of the swept jobs, as long as it moves each of them.
LEMMA PlainMoves ==
  ASSUME TypeOK, Good, NEW K, \A j \in AllJobs : Moves(Swept[j], K[j])
  PROVE  Plain(K)
<1> SUFFICES ASSUME NEW j \in AllJobs
             PROVE  /\ GoodRec(K[j]) /\ Continues(job[j], K[j]) /\ KeepsIds(job[j], K[j])
                    /\ Active(K[j]) => job[j].zDead > now
  BY DEF Plain
<1>1. Swept[j] = sweep(job[j]) BY DEF Swept
<1>2. now \in Nat /\ GoodRec(job[j]) BY DEF TypeOK, Good
<1>3. /\ Continues(job[j], Swept[j]) /\ KeepsIds(job[j], Swept[j])
      /\ Active(Swept[j]) => job[j].zDead > now
  BY <1>1, <1>2, SweepGood
<1>4. Moves(Swept[j], K[j]) OBVIOUS
<1> QED BY <1>3, <1>4 DEF Moves, Continues, KeepsIds

\* The sweep alone.
LEMMA SweptGood ==
  ASSUME TypeOK, Good
  PROVE  /\ \A j \in AllJobs : GoodRec(Swept[j]) /\ Moves(Swept[j], Swept[j])
         /\ \A j \in AllJobs : Active(Swept[j]) => Swept[j].zDead > now
         /\ Plain(Swept)
<1>1. ASSUME NEW j \in AllJobs
      PROVE  GoodRec(Swept[j]) /\ (Active(Swept[j]) => Swept[j].zDead > now)
  <2>1. Swept[j] = sweep(job[j]) BY DEF Swept
  <2>2. now \in Nat /\ GoodRec(job[j]) BY DEF TypeOK, Good
  <2> QED BY <2>1, <2>2, SweepGood
<1>2. \A j \in AllJobs : Moves(Swept[j], Swept[j]) BY <1>1, MovesSelf
<1>3. Plain(Swept) BY <1>2, PlainMoves
<1> QED BY <1>1, <1>2, <1>3

\* The identity of a job that stays active is neither forgotten nor expired,
\* unless a command deletes it with the identities of another job.
LEMMA KnownKept ==
  ASSUME TypeOK, LifeInv, NEW K, NEW j \in AllJobs, Continues(job[j], K[j]), Active(K[j]),
         job[j].zDead > now, \A h \in AllJobs : j \notin Identities(job[h]) \ K[h].ids
  PROVE  IdemAfter(K)[j].to = j /\ IdemAfter(K)[j].exp >= K[j].sub + MetaTTL
<1>1. /\ GoodRec(job[j]) /\ job[j] \in JobRec /\ now \in Nat
      /\ Active(job[j]) /\ K[j].sub = job[j].sub
  BY DEF LifeInv, Good, Continues, GoodRec, TypeOK
<1>2. idem[j].to = j /\ idem[j].exp >= job[j].sub + MetaTTL
  BY <1>1 DEF LifeInv, Known, KnownBy
<1>3. /\ job[j].sub \in Nat /\ job[j].org \in Jobs /\ job[j].sub <= now
      /\ job[j].zDead <= job[j].sub + Life(job[j].org) /\ job[j].zDead \in Int
  BY <1>1 DEF JobRec, GoodRec, DatedRec, Time, Never
<1>4. Life(job[j].org) <= MetaTTL /\ Life(job[j].org) \in Nat /\ MetaTTL \in Nat
  BY <1>3, ConstTypes, StoreAssumption DEF StoreAssumption, Life
<1>5. idem[j] \in [to : AllJobs \cup {NoJob}, exp : Nat] BY DEF TypeOK
<1>6. ~(idem[j].exp <= now) BY <1>1, <1>2, <1>3, <1>4, <1>5
<1>7. IdemAfter(K)[j] \in {[idem[j] EXCEPT !.exp = now + MetaTTL], idem[j]}
  BY <1>6 DEF IdemAfter
<1>8. /\ [idem[j] EXCEPT !.exp = now + MetaTTL].to = idem[j].to
      /\ [idem[j] EXCEPT !.exp = now + MetaTTL].exp = now + MetaTTL
  BY <1>5
<1>9. now + MetaTTL >= K[j].sub + MetaTTL BY <1>1, <1>3, <1>4
<1> QED BY <1>1, <1>2, <1>7, <1>8, <1>9

\* A plain command keeps every active job known under its identity.
LEMMA PlainKnown ==
  ASSUME TypeOK, LifeInv, NEW K, Plain(K), NEW j \in AllJobs, Active(K[j])
  PROVE  IdemAfter(K)[j].to = j /\ IdemAfter(K)[j].exp >= K[j].sub + MetaTTL
<1>1. \A h \in AllJobs : j \notin Identities(job[h]) \ K[h].ids
  BY DEF Identities, Plain, KeepsIds
<1> QED BY <1>1, KnownKept DEF Plain

\* Continuing a job changes neither its account nor those of its identities.
LEMMA PlainOwned ==
  ASSUME TypeOK, LifeInv, NEW K, Plain(K)
  PROVE  OwnedBy(K)
<1> SUFFICES ASSUME NEW h \in AllJobs
             PROVE  /\ K[h].st # "absent" => User[K[h].org] = Account(h) /\ (h \in Jobs => K[h].org = h)
                    /\ \A i \in K[h].ids : Account(i) = Account(h)
                    /\ h \in Kids => K[h].grants = 0
  BY DEF OwnedBy
<1>1. Continues(job[h], K[h]) BY DEF Plain
<1>2. /\ job[h].st # "absent" => User[job[h].org] = Account(h) /\ (h \in Jobs => job[h].org = h)
      /\ \A i \in job[h].ids : Account(i) = Account(h)
      /\ h \in Kids => job[h].grants = 0
  BY DEF LifeInv, Owned, OwnedBy
<1> QED BY <1>1, <1>2 DEF Continues

\* A key is given up when its job settles, and only then.
LEMMA KeyedKept ==
  ASSUME LifeInv, NEW K,
         \A j \in AllJobs : K[j].org = job[j].org /\ (Active(K[j]) => Active(job[j]))
  PROVE  KeyedBy(K, ConflictAfter(K))
<1> SUFFICES ASSUME NEW c \in ConflictKeys
             PROVE  /\ ConflictAfter(K)[c] # NoJob =>
                         /\ ConflictAfter(K)[c] \in AllJobs
                         /\ Active(K[ConflictAfter(K)[c]])
                         /\ c \in Keys[K[ConflictAfter(K)[c]].org]
                    /\ \A j \in AllJobs : Active(K[j]) /\ c \in Keys[K[j].org]
                                            => ConflictAfter(K)[c] = j
  BY DEF KeyedBy
<1>1. /\ conflict[c] # NoJob => /\ conflict[c] \in AllJobs /\ Active(job[conflict[c]])
                                /\ c \in Keys[job[conflict[c]].org]
      /\ \A j \in AllJobs : Active(job[j]) /\ c \in Keys[job[j].org] => conflict[c] = j
  BY DEF LifeInv, Keyed, KeyedBy
<1>2. \A j \in AllJobs : K[j].org = job[j].org /\ (Active(K[j]) => Active(job[j]))
  OBVIOUS
<1>3. ConflictAfter(K)[c] = IF \E j \in Settled(K) : conflict[c] = j /\ c \in Keys[job[j].org]
                            THEN NoJob ELSE conflict[c]
  BY DEF ConflictAfter
<1>4. ASSUME ConflictAfter(K)[c] # NoJob
      PROVE  /\ ConflictAfter(K)[c] \in AllJobs /\ Active(K[ConflictAfter(K)[c]])
             /\ c \in Keys[K[ConflictAfter(K)[c]].org]
  <2>1. ConflictAfter(K)[c] = conflict[c] /\ conflict[c] # NoJob BY <1>3, <1>4
  <2>2. conflict[c] \notin Settled(K) BY <1>1, <1>3, <1>4, <2>1
  <2>3. Active(K[conflict[c]]) BY <1>1, <2>1, <2>2 DEF Settled
  <2> QED BY <1>1, <1>2, <2>1, <2>3
<1>5. ASSUME NEW j \in AllJobs, Active(K[j]), c \in Keys[K[j].org]
      PROVE  ConflictAfter(K)[c] = j
  <2>1. conflict[c] = j BY <1>1, <1>2, <1>5
  <2>2. j \notin Settled(K) BY <1>5 DEF Settled
  <2> QED BY <1>3, <2>1, <2>2
<1> QED BY <1>4, <1>5

\* A plain command keeps every active job in possession of its keys.
LEMMA PlainKeyed ==
  ASSUME LifeInv, NEW K, Plain(K) PROVE KeyedBy(K, ConflictAfter(K))
BY KeyedKept DEF Plain, Continues

\* The parts of the invariant in the next state.
LEMMA LifePrime ==
  ASSUME now' = now, NEW K, job' = K, \A j \in AllJobs : GoodRec(K[j]),
         NEW I, idem' = I, KnownBy(K, I), OwnedBy(K),
         NEW C, conflict' = C, KeyedBy(K, C)
  PROVE  LifeInv'
<1>1. Good' BY DEF Good, GoodRec, CoherentRec, DatedRec, Active, Held
<1>2. Known' BY DEF Known, KnownBy, Active
<1>3. Owned' BY DEF Owned, OwnedBy
<1>4. Keyed' BY DEF Keyed, KeyedBy, Active
<1> QED BY <1>1, <1>2, <1>3, <1>4 DEF LifeInv

\* A command that moves the swept jobs preserves the invariant.
LEMMA LifeMoves ==
  ASSUME TypeOK, LifeInv, NEW K, \A j \in AllJobs : Moves(Swept[j], K[j]),
         now' = now, job' = K, idem' = IdemAfter(K), conflict' = ConflictAfter(K)
  PROVE  LifeInv'
<1>1. Plain(K) BY PlainMoves DEF LifeInv
<1>2. KnownBy(K, IdemAfter(K)) BY <1>1, PlainKnown DEF KnownBy
<1>3. OwnedBy(K) /\ KeyedBy(K, ConflictAfter(K)) BY <1>1, PlainOwned, PlainKeyed
<1>4. \A j \in AllJobs : GoodRec(K[j]) BY <1>1 DEF Plain
<1> QED BY <1>2, <1>3, <1>4, LifePrime

\* The identity of a job that was swept and is still active leads to it.
LEMMA SweptKnown ==
  ASSUME TypeOK, LifeInv, NEW j \in AllJobs, Active(Swept[j])
  PROVE  IdemAfter(Swept)[j].to = j /\ IdemAfter(Swept)[j].exp >= Swept[j].sub + MetaTTL
BY SweptGood, PlainKnown DEF LifeInv

\* Nothing in the model is both a job and no job.
LEMMA JobsNamed == NoJob \notin AllJobs BY StoreAssumption DEF StoreAssumption

\* An admission: its identity led to no job, so the record it takes over is
\* not active, and nobody held one of its keys.
LEMMA LifeAccept ==
  ASSUME TypeOK, LifeInv, NEW K \in [AllJobs -> JobRec],
         \A i \in AllJobs : Moves(Swept[i], K[i]) /\ (Active(K[i]) <=> Active(Swept[i])),
         NEW j \in AllJobs, NEW org \in Jobs, NEW delay \in Nat, NEW grant \in {0, 1},
         User[org] = Account(j), j \in Jobs => org = j, j \in Kids => grant = 0,
         Accept(K, j, org, delay, grant), now' = now
  PROVE  LifeInv'
<1> DEFINE a == Admitted(K[j], j, org, delay, grant)
           J == [K EXCEPT ![j] = a]
           C == [c \in ConflictKeys |-> IF c \in Keys[org] THEN j ELSE ConflictAfter(Swept)[c]]
           I == Remembered(j, j)
<1>1. /\ IdemAfter(Swept)[j].to = NoJob /\ Holders(org) = {}
      /\ job' = J /\ conflict' = C /\ idem' = I
  BY DEF Accept
<1>2. ~Active(K[j])
  <2>1. Active(Swept[j]) => IdemAfter(Swept)[j].to = j BY SweptKnown
  <2> QED BY <1>1, <2>1, JobsNamed
<1>3. Plain(Swept) /\ Plain(K) BY SweptGood, PlainMoves DEF LifeInv
<1>4. GoodRec(K[j]) /\ now \in Nat /\ admits \in Nat BY <1>3 DEF Plain, TypeOK
<1>5. /\ GoodRec(a) /\ Active(a) /\ a.org = org /\ a.grants = grant
      /\ a.ids = K[j].ids \cup {j} /\ a.sub = now
  BY <1>2, <1>4, AdmittedGood
<1>6. J[j] = a /\ (\A i \in AllJobs : i # j => J[i] = K[i]) OBVIOUS
<1> HIDE DEF a, J
<1>7. \A i \in AllJobs : GoodRec(J[i]) BY <1>3, <1>5, <1>6 DEF Plain
<1>8. KnownBy(J, I)
  <2> SUFFICES ASSUME NEW i \in AllJobs, Active(J[i])
               PROVE  I[i].to = i /\ I[i].exp >= J[i].sub + MetaTTL
    BY DEF KnownBy
  <2>1. IdemAfter(Swept) \in [AllJobs -> [to : AllJobs \cup {NoJob}, exp : Nat]]
    BY AfterTypes DEF IdemType
  <2>2. CASE i = j
    <3>1. I[j].to = j /\ I[j].exp = now + MetaTTL BY <2>1 DEF Remembered
    <3>2. now + MetaTTL \in Nat BY <1>4, ConstTypes
    <3> HIDE DEF I
    <3> QED BY <1>5, <1>6, <2>2, <3>1, <3>2
  <2>3. CASE i # j
    <3>1. I[i] = IdemAfter(Swept)[i] BY <2>1, <2>3 DEF Remembered
    <3>2. Active(Swept[i]) /\ J[i].sub = Swept[i].sub
      BY <1>6, <2>3 DEF Moves, Continues
    <3> QED BY <3>1, <3>2, SweptKnown
  <2> QED BY <2>2, <2>3
<1>9. OwnedBy(J)
  <2>1. OwnedBy(K) BY <1>3, PlainOwned
  <2> SUFFICES ASSUME NEW h \in AllJobs
               PROVE  /\ J[h].st # "absent" => User[J[h].org] = Account(h) /\ (h \in Jobs => J[h].org = h)
                      /\ \A i \in J[h].ids : Account(i) = Account(h)
                      /\ h \in Kids => J[h].grants = 0
    BY DEF OwnedBy
  <2>2. CASE h = j BY <1>5, <1>6, <2>1, <2>2 DEF OwnedBy
  <2>3. CASE h # j BY <1>6, <2>1, <2>3 DEF OwnedBy
  <2> QED BY <2>2, <2>3
<1>10. KeyedBy(J, C)
  <2>1. KeyedBy(Swept, ConflictAfter(Swept)) BY <1>3, PlainKeyed
  <2>2. \A i \in AllJobs : i # j => J[i].org = Swept[i].org /\ (Active(J[i]) <=> Active(Swept[i]))
    BY <1>6 DEF Moves, Continues
  <2>3. ~Active(Swept[j]) BY <1>2
  <2> SUFFICES ASSUME NEW c \in ConflictKeys
               PROVE  /\ C[c] # NoJob => C[c] \in AllJobs /\ Active(J[C[c]]) /\ c \in Keys[J[C[c]].org]
                      /\ \A i \in AllJobs : Active(J[i]) /\ c \in Keys[J[i].org] => C[c] = i
    BY DEF KeyedBy
  <2>4. /\ ConflictAfter(Swept)[c] # NoJob =>
             /\ ConflictAfter(Swept)[c] \in AllJobs /\ Active(Swept[ConflictAfter(Swept)[c]])
             /\ c \in Keys[Swept[ConflictAfter(Swept)[c]].org]
        /\ \A i \in AllJobs : Active(Swept[i]) /\ c \in Keys[Swept[i].org]
                                => ConflictAfter(Swept)[c] = i
    BY <2>1 DEF KeyedBy
  <2>5. CASE c \in Keys[org]
    <3>1. C[c] = j BY <2>5
    <3>2. ConflictAfter(Swept)[c] = NoJob BY <1>1, <2>5 DEF Holders
    <3>3. \A i \in AllJobs : Active(J[i]) /\ c \in Keys[J[i].org] => i = j
      BY <2>2, <2>4, <3>2, JobsNamed
    <3> QED BY <1>5, <1>6, <2>5, <3>1, <3>3
  <2>6. CASE c \notin Keys[org]
    <3>1. C[c] = ConflictAfter(Swept)[c] BY <2>6
    <3>2. \A i \in AllJobs : Active(J[i]) /\ c \in Keys[J[i].org] => i # j
      BY <1>5, <1>6, <2>6
    <3> HIDE DEF C
    <3> QED BY <2>2, <2>3, <2>4, <3>1, <3>2
  <2> QED BY <2>5, <2>6
<1> QED BY <1>1, <1>7, <1>8, <1>9, <1>10, LifePrime

\* An alias belongs to the account of the job that holds the key.
LEMMA LifeAlias ==
  ASSUME TypeOK, LifeInv, NEW i \in AllJobs, NEW org \in Jobs, NEW h \in AllJobs,
         User[org] = Account(i), Alias(i, org, h), now' = now
  PROVE  LifeInv'
<1> DEFINE n == [Swept[h] EXCEPT !.ids = @ \cup {i}]
           J == [Swept EXCEPT ![h] = n]
           I == Remembered(i, h)
<1>1. /\ IdemAfter(Swept)[i].to = NoJob /\ h \in Holders(org)
      /\ job' = [Swept EXCEPT ![h].ids = @ \cup {i}]
      /\ conflict' = ConflictAfter(Swept) /\ idem' = I
  BY DEF Alias
<1>2. Swept \in [AllJobs -> JobRec] BY SweptType
<1>3. job' = J BY <1>1, <1>2
<1>4. Plain(Swept) /\ GoodRec(Swept[h]) BY SweptGood DEF LifeInv
<1>5. OwnedBy(Swept) /\ KeyedBy(Swept, ConflictAfter(Swept))
  BY <1>4, PlainOwned, PlainKeyed
<1>6. /\ n \in JobRec /\ SameButMarks(Swept[h], n) /\ n.ids = Swept[h].ids \cup {i}
  <2>1. Swept[h] \in JobRec BY <1>2
  <2>2. n \in JobRec BY <2>1 DEF JobRec
  <2>3. SameButMarks(Swept[h], n) BY <2>1 DEF SameButMarks, JobRec
  <2>4. n.ids = Swept[h].ids \cup {i} BY <2>1 DEF JobRec
  <2> QED BY <2>2, <2>3, <2>4
<1>7. J[h] = n /\ (\A k \in AllJobs : k # h => J[k] = Swept[k]) BY <1>2
<1> HIDE DEF n, J
<1>8. GoodRec(n) /\ (Active(n) <=> Active(Swept[h])) BY <1>4, <1>6, MarksGood
<1>9. \A k \in AllJobs : GoodRec(J[k]) BY <1>4, <1>7, <1>8 DEF Plain
<1>10. /\ \A k \in AllJobs : /\ J[k].org = Swept[k].org /\ J[k].sub = Swept[k].sub
                             /\ J[k].st = Swept[k].st /\ J[k].grants = Swept[k].grants
       /\ \A k \in AllJobs : Active(J[k]) <=> Active(Swept[k])
  BY <1>6, <1>7, <1>8 DEF SameButMarks
<1>11. Account(h) = Account(i)
  <2>1. PICK c \in Keys[org] : ConflictAfter(Swept)[c] = h BY <1>1 DEF Holders
  <2>2. c \in ConflictKeys BY StoreAssumption DEF StoreAssumption
  <2>3. Active(Swept[h]) /\ c \in Keys[Swept[h].org]
    BY <1>5, <2>1, <2>2, JobsNamed DEF KeyedBy
  <2>4. Swept[h].org \in Jobs BY <1>2 DEF JobRec
  <2>5. User[Swept[h].org] = User[org]
    BY <2>1, <2>3, <2>4, StoreAssumption DEF StoreAssumption
  <2>6. Swept[h].st # "absent" BY <2>3, States
  <2> QED BY <1>5, <2>5, <2>6 DEF OwnedBy
<1>12. KnownBy(J, I)
  <2> SUFFICES ASSUME NEW k \in AllJobs, Active(J[k])
               PROVE  I[k].to = k /\ I[k].exp >= J[k].sub + MetaTTL
    BY DEF KnownBy
  <2>1. IdemAfter(Swept)[k].to = k /\ IdemAfter(Swept)[k].exp >= Swept[k].sub + MetaTTL
    BY <1>10, SweptKnown
  <2>2. k # i BY <1>1, <2>1, JobsNamed
  <2>3. IdemAfter(Swept) \in [AllJobs -> [to : AllJobs \cup {NoJob}, exp : Nat]]
    BY AfterTypes DEF IdemType
  <2>4. I[k] = IdemAfter(Swept)[k] BY <2>2, <2>3 DEF Remembered
  <2> QED BY <1>10, <2>1, <2>4
<1>13. OwnedBy(J)
  <2> SUFFICES ASSUME NEW k \in AllJobs
               PROVE  /\ J[k].st # "absent" => User[J[k].org] = Account(k) /\ (k \in Jobs => J[k].org = k)
                      /\ \A x \in J[k].ids : Account(x) = Account(k)
                      /\ k \in Kids => J[k].grants = 0
    BY DEF OwnedBy
  <2>1. /\ Swept[k].st # "absent" => User[Swept[k].org] = Account(k) /\ (k \in Jobs => Swept[k].org = k)
        /\ \A x \in Swept[k].ids : Account(x) = Account(k)
        /\ k \in Kids => Swept[k].grants = 0
    BY <1>5 DEF OwnedBy
  <2>2. \A x \in J[k].ids : Account(x) = Account(k) BY <1>6, <1>7, <1>11, <2>1
  <2> QED BY <1>10, <2>1, <2>2
<1>14. KeyedBy(J, ConflictAfter(Swept)) BY <1>5, <1>10 DEF KeyedBy
<1> QED BY <1>1, <1>3, <1>9, <1>12, <1>13, <1>14, LifePrime

\* Erasing an account takes the identities of its own jobs only.
LEMMA LifeErase ==
  ASSUME TypeOK, LifeInv, NEW u, Erase(u)
  PROVE  LifeInv'
<1> DEFINE mine == {j \in AllJobs : ~Gone(Swept[j]) /\ User[Swept[j].org] = u}
           K == [j \in AllJobs |-> IF j \in mine THEN Erased(Swept[j]) ELSE Swept[j]]
           I == [i \in AllJobs |-> IF i \in mine THEN [to |-> NoJob, exp |-> 0]
                                   ELSE IdemAfter(K)[i]]
<1>1. job' = K /\ conflict' = ConflictAfter(K) /\ idem' = I /\ now' = now
  BY DEF Erase
<1>2. \A j \in AllJobs : j \in mine <=> ~Gone(Swept[j]) /\ User[Swept[j].org] = u
  OBVIOUS
<1>3. /\ \A j \in AllJobs : j \in mine => K[j] = Erased(Swept[j])
      /\ \A j \in AllJobs : j \notin mine => K[j] = Swept[j] /\ I[j] = IdemAfter(K)[j]
  OBVIOUS
<1> HIDE DEF mine, K, I
<1>4. Plain(Swept) /\ \A j \in AllJobs : GoodRec(Swept[j]) BY SweptGood DEF LifeInv
<1>5. OwnedBy(Swept) BY <1>4, PlainOwned
<1>6. \A j \in mine : /\ GoodRec(K[j]) /\ K[j].st = "absent" /\ ~Active(K[j]) /\ K[j].ids = {}
                      /\ K[j].grants = 0 /\ K[j].org = Swept[j].org
  <2>1. \A j \in mine : j \in AllJobs BY DEF mine
  <2> QED BY <1>3, <1>4, <2>1, ErasedGood
<1>7. \A j \in AllJobs : GoodRec(K[j]) BY <1>3, <1>4, <1>6
<1>8. KnownBy(K, I)
  <2> SUFFICES ASSUME NEW j \in AllJobs, Active(K[j])
               PROVE  I[j].to = j /\ I[j].exp >= K[j].sub + MetaTTL
    BY DEF KnownBy
  <2>1. j \notin mine /\ K[j] = Swept[j] /\ I[j] = IdemAfter(K)[j] BY <1>3, <1>6
  <2>2. Continues(job[j], K[j]) /\ job[j].zDead > now BY <1>4, <2>1 DEF Plain
  <2>3. Swept[j].st # "absent" /\ ~Gone(Swept[j])
    BY <2>1, States DEF Gone
  <2>4. Account(j) # u BY <1>2, <1>5, <2>1, <2>3 DEF OwnedBy
  <2>5. ASSUME NEW h \in AllJobs PROVE j \notin Identities(job[h]) \ K[h].ids
    <3>1. CASE h \notin mine BY <1>3, <1>4, <3>1 DEF Plain, KeepsIds, Identities
    <3>2. CASE h \in mine
      <4>1. Swept[h].st # "absent" /\ User[Swept[h].org] = u BY <1>2, <3>2 DEF Gone
      <4>2. Account(h) = u BY <1>5, <4>1 DEF OwnedBy
      <4>3. \A i \in job[h].ids : Account(i) = u BY <4>2 DEF LifeInv, Owned, OwnedBy
      <4> QED BY <2>4, <4>3 DEF Identities
    <3> QED BY <3>1, <3>2
  <2>6. IdemAfter(K)[j].to = j /\ IdemAfter(K)[j].exp >= K[j].sub + MetaTTL
    BY <2>2, <2>5, KnownKept
  <2> QED BY <2>1, <2>6
<1>9. OwnedBy(K)
  <2> SUFFICES ASSUME NEW h \in AllJobs
               PROVE  /\ K[h].st # "absent" => User[K[h].org] = Account(h) /\ (h \in Jobs => K[h].org = h)
                      /\ \A i \in K[h].ids : Account(i) = Account(h)
                      /\ h \in Kids => K[h].grants = 0
    BY DEF OwnedBy
  <2>1. CASE h \in mine BY <1>6, <2>1
  <2>2. CASE h \notin mine BY <1>3, <1>5, <2>2 DEF OwnedBy
  <2> QED BY <2>1, <2>2
<1>10. KeyedBy(K, ConflictAfter(K))
  <2>1. \A j \in AllJobs : Swept[j].org = job[j].org /\ (Active(Swept[j]) => Active(job[j]))
    BY <1>4 DEF Plain, Continues
  <2>2. \A j \in AllJobs : K[j].org = job[j].org /\ (Active(K[j]) => Active(job[j]))
    BY <1>3, <1>6, <2>1
  <2> QED BY <2>2, KeyedKept
<1> QED BY <1>1, <1>7, <1>8, <1>9, <1>10, LifePrime

\* Nothing was ever admitted.
LEMMA LifeInit == Init => LifeInv
<1> SUFFICES ASSUME Init PROVE LifeInv
  OBVIOUS
<1>1. now = 0 /\ \A j \in AllJobs : job[j] = NoRec BY DEF Init
<1>2. NoRec \in JobRec BY NoRecType
<1>3. /\ NoRec.st = "absent" /\ NoRec.grants = 0 /\ NoRec.ids = {} /\ NoRec.zMeta = Never
      /\ NoRec.zReady = FALSE /\ NoRec.zDelay = Never /\ NoRec.zDead = Never
      /\ NoRec.zRun = Never /\ NoRec.zPay = Never /\ NoRec.pay = FALSE /\ NoRec.elig = FALSE
      /\ NoRec.own = NoTok /\ NoRec.att = 0 /\ NoRec.nActive = 0 /\ NoRec.nHeld = 0
  BY DEF NoRec
<1>4. ~Active(NoRec) /\ ~Held(NoRec) /\ NoRec.st \notin EndStates
  BY <1>3, States DEF EndStates
<1>5. CoherentRec(NoRec)
  <2>1. Active(NoRec) = FALSE /\ Held(NoRec) = FALSE BY <1>4
  <2> QED BY <1>3, <1>4, <2>1 DEF CoherentRec, Flag
<1>6. DatedRec(NoRec) BY <1>3, <1>4, StoreAssumption DEF DatedRec, StoreAssumption
<1>7. Good BY <1>1, <1>2, <1>5, <1>6 DEF Good, GoodRec
<1>8. Known /\ Owned BY <1>1, <1>3, <1>4 DEF Known, KnownBy, Owned, OwnedBy
<1>9. Keyed BY <1>1, <1>4 DEF Keyed, KeyedBy, Init
<1> QED BY <1>7, <1>8, <1>9 DEF LifeInv

\* Time only makes jobs overdue.
LEMMA LifeTick == ASSUME TypeOK, LifeInv, Tick PROVE LifeInv'
<1>1. now' = now + 1 /\ now \in Nat /\ UNCHANGED <<job, idem, conflict>>
  BY DEF Tick, TypeOK
<1>2. Good'
  <2> SUFFICES ASSUME NEW j \in AllJobs PROVE GoodRec(job[j])' BY DEF Good
  <2>1. job[j] \in JobRec /\ CoherentRec(job[j]) /\ DatedRec(job[j])
    BY DEF LifeInv, Good, GoodRec
  <2>2. job[j].sub \in Nat /\ MaxAttempts \in Nat
    BY <2>1, StoreAssumption DEF JobRec, StoreAssumption
  <2>3. CoherentRec(job[j])' BY <1>1, <2>1 DEF CoherentRec, Active, Held
  <2>4. DatedRec(job[j])' BY <1>1, <2>1, <2>2 DEF DatedRec, Active
  <2> QED BY <1>1, <2>1, <2>3, <2>4 DEF GoodRec
<1>3. Known'
  <2>1. \A j \in AllJobs : job[j].zDead \in Int BY DEF TypeOK, JobRec, Time, Never
  <2> QED BY <1>1, <2>1 DEF LifeInv, Known, KnownBy, Active
<1>4. Owned' BY <1>1 DEF LifeInv, Owned, OwnedBy
<1>5. Keyed' BY <1>1 DEF LifeInv, Keyed, KeyedBy, Active
<1> QED BY <1>2, <1>3, <1>4, <1>5 DEF LifeInv

\* A command that changes each of the swept jobs by a move and admits none.
Moved ==
  /\ \A j \in AllJobs : Moves(Swept[j], job'[j])
  /\ idem' = IdemAfter(job') /\ conflict' = ConflictAfter(job') /\ now' = now

\* All commands do, but admissions, retries, aliases and erasures.
LEMMA Commands ==
  ASSUME TypeOK, LifeInv, Next
  PROVE  \/ Tick \/ Producer \/ Moved
         \/ \E o \in Ops, j \in AllJobs : Retry(o, j) \/ RetryAlias(o, j)
<1>a. /\ now \in Nat /\ claims + 1 \in Nat
      /\ \A j \in AllJobs : GoodRec(Swept[j]) /\ Moves(Swept[j], Swept[j])
      /\ \A j \in AllJobs : Active(Swept[j]) => Swept[j].zDead > now
  BY SweptGood DEF TypeOK, LifeInv
<1>b. Swept \in [AllJobs -> JobRec] BY SweptType
<1>c. ASSUME job' = Swept, idem' = IdemAfter(Swept), conflict' = ConflictAfter(Swept), now' = now
      PROVE  Moved
  BY <1>a, <1>c DEF Moved
<1>d. ASSUME NEW j \in AllJobs, NEW n, Moves(Swept[j], n), job' = [Swept EXCEPT ![j] = n],
             idem' = IdemAfter([Swept EXCEPT ![j] = n]),
             conflict' = ConflictAfter([Swept EXCEPT ![j] = n]), now' = now
      PROVE  Moved
  <2> DEFINE K == [Swept EXCEPT ![j] = n]
  <2>1. \A i \in AllJobs : Moves(Swept[i], K[i]) BY <1>a, <1>b, <1>d
  <2>2. job' = K /\ idem' = IdemAfter(K) /\ conflict' = ConflictAfter(K) BY <1>d
  <2> HIDE DEF K
  <2> QED BY <1>d, <2>1, <2>2 DEF Moved
<1>1. CASE Sweep BY <1>1, <1>c DEF Sweep, Commit
<1>2. ASSUME NEW l \in Lanes, Claim(l) PROVE Moved
  <2> DEFINE K(j) == [i \in AllJobs |->
                       IF i = j THEN Claimed(Swept[i], claims + 1)
                       ELSE IF i \in Ready(l) /\ Before(Swept[i], Swept[j])
                       THEN Passed(Swept[i]) ELSE Swept[i]]
  <2>1. PICK j \in AllJobs :
          /\ Claimable(Swept[j]) /\ job' = K(j)
          /\ conflict' = ConflictAfter(K(j)) /\ idem' = IdemAfter(K(j))
    BY <1>2 DEF Claim, Ready
  <2>2. now' = now BY <1>2 DEF Claim
  <2>3. Moves(Swept[j], Claimed(Swept[j], claims + 1))
    <3>1. Swept[j].st = "queued" /\ Swept[j].att < MaxAttempts BY <2>1 DEF Claimable
    <3>2. Swept[j].zDead > now BY <1>a, <3>1 DEF Active, ActiveStates
    <3> QED BY <1>a, <3>1, <3>2, ClaimedMoves
  <2>4. \A i \in AllJobs : i \in Ready(l) => Moves(Swept[i], Passed(Swept[i]))
    BY <1>a, PassedMoves DEF Ready
  <2>5. \A i \in AllJobs : Moves(Swept[i], K(j)[i]) BY <1>a, <2>3, <2>4
  <2> HIDE DEF K
  <2> QED BY <2>1, <2>2, <2>5 DEF Moved
<1>3. ASSUME NEW j \in AllJobs, NEW tok, NEW rev, Heartbeat(j, tok, rev) PROVE Moved
  <2> DEFINE n == [Swept[j] EXCEPT !.zRun = now + Lease]
             K == [Swept EXCEPT ![j] = n]
  <2>1. /\ Held(Swept[j]) /\ job' = [Swept EXCEPT ![j].zRun = now + Lease]
        /\ conflict' = ConflictAfter(Swept) /\ idem' = IdemAfter(Swept) /\ now' = now
    BY <1>3 DEF Heartbeat, Owns
  <2>2. job' = K BY <1>b, <2>1
  <2>3. Moves(Swept[j], n) BY <1>a, <2>1, RenewedMoves
  <2>4. n.st = Swept[j].st /\ n.ids = Swept[j].ids
    <3>1. Swept[j] \in JobRec BY <1>b
    <3> QED BY <3>1 DEF JobRec
  <2> HIDE DEF n
  <2>5. \A i \in AllJobs : K[i].ids = Swept[i].ids /\ (Active(K[i]) <=> Active(Swept[i]))
    BY <1>b, <2>4 DEF Active
  <2> HIDE DEF K
  <2>6. Settled(K) = Settled(Swept) BY <2>5 DEF Settled
  <2>7. ConflictAfter(K) = ConflictAfter(Swept) BY <2>6 DEF ConflictAfter
  <2>8. IdemAfter(K) = IdemAfter(Swept) BY <2>5, <2>6 DEF IdemAfter
  <2> QED BY <1>d, <2>1, <2>2, <2>3, <2>7, <2>8 DEF K
<1>4. ASSUME NEW j \in AllJobs, NEW tok, NEW rev, NEW out, NEW d \in Delays,
             Finish(j, tok, rev, out, d)
      PROVE  Moved
  <2> DEFINE n == [Finished(Swept[j], out, d) EXCEPT !.fin = tok]
  <2>1. /\ Held(Swept[j]) /\ tok = Swept[j].own /\ Commit([Swept EXCEPT ![j] = n]) /\ now' = now
    BY <1>4 DEF Finish, Owns
  <2>2. tok \in Nat \cup {NoTok} BY <1>b, <2>1 DEF JobRec
  <2>3. Moves(Swept[j], n) BY <1>a, <2>1, <2>2, FinishedMoves, ConstTypes
  <2> HIDE DEF n
  <2> QED BY <1>d, <2>1, <2>3 DEF Commit
<1>5. ASSUME NEW o \in Ops, NEW j \in AllJobs, Cancel(o, j) PROVE Moved
  <2> DEFINE n == Cancelled(Swept[j])
             K == [Swept EXCEPT ![j] = n]
  <2>1. [Swept EXCEPT ![j] = Cancelled(@)] = K BY <1>b
  <2>2. job' = K /\ conflict' = ConflictAfter(K) /\ idem' = IdemAfter(K) /\ now' = now
    BY <1>5, <2>1 DEF Cancel
  <2>3. Moves(Swept[j], n) BY <1>a, CancelledMoves
  <2> HIDE DEF n
  <2> QED BY <1>d, <2>2, <2>3
<1>6. ASSUME NEW o \in Ops, NEW l \in Lanes, NEW a \in BOOLEAN, NEW c \in BOOLEAN,
              SetLane(o, l, a, c)
       PROVE  Moved
  BY <1>6, <1>c DEF SetLane
<1>7. ASSUME NEW l \in Lanes, ClaimNothing(l) PROVE Moved
  <2> DEFINE K == [i \in AllJobs |-> IF i \in Ready(l) THEN Passed(Swept[i]) ELSE Swept[i]]
  <2>1. Commit(K) /\ now' = now BY <1>7 DEF ClaimNothing
  <2>2. \A i \in AllJobs : i \in Ready(l) => Moves(Swept[i], Passed(Swept[i]))
    BY <1>a, PassedMoves DEF Ready
  <2>3. \A i \in AllJobs : Moves(Swept[i], K[i]) BY <1>a, <2>2
  <2> HIDE DEF K
  <2> QED BY <2>1, <2>3 DEF Commit, Moved
<1> QED BY <1>1, <1>2, <1>3, <1>4, <1>5, <1>6, <1>7 DEF Next, Worker, Operator

\* A retry is an admission of the child over jobs of which one is spent.
LEMMA RetryAccepts ==
  ASSUME TypeOK, LifeInv, NEW o \in Ops, NEW j \in AllJobs, Retry(o, j)
  PROVE  LET m == Swept[j]
             K == [Swept EXCEPT ![j] = Spent(m)]
         IN  /\ K \in [AllJobs -> JobRec]
             /\ \A i \in AllJobs : Moves(Swept[i], K[i]) /\ (Active(K[i]) <=> Active(Swept[i]))
             /\ KidOf[o] \in Kids /\ KidOf[o] \in AllJobs /\ KidOf[o] \notin Jobs /\ m.org \in Jobs
             /\ User[m.org] = Account(KidOf[o])
             /\ ~Active(Spent(m)) /\ ~Spent(m).elig
             /\ Accept(K, KidOf[o], m.org, 0, 0) /\ now' = now
<1> DEFINE m == Swept[j]
           K == [Swept EXCEPT ![j] = Spent(m)]
<1>a. \A i \in AllJobs : GoodRec(Swept[i]) /\ Moves(Swept[i], Swept[i])
  BY SweptGood DEF LifeInv
<1>b. Swept \in [AllJobs -> JobRec] BY SweptType
<1>1. /\ User[m.org] = KidUser[KidOf[o]] /\ m.st \in {"failed", "expired"}
      /\ Accept(K, KidOf[o], m.org, 0, 0) /\ now' = now
  BY DEF Retry, ForJob, Retriable
<1>2. ~Active(m) BY <1>1, States DEF EndStates
<1>3. Moves(m, Spent(m)) /\ ~Active(Spent(m)) /\ ~Spent(m).elig BY <1>a, <1>2, SpentMoves
<1>4. Spent(m) \in JobRec BY <1>3 DEF Moves, GoodRec
<1>5. K \in [AllJobs -> JobRec] BY <1>b, <1>4
<1>6. \A i \in AllJobs : Moves(Swept[i], K[i]) /\ (Active(K[i]) <=> Active(Swept[i]))
  BY <1>a, <1>b, <1>2, <1>3
<1>7. /\ KidOf[o] \in Kids /\ KidOf[o] \in AllJobs /\ KidOf[o] \notin Jobs
      /\ m.org \in Jobs
  BY <1>b, StoreAssumption DEF StoreAssumption, AllJobs, JobRec
<1>8. User[m.org] = Account(KidOf[o]) BY <1>1, <1>7 DEF Account
<1> QED BY <1>1, <1>3, <1>5, <1>6, <1>7, <1>8

\* Every command preserves the invariant.
LEMMA LifeStep == TypeOK /\ LifeInv /\ [Next]_storeVars => LifeInv'
<1> SUFFICES ASSUME TypeOK, LifeInv, [Next]_storeVars PROVE LifeInv'
  OBVIOUS
<1>a. \A j \in AllJobs : Moves(Swept[j], Swept[j]) BY SweptGood DEF LifeInv
<1>b. Swept \in [AllJobs -> JobRec] BY SweptType
<1>1. CASE Tick BY <1>1, LifeTick
<1>2. CASE Moved
  <2> DEFINE K == job'
  <2>1. /\ \A j \in AllJobs : Moves(Swept[j], K[j])
        /\ job' = K /\ idem' = IdemAfter(K) /\ conflict' = ConflictAfter(K) /\ now' = now
    BY <1>2 DEF Moved
  <2> HIDE DEF K
  <2> QED BY <2>1, LifeMoves
<1>3. ASSUME NEW j \in Jobs, NEW d \in Delays, Admit(j, d) PROVE LifeInv'
  <2>1. j \in AllJobs /\ j \notin Kids /\ User[j] = Account(j) /\ d \in Nat
    BY StoreAssumption DEF StoreAssumption, AllJobs, Account
  <2>2. Accept(Swept, j, j, d, 1) /\ now' = now BY <1>3 DEF Admit
  <2> QED BY <1>a, <1>b, <2>1, <2>2, LifeAccept
<1>4. ASSUME NEW j \in Jobs, AdmitAlias(j) PROVE LifeInv'
  <2>1. j \in AllJobs /\ User[j] = Account(j) BY DEF AllJobs, Account
  <2>2. PICK h \in AllJobs : Alias(j, j, h) BY <1>4 DEF AdmitAlias
  <2>3. now' = now BY <1>4 DEF AdmitAlias
  <2> QED BY <2>1, <2>2, <2>3, LifeAlias
<1>5. ASSUME NEW u \in Users, Erase(u) PROVE LifeInv' BY <1>5, LifeErase
<1>6. ASSUME NEW o \in Ops, NEW j \in AllJobs, Retry(o, j) PROVE LifeInv'
  <2> DEFINE m == Swept[j]
             K == [Swept EXCEPT ![j] = Spent(m)]
  <2>1. /\ K \in [AllJobs -> JobRec]
        /\ \A i \in AllJobs : Moves(Swept[i], K[i]) /\ (Active(K[i]) <=> Active(Swept[i]))
        /\ KidOf[o] \in Kids /\ KidOf[o] \in AllJobs /\ KidOf[o] \notin Jobs /\ m.org \in Jobs
        /\ User[m.org] = Account(KidOf[o]) /\ Accept(K, KidOf[o], m.org, 0, 0) /\ now' = now
    BY <1>6, RetryAccepts
  <2> HIDE DEF K
  <2> QED BY <2>1, LifeAccept
<1>7. ASSUME NEW o \in Ops, NEW j \in AllJobs, RetryAlias(o, j) PROVE LifeInv'
  <2> DEFINE m == Swept[j]
  <2>1. User[m.org] = KidUser[KidOf[o]] /\ now' = now BY <1>7 DEF RetryAlias, ForJob
  <2>2. PICK h \in AllJobs : Alias(KidOf[o], m.org, h) BY <1>7 DEF RetryAlias
  <2>3. KidOf[o] \in AllJobs /\ KidOf[o] \notin Jobs /\ m.org \in Jobs
    BY <1>b, StoreAssumption DEF StoreAssumption, AllJobs, JobRec
  <2>4. User[m.org] = Account(KidOf[o]) BY <2>1, <2>3 DEF Account
  <2> QED BY <2>1, <2>2, <2>3, <2>4, LifeAlias
<1>8. CASE UNCHANGED storeVars
  <2>1. UNCHANGED <<now, job, idem, conflict>> BY <1>8 DEF storeVars
  <2>2. \A j \in AllJobs : GoodRec(job[j]) BY DEF LifeInv, Good
  <2> QED BY <2>1, <2>2, LifePrime DEF LifeInv, Known, Owned, Keyed
<1> QED BY <1>1, <1>2, <1>3, <1>4, <1>5, <1>6, <1>7, <1>8, Commands DEF Producer

\* What the invariant says of the three properties.
LEMMA LifeInvCoherent == LifeInv => Coherent
BY DEF LifeInv, Good, GoodRec, Coherent

\* A key has one holder.
LEMMA LifeInvConflict == TypeOK /\ LifeInv => ConflictExclusive
<1> SUFFICES ASSUME TypeOK, LifeInv, NEW i \in AllJobs, NEW j \in AllJobs, Active(job[i]), Active(job[j]),
                    Keys[job[i].org] \cap Keys[job[j].org] # {}
             PROVE  i = j
  BY DEF ConflictExclusive
<1>1. job[i].org \in Jobs BY DEF TypeOK, JobRec
<1>2. Keys[job[i].org] \subseteq ConflictKeys BY <1>1, StoreAssumption DEF StoreAssumption
<1>3. PICK c \in ConflictKeys : c \in Keys[job[i].org] /\ c \in Keys[job[j].org] BY <1>2
<1> QED BY <1>3 DEF LifeInv, Keyed, KeyedBy

\* A job the sweep leaves active was active, and so was known.
LEMMA LifeInvKnown == TypeOK /\ LifeInv => DuplicateRecognised
<1> SUFFICES ASSUME TypeOK, LifeInv, NEW j \in AllJobs, Active(sweep(job[j]))
             PROVE  idem[j].to = j /\ idem[j].exp > now
  BY DEF DuplicateRecognised
<1>1. GoodRec(job[j]) /\ job[j] \in JobRec /\ now \in Nat BY DEF LifeInv, Good, GoodRec, TypeOK
<1>2. Active(job[j]) /\ job[j].zDead > now BY <1>1, SweepGood DEF Continues
<1>3. idem[j].to = j /\ idem[j].exp >= job[j].sub + MetaTTL
  BY <1>2 DEF LifeInv, Known, KnownBy
<1>4. /\ job[j].sub \in Nat /\ job[j].org \in Jobs
      /\ job[j].zDead <= job[j].sub + Life(job[j].org) /\ job[j].zDead \in Int
  BY <1>1, <1>2 DEF JobRec, GoodRec, DatedRec, Time, Never
<1>5. Life(job[j].org) <= MetaTTL /\ Life(job[j].org) \in Nat /\ MetaTTL \in Nat
  BY <1>4, ConstTypes, StoreAssumption DEF StoreAssumption, Life
<1>6. idem[j].exp \in Nat BY DEF TypeOK
<1> QED BY <1>1, <1>2, <1>3, <1>4, <1>5, <1>6

\* The invariant holds whatever leases expire, owners vanish, accounts are
\* erased and however long nothing is swept.
THEOREM LifeInvariant == Spec => [](TypeOK /\ LifeInv)
BY LifeInit, LifeStep, TypeCorrect, PTL DEF Spec

\* No job is lost: every active job of the script is in exactly the index that
\* moves it on, has its deadline and payload and is counted once.
THEOREM CoherentAlways == Spec => []Coherent
BY LifeInvariant, LifeInvCoherent, PTL

\* Two unfinished jobs never share a conflict key, retries, aliases and
\* erasures included.
THEOREM ConflictExclusiveAlways == Spec => []ConflictExclusive
BY LifeInvariant, LifeInvConflict, PTL

\* A repeated submission of a job that is still active is recognised, after an
\* outage of any length: a job is over before its identity is forgotten.
THEOREM DuplicateRecognisedAlways == Spec => []DuplicateRecognised
BY LifeInvariant, LifeInvKnown, PTL

-----------------------------------------------------------------------------
(* What also holds when the bot is never down for most of a day: a job is  *)
(* retried once and the bytes of a lane are counted exactly.               *)

\* The outage and the longest life of a job end within the day of the metadata,
\* and so do an outage and the time a payload is retained.
ShortOutage ==
  /\ \A j \in Jobs : Life(j) + MaxIdle < MetaTTL /\ RetryTTL + Life(j) <= MetaTTL
  /\ RetryTTL + MaxIdle < MetaTTL

\* Nothing due waits longer than MaxIdle; a retained payload ends before the
\* record does; what is counted is what is kept.
FreshRec(m) ==
  /\ Active(m) => m.zMeta = Never /\ now <= m.zDead + MaxIdle
  /\ m.st \in EndStates => m.zMeta <= now + MetaTTL
  /\ ~Active(m) /\ m.pay => m.zMeta = m.zPay + (MetaTTL - RetryTTL) /\ now <= m.zPay + MaxIdle
  /\ Exact(m)

\* The identity e of the job j with record m leads to it as long as it has one.
Found(j, m, e) ==
  /\ Active(m) => j \in m.ids /\ e.to = j /\ e.exp >= m.sub + MetaTTL
  /\ m.st \in EndStates /\ m.zMeta > now => e.to = j /\ e.exp >= m.zMeta

Going(m) == Active(m) /\ m.zDead > now

\* While a retry of a job goes on, the job itself cannot run, be retried or be
\* admitted anew, and there is no other retry of it.
SingleBy(J, I) ==
  \A k \in Kids : Going(J[k]) =>
    LET j == J[k].org IN
    /\ ~Active(J[j]) /\ ~J[j].elig
    /\ I[j].to = j /\ I[j].exp >= J[k].sub + Life(j)
    /\ \A l \in Kids : Going(J[l]) /\ J[l].org = j => l = k

ShortBy(J, I) ==
  /\ \A j \in AllJobs : FreshRec(J[j]) /\ Found(j, J[j], I[j])
  /\ SingleBy(J, I)

ShortInv == ShortBy(job, idem)

\* The times the arguments below compare.
LEMMA ShortTimes ==
  ASSUME ShortOutage, NEW j \in Jobs
  PROVE  /\ Life(j) \in Nat /\ MaxIdle \in Nat /\ MetaTTL \in Nat \ {0} /\ RetryTTL \in Nat
         /\ Life(j) + MaxIdle < MetaTTL /\ RetryTTL + Life(j) <= MetaTTL
         /\ RetryTTL + MaxIdle < MetaTTL /\ Size[j] \in Nat
<1>1. /\ MaxIdle \in Nat /\ MetaTTL \in Nat \ {0} /\ RetryTTL \in Nat /\ Budget \in Nat
      /\ Size[j] \in Nat /\ MaxAge[Lane[j]] \in Nat
  BY ConstTypes, StoreAssumption DEF StoreAssumption
<1>2. Life(j) \in Nat BY <1>1 DEF Life
<1> QED BY <1>1, <1>2 DEF ShortOutage

\* The values of a record that is fresh.
LEMMA RecTimes ==
  ASSUME NEW m \in JobRec
  PROVE  /\ m.zMeta \in Int /\ m.zDead \in Int /\ m.zPay \in Int /\ m.sub \in Nat /\ m.org \in Jobs
         /\ m.nByte \in Int /\ m.pay \in BOOLEAN
BY DEF JobRec, Time, Never

\* A fresh record is swept before anything of it is lost.
LEMMA FreshKempt ==
  ASSUME ShortOutage, NEW m, GoodRec(m), FreshRec(m), now \in Nat
  PROVE  Kempt(m)
<1>1. m \in JobRec BY DEF GoodRec
<1>2. /\ MaxIdle \in Nat /\ MetaTTL \in Nat /\ RetryTTL \in Nat /\ RetryTTL + MaxIdle < MetaTTL
      /\ m.zMeta \in Int /\ m.zPay \in Int
  BY <1>1, ShortTimes, RecTimes
<1>3. ~Active(m) /\ m.pay => m.zMeta > now BY <1>2 DEF FreshRec
<1> QED BY <1>2, <1>3 DEF Kempt, FreshRec, Due

\* It stays fresh.
LEMMA FreshLives ==
  ASSUME ShortOutage, NEW m, NEW n, GoodRec(m), GoodRec(n), FreshRec(m), Lives(m, n),
         Active(n) => Active(m), now \in Nat
  PROVE  FreshRec(n)
<1>1. m \in JobRec /\ n \in JobRec BY DEF GoodRec
<1>2. /\ MaxIdle \in Nat /\ MetaTTL \in Nat /\ RetryTTL \in Nat
      /\ n.zMeta \in Int /\ n.zPay \in Int /\ n.zDead \in Int
  BY <1>1, ShortTimes, RecTimes
<1>3. Active(n) => n.zMeta = Never /\ now <= n.zDead + MaxIdle
  <2> SUFFICES ASSUME Active(n) PROVE n.zMeta = Never /\ now <= n.zDead + MaxIdle OBVIOUS
  <2>1. now <= m.zDead + MaxIdle /\ m.zMeta = Never BY DEF FreshRec
  <2> QED BY <1>2, <2>1 DEF Lives
<1>4. n.st \in EndStates => n.zMeta <= now + MetaTTL BY <1>2 DEF Lives, FreshRec
<1>5. ~Active(n) /\ n.pay => n.zMeta = n.zPay + (MetaTTL - RetryTTL) /\ now <= n.zPay + MaxIdle
  <2> SUFFICES ASSUME ~Active(n), n.pay
               PROVE  n.zMeta = n.zPay + (MetaTTL - RetryTTL) /\ now <= n.zPay + MaxIdle
    OBVIOUS
  <2>1. CASE Active(m) BY <1>2, <2>1 DEF Lives
  <2>2. CASE ~Active(m) BY <1>2, <2>2 DEF Lives, FreshRec
  <2> QED BY <2>1, <2>2
<1>6. Exact(n) BY DEF Lives, Counts, FreshRec
<1> QED BY <1>3, <1>4, <1>5, <1>6 DEF FreshRec

\* So does a job that is admitted where there was no record.
LEMMA FreshAdmitted ==
  ASSUME ShortOutage, NEW m, GoodRec(m), FreshRec(m), m.st = "absent",
         NEW j \in AllJobs, NEW org \in Jobs, NEW delay \in Nat, NEW grant \in {0, 1},
         now \in Nat, admits \in Nat
  PROVE  FreshRec(Admitted(m, j, org, delay, grant))
<1> DEFINE n == Admitted(m, j, org, delay, grant)
<1>1. m \in JobRec /\ ~Active(m) /\ m.zMeta = Never /\ ~m.pay
  BY States DEF GoodRec, CoherentRec
<1>2. GoodRec(n) /\ Active(n) /\ n.sub = now BY <1>1, AdmittedGood
<1>7. m.nByte = 0 BY <1>1 DEF FreshRec, Exact
<1>3. /\ n.st \in {"queued", "delayed"} /\ n.zMeta = m.zMeta /\ n.pay = TRUE /\ n.org = org
      /\ n.nByte = Size[org]
  <2>1. /\ n.st \in {"queued", "delayed"} /\ n.zMeta = m.zMeta /\ n.pay = TRUE /\ n.org = org
        /\ n.nByte = m.nByte + Size[org]
    BY <1>1 DEF Admitted, JobRec
  <2>2. Size[org] \in Nat BY ConstTypes
  <2> HIDE DEF n
  <2> QED BY <1>7, <2>1, <2>2
<1> HIDE DEF n
<1>4. MaxIdle \in Nat /\ MaxAge[Lane[org]] \in Nat BY ShortTimes, ConstTypes
<1>6. n.st \notin EndStates BY <1>2, States
<1>8. Exact(n) BY <1>3 DEF Exact
<1>9. now <= n.zDead + MaxIdle
  <2>1. n.zDead = now + MaxAge[Lane[org]] BY <1>2, <1>3 DEF GoodRec, DatedRec
  <2> QED BY <1>4, <2>1
<1>10. FreshRec(n) BY <1>1, <1>2, <1>3, <1>6, <1>8, <1>9 DEF FreshRec
<1> QED BY <1>10 DEF n

\* The identities of j are not deleted by a command that makes K of the jobs.
Undeleted(j, K) == \A h \in AllJobs : j \notin Identities(job[h]) \ K[h].ids

\* An identity that is not deleted leads where it did, as long or longer.
LEMMA IdemKept ==
  ASSUME TypeOK, NEW K, NEW j \in AllJobs, Undeleted(j, K), idem[j].exp > now
  PROVE  /\ IdemAfter(K)[j].to = idem[j].to
         /\ IdemAfter(K)[j].exp = idem[j].exp \/ IdemAfter(K)[j].exp = now + MetaTTL
         /\ \A h \in Settled(K) : j \in Identities(job[h]) => IdemAfter(K)[j].exp = now + MetaTTL
<1> DEFINE e == [idem[j] EXCEPT !.exp = now + MetaTTL]
<1>1. idem[j] \in [to : AllJobs \cup {NoJob}, exp : Nat] /\ now \in Nat BY DEF TypeOK
<1>2. ~(idem[j].exp <= now) BY <1>1
<1>3. e.to = idem[j].to /\ e.exp = now + MetaTTL BY <1>1
<1>4. IdemAfter(K)[j] = IF \E h \in Settled(K) : j \in Identities(job[h]) THEN e ELSE idem[j]
  BY <1>2 DEF IdemAfter, Undeleted
<1> HIDE DEF e
<1> QED BY <1>3, <1>4

\* A job's identity outlives its record, and is extended when it settles.
LEMMA FoundKept ==
  ASSUME TypeOK, LifeInv, ShortOutage, ShortInv, NEW K, NEW j \in AllJobs, Undeleted(j, K),
         Continues(job[j], K[j]), KeepsIds(job[j], K[j]), Lives(job[j], K[j])
  PROVE  Found(j, K[j], IdemAfter(K)[j])
<1> DEFINE m == job[j]
           n == K[j]
           e == IdemAfter(K)[j]
<1>1. GoodRec(m) /\ FreshRec(m) /\ Found(j, m, idem[j]) /\ now \in Nat /\ m \in JobRec /\ idem[j].exp \in Nat
  BY DEF ShortInv, ShortBy, LifeInv, Good, GoodRec, TypeOK
<1>2. /\ m.zMeta \in Int /\ m.zDead \in Int /\ m.sub \in Nat /\ m.org \in Jobs
      /\ Life(m.org) \in Nat /\ MaxIdle \in Nat /\ MetaTTL \in Nat
      /\ Life(m.org) + MaxIdle < MetaTTL
  BY <1>1, RecTimes, ShortTimes
<1>3. Continues(m, n) /\ KeepsIds(m, n) /\ Lives(m, n) OBVIOUS
<1>4. e = IdemAfter(K)[j] OBVIOUS
<1> HIDE DEF m, n, e
<1>5. ASSUME Active(m) PROVE idem[j].exp > now /\ m.sub <= now /\ j \in Identities(m)
  <2>1. m.sub <= now /\ m.zDead <= m.sub + Life(m.org) BY <1>1, <1>5 DEF GoodRec, DatedRec
  <2>2. now <= m.zDead + MaxIdle /\ m.zMeta = Never BY <1>1, <1>5 DEF FreshRec
  <2>3. idem[j].exp >= m.sub + MetaTTL /\ j \in m.ids BY <1>1, <1>5 DEF Found
  <2> QED BY <1>1, <1>2, <2>1, <2>2, <2>3 DEF Identities, Due
<1>6. ASSUME Active(n) PROVE j \in n.ids /\ e.to = j /\ e.exp >= n.sub + MetaTTL
  <2>1. Active(m) /\ n.sub = m.sub BY <1>3, <1>6 DEF Continues
  <2>2. idem[j].to = j /\ idem[j].exp >= m.sub + MetaTTL /\ j \in m.ids BY <1>1, <2>1 DEF Found
  <2>3. n.ids = m.ids BY <1>1, <1>3, <2>1 DEF FreshRec, KeepsIds, Due
  <2>4. e.to = j /\ (e.exp = idem[j].exp \/ e.exp = now + MetaTTL)
    BY <1>4, <1>5, <2>1, <2>2, IdemKept
  <2> QED BY <1>1, <1>2, <1>5, <2>1, <2>2, <2>3, <2>4
<1>7. ASSUME n.st \in EndStates, n.zMeta > now PROVE e.to = j /\ e.exp >= n.zMeta
  <2>1. CASE Active(m)
    <3>1. n.zMeta = now + MetaTTL BY <1>3, <1>7, <2>1 DEF Lives
    <3>2. j \in Settled(K) BY <1>7, <2>1, States DEF Settled, m, n
    <3>3. idem[j].to = j BY <1>1, <2>1 DEF Found
    <3>4. e.to = j /\ e.exp = now + MetaTTL BY <1>4, <1>5, <2>1, <3>2, <3>3, IdemKept DEF m
    <3> QED BY <1>1, <1>2, <3>1, <3>4
  <2>2. CASE ~Active(m)
    <3>1. n.zMeta = m.zMeta /\ m.st \in EndStates BY <1>3, <1>7, <2>2 DEF Lives
    <3>2. idem[j].to = j /\ idem[j].exp >= m.zMeta BY <1>1, <1>7, <3>1 DEF Found
    <3>3. idem[j].exp > now BY <1>1, <1>2, <1>7, <3>1, <3>2
    <3>4. e.to = j /\ (e.exp = idem[j].exp \/ e.exp = now + MetaTTL) BY <1>4, <3>2, <3>3, IdemKept
    <3>5. m.zMeta <= now + MetaTTL BY <1>1, <3>1 DEF FreshRec
    <3> QED BY <1>1, <1>2, <3>1, <3>2, <3>4, <3>5
  <2> QED BY <2>1, <2>2
<1>8. Found(j, n, e) BY <1>6, <1>7 DEF Found
<1> QED BY <1>8 DEF n, e

\* What a command may make of the jobs, besides admitting one.
Lasting(K) ==
  \A j \in AllJobs :
    /\ GoodRec(K[j]) /\ Continues(job[j], K[j]) /\ Lives(job[j], K[j])
    /\ Active(K[j]) => job[j].zDead > now

\* A retry that goes on stays the only one.
LEMMA SingleKept ==
  ASSUME TypeOK, LifeInv, ShortOutage, ShortInv, NEW K, Lasting(K),
         \A k \in Kids : Going(K[k]) => Undeleted(K[k].org, K)
  PROVE  SingleBy(K, IdemAfter(K))
<1> SUFFICES ASSUME NEW k \in Kids, Going(K[k]), NEW j, j = K[k].org
             PROVE  /\ ~Active(K[j]) /\ ~K[j].elig
                    /\ IdemAfter(K)[j].to = j /\ IdemAfter(K)[j].exp >= K[k].sub + Life(j)
                    /\ \A l \in Kids : Going(K[l]) /\ K[l].org = j => l = k
  BY DEF SingleBy
<1>1. \A i \in Kids : Going(K[i]) =>
         Going(job[i]) /\ job[i].org = K[i].org /\ job[i].sub = K[i].sub
  BY DEF Lasting, Continues, Going, AllJobs
<1>2. k \in AllJobs /\ job[k] \in JobRec /\ GoodRec(job[k]) /\ now \in Nat
  BY DEF AllJobs, LifeInv, Good, GoodRec, TypeOK
<1>3. j \in Jobs /\ j \in AllJobs /\ job[k].sub \in Nat /\ job[k].zDead \in Int
  BY <1>1, <1>2, RecTimes DEF AllJobs
<1>4. /\ ~Active(job[j]) /\ ~job[j].elig
      /\ idem[j].to = j /\ idem[j].exp >= job[k].sub + Life(j)
      /\ \A l \in Kids : Going(job[l]) /\ job[l].org = j => l = k
  BY <1>1 DEF ShortInv, ShortBy, SingleBy
<1>5. ~Active(K[j]) /\ ~K[j].elig BY <1>3, <1>4 DEF Lasting, Continues, Lives
<1>6. Life(j) \in Nat /\ MetaTTL \in Nat /\ Life(j) <= MetaTTL /\ idem[j].exp \in Nat
  <2>1. /\ Life(j) \in Nat /\ MetaTTL \in Nat /\ RetryTTL \in Nat /\ RetryTTL + Life(j) <= MetaTTL
    BY <1>3, ShortTimes
  <2>2. idem[j].exp \in Nat BY <1>3 DEF TypeOK
  <2> QED BY <2>1, <2>2
<1>7. job[k].sub <= now /\ now < job[k].zDead /\ job[k].zDead <= job[k].sub + Life(j)
  BY <1>1, <1>2, <1>3 DEF Going, GoodRec, DatedRec
<1>8. idem[j].exp > now BY <1>2, <1>3, <1>4, <1>6, <1>7
<1>9. IdemAfter(K)[j].to = j
      /\ (IdemAfter(K)[j].exp = idem[j].exp \/ IdemAfter(K)[j].exp = now + MetaTTL)
  BY <1>3, <1>4, <1>8, IdemKept
<1>10. IdemAfter(K)[j].exp >= K[k].sub + Life(j)
  BY <1>1, <1>2, <1>3, <1>4, <1>6, <1>7, <1>9
<1> QED BY <1>1, <1>4, <1>5, <1>9, <1>10

\* What the sweep and a command that moves the swept jobs make of them.
LEMMA MovesKept ==
  ASSUME TypeOK, LifeInv, ShortOutage, ShortInv, NEW K, NEW j \in AllJobs, Moves(Swept[j], K[j])
  PROVE  /\ GoodRec(K[j]) /\ Continues(job[j], K[j]) /\ Lives(job[j], K[j])
         /\ KeepsIds(job[j], K[j]) /\ FreshRec(K[j])
         /\ Active(K[j]) => job[j].zDead > now
<1>1. Swept[j] = sweep(job[j]) /\ now \in Nat BY DEF Swept, TypeOK
<1>2. GoodRec(job[j]) /\ FreshRec(job[j]) BY DEF LifeInv, Good, ShortInv, ShortBy
<1>3. Kempt(job[j]) BY <1>1, <1>2, FreshKempt
<1>4. /\ Continues(job[j], Swept[j]) /\ KeepsIds(job[j], Swept[j]) /\ Lives(job[j], Swept[j])
      /\ Active(Swept[j]) => job[j].zDead > now
  BY <1>1, <1>2, <1>3, SweepGood
<1>5. GoodRec(K[j]) /\ Continues(Swept[j], K[j]) /\ Lives(Swept[j], K[j]) /\ K[j].ids = Swept[j].ids
      /\ (Due(K[j].zMeta) => Due(Swept[j].zMeta))
  BY DEF Moves
<1>6. Continues(job[j], K[j]) /\ (Active(K[j]) => Active(job[j]) /\ job[j].zDead > now)
  BY <1>4, <1>5 DEF Continues
<1>7. Lives(job[j], K[j]) BY <1>4, <1>5, LivesTrans DEF Continues
<1>8. KeepsIds(job[j], K[j]) BY <1>4, <1>5 DEF KeepsIds
<1>9. FreshRec(K[j]) BY <1>1, <1>2, <1>5, <1>6, <1>7, FreshLives
<1> QED BY <1>5, <1>6, <1>7, <1>8, <1>9

\* A plain command keeps the short-outage invariant.
LEMMA ShortKept ==
  ASSUME TypeOK, LifeInv, ShortOutage, ShortInv, NEW K, \A j \in AllJobs : Moves(Swept[j], K[j])
  PROVE  ShortBy(K, IdemAfter(K))
<1>1. Lasting(K) /\ \A j \in AllJobs : KeepsIds(job[j], K[j]) /\ FreshRec(K[j])
  BY MovesKept DEF Lasting
<1>2. \A j \in AllJobs : Undeleted(j, K) BY <1>1 DEF Undeleted, Identities, KeepsIds
<1>3. \A j \in AllJobs : Found(j, K[j], IdemAfter(K)[j]) BY <1>1, <1>2, FoundKept DEF Lasting
<1>4. \A k \in Kids : Going(K[k]) => Undeleted(K[k].org, K)
  <2>1. \A k \in Kids : K[k].org \in AllJobs
    BY <1>1 DEF Lasting, GoodRec, JobRec, AllJobs
  <2> QED BY <1>2, <2>1
<1>5. SingleBy(K, IdemAfter(K)) BY <1>1, <1>4, SingleKept
<1> QED BY <1>1, <1>3, <1>5 DEF ShortBy

\* The sweep leaves a record only where the identity still leads to it.
LEMMA SweptFound ==
  ASSUME TypeOK, LifeInv, ShortOutage, ShortInv, NEW j \in AllJobs
  PROVE  /\ ShortBy(Swept, IdemAfter(Swept))
         /\ Swept[j].st \in EndStates => Swept[j].zMeta > now
         /\ Swept[j].st # "absent" => IdemAfter(Swept)[j].to = j
<1>1. ShortBy(Swept, IdemAfter(Swept)) BY SweptGood, ShortKept DEF LifeInv
<1>2. Swept[j] = sweep(job[j]) /\ now \in Nat /\ GoodRec(job[j])
  BY DEF Swept, TypeOK, LifeInv, Good
<1>3. GoodRec(Swept[j]) /\ ~Due(Swept[j].zMeta) BY <1>2, SweepGood
<1>4. Swept[j].zMeta \in Int /\ Swept[j] \in JobRec BY <1>3, RecTimes DEF GoodRec
<1>5. Swept[j].st \in EndStates => Swept[j].zMeta > now
  BY <1>2, <1>3, <1>4 DEF GoodRec, CoherentRec, Due
<1>6. Found(j, Swept[j], IdemAfter(Swept)[j]) BY <1>1 DEF ShortBy
<1>7. Swept[j].st # "absent" => Active(Swept[j]) \/ Swept[j].st \in EndStates
  BY <1>4 DEF JobRec, Active
<1> QED BY <1>1, <1>5, <1>6, <1>7 DEF Found

\* The identities are the same as after the sweep if the command settles nothing.
LEMMA IdemSame ==
  ASSUME NEW K, \A i \in AllJobs : K[i].ids = Swept[i].ids /\ (Active(K[i]) <=> Active(Swept[i]))
  PROVE  IdemAfter(K) = IdemAfter(Swept)
<1>1. Settled(K) = Settled(Swept) BY DEF Settled
<1> QED BY <1>1 DEF IdemAfter

\* The invariant in the next state of a command.
LEMMA ShortPrime ==
  ASSUME now' = now, NEW K, job' = K, NEW I, idem' = I, ShortBy(K, I)
  PROVE  ShortInv'
BY DEF ShortInv, ShortBy, FreshRec, Found, SingleBy, Going, Active, Exact

\* An admission: no record of the job is left, and no retry of it goes on; a
\* retry takes the grant of the job that it retries.
LEMMA ShortAccept ==
  ASSUME TypeOK, LifeInv, ShortOutage, ShortInv, NEW K \in [AllJobs -> JobRec],
         \A i \in AllJobs : Moves(Swept[i], K[i]) /\ (Active(K[i]) <=> Active(Swept[i])),
         NEW j \in AllJobs, NEW org \in Jobs, NEW delay \in Nat, NEW grant \in {0, 1},
         j \in Kids => /\ Swept[org].elig /\ ~Active(K[org]) /\ ~K[org].elig
                       /\ IdemAfter(Swept)[org].to = org
                       /\ IdemAfter(Swept)[org].exp >= now + Life(org),
         Accept(K, j, org, delay, grant), now' = now
  PROVE  ShortInv'
<1> DEFINE a == Admitted(K[j], j, org, delay, grant)
           J == [K EXCEPT ![j] = a]
           E == IdemAfter(Swept)
           I == Remembered(j, j)
<1>1. E[j].to = NoJob /\ job' = J /\ idem' = I BY DEF Accept
<1>2. ShortBy(K, E)
  <2>1. \A i \in AllJobs : K[i].ids = Swept[i].ids BY DEF Moves
  <2> QED BY <2>1, IdemSame, ShortKept
<1>3. K[j].st = "absent" /\ ~Active(K[j])
  <2>1. Swept[j].st = "absent" BY <1>1, SweptFound, JobsNamed
  <2>2. K[j].st = "absent" BY <2>1 DEF Moves, Continues
  <2> QED BY <2>2, States
<1>4. GoodRec(K[j]) /\ FreshRec(K[j]) /\ now \in Nat /\ admits \in Nat
  BY <1>2 DEF Moves, ShortBy, TypeOK
<1>5. GoodRec(a) /\ Active(a) /\ a.org = org /\ a.ids = K[j].ids \cup {j} /\ a.sub = now
  BY <1>3, <1>4, AdmittedGood
<1>6. FreshRec(a) BY <1>3, <1>4, FreshAdmitted
<1>7. J[j] = a /\ (\A i \in AllJobs : i # j => J[i] = K[i]) OBVIOUS
<1>8. E \in [AllJobs -> [to : AllJobs \cup {NoJob}, exp : Nat]]
  BY AfterTypes DEF IdemType
<1>9. /\ I[j].to = j /\ I[j].exp = now + MetaTTL
      /\ \A i \in AllJobs : i # j => I[i] = E[i]
  BY <1>8 DEF Remembered
<1> HIDE DEF a, J, I, E
<1>11. \A i \in AllJobs : FreshRec(J[i]) BY <1>2, <1>6, <1>7 DEF ShortBy
<1>12. ASSUME NEW i \in AllJobs PROVE Found(i, J[i], I[i])
  <2>1. CASE i = j
    <3>1. a.st \notin EndStates BY <1>5, States
    <3>2. I[j].exp >= a.sub + MetaTTL
      <4>1. now + MetaTTL \in Nat BY <1>4, ConstTypes
      <4> QED BY <1>5, <1>9, <4>1
    <3>3. Found(j, a, I[j]) BY <1>5, <1>9, <3>1, <3>2 DEF Found
    <3> QED BY <1>7, <2>1, <3>3
  <2>2. CASE i # j BY <1>2, <1>7, <1>9, <2>2 DEF ShortBy
  <2> QED BY <2>1, <2>2
<1>13. SingleBy(J, I)
  <2>s. SingleBy(K, E) BY <1>2 DEF ShortBy
  <2>0. ASSUME NEW k \in Kids, Going(J[k]), k # j
        PROVE  /\ Going(K[k]) /\ J[k] = K[k] /\ J[k].org # j /\ J[k].org \in AllJobs
               /\ j \in Kids => J[k].org # org
    <3>1. k \in AllJobs /\ J[k] = K[k] /\ K[k] \in JobRec BY <1>7, <2>0 DEF AllJobs
    <3>2. Going(K[k]) /\ K[k].org \in AllJobs BY <2>0, <3>1 DEF JobRec, AllJobs
    <3>3. E[K[k].org].to = K[k].org BY <2>s, <3>2 DEF SingleBy
    <3>4. K[k].org # j BY <1>1, <3>2, <3>3, JobsNamed
    <3>5. ASSUME j \in Kids, K[k].org = org PROVE FALSE
      <4>1. Swept[org].elig BY <3>5
      <4>2. Swept[k].org = org /\ Going(Swept[k])
        BY <3>1, <3>2, <3>5, SweptGood DEF Moves, Continues, Going, LifeInv
      <4>3. SingleBy(Swept, E) BY SweptFound DEF ShortBy, E
      <4> QED BY <4>1, <4>2, <4>3 DEF SingleBy
    <3> QED BY <3>1, <3>2, <3>4, <3>5
  <2> SUFFICES ASSUME NEW k \in Kids, Going(J[k]), NEW x, x = J[k].org
               PROVE  /\ ~Active(J[x]) /\ ~J[x].elig
                      /\ I[x].to = x /\ I[x].exp >= J[k].sub + Life(x)
                      /\ \A l \in Kids : Going(J[l]) /\ J[l].org = x => l = k
    BY DEF SingleBy
  <2>1. CASE k = j
    <3>1. x = org /\ J[k].sub = now /\ org # j /\ org \in AllJobs
      BY <1>5, <1>7, <2>1, StoreAssumption DEF StoreAssumption, AllJobs
    <3>2. J[x] = K[x] /\ I[x] = E[x] BY <1>7, <1>9, <3>1
    <3>3. \A l \in Kids : Going(J[l]) /\ J[l].org = x => l = k BY <2>0, <2>1, <3>1
    <3> QED BY <2>1, <3>1, <3>2, <3>3 DEF E
  <2>2. CASE k # j
    <3>1. Going(K[k]) /\ J[k] = K[k] /\ x # j /\ x \in AllJobs /\ (j \in Kids => x # org)
      BY <2>0, <2>2
    <3>2. J[x] = K[x] /\ I[x] = E[x] BY <1>7, <1>9, <3>1
    <3>3. /\ ~Active(K[x]) /\ ~K[x].elig /\ E[x].to = x /\ E[x].exp >= K[k].sub + Life(x)
          /\ \A l \in Kids : Going(K[l]) /\ K[l].org = x => l = k
      BY <2>s, <3>1 DEF SingleBy
    <3>4. \A l \in Kids : Going(J[l]) /\ J[l].org = x => l = k
      <4> SUFFICES ASSUME NEW l \in Kids, Going(J[l]), J[l].org = x PROVE l = k OBVIOUS
      <4>1. l # j BY <1>5, <1>7, <3>1
      <4>2. Going(K[l]) /\ K[l].org = x BY <2>0, <4>1
      <4> QED BY <3>3, <4>2
    <3> QED BY <3>1, <3>2, <3>3, <3>4
  <2> QED BY <2>1, <2>2
<1>14. ShortBy(J, I) BY <1>11, <1>12, <1>13 DEF ShortBy
<1> QED BY <1>1, <1>14, ShortPrime

\* A new alias was no job's identity.
LEMMA ShortAlias ==
  ASSUME TypeOK, LifeInv, ShortOutage, ShortInv, NEW i \in AllJobs, NEW org \in Jobs,
         NEW h \in AllJobs, Alias(i, org, h), now' = now
  PROVE  ShortInv'
<1> DEFINE n == [Swept[h] EXCEPT !.ids = @ \cup {i}]
           J == [Swept EXCEPT ![h] = n]
           E == IdemAfter(Swept)
           I == Remembered(i, h)
<1>1. E[i].to = NoJob /\ job' = [Swept EXCEPT ![h].ids = @ \cup {i}] /\ idem' = I
  BY DEF Alias
<1>2. Swept \in [AllJobs -> JobRec] /\ now \in Nat BY SweptType DEF TypeOK
<1>3. job' = J BY <1>1, <1>2
<1>4. GoodRec(Swept[h]) BY SweptGood DEF LifeInv
<1>5. n \in JobRec /\ SameButMarks(Swept[h], n) /\ n.ids = Swept[h].ids \cup {i}
  <2>1. Swept[h] \in JobRec BY <1>2
  <2>2. n \in JobRec BY <2>1 DEF JobRec
  <2>3. SameButMarks(Swept[h], n) BY <2>1 DEF SameButMarks, JobRec
  <2>4. n.ids = Swept[h].ids \cup {i} BY <2>1 DEF JobRec
  <2> QED BY <2>2, <2>3, <2>4
<1>6. J[h] = n /\ (\A k \in AllJobs : k # h => J[k] = Swept[k]) BY <1>2
<1>7. E \in [AllJobs -> [to : AllJobs \cup {NoJob}, exp : Nat]]
  BY AfterTypes DEF IdemType
<1>8. \A k \in AllJobs : k # i => I[k] = E[k] BY <1>7 DEF Remembered
<1> HIDE DEF n, J, I, E
<1>9. GoodRec(n) /\ (Active(n) <=> Active(Swept[h])) /\ Lives(Swept[h], n)
  BY <1>4, <1>5, MarksGood
<1>10. ShortBy(Swept, E) BY SweptFound DEF E
<1>11. /\ \A k \in AllJobs : /\ J[k].org = Swept[k].org /\ J[k].sub = Swept[k].sub
                             /\ J[k].st = Swept[k].st /\ J[k].elig = Swept[k].elig
                             /\ J[k].zDead = Swept[k].zDead /\ J[k].zMeta = Swept[k].zMeta
                             /\ Swept[k].ids \subseteq J[k].ids
       /\ \A k \in AllJobs : (Active(J[k]) <=> Active(Swept[k])) /\ (Going(J[k]) <=> Going(Swept[k]))
  <2>1. \A k \in AllJobs : /\ J[k].org = Swept[k].org /\ J[k].sub = Swept[k].sub
                           /\ J[k].st = Swept[k].st /\ J[k].elig = Swept[k].elig
                           /\ J[k].zDead = Swept[k].zDead /\ J[k].zMeta = Swept[k].zMeta
                           /\ Swept[k].ids \subseteq J[k].ids
    BY <1>5, <1>6 DEF SameButMarks
  <2> QED BY <2>1 DEF Active, Going
<1>12. \A k \in AllJobs : FreshRec(J[k])
  <2>1. FreshRec(n) BY <1>2, <1>4, <1>9, <1>10, FreshLives DEF ShortBy
  <2> QED BY <1>6, <1>10, <2>1 DEF ShortBy
<1>13. ASSUME NEW k \in AllJobs PROVE Found(k, J[k], I[k])
  <2>1. CASE k = i
    <3>1. Swept[i].st = "absent" BY <1>1, SweptFound, JobsNamed DEF E
    <3>2. J[i].st = "absent" BY <1>11, <3>1
    <3>3. ~Active(J[i]) /\ J[i].st \notin EndStates BY <3>2, States DEF EndStates
    <3> QED BY <2>1, <3>3 DEF Found
  <2>2. CASE k # i
    <3>1. Found(k, Swept[k], E[k]) /\ I[k] = E[k] BY <1>8, <1>10, <2>2 DEF ShortBy
    <3> QED BY <1>11, <3>1 DEF Found
  <2> QED BY <2>1, <2>2
<1>14. SingleBy(J, I)
  <2> SUFFICES ASSUME NEW k \in Kids, Going(J[k]), NEW x, x = J[k].org
               PROVE  /\ ~Active(J[x]) /\ ~J[x].elig
                      /\ I[x].to = x /\ I[x].exp >= J[k].sub + Life(x)
                      /\ \A l \in Kids : Going(J[l]) /\ J[l].org = x => l = k
    BY DEF SingleBy
  <2>1. k \in AllJobs /\ Going(Swept[k]) /\ x = Swept[k].org /\ J[k].sub = Swept[k].sub
    BY <1>11 DEF AllJobs
  <2>2. x \in AllJobs BY <1>2, <2>1 DEF JobRec, AllJobs
  <2>3. /\ ~Active(Swept[x]) /\ ~Swept[x].elig /\ E[x].to = x /\ E[x].exp >= Swept[k].sub + Life(x)
        /\ \A l \in Kids : Going(Swept[l]) /\ Swept[l].org = x => l = k
    BY <1>10, <2>1 DEF ShortBy, SingleBy
  <2>4. I[x] = E[x] BY <1>1, <1>8, <2>2, <2>3, JobsNamed
  <2>5. \A l \in Kids : Going(J[l]) /\ J[l].org = x => l = k BY <1>11, <2>3 DEF AllJobs
  <2> QED BY <1>11, <2>1, <2>2, <2>3, <2>4, <2>5
<1>15. ShortBy(J, I) BY <1>12, <1>13, <1>14 DEF ShortBy
<1> QED BY <1>1, <1>3, <1>15, ShortPrime

\* Erasure takes the jobs, the retries and the identities of one account.
LEMMA ShortErase ==
  ASSUME TypeOK, LifeInv, ShortOutage, ShortInv, NEW u, Erase(u)
  PROVE  ShortInv'
<1> DEFINE mine == {j \in AllJobs : ~Gone(Swept[j]) /\ User[Swept[j].org] = u}
           K == [j \in AllJobs |-> IF j \in mine THEN Erased(Swept[j]) ELSE Swept[j]]
           I == [i \in AllJobs |-> IF i \in mine THEN [to |-> NoJob, exp |-> 0]
                                   ELSE IdemAfter(K)[i]]
<1>1. job' = K /\ idem' = I /\ now' = now BY DEF Erase
<1>2. \A j \in AllJobs : j \in mine <=> ~Gone(Swept[j]) /\ User[Swept[j].org] = u
  OBVIOUS
<1>3. /\ \A j \in AllJobs : j \in mine => K[j] = Erased(Swept[j])
      /\ \A j \in AllJobs : j \notin mine => K[j] = Swept[j] /\ I[j] = IdemAfter(K)[j]
  OBVIOUS
<1> HIDE DEF mine, K, I
<1>4. \A j \in AllJobs : /\ GoodRec(Swept[j]) /\ Continues(job[j], Swept[j])
                         /\ Lives(job[j], Swept[j]) /\ KeepsIds(job[j], Swept[j])
                         /\ FreshRec(Swept[j]) /\ (Active(Swept[j]) => job[j].zDead > now)
  BY SweptGood, MovesKept DEF LifeInv
<1>5. OwnedBy(Swept) BY SweptGood, PlainOwned DEF LifeInv
<1>6. \A j \in AllJobs : j \in mine =>
         /\ GoodRec(K[j]) /\ K[j].st = "absent" /\ ~Active(K[j]) /\ K[j].ids = {}
         /\ K[j].grants = 0 /\ K[j].org = Swept[j].org /\ Exact(K[j])
  BY <1>3, <1>4, ErasedGood DEF FreshRec, Counts
<1>7. \A j \in AllJobs : FreshRec(K[j])
  <2> SUFFICES ASSUME NEW j \in AllJobs, j \in mine PROVE FreshRec(K[j]) BY <1>3, <1>4
  <2>1. K[j].st = "absent" /\ ~Active(K[j]) /\ Exact(K[j]) /\ ~K[j].pay
    BY <1>6 DEF GoodRec, CoherentRec
  <2> QED BY <2>1 DEF FreshRec, EndStates
<1>8. Lasting(K)
  <2> SUFFICES ASSUME NEW j \in AllJobs, j \in mine
               PROVE  /\ GoodRec(K[j]) /\ Continues(job[j], K[j]) /\ Lives(job[j], K[j])
                      /\ Active(K[j]) => job[j].zDead > now
    BY <1>3, <1>4 DEF Lasting
  <2>1. /\ GoodRec(K[j]) /\ K[j].st = "absent" /\ ~Active(K[j]) /\ K[j].ids = {}
        /\ K[j].grants = 0 /\ K[j].org = job[j].org /\ Exact(K[j])
    BY <1>4, <1>6 DEF Continues
  <2>2. ~K[j].pay /\ ~K[j].elig /\ K[j].st \notin EndStates
    BY <2>1 DEF GoodRec, CoherentRec, EndStates
  <2>3. Lives(job[j], K[j]) BY <2>1, <2>2 DEF Lives, Counts, Exact, Covered
  <2> QED BY <2>1, <2>3 DEF Continues
<1>9. ASSUME NEW j \in AllJobs, Account(j) # u PROVE Undeleted(j, K)
  <2> SUFFICES ASSUME NEW h \in AllJobs PROVE j \notin Identities(job[h]) \ K[h].ids
    BY DEF Undeleted
  <2>1. CASE h \notin mine BY <1>3, <1>4, <2>1 DEF KeepsIds, Identities
  <2>2. CASE h \in mine
    <3>1. Swept[h].st # "absent" /\ User[Swept[h].org] = u BY <1>2, <2>2 DEF Gone
    <3>2. Account(h) = u BY <1>5, <3>1 DEF OwnedBy
    <3>3. \A x \in job[h].ids : Account(x) = u BY <3>2 DEF LifeInv, Owned, OwnedBy
    <3> QED BY <1>9, <3>3 DEF Identities
  <2> QED BY <2>1, <2>2
<1>10. ASSUME NEW j \in AllJobs, Account(j) # u PROVE j \notin mine /\ I[j] = IdemAfter(K)[j]
  BY <1>2, <1>3, <1>5, <1>10 DEF OwnedBy, Gone
<1>11. ASSUME NEW j \in AllJobs, K[j].st # "absent" PROVE Account(j) # u
  <2>1. j \notin mine /\ K[j] = Swept[j] BY <1>3, <1>6, <1>11
  <2>2. ~Gone(Swept[j])
    <3>1. Swept[j].st \in EndStates => Swept[j].zMeta > now BY SweptFound
    <3>2. now \in Nat /\ Swept[j].zMeta \in Int BY <1>4, RecTimes DEF TypeOK, GoodRec
    <3> QED BY <1>11, <2>1, <3>1, <3>2 DEF Gone, Due
  <2> QED BY <1>2, <1>5, <1>11, <2>1, <2>2 DEF OwnedBy
<1>12. ASSUME NEW j \in AllJobs PROVE Found(j, K[j], I[j])
  <2>1. CASE K[j].st = "absent"
    <3>1. ~Active(K[j]) /\ K[j].st \notin EndStates BY <2>1, States DEF EndStates
    <3> QED BY <3>1 DEF Found
  <2>2. CASE K[j].st # "absent"
    <3>1. Undeleted(j, K) /\ j \notin mine /\ I[j] = IdemAfter(K)[j] BY <1>9, <1>10, <1>11, <2>2
    <3>2. Continues(job[j], K[j]) /\ Lives(job[j], K[j]) /\ KeepsIds(job[j], K[j])
      BY <1>3, <1>4, <3>1
    <3> QED BY <3>1, <3>2, FoundKept
  <2> QED BY <2>1, <2>2
<1>13. ASSUME NEW k \in Kids, Going(K[k]) PROVE K[k].org \in AllJobs /\ Account(K[k].org) # u
  <2>1. k \in AllJobs /\ Active(K[k]) /\ K[k].st # "absent" BY <1>13, States DEF Going, AllJobs
  <2>2. Account(k) # u /\ K[k] = Swept[k] BY <1>3, <1>6, <1>11, <2>1
  <2>3. User[K[k].org] = Account(k) BY <1>5, <2>1, <2>2 DEF OwnedBy
  <2>4. K[k].org \in Jobs BY <1>8, <2>1 DEF Lasting, GoodRec, JobRec
  <2> QED BY <2>2, <2>3, <2>4 DEF Account, AllJobs
<1>14. SingleBy(K, IdemAfter(K)) BY <1>8, <1>9, <1>13, SingleKept
<1>15. SingleBy(K, I)
  <2>1. \A k \in Kids : Going(K[k]) => I[K[k].org] = IdemAfter(K)[K[k].org] BY <1>10, <1>13
  <2> QED BY <1>14, <2>1 DEF SingleBy
<1>16. ShortBy(K, I) BY <1>7, <1>12, <1>15 DEF ShortBy
<1> QED BY <1>1, <1>16, ShortPrime

\* Nothing due waits longer than MaxIdle for its sweep.
LEMMA ShortTick == ASSUME TypeOK, LifeInv, ShortOutage, ShortInv, Tick PROVE ShortInv'
<1>1. now' = now + 1 /\ now \in Nat /\ UNCHANGED <<job, idem>> BY DEF Tick, TypeOK
<1>2. ASSUME NEW j \in AllJobs PROVE (FreshRec(job[j]) /\ Found(j, job[j], idem[j]))'
  <2> DEFINE m == job[j]
  <2>1. m \in JobRec /\ CoherentRec(m) /\ FreshRec(m) /\ Found(j, m, idem[j]) /\ Punctual(m)
    BY DEF LifeInv, Good, GoodRec, ShortInv, ShortBy, Tick
  <2>2. /\ m.zMeta \in Int /\ m.zDead \in Int /\ m.zPay \in Int
        /\ MaxIdle \in Nat /\ MetaTTL \in Nat
    BY <2>1, RecTimes, ShortTimes
  <2>3. /\ m.zDead # Never => now - m.zDead < MaxIdle
        /\ m.zPay # Never => now - m.zPay < MaxIdle
    BY <2>1 DEF Punctual
  <2>4. (Active(m) => m.zDead # Never) /\ (m.pay => m.zPay # Never) BY <2>1 DEF CoherentRec
  <2> HIDE DEF m
  <2>5. Active(m) => m.zMeta = Never /\ now + 1 <= m.zDead + MaxIdle
    BY <1>1, <2>1, <2>2, <2>3, <2>4 DEF FreshRec
  <2>6. m.st \in EndStates => m.zMeta <= now + 1 + MetaTTL BY <1>1, <2>1, <2>2 DEF FreshRec
  <2>7. ~Active(m) /\ m.pay =>
          m.zMeta = m.zPay + (MetaTTL - RetryTTL) /\ now + 1 <= m.zPay + MaxIdle
    BY <1>1, <2>1, <2>2, <2>3, <2>4 DEF FreshRec
  <2>8. Exact(m) BY <2>1 DEF FreshRec
  <2>9. m.zMeta > now + 1 => m.zMeta > now BY <1>1, <2>2
  <2>10. FreshRec(job[j])'
    BY <1>1, <2>5, <2>6, <2>7, <2>8 DEF FreshRec, Active, Exact, m
  <2>11. Found(j, job[j], idem[j])' BY <1>1, <2>1, <2>9 DEF Found, Active, m
  <2> QED BY <2>10, <2>11
<1>3. SingleBy(job, idem)'
  <2>1. \A k \in Kids : job[k].zDead \in Int BY DEF TypeOK, JobRec, Time, Never, AllJobs
  <2>2. \A k \in Kids : Going(job[k])' => Going(job[k]) BY <1>1, <2>1 DEF Going, Active
  <2>3. SingleBy(job, idem) BY DEF ShortInv, ShortBy
  <2>4. \A j : Active(job[j])' <=> Active(job[j]) BY <1>1 DEF Active
  <2> QED BY <1>1, <2>2, <2>3, <2>4 DEF SingleBy
<1> QED BY <1>2, <1>3 DEF ShortInv, ShortBy

\* Nothing was ever admitted.
LEMMA ShortInit == Init => ShortInv
<1> SUFFICES ASSUME Init PROVE ShortInv
  OBVIOUS
<1>1. \A j \in AllJobs : job[j] = NoRec BY DEF Init
<1>2. NoRec.st = "absent" /\ NoRec.pay = FALSE /\ NoRec.nByte = 0 BY DEF NoRec
<1>3. ~Active(NoRec) /\ NoRec.st \notin EndStates BY <1>2, States DEF EndStates
<1>4. FreshRec(NoRec) BY <1>2, <1>3 DEF FreshRec, Exact
<1> QED BY <1>1, <1>3, <1>4 DEF ShortInv, ShortBy, Found, SingleBy, Going, AllJobs

\* The job that an operator retries was admitted by its own identity, which
\* outlives the retry.
LEMMA RetryParent ==
  ASSUME TypeOK, LifeInv, ShortOutage, ShortInv, NEW o \in Ops, NEW j \in AllJobs, Retry(o, j)
  PROVE  LET m == Swept[j] IN
         /\ m.org = j /\ m.elig
         /\ IdemAfter(Swept)[j].to = j /\ IdemAfter(Swept)[j].exp >= now + Life(j)
<1> DEFINE m == Swept[j]
           e == IdemAfter(Swept)[j]
<1>1. /\ m.st \in {"failed", "expired"} /\ m.elig /\ m.grants >= 1 /\ m.pay /\ ~Due(m.zPay)
  BY DEF Retry, Retriable, HasPayload
<1>2. m.st \in EndStates /\ ~Active(m) /\ m.st # "absent" BY <1>1, States DEF EndStates
<1>3. OwnedBy(Swept) /\ GoodRec(m) /\ now \in Nat BY SweptGood, PlainOwned DEF LifeInv, TypeOK
<1>4. ShortBy(Swept, IdemAfter(Swept)) /\ m.zMeta > now BY <1>2, SweptFound
<1>5. j \in Jobs /\ m.org = j
  <2>1. j \notin Kids BY <1>1, <1>3 DEF OwnedBy
  <2> QED BY <1>2, <1>3, <2>1 DEF OwnedBy, AllJobs
<1>6. FreshRec(m) /\ Found(j, m, e) BY <1>4 DEF ShortBy
<1>7. IdemAfter(Swept) \in [AllJobs -> [to : AllJobs \cup {NoJob}, exp : Nat]]
  BY AfterTypes DEF IdemType
<1>8. e.exp \in Nat BY <1>7
<1>9. m \in JobRec BY <1>3 DEF GoodRec
<1>10. /\ m.zPay \in Int /\ m.zMeta \in Int /\ m.zPay # Never
       /\ Life(j) \in Nat /\ RetryTTL \in Nat /\ MetaTTL \in Nat /\ RetryTTL + Life(j) <= MetaTTL
  BY <1>1, <1>3, <1>5, <1>9, RecTimes, ShortTimes DEF GoodRec, CoherentRec
<1> HIDE DEF m, e
<1>11. e.to = j /\ e.exp >= m.zMeta BY <1>2, <1>4, <1>6 DEF Found
<1>12. m.zMeta = m.zPay + (MetaTTL - RetryTTL) BY <1>1, <1>2, <1>6 DEF FreshRec
<1>13. m.zPay > now BY <1>1, <1>3, <1>10 DEF Due
<1>14. e.exp >= now + Life(j) BY <1>3, <1>8, <1>10, <1>11, <1>12, <1>13
<1> QED BY <1>1, <1>5, <1>11, <1>14 DEF m, e

\* Every command preserves the invariant.
LEMMA ShortStep ==
  ASSUME ShortOutage
  PROVE  TypeOK /\ LifeInv /\ ShortInv /\ [Next]_storeVars => ShortInv'
<1> SUFFICES ASSUME TypeOK, LifeInv, ShortInv, [Next]_storeVars PROVE ShortInv'
  OBVIOUS
<1>a. \A j \in AllJobs : Moves(Swept[j], Swept[j]) BY SweptGood DEF LifeInv
<1>b. Swept \in [AllJobs -> JobRec] BY SweptType
<1>1. CASE Tick BY <1>1, ShortTick
<1>2. CASE Moved
  <2> DEFINE K == job'
  <2>1. /\ \A j \in AllJobs : Moves(Swept[j], K[j])
        /\ job' = K /\ idem' = IdemAfter(K) /\ now' = now
    BY <1>2 DEF Moved
  <2> HIDE DEF K
  <2> QED BY <2>1, ShortKept, ShortPrime
<1>3. ASSUME NEW j \in Jobs, NEW d \in Delays, Admit(j, d) PROVE ShortInv'
  <2>1. j \in AllJobs /\ j \notin Kids /\ d \in Nat
    BY StoreAssumption DEF StoreAssumption, AllJobs
  <2>2. Accept(Swept, j, j, d, 1) /\ now' = now BY <1>3 DEF Admit
  <2> QED BY <1>a, <1>b, <2>1, <2>2, ShortAccept
<1>4. ASSUME NEW j \in Jobs, AdmitAlias(j) PROVE ShortInv'
  <2>1. j \in AllJobs BY DEF AllJobs
  <2>2. PICK h \in AllJobs : Alias(j, j, h) BY <1>4 DEF AdmitAlias
  <2>3. now' = now BY <1>4 DEF AdmitAlias
  <2> QED BY <2>1, <2>2, <2>3, ShortAlias
<1>5. ASSUME NEW u \in Users, Erase(u) PROVE ShortInv' BY <1>5, ShortErase
<1>6. ASSUME NEW o \in Ops, NEW j \in AllJobs, Retry(o, j) PROVE ShortInv'
  <2> DEFINE m == Swept[j]
             K == [Swept EXCEPT ![j] = Spent(m)]
  <2>1. /\ K \in [AllJobs -> JobRec]
        /\ \A i \in AllJobs : Moves(Swept[i], K[i]) /\ (Active(K[i]) <=> Active(Swept[i]))
        /\ KidOf[o] \in AllJobs /\ m.org \in Jobs
        /\ ~Active(Spent(m)) /\ ~Spent(m).elig
        /\ Accept(K, KidOf[o], m.org, 0, 0) /\ now' = now
    BY <1>6, RetryAccepts
  <2>2. /\ m.org = j /\ Swept[j].elig
        /\ IdemAfter(Swept)[j].to = j /\ IdemAfter(Swept)[j].exp >= now + Life(j)
    BY <1>6, RetryParent
  <2>3. K[j] = Spent(m) BY <1>b
  <2> HIDE DEF K
  <2>4. j \in Jobs /\ Accept(K, KidOf[o], j, 0, 0) /\ ~Active(K[j]) /\ ~K[j].elig
    BY <2>1, <2>2, <2>3
  <2> QED BY <2>1, <2>2, <2>4, ShortAccept
<1>7. ASSUME NEW o \in Ops, NEW j \in AllJobs, RetryAlias(o, j) PROVE ShortInv'
  <2>1. now' = now BY <1>7 DEF RetryAlias
  <2>2. PICK h \in AllJobs : Alias(KidOf[o], Swept[j].org, h) BY <1>7 DEF RetryAlias
  <2>3. KidOf[o] \in AllJobs /\ Swept[j].org \in Jobs
    BY <1>b, StoreAssumption DEF StoreAssumption, AllJobs, JobRec
  <2> QED BY <2>1, <2>2, <2>3, ShortAlias
<1>8. CASE UNCHANGED storeVars
  <2>1. UNCHANGED <<now, job, idem>> BY <1>8 DEF storeVars
  <2> QED BY <2>1, ShortPrime DEF ShortInv
<1> QED BY <1>1, <1>2, <1>3, <1>4, <1>5, <1>6, <1>7, <1>8, Commands DEF Producer

\* A set without two different members has at most one.
LEMMA AtMostOne ==
  ASSUME NEW S, \A a, b \in S : a = b
  PROVE  Cardinality(S) <= 1
<1>1. CASE S = {} BY <1>1, FS_EmptySet
<1>2. CASE S # {}
  <2>1. PICK a \in S : TRUE BY <1>2
  <2>2. S = {a} BY <2>1
  <2> QED BY <2>2, FS_Singleton
<1> QED BY <1>1, <1>2

\* A job and its retries: at most one of them goes on or can be retried.
LEMMA ShortInvRetry == TypeOK /\ LifeInv /\ ShortInv => RetryOnce
<1> SUFFICES ASSUME TypeOK, LifeInv, ShortInv, NEW j \in Jobs
             PROVE  /\ job[j].att <= MaxAttempts
                    /\ Cardinality({k \in AllJobs : job[k].org = j
                                      /\ (Active(sweep(job[k])) \/ job[k].elig)}) <= 1
                    /\ \A k \in Kids : ~job[k].elig
  BY DEF RetryOnce
<1> DEFINE S == {k \in AllJobs : job[k].org = j /\ (Active(sweep(job[k])) \/ job[k].elig)}
<1>1. now \in Nat /\ j \in AllJobs /\ \A k \in AllJobs : GoodRec(job[k])
  BY DEF TypeOK, AllJobs, LifeInv, Good
<1>2. job[j].att <= MaxAttempts BY <1>1 DEF GoodRec, DatedRec
<1>3. \A k \in Kids : ~job[k].elig
  <2> SUFFICES ASSUME NEW k \in Kids PROVE ~job[k].elig OBVIOUS
  <2>1. k \in AllJobs BY DEF AllJobs
  <2>2. job[k].grants = 0 BY <2>1 DEF LifeInv, Owned, OwnedBy
  <2>3. job[k].elig => job[k].grants = 1 BY <1>1, <2>1 DEF GoodRec, CoherentRec
  <2> QED BY <2>2, <2>3
<1>4. \A k \in S : k \in AllJobs /\ job[k].org = j /\ (Going(job[k]) \/ job[k].elig)
  <2> SUFFICES ASSUME NEW k \in S PROVE Going(job[k]) \/ job[k].elig OBVIOUS
  <2>1. GoodRec(job[k]) BY <1>1
  <2>2. Active(sweep(job[k])) => Active(job[k]) /\ job[k].zDead > now
    BY <1>1, <2>1, SweepGood DEF Continues
  <2> QED BY <2>2 DEF Going
<1> HIDE DEF S
<1>5. \A k \in S : k \in Jobs => k = j
  <2> SUFFICES ASSUME NEW k \in S, k \in Jobs PROVE k = j OBVIOUS
  <2>1. k \in AllJobs /\ job[k].st # "absent" /\ job[k].org = j
    <3>1. GoodRec(job[k]) BY <1>1, <1>4
    <3>2. job[k].elig => job[k].st # "absent" BY <3>1 DEF GoodRec, CoherentRec
    <3> QED BY <1>4, <3>2, States DEF Going
  <2> QED BY <2>1 DEF LifeInv, Owned, OwnedBy
<1>6. \A k \in S : k \in Kids =>
         /\ j \notin S
         /\ \A l \in S : l \in Kids => l = k
  <2> SUFFICES ASSUME NEW k \in S, k \in Kids
               PROVE  j \notin S /\ \A l \in S : l \in Kids => l = k
    OBVIOUS
  <2>1. Going(job[k]) /\ job[k].org = j BY <1>3, <1>4
  <2>2. /\ ~Active(job[j]) /\ ~job[j].elig
        /\ \A l \in Kids : Going(job[l]) /\ job[l].org = j => l = k
    BY <2>1 DEF ShortInv, ShortBy, SingleBy
  <2> QED BY <1>3, <1>4, <2>2 DEF Going
<1>7. \A a, b \in S : a = b BY <1>4, <1>5, <1>6 DEF AllJobs
<1>8. Cardinality(S) <= 1 BY <1>7, AtMostOne
<1> QED BY <1>2, <1>3, <1>8 DEF S

\* Every record is counted exactly.
LEMMA ShortInvBytes == ShortInv => BytesExact
BY DEF ShortInv, ShortBy, FreshRec, Exact, BytesExact

\* The short-outage invariant is inductive beside LifeInv.
LEMMA ShortInvariant ==
  ASSUME ShortOutage
  PROVE  Spec => [](TypeOK /\ LifeInv /\ ShortInv)
<1>1. Init => ShortInv BY ShortInit
<1>2. TypeOK /\ LifeInv /\ ShortInv /\ [Next]_storeVars => ShortInv' BY ShortStep
<1> QED BY <1>1, <1>2, LifeInvariant, PTL DEF Spec

\* Without an outage of most of a day, a job is retried by hand at most once:
\* of a job and its retries never two can run or be retried, whatever is
\* cancelled, aliased, erased or admitted anew in between.
THEOREM RetryOnceAlways == ASSUME ShortOutage PROVE Spec => []RetryOnce
BY ShortInvariant, ShortInvRetry, PTL

\* Without such an outage the bytes counted for a lane are those of the payloads
\* its jobs own; with one they are not (the run that expects a violation).
THEOREM BytesExactAlways == ASSUME ShortOutage PROVE Spec => []BytesExact
BY ShortInvariant, ShortInvBytes, PTL

-----------------------------------------------------------------------------
(* The caps of a lane.  The counters that admission and claim compare are  *)
(* never below what the lane really holds: a share covers its job's state  *)
(* exactly, and its payload at least (after a long outage the script may   *)
(* count bytes of a payload that is gone, never the reverse).              *)

\* The jobs of lane l that are unfinished, that a worker holds, whose payload is
\* kept, and the sizes of those payloads.
ActiveIn(K, l) == {j \in AllJobs : Active(K[j]) /\ Lane[K[j].org] = l}
HeldIn(K, l)   == {j \in AllJobs : Held(K[j]) /\ Lane[K[j].org] = l}
KeptIn(K, l)   == {j \in AllJobs : K[j].pay /\ Lane[K[j].org] = l}
KeptSizes(K, l) == [j \in KeptIn(K, l) |-> Size[K[j].org]]

\* The three caps of a lane.
JobsCap(K, l) == Cardinality(ActiveIn(K, l)) <= MaxJobs[l]
HeldCap(K, l) == Cardinality(HeldIn(K, l)) <= Workers[l]
ByteCap(K, l) == SumFunction(KeptSizes(K, l)) <= MaxBytes
Capped(K) == \A l \in Lanes : JobsCap(K, l) /\ HeldCap(K, l) /\ ByteCap(K, l)

\* The inductive invariant: the caps, and no job counted for less than it keeps.
CapsInv == Capped(job) /\ \A j \in AllJobs : Covered(job[j])

\* n takes no more of its lane than m did, and is still counted.
Shrinks(m, n) ==
  /\ n.org = m.org
  /\ Active(n) => Active(m)
  /\ Held(n) => Held(m)
  /\ n.pay => m.pay
  /\ Covered(m) => Covered(n)

\* A move keeps a payload that was there, and its bytes.
LEMMA MovesShrink ==
  ASSUME NEW m, GoodRec(m), NEW n, Moves(m, n), Held(n) => Held(m)
  PROVE  Shrinks(m, n)
<1>1. n.pay => m.pay
  <2>1. Active(m) => m.pay BY DEF GoodRec, CoherentRec
  <2>2. ~Active(m) /\ n.pay => m.pay BY DEF Moves, Continues, Lives
  <2> QED BY <2>1, <2>2
<1> QED BY <1>1 DEF Shrinks, Moves, Continues, Lives, Counts

\* The metadata loop deletes the record and not its share of the bytes.
LEMMA SweepMetadataShrinks ==
  ASSUME NEW m \in JobRec
  PROVE  LET n == SweepMetadata(m) IN
         (n.pay => m.pay) /\ n.nByte = m.nByte /\ n.org = m.org
<1>1. SweepMetadata(m) \in {m, Removed(m), [m EXCEPT !.zMeta = Never, !.ids = {}]}
  BY DEF SweepMetadata
<1>2. Removed(m).pay = FALSE /\ Removed(m).nByte = m.nByte /\ Removed(m).org = m.org
  BY DEF Removed, NoRec
<1> DEFINE z == [m EXCEPT !.zMeta = Never, !.ids = {}]
<1>3. z.pay = m.pay /\ z.nByte = m.nByte /\ z.org = m.org
  BY DEF JobRec
<1> HIDE DEF z
<1> QED BY <1>1, <1>2, <1>3 DEF z

\* More is counted than kept when the share stays and the payload goes.
LEMMA CoveredKept ==
  ASSUME NEW m \in JobRec, NEW n, n.pay => m.pay, n.nByte = m.nByte, n.org = m.org, Covered(m)
  PROVE  Covered(n)
<1>1. m.org \in Jobs /\ Size[m.org] \in Nat /\ m.nByte \in Int BY ConstTypes DEF JobRec
<1> QED BY <1>1 DEF Covered

\* The sweep frees places, slots and payloads and takes none, whatever was
\* outstanding.
LEMMA SweepShrinks ==
  ASSUME NEW m, GoodRec(m), now \in Nat
  PROVE  Shrinks(m, sweep(m))
<1> DEFINE n == sweep(m)
<1>0. m \in JobRec BY DEF GoodRec
<1>1. n.org = m.org /\ (Active(n) => Active(m)) BY SweepGood DEF Continues
<1>2. Held(n) => Held(m) BY <1>0, SweepFollows DEF Follows
<1>3. (n.pay => m.pay) /\ (Covered(m) => Covered(n))
  <2> DEFINE p == SweepPayload(m)
             d == SweepDeadline(p)
             r == SweepRunning(d)
             l == SweepDelayed(r)
  <2>0. n = SweepMetadata(l) BY DEF sweep
  <2>1. CASE Active(m)
    <3>1. Moves(m, p) BY <2>1, SweepPayloadMoves
    <3> HIDE DEF p
    <3>2. Moves(p, d) /\ (Active(d) => d = p /\ p.zDead > now)
      BY <3>1, SweepDeadlineMoves DEF Moves
    <3> HIDE DEF d
    <3>3. Moves(d, r) BY <3>2, SweepRunningMoves DEF Moves
    <3> HIDE DEF r
    <3>4. Moves(r, l) BY <3>3, SweepDelayedMoves DEF Moves
    <3> HIDE DEF l
    <3>5. Moves(m, l) BY <3>1, <3>2, <3>3, <3>4, MovesTrans
    <3>6. l \in JobRec /\ (Covered(m) => Covered(l)) BY <3>5 DEF Moves, GoodRec, Lives, Counts
    <3>7. (n.pay => l.pay) /\ n.nByte = l.nByte /\ n.org = l.org
      BY <2>0, <3>6, SweepMetadataShrinks
    <3>8. m.pay BY <2>1 DEF GoodRec, CoherentRec
    <3> HIDE DEF n
    <3> QED BY <3>6, <3>7, <3>8, CoveredKept
  <2>2. CASE ~Active(m)
    <3>1. m.zDead = Never /\ m.zRun = Never /\ m.zDelay = Never
      <4>1. ~Held(m) /\ m.st # "delayed" BY <2>2, States DEF Active, ActiveStates
      <4>2. m.zDead = Never /\ m.zRun = Never BY <2>2, <4>1 DEF GoodRec, CoherentRec
      <4> QED BY <4>1, <4>2 DEF GoodRec, CoherentRec
    <3>2. /\ p \in JobRec /\ p.zDead = Never /\ p.zRun = Never /\ p.zDelay = Never
          /\ (p.pay => m.pay) /\ (Covered(m) => Covered(p))
      <4> DEFINE z == [m EXCEPT !.zPay = Never]
                 c == drop_payload(m)
      <4>1. p \in {m, z, c} BY <2>2 DEF SweepPayload
      <4>2. /\ z.zDead = m.zDead /\ z.zRun = m.zRun /\ z.zDelay = m.zDelay /\ z.pay = m.pay
            /\ z.nByte = m.nByte /\ z.org = m.org
        BY <1>0 DEF JobRec
      <4>3. SameButPayload(m, c) /\ c.pay = FALSE BY <1>0, DropValues
      <4>4. Covered(m) => Covered(c) BY <1>0, DropLives DEF Lives, Counts
      <4>5. p \in JobRec BY <1>0, SweepPayloadType
      <4> HIDE DEF z, c, p
      <4>6. Covered(m) => Covered(z) BY <1>0, <4>2, CoveredKept
      <4> QED BY <3>1, <4>1, <4>2, <4>3, <4>4, <4>5, <4>6 DEF SameButPayload
    <3> HIDE DEF p
    <3>3. d = p BY <3>2 DEF SweepDeadline, Due
    <3>4. r = d BY <3>2, <3>3 DEF SweepRunning, Due
    <3>5. l = r BY <3>2, <3>3, <3>4 DEF SweepDelayed, Due
    <3>6. l = p BY <3>3, <3>4, <3>5
    <3> HIDE DEF l, r, d
    <3>7. (n.pay => p.pay) /\ n.nByte = p.nByte /\ n.org = p.org
      BY <2>0, <3>2, <3>6, SweepMetadataShrinks
    <3> HIDE DEF n
    <3> QED BY <3>2, <3>7, CoveredKept
  <2> QED BY <2>1, <2>2
<1> HIDE DEF n
<1>4. Shrinks(m, n) BY <1>1, <1>2, <1>3 DEF Shrinks
<1> QED BY <1>4 DEF n

\* What the proofs use of the assumptions on the caps.
LEMMA CapTypes ==
  /\ MaxJobs \in [Lanes -> Nat] /\ Workers \in [Lanes -> Nat] /\ MaxBytes \in Nat
  /\ IsFiniteSet(AllJobs)
BY StoreAssumption, FiniteIds DEF StoreAssumption

\* A lane's jobs are finitely many, and so are those that use it.
LEMMA LaneFinite ==
  ASSUME NEW A \in SUBSET AllJobs
  PROVE  IsFiniteSet(A) /\ Cardinality(A) \in Nat
BY CapTypes, FS_Subset, FS_CardinalityType

\* A part of a set of jobs has no more members.
LEMMA FewerJobs ==
  ASSUME NEW A \in SUBSET AllJobs, NEW B \in SUBSET A, NEW n \in Nat, Cardinality(A) <= n
  PROVE  Cardinality(B) <= n
<1>1. IsFiniteSet(A) /\ Cardinality(A) \in Nat BY LaneFinite
<1>2. Cardinality(B) \in Nat /\ Cardinality(B) <= Cardinality(A)
  BY <1>1, FS_Subset, FS_CardinalityType
<1> QED BY <1>1, <1>2

\* The sizes of the payloads of a lane are natural numbers.
LEMMA SizesType ==
  ASSUME NEW K \in [AllJobs -> JobRec], NEW l
  PROVE  /\ KeptIn(K, l) \in SUBSET AllJobs /\ DOMAIN KeptSizes(K, l) = KeptIn(K, l)
         /\ \A j \in KeptIn(K, l) : KeptSizes(K, l)[j] = Size[K[j].org] /\ Size[K[j].org] \in Nat
<1>1. KeptIn(K, l) \in SUBSET AllJobs BY DEF KeptIn
<1>2. \A j \in AllJobs : K[j].org \in Jobs BY DEF JobRec
<1>3. \A j \in KeptIn(K, l) : Size[K[j].org] \in Nat BY <1>1, <1>2, ConstTypes
<1> QED BY <1>1, <1>3 DEF KeptSizes

\* Fewer payloads of the same jobs take fewer bytes.
LEMMA FewerBytes ==
  ASSUME NEW K \in [AllJobs -> JobRec], NEW L \in [AllJobs -> JobRec], NEW l,
         KeptIn(L, l) \subseteq KeptIn(K, l), \A j \in KeptIn(L, l) : L[j].org = K[j].org
  PROVE  /\ SumFunction(KeptSizes(L, l)) <= SumFunction(KeptSizes(K, l))
         /\ SumFunction(KeptSizes(L, l)) \in Int /\ SumFunction(KeptSizes(K, l)) \in Int
<1> DEFINE A == KeptIn(L, l)
           S == KeptIn(K, l)
           f == KeptSizes(L, l)
           g == KeptSizes(K, l)
<1>1. /\ A \in SUBSET S /\ S \in SUBSET AllJobs /\ DOMAIN f = A /\ DOMAIN g = S
      /\ \A j \in A : f[j] = Size[L[j].org] /\ f[j] \in Nat
      /\ \A j \in S : g[j] = Size[K[j].org] /\ g[j] \in Nat
  BY SizesType
<1>2. \A j \in A : f[j] = g[j] BY <1>1
<1>3. IsFiniteSet(S) /\ IsFiniteSet(A) BY <1>1, CapTypes, FS_Subset
<1>4. SumFunction(f) = SumFunctionOnSet(f, A) /\ SumFunction(g) = SumFunctionOnSet(g, S)
  BY <1>1 DEF SumFunction
<1> HIDE DEF A, S, f, g
<1>5. /\ \A x \in S : g[x] \in Int
      /\ \A x \in A : f[x] \in Int /\ f[x] <= g[x]
      /\ \A x \in S \ A : 0 <= g[x]
  BY <1>1, <1>2
<1>6. SumFunctionOnSet(f, A) <= SumFunctionOnSet(g, S) BY <1>1, <1>3, <1>5, SumBound
<1>7. SumFunctionOnSet(f, A) \in Int /\ SumFunctionOnSet(g, S) \in Int
  <2>1. A \in SUBSET A /\ S \in SUBSET S OBVIOUS
  <2>2. SumFunctionOnSet(f, A) \in Int BY <1>3, <1>5, <2>1, SumType
  <2>3. SumFunctionOnSet(g, S) \in Int BY <1>3, <1>5, <2>1, SumType
  <2> QED BY <2>2, <2>3
<1>8. /\ SumFunction(f) <= SumFunction(g) /\ SumFunction(f) \in Int /\ SumFunction(g) \in Int
  BY <1>4, <1>6, <1>7
<1> QED BY <1>8 DEF f, g

\* The caps of a lane hold for less than was there.
LEMMA LaneShrinks ==
  ASSUME NEW K \in [AllJobs -> JobRec], NEW L \in [AllJobs -> JobRec], NEW l \in Lanes,
         JobsCap(K, l), HeldCap(K, l), ByteCap(K, l)
  PROVE  /\ ActiveIn(L, l) \subseteq ActiveIn(K, l) => JobsCap(L, l)
         /\ HeldIn(L, l) \subseteq HeldIn(K, l) => HeldCap(L, l)
         /\ KeptIn(L, l) \subseteq KeptIn(K, l) /\ (\A j \in KeptIn(L, l) : L[j].org = K[j].org)
              => ByteCap(L, l)
<1>1. MaxJobs[l] \in Nat /\ Workers[l] \in Nat /\ MaxBytes \in Nat BY CapTypes
<1>2. ActiveIn(K, l) \in SUBSET AllJobs /\ HeldIn(K, l) \in SUBSET AllJobs
  BY DEF ActiveIn, HeldIn
<1>3. ActiveIn(L, l) \subseteq ActiveIn(K, l) => JobsCap(L, l)
  BY <1>1, <1>2, FewerJobs DEF JobsCap
<1>4. HeldIn(L, l) \subseteq HeldIn(K, l) => HeldCap(L, l)
  BY <1>1, <1>2, FewerJobs DEF HeldCap
<1>5. KeptIn(L, l) \subseteq KeptIn(K, l) /\ (\A j \in KeptIn(L, l) : L[j].org = K[j].org)
        => ByteCap(L, l)
  BY <1>1, FewerBytes DEF ByteCap
<1> QED BY <1>3, <1>4, <1>5

\* Jobs that take no more than before stay within the caps.
LEMMA CappedShrinks ==
  ASSUME NEW K \in [AllJobs -> JobRec], NEW L \in [AllJobs -> JobRec], Capped(K),
         \A j \in AllJobs : Shrinks(K[j], L[j])
  PROVE  Capped(L)
<1> SUFFICES ASSUME NEW l \in Lanes PROVE JobsCap(L, l) /\ HeldCap(L, l) /\ ByteCap(L, l)
  BY DEF Capped
<1>1. JobsCap(K, l) /\ HeldCap(K, l) /\ ByteCap(K, l) BY DEF Capped
<1>2. /\ ActiveIn(L, l) \subseteq ActiveIn(K, l) /\ HeldIn(L, l) \subseteq HeldIn(K, l)
      /\ KeptIn(L, l) \subseteq KeptIn(K, l) /\ (\A j \in KeptIn(L, l) : L[j].org = K[j].org)
  BY DEF Shrinks, ActiveIn, HeldIn, KeptIn
<1> QED BY <1>1, <1>2, LaneShrinks

\* The counters of a lane are never below what its jobs use.
LEMMA CountersCover ==
  ASSUME NEW K \in [AllJobs -> JobRec], NEW l,
         \A j \in AllJobs : GoodRec(K[j]) /\ Covered(K[j])
  PROVE  /\ nonterminal(K, l) \in Int /\ Cardinality(ActiveIn(K, l)) <= nonterminal(K, l)
         /\ running(K, l) \in Int /\ Cardinality(HeldIn(K, l)) <= running(K, l)
         /\ payload_bytes(K, l) \in Int /\ SumFunction(KeptSizes(K, l)) <= payload_bytes(K, l)
<1> DEFINE S == LaneJobs(K, l)
           a == [j \in S |-> K[j].nActive]
           h == [j \in S |-> K[j].nHeld]
           b == [j \in S |-> K[j].nByte]
<1>1. S \in SUBSET AllJobs /\ IsFiniteSet(S) /\ S \in SUBSET S
  <2>1. S \in SUBSET AllJobs BY DEF LaneJobs
  <2> QED BY <2>1, LaneFinite
<1>2. /\ nonterminal(K, l) = SumFunctionOnSet(a, S)
      /\ running(K, l) = SumFunctionOnSet(h, S)
      /\ payload_bytes(K, l) = SumFunctionOnSet(b, S)
  BY DEF nonterminal, running, payload_bytes, SumFunction
<1>3. /\ ActiveIn(K, l) \in SUBSET S /\ HeldIn(K, l) \in SUBSET S /\ KeptIn(K, l) \in SUBSET S
  BY DEF ActiveIn, HeldIn, KeptIn, LaneJobs
<1>4. \A j \in S : K[j] \in JobRec /\ K[j].nActive = Flag(Active(K[j])) /\ K[j].nHeld = Flag(Held(K[j]))
  BY <1>1 DEF GoodRec, CoherentRec
<1>5. \A j \in S : /\ a[j] \in Int /\ 0 <= a[j] /\ (Active(K[j]) => 1 <= a[j])
                   /\ h[j] \in Int /\ 0 <= h[j] /\ (Held(K[j]) => 1 <= h[j])
  BY <1>4 DEF Flag
<1>6. \A j \in S : b[j] = K[j].nByte /\ b[j] \in Int /\ 0 <= b[j] /\ (K[j].pay => Size[K[j].org] <= b[j])
  <2> SUFFICES ASSUME NEW j \in S
               PROVE  K[j].nByte \in Int /\ 0 <= K[j].nByte /\ (K[j].pay => Size[K[j].org] <= K[j].nByte)
    OBVIOUS
  <2>1. K[j] \in JobRec /\ Covered(K[j]) BY <1>1, <1>4
  <2>2. K[j].org \in Jobs /\ Size[K[j].org] \in Nat /\ K[j].nByte \in Int
    BY <2>1, ConstTypes DEF JobRec
  <2> QED BY <2>1, <2>2 DEF Covered
<1>7. \A j \in ActiveIn(K, l) : Active(K[j]) BY DEF ActiveIn
<1>8. \A j \in HeldIn(K, l) : Held(K[j]) BY DEF HeldIn
<1>9. \A j \in KeptIn(K, l) : K[j].pay BY DEF KeptIn
<1> HIDE DEF S, a, h, b
<1>10. SumFunctionOnSet(a, S) \in Int /\ Cardinality(ActiveIn(K, l)) <= SumFunctionOnSet(a, S)
  <2>1. SumFunctionOnSet(a, S) \in Int BY <1>1, <1>5, SumType
  <2> QED BY <1>1, <1>3, <1>5, <1>7, <2>1, CardinalityBound
<1>11. SumFunctionOnSet(h, S) \in Int /\ Cardinality(HeldIn(K, l)) <= SumFunctionOnSet(h, S)
  <2>1. SumFunctionOnSet(h, S) \in Int BY <1>1, <1>5, SumType
  <2> QED BY <1>1, <1>3, <1>5, <1>8, <2>1, CardinalityBound
<1>12. SumFunctionOnSet(b, S) \in Int /\ SumFunction(KeptSizes(K, l)) <= SumFunctionOnSet(b, S)
  <2>1. SumFunctionOnSet(b, S) \in Int BY <1>1, <1>6, SumType
  <2> DEFINE A == KeptIn(K, l)
             f == KeptSizes(K, l)
  <2>2. DOMAIN f = A /\ \A j \in A : f[j] = Size[K[j].org] /\ f[j] \in Nat BY SizesType
  <2>3. A \in SUBSET S /\ \A j \in A : K[j].pay BY <1>3, <1>9
  <2>4. SumFunction(f) = SumFunctionOnSet(f, A) BY <2>2 DEF SumFunction
  <2> HIDE DEF A, f
  <2>5. /\ \A x \in S : b[x] \in Int
        /\ \A x \in A : f[x] \in Int /\ f[x] <= b[x]
        /\ \A x \in S \ A : 0 <= b[x]
    BY <1>6, <2>2, <2>3
  <2>6. SumFunctionOnSet(f, A) <= SumFunctionOnSet(b, S) BY <1>1, <2>3, <2>5, SumBound
  <2>7. SumFunction(f) <= SumFunctionOnSet(b, S) BY <2>4, <2>6
  <2> QED BY <2>1, <2>7 DEF f
<1> QED BY <1>2, <1>10, <1>11, <1>12

\* One more job in a set of jobs.
LEMMA OneMore ==
  ASSUME NEW A \in SUBSET AllJobs, NEW k \in AllJobs, NEW B, B \subseteq A \cup {k},
         NEW n \in Int, Cardinality(A) <= n, NEW c \in Nat, n < c
  PROVE  Cardinality(B) <= c
<1>1. IsFiniteSet(A) /\ Cardinality(A) \in Nat BY LaneFinite
<1>2. IsFiniteSet(A \cup {k}) /\ Cardinality(A \cup {k}) <= Cardinality(A) + 1
      /\ Cardinality(A \cup {k}) \in Nat
  BY <1>1, FS_AddElement, FS_CardinalityType
<1>3. Cardinality(B) <= Cardinality(A \cup {k}) /\ Cardinality(B) \in Nat
  BY <1>2, FS_Subset, FS_CardinalityType
<1> QED BY <1>1, <1>2, <1>3

\* The swept jobs use no more than the jobs the command found.
LEMMA SweptCaps ==
  ASSUME TypeOK, LifeInv, CapsInv
  PROVE  /\ Swept \in [AllJobs -> JobRec] /\ Capped(Swept)
         /\ \A j \in AllJobs : GoodRec(Swept[j]) /\ Covered(Swept[j])
<1>1. \A j \in AllJobs : Shrinks(job[j], Swept[j])
  <2> SUFFICES ASSUME NEW j \in AllJobs PROVE Shrinks(job[j], Swept[j])
    OBVIOUS
  <2>1. Swept[j] = sweep(job[j]) BY DEF Swept
  <2>2. now \in Nat /\ GoodRec(job[j]) BY DEF TypeOK, LifeInv, Good
  <2> QED BY <2>1, <2>2, SweepShrinks
<1>2. Swept \in [AllJobs -> JobRec] /\ job \in [AllJobs -> JobRec] BY SweptType DEF TypeOK
<1>3. Capped(Swept) BY <1>1, <1>2, CappedShrinks DEF CapsInv
<1>4. \A j \in AllJobs : Covered(Swept[j]) BY <1>1 DEF CapsInv, Shrinks
<1>5. \A j \in AllJobs : GoodRec(Swept[j]) BY SweptGood DEF LifeInv
<1> QED BY <1>2, <1>3, <1>4, <1>5

\* The invariant of the next state, for the jobs J a command leaves.
LEMMA CapsPrime ==
  ASSUME NEW J, job' = J, Capped(J), \A j \in AllJobs : Covered(J[j])
  PROVE  CapsInv'
BY DEF CapsInv, Capped, JobsCap, HeldCap, ByteCap, ActiveIn, HeldIn, KeptIn, KeptSizes,
       Covered, Active, Held

\* A command that gives nothing out.
LEMMA CapsShrink ==
  ASSUME TypeOK, TypeOK', LifeInv, CapsInv, \A j \in AllJobs : Shrinks(Swept[j], job'[j])
  PROVE  CapsInv'
<1> DEFINE J == job'
<1>1. J \in [AllJobs -> JobRec] BY DEF TypeOK
<1>2. \A j \in AllJobs : Shrinks(Swept[j], J[j]) OBVIOUS
<1>3. job' = J OBVIOUS
<1> HIDE DEF J
<1>4. /\ Swept \in [AllJobs -> JobRec] /\ Capped(Swept)
      /\ \A j \in AllJobs : Covered(Swept[j])
  BY SweptCaps
<1>5. Capped(J) BY <1>1, <1>2, <1>4, CappedShrinks
<1>6. \A j \in AllJobs : Covered(J[j]) BY <1>2, <1>4 DEF Shrinks
<1> QED BY <1>3, <1>5, <1>6, CapsPrime

\* A claim takes one slot of its lane, and finds one free.
LEMMA CapsClaim ==
  ASSUME TypeOK, TypeOK', LifeInv, CapsInv, NEW l \in Lanes, Claim(l), Moved
  PROVE  CapsInv'
<1> DEFINE J == job'
<1>1. J \in [AllJobs -> JobRec] /\ now \in Nat BY DEF TypeOK
<1>2. \A i \in AllJobs : Moves(Swept[i], J[i]) BY DEF Moved
<1>3. PICK j \in AllJobs :
        /\ Lane[Swept[j].org] = l
        /\ \A i \in AllJobs : i # j => J[i] \in {Swept[i], Passed(Swept[i])}
  BY DEF Claim, Ready
<1>4. running(Swept, l) < Workers[l] BY DEF Claim, CanClaim
<1>5. job' = J OBVIOUS
<1> HIDE DEF J
<1>6. /\ Swept \in [AllJobs -> JobRec] /\ Capped(Swept)
      /\ \A i \in AllJobs : GoodRec(Swept[i]) /\ Covered(Swept[i])
  BY SweptCaps
<1>7. \A i \in AllJobs : i # j => (Held(J[i]) => Held(Swept[i]))
  <2>1. \A i \in AllJobs : Calm(Swept[i], Swept[i]) /\ Calm(Swept[i], Passed(Swept[i]))
    BY <1>1, <1>6, CalmPassed DEF Calm
  <2> QED BY <1>3, <2>1 DEF Calm
<1>8. \A i \in AllJobs : /\ J[i].org = Swept[i].org /\ (Active(J[i]) => Active(Swept[i]))
                         /\ (J[i].pay => Swept[i].pay) /\ Covered(J[i])
  <2> SUFFICES ASSUME NEW i \in AllJobs
               PROVE  /\ J[i].org = Swept[i].org /\ (Active(J[i]) => Active(Swept[i]))
                      /\ (J[i].pay => Swept[i].pay) /\ Covered(J[i])
    OBVIOUS
  <2>1. /\ GoodRec(Swept[i]) /\ Moves(Swept[i], J[i]) /\ Covered(Swept[i]) BY <1>2, <1>6
  <2>2. J[i].pay => Swept[i].pay
    BY <2>1 DEF GoodRec, CoherentRec, Moves, Continues, Lives
  <2> QED BY <2>1, <2>2 DEF Moves, Continues, Lives, Counts
<1>9. ASSUME NEW k \in Lanes PROVE JobsCap(J, k) /\ HeldCap(J, k) /\ ByteCap(J, k)
  <2>1. JobsCap(Swept, k) /\ HeldCap(Swept, k) /\ ByteCap(Swept, k) BY <1>6 DEF Capped
  <2>2. /\ ActiveIn(J, k) \subseteq ActiveIn(Swept, k) /\ KeptIn(J, k) \subseteq KeptIn(Swept, k)
        /\ \A i \in KeptIn(J, k) : J[i].org = Swept[i].org
    BY <1>8 DEF ActiveIn, KeptIn
  <2>3. JobsCap(J, k) /\ ByteCap(J, k) BY <1>1, <1>6, <2>1, <2>2, LaneShrinks
  <2>4. CASE k # l
    <3>1. HeldIn(J, k) \subseteq HeldIn(Swept, k) BY <1>3, <1>7, <1>8, <2>4 DEF HeldIn
    <3>2. HeldCap(J, k) BY <1>1, <1>6, <2>1, <3>1, LaneShrinks
    <3> QED BY <2>3, <3>2
  <2>5. CASE k = l
    <3>1. HeldIn(J, l) \subseteq HeldIn(Swept, l) \cup {j} BY <1>7, <1>8 DEF HeldIn
    <3>2. running(Swept, l) \in Int /\ Cardinality(HeldIn(Swept, l)) <= running(Swept, l)
      BY <1>6, CountersCover
    <3>3. HeldIn(Swept, l) \in SUBSET AllJobs /\ Workers[l] \in Nat BY CapTypes DEF HeldIn
    <3>4. Cardinality(HeldIn(J, l)) <= Workers[l] BY <1>4, <3>1, <3>2, <3>3, OneMore
    <3> QED BY <2>3, <2>5, <3>4 DEF HeldCap
  <2> QED BY <2>4, <2>5
<1>10. Capped(J) BY <1>9 DEF Capped
<1> QED BY <1>5, <1>8, <1>10, CapsPrime

\* The record of an admission is counted with its payload and held by no one.
LEMMA AdmittedCovered ==
  ASSUME NEW m \in JobRec, Covered(m), NEW j, NEW org \in Jobs, NEW delay, NEW grant
  PROVE  Covered(Admitted(m, j, org, delay, grant))
<1> DEFINE n == Admitted(m, j, org, delay, grant)
<1>1. n.nByte = m.nByte + Size[org] /\ n.org = org /\ n.pay = TRUE BY DEF Admitted, JobRec
<1> HIDE DEF n
<1>2. m.org \in Jobs /\ Size[m.org] \in Nat /\ m.nByte \in Int /\ Size[org] \in Nat
  BY ConstTypes DEF JobRec
<1>3. 0 <= m.nByte BY <1>2 DEF Covered
<1>4. Covered(n) BY <1>1, <1>2, <1>3 DEF Covered
<1> QED BY <1>4 DEF n

\* One more payload takes its size.
LEMMA OnePayload ==
  ASSUME NEW K \in [AllJobs -> JobRec], NEW J \in [AllJobs -> JobRec], NEW l, NEW k \in KeptIn(J, l),
         \A i \in AllJobs : i # k => J[i] = K[i]
  PROVE  /\ SumFunction(KeptSizes(J, l)) <= Size[J[k].org] + SumFunction(KeptSizes(K, l))
         /\ SumFunction(KeptSizes(J, l)) \in Int /\ SumFunction(KeptSizes(K, l)) \in Int
<1> DEFINE A == KeptIn(J, l)
           B == A \ {k}
           S == KeptIn(K, l)
           f == KeptSizes(J, l)
           g == KeptSizes(K, l)
<1>1. /\ A \in SUBSET AllJobs /\ S \in SUBSET AllJobs /\ DOMAIN f = A /\ DOMAIN g = S
      /\ \A j \in A : f[j] = Size[J[j].org] /\ f[j] \in Nat
      /\ \A j \in S : g[j] = Size[K[j].org] /\ g[j] \in Nat
  BY SizesType
<1>2. B \in SUBSET S /\ B \in SUBSET A /\ k \in A /\ \A j \in B : J[j] = K[j]
  BY DEF KeptIn
<1>3. IsFiniteSet(S) /\ IsFiniteSet(A) BY <1>1, LaneFinite
<1>4. SumFunction(f) = SumFunctionOnSet(f, A) /\ SumFunction(g) = SumFunctionOnSet(g, S)
  BY <1>1 DEF SumFunction
<1>5. /\ \A x \in S : g[x] \in Int /\ 0 <= g[x]
      /\ \A x \in A : f[x] \in Int
      /\ \A x \in B : f[x] = g[x]
  BY <1>1, <1>2
<1>6. f[k] = Size[J[k].org] /\ f[k] \in Int BY <1>1, <1>2
<1>7. SumFunctionOnSet(f, A) = f[k] + SumFunctionOnSet(f, B)
  <2> HIDE DEF A, f
  <2> QED BY <1>2, <1>3, <1>5, SumRemove
<1> HIDE DEF A, B, S, f, g
<1>8. SumFunctionOnSet(f, B) <= SumFunctionOnSet(g, S)
  <2>1. /\ \A x \in S : g[x] \in Int
        /\ \A x \in B : f[x] \in Int /\ f[x] <= g[x]
        /\ \A x \in S \ B : 0 <= g[x]
    BY <1>2, <1>5
  <2> QED BY <1>2, <1>3, <2>1, SumBound
<1>9. /\ SumFunctionOnSet(f, B) \in Int /\ SumFunctionOnSet(g, S) \in Int
      /\ SumFunctionOnSet(f, A) \in Int
  <2>1. A \in SUBSET A /\ S \in SUBSET S OBVIOUS
  <2>2. SumFunctionOnSet(f, B) \in Int /\ SumFunctionOnSet(f, A) \in Int
    BY <1>2, <1>3, <1>5, <2>1, SumType
  <2>3. SumFunctionOnSet(g, S) \in Int BY <1>3, <1>5, <2>1, SumType
  <2> QED BY <2>2, <2>3
<1>10. /\ SumFunction(f) <= Size[J[k].org] + SumFunction(g)
       /\ SumFunction(f) \in Int /\ SumFunction(g) \in Int
  BY <1>4, <1>6, <1>7, <1>8, <1>9
<1> QED BY <1>10 DEF f, g

\* An admission takes one place and the bytes of its payload, and finds both
\* free: c is what the retried job gives back.
LEMMA CapsAccept ==
  ASSUME TypeOK, LifeInv, CapsInv, NEW K \in [AllJobs -> JobRec],
         \A i \in AllJobs : Shrinks(Swept[i], K[i]) /\ GoodRec(K[i]),
         NEW k \in AllJobs, ~Active(K[k]), NEW org \in Jobs, NEW delay \in Nat,
         NEW grant \in {0, 1}, Accept(K, k, org, delay, grant), NEW c \in Nat,
         nonterminal(Swept, Lane[org]) < MaxJobs[Lane[org]],
         payload_bytes(Swept, Lane[org]) + Size[org] - c <= MaxBytes,
         SumFunction(KeptSizes(K, Lane[org])) + c <= payload_bytes(Swept, Lane[org])
  PROVE  CapsInv'
<1> DEFINE l == Lane[org]
           a == Admitted(K[k], k, org, delay, grant)
           J == [K EXCEPT ![k] = a]
<1>0. now \in Nat /\ admits \in Nat BY DEF TypeOK
<1>1. job' = J BY DEF Accept
<1>2. /\ Swept \in [AllJobs -> JobRec] /\ Capped(Swept)
      /\ \A i \in AllJobs : GoodRec(Swept[i]) /\ Covered(Swept[i])
  BY SweptCaps
<1>3. Capped(K) BY <1>2, CappedShrinks
<1>4. \A i \in AllJobs : Covered(K[i]) BY <1>2 DEF Shrinks
<1>5. GoodRec(a) /\ Active(a) /\ a.org = org BY <1>0, AdmittedGood
<1>6. Covered(a) BY <1>4, AdmittedCovered
<1>7. ~Held(a)
  <2>1. Held(a) => Held(K[k]) BY CalmAdmitted DEF Calm
  <2> QED BY <2>1, States
<1>8. a.pay BY <1>5 DEF GoodRec, CoherentRec
<1>9. J \in [AllJobs -> JobRec] BY <1>5 DEF GoodRec
<1>10. J[k] = a /\ \A i \in AllJobs : i # k => J[i] = K[i] OBVIOUS
<1>l. l \in Lanes /\ Size[org] \in Nat BY ConstTypes
<1> HIDE DEF a, J
<1>11. \A i \in AllJobs : Covered(J[i]) BY <1>4, <1>6, <1>10
<1>12. ASSUME NEW x \in Lanes PROVE JobsCap(J, x) /\ HeldCap(J, x) /\ ByteCap(J, x)
  <2>1. JobsCap(K, x) /\ HeldCap(K, x) /\ ByteCap(K, x) BY <1>3 DEF Capped
  <2>2. HeldIn(J, x) \subseteq HeldIn(K, x) BY <1>7, <1>10 DEF HeldIn
  <2>3. HeldCap(J, x) BY <1>9, <2>1, <2>2, LaneShrinks
  <2>4. CASE x # l
    <3>1. /\ ActiveIn(J, x) \subseteq ActiveIn(K, x) /\ KeptIn(J, x) \subseteq KeptIn(K, x)
          /\ \A i \in KeptIn(J, x) : J[i].org = K[i].org
      BY <1>5, <1>10, <2>4 DEF ActiveIn, KeptIn
    <3>2. JobsCap(J, x) /\ ByteCap(J, x) BY <1>9, <2>1, <3>1, LaneShrinks
    <3> QED BY <2>3, <3>2
  <2>5. CASE x = l
    <3>1. ActiveIn(J, l) \subseteq ActiveIn(Swept, l) \cup {k}
      BY <1>10 DEF ActiveIn, Shrinks
    <3>2. /\ nonterminal(Swept, l) \in Int
          /\ Cardinality(ActiveIn(Swept, l)) <= nonterminal(Swept, l)
          /\ payload_bytes(Swept, l) \in Int
      BY <1>2, CountersCover
    <3>3. ActiveIn(Swept, l) \in SUBSET AllJobs /\ MaxJobs[l] \in Nat /\ MaxBytes \in Nat
      BY <1>l, CapTypes DEF ActiveIn
    <3>4. Cardinality(ActiveIn(J, l)) <= MaxJobs[l]
      <4> HIDE DEF l
      <4>1. nonterminal(Swept, l) < MaxJobs[l] BY DEF l
      <4> QED BY <3>1, <3>2, <3>3, <4>1, OneMore
    <3>5. k \in KeptIn(J, l) BY <1>5, <1>8, <1>10 DEF KeptIn
    <3>6. /\ SumFunction(KeptSizes(J, l)) <= Size[org] + SumFunction(KeptSizes(K, l))
          /\ SumFunction(KeptSizes(J, l)) \in Int /\ SumFunction(KeptSizes(K, l)) \in Int
      BY <1>5, <1>9, <1>10, <3>5, OnePayload
    <3>7. SumFunction(KeptSizes(J, l)) <= MaxBytes
      BY <1>l, <3>2, <3>3, <3>6
    <3> QED BY <2>3, <2>5, <3>4, <3>7 DEF JobsCap, ByteCap
  <2> QED BY <2>4, <2>5
<1>13. Capped(J) BY <1>12 DEF Capped
<1> QED BY <1>1, <1>11, <1>13, CapsPrime

\* The record an admission takes over is not active.
LEMMA AcceptFree ==
  ASSUME TypeOK, LifeInv, NEW K, NEW j \in AllJobs, NEW org, NEW delay, NEW grant,
         Accept(K, j, org, delay, grant)
  PROVE  ~Active(Swept[j])
<1>1. Active(Swept[j]) => IdemAfter(Swept)[j].to = j BY SweptKnown
<1>2. IdemAfter(Swept)[j].to = NoJob BY DEF Accept
<1> QED BY <1>1, <1>2, JobsNamed

\* An admission is accepted only when both counters leave room.
LEMMA CapsAdmit ==
  ASSUME TypeOK, LifeInv, CapsInv, NEW j \in Jobs, NEW d \in Delays, Admit(j, d)
  PROVE  CapsInv'
<1>1. j \in AllJobs /\ d \in Nat BY ConstTypes DEF AllJobs
<1>2. Accept(Swept, j, j, d, 1) /\ HasRoom(j, 0) BY DEF Admit
<1>3. /\ Swept \in [AllJobs -> JobRec]
      /\ \A i \in AllJobs : GoodRec(Swept[i]) /\ Covered(Swept[i])
  BY SweptCaps
<1>4. \A i \in AllJobs : Shrinks(Swept[i], Swept[i]) BY DEF Shrinks
<1>5. ~Active(Swept[j]) BY <1>1, <1>2, AcceptFree
<1>6. /\ nonterminal(Swept, Lane[j]) < MaxJobs[Lane[j]]
      /\ payload_bytes(Swept, Lane[j]) + Size[j] - 0 <= MaxBytes
  BY <1>2 DEF HasRoom
<1>7. /\ SumFunction(KeptSizes(Swept, Lane[j])) <= payload_bytes(Swept, Lane[j])
      /\ SumFunction(KeptSizes(Swept, Lane[j])) \in Int
  <2>1. SumFunction(KeptSizes(Swept, Lane[j])) \in Int BY <1>3, FewerBytes
  <2> QED BY <1>3, <2>1, CountersCover
<1>8. SumFunction(KeptSizes(Swept, Lane[j])) + 0 <= payload_bytes(Swept, Lane[j])
  BY <1>7
<1>9. 0 \in Nat /\ 1 \in {0, 1} OBVIOUS
<1> QED BY <1>1, <1>2, <1>3, <1>4, <1>5, <1>6, <1>8, <1>9, CapsAccept

\* A payload dropped gives its size back.
LEMMA PayloadGone ==
  ASSUME NEW K \in [AllJobs -> JobRec], NEW J \in [AllJobs -> JobRec], NEW l, NEW k \in KeptIn(K, l),
         ~J[k].pay, \A i \in AllJobs : i # k => J[i] = K[i]
  PROVE  /\ SumFunction(KeptSizes(J, l)) + Size[K[k].org] <= SumFunction(KeptSizes(K, l))
         /\ SumFunction(KeptSizes(J, l)) \in Int /\ SumFunction(KeptSizes(K, l)) \in Int
<1> DEFINE A == KeptIn(J, l)
           S == KeptIn(K, l)
           B == S \ {k}
           f == KeptSizes(J, l)
           g == KeptSizes(K, l)
<1>1. /\ A \in SUBSET AllJobs /\ S \in SUBSET AllJobs /\ DOMAIN f = A /\ DOMAIN g = S
      /\ \A j \in A : f[j] = Size[J[j].org] /\ f[j] \in Nat
      /\ \A j \in S : g[j] = Size[K[j].org] /\ g[j] \in Nat
  BY SizesType
<1>2. A \in SUBSET B /\ B \in SUBSET S /\ k \in S /\ \A j \in A : J[j] = K[j]
  BY DEF KeptIn
<1>3. IsFiniteSet(S) /\ IsFiniteSet(A) /\ IsFiniteSet(B)
  <2>1. B \in SUBSET AllJobs BY <1>1
  <2> QED BY <1>1, <2>1, LaneFinite
<1>4. SumFunction(f) = SumFunctionOnSet(f, A) /\ SumFunction(g) = SumFunctionOnSet(g, S)
  BY <1>1 DEF SumFunction
<1>5. /\ \A x \in S : g[x] \in Int /\ 0 <= g[x]
      /\ \A x \in A : f[x] \in Int
      /\ \A x \in A : f[x] = g[x]
  BY <1>1, <1>2
<1>6. g[k] = Size[K[k].org] /\ g[k] \in Int BY <1>1, <1>2
<1>7. SumFunctionOnSet(g, S) = g[k] + SumFunctionOnSet(g, B)
  <2> HIDE DEF S, g
  <2> QED BY <1>2, <1>3, <1>5, SumRemove
<1> HIDE DEF A, B, S, f, g
<1>8. SumFunctionOnSet(f, A) <= SumFunctionOnSet(g, B)
  <2>1. /\ \A x \in B : g[x] \in Int
        /\ \A x \in A : f[x] \in Int /\ f[x] <= g[x]
        /\ \A x \in B \ A : 0 <= g[x]
    BY <1>2, <1>5
  <2> QED BY <1>2, <1>3, <2>1, SumBound
<1>9. /\ SumFunctionOnSet(f, A) \in Int /\ SumFunctionOnSet(g, S) \in Int
      /\ SumFunctionOnSet(g, B) \in Int
  <2>1. A \in SUBSET A /\ S \in SUBSET S OBVIOUS
  <2>2. SumFunctionOnSet(g, B) \in Int /\ SumFunctionOnSet(g, S) \in Int
    BY <1>2, <1>3, <1>5, <2>1, SumType
  <2>3. SumFunctionOnSet(f, A) \in Int BY <1>3, <1>5, <2>1, SumType
  <2> QED BY <2>2, <2>3
<1>10. /\ SumFunction(f) + Size[K[k].org] <= SumFunction(g)
       /\ SumFunction(f) \in Int /\ SumFunction(g) \in Int
  BY <1>4, <1>6, <1>7, <1>8, <1>9
<1> QED BY <1>10 DEF f, g

\* A retry moves the retained payload: the child's bytes are the parent's.
LEMMA CapsRetry ==
  ASSUME TypeOK, LifeInv, CapsInv, NEW o \in Ops, NEW j \in AllJobs, Retry(o, j)
  PROVE  CapsInv'
<1> DEFINE m == Swept[j]
           s == Spent(m)
           K == [Swept EXCEPT ![j] = s]
           k == KidOf[o]
           l == Lane[m.org]
<1>1. /\ K \in [AllJobs -> JobRec]
      /\ \A i \in AllJobs : Moves(Swept[i], K[i]) /\ (Active(K[i]) <=> Active(Swept[i]))
      /\ k \in AllJobs /\ m.org \in Jobs /\ ~Active(s) /\ Accept(K, k, m.org, 0, 0)
  BY RetryAccepts
<1>2. m.pay = TRUE
  BY DEF Retry, Retriable, HasPayload
<1>3. HasRoom(m.org, Size[m.org]) BY <1>2 DEF Retry
<1>4. /\ Swept \in [AllJobs -> JobRec]
      /\ \A i \in AllJobs : GoodRec(Swept[i]) /\ Covered(Swept[i])
  BY SweptCaps
<1>5. s.pay = FALSE
  <2>1. m \in JobRec BY <1>4
  <2>2. drop_payload(m) \in JobRec /\ drop_payload(m).pay = FALSE BY <2>1, DropValues
  <2>3. [drop_payload(m) EXCEPT !.grants = 0].pay = drop_payload(m).pay BY <2>2 DEF JobRec
  <2> QED BY <2>2, <2>3 DEF Spent
<1>6. K[j] = s /\ \A i \in AllJobs : i # j => K[i] = Swept[i] BY <1>4
<1>7. ~Active(K[k]) BY <1>1, AcceptFree
<1>8. l \in Lanes /\ Size[m.org] \in Nat BY <1>1, ConstTypes
<1>9. /\ nonterminal(Swept, l) < MaxJobs[l]
      /\ payload_bytes(Swept, l) + Size[m.org] - Size[m.org] <= MaxBytes
  BY <1>3 DEF HasRoom
<1>10. j \in KeptIn(Swept, l) BY <1>2 DEF KeptIn
<1> HIDE DEF K, s, k, l
<1>11. \A i \in AllJobs : Shrinks(Swept[i], K[i]) /\ GoodRec(K[i])
  <2>1. \A i \in AllJobs : Held(K[i]) => Held(Swept[i])
    <3>1. ~Held(s) BY <1>1, States
    <3> QED BY <1>6, <3>1
  <2>2. \A i \in AllJobs : GoodRec(K[i]) BY <1>1 DEF Moves
  <2> QED BY <1>1, <1>4, <2>1, <2>2, MovesShrink
<1>12. SumFunction(KeptSizes(K, l)) + Size[m.org] <= payload_bytes(Swept, l)
  <2>1. /\ SumFunction(KeptSizes(K, l)) + Size[m.org] <= SumFunction(KeptSizes(Swept, l))
        /\ SumFunction(KeptSizes(K, l)) \in Int /\ SumFunction(KeptSizes(Swept, l)) \in Int
    <3>1. ~K[j].pay BY <1>5, <1>6
    <3> HIDE DEF m
    <3> QED BY <1>1, <1>4, <1>6, <1>10, <3>1, PayloadGone DEF m
  <2>2. /\ SumFunction(KeptSizes(Swept, l)) <= payload_bytes(Swept, l)
        /\ payload_bytes(Swept, l) \in Int
    BY <1>4, CountersCover
  <2> QED BY <1>8, <2>1, <2>2
<1> DEFINE org == m.org
           c == Size[org]
<1>13. /\ org \in Jobs /\ c \in Nat /\ Accept(K, k, org, 0, 0)
       /\ nonterminal(Swept, Lane[org]) < MaxJobs[Lane[org]]
       /\ payload_bytes(Swept, Lane[org]) + Size[org] - c <= MaxBytes
       /\ SumFunction(KeptSizes(K, Lane[org])) + c <= payload_bytes(Swept, Lane[org])
  BY <1>1, <1>8, <1>9, <1>12 DEF l
<1>14. 0 \in Nat /\ 0 \in {0, 1} OBVIOUS
<1> HIDE DEF c, org, m
<1> QED BY <1>1, <1>7, <1>11, <1>13, <1>14, CapsAccept

\* An alias takes nothing: the holder it joins is there already.
LEMMA CapsAlias ==
  ASSUME TypeOK, TypeOK', LifeInv, CapsInv, NEW i, NEW org, NEW h \in AllJobs, Alias(i, org, h)
  PROVE  CapsInv'
<1> DEFINE n == [Swept[h] EXCEPT !.ids = @ \cup {i}]
<1>1. /\ Swept \in [AllJobs -> JobRec]
      /\ \A k \in AllJobs : GoodRec(Swept[k])
  BY SweptCaps
<1>2. job' = [Swept EXCEPT ![h] = n] BY <1>1 DEF Alias
<1>3. SameButMarks(Swept[h], n)
  <2>1. Swept[h] \in JobRec BY <1>1
  <2> QED BY <2>1 DEF SameButMarks, JobRec
<1> HIDE DEF n
<1>4. Shrinks(Swept[h], n)
  BY <1>3 DEF Shrinks, SameButMarks, Active, Held, Covered
<1>5. \A k \in AllJobs : Shrinks(Swept[k], Swept[k]) BY DEF Shrinks
<1>6. \A k \in AllJobs : job'[k] = IF k = h THEN n ELSE Swept[k] BY <1>1, <1>2
<1>7. \A k \in AllJobs : Shrinks(Swept[k], job'[k]) BY <1>4, <1>5, <1>6
<1> QED BY <1>7, CapsShrink

\* Erasure gives back everything its jobs took.
LEMMA CapsErase ==
  ASSUME TypeOK, TypeOK', LifeInv, CapsInv, NEW u, Erase(u)
  PROVE  CapsInv'
<1>1. \A k \in AllJobs : GoodRec(Swept[k]) BY SweptCaps
<1>2. \A k \in AllJobs : job'[k] \in {Swept[k], Erased(Swept[k])} BY DEF Erase
<1>3. ASSUME NEW k \in AllJobs PROVE Shrinks(Swept[k], Erased(Swept[k]))
  <2> DEFINE n == Erased(Swept[k])
  <2>1. /\ GoodRec(n) /\ n.st = "absent" /\ ~Active(n) /\ n.org = Swept[k].org
        /\ Counts(Swept[k], n)
    BY <1>1, ErasedGood
  <2> HIDE DEF n
  <2>2. ~n.pay /\ ~Held(n) BY <2>1, States DEF GoodRec, CoherentRec
  <2>3. Shrinks(Swept[k], n) BY <2>1, <2>2 DEF Shrinks, Counts
  <2> QED BY <2>3 DEF n
<1>4. \A k \in AllJobs : Shrinks(Swept[k], Swept[k]) BY DEF Shrinks
<1>5. \A k \in AllJobs : Shrinks(Swept[k], job'[k]) BY <1>2, <1>3, <1>4
<1> QED BY <1>5, CapsShrink

\* Only a claim gives a job to a worker.
LEMMA OnlyClaims ==
  ASSUME TypeOK, Next
  PROVE  \/ Tick \/ Producer
         \/ \E o \in Ops, j \in AllJobs : Retry(o, j) \/ RetryAlias(o, j)
         \/ \E l \in Lanes : Claim(l)
         \/ \A i \in AllJobs : Held(job'[i]) => Held(Swept[i])
<1> DEFINE Idle == \A i \in AllJobs : Held(job'[i]) => Held(Swept[i])
<1>a. Swept \in [AllJobs -> JobRec] /\ now \in Nat BY SweptType DEF TypeOK
<1>1. CASE Sweep BY <1>1 DEF Sweep, Commit
<1>2. ASSUME NEW l \in Lanes, ClaimNothing(l) PROVE Idle
  <2>1. \A i \in AllJobs : job'[i] \in {Swept[i], Passed(Swept[i])}
    BY <1>2 DEF ClaimNothing, Commit
  <2>2. \A i \in AllJobs : Held(Passed(Swept[i])) => Held(Swept[i])
    BY <1>a, CalmPassed DEF Calm
  <2> QED BY <2>1, <2>2
<1>3. ASSUME NEW j \in AllJobs, NEW tok, NEW rev, Heartbeat(j, tok, rev) PROVE Idle
  BY <1>3 DEF Heartbeat, Owns
<1>4. ASSUME NEW j \in AllJobs, NEW tok, NEW rev, NEW out, NEW d \in Delays,
             Finish(j, tok, rev, out, d)
      PROVE  Idle
  BY <1>4 DEF Finish, Owns, Commit
<1>5. ASSUME NEW o \in Ops, NEW j \in AllJobs, Cancel(o, j) PROVE Idle
  <2>1. job' = [Swept EXCEPT ![j] = Cancelled(@)] BY <1>5 DEF Cancel
  <2>2. Held(Cancelled(Swept[j])) => Held(Swept[j]) BY <1>a, CalmCancelled DEF Calm
  <2> QED BY <1>a, <2>1, <2>2
<1>6. ASSUME NEW o \in Ops, NEW l \in Lanes, NEW a \in BOOLEAN, NEW c \in BOOLEAN,
             SetLane(o, l, a, c)
      PROVE  Idle
  BY <1>6 DEF SetLane
<1> QED BY <1>1, <1>2, <1>3, <1>4, <1>5, <1>6 DEF Next, Worker, Operator

\* An empty queue uses nothing.
LEMMA CapsInit == Init => CapsInv
<1> SUFFICES ASSUME Init PROVE CapsInv OBVIOUS
<1>1. \A j \in AllJobs : /\ job[j] = NoRec /\ ~Active(job[j]) /\ ~Held(job[j]) /\ ~job[j].pay
                         /\ job[j].nByte = 0
  BY DEF Init, NoRec, Active, Held, ActiveStates, HeldStates
<1>2. \A j \in AllJobs : Covered(job[j]) BY <1>1 DEF Covered
<1>3. ASSUME NEW l \in Lanes PROVE JobsCap(job, l) /\ HeldCap(job, l) /\ ByteCap(job, l)
  <2>1. ActiveIn(job, l) = {} /\ HeldIn(job, l) = {} /\ KeptIn(job, l) = {}
    BY <1>1 DEF ActiveIn, HeldIn, KeptIn
  <2>2. Cardinality({}) = 0 BY FS_EmptySet
  <2>3. DOMAIN KeptSizes(job, l) = {} BY <2>1 DEF KeptSizes
  <2>4. SumFunction(KeptSizes(job, l)) = 0 BY <2>3, SumEmpty DEF SumFunction
  <2>5. MaxJobs[l] \in Nat /\ Workers[l] \in Nat /\ MaxBytes \in Nat BY CapTypes
  <2> QED BY <2>1, <2>2, <2>4, <2>5 DEF JobsCap, HeldCap, ByteCap
<1> QED BY <1>2, <1>3 DEF CapsInv, Capped

\* Every command keeps every lane within its caps.
LEMMA CapsStep == TypeOK /\ TypeOK' /\ LifeInv /\ CapsInv /\ [Next]_storeVars => CapsInv'
<1> SUFFICES ASSUME TypeOK, TypeOK', LifeInv, CapsInv, [Next]_storeVars PROVE CapsInv'
  OBVIOUS
<1>1. ASSUME job' = job PROVE CapsInv'
  BY <1>1, CapsPrime DEF CapsInv
<1>2. CASE Tick \/ UNCHANGED storeVars BY <1>1, <1>2 DEF Tick, storeVars
<1>3. ASSUME NEW j \in Jobs, NEW d \in Delays, Admit(j, d) PROVE CapsInv'
  BY <1>3, CapsAdmit
<1>4. ASSUME NEW j \in Jobs, AdmitAlias(j) PROVE CapsInv'
  BY <1>4, CapsAlias DEF AdmitAlias
<1>5. ASSUME NEW u \in Users, Erase(u) PROVE CapsInv' BY <1>5, CapsErase
<1>6. ASSUME NEW o \in Ops, NEW j \in AllJobs, Retry(o, j) PROVE CapsInv'
  BY <1>6, CapsRetry
<1>7. ASSUME NEW o \in Ops, NEW j \in AllJobs, RetryAlias(o, j) PROVE CapsInv'
  BY <1>7, CapsAlias DEF RetryAlias
<1>8. ASSUME NEW l \in Lanes, Claim(l), Moved PROVE CapsInv' BY <1>8, CapsClaim
<1>9. CASE Moved /\ \A i \in AllJobs : Held(job'[i]) => Held(Swept[i])
  <2>1. \A i \in AllJobs : GoodRec(Swept[i]) BY SweptCaps
  <2>2. \A i \in AllJobs : Moves(Swept[i], job'[i]) BY <1>9 DEF Moved
  <2>3. \A i \in AllJobs : Shrinks(Swept[i], job'[i]) BY <1>9, <2>1, <2>2, MovesShrink
  <2> QED BY <2>3, CapsShrink
<1> QED BY <1>2, <1>3, <1>4, <1>5, <1>6, <1>7, <1>8, <1>9, Commands, OnlyClaims DEF Producer

\* What a worker or an operator may still read of a payload is less than what
\* is kept: a payload whose key has expired is kept until the next sweep.
LEMMA CapsInvHold == TypeOK /\ CapsInv => CapsHold
<1> SUFFICES ASSUME TypeOK, CapsInv, NEW l \in Lanes
             PROVE  LET mine == {j \in AllJobs : Lane[job[j].org] = l} IN
                    /\ Cardinality({j \in mine : Active(job[j])}) <= MaxJobs[l]
                    /\ Cardinality({j \in mine : Held(job[j])}) <= Workers[l]
                    /\ SumFunction([j \in {i \in mine : HasPayload(job[i])} |-> Size[job[j].org]])
                         <= MaxBytes
  BY DEF CapsHold
<1> DEFINE mine == {j \in AllJobs : Lane[job[j].org] = l}
           A == {i \in mine : HasPayload(job[i])}
           f == [j \in A |-> Size[job[j].org]]
           S == KeptIn(job, l)
           g == KeptSizes(job, l)
<1>1. JobsCap(job, l) /\ HeldCap(job, l) /\ ByteCap(job, l) BY DEF CapsInv, Capped
<1>2. {j \in mine : Active(job[j])} = ActiveIn(job, l) BY DEF ActiveIn
<1>3. {j \in mine : Held(job[j])} = HeldIn(job, l) BY DEF HeldIn
<1>4. A \in SUBSET S BY DEF KeptIn, HasPayload
<1>5. /\ S \in SUBSET AllJobs /\ DOMAIN g = S
      /\ \A j \in S : g[j] = Size[job[j].org] /\ Size[job[j].org] \in Nat
  <2>1. job \in [AllJobs -> JobRec] BY DEF TypeOK
  <2> QED BY <2>1, SizesType
<1>6. DOMAIN f = A /\ \A j \in A : f[j] = Size[job[j].org] OBVIOUS
<1>7. SumFunction(f) = SumFunctionOnSet(f, A) /\ SumFunction(g) = SumFunctionOnSet(g, S)
  BY <1>5, <1>6 DEF SumFunction
<1>8. SumFunction(g) <= MaxBytes BY <1>1 DEF ByteCap
<1>9. IsFiniteSet(S) BY <1>5, LaneFinite
<1> HIDE DEF A, f, S, g, mine
<1>10. /\ \A x \in S : g[x] \in Int
       /\ \A x \in A : f[x] \in Int /\ f[x] <= g[x]
       /\ \A x \in S \ A : 0 <= g[x]
  BY <1>4, <1>5, <1>6
<1>11. SumFunctionOnSet(f, A) <= SumFunctionOnSet(g, S) BY <1>4, <1>9, <1>10, SumBound
<1>12. SumFunctionOnSet(f, A) \in Int /\ SumFunctionOnSet(g, S) \in Int
  <2>1. A \in SUBSET S /\ S \in SUBSET S /\ A \in SUBSET A /\ IsFiniteSet(A) BY <1>4, <1>9, FS_Subset
  <2>2. SumFunctionOnSet(f, A) \in Int BY <1>10, <2>1, SumType
  <2>3. SumFunctionOnSet(g, S) \in Int BY <1>9, <1>10, <2>1, SumType
  <2> QED BY <2>2, <2>3
<1>13. SumFunction(f) <= MaxBytes
  <2>1. MaxBytes \in Nat BY CapTypes
  <2> QED BY <1>7, <1>8, <1>11, <1>12, <2>1
<1> QED BY <1>1, <1>2, <1>3, <1>13 DEF JobsCap, HeldCap, A, f, mine

\* A lane never has more unfinished jobs, more held jobs or more bytes of
\* payload than its caps, retained retry payloads included, whatever is
\* admitted, retried, swept late or erased, and for every number of jobs.
THEOREM CapsHoldAlways == Spec => []CapsHold
<1>1. Init => CapsInv BY CapsInit
<1>2. TypeOK /\ TypeOK' /\ LifeInv /\ CapsInv /\ [Next]_storeVars => CapsInv' BY CapsStep
<1>3. TypeOK /\ CapsInv => CapsHold BY CapsInvHold
<1> QED BY <1>1, <1>2, <1>3, LifeInvariant, PTL DEF Spec

-----------------------------------------------------------------------------
(* The end of a job in time.  A command leaves no active job past its      *)
(* deadline, and time passes only while nothing due has waited MaxIdle.    *)

\* The deadline of an active job is at most MaxIdle behind.
LateBy(J) == \A j \in AllJobs : Active(J[j]) => now <= J[j].zDead + MaxIdle

LateInv == LateBy(job)

\* The jobs J a command leaves are not overdue.
LEMMA LatePrime ==
  ASSUME TypeOK, NEW J, job' = J, now' = now, J \in [AllJobs -> JobRec],
         \A j \in AllJobs : Active(J[j]) => now <= J[j].zDead
  PROVE  LateInv'
<1>1. now \in Nat /\ MaxIdle \in Nat BY StoreAssumption DEF TypeOK, StoreAssumption
<1>2. \A j \in AllJobs : J[j].zDead \in Int BY DEF JobRec, Time, Never
<1>3. LateBy(J) BY <1>1, <1>2 DEF LateBy
<1> QED BY <1>3 DEF LateInv, LateBy, Active

\* A move keeps the deadline of a swept job, or sets one that is still ahead.
LEMMA LateMoves ==
  ASSUME TypeOK, LifeInv, NEW j \in AllJobs, NEW n, Moves(Swept[j], n), Active(n)
  PROVE  now <= n.zDead
<1>1. Active(Swept[j]) => Swept[j].zDead > now BY SweptGood DEF LifeInv
<1>2. Active(Swept[j]) /\ (n.zDead = Swept[j].zDead \/ n.zDead > now)
  BY DEF Moves, Continues, Lives
<1>3. n \in JobRec /\ now \in Nat BY DEF Moves, GoodRec, TypeOK
<1>4. n.zDead \in Int BY <1>3 DEF JobRec, Time, Never
<1> QED BY <1>1, <1>2, <1>3, <1>4

\* An admitted job has its whole age in the queue before it.
LEMMA LateAccept ==
  ASSUME TypeOK, TypeOK', LifeInv, NEW K \in [AllJobs -> JobRec],
         \A i \in AllJobs : Moves(Swept[i], K[i]),
         NEW k \in AllJobs, ~Active(K[k]), NEW org \in Jobs, NEW delay \in Nat,
         NEW grant \in {0, 1}, Accept(K, k, org, delay, grant), now' = now
  PROVE  LateInv'
<1> DEFINE a == Admitted(K[k], k, org, delay, grant)
           J == [K EXCEPT ![k] = a]
<1>1. job' = J BY DEF Accept
<1>2. now \in Nat /\ admits \in Nat BY DEF TypeOK
<1>3. GoodRec(K[k]) BY DEF Moves
<1>4. a.zDead = now + MaxAge[Lane[org]] BY DEF Admitted, JobRec
<1>5. MaxAge[Lane[org]] \in Nat BY ConstTypes
<1>6. J \in [AllJobs -> JobRec]
  <2>1. GoodRec(a) BY <1>2, <1>3, AdmittedGood
  <2> QED BY <2>1 DEF GoodRec
<1>7. J[k] = a /\ \A i \in AllJobs : i # k => J[i] = K[i] OBVIOUS
<1> HIDE DEF a, J
<1>8. \A i \in AllJobs : Active(K[i]) => now <= K[i].zDead BY LateMoves
<1>9. \A i \in AllJobs : Active(J[i]) => now <= J[i].zDead
  BY <1>2, <1>4, <1>5, <1>7, <1>8
<1> QED BY <1>1, <1>6, <1>9, LatePrime

\* An alias leaves every deadline where it is.
LEMMA LateAlias ==
  ASSUME TypeOK, TypeOK', LifeInv, NEW i, NEW org, NEW h \in AllJobs, Alias(i, org, h), now' = now
  PROVE  LateInv'
<1> DEFINE n == [Swept[h] EXCEPT !.ids = @ \cup {i}]
           J == job'
<1>1. Swept \in [AllJobs -> JobRec] /\ now \in Nat BY SweptType DEF TypeOK
<1>2. job' = [Swept EXCEPT ![h] = n] BY <1>1 DEF Alias
<1>3. n.st = Swept[h].st /\ n.zDead = Swept[h].zDead
  <2>1. Swept[h] \in JobRec BY <1>1
  <2> QED BY <2>1 DEF JobRec
<1> HIDE DEF n
<1>4. \A j \in AllJobs : J[j].st = Swept[j].st /\ J[j].zDead = Swept[j].zDead BY <1>1, <1>2, <1>3
<1>5. J \in [AllJobs -> JobRec] /\ job' = J BY DEF TypeOK
<1> HIDE DEF J
<1>6. \A j \in AllJobs : Active(Swept[j]) => now <= Swept[j].zDead
  BY SweptGood, LateMoves DEF LifeInv
<1>7. \A j \in AllJobs : Active(J[j]) => now <= J[j].zDead BY <1>4, <1>6 DEF Active
<1> QED BY <1>5, <1>7, LatePrime

\* An erased job is over; the others are swept.
LEMMA LateErase ==
  ASSUME TypeOK, TypeOK', LifeInv, NEW u, Erase(u)
  PROVE  LateInv'
<1> DEFINE J == job'
<1>1. \A j \in AllJobs : J[j] \in {Swept[j], Erased(Swept[j])} BY DEF Erase
<1>2. now' = now BY DEF Erase
<1>3. J \in [AllJobs -> JobRec] /\ job' = J BY DEF TypeOK
<1> HIDE DEF J
<1>4. \A j \in AllJobs : GoodRec(Swept[j]) /\ Moves(Swept[j], Swept[j]) BY SweptGood DEF LifeInv
<1>5. \A j \in AllJobs : ~Active(Erased(Swept[j])) BY <1>4, ErasedGood
<1>6. \A j \in AllJobs : Active(J[j]) => now <= J[j].zDead BY <1>1, <1>4, <1>5, LateMoves
<1> QED BY <1>2, <1>3, <1>6, LatePrime

\* Time passes only while no deadline has been due for MaxIdle.
LEMMA LateTick == ASSUME TypeOK, LifeInv, Tick PROVE LateInv'
<1>1. now \in Nat /\ now' = now + 1 /\ job' = job /\ MaxIdle \in Nat
  BY StoreAssumption DEF TypeOK, Tick, StoreAssumption
<1>2. ASSUME NEW j \in AllJobs, Active(job[j]) PROVE now + 1 <= job[j].zDead + MaxIdle
  <2>1. GoodRec(job[j]) /\ Punctual(job[j]) BY DEF LifeInv, Good, Tick
  <2>2. job[j].zDead # Never BY <1>2, <2>1 DEF GoodRec, CoherentRec
  <2>3. now - job[j].zDead < MaxIdle BY <2>1, <2>2 DEF Punctual
  <2>4. job[j].zDead \in Int BY <2>1 DEF GoodRec, JobRec, Time, Never
  <2> QED BY <1>1, <2>3, <2>4
<1> QED BY <1>1, <1>2 DEF LateInv, LateBy, Active

\* No command leaves an active job behind its deadline.
LEMMA LateStep == TypeOK /\ TypeOK' /\ LifeInv /\ LateInv /\ [Next]_storeVars => LateInv'
<1> SUFFICES ASSUME TypeOK, TypeOK', LifeInv, LateInv, [Next]_storeVars PROVE LateInv'
  OBVIOUS
<1>a. /\ Swept \in [AllJobs -> JobRec]
      /\ \A j \in AllJobs : Moves(Swept[j], Swept[j])
  BY SweptType, SweptGood DEF LifeInv
<1>1. CASE Tick BY <1>1, LateTick
<1>2. CASE Moved
  <2> DEFINE J == job'
  <2>1. /\ job' = J /\ now' = now /\ J \in [AllJobs -> JobRec]
        /\ \A j \in AllJobs : Moves(Swept[j], J[j])
    BY <1>2 DEF Moved, TypeOK
  <2> HIDE DEF J
  <2>2. \A j \in AllJobs : Active(J[j]) => now <= J[j].zDead BY <2>1, LateMoves
  <2> QED BY <2>1, <2>2, LatePrime
<1>3. ASSUME NEW j \in Jobs, NEW d \in Delays, Admit(j, d) PROVE LateInv'
  <2>1. j \in AllJobs /\ d \in Nat /\ 1 \in {0, 1} BY ConstTypes DEF AllJobs
  <2>2. Accept(Swept, j, j, d, 1) /\ now' = now BY <1>3 DEF Admit
  <2>3. ~Active(Swept[j]) BY <2>1, <2>2, AcceptFree
  <2> QED BY <1>a, <2>1, <2>2, <2>3, LateAccept
<1>4. ASSUME NEW j \in Jobs, AdmitAlias(j) PROVE LateInv'
  BY <1>4, LateAlias DEF AdmitAlias
<1>5. ASSUME NEW u \in Users, Erase(u) PROVE LateInv' BY <1>5, LateErase
<1>6. ASSUME NEW o \in Ops, NEW j \in AllJobs, Retry(o, j) PROVE LateInv'
  <2> DEFINE m == Swept[j]
             K == [Swept EXCEPT ![j] = Spent(m)]
             k == KidOf[o]
             org == m.org
  <2>1. /\ K \in [AllJobs -> JobRec]
        /\ \A i \in AllJobs : Moves(Swept[i], K[i]) /\ (Active(K[i]) <=> Active(Swept[i]))
        /\ k \in AllJobs /\ org \in Jobs /\ Accept(K, k, org, 0, 0) /\ now' = now
    BY <1>6, RetryAccepts
  <2> HIDE DEF K, k, org
  <2>2. ~Active(K[k]) BY <2>1, AcceptFree
  <2>3. 0 \in Nat /\ 0 \in {0, 1} OBVIOUS
  <2> QED BY <2>1, <2>2, <2>3, LateAccept
<1>7. ASSUME NEW o \in Ops, NEW j \in AllJobs, RetryAlias(o, j) PROVE LateInv'
  BY <1>7, LateAlias DEF RetryAlias
<1>8. CASE UNCHANGED storeVars BY <1>8 DEF storeVars, LateInv, LateBy, Active
<1> QED BY <1>1, <1>2, <1>3, <1>4, <1>5, <1>6, <1>7, <1>8, Commands DEF Producer

\* A deadline is at most a life from the submission.
LEMMA LateInvTime == TypeOK /\ LifeInv /\ LateInv => SettledInTime
<1> SUFFICES ASSUME TypeOK, LifeInv, LateInv, NEW j \in AllJobs, Active(job[j])
             PROVE  now <= job[j].sub + Life(job[j].org) + MaxIdle
  BY DEF SettledInTime
<1>1. GoodRec(job[j]) /\ now <= job[j].zDead + MaxIdle BY DEF LifeInv, Good, LateInv, LateBy
<1>2. job[j].zDead <= job[j].sub + Life(job[j].org) BY <1>1 DEF GoodRec, DatedRec
<1>3. /\ job[j].zDead \in Int /\ job[j].sub \in Nat /\ job[j].org \in Jobs
  BY <1>1 DEF GoodRec, JobRec, Time, Never
<1>4. /\ now \in Nat /\ MaxIdle \in Nat /\ Budget \in Nat /\ MaxAge[Lane[job[j].org]] \in Nat
  BY <1>3, ConstTypes, StoreAssumption DEF TypeOK, StoreAssumption
<1>5. Life(job[j].org) \in Nat BY <1>4 DEF Life
<1> QED BY <1>1, <1>2, <1>3, <1>4, <1>5

\* Every job is settled within its longest life from its submission and the
\* longest wait for a command, however often it is requeued, renewed, delayed
\* or claimed: the bound in time behind EverySettles, for outages of any length.
THEOREM SettledInTimeAlways == Spec => []SettledInTime
<1>1. Init => LateInv
  BY DEF Init, NoRec, LateInv, LateBy, Active, ActiveStates, HeldStates
<1>2. TypeOK /\ TypeOK' /\ LifeInv /\ LateInv /\ [Next]_storeVars => LateInv' BY LateStep
<1>3. TypeOK /\ LifeInv /\ LateInv => SettledInTime BY LateInvTime
<1> QED BY <1>1, <1>2, <1>3, LifeInvariant, PTL DEF Spec

-----------------------------------------------------------------------------
(* The refinement of QueuePromise, first on the records: n is what m may   *)
(* become when nobody admits, claims or hands back the job.                *)

Eases(m, n) ==
  /\ n.org = m.org
  /\ n.st # "absent" => m.st # "absent"
  /\ Active(n) => Active(m)
  /\ Held(n) => Held(m) /\ n.own = m.own
  /\ Active(n) /\ Held(m) /\ m.org \in Effectful => Held(n)

\* One easing after another.
LEMMA EasesTrans ==
  ASSUME NEW a, NEW b, NEW c, Eases(a, b), Eases(b, c) PROVE Eases(a, c)
<1>1. Active(c) /\ Held(a) /\ a.org \in Effectful => Held(c) BY DEF Eases
<1> QED BY <1>1 DEF Eases

\* The sweep takes jobs from lost owners, and effectful ones for good.
LEMMA SweptEases ==
  ASSUME TypeOK, LifeInv, NEW j \in AllJobs PROVE Eases(job[j], Swept[j])
<1> DEFINE m == job[j]
           n == Swept[j]
<1>1. GoodRec(m) /\ now \in Nat /\ n = sweep(m) BY DEF LifeInv, Good, TypeOK, Swept
<1>2. m \in JobRec BY <1>1 DEF GoodRec
<1> HIDE DEF m, n
<1>3. Follows(m, n) BY <1>1, <1>2, SweepFollows
<1>4. Continues(m, n) BY <1>1, SweepGood
<1>5. Active(n) => Live(n) BY DEF Live
<1>6. Eases(m, n) BY <1>3, <1>4, <1>5 DEF Eases, Follows, Continues
<1> QED BY <1>6 DEF m, n

\* A calm branch that hands nothing back only eases.
LEMMA CalmEases ==
  ASSUME NEW m, NEW n, Moves(m, n), Calm(m, n), Held(m) /\ Active(n) => Held(n)
  PROVE  Eases(m, n)
BY DEF Eases, Moves, Continues, Calm

\* What a step does to the jobs, as the promise sees it.
OthersEase(j) == \A i \in AllJobs : i # j => Eases(job[i], job'[i])

PassStep == (\A i \in AllJobs : Eases(job[i], job'[i])) /\ claims' = claims

AdmitStep(j) ==
  /\ OthersEase(j) /\ claims' = claims
  /\ Active(job'[j]) /\ ~Held(job'[j])

ClaimStep(j) ==
  /\ OthersEase(j) /\ claims' = claims + 1
  /\ Active(job[j]) /\ (Held(job[j]) => job[j].org \notin Effectful)
  /\ job'[j].org = job[j].org /\ Held(job'[j]) /\ job'[j].own = claims + 1

HandBackStep(j) ==
  /\ OthersEase(j) /\ claims' = claims
  /\ Held(job[j]) /\ job'[j].org = job[j].org /\ Active(job'[j]) /\ ~Held(job'[j])

\* After the sweep, easing is enough.
LEMMA SweptThenEases ==
  ASSUME TypeOK, LifeInv, NEW i \in AllJobs, Eases(Swept[i], job'[i])
  PROVE  Eases(job[i], job'[i])
BY SweptEases, EasesTrans

\* A claim passes over the jobs before the one it takes, which waits.
LEMMA ClaimSteps ==
  ASSUME TypeOK, LifeInv, NEW l \in Lanes, Claim(l), Moved
  PROVE  \E j \in AllJobs : ClaimStep(j)
<1>a. /\ Swept \in [AllJobs -> JobRec] /\ now \in Nat /\ claims \in Nat
      /\ \A i \in AllJobs : GoodRec(Swept[i]) /\ Moves(Swept[i], Swept[i])
  BY SweptType, SweptGood DEF LifeInv, TypeOK
<1>1. PICK j \in AllJobs :
        /\ Claimable(Swept[j]) /\ job'[j] = Claimed(Swept[j], claims + 1)
        /\ \A i \in AllJobs : i # j => job'[i] \in {Swept[i], Passed(Swept[i])}
  BY DEF Claim, Ready
<1>2. claims' = claims + 1 BY DEF Claim
<1>3. \A i \in AllJobs : Moves(Swept[i], job'[i]) BY DEF Moved
<1>4. ASSUME NEW i \in AllJobs, i # j PROVE Eases(job[i], job'[i])
  <2>1. Calm(Swept[i], job'[i])
    <3>1. Calm(Swept[i], Swept[i]) BY DEF Calm
    <3>2. Calm(Swept[i], Passed(Swept[i])) BY <1>a, CalmPassed
    <3> QED BY <1>1, <1>4, <3>1, <3>2
  <2>2. Held(Swept[i]) /\ Active(job'[i]) => Held(job'[i])
    <3>1. Held(Swept[i]) => Passed(Swept[i]) = [Swept[i] EXCEPT !.zReady = FALSE]
      BY States DEF Passed, Held, HeldStates
    <3>2. [Swept[i] EXCEPT !.zReady = FALSE].st = Swept[i].st
      <4>1. Swept[i] \in JobRec BY <1>a
      <4> QED BY <4>1 DEF JobRec
    <3>3. Held(Swept[i]) => Held(Passed(Swept[i])) BY <3>1, <3>2 DEF Held
    <3> QED BY <1>1, <1>4, <3>3
  <2>3. Eases(Swept[i], job'[i]) BY <1>3, <2>1, <2>2, CalmEases
  <2> QED BY <2>3, SweptThenEases
<1>5. Swept[j].st = "queued" BY <1>1 DEF Claimable
<1>6. Active(Swept[j]) /\ ~Held(Swept[j]) BY <1>5 DEF Active, Held, ActiveStates, HeldStates
<1>7. Active(job[j]) /\ (Held(job[j]) => job[j].org \notin Effectful) /\ Swept[j].org = job[j].org
  BY <1>6, SweptEases DEF Eases
<1>8. job'[j].org = Swept[j].org BY <1>3 DEF Moves, Continues
<1>9. job'[j].st = "running" /\ job'[j].own = claims + 1
  <2>1. Swept[j] \in JobRec BY <1>a
  <2> QED BY <1>1, <2>1 DEF Claimed, JobRec
<1>10. Held(job'[j]) BY <1>9 DEF Held, HeldStates
<1>11. ClaimStep(j) BY <1>2, <1>4, <1>7, <1>8, <1>9, <1>10 DEF ClaimStep, OthersEase
<1> QED BY <1>11

\* An admission and a retry start one job; a retry also spends its parent.
LEMMA AcceptAdmits ==
  ASSUME TypeOK, LifeInv, NEW K \in [AllJobs -> JobRec],
         \A i \in AllJobs : Eases(Swept[i], K[i]) /\ GoodRec(K[i]),
         NEW k \in AllJobs, ~Active(K[k]), NEW org \in Jobs, NEW delay \in Nat,
         NEW grant \in {0, 1}, Accept(K, k, org, delay, grant), claims' = claims
  PROVE  AdmitStep(k)
<1> DEFINE a == Admitted(K[k], k, org, delay, grant)
<1>1. job' = [K EXCEPT ![k] = a] BY DEF Accept
<1>2. now \in Nat /\ admits \in Nat BY DEF TypeOK
<1>3. GoodRec(a) /\ Active(a) BY <1>2, AdmittedGood
<1>4. ~Held(a)
  <2>1. Held(a) => Held(K[k]) BY CalmAdmitted DEF Calm
  <2> QED BY <2>1, States
<1> HIDE DEF a
<1>5. job'[k] = a /\ \A i \in AllJobs : i # k => job'[i] = K[i] BY <1>1
<1>6. \A i \in AllJobs : i # k => Eases(job[i], job'[i]) BY <1>5, SweptThenEases
<1> QED BY <1>3, <1>4, <1>5, <1>6 DEF AdmitStep, OthersEase

\* Joining a holder eases: nothing of it changes but its identities.
LEMMA AliasPasses ==
  ASSUME TypeOK, LifeInv, NEW i, NEW org, NEW h \in AllJobs, Alias(i, org, h), claims' = claims
  PROVE  PassStep
<1> DEFINE n == [Swept[h] EXCEPT !.ids = @ \cup {i}]
<1>1. Swept \in [AllJobs -> JobRec] BY SweptType
<1>2. job' = [Swept EXCEPT ![h] = n] BY <1>1 DEF Alias
<1>3. n.st = Swept[h].st /\ n.org = Swept[h].org /\ n.own = Swept[h].own
  <2>1. Swept[h] \in JobRec BY <1>1
  <2> QED BY <2>1 DEF JobRec
<1> HIDE DEF n
<1>4. Eases(Swept[h], n) BY <1>3 DEF Eases, Active, Held
<1>5. \A k \in AllJobs : Eases(Swept[k], Swept[k]) BY DEF Eases
<1>6. \A k \in AllJobs : job'[k] = IF k = h THEN n ELSE Swept[k] BY <1>1, <1>2
<1>7. \A k \in AllJobs : Eases(Swept[k], job'[k]) BY <1>4, <1>5, <1>6
<1> QED BY <1>7, SweptThenEases DEF PassStep

\* Every step of the queue is one of the four.
LEMMA StoreSteps ==
  ASSUME TypeOK, LifeInv, [Next]_storeVars
  PROVE  PassStep \/ \E j \in AllJobs : AdmitStep(j) \/ ClaimStep(j) \/ HandBackStep(j)
<1> DEFINE Done == PassStep \/ \E j \in AllJobs : AdmitStep(j) \/ ClaimStep(j) \/ HandBackStep(j)
<1>a. /\ Swept \in [AllJobs -> JobRec] /\ now \in Nat
      /\ \A i \in AllJobs : GoodRec(Swept[i]) /\ Moves(Swept[i], Swept[i])
  BY SweptType, SweptGood DEF LifeInv, TypeOK
<1>b. \A i \in AllJobs : Eases(Swept[i], Swept[i]) BY DEF Eases
<1>c. ASSUME \A i \in AllJobs : Eases(Swept[i], job'[i]), claims' = claims PROVE Done
  BY <1>c, SweptThenEases DEF PassStep
<1>0. CASE Tick \/ UNCHANGED storeVars
  <2>1. job' = job /\ claims' = claims BY <1>0 DEF Tick, storeVars
  <2>2. \A i \in AllJobs : Eases(job[i], job[i]) BY DEF Eases
  <2> QED BY <2>1, <2>2 DEF PassStep
<1>1. CASE Sweep BY <1>1, <1>b, <1>c DEF Sweep, Commit
<1>2. ASSUME NEW l \in Lanes, Claim(l), Moved PROVE Done
  BY <1>2, ClaimSteps
<1>3. ASSUME NEW l \in Lanes, ClaimNothing(l), Moved PROVE Done
  <2>1. \A i \in AllJobs : job'[i] \in {Swept[i], Passed(Swept[i])}
    BY <1>3 DEF ClaimNothing, Commit
  <2>2. ASSUME NEW i \in AllJobs PROVE Eases(Swept[i], job'[i])
    <3>1. Calm(Swept[i], Swept[i]) /\ Calm(Swept[i], Passed(Swept[i]))
      BY <1>a, CalmPassed DEF Calm
    <3>2. Held(Swept[i]) => Passed(Swept[i]) = [Swept[i] EXCEPT !.zReady = FALSE]
      BY States DEF Passed, Held, HeldStates
    <3>3. [Swept[i] EXCEPT !.zReady = FALSE].st = Swept[i].st
      <4>1. Swept[i] \in JobRec BY <1>a
      <4> QED BY <4>1 DEF JobRec
    <3>4. Held(Swept[i]) => Held(Passed(Swept[i])) BY <3>2, <3>3 DEF Held
    <3>5. Calm(Swept[i], job'[i]) /\ (Held(Swept[i]) /\ Active(job'[i]) => Held(job'[i]))
      BY <2>1, <3>1, <3>4
    <3> QED BY <1>3, <3>5, CalmEases DEF Moved
  <2>3. claims' = claims BY <1>3 DEF ClaimNothing
  <2> QED BY <1>c, <2>2, <2>3
<1>4. ASSUME NEW j \in AllJobs, NEW tok, NEW rev, Heartbeat(j, tok, rev) PROVE Done
  <2> DEFINE n == [Swept[j] EXCEPT !.zRun = now + Lease]
  <2>1. job' = [Swept EXCEPT ![j] = n] /\ claims' = claims BY <1>4, <1>a DEF Heartbeat
  <2>2. n.st = Swept[j].st /\ n.org = Swept[j].org /\ n.own = Swept[j].own
    <3>1. Swept[j] \in JobRec BY <1>a
    <3> QED BY <3>1 DEF JobRec
  <2> HIDE DEF n
  <2>3. Eases(Swept[j], n) BY <2>2 DEF Eases, Active, Held
  <2>4. \A i \in AllJobs : Eases(Swept[i], job'[i]) BY <1>a, <1>b, <2>1, <2>3
  <2> QED BY <1>c, <2>1, <2>4
<1>5. ASSUME NEW j \in AllJobs, NEW tok, NEW rev, NEW out, NEW d \in Delays,
             Finish(j, tok, rev, out, d), Moved
      PROVE  Done
  <2> DEFINE n == [Finished(Swept[j], out, d) EXCEPT !.fin = tok]
  <2>1. Held(Swept[j]) /\ job' = [Swept EXCEPT ![j] = n] /\ claims' = claims
    BY <1>5 DEF Finish, Owns, Commit
  <2>2. Calm(Swept[j], n)
    <3>1. d \in Nat BY ConstTypes
    <3> QED BY <1>a, <3>1, CalmFinished
  <2> HIDE DEF n
  <2>3. job'[j] = n /\ \A i \in AllJobs : i # j => job'[i] = Swept[i] BY <1>a, <2>1
  <2>4. Moves(Swept[j], n) BY <1>5, <2>3 DEF Moved
  <2>5. CASE Active(n) /\ ~Held(n)
    <3>1. Held(job[j]) /\ Swept[j].org = job[j].org BY <2>1, SweptEases DEF Eases
    <3>2. n.org = Swept[j].org BY <2>4 DEF Moves, Continues
    <3>3. \A i \in AllJobs : i # j => Eases(job[i], job'[i]) BY <2>3, SweptEases
    <3>4. HandBackStep(j) BY <2>1, <2>3, <2>5, <3>1, <3>2, <3>3 DEF HandBackStep, OthersEase
    <3> QED BY <3>4
  <2>6. CASE ~(Active(n) /\ ~Held(n))
    <3>1. Eases(Swept[j], n) BY <2>2, <2>4, <2>6, CalmEases
    <3>2. \A i \in AllJobs : Eases(Swept[i], job'[i]) BY <1>b, <2>3, <3>1
    <3> QED BY <1>c, <2>1, <3>2
  <2> QED BY <2>5, <2>6
<1>6. ASSUME NEW o \in Ops, NEW j \in AllJobs, Cancel(o, j) PROVE Done
  <2> DEFINE n == Cancelled(Swept[j])
  <2>1. job' = [Swept EXCEPT ![j] = n] /\ claims' = claims BY <1>6, <1>a DEF Cancel
  <2>2. Moves(Swept[j], n) /\ Calm(Swept[j], n) BY <1>a, CancelledMoves, CalmCancelled
  <2>3. Held(Swept[j]) => Held(n)
    <3>1. Held(Swept[j]) => n = [Swept[j] EXCEPT !.st = "cancel_requested", !.rev = @ + 1]
      BY DEF Cancelled
    <3>2. [Swept[j] EXCEPT !.st = "cancel_requested", !.rev = @ + 1].st = "cancel_requested"
      <4>1. Swept[j] \in JobRec BY <1>a
      <4> QED BY <4>1 DEF JobRec
    <3> QED BY <3>1, <3>2 DEF Held, HeldStates
  <2> HIDE DEF n
  <2>4. Eases(Swept[j], n) BY <2>2, <2>3, CalmEases
  <2>5. \A i \in AllJobs : Eases(Swept[i], job'[i]) BY <1>a, <1>b, <2>1, <2>4
  <2> QED BY <1>c, <2>1, <2>5
<1>7. ASSUME NEW o \in Ops, NEW l \in Lanes, NEW a \in BOOLEAN, NEW c \in BOOLEAN,
             SetLane(o, l, a, c)
      PROVE  Done
  BY <1>7, <1>b, <1>c DEF SetLane
<1>8. ASSUME NEW j \in Jobs, NEW d \in Delays, Admit(j, d) PROVE Done
  <2>1. j \in AllJobs /\ d \in Nat /\ 1 \in {0, 1} BY ConstTypes DEF AllJobs
  <2>2. Accept(Swept, j, j, d, 1) /\ claims' = claims BY <1>8 DEF Admit
  <2>3. ~Active(Swept[j]) BY <2>1, <2>2, AcceptFree
  <2>4. AdmitStep(j) BY <1>a, <1>b, <2>1, <2>2, <2>3, AcceptAdmits
  <2> QED BY <2>1, <2>4
<1>9. ASSUME NEW j \in Jobs, AdmitAlias(j) PROVE Done
  BY <1>9, AliasPasses DEF AdmitAlias
<1>10. ASSUME NEW u \in Users, Erase(u) PROVE Done
  <2>1. \A i \in AllJobs : job'[i] \in {Swept[i], Erased(Swept[i])} BY <1>10 DEF Erase
  <2>2. ASSUME NEW i \in AllJobs PROVE Eases(Swept[i], Erased(Swept[i]))
    <3> DEFINE n == Erased(Swept[i])
    <3>1. n.st = "absent" /\ ~Active(n) /\ n.org = Swept[i].org BY <1>a, ErasedGood
    <3> HIDE DEF n
    <3>2. Eases(Swept[i], n) BY <3>1, States DEF Eases
    <3> QED BY <3>2 DEF n
  <2>3. \A i \in AllJobs : Eases(Swept[i], job'[i]) BY <1>b, <2>1, <2>2
  <2>4. claims' = claims BY <1>10 DEF Erase
  <2> QED BY <1>c, <2>3, <2>4
<1>11. ASSUME NEW o \in Ops, NEW j \in AllJobs, Retry(o, j) PROVE Done
  <2> DEFINE m == Swept[j]
             K == [Swept EXCEPT ![j] = Spent(m)]
             k == KidOf[o]
             org == m.org
  <2>1. /\ K \in [AllJobs -> JobRec]
        /\ \A i \in AllJobs : Moves(Swept[i], K[i]) /\ (Active(K[i]) <=> Active(Swept[i]))
        /\ k \in AllJobs /\ org \in Jobs /\ Accept(K, k, org, 0, 0) /\ ~Active(Spent(m))
    BY <1>11, RetryAccepts
  <2>2. K[j] = Spent(m) /\ (\A i \in AllJobs : i # j => K[i] = Swept[i]) /\ claims' = claims
    BY <1>11, <1>a DEF Retry
  <2> HIDE DEF K, k, org
  <2>3. ~Active(K[k]) BY <2>1, AcceptFree
  <2>4. Eases(Swept[j], K[j])
    BY <2>1, <2>2, States DEF Moves, Continues, Eases
  <2>5. \A i \in AllJobs : Eases(Swept[i], K[i]) /\ GoodRec(K[i])
    BY <1>b, <2>1, <2>2, <2>4 DEF Moves
  <2>6. 0 \in Nat /\ 0 \in {0, 1} OBVIOUS
  <2>7. AdmitStep(k) BY <2>1, <2>2, <2>3, <2>5, <2>6, AcceptAdmits
  <2> QED BY <2>1, <2>7
<1>12. ASSUME NEW o \in Ops, NEW j \in AllJobs, RetryAlias(o, j) PROVE Done
  BY <1>12, AliasPasses DEF RetryAlias
<1>13. CASE Producer BY <1>8, <1>9, <1>10, <1>13 DEF Producer
<1>14. CASE Worker
  <2>1. ASSUME Next, Moved PROVE Done
    BY <1>2, <1>3, <1>4, <1>5, <1>14, <2>1 DEF Worker
  <2>2. Next BY <1>14 DEF Next
  <2>3. ~Moved => Tick \/ Producer \/ \E o \in Ops, j \in AllJobs : Retry(o, j) \/ RetryAlias(o, j)
    BY <2>2, Commands
  <2> QED BY <1>0, <1>11, <1>12, <1>13, <2>1, <2>2, <2>3
<1>15. CASE Operator BY <1>6, <1>7, <1>11, <1>12, <1>15 DEF Operator
<1> QED BY <1>0, <1>1, <1>13, <1>14, <1>15 DEF Next

\* What the promise sees of a record.
LEMMA StageFacts ==
  ASSUME NEW m \in JobRec
  PROVE  /\ StageOf(m) \in {"unknown", "over", "waiting", "held"}
         /\ StageOf(m) = "held" <=> Held(m)
         /\ StageOf(m) = "waiting" <=> Active(m) /\ ~Held(m)
         /\ StageOf(m) = "unknown" <=> m.st = "absent"
         /\ StageOf(m) \in {"waiting", "held"} <=> Active(m)
<1>1. m.st \in ActiveStates \cup EndStates \cup {"absent"} BY DEF JobRec
<1>2. "absent" \notin EndStates BY DEF EndStates
<1>3. CASE Held(m)
  <2>1. Active(m) /\ m.st # "absent" BY <1>3, States
  <2>2. StageOf(m) = "held" BY <1>3, States DEF StageOf
  <2> QED BY <1>3, <2>1, <2>2
<1>4. CASE Active(m) /\ ~Held(m)
  <2>1. m.st # "absent" BY <1>4, States
  <2>2. StageOf(m) = "waiting" BY <1>4, States DEF StageOf
  <2> QED BY <1>4, <2>1, <2>2
<1>5. CASE m.st \in EndStates
  <2>1. ~Active(m) /\ ~Held(m) /\ m.st # "absent" BY <1>2, <1>5, States
  <2>2. StageOf(m) = "over" BY <1>5, <2>1 DEF StageOf
  <2> QED BY <2>1, <2>2
<1>6. CASE m.st = "absent"
  <2>1. ~Active(m) /\ ~Held(m) BY <1>6, States
  <2>2. StageOf(m) = "unknown" BY <1>2, <1>6, <2>1 DEF StageOf
  <2> QED BY <1>6, <2>1, <2>2
<1> QED BY <1>1, <1>3, <1>4, <1>5, <1>6 DEF Active

\* Easing a record is a yield of its stage.
LEMMA EasesStage ==
  ASSUME NEW m \in JobRec, NEW n \in JobRec, Eases(m, n), CoherentRec(n)
  PROVE  /\ n.org = m.org
         /\ StageOf(n) \in Promise!Nearer[StageOf(m)]
         /\ StageOf(n) = "waiting" => StageOf(m) = "waiting" \/ m.org \notin Effectful
         /\ n.own = IF StageOf(n) = "held" THEN m.own ELSE NoTok
<1> DEFINE a == StageOf(m)
           b == StageOf(n)
<1>1. /\ a \in {"unknown", "over", "waiting", "held"} /\ b \in {"unknown", "over", "waiting", "held"}
      /\ (a = "held" <=> Held(m)) /\ (b = "held" <=> Held(n))
      /\ (a = "waiting" <=> Active(m) /\ ~Held(m)) /\ (b = "waiting" <=> Active(n) /\ ~Held(n))
      /\ (a = "unknown" <=> m.st = "absent") /\ (b = "unknown" <=> n.st = "absent")
  BY StageFacts
<1> HIDE DEF a, b
<1>2. /\ a = "unknown" => b = "unknown"
      /\ a = "over" => b \in {"over", "unknown"}
      /\ a = "waiting" => b \in {"waiting", "over", "unknown"}
  <2>1. Held(n) => Active(n) BY States
  <2>2. Held(m) => Active(m) BY States
  <2>3. a = "unknown" => b = "unknown" BY <1>1 DEF Eases
  <2>4. a = "over" => ~Active(m) BY <1>1, <2>2
  <2>5. a = "over" => b \in {"over", "unknown"} BY <1>1, <2>1, <2>4 DEF Eases
  <2>6. a = "waiting" => b # "held" BY <1>1 DEF Eases
  <2> QED BY <1>1, <2>3, <2>5, <2>6
<1>3. /\ Promise!Nearer["unknown"] = {"unknown"} /\ Promise!Nearer["over"] = {"over", "unknown"}
      /\ Promise!Nearer["waiting"] = {"waiting", "over", "unknown"}
      /\ Promise!Nearer["held"] = {"held", "waiting", "over", "unknown"}
  BY DEF Promise!Nearer
<1>4. b \in Promise!Nearer[a] BY <1>1, <1>2, <1>3
<1>5. b = "waiting" => a = "waiting" \/ m.org \notin Effectful
  BY <1>1, States DEF Eases
<1>6. n.own = IF b = "held" THEN m.own ELSE NoTok
  BY <1>1 DEF Eases, CoherentRec
<1>7. n.org = m.org BY DEF Eases
<1> QED BY <1>4, <1>5, <1>6, <1>7 DEF a, b

\* The refinement mapping.
TaskAll  == [j \in AllJobs |-> job[j].org]
StageAll == [j \in AllJobs |-> StageOf(job[j])]
OwnerAll == [j \in AllJobs |-> job[j].own]

\* Nobody has touched any job: the first states of the queue.
LEMMA PromiseStart == ASSUME Init PROVE Promise!PromiseInit
<1>1. NoRec \in JobRec BY NoRecType
<1>2. NoRec.st = "absent" /\ NoRec.own = NoTok /\ NoRec.org \in Jobs
  <2>1. NoRec.org \in Jobs BY <1>1 DEF JobRec
  <2> QED BY <2>1 DEF NoRec
<1>3. StageOf(NoRec) = "unknown" BY <1>1, <1>2, StageFacts
<1>4. \A j \in AllJobs : job[j] = NoRec BY DEF Init
<1>5. TaskAll \in [AllJobs -> Jobs] BY <1>2, <1>4 DEF TaskAll
<1>6. StageAll = [j \in AllJobs |-> "unknown"] BY <1>3, <1>4 DEF StageAll
<1>7. OwnerAll = [j \in AllJobs |-> NoTok] BY <1>2, <1>4 DEF OwnerAll
<1>8. claims = 0 BY DEF Init
<1> QED BY <1>5, <1>6, <1>7, <1>8 DEF Promise!PromiseInit, TaskAll, StageAll, OwnerAll

\* The step of a job whose record eases, whatever the others do.
LEMMA EasesYields ==
  ASSUME TypeOK, TypeOK', Coherent', NEW i \in AllJobs, Eases(job[i], job'[i])
  PROVE  Promise!Yields(i)
<1>1. job[i] \in JobRec /\ job'[i] \in JobRec BY DEF TypeOK
<1>2. CoherentRec(job'[i]) BY DEF Coherent
<1>3. /\ TaskAll[i] = job[i].org /\ StageAll[i] = StageOf(job[i]) /\ OwnerAll[i] = job[i].own
      /\ TaskAll'[i] = job'[i].org /\ StageAll'[i] = StageOf(job'[i]) /\ OwnerAll'[i] = job'[i].own
  BY DEF TaskAll, StageAll, OwnerAll
<1>4. /\ TaskAll'[i] = TaskAll[i]
      /\ StageAll'[i] \in Promise!Nearer[StageAll[i]]
      /\ StageAll'[i] = "waiting" => StageAll[i] = "waiting" \/ TaskAll[i] \notin Effectful
      /\ OwnerAll'[i] = IF StageAll'[i] = "held" THEN OwnerAll[i] ELSE NoTok
  BY <1>1, <1>2, <1>3, EasesStage
<1> QED BY <1>4 DEF Promise!Yields, TaskAll, StageAll, OwnerAll

\* The promise counts as the queue counts.
LEMMA SameCardinality == ASSUME NEW S PROVE Promise!Cardinality(S) = Cardinality(S)
BY Zenon DEF Promise!Cardinality, Cardinality

\* The jobs a lane is left with, by their records.
LEMMA LeftUnfinished ==
  ASSUME TypeOK', CapsHold', NEW l \in Lanes
  PROVE  Promise!Cardinality(Promise!LeftIn(l, Promise!Unfinished)) <= MaxJobs[l]
<1>1. \A i \in AllJobs : StageOf(job'[i]) \in {"waiting", "held"} <=> Active(job'[i])
  BY StageFacts DEF TypeOK
<1>2. Promise!LeftIn(l, Promise!Unfinished)
        = {j \in {k \in AllJobs : Lane[job'[k].org] = l} : Active(job'[j])}
  BY <1>1 DEF Promise!LeftIn, Promise!Unfinished
<1>3. Cardinality({j \in {k \in AllJobs : Lane[job'[k].org] = l} : Active(job'[j])}) <= MaxJobs[l]
  BY DEF CapsHold
<1> QED BY <1>2, <1>3, SameCardinality

LEMMA LeftHeld ==
  ASSUME TypeOK', CapsHold', NEW l \in Lanes
  PROVE  Promise!Cardinality(Promise!LeftIn(l, {"held"})) <= Workers[l]
<1>1. \A i \in AllJobs : StageOf(job'[i]) = "held" <=> Held(job'[i])
  BY StageFacts DEF TypeOK
<1>2. Promise!LeftIn(l, {"held"}) = {j \in {k \in AllJobs : Lane[job'[k].org] = l} : Held(job'[j])}
  BY <1>1 DEF Promise!LeftIn
<1>3. Cardinality({j \in {k \in AllJobs : Lane[job'[k].org] = l} : Held(job'[j])}) <= Workers[l]
  BY DEF CapsHold
<1> QED BY <1>2, <1>3, SameCardinality

\* Every step keeps the promise: the records say which stages change, the four
\* invariants after the step give the guards of an admission and of a claim.
LEMMA PromiseStep ==
  ASSUME TypeOK, TypeOK', LifeInv, Coherent', ConflictExclusive', ImageExclusive', CapsHold',
         [Next]_storeVars
  PROVE  Promise!PromiseNext
<1>1. /\ job \in [AllJobs -> JobRec] /\ job' \in [AllJobs -> JobRec] /\ claims \in Nat
      /\ \A i \in AllJobs : CoherentRec(job'[i])
  BY DEF TypeOK, Coherent
<1>2. \A i \in AllJobs :
        /\ TaskAll[i] = job[i].org /\ StageAll[i] = StageOf(job[i])
        /\ TaskAll'[i] = job'[i].org /\ StageAll'[i] = StageOf(job'[i]) /\ OwnerAll'[i] = job'[i].own
  BY DEF TaskAll, StageAll, OwnerAll
<1>3. \A i \in AllJobs : job[i].org \in Jobs /\ job'[i].org \in Jobs BY <1>1 DEF JobRec
<1>4. \A j \in Jobs : Lane[j] \in Lanes BY StoreAssumption DEF StoreAssumption
<1>5. \A i \in AllJobs : Eases(job[i], job'[i]) => Promise!Yields(i) BY EasesYields
<1>6. \A i \in AllJobs :
        /\ StageOf(job'[i]) = "held" <=> Held(job'[i])
        /\ StageOf(job'[i]) = "waiting" <=> Active(job'[i]) /\ ~Held(job'[i])
        /\ StageOf(job'[i]) \in {"waiting", "held"} <=> Active(job'[i])
        /\ StageOf(job[i]) = "held" <=> Held(job[i])
        /\ StageOf(job[i]) = "waiting" <=> Active(job[i]) /\ ~Held(job[i])
  BY <1>1, StageFacts
<1>7. CASE PassStep
  <2>1. Promise!Pass BY <1>5, <1>7 DEF PassStep, Promise!Pass
  <2> QED BY <2>1 DEF Promise!PromiseNext
<1>8. ASSUME NEW j \in AllJobs, OthersEase(j) PROVE Promise!OthersYield(j)
  BY <1>5, <1>8 DEF OthersEase, Promise!OthersYield
<1>9. ASSUME NEW j \in AllJobs, AdmitStep(j) PROVE Promise!Admit(j)
  <2>1. Promise!OthersYield(j) /\ claims' = claims BY <1>8, <1>9 DEF AdmitStep
  <2>2. StageAll'[j] = "waiting" /\ TaskAll'[j] \in Jobs
    BY <1>2, <1>3, <1>6, <1>9 DEF AdmitStep
  <2>3. OwnerAll'[j] = NoTok BY <1>1, <1>2, <1>9 DEF AdmitStep, CoherentRec
  <2>4. ASSUME NEW i \in AllJobs \ {j}, StageAll'[i] \in {"waiting", "held"}
        PROVE  Keys[TaskAll'[i]] \cap Keys[TaskAll'[j]] = {}
    <3>1. Active(job'[i]) /\ Active(job'[j]) BY <1>2, <1>6, <1>9, <2>4 DEF AdmitStep
    <3>2. Keys[job'[i].org] \cap Keys[job'[j].org] = {} BY <2>4, <3>1 DEF ConflictExclusive
    <3> QED BY <1>2, <3>2
  <2>5. Promise!Cardinality(Promise!LeftIn(Lane[job'[j].org], Promise!Unfinished))
          <= MaxJobs[Lane[job'[j].org]]
    BY <1>3, <1>4, LeftUnfinished
  <2>6. \A i \in AllJobs \ {j} : StageAll'[i] \in Promise!Unfinished =>
          Keys[TaskAll'[i]] \cap Keys[TaskAll'[j]] = {}
    BY <2>4 DEF Promise!Unfinished
  <2> QED
    BY <2>1, <2>2, <2>3, <2>5, <2>6 DEF Promise!Admit, TaskAll, StageAll, OwnerAll
<1>10. ASSUME NEW j \in AllJobs, ClaimStep(j) PROVE Promise!Claim(j)
  <2>1. Promise!OthersYield(j) /\ claims' = claims + 1 BY <1>8, <1>10 DEF ClaimStep
  <2>2. StageAll[j] = "waiting" \/ (StageAll[j] = "held" /\ TaskAll[j] \notin Effectful)
    BY <1>2, <1>6, <1>10 DEF ClaimStep
  <2>3. TaskAll'[j] = TaskAll[j] /\ StageAll'[j] = "held" /\ OwnerAll'[j] = claims + 1
    BY <1>2, <1>6, <1>10 DEF ClaimStep
  <2>4. Promise!Cardinality(Promise!LeftIn(Lane[job[j].org], {"held"})) <= Workers[Lane[job[j].org]]
    BY <1>3, <1>4, LeftHeld
  <2>5. ASSUME TaskAll[j] \in Image, NEW i \in AllJobs \ {j}, StageAll'[i] = "held"
        PROVE  TaskAll'[i] \notin Image
    <3>1. Held(job'[i]) /\ Held(job'[j]) /\ job'[j].org \in Image
      BY <1>2, <1>6, <1>10, <2>5 DEF ClaimStep
    <3>2. job'[i].org \notin Image BY <2>5, <3>1 DEF ImageExclusive
    <3> QED BY <1>2, <3>2
  <2> QED
    BY <2>1, <2>2, <2>3, <2>4, <2>5 DEF Promise!Claim, TaskAll, StageAll, OwnerAll
<1>11. ASSUME NEW j \in AllJobs, HandBackStep(j) PROVE Promise!HandBack(j)
  <2>1. Promise!OthersYield(j) /\ claims' = claims BY <1>8, <1>11 DEF HandBackStep
  <2>2. /\ StageAll[j] = "held" /\ StageAll'[j] = "waiting" /\ TaskAll'[j] = TaskAll[j]
    BY <1>2, <1>6, <1>11 DEF HandBackStep
  <2>3. OwnerAll'[j] = NoTok BY <1>1, <1>2, <1>11 DEF HandBackStep, CoherentRec
  <2> QED BY <2>1, <2>2, <2>3 DEF Promise!HandBack, TaskAll, StageAll, OwnerAll
<1> QED BY <1>7, <1>9, <1>10, <1>11, StoreSteps DEF Promise!PromiseNext

\* Whatever the sweep finds due and whoever is late (queue_lua.py), a job comes
\* back only by an admission, a claim under a new token or its own owner's report
\* of a failure; an effectful job whose owner is lost never does; and conflict
\* keys, lane capacities, lane workers and the image permit bind at every one.
THEOREM QueueKeepsPromise == Spec => KeepsPromise
<1>1. Init => Promise!PromiseInit BY PromiseStart
<1>2. TypeOK /\ TypeOK' /\ LifeInv /\ Coherent' /\ ConflictExclusive' /\ ImageExclusive' /\ CapsHold'
        /\ [Next]_storeVars => [Promise!PromiseNext]_(Promise!queueVars)
  BY PromiseStep
<1> QED
  BY <1>1, <1>2, LifeInvariant, CoherentAlways, ConflictExclusiveAlways, ImageExclusiveAlways,
     CapsHoldAlways, PTL
  DEF Spec, KeepsPromise, Promise!PromiseSpec
=============================================================================

------------------------ MODULE PrivacyLeaseProofs --------------------------
(***************************************************************************)
(* Proofs about PrivacyLease, for every number of tasks, commands and      *)
(* generations and every lease, heartbeat and lifetime.                    *)
(***************************************************************************)
EXTENDS PrivacyLease, TLAPS

\* One sequence, one account: its generation is the last one taken, so whatever
\* a lease, a command or a deletion remembers is not newer.
Dated == /\ chat.epoch = seq
         /\ \A o \in Ops : op[o].bar <= seq
         /\ revoked.ltm <= seq /\ revoked.all <= seq /\ wiped <= seq
         /\ chat.here => wiped < seq

\* Only a command that set a gate compensates.
Kinds == \A o \in Ops : /\ op[o].pc # "idle" => op[o].kind # "none"
                        /\ op[o].pc = "restore" => op[o].kind \in Gates

\* What the command that owns the gate will restore is the account's decision.
Restores == \A o \in Ops : op[o].kind \in Gates /\ Mine(o) => op[o].prev = choice

\* A task that is not at the end of its lifetime has its row, and the row lasts
\* longer than the task can go without renewing it.
Backed == \A h \in Holders : use[h].pc = "using" /\ use[h].age < MaxLife =>
            /\ row[h].live /\ row[h].epoch = use[h].epoch /\ row[h].ltm = use[h].ltm
            /\ row[h].left > 0
            /\ row[h].left + use[h].since >= TTL \/ row[h].left + use[h].age >= MaxLife

\* A command that has stopped waiting has nothing left to wait for.
Drained == \A o \in Ops, h \in Holders :
             op[o].pc \in {"sweep", "act"} => ~(Old(o, h) /\ row[h].left > 0)

-----------------------------------------------------------------------------
\* The sets from which the state is built.
Chat == [here : BOOLEAN, epoch : Epochs, blocked : BOOLEAN, ltm : BOOLEAN]
Row == [live : BOOLEAN, epoch : 0..MaxEpoch, ltm : BOOLEAN, left : 0..TTL]
Use == [pc : {"idle", "ready", "using", "cleanup"}, epoch : 0..MaxEpoch,
        ltm : BOOLEAN, age : 0..MaxLife, since : 0..(Beat + Lag)]
Command == [pc : {"idle", "drain", "sweep", "act", "restore"},
            kind : Gates \cup {"disable", "none"}, bar : 0..MaxEpoch, prev : BOOLEAN]

\* The empty records are of their types.
LEMMA Blank == NoRow \in Row /\ NoUse \in Use /\ NoOp \in Command
BY PrivacyAssumption DEF NoRow, NoUse, NoOp, Row, Use, Command

\* TypeOK by parts.
LEMMA Typed == ASSUME TypeOK PROVE
  /\ chat \in Chat /\ row \in [Holders -> Row] /\ use \in [Holders -> Use]
  /\ op \in [Ops -> Command]
BY DEF TypeOK, Chat, Row, Use, Command

\* Generations are numbers.
LEMMA Numbers == ASSUME TypeOK PROVE
  /\ seq \in Nat /\ chat.epoch \in Nat /\ wiped \in Nat /\ mem \in Nat
  /\ revoked.ltm \in Nat /\ revoked.all \in Nat
  /\ \A o \in Ops : op[o].bar \in Nat
BY PrivacyAssumption DEF TypeOK, Epochs

\* The types.
LEMMA TypeKept == ASSUME TypeOK, [Next]_vars PROVE TypeOK'
<1> USE PrivacyAssumption DEF TypeOK, ghosts, Epochs, Gates
<1>1. ASSUME NEW h \in Holders, Snapshot(h) PROVE TypeOK'
  <2>1. PICK ltm \in BOOLEAN : use' = [use EXCEPT ![h] = [NoUse EXCEPT !.pc = "ready",
                                               !.epoch = chat.epoch, !.ltm = ltm]]
    BY <1>1 DEF Snapshot
  <2>2. [NoUse EXCEPT !.pc = "ready", !.epoch = chat.epoch, !.ltm = ltm] \in Use
    <3>1. chat.epoch \in 0..MaxEpoch
      BY Typed DEF Chat
    <3> QED BY <3>1, Blank DEF Use
  <2>3. use' \in [Holders -> Use]
    BY <2>1, <2>2, Typed
  <2> QED BY <1>1, <2>3 DEF Snapshot, Use
<1>2. ASSUME NEW h \in Holders, Acquire(h) PROVE TypeOK'
  <2>1. [live |-> TRUE, epoch |-> use[h].epoch, ltm |-> use[h].ltm, left |-> TTL] \in Row
    BY Typed DEF Row, Use
  <2>2. row' \in [Holders -> Row]
    BY <1>2, <2>1, Typed DEF Acquire
  <2>3. [use[h] EXCEPT !.pc = "using"] \in Use
    BY Typed DEF Use
  <2>4. use' \in [Holders -> Use]
    BY <1>2, <2>3, Typed, Blank DEF Acquire
  <2> QED BY <1>2, <2>2, <2>4 DEF Acquire, Use, Row
<1>3. ASSUME NEW h \in Holders, Renew(h) PROVE TypeOK'
  <2>1. ASSUME Renewable(h) PROVE [row[h] EXCEPT !.left = Extended(h)] \in Row
    BY <2>1, Typed DEF Row, Use, Renewable, Extended
  <2>2. row' \in [Holders -> Row]
    BY <1>3, <2>1, Typed DEF Renew
  <2>3. [use[h] EXCEPT !.since = 0] \in Use /\ [use[h] EXCEPT !.pc = "cleanup"] \in Use
    BY Typed DEF Use
  <2>4. use' \in [Holders -> Use]
    BY <1>3, <2>3, Typed DEF Renew
  <2> QED BY <1>3, <2>2, <2>4 DEF Renew, Use, Row
<1>4. ASSUME NEW h \in Holders, Write(h) PROVE TypeOK'
  BY <1>4 DEF Write, Stored, Current
<1>5. ASSUME NEW h \in Holders, Leave(h) PROVE TypeOK'
  BY <1>5 DEF Leave
<1>6. ASSUME NEW h \in Holders, Release(h) PROVE TypeOK'
  <2>1. row' \in [Holders -> Row] /\ use' \in [Holders -> Use]
    BY <1>6, Typed, Blank DEF Release
  <2> QED BY <1>6, <2>1 DEF Release, Use, Row
<1>7. ASSUME NEW h \in Holders, OwnerCrash(h) PROVE TypeOK'
  BY <1>7 DEF OwnerCrash, NoUse
<1>8. ASSUME NEW o \in Ops, NEW k \in Gates, Barrier(o, k) PROVE TypeOK'
  <2>1. NextEpoch \in Epochs
    BY <1>8 DEF Barrier, NextEpoch
  <2>2. chat' \in Chat /\ chat.ltm \in BOOLEAN
    BY <1>8, <2>1, Typed DEF Barrier, Chat
  <2>3. ASSUME NEW pc \in {"drain", "restore"}
        PROVE  [kind |-> k, bar |-> NextEpoch, prev |-> chat.ltm, pc |-> pc] \in Command
    BY <2>1, <2>2 DEF Command
  <2>4. op' \in [Ops -> Command]
    BY <1>8, <2>3, Typed DEF Barrier
  <2> QED BY <1>8, <2>1, <2>2, <2>4 DEF Barrier, Chat, Command
<1>9. ASSUME NEW o \in Ops, Disable(o) PROVE TypeOK'
  <2>1. chat.ltm => NextEpoch \in Epochs
    BY <1>9 DEF Disable, NextEpoch
  <2>2. chat' \in Chat /\ seq' \in Epochs
    BY <1>9, <2>1, Typed DEF Disable, Chat
  <2>3. [kind |-> "disable", pc |-> "drain", bar |-> chat'.epoch, prev |-> chat.ltm] \in Command
    BY <2>2, Typed DEF Command, Chat
  <2>4. op' \in [Ops -> Command]
    BY <1>9, <2>3, Typed DEF Disable
  <2> QED BY <1>9, <2>2, <2>4 DEF Disable, Chat, Command
<1>10. ASSUME NEW o \in Ops, Poll(o) PROVE TypeOK'
  BY <1>10 DEF Poll, NoRow, Old, LtmOnly
<1>11. ASSUME NEW o \in Ops, Sweep(o) PROVE TypeOK'
  BY <1>11 DEF Sweep, NoRow, Old, LtmOnly
<1>12. ASSUME NEW o \in Ops, CommitErase(o) PROVE TypeOK'
  <2>1. op[o].bar \in 0..MaxEpoch /\ [op[o] EXCEPT !.pc = "restore"] \in Command
    BY Typed DEF Command
  <2>2. op' \in [Ops -> Command]
    BY <1>12, <2>1, Typed, Blank DEF CommitErase, Over
  <2>3. chat' \in Chat
    BY <1>12, Typed DEF CommitErase, Chat
  <2> QED BY <1>12, <2>1, <2>2, <2>3 DEF CommitErase, Chat, Command
<1>13. ASSUME NEW o \in Ops, CommitForget(o) PROVE TypeOK'
  <2>1. op[o].bar \in 0..MaxEpoch /\ [op[o] EXCEPT !.pc = "restore"] \in Command
    BY Typed DEF Command
  <2>2. op' \in [Ops -> Command]
    BY <1>13, <2>1, Typed, Blank DEF CommitForget, Over
  <2>3. NextEpoch \in Epochs /\ op[o].prev \in BOOLEAN
    BY <1>13, Typed DEF CommitForget, NextEpoch, Command
  <2>4. chat' \in Chat
    BY <1>13, <2>3, Typed DEF CommitForget, Chat
  <2> QED BY <1>13, <2>1, <2>2, <2>3, <2>4 DEF CommitForget, Chat, Command
<1>14. ASSUME NEW o \in Ops, CommitDisable(o) PROVE TypeOK'
  BY <1>14 DEF CommitDisable, NoOp
<1>15. ASSUME NEW o \in Ops, Fail(o) PROVE TypeOK'
  BY <1>15 DEF Fail, NoOp
<1>16. ASSUME NEW o \in Ops, Restore(o) PROVE TypeOK'
  <2>1. op' \in [Ops -> Command] /\ op[o].prev \in BOOLEAN
    BY <1>16, Typed, Blank DEF Restore, Command
  <2>2. chat' \in Chat /\ seq' \in Epochs
    <3>1. CASE Restorable(o)
      <4>1. NextEpoch \in Epochs
        BY <1>16, <3>1 DEF Restore, NextEpoch
      <4> QED BY <1>16, <2>1, <3>1, <4>1, Typed DEF Restore, Chat
    <3>2. CASE ~Restorable(o)
      BY <1>16, <3>2, Typed DEF Restore
    <3> QED BY <3>1, <3>2
  <2> QED BY <1>16, <2>1, <2>2 DEF Restore, Chat, Command
<1>17. ASSUME NEW o \in Ops, OpCrash(o) PROVE TypeOK'
  BY <1>17 DEF OpCrash, NoOp
<1>18. CASE Enable
  BY <1>18 DEF Enable
<1>19. CASE Return
  BY <1>19 DEF Return, NextEpoch
<1>20. CASE Tick
  <2>1. row' \in [Holders -> Row]
    <3>1. ASSUME NEW h \in Holders
          PROVE  [row[h] EXCEPT !.left = IF @ > 0 THEN @ - 1 ELSE 0] \in Row
      BY Typed DEF Row
    <3> QED BY <1>20, <3>1, Typed DEF Tick
  <2>2. use' \in [Holders -> Use]
    <3>1. ASSUME NEW h \in Holders, use[h].pc = "using"
          PROVE  [use[h] EXCEPT !.since = @ + 1,
                                !.age = IF @ < MaxLife THEN @ + 1 ELSE MaxLife] \in Use
      <4> DEFINE u == use[h]
      <4>1. u \in Use
        BY Typed
      <4>2. u.since < Beat + Lag
        BY <1>20, <3>1 DEF Tick
      <4> HIDE DEF u
      <4>3. u.since + 1 \in 0..(Beat + Lag)
        BY <4>1, <4>2 DEF Use
      <4>4. (IF u.age < MaxLife THEN u.age + 1 ELSE MaxLife) \in 0..MaxLife
        BY <4>1 DEF Use
      <4>5. [u EXCEPT !.since = @ + 1,
                      !.age = IF @ < MaxLife THEN @ + 1 ELSE MaxLife] \in Use
        BY <4>1, <4>3, <4>4 DEF Use
      <4> QED BY <4>5 DEF u
    <3> QED BY <1>20, <3>1, Typed DEF Tick
  <2> QED BY <1>20, <2>1, <2>2 DEF Tick, Use, Row
<1>21. CASE UNCHANGED vars
  BY <1>21 DEF vars
<1> QED
  BY <1>1, <1>2, <1>3, <1>4, <1>5, <1>6, <1>7, <1>8, <1>9, <1>10, <1>11, <1>12,
     <1>13, <1>14, <1>15, <1>16, <1>17, <1>18, <1>19, <1>20, <1>21
     DEF Next

\* Generations.
LEMMA DatedKept == ASSUME TypeOK, Dated, [Next]_vars PROVE Dated'
<1> USE Numbers DEF Dated, ghosts
<1>1. ASSUME NEW h \in Holders, Snapshot(h) PROVE Dated'
  BY <1>1 DEF Snapshot
<1>2. ASSUME NEW h \in Holders, Acquire(h) PROVE Dated'
  BY <1>2 DEF Acquire
<1>3. ASSUME NEW h \in Holders, Renew(h) PROVE Dated'
  BY <1>3 DEF Renew
<1>4. ASSUME NEW h \in Holders, Write(h) PROVE Dated'
  BY <1>4 DEF Write
<1>5. ASSUME NEW h \in Holders, Leave(h) PROVE Dated'
  BY <1>5 DEF Leave
<1>6. ASSUME NEW h \in Holders, Release(h) PROVE Dated'
  BY <1>6 DEF Release, NoUse, NoRow
<1>7. ASSUME NEW h \in Holders, OwnerCrash(h) PROVE Dated'
  BY <1>7 DEF OwnerCrash, NoUse
<1>8. ASSUME NEW o \in Ops, NEW k \in Gates, Barrier(o, k) PROVE Dated'
  <2>1. seq' = seq + 1 /\ chat'.epoch = seq + 1
    BY <1>8, Typed DEF Barrier, NextEpoch, Chat
  <2>2. \A p \in Ops : op'[p].bar <= seq + 1
    BY <1>8, Typed DEF Barrier, NextEpoch, Command
  <2> QED BY <1>8, <2>1, <2>2 DEF Barrier
<1>9. ASSUME NEW o \in Ops, Disable(o) PROVE Dated'
  <2>1. seq' \in {seq, seq + 1} /\ chat'.epoch = seq' /\ chat'.here = chat.here
    BY <1>9, Typed DEF Disable, NextEpoch, Chat
  <2>2. \A p \in Ops : op'[p].bar <= seq'
    BY <1>9, <2>1, Typed DEF Disable, Command
  <2> QED BY <1>9, <2>1, <2>2 DEF Disable
<1>10. ASSUME NEW o \in Ops, Poll(o) PROVE Dated'
  <2>1. \A p \in Ops : op'[p].bar = op[p].bar
    BY <1>10, Typed DEF Poll, Command
  <2> QED BY <1>10, <2>1 DEF Poll
<1>11. ASSUME NEW o \in Ops, Sweep(o) PROVE Dated'
  <2>1. \A p \in Ops : op'[p].bar = op[p].bar
    BY <1>11, Typed DEF Sweep, Command
  <2> QED BY <1>11, <2>1 DEF Sweep
<1>12. ASSUME NEW o \in Ops, CommitErase(o) PROVE Dated'
  <2>1. chat'.epoch = seq /\ ~chat'.here
    BY <1>12, Typed DEF CommitErase, Chat
  <2>2. \A p \in Ops : op'[p].bar <= seq
    BY <1>12, Typed DEF CommitErase, Over, NoOp, Command
  <2>3. revoked'.ltm = op[o].bar /\ revoked'.all = op[o].bar /\ wiped' = op[o].bar
    BY <1>12 DEF CommitErase
  <2> QED BY <1>12, <2>1, <2>2, <2>3 DEF CommitErase
<1>13. ASSUME NEW o \in Ops, CommitForget(o) PROVE Dated'
  <2>1. seq' = seq + 1 /\ chat'.epoch = seq + 1
    BY <1>13, Typed DEF CommitForget, NextEpoch, Chat
  <2>2. \A p \in Ops : op'[p].bar \in 0..seq
    BY <1>13, Typed DEF CommitForget, Over, NoOp, Command
  <2>3. revoked'.ltm = op[o].bar /\ revoked'.all = revoked.all /\ wiped' = op[o].bar
    BY <1>13 DEF CommitForget, TypeOK
  <2> QED BY <1>13, <2>1, <2>2, <2>3
<1>14. ASSUME NEW o \in Ops, CommitDisable(o) PROVE Dated'
  <2>1. \A p \in Ops : op'[p].bar <= seq
    BY <1>14, Typed DEF CommitDisable, NoOp, Command
  <2>2. revoked'.ltm \in {revoked.ltm, op[o].bar} /\ revoked'.all = revoked.all
    BY <1>14 DEF CommitDisable, TypeOK
  <2> QED BY <1>14, <2>1, <2>2 DEF CommitDisable
<1>15. ASSUME NEW o \in Ops, Fail(o) PROVE Dated'
  <2>1. \A p \in Ops : op'[p].bar \in {0, op[p].bar}
    BY <1>15, Typed DEF Fail, NoOp, Command
  <2> QED BY <1>15, <2>1 DEF Fail
<1>16. ASSUME NEW o \in Ops, Restore(o) PROVE Dated'
  <2>1. \A p \in Ops : op'[p].bar \in 0..seq
    BY <1>16, Typed DEF Restore, NoOp, Command
  <2>2. seq' \in {seq, seq + 1} /\ chat'.epoch = seq' /\ chat'.here = chat.here
    BY <1>16, Typed DEF Restore, NextEpoch, Chat
  <2>3. UNCHANGED <<revoked, wiped>>
    BY <1>16 DEF Restore
  <2> QED BY <2>1, <2>2, <2>3
<1>17. ASSUME NEW o \in Ops, OpCrash(o) PROVE Dated'
  <2>1. \A p \in Ops : op'[p].bar \in {0, op[p].bar}
    BY <1>17, Typed DEF OpCrash, NoOp, Command
  <2> QED BY <1>17, <2>1 DEF OpCrash
<1>18. CASE Enable
  <2>1. chat'.epoch = chat.epoch /\ chat'.here = chat.here
    BY <1>18, Typed DEF Enable, Chat
  <2> QED BY <1>18, <2>1 DEF Enable
<1>19. CASE Return
  <2>1. seq' = seq + 1 /\ chat'.epoch = seq + 1
    BY <1>19 DEF Return, NextEpoch
  <2> QED BY <1>19, <2>1 DEF Return
<1>20. CASE Tick
  BY <1>20 DEF Tick
<1>21. CASE UNCHANGED vars
  BY <1>21 DEF vars
<1> QED
  BY <1>1, <1>2, <1>3, <1>4, <1>5, <1>6, <1>7, <1>8, <1>9, <1>10, <1>11, <1>12,
     <1>13, <1>14, <1>15, <1>16, <1>17, <1>18, <1>19, <1>20, <1>21
     DEF Next

\* The kinds of the commands.
LEMMA KindsKept == ASSUME TypeOK, Kinds, [Next]_vars PROVE Kinds'
<1> USE Typed DEF Kinds, ghosts, Gates, Command
<1>1. ASSUME NEW h \in Holders, Snapshot(h) PROVE Kinds'
  BY <1>1 DEF Snapshot
<1>2. ASSUME NEW h \in Holders, Acquire(h) PROVE Kinds'
  BY <1>2 DEF Acquire
<1>3. ASSUME NEW h \in Holders, Renew(h) PROVE Kinds'
  BY <1>3 DEF Renew
<1>4. ASSUME NEW h \in Holders, Write(h) PROVE Kinds'
  BY <1>4 DEF Write
<1>5. ASSUME NEW h \in Holders, Leave(h) PROVE Kinds'
  BY <1>5 DEF Leave
<1>6. ASSUME NEW h \in Holders, Release(h) PROVE Kinds'
  BY <1>6 DEF Release, NoUse, NoRow
<1>7. ASSUME NEW h \in Holders, OwnerCrash(h) PROVE Kinds'
  BY <1>7 DEF OwnerCrash, NoUse
<1>8. ASSUME NEW o \in Ops, NEW k \in Gates, Barrier(o, k) PROVE Kinds'
  BY <1>8 DEF Barrier, NextEpoch
<1>9. ASSUME NEW o \in Ops, Disable(o) PROVE Kinds'
  BY <1>9 DEF Disable, NextEpoch
<1>10. ASSUME NEW o \in Ops, Poll(o) PROVE Kinds'
  BY <1>10 DEF Poll
<1>11. ASSUME NEW o \in Ops, Sweep(o) PROVE Kinds'
  BY <1>11 DEF Sweep
<1>12. ASSUME NEW o \in Ops, CommitErase(o) PROVE Kinds'
  BY <1>12 DEF CommitErase, Over, NoOp, Mine
<1>13. ASSUME NEW o \in Ops, CommitForget(o) PROVE Kinds'
  BY <1>13 DEF CommitForget, Over, NoOp, Mine, NextEpoch
<1>14. ASSUME NEW o \in Ops, CommitDisable(o) PROVE Kinds'
  BY <1>14 DEF CommitDisable, NoOp
<1>15. ASSUME NEW o \in Ops, Fail(o) PROVE Kinds'
  BY <1>15 DEF Fail, NoOp
<1>16. ASSUME NEW o \in Ops, Restore(o) PROVE Kinds'
  BY <1>16 DEF Restore, NoOp, Restorable, Mine, NextEpoch
<1>17. ASSUME NEW o \in Ops, OpCrash(o) PROVE Kinds'
  BY <1>17 DEF OpCrash, NoOp
<1>18. CASE Enable
  BY <1>18 DEF Enable
<1>19. CASE Return
  BY <1>19 DEF Return, NextEpoch
<1>20. CASE Tick
  BY <1>20 DEF Tick
<1>21. CASE UNCHANGED vars
  BY <1>21 DEF vars
<1> QED
  BY <1>1, <1>2, <1>3, <1>4, <1>5, <1>6, <1>7, <1>8, <1>9, <1>10, <1>11, <1>12,
     <1>13, <1>14, <1>15, <1>16, <1>17, <1>18, <1>19, <1>20, <1>21
     DEF Next

\* The account's decision.
LEMMA RestoresKept ==
  ASSUME TypeOK, Dated, Kinds, ConsentKept, Restores, [Next]_vars
  PROVE  (ConsentKept /\ Restores)'
<1> USE PrivacyAssumption, Typed DEF Dated, ConsentKept, Restores, ghosts, Epochs,
        Gates, Chat, Command, Mine
<1>1. ASSUME NEW h \in Holders, Snapshot(h) PROVE (ConsentKept /\ Restores)'
  BY <1>1 DEF Snapshot
<1>2. ASSUME NEW h \in Holders, Acquire(h) PROVE (ConsentKept /\ Restores)'
  BY <1>2 DEF Acquire
<1>3. ASSUME NEW h \in Holders, Renew(h) PROVE (ConsentKept /\ Restores)'
  BY <1>3 DEF Renew
<1>4. ASSUME NEW h \in Holders, Write(h) PROVE (ConsentKept /\ Restores)'
  BY <1>4 DEF Write
<1>5. ASSUME NEW h \in Holders, Leave(h) PROVE (ConsentKept /\ Restores)'
  BY <1>5 DEF Leave
<1>6. ASSUME NEW h \in Holders, Release(h) PROVE (ConsentKept /\ Restores)'
  BY <1>6 DEF Release, NoUse, NoRow
<1>7. ASSUME NEW h \in Holders, OwnerCrash(h) PROVE (ConsentKept /\ Restores)'
  BY <1>7 DEF OwnerCrash, NoUse
<1>8. ASSUME NEW o \in Ops, NEW k \in Gates, Barrier(o, k) PROVE (ConsentKept /\ Restores)'
  BY <1>8 DEF Barrier, NextEpoch
<1>9. ASSUME NEW o \in Ops, Disable(o) PROVE (ConsentKept /\ Restores)'
  BY <1>9 DEF Disable, NextEpoch
<1>10. ASSUME NEW o \in Ops, Poll(o) PROVE (ConsentKept /\ Restores)'
  BY <1>10 DEF Poll
<1>11. ASSUME NEW o \in Ops, Sweep(o) PROVE (ConsentKept /\ Restores)'
  BY <1>11 DEF Sweep
<1>12. ASSUME NEW o \in Ops, CommitErase(o) PROVE (ConsentKept /\ Restores)'
  BY <1>12 DEF CommitErase, Over, NoOp
<1>13. ASSUME NEW o \in Ops, CommitForget(o) PROVE (ConsentKept /\ Restores)'
  BY <1>13 DEF CommitForget, Over, NoOp, NextEpoch
<1>14. ASSUME NEW o \in Ops, CommitDisable(o) PROVE (ConsentKept /\ Restores)'
  BY <1>14 DEF CommitDisable, NoOp
<1>15. ASSUME NEW o \in Ops, Fail(o) PROVE (ConsentKept /\ Restores)'
  BY <1>15 DEF Fail, NoOp
<1>16. ASSUME NEW o \in Ops, Restore(o) PROVE (ConsentKept /\ Restores)'
  <2>1. CASE Restorable(o)
    <3>1. ~chat'.blocked /\ chat'.ltm = op[o].prev
      BY <1>16, <2>1 DEF Restore
    <3>2. op[o].kind \in Gates
      BY <1>16 DEF Restore, Kinds
    <3> QED BY <1>16, <2>1, <3>1, <3>2 DEF Restore, Restorable
  <2>2. CASE ~Restorable(o)
    BY <1>16, <2>2 DEF Restore, NoOp
  <2> QED BY <2>1, <2>2
<1>17. ASSUME NEW o \in Ops, OpCrash(o) PROVE (ConsentKept /\ Restores)'
  BY <1>17 DEF OpCrash, NoOp
<1>18. CASE Enable
  BY <1>18 DEF Enable
<1>19. CASE Return
  BY <1>19 DEF Return, NextEpoch
<1>20. CASE Tick
  BY <1>20 DEF Tick
<1>21. CASE UNCHANGED vars
  BY <1>21 DEF vars
<1> QED
  BY <1>1, <1>2, <1>3, <1>4, <1>5, <1>6, <1>7, <1>8, <1>9, <1>10, <1>11, <1>12,
     <1>13, <1>14, <1>15, <1>16, <1>17, <1>18, <1>19, <1>20, <1>21
     DEF Next

\* A late result of an older generation is not stored.
LEMMA ForgottenKept ==
  ASSUME TypeOK, Dated, ForgottenStaysForgotten, [Next]_vars
  PROVE  ForgottenStaysForgotten'
<1> USE Numbers DEF Dated, ForgottenStaysForgotten, ghosts
<1>1. ASSUME NEW h \in Holders, Snapshot(h) PROVE ForgottenStaysForgotten'
  BY <1>1 DEF Snapshot
<1>2. ASSUME NEW h \in Holders, Acquire(h) PROVE ForgottenStaysForgotten'
  BY <1>2 DEF Acquire
<1>3. ASSUME NEW h \in Holders, Renew(h) PROVE ForgottenStaysForgotten'
  BY <1>3 DEF Renew
<1>4. ASSUME NEW h \in Holders, Write(h) PROVE ForgottenStaysForgotten'
  <2>1. chat.here /\ use[h].epoch = seq
    BY <1>4 DEF Write, Current
  <2>2. mem' \in {mem, seq} /\ (mem = 0 => mem' = seq)
    BY <1>4, <2>1 DEF Write, Stored
  <2> QED BY <1>4, <2>1, <2>2 DEF Write
<1>5. ASSUME NEW h \in Holders, Leave(h) PROVE ForgottenStaysForgotten'
  BY <1>5 DEF Leave
<1>6. ASSUME NEW h \in Holders, Release(h) PROVE ForgottenStaysForgotten'
  BY <1>6 DEF Release
<1>7. ASSUME NEW h \in Holders, OwnerCrash(h) PROVE ForgottenStaysForgotten'
  BY <1>7 DEF OwnerCrash
<1>8. ASSUME NEW o \in Ops, NEW k \in Gates, Barrier(o, k) PROVE ForgottenStaysForgotten'
  BY <1>8 DEF Barrier
<1>9. ASSUME NEW o \in Ops, Disable(o) PROVE ForgottenStaysForgotten'
  BY <1>9 DEF Disable
<1>10. ASSUME NEW o \in Ops, Poll(o) PROVE ForgottenStaysForgotten'
  BY <1>10 DEF Poll
<1>11. ASSUME NEW o \in Ops, Sweep(o) PROVE ForgottenStaysForgotten'
  BY <1>11 DEF Sweep
<1>12. ASSUME NEW o \in Ops, CommitErase(o) PROVE ForgottenStaysForgotten'
  BY <1>12 DEF CommitErase
<1>13. ASSUME NEW o \in Ops, CommitForget(o) PROVE ForgottenStaysForgotten'
  BY <1>13 DEF CommitForget
<1>14. ASSUME NEW o \in Ops, CommitDisable(o) PROVE ForgottenStaysForgotten'
  BY <1>14 DEF CommitDisable
<1>15. ASSUME NEW o \in Ops, Fail(o) PROVE ForgottenStaysForgotten'
  BY <1>15 DEF Fail
<1>16. ASSUME NEW o \in Ops, Restore(o) PROVE ForgottenStaysForgotten'
  BY <1>16 DEF Restore
<1>17. ASSUME NEW o \in Ops, OpCrash(o) PROVE ForgottenStaysForgotten'
  BY <1>17 DEF OpCrash
<1>18. CASE Enable
  BY <1>18 DEF Enable
<1>19. CASE Return
  BY <1>19 DEF Return
<1>20. CASE Tick
  BY <1>20 DEF Tick
<1>21. CASE UNCHANGED vars
  BY <1>21 DEF vars
<1> QED
  BY <1>1, <1>2, <1>3, <1>4, <1>5, <1>6, <1>7, <1>8, <1>9, <1>10, <1>11, <1>12,
     <1>13, <1>14, <1>15, <1>16, <1>17, <1>18, <1>19, <1>20, <1>21
     DEF Next

\* The gate has its command.
LEMMA GateKept == ASSUME TypeOK, Dated, Kinds, GateHasOwner, [Next]_vars PROVE GateHasOwner'
<1> USE Typed DEF GateHasOwner, ghosts, Chat, Command, Gates
<1>1. ASSUME NEW h \in Holders, Snapshot(h) PROVE GateHasOwner'
  BY <1>1 DEF Snapshot
<1>2. ASSUME NEW h \in Holders, Acquire(h) PROVE GateHasOwner'
  BY <1>2 DEF Acquire
<1>3. ASSUME NEW h \in Holders, Renew(h) PROVE GateHasOwner'
  BY <1>3 DEF Renew
<1>4. ASSUME NEW h \in Holders, Write(h) PROVE GateHasOwner'
  BY <1>4 DEF Write
<1>5. ASSUME NEW h \in Holders, Leave(h) PROVE GateHasOwner'
  BY <1>5 DEF Leave
<1>6. ASSUME NEW h \in Holders, Release(h) PROVE GateHasOwner'
  BY <1>6 DEF Release
<1>7. ASSUME NEW h \in Holders, OwnerCrash(h) PROVE GateHasOwner'
  BY <1>7 DEF OwnerCrash
<1>8. ASSUME NEW o \in Ops, NEW k \in Gates, Barrier(o, k) PROVE GateHasOwner'
  BY <1>8 DEF Barrier, NextEpoch
<1>9. ASSUME NEW o \in Ops, Disable(o) PROVE GateHasOwner'
  BY <1>9 DEF Disable, NextEpoch
<1>10. ASSUME NEW o \in Ops, Poll(o) PROVE GateHasOwner'
  BY <1>10 DEF Poll
<1>11. ASSUME NEW o \in Ops, Sweep(o) PROVE GateHasOwner'
  BY <1>11 DEF Sweep
<1>12. ASSUME NEW o \in Ops, CommitErase(o) PROVE GateHasOwner'
  BY <1>12 DEF CommitErase, Over, NoOp, Mine
<1>13. ASSUME NEW o \in Ops, CommitForget(o) PROVE GateHasOwner'
  BY <1>13 DEF CommitForget, Over, NoOp, Mine, NextEpoch
<1>14. ASSUME NEW o \in Ops, CommitDisable(o) PROVE GateHasOwner'
  BY <1>14 DEF CommitDisable, NoOp
<1>15. ASSUME NEW o \in Ops, Fail(o) PROVE GateHasOwner'
  BY <1>15 DEF Fail, NoOp
<1>16. ASSUME NEW o \in Ops, Restore(o) PROVE GateHasOwner'
  BY <1>16 DEF Restore, NoOp, Restorable, Mine, NextEpoch
<1>17. ASSUME NEW o \in Ops, OpCrash(o) PROVE GateHasOwner'
  BY <1>17 DEF OpCrash, NoOp
<1>18. CASE Enable
  BY <1>18 DEF Enable
<1>19. CASE Return
  BY <1>19 DEF Return, NextEpoch
<1>20. CASE Tick
  BY <1>20 DEF Tick
<1>21. CASE UNCHANGED vars
  BY <1>21 DEF vars
<1> QED
  BY <1>1, <1>2, <1>3, <1>4, <1>5, <1>6, <1>7, <1>8, <1>9, <1>10, <1>11, <1>12,
     <1>13, <1>14, <1>15, <1>16, <1>17, <1>18, <1>19, <1>20, <1>21
     DEF Next

\* A use has its row.
LEMMA BackedKept == ASSUME TypeOK, Dated, Drained, Backed, [Next]_vars PROVE Backed'
<1> USE PrivacyAssumption, Typed DEF Backed, ghosts, Row, Use
<1>1. ASSUME NEW h \in Holders, Snapshot(h) PROVE Backed'
  BY <1>1 DEF Snapshot, Current, NoUse
<1>2. ASSUME NEW h \in Holders, Acquire(h) PROVE Backed'
  BY <1>2 DEF Acquire, Current, NoUse
<1>3. ASSUME NEW h \in Holders, Renew(h) PROVE Backed'
  <2>1. CASE use' = [use EXCEPT ![h].pc = "cleanup"] /\ UNCHANGED row
    BY <2>1
  <2>2. CASE /\ Renewable(h)
             /\ row' = [row EXCEPT ![h].left = Extended(h)]
             /\ use' = [use EXCEPT ![h].since = 0]
    <3>2. /\ Extended(h) \in 0..TTL /\ Extended(h) > 0
          /\ Extended(h) >= TTL \/ Extended(h) + use[h].age >= MaxLife
      BY <2>2 DEF Renewable, Extended
    <3>3. use[h].pc = "using" /\ use[h].age < MaxLife
      BY <1>3, <2>2 DEF Renew, Renewable
    <3> QED BY <2>2, <3>2, <3>3
  <2> QED BY <1>3, <2>1, <2>2 DEF Renew
<1>4. ASSUME NEW h \in Holders, Write(h) PROVE Backed'
  BY <1>4 DEF Write, Stored, Current
<1>5. ASSUME NEW h \in Holders, Leave(h) PROVE Backed'
  BY <1>5 DEF Leave
<1>6. ASSUME NEW h \in Holders, Release(h) PROVE Backed'
  BY <1>6 DEF Release, NoUse, NoRow
<1>7. ASSUME NEW h \in Holders, OwnerCrash(h) PROVE Backed'
  BY <1>7 DEF OwnerCrash, NoUse
<1>8. ASSUME NEW o \in Ops, NEW k \in Gates, Barrier(o, k) PROVE Backed'
  BY <1>8 DEF Barrier
<1>9. ASSUME NEW o \in Ops, Disable(o) PROVE Backed'
  BY <1>9 DEF Disable
<1>10. ASSUME NEW o \in Ops, Poll(o) PROVE Backed'
  BY <1>10 DEF Poll
<1>11. ASSUME NEW o \in Ops, Sweep(o) PROVE Backed'
  <2>1. \A g \in Holders : row[g].left > 0 => row'[g] = row[g]
    BY <1>11 DEF Sweep, Drained
  <2> QED BY <1>11, <2>1 DEF Sweep
<1>12. ASSUME NEW o \in Ops, CommitErase(o) PROVE Backed'
  BY <1>12 DEF CommitErase
<1>13. ASSUME NEW o \in Ops, CommitForget(o) PROVE Backed'
  BY <1>13 DEF CommitForget
<1>14. ASSUME NEW o \in Ops, CommitDisable(o) PROVE Backed'
  BY <1>14 DEF CommitDisable
<1>15. ASSUME NEW o \in Ops, Fail(o) PROVE Backed'
  BY <1>15 DEF Fail
<1>16. ASSUME NEW o \in Ops, Restore(o) PROVE Backed'
  BY <1>16 DEF Restore
<1>17. ASSUME NEW o \in Ops, OpCrash(o) PROVE Backed'
  BY <1>17 DEF OpCrash
<1>18. CASE Enable
  BY <1>18 DEF Enable
<1>19. CASE Return
  BY <1>19 DEF Return
<1>20. CASE Tick
  <2> SUFFICES ASSUME NEW h \in Holders, use'[h].pc = "using", use'[h].age < MaxLife
               PROVE  /\ row'[h].live /\ row'[h].epoch = use'[h].epoch /\ row'[h].ltm = use'[h].ltm
                      /\ row'[h].left > 0
                      /\ \/ row'[h].left + use'[h].since >= TTL
                         \/ row'[h].left + use'[h].age >= MaxLife
    OBVIOUS
  <2>1. use[h].pc = "using" /\ use[h].age < MaxLife
    <3>1. use[h].pc # "using" => use'[h] = use[h]
      BY <1>20 DEF Tick
    <3>2. use[h].pc = "using" =>
            use'[h].age = IF use[h].age < MaxLife THEN use[h].age + 1 ELSE MaxLife
      BY <1>20 DEF Tick
    <3> QED BY <3>1, <3>2
  <2>2. /\ use[h].since < Beat + Lag /\ use'[h].since = use[h].since + 1
        /\ use'[h].age = use[h].age + 1
        /\ use'[h].epoch = use[h].epoch /\ use'[h].ltm = use[h].ltm
    BY <1>20, <2>1 DEF Tick
  <2>3. /\ row[h].live /\ row[h].epoch = use[h].epoch /\ row[h].ltm = use[h].ltm
        /\ row[h].left > 0
        /\ row[h].left + use[h].since >= TTL \/ row[h].left + use[h].age >= MaxLife
    BY <2>1
  <2>4. /\ row'[h].live = row[h].live /\ row'[h].epoch = row[h].epoch /\ row'[h].ltm = row[h].ltm
        /\ row'[h].left = row[h].left - 1
    BY <1>20, <2>3 DEF Tick
  <2> QED BY <2>2, <2>3, <2>4
<1>21. CASE UNCHANGED vars
  BY <1>21 DEF vars
<1> QED
  BY <1>1, <1>2, <1>3, <1>4, <1>5, <1>6, <1>7, <1>8, <1>9, <1>10, <1>11, <1>12,
     <1>13, <1>14, <1>15, <1>16, <1>17, <1>18, <1>19, <1>20, <1>21
     DEF Next

\* Nothing old comes back.
LEMMA DrainedKept == ASSUME TypeOK, Dated, Drained, [Next]_vars PROVE Drained'
<1> USE Numbers, Typed DEF Drained, Old, LtmOnly, Dated, ghosts, Row, Command
<1>1. ASSUME NEW h \in Holders, Snapshot(h) PROVE Drained'
  BY <1>1 DEF Snapshot, Current, NoUse
<1>2. ASSUME NEW h \in Holders, Acquire(h) PROVE Drained'
  BY <1>2 DEF Acquire, Current, NoUse
<1>3. ASSUME NEW h \in Holders, Renew(h) PROVE Drained'
  <2>1. \A g \in Holders : row'[g] # row[g] =>
          row[g].epoch = seq /\ row'[g].epoch = row[g].epoch
    BY <1>3 DEF Renew, Renewable, Current
  <2>2. UNCHANGED <<op, seq>>
    BY <1>3 DEF Renew
  <2> QED BY <2>1, <2>2
<1>4. ASSUME NEW h \in Holders, Write(h) PROVE Drained'
  BY <1>4 DEF Write, Stored, Current
<1>5. ASSUME NEW h \in Holders, Leave(h) PROVE Drained'
  BY <1>5 DEF Leave
<1>6. ASSUME NEW h \in Holders, Release(h) PROVE Drained'
  BY <1>6 DEF Release, NoUse, NoRow
<1>7. ASSUME NEW h \in Holders, OwnerCrash(h) PROVE Drained'
  BY <1>7 DEF OwnerCrash, NoUse
<1>8. ASSUME NEW o \in Ops, NEW k \in Gates, Barrier(o, k) PROVE Drained'
  BY <1>8 DEF Barrier, NextEpoch
<1>9. ASSUME NEW o \in Ops, Disable(o) PROVE Drained'
  BY <1>9 DEF Disable, NextEpoch
<1>10. ASSUME NEW o \in Ops, Poll(o) PROVE Drained'
  BY <1>10 DEF Poll, NoRow
<1>11. ASSUME NEW o \in Ops, Sweep(o) PROVE Drained'
  BY <1>11 DEF Sweep, NoRow
<1>12. ASSUME NEW o \in Ops, CommitErase(o) PROVE Drained'
  <2>1. \A p \in Ops : op'[p].pc \in {"sweep", "act"} => op'[p] = op[p]
    BY <1>12 DEF CommitErase, Over, NoOp
  <2> QED BY <1>12, <2>1 DEF CommitErase
<1>13. ASSUME NEW o \in Ops, CommitForget(o) PROVE Drained'
  <2>1. \A p \in Ops : op'[p].pc \in {"sweep", "act"} => op'[p] = op[p]
    BY <1>13 DEF CommitForget, Over, NoOp
  <2> QED BY <1>13, <2>1 DEF CommitForget
<1>14. ASSUME NEW o \in Ops, CommitDisable(o) PROVE Drained'
  BY <1>14 DEF CommitDisable, NoOp
<1>15. ASSUME NEW o \in Ops, Fail(o) PROVE Drained'
  BY <1>15 DEF Fail, NoOp
<1>16. ASSUME NEW o \in Ops, Restore(o) PROVE Drained'
  BY <1>16 DEF Restore, NoOp, Restorable, Mine, NextEpoch
<1>17. ASSUME NEW o \in Ops, OpCrash(o) PROVE Drained'
  BY <1>17 DEF OpCrash, NoOp
<1>18. CASE Enable
  BY <1>18 DEF Enable
<1>19. CASE Return
  BY <1>19 DEF Return, NextEpoch
<1>20. CASE Tick
  <2>1. \A g \in Holders :
          row'[g] = [row[g] EXCEPT !.left = IF row[g].left > 0 THEN row[g].left - 1 ELSE 0]
    BY <1>20 DEF Tick
  <2>2. ASSUME NEW g \in Holders
        PROVE  /\ row'[g].live = row[g].live /\ row'[g].epoch = row[g].epoch
               /\ row'[g].ltm = row[g].ltm /\ (row'[g].left > 0 => row[g].left > 0)
    <3> DEFINE r == row[g]
    <3>1. r \in Row /\ row'[g] = [r EXCEPT !.left = IF r.left > 0 THEN r.left - 1 ELSE 0]
      BY <2>1
    <3> HIDE DEF r
    <3>2. /\ row'[g].live = r.live /\ row'[g].epoch = r.epoch /\ row'[g].ltm = r.ltm
          /\ row'[g].left = IF r.left > 0 THEN r.left - 1 ELSE 0
      BY <3>1
    <3>3. row'[g].left > 0 => r.left > 0
      BY <3>2
    <3> QED BY <3>2, <3>3 DEF r
  <2> QED BY <1>20, <2>2 DEF Tick
<1>21. CASE UNCHANGED vars
  BY <1>21 DEF vars
<1> QED
  BY <1>1, <1>2, <1>3, <1>4, <1>5, <1>6, <1>7, <1>8, <1>9, <1>10, <1>11, <1>12,
     <1>13, <1>14, <1>15, <1>16, <1>17, <1>18, <1>19, <1>20, <1>21
     DEF Next

\* A task under a command that has drained is at the end of its lifetime.
LEMMA ActDrained ==
  ASSUME TypeOK, Backed, Drained, NEW o \in Ops, NEW h \in Holders,
         op[o].pc = "act", use[h].pc = "using", use[h].epoch < op[o].bar,
         LtmOnly(o) => use[h].ltm
  PROVE  use[h].age = MaxLife
<1>1. SUFFICES ASSUME use[h].age < MaxLife PROVE FALSE
  BY <1>1, PrivacyAssumption, Typed DEF Use
<1>2. row[h].live /\ row[h].epoch = use[h].epoch /\ row[h].ltm = use[h].ltm /\ row[h].left > 0
  BY <1>1 DEF Backed
<1> QED BY <1>2 DEF Drained, Old

\* An acknowledged revocation has drained.
LEMMA CompleteKept ==
  ASSUME TypeOK, Dated, Backed, Drained, DrainComplete, [Next]_vars
  PROVE  DrainComplete'
<1> USE Numbers, Typed DEF DrainComplete, Outlived, ghosts
<1>1. ASSUME NEW h \in Holders, Snapshot(h) PROVE DrainComplete'
  BY <1>1 DEF Snapshot, Current, NoUse
<1>2. ASSUME NEW h \in Holders, Acquire(h) PROVE DrainComplete'
  <2> SUFFICES ASSUME NEW g \in Holders, Outlived(g)' PROVE use'[g].age = MaxLife
    OBVIOUS
  <2>1. revoked' = revoked
    BY <1>2 DEF Acquire
  <2>2. g # h => use'[g] = use[g]
    BY <1>2 DEF Acquire
  <2>3. use'[h].pc = "using" => use'[h].epoch = seq
    BY <1>2 DEF Acquire, Current, NoUse, Dated, Use
  <2>4. g # h
    BY <2>1, <2>3 DEF Dated
  <2> QED BY <2>1, <2>2, <2>4
<1>3. ASSUME NEW h \in Holders, Renew(h) PROVE DrainComplete'
  <2> SUFFICES ASSUME NEW g \in Holders, Outlived(g)' PROVE use'[g].age = MaxLife
    OBVIOUS
  <2>1. /\ use'[g].epoch = use[g].epoch /\ use'[g].ltm = use[g].ltm
        /\ use'[g].age = use[g].age
        /\ use'[g].pc = "using" => use[g].pc = "using"
    BY <1>3 DEF Renew, Use
  <2>2. revoked' = revoked
    BY <1>3 DEF Renew
  <2>3. use[g].pc = "using"
    BY <2>1
  <2> QED BY <2>1, <2>2, <2>3
<1>4. ASSUME NEW h \in Holders, Write(h) PROVE DrainComplete'
  BY <1>4 DEF Write, Stored, Current
<1>5. ASSUME NEW h \in Holders, Leave(h) PROVE DrainComplete'
  BY <1>5 DEF Leave
<1>6. ASSUME NEW h \in Holders, Release(h) PROVE DrainComplete'
  BY <1>6 DEF Release, NoUse, NoRow
<1>7. ASSUME NEW h \in Holders, OwnerCrash(h) PROVE DrainComplete'
  BY <1>7 DEF OwnerCrash, NoUse
<1>8. ASSUME NEW o \in Ops, NEW k \in Gates, Barrier(o, k) PROVE DrainComplete'
  BY <1>8 DEF Barrier
<1>9. ASSUME NEW o \in Ops, Disable(o) PROVE DrainComplete'
  BY <1>9 DEF Disable
<1>10. ASSUME NEW o \in Ops, Poll(o) PROVE DrainComplete'
  BY <1>10 DEF Poll
<1>11. ASSUME NEW o \in Ops, Sweep(o) PROVE DrainComplete'
  BY <1>11 DEF Sweep
<1>12. ASSUME NEW o \in Ops, CommitErase(o) PROVE DrainComplete'
  <2> SUFFICES ASSUME NEW h \in Holders, Outlived(h)' PROVE use[h].age = MaxLife
    BY <1>12 DEF CommitErase
  <2>1. op[o].pc = "act" /\ UNCHANGED use
    BY <1>12 DEF CommitErase
  <2>2. ~LtmOnly(o) /\ revoked'.ltm = op[o].bar /\ revoked'.all = op[o].bar
    BY <1>12 DEF CommitErase, LtmOnly
  <2> QED BY <2>1, <2>2, ActDrained
<1>13. ASSUME NEW o \in Ops, CommitForget(o) PROVE DrainComplete'
  <2> SUFFICES ASSUME NEW h \in Holders, Outlived(h)' PROVE use[h].age = MaxLife
    BY <1>13 DEF CommitForget
  <2>1. op[o].pc = "act" /\ UNCHANGED use
    BY <1>13 DEF CommitForget
  <2>2. revoked'.ltm = op[o].bar /\ revoked'.all = revoked.all
    BY <1>13 DEF CommitForget, TypeOK
  <2> QED BY <2>1, <2>2, ActDrained
<1>14. ASSUME NEW o \in Ops, CommitDisable(o) PROVE DrainComplete'
  <2> SUFFICES ASSUME NEW h \in Holders, Outlived(h)' PROVE use[h].age = MaxLife
    BY <1>14 DEF CommitDisable
  <2>1. op[o].pc = "act" /\ UNCHANGED use
    BY <1>14 DEF CommitDisable
  <2>2. revoked'.ltm \in {revoked.ltm, op[o].bar} /\ revoked'.all = revoked.all
    BY <1>14 DEF CommitDisable, TypeOK
  <2> QED BY <2>1, <2>2, ActDrained
<1>15. ASSUME NEW o \in Ops, Fail(o) PROVE DrainComplete'
  BY <1>15 DEF Fail
<1>16. ASSUME NEW o \in Ops, Restore(o) PROVE DrainComplete'
  BY <1>16 DEF Restore
<1>17. ASSUME NEW o \in Ops, OpCrash(o) PROVE DrainComplete'
  BY <1>17 DEF OpCrash
<1>18. CASE Enable
  BY <1>18 DEF Enable
<1>19. CASE Return
  BY <1>19 DEF Return
<1>20. CASE Tick
  <2> SUFFICES ASSUME NEW g \in Holders, Outlived(g)' PROVE use'[g].age = MaxLife
    OBVIOUS
  <2>1. use[g].pc # "using" => use'[g] = use[g]
    BY <1>20 DEF Tick
  <2>2. use[g].pc = "using" =>
          /\ use'[g].epoch = use[g].epoch /\ use'[g].ltm = use[g].ltm
          /\ use'[g].age = IF use[g].age < MaxLife THEN use[g].age + 1 ELSE MaxLife
    BY <1>20 DEF Tick, Use
  <2>3. revoked' = revoked
    BY <1>20 DEF Tick
  <2>4. use[g].age = MaxLife
    BY <2>1, <2>2, <2>3
  <2>5. use[g].pc = "using"
    BY <2>1
  <2> QED BY <2>2, <2>4, <2>5, PrivacyAssumption
<1>21. CASE UNCHANGED vars
  BY <1>21 DEF vars
<1> QED
  BY <1>1, <1>2, <1>3, <1>4, <1>5, <1>6, <1>7, <1>8, <1>9, <1>10, <1>11, <1>12,
     <1>13, <1>14, <1>15, <1>16, <1>17, <1>18, <1>19, <1>20, <1>21
     DEF Next

-----------------------------------------------------------------------------
\* The inductive invariant.
PrivacyInv == /\ TypeOK /\ Dated /\ Kinds /\ Restores /\ Backed /\ Drained
              /\ ForgottenStaysForgotten /\ ConsentKept /\ GateHasOwner /\ DrainComplete

LEMMA InvInit == ASSUME Init PROVE PrivacyInv
<1> USE PrivacyAssumption DEF Init
<1>1. TypeOK
  <2>1. chat \in [here : BOOLEAN, epoch : Epochs, blocked : BOOLEAN, ltm : BOOLEAN]
    BY DEF Epochs
  <2>2. row \in [Holders -> Row] /\ use \in [Holders -> Use] /\ op \in [Ops -> Command]
    BY Blank
  <2>3. revoked \in [ltm : 0..MaxEpoch, all : 0..MaxEpoch]
    OBVIOUS
  <2> QED BY <2>1, <2>2, <2>3 DEF TypeOK, Row, Use, Command, Epochs
<1>2. Dated /\ Kinds
  BY DEF Dated, Kinds, NoOp
<1>3. Restores /\ ConsentKept /\ GateHasOwner
  BY DEF Restores, ConsentKept, GateHasOwner, NoOp, Gates
<1>4. Backed /\ Drained /\ DrainComplete
  BY DEF Backed, Drained, DrainComplete, Outlived, NoUse, NoOp
<1>5. ForgottenStaysForgotten
  BY DEF ForgottenStaysForgotten
<1> QED BY <1>1, <1>2, <1>3, <1>4, <1>5 DEF PrivacyInv

LEMMA InvKept == ASSUME PrivacyInv, [Next]_vars PROVE PrivacyInv'
<1>1. TypeOK'
  BY TypeKept DEF PrivacyInv
<1>2. Dated' /\ Kinds'
  BY DatedKept, KindsKept DEF PrivacyInv
<1>3. (ConsentKept /\ Restores)'
  BY RestoresKept DEF PrivacyInv
<1>4. GateHasOwner' /\ ForgottenStaysForgotten'
  BY GateKept, ForgottenKept DEF PrivacyInv
<1>5. Backed' /\ Drained'
  BY BackedKept, DrainedKept DEF PrivacyInv
<1>6. DrainComplete'
  BY CompleteKept DEF PrivacyInv
<1> QED BY <1>1, <1>2, <1>3, <1>4, <1>5, <1>6 DEF PrivacyInv

LEMMA InvAlways == Spec => []PrivacyInv
<1>1. Init => PrivacyInv
  BY InvInit
<1>2. PrivacyInv /\ [Next]_vars => PrivacyInv'
  BY InvKept
<1> QED BY <1>1, <1>2, PTL DEF Spec

\* The account's row, the leases and the commands (repos/memory_consent) are well
\* formed: no lease is longer than TTL, no renewal later than Beat + Lag.
THEOREM PrivacyTypeCorrect == Spec => []TypeOK
<1>1. PrivacyInv => TypeOK
  BY DEF PrivacyInv
<1> QED BY <1>1, InvAlways, PTL

\* When erasure, deletion or the switch (repos/users, repos/memory, repos/chats)
\* is acknowledged, no task younger than the lifetime of a lease still uses data
\* of an older generation.
THEOREM DrainCompleteAlways == Spec => []DrainComplete
<1>1. PrivacyInv => DrainComplete
  BY DEF PrivacyInv
<1> QED BY <1>1, InvAlways, PTL

\* No late result of _store_embedded_memory is stored after a deletion, not
\* even in the account of the same person who came back.
THEOREM ForgottenAlways == Spec => []ForgottenStaysForgotten
<1>1. PrivacyInv => ForgottenStaysForgotten
  BY DEF PrivacyInv
<1> QED BY <1>1, InvAlways, PTL

\* Barriers, their compensation (restore_private_data_barrier) and takeovers
\* never change the account's own decision on long-term memory.
THEOREM ConsentKeptAlways == Spec => []ConsentKept
<1>1. PrivacyInv => ConsentKept
  BY DEF PrivacyInv
<1> QED BY <1>1, InvAlways, PTL

\* A gate set by private_data_barrier is always some live command's to lift,
\* unless that command died.
THEOREM GateHasOwnerAlways == Spec => []GateHasOwner
<1>1. PrivacyInv => GateHasOwner
  BY DEF PrivacyInv
<1> QED BY <1>1, InvAlways, PTL

-----------------------------------------------------------------------------
\* No row enters the scope of a command that waits, and none in it is extended.
NoneAdded ==
  \A o \in Ops, h \in Holders :
     (op[o].pc = "drain" /\ op'[o].pc = "drain" /\ Old(o, h)') =>
        Old(o, h) /\ row'[h].left <= row[h].left

\* Step by step: a row that is written anew is of the present generation.
LEMMA NoneAddedStep == ASSUME TypeOK, Dated, [Next]_vars PROVE NoneAdded
<1> USE Numbers, Typed, PrivacyAssumption DEF NoneAdded, Old, LtmOnly, ghosts, Row, Command
<1>1. ASSUME NEW h \in Holders, Snapshot(h) PROVE NoneAdded
  BY <1>1 DEF Snapshot, Current, NoUse
<1>2. ASSUME NEW h \in Holders, Acquire(h) PROVE NoneAdded
  <2>1. op' = op /\ \A g \in Holders : g # h => row'[g] = row[g]
    BY <1>2 DEF Acquire
  <2>2. row'[h] = row[h] \/ row'[h].epoch = seq
    BY <1>2 DEF Acquire, Current, Dated
  <2>3. \A p \in Ops : op[p].bar <= seq
    BY DEF Dated
  <2> QED BY <2>1, <2>2, <2>3
<1>3. ASSUME NEW h \in Holders, Renew(h) PROVE NoneAdded
  <2>1. op' = op /\ \A g \in Holders : g # h => row'[g] = row[g]
    BY <1>3 DEF Renew
  <2>2. row'[h] = row[h] \/ row'[h].epoch = seq
    BY <1>3 DEF Renew, Renewable, Current, Dated
  <2>3. \A p \in Ops : op[p].bar <= seq
    BY DEF Dated
  <2> QED BY <2>1, <2>2, <2>3
<1>4. ASSUME NEW h \in Holders, Write(h) PROVE NoneAdded
  BY <1>4 DEF Write, Stored, Current
<1>5. ASSUME NEW h \in Holders, Leave(h) PROVE NoneAdded
  BY <1>5 DEF Leave
<1>6. ASSUME NEW h \in Holders, Release(h) PROVE NoneAdded
  BY <1>6 DEF Release, NoUse, NoRow
<1>7. ASSUME NEW h \in Holders, OwnerCrash(h) PROVE NoneAdded
  BY <1>7 DEF OwnerCrash, NoUse
<1>8. ASSUME NEW o \in Ops, NEW k \in Gates, Barrier(o, k) PROVE NoneAdded
  BY <1>8 DEF Barrier
<1>9. ASSUME NEW o \in Ops, Disable(o) PROVE NoneAdded
  BY <1>9 DEF Disable
<1>10. ASSUME NEW o \in Ops, Poll(o) PROVE NoneAdded
  BY <1>10 DEF Poll, NoRow
<1>11. ASSUME NEW o \in Ops, Sweep(o) PROVE NoneAdded
  BY <1>11 DEF Sweep, NoRow
<1>12. ASSUME NEW o \in Ops, CommitErase(o) PROVE NoneAdded
  <2>1. \A p \in Ops : op[p].pc = "drain" /\ op'[p].pc = "drain" => op'[p] = op[p]
    BY <1>12 DEF CommitErase, Over, NoOp
  <2>2. row' = row
    BY <1>12 DEF CommitErase
  <2> QED BY <2>1, <2>2
<1>13. ASSUME NEW o \in Ops, CommitForget(o) PROVE NoneAdded
  <2>1. \A p \in Ops : op[p].pc = "drain" /\ op'[p].pc = "drain" => op'[p] = op[p]
    BY <1>13 DEF CommitForget, Over, NoOp
  <2>2. row' = row
    BY <1>13 DEF CommitForget
  <2> QED BY <2>1, <2>2
<1>14. ASSUME NEW o \in Ops, CommitDisable(o) PROVE NoneAdded
  BY <1>14 DEF CommitDisable
<1>15. ASSUME NEW o \in Ops, Fail(o) PROVE NoneAdded
  <2>1. \A p \in Ops : op[p].pc = "drain" /\ op'[p].pc = "drain" => op'[p] = op[p]
    BY <1>15 DEF Fail, NoOp
  <2>2. row' = row
    BY <1>15 DEF Fail
  <2> QED BY <2>1, <2>2
<1>16. ASSUME NEW o \in Ops, Restore(o) PROVE NoneAdded
  BY <1>16 DEF Restore
<1>17. ASSUME NEW o \in Ops, OpCrash(o) PROVE NoneAdded
  <2>1. \A p \in Ops : op[p].pc = "drain" /\ op'[p].pc = "drain" => op'[p] = op[p]
    BY <1>17 DEF OpCrash, NoOp
  <2>2. row' = row
    BY <1>17 DEF OpCrash
  <2> QED BY <2>1, <2>2
<1>18. CASE Enable
  BY <1>18 DEF Enable
<1>19. CASE Return
  BY <1>19 DEF Return
<1>20. CASE Tick
  <2> SUFFICES ASSUME NEW o \in Ops, NEW h \in Holders, Old(o, h)'
               PROVE  Old(o, h) /\ row'[h].left <= row[h].left
    OBVIOUS
  <2> DEFINE r == row[h]
  <2>1. /\ op' = op /\ r \in Row
        /\ row'[h] = [r EXCEPT !.left = IF r.left > 0 THEN r.left - 1 ELSE 0]
    BY <1>20 DEF Tick
  <2> HIDE DEF r
  <2>2. /\ row'[h].live = r.live /\ row'[h].epoch = r.epoch /\ row'[h].ltm = r.ltm
        /\ row'[h].left = IF r.left > 0 THEN r.left - 1 ELSE 0
    BY <2>1
  <2>3. row'[h].left <= r.left
    BY <2>1, <2>2
  <2> QED BY <2>1, <2>2, <2>3 DEF r
<1>21. CASE UNCHANGED vars
  BY <1>21 DEF vars
<1> QED
  BY <1>1, <1>2, <1>3, <1>4, <1>5, <1>6, <1>7, <1>8, <1>9, <1>10, <1>11, <1>12,
     <1>13, <1>14, <1>15, <1>16, <1>17, <1>18, <1>19, <1>20, <1>21
     DEF Next

\* While wait_for_private_data_leases polls, the leases it waits for only become
\* fewer and shorter, so it waits TTL at most.
THEOREM DrainShrinksAlways == Spec => DrainShrinks
<1>1. PrivacyInv /\ [Next]_vars => [NoneAdded]_vars
  BY NoneAddedStep DEF PrivacyInv
<1>2. DrainShrinks <=> [][NoneAdded]_vars
  BY PTL DEF DrainShrinks, NoneAdded
<1> QED BY <1>1, <1>2, InvAlways, PTL DEF Spec
=============================================================================

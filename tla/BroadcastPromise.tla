-------------------------- MODULE BroadcastPromise --------------------------
(***************************************************************************)
(* What a scheduled broadcast promises one recipient, whatever batches,    *)
(* retries, crashes and recoveries it takes: a slot (one user under one    *)
(* privacy generation) is reached by at most one delivery, what the        *)
(* journal has said about it stands, and nothing reaches a generation      *)
(* that has been erased.                                                   *)
(***************************************************************************)
EXTENDS Naturals

CONSTANT Slots

VARIABLES got,  \* [Slots -> Nat]: deliveries whose message reached the slot
          said  \* [Slots -> "open", "sent", "unknown" or "forgotten"]

pvars == <<got, said>>

PromiseInit == /\ got = [s \in Slots |-> 0]
               /\ said = [s \in Slots |-> "open"]

\* A message reaches the recipient: once, before the journal has confirmed a
\* send (it may have given the delivery up as unknown) and never after erasure.
Reach(s) == /\ got[s] = 0 /\ got'[s] = 1
            /\ said[s] \in {"open", "unknown"} /\ said'[s] = said[s]

\* The journal confirms a delivery that took place, or gives up on it.
Declare(s) == /\ said[s] = "open"
              /\ \/ said'[s] = "sent" /\ got[s] = 1
                 \/ said'[s] = "unknown"
              /\ got'[s] = got[s]

\* The account is erased: its slots are closed for good.
Forget(s) == said'[s] = "forgotten" /\ got'[s] = got[s]

Idle(s) == got'[s] = got[s] /\ said'[s] = said[s]

\* One transaction may settle the slots of several recipients.
PromiseNext == \A s \in Slots : Reach(s) \/ Declare(s) \/ Forget(s) \/ Idle(s)

PromiseSpec == PromiseInit /\ [][PromiseNext]_pvars
=============================================================================

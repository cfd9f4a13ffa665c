---------------------------- MODULE QueuePromise ----------------------------
(***************************************************************************)
(* What the job queue promises, without records, indexes, counters, leases *)
(* or clocks.  A job waits, is held by one owner under a token of its own, *)
(* is over, or is unknown.  By itself a job only ever comes closer to its  *)
(* end: all else is an admission, a claim, or an owner that hands it back. *)
(* One command may do this to several jobs at once, because it first does  *)
(* what time has made due.                                                 *)
(***************************************************************************)
EXTENDS Naturals, FiniteSets

CONSTANTS Ids, Tasks, Lane, Workers, MaxJobs, Keys, Image, Effectful, NoTok

VARIABLES task,   \* [Ids -> Tasks]: what a job runs
          stage,  \* [Ids -> "unknown", "over", "waiting" or "held"]
          owner,  \* [Ids -> token or NoTok]
          issued  \* the last token handed out

queueVars == <<task, stage, owner, issued>>

PromiseInit == /\ task \in [Ids -> Tasks]
               /\ stage = [i \in Ids |-> "unknown"]
               /\ owner = [i \in Ids |-> NoTok]
               /\ issued = 0

\* The stages a job may be left in: never one further from its end.
Nearer == [unknown |-> {"unknown"}, over |-> {"over", "unknown"},
           waiting |-> {"waiting", "over", "unknown"},
           held    |-> {"held", "waiting", "over", "unknown"}]

\* Nobody admits, claims or hands back the job.  It keeps its owner or loses it,
\* and a job that acts on the world and loses its owner does not wait again.
Yields(i) == /\ task'[i] = task[i]
             /\ stage'[i] \in Nearer[stage[i]]
             /\ stage'[i] = "waiting" => stage[i] = "waiting" \/ task[i] \notin Effectful
             /\ owner'[i] = IF stage'[i] = "held" THEN owner[i] ELSE NoTok

OthersYield(j) == \A i \in Ids \ {j} : Yields(i)

Pass == (\A i \in Ids : Yields(i)) /\ issued' = issued

\* The jobs of a lane that are left in one of the stages S.
LeftIn(l, S) == {i \in Ids : Lane[task'[i]] = l /\ stage'[i] \in S}
Unfinished == {"waiting", "held"}

\* A job is admitted within the lane's capacity, and none that is unfinished
\* shares a conflict key with it.
Admit(j) ==
  /\ OthersYield(j)
  /\ stage'[j] = "waiting" /\ owner'[j] = NoTok /\ task'[j] \in Tasks
  /\ \A i \in Ids \ {j} : stage'[i] \in Unfinished => Keys[task'[i]] \cap Keys[task'[j]] = {}
  /\ Cardinality(LeftIn(Lane[task'[j]], Unfinished)) <= MaxJobs[Lane[task'[j]]]
  /\ issued' = issued

\* A job goes to a worker of its lane under a token nobody had before; two jobs
\* that draw images are never out at once.
Claim(j) ==
  /\ OthersYield(j)
  /\ stage[j] = "waiting" \/ (stage[j] = "held" /\ task[j] \notin Effectful)
  /\ task'[j] = task[j] /\ stage'[j] = "held"
  /\ owner'[j] = issued + 1 /\ issued' = issued + 1
  /\ Cardinality(LeftIn(Lane[task[j]], {"held"})) <= Workers[Lane[task[j]]]
  /\ task[j] \in Image =>
       \A i \in Ids \ {j} : stage'[i] = "held" => task'[i] \notin Image

\* The owner reports a failure after which the job may be tried again.
HandBack(j) ==
  /\ OthersYield(j)
  /\ stage[j] = "held" /\ stage'[j] = "waiting"
  /\ task'[j] = task[j] /\ owner'[j] = NoTok
  /\ issued' = issued

PromiseNext == Pass \/ \E j \in Ids : Admit(j) \/ Claim(j) \/ HandBack(j)

PromiseSpec == PromiseInit /\ [][PromiseNext]_queueVars
=============================================================================

--------------------------- MODULE MCQueueRuntime ---------------------------
(***************************************************************************)
(* Small instances of QueueRuntime: two workers of one lane.               *)
(***************************************************************************)
EXTENDS QueueRuntime, TLC

mcKidOf == [o \in Ops |-> IF o = "o1" THEN "k1" ELSE "k2"]
mcKidUser == [k \in Kids |-> 1]
mcLane == [j \in Jobs |-> "deferred"]
mcWorkers == [l \in Lanes |-> 2]
mcMaxJobs == [l \in Lanes |-> 2]
mcMaxAge == [l \in Lanes |-> 2]
mcLongAge == [l \in Lanes |-> 3]
mcSize == [j \in Jobs |-> 1]
mcPriority == [j \in Jobs |-> 2]
mcNoKeys == [j \in Jobs |-> {}]
mcSystem == [j \in Jobs |-> 0]
mcUser == [j \in Jobs |-> 1]

\* The workers of a lane are interchangeable.
mcSymmetry == Permutations(Runners)
mcServes == [w \in Runners |-> "deferred"]
=============================================================================

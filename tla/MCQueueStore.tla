---------------------------- MODULE MCQueueStore ----------------------------
(***************************************************************************)
(* Small instances of QueueStore.  Time is counted in units of the shortest*)
(* lease; the order of the code's constants is kept: lease and retry       *)
(* retention below the queue deadline, the metadata retention above the    *)
(* longest life of an active job.                                          *)
(***************************************************************************)
EXTENDS QueueStore

mcKidOf == [o \in Ops |-> IF o = "o1" THEN "k1" ELSE "k2"]
mcKidUser == [k \in Kids |-> 1]
mcLane == [j \in Jobs |-> "daily"]
mcWorkers == [l \in Lanes |-> 2]
mcMaxJobs == [l \in Lanes |-> 2]
mcMaxAge == [l \in Lanes |-> 2]
mcLongAge == [l \in Lanes |-> 3]
mcSize == [j \in Jobs |-> 1]
mcPriority == [j \in Jobs |-> IF j = "j1" THEN 2 ELSE 3]
mcNoKeys == [j \in Jobs |-> {}]
mcSharedKey == [j \in Jobs |-> ConflictKeys]
mcOneUser == [j \in Jobs |-> 1]
mcUsers == [j \in Jobs |-> IF j = "j1" THEN 1 ELSE 0]
=============================================================================

---------------------------- MODULE MCThreadPool ----------------------------
(* The tasks of the runs of ThreadPool.                                     *)
EXTENDS ThreadPool, TLC

CONSTANTS user1, user2, fire, kid1, kid2, leaf, more, sync, job

\* fire is a NoWaitTask that enqueues more and awaits kid1 and kid2, kid1 awaits
\* leaf; sync was started with start_sync and awaits job.
PoolTasks == {fire, kid1, kid2, leaf, more, sync, job}
PoolExternal == {fire, sync}
PoolBy == fire :> user1 @@ sync :> user2
PoolChildren == [t \in PoolTasks |-> CASE t = fire -> {kid1, kid2}
                                       [] t = kid1 -> {leaf}
                                       [] t = sync -> {job}
                                       [] OTHER -> {}]
PoolInjected == [t \in PoolTasks |-> IF t = fire THEN {more} ELSE {}]
=============================================================================

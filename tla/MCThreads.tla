----------------------------- MODULE MCThreads -----------------------------
(***************************************************************************)
(* Threads that wait for one another, model-checked in one go: those that  *)
(* call a queue (LockingQueue), and those of a pipeline of host nodes that *)
(* is started, stopped and dropped (PipelineLifecycle, whose queues are    *)
(* reduced to their lengths).  The two share no state, so an execution is  *)
(* one of either, chosen at the start.                                     *)
(***************************************************************************)
EXTENDS LockingQueue, PipelineLifecycle

VARIABLE system

ThreadsInit ==
    /\ system \in {"queue", "pipeline"} /\ Init /\ LifecycleInit
    /\ system # "queue" => blocking /\ maxSize = Cap  \* a queue nobody calls has one state

ThreadsNext ==
    /\ UNCHANGED system
    /\ \/ system = "queue" /\ Next /\ UNCHANGED lifecycleVars
       \/ system = "pipeline" /\ LifecycleNext /\ UNCHANGED vars

\* Nothing of what is fair is enabled before a call was made, or the pipeline started.
ThreadsSpec ==
    /\ ThreadsInit /\ [][ThreadsNext]_<<system, vars, lifecycleVars>>
    /\ Fairness /\ LifecycleFairness
=============================================================================

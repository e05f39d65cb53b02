------------------------- MODULE PipelineLifecycle -------------------------
(***************************************************************************)
(* Starting, running, stopping and destroying a pipeline of host nodes:    *)
(* PipelineImpl::start, run, stop, wait and the destructor                 *)
(* (src/pipeline/Pipeline.cpp), ThreadedNode's thread                      *)
(* (src/pipeline/ThreadedNode.cpp) and Node::stopPipeline, which hands the *)
(* shutdown to a detached helper thread (src/pipeline/Node.cpp).           *)
(*                                                                         *)
(* The nodes form a chain: node n reads queue n and writes queue n + 1,    *)
(* node 1 is a source and queue NNodes + 1 is the host's output queue.     *)
(* Actor 0 is the user's thread, actor n in 1 .. NNodes the thread of node *)
(* n, and actor NNodes + n the helper that node n spawned.                 *)
(***************************************************************************)
EXTENDS Integers, FiniteSets

CONSTANTS NNodes,   \* number of host nodes
          Cap,      \* maxSize of every queue (all blocking)
          MaxTasks  \* bound: tasks waiting in the task queue

ASSUME LifecycleAssumption == NNodes \in Nat \ {0} /\ Cap \in Nat \ {0} /\ MaxTasks \in Nat

Nodes == 1 .. NNodes
Queues == 1 .. NNodes + 1
Actors == 0 .. 2 * NNodes
Output == NNodes + 1
User == 0
Helper(n) == NNodes + n
Nobody == -1

VARIABLES running,      \* PipelineImpl::running
          stateMtx,     \* the actor that holds stateMtx, or Nobody
          nodeRunning,  \* ThreadedNode::running
          len, closed,  \* the message queues
          tasks, tasksClosed, deviceClosed,
          refs,         \* actors that hold a shared_ptr to the PipelineImpl
          destroyed,    \* ~PipelineImpl has finished
          at, k, ret    \* per actor: place, loop index, what follows stop or wait

pvars == <<running, stateMtx, deviceClosed, refs, destroyed>>
qvars == <<len, closed, tasks, tasksClosed>>
lifecycleVars == <<running, stateMtx, nodeRunning, len, closed, tasks, tasksClosed,
                   deviceClosed, refs, destroyed, at, k, ret>>

LifecycleInit ==
    /\ running = FALSE /\ stateMtx = Nobody /\ deviceClosed = FALSE
    /\ nodeRunning = [n \in Nodes |-> FALSE]
    /\ len = [q \in Queues |-> 0]
    /\ closed = [q \in Queues |-> FALSE]
    /\ tasks = 0 /\ tasksClosed = FALSE
    /\ refs = {User} /\ destroyed = FALSE
    /\ at = [a \in Actors |-> IF a = User THEN "new" ELSE "unborn"]
    /\ k = [a \in Actors |-> 1]
    /\ ret = [a \in Actors |-> "user"]

Move(a, place) == at' = [at EXCEPT ![a] = place]
Jump(a, place, idx, r) == /\ Move(a, place)
                          /\ k' = [k EXCEPT ![a] = idx]
                          /\ ret' = [ret EXCEPT ![a] = r]

-----------------------------------------------------------------------------
(* PipelineImpl::start and run, in the user's thread. *)

\* Faulty variant: start does not take stateMtx.
startUnlocked(r) == /\ at[User] = "new"
                    /\ running' = TRUE
                    /\ Jump(User, "start.device", 1, r)
                    /\ UNCHANGED <<stateMtx, deviceClosed, refs, destroyed, nodeRunning, qvars>>

\* The pipeline is built, marked running, and a device pipeline started.
start(r) == /\ at[User] = "new"
            /\ stateMtx = Nobody /\ stateMtx' = User
            /\ running' = TRUE
            /\ Jump(User, "start.device", 1, r)
            /\ UNCHANGED <<deviceClosed, refs, destroyed, nodeRunning, qvars>>

\* DeviceBase::startPipeline succeeds, or throws out of start.
startDevice == /\ at[User] = "start.device"
               /\ \/ Move(User, "start.nodes") /\ UNCHANGED <<stateMtx, k, ret>>
                  \/ stateMtx' = Nobody /\ Jump(User, "user", 1, "user")
               /\ UNCHANGED <<running, deviceClosed, refs, destroyed, nodeRunning, qvars>>

\* ThreadedNode::start of node k: running, then the thread.
startNode == LET n == k[User]
             IN  /\ at[User] = "start.nodes"
                 /\ ~nodeRunning[n]
                 /\ nodeRunning' = [nodeRunning EXCEPT ![n] = TRUE]
                 /\ at' = [at EXCEPT ![n] = "loop",
                                     ![User] = IF n < NNodes THEN "start.nodes" ELSE ret[User]]
                 /\ k' = [k EXCEPT ![User] = IF n < NNodes THEN n + 1 ELSE 1]
                 /\ stateMtx' = IF n < NNodes THEN stateMtx ELSE Nobody
                 /\ UNCHANGED <<running, deviceClosed, refs, destroyed, qvars, ret>>

\* run: while(isRunning()) processTasks(true); wait();
runCheck == /\ at[User] = "run"
            /\ IF running THEN Move(User, "run.tasks") /\ UNCHANGED <<k, ret>>
                          ELSE Jump(User, "wait", 1, "user")
            /\ UNCHANGED <<pvars, nodeRunning, qvars>>

\* processTasks: waitAndPop, then whatever else is in the task queue.
processTasks == /\ at[User] \in {"run.tasks", "run.drain"}
                /\ \/ /\ tasks > 0 /\ (at[User] = "run.drain" \/ ~tasksClosed)
                      /\ tasks' = tasks - 1 /\ Move(User, "run.drain")
                   \/ /\ at[User] = "run.tasks" /\ tasksClosed
                      /\ Move(User, "run") /\ UNCHANGED tasks
                   \/ /\ at[User] = "run.drain" /\ tasks = 0
                      /\ Move(User, "run") /\ UNCHANGED tasks
                /\ UNCHANGED <<pvars, nodeRunning, len, closed, tasksClosed, k, ret>>

-----------------------------------------------------------------------------
(* A node's thread. *)

\* mainLoop: one more round while the node is marked running.
mainLoop(n) == /\ at[n] = "loop"
               /\ Move(n, IF ~nodeRunning[n] THEN "ended" ELSE IF n = 1 THEN "work" ELSE "get")
               /\ UNCHANGED <<pvars, nodeRunning, qvars, k, ret>>

\* A closed queue: QueueException ends the thread quietly.
QueueException(n) == /\ \/ at[n] = "get" /\ closed[n]
                        \/ at[n] = "send" /\ closed[n + 1]
                     /\ nodeRunning' = [nodeRunning EXCEPT ![n] = FALSE]
                     /\ Move(n, "ended")
                     /\ UNCHANGED <<pvars, qvars, k, ret>>

get(n) == /\ at[n] = "get" /\ ~closed[n] /\ len[n] > 0
          /\ len' = [len EXCEPT ![n] = @ - 1]
          /\ Move(n, "work")
          /\ UNCHANGED <<pvars, nodeRunning, closed, tasks, tasksClosed, k, ret>>

\* The node's own code: it may queue a task for the user's thread.
work(n) == /\ at[n] = "work"
           /\ Move(n, "send")
           /\ \/ UNCHANGED tasks
              \/ ~tasksClosed /\ tasks < MaxTasks /\ tasks' = tasks + 1
           /\ UNCHANGED <<pvars, nodeRunning, len, closed, tasksClosed, k, ret>>

send(n) == /\ at[n] = "send" /\ ~closed[n + 1] /\ len[n + 1] < Cap
           /\ len' = [len EXCEPT ![n + 1] = @ + 1]
           /\ Move(n, "loop")
           /\ UNCHANGED <<pvars, nodeRunning, closed, tasks, tasksClosed, k, ret>>

(***************************************************************************)
(* The node throws std::runtime_error: no longer running, stopPipeline     *)
(* gets a reference to the pipeline unless that is already being           *)
(* destroyed.                                                              *)
(***************************************************************************)
fail(n) == /\ at[n] = "work"
           /\ nodeRunning' = [nodeRunning EXCEPT ![n] = FALSE]
           /\ \/ refs # {} /\ refs' = refs \cup {n} /\ Move(n, "spawn")
              \/ refs = {} /\ UNCHANGED refs /\ Move(n, "ended")
           /\ UNCHANGED <<running, stateMtx, deviceClosed, destroyed, qvars, k, ret>>

\* The reference moves into the helper, which is detached and calls stop.
stopPipeline(n) == /\ at[n] = "spawn"
                   /\ refs' = (refs \ {n}) \cup {Helper(n)}
                   /\ at' = [at EXCEPT ![n] = "unwind", ![Helper(n)] = "stop"]
                   /\ ret' = [ret EXCEPT ![Helper(n)] = "release"]
                   /\ UNCHANGED <<running, stateMtx, deviceClosed, destroyed,
                                  nodeRunning, qvars, k>>

-----------------------------------------------------------------------------
(* PipelineImpl::stop and wait, in whichever thread calls them. *)

Quit(a) == Move(a, IF a \in Nodes THEN "ended" ELSE "gone")

(***************************************************************************)
(* An actor drops its reference, if it has one; whoever drops the last one *)
(* runs the destructor: stop, then wait.                                   *)
(***************************************************************************)
release(a) == /\ at[a] \in {"unwind", "release"}
              /\ refs' = refs \ {a}
              /\ IF refs = {a} THEN Jump(a, "stop", 1, "teardown")
                               ELSE Quit(a) /\ UNCHANGED <<k, ret>>
              /\ UNCHANGED <<running, stateMtx, deviceClosed, destroyed, nodeRunning, qvars>>

\* Faulty variant: the destructor does not wait for the nodes.
AfterStopNoWait(a) == IF ret[a] = "teardown" THEN /\ Quit(a) /\ destroyed' = TRUE /\ UNCHANGED k
                                             ELSE /\ Move(a, ret[a]) /\ UNCHANGED <<k, destroyed>>

\* Return from stop: in the destructor wait follows.
AfterStop(a) == /\ IF ret[a] = "teardown" THEN Move(a, "wait") /\ k' = [k EXCEPT ![a] = 1]
                                          ELSE Move(a, ret[a]) /\ UNCHANGED k
                /\ UNCHANGED destroyed

\* stop: take stateMtx; nothing to do unless the pipeline is running.
stop(a) == /\ at[a] = "stop"
           /\ stateMtx = Nobody
           /\ \/ /\ running /\ stateMtx' = a
                 /\ Move(a, "stop.node") /\ k' = [k EXCEPT ![a] = 1]
                 /\ UNCHANGED destroyed
              \/ /\ ~running
                 /\ AfterStop(a)
                 /\ UNCHANGED stateMtx
           /\ UNCHANGED <<running, deviceClosed, refs, nodeRunning, qvars, ret>>

\* ThreadedNode::stop of node k: running is cleared, then its inputs closed.
stopNode(a) == LET n == k[a]
               IN  \/ /\ at[a] = "stop.node"
                      /\ nodeRunning' = [nodeRunning EXCEPT ![n] = FALSE]
                      /\ Move(a, "stop.inputs")
                      /\ UNCHANGED <<pvars, qvars, k, ret>>
                   \/ /\ at[a] = "stop.inputs"
                      /\ closed' = [closed EXCEPT ![n] = TRUE]
                      /\ Move(a, IF n < NNodes THEN "stop.node" ELSE "stop.outputs")
                      /\ k' = [k EXCEPT ![a] = IF n < NNodes THEN n + 1 ELSE 1]
                      /\ UNCHANGED <<pvars, nodeRunning, len, tasks, tasksClosed, ret>>

stopOutputs(a) == /\ at[a] = "stop.outputs"
                  /\ closed' = [closed EXCEPT ![Output] = TRUE]
                  /\ Move(a, "stop.tasks")
                  /\ UNCHANGED <<pvars, nodeRunning, len, tasks, tasksClosed, k, ret>>

\* Faulty variant: the task queue is not destructed.
stopTasksOpen(a) == /\ at[a] = "stop.tasks"
                    /\ Move(a, "stop.device")
                    /\ UNCHANGED <<pvars, nodeRunning, qvars, k, ret>>

stopTasks(a) == /\ at[a] = "stop.tasks"
                /\ tasksClosed' = TRUE
                /\ Move(a, "stop.device")
                /\ UNCHANGED <<pvars, nodeRunning, len, closed, tasks, k, ret>>

\* The device is closed, running cleared, stateMtx released.
stopDevice(a) == \/ /\ at[a] = "stop.device"
                    /\ deviceClosed' = TRUE
                    /\ Move(a, "stop.done")
                    /\ UNCHANGED <<running, stateMtx, refs, destroyed, nodeRunning, qvars, k, ret>>
                 \/ /\ at[a] = "stop.done"
                    /\ running' = FALSE /\ stateMtx' = Nobody
                    /\ AfterStop(a)
                    /\ UNCHANGED <<deviceClosed, refs, nodeRunning, qvars, ret>>

\* wait joins node k: a node never started is not joinable.
wait(a) == LET n == k[a]
           IN  /\ at[a] = "wait"
               /\ at[n] \in {"unborn", "ended"}
               /\ \/ /\ n < NNodes /\ k' = [k EXCEPT ![a] = n + 1]
                     /\ UNCHANGED <<at, destroyed>>
                  \/ /\ n = NNodes
                     /\ \/ ret[a] = "teardown" /\ Quit(a) /\ destroyed' = TRUE
                        \/ ret[a] # "teardown" /\ Move(a, ret[a]) /\ UNCHANGED destroyed
                     /\ UNCHANGED k
               /\ UNCHANGED <<running, stateMtx, deviceClosed, refs, nodeRunning, qvars, ret>>

Shutdown(a) == \/ release(a) \/ stop(a) \/ stopNode(a) \/ stopOutputs(a)
               \/ stopTasks(a) \/ stopDevice(a) \/ wait(a)

-----------------------------------------------------------------------------
(* The user: calls stop or wait, closes or reads the output queue, or drops *)
(* the last handle on the pipeline.                                         *)

userCall == /\ at[User] = "user"
            /\ \/ Jump(User, "stop", 1, "user")
               \/ Jump(User, "wait", 1, "user")
               \/ Jump(User, "release", 1, "user")
            /\ UNCHANGED <<pvars, nodeRunning, qvars>>

userQueue == /\ ~closed[Output]
             /\ \/ /\ len[Output] > 0
                   /\ len' = [len EXCEPT ![Output] = @ - 1]
                   /\ UNCHANGED closed
                \/ /\ closed' = [closed EXCEPT ![Output] = TRUE]
                   /\ UNCHANGED len
             /\ UNCHANGED <<pvars, nodeRunning, tasks, tasksClosed, at, k, ret>>

NodeStep(n) == \/ mainLoop(n) \/ QueueException(n) \/ get(n) \/ work(n) \/ send(n)
               \/ fail(n) \/ stopPipeline(n)

UserStep == startDevice \/ startNode \/ runCheck \/ processTasks

LifecycleNext ==
    \/ \E r \in {"user", "run"} : start(r)
    \/ UserStep
    \/ \E n \in Nodes : NodeStep(n)
    \/ \E a \in Actors : Shutdown(a)
    \/ userCall \/ userQueue

(***************************************************************************)
(* Every thread that can take a step of the library's code eventually      *)
(* does.  The user is not obliged to call, read or close anything.         *)
(***************************************************************************)
LifecycleFairness ==
    /\ WF_lifecycleVars(UserStep)
    /\ \A n \in Nodes : WF_lifecycleVars(NodeStep(n))
    /\ \A a \in Actors : WF_lifecycleVars(Shutdown(a))

LifecycleSpec == LifecycleInit /\ [][LifecycleNext]_lifecycleVars

-----------------------------------------------------------------------------
(* Properties. *)

StopPlaces == {"stop", "stop.node", "stop.inputs", "stop.outputs", "stop.tasks",
               "stop.device", "stop.done"}
ActorPlaces ==
    StopPlaces \cup {"new", "unborn", "start.device", "start.nodes", "run", "run.tasks",
                    "run.drain", "user", "loop", "get", "work", "send", "spawn", "unwind",
                    "release", "wait", "ended", "gone"}

\* Type invariant of the pipeline, its nodes and the threads.
LifecycleTypeOK ==
    /\ running \in BOOLEAN /\ deviceClosed \in BOOLEAN /\ destroyed \in BOOLEAN
    /\ stateMtx \in Actors \cup {Nobody}
    /\ nodeRunning \in [Nodes -> BOOLEAN]
    /\ len \in [Queues -> 0 .. Cap]
    /\ closed \in [Queues -> BOOLEAN]
    /\ tasks \in 0 .. MaxTasks /\ tasksClosed \in BOOLEAN
    /\ refs \subseteq Actors
    /\ at \in [Actors -> ActorPlaces]
    /\ k \in [Actors -> Nodes]
    /\ ret \in [Actors -> {"user", "run", "release", "teardown"}]

(***************************************************************************)
(* A pipeline that was started and is not running any more is shut down    *)
(* completely: no node is marked running and every queue, the task queue   *)
(* and the device are closed, even if a node failed while start was still  *)
(* starting others (Pipeline.cpp:1284-1334).                               *)
(***************************************************************************)
StopIsComplete ==
    at[User] # "new" /\ ~running =>
        /\ \A n \in Nodes : ~nodeRunning[n]
        /\ \A q \in Queues : closed[q]
        /\ tasksClosed /\ deviceClosed

(***************************************************************************)
(* The pipeline is destroyed only when no node thread and no helper can    *)
(* touch it any more (Pipeline.cpp:1336-1341).                             *)
(***************************************************************************)
DestroyedAfterUse ==
    destroyed => /\ \A n \in Nodes : at[n] \in {"unborn", "ended"}
                 /\ \A a \in Actors : at[a] \notin StopPlaces \cup {"wait"}
                 /\ refs = {}

(***************************************************************************)
(* Stopping the pipeline ends every node's thread, wherever it was blocked *)
(* (ThreadedNode.cpp:68-80).                                               *)
(***************************************************************************)
StopEndsNodes == (at[User] # "new" /\ ~running)
                    ~> \A n \in Nodes : at[n] \in {"unborn", "ended"}

(***************************************************************************)
(* A node that fails while the user's thread is in run() makes run()       *)
(* return (ThreadedNode.cpp:50-60, Pipeline.cpp:1343-1349).                *)
(***************************************************************************)
RunReturns == (/\ at[User] \in {"run", "run.tasks", "run.drain"}
               /\ \E n \in Nodes : at[n] = "spawn")
                 ~> at[User] = "user"

\* Once nobody refers to the pipeline any more its destructor finishes.
TeardownFinishes == refs = {} ~> destroyed

\* Once begun, a shutdown comes to its end in every thread it concerns.
ShutdownEnds == StopEndsNodes /\ RunReturns /\ TeardownFinishes
=============================================================================

---------------------- MODULE PipelineLifecycleProofs ----------------------
(***************************************************************************)
(* The life cycle of a pipeline of any number of nodes, whichever of them  *)
(* fail and whoever stops it: a stop is complete, and the pipeline is      *)
(* destroyed only when no thread uses it any more.                         *)
(***************************************************************************)
EXTENDS PipelineLifecycle, TLAPS

Starting == at[User] \in {"start.device", "start.nodes"}
Returns == {"user", "run", "release"}

\* start is not called from the destructor.
Typed == LifecycleTypeOK /\ (Starting => ret[User] \in Returns)

----------------------------------------------------------------------------
(* Types.                                                                  *)

LEMMA ActorFacts ==
    /\ NNodes \in Nat \ {0} /\ Cap \in Nat \ {0} /\ MaxTasks \in Nat
    /\ Nodes \subseteq Actors /\ User \in Actors /\ User \notin Nodes /\ Nobody \notin Actors
    /\ \A n \in Nodes : Helper(n) \in Actors /\ Helper(n) \notin Nodes /\ Helper(n) # User
    /\ \A n \in Nodes : n + 1 \in Queues /\ n \in Queues /\ (n < NNodes => n + 1 \in Nodes)
    /\ 1 \in Nodes /\ Output \in Queues /\ \A q \in Queues : q # Output => q \in Nodes
BY LifecycleAssumption DEF Nodes, Actors, User, Nobody, Helper, Queues, Output

LEMMA InitTypeOK == LifecycleInit => LifecycleTypeOK
<1> SUFFICES ASSUME LifecycleInit PROVE LifecycleTypeOK
  OBVIOUS
<1>1. running \in BOOLEAN /\ deviceClosed \in BOOLEAN /\ destroyed \in BOOLEAN
      /\ tasksClosed \in BOOLEAN
  BY Zenon DEF LifecycleInit
<1> QED
  BY <1>1, ActorFacts DEF LifecycleInit, LifecycleTypeOK, ActorPlaces

\* The types after actors have gone to other places.
LEMMA GotoTyped ==
    ASSUME LifecycleTypeOK, NEW a \in Actors, NEW place \in ActorPlaces, Move(a, place)
    PROVE  /\ at' \in [Actors -> ActorPlaces] /\ at'[a] = place
           /\ \A b \in Actors : b # a => at'[b] = at[b]
BY DEF LifecycleTypeOK, Move

LEMMA StartTyped ==
    ASSUME Typed, (\E r \in {"user", "run"} : start(r)) \/ UserStep \/ userCall \/ userQueue
    PROVE  LifecycleTypeOK'
<1> USE ActorFacts DEF Typed
<1>1. CASE \E r \in {"user", "run"} : start(r)
  <2>1. PICK r \in {"user", "run"} : start(r)
    BY <1>1
  <2>2. running' \in BOOLEAN
    BY <2>1, Zenon DEF start
  <2> QED
    BY <2>1, <2>2 DEF start, Jump, Move, LifecycleTypeOK, ActorPlaces, qvars
<1>2. CASE startDevice
  BY <1>2 DEF startDevice, Jump, Move, LifecycleTypeOK, ActorPlaces, qvars
<1>3. CASE startNode
  <2> DEFINE n == k[User]
  <2>1. n \in Nodes /\ nodeRunning' = [nodeRunning EXCEPT ![n] = TRUE]
    BY <1>3 DEF startNode, LifecycleTypeOK
  <2>2. nodeRunning' \in [Nodes -> BOOLEAN]
    BY <2>1 DEF LifecycleTypeOK
  <2>3. /\ at' \in [Actors -> ActorPlaces] /\ k' \in [Actors -> Nodes]
        /\ stateMtx' \in Actors \cup {Nobody}
    <3>1. ret[User] \in ActorPlaces /\ k[User] \in Nodes
      BY <1>3 DEF startNode, Typed, LifecycleTypeOK, Starting, Returns, ActorPlaces, StopPlaces
    <3>2. at' \in [Actors -> ActorPlaces]
      BY <1>3, <2>1, <3>1 DEF startNode, LifecycleTypeOK, ActorPlaces
    <3>3. k' \in [Actors -> Nodes]
      BY <1>3, <3>1 DEF startNode, LifecycleTypeOK
    <3> QED
      BY <1>3, <3>2, <3>3 DEF startNode, LifecycleTypeOK
  <2> QED
    BY <1>3, <2>2, <2>3 DEF startNode, LifecycleTypeOK, qvars
<1>4. CASE runCheck
  BY <1>4 DEF runCheck, Jump, Move, LifecycleTypeOK, ActorPlaces, qvars, pvars
<1>5. CASE processTasks
  <2>1. tasks' \in 0 .. MaxTasks
    BY <1>5 DEF processTasks, LifecycleTypeOK
  <2>2. at' \in [Actors -> ActorPlaces]
    BY <1>5 DEF processTasks, Move, LifecycleTypeOK, ActorPlaces
  <2> QED
    BY <1>5, <2>1, <2>2 DEF processTasks, LifecycleTypeOK, pvars
<1>6. CASE userCall
  <2>1. at' \in [Actors -> ActorPlaces] /\ k' \in [Actors -> Nodes]
        /\ ret' \in [Actors -> {"user", "run", "release", "teardown"}]
    BY <1>6 DEF userCall, Jump, Move, LifecycleTypeOK, ActorPlaces, StopPlaces
  <2> QED
    BY <1>6, <2>1 DEF userCall, LifecycleTypeOK, qvars, pvars
<1>7. CASE userQueue
  <2>1. len' \in [Queues -> 0 .. Cap]
    <3>1. CASE len[Output] > 0 /\ len' = [len EXCEPT ![Output] = @ - 1]
      <4>1. len[Output] \in 0 .. Cap /\ len[Output] - 1 \in 0 .. Cap
        BY <3>1 DEF LifecycleTypeOK
      <4> QED
        BY <3>1, <4>1 DEF LifecycleTypeOK
    <3> QED
      BY <1>7, <3>1 DEF userQueue, LifecycleTypeOK
  <2>2. closed' \in [Queues -> BOOLEAN]
    BY <1>7 DEF userQueue, LifecycleTypeOK
  <2> QED
    BY <1>7, <2>1, <2>2 DEF userQueue, LifecycleTypeOK, pvars
<1> QED
  BY <1>1, <1>2, <1>3, <1>4, <1>5, <1>6, <1>7 DEF UserStep

LEMMA NodeTyped ==
    ASSUME LifecycleTypeOK, NEW n \in Nodes, NodeStep(n)
    PROVE  LifecycleTypeOK'
<1> USE ActorFacts
<1>1. CASE mainLoop(n)
  BY <1>1 DEF mainLoop, Move, LifecycleTypeOK, ActorPlaces, qvars, pvars
<1>2. CASE QueueException(n)
  BY <1>2 DEF QueueException, Move, LifecycleTypeOK, ActorPlaces, qvars, pvars
<1>3. CASE get(n)
  BY <1>3 DEF get, Move, LifecycleTypeOK, ActorPlaces, pvars
<1>4. CASE work(n)
  BY <1>4 DEF work, Move, LifecycleTypeOK, ActorPlaces, pvars
<1>5. CASE send(n)
  BY <1>5 DEF send, Move, LifecycleTypeOK, ActorPlaces, pvars
<1>6. CASE fail(n)
  BY <1>6 DEF fail, Move, LifecycleTypeOK, ActorPlaces, qvars
<1>7. CASE stopPipeline(n)
  BY <1>7 DEF stopPipeline, LifecycleTypeOK, ActorPlaces, StopPlaces, qvars
<1> QED
  BY <1>1, <1>2, <1>3, <1>4, <1>5, <1>6, <1>7 DEF NodeStep

LEMMA ShutdownTyped ==
    ASSUME LifecycleTypeOK, NEW a \in Actors, Shutdown(a)
    PROVE  LifecycleTypeOK'
<1> USE ActorFacts
<1>1. CASE release(a)
  BY <1>1 DEF release, Quit, Jump, Move, LifecycleTypeOK, ActorPlaces, StopPlaces, qvars
<1>2. CASE stop(a)
  BY <1>2 DEF stop, AfterStop, Move, LifecycleTypeOK, ActorPlaces, StopPlaces, qvars
<1>3. CASE stopNode(a)
  <2>1. k[a] \in Nodes
    BY DEF LifecycleTypeOK
  <2>2. at' \in [Actors -> ActorPlaces] /\ k' \in [Actors -> Nodes]
    BY <1>3, <2>1 DEF stopNode, Move, LifecycleTypeOK, ActorPlaces, StopPlaces
  <2>3. nodeRunning' \in [Nodes -> BOOLEAN] /\ closed' \in [Queues -> BOOLEAN]
    BY <1>3, <2>1 DEF stopNode, LifecycleTypeOK, qvars
  <2> QED
    BY <1>3, <2>2, <2>3 DEF stopNode, LifecycleTypeOK, qvars, pvars
<1>4. CASE stopOutputs(a)
  BY <1>4 DEF stopOutputs, Move, LifecycleTypeOK, ActorPlaces, StopPlaces, pvars
<1>5. CASE stopTasks(a)
  BY <1>5 DEF stopTasks, Move, LifecycleTypeOK, ActorPlaces, StopPlaces, pvars
<1>6. CASE stopDevice(a)
  BY <1>6 DEF stopDevice, AfterStop, Move, LifecycleTypeOK, ActorPlaces, StopPlaces, qvars
<1>7. CASE wait(a)
  <2>1. k[a] \in Nodes /\ (ret[a] # "teardown" => ret[a] \in ActorPlaces)
    BY DEF LifecycleTypeOK, ActorPlaces, StopPlaces
  <2>2. at' \in [Actors -> ActorPlaces] /\ k' \in [Actors -> Nodes]
    BY <1>7, <2>1 DEF wait, Quit, Move, LifecycleTypeOK, ActorPlaces, StopPlaces
  <2>3. destroyed' \in {destroyed, TRUE}
    BY <1>7 DEF wait
  <2>4. destroyed' \in BOOLEAN
    BY <2>3, Zenon DEF LifecycleTypeOK
  <2> QED
    BY <1>7, <2>2, <2>4 DEF wait, LifecycleTypeOK, qvars
<1> QED
  BY <1>1, <1>2, <1>3, <1>4, <1>5, <1>6, <1>7 DEF Shutdown

\* Only start makes the user's thread start the nodes.
LEMMA StartingKept ==
    ASSUME Typed, UserStep \/ userCall \/ userQueue
                  \/ (\E n \in Nodes : NodeStep(n)) \/ (\E a \in Actors : Shutdown(a))
    PROVE  Starting' => Starting /\ ret'[User] = ret[User]
<1> USE ActorFacts DEF Typed, LifecycleTypeOK, Starting
<1>1. CASE UserStep
  BY <1>1 DEF UserStep, startDevice, startNode, runCheck, processTasks, Jump, Move, Returns
<1>2. CASE userCall \/ userQueue
  BY <1>2 DEF userCall, userQueue, Jump, Move
<1>3. ASSUME NEW n \in Nodes, NodeStep(n) PROVE Starting' => Starting /\ ret'[User] = ret[User]
  <2>1. at'[User] = at[User] /\ ret'[User] = ret[User]
    BY <1>3 DEF NodeStep, mainLoop, QueueException, get, work, send, fail, stopPipeline, Move
  <2> QED
    BY <2>1
<1>4. ASSUME NEW a \in Actors, Shutdown(a) PROVE Starting' => Starting /\ ret'[User] = ret[User]
  BY <1>4 DEF Shutdown, release, stop, stopNode, stopOutputs, stopTasks, stopDevice, wait,
              AfterStop, Quit, Jump, Move
<1> QED
  BY <1>1, <1>2, <1>3, <1>4

LEMMA TypedInvariance == LifecycleSpec => []Typed
<1>1. Typed /\ [LifecycleNext]_lifecycleVars => Typed'
  <2> SUFFICES ASSUME Typed, [LifecycleNext]_lifecycleVars PROVE Typed'
    OBVIOUS
  <2>1. CASE UNCHANGED lifecycleVars
    BY <2>1 DEF Typed, LifecycleTypeOK, Starting, lifecycleVars
  <2>2. CASE LifecycleNext
    <3>1. LifecycleTypeOK'
      BY <2>2, StartTyped, NodeTyped, ShutdownTyped DEF LifecycleNext, Typed
    <3>2. CASE \E r \in {"user", "run"} : start(r)
      <4>1. ret'[User] \in Returns
        BY <3>2, ActorFacts DEF start, Jump, Typed, LifecycleTypeOK, Returns
      <4> QED
        BY <3>1, <4>1 DEF Typed
    <3>3. CASE ~\E r \in {"user", "run"} : start(r)
      BY <2>2, <3>1, <3>3, StartingKept DEF LifecycleNext, Typed
    <3> QED
      BY <3>2, <3>3
  <2> QED
    BY <2>1, <2>2
<1>2. LifecycleInit => Typed
  BY InitTypeOK, ActorFacts DEF LifecycleInit, Typed, Starting
<1> QED
  BY <1>1, <1>2, PTL DEF LifecycleSpec

\* The pipeline, its nodes and the threads are always of their types.
THEOREM LifecycleTypeCorrect == LifecycleSpec => []LifecycleTypeOK
<1>1. Typed => LifecycleTypeOK
  BY DEF Typed
<1> QED
  BY <1>1, TypedInvariance, PTL

----------------------------------------------------------------------------
(* A stop is complete.                                                     *)

InStop == StopPlaces \ {"stop"}

\* Starting and stopping exclude each other, and happen to a running pipeline.
Exclusive == /\ \A a \in Actors : at[a] \in InStop => stateMtx = a /\ running
             /\ Starting => stateMtx = User /\ running

\* Node n is stopped: it will end, and nobody can send to it.
Stopped(n) == ~nodeRunning[n] /\ closed[n]

\* What the stop in progress has already done.
Done(a) == /\ at[a] \in {"stop.node", "stop.inputs"} => \A n \in Nodes : n < k[a] => Stopped(n)
           /\ at[a] = "stop.inputs" => ~nodeRunning[k[a]]
           /\ at[a] \in {"stop.outputs", "stop.tasks", "stop.device", "stop.done"} =>
                \A n \in Nodes : Stopped(n)
           /\ at[a] \in {"stop.tasks", "stop.device", "stop.done"} => closed[Output]
           /\ at[a] \in {"stop.device", "stop.done"} => tasksClosed
           /\ at[a] = "stop.done" => deviceClosed

Stops == Exclusive /\ (\A a \in Actors : Done(a)) /\ StopIsComplete

\* A step that starts and opens nothing.
Shrinks == /\ \A n \in Nodes : nodeRunning'[n] => nodeRunning[n]
           /\ \A q \in Queues : closed[q] => closed'[q]
           /\ tasksClosed => tasksClosed'
           /\ deviceClosed => deviceClosed'

LEMMA DoneKept ==
    ASSUME Typed, NEW a \in Actors, Done(a), Shrinks, at'[a] = at[a], k'[a] = k[a]
    PROVE  Done(a)'
<1>1. k[a] \in Nodes
  BY DEF Typed, LifecycleTypeOK
<1>2. \A n \in Nodes : Stopped(n) => Stopped(n)'
  BY ActorFacts DEF Stopped, Shrinks
<1> QED
  BY <1>1, <1>2, ActorFacts DEF Done, Shrinks

LEMMA CompleteKept ==
    ASSUME StopIsComplete, Shrinks, running' = running,
           at'[User] # "new" => at[User] # "new"
    PROVE  StopIsComplete'
BY DEF StopIsComplete, Shrinks

\* A step of a thread that is neither starting nor stopping the pipeline.
LEMMA BystanderStops ==
    ASSUME Typed, Stops, Shrinks, UNCHANGED <<running, stateMtx>>,
           Starting' => Starting, at'[User] # "new" => at[User] # "new",
           \A a \in Actors : at'[a] \in InStop => at'[a] = at[a] /\ k'[a] = k[a]
    PROVE  Stops'
<1>1. Exclusive'
  BY DEF Stops, Exclusive
<1>2. ASSUME NEW a \in Actors PROVE Done(a)'
  <2>1. CASE at'[a] \in InStop
    BY <2>1, DoneKept DEF Stops
  <2>2. CASE at'[a] \notin InStop
    BY <2>2 DEF Done, InStop, StopPlaces
  <2> QED
    BY <2>1, <2>2
<1>3. StopIsComplete'
  BY CompleteKept DEF Stops
<1> QED
  BY <1>1, <1>2, <1>3 DEF Stops

\* Actor a's own step in its stop.
LEMMA StopperStops ==
    ASSUME Typed, Stops, Shrinks, NEW a \in Actors, at[a] \in InStop, Done(a)',
           UNCHANGED <<running, stateMtx>>, at'[a] \in InStop,
           \A b \in Actors : b # a => at'[b] = at[b] /\ k'[b] = k[b]
    PROVE  Stops'
<1>1. /\ stateMtx = a /\ running
      /\ \A b \in Actors : b # a => at'[b] \notin InStop
      /\ ~Starting'
  BY ActorFacts DEF Stops, Exclusive, Starting, InStop, StopPlaces
<1>2. Exclusive'
  <2>1. running' /\ stateMtx' = a
    BY <1>1, Zenon
  <2>2. \A b \in Actors : at'[b] \in InStop => b = a
    BY <1>1
  <2> QED
    BY <1>1, <2>1, <2>2 DEF Exclusive
<1>3. ASSUME NEW b \in Actors, b # a PROVE Done(b)'
  BY <1>1, <1>3 DEF Done, InStop, StopPlaces
<1>4. StopIsComplete'
  BY <1>1, Zenon DEF StopIsComplete
<1> QED
  BY <1>2, <1>3, <1>4 DEF Stops

\* Threads that neither start nor stop the pipeline; userQueue may close.
LEMMA OthersStop ==
    ASSUME Typed, Stops,
           \/ runCheck \/ processTasks \/ userCall \/ userQueue
           \/ \E n \in Nodes : NodeStep(n)
           \/ \E a \in Actors : release(a) \/ wait(a)
    PROVE  Stops'
<1> USE ActorFacts
<1>1. /\ Shrinks /\ running' = running /\ stateMtx' = stateMtx
      /\ at'[User] # "new" => at[User] # "new"
      /\ \A a \in Actors : at'[a] \in InStop => at'[a] = at[a] /\ k'[a] = k[a]
  <2> USE DEF Typed, LifecycleTypeOK, Shrinks, InStop, StopPlaces
  <2>1. CASE runCheck
    BY <2>1 DEF runCheck, Jump, Move, pvars, qvars
  <2>2. CASE processTasks
    BY <2>2 DEF processTasks, Move, pvars
  <2>3. CASE userCall
    BY <2>3 DEF userCall, Jump, Move, pvars, qvars
  <2>4. CASE userQueue
    BY <2>4 DEF userQueue, pvars
  <2>5. ASSUME NEW n \in Nodes, NodeStep(n)
        PROVE  /\ Shrinks /\ running' = running /\ stateMtx' = stateMtx
               /\ at'[User] # "new" => at[User] # "new"
               /\ \A a \in Actors : at'[a] \in InStop => at'[a] = at[a] /\ k'[a] = k[a]
    <3>1. /\ UNCHANGED <<running, stateMtx, closed, tasksClosed, deviceClosed, k>>
          /\ at'[User] = at[User]
      BY <2>5 DEF NodeStep, mainLoop, QueueException, get, work, send, fail, stopPipeline,
                  Move, pvars, qvars
    <3>2. \A m \in Nodes : nodeRunning'[m] => nodeRunning[m]
      BY <2>5 DEF NodeStep, mainLoop, QueueException, get, work, send, fail, stopPipeline
    <3>3. \A a \in Actors : at'[a] \in InStop => at'[a] = at[a]
      BY <2>5 DEF NodeStep, mainLoop, QueueException, get, work, send, fail, stopPipeline, Move
    <3> QED
      BY <3>1, <3>2, <3>3
  <2>6. ASSUME NEW a \in Actors, release(a) \/ wait(a)
        PROVE  /\ Shrinks /\ running' = running /\ stateMtx' = stateMtx
               /\ at'[User] # "new" => at[User] # "new"
               /\ \A b \in Actors : at'[b] \in InStop => at'[b] = at[b] /\ k'[b] = k[b]
    BY <2>6 DEF release, wait, Quit, Jump, Move, qvars
  <2> QED
    BY <2>1, <2>2, <2>3, <2>4, <2>5, <2>6
<1>2. Starting' => Starting
  BY StartingKept DEF UserStep, Shutdown
<1> QED
  BY <1>1, <1>2, BystanderStops

LEMMA StartStops ==
    ASSUME Typed, Stops, (\E r \in {"user", "run"} : start(r)) \/ startDevice \/ startNode
    PROVE  Stops'
<1> USE ActorFacts
<1>1. CASE \E r \in {"user", "run"} : start(r)
  <2>1. PICK r \in {"user", "run"} : start(r)
    BY <1>1
  <2>2. running' /\ stateMtx' = User
    BY <2>1, Zenon DEF start
  <2>3. /\ stateMtx = Nobody /\ at'[User] = "start.device"
        /\ \A a \in Actors : a # User => at'[a] = at[a]
    BY <2>1 DEF start, Jump, Move, Typed, LifecycleTypeOK
  <2>4. \A a \in Actors : at'[a] \notin InStop
    BY <2>3 DEF Stops, Exclusive, InStop, StopPlaces
  <2> QED
    BY <2>2, <2>4, Zenon DEF Stops, Exclusive, Done, StopIsComplete, InStop, StopPlaces
<1>2. CASE startDevice \/ startNode
  <2>1. Starting /\ stateMtx = User /\ running /\ running' = running
    BY <1>2 DEF startDevice, startNode, Stops, Exclusive, Starting
  <2>2. \A a \in Actors : at[a] \notin InStop
    BY <2>1 DEF Stops, Exclusive, Starting, InStop, StopPlaces
  <2>3. \A a \in Actors : at'[a] \notin InStop
    BY <1>2, <2>2 DEF startDevice, startNode, Jump, Move, Typed, LifecycleTypeOK, Starting, Returns,
                      InStop, StopPlaces
  <2>4. Starting' => stateMtx' = User
    BY <1>2, <2>1 DEF startDevice, startNode, Jump, Move, Typed, LifecycleTypeOK, Starting, Returns
  <2>5. running'
    BY <2>1, Zenon
  <2> QED
    BY <2>3, <2>4, <2>5 DEF Stops, Exclusive, Done, StopIsComplete, InStop, StopPlaces
<1> QED
  BY <1>1, <1>2

LEMMA TakeStops ==
    ASSUME Typed, Stops, NEW a \in Actors, stop(a)
    PROVE  Stops'
<1> USE ActorFacts
<1>1. /\ at[a] = "stop" /\ stateMtx = Nobody /\ running' = running
      /\ UNCHANGED <<deviceClosed, refs, nodeRunning, qvars, ret>>
      /\ \A b \in Actors : b # a => at'[b] = at[b] /\ k'[b] = k[b]
  BY DEF stop, AfterStop, Move, Typed, LifecycleTypeOK
<1>2. Shrinks
  BY <1>1 DEF Shrinks, qvars
<1>3. at'[User] # "new" => at[User] # "new"
  BY <1>1
<1>4. \A b \in Actors : at[b] \notin InStop
  BY <1>1 DEF Stops, Exclusive
<1>5. CASE running
  <2>1. stateMtx' = a /\ at'[a] = "stop.node" /\ k'[a] = 1
    BY <1>5, ActorFacts DEF stop, Move, Typed, LifecycleTypeOK
  <2>2. running' /\ ~Starting'
    <3>1. running'
      BY <1>1, <1>5, Zenon
    <3> QED
      BY <1>1, <2>1, <3>1 DEF Stops, Exclusive, Starting
  <2>3. Exclusive'
    BY <1>1, <1>4, <2>1, <2>2 DEF Exclusive
  <2>4. \A b \in Actors : Done(b)'
    BY <1>1, <1>4, <2>1 DEF Done, InStop, StopPlaces, Nodes
  <2>5. StopIsComplete'
    BY <2>2, Zenon DEF StopIsComplete
  <2> QED
    BY <2>3, <2>4, <2>5 DEF Stops
<1>6. CASE ~running
  <2>1. /\ stateMtx' = stateMtx /\ at'[a] \notin InStop
        /\ at'[a] \notin {"start.device", "start.nodes"}
    BY <1>6 DEF stop, AfterStop, Move, Typed, LifecycleTypeOK, InStop, StopPlaces
  <2>2. Starting' => Starting
    BY <1>1, <2>1 DEF Starting
  <2> QED
    BY <1>1, <1>2, <1>3, <2>1, <2>2, BystanderStops
<1> QED
  BY <1>5, <1>6

LEMMA NodesStop ==
    ASSUME Typed, Stops, NEW a \in Actors, stopNode(a)
    PROVE  Stops'
<1> USE ActorFacts
<1> DEFINE n == k[a]
<1>1. n \in Nodes /\ Done(a)
  BY DEF Typed, LifecycleTypeOK, Stops
<1>2. CASE at[a] = "stop.node" /\ stopNode(a)
  <2>1. /\ nodeRunning' = [nodeRunning EXCEPT ![n] = FALSE] /\ Move(a, "stop.inputs")
        /\ UNCHANGED <<pvars, qvars, k, ret>>
    BY <1>2 DEF stopNode
  <2>2. /\ at'[a] = "stop.inputs" /\ k' = k /\ closed' = closed /\ ~nodeRunning'[n]
        /\ \A b \in Actors : b # a => at'[b] = at[b] /\ k'[b] = k[b]
        /\ \A m \in Nodes : m # n => nodeRunning'[m] = nodeRunning[m]
    BY <1>1, <2>1 DEF Move, Typed, LifecycleTypeOK, qvars
  <2>3. Shrinks
    BY <2>1, <2>2 DEF Shrinks, pvars, qvars
  <2>4. Done(a)'
    <3>1. \A m \in Nodes : m < n => Stopped(m)'
      BY <1>1, <1>2, <2>2 DEF Done, Stopped, Nodes
    <3> QED
      BY <2>2, <3>1 DEF Done
  <2> QED
    BY <1>2, <2>1, <2>2, <2>3, <2>4, StopperStops DEF InStop, StopPlaces, pvars
<1>3. CASE at[a] = "stop.inputs" /\ stopNode(a)
  <2>1. /\ closed' = [closed EXCEPT ![n] = TRUE]
        /\ Move(a, IF n < NNodes THEN "stop.node" ELSE "stop.outputs")
        /\ k' = [k EXCEPT ![a] = IF n < NNodes THEN n + 1 ELSE 1]
        /\ UNCHANGED <<pvars, nodeRunning, len, tasks, tasksClosed, ret>>
    BY <1>3 DEF stopNode
  <2>2. /\ at'[a] = IF n < NNodes THEN "stop.node" ELSE "stop.outputs"
        /\ k'[a] = IF n < NNodes THEN n + 1 ELSE 1
        /\ \A b \in Actors : b # a => at'[b] = at[b] /\ k'[b] = k[b]
        /\ closed'[n] /\ \A q \in Queues : closed[q] => closed'[q]
    BY <1>1, <2>1 DEF Move, Typed, LifecycleTypeOK
  <2>3. Shrinks
    BY <2>1, <2>2 DEF Shrinks, pvars
  <2>4. \A m \in Nodes : m <= n => Stopped(m)'
    BY <1>1, <1>3, <2>1, <2>2 DEF Done, Stopped, Nodes
  <2>5. Done(a)'
    <3>1. CASE n < NNodes
      BY <1>1, <2>2, <2>4, <3>1 DEF Done, Nodes
    <3>2. CASE ~(n < NNodes)
      BY <1>1, <2>2, <2>4, <3>2 DEF Done, Nodes
    <3> QED
      BY <3>1, <3>2
  <2> QED
    BY <1>3, <2>1, <2>2, <2>3, <2>5, StopperStops DEF InStop, StopPlaces, pvars
<1> QED
  BY <1>2, <1>3 DEF stopNode

LEMMA QueuesStop ==
    ASSUME Typed, Stops, NEW a \in Actors, stopOutputs(a) \/ stopTasks(a)
    PROVE  Stops'
<1> USE ActorFacts
<1>1. Done(a)
  BY DEF Stops
<1>2. /\ \/ /\ at[a] = "stop.outputs" /\ at'[a] = "stop.tasks"
            /\ closed'[Output] /\ tasksClosed' = tasksClosed
         \/ /\ at[a] = "stop.tasks" /\ at'[a] = "stop.device"
            /\ closed' = closed /\ tasksClosed'
      /\ \A q \in Queues : closed[q] => closed'[q]
      /\ \A b \in Actors : b # a => at'[b] = at[b] /\ k'[b] = k[b]
      /\ UNCHANGED <<running, stateMtx, deviceClosed, nodeRunning>>
  <2>1. CASE stopOutputs(a)
    BY <2>1 DEF stopOutputs, Move, Typed, LifecycleTypeOK, pvars
  <2>2. CASE stopTasks(a)
    <3>1. tasksClosed'
      BY <2>2, Zenon DEF stopTasks
    <3> QED
      BY <2>2, <3>1 DEF stopTasks, Move, Typed, LifecycleTypeOK, pvars
  <2> QED
    BY <2>1, <2>2
<1>3. Shrinks
  BY <1>2 DEF Shrinks
<1>4. Done(a)'
  <2>1. \A n \in Nodes : Stopped(n)'
    BY <1>1, <1>2 DEF Done, Stopped
  <2> QED
    BY <1>1, <1>2, <2>1 DEF Done
<1> QED
  BY <1>2, <1>3, <1>4, StopperStops DEF InStop, StopPlaces

LEMMA DeviceStops ==
    ASSUME Typed, Stops, NEW a \in Actors, stopDevice(a)
    PROVE  Stops'
<1> USE ActorFacts
<1>1. Done(a) /\ Exclusive
  BY DEF Stops
<1>2. CASE at[a] = "stop.device" /\ stopDevice(a)
  <2>1. deviceClosed' /\ running' = running
    BY <1>2, Zenon DEF stopDevice
  <2>2. /\ at'[a] = "stop.done"
        /\ \A b \in Actors : b # a => at'[b] = at[b] /\ k'[b] = k[b]
        /\ UNCHANGED <<stateMtx, nodeRunning, closed, tasksClosed>>
    BY <1>2 DEF stopDevice, Move, Typed, LifecycleTypeOK, qvars
  <2>3. Shrinks
    BY <2>1, <2>2 DEF Shrinks
  <2>4. Done(a)'
    BY <1>1, <1>2, <2>1, <2>2 DEF Done, Stopped
  <2> QED
    BY <1>2, <2>1, <2>2, <2>3, <2>4, StopperStops DEF InStop, StopPlaces
<1>3. CASE at[a] = "stop.done" /\ stopDevice(a)
  <2>1. /\ at'[a] \notin InStop /\ at'[a] \notin {"start.device", "start.nodes"}
        /\ \A b \in Actors : b # a => at'[b] = at[b]
        /\ UNCHANGED <<deviceClosed, nodeRunning, closed, tasksClosed>>
    BY <1>3 DEF stopDevice, AfterStop, Move, Typed, LifecycleTypeOK, InStop, StopPlaces, qvars
  <2>2. /\ stateMtx = a
        /\ \A b \in Actors : b # a => at[b] \notin InStop
        /\ User # a => ~Starting
    BY <1>1, <1>3 DEF Exclusive, InStop, StopPlaces
  <2>3. \A b \in Actors : at'[b] \notin InStop
    BY <2>1, <2>2
  <2>4. ~Starting'
    BY <2>1, <2>2 DEF Starting
  <2>5. StopIsComplete'
    <3>1. /\ \A n \in Nodes : ~nodeRunning'[n]
          /\ \A q \in Queues : closed'[q]
          /\ tasksClosed' /\ deviceClosed'
      BY <1>1, <1>3, <2>1 DEF Done, Stopped
    <3> QED
      BY <3>1, Zenon DEF StopIsComplete
  <2> QED
    BY <2>3, <2>4, <2>5 DEF Stops, Exclusive, Done, InStop, StopPlaces
<1> QED
  BY <1>2, <1>3 DEF stopDevice

\* Stops is inductive, given the types.
LEMMA StopsInvariance == LifecycleSpec => []Stops
<1>1. Typed /\ Stops /\ [LifecycleNext]_lifecycleVars => Stops'
  <2> SUFFICES ASSUME Typed, Stops, [LifecycleNext]_lifecycleVars PROVE Stops'
    OBVIOUS
  <2>1. CASE UNCHANGED lifecycleVars
    <3>1. running' = running
      BY <2>1 DEF lifecycleVars
    <3>2. Shrinks /\ stateMtx' = stateMtx /\ at' = at /\ k' = k
      BY <2>1 DEF Shrinks, lifecycleVars
    <3>3. Starting' => Starting
      BY <3>2 DEF Starting
    <3> QED
      BY <3>1, <3>2, <3>3, BystanderStops
  <2>2. CASE LifecycleNext
    BY <2>2, OthersStop, StartStops, TakeStops, NodesStop, QueuesStop, DeviceStops
       DEF LifecycleNext, UserStep, Shutdown
  <2> QED
    BY <2>1, <2>2
<1>2. LifecycleInit => Stops
  BY ActorFacts DEF LifecycleInit, Stops, Exclusive, Starting, Done, StopIsComplete, InStop,
                    StopPlaces
<1> QED
  BY <1>1, <1>2, TypedInvariance, PTL DEF LifecycleSpec

(***************************************************************************)
(* Whoever stops a pipeline, and whatever failed while it was started or   *)
(* running: once it is not running any more, no node is marked running     *)
(* and every queue and the device are closed (Pipeline.cpp:1284-1334).     *)
(***************************************************************************)
THEOREM StopComplete == LifecycleSpec => []StopIsComplete
<1>1. Stops => StopIsComplete
  BY DEF Stops
<1> QED
  BY <1>1, StopsInvariance, PTL

----------------------------------------------------------------------------
(* The pipeline outlives its last use.                                     *)

Ending == StopPlaces \cup {"wait"}
Using == Ending \cup {"new", "start.device", "start.nodes", "run", "run.tasks", "run.drain",
                      "user", "spawn", "release"}
Tearing(a) == ret[a] = "teardown"

\* Who works on the pipeline has a reference to it, or is its one destructor.
Held == /\ \A a \in Actors : at[a] \in Using => a \in refs \/ Tearing(a)
        /\ \A a \in Actors : Tearing(a) => refs = {} /\ at[a] \in Ending \cup {"gone", "ended"}
        /\ \A a, b \in Actors : Tearing(a) /\ Tearing(b) => a = b

\* The nodes that the destructor has joined have ended for good.
Joined == \A a \in Actors : at[a] = "wait" /\ Tearing(a) =>
             \A n \in Nodes : n < k[a] => at[n] \in {"unborn", "ended"}

Uses == Held /\ Joined /\ DestroyedAfterUse

\* A step of one actor, which is not the destructor and which has a
\* reference whenever it needs one.
LEMMA MoverUses ==
    ASSUME Typed, Uses, NEW a \in Actors, ~Tearing(a), at[a] \notin {"unborn", "ended"},
           ret'[a] # "teardown", at'[a] \in Using => a \in refs,
           refs' = refs, destroyed' = destroyed,
           \A b \in Actors : b # a => at'[b] = at[b] /\ k'[b] = k[b] /\ ret'[b] = ret[b]
    PROVE  Uses'
<1> USE ActorFacts
<1>1. Held'
  BY DEF Uses, Held, Tearing
<1>2. \A n \in Nodes : at[n] \in {"unborn", "ended"} => at'[n] = at[n]
  OBVIOUS
<1>3. Joined'
  BY <1>2 DEF Uses, Joined, Tearing
<1>4. DestroyedAfterUse'
  BY <1>2 DEF Uses, DestroyedAfterUse, Using, Ending
<1> QED
  BY <1>1, <1>3, <1>4 DEF Uses

\* A step of the destructor before the last.
LEMMA TearerUses ==
    ASSUME Typed, Uses, NEW a \in Actors, Tearing(a), at[a] \in Ending, at'[a] \in Ending,
           at'[a] = "wait" => \A n \in Nodes : n < k'[a] => at[n] \in {"unborn", "ended"},
           ret' = ret, refs' = refs, destroyed' = destroyed,
           \A b \in Actors : b # a => at'[b] = at[b] /\ k'[b] = k[b]
    PROVE  Uses'
<1> USE ActorFacts
<1>1. ~destroyed /\ at[a] \notin {"unborn", "ended"}
  BY DEF Uses, DestroyedAfterUse, Ending, StopPlaces
<1>2. Held'
  BY DEF Uses, Held, Tearing, Using
<1>3. Joined'
  <2>1. \A n \in Nodes : at[n] \in {"unborn", "ended"} => at'[n] = at[n]
    BY <1>1
  <2> QED
    BY <2>1 DEF Uses, Held, Joined, Tearing
<1>4. DestroyedAfterUse'
  BY <1>1, Zenon DEF DestroyedAfterUse
<1> QED
  BY <1>2, <1>3, <1>4 DEF Uses

LEMMA UserUses ==
    ASSUME Typed, Uses, (\E r \in {"user", "run"} : start(r)) \/ startDevice \/ runCheck
                        \/ processTasks \/ userCall
    PROVE  Uses'
<1> USE ActorFacts
<1>1. /\ at[User] \in {"new", "start.device", "run", "run.tasks", "run.drain", "user"}
      /\ at'[User] \in Using /\ ret'[User] \in {ret[User], "user", "run"}
      /\ refs' = refs /\ destroyed' = destroyed
      /\ \A b \in Actors : b # User => at'[b] = at[b] /\ k'[b] = k[b] /\ ret'[b] = ret[b]
  BY DEF start, startDevice, runCheck, processTasks, userCall, Jump, Move, Typed, LifecycleTypeOK,
         Using, Ending, StopPlaces, pvars
<1>2. User \in refs /\ ~Tearing(User)
  BY <1>1 DEF Uses, Held, Using, Ending, StopPlaces
<1> QED
  BY <1>1, <1>2, MoverUses DEF Tearing

LEMMA StartNodeUses ==
    ASSUME Typed, Uses, startNode PROVE Uses'
<1> USE ActorFacts
<1> DEFINE n == k[User]
<1>1. /\ at[User] = "start.nodes" /\ n \in Nodes /\ at'[n] = "loop"
      /\ at'[User] \in Using
      /\ \A b \in Actors : b # User /\ b # n => at'[b] = at[b]
      /\ \A b \in Actors : b # User => k'[b] = k[b]
      /\ ret' = ret /\ refs' = refs /\ destroyed' = destroyed
  BY DEF startNode, Typed, LifecycleTypeOK, Starting, Returns, Using, Ending, StopPlaces
<1>2. User \in refs /\ (\A a \in Actors : ~Tearing(a)) /\ ~destroyed
  BY <1>1 DEF Uses, Held, DestroyedAfterUse, Using, Ending, StopPlaces
<1>3. Held'
  BY <1>1, <1>2 DEF Uses, Held, Tearing, Using, Ending, StopPlaces
<1>4. Joined'
  BY <1>1, <1>2 DEF Joined, Tearing
<1>5. DestroyedAfterUse'
  BY <1>1, <1>2, Zenon DEF DestroyedAfterUse
<1> QED
  BY <1>3, <1>4, <1>5 DEF Uses

LEMMA NodeUses ==
    ASSUME Typed, Uses, NEW n \in Nodes, NodeStep(n) PROVE Uses'
<1> USE ActorFacts
<1>1. CASE mainLoop(n) \/ QueueException(n) \/ get(n) \/ work(n) \/ send(n)
  <2>1. /\ at[n] \in {"loop", "get", "work", "send"}
        /\ at'[n] \in {"loop", "get", "work", "send", "ended"}
        /\ ret' = ret /\ refs' = refs /\ destroyed' = destroyed /\ k' = k
        /\ \A b \in Actors : b # n => at'[b] = at[b]
    BY <1>1 DEF mainLoop, QueueException, get, work, send, Move, Typed, LifecycleTypeOK, pvars
  <2>2. ~Tearing(n)
    BY <2>1 DEF Uses, Held, Ending, StopPlaces
  <2> QED
    BY <2>1, <2>2, MoverUses DEF Using, Ending, StopPlaces, Tearing
<1>2. CASE fail(n)
  <2>1. /\ at[n] = "work" /\ ret' = ret /\ destroyed' = destroyed /\ k' = k
        /\ \A b \in Actors : b # n => at'[b] = at[b]
        /\ \/ refs # {} /\ refs' = refs \cup {n} /\ at'[n] = "spawn"
           \/ refs' = refs /\ at'[n] = "ended"
    BY <1>2 DEF fail, Move, Typed, LifecycleTypeOK
  <2>2. ~Tearing(n) /\ ~destroyed
    BY <2>1 DEF Uses, Held, DestroyedAfterUse, Ending, StopPlaces
  <2>3. Held'
    BY <2>1, <2>2 DEF Uses, Held, Tearing, Using, Ending, StopPlaces
  <2>4. Joined'
    <3>1. \A m \in Nodes : at[m] \in {"unborn", "ended"} => at'[m] = at[m]
      BY <2>1
    <3> QED
      BY <2>1, <2>2, <3>1 DEF Uses, Joined, Tearing
  <2>5. DestroyedAfterUse'
    BY <2>1, <2>2, Zenon DEF DestroyedAfterUse
  <2> QED
    BY <2>3, <2>4, <2>5 DEF Uses
<1>3. CASE stopPipeline(n)
  <2> DEFINE h == Helper(n)
  <2>1. /\ at[n] = "spawn" /\ at'[n] = "unwind" /\ at'[h] = "stop" /\ ret'[h] = "release"
        /\ refs' = (refs \ {n}) \cup {h} /\ destroyed' = destroyed
        /\ h \in Actors /\ h # n
        /\ \A b \in Actors : b # n /\ b # h => at'[b] = at[b]
        /\ \A b \in Actors : b # h => ret'[b] = ret[b]
    BY <1>3 DEF stopPipeline, Typed, LifecycleTypeOK
  <2>2. n \in refs /\ (\A a \in Actors : ~Tearing(a)) /\ ~destroyed
    BY <2>1 DEF Uses, Held, DestroyedAfterUse, Using, Ending, StopPlaces
  <2> HIDE DEF h
  <2>3. \A a \in Actors : ret'[a] # "teardown"
    BY <2>1, <2>2 DEF Tearing
  <2>4. Held'
    BY <2>1, <2>2, <2>3 DEF Uses, Held, Tearing, Using, Ending, StopPlaces
  <2>5. Joined'
    BY <2>3 DEF Joined, Tearing
  <2>6. DestroyedAfterUse'
    BY <2>1, <2>2, Zenon DEF DestroyedAfterUse
  <2> QED
    BY <2>4, <2>5, <2>6 DEF Uses
<1> QED
  BY <1>1, <1>2, <1>3 DEF NodeStep

LEMMA ReleaseUses ==
    ASSUME Typed, Uses, NEW a \in Actors, release(a) PROVE Uses'
<1> USE ActorFacts
<1>1. /\ at[a] \in {"unwind", "release"} /\ refs' = refs \ {a} /\ destroyed' = destroyed
      /\ \A b \in Actors : b # a => at'[b] = at[b] /\ k'[b] = k[b] /\ ret'[b] = ret[b]
      /\ \/ refs = {a} /\ at'[a] = "stop" /\ ret'[a] = "teardown"
         \/ refs # {a} /\ at'[a] \in {"ended", "gone"} /\ ret'[a] = ret[a]
  BY DEF release, Quit, Jump, Move, Typed, LifecycleTypeOK
<1>2. ~Tearing(a)
  BY <1>1 DEF Uses, Held, Ending, StopPlaces
<1>3. \A n \in Nodes : at[n] \in {"unborn", "ended"} => at'[n] = at[n]
  BY <1>1
<1>4. CASE refs = {a} /\ at'[a] = "stop" /\ ret'[a] = "teardown"
  <2>1. (\A b \in Actors : ~Tearing(b)) /\ ~destroyed
    BY <1>4 DEF Uses, Held, DestroyedAfterUse
  <2>2. \A b \in Actors : b # a => at'[b] \notin Using /\ ret'[b] # "teardown"
    BY <1>1, <1>4, <2>1 DEF Uses, Held, Tearing
  <2>3. Held'
    BY <1>1, <1>4, <2>2 DEF Held, Tearing, Ending, StopPlaces
  <2>4. Joined'
    BY <1>4, <2>2 DEF Joined, Using, Ending
  <2>5. DestroyedAfterUse'
    BY <1>1, <2>1, Zenon DEF DestroyedAfterUse
  <2> QED
    BY <2>3, <2>4, <2>5 DEF Uses
<1>5. CASE refs # {a} /\ at'[a] \in {"ended", "gone"} /\ ret'[a] = ret[a]
  <2>1. Held'
    BY <1>1, <1>2, <1>5 DEF Uses, Held, Tearing, Using, Ending, StopPlaces
  <2>2. Joined'
    BY <1>1, <1>2, <1>3, <1>5 DEF Uses, Joined, Tearing
  <2>3. DestroyedAfterUse'
    BY <1>1, <1>3, <1>5 DEF Uses, DestroyedAfterUse, StopPlaces
  <2> QED
    BY <2>1, <2>2, <2>3 DEF Uses
<1> QED
  BY <1>1, <1>4, <1>5

LEMMA StopUses ==
    ASSUME Typed, Uses, NEW a \in Actors,
           stop(a) \/ stopNode(a) \/ stopOutputs(a) \/ stopTasks(a) \/ stopDevice(a)
    PROVE  Uses'
<1> USE ActorFacts
<1>1. /\ at[a] \in StopPlaces /\ refs' = refs /\ ret' = ret
      /\ \A b \in Actors : b # a => at'[b] = at[b] /\ k'[b] = k[b]
      /\ \/ at'[a] \in StopPlaces /\ destroyed' = destroyed
         \/ AfterStop(a)
  BY DEF stop, stopNode, stopOutputs, stopTasks, stopDevice, AfterStop, Move, Typed,
         LifecycleTypeOK, StopPlaces, pvars
<1>2. /\ destroyed' = destroyed
      /\ Tearing(a) => at'[a] \in Ending /\ (at'[a] = "wait" => k'[a] = 1)
      /\ ~Tearing(a) => at'[a] \in Using
  <2>1. CASE at'[a] \in StopPlaces /\ destroyed' = destroyed
    BY <2>1 DEF Ending, Using, StopPlaces
  <2>2. CASE AfterStop(a)
    BY <2>2 DEF AfterStop, Move, Tearing, Ending, Using, Typed, LifecycleTypeOK
  <2> QED
    BY <1>1, <2>1, <2>2
<1>3. at[a] \in Ending /\ at[a] \in Using /\ at[a] \notin {"unborn", "ended"}
  BY <1>1 DEF Ending, Using, StopPlaces
<1>4. CASE Tearing(a)
  <2>1. \A n \in Nodes : ~(n < 1)
    BY DEF Nodes
  <2> QED
    BY <1>1, <1>2, <1>3, <1>4, <2>1, TearerUses
<1>5. CASE ~Tearing(a)
  <2>1. a \in refs
    BY <1>3, <1>5 DEF Uses, Held
  <2> QED
    BY <1>1, <1>2, <1>3, <1>5, <2>1, MoverUses DEF Tearing
<1> QED
  BY <1>4, <1>5

LEMMA WaitUses ==
    ASSUME Typed, Uses, NEW a \in Actors, wait(a) PROVE Uses'
<1> USE ActorFacts
<1> DEFINE n == k[a]
<1>1. /\ at[a] = "wait" /\ n \in Nodes /\ at[n] \in {"unborn", "ended"}
      /\ refs' = refs /\ ret' = ret
      /\ \A b \in Actors : b # a => at'[b] = at[b] /\ k'[b] = k[b]
      /\ \/ /\ n < NNodes /\ k'[a] = n + 1 /\ at' = at /\ destroyed' = destroyed
         \/ /\ n = NNodes /\ Tearing(a) /\ destroyed' = TRUE /\ at'[a] \in {"ended", "gone"}
         \/ /\ n = NNodes /\ ~Tearing(a) /\ destroyed' = destroyed /\ at'[a] = ret[a]
  BY DEF wait, Quit, Move, Tearing, Typed, LifecycleTypeOK
<1>2. at[a] \in Ending /\ at[a] \in Using
  BY <1>1 DEF Ending, Using
<1>3. CASE ~Tearing(a)
  <2>1. a \in refs /\ at'[a] \in Using
    BY <1>1, <1>2, <1>3 DEF Uses, Held, Tearing, Typed, LifecycleTypeOK, Using
  <2> QED
    BY <1>1, <1>3, <2>1, MoverUses DEF Tearing
<1>4. CASE Tearing(a) /\ n < NNodes
  <2>1. \A m \in Nodes : m < k'[a] => at[m] \in {"unborn", "ended"}
    BY <1>1, <1>4 DEF Uses, Joined, Nodes
  <2> QED
    BY <1>1, <1>2, <1>4, <2>1, TearerUses
<1>5. CASE Tearing(a) /\ n = NNodes
  <2>1. /\ destroyed' = TRUE /\ at'[a] \in {"ended", "gone"} /\ refs = {}
        /\ \A b \in Actors : Tearing(b) => b = a
    BY <1>1, <1>5 DEF Uses, Held, Nodes
  <2>2. \A m \in Nodes : at[m] \in {"unborn", "ended"}
    BY <1>1, <1>5 DEF Uses, Joined, Nodes
  <2>3. \A b \in Actors : at'[b] \notin Using
    BY <1>1, <2>1 DEF Uses, Held, Using, Ending, StopPlaces
  <2>4. Held'
    BY <1>1, <2>1, <2>3 DEF Uses, Held, Tearing
  <2>5. Joined'
    BY <2>3 DEF Joined, Using, Ending
  <2>6. DestroyedAfterUse'
    <3>1. \A m \in Nodes : at'[m] \in {"unborn", "ended"}
      BY <1>1, <1>2, <2>2 DEF Ending, StopPlaces
    <3> QED
      BY <1>1, <2>1, <2>3, <3>1 DEF DestroyedAfterUse, Using, Ending
  <2> QED
    BY <2>4, <2>5, <2>6 DEF Uses
<1> QED
  BY <1>1, <1>3, <1>4, <1>5

\* Uses is inductive, given the types.
LEMMA UsesInvariance == LifecycleSpec => []Uses
<1>1. Typed /\ Uses /\ [LifecycleNext]_lifecycleVars => Uses'
  <2> SUFFICES ASSUME Typed, Uses, [LifecycleNext]_lifecycleVars PROVE Uses'
    OBVIOUS
  <2>1. CASE UNCHANGED <<refs, destroyed, at, k, ret>>
    <3>1. Held' /\ Joined'
      BY <2>1 DEF Uses, Held, Joined, Tearing
    <3>2. DestroyedAfterUse'
      BY <2>1, Zenon DEF Uses, DestroyedAfterUse
    <3> QED
      BY <3>1, <3>2 DEF Uses
  <2>2. CASE userQueue \/ UNCHANGED lifecycleVars
    BY <2>1, <2>2 DEF userQueue, lifecycleVars, pvars
  <2>3. CASE LifecycleNext /\ ~userQueue
    BY <2>3, UserUses, StartNodeUses, NodeUses, ReleaseUses, StopUses, WaitUses
       DEF LifecycleNext, UserStep, Shutdown
  <2> QED
    BY <2>2, <2>3
<1>2. LifecycleInit => Uses
  <2> SUFFICES ASSUME LifecycleInit PROVE Uses
    OBVIOUS
  <2>1. ~destroyed
    BY Zenon DEF LifecycleInit
  <2>2. Held /\ Joined
    BY ActorFacts DEF LifecycleInit, Held, Joined, Tearing, Using, Ending, StopPlaces
  <2>3. DestroyedAfterUse
    BY <2>1, Zenon DEF DestroyedAfterUse
  <2> QED
    BY <2>2, <2>3 DEF Uses
<1> QED
  BY <1>1, <1>2, TypedInvariance, PTL DEF LifecycleSpec

(***************************************************************************)
(* Nodes that fail hand the pipeline to detached threads that stop it; the *)
(* last to let go of it destroys it, once every node has ended and while   *)
(* no other thread works on it (Pipeline.cpp:1336-1341, Node.cpp).         *)
(***************************************************************************)
THEOREM DestroyedLast == LifecycleSpec => []DestroyedAfterUse
<1>1. Uses => DestroyedAfterUse
  BY DEF Uses
<1> QED
  BY <1>1, UsesInvariance, PTL

=============================================================================

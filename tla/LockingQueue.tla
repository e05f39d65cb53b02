---------------------------- MODULE LockingQueue ----------------------------
(***************************************************************************)
(* dai::LockingQueue (include/depthai/utility/LockingQueue.hpp), the       *)
(* bounded queue under every input, output and task queue of a pipeline.   *)
(*                                                                         *)
(* Each critical section under `guard' is one step.  A wait on a condition *)
(* variable releases the guard and parks the thread; a notify_all issued   *)
(* after the guard was released is a step of its own, so every race        *)
(* between a notification and the waits, the configuration calls and       *)
(* destruct() is explored.                                                 *)
(***************************************************************************)
EXTENDS Naturals, Sequences, FiniteSets

CONSTANTS Producers,   \* threads that push
          Consumers,   \* threads that pop, consume or wait for emptiness
          MaxSizes,    \* the values given to maxSize
          MaxMsgs      \* bound: number of push calls

ASSUME ThreadsAssumption == Producers \cap Consumers = {}
ASSUME SizesAssumption == MaxSizes \subseteq Nat
ASSUME BoundAssumption == MaxMsgs \in Nat

Threads == Producers \cup Consumers
Msgs == 1 .. MaxMsgs

VARIABLES
    \* the queue's own fields
    queue, maxSize, blocking, destructed,
    \* where each thread is, the operation it executes and the message it pushes
    pc, op, data,
    \* history: messages handed out to push calls so far, accepted messages,
    \* messages that left the queue, those of them no consumer received
    calls, accepted, left, dropped,
    \* history: room or emptiness appeared without a signalPop notification
    \* since the last one
    silent

fields == <<queue, maxSize, blocking, destructed>>
history == <<accepted, left, dropped>>
vars == <<queue, maxSize, blocking, destructed, pc, op, data, calls,
          accepted, left, dropped, silent>>

PushOps == {"push", "tryWaitAndPush"}
PopOps == {"waitAndPop", "tryWaitAndPop"}
ConsumeOps == {"waitAndConsumeAll", "waitAndConsumeAllFor"}
TimedOps == {"tryWaitAndPush", "tryWaitAndPop", "waitAndConsumeAllFor"}
Ops == PushOps \cup PopOps \cup ConsumeOps \cup {"waitEmpty", "none"}

(***************************************************************************)
(* idle: outside the queue.  sleepPop, sleepPush: parked on that condition *)
(* variable.  woken: notified, or woken spuriously, and competing for the  *)
(* guard.  notifyPop, notifyPush: guard released, notify_all still due.    *)
(***************************************************************************)
Places == {"idle", "sleepPop", "sleepPush", "woken", "notifyPop", "notifyPush"}

Init == /\ queue = << >>
        /\ maxSize \in MaxSizes
        /\ blocking \in BOOLEAN
        /\ destructed = FALSE
        /\ pc = [t \in Threads |-> "idle"]
        /\ op = [t \in Threads |-> "none"]
        /\ data = [t \in Threads |-> 0]
        /\ calls = 0
        /\ accepted = << >>
        /\ left = << >>
        /\ dropped = {}
        /\ silent = FALSE

-----------------------------------------------------------------------------
(* The pieces the operations are made of. *)

\* The predicate the wait of operation o is given.
Ready(o) == \/ destructed
            \/ o \in PushOps /\ Len(queue) < maxSize
            \/ o \in PopOps \cup ConsumeOps /\ queue # << >>
            \/ o = "waitEmpty" /\ queue = << >>

\* The condition variable it waits on: signalPop for pushes and waitEmpty.
Sleep(o) == IF o \in PushOps \cup {"waitEmpty"} THEN "sleepPop" ELSE "sleepPush"

Goto(t, place, o, m) == /\ pc' = [pc EXCEPT ![t] = place]
                        /\ op' = [op EXCEPT ![t] = o]
                        /\ data' = [data EXCEPT ![t] = m]

Return(t) == Goto(t, "idle", "none", 0)

Drops(k) == {queue[i] : i \in 1 .. k}

\* Overwrite the k oldest messages, then append m.
Enqueue(m, k) == /\ queue' = Append(SubSeq(queue, k + 1, Len(queue)), m)
                 /\ accepted' = Append(accepted, m)
                 /\ left' = left \o SubSeq(queue, 1, k)
                 /\ dropped' = dropped \cup Drops(k)

\* Faulty variant: the newest messages are handed out first.
DequeueNewest(k) == /\ queue' = SubSeq(queue, 1, Len(queue) - k)
                    /\ left' = left \o SubSeq(queue, Len(queue) - k + 1, Len(queue))
                    /\ UNCHANGED <<accepted, dropped>>

\* Hand the k oldest messages to the caller.
Dequeue(k) == /\ queue' = SubSeq(queue, k + 1, Len(queue))
              /\ left' = left \o SubSeq(queue, 1, k)
              /\ UNCHANGED <<accepted, dropped>>

\* How many messages a non-blocking push has to remove first.
Excess == IF Len(queue) < maxSize THEN 0 ELSE Len(queue) - maxSize + 1

\* The wait's predicate does not hold: release the guard and park.
Park(t, o, m) == /\ ~Ready(o)
                 /\ Goto(t, Sleep(o), o, m)
                 /\ UNCHANGED <<fields, history, silent>>

(***************************************************************************)
(* The wait's predicate holds: what operation o does with the guard held.  *)
(* A destructed queue makes every waiting operation return empty-handed.   *)
(***************************************************************************)
Proceed(t, o, m) ==
    /\ Ready(o)
    /\ \/ /\ destructed \/ o = "waitEmpty"
          /\ Return(t)
          /\ UNCHANGED <<queue, history>>
       \/ /\ ~destructed /\ o \in PushOps
          /\ Enqueue(m, 0)
          /\ Goto(t, "notifyPush", "none", 0)
       \/ /\ ~destructed /\ o \in PopOps
          /\ Dequeue(1)
          /\ Goto(t, "notifyPop", "none", 0)
       \/ /\ ~destructed /\ o \in ConsumeOps
          /\ Dequeue(Len(queue))
          /\ Goto(t, "notifyPop", "none", 0)
    /\ UNCHANGED <<maxSize, blocking, destructed, silent>>

-----------------------------------------------------------------------------
(* Producers: push and tryWaitAndPush. *)

NewCall(t) == /\ pc[t] = "idle"
              /\ calls < MaxMsgs
              /\ calls' = calls + 1

(***************************************************************************)
(* maxSize = 0: whatever the queue still holds is discarded, the message   *)
(* is not stored, true is returned and nobody is notified.                 *)
(***************************************************************************)
PushIntoZero(t) ==
    /\ NewCall(t)
    /\ maxSize = 0
    /\ queue' = << >>
    /\ left' = left \o queue
    /\ dropped' = dropped \cup Drops(Len(queue))
    /\ silent' = (silent \/ queue # << >>)
    /\ UNCHANGED <<maxSize, blocking, destructed, pc, op, data, accepted>>

\* Faulty variant: the overwriting push returns before its notify_all.
PushOverwritingSilently(t) ==
    /\ NewCall(t)
    /\ maxSize # 0 /\ ~blocking
    /\ Enqueue(calls', Excess)
    /\ Return(t)
    /\ UNCHANGED <<maxSize, blocking, destructed, silent>>

\* Non-blocking: the oldest messages make room; destructed is not looked at.
PushOverwriting(t) ==
    /\ NewCall(t)
    /\ maxSize # 0 /\ ~blocking
    /\ Enqueue(calls', Excess)
    /\ Goto(t, "notifyPush", "none", 0)
    /\ UNCHANGED <<maxSize, blocking, destructed, silent>>

PushBlocking(t, o) ==
    /\ NewCall(t)
    /\ maxSize # 0 /\ blocking
    /\ Park(t, o, calls') \/ Proceed(t, o, calls')

Push(t) == \/ PushIntoZero(t)
           \/ PushOverwriting(t)
           \/ \E o \in PushOps : PushBlocking(t, o)

-----------------------------------------------------------------------------
(* Consumers. *)

\* waitAndPop, tryWaitAndPop, both waitAndConsumeAll, waitEmpty.
WaitingCall(t, o) ==
    /\ pc[t] = "idle"
    /\ Park(t, o, 0) \/ Proceed(t, o, 0)
    /\ UNCHANGED calls

\* tryPop (k = 1) and consumeAll (k = size) never wait and ignore destructed.
ImmediatePop(t) ==
    /\ pc[t] = "idle"
    /\ queue # << >>
    /\ \E k \in {1, Len(queue)} : Dequeue(k)
    /\ Goto(t, "notifyPop", "none", 0)
    /\ UNCHANGED <<maxSize, blocking, destructed, calls, silent>>

Pop(t) == \/ \E o \in PopOps \cup ConsumeOps \cup {"waitEmpty"} : WaitingCall(t, o)
          \/ ImmediatePop(t)

-----------------------------------------------------------------------------
(* The condition variables. *)

\* Faulty variant: a woken push does not look at destructed.
ResumeIgnoringClose(t) ==
    /\ pc[t] = "woken"
    /\ op[t] \in PushOps /\ Len(queue) < maxSize
    /\ Enqueue(data[t], 0)
    /\ Goto(t, "notifyPush", "none", 0)
    /\ UNCHANGED <<maxSize, blocking, destructed, calls, silent>>

\* A woken thread has the guard again and re-evaluates its predicate.
Resume(t) ==
    /\ pc[t] = "woken"
    /\ Park(t, op[t], data[t]) \/ Proceed(t, op[t], data[t])
    /\ UNCHANGED calls

\* wait_for ran out of time: the predicate is evaluated once more.
TimeOut(t) ==
    /\ pc[t] \in {"sleepPop", "sleepPush", "woken"}
    /\ op[t] \in TimedOps
    /\ \/ Proceed(t, op[t], data[t])
       \/ /\ ~Ready(op[t])
          /\ Return(t)
          /\ UNCHANGED <<fields, history, silent>>
    /\ UNCHANGED calls

Awaken(place) == [u \in Threads |-> IF pc[u] = place THEN "woken" ELSE pc[u]]

NotifyPop(t) ==
    /\ pc[t] = "notifyPop"
    /\ pc' = [Awaken("sleepPop") EXCEPT ![t] = "idle"]
    /\ silent' = FALSE
    /\ UNCHANGED <<fields, op, data, calls, history>>

NotifyPush(t) ==
    /\ pc[t] = "notifyPush"
    /\ pc' = [Awaken("sleepPush") EXCEPT ![t] = "idle"]
    /\ UNCHANGED <<fields, op, data, calls, history, silent>>

SpuriousWakeup(t) ==
    /\ pc[t] \in {"sleepPop", "sleepPush"}
    /\ pc' = [pc EXCEPT ![t] = "woken"]
    /\ UNCHANGED <<fields, op, data, calls, history, silent>>

-----------------------------------------------------------------------------
(* Configuration and closing, from any thread. *)

\* No condition variable is notified, whatever the new size allows.
setMaxSize ==
    /\ \E sz \in MaxSizes : /\ maxSize' = sz
                            /\ silent' = (silent \/ sz > maxSize)
    /\ UNCHANGED <<queue, blocking, destructed, pc, op, data, calls, history>>

setBlocking ==
    /\ blocking' = ~blocking
    /\ UNCHANGED <<queue, maxSize, destructed, pc, op, data, calls, history, silent>>

\* Faulty variant: destruct() forgets the threads waiting on signalPop.
destructPushOnly ==
    /\ ~destructed
    /\ destructed' = TRUE
    /\ pc' = Awaken("sleepPush")
    /\ UNCHANGED <<queue, maxSize, blocking, op, data, calls, history, silent>>

destruct ==
    /\ ~destructed
    /\ destructed' = TRUE
    /\ pc' = [u \in Threads |-> IF pc[u] \in {"sleepPop", "sleepPush"}
                                THEN "woken" ELSE pc[u]]
    /\ silent' = FALSE
    /\ UNCHANGED <<queue, maxSize, blocking, op, data, calls, history>>

-----------------------------------------------------------------------------
Next == \/ \E t \in Producers : Push(t)
        \/ \E t \in Consumers : Pop(t)
        \/ \E t \in Threads : \/ Resume(t) \/ TimeOut(t)
                              \/ NotifyPop(t) \/ NotifyPush(t)
                              \/ SpuriousWakeup(t)
        \/ setMaxSize \/ setBlocking \/ destruct

(***************************************************************************)
(* A thread that was notified gets the guard, a thread past its critical   *)
(* section issues its notification, and a timed wait runs out.  Nothing    *)
(* obliges anybody to make a call.                                         *)
(***************************************************************************)
Fairness == \A t \in Threads : /\ WF_vars(Resume(t))
                               /\ WF_vars(NotifyPop(t))
                               /\ WF_vars(NotifyPush(t))
                               /\ WF_vars(TimeOut(t))

Spec == Init /\ [][Next]_vars

-----------------------------------------------------------------------------
(* Properties. *)

\* Type invariant: fields, thread places and histories stay in their domains.
TypeOK == /\ queue \in Seq(Msgs)
          /\ maxSize \in MaxSizes
          /\ blocking \in BOOLEAN
          /\ destructed \in BOOLEAN
          /\ pc \in [Threads -> Places]
          /\ op \in [Threads -> Ops]
          /\ data \in [Threads -> 0 .. MaxMsgs]
          /\ calls \in 0 .. MaxMsgs
          /\ accepted \in Seq(Msgs)
          /\ left \in Seq(Msgs)
          /\ dropped \subseteq Msgs
          /\ silent \in BOOLEAN

Asleep(t) == pc[t] \in {"sleepPop", "sleepPush"}

(***************************************************************************)
(* Accepted messages leave in the order they were accepted, each at most   *)
(* once, and none is lost between the two ends: push appends at the back,  *)
(* the overwriting push, waitAndPop, tryPop and consumeAll all remove from *)
(* the front (LockingQueue.hpp:139-356).                                   *)
(***************************************************************************)
FifoExactlyOnce == /\ accepted = left \o queue
                   /\ \A i, j \in DOMAIN accepted :
                         accepted[i] = accepted[j] => i = j

(***************************************************************************)
(* No consumer sleeps through a message: while one is parked on signalPush *)
(* and the queue holds a message, the push that stored it has still to     *)
(* issue its notify_all, although it does so after releasing the guard     *)
(* (LockingQueue.hpp:183, 215, 254, 293).                                  *)
(***************************************************************************)
NoMissedPush == (queue # << >> /\ \E t \in Threads : pc[t] = "sleepPush")
                   => \E u \in Threads : pc[u] = "notifyPush"

(***************************************************************************)
(* No producer sleeps through free room, and no waitEmpty through an empty *)
(* queue: the pop that made it has still to notify signalPop.  The only    *)
(* exceptions are room made by setMaxSize and emptiness made by a push     *)
(* into a queue of size 0, which notify nobody (LockingQueue.hpp:48, 160). *)
(***************************************************************************)
NoMissedPop == (\E t \in Threads : pc[t] = "sleepPop" /\ Ready(op[t]))
                  => silent \/ \E u \in Threads : pc[u] = "notifyPop"

(***************************************************************************)
(* destruct() leaves nobody parked and nobody parks afterwards, although   *)
(* it notifies before it sets the flag (LockingQueue.hpp:84-91).           *)
(***************************************************************************)
ClosedParksNobody == destructed => \A t \in Threads : ~Asleep(t)

(***************************************************************************)
(* Nobody sleeps on: not past a message, not past room or emptiness, not  *)
(* past the queue's end, although every notify_all comes after the guard   *)
(* was released (LockingQueue.hpp:183, 322).                               *)
(***************************************************************************)
NobodySleepsOn == NoMissedPush /\ NoMissedPop /\ ClosedParksNobody

(***************************************************************************)
(* The queue grows only within maxSize as it is at that moment, also for a *)
(* producer that was parked while maxSize shrank, while others took the    *)
(* room, or that woke spuriously (LockingQueue.hpp:171-177).               *)
(***************************************************************************)
GrowsWithinMaxSize ==
    [][Len(queue') > Len(queue) => Len(queue') <= maxSize]_vars

(***************************************************************************)
(* "Closes the queue and unblocks any waiting consumers or producers"      *)
(* (MessageQueue.hpp:153-156): after destruct() every operation in         *)
(* progress returns.                                                       *)
(***************************************************************************)
CloseUnblocks == \A t \in Threads :
                    destructed /\ pc[t] # "idle" ~> pc[t] = "idle"

(***************************************************************************)
(* No operation stalls: a consumer waiting for a message that stays in the *)
(* queue returns, and so does a producer waiting for room that stays free, *)
(* unless that room was made without a notification (LockingQueue.hpp:48,  *)
(* 160).                                                                   *)
(***************************************************************************)
NoStall ==
    /\ \A c \in Consumers :
          (op[c] \in PopOps \cup ConsumeOps /\ queue # << >>)
             ~> (pc[c] = "idle" \/ queue = << >>)
    /\ \A p \in Producers :
          (op[p] \in PushOps /\ Len(queue) < maxSize)
             ~> (pc[p] = "idle" \/ Len(queue) >= maxSize \/ silent)

(***************************************************************************)
(* Every operation returns: after destruct(), or when what it waits for is *)
(* there.                                                                  *)
(***************************************************************************)
OperationsReturn == CloseUnblocks /\ NoStall

(***************************************************************************)
(* "Can either block if 'blocking' behavior is true or overwrite oldest"   *)
(* (MessageQueue.hpp:547-552): a producer blocked in push does not stay    *)
(* blocked in a queue that has been switched to overwriting.               *)
(***************************************************************************)
BlocksOnlyWhileBlocking ==
    \A t \in Producers :
        (Asleep(t) /\ ~blocking) ~> (~Asleep(t) \/ blocking)

\* The abstract contract this queue implements.
Contract == INSTANCE QueueContract
              WITH chan <- queue, log <- accepted, capacity <- maxSize,
                   lossy <- ~blocking, closed <- destructed,
                   Messages <- Msgs, Capacities <- MaxSizes

(***************************************************************************)
(* Seen from outside, the queue with all its threads, wake-ups and         *)
(* time-outs behaves like the bounded FIFO of QueueContract: in blocking   *)
(* mode nothing is overwritten and nothing admitted after destruct().      *)
(***************************************************************************)
ImplementsContract == Contract!Spec
=============================================================================

---------------------------- MODULE MessageQueue ----------------------------
(***************************************************************************)
(* dai::MessageQueue (src/pipeline/MessageQueue.cpp): several queues, the  *)
(* clients that send to and close them, and the one thread that waits for  *)
(* any of them with MessageQueue::waitAny and getAny.  The LockingQueue in *)
(* each MessageQueue is taken at its contract: a push is one step that may *)
(* be delayed while the queue is full.  Every lock that waitAny takes and  *)
(* releases again (isClosed, has, tryGet, addNotifier) is a step of its    *)
(* own, since the queues change between them.                              *)
(***************************************************************************)
EXTENDS Naturals, Sequences

CONSTANTS NQueues,  \* number of queues waited on, in the order they are given
          Clients,  \* threads that send and close
          Cap,      \* maxSize of every queue
          MaxMsgs   \* bound: number of send calls

ASSUME NQueuesAssumption == NQueues \in Nat \ {0}
ASSUME CapAssumption == Cap \in Nat \ {0}
ASSUME MsgsAssumption == MaxMsgs \in Nat

Queues == 1 .. NQueues
Msgs == 1 .. MaxMsgs

VARIABLES
    \* per queue: contents, closed flag, blocking flag
    msgs, closed, blocking,
    \* queues in which the waiter's notifier is registered
    notifiers,
    \* the clients: place, queue they work on, message they send
    at, on, data,
    \* the waiter: place, queue index, evaluation in progress, BinarySemaphore,
    \* whether it was given a timeout and whether that expired
    wpc, i, phase, available, timed, expired,
    \* results of waitAny and getAny, messages collected so far
    got, inputs, outcome,
    \* history: send calls, messages callbacks were called with, messages the
    \* queue refused, messages given to getAny's caller, messages thrown away
    calls, heard, refused, delivered, lost

cvars == <<at, on, data>>
wvars == <<wpc, i, phase, available, timed, expired, got, inputs, outcome>>
hvars == <<calls, heard, refused, delivered, lost>>
vars == <<msgs, closed, blocking, notifiers, at, on, data, wpc, i, phase,
          available, timed, expired, got, inputs, outcome,
          calls, heard, refused, delivered, lost>>

Init == /\ msgs = [q \in Queues |-> << >>]
        /\ closed = [q \in Queues |-> FALSE]
        /\ blocking \in [Queues -> BOOLEAN]
        /\ notifiers = {}
        /\ at = [c \in Clients |-> "idle"]
        /\ on = [c \in Clients |-> 1]
        /\ data = [c \in Clients |-> 0]
        /\ wpc = "idle" /\ i = 1 /\ phase = "first"
        /\ available = FALSE /\ timed = FALSE /\ expired = FALSE
        /\ got = FALSE /\ inputs = {} /\ outcome = "none"
        /\ calls = 0 /\ heard = {} /\ refused = {} /\ delivered = {} /\ lost = {}

-----------------------------------------------------------------------------
(* Clients: send, send with timeout, trySend, close. *)

Goto(c, place, q, m) == /\ at' = [at EXCEPT ![c] = place]
                        /\ on' = [on EXCEPT ![c] = q]
                        /\ data' = [data EXCEPT ![c] = m]

\* send(msg): the queue is open; then the callbacks get the message.
send(c, q) == /\ at[c] = "idle" /\ calls < MaxMsgs
              /\ ~closed[q]
              /\ calls' = calls + 1
              /\ heard' = heard \cup {calls'}
              /\ Goto(c, "push", q, calls')
              /\ UNCHANGED <<msgs, closed, blocking, notifiers, wvars,
                             refused, delivered, lost>>

(***************************************************************************)
(* send(msg, timeout), and trySend with timeout 0: the callbacks get the   *)
(* message first, then a closed queue makes the call throw.                *)
(***************************************************************************)
sendTimed(c, q) ==
    /\ at[c] = "idle" /\ calls < MaxMsgs
    /\ calls' = calls + 1
    /\ heard' = heard \cup {calls'}
    /\ \/ ~closed[q] /\ Goto(c, "tryPush", q, calls') /\ UNCHANGED refused
       \/ closed[q] /\ refused' = refused \cup {calls'} /\ UNCHANGED cvars
    /\ UNCHANGED <<msgs, closed, blocking, notifiers, wvars, delivered, lost>>

\* Faulty variant: the timed send does not tell the listeners.
PushTimedSilently(c) ==
    LET q == on[c]
    IN  /\ at[c] \in {"push", "tryPush"}
        /\ Len(msgs[q]) < Cap /\ ~closed[q]
        /\ msgs' = [msgs EXCEPT ![q] = Append(@, data[c])]
        /\ Goto(c, IF at[c] = "push" THEN "notify" ELSE "idle", q, 0)
        /\ UNCHANGED <<closed, blocking, notifiers, wvars, hvars>>

\* LockingQueue::push and tryWaitAndPush, once they can proceed.
Push(c) ==
    LET q == on[c]
        full == Len(msgs[q]) >= Cap
    IN  /\ at[c] \in {"push", "tryPush"}
        /\ \/ /\ ~blocking[q] \/ (~full /\ ~closed[q])
              /\ msgs' = [msgs EXCEPT ![q] = Append(IF full THEN Tail(@) ELSE @, data[c])]
              /\ Goto(c, "notify", q, 0)
              /\ UNCHANGED refused
           \* closed meanwhile: push has its listeners notified all the same
           \/ /\ blocking[q] /\ closed[q]
              /\ refused' = refused \cup {data[c]}
              /\ Goto(c, IF at[c] = "push" THEN "notify" ELSE "idle", q, 0)
              /\ UNCHANGED msgs
        /\ UNCHANGED <<closed, blocking, notifiers, wvars, calls, heard, delivered, lost>>

\* The timeout of tryWaitAndPush runs out in a full queue.
PushTimeOut(c) ==
    /\ at[c] = "tryPush"
    /\ blocking[on[c]] /\ Len(msgs[on[c]]) >= Cap /\ ~closed[on[c]]
    /\ refused' = refused \cup {data[c]}
    /\ Goto(c, "idle", on[c], 0)
    /\ UNCHANGED <<msgs, closed, blocking, notifiers, wvars, calls, heard, delivered, lost>>

\* Faulty variant: close() does not tell the listeners.
closeSilently(c, q) ==
    /\ at[c] = "idle" /\ ~closed[q]
    /\ closed' = [closed EXCEPT ![q] = TRUE]
    /\ UNCHANGED <<msgs, blocking, notifiers, cvars, wvars, hvars>>

close(c, q) == /\ at[c] = "idle" /\ ~closed[q]
               /\ closed' = [closed EXCEPT ![q] = TRUE]
               /\ Goto(c, "notify", q, 0)
               /\ UNCHANGED <<msgs, blocking, notifiers, wvars, hvars>>

\* notifyListeners: BinarySemaphore::release of every registered notifier.
notifyListeners(c) ==
    /\ at[c] = "notify"
    /\ available' = (available \/ on[c] \in notifiers)
    /\ Goto(c, "idle", on[c], 0)
    /\ UNCHANGED <<msgs, closed, blocking, notifiers, wpc, i, phase, timed,
                   expired, got, inputs, outcome, hvars>>

-----------------------------------------------------------------------------
(* The waiter: getAny, and waitAny inside it. *)

Frame == UNCHANGED <<msgs, closed, blocking, cvars, hvars>>

Walk(place, idx, ph) == wpc' = place /\ i' = idx /\ phase' = ph

getAny == /\ wpc = "idle"
          /\ Walk("add", 1, "first")
          /\ timed' \in BOOLEAN
          /\ available' = FALSE /\ expired' = FALSE
          /\ got' = FALSE /\ inputs' = {} /\ outcome' = "none"
          /\ UNCHANGED notifiers /\ Frame

addNotifier == /\ wpc = "add"
               /\ notifiers' = notifiers \cup {i}
               /\ IF i < NQueues THEN Walk("add", i + 1, phase)
                                 ELSE Walk("allClosed", 1, "first")
               /\ UNCHANGED <<available, timed, expired, got, inputs, outcome>>
               /\ Frame

(***************************************************************************)
(* checkAllClosed, one isClosed per step.  All closed: nothing to wait     *)
(* for, and the wait's predicate is true.  One open: look for messages.    *)
(***************************************************************************)
checkAllClosed ==
    /\ wpc = "allClosed"
    /\ IF ~closed[i] THEN Walk("isClosed", 1, phase)
       ELSE IF i < NQueues THEN Walk("allClosed", i + 1, phase)
       ELSE Walk("isClosed", 1, "last")
    /\ UNCHANGED <<notifiers, available, timed, expired, got, inputs, outcome>>
    /\ Frame

(***************************************************************************)
(* What follows a complete checkForMessages: before the wait it decides    *)
(* whether to wait (where the predicate is evaluated anew), in the wait    *)
(* whether to sleep, after the wait it is waitAny's result.                *)
(***************************************************************************)
Found(b) == CASE phase = "first" /\ ~b -> Walk("allClosed", 1, "pred") /\ UNCHANGED got
              [] phase = "pred" /\ ~b  -> Walk("acquire", 1, "pred") /\ UNCHANGED got
              [] phase = "last"        -> Walk("remove", 1, "last") /\ got' = b
              [] OTHER                 -> Walk("isClosed", 1, "last") /\ UNCHANGED got

NextQueue == IF i < NQueues THEN Walk("isClosed", i + 1, phase) /\ UNCHANGED got
                            ELSE Found(FALSE)

isClosed == /\ wpc = "isClosed"
            /\ IF closed[i] THEN NextQueue ELSE Walk("has", i, phase) /\ UNCHANGED got
            /\ UNCHANGED <<notifiers, available, timed, expired, inputs, outcome>>
            /\ Frame

(***************************************************************************)
(* has() throws when the queue was closed since isClosed.  The wait's      *)
(* predicate catches it and is true; elsewhere it leaves waitAny.          *)
(***************************************************************************)
has == /\ wpc = "has"
       /\ IF ~closed[i] THEN Walk("empty", i, phase) /\ UNCHANGED outcome
          ELSE IF phase = "pred" THEN Walk("isClosed", 1, "last") /\ UNCHANGED outcome
          ELSE Walk("remove", 1, phase) /\ outcome' = "threw"
       /\ UNCHANGED <<notifiers, available, timed, expired, got, inputs>>
       /\ Frame

empty == /\ wpc = "empty"
         /\ IF msgs[i] = << >> THEN NextQueue ELSE Found(TRUE)
         /\ UNCHANGED <<notifiers, available, timed, expired, inputs, outcome>>
         /\ Frame

\* BinarySemaphore::acquire, then the predicate again.
acquire == /\ wpc = "acquire"
           /\ available
           /\ available' = FALSE
           /\ Walk("allClosed", 1, "pred")
           /\ UNCHANGED <<notifiers, timed, expired, got, inputs, outcome>>
           /\ Frame

\* The deadline passes; what the predicate says then does not matter.
waitForTimeOut == /\ wpc = "acquire"
                  /\ timed /\ ~available
                  /\ expired' = TRUE
                  /\ Walk("isClosed", 1, "last")
                  /\ UNCHANGED <<notifiers, available, timed, got, inputs, outcome>>
                  /\ Frame

\* removeNotifiers, on the way out of waitAny in either way.
removeNotifiers ==
    /\ wpc = "remove"
    /\ notifiers' = notifiers \ {i}
    /\ IF i < NQueues THEN Walk("remove", i + 1, phase) /\ UNCHANGED outcome
       ELSE IF outcome = "threw" THEN Walk("idle", 1, "first") /\ UNCHANGED outcome
       ELSE IF got THEN Walk("get", 1, phase) /\ UNCHANGED outcome
       ELSE Walk("idle", 1, "first") /\ outcome' = "empty"
    /\ UNCHANGED <<available, timed, expired, got, inputs>>
    /\ Frame

\* getAny's tryGet of queue i: throws if closed, and drops what was collected.
tryGet == /\ wpc = "get"
          /\ IF ~closed[i]
             THEN Walk("pop", i, phase) /\ UNCHANGED <<outcome, lost>>
             ELSE /\ Walk("idle", 1, "first")
                  /\ outcome' = "threw"
                  /\ lost' = lost \cup inputs
          /\ UNCHANGED <<msgs, closed, blocking, notifiers, cvars, available, timed,
                         expired, got, inputs, calls, heard, refused, delivered>>

\* Faulty variant: the message is copied and stays in the queue.
tryPopCopy == /\ wpc = "pop"
              /\ inputs' = inputs \cup {Head(msgs[i]) : q \in {j \in {i} : msgs[j] # << >>}}
              /\ IF i < NQueues
                 THEN Walk("get", i + 1, phase) /\ UNCHANGED <<outcome, delivered>>
                 ELSE /\ Walk("idle", 1, "first")
                      /\ outcome' = "messages"
                      /\ delivered' = delivered \cup inputs'
              /\ UNCHANGED <<msgs, closed, blocking, notifiers, cvars, available, timed,
                             expired, got, calls, heard, refused, lost>>

tryPop == /\ wpc = "pop"
          /\ IF msgs[i] = << >> THEN UNCHANGED <<msgs, inputs>>
             ELSE /\ inputs' = inputs \cup {Head(msgs[i])}
                  /\ msgs' = [msgs EXCEPT ![i] = Tail(@)]
          /\ IF i < NQueues
             THEN Walk("get", i + 1, phase) /\ UNCHANGED <<outcome, delivered>>
             ELSE /\ Walk("idle", 1, "first")
                  /\ outcome' = "messages"
                  /\ delivered' = delivered \cup inputs'
          /\ UNCHANGED <<closed, blocking, notifiers, cvars, available, timed,
                         expired, got, calls, heard, refused, lost>>

Waiter == \/ getAny \/ addNotifier \/ checkAllClosed \/ isClosed \/ has \/ empty
          \/ acquire \/ waitForTimeOut \/ removeNotifiers \/ tryGet \/ tryPop

Next == \/ \E c \in Clients : \/ \E q \in Queues : send(c, q) \/ sendTimed(c, q) \/ close(c, q)
                              \/ Push(c) \/ PushTimeOut(c) \/ notifyListeners(c)
        \/ Waiter

(***************************************************************************)
(* A call of getAny in progress, and a client that pushed or closed, are   *)
(* scheduled.  Neither sends, closes nor further calls are promised.       *)
(***************************************************************************)
Fairness == /\ WF_vars(Waiter /\ wpc # "idle")
            /\ \A c \in Clients : WF_vars(notifyListeners(c))

Spec == Init /\ [][Next]_vars
FairSpec == Spec /\ Fairness

-----------------------------------------------------------------------------
(* Properties. *)

\* Type invariant of the queues, the clients and the waiter.
TypeOK ==
    /\ msgs \in [Queues -> Seq(Msgs)]
    /\ closed \in [Queues -> BOOLEAN]
    /\ blocking \in [Queues -> BOOLEAN]
    /\ notifiers \subseteq Queues
    /\ at \in [Clients -> {"idle", "push", "tryPush", "notify"}]
    /\ on \in [Clients -> Queues]
    /\ data \in [Clients -> 0 .. MaxMsgs]
    /\ wpc \in {"idle", "add", "allClosed", "isClosed", "has", "empty", "acquire",
                "remove", "get", "pop"}
    /\ i \in Queues
    /\ phase \in {"first", "pred", "last"}
    /\ available \in BOOLEAN /\ timed \in BOOLEAN /\ expired \in BOOLEAN /\ got \in BOOLEAN
    /\ inputs \subseteq Msgs
    /\ outcome \in {"none", "messages", "empty", "threw"}
    /\ calls \in 0 .. MaxMsgs
    /\ heard \subseteq Msgs /\ refused \subseteq Msgs
    /\ delivered \subseteq Msgs /\ lost \subseteq Msgs

AllClosed == \A q \in Queues : closed[q]
HasMessage(q) == ~closed[q] /\ msgs[q] # << >>

(***************************************************************************)
(* waitAny never sleeps through a message or through the last close: the   *)
(* client that made the difference has still to notify (the notifier is    *)
(* registered before the first look at the queues, MessageQueue.cpp:247,   *)
(* and released after every change, :161, :186, :35).                      *)
(***************************************************************************)
WaitAnyMissesNothing ==
    wpc = "acquire" /\ ~available =>
       /\ \A q \in Queues : HasMessage(q) => \E c \in Clients : at[c] = "notify" /\ on[c] = q
       /\ AllClosed => \E c \in Clients : at[c] = "notify"

(***************************************************************************)
(* No notifier outlives its call, whichever way waitAny is left            *)
(* (MessageQueue.cpp:261-265): otherwise the queues would keep and notify  *)
(* a growing list of dead listeners.                                       *)
(***************************************************************************)
NotifiersRemoved == wpc \in {"idle", "get", "pop"} => notifiers = {}

\* waitAny, whatever happens while it registers, waits and cleans up.
WaitAnyIsSound == WaitAnyMissesNothing /\ NotifiersRemoved

(***************************************************************************)
(* No message is delivered twice or after its queue refused it, and with   *)
(* blocking queues none vanishes: it is with its sender, refused, queued,  *)
(* being collected, delivered, or thrown away by getAny's exception        *)
(* (MessageQueue.cpp:140-188, 268-286).                                    *)
(***************************************************************************)
Queued == UNION {{msgs[q][k] : k \in DOMAIN msgs[q]} : q \in Queues}
MessagesAccounted ==
    /\ delivered \cap (Queued \cup refused \cup lost) = {}
    /\ wpc \in {"get", "pop"} => inputs \cap (Queued \cup delivered) = {}
    /\ refused \cap Queued = {}
    /\ (\A q \in Queues : blocking[q]) =>
          1 .. calls \subseteq refused \cup Queued \cup inputs \cup delivered \cup lost
                                \cup {data[c] : c \in Clients}

(***************************************************************************)
(* A call of getAny returns once there is a message in an open queue or    *)
(* all queues are closed, as long as that stays so.                        *)
(***************************************************************************)
Satisfied == AllClosed \/ \E q \in Queues : HasMessage(q)
GetAnyReturns == (wpc # "idle" /\ Satisfied) ~> (wpc = "idle" \/ ~Satisfied)

(***************************************************************************)
(* "True if at least one queue has a message available, false if all       *)
(* queues are closed or the timeout expires first" (MessageQueue.hpp:99):  *)
(* a waitAny that found nothing and did not time out leaves only closed    *)
(* queues behind.                                                          *)
(***************************************************************************)
FalseMeansAllClosed ==
    wpc = "remove" /\ outcome # "threw" /\ ~got => expired \/ AllClosed

(***************************************************************************)
(* "Mapping containing one available message per queue key, or an empty    *)
(* map if all queues are closed or the timeout expires first"              *)
(* (MessageQueue.hpp:108): no message that getAny took out of a queue      *)
(* disappears.                                                             *)
(***************************************************************************)
GetAnyLosesNothing == lost = {}

(***************************************************************************)
(* "Adds a callback on message received" (MessageQueue.hpp:202): callbacks *)
(* see only messages the queue received.                                   *)
(***************************************************************************)
CallbacksSeeReceived == heard \cap refused = {}
=============================================================================

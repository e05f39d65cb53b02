-------------------------- MODULE DeviceReconnect --------------------------
(***************************************************************************)
(* Losing the link to a device, reconnecting, and closing it:              *)
(*   - the watchdog thread that pings the device, the monitor thread that  *)
(*     notices a lost link and reconnects, and DeviceBase::close           *)
(*     (src/device/DeviceBase.cpp);                                        *)
(*   - the XLinkInHost and XLinkOutHost nodes that carry the messages, and *)
(*     park on isWaitingForReconnect when their stream fails               *)
(*     (src/pipeline/node/internal);                                       *)
(*   - PipelineImpl::resetConnections, disconnectXLinkHosts and stop.      *)
(*                                                                         *)
(* Connections are numbered in the order they are made; 0 stands for the   *)
(* null pointer.  The host queues a node uses are reduced to whether they  *)
(* are closed.  A link is "up", "stalled" (calls block) or "down" (calls   *)
(* fail); XLinkConnection::close brings it down.                           *)
(***************************************************************************)
EXTENDS Integers, FiniteSets

CONSTANTS InHosts, OutHosts,       \* XLinkInHost and XLinkOutHost nodes
          MaxConns,                \* bound: connections ever made
          MaxReconnectionAttempts

ASSUME ReconnectAssumption == /\ IsFiniteSet(InHosts \cup OutHosts)
                              /\ InHosts \cap OutHosts = {}
                              /\ MaxConns \in Nat \ {0}
                              /\ MaxReconnectionAttempts \in Nat

Hosts == InHosts \cup OutHosts
Conns == 1 .. MaxConns
Null == 0

VARIABLES link,             \* state of each connection
          connection,       \* DeviceBase::connection
          watchdogRunning, isClosing, closed,
          closedMtx,        \* who holds it: "user", "monitor" or "nobody"
          wd, wdConn,       \* the watchdog thread's place and connection
          wdJoinable,
          mon, attempts,    \* the monitor's place and loop counter
          todo, half,       \* nodes left to visit; the one written but not yet notified
          user, resume,     \* the closing thread's place and where close returns to
          pc, conn, strm,   \* per node: place, member conn, connection of its stream
          isDisconnected, running, qclosed

dvars == <<link, connection, watchdogRunning, isClosing, closed, closedMtx>>
wvars == <<wd, wdConn, wdJoinable>>
mvars == <<mon, attempts, todo, half>>
uvars == <<user, resume>>
nvars == <<pc, conn, strm, isDisconnected, running, qclosed>>
vars == <<link, connection, watchdogRunning, isClosing, closed, closedMtx, wd, wdConn,
          wdJoinable, mon, attempts, todo, half, user, resume, pc, conn, strm,
          isDisconnected, running, qclosed>>

\* The device is connected and the pipeline was just started.
Init == /\ link = [c \in Conns |-> IF c = 1 THEN "up" ELSE "unborn"]
        /\ connection = 1 /\ watchdogRunning = TRUE
        /\ isClosing = FALSE /\ closed = FALSE /\ closedMtx = "nobody"
        /\ wd = "write" /\ wdConn = 1 /\ wdJoinable = TRUE
        /\ mon = "watch" /\ attempts = 0 /\ todo = {} /\ half = {}
        /\ user = "idle" /\ resume = "idle"
        /\ pc = [n \in Hosts |-> "open"]
        /\ conn = [n \in Hosts |-> 1]
        /\ strm = [n \in Hosts |-> Null]
        /\ isDisconnected = [n \in Hosts |-> FALSE]
        /\ running = [n \in Hosts |-> TRUE]
        /\ qclosed = [n \in Hosts |-> FALSE]

Goto(n, place) == pc' = [pc EXCEPT ![n] = place]
CloseLink(c) == link' = [link EXCEPT ![c] = "down"]

\* The environment: the device crashes, is unplugged or stops answering.
LoseLink(c) == /\ link[c] \in {"up", "stalled"}
               /\ \E s \in {"stalled", "down"} : link' = [link EXCEPT ![c] = s]
               /\ link' # link
               /\ UNCHANGED <<connection, watchdogRunning, isClosing, closed, closedMtx,
                              wvars, mvars, uvars, nvars>>

-----------------------------------------------------------------------------
(* XLinkInHost::run and XLinkOutHost::run. *)

\* Faulty variant: XLinkInHost keeps its pointer to the connection.
openStreamKeeps(n) ==
    /\ pc[n] = "open" /\ conn[n] # Null /\ link[conn[n]] = "up"
    /\ strm' = [strm EXCEPT ![n] = conn[n]]
    /\ Goto(n, "loop")
    /\ UNCHANGED <<dvars, wvars, mvars, uvars, conn, isDisconnected, running, qclosed>>

(***************************************************************************)
(* Open the stream.  XLinkInHost moves conn into it.  A null connection    *)
(* raises std::invalid_argument, which no handler of the node's thread     *)
(* catches (the node is left in "terminate"; the process really ends, and  *)
(* what the other threads do then is of no interest); a dead link raises   *)
(* std::runtime_error, which stops the pipeline.                           *)
(***************************************************************************)
openStream(n) ==
    /\ pc[n] = "open"
    /\ \/ conn[n] = Null /\ Goto(n, "terminate") /\ UNCHANGED <<conn, strm, running>>
       \/ /\ conn[n] # Null /\ link[conn[n]] = "up"
          /\ strm' = [strm EXCEPT ![n] = conn[n]]
          /\ conn' = IF n \in InHosts THEN [conn EXCEPT ![n] = Null] ELSE conn
          /\ Goto(n, "loop") /\ UNCHANGED running
       \/ /\ conn[n] # Null /\ link[conn[n]] = "down"
          /\ conn' = IF n \in InHosts THEN [conn EXCEPT ![n] = Null] ELSE conn
          /\ running' = [running EXCEPT ![n] = FALSE]
          /\ Goto(n, "threw") /\ UNCHANGED strm
    /\ UNCHANGED <<dvars, wvars, mvars, uvars, isDisconnected, qclosed>>

\* mainLoop; then In reads the link and sends, Out gets and writes the link.
mainLoop(n) == /\ pc[n] = "loop"
               /\ Goto(n, IF ~running[n] THEN "ended"
                          ELSE IF n \in InHosts THEN "link" ELSE "queue")
               /\ UNCHANGED <<dvars, wvars, mvars, uvars, conn, strm, isDisconnected,
                              running, qclosed>>

\* readData or stream.write: fails on a dead link, blocks on a stalled one.
transfer(n) == /\ pc[n] = "link"
               /\ \/ link[strm[n]] = "up" /\ Goto(n, IF n \in InHosts THEN "queue" ELSE "loop")
                  \/ link[strm[n]] = "down" /\ Goto(n, "caught")
               /\ UNCHANGED <<dvars, wvars, mvars, uvars, conn, strm, isDisconnected,
                              running, qclosed>>

\* A message that cannot be parsed or is too large throws on a sound link too.
badMessage(n) == /\ pc[n] = "link" /\ link[strm[n]] = "up"
                 /\ Goto(n, "caught")
                 /\ UNCHANGED <<dvars, wvars, mvars, uvars, conn, strm, isDisconnected,
                                running, qclosed>>

\* out.send or in.get goes through: when that is depends on the other side.
queueReady(n) == /\ pc[n] = "queue" /\ ~qclosed[n]
                 /\ Goto(n, IF n \in InHosts THEN "loop" ELSE "link")
                 /\ UNCHANGED <<dvars, wvars, mvars, uvars, conn, strm, isDisconnected,
                                running, qclosed>>

\* QueueException: a handler of its own in In, the general one in Out.
queueThrows(n) == /\ pc[n] = "queue" /\ qclosed[n]
                  /\ Goto(n, IF n \in InHosts THEN "ended" ELSE "caught")
                  /\ UNCHANGED <<dvars, wvars, mvars, uvars, conn, strm, isDisconnected,
                                 running, qclosed>>

\* catch(std::exception): wait for a reconnect only while the node is running.
catchError(n) == /\ pc[n] = "caught"
                 /\ Goto(n, IF running[n] THEN "park" ELSE "ended")
                 /\ UNCHANGED <<dvars, wvars, mvars, uvars, conn, strm, isDisconnected,
                                running, qclosed>>

\* lock mtx; isWaitingForReconnect.wait(lck), which has no predicate.
park(n) == /\ pc[n] = "park"
           /\ Goto(n, "parked")
           /\ UNCHANGED <<dvars, wvars, mvars, uvars, conn, strm, isDisconnected,
                          running, qclosed>>

\* std::condition_variable::wait may return without a notification.
spuriousWake(n) == /\ pc[n] = "parked"
                   /\ Goto(n, "woken")
                   /\ UNCHANGED <<dvars, wvars, mvars, uvars, conn, strm, isDisconnected,
                                  running, qclosed>>

\* After the wait: throw std::runtime_error when disconnected, else reconnect.
wake(n) == /\ pc[n] = "woken"
           /\ \/ /\ isDisconnected[n]
                 /\ running' = [running EXCEPT ![n] = FALSE] /\ Goto(n, "threw")
              \/ ~isDisconnected[n] /\ Goto(n, "open") /\ UNCHANGED running
           /\ UNCHANGED <<dvars, wvars, mvars, uvars, conn, strm, isDisconnected, qclosed>>

HostStep(n) == \/ openStream(n) \/ mainLoop(n) \/ transfer(n) \/ queueThrows(n)
               \/ catchError(n) \/ park(n) \/ wake(n)

-----------------------------------------------------------------------------
(* The watchdog thread. *)

WatchdogEnds == wd' = "ended" /\ watchdogRunning' = FALSE

\* Faulty variant: the end of the thread is not recorded.
watchdogSilent == /\ wd = "write"
                  /\ \/ watchdogRunning /\ link[wdConn] = "up" /\ wd' = "sleep"
                     \/ (~watchdogRunning \/ link[wdConn] = "down") /\ wd' = "ended"
                  /\ UNCHANGED <<dvars, wdConn, wdJoinable, mvars, uvars, nvars>>

\* while(watchdogRunning) stream.write(...): a failed write ends the thread.
watchdogWrite == /\ wd = "write"
                 /\ \/ /\ watchdogRunning /\ link[wdConn] = "up"
                       /\ wd' = "sleep" /\ UNCHANGED watchdogRunning
                    \/ (~watchdogRunning \/ link[wdConn] = "down") /\ WatchdogEnds
                 /\ UNCHANGED <<link, connection, isClosing, closed, closedMtx, wdConn,
                                wdJoinable, mvars, uvars, nvars>>

\* watchdogCondVar.wait_for: the period elapses or the flag is cleared.
watchdogSleep == /\ wd = "sleep" /\ wd' = "write"
                 /\ UNCHANGED <<dvars, wdConn, wdJoinable, mvars, uvars, nvars>>

-----------------------------------------------------------------------------
(* The monitor thread. *)

MonGoto(place) == mon' = place /\ UNCHANGED <<attempts, half>>
Visit(place) == MonGoto(place) /\ todo' = Hosts

(***************************************************************************)
(* One round of waiting: leave when the watchdog has ended; when it has    *)
(* not pinged for two periods, which a stalled link causes, mark it ended  *)
(* and close the link.                                                     *)
(***************************************************************************)
monitorWatch == /\ mon = "watch"
                /\ \/ ~watchdogRunning /\ MonGoto("check") /\ UNCHANGED watchdogRunning
                   \/ /\ watchdogRunning /\ link[connection] = "stalled"
                      /\ watchdogRunning' = FALSE /\ MonGoto("miss")
                /\ UNCHANGED <<link, connection, isClosing, closed, closedMtx, todo, wvars,
                               uvars, nvars>>

\* connection->close() after a missed ping.
monitorMiss == /\ mon = "miss"
               /\ CloseLink(connection) /\ MonGoto("watch")
               /\ UNCHANGED <<connection, watchdogRunning, isClosing, closed, closedMtx,
                              todo, wvars, uvars, nvars>>

\* Closing, or no reconnection wanted: make the nodes throw.
monitorCheck == /\ mon = "check"
                /\ isClosing \/ MaxReconnectionAttempts = 0
                /\ Visit("disconnect")
                /\ UNCHANGED <<dvars, wvars, uvars, nvars>>

\* Otherwise join the watchdog thread before a new one is made.
monitorReconnect == /\ mon = "check" /\ ~isClosing /\ MaxReconnectionAttempts > 0
                    /\ MonGoto("join")
                    /\ UNCHANGED <<dvars, todo, wvars, uvars, nvars>>

(***************************************************************************)
(* watchdogThread.join(), after which a reconnection timeout of 0 (an      *)
(* environment variable) means giving up.  A thread that the user's close  *)
(* is joining at the same time is joined twice, which is undefined: the    *)
(* second join may throw.                                                  *)
(***************************************************************************)
monitorJoin == /\ mon = "join"
               /\ \/ wd = "ended" /\ wdJoinable' = FALSE /\ MonGoto("rearm") /\ UNCHANGED todo
                  \/ wd = "ended" /\ wdJoinable' = FALSE /\ Visit("disconnect")
                  \/ wdJoinable /\ user = "joinWd" /\ Visit("disconnect") /\ UNCHANGED wdJoinable
               /\ UNCHANGED <<dvars, wd, wdConn, uvars, nvars>>

\* watchdogRunning = true, whatever close has written meanwhile.
monitorRearm == /\ mon = "rearm"
                /\ watchdogRunning' = TRUE /\ mon' = "search" /\ attempts' = 0 /\ UNCHANGED half
                /\ UNCHANGED <<link, connection, isClosing, closed, closedMtx, todo, wvars,
                               uvars, nvars>>

\* The attempts: a device is found, unless closing has begun, or is not.
monitorSearch == /\ mon = "search"
                 /\ \/ /\ attempts < MaxReconnectionAttempts
                       /\ \/ isClosing /\ Visit("disconnect")
                          \/ ~isClosing /\ MonGoto("init") /\ UNCHANGED todo
                          \/ mon' = "search" /\ attempts' = attempts + 1 /\ UNCHANGED <<todo, half>>
                    \/ attempts = MaxReconnectionAttempts /\ Visit("disconnect")
                 /\ UNCHANGED <<dvars, wvars, uvars, nvars>>

\* init2: a new connection and watchdog, or an exception before there is one.
monitorInit == /\ mon = "init"
               /\ \/ /\ connection < MaxConns
                     /\ connection' = connection + 1
                     /\ link' = [link EXCEPT ![connection + 1] = "up"]
                     /\ wd' = "write" /\ wdConn' = connection + 1 /\ wdJoinable' = TRUE
                     /\ MonGoto("inited") /\ UNCHANGED todo
                  \/ Visit("disconnect") /\ UNCHANGED <<link, connection, wvars>>
               /\ UNCHANGED <<watchdogRunning, isClosing, closed, closedMtx, uvars, nvars>>

\* The calls at the end of init2 succeed, or fail and make it close the device;
\* or what comes before and after them throws (enableCrashDump, a crash dump, a
\* pipeline that is gone), and the link stays open.
monitorInited == /\ mon = "inited"
                 /\ \/ Visit("reset")
                    \/ MonGoto("close") /\ UNCHANGED todo
                    \/ Visit("disconnect")
                 /\ UNCHANGED <<dvars, wvars, uvars, nvars>>

(***************************************************************************)
(* close() in the monitor thread itself: closeImpl closes the link, clears *)
(* watchdogRunning, joins the watchdog, and then joins the monitor thread, *)
(* that is itself: join throws, closed stays false, and the exception ends *)
(* in the monitor's own handler.                                           *)
(***************************************************************************)
monitorClose == /\ mon = "close" /\ closedMtx = "nobody"
                /\ IF closed THEN Visit("disconnect") /\ UNCHANGED dvars
                   ELSE /\ closedMtx' = "monitor" /\ isClosing' = TRUE
                        /\ CloseLink(connection) /\ watchdogRunning' = FALSE
                        /\ MonGoto("closeJoin") /\ UNCHANGED <<connection, closed, todo>>
                /\ UNCHANGED <<wvars, uvars, nvars>>

monitorSelfJoin == /\ mon = "closeJoin" /\ wd = "ended"
                   /\ wdJoinable' = FALSE /\ closedMtx' = "nobody"
                   /\ Visit("disconnect")
                   /\ UNCHANGED <<link, connection, watchdogRunning, isClosing, closed, wd,
                                  wdConn, uvars, nvars>>

-----------------------------------------------------------------------------
(* PipelineImpl::resetConnections and disconnectXLinkHosts, node by node. *)

\* setConnection: conn is written outside the lock.
setConnection(n) == /\ mon = "reset" /\ half = {} /\ half' = {n}
                    /\ conn' = [conn EXCEPT ![n] = connection]
                    /\ UNCHANGED <<dvars, wvars, mon, attempts, todo, uvars, pc, strm,
                                   isDisconnected, running, qclosed>>

\* disconnect: so is isDisconnected.
disconnect(n) == /\ mon = "disconnect" /\ half = {} /\ half' = {n}
                 /\ isDisconnected' = [isDisconnected EXCEPT ![n] = TRUE]
                 /\ UNCHANGED <<dvars, wvars, mon, attempts, todo, uvars, pc, conn, strm,
                                running, qclosed>>

\* Faulty variant: the waiting node is not notified.
notifyNobody(n) == /\ half = {n} /\ half' = {} /\ todo' = todo \ {n}
                   /\ UNCHANGED <<dvars, wvars, mon, attempts, uvars, nvars>>

\* Both then lock mtx and call isWaitingForReconnect.notify_all().
notify(n) == /\ half = {n} /\ half' = {} /\ todo' = todo \ {n}
             /\ pc' = IF pc[n] = "parked" THEN [pc EXCEPT ![n] = "woken"] ELSE pc
             /\ UNCHANGED <<dvars, wvars, mon, attempts, uvars, conn, strm, isDisconnected,
                            running, qclosed>>

\* All nodes visited: restart the device's pipeline, which may throw; or return.
visited == /\ mon \in {"reset", "disconnect"} /\ todo = {}
           /\ \/ mon = "reset" /\ MonGoto("watch") /\ UNCHANGED todo
              \/ mon = "reset" /\ Visit("disconnect")
              \/ mon = "disconnect" /\ MonGoto("ended") /\ UNCHANGED todo
           /\ UNCHANGED <<dvars, wvars, uvars, nvars>>

MonitorStep == \/ monitorWatch \/ monitorMiss \/ monitorCheck \/ monitorReconnect
               \/ monitorJoin \/ monitorRearm \/ monitorSearch \/ monitorInit
               \/ monitorInited \/ monitorClose \/ monitorSelfJoin \/ visited
               \/ \E n \in todo : setConnection(n) \/ disconnect(n) \/ notify(n)

-----------------------------------------------------------------------------
(* The thread that stops the pipeline or closes the device. *)

\* The user decides to stop or close; a node that threw makes it stop.
stopPipeline == /\ user = "idle"
                /\ user' = "stop" /\ resume' = "wait"
                /\ UNCHANGED <<dvars, wvars, mvars, nvars>>

userCloses == /\ user = "idle" /\ ~closed
              /\ user' = "lock" /\ resume' = "idle"
              /\ UNCHANGED <<dvars, wvars, mvars, nvars>>

\* PipelineImpl::stop: each node's running flag, and the queues; then close.
stopNode(n) == /\ user = "stop" /\ running[n]
               /\ running' = [running EXCEPT ![n] = FALSE]
               /\ UNCHANGED <<dvars, wvars, mvars, uvars, pc, conn, strm, isDisconnected,
                              qclosed>>

\* An input closes with its own node, an output with the node it feeds.
closeQueue(n) == /\ user = "stop" /\ ~qclosed[n] /\ (n \in OutHosts => ~running[n])
                 /\ qclosed' = [qclosed EXCEPT ![n] = TRUE]
                 /\ UNCHANGED <<dvars, wvars, mvars, uvars, pc, conn, strm, isDisconnected,
                                running>>

stopDevice == /\ user = "stop" /\ \A n \in Hosts : qclosed[n] /\ ~running[n]
              /\ user' = "lock" /\ UNCHANGED resume
              /\ UNCHANGED <<dvars, wvars, mvars, nvars>>

\* close: take closedMtx; if not closed yet, isClosing.
close == /\ user = "lock" /\ closedMtx = "nobody"
         /\ IF closed THEN user' = resume /\ UNCHANGED <<closedMtx, isClosing>>
                      ELSE user' = "shut" /\ closedMtx' = "user" /\ isClosing' = TRUE
         /\ UNCHANGED <<link, connection, watchdogRunning, closed, wvars, mvars, nvars, resume>>

\* connection->close()
closeConnection == /\ user = "shut" /\ CloseLink(connection) /\ user' = "unwatch"
                   /\ UNCHANGED <<connection, watchdogRunning, isClosing, closed, closedMtx,
                                  wvars, mvars, nvars, resume>>

\* watchdogRunning = false, under watchdogMtx
unwatch == /\ user = "unwatch" /\ watchdogRunning' = FALSE /\ user' = "joinWd"
           /\ UNCHANGED <<link, connection, isClosing, closed, closedMtx, wvars, mvars,
                          nvars, resume>>

\* if(watchdogThread.joinable()) watchdogThread.join(); see monitorJoin
joinWatchdog == /\ user = "joinWd"
                /\ \/ /\ wd = "ended" \/ ~wdJoinable
                      /\ wdJoinable' = FALSE /\ user' = "joinMon" /\ UNCHANGED closedMtx
                   \/ /\ wdJoinable /\ mon = "join"
                      /\ user' = "threw" /\ closedMtx' = "nobody" /\ UNCHANGED wdJoinable
                /\ UNCHANGED <<link, connection, watchdogRunning, isClosing, closed, wd,
                               wdConn, mvars, nvars, resume>>

\* monitorThread.join(); closed = true
joinMonitor == /\ user = "joinMon" /\ mon = "ended"
               /\ closed' = TRUE /\ closedMtx' = "nobody" /\ user' = resume
               /\ UNCHANGED <<link, connection, watchdogRunning, isClosing, wvars, mvars,
                              nvars, resume>>

\* PipelineImpl::wait joins the nodes' threads.
wait == /\ user = "wait" /\ \A n \in Hosts : pc[n] \in {"ended", "threw"}
        /\ user' = "done"
        /\ UNCHANGED <<dvars, wvars, mvars, nvars, resume>>

UserStep == \/ stopDevice \/ close \/ closeConnection \/ unwatch
            \/ joinWatchdog \/ joinMonitor \/ wait
            \/ \E n \in Hosts : stopNode(n) \/ closeQueue(n)

-----------------------------------------------------------------------------
Next == \/ \E c \in Conns : LoseLink(c)
        \/ \E n \in Hosts : HostStep(n) \/ badMessage(n) \/ queueReady(n) \/ spuriousWake(n)
        \/ watchdogWrite \/ watchdogSleep
        \/ MonitorStep
        \/ stopPipeline \/ userCloses \/ UserStep

(***************************************************************************)
(* Threads that can run do run; a helper stops the pipeline once a node    *)
(* threw.  Nothing is assumed of the link, of the messages, of the other   *)
(* side of a queue, of spurious wake-ups, or of what the user decides.     *)
(***************************************************************************)
Fairness == /\ \A n \in Hosts : WF_vars(HostStep(n))
            /\ WF_vars(watchdogWrite \/ watchdogSleep)
            /\ WF_vars(MonitorStep)
            /\ WF_vars(UserStep)
            /\ WF_vars(stopPipeline /\ \E n \in Hosts : pc[n] = "threw")

Spec == Init /\ [][Next]_vars /\ Fairness

-----------------------------------------------------------------------------
(* Properties. *)

Places == {"open", "loop", "link", "queue", "caught", "park", "parked", "woken", "threw",
           "terminate", "ended"}

(***************************************************************************)
(* Every thread is at one of its places, a node that talks has a stream,   *)
(* and closedMtx is held exactly inside closeImpl.                         *)
(***************************************************************************)
TypeOK == /\ link \in [Conns -> {"unborn", "up", "stalled", "down"}]
          /\ connection \in Conns /\ wdConn \in Conns
          /\ watchdogRunning \in BOOLEAN /\ isClosing \in BOOLEAN
          /\ closed \in BOOLEAN /\ wdJoinable \in BOOLEAN
          /\ wd \in {"write", "sleep", "ended"}
          /\ mon \in {"watch", "miss", "check", "join", "rearm", "search", "init", "inited",
                      "reset", "disconnect", "close", "closeJoin", "ended"}
          /\ attempts \in 0 .. MaxReconnectionAttempts
          /\ half \subseteq todo /\ todo \subseteq Hosts
          /\ user \in {"idle", "stop", "lock", "shut", "unwatch", "joinWd", "joinMon",
                       "wait", "done", "threw"}
          /\ resume \in {"idle", "wait"}
          /\ pc \in [Hosts -> Places]
          /\ conn \in [Hosts -> 0 .. MaxConns]
          /\ strm \in [Hosts -> 0 .. MaxConns]
          /\ \A n \in Hosts : pc[n] = "link" => strm[n] # Null
          /\ isDisconnected \in [Hosts -> BOOLEAN]
          /\ running \in [Hosts -> BOOLEAN] /\ qclosed \in [Hosts -> BOOLEAN]
          /\ closedMtx = "user" <=> user \in {"shut", "unwatch", "joinWd", "joinMon"}
          /\ closedMtx = "monitor" <=> mon = "closeJoin"

(***************************************************************************)
(* The host never keeps two links to the device open: monitorCallback      *)
(* makes a new connection only after the old one died or was closed, also  *)
(* when the old one had only stopped answering.                            *)
(***************************************************************************)
AtMostOneLink == Cardinality({c \in Conns : link[c] \in {"up", "stalled"}}) <= 1

(***************************************************************************)
(* While the monitor thread waits and watchdogRunning says that all is     *)
(* well, there is a watchdog thread pinging the current connection: a lost *)
(* link is never overlooked, not even after a reconnection.                *)
(***************************************************************************)
LinkIsWatched == mon = "watch" /\ watchdogRunning => wd # "ended" /\ wdConn = connection

\* There is one link at most, and it is watched.
OneWatchedLink == AtMostOneLink /\ LinkIsWatched

(***************************************************************************)
(* XLinkInHost uses each connection for one stream only: after a failure   *)
(* it never goes back to the connection that failed, whatever order        *)
(* failures, resetConnections and wake-ups come in.                        *)
(***************************************************************************)
NoStreamReuse == \A n \in InHosts : conn[n] # Null => strm[n] # conn[n]

(***************************************************************************)
(* A node waiting for a reconnect since before the monitor noticed a lost  *)
(* link is woken, by resetConnections or disconnectXLinkHosts, unless the  *)
(* device is being closed.                                                 *)
(***************************************************************************)
WaitersAreAnswered ==
    \A n \in Hosts :
        (/\ pc[n] = "parked" /\ strm[n] = connection /\ link[connection] = "down"
         /\ mon = "watch" /\ ~isClosing)
            ~> (pc[n] # "parked" \/ isClosing)

-----------------------------------------------------------------------------
(* What the code's comments and checks promise, and the code does not keep. *)

(***************************************************************************)
(* disconnectXLinkHosts makes waiting connections throw instead of         *)
(* reconnecting: a node does not stay parked once it is disconnected.      *)
(* isWaitingForReconnect.wait has no predicate, so a node that parks after *)
(* the notification stays there.                                           *)
(***************************************************************************)
DisconnectedNodesThrow ==
    \A n \in Hosts : (isDisconnected[n] /\ pc[n] = "parked") ~> pc[n] # "parked"

(***************************************************************************)
(* DeviceBase::close closes the connection to the device: once it has      *)
(* returned the link is down.  A reconnection that passed its isClosing    *)
(* test first replaces the connection after close has closed the old one.  *)
(***************************************************************************)
CloseClosesConnection == closed => link[connection] = "down"

(***************************************************************************)
(* isClosing keeps the monitor from reconnecting, so close, which joins    *)
(* the monitor thread, returns.  monitorCallback may set watchdogRunning   *)
(* again after closeImpl cleared it, and init2 may call close itself.      *)
(***************************************************************************)
CloseReturns == (user = "shut") ~> (user \notin {"shut", "unwatch", "joinWd", "joinMon"})

(***************************************************************************)
(* A stream is created from a connected XLinkConnection only: the check in *)
(* the constructor of XLinkStream does not fire.  A wake-up that no        *)
(* setConnection caused leads XLinkInHost to the pointer it moved from.    *)
(***************************************************************************)
StreamsAreConnected == \A n \in Hosts : pc[n] # "terminate"

=============================================================================

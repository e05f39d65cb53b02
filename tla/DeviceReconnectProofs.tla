----------------------- MODULE DeviceReconnectProofs -----------------------
(***************************************************************************)
(* A device that is lost and found again: the host keeps one link at most, *)
(* never overlooks that it is lost, and its nodes never go back to a       *)
(* connection that failed, for any number of nodes, connections and        *)
(* attempts, and whatever the user closes meanwhile.                       *)
(***************************************************************************)
EXTENDS DeviceReconnect, FiniteSetTheorems, TLAPS

\* A node that talks has a stream.
Talking == \A n \in Hosts : pc[n] \in {"loop", "link", "queue"} => strm[n] # Null

\* The parts of TypeOK: the device, the threads, closedMtx, the nodes.
DeviceTyped == /\ link \in [Conns -> {"unborn", "up", "stalled", "down"}]
               /\ connection \in Conns /\ wdConn \in Conns
               /\ watchdogRunning \in BOOLEAN /\ isClosing \in BOOLEAN
               /\ closed \in BOOLEAN /\ wdJoinable \in BOOLEAN
               /\ wd \in {"write", "sleep", "ended"}
ThreadsTyped == /\ mon \in {"watch", "miss", "check", "join", "rearm", "search", "init",
                            "inited", "reset", "disconnect", "close", "closeJoin", "ended"}
                /\ attempts \in 0 .. MaxReconnectionAttempts
                /\ half \subseteq todo /\ todo \subseteq Hosts
                /\ user \in {"idle", "stop", "lock", "shut", "unwatch", "joinWd", "joinMon",
                             "wait", "done", "threw"}
                /\ resume \in {"idle", "wait"}
MutexHeld == /\ closedMtx = "user" <=> user \in {"shut", "unwatch", "joinWd", "joinMon"}
             /\ closedMtx = "monitor" <=> mon = "closeJoin"
NodesTyped == /\ pc \in [Hosts -> Places]
              /\ conn \in [Hosts -> 0 .. MaxConns] /\ strm \in [Hosts -> 0 .. MaxConns]
              /\ isDisconnected \in [Hosts -> BOOLEAN]
              /\ running \in [Hosts -> BOOLEAN] /\ qclosed \in [Hosts -> BOOLEAN]
              /\ Talking

Typed == DeviceTyped /\ ThreadsTyped /\ MutexHeld /\ NodesTyped

\* Connections die in the order they are made; only the last may be open.
OldLinksDown == /\ \A c \in Conns : /\ c < connection => link[c] = "down"
                                    /\ c > connection => link[c] = "unborn"
                /\ link[connection] # "unborn"

\* Where the watchdog thread is while the monitor is at work.
WatchdogFollows ==
    /\ wd # "ended" => wdConn = connection
    /\ mon \in {"rearm", "search", "init"} => wd = "ended"
    /\ mon \in {"inited", "reset", "watch"} /\ watchdogRunning => wd # "ended"
    /\ mon \in {"miss", "check"} => ~watchdogRunning

\* Who has begun to close the device has said so, and it stays said.
ClosingIsKnown ==
    /\ user \in {"shut", "unwatch", "joinWd", "joinMon"} => isClosing
    /\ mon \in {"search", "init"} => watchdogRunning \/ isClosing

\* The monitor reconnects only when the link is dead: unless the device is
\* being closed, a watchdog that is not running stands for a dead link.
DeadBeforeNew ==
    /\ ~watchdogRunning /\ ~isClosing /\ mon # "miss" => link[connection] = "down"
    /\ mon \in {"join", "rearm", "search", "init"} => link[connection] = "down"

Watching == OldLinksDown /\ WatchdogFollows /\ ClosingIsKnown /\ DeadBeforeNew

\* A connection is new to the nodes that resetConnections has still to visit.
OldTo(n) == conn[n] < connection /\ strm[n] < connection
NewToNodes ==
    /\ \A n \in Hosts : conn[n] <= connection /\ strm[n] <= connection
    /\ mon = "inited" => \A n \in Hosts : OldTo(n)
    /\ mon = "reset" => \A n \in todo \ half : OldTo(n)

Streams == NewToNodes /\ NoStreamReuse

----------------------------------------------------------------------------
(* Types.                                                                  *)

LEMMA TypedImpliesTypeOK == Typed => TypeOK
BY DEF Typed, DeviceTyped, ThreadsTyped, MutexHeld, NodesTyped, TypeOK, Talking

LEMMA InitTyped == ASSUME ReconnectAssumption PROVE Init => Typed
<1> SUFFICES ASSUME Init PROVE Typed
  OBVIOUS
<1> USE DEF Init
<1>1. link \in [Conns -> {"unborn", "up", "stalled", "down"}] /\ 1 \in Conns
  BY DEF ReconnectAssumption, Conns
<1>2. DeviceTyped
  BY <1>1 DEF DeviceTyped
<1>3. ThreadsTyped
  BY SMT DEF ReconnectAssumption, ThreadsTyped
<1>4. MutexHeld
  BY SMT DEF MutexHeld
<1>5. 0 \in 0 .. MaxConns /\ 1 \in 0 .. MaxConns
  BY DEF ReconnectAssumption
<1>6. /\ pc \in [Hosts -> Places] /\ conn \in [Hosts -> 0 .. MaxConns]
      /\ strm \in [Hosts -> 0 .. MaxConns]
  BY <1>5 DEF Places, Null
<1>7. /\ isDisconnected \in [Hosts -> BOOLEAN] /\ running \in [Hosts -> BOOLEAN]
      /\ qclosed \in [Hosts -> BOOLEAN]
  OBVIOUS
<1>8. Talking
  BY DEF Talking
<1> QED
  BY <1>2, <1>3, <1>4, <1>6, <1>7, <1>8 DEF Typed, NodesTyped

\* A step of a node changes the node only, and not what it is told.
LEMMA HostFrame ==
    ASSUME NEW n \in Hosts,
           HostStep(n) \/ badMessage(n) \/ queueReady(n) \/ spuriousWake(n)
    PROVE  UNCHANGED <<dvars, wvars, mvars, uvars, isDisconnected, qclosed>>
BY DEF HostStep, openStream, mainLoop, transfer, badMessage, queueReady, queueThrows, catchError, park, spuriousWake, wake

LEMMA HostTyped ==
    ASSUME ReconnectAssumption, Typed, NEW n \in Hosts,
           HostStep(n) \/ badMessage(n) \/ queueReady(n) \/ spuriousWake(n)
    PROVE  Typed'
<1> USE DEF HostStep, openStream, mainLoop, transfer, badMessage, queueReady, queueThrows,
            catchError, park, spuriousWake, wake
<1>1. UNCHANGED <<dvars, wvars, mvars, uvars, isDisconnected, qclosed>>
  BY HostFrame
<1>2. NodesTyped
  BY DEF Typed
<1>3. DeviceTyped' /\ ThreadsTyped' /\ MutexHeld'
  BY <1>1 DEF Typed, DeviceTyped, ThreadsTyped, MutexHeld, dvars, wvars, mvars, uvars
<1>4. pc' \in [Hosts -> Places]
  <2>1. \E place \in Places : Goto(n, place)
    BY SMT DEF Places
  <2>2. QED
    BY <1>2, <2>1 DEF NodesTyped, Goto
<1>5. conn' = conn \/ conn' = [conn EXCEPT ![n] = Null]
  OBVIOUS
<1>6. strm' = strm \/ (conn[n] # Null /\ strm' = [strm EXCEPT ![n] = conn[n]])
  OBVIOUS
<1>7. running' = running \/ running' = [running EXCEPT ![n] = FALSE]
  OBVIOUS
<1>8. /\ conn' \in [Hosts -> 0 .. MaxConns] /\ strm' \in [Hosts -> 0 .. MaxConns]
      /\ running' \in [Hosts -> BOOLEAN]
  <2>1. conn \in [Hosts -> 0 .. MaxConns] /\ strm \in [Hosts -> 0 .. MaxConns]
        /\ running \in [Hosts -> BOOLEAN] /\ 0 \in 0 .. MaxConns
    BY <1>2 DEF NodesTyped, ReconnectAssumption
  <2>2. QED
    BY <1>5, <1>6, <1>7, <2>1 DEF Null
<1>9. Talking'
  <2>1. \A m \in Hosts \ {n} : pc'[m] = pc[m] /\ strm'[m] = strm[m]
    BY <1>2, SMT DEF NodesTyped, Goto
  <2>2. pc'[n] \in {"loop", "link", "queue"} => strm'[n] # Null
    BY <1>2, SMT DEF NodesTyped, Goto, Talking
  <2>3. QED
    BY <1>2, <2>1, <2>2 DEF NodesTyped, Talking
<1> QED
  BY <1>1, <1>2, <1>3, <1>4, <1>8, <1>9 DEF Typed, NodesTyped

\* The monitor visits nodes, or changes its own variables and the device's.
MonitorAlone ==
    \/ monitorWatch \/ monitorMiss \/ monitorCheck \/ monitorReconnect
    \/ monitorJoin \/ monitorRearm \/ monitorSearch \/ monitorInit
    \/ monitorInited \/ monitorClose \/ monitorSelfJoin \/ visited

LEMMA MonitorTyped ==
    ASSUME ReconnectAssumption, Typed, MonitorAlone
    PROVE  Typed'
<1> USE DEF MonitorAlone, monitorWatch, monitorMiss, monitorCheck, monitorReconnect, monitorJoin,
            monitorRearm, monitorSearch, monitorInit, monitorInited, monitorClose,
            monitorSelfJoin, visited, MonGoto, Visit, CloseLink
<1>1. DeviceTyped /\ ThreadsTyped /\ MutexHeld /\ NodesTyped
  BY DEF Typed
<1>2. DeviceTyped'
  <2>1. connection \in Conns /\ (connection < MaxConns => connection + 1 \in Conns)
    BY <1>1 DEF DeviceTyped, ReconnectAssumption, Conns
  <2>2. link' \in [Conns -> {"unborn", "up", "stalled", "down"}]
    BY <1>1, <2>1 DEF DeviceTyped, dvars
  <2>3. connection' \in Conns /\ wdConn' \in Conns
    BY <1>1, <2>1 DEF DeviceTyped, dvars, wvars
  <2>4. watchdogRunning' \in BOOLEAN /\ isClosing' \in BOOLEAN /\ closed' \in BOOLEAN
    BY <1>1 DEF DeviceTyped, dvars
  <2>5. wdJoinable' \in BOOLEAN /\ wd' \in {"write", "sleep", "ended"}
    BY <1>1 DEF DeviceTyped, wvars
  <2>6. QED
    BY <2>2, <2>3, <2>4, <2>5 DEF DeviceTyped
<1>3. ThreadsTyped'
  <2>1. mon' \in {"watch", "miss", "check", "join", "rearm", "search", "init",
                  "inited", "reset", "disconnect", "close", "closeJoin", "ended"}
    BY SMT
  <2>2. attempts' \in 0 .. MaxReconnectionAttempts
    BY <1>1, SMT DEF ThreadsTyped, ReconnectAssumption
  <2>3. half' \subseteq todo' /\ todo' \subseteq Hosts
    BY <1>1, SMT DEF ThreadsTyped
  <2>4. UNCHANGED uvars
    OBVIOUS
  <2>5. QED
    BY <1>1, <2>1, <2>2, <2>3, <2>4 DEF ThreadsTyped, uvars
<1>4. MutexHeld'
  BY <1>1, SMT DEF MutexHeld, uvars, dvars
<1>5. NodesTyped'
  <2>1. UNCHANGED nvars
    OBVIOUS
  <2>2. QED
    BY <1>1, <2>1 DEF NodesTyped, Talking, nvars
<1> QED
  BY <1>2, <1>3, <1>4, <1>5 DEF Typed

LEMMA VisitTyped ==
    ASSUME Typed, NEW n \in todo, setConnection(n) \/ disconnect(n) \/ notify(n)
    PROVE  Typed'
<1> USE DEF setConnection, disconnect, notify
<1>1. DeviceTyped /\ ThreadsTyped /\ MutexHeld /\ NodesTyped /\ n \in Hosts
  BY DEF Typed, ThreadsTyped
<1>2. DeviceTyped' /\ MutexHeld'
  BY <1>1 DEF DeviceTyped, MutexHeld, dvars, wvars, uvars
<1>3. ThreadsTyped'
  BY <1>1 DEF ThreadsTyped, uvars
<1>4. pc' \in [Hosts -> Places] /\ strm' \in [Hosts -> 0 .. MaxConns]
  BY <1>1 DEF NodesTyped, Places
<1>5. conn' \in [Hosts -> 0 .. MaxConns]
  <2>1. connection \in 0 .. MaxConns
    BY <1>1 DEF DeviceTyped, Conns
  <2>2. QED
    BY <1>1, <2>1 DEF NodesTyped
<1>6. /\ isDisconnected' \in [Hosts -> BOOLEAN]
      /\ running' \in [Hosts -> BOOLEAN] /\ qclosed' \in [Hosts -> BOOLEAN]
  BY <1>1 DEF NodesTyped
<1>7. Talking'
  BY <1>1 DEF NodesTyped, Talking
<1> QED
  BY <1>2, <1>3, <1>4, <1>5, <1>6, <1>7 DEF Typed, NodesTyped

LEMMA UserTyped ==
    ASSUME Typed, stopPipeline \/ userCloses \/ UserStep
    PROVE  Typed'
<1> USE DEF stopPipeline, userCloses, UserStep, stopDevice, close, closeConnection, unwatch,
            joinWatchdog, joinMonitor, wait, stopNode, closeQueue, CloseLink
<1>1. DeviceTyped /\ ThreadsTyped /\ MutexHeld /\ NodesTyped
  BY DEF Typed
<1>2. link' \in [Conns -> {"unborn", "up", "stalled", "down"}]
  BY <1>1 DEF DeviceTyped, dvars
<1>3. connection' \in Conns /\ wdConn' \in Conns
  BY <1>1 DEF DeviceTyped, dvars, wvars
<1>4. watchdogRunning' \in BOOLEAN /\ isClosing' \in BOOLEAN /\ closed' \in BOOLEAN
  BY <1>1 DEF DeviceTyped, dvars
<1>5. wdJoinable' \in BOOLEAN /\ wd' \in {"write", "sleep", "ended"}
  BY <1>1 DEF DeviceTyped, wvars
<1>6. DeviceTyped'
  BY <1>2, <1>3, <1>4, <1>5 DEF DeviceTyped
<1>7. ThreadsTyped'
  <2>1. UNCHANGED mvars
    OBVIOUS
  <2>2. /\ user' \in {"idle", "stop", "lock", "shut", "unwatch", "joinWd", "joinMon",
                       "wait", "done", "threw"}
        /\ resume' \in {"idle", "wait"}
    BY <1>1 DEF ThreadsTyped, uvars
  <2>3. QED
    BY <1>1, <2>1, <2>2 DEF ThreadsTyped, mvars
<1>8. MutexHeld'
  BY <1>1 DEF MutexHeld, ThreadsTyped, uvars, dvars, mvars
<1>9. NodesTyped'
  <2>1. UNCHANGED <<pc, conn, strm, isDisconnected>>
    BY DEF nvars
  <2>2. running' \in [Hosts -> BOOLEAN] /\ qclosed' \in [Hosts -> BOOLEAN]
    BY <1>1 DEF NodesTyped, nvars
  <2>3. QED
    BY <1>1, <2>1, <2>2 DEF NodesTyped, Talking
<1> QED
  BY <1>6, <1>7, <1>8, <1>9 DEF Typed

LEMMA OthersTyped ==
    ASSUME Typed, \/ \E c \in Conns : LoseLink(c)
                  \/ watchdogWrite \/ watchdogSleep
                  \/ UNCHANGED vars
    PROVE  Typed'
<1> USE DEF LoseLink, watchdogWrite, watchdogSleep, WatchdogEnds, vars
<1>1. DeviceTyped /\ ThreadsTyped /\ MutexHeld /\ NodesTyped
  BY DEF Typed
<1>2. link' \in [Conns -> {"unborn", "up", "stalled", "down"}]
  BY <1>1 DEF DeviceTyped, dvars
<1>3. DeviceTyped'
  BY <1>1, <1>2 DEF DeviceTyped, dvars, wvars
<1>4. UNCHANGED <<mvars, uvars, nvars, closedMtx>>
  BY DEF mvars, uvars, nvars, dvars
<1> QED
  BY <1>1, <1>3, <1>4 DEF Typed, ThreadsTyped, MutexHeld, NodesTyped, Talking, mvars, uvars, nvars

LEMMA NextTyped == ASSUME ReconnectAssumption, Typed, [Next]_vars PROVE Typed'
<1>1. ASSUME NEW n \in Hosts,
             HostStep(n) \/ badMessage(n) \/ queueReady(n) \/ spuriousWake(n)
      PROVE  Typed'
  BY <1>1, HostTyped
<1>2. ASSUME NEW n \in todo, setConnection(n) \/ disconnect(n) \/ notify(n) PROVE Typed'
  BY <1>2, VisitTyped
<1>3. MonitorStep => Typed'
  BY <1>2, MonitorTyped DEF MonitorStep, MonitorAlone
<1> QED
  BY <1>1, <1>3, UserTyped, OthersTyped DEF Next

(***************************************************************************)
(* Every thread of the host is at one of its places, a node that talks to  *)
(* the device has a stream, and closedMtx is held exactly inside           *)
(* closeImpl.                                                              *)
(***************************************************************************)
THEOREM ReconnectTypeCorrect == Spec => []TypeOK
<1>1. Init => Typed
  BY InitTyped, ReconnectAssumption
<1>2. Typed /\ [Next]_vars => Typed'
  BY NextTyped, ReconnectAssumption
<1> QED
  BY <1>1, <1>2, TypedImpliesTypeOK, PTL DEF Spec

----------------------------------------------------------------------------
(* One link, and it is watched.                                            *)

LEMMA InitWatching == ASSUME ReconnectAssumption PROVE Init => Watching
BY DEF ReconnectAssumption, Init, Watching, OldLinksDown, WatchdogFollows, ClosingIsKnown, DeadBeforeNew, Conns

LEMMA QuietWatching ==
    ASSUME Watching, UNCHANGED <<dvars, wd, wdConn, mon, user>>
    PROVE  Watching'
BY DEF Watching, OldLinksDown, WatchdogFollows, ClosingIsKnown, DeadBeforeNew, dvars

LEMMA LoseLinkWatching ==
    ASSUME Typed, Watching, NEW c \in Conns, LoseLink(c)
    PROVE  Watching'
<1>1. c = connection /\ link'[connection] \in {"stalled", "down"} /\ link[connection] # "down"
  BY DEF LoseLink, Typed, DeviceTyped, Watching, OldLinksDown, Conns
<1>2. \A d \in Conns : d # connection => link'[d] = link[d]
  BY <1>1 DEF LoseLink, Typed, DeviceTyped
<1>3. UNCHANGED <<connection, watchdogRunning, isClosing, wd, wdConn, mon, user>>
  BY DEF LoseLink, wvars, mvars, uvars
<1>4. OldLinksDown'
  BY <1>1, <1>2, <1>3 DEF Watching, OldLinksDown, Typed, DeviceTyped, Conns
<1>5. DeadBeforeNew'
  BY <1>1, <1>3 DEF Watching, DeadBeforeNew
<1> QED
  BY <1>3, <1>4, <1>5 DEF Watching, WatchdogFollows, ClosingIsKnown

LEMMA WatchdogWatching ==
    ASSUME Typed, Watching, watchdogWrite \/ watchdogSleep
    PROVE  Watching'
<1> USE DEF watchdogWrite, watchdogSleep, WatchdogEnds
<1>1. UNCHANGED <<link, connection, isClosing, wdConn, mon, user>>
  BY DEF dvars, mvars, uvars
<1>2. OldLinksDown'
  BY <1>1 DEF Watching, OldLinksDown
<1>3. WatchdogFollows'
  BY <1>1 DEF Watching, WatchdogFollows, dvars
<1>4. ClosingIsKnown'
  BY <1>1 DEF Watching, WatchdogFollows, ClosingIsKnown, dvars
<1>5. DeadBeforeNew'
  BY <1>1 DEF Watching, WatchdogFollows, DeadBeforeNew, dvars
<1> QED
  BY <1>2, <1>3, <1>4, <1>5 DEF Watching

LEMMA MonitorWatching ==
    ASSUME ReconnectAssumption, Typed, Watching, MonitorAlone
    PROVE  Watching'
<1> USE DEF MonitorAlone, monitorWatch, monitorMiss, monitorCheck, monitorReconnect, monitorJoin,
            monitorRearm, monitorSearch, monitorInit, monitorInited, monitorClose,
            monitorSelfJoin, visited, MonGoto, Visit
<1>1. /\ OldLinksDown /\ WatchdogFollows /\ ClosingIsKnown /\ DeadBeforeNew
      /\ DeviceTyped /\ ThreadsTyped
  BY DEF Watching, Typed
<1>2. UNCHANGED user
  BY DEF uvars
<1>3. OldLinksDown'
  <2>1. CASE UNCHANGED <<link, connection>>
    BY <1>1, <2>1 DEF OldLinksDown
  <2>2. CASE CloseLink(connection) /\ UNCHANGED connection
    BY <1>1, <2>2 DEF OldLinksDown, CloseLink, DeviceTyped
  <2>3. CASE monitorInit /\ connection' = connection + 1
    <3>1. /\ link' = [link EXCEPT ![connection + 1] = "up"] /\ connection \in Nat
          /\ connection + 1 \in Conns /\ link[connection] = "down"
      BY <1>1, <2>3 DEF DeviceTyped, Conns, DeadBeforeNew, ReconnectAssumption
    <3>2. QED
      BY <1>1, <2>3, <3>1 DEF OldLinksDown, DeviceTyped, Conns
  <2>4. QED
    BY <2>1, <2>2, <2>3 DEF dvars
<1>4. WatchdogFollows'
  BY <1>1 DEF WatchdogFollows, dvars, wvars, DeviceTyped, ThreadsTyped
<1>5. ClosingIsKnown'
  BY <1>1, <1>2 DEF ClosingIsKnown, dvars
<1>6. DeadBeforeNew'
  BY <1>1 DEF DeadBeforeNew, WatchdogFollows, ClosingIsKnown, OldLinksDown, dvars, DeviceTyped, CloseLink
<1> QED
  BY <1>3, <1>4, <1>5, <1>6 DEF Watching

LEMMA UserWatching ==
    ASSUME Typed, Watching, stopPipeline \/ userCloses \/ UserStep
    PROVE  Watching'
<1> USE DEF stopPipeline, userCloses, UserStep, stopDevice, close, closeConnection, unwatch,
            joinWatchdog, joinMonitor, wait, stopNode, closeQueue
<1>1. /\ OldLinksDown /\ WatchdogFollows /\ ClosingIsKnown /\ DeadBeforeNew
      /\ DeviceTyped /\ ThreadsTyped
  BY DEF Watching, Typed
<1>2. UNCHANGED <<connection, wd, wdConn, mon>> /\ (isClosing => isClosing')
  BY DEF dvars, wvars, mvars
<1>3. OldLinksDown'
  BY <1>1, <1>2 DEF OldLinksDown, CloseLink, DeviceTyped, dvars
<1>4. WatchdogFollows'
  BY <1>1, <1>2 DEF WatchdogFollows, dvars
<1>5. ClosingIsKnown'
  BY <1>1, <1>2 DEF ClosingIsKnown, dvars, uvars, ThreadsTyped
<1>6. DeadBeforeNew'
  BY <1>1, <1>2 DEF DeadBeforeNew, ClosingIsKnown, dvars, DeviceTyped, CloseLink
<1> QED
  BY <1>3, <1>4, <1>5, <1>6 DEF Watching

LEMMA NextWatching ==
    ASSUME ReconnectAssumption, Typed, Watching, [Next]_vars
    PROVE  Watching'
<1>1. ASSUME NEW n \in Hosts,
             HostStep(n) \/ badMessage(n) \/ queueReady(n) \/ spuriousWake(n)
      PROVE  Watching'
  BY <1>1, HostFrame, QuietWatching DEF wvars, mvars, uvars
<1>2. ASSUME NEW n \in todo, setConnection(n) \/ disconnect(n) \/ notify(n) PROVE Watching'
  BY <1>2, QuietWatching DEF setConnection, disconnect, notify, wvars, uvars
<1>3. MonitorStep => Watching'
  BY <1>2, MonitorWatching DEF MonitorStep, MonitorAlone
<1>4. UNCHANGED vars => Watching'
  BY QuietWatching DEF vars, dvars
<1> QED
  BY <1>1, <1>3, <1>4, LoseLinkWatching, WatchdogWatching, UserWatching DEF Next

LEMMA WatchingImpliesOneLink == Typed /\ Watching => OneWatchedLink
<1> SUFFICES ASSUME Typed, Watching PROVE AtMostOneLink /\ LinkIsWatched
  BY DEF OneWatchedLink
<1>1. AtMostOneLink
  <2> DEFINE Open == {c \in Conns : link[c] \in {"up", "stalled"}}
  <2>1. Open \subseteq {connection}
    BY DEF Typed, DeviceTyped, Watching, OldLinksDown, Conns
  <2>2. IsFiniteSet({connection}) /\ Cardinality({connection}) = 1
    BY FS_Singleton
  <2>3. QED
    BY <2>1, <2>2, FS_Subset, FS_CardinalityType DEF AtMostOneLink
<1>2. LinkIsWatched
  BY DEF LinkIsWatched, Watching, WatchdogFollows
<1> QED
  BY <1>1, <1>2

(***************************************************************************)
(* The host never keeps two links to the device open, and while the        *)
(* monitor waits and watchdogRunning is set, the watchdog thread of the    *)
(* current connection runs: monitorCallback never overlooks a lost link.   *)
(***************************************************************************)
THEOREM DeviceOneWatchedLink == Spec => []OneWatchedLink
<1>1. Init => Typed /\ Watching
  BY InitTyped, InitWatching, ReconnectAssumption
<1>2. Typed /\ Watching /\ [Next]_vars => (Typed /\ Watching)'
  BY NextTyped, NextWatching, ReconnectAssumption
<1> QED
  BY <1>1, <1>2, WatchingImpliesOneLink, PTL DEF Spec

----------------------------------------------------------------------------
(* The nodes' streams.                                                     *)

LEMMA InitStreams == ASSUME ReconnectAssumption PROVE Init => Streams
BY SMT DEF ReconnectAssumption, Init, Streams, NewToNodes, NoStreamReuse, OldTo, Null, Hosts

LEMMA HostStreams ==
    ASSUME Typed, Streams, NEW n \in Hosts,
           HostStep(n) \/ badMessage(n) \/ queueReady(n) \/ spuriousWake(n)
    PROVE  Streams'
<1> USE DEF HostStep, openStream, mainLoop, transfer, badMessage, queueReady, queueThrows,
            catchError, park, spuriousWake, wake
<1>1. UNCHANGED <<connection, mon, todo, half>> /\ connection \in Nat \ {0}
  BY HostFrame DEF dvars, mvars, Typed, DeviceTyped, Conns
<1>2. \A m \in Hosts : conn[m] \in Nat /\ strm[m] \in Nat
  BY DEF Typed, NodesTyped
<1>3. \A m \in Hosts : m # n => conn'[m] = conn[m] /\ strm'[m] = strm[m]
  BY DEF Typed, NodesTyped
<1>4. /\ conn'[n] \in {conn[n], Null} /\ strm'[n] \in {strm[n], conn[n]}
      /\ n \in InHosts /\ strm'[n] # strm[n] => conn'[n] = Null
  BY DEF Typed, NodesTyped
<1>5. NewToNodes'
  <2>1. ASSUME NEW m \in Hosts
        PROVE  conn[m] <= connection /\ strm[m] <= connection
               => conn'[m] <= connection /\ strm'[m] <= connection
    BY <1>1, <1>2, <1>3, <1>4 DEF Null
  <2>2. ASSUME NEW m \in Hosts, OldTo(m) PROVE OldTo(m)'
    BY <1>1, <1>2, <1>3, <1>4, <2>2 DEF Null, OldTo
  <2>3. QED
    BY <1>1, <2>1, <2>2 DEF Streams, NewToNodes, Typed, ThreadsTyped
<1>6. NoStreamReuse'
  BY <1>3, <1>4 DEF Streams, NoStreamReuse, Hosts
<1> QED
  BY <1>5, <1>6 DEF Streams

LEMMA MonitorStreams ==
    ASSUME ReconnectAssumption, Typed, Streams, MonitorAlone
    PROVE  Streams'
<1> USE DEF MonitorAlone, monitorWatch, monitorMiss, monitorCheck, monitorReconnect, monitorJoin,
            monitorRearm, monitorSearch, monitorInit, monitorInited, monitorClose,
            monitorSelfJoin, visited, MonGoto, Visit
<1>1. UNCHANGED <<conn, strm>> /\ connection \in Nat
  BY DEF nvars, Typed, DeviceTyped, Conns
<1>2. \A m \in Hosts : conn[m] \in Nat /\ strm[m] \in Nat
  BY DEF Typed, NodesTyped
<1>3. \/ UNCHANGED connection /\ mon' # "inited" /\ (mon' = "reset" => mon = "inited")
      \/ connection' = connection + 1 /\ mon' = "inited"
  BY DEF dvars
<1>4. mon' = "reset" => todo' = Hosts
  OBVIOUS
<1>5. NewToNodes'
  BY <1>1, <1>2, <1>3, <1>4 DEF Streams, NewToNodes, OldTo
<1> QED
  BY <1>1, <1>5 DEF Streams, NoStreamReuse

LEMMA VisitStreams ==
    ASSUME Typed, Streams, NEW n \in todo, setConnection(n) \/ disconnect(n) \/ notify(n)
    PROVE  Streams'
<1>1. n \in Hosts /\ connection \in Nat /\ \A m \in Hosts : conn[m] \in Nat /\ strm[m] \in Nat
  BY DEF Typed, ThreadsTyped, NodesTyped, DeviceTyped, Conns
<1>2. UNCHANGED <<connection, mon, strm>>
  BY DEF setConnection, disconnect, notify, dvars
<1>3. CASE setConnection(n)
  <2>1. conn' = [conn EXCEPT ![n] = connection] /\ mon = "reset" /\ OldTo(n)
    BY <1>3 DEF setConnection, Streams, NewToNodes
  <2>2. todo' \ half' = (todo \ half) \ {n}
    BY <1>3 DEF setConnection
  <2>3. NewToNodes'
    BY <1>1, <1>2, <2>1, <2>2 DEF Streams, NewToNodes, OldTo, Typed, NodesTyped, ThreadsTyped
  <2>4. NoStreamReuse'
    BY <1>1, <1>2, <2>1 DEF Streams, NoStreamReuse, OldTo, Typed, NodesTyped, Hosts
  <2>5. QED
    BY <2>3, <2>4 DEF Streams
<1>4. CASE disconnect(n) \/ notify(n)
  <2>1. UNCHANGED conn /\ todo' \ half' \subseteq todo \ half
    BY <1>4 DEF disconnect, notify
  <2>2. QED
    BY <1>2, <2>1 DEF Streams, NewToNodes, NoStreamReuse, OldTo
<1> QED
  BY <1>3, <1>4

LEMMA QuietStreams ==
    ASSUME Streams, UNCHANGED <<connection, mon, todo, half, conn, strm>>
    PROVE  Streams'
BY DEF Streams, NewToNodes, NoStreamReuse, OldTo

LEMMA NextStreams ==
    ASSUME ReconnectAssumption, Typed, Streams, [Next]_vars
    PROVE  Streams'
<1>1. ASSUME NEW n \in todo, setConnection(n) \/ disconnect(n) \/ notify(n) PROVE Streams'
  BY <1>1, VisitStreams
<1>2. MonitorStep => Streams'
  BY <1>1, MonitorStreams DEF MonitorStep, MonitorAlone
<1>3. ASSUME stopPipeline \/ userCloses \/ UserStep
      PROVE  UNCHANGED <<connection, mon, todo, half, conn, strm>>
  BY <1>3 DEF stopPipeline, userCloses, UserStep, stopDevice, close, closeConnection, unwatch,
       joinWatchdog, joinMonitor, wait, stopNode, closeQueue, dvars, mvars, nvars
<1>4. ASSUME (\E c \in Conns : LoseLink(c)) \/ watchdogWrite \/ watchdogSleep \/ UNCHANGED vars
      PROVE  UNCHANGED <<connection, mon, todo, half, conn, strm>>
  BY <1>4 DEF LoseLink, watchdogWrite, watchdogSleep, vars, dvars, mvars, nvars
<1> QED
  BY <1>2, <1>3, <1>4, HostStreams, QuietStreams DEF Next

(***************************************************************************)
(* XLinkInHost never makes a second stream on a connection it has used,    *)
(* in whatever order failures, resetConnections and wake-ups come.         *)
(***************************************************************************)
THEOREM DeviceNoStreamReuse == Spec => []NoStreamReuse
<1>1. Init => Typed /\ Streams
  BY InitTyped, InitStreams, ReconnectAssumption
<1>2. Typed /\ Streams /\ [Next]_vars => (Typed /\ Streams)'
  BY NextTyped, NextStreams, ReconnectAssumption
<1>3. Streams => NoStreamReuse
  BY DEF Streams
<1> QED
  BY <1>1, <1>2, <1>3, PTL DEF Spec

=============================================================================

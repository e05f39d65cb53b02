-------------------------- MODULE DeviceTelemetry --------------------------
(***************************************************************************)
(* The telemetry threads of a device (src/device/DeviceBase.cpp): one      *)
(* reads the device's events from a stream, one sends a ping every five    *)
(* minutes.  They outlive connections: the monitor thread replaces         *)
(* telemetryEventStream when it reconnects, and close ends them, around    *)
(* closeImpl.                                                              *)
(*                                                                         *)
(* Connections are numbered; 0 stands for no stream.  Of the monitor and   *)
(* of closeImpl only what these threads meet is kept (DeviceReconnect has  *)
(* the rest), of an event nothing (TelemetryQueue takes it).               *)
(***************************************************************************)
EXTENDS Integers, FiniteSets

CONSTANT MaxLinks   \* bound: connections ever made

TelemetryAssumption == MaxLinks \in Nat \ {0}

VARIABLES connection,              \* the newest; it and older ones may be
          down,                    \* ... closed or lost
          telemetryEventStream,    \* the connection whose stream it is
          telemetryEventRunning, telemetryPingRunning,
          eventThread, stream,     \* its place, and its copy of the stream
          pingThread, monitor, closer,
          overtaken                \* history: a connection was made after close closed one

lineVars == <<connection, down>>
flagVars == <<telemetryEventRunning, telemetryPingRunning>>
readerVars == <<eventThread, stream>>

TelemetryInit ==
    /\ connection = 1 /\ down = {}
    /\ telemetryEventStream = 1
    /\ telemetryEventRunning = TRUE /\ telemetryPingRunning = TRUE
    /\ eventThread = "test" /\ stream = 0
    /\ pingThread = "test" /\ monitor = "watch" /\ closer = "idle"
    /\ overtaken = FALSE

loseLink ==
    /\ connection \notin down
    /\ down' = down \cup {connection}
    /\ UNCHANGED <<connection, telemetryEventStream, flagVars, readerVars, pingThread,
                   monitor, closer, overtaken>>

----------------------------------------------------------------------------
(* telemetryEventLoop.                                                     *)

testEvent ==
    /\ eventThread = "test"
    /\ eventThread' = IF telemetryEventRunning THEN "take" ELSE "ended"
    /\ stream' = 0
    /\ UNCHANGED <<lineVars, telemetryEventStream, flagVars, pingThread, monitor, closer, overtaken>>

\* The stream is copied under the mutex; without one, try again in 50 ms.
takeStream ==
    /\ eventThread = "take"
    /\ stream' = telemetryEventStream
    /\ eventThread' = IF stream' = 0 THEN "test" ELSE "read"
    /\ UNCHANGED <<lineVars, telemetryEventStream, flagVars, pingThread, monitor, closer, overtaken>>

\* stream->read: the device sent an event, which is passed on.
readEvent ==
    /\ eventThread = "read" /\ stream \notin down
    /\ eventThread' = IF telemetryEventRunning THEN "test" ELSE "ended"
    /\ UNCHANGED <<lineVars, telemetryEventStream, flagVars, stream, pingThread, monitor,
                   closer, overtaken>>

\* ... which throws when the connection is closed or lost.
readThrows ==
    /\ eventThread = "read" /\ stream \in down
    /\ eventThread' = "caught"
    /\ UNCHANGED <<lineVars, telemetryEventStream, flagVars, stream, pingThread, monitor,
                   closer, overtaken>>

\* Mutant: whatever stream there is by now is dropped.
dropAnyStream ==
    /\ eventThread = "caught"
    /\ telemetryEventStream' = 0
    /\ eventThread' = "test"
    /\ UNCHANGED <<lineVars, flagVars, stream, pingThread, monitor, closer, overtaken>>

\* The handlers, under the mutex: the stream that threw is dropped.
dropStream ==
    /\ eventThread = "caught"
    /\ telemetryEventStream' =
         IF telemetryEventStream = stream THEN 0 ELSE telemetryEventStream
    /\ eventThread' = "test"
    /\ UNCHANGED <<lineVars, flagVars, stream, pingThread, monitor, closer, overtaken>>

EventStep == testEvent \/ takeStream \/ readThrows \/ dropStream

----------------------------------------------------------------------------
(* telemetryPingLoop.  The flag is written without the mutex, so there is  *)
(* a gap between the test of wait_for's predicate and its sleep.           *)

testPing ==
    /\ pingThread \in {"test", "woken"}
    /\ pingThread' = IF telemetryPingRunning THEN "gap" ELSE "ended"
    /\ UNCHANGED <<lineVars, telemetryEventStream, flagVars, readerVars, monitor, closer, overtaken>>

sleepPing ==
    /\ pingThread = "gap" /\ pingThread' = "asleep"
    /\ UNCHANGED <<lineVars, telemetryEventStream, flagVars, readerVars, monitor, closer, overtaken>>

\* Five minutes are over: the predicate is tested once more, and a ping sent.
timeout ==
    /\ pingThread = "asleep"
    /\ pingThread' = IF telemetryPingRunning THEN "test" ELSE "ended"
    /\ UNCHANGED <<lineVars, telemetryEventStream, flagVars, readerVars, monitor, closer, overtaken>>

PingStep == testPing \/ sleepPing

----------------------------------------------------------------------------
(* The monitor thread (monitorCallback, init2).                            *)

\* It tests isClosing, which close sets before it closes the connection, and
\* reconnects or gives up.
noticeLoss ==
    /\ monitor = "watch" /\ connection \in down
    /\ \/ closer \in {"idle", "ping", "notify", "impl"} /\ monitor' = "connect"
       \/ monitor' = "ended"
    /\ UNCHANGED <<lineVars, telemetryEventStream, flagVars, readerVars, pingThread, closer,
                   overtaken>>

connect ==
    /\ monitor = "connect"
    /\ \/ /\ connection < MaxLinks
          /\ connection' = connection + 1 /\ monitor' = "stream"
          /\ overtaken' = (closer \notin {"idle", "ping", "notify", "impl", "connection"})
       \/ monitor' = "ended" /\ UNCHANGED <<connection, overtaken>>
    /\ UNCHANGED <<down, telemetryEventStream, flagVars, readerVars, pingThread, closer>>

openStream ==
    /\ monitor = "stream" /\ monitor' = "watch"
    /\ telemetryEventStream' = connection
    /\ UNCHANGED <<lineVars, flagVars, readerVars, pingThread, closer, overtaken>>

MonitorStep == noticeLoss \/ connect \/ openStream

----------------------------------------------------------------------------
(* close.                                                                  *)

notify == pingThread' = IF pingThread = "asleep" THEN "woken" ELSE pingThread

\* The flags are cleared before closeImpl ...
clearEvent ==
    /\ closer = "idle" /\ closer' = "ping"
    /\ telemetryEventRunning' = FALSE
    /\ UNCHANGED <<lineVars, telemetryEventStream, telemetryPingRunning, readerVars,
                   pingThread, monitor, overtaken>>

clearPing ==
    /\ closer = "ping" /\ closer' = "notify"
    /\ telemetryPingRunning' = FALSE
    /\ UNCHANGED <<lineVars, telemetryEventStream, telemetryEventRunning, readerVars,
                   pingThread, monitor, overtaken>>

notifyPing ==
    /\ closer = "notify" /\ closer' = "impl"
    /\ notify
    /\ UNCHANGED <<lineVars, telemetryEventStream, flagVars, readerVars, monitor, overtaken>>

\* closeImpl sets isClosing, closes the connection, joins the monitor thread
\* and drops the stream.
setClosing ==
    /\ closer = "impl" /\ closer' = "connection"
    /\ UNCHANGED <<lineVars, telemetryEventStream, flagVars, readerVars, pingThread, monitor,
                   overtaken>>

closeConnection ==
    /\ closer = "connection" /\ closer' = "monitor"
    /\ down' = down \cup {connection}
    /\ UNCHANGED <<connection, telemetryEventStream, flagVars, readerVars, pingThread, monitor,
                   overtaken>>

joinMonitor ==
    /\ closer = "monitor" /\ monitor = "ended" /\ closer' = "join"
    /\ telemetryEventStream' = 0
    /\ UNCHANGED <<lineVars, flagVars, readerVars, pingThread, monitor, overtaken>>

\* stopTelemetryLifecycle joins both threads, the ping thread after a second
\* notification.
joinEvent ==
    /\ closer = "join" /\ eventThread = "ended" /\ closer' = "joinPing"
    /\ notify
    /\ UNCHANGED <<lineVars, telemetryEventStream, flagVars, readerVars, monitor, overtaken>>

joinPing ==
    /\ closer = "joinPing" /\ pingThread = "ended" /\ closer' = "closed"
    /\ UNCHANGED <<lineVars, telemetryEventStream, flagVars, readerVars, pingThread, monitor,
                   overtaken>>

CloseStep ==
    \/ clearPing \/ notifyPing \/ setClosing \/ closeConnection
    \/ joinMonitor \/ joinEvent \/ joinPing

TelemetryNext ==
    \/ loseLink
    \/ EventStep \/ readEvent
    \/ PingStep \/ timeout
    \/ MonitorStep
    \/ clearEvent \/ CloseStep

----------------------------------------------------------------------------
(* Properties.                                                             *)

\* After a reconnection the event thread reads the new stream, although the
\* error of the old one may reach it only then (DeviceBase.cpp:603-625).
TelemetryResumes ==
    \A c \in 1 .. MaxLinks :
        (monitor = "watch" /\ connection = c)
            ~> (eventThread = "read" /\ stream = c) \/ c \in down \/ closer # "idle"

\* close returns: closing the connection ends a blocked read, and wait_for's
\* time a sleep that both notifications missed.  The exception is a connection
\* that the monitor makes after close has closed the one it found.
\* (DeviceBase.cpp:555-568, 633-647, 684-702.)
CloseReturns == closer = "ping" ~> closer = "closed" \/ overtaken

\* The telemetry threads outlive a connection, and not the device.
TelemetryGoesOn == TelemetryResumes /\ CloseReturns

=============================================================================

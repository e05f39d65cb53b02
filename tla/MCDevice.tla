------------------------------ MODULE MCDevice ------------------------------
(***************************************************************************)
(* What a DeviceBase does beside its connection (DeviceReconnect), model-  *)
(* checked in one go: remote procedure calls (RpcClient), its telemetry    *)
(* threads (DeviceTelemetry) and the queue their events go to              *)
(* (TelemetryQueue).  They share no state here: RpcClient describes one    *)
(* connection, and an event of a device is any event to the queue.  So an  *)
(* execution is one of a single part, chosen at the start.                 *)
(***************************************************************************)
EXTENDS RpcClient, TelemetryQueue

CONSTANT MaxLinks    \* of DeviceTelemetry

VARIABLES part,
          connection, down, telemetryEventStream, telemetryEventRunning,
          telemetryPingRunning, eventThread, copy, pingThread, monitor, closer, overtaken

T == INSTANCE DeviceTelemetry WITH stream <- copy

ASSUME TelemetryAssumption == T!TelemetryAssumption

tVars == <<connection, down, telemetryEventStream, telemetryEventRunning,
           telemetryPingRunning, eventThread, copy, pingThread, monitor, closer, overtaken>>
all == <<part, vars, queueVars, tVars>>

DeviceInit ==
    /\ part \in {"calls", "queue", "telemetry"}
    /\ Init /\ QueueInit /\ T!TelemetryInit

Calls == part = "calls" /\ UNCHANGED <<part, queueVars, tVars>>
Queue == part = "queue" /\ UNCHANGED <<part, vars, tVars>>
Telemetry == part = "telemetry" /\ UNCHANGED <<part, vars, queueVars>>

DeviceNext ==
    \/ Calls /\ Next
    \/ Queue /\ QueueNext
    \/ Telemetry /\ T!TelemetryNext

\* Threads take steps and timers run out; the telemetry server answers for good
\* again and again.  Neither the device's events nor its answers need ever come.
DeviceFairness ==
    /\ \A c \in Callers : WF_all(Calls /\ Step(c))
    /\ WF_all(Queue /\ Worker) /\ SF_all(Queue /\ postEvent("final"))
    /\ WF_all(Queue /\ interval) /\ WF_all(Queue /\ pauseOver)
    /\ WF_all(Queue /\ cleanupRunDirectory)
    /\ WF_all(Telemetry /\ T!EventStep) /\ WF_all(Telemetry /\ T!MonitorStep)
    /\ WF_all(Telemetry /\ T!PingStep) /\ WF_all(Telemetry /\ T!timeout)
    /\ WF_all(Telemetry /\ T!CloseStep)

DeviceSpec == DeviceInit /\ [][DeviceNext]_all /\ DeviceFairness

----------------------------------------------------------------------------
(* Properties; each is explained in the module of its part, where those     *)
(* that hold in every execution are stated.                                *)

\* The liveness of each part.
QueueGoesOn == part = "queue" => UploadsGoOn
TelemetryGoesOn == part = "telemetry" => T!TelemetryGoesOn
CallsAreAnswered == part = "calls" => CallsReturn

=============================================================================

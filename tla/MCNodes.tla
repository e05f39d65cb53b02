------------------------------ MODULE MCNodes ------------------------------
(***************************************************************************)
(* Three nodes that take messages from queues and pass them on, Sync, Gate *)
(* and MessageDemux, model-checked in one go: they share no state, so an   *)
(* execution is one of a single node, chosen at the start.                 *)
(***************************************************************************)
EXTENDS SyncNode, GateNode, MessageDemux

ASSUME NodesAssumption == GateAssumption /\ DemuxAssumption

Forever == -1  \* SyncAttempts: never send messages that are not in sync

VARIABLE node

all == <<node, vars, gateVars, demuxVars>>

NodesInit ==
    /\ node \in {"Sync", "Gate", "MessageDemux"} /\ Init /\ GateInit /\ DemuxInit
    /\ node # "Gate" => ~cmd.open   \* a gate that does not run has one state

SyncRuns == node = "Sync" /\ UNCHANGED <<node, gateVars, demuxVars>>
GateRuns == node = "Gate" /\ UNCHANGED <<node, vars, demuxVars>>
DemuxRuns == node = "MessageDemux" /\ UNCHANGED <<node, vars, gateVars>>

NodesNext ==
    \/ SyncRuns /\ Next
    \/ GateRuns /\ GateNext
    \/ DemuxRuns /\ DemuxNext

\* The fairness of each node's own specification.
NodesFairness ==
    /\ WF_all(SyncRuns /\ Unblocked) /\ WF_all(SyncRuns /\ ~running /\ closeOutput)
    /\ \A i \in Inputs : WF_all(SyncRuns /\ closeInput(i))
    /\ WF_all(GateRuns /\ GateUnblocked) /\ WF_all(GateRuns /\ gateRunning /\ sendOutput)
    /\ WF_all(GateRuns /\ ~gateRunning /\ stopGate)
    /\ WF_all(GateRuns /\ ~gateRunning /\ closeGateOutput)
    /\ WF_all(DemuxRuns /\ DemuxStep)
    /\ \A x \in Outputs : WF_all(DemuxRuns /\ consume(x))

NodesSpec == NodesInit /\ [][NodesNext]_all /\ NodesFairness

----------------------------------------------------------------------------
(* Properties; each is explained in the module of its node. *)

\* What a running node was given it deals with.
NodesGoOn ==
    /\ node = "Gate" => CommandsAreTaken
    /\ node = "MessageDemux" => GroupsComplete

\* After a stop (ThreadedNode::stop) the node's thread ends, wherever it is blocked.
StopEndsNodes ==
    /\ node = "Sync" => StopEndsNode
    /\ node = "Gate" => StopEndsGate

============================================================================
